----------------------------- MODULE Succession -----------------------------
(***************************************************************************)
(* What the rotation of a role promises, without databases, workers or     *)
(* processes: who may become the owner of the role, and when.              *)
(*                                                                         *)
(*   - the owner changes only by a handover to a conversation that was     *)
(*     opened with the briefing of the rotation on offer;                  *)
(*   - one rotation is on offer at a time, and a withdrawn one never       *)
(*     becomes an owner, however late its conversation appears;            *)
(*   - every handover raises the epoch by one;                             *)
(*   - a rotation briefs at most one conversation.                         *)
(***************************************************************************)
EXTENDS Naturals

CONSTANTS Chats, Rotations, None

VARIABLES owner,    \* the conversation that owns the role, None before the first rotation
          epoch,    \* handovers so far, counted from 1
          offer,    \* the rotation on offer, or None
          begun,    \* rotations that were ever offered
          brief     \* the rotation whose briefing opened a conversation, or None

vars == <<owner, epoch, offer, begun, brief>>

Init == /\ owner = None
        /\ epoch = 0
        /\ offer = None
        /\ begun = {}
        /\ brief = [c \in Chats |-> None]

\* The first offer makes the only conversation of the role its recorded owner.
Offer(r, c) == /\ offer = None
               /\ r \notin begun
               /\ IF owner = None THEN owner' = c /\ epoch' = 1
                                  ELSE UNCHANGED <<owner, epoch>>
               /\ offer' = r
               /\ begun' = begun \cup {r}
               /\ UNCHANGED brief

Withdraw == /\ offer # None
            /\ offer' = None
            /\ UNCHANGED <<owner, epoch, begun, brief>>

\* A conversation may be opened long after its rotation was withdrawn.
Brief(r, c) == /\ r \in begun
               /\ brief[c] = None
               /\ \A d \in Chats : brief[d] # r
               /\ brief' = [brief EXCEPT ![c] = r]
               /\ UNCHANGED <<owner, epoch, offer, begun>>

Handover(c) == /\ offer # None
               /\ brief[c] = offer
               /\ owner' = c
               /\ epoch' = epoch + 1
               /\ offer' = None
               /\ UNCHANGED <<begun, brief>>

Next == \/ \E r \in Rotations, c \in Chats : Offer(r, c) \/ Brief(r, c)
        \/ \E c \in Chats : Handover(c)
        \/ Withdraw

Spec == Init /\ [][Next]_vars
=============================================================================
