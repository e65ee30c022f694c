------------------------------ MODULE Delivery ------------------------------
(***************************************************************************)
(* What the durable queue promises about each message, without claims,     *)
(* workers or processes.  The operation moves between six public phases    *)
(* and its message is posted at most once:                                 *)
(*                                                                         *)
(*   - a phase from which another try may start, or that reports a failure *)
(*     before the send, is entered only while nothing was posted;          *)
(*   - delivered is entered only once the message was posted;              *)
(*   - an uncertain operation is never tried again.  It may still turn out *)
(*     to be delivered, or be dropped for a successor.                     *)
(*                                                                         *)
(* One transaction of the queue may move several operations, so a step of  *)
(* this specification lets every operation move or stay.                   *)
(***************************************************************************)
EXTENDS Naturals

CONSTANT Ops

VARIABLES phase,    \* the phase of each operation
          posted    \* messages of each operation in its conversation

vars == <<phase, posted>>

Phases == {"waiting", "trying", "delivered", "uncertain", "failed", "dropped"}

Init == /\ phase = [o \in Ops |-> "waiting"]
        /\ posted = [o \in Ops |-> 0]

\* The message may land while a try runs, or after its outcome was given up.
Post(o) == /\ phase[o] \in {"trying", "uncertain", "dropped"}
           /\ posted[o] = 0
           /\ posted'[o] = 1
           /\ phase'[o] = phase[o]

Move(o, from, to) == /\ phase[o] = from
                     /\ phase'[o] = to
                     /\ posted'[o] = posted[o]

Try(o)       == Move(o, "waiting", "trying")
GiveBack(o)  == Move(o, "trying", "waiting") /\ posted[o] = 0
Fail(o)      == Move(o, "trying", "failed") /\ posted[o] = 0
Confirm(o)   == Move(o, "trying", "delivered") /\ posted[o] = 1
Lose(o)      == Move(o, "trying", "uncertain")
Reconcile(o) == Move(o, "uncertain", "delivered") /\ posted[o] = 1
Drop(o)      == Move(o, "uncertain", "dropped") \/ Move(o, "waiting", "dropped")
Retry(o)     == Move(o, "failed", "waiting")

Stay(o) == phase'[o] = phase[o] /\ posted'[o] = posted[o]

Next == \A o \in Ops :
            \/ Post(o) \/ Try(o) \/ GiveBack(o) \/ Fail(o) \/ Confirm(o)
            \/ Lose(o) \/ Reconcile(o) \/ Drop(o) \/ Retry(o) \/ Stay(o)

Spec == Init /\ [][Next]_vars
=============================================================================
