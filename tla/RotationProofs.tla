--------------------------- MODULE RotationProofs ---------------------------
(***************************************************************************)
(* Proof that a role has one owner, passes only to the conversation of the *)
(* rotation on offer, and never to a quarantined one, for any number of    *)
(* rotations, conversations, commands, claims, checkpoints and edits.      *)
(***************************************************************************)
EXTENDS Rotation, TLAPS

\* c became an owner in an epoch before e: the user opened it, or an accepted handoff did.
Elder(c, e) == \/ remote[c] = "hand"
               \/ /\ remote[c] \in Begun
                  /\ ops[remote[c]].status = "SENT"
                  /\ ops[remote[c]].epoch < e

\* An operation is older than the role's next epoch; before it is delivered or
\* quarantined it is the rotation on offer.
OpSound(r) ==
    /\ ops[r].epoch <= logical.epoch
    /\ Elder(ops[r].caller, ops[r].epoch)
    /\ ops[r].status # "SENT" /\ r \notin Quarantined =>
          logical.state = "ROTATING" /\ logical.rotation = r /\ logical.pending = None

RoleSound ==
    /\ logical.state = "none" => logical = NoRow
    /\ logical = NoRow => Begun = {}
    /\ logical # NoRow => /\ logical.owner \in Chats /\ logical.epoch > 0
                          /\ Elder(logical.owner, logical.epoch)
                          /\ succ[logical.owner] = None
    /\ logical.state = "ROTATING" => /\ logical.rotation \in Begun
                                     /\ ops[logical.rotation].caller = logical.owner
                                     /\ ops[logical.rotation].epoch = logical.epoch
    /\ logical.pending # None => /\ logical.state = "ROTATING"
                                 /\ ops[logical.rotation].status = "SENT"
                                 /\ ops[logical.rotation].session = logical.pending
                                 /\ remote[logical.pending] = logical.rotation

QuarantineSound ==
    /\ latest = None => Quarantined = {}
    /\ latest # None => latest \in Quarantined
    /\ \A q \in Quarantined : /\ ops[q] = audit[q].row
                              /\ ops[q].status = "DELIVERY_UNKNOWN" /\ ~ops[q].witness

Unsent == {"QUEUED", "FAILED_PRE_SEND", "CANCELLED"}
ChildSound(r) ==
    /\ child[r].phase # "none" => r \in Begun /\ ops[r].status \notin Unsent
    /\ child[r].phase # "ended" => child[r].receipt = "none"
    /\ child[r].phase \in {"posted", "registered"} \/ child[r].receipt = "delivered" =>
          child[r].chat \in Chats /\ remote[child[r].chat] = r
    /\ \/ r \notin Begun \/ ops[r].status \in Unsent
       \/ child[r].phase \in {"running", "armed"} \/ child[r].receipt \in {"wait", "refused"}
       => \A c \in Chats : remote[c] # r

Opened == \A c \in Chats : registry[c] # Absent => remote[c] # None

Chosen(job) == job.rotation \in Begun /\ ops[job.rotation].epoch < logical.epoch

Linked(c) ==
    \E r \in Begun : /\ remote[succ[c].to] = r
                     /\ ops[r].status = "SENT"
                     /\ ops[r].session = succ[c].to
                     /\ ops[r].caller = c
                     /\ ops[r].epoch + 1 = succ[c].epoch

PrepareSound(c) ==
    /\ c.owner \in Chats /\ c.handoff \in 0..MaxCheckpoints
    /\ c.seen.registry[c.owner] # Absent
    /\ c.seen.logical # NoRow => c.seen.logical.state # "ROTATING" /\ c.seen.logical.owner = c.owner
    /\ c.seen.logical.state = "QUARANTINED" =>
          /\ c.seen.latest \in Quarantined
          /\ c.seen.checkpoint.number > audit[c.seen.latest].at
          /\ c.seen.checkpoint.session = c.owner
          /\ c.handoff = c.seen.checkpoint.number

RecoverSound(c) ==
    /\ c.rotation \in Rotations /\ c.chat \in Chats
    /\ c.seen.op.status = "DELIVERY_UNKNOWN" /\ c.seen.op.witness
    /\ c.seen.logical.state = "ROTATING" /\ c.seen.logical.rotation = c.rotation
    /\ remote[c.chat] = c.rotation

ActiveIn(reg) == {c \in Chats : reg[c].role = "own" /\ reg[c].status = "active"}
AckSound(c) ==
    /\ c.rotation \in Rotations
    /\ c.seen.logical.state = "ROTATING" /\ c.seen.logical.rotation = c.rotation
    /\ c.seen.logical.pending \in Chats
    /\ c.seen.latest # None => ActiveIn(c.seen.registry) = {c.seen.logical.owner}

CallSound(c) ==
    /\ c.kind = "prepare" => PrepareSound(c)
    /\ c.kind = "quarantine" => c.rotation \in Rotations
    /\ c.kind = "recover" => RecoverSound(c)
    /\ c.kind = "ack" => AckSound(c)

\* What has happened, and the part of the invariant about operations, owners and successors.
Past ==
    /\ \A c \in Chats : remote[c] \in Rotations => remote[c] \in Begun
    /\ \A c \in Chats : succ[c] # None => Linked(c)
    /\ \A job \in resumed : Chosen(job)

History == (\A r \in Begun : OpSound(r)) /\ RoleSound /\ Past

ChildrenSound == \A r \in Rotations : ChildSound(r)
CallsSound == DOMAIN call = Calls /\ \A k \in Calls : CallSound(call[k])

RotationInv == /\ TypeOK /\ History /\ QuarantineSound /\ ChildrenSound
               /\ Opened /\ ProtectedOwner /\ CallsSound

-----------------------------------------------------------------------------
(* The operations. *)

\* A row is not the absent one, and what has begun is a row.
LEMMA RowBegun == ASSUME NEW x \in OpRows PROVE x # NoOp
  BY DEF OpRows, NoOp

LEMMA BegunRow == ASSUME TypeOK, NEW r \in Begun PROVE ops[r] \in OpRows /\ r \in Rotations
  BY DEF TypeOK, Begun

\* A row that replaces another.
LEMMA RowMoved ==
    ASSUME TypeOK, NEW r \in Begun, NEW x \in OpRows, ops' = [ops EXCEPT ![r] = x]
    PROVE  /\ ops' \in [Rotations -> OpRows \cup {NoOp}] /\ ops'[r] = x
           /\ \A q \in Rotations \ {r} : ops'[q] = ops[q]
           /\ Begun' = Begun
  <1>1. x # NoOp BY RowBegun
  <1>2. r \in Rotations BY BegunRow
  <1>3. /\ ops' \in [Rotations -> OpRows \cup {NoOp}] /\ ops'[r] = x
        /\ \A q \in Rotations \ {r} : ops'[q] = ops[q]
    BY <1>2 DEF TypeOK
  <1> QED BY <1>1, <1>2, <1>3 DEF Begun

\* A row of a new rotation.
LEMMA RowAdded ==
    ASSUME TypeOK, NEW r \in Rotations \ Begun, NEW x \in OpRows, ops' = [ops EXCEPT ![r] = x]
    PROVE  /\ ops' \in [Rotations -> OpRows \cup {NoOp}] /\ ops'[r] = x
           /\ \A q \in Rotations \ {r} : ops'[q] = ops[q]
           /\ Begun' = Begun \cup {r}
  <1>1. x # NoOp BY RowBegun
  <1>2. /\ ops' \in [Rotations -> OpRows \cup {NoOp}] /\ ops'[r] = x
        /\ \A q \in Rotations \ {r} : ops'[q] = ops[q]
    BY DEF TypeOK
  <1> QED BY <1>1, <1>2 DEF Begun

-----------------------------------------------------------------------------
(* What is never taken back. *)

Grows ==
    /\ \A r \in Begun : /\ r \in Begun' /\ ops'[r].caller = ops[r].caller /\ ops'[r].epoch = ops[r].epoch
                        /\ ops[r].status = "SENT" => ops'[r].status = "SENT" /\ ops'[r].session = ops[r].session
    /\ \A c \in Chats : remote[c] # None => remote'[c] = remote[c]

LEMMA ElderKept ==
    ASSUME Grows, NEW c \in Chats, NEW e \in Nat, NEW f \in Nat, e <= f, Elder(c, e), TypeOK
    PROVE  Elder(c, f)'
  <1>1. remote[c] # None BY NoneAssumption DEF Elder, Begun
  <1>2. remote'[c] = remote[c] BY <1>1 DEF Grows
  <1>3. CASE remote[c] = "hand" BY <1>2, <1>3 DEF Elder
  <1>4. CASE remote[c] \in Begun
    <2>1. PICK r \in Begun : r = remote[c] BY <1>4
    <2>2. ops[r] \in OpRows BY BegunRow
    <2>3. ops[r].epoch \in Nat BY <2>2 DEF OpRows
    <2>4. ops[r].status = "SENT" /\ ops[r].epoch < e
      BY <2>1, <1>4, NoneAssumption, HandAssumption DEF Elder, Begun
    <2> QED BY <1>2, <2>1, <2>3, <2>4 DEF Elder, Grows
  <1> QED BY <1>3, <1>4 DEF Elder

LEMMA LinkedKept ==
    ASSUME Grows, NEW c \in Chats, succ[c] # None, succ'[c] = succ[c], Linked(c), TypeOK
    PROVE  Linked(c)'
  <1>1. PICK s : s = succ[c] OBVIOUS
  <1>2. s.to \in Chats BY <1>1 DEF TypeOK
  <1>3. PICK r \in Begun : /\ remote[s.to] = r /\ ops[r].status = "SENT" /\ ops[r].session = s.to
                          /\ ops[r].caller = c /\ ops[r].epoch + 1 = s.epoch
    BY <1>1 DEF Linked
  <1>4. r # None BY NoneAssumption DEF Begun
  <1>5. /\ r \in Begun' /\ ops'[r].status = "SENT" /\ ops'[r].session = s.to
        /\ ops'[r].caller = c /\ ops'[r].epoch + 1 = s.epoch /\ remote'[s.to] = r
    BY <1>2, <1>3, <1>4 DEF Grows
  <1>6. succ'[c] = s BY <1>1
  <1> QED BY <1>5, <1>6 DEF Linked
\* What a row that replaces another must keep.
Follows(x, r) ==
    /\ x \in OpRows /\ x.caller = ops[r].caller /\ x.epoch = ops[r].epoch
    /\ ops[r].status = "SENT" => x.status = "SENT" /\ x.session = ops[r].session

LEMMA MovedGrows ==
    ASSUME TypeOK, NEW r \in Begun, NEW x, Follows(x, r), ops' = [ops EXCEPT ![r] = x],
           UNCHANGED remote
    PROVE  Grows
  BY RowMoved, BegunRow DEF Follows, Grows

\* Facts about what has begun, whoever moves on.
LEMMA PastKept ==
    ASSUME TypeOK, Past, Grows, UNCHANGED <<succ, resumed>>,
           NEW e \in Nat, NEW f \in Nat, e <= f, e = logical.epoch, logical'.epoch = f,
           \A c \in Chats : remote'[c] # remote[c] => remote'[c] \in Begun \cup {None}
    PROVE  Past'
  <1>1. ASSUME NEW c \in Chats, remote'[c] \in Rotations PROVE remote'[c] \in Begun'
    BY <1>1, NoneAssumption DEF Past, Grows
  <1>2. ASSUME NEW c \in Chats, succ'[c] # None PROVE Linked(c)'
    BY <1>2, LinkedKept DEF Past
  <1>3. ASSUME NEW job \in resumed PROVE Chosen(job)'
    <2>1. PICK r \in Begun : r = job.rotation /\ ops[r].epoch < e BY <1>3 DEF Past, Chosen
    <2>2. ops[r].epoch \in Nat BY BegunRow DEF OpRows
    <2>3. r \in Begun' /\ ops'[r].epoch < f BY <2>1, <2>2 DEF Grows
    <2> QED BY <2>1, <2>3 DEF Chosen
  <1> QED BY <1>1, <1>2, <1>3 DEF Past

\* An operation moves on without being delivered.
LEMMA MoveKeepsHistory ==
    ASSUME TypeOK, History, NEW r \in Begun, NEW x, Follows(x, r), ops' = [ops EXCEPT ![r] = x],
           ops[r].status # "SENT", x.status # "SENT", r \notin Quarantined,
           UNCHANGED <<logical, remote, audit, succ, resumed>>
    PROVE  History'
  <1>1. Grows BY MovedGrows
  <1>2. /\ ops'[r] = x /\ Begun' = Begun /\ Quarantined' = Quarantined
        /\ \A q \in Rotations \ {r} : ops'[q] = ops[q]
    BY RowMoved DEF Follows, Quarantined
  <1>3. logical.epoch \in Nat /\ logical.owner \in Chats \cup {None} BY DEF TypeOK, LogicalRows
  <1>4. ASSUME NEW q \in Begun PROVE OpSound(q)'
    <2>1. PICK c \in Chats, e \in Nat : c = ops[q].caller /\ e = ops[q].epoch
      BY BegunRow DEF OpRows
    <2>2. c = ops'[q].caller /\ e = ops'[q].epoch BY <1>1, <2>1 DEF Grows
    <2>3. Elder(c, e)' BY <1>1, <2>1, ElderKept DEF History, OpSound
    <2>4. q \in Rotations BY BegunRow
    <2>5. ops'[q].status # "SENT" /\ q \notin Quarantined => ops[q].status # "SENT"
      BY <1>2, <2>4
    <2> QED BY <1>2, <2>1, <2>2, <2>3, <2>5 DEF History, OpSound
  <1>5. RoleSound'
    <2>1. logical # NoRow => Elder(logical.owner, logical.epoch)'
      BY <1>1, <1>3, ElderKept DEF History, RoleSound
    <2>2. logical.pending # None => logical.rotation \in Rotations \ {r}
      BY BegunRow DEF History, RoleSound
    <2>3. logical.state = "ROTATING" => /\ logical.rotation \in Begun'
                                        /\ ops'[logical.rotation].caller = logical.owner
                                        /\ ops'[logical.rotation].epoch = logical.epoch
      BY <1>1, <1>2 DEF History, RoleSound, Grows
    <2> QED BY <1>2, <2>1, <2>2, <2>3 DEF History, RoleSound
  <1>6. Past' BY <1>1, <1>3, PastKept DEF History
  <1> QED BY <1>2, <1>4, <1>5, <1>6 DEF History

\* An operation is delivered: its conversation is the pending successor.
LEMMA DeliveryKeepsHistory ==
    ASSUME TypeOK, History, NEW r \in Begun, NEW x, Follows(x, r), ops' = [ops EXCEPT ![r] = x],
           ops[r].status # "SENT", r \notin Quarantined,
           NEW c \in Chats, x.status = "SENT", x.session = c, remote[c] = r,
           logical'.owner = logical.owner, logical'.epoch = logical.epoch,
           logical'.state = logical.state, logical'.rotation = logical.rotation,
           logical'.pending = c,
           UNCHANGED <<remote, audit, succ, resumed>>
    PROVE  History'
  <1>1. Grows BY MovedGrows
  <1>2. /\ ops'[r] = x /\ Begun' = Begun /\ Quarantined' = Quarantined
        /\ \A q \in Rotations \ {r} : ops'[q] = ops[q]
    BY RowMoved DEF Follows, Quarantined
  <1>4. logical.epoch \in Nat /\ logical.owner \in Chats \cup {None} BY DEF TypeOK, LogicalRows
  <1>5. logical.state = "ROTATING" /\ logical.rotation = r BY DEF History, OpSound
  <1>6. logical # NoRow /\ logical' # NoRow BY <1>5 DEF NoRow
  <1>7. ASSUME NEW q \in Begun PROVE OpSound(q)'
    <2>1. PICK d \in Chats, e \in Nat : d = ops[q].caller /\ e = ops[q].epoch
      BY BegunRow DEF OpRows
    <2>2. d = ops'[q].caller /\ e = ops'[q].epoch BY <1>1, <2>1 DEF Grows
    <2>3. Elder(d, e)' BY <1>1, <2>1, ElderKept DEF History, OpSound
    <2>4. q \in Rotations BY BegunRow
    <2>5. ops'[q].status = "SENT" \/ q \in Quarantined
      BY <1>2, <1>5, <2>4 DEF History, OpSound
    <2> QED BY <1>2, <2>1, <2>2, <2>3, <2>5 DEF History, OpSound
  <1>8. RoleSound'
    <2>1. PICK d \in Chats, e \in Nat : d = logical.owner /\ e = logical.epoch /\ Elder(d, e)
      BY <1>4, <1>6 DEF History, RoleSound
    <2>3. Elder(d, e)' BY <1>1, <2>1, ElderKept
    <2>2. /\ r \in Begun' /\ ops'[r].caller = logical.owner /\ ops'[r].epoch = logical.epoch
      BY <1>1, <1>2, <1>5 DEF History, RoleSound, Grows
    <2> QED BY <1>2, <1>5, <1>6, <2>1, <2>2, <2>3 DEF History, RoleSound
  <1>9. Past' BY <1>1, <1>4, PastKept DEF History
  <1> QED BY <1>2, <1>7, <1>8, <1>9 DEF History
\* A rotation is put on offer.
LEMMA OfferKeepsHistory ==
    ASSUME TypeOK, History, Opened, NEW r \in Rotations \ Begun, NEW c \in Chats, registry[c] # Absent,
           NEW x \in OpRows, ops' = [ops EXCEPT ![r] = x], x.status = "QUEUED", x.caller = c,
           x.epoch = IF logical = NoRow THEN 1 ELSE logical.epoch,
           logical = NoRow \/ (logical.state # "ROTATING" /\ logical.owner = c),
           logical' = [owner |-> c, epoch |-> x.epoch, state |-> "ROTATING", pending |-> None,
                       rotation |-> r],
           UNCHANGED <<remote, audit, succ, resumed>>
    PROVE  History'
  <1>1. /\ ops'[r] = x /\ Begun' = Begun \cup {r} /\ Quarantined' = Quarantined
        /\ \A q \in Rotations \ {r} : ops'[q] = ops[q]
    BY RowAdded DEF Quarantined
  <1>2. /\ logical'.owner = c /\ logical'.epoch = x.epoch /\ logical'.state = "ROTATING"
        /\ logical'.pending = None /\ logical'.rotation = r /\ logical' # NoRow
    BY DEF NoRow
  <1>3. Grows BY <1>1, BegunRow DEF Grows
  <1>4. logical.epoch \in Nat /\ x.epoch \in Nat /\ logical.epoch <= x.epoch /\ x.epoch > 0
    BY DEF TypeOK, LogicalRows, NoRow, OpRows
  <1>5. CASE logical = NoRow
    <2>1. Begun = {} BY <1>5 DEF History, RoleSound
    <2>2. remote[c] = "hand"
      BY <2>1, NoneAssumption, HandAssumption DEF Opened, TypeOK, History, Past
    <2>3. succ[c] = None BY <2>1 DEF History, Past, Linked
    <2> QED BY <2>2, <2>3, <1>1, <1>2, <1>3, <1>4, <2>1, PastKept DEF History, OpSound, RoleSound, Elder
  <1>6. CASE logical # NoRow
    <2>1. PICK f \in Nat : f = x.epoch /\ f = logical.epoch BY <1>4, <1>6
    <2>2. Elder(c, f)' BY <1>3, <1>6, <2>1, ElderKept DEF History, RoleSound
    <2>3. ASSUME NEW q \in Begun PROVE OpSound(q)'
      <3>1. PICK d \in Chats, e \in Nat : d = ops[q].caller /\ e = ops[q].epoch
        BY BegunRow DEF OpRows
      <3>2. ops'[q] = ops[q] BY <1>1, BegunRow
      <3>3. Elder(d, e)' BY <1>3, <3>1, ElderKept DEF History, OpSound
      <3> QED BY <1>1, <1>2, <1>6, <2>1, <3>1, <3>2, <3>3 DEF History, OpSound
    <2>4. OpSound(r)' BY <1>1, <1>2, <2>1, <2>2, <1>4 DEF OpSound
    <2>5. RoleSound' BY <1>1, <1>2, <1>4, <1>6, <2>1, <2>2 DEF History, RoleSound
    <2>6. Past' BY <1>2, <1>3, <1>4, PastKept DEF History
    <2> QED BY <1>1, <2>3, <2>4, <2>5, <2>6 DEF History
  <1> QED BY <1>5, <1>6

\* An event is no missing event.
LEMMA EventAudited == ASSUME NEW x, NEW n PROVE [row |-> x, at |-> n] # NoAudit
  BY DEF NoAudit

\* The rotation on offer is quarantined.
LEMMA QuarantineKeepsHistory ==
    ASSUME TypeOK, History, NEW r \in Begun, NEW n, ops[r].status = "DELIVERY_UNKNOWN",
           audit' = [audit EXCEPT ![r] = [row |-> ops[r], at |-> n]],
           logical.rotation = r, logical.state = "ROTATING",
           logical' = [logical EXCEPT !.state = "QUARANTINED"],
           UNCHANGED <<ops, remote, succ, resumed>>
    PROVE  History' /\ Quarantined' = Quarantined \cup {r}
  <1>1. r \in Rotations BY BegunRow
  <1>2. Begun' = Begun /\ Quarantined' = Quarantined \cup {r}
    BY <1>1, EventAudited DEF Begun, Quarantined, TypeOK
  <1>3. /\ logical'.owner = logical.owner /\ logical'.epoch = logical.epoch
        /\ logical'.state = "QUARANTINED" /\ logical'.rotation = r /\ logical'.pending = logical.pending
        /\ logical' # NoRow /\ logical # NoRow
    BY DEF TypeOK, LogicalRows, NoRow
  <1>4. logical.pending = None BY DEF History, RoleSound, OpSound
  <1>5. Grows BY <1>2 DEF Grows
  <1>6. logical.epoch \in Nat BY DEF TypeOK, LogicalRows
  <1>7. \A q \in Begun : OpSound(q)'
    BY <1>2, <1>3, <1>4 DEF History, OpSound, Elder
  <1>8. RoleSound' BY <1>2, <1>3, <1>4 DEF History, RoleSound, Elder
  <1>9. Past' BY <1>3, <1>5, <1>6, PastKept DEF History
  <1> QED BY <1>2, <1>7, <1>8, <1>9 DEF History

\* A conversation is opened with the message of a rotation.
LEMMA PostKeepsHistory ==
    ASSUME TypeOK, History, NEW r \in Begun, NEW d \in Chats, remote[d] = None,
           remote' = [remote EXCEPT ![d] = r], UNCHANGED <<ops, logical, audit, succ, resumed>>
    PROVE  History' /\ Grows
  <1>1. Begun' = Begun /\ Quarantined' = Quarantined BY DEF Begun, Quarantined
  <1>2. remote'[d] = r /\ \A c \in Chats \ {d} : remote'[c] = remote[c] BY DEF TypeOK
  <1>3. Grows BY <1>1, <1>2 DEF Grows
  <1>4. logical.epoch \in Nat /\ logical.owner \in Chats \cup {None} BY DEF TypeOK, LogicalRows
  <1>5. ASSUME NEW q \in Begun PROVE OpSound(q)'
    <2>1. PICK c \in Chats, e \in Nat : c = ops[q].caller /\ e = ops[q].epoch
      BY BegunRow DEF OpRows
    <2>2. Elder(c, e)' BY <1>3, <2>1, ElderKept DEF History, OpSound
    <2> QED BY <1>1, <2>1, <2>2 DEF History, OpSound
  <1>6. RoleSound'
    <2>1. logical # NoRow => Elder(logical.owner, logical.epoch)'
      BY <1>3, <1>4, ElderKept DEF History, RoleSound
    <2>2. logical.pending # None => logical.pending \in Chats /\ logical.rotation # None
      BY NoneAssumption DEF TypeOK, LogicalRows, History, RoleSound, Begun
    <2> QED BY <1>1, <1>2, <2>1, <2>2 DEF History, RoleSound
  <1>7. Past' BY <1>2, <1>3, <1>4, PastKept DEF History
  <1> QED BY <1>1, <1>3, <1>5, <1>6, <1>7 DEF History

\* The successor acknowledges: it is nobody's predecessor yet.
LEMMA SuccessorIsNew ==
    ASSUME TypeOK, History, logical.pending # None
    PROVE  /\ logical.pending \in Chats /\ logical.pending # logical.owner /\ succ[logical.pending] = None
           /\ logical.owner \in Chats
  <1>1. PICK r \in Begun, c \in Chats :
           /\ c = logical.pending /\ remote[c] = r /\ ops[r].epoch = logical.epoch
           /\ ops[r].status = "SENT"
    BY DEF TypeOK, LogicalRows, History, RoleSound
  <1>2. r # "hand" /\ logical.epoch \in Nat BY HandAssumption DEF Begun, TypeOK, LogicalRows
  <1>3. ~Elder(c, logical.epoch) BY <1>1, <1>2 DEF Elder
  <1>4. logical # NoRow BY DEF NoRow
  <1>5. c # logical.owner /\ logical.owner \in Chats BY <1>3, <1>4 DEF History, RoleSound
  <1>6. ASSUME succ[c] # None PROVE FALSE
    <2>1. PICK q \in Begun : ops[q].caller = c BY <1>6 DEF History, Past, Linked
    <2>2. Elder(c, ops[q].epoch) /\ ops[q].epoch <= logical.epoch BY <2>1 DEF History, OpSound
    <2>3. ops[q].epoch \in Nat BY BegunRow DEF OpRows
    <2> QED BY <1>1, <1>2, <2>2, <2>3 DEF Elder
  <1> QED BY <1>1, <1>5, <1>6

LEMMA HandoverKeepsHistory ==
    ASSUME TypeOK, History, logical.pending # None,
           succ' = [succ EXCEPT ![logical.owner] = [to |-> logical.pending, epoch |-> logical.epoch + 1]],
           logical'.owner = logical.pending, logical'.epoch = logical.epoch + 1,
           logical'.state = "ACTIVE", logical'.pending = None,
           \A job \in resumed' \ resumed : job.rotation = logical.rotation,
           UNCHANGED <<ops, remote, audit>>
    PROVE  History'
  <1>1. PICK new \in Chats, old \in Chats, e \in Nat, r \in Begun :
           /\ new = logical.pending /\ old = logical.owner /\ e = logical.epoch /\ r = logical.rotation
    BY SuccessorIsNew DEF TypeOK, LogicalRows, History, RoleSound
  <1>2. /\ ops[r].status = "SENT" /\ ops[r].session = new /\ remote[new] = r
        /\ ops[r].caller = old /\ ops[r].epoch = e
    BY <1>1 DEF History, RoleSound
  <1>3. Begun' = Begun /\ Quarantined' = Quarantined BY DEF Begun, Quarantined
  <1>4. Grows BY <1>3 DEF Grows
  <1>5. logical' # NoRow /\ e + 1 \in Nat BY DEF NoRow
  <1>6. succ'[old] = [to |-> new, epoch |-> e + 1] /\ \A c \in Chats \ {old} : succ'[c] = succ[c]
    BY <1>1 DEF TypeOK
  <1>7. \A q \in Begun : OpSound(q)'
    <2> SUFFICES ASSUME NEW q \in Begun PROVE OpSound(q)' OBVIOUS
    <2>1. ops[q].epoch \in Nat BY BegunRow DEF OpRows
    <2> QED BY <1>1, <1>3, <2>1 DEF History, OpSound, Elder
  <1>8. RoleSound'
    <2>1. Elder(new, e + 1)' BY <1>2, <1>3 DEF Elder
    <2>2. succ'[new] = None BY <1>1, <1>6, SuccessorIsNew
    <2> QED BY <1>1, <1>5, <2>1, <2>2 DEF RoleSound
  <1>9. Past'
    <2>1. ASSUME NEW c \in Chats, succ'[c] # None PROVE Linked(c)'
      <3>1. CASE c = old
        <4>1. PICK s : s = succ'[old] /\ s.to = new /\ s.epoch = e + 1 BY <1>6
        <4> QED BY <1>2, <1>3, <3>1, <4>1 DEF Linked
      <3>2. CASE c # old BY <1>4, <1>6, <2>1, <3>2, LinkedKept DEF History, Past
      <3> QED BY <3>1, <3>2
    <2>2. ASSUME NEW job \in resumed' PROVE Chosen(job)'
      <3>1. CASE job \in resumed
        <4>1. ops[job.rotation].epoch < e /\ job.rotation \in Begun BY <1>1, <3>1 DEF History, Past, Chosen
        <4>2. ops[job.rotation].epoch \in Nat BY <4>1, BegunRow DEF OpRows
        <4> QED BY <1>1, <1>3, <4>1, <4>2 DEF Chosen
      <3>2. CASE job \notin resumed BY <1>1, <1>2, <1>3, <2>2, <3>2 DEF Chosen
      <3> QED BY <3>1, <3>2
    <2> QED BY <1>3, <2>1, <2>2 DEF History, Past
  <1> QED BY <1>3, <1>7, <1>8, <1>9 DEF History
-----------------------------------------------------------------------------
(* The other parts of the invariant. *)

\* A control command that began, ended or went on as it was, after everybody else's steps.
LEMMA CallKept ==
    ASSUME Grows, NEW c, CallSound(c),
           \A q \in Quarantined : q \in Quarantined' /\ audit'[q] = audit[q]
    PROVE  CallSound(c)'
  <1>1. c.kind = "recover" => RecoverSound(c)'
    BY NoneAssumption DEF CallSound, RecoverSound, Grows
  <1>2. c.kind = "prepare" => PrepareSound(c)'
    BY DEF CallSound, PrepareSound
  <1> QED BY <1>1, <1>2 DEF CallSound, AckSound, ActiveIn

LEMMA CallsKept ==
    ASSUME Grows, CallsSound, UNCHANGED call,
           \A q \in Quarantined : q \in Quarantined' /\ audit'[q] = audit[q]
    PROVE  CallsSound'
  BY CallKept DEF CallsSound

LEMMA CallReplaced ==
    ASSUME Grows, CallsSound, NEW k \in Calls, NEW c, call' = [call EXCEPT ![k] = c], CallSound(c)',
           \A q \in Quarantined : q \in Quarantined' /\ audit'[q] = audit[q]
    PROVE  CallsSound'
  <1>1. DOMAIN call' = Calls /\ call'[k] = c /\ \A j \in Calls \ {k} : call'[j] = call[j]
    BY DEF CallsSound
  <1>2. ASSUME NEW j \in Calls PROVE CallSound(call[j])' \/ call'[j] # call[j]
    <2>1. PICK d : d = call[j] OBVIOUS
    <2>2. CallSound(d)' BY <2>1, CallKept DEF CallsSound
    <2> QED BY <2>1, <2>2
  <1>3. ASSUME NEW j \in Calls PROVE CallSound(call[j])'
    <2>1. CASE j = k BY <1>1, <2>1
    <2>2. CASE j # k BY <1>1, <1>2, <2>2
    <2> QED BY <2>1, <2>2
  <1> QED BY <1>1, <1>3 DEF CallsSound

LEMMA CallEnded ==
    ASSUME Grows, CallsSound, NEW k \in Calls, call' = [call EXCEPT ![k] = Idle],
           \A q \in Quarantined : q \in Quarantined' /\ audit'[q] = audit[q]
    PROVE  CallsSound'
  <1>1. CallSound(Idle)' BY DEF CallSound, Idle
  <1> QED BY <1>1, CallReplaced

\* Only one rotation's operation, child and conversations change.
LEMMA ChildrenKept ==
    ASSUME ChildrenSound, NEW r \in Rotations, ChildSound(r)',
           \A q \in Rotations \ {r} : ops'[q] = ops[q] /\ child'[q] = child[q],
           \A c \in Chats : remote'[c] # remote[c] => remote[c] = None /\ remote'[c] = r
    PROVE  ChildrenSound'
  <1> SUFFICES ASSUME NEW q \in Rotations \ {r} PROVE ChildSound(q)' BY DEF ChildrenSound
  <1>1. ChildSound(q) /\ ops'[q] = ops[q] /\ child'[q] = child[q] BY DEF ChildrenSound
  <1>2. q \in Begun' <=> q \in Begun BY <1>1 DEF Begun
  <1>3. \A c \in Chats : remote[c] = q <=> remote'[c] = q BY NoneAssumption
  <1> QED BY <1>1, <1>2, <1>3 DEF ChildSound

LEMMA QuarantineKept ==
    ASSUME QuarantineSound, UNCHANGED <<audit, latest>>, \A q \in Quarantined : ops'[q] = ops[q]
    PROVE  QuarantineSound'
  BY DEF QuarantineSound, Quarantined

\* The registry, its roles and the owner stay.
LEMMA RegistryKept ==
    ASSUME Opened, ProtectedOwner, Grows, UNCHANGED <<registry, latest>>, logical'.owner = logical.owner
    PROVE  Opened' /\ ProtectedOwner'
  BY DEF Opened, ProtectedOwner, Grows, Actives, Of

-----------------------------------------------------------------------------
(* The operation and its child. *)

\* No child at all.
LEMMA NoChildFits == NoChild \in Children /\ NoChild.phase = "none" /\ NoChild.receipt = "none"
  BY DEF NoChild, Children

\* An operation moves on with its child, and is not delivered.
LEMMA OpStep ==
    ASSUME RotationInv, NEW r \in Begun, NEW x, Follows(x, r), ops' = [ops EXCEPT ![r] = x],
           ops[r].status \notin {"SENT", "DELIVERY_UNKNOWN"}, x.status # "SENT",
           child' \in [Rotations -> Children], ChildSound(r)',
           \A q \in Rotations \ {r} : child'[q] = child[q],
           UNCHANGED <<registry, logical, audit, latest, checkpoint, succ, tasks, resumed, remote, call, load>>
    PROVE  RotationInv'
  <1>1. r \in Rotations BY DEF Begun
  <1>2. r \notin Quarantined BY DEF RotationInv, QuarantineSound
  <1>3. /\ ops' \in [Rotations -> OpRows \cup {NoOp}] /\ ops'[r] = x
        /\ \A q \in Rotations \ {r} : ops'[q] = ops[q]
    BY RowMoved DEF Follows, RotationInv
  <1>4. Grows BY MovedGrows DEF RotationInv
  <1>5. TypeOK' BY <1>3 DEF RotationInv, TypeOK
  <1>6. History' BY <1>2, MoveKeepsHistory DEF RotationInv
  <1>7. QuarantineSound' BY <1>2, <1>3, QuarantineKept DEF RotationInv, Quarantined
  <1>8. ChildrenSound' BY <1>1, <1>3, ChildrenKept DEF RotationInv
  <1>9. Quarantined' = Quarantined BY DEF Quarantined
  <1>10. Opened' /\ ProtectedOwner' BY <1>4, RegistryKept DEF RotationInv
  <1>11. CallsSound' BY <1>4, <1>9, CallsKept DEF RotationInv
  <1> QED BY <1>5, <1>6, <1>7, <1>8, <1>10, <1>11 DEF RotationInv

\* Only the status changes, and the child stays.
LEMMA StatusStep ==
    ASSUME RotationInv, NEW r \in Begun, NEW st, ops' = [ops EXCEPT ![r].status = st],
           \/ ops[r].status \in {"QUEUED", "FAILED_PRE_SEND"} /\ st \in {"QUEUED", "CANCELLED"}
           \/ ops[r].status = "DISPATCHING" /\ st = "DELIVERY_UNKNOWN",
           UNCHANGED <<registry, logical, audit, latest, checkpoint, succ, tasks, resumed, child, remote, call, load>>
    PROVE  RotationInv'
  <1>1. ops[r] \in OpRows /\ r \in Rotations BY BegunRow DEF RotationInv
  <1>2. PICK o \in OpRows : o = ops[r] BY <1>1
  <1>3. PICK x : x = [o EXCEPT !.status = st] OBVIOUS
  <1>4. ops' = [ops EXCEPT ![r] = x] BY <1>2, <1>3
  <1>5. x \in OpRows /\ x.status = st /\ x.caller = o.caller /\ x.epoch = o.epoch
    BY <1>2, <1>3 DEF OpRows
  <1>6. Follows(x, r) BY <1>2, <1>5 DEF Follows
  <1>7. ops'[r] = x /\ Begun' = Begun BY <1>4, <1>5, RowMoved DEF RotationInv
  <1>8. ChildSound(r) BY <1>1 DEF RotationInv, ChildrenSound
  <1>9. ChildSound(r)' BY <1>2, <1>5, <1>7, <1>8 DEF ChildSound, Unsent
  <1>10. child' \in [Rotations -> Children] BY DEF RotationInv, TypeOK
  <1> QED BY <1>2, <1>4, <1>5, <1>6, <1>9, <1>10, OpStep

LEMMA CancelSafe == ASSUME RotationInv, NEW r \in Rotations, Cancel(r) PROVE RotationInv'
  BY StatusStep DEF Cancel

LEMMA RetrySafe == ASSUME RotationInv, NEW r \in Rotations, Retry(r) PROVE RotationInv'
  BY StatusStep DEF Retry

LEMMA ExpireSafe == ASSUME RotationInv, NEW r \in Rotations, Expire(r) PROVE RotationInv'
  BY StatusStep DEF Expire

LEMMA ClaimSafe == ASSUME RotationInv, NEW r \in Rotations, Claim(r) PROVE RotationInv'
  <1>1. r \in Begun /\ ops[r] \in OpRows BY BegunRow DEF RotationInv, Claim
  <1>2. PICK o \in OpRows : o = ops[r] /\ o.status = "QUEUED" BY <1>1 DEF Claim
  <1>3. PICK x : x = Claimed(o) OBVIOUS
  <1>4. ops' = [ops EXCEPT ![r] = x] BY <1>2, <1>3 DEF Claim
  <1>5. o.attempts + 1 \in 0..MaxClaims
    <2>1. load.claims \in 0..MaxClaims /\ o.attempts < load.claims BY <1>2 DEF Claim, RotationInv, TypeOK
    <2> QED BY <1>2, <2>1, BoundAssumption DEF OpRows
  <1>6. x \in OpRows /\ x.status = "DISPATCHING" /\ x.caller = o.caller /\ x.epoch = o.epoch
    BY <1>2, <1>3, <1>5 DEF OpRows, Claimed
  <1>7. Follows(x, r) BY <1>2, <1>6 DEF Follows
  <1>8. ops'[r] = x /\ Begun' = Begun BY <1>1, <1>4, <1>6, RowMoved DEF RotationInv
  <1>9. ChildSound(r) BY DEF RotationInv, ChildrenSound
  <1>10. PICK y : y = [NoChild EXCEPT !.phase = "running"] OBVIOUS
  <1>13. child' = [child EXCEPT ![r] = y] BY <1>10 DEF Claim
  <1>14. y \in Children /\ y.phase = "running" /\ y.receipt = "none"
    <2>1. PICK n \in Children : n = NoChild /\ n.receipt = "none" BY NoChildFits
    <2> QED BY <1>10, <2>1 DEF Children
  <1>11. /\ child' \in [Rotations -> Children] /\ child'[r] = y
         /\ \A q \in Rotations \ {r} : child'[q] = child[q]
    BY <1>13, <1>14 DEF RotationInv, TypeOK
  <1>12. ChildSound(r)' BY <1>1, <1>2, <1>6, <1>8, <1>9, <1>14, <1>11 DEF ChildSound, Unsent, Claim
  <1> QED BY <1>1, <1>2, <1>4, <1>6, <1>7, <1>11, <1>12, OpStep DEF Claim
\* History reads these variables only.
LEMMA HistoryFrame ==
    ASSUME History, UNCHANGED <<ops, logical, remote, audit, succ, resumed>>
    PROVE  History' /\ Grows /\ Quarantined' = Quarantined
  <1>1. Begun' = Begun /\ Quarantined' = Quarantined BY DEF Begun, Quarantined
  <1>2. \A q \in Begun : OpSound(q)' BY <1>1 DEF History, OpSound, Elder
  <1>3. RoleSound' BY <1>1 DEF History, RoleSound, Elder
  <1>4. Past' BY <1>1 DEF History, Past, Linked, Chosen
  <1> QED BY <1>1, <1>2, <1>3, <1>4 DEF History, Grows

\* Only the child moves, and the registry with it.
LEMMA ChildStep ==
    ASSUME RotationInv, NEW r \in Rotations, NEW y \in Children, child' = [child EXCEPT ![r] = y],
           ChildSound(r)', registry' \in [Chats -> Entries], Opened', ProtectedOwner',
           UNCHANGED <<logical, ops, audit, latest, checkpoint, succ, tasks, resumed, remote, call, load>>
    PROVE  RotationInv'
  <1>1. child' \in [Rotations -> Children] /\ \A q \in Rotations \ {r} : child'[q] = child[q]
    BY DEF RotationInv, TypeOK
  <1>2. TypeOK' BY <1>1 DEF RotationInv, TypeOK
  <1>3. History' /\ Grows /\ Quarantined' = Quarantined BY HistoryFrame DEF RotationInv
  <1>4. QuarantineSound' BY QuarantineKept DEF RotationInv
  <1>5. ChildrenSound' BY <1>1, ChildrenKept DEF RotationInv
  <1>6. CallsSound' BY <1>3, CallsKept DEF RotationInv
  <1> QED BY <1>2, <1>3, <1>4, <1>5, <1>6 DEF RotationInv

LEMMA ArmSafe == ASSUME RotationInv, NEW r \in Rotations, Arm(r) PROVE RotationInv'
  <1>1. PICK d \in Children : d = child[r] /\ d.phase = "running" BY DEF RotationInv, TypeOK, Arm
  <1>2. PICK y : y = [d EXCEPT !.phase = "armed"] OBVIOUS
  <1>3. child' = [child EXCEPT ![r] = y] BY <1>1, <1>2 DEF Arm
  <1>4. y \in Children /\ y.phase = "armed" /\ y.receipt = d.receipt /\ y.chat = d.chat
    BY <1>1, <1>2 DEF Children
  <1>5. child'[r] = y BY <1>3 DEF RotationInv, TypeOK
  <1>6. ChildSound(r) BY DEF RotationInv, ChildrenSound
  <1>7. ChildSound(r)' BY <1>1, <1>4, <1>5, <1>6 DEF ChildSound, Unsent, Arm, Begun
  <1>8. registry' \in [Chats -> Entries] /\ Opened' /\ ProtectedOwner'
    BY DEF RotationInv, TypeOK, Opened, ProtectedOwner, Actives, Of, Arm
  <1> QED BY <1>3, <1>4, <1>7, <1>8, ChildStep DEF Arm

LEMMA ChildEndsSafe == ASSUME RotationInv, NEW r \in Rotations, ChildEnds(r) PROVE RotationInv'
  <1>1. PICK d \in Children : d = child[r] BY DEF RotationInv, TypeOK
  <1>2. PICK left \in Left(d.phase) : child' = [child EXCEPT ![r].phase = "ended", ![r].receipt = left]
    BY <1>1 DEF ChildEnds
  <1>3. PICK y : y = [d EXCEPT !.phase = "ended", !.receipt = left] OBVIOUS
  <1>4. child' = [child EXCEPT ![r] = y] BY <1>1, <1>2, <1>3
  <1>5. /\ d.phase \in {"running", "armed", "posted", "registered"}
        /\ left \in {"wait", "refused", "witnessed", "unknown", "delivered"}
        /\ left \in {"wait", "refused"} => d.phase = "running"
        /\ left = "delivered" => d.phase = "registered"
    BY <1>1, <1>2 DEF Left, Children
  <1>6. y \in Children /\ y.phase = "ended" /\ y.receipt = left /\ y.chat = d.chat
    BY <1>1, <1>3, <1>5 DEF Children
  <1>7. child'[r] = y BY <1>4 DEF RotationInv, TypeOK
  <1>8. ChildSound(r) BY DEF RotationInv, ChildrenSound
  <1>9. ChildSound(r)' BY <1>1, <1>5, <1>6, <1>7, <1>8 DEF ChildSound, Unsent, ChildEnds, Begun
  <1>10. registry' \in [Chats -> Entries] /\ Opened' /\ ProtectedOwner'
    BY DEF RotationInv, TypeOK, Opened, ProtectedOwner, Actives, Of, ChildEnds
  <1> QED BY <1>4, <1>6, <1>9, <1>10, ChildStep DEF ChildEnds

\* A new entry of the registry that is not an active one of the role, or was one before.
LEMMA EntryPut ==
    ASSUME RotationInv, NEW c \in Chats, NEW x \in Entries, registry' = [registry EXCEPT ![c] = x],
           x # Absent => remote[c] # None, x.role = "own" /\ x.status = "active" => c \in Actives \/ latest = None,
           UNCHANGED <<remote, latest, logical>>
    PROVE  registry' \in [Chats -> Entries] /\ Opened' /\ ProtectedOwner'
  <1>1. /\ registry' \in [Chats -> Entries] /\ registry'[c] = x
        /\ \A d \in Chats \ {c} : registry'[d] = registry[d]
    BY DEF RotationInv, TypeOK
  <1>2. Opened' BY <1>1 DEF RotationInv, Opened
  <1>3. ProtectedOwner' BY <1>1 DEF RotationInv, ProtectedOwner, Actives, Of
  <1> QED BY <1>1, <1>2, <1>3

LEMMA EntryFits == ASSUME NEW st \in ChatStatuses
                   PROVE  Entry(st) \in Entries /\ Entry(st).status = st /\ Entry(st).proof = None
  BY DEF Entry, Entries

LEMMA RegisterSafe == ASSUME RotationInv, NEW r \in Rotations, Register(r) PROVE RotationInv'
  <1>1. PICK d \in Children : d = child[r] /\ d.phase = "posted" BY DEF RotationInv, TypeOK, Register
  <1>2. ChildSound(r) BY DEF RotationInv, ChildrenSound
  <1>3. /\ r \in Begun /\ ops[r].status \notin Unsent /\ d.receipt = "none"
        /\ d.chat \in Chats /\ remote[d.chat] = r /\ remote[d.chat] # None
    BY <1>1, <1>2, NoneAssumption DEF ChildSound
  <1>4. r \in Begun' BY <1>3 DEF Begun, Register
  <1>5. CASE registry' = [registry EXCEPT ![d.chat] = Entry("pending")] /\ child' = [child EXCEPT ![r].phase = "registered"]
    <2>1. PICK y : y = [d EXCEPT !.phase = "registered"] OBVIOUS
    <2>2. child' = [child EXCEPT ![r] = y] BY <1>1, <1>5, <2>1
    <2>3. y \in Children /\ y.phase = "registered" /\ y.receipt = "none" /\ y.chat = d.chat
      BY <1>1, <1>3, <2>1 DEF Children
    <2>4. child'[r] = y BY <2>2 DEF RotationInv, TypeOK
    <2>5. ChildSound(r)' BY <1>3, <1>4, <2>3, <2>4 DEF ChildSound, Register, Unsent
    <2>6. PICK x \in Entries : x = Entry("pending") /\ x.status = "pending"
      BY EntryFits DEF ChatStatuses
    <2>7. registry' \in [Chats -> Entries] /\ Opened' /\ ProtectedOwner'
      BY <1>3, <1>5, <2>6, EntryPut DEF Register
    <2> QED BY <2>2, <2>3, <2>5, <2>7, ChildStep DEF Register
  <1>6. CASE UNCHANGED registry /\ \E left \in {"witnessed", "unknown"} :
                    child' = [child EXCEPT ![r].phase = "ended", ![r].receipt = left]
    <2>1. PICK left \in {"witnessed", "unknown"} :
                    child' = [child EXCEPT ![r].phase = "ended", ![r].receipt = left]
      BY <1>6
    <2>2. PICK y : y = [d EXCEPT !.phase = "ended", !.receipt = left] OBVIOUS
    <2>3. child' = [child EXCEPT ![r] = y] BY <1>1, <2>1, <2>2
    <2>4. y \in Children /\ y.phase = "ended" /\ y.receipt = left /\ y.chat = d.chat
      BY <1>1, <2>2 DEF Children
    <2>5. child'[r] = y BY <2>3 DEF RotationInv, TypeOK
    <2>6. ChildSound(r)' BY <1>3, <1>4, <2>4, <2>5 DEF ChildSound, Register, Unsent
    <2>7. registry' \in [Chats -> Entries] /\ Opened' /\ ProtectedOwner'
      BY <1>6 DEF RotationInv, TypeOK, Opened, ProtectedOwner, Actives, Of, Register
    <2> QED BY <2>3, <2>4, <2>6, <2>7, ChildStep DEF Register
  <1> QED BY <1>1, <1>5, <1>6 DEF Register

LEMMA PostSafe == ASSUME RotationInv, NEW r \in Rotations, Post(r) PROVE RotationInv'
  <1>1. PICK d \in Children : d = child[r] /\ d.phase = "armed" BY DEF RotationInv, TypeOK, Post
  <1>2. PICK c \in Chats : /\ remote[c] = None /\ remote' = [remote EXCEPT ![c] = r]
                           /\ child' = [child EXCEPT ![r].phase = "posted", ![r].chat = c]
    BY DEF Post
  <1>3. ChildSound(r) BY DEF RotationInv, ChildrenSound
  <1>4. r \in Begun /\ ops[r].status \notin Unsent /\ d.receipt = "none" BY <1>1, <1>3 DEF ChildSound
  <1>5. PICK y : y = [d EXCEPT !.phase = "posted", !.chat = c] OBVIOUS
  <1>6. child' = [child EXCEPT ![r] = y] BY <1>1, <1>2, <1>5
  <1>7. y \in Children /\ y.phase = "posted" /\ y.receipt = "none" /\ y.chat = c
    BY <1>1, <1>4, <1>5 DEF Children
  <1>8. /\ child' \in [Rotations -> Children] /\ child'[r] = y
        /\ \A q \in Rotations \ {r} : child'[q] = child[q]
    BY <1>6, <1>7 DEF RotationInv, TypeOK
  <1>9. /\ remote' \in [Chats -> Rotations \cup {"hand", None}] /\ remote'[c] = r
        /\ \A e \in Chats \ {c} : remote'[e] = remote[e]
    BY <1>2 DEF RotationInv, TypeOK
  <1>10. TypeOK' BY <1>8, <1>9 DEF RotationInv, TypeOK, Post
  <1>11. History' /\ Grows BY <1>2, <1>4, PostKeepsHistory DEF RotationInv, Post
  <1>12. Quarantined' = Quarantined /\ Begun' = Begun BY DEF Quarantined, Begun, Post
  <1>13. QuarantineSound' BY QuarantineKept DEF RotationInv, Post
  <1>14. ChildSound(r)' BY <1>4, <1>7, <1>8, <1>9, <1>12 DEF ChildSound, Post, Unsent
  <1>15. ChildrenSound' BY <1>2, <1>8, <1>9, <1>14, ChildrenKept DEF RotationInv, Post
  <1>16. Opened' /\ ProtectedOwner' BY <1>11, RegistryKept DEF RotationInv, Post
  <1>17. CallsSound' BY <1>11, <1>12, CallsKept DEF RotationInv, Post
  <1> QED BY <1>10, <1>11, <1>13, <1>15, <1>16, <1>17 DEF RotationInv
\* The worker finishes the claim with what the child left.
LEMMA FinishSafe == ASSUME RotationInv, NEW r \in Rotations, Finish(r) PROVE RotationInv'
  <1>1. PICK d \in Children : d = child[r] /\ d.phase = "ended" BY DEF RotationInv, TypeOK, Finish
  <1>2. ChildSound(r) BY DEF RotationInv, ChildrenSound
  <1>3. r \in Begun /\ ops[r].status \notin Unsent BY <1>1, <1>2 DEF ChildSound
  <1>4. child' = [child EXCEPT ![r] = NoChild] BY DEF Finish
  <1>5. /\ child' \in [Rotations -> Children] /\ child'[r].phase = "none" /\ child'[r].receipt = "none"
        /\ \A q \in Rotations \ {r} : child'[q] = child[q]
    BY <1>4, NoChildFits DEF RotationInv, TypeOK
  <1>6. CASE ~Finishable(r)
    <2>1. UNCHANGED <<ops, logical>> BY <1>6 DEF Finish
    <2>2. Begun' = Begun BY <2>1 DEF Begun
    <2>3. ChildSound(r)' BY <1>3, <1>5, <2>1, <2>2 DEF ChildSound, Unsent
    <2>4. registry' \in [Chats -> Entries] /\ Opened' /\ ProtectedOwner'
      BY <2>1 DEF RotationInv, TypeOK, Opened, ProtectedOwner, Actives, Of, Finish
    <2> QED BY <1>4, <2>1, <2>3, <2>4, NoChildFits, ChildStep DEF Finish
  <1>7. CASE Finishable(r)
    <2>1. PICK o \in OpRows : o = ops[r] /\ o.status = "DISPATCHING"
      BY <1>3, <1>7, BegunRow DEF RotationInv, Finishable
    <2>2. PICK x : x = Finished(o, d.receipt, d.chat) OBVIOUS
    <2>3. /\ ops' = [ops EXCEPT ![r] = x]
          /\ logical' = IF d.receipt = "delivered" THEN Pending(r, d.chat) ELSE logical
      BY <1>1, <1>7, <2>1, <2>2 DEF Finish
    <2>4. CASE d.receipt # "delivered"
      <3>1. /\ x \in OpRows /\ x.status # "SENT" /\ x.caller = o.caller /\ x.epoch = o.epoch
            /\ x.status \in Unsent => d.receipt \in {"wait", "refused"}
        BY <2>1, <2>2, <2>4 DEF Finished, OpRows, Unsent
      <3>2. Follows(x, r) BY <2>1, <3>1 DEF Follows
      <3>3. ops'[r] = x /\ Begun' = Begun BY <1>3, <2>3, <3>1, RowMoved DEF RotationInv
      <3>4. ChildSound(r)' BY <1>1, <1>2, <1>3, <1>5, <3>1, <3>3 DEF ChildSound, Finish
      <3> QED BY <1>3, <1>5, <2>1, <2>3, <2>4, <3>1, <3>2, <3>4, OpStep DEF Finish
    <2>5. CASE d.receipt = "delivered"
      <3>1. PICK c \in Chats : c = d.chat /\ remote[c] = r BY <1>1, <1>2, <2>5 DEF ChildSound
      <3>2. /\ x \in OpRows /\ x.status = "SENT" /\ x.caller = o.caller /\ x.epoch = o.epoch
            /\ x.session = c
        BY <2>1, <2>2, <2>5, <3>1 DEF Finished, OpRows
      <3>3. Follows(x, r) BY <2>1, <3>2 DEF Follows
      <3>4. /\ ops'[r] = x /\ Begun' = Begun /\ ops' \in [Rotations -> OpRows \cup {NoOp}]
            /\ \A q \in Rotations \ {r} : ops'[q] = ops[q]
        BY <1>3, <2>3, <3>2, RowMoved DEF RotationInv
      <3>5. r \notin Quarantined BY <2>1 DEF RotationInv, QuarantineSound
      <3>6. logical.rotation = r /\ logical.state = "ROTATING" /\ logical # NoRow
        BY <1>3, <2>1, <3>5 DEF RotationInv, History, OpSound, NoRow
      <3>7. logical' = [logical EXCEPT !.pending = c] BY <2>3, <2>5, <3>1, <3>6 DEF Pending
      <3>8. /\ logical' \in LogicalRows /\ logical'.pending = c /\ logical'.owner = logical.owner
            /\ logical'.epoch = logical.epoch /\ logical'.state = logical.state
            /\ logical'.rotation = logical.rotation
        BY <3>7 DEF RotationInv, TypeOK, LogicalRows
      <3>9. TypeOK' BY <1>5, <3>4, <3>8 DEF RotationInv, TypeOK, Finish
      <3>10. History' BY <1>3, <2>1, <2>3, <3>1, <3>2, <3>3, <3>5, <3>8, DeliveryKeepsHistory
        DEF RotationInv, Finish
      <3>11. Grows BY <1>3, <2>3, <3>3, MovedGrows DEF RotationInv, Finish
      <3>12. QuarantineSound' BY <3>4, <3>5, QuarantineKept DEF RotationInv, Finish, Quarantined
      <3>13. ChildSound(r)' BY <1>3, <1>5, <3>2, <3>4 DEF ChildSound, Unsent
      <3>14. ChildrenSound' BY <1>5, <3>4, <3>13, ChildrenKept DEF RotationInv, Finish
      <3>15. Opened' /\ ProtectedOwner' BY <3>8, <3>11, RegistryKept DEF RotationInv, Finish
      <3>16. CallsSound' BY <3>11, CallsKept DEF RotationInv, Finish, Quarantined
      <3> QED BY <3>9, <3>10, <3>12, <3>14, <3>15, <3>16 DEF RotationInv
    <2> QED BY <2>4, <2>5
  <1> QED BY <1>6, <1>7

-----------------------------------------------------------------------------
(* Edits by hand, checkpoints and exhausted tasks. *)

LEMMA PutSafe ==
    ASSUME RotationInv, NEW c \in Chats, NEW x \in Entries, Put(c, x), x # Absent => remote[c] # None
    PROVE  RotationInv'
  <1>1. x.role = "own" /\ x.status = "active" => c \in Actives \/ latest = None
    BY DEF Put, FenceAdmits, Actives, Of
  <1>2. registry' \in [Chats -> Entries] /\ Opened' /\ ProtectedOwner'
    BY <1>1, EntryPut DEF Put
  <1>3. load' \in [calls : Nat, claims : 0..MaxClaims,
                   checkpoints : 0..MaxCheckpoints, edits : Nat, exhausted : BOOLEAN]
    BY DEF Put, RotationInv, TypeOK
  <1>4. TypeOK' BY <1>2, <1>3 DEF RotationInv, TypeOK, Put
  <1>5. History' /\ Grows /\ Quarantined' = Quarantined BY HistoryFrame DEF RotationInv, Put
  <1>6. QuarantineSound' BY QuarantineKept DEF RotationInv, Put
  <1>7. ChildrenSound' BY DEF RotationInv, ChildrenSound, ChildSound, Begun, Put
  <1>8. CallsSound' BY <1>5, CallsKept DEF RotationInv, Put
  <1> QED BY <1>2, <1>4, <1>5, <1>6, <1>7, <1>8 DEF RotationInv

LEMMA RegisterByHandSafe == ASSUME RotationInv, NEW c \in Chats, RegisterByHand(c) PROVE RotationInv'
  <1>1. PICK e \in Entries : e = registry[c] BY DEF RotationInv, TypeOK
  <1>2. PICK st \in ChatStatuses : Put(c, [e EXCEPT !.status = st, !.role = "own"])
    BY <1>1 DEF RegisterByHand, Entries, ChatStatuses
  <1>3. PICK x : x = [e EXCEPT !.status = st, !.role = "own"] OBVIOUS
  <1>4. x \in Entries BY <1>3 DEF Entries
  <1> QED BY <1>2, <1>3, <1>4, PutSafe DEF RegisterByHand

LEMMA RetireByHandSafe == ASSUME RotationInv, NEW c \in Chats, RetireByHand(c) PROVE RotationInv'
  <1>1. PICK e \in Entries : e = registry[c] BY DEF RotationInv, TypeOK
  <1>2. PICK x : x = [e EXCEPT !.status = "retired"] OBVIOUS
  <1>3. x \in Entries BY <1>2 DEF Entries, ChatStatuses
  <1>4. Absent.status = "absent" BY EntryFits DEF Absent, ChatStatuses
  <1>5. remote[c] # None BY <1>4 DEF RotationInv, Opened, RetireByHand
  <1> QED BY <1>1, <1>2, <1>3, <1>5, PutSafe DEF RetireByHand

LEMMA ForgetByHandSafe == ASSUME RotationInv, NEW c \in Chats, ForgetByHand(c) PROVE RotationInv'
  BY EntryFits, PutSafe DEF ForgetByHand, Absent, ChatStatuses

\* What nobody else reads.
LEMMA AsideSafe ==
    ASSUME RotationInv, TypeOK',
           UNCHANGED <<registry, logical, ops, audit, latest, succ, resumed, child, remote, call>>
    PROVE  RotationInv'
  <1>1. History' /\ Grows /\ Quarantined' = Quarantined BY HistoryFrame DEF RotationInv
  <1>2. QuarantineSound' BY QuarantineKept DEF RotationInv
  <1>3. ChildrenSound' BY DEF RotationInv, ChildrenSound, ChildSound, Begun
  <1>4. Opened' /\ ProtectedOwner' BY <1>1, RegistryKept DEF RotationInv
  <1>5. CallsSound' BY <1>1, CallsKept DEF RotationInv
  <1> QED BY <1>1, <1>2, <1>3, <1>4, <1>5 DEF RotationInv

LEMMA CheckpointSafe == ASSUME RotationInv, NEW c \in Chats, TakeCheckpoint(c) PROVE RotationInv'
  <1>1. load.checkpoints \in 0..MaxCheckpoints /\ checkpoint.number \in 0..MaxCheckpoints
    BY DEF RotationInv, TypeOK, Checkpoints
  <1>2. checkpoint' \in Checkpoints
    BY <1>1, BoundAssumption DEF TakeCheckpoint, Checkpoints
  <1>3. TypeOK' BY <1>2 DEF RotationInv, TypeOK, TakeCheckpoint
  <1> QED BY <1>3, AsideSafe DEF TakeCheckpoint

LEMMA ExhaustSafe == ASSUME RotationInv, NEW t \in Tasks, Exhaust(t) PROVE RotationInv'
  <1>1. tasks' \in [Tasks -> [session : Chats, blocked : BOOLEAN]]
    BY DEF RotationInv, TypeOK, Exhaust
  <1>2. TypeOK' BY <1>1 DEF RotationInv, TypeOK, Exhaust
  <1> QED BY <1>2, AsideSafe DEF Exhaust
-----------------------------------------------------------------------------
(* Control commands. *)

\* A command reads, or ends without a commit.
LEMMA CallStep ==
    ASSUME RotationInv, NEW k \in Calls, NEW c, call' = [call EXCEPT ![k] = c], CallSound(c),
           UNCHANGED <<registry, logical, ops, audit, latest, checkpoint, succ, tasks, resumed, child, remote, load>>
    PROVE  RotationInv'
  <1>1. History' /\ Grows /\ Quarantined' = Quarantined BY HistoryFrame DEF RotationInv
  <1>2. TypeOK' BY DEF RotationInv, TypeOK
  <1>3. QuarantineSound' BY QuarantineKept DEF RotationInv
  <1>4. ChildrenSound' BY DEF RotationInv, ChildrenSound, ChildSound, Begun
  <1>5. Opened' /\ ProtectedOwner' BY <1>1, RegistryKept DEF RotationInv
  <1>6. CallSound(c)' BY <1>1, CallKept
  <1>7. CallsSound' BY <1>1, <1>6, CallReplaced DEF RotationInv
  <1> QED BY <1>1, <1>2, <1>3, <1>4, <1>5, <1>7 DEF RotationInv

LEMMA IdleSound == CallSound(Idle)
  BY DEF CallSound, Idle

LEMMA PrepareReadSafe == ASSUME RotationInv, NEW k \in Calls, PrepareRead(k) PROVE RotationInv'
  <1>1. PICK c \in Chats, handoff \in {0, checkpoint.number} :
         /\ Actives = {c} /\ OwnerUnchanged(c)
         /\ logical.state = "QUARANTINED" => FreshCheckpoint(c, handoff)
         /\ call' = [call EXCEPT ![k] = [kind |-> "prepare", owner |-> c,
                                         handoff |-> handoff, seen |-> PrepareView]]
    BY DEF PrepareRead
  <1>2. PICK v : v = PrepareView OBVIOUS
  <1>3. /\ v.registry = registry /\ v.logical = logical /\ v.checkpoint = checkpoint /\ v.latest = latest
    BY <1>2 DEF PrepareView
  <1>4. PICK x : x = [kind |-> "prepare", owner |-> c, handoff |-> handoff, seen |-> v] OBVIOUS
  <1>5. x.kind = "prepare" /\ x.owner = c /\ x.handoff = handoff /\ x.seen = v BY <1>4
  <1>6. call' = [call EXCEPT ![k] = x] BY <1>1, <1>2, <1>4
  <1>7. handoff \in 0..MaxCheckpoints BY BoundAssumption DEF RotationInv, TypeOK, Checkpoints
  <1>8. Absent.status = "absent" BY EntryFits DEF Absent, ChatStatuses
  <1>9. registry[c] # Absent BY <1>1, <1>8 DEF Actives, Of
  <1>10. logical.state = "QUARANTINED" =>
           /\ latest \in Quarantined /\ checkpoint.number > audit[latest].at
           /\ checkpoint.session = c /\ handoff = checkpoint.number
    BY <1>1 DEF FreshCheckpoint, RotationInv, QuarantineSound
  <1>11. PrepareSound(x) BY <1>1, <1>3, <1>5, <1>7, <1>9, <1>10 DEF PrepareSound, OwnerUnchanged
  <1>12. CallSound(x) BY <1>5, <1>11 DEF CallSound
  <1> QED BY <1>6, <1>12, CallStep DEF PrepareRead

LEMMA QuarantinePreviewSafe ==
    ASSUME RotationInv, NEW k \in Calls, NEW r \in Rotations, QuarantinePreview(k, r)
    PROVE  RotationInv'
  <1>1. PICK x : x = [kind |-> "quarantine", rotation |-> r, seen |-> QuarantineView(r)] OBVIOUS
  <1>2. CallSound(x) BY <1>1 DEF CallSound
  <1> QED BY <1>1, <1>2, CallStep DEF QuarantinePreview

LEMMA RecoverReadSafe ==
    ASSUME RotationInv, NEW k \in Calls, NEW r \in Rotations, NEW c \in Chats, RecoverRead(k, r, c)
    PROVE  RotationInv'
  <1>1. PICK v : v = RecoverView(r) OBVIOUS
  <1>2. v.op = ops[r] /\ v.logical = logical BY <1>1 DEF RecoverView
  <1>3. PICK x : x = [kind |-> "recover", rotation |-> r, chat |-> c, seen |-> v] OBVIOUS
  <1>4. x.kind = "recover" /\ x.rotation = r /\ x.chat = c /\ x.seen = v BY <1>3
  <1>5. RecoverSound(x) BY <1>2, <1>4 DEF RecoverSound, RecoverRead
  <1>6. CallSound(x) BY <1>4, <1>5 DEF CallSound
  <1> QED BY <1>1, <1>3, <1>6, CallStep DEF RecoverRead

LEMMA AckReadSafe ==
    ASSUME RotationInv, NEW k \in Calls, NEW r \in Rotations, NEW c \in Chats, AckRead(k, r, c)
    PROVE  RotationInv'
  <1>1. PICK v : v = AckView(r) OBVIOUS
  <1>2. v.registry = registry /\ v.logical = logical /\ v.latest = latest BY <1>1 DEF AckView
  <1>3. PICK x : x = [kind |-> "ack", rotation |-> r, seen |-> v] OBVIOUS
  <1>4. x.kind = "ack" /\ x.rotation = r /\ x.seen = v BY <1>3
  <1>5. latest # None => ActiveIn(registry) = {logical.owner}
    BY DEF AckRead, MayAck, EventLinked, Actives, Of, ActiveIn
  <1>6. AckSound(x) BY <1>2, <1>4, <1>5 DEF AckSound, AckRead, MayAck
  <1>7. CallSound(x) BY <1>4, <1>6 DEF CallSound
  <1> QED BY <1>1, <1>3, <1>7, CallStep DEF AckRead

LEMMA PrepareCommitSafe == ASSUME RotationInv, NEW k \in Calls, PrepareCommit(k) PROVE RotationInv'
  <1>1. PICK a : a = call[k] /\ a.kind = "prepare" /\ PrepareSound(a)
    BY DEF PrepareCommit, RotationInv, CallsSound, CallSound
  <1>2. CASE UNCHANGED <<logical, ops>>
    BY <1>2, IdleSound, CallStep DEF PrepareCommit
  <1>3. CASE ~UNCHANGED <<logical, ops>>
    <2>1. a.seen = PrepareView BY <1>1, <1>3 DEF PrepareCommit, PrepareUnchanged
    <2>2. a.seen.registry = registry /\ a.seen.logical = logical /\ a.seen.latest = latest
      BY <2>1 DEF PrepareView
    <2>3. PICK c \in Chats : /\ c = a.owner /\ registry[c] # Absent
                             /\ logical = NoRow \/ (logical.state # "ROTATING" /\ logical.owner = c)
      BY <1>1, <2>2 DEF PrepareSound
    <2>4. PICK e \in Nat \ {0} : e = IF logical = NoRow THEN 1 ELSE logical.epoch
      <3>1. logical.epoch \in Nat /\ (logical # NoRow => logical.epoch > 0)
        BY DEF RotationInv, TypeOK, LogicalRows, History, RoleSound
      <3>2. (IF logical = NoRow THEN 1 ELSE logical.epoch) \in Nat \ {0} BY <3>1
      <3> QED BY <3>2
    <2>5. PICK r \in Rotations \ Begun :
                  /\ logical' = [owner |-> c, epoch |-> e, state |-> "ROTATING",
                                 pending |-> None, rotation |-> r]
                  /\ ops' = [ops EXCEPT ![r] =
                               [status |-> "QUEUED", attempts |-> 0, caller |-> c,
                                epoch |-> e, session |-> None,
                                event |-> latest, handoff |-> a.handoff,
                                witness |-> FALSE]]
      BY <1>1, <1>3, <2>2, <2>3, <2>4 DEF PrepareCommit
    <2>6. PICK x : x = [status |-> "QUEUED", attempts |-> 0, caller |-> c, epoch |-> e, session |-> None,
                        event |-> latest, handoff |-> a.handoff, witness |-> FALSE]
      OBVIOUS
    <2>7. x \in OpRows /\ x.status = "QUEUED" /\ x.caller = c /\ x.epoch = e
      <3>1. latest \in Rotations \cup {None} /\ a.handoff \in 0..MaxCheckpoints /\ 0 \in 0..MaxClaims
        BY <1>1, BoundAssumption DEF RotationInv, TypeOK, PrepareSound
      <3> QED BY <2>6, <3>1 DEF OpRows
    <2>8. /\ ops' \in [Rotations -> OpRows \cup {NoOp}] /\ ops'[r] = x
          /\ \A q \in Rotations \ {r} : ops'[q] = ops[q]
          /\ Begun' = Begun \cup {r}
      BY <2>5, <2>6, <2>7, RowAdded DEF RotationInv
    <2>9. logical' \in LogicalRows BY <2>5 DEF LogicalRows
    <2>10. TypeOK' BY <2>8, <2>9 DEF RotationInv, TypeOK, PrepareCommit
    <2>11. History' BY <2>3, <2>4, <2>5, <2>6, <2>7, OfferKeepsHistory DEF RotationInv, PrepareCommit
    <2>12. Grows BY <2>8, BegunRow DEF RotationInv, Grows, PrepareCommit
    <2>13. ops[r] = NoOp /\ NoOp.status = "none" BY DEF Begun, NoOp
    <2>14. Quarantined' = Quarantined /\ r \notin Quarantined
      BY <2>13 DEF Quarantined, PrepareCommit, RotationInv, QuarantineSound
    <2>15. QuarantineSound' BY <2>8, <2>14, QuarantineKept DEF RotationInv, PrepareCommit, Quarantined
    <2>16. ChildSound(r) BY DEF RotationInv, ChildrenSound
    <2>17. ChildSound(r)' BY <2>7, <2>8, <2>16 DEF ChildSound, PrepareCommit
    <2>18. ChildrenSound' BY <2>8, <2>17, ChildrenKept DEF RotationInv, PrepareCommit
    <2>19. Opened' BY DEF Opened, RotationInv, PrepareCommit
    <2>20. ProtectedOwner'
      <3>1. CASE logical = NoRow
        <4>1. Quarantined = {}
          BY <3>1, BegunRow DEF RotationInv, History, RoleSound, QuarantineSound, Quarantined, Begun, NoOp
        <4> QED BY <4>1 DEF RotationInv, QuarantineSound, ProtectedOwner, PrepareCommit
      <3>2. CASE logical # NoRow
        <4>1. logical'.owner = logical.owner BY <2>3, <2>5, <3>2
        <4> QED BY <4>1, <2>12, RegistryKept DEF RotationInv, PrepareCommit
      <3> QED BY <3>1, <3>2
    <2>21. CallsSound' BY <2>12, <2>14, CallEnded DEF RotationInv, PrepareCommit
    <2> QED BY <2>10, <2>11, <2>15, <2>18, <2>19, <2>20, <2>21 DEF RotationInv
  <1> QED BY <1>2, <1>3

LEMMA QuarantineConfirmSafe == ASSUME RotationInv, NEW k \in Calls, QuarantineConfirm(k) PROVE RotationInv'
  <1>1. PICK r \in Rotations : r = call[k].rotation
    BY DEF QuarantineConfirm, RotationInv, CallsSound, CallSound
  <1>2. CASE UNCHANGED <<audit, latest, logical>>
    BY <1>2, IdleSound, CallStep DEF QuarantineConfirm
  <1>3. CASE ~UNCHANGED <<audit, latest, logical>>
    <2>1. /\ audit[r] = NoAudit /\ MayQuarantine(r)
          /\ audit' = [audit EXCEPT ![r] = [row |-> ops[r], at |-> checkpoint.number]]
          /\ latest' = r
          /\ logical' = [logical EXCEPT !.state = "QUARANTINED"]
      BY <1>1, <1>3 DEF QuarantineConfirm
    <2>2. ops[r] \in OpRows BY <2>1, BegunRow DEF RotationInv, MayQuarantine
    <2>3. PICK x \in Audits : x = [row |-> ops[r], at |-> checkpoint.number] /\ x.row = ops[r]
      <3>1. checkpoint.number \in 0..MaxCheckpoints BY DEF RotationInv, TypeOK, Checkpoints
      <3>2. [row |-> ops[r], at |-> checkpoint.number] \in Audits BY <2>2, <3>1 DEF Audits
      <3> QED BY <3>2
    <2>4. /\ audit' \in [Rotations -> Audits \cup {NoAudit}] /\ audit'[r] = x
          /\ \A q \in Rotations \ {r} : audit'[q] = audit[q]
      BY <2>1, <2>3 DEF RotationInv, TypeOK
    <2>5. logical' \in LogicalRows /\ logical'.owner = logical.owner
      BY <2>1 DEF RotationInv, TypeOK, LogicalRows
    <2>6. TypeOK' BY <2>1, <2>4, <2>5 DEF RotationInv, TypeOK, QuarantineConfirm
    <2>7. History' /\ Quarantined' = Quarantined \cup {r}
      BY <2>1, QuarantineKeepsHistory DEF RotationInv, QuarantineConfirm, MayQuarantine
    <2>8. Grows BY DEF Grows, QuarantineConfirm, Begun
    <2>9. \A q \in Quarantined : q \in Quarantined' /\ q # r /\ audit'[q] = audit[q]
      BY <2>1, <2>4, <2>7 DEF Quarantined
    <2>10. QuarantineSound'
      BY <2>1, <2>3, <2>4, <2>7, <2>9, NoneAssumption
      DEF QuarantineSound, RotationInv, MayQuarantine, QuarantineConfirm
    <2>11. ChildrenSound' BY DEF RotationInv, ChildrenSound, ChildSound, Begun, QuarantineConfirm
    <2>12. Opened' BY DEF Opened, RotationInv, QuarantineConfirm
    <2>13. ProtectedOwner'
      BY <2>1, <2>5 DEF ProtectedOwner, MayQuarantine, Actives, Of, QuarantineConfirm
    <2>14. CallsSound' BY <2>8, <2>9, CallEnded DEF RotationInv, QuarantineConfirm
    <2> QED BY <2>6, <2>7, <2>10, <2>11, <2>12, <2>13, <2>14 DEF RotationInv
  <1> QED BY <1>2, <1>3
LEMMA RecoverCommitSafe == ASSUME RotationInv, NEW k \in Calls, RecoverCommit(k) PROVE RotationInv'
  <1>1. PICK a : a = call[k] /\ a.kind = "recover" /\ RecoverSound(a)
    BY DEF RecoverCommit, RotationInv, CallsSound, CallSound
  <1>2. PICK r \in Rotations, c \in Chats : r = a.rotation /\ c = a.chat /\ remote[c] = r
    BY <1>1 DEF RecoverSound
  <1>3. CASE UNCHANGED <<registry, logical, ops>>
    BY <1>3, IdleSound, CallStep DEF RecoverCommit
  <1>4. CASE ~UNCHANGED <<registry, logical, ops>>
    <2>1. /\ a.seen = RecoverView(r)
          /\ registry' = [a.seen.registry EXCEPT ![c] = Recovered(r)]
          /\ logical' = [logical EXCEPT !.pending = c]
          /\ ops' = [ops EXCEPT ![r].status = "SENT", ![r].session = c]
      BY <1>1, <1>2, <1>4 DEF RecoverCommit
    <2>2. a.seen.op = ops[r] /\ a.seen.registry = registry BY <2>1 DEF RecoverView
    <2>3. ops[r].status = "DELIVERY_UNKNOWN" /\ ops[r].witness BY <1>1, <2>2 DEF RecoverSound
    <2>4. r \in Begun BY <2>3 DEF Begun, NoOp
    <2>5. PICK o \in OpRows : o = ops[r] BY <2>4, BegunRow DEF RotationInv
    <2>6. PICK x : x = [o EXCEPT !.status = "SENT", !.session = c] OBVIOUS
    <2>7. ops' = [ops EXCEPT ![r] = x] BY <2>1, <2>5, <2>6
    <2>8. /\ x \in OpRows /\ x.status = "SENT" /\ x.session = c /\ x.caller = o.caller /\ x.epoch = o.epoch
      BY <2>6 DEF OpRows
    <2>9. Follows(x, r) BY <2>3, <2>5, <2>8 DEF Follows
    <2>10. /\ ops' \in [Rotations -> OpRows \cup {NoOp}] /\ ops'[r] = x /\ Begun' = Begun
           /\ \A q \in Rotations \ {r} : ops'[q] = ops[q]
      BY <2>4, <2>7, <2>8, RowMoved DEF RotationInv
    <2>11. r \notin Quarantined BY <2>3 DEF RotationInv, QuarantineSound
    <2>12. /\ logical' \in LogicalRows /\ logical'.pending = c /\ logical'.owner = logical.owner
           /\ logical'.epoch = logical.epoch /\ logical'.state = logical.state
           /\ logical'.rotation = logical.rotation
      BY <2>1 DEF RotationInv, TypeOK, LogicalRows
    <2>13. PICK y \in Entries : y = Recovered(r) /\ y.role = "aside"
      <3>1. Recovered(r) \in Entries /\ Recovered(r).role = "aside"
        BY DEF Recovered, Entries, ChatStatuses
      <3> QED BY <3>1
    <2>14. registry' \in [Chats -> Entries] /\ Opened' /\ ProtectedOwner'
      <3>1. registry' = [registry EXCEPT ![c] = y] BY <2>1, <2>2, <2>13
      <3>2. /\ registry' \in [Chats -> Entries] /\ registry'[c] = y
            /\ \A d \in Chats \ {c} : registry'[d] = registry[d]
        BY <3>1 DEF RotationInv, TypeOK
      <3>3. Opened' BY <1>2, <3>2, NoneAssumption DEF RotationInv, Opened, RecoverCommit
      <3>4. ProtectedOwner'
        BY <2>12, <2>13, <3>2 DEF RotationInv, ProtectedOwner, Actives, Of, RecoverCommit
      <3> QED BY <3>2, <3>3, <3>4
    <2>15. TypeOK' BY <2>10, <2>12, <2>14 DEF RotationInv, TypeOK, RecoverCommit
    <2>16. History'
      BY <1>2, <2>3, <2>4, <2>7, <2>8, <2>9, <2>11, <2>12, DeliveryKeepsHistory DEF RotationInv, RecoverCommit
    <2>17. Grows BY <2>4, <2>7, <2>9, MovedGrows DEF RotationInv, RecoverCommit
    <2>18. QuarantineSound' BY <2>10, <2>11, QuarantineKept DEF RotationInv, RecoverCommit, Quarantined
    <2>19. ChildSound(r) BY DEF RotationInv, ChildrenSound
    <2>20. ChildSound(r)'
      BY <2>3, <2>4, <2>8, <2>10, <2>19 DEF ChildSound, Unsent, RecoverCommit
    <2>21. ChildrenSound' BY <2>10, <2>20, ChildrenKept DEF RotationInv, RecoverCommit
    <2>22. CallsSound' BY <2>17, CallEnded DEF RotationInv, RecoverCommit, Quarantined
    <2> QED BY <2>14, <2>15, <2>16, <2>18, <2>21, <2>22 DEF RotationInv
  <1> QED BY <1>3, <1>4

\* What an acknowledgement commits, and why it may.
HandsOver(r, old, new) ==
    /\ r = logical.rotation /\ old = logical.owner /\ new = logical.pending
    /\ logical.state = "ROTATING" /\ old # new /\ remote[new] = r
    /\ latest # None => Actives = {old}
    /\ registry' = HandedOver(registry, old, new)
    /\ tasks' = [t \in Tasks |-> IF t \in Waiting(tasks, old)
                                 THEN [session |-> new, blocked |-> FALSE] ELSE tasks[t]]
    /\ succ' = [succ EXCEPT ![old] = [to |-> new, epoch |-> logical.epoch + 1]]
    /\ logical' = [logical EXCEPT !.owner = new, !.epoch = @ + 1, !.state = "ACTIVE",
                                  !.pending = None, !.rotation = None]
    /\ resumed' = resumed \cup {[rotation |-> r, task |-> t, to |-> new] : t \in Waiting(tasks, old)}

LEMMA AckEffect ==
    ASSUME RotationInv, NEW k \in Calls, AckCommit(k), ~UNCHANGED <<registry, tasks, succ, logical, resumed>>
    PROVE  \E r \in Begun, old \in Chats, new \in Chats : HandsOver(r, old, new)
  <1>1. PICK a : a = call[k] /\ a.kind = "ack" /\ AckSound(a)
    BY DEF AckCommit, RotationInv, CallsSound, CallSound
  <1>2. PICK r \in Rotations : r = a.rotation BY <1>1 DEF AckSound
  <1>3. a.seen = AckView(r) BY <1>1, <1>2 DEF AckCommit, AckUnchanged
  <1>4. /\ a.seen.registry = registry /\ a.seen.logical = logical /\ a.seen.tasks = tasks
        /\ a.seen.latest = latest
    BY <1>3 DEF AckView
  <1>5. logical.state = "ROTATING" /\ logical.rotation = r /\ logical.pending \in Chats
    BY <1>1, <1>2, <1>4 DEF AckSound
  <1>6. logical.pending # None BY <1>5, NoneAssumption
  <1>7. PICK old \in Chats, new \in Chats : old = logical.owner /\ new = logical.pending /\ old # new
    BY <1>6, SuccessorIsNew DEF RotationInv
  <1>8. r \in Begun /\ remote[new] = r BY <1>5, <1>6, <1>7 DEF RotationInv, History, RoleSound
  <1>9. latest # None => Actives = {old}
    BY <1>1, <1>4, <1>7 DEF AckSound, ActiveIn, Actives, Of
  <1>10. /\ registry' = HandedOver(registry, old, new)
         /\ tasks' = [t \in Tasks |-> IF t \in Waiting(tasks, old)
                                          THEN [session |-> new, blocked |-> FALSE] ELSE tasks[t]]
         /\ succ' = [succ EXCEPT ![old] = [to |-> new, epoch |-> logical.epoch + 1]]
         /\ logical' = [logical EXCEPT !.owner = new, !.epoch = @ + 1, !.state = "ACTIVE",
                                       !.pending = None, !.rotation = None]
         /\ resumed' = resumed \cup {[rotation |-> r, task |-> t, to |-> new] : t \in Waiting(tasks, old)}
    BY <1>1, <1>2, <1>3, <1>4, <1>7 DEF AckCommit, AckUnchanged
  <1> QED BY <1>5, <1>7, <1>8, <1>9, <1>10 DEF HandsOver

\* The registry after a handover.
LEMMA HandedOverFits ==
    ASSUME NEW reg \in [Chats -> Entries], NEW old \in Chats, NEW new \in Chats, old # new
    PROVE  /\ HandedOver(reg, old, new) \in [Chats -> Entries]
           /\ \/ HandedOver(reg, old, new)[old] = Absent
              \/ HandedOver(reg, old, new)[old].status = "retired"
           /\ \A c \in Chats \ {new} : HandedOver(reg, old, new)[c] # Absent => reg[c] # Absent
           /\ \A c \in Chats \ {old, new} : HandedOver(reg, old, new)[c] = reg[c]
  <1>1. PICK x : x = [reg[new] EXCEPT !.status = "active", !.role = "own"] OBVIOUS
  <1>2. PICK y : y = [reg[old] EXCEPT !.status = "retired"] OBVIOUS
  <1>3. x \in Entries
    <2>1. PICK e \in Entries : e = reg[new] OBVIOUS
    <2> QED BY <1>1, <2>1 DEF Entries, ChatStatuses
  <1>4. y \in Entries /\ y.status = "retired"
    <2>1. PICK e \in Entries : e = reg[old] OBVIOUS
    <2> QED BY <1>2, <2>1 DEF Entries, ChatStatuses
  <1>5. HandedOver(reg, old, new) =
          [c \in Chats |-> IF c = new THEN x ELSE IF c = old /\ reg[c] # Absent THEN y ELSE reg[c]]
    BY <1>1, <1>2 DEF HandedOver
  <1> QED BY <1>3, <1>4, <1>5

LEMMA AckCommitSafe == ASSUME RotationInv, NEW k \in Calls, AckCommit(k) PROVE RotationInv'
  <1>1. CASE UNCHANGED <<registry, tasks, succ, logical, resumed>>
    BY <1>1, IdleSound, CallStep DEF AckCommit
  <1>2. CASE ~UNCHANGED <<registry, tasks, succ, logical, resumed>>
    <2>1. PICK r \in Begun, old \in Chats, new \in Chats : HandsOver(r, old, new)
      BY <1>2, AckEffect
    <2>2. r \in Rotations /\ r # None /\ new # None BY NoneAssumption DEF Begun
    <2>3. /\ logical' \in LogicalRows /\ logical'.owner = new /\ logical'.epoch = logical.epoch + 1
          /\ logical'.state = "ACTIVE" /\ logical'.pending = None
      <3>1. PICK l \in LogicalRows : l = logical BY DEF RotationInv, TypeOK
      <3>2. logical' = [owner |-> new, epoch |-> l.epoch + 1, state |-> "ACTIVE", pending |-> None,
                        rotation |-> None]
        BY <2>1, <3>1 DEF LogicalRows, HandsOver
      <3>3. l.epoch + 1 \in Nat BY <3>1 DEF LogicalRows
      <3> QED BY <3>1, <3>2, <3>3 DEF LogicalRows
    <2>4. /\ registry' \in [Chats -> Entries]
          /\ registry'[old] = Absent \/ registry'[old].status = "retired"
          /\ \A c \in Chats \ {new} : registry'[c] # Absent => registry[c] # Absent
          /\ \A c \in Chats \ {old, new} : registry'[c] = registry[c]
      BY <2>1, HandedOverFits DEF RotationInv, TypeOK, HandsOver
    <2>5. tasks' \in [Tasks -> [session : Chats, blocked : BOOLEAN]]
      BY <2>1 DEF RotationInv, TypeOK, HandsOver
    <2>6. succ' \in [Chats -> [to : Chats, epoch : Nat] \cup {None}]
      <3>1. logical.epoch + 1 \in Nat BY DEF RotationInv, TypeOK, LogicalRows
      <3>2. [to |-> new, epoch |-> logical.epoch + 1] \in [to : Chats, epoch : Nat] BY <3>1
      <3> QED BY <2>1, <3>2 DEF RotationInv, TypeOK, HandsOver
    <2>7. resumed' \subseteq [rotation : Rotations, task : Foreign, to : Chats]
      BY <2>1, <2>2 DEF RotationInv, TypeOK, Waiting, HandsOver
    <2>8. TypeOK' BY <2>3, <2>4, <2>5, <2>6, <2>7 DEF RotationInv, TypeOK, AckCommit
    <2>9. \A job \in resumed' \ resumed : job.rotation = r BY <2>1 DEF HandsOver
    <2>10. History' BY <2>1, <2>2, <2>3, <2>9, HandoverKeepsHistory DEF RotationInv, AckCommit, HandsOver
    <2>11. Grows /\ Quarantined' = Quarantined BY DEF Grows, AckCommit, Begun, Quarantined
    <2>12. QuarantineSound' BY QuarantineKept DEF RotationInv, AckCommit
    <2>13. ChildrenSound' BY DEF RotationInv, ChildrenSound, ChildSound, Begun, AckCommit
    <2>14. Opened' BY <2>1, <2>2, <2>4 DEF RotationInv, Opened, AckCommit, HandsOver
    <2>15. ProtectedOwner'
      <3>1. Absent.status = "absent" BY EntryFits DEF Absent, ChatStatuses
      <3>2. \A c \in Chats \ {new} : c \in Actives' => c \in Actives /\ c # old
        BY <2>4, <3>1 DEF Actives, Of
      <3> QED BY <2>1, <2>3, <3>2 DEF ProtectedOwner, AckCommit, Actives, Of, HandsOver
    <2>16. CallsSound' BY <2>11, CallEnded DEF RotationInv, AckCommit
    <2> QED BY <2>8, <2>10, <2>12, <2>13, <2>14, <2>15, <2>16 DEF RotationInv
  <1> QED BY <1>1, <1>2
-----------------------------------------------------------------------------
(* Every step, and the invariant of the specification. *)

LEMMA InitSafe == Init => RotationInv
  <1> SUFFICES ASSUME Init PROVE RotationInv OBVIOUS
  <1>1. First \in Chats /\ First \in Handmade BY ChatAssumption
  <1>2. NoRow \in LogicalRows /\ NoRow.state = "none" /\ NoRow.pending = None BY DEF NoRow, LogicalRows
  <1>3. Entry("active") \in Entries /\ Absent \in Entries
    BY EntryFits DEF Absent, ChatStatuses
  <1>4. registry \in [Chats -> Entries] BY <1>3 DEF Init
  <1>5. checkpoint \in Checkpoints BY BoundAssumption DEF Init, Checkpoints
  <1>6. load \in [calls : Nat, claims : 0..MaxClaims,
                  checkpoints : 0..MaxCheckpoints, edits : Nat, exhausted : BOOLEAN]
    BY BoundAssumption DEF Init
  <1>7. TypeOK
    <2>1. remote \in [Chats -> Rotations \cup {"hand", None}] BY DEF Init
    <2>2. tasks \in [Tasks -> [session : Chats, blocked : BOOLEAN]] BY <1>1 DEF Init
    <2> QED BY <1>2, <1>4, <1>5, <1>6, <2>1, <2>2, NoChildFits DEF Init, TypeOK
  <1>8. Begun = {} /\ Quarantined = {} BY DEF Init, Begun, Quarantined
  <1>9. History
    <2>1. RoleSound BY <1>2, <1>8, NoneAssumption DEF Init, RoleSound
    <2>2. Past BY NoneAssumption, HandAssumption DEF Init, Past
    <2> QED BY <1>8, <2>1, <2>2 DEF History
  <1>10. QuarantineSound BY <1>8 DEF Init, QuarantineSound
  <1>11. ChildrenSound
    BY <1>8, NoChildFits, NoneAssumption, HandAssumption DEF Init, ChildrenSound, ChildSound
  <1>12. Opened BY <1>1, NoneAssumption DEF Init, Opened
  <1>13. ProtectedOwner BY DEF Init, ProtectedOwner
  <1>14. CallsSound BY IdleSound DEF Init, CallsSound
  <1> QED BY <1>7, <1>9, <1>10, <1>11, <1>12, <1>13, <1>14 DEF RotationInv

LEMMA NextSafe == RotationInv /\ [Next]_vars => RotationInv'
  <1> SUFFICES ASSUME RotationInv, [Next]_vars PROVE RotationInv' OBVIOUS
  <1>1. CASE UNCHANGED vars
    <2>1. TypeOK' BY <1>1 DEF RotationInv, TypeOK, vars
    <2> QED BY <1>1, <2>1, AsideSafe DEF vars
  <1>2. CASE \E k \in Calls : PrepareRead(k) \/ PrepareCommit(k) \/ QuarantineConfirm(k)
                              \/ RecoverCommit(k) \/ AckCommit(k)
    BY <1>2, PrepareReadSafe, PrepareCommitSafe, QuarantineConfirmSafe, RecoverCommitSafe, AckCommitSafe
  <1>3. CASE \E k \in Calls, r \in Rotations : QuarantinePreview(k, r)
    BY <1>3, QuarantinePreviewSafe
  <1>4. CASE \E k \in Calls, r \in Rotations, c \in Chats : RecoverRead(k, r, c) \/ AckRead(k, r, c)
    BY <1>4, RecoverReadSafe, AckReadSafe
  <1>5. CASE \E r \in Rotations : Claim(r) \/ Cancel(r) \/ Retry(r) \/ Expire(r)
    BY <1>5, ClaimSafe, CancelSafe, RetrySafe, ExpireSafe
  <1>6. CASE \E r \in Rotations : Arm(r) \/ Post(r) \/ ChildEnds(r) \/ Finish(r) \/ Register(r)
    BY <1>6, ArmSafe, PostSafe, ChildEndsSafe, FinishSafe, RegisterSafe
  <1>7. CASE \E c \in Chats : RegisterByHand(c) \/ RetireByHand(c) \/ ForgetByHand(c) \/ TakeCheckpoint(c)
    BY <1>7, RegisterByHandSafe, RetireByHandSafe, ForgetByHandSafe, CheckpointSafe
  <1>8. CASE \E t \in Tasks : Exhaust(t) BY <1>8, ExhaustSafe
  <1> QED BY <1>1, <1>2, <1>3, <1>4, <1>5, <1>6, <1>7, <1>8 DEF Next

LEMMA RotationSound == Spec => []RotationInv
  BY InitSafe, NextSafe, PTL DEF Spec

-----------------------------------------------------------------------------
(* What the invariant implies. *)

LEMMA InvGivesOneOpen == RotationInv => OneOpen
  <1> SUFFICES ASSUME RotationInv, NEW r \in Open PROVE logical.state = "ROTATING" /\ logical.rotation = r
    BY DEF OneOpen
  <1>1. r \in Begun /\ ops[r].status \in {"QUEUED", "DISPATCHING"} BY DEF Open
  <1>2. r \notin Quarantined BY <1>1 DEF RotationInv, QuarantineSound
  <1> QED BY <1>1, <1>2 DEF RotationInv, History, OpSound

LEMMA InvGivesLineage == RotationInv => LineageSound
  <1> SUFFICES ASSUME RotationInv PROVE LineageSound OBVIOUS
  <1>1. \A c \in Chats : succ[c] # None => Linked(c) BY DEF RotationInv, History, Past
  <1>2. ASSUME NEW c \in Chats, NEW d \in Chats, c # d, succ[c] # None, succ[d] # None
        PROVE  succ[c].to # succ[d].to
    BY <1>1, <1>2 DEF Linked
  <1>3. logical # NoRow => succ[logical.owner] = None BY DEF RotationInv, History, RoleSound
  <1> QED BY <1>1, <1>2, <1>3 DEF LineageSound, Linked

\* A conversation that became an owner was accepted: its rotation is SENT, a quarantined
\* one is not.
LEMMA InvGivesLateNever == RotationInv => LateNeverOwns
  <1> SUFFICES ASSUME RotationInv, NEW c \in Chats, remote[c] \in Quarantined
               PROVE  logical.owner # c /\ logical.pending # c /\ c \notin Actives
    BY DEF LateNeverOwns
  <1>1. PICK q \in Quarantined : q = remote[c] OBVIOUS
  <1>2. q # "hand" /\ ops[q].status = "DELIVERY_UNKNOWN" /\ latest # None
    BY HandAssumption DEF RotationInv, QuarantineSound, Quarantined
  <1>3. logical.owner # c
    <2>1. CASE logical = NoRow BY <2>1, NoneAssumption DEF NoRow
    <2>2. CASE logical # NoRow
      <3>1. Elder(logical.owner, logical.epoch) BY <2>2 DEF RotationInv, History, RoleSound
      <3> QED BY <1>1, <1>2, <3>1 DEF Elder
    <2> QED BY <2>1, <2>2
  <1>4. logical.pending # c BY <1>1, <1>2, NoneAssumption DEF RotationInv, History, RoleSound
  <1> QED BY <1>2, <1>3, <1>4 DEF RotationInv, ProtectedOwner

\* The role's history is one line: well-typed rows, one rotation open at a time, and every
\* successor made by its predecessor's own rotation (coordinator.py:2278, 2385).
THEOREM LineageCorrect == Spec => []Lineage
  <1>1. RotationInv => Lineage BY InvGivesOneOpen, InvGivesLineage DEF Lineage, RotationInv
  <1> QED BY <1>1, RotationSound, PTL

\* A quarantined role stays with its owner, against an operator, a late child and a recovery
\* (state-store.py:260).
THEOREM OneOwnerCorrect == Spec => []OneOwner
  <1>1. RotationInv => OneOwner BY InvGivesLateNever DEF OneOwner, RotationInv
  <1> QED BY <1>1, RotationSound, PTL

\* The operation of a quarantined rotation stays what the event recorded
\* (delivery_attempt.py:14).
THEOREM AuditCorrect == Spec => []AuditHolds
  <1>1. RotationInv => AuditHolds BY DEF AuditHolds, AuditValid, RotationInv, QuarantineSound
  <1> QED BY <1>1, RotationSound, PTL
-----------------------------------------------------------------------------
(* What single steps do. *)

\* Whatever does not commit a command or open a conversation leaves owners and offers alone.
LEMMA OtherSteps ==
    ASSUME RotationInv, [Next]_vars,
           ~\E k \in Calls : PrepareCommit(k) \/ QuarantineConfirm(k) \/ AckCommit(k),
           ~\E r \in Rotations : Post(r)
    PROVE  /\ logical'.owner = logical.owner /\ logical'.epoch = logical.epoch
           /\ logical'.state = logical.state /\ logical'.rotation = logical.rotation
           /\ Begun' = Begun /\ UNCHANGED <<remote, succ>>
  <1>1. CASE UNCHANGED <<logical, ops, remote, succ>> BY <1>1 DEF Begun
  <1>2. ASSUME NEW r \in Rotations, Claim(r) \/ Cancel(r) \/ Retry(r) \/ Expire(r)
        PROVE  Begun' = Begun /\ UNCHANGED <<logical, remote, succ>>
    <2>1. PICK o \in OpRows : o = ops[r] /\ r \in Begun
      BY <1>2, BegunRow DEF RotationInv, Claim, Cancel, Retry, Expire
    <2>2. \E x : ops' = [ops EXCEPT ![r] = x] /\ x # NoOp
      <3>1. CASE Claim(r)
        <4>1. PICK x : x = Claimed(o) OBVIOUS
        <4>2. x # NoOp BY <4>1 DEF Claimed, OpRows, NoOp
        <4> QED BY <2>1, <3>1, <4>1, <4>2 DEF Claim
      <3>2. ASSUME NEW st, st \in {"CANCELLED", "QUEUED", "DELIVERY_UNKNOWN"}, ops' = [ops EXCEPT ![r].status = st]
            PROVE  \E x : ops' = [ops EXCEPT ![r] = x] /\ x # NoOp
        <4>1. PICK x : x = [o EXCEPT !.status = st] OBVIOUS
        <4>2. x # NoOp BY <3>2, <4>1 DEF OpRows, NoOp
        <4> QED BY <2>1, <3>2, <4>1, <4>2
      <3> QED BY <1>2, <3>1, <3>2 DEF Cancel, Retry, Expire
    <2>3. PICK x : ops' = [ops EXCEPT ![r] = x] /\ x # NoOp BY <2>2
    <2>4. ops'[r] # NoOp /\ \A q \in Rotations \ {r} : ops'[q] = ops[q]
      BY <2>3 DEF RotationInv, TypeOK
    <2>5. Begun' = Begun BY <2>1, <2>4 DEF Begun
    <2> QED BY <1>2, <2>5 DEF Claim, Cancel, Retry, Expire
  <1>3. ASSUME NEW r \in Rotations, Finish(r)
        PROVE  /\ logical'.owner = logical.owner /\ logical'.epoch = logical.epoch
               /\ logical'.state = logical.state /\ logical'.rotation = logical.rotation
               /\ Begun' = Begun /\ UNCHANGED <<remote, succ>>
    <2>1. /\ logical'.owner = logical.owner /\ logical'.epoch = logical.epoch
          /\ logical'.state = logical.state /\ logical'.rotation = logical.rotation
      BY <1>3 DEF Finish, Pending, RotationInv, TypeOK, LogicalRows
    <2>2. PICK d \in Children : d = child[r] /\ d.phase = "ended" BY <1>3 DEF RotationInv, TypeOK, Finish
    <2>3. r \in Begun BY <2>2 DEF RotationInv, ChildrenSound, ChildSound
    <2>4. PICK o \in OpRows : o = ops[r] BY <2>3, BegunRow DEF RotationInv
    <2>5. PICK x : x = Finished(o, d.receipt, d.chat) OBVIOUS
    <2>6. x # NoOp BY <2>4, <2>5 DEF Finished, OpRows, NoOp
    <2>7. UNCHANGED ops \/ ops' = [ops EXCEPT ![r] = x] BY <1>3, <2>2, <2>4, <2>5 DEF Finish
    <2>8. \A q \in Rotations : ops'[q] = ops[q] \/ (q = r /\ ops'[q] # NoOp)
      BY <2>6, <2>7 DEF RotationInv, TypeOK
    <2>9. Begun' = Begun BY <2>3, <2>8 DEF Begun
    <2> QED BY <1>3, <2>1, <2>9 DEF Finish
  <1>4. ASSUME NEW k \in Calls, RecoverCommit(k)
        PROVE  /\ logical'.owner = logical.owner /\ logical'.epoch = logical.epoch
               /\ logical'.state = logical.state /\ logical'.rotation = logical.rotation
               /\ Begun' = Begun /\ UNCHANGED <<remote, succ>>
    <2>1. CASE UNCHANGED <<logical, ops>> BY <1>4, <2>1 DEF RecoverCommit, Begun
    <2>2. CASE ~UNCHANGED <<logical, ops>>
      <3>1. PICK r \in Rotations, c \in Chats :
               /\ ops[r].status = "DELIVERY_UNKNOWN" /\ logical' = [logical EXCEPT !.pending = c]
               /\ ops' = [ops EXCEPT ![r].status = "SENT", ![r].session = c]
        <4>1. PICK a : a = call[k] /\ a.kind = "recover" /\ RecoverSound(a)
          BY <1>4 DEF RecoverCommit, RotationInv, CallsSound, CallSound
        <4>2. a.seen = RecoverView(a.rotation) /\ a.rotation \in Rotations /\ a.chat \in Chats
          BY <1>4, <2>2, <4>1 DEF RecoverCommit, RecoverSound
        <4>3. a.seen.op = ops[a.rotation] BY <4>2 DEF RecoverView
        <4>4. ops[a.rotation].status = "DELIVERY_UNKNOWN" BY <4>1, <4>3 DEF RecoverSound
        <4> QED BY <1>4, <2>2, <4>1, <4>2, <4>4 DEF RecoverCommit
      <3>2. r \in Begun BY <3>1 DEF Begun, NoOp
      <3>3. PICK o \in OpRows : o = ops[r] BY <3>2, BegunRow DEF RotationInv
      <3>4. PICK x : x = [o EXCEPT !.status = "SENT", !.session = c] OBVIOUS
      <3>5. ops' = [ops EXCEPT ![r] = x] BY <3>1, <3>3, <3>4
      <3>6. x \in OpRows BY <3>4 DEF OpRows
      <3>7. Begun' = Begun BY <3>2, <3>5, <3>6, RowMoved DEF RotationInv
      <3>8. /\ logical'.owner = logical.owner /\ logical'.epoch = logical.epoch
            /\ logical'.state = logical.state /\ logical'.rotation = logical.rotation
        BY <3>1 DEF RotationInv, TypeOK, LogicalRows
      <3> QED BY <1>4, <3>7, <3>8 DEF RecoverCommit
    <2> QED BY <2>1, <2>2
  <1>5. CASE \E k \in Calls : PrepareRead(k) \/ (\E r \in Rotations : QuarantinePreview(k, r))
                  \/ (\E r \in Rotations, c \in Chats : RecoverRead(k, r, c) \/ AckRead(k, r, c))
    BY <1>1, <1>5 DEF PrepareRead, QuarantinePreview, RecoverRead, AckRead
  <1>6. CASE \E r \in Rotations : Arm(r) \/ ChildEnds(r) \/ Register(r)
    BY <1>1, <1>6 DEF Arm, ChildEnds, Register
  <1>7. CASE \E c \in Chats : RegisterByHand(c) \/ RetireByHand(c) \/ ForgetByHand(c) \/ TakeCheckpoint(c)
    BY <1>1, <1>7 DEF RegisterByHand, RetireByHand, ForgetByHand, TakeCheckpoint, Put
  <1>8. CASE \E t \in Tasks : Exhaust(t) BY <1>1, <1>8 DEF Exhaust
  <1>9. CASE UNCHANGED vars BY <1>1, <1>9 DEF vars
  <1> QED BY <1>2, <1>3, <1>4, <1>5, <1>6, <1>7, <1>8, <1>9 DEF Next

\* What a prepare commits.
LEMMA PrepareEffect ==
    ASSUME RotationInv, NEW k \in Calls, PrepareCommit(k), ~UNCHANGED <<logical, ops>>
    PROVE  \E r \in Rotations \ Begun, c \in Chats, handoff \in Nat :
             /\ logical = NoRow \/ (logical.state # "ROTATING" /\ logical.owner = c)
             /\ logical'.owner = c /\ logical'.state = "ROTATING" /\ logical'.rotation = r
             /\ logical'.epoch = IF logical = NoRow THEN 1 ELSE logical.epoch
             /\ Begun' = Begun \cup {r} /\ ops'[r].event = latest /\ ops'[r].handoff = handoff
             /\ logical.state = "QUARANTINED" =>
                   /\ checkpoint.number > audit[latest].at /\ checkpoint.session = c
                   /\ handoff = checkpoint.number
  <1>1. PICK a : a = call[k] /\ a.kind = "prepare" /\ PrepareSound(a)
    BY DEF PrepareCommit, RotationInv, CallsSound, CallSound
  <1>2. a.seen = PrepareView BY <1>1 DEF PrepareCommit, PrepareUnchanged
  <1>3. /\ a.seen.registry = registry /\ a.seen.logical = logical /\ a.seen.latest = latest
        /\ a.seen.checkpoint = checkpoint
    BY <1>2 DEF PrepareView
  <1>4. PICK c \in Chats, handoff \in Nat :
           /\ c = a.owner /\ handoff = a.handoff
           /\ logical = NoRow \/ (logical.state # "ROTATING" /\ logical.owner = c)
           /\ logical.state = "QUARANTINED" =>
                   /\ checkpoint.number > audit[latest].at /\ checkpoint.session = c
                   /\ handoff = checkpoint.number
    BY <1>1, <1>3, BoundAssumption DEF PrepareSound
  <1>5. PICK e : e = IF logical = NoRow THEN 1 ELSE logical.epoch OBVIOUS
  <1>6. PICK r \in Rotations \ Begun :
                  /\ logical' = [owner |-> c, epoch |-> e, state |-> "ROTATING",
                                 pending |-> None, rotation |-> r]
                  /\ ops' = [ops EXCEPT ![r] =
                               [status |-> "QUEUED", attempts |-> 0, caller |-> c,
                                epoch |-> e, session |-> None,
                                event |-> latest, handoff |-> handoff,
                                witness |-> FALSE]]
    BY <1>1, <1>2, <1>3, <1>4, <1>5 DEF PrepareCommit
  <1>7. PICK x : x = [status |-> "QUEUED", attempts |-> 0, caller |-> c, epoch |-> e, session |-> None,
                      event |-> latest, handoff |-> handoff, witness |-> FALSE]
    OBVIOUS
  <1>8. x.status = "QUEUED" /\ x.event = latest /\ x.handoff = handoff BY <1>7
  <1>9. ops'[r] = x /\ \A q \in Rotations \ {r} : ops'[q] = ops[q]
    BY <1>6, <1>7 DEF RotationInv, TypeOK
  <1>10. x # NoOp BY <1>8 DEF NoOp
  <1>11. Begun' = Begun \cup {r} BY <1>9, <1>10 DEF Begun
  <1> QED BY <1>4, <1>5, <1>6, <1>8, <1>9, <1>11

\* A role leaves quarantine with a handoff from a checkpoint that its owner took after the
\* event, whatever happened since the command read (coordinator.py:2294).
THEOREM FreshHandoffCorrect == Spec => FreshHandoff
  <1>1. ASSUME RotationInv, [Next]_vars, logical.state = "QUARANTINED", logical'.state = "ROTATING"
        PROVE  /\ ops'[logical'.rotation].event = latest
               /\ ops'[logical'.rotation].handoff = checkpoint.number
               /\ checkpoint.number > audit[latest].at
               /\ checkpoint.session = logical'.owner
    <2>1. CASE \E k \in Calls : PrepareCommit(k)
      BY <1>1, <2>1, PrepareEffect
    <2>2. CASE \E k \in Calls : QuarantineConfirm(k)
      BY <1>1, <2>2 DEF QuarantineConfirm, RotationInv, TypeOK, LogicalRows
    <2>3. CASE \E k \in Calls : AckCommit(k)
      BY <1>1, <2>3 DEF AckCommit, RotationInv, TypeOK, LogicalRows
    <2>4. CASE \E r \in Rotations : Post(r)
      BY <1>1, <2>4 DEF Post
    <2> QED BY <1>1, <2>1, <2>2, <2>3, <2>4, OtherSteps
  <1>2. RotationInv /\ [Next]_vars =>
          [logical.state = "QUARANTINED" /\ logical'.state = "ROTATING" =>
             /\ ops'[logical'.rotation].event = latest
             /\ ops'[logical'.rotation].handoff = checkpoint.number
             /\ checkpoint.number > audit[latest].at
             /\ checkpoint.session = logical'.owner]_vars
    BY <1>1
  <1> QED BY <1>2, RotationSound, PTL DEF Spec, FreshHandoff

\* A handover takes along every delegated task that is blocked on the retired owner at that
\* moment, and leaves every other task as it is (coordinator.py:2437).
THEOREM HandoverCorrect == Spec => HandoverKeepsTasks
  <1>1. ASSUME RotationInv, [Next]_vars, succ' # succ
        PROVE  LET new == logical'.owner
                   moving == Waiting(tasks, logical.owner)
               IN  /\ \A t \in moving : /\ tasks'[t] = [session |-> new, blocked |-> FALSE]
                                        /\ \E job \in resumed' \ resumed : job.task = t /\ job.to = new
                   /\ \A t \in Tasks \ moving : tasks'[t] = tasks[t]
    <2>1. PICK k \in Calls : AckCommit(k)
      BY <1>1, OtherSteps DEF PrepareCommit, QuarantineConfirm, Post
    <2>2. PICK r \in Begun, old \in Chats, new \in Chats : HandsOver(r, old, new)
      BY <1>1, <2>1, AckEffect
    <2>3. /\ tasks' = [t \in Tasks |-> IF t \in Waiting(tasks, old)
                                       THEN [session |-> new, blocked |-> FALSE] ELSE tasks[t]]
          /\ resumed' = resumed \cup {[rotation |-> r, task |-> t, to |-> new] : t \in Waiting(tasks, old)}
          /\ old = logical.owner /\ logical.state = "ROTATING" /\ r = logical.rotation
      BY <2>2 DEF HandsOver
    <2>4. logical'.owner = new BY <1>1, <2>2 DEF HandsOver, RotationInv, TypeOK, LogicalRows
    <2>5. Waiting(tasks, old) \subseteq Tasks BY TaskAssumption DEF Waiting
    <2>6. \A job \in resumed : job.rotation # r
      <3>1. logical.epoch \in Nat BY <1>1 DEF RotationInv, TypeOK, LogicalRows
      <3>2. ops[r].epoch = logical.epoch BY <1>1, <2>3 DEF RotationInv, History, RoleSound
      <3> QED BY <1>1, <3>1, <3>2 DEF RotationInv, History, Past, Chosen
    <2>7. ASSUME NEW t \in Waiting(tasks, old)
          PROVE  \E job \in resumed' \ resumed : job.task = t /\ job.to = new
      <3>1. PICK job : job = [rotation |-> r, task |-> t, to |-> new] OBVIOUS
      <3>2. job.rotation = r /\ job.task = t /\ job.to = new BY <3>1
      <3>3. job \in resumed' BY <2>3, <3>1
      <3> QED BY <2>6, <3>2, <3>3
    <2> QED BY <2>3, <2>4, <2>5, <2>7
  <1>2. RotationInv /\ [Next]_vars =>
          [succ' # succ =>
             LET new == logical'.owner
                 moving == Waiting(tasks, logical.owner)
             IN  /\ \A t \in moving : /\ tasks'[t] = [session |-> new, blocked |-> FALSE]
                                      /\ \E job \in resumed' \ resumed : job.task = t /\ job.to = new
                 /\ \A t \in Tasks \ moving : tasks'[t] = tasks[t]]_vars
    BY <1>1
  <1> QED BY <1>2, RotationSound, PTL DEF Spec, HandoverKeepsTasks

-----------------------------------------------------------------------------
(* The rotations of a role implement Succession. *)

LEMMA SuccessionStep == RotationInv /\ [Next]_vars => [Promise!Next]_(Promise!vars)
  <1> SUFFICES ASSUME RotationInv, [Next]_vars PROVE [Promise!Next]_(Promise!vars) OBVIOUS
  <1> DEFINE offer == IF logical.state = "ROTATING" THEN logical.rotation ELSE None
             brief == [c \in Chats |-> IF remote[c] = "hand" THEN None ELSE remote[c]]
  <1>1. CASE /\ logical'.owner = logical.owner /\ logical'.epoch = logical.epoch
             /\ logical'.state = logical.state /\ logical'.rotation = logical.rotation
             /\ Begun' = Begun /\ UNCHANGED remote
    BY <1>1 DEF Promise!vars
  <1>2. ASSUME NEW k \in Calls, PrepareCommit(k), ~UNCHANGED <<logical, ops>>
        PROVE  Promise!Next
    <2>1. PICK r \in Rotations \ Begun, c \in Chats :
             /\ logical = NoRow \/ (logical.state # "ROTATING" /\ logical.owner = c)
             /\ logical'.owner = c /\ logical'.state = "ROTATING" /\ logical'.rotation = r
             /\ logical'.epoch = IF logical = NoRow THEN 1 ELSE logical.epoch
             /\ Begun' = Begun \cup {r}
      BY <1>2, PrepareEffect
    <2>2. logical = NoRow <=> logical.owner = None
      BY NoneAssumption DEF RotationInv, History, RoleSound, NoRow
    <2>3. logical.state # "ROTATING" BY <2>1 DEF NoRow
    <2>4. UNCHANGED remote BY <1>2 DEF PrepareCommit
    <2>5. Promise!Offer(r, c) BY <2>1, <2>2, <2>3, <2>4 DEF Promise!Offer
    <2> QED BY <2>5 DEF Promise!Next
  <1>3. ASSUME NEW k \in Calls, QuarantineConfirm(k), ~UNCHANGED <<audit, latest, logical>>
        PROVE  Promise!Next
    <2>1. logical' = [logical EXCEPT !.state = "QUARANTINED"] /\ logical.state = "ROTATING"
      BY <1>3 DEF QuarantineConfirm, MayQuarantine
    <2>2. logical.rotation # None
      BY <2>1, NoneAssumption DEF RotationInv, History, RoleSound, Begun
    <2>3. /\ logical'.owner = logical.owner /\ logical'.epoch = logical.epoch
          /\ logical'.state = "QUARANTINED"
      BY <2>1 DEF RotationInv, TypeOK, LogicalRows
    <2>4. Begun' = Begun /\ UNCHANGED remote BY <1>3 DEF QuarantineConfirm, Begun
    <2>5. Promise!Withdraw BY <2>1, <2>2, <2>3, <2>4 DEF Promise!Withdraw
    <2> QED BY <2>5 DEF Promise!Next
  <1>4. ASSUME NEW k \in Calls, AckCommit(k), ~UNCHANGED <<registry, tasks, succ, logical, resumed>>
        PROVE  Promise!Next
    <2>1. PICK r \in Begun, old \in Chats, new \in Chats : HandsOver(r, old, new)
      BY <1>4, AckEffect
    <2>2. /\ r = logical.rotation /\ logical.state = "ROTATING" /\ remote[new] = r
          /\ r # None /\ r # "hand"
      BY <2>1, NoneAssumption, HandAssumption DEF Begun, HandsOver
    <2>3. logical'.owner = new /\ logical'.epoch = logical.epoch + 1 /\ logical'.state = "ACTIVE"
      BY <2>1 DEF HandsOver, RotationInv, TypeOK, LogicalRows
    <2>4. Begun' = Begun /\ UNCHANGED remote BY <1>4 DEF AckCommit, Begun
    <2>5. Promise!Handover(new) BY <2>2, <2>3, <2>4 DEF Promise!Handover
    <2> QED BY <2>5 DEF Promise!Next
  <1>5. ASSUME NEW r \in Rotations, Post(r) PROVE Promise!Next
    <2>1. PICK c \in Chats : remote[c] = None /\ remote' = [remote EXCEPT ![c] = r]
      BY <1>5 DEF Post
    <2>2. r \in Begun /\ \A d \in Chats : remote[d] # r
      BY <1>5 DEF Post, RotationInv, ChildrenSound, ChildSound
    <2>3. r # None /\ r # "hand" BY NoneAssumption, HandAssumption
    <2>4. brief' = [brief EXCEPT ![c] = r]
      <3>1. remote'[c] = r /\ \A d \in Chats \ {c} : remote'[d] = remote[d]
        BY <2>1 DEF RotationInv, TypeOK
      <3> QED BY <2>3, <3>1
    <2>5. /\ brief[c] = None /\ \A d \in Chats : brief[d] # r
      BY <2>1, <2>2, <2>3
    <2>6. Begun' = Begun /\ UNCHANGED logical BY <1>5 DEF Post, Begun
    <2>7. Promise!Brief(r, c) BY <2>2, <2>4, <2>5, <2>6 DEF Promise!Brief
    <2> QED BY <2>7 DEF Promise!Next
  <1>6. CASE \E k \in Calls : PrepareCommit(k)
    <2>1. PICK k \in Calls : PrepareCommit(k) BY <1>6
    <2>2. CASE UNCHANGED <<logical, ops>> BY <1>1, <2>1, <2>2 DEF PrepareCommit, Begun
    <2> QED BY <1>2, <2>1, <2>2
  <1>7. CASE \E k \in Calls : QuarantineConfirm(k)
    <2>1. PICK k \in Calls : QuarantineConfirm(k) BY <1>7
    <2>2. CASE UNCHANGED <<audit, latest, logical>> BY <1>1, <2>1, <2>2 DEF QuarantineConfirm, Begun
    <2> QED BY <1>3, <2>1, <2>2
  <1>8. CASE \E k \in Calls : AckCommit(k)
    <2>1. PICK k \in Calls : AckCommit(k) BY <1>8
    <2>2. CASE UNCHANGED <<registry, tasks, succ, logical, resumed>>
      BY <1>1, <2>1, <2>2 DEF AckCommit, Begun
    <2> QED BY <1>4, <2>1, <2>2
  <1> QED BY <1>1, <1>5, <1>6, <1>7, <1>8, OtherSteps

LEMMA SuccessionInit == Init => Promise!Init
  BY NoneAssumption DEF Init, Promise!Init, NoRow, Begun

\* The rotations of a role implement Succession: an owner changes only by a handover to the
\* conversation of the rotation on offer (coordinator.py:2366).
THEOREM SuccessionKept == Spec => KeepsPromise
  BY SuccessionInit, SuccessionStep, RotationSound, PTL DEF Spec, KeepsPromise, Promise!Spec
=============================================================================
