------------------------------ MODULE Rotation ------------------------------
(***************************************************************************)
(* How a role passes from a conversation that ran out of context to its    *)
(* successor: rotation_prepare, rotation_ack, rotation_recover and         *)
(* rotation_quarantine of src/coordinator.py, the child of the rotation's  *)
(* operation that opens and registers the new conversation (main.js new),  *)
(* and the registration fence of src/state-store.py.                       *)
(*                                                                         *)
(* One role of one project, outside workgroups, on one account.  A call of *)
(* `chat-bridge control rotation-...` first reads, then commits what it    *)
(* decided if what it read is still there: two actions.  A put of the      *)
(* registry is one action; what concurrent puts do to each other is the    *)
(* subject of StateStore.  How often an operation is claimed and sent is   *)
(* the subject of Dispatch; its proof that no message is sent twice is why *)
(* a rotation has one child at a time here.                                *)
(***************************************************************************)
EXTENDS Naturals, FiniteSets

CONSTANTS
    Chats,          \* conversation ids
    Handmade,       \* those the user opened by hand
    First,          \* the conversation that holds the role to begin with
    Rotations,      \* rotation ids: each has one logical entry and one operation
    Calls,          \* concurrent control commands
    Tasks,          \* runtime tasks of the role
    Foreign,        \* those another session controls
    MaxClaims,      \* bound: claims of one operation
    MaxCheckpoints, \* bound: checkpoints of the role
    Loads,          \* bound: what may happen in one behaviour, see `load`
    None            \* SQL NULL, JavaScript null

ASSUME ChatAssumption == First \in Handmade /\ Handmade \subseteq Chats
ASSUME TaskAssumption == Foreign \subseteq Tasks
ASSUME NoneAssumption == None \notin Chats \cup Rotations \cup {"hand"}
ASSUME HandAssumption == "hand" \notin Rotations
ASSUME BoundAssumption ==
    /\ MaxClaims \in Nat /\ MaxCheckpoints \in Nat
    /\ Loads \subseteq [calls : Nat, claims : 0..MaxClaims,
                        checkpoints : 0..MaxCheckpoints, edits : Nat, exhausted : BOOLEAN]

VARIABLES
    registry,   \* registry.chats: the entry of every conversation
    logical,    \* the logical_sessions row of the role
    ops,        \* the operations row of every rotation
    audit,      \* the ROTATION_QUARANTINE event of every rotation
    latest,     \* the rotation of the latest such event
    checkpoint, \* the latest session_checkpoints row
    succ,       \* session_successors: old conversation -> successor and epoch
    tasks,      \* runtime.tasks: session, and whether BLOCKED/CONTEXT_EXHAUSTED
    resumed,    \* the rotation-resume operations queued by acknowledgements
    child,      \* the child process of every rotation's operation
    remote,     \* what a conversation of ChatGPT was opened with
    call,       \* control commands between their read and their commit
    load        \* bound: commands at a time, claims of an operation, checkpoints,
                \* edits people still make, and whether conversations fill up

vars == <<registry, logical, ops, audit, latest, checkpoint, succ, tasks,
          resumed, child, remote, call, load>>

-----------------------------------------------------------------------------
ChatStatuses == {"absent", "active", "pending", "retired"}

\* role "aside" is `role + "-pending"`, proof the rotationRecovery of an entry.
Entries == [status : ChatStatuses, role : {"own", "aside"},
            proof : Rotations \cup {None}]
Entry(status) == [status |-> status, role |-> "own", proof |-> None]
Absent == Entry("absent")

\* state "none": there is no row yet.
LogicalRows == [owner : Chats \cup {None}, epoch : Nat,
                state : {"none", "ACTIVE", "ROTATING", "QUARANTINED"},
                pending : Chats \cup {None}, rotation : Rotations \cup {None}]
NoRow == [owner |-> None, epoch |-> 0, state |-> "none", pending |-> None,
          rotation |-> None]

\* witness: the result holds a native witness of the send; handoff: the
\* checkpoint that was handed over, 0 for a text of the caller's; epoch: the
\* epoch the message was written in.  The handoff hashes of the operation and
\* of the logical row are written together and never differ.
OpRows == [status : {"QUEUED", "DISPATCHING", "SENT", "DELIVERY_UNKNOWN",
                     "FAILED_PRE_SEND", "CANCELLED"},
           attempts : 0..MaxClaims, caller : Chats, epoch : Nat \ {0},
           session : Chats \cup {None}, event : Rotations \cup {None},
           handoff : 0..MaxCheckpoints, witness : BOOLEAN]
NoOp == [status |-> "none"]

\* An event: the operation it was recorded for, as it was, and the number of
\* checkpoints there were.
Audits == [row : OpRows, at : 0..MaxCheckpoints]
NoAudit == [at |-> None]

Checkpoints == [number : 0..MaxCheckpoints, session : Chats \cup {None}]

Children == [phase : {"none", "running", "armed", "posted", "registered", "ended"},
             chat : Chats \cup {None},
             receipt : {"none", "wait", "refused", "witnessed", "unknown", "delivered"}]
NoChild == [phase |-> "none", chat |-> None, receipt |-> "none"]

Idle == [kind |-> "idle"]

-----------------------------------------------------------------------------
Of(status) == {c \in Chats : registry[c].role = "own" /\ registry[c].status = status}
Actives == Of("active")

\* current_controller_ref: the owner of an ACTIVE row, or the only active chat.
HasController(c) == \/ logical.state = "ACTIVE" /\ logical.owner = c /\ c \in Actives
                    \/ /\ ~(logical.state = "ACTIVE" /\ logical.owner \in Actives)
                       /\ Actives = {c}

Begun == {r \in Rotations : ops[r] # NoOp}
Open  == {r \in Begun : ops[r].status \in {"QUEUED", "DISPATCHING"}}
Quarantined == {r \in Rotations : audit[r] # NoAudit}

\* The audited operation still is what the event recorded.
AuditValid(r) == ops[r] = audit[r].row

-----------------------------------------------------------------------------
Init ==
    /\ registry = [c \in Chats |-> IF c = First THEN Entry("active") ELSE Absent]
    /\ logical = NoRow
    /\ ops = [r \in Rotations |-> NoOp]
    /\ audit = [r \in Rotations |-> NoAudit]
    /\ latest = None
    /\ checkpoint = [number |-> 0, session |-> None]
    /\ succ = [c \in Chats |-> None]
    /\ tasks = [t \in Tasks |-> [session |-> First, blocked |-> FALSE]]
    /\ resumed = {}
    /\ child = [r \in Rotations |-> NoChild]
    /\ remote = [c \in Chats |-> IF c \in Handmade THEN "hand" ELSE None]
    /\ call = [k \in Calls |-> Idle]
    /\ load \in Loads

-----------------------------------------------------------------------------
(* rotation_prepare.                                                       *)

PrepareView == [registry |-> registry, logical |-> logical, open |-> Open,
                checkpoint |-> checkpoint, latest |-> latest]

\* Mutant: a checkpoint of the time of the event will do.
FreshCheckpointOrEqual(c, handoff) == /\ latest # None
                                      /\ checkpoint.session = c
                                      /\ checkpoint.number >= audit[latest].at
                                      /\ handoff = checkpoint.number

\* Leaving quarantine takes a handoff rendered from a checkpoint that the
\* owner took after the event.
FreshCheckpoint(c, handoff) == /\ latest # None
                               /\ checkpoint.session = c
                               /\ checkpoint.number > audit[latest].at
                               /\ handoff = checkpoint.number

\* The row, if there is one, still says that c owns the role.
OwnerUnchanged(c) == \/ logical = NoRow
                     \/ /\ logical.state # "ROTATING"
                        /\ logical.owner = c
                        /\ logical.pending = None

\* Command k is not running, and may start.
Starts(k) == call[k] = Idle /\ Cardinality({j \in Calls : call[j] # Idle}) < load.calls

PrepareRead(k) ==
    /\ Starts(k)
    /\ \E c \in Chats : \E handoff \in {0, checkpoint.number} :
         /\ HasController(c)
         /\ Actives = {c}
         /\ OwnerUnchanged(c)
         /\ latest # None => logical # NoRow /\ AuditValid(latest)
         /\ logical.state = "QUARANTINED" => FreshCheckpoint(c, handoff)
         /\ Open = {}
         /\ call' = [call EXCEPT ![k] = [kind |-> "prepare", owner |-> c,
                                         handoff |-> handoff, seen |-> PrepareView]]
    /\ UNCHANGED <<registry, logical, ops, audit, latest, checkpoint, succ, tasks,
                   resumed, child, remote, load>>

\* Mutant: only the registry and the checkpoint are compared again.
PrepareUnchangedLoose(seen) == /\ seen.registry = registry
                               /\ seen.checkpoint = checkpoint

PrepareUnchanged(seen) == seen = PrepareView

PrepareCommit(k) ==
    /\ call[k].kind = "prepare"
    /\ LET c == call[k].owner
           seen == call[k].seen
           epoch == IF seen.logical = NoRow THEN 1 ELSE seen.logical.epoch
       IN  IF PrepareUnchanged(seen)
           THEN \E r \in Rotations \ Begun :
                  /\ logical' = [owner |-> c, epoch |-> epoch, state |-> "ROTATING",
                                 pending |-> None, rotation |-> r]
                  /\ ops' = [ops EXCEPT ![r] =
                               [status |-> "QUEUED", attempts |-> 0, caller |-> c,
                                epoch |-> epoch, session |-> None,
                                event |-> seen.latest, handoff |-> call[k].handoff,
                                witness |-> FALSE]]
           ELSE UNCHANGED <<logical, ops>>
    /\ call' = [call EXCEPT ![k] = Idle]
    /\ UNCHANGED <<registry, audit, latest, checkpoint, succ, tasks, resumed, child, remote, load>>

-----------------------------------------------------------------------------
(* The operation and its child.                                            *)

Claimed(row) == [row EXCEPT !.status = "DISPATCHING", !.attempts = @ + 1]

Claim(r) ==
    /\ r \in Begun
    /\ ops[r].status = "QUEUED"
    /\ ops[r].attempts < load.claims
    /\ ops' = [ops EXCEPT ![r] = Claimed(@)]
    /\ child' = [child EXCEPT ![r] = [NoChild EXCEPT !.phase = "running"]]
    /\ UNCHANGED <<registry, logical, audit, latest, checkpoint, succ, tasks,
                   resumed, remote, call, load>>

\* `queue cancel` and `queue retry`.
Cancel(r) ==
    /\ r \in Begun
    /\ ops[r].status = "QUEUED"
    /\ ops' = [ops EXCEPT ![r].status = "CANCELLED"]
    /\ UNCHANGED <<registry, logical, audit, latest, checkpoint, succ, tasks,
                   resumed, child, remote, call, load>>

Retry(r) ==
    /\ r \in Begun
    /\ ops[r].status = "FAILED_PRE_SEND"
    /\ ops' = [ops EXCEPT ![r].status = "QUEUED"]
    /\ UNCHANGED <<registry, logical, audit, latest, checkpoint, succ, tasks,
                   resumed, child, remote, call, load>>

\* The lease of the claim runs out, or its worker gives up waiting.
Expire(r) ==
    /\ r \in Begun
    /\ ops[r].status = "DISPATCHING"
    /\ ops' = [ops EXCEPT ![r].status = "DELIVERY_UNKNOWN"]
    /\ UNCHANGED <<registry, logical, audit, latest, checkpoint, succ, tasks,
                   resumed, child, remote, call, load>>

\* verify_current, as of the moment it is asked.
ClaimCurrent(r) == ops[r].status = "DISPATCHING"

\* The admission before the send; the click comes at any time after it.
Arm(r) ==
    /\ child[r].phase = "running"
    /\ ClaimCurrent(r)
    /\ child' = [child EXCEPT ![r].phase = "armed"]
    /\ UNCHANGED <<registry, logical, ops, audit, latest, checkpoint, succ, tasks,
                   resumed, remote, call, load>>

Post(r) ==
    /\ child[r].phase = "armed"
    /\ \E c \in Chats :
         /\ remote[c] = None
         /\ remote' = [remote EXCEPT ![c] = r]
         /\ child' = [child EXCEPT ![r].phase = "posted", ![r].chat = c]
    /\ UNCHANGED <<registry, logical, ops, audit, latest, checkpoint, succ, tasks,
                   resumed, call, load>>

\* What the child leaves on its streams, by how far it came.
Left(phase) == CASE phase = "running"    -> {"wait", "refused", "unknown"}
                 [] phase = "armed"      -> {"witnessed", "unknown"}
                 [] phase = "posted"     -> {"witnessed", "unknown"}
                 [] phase = "registered" -> {"witnessed", "unknown", "delivered"}
                 [] OTHER                -> {}

ChildEnds(r) ==
    /\ \E left \in Left(child[r].phase) :
         child' = [child EXCEPT ![r].phase = "ended", ![r].receipt = left]
    /\ UNCHANGED <<registry, logical, ops, audit, latest, checkpoint, succ, tasks,
                   resumed, remote, call, load>>

\* Mutant: a finish trusts that the claim is still the worker's.
FinishableAlways(r) == TRUE

\* The claim a worker finishes must still be the one it took.
Finishable(r) == ops[r].status = "DISPATCHING"

Finished(row, receipt, chat) ==
    CASE receipt = "delivered" -> [row EXCEPT !.status = "SENT", !.session = chat]
      [] receipt = "wait"      -> [row EXCEPT !.status = "QUEUED"]
      [] receipt = "refused"   -> [row EXCEPT !.status = "FAILED_PRE_SEND"]
      [] receipt = "witnessed" -> [row EXCEPT !.status = "DELIVERY_UNKNOWN", !.witness = TRUE]
      [] OTHER                 -> [row EXCEPT !.status = "DELIVERY_UNKNOWN"]

\* The new conversation becomes the pending successor of its own rotation.
Pending(r, chat) ==
    IF logical # NoRow /\ logical.rotation = r /\ logical.state = "ROTATING"
    THEN [logical EXCEPT !.pending = chat]
    ELSE logical

\* finish, if the worker is still there to call it.
Finish(r) ==
    /\ child[r].phase = "ended"
    /\ LET receipt == child[r].receipt
           chat == child[r].chat
       IN  IF Finishable(r)
           THEN /\ ops' = [ops EXCEPT ![r] = Finished(@, receipt, chat)]
                /\ logical' = IF receipt = "delivered" THEN Pending(r, chat) ELSE logical
           ELSE UNCHANGED <<ops, logical>>
    /\ child' = [child EXCEPT ![r] = NoChild]
    /\ UNCHANGED <<registry, audit, latest, checkpoint, succ, tasks, resumed,
                   remote, call, load>>

-----------------------------------------------------------------------------
(* Puts of the registry, and the fence of a quarantined role.              *)

\* A child of the rotation in progress registers its own conversation.
Registers(r, c) ==
    /\ r # None
    /\ ClaimCurrent(r)
    /\ logical.state = "ROTATING"
    /\ logical.rotation = r
    /\ logical.owner = ops[r].caller
    /\ logical.epoch = ops[r].epoch
    /\ logical.pending \in {None, c}
    /\ ops[r].session = None
    /\ ops[r].event = latest
    /\ c # logical.owner
    /\ logical.owner \in Actives
    /\ Actives \cup Of("pending") \subseteq {logical.owner, c}
    /\ \A p \in Begun \ {r} : ops[p].session # c

\* Mutant: only entries that exist are fenced.
FenceAdmitsNew(c, entry, r) ==
    /\ \A q \in Quarantined : AuditValid(q)
    /\ latest # None /\ entry.role = "own" /\ entry.status \in {"active", "pending"} =>
         \/ registry[c].status = entry.status /\ registry[c].role = entry.role
         \/ registry[c] = Absent

\* fence_rotation_registration for a put that makes `entry` of chat c; r is
\* the rotation whose child asks, None for any other client.
FenceAdmits(c, entry, r) ==
    /\ \A q \in Quarantined : AuditValid(q)
    /\ latest # None /\ entry.role = "own" /\ entry.status \in {"active", "pending"} =>
         \/ /\ registry[c].status = entry.status
            /\ registry[c].role = entry.role
         \/ /\ registry[c] = Absent
            /\ entry.status = "pending"
            /\ Registers(r, c)

\* saveRegistry of main.js new.  Another entry of the same id is a conflict.
Register(r) ==
    /\ child[r].phase = "posted"
    /\ LET c == child[r].chat
       IN  IF registry[c] = Absent /\ FenceAdmits(c, Entry("pending"), r)
           THEN /\ registry' = [registry EXCEPT ![c] = Entry("pending")]
                /\ child' = [child EXCEPT ![r].phase = "registered"]
           ELSE /\ \E left \in {"witnessed", "unknown"} :
                     child' = [child EXCEPT ![r].phase = "ended", ![r].receipt = left]
                /\ UNCHANGED registry
    /\ UNCHANGED <<logical, ops, audit, latest, checkpoint, succ, tasks, resumed,
                   remote, call, load>>

Put(c, entry) ==
    /\ load.edits > 0
    /\ load' = [load EXCEPT !.edits = @ - 1]
    /\ FenceAdmits(c, entry, None)
    /\ registry' = [registry EXCEPT ![c] = entry]
    /\ UNCHANGED <<logical, ops, audit, latest, checkpoint, succ, tasks, resumed,
                   child, remote, call>>

\* `register`, by hand, of a conversation that exists; --status keeps the old
\* status unless it is given.
RegisterByHand(c) ==
    /\ remote[c] # None
    /\ \E status \in {"active", "retired", registry[c].status} \ {"absent"} :
         Put(c, [registry[c] EXCEPT !.status = status, !.role = "own"])

\* `retire`, `archive` or `delete`, and `forget`.
RetireByHand(c) ==
    /\ registry[c].status = "active"
    /\ Put(c, [registry[c] EXCEPT !.status = "retired"])

ForgetByHand(c) ==
    /\ registry[c].status \in {"active", "retired"}
    /\ Put(c, Absent)

-----------------------------------------------------------------------------
(* Checkpoints and exhausted tasks.                                        *)

TakeCheckpoint(c) ==
    /\ checkpoint.number < load.checkpoints
    /\ registry[c] # Absent
    /\ checkpoint' = [number |-> checkpoint.number + 1, session |-> c]
    /\ UNCHANGED <<registry, logical, ops, audit, latest, succ, tasks, resumed,
                   child, remote, call, load>>

\* The watchdog finds the conversation of a task at its context limit.
Exhaust(t) ==
    /\ load.exhausted
    /\ ~tasks[t].blocked
    /\ registry[tasks[t].session].status = "active"
    /\ tasks' = [tasks EXCEPT ![t].blocked = TRUE]
    /\ UNCHANGED <<registry, logical, ops, audit, latest, checkpoint, succ,
                   resumed, child, remote, call, load>>

-----------------------------------------------------------------------------
(* rotation_quarantine.                                                    *)

QuarantineView(r) == [op |-> ops[r], logical |-> logical, registry |-> registry,
                      tasks |-> tasks, checkpoint |-> checkpoint, succ |-> succ]

\* rotation_quarantine_context, which is evaluated again at the confirmation.
MayQuarantine(r) ==
    /\ r \in Begun
    /\ logical.rotation = r
    /\ ops[r].status = "DELIVERY_UNKNOWN"
    /\ ops[r].session = None
    /\ ~ops[r].witness
    /\ logical.pending = None
    /\ logical.state = "ROTATING"
    /\ Actives = {logical.owner}
    /\ logical.owner = ops[r].caller
    /\ logical.epoch = ops[r].epoch
    /\ succ[logical.owner] = None
    /\ Open = {}
    /\ checkpoint.session = logical.owner

QuarantinePreview(k, r) ==
    /\ Starts(k)
    /\ MayQuarantine(r)
    /\ call' = [call EXCEPT ![k] = [kind |-> "quarantine", rotation |-> r,
                                    seen |-> QuarantineView(r)]]
    /\ UNCHANGED <<registry, logical, ops, audit, latest, checkpoint, succ, tasks,
                   resumed, child, remote, load>>

\* A confirmation that finds the event recorded answers so and changes nothing.
QuarantineConfirm(k) ==
    /\ call[k].kind = "quarantine"
    /\ LET r == call[k].rotation
       IN  IF audit[r] = NoAudit /\ MayQuarantine(r) /\ call[k].seen = QuarantineView(r)
           THEN /\ audit' = [audit EXCEPT ![r] = [row |-> ops[r], at |-> checkpoint.number]]
                /\ latest' = r
                /\ logical' = [logical EXCEPT !.state = "QUARANTINED"]
           ELSE UNCHANGED <<audit, latest, logical>>
    /\ call' = [call EXCEPT ![k] = Idle]
    /\ UNCHANGED <<registry, ops, checkpoint, succ, tasks, resumed, child, remote, load>>

-----------------------------------------------------------------------------
(* rotation_recover: the confirmed call.  The observation of the candidate *)
(* conversation lies between its read and its commit.                      *)

RecoverView(r) == [op |-> ops[r], logical |-> logical, registry |-> registry]

\* assert_rotation_candidate_free.
CandidateFree(r, c) ==
    /\ Actives \subseteq {ops[r].caller}
    /\ \A p \in Begun \ {r} : ops[p].session # c
    /\ registry[c] = Absent
    /\ c \notin {ops[r].caller, logical.owner, logical.pending}

RecoverRead(k, r, c) ==
    /\ Starts(k)
    /\ r \in Begun
    /\ ops[r].status = "DELIVERY_UNKNOWN"
    /\ ops[r].session = None
    /\ ops[r].witness
    /\ logical.rotation = r
    /\ logical.state = "ROTATING"
    /\ logical.pending = None
    /\ logical.owner = ops[r].caller
    /\ logical.epoch = ops[r].epoch
    /\ HasController(ops[r].caller)
    /\ CandidateFree(r, c)
    /\ remote[c] = r                        \* exactly its message is there
    /\ call' = [call EXCEPT ![k] = [kind |-> "recover", rotation |-> r, chat |-> c,
                                    seen |-> RecoverView(r)]]
    /\ UNCHANGED <<registry, logical, ops, audit, latest, checkpoint, succ, tasks,
                   resumed, child, remote, load>>

\* The candidate is registered aside of the role, with the proof.
Recovered(r) == [status |-> "pending", role |-> "aside", proof |-> r]

RecoverCommit(k) ==
    /\ call[k].kind = "recover"
    /\ LET r == call[k].rotation
           c == call[k].chat
           seen == call[k].seen
       IN  IF seen = RecoverView(r) /\ CandidateFree(r, c)
           THEN /\ registry' = [seen.registry EXCEPT ![c] = Recovered(r)]
                /\ logical' = [logical EXCEPT !.pending = c]
                /\ ops' = [ops EXCEPT ![r].status = "SENT", ![r].session = c]
           ELSE UNCHANGED <<registry, logical, ops>>
    /\ call' = [call EXCEPT ![k] = Idle]
    /\ UNCHANGED <<audit, latest, checkpoint, succ, tasks, resumed, child, remote, load>>

-----------------------------------------------------------------------------
(* rotation_ack, by the successor through its own connection.              *)

AckView(r) == [op |-> ops[r], logical |-> logical, registry |-> registry,
               tasks |-> tasks, latest |-> latest]

\* What a quarantined role asks of the operation and the registry.
EventLinked(r, c) ==
    /\ AuditValid(latest)
    /\ ops[r].event = latest
    /\ ops[r].status = "SENT"
    /\ ops[r].session = c
    /\ ops[r].caller = logical.owner
    /\ ops[r].epoch = logical.epoch
    /\ registry[c].role = "own"
    /\ registry[c].status = "pending"
    /\ Actives = {logical.owner}
    /\ Of("pending") = {c}

\* A conversation with a recovery proof must be the one the proof is about.
ProofHolds(r, c) ==
    /\ registry[c].proof = r
    /\ ops[r].caller = logical.owner
    /\ ops[r].epoch = logical.epoch
    /\ registry[c].status = "pending"

MayAck(r, c) ==
    /\ logical # NoRow
    /\ logical.rotation = r
    /\ logical.state = "ROTATING"
    /\ logical.pending = c
    /\ c # None
    /\ registry[c] # Absent
    /\ registry[c].proof # None => ProofHolds(r, c)
    /\ latest # None => EventLinked(r, c)

AckRead(k, r, c) ==
    /\ Starts(k)
    /\ MayAck(r, c)
    /\ call' = [call EXCEPT ![k] = [kind |-> "ack", rotation |-> r, seen |-> AckView(r)]]
    /\ UNCHANGED <<registry, logical, ops, audit, latest, checkpoint, succ, tasks,
                   resumed, child, remote, load>>

\* Mutant: nothing is compared again.
AckUnchangedNever(seen, r) == TRUE

\* Mutant: runtime is not compared again.
AckUnchangedTasks(seen, r) == [seen EXCEPT !.tasks = tasks] = AckView(r)

AckUnchanged(seen, r) == seen = AckView(r)

HandedOver(reg, old, new) ==
    [c \in Chats |->
        CASE c = new -> [reg[c] EXCEPT !.status = "active", !.role = "own"]
          [] c = old /\ c # new /\ reg[c] # Absent -> [reg[c] EXCEPT !.status = "retired"]
          [] OTHER -> reg[c]]

\* The delegated tasks that wait for a successor of `old`.
Waiting(live, old) == {t \in Foreign : live[t].session = old /\ live[t].blocked}

AckCommit(k) ==
    /\ call[k].kind = "ack"
    /\ LET r == call[k].rotation
           seen == call[k].seen
           old == seen.logical.owner
           new == seen.logical.pending
           moving == Waiting(seen.tasks, old)
       IN  IF AckUnchanged(seen, r)
           THEN /\ registry' = HandedOver(seen.registry, old, new)
                /\ tasks' = [t \in Tasks |-> IF t \in moving
                                             THEN [session |-> new, blocked |-> FALSE]
                                             ELSE seen.tasks[t]]
                /\ succ' = [succ EXCEPT ![old] = [to |-> new, epoch |-> seen.logical.epoch + 1]]
                /\ logical' = [logical EXCEPT !.owner = new, !.epoch = @ + 1,
                                              !.state = "ACTIVE", !.pending = None,
                                              !.rotation = None]
                /\ resumed' = resumed \cup {[rotation |-> r, task |-> t, to |-> new] : t \in moving}
           ELSE UNCHANGED <<registry, tasks, succ, logical, resumed>>
    /\ call' = [call EXCEPT ![k] = Idle]
    /\ UNCHANGED <<ops, audit, latest, checkpoint, child, remote, load>>

-----------------------------------------------------------------------------
Next ==
    \/ \E k \in Calls :
         \/ PrepareRead(k) \/ PrepareCommit(k)
         \/ QuarantineConfirm(k) \/ RecoverCommit(k) \/ AckCommit(k)
         \/ \E r \in Rotations : QuarantinePreview(k, r)
         \/ \E r \in Rotations, c \in Chats : RecoverRead(k, r, c) \/ AckRead(k, r, c)
    \/ \E r \in Rotations :
         \/ Claim(r) \/ Cancel(r) \/ Retry(r) \/ Expire(r) \/ Arm(r) \/ Post(r)
         \/ ChildEnds(r) \/ Finish(r) \/ Register(r)
    \/ \E c \in Chats :
         RegisterByHand(c) \/ RetireByHand(c) \/ ForgetByHand(c) \/ TakeCheckpoint(c)
    \/ \E t \in Tasks : Exhaust(t)

Spec == Init /\ [][Next]_vars

-----------------------------------------------------------------------------
(* Properties.                                                             *)

\* The values the tables and documents of the role may hold.
TypeOK ==
    /\ registry \in [Chats -> Entries]
    /\ logical \in LogicalRows
    /\ ops \in [Rotations -> OpRows \cup {NoOp}]
    /\ audit \in [Rotations -> Audits \cup {NoAudit}]
    /\ latest \in Rotations \cup {None}
    /\ checkpoint \in Checkpoints
    /\ succ \in [Chats -> [to : Chats, epoch : Nat] \cup {None}]
    /\ tasks \in [Tasks -> [session : Chats, blocked : BOOLEAN]]
    /\ resumed \subseteq [rotation : Rotations, task : Foreign, to : Chats]
    /\ child \in [Rotations -> Children]
    /\ remote \in [Chats -> Rotations \cup {"hand", None}]
    /\ load \in [calls : Nat, claims : 0..MaxClaims,
                 checkpoints : 0..MaxCheckpoints, edits : Nat, exhausted : BOOLEAN]

\* Once a rotation of the role was quarantined, no conversation but the owner
\* is an active holder of the role: not one of a child that comes late, not
\* one an operator registers, and not one a recovery brings back.
ProtectedOwner == latest # None => Actives \subseteq {logical.owner}

\* The conversation of a quarantined rotation, whenever its child posts and
\* registers it, never takes the role: it is never active in it, never the
\* owner and never the pending successor.
LateNeverOwns ==
    \A c \in Chats : remote[c] \in Quarantined =>
        /\ logical.owner # c
        /\ logical.pending # c
        /\ c \notin Actives

\* A role that was quarantined stays with its owner, against an operator, a late
\* child and a recovery alike.
OneOwner == ProtectedOwner /\ LateNeverOwns

\* The operation of a quarantined rotation stays what the event recorded, in
\* spite of late finishes and recoveries: otherwise every later put of the
\* registry and every rotation of the role would fail its audit.
AuditHolds == \A r \in Quarantined : AuditValid(r)

\* Of all rotations of the role at most the one in the logical row, while it
\* rotates, may still be delivered: two prepares never both go ahead.
OneOpen == \A r \in Open : logical.state = "ROTATING" /\ logical.rotation = r

\* Every recorded successor was opened by the delivered handoff of a rotation
\* that its predecessor called, in the epoch before its own; nobody has two
\* predecessors, and the owner has no successor.
LineageSound ==
    /\ \A c \in Chats : succ[c] # None =>
         \E r \in Begun : /\ remote[succ[c].to] = r
                          /\ ops[r].status = "SENT"
                          /\ ops[r].session = succ[c].to
                          /\ ops[r].caller = c
                          /\ ops[r].epoch + 1 = succ[c].epoch
    /\ \A c, d \in Chats : c # d /\ succ[c] # None /\ succ[d] # None
                                => succ[c].to # succ[d].to
    /\ logical # NoRow => succ[logical.owner] = None

\* The role's history is one line: well-typed rows, one rotation open at a time,
\* and every successor made by its predecessor's own rotation.
Lineage == TypeOK /\ OneOpen /\ LineageSound

\* A role leaves quarantine with a handoff from a checkpoint that its owner
\* took after the event, whatever happened between the read and the commit of
\* the prepare that starts the new rotation.
FreshHandoff ==
    [][logical.state = "QUARANTINED" /\ logical'.state = "ROTATING" =>
         /\ ops'[logical'.rotation].event = latest
         /\ ops'[logical'.rotation].handoff = checkpoint.number
         /\ checkpoint.number > audit[latest].at
         /\ checkpoint.session = logical'.owner]_vars

\* A handover takes along every delegated task that is blocked on the retired
\* owner at that moment, with one resume operation for the successor, and
\* leaves every other task as it is.
HandoverKeepsTasks ==
    [][succ' # succ =>
         LET new == logical'.owner
             moving == Waiting(tasks, logical.owner)
         IN  /\ \A t \in moving : /\ tasks'[t] = [session |-> new, blocked |-> FALSE]
                                  /\ \E job \in resumed' \ resumed : job.task = t /\ job.to = new
             /\ \A t \in Tasks \ moving : tasks'[t] = tasks[t]]_vars

\* The rotations of the role implement Succession.
Promise == INSTANCE Succession WITH
    owner <- logical.owner,
    epoch <- logical.epoch,
    offer <- IF logical.state = "ROTATING" THEN logical.rotation ELSE None,
    begun <- Begun,
    brief <- [c \in Chats |-> IF remote[c] = "hand" THEN None ELSE remote[c]]

KeepsPromise == Promise!Spec

-----------------------------------------------------------------------------
(* docs/architecture.md: the owner "remains" until the recovered successor *)
(* invokes rotation-ack.  So that call must be admitted once the recovery  *)
(* has been committed.                                                     *)
RecoveredMayAck ==
    [][\A r \in Rotations, c \in Chats :
         registry[c] = Absent /\ registry'[c] = Recovered(r) => MayAck(r, c)']_vars

=============================================================================
