------------------------------ MODULE Dispatch ------------------------------
(***************************************************************************)
(* The durable delivery queue of src/coordinator.py: the operations table, *)
(* the workers that claim and run operations, the child process that types *)
(* a message into a conversation, the claim journal of delivery_attempt.py *)
(* and the admission fence the child passes just before it presses Send.   *)
(*                                                                         *)
(* A worker is one call of work_one (a thread of `serve` or a `work-one`   *)
(* command).  Each of its SQLite transactions is one action; everything    *)
(* between two transactions may interleave with other workers, with        *)
(* operator commands and with children whose worker is already gone.       *)
(*                                                                         *)
(* Time is abstracted: any claim may be older than the lease whenever the  *)
(* code compares it with the clock, and any postponed operation may become *)
(* due.  claimed_at is a serial number, unique per claim of an operation.  *)
(***************************************************************************)
EXTENDS Naturals

CONSTANTS
    Ops,            \* operation ids
    Workers,        \* concurrent work_one calls
    Accounts,       \* verified login identities
    Controllers,    \* concurrent `control pause|drain|resume` commands
    Kind,           \* Ops -> Kinds
    HomeAccount,    \* Ops -> Accounts, the account a row was queued for
    Creates,        \* the operations that open a new conversation
    RetryLimit,     \* PRE_SEND_RETRY_LIMIT
    MaxClaims,      \* bound: claims of one operation
    MaxEpoch        \* bound: control changes of one scope

Business == {"dispatch", "rotation"}    \* admitted only while RUNNING
Notices  == {"callback", "management"}  \* follow a committed successor
Kinds    == Business \cup Notices

ASSUME KindAssumption   == Kind \in [Ops -> Kinds]
ASSUME AccountAssumption == HomeAccount \in [Ops -> Accounts]
ASSUME CreatesAssumption == Creates \subseteq {o \in Ops : Kind[o] \in Business}
ASSUME BoundAssumption  == /\ RetryLimit \in Nat \ {0}
                           /\ MaxClaims \in Nat
                           /\ MaxEpoch \in Nat

VARIABLES
    ops,        \* the operations table, one row per operation
    due,        \* operations whose not_before has passed
    serial,     \* claims committed so far per operation: the clock of claimed_at
    control,    \* control_state: mode and epoch per scope, epoch 0 = no row
    setter,     \* set_control_mode calls between their epoch read and their write
    worker,     \* program counter and local variables of every worker
    latched,    \* workers whose process has latched SIGTERM or SIGINT
    child,      \* phase of the child process of every claim
    receipt,    \* what the child of a claim printed before it ended
    manifest,   \* the immutable manifest.json of a claim directory
    proofs,     \* reconcile calls holding exact evidence, not yet committed
    sent,       \* messages of an operation that reached the conversation
    pauses      \* history: how many times each scope has been paused or drained

vars == <<ops, due, serial, control, setter, worker, latched, child, receipt,
          manifest, proofs, sent, pauses>>

-----------------------------------------------------------------------------
Statuses == {"QUEUED", "DISPATCHING", "SENT", "DELIVERY_UNKNOWN",
             "FAILED_PRE_SEND", "CANCELLED", "WAITING_ROUTE",
             "RECONCILED_SUPERSEDED"}

Scopes == {"global", "project"}
Modes  == {"RUNNING", "DRAINING", "PAUSED"}
Stamps == [scope : Scopes \cup {"none"}, epoch : Nat]
NoStamp == [scope |-> "none", epoch |-> 0]

Rows == [status    : Statuses,
         attempts  : Nat,
         claimedAt : Nat,               \* 0 is NULL
         failures  : Nat,               \* pre_send_failures
         stamp     : Stamps,            \* control_scope, control_epoch
         account   : Accounts,
         session   : BOOLEAN]           \* session_ref is known

\* One claim directory, hence at most one child, per operation and ordinal.
Claims == Ops \X (1..MaxClaims)

\* What a child that ended by itself left on its streams.
Receipts == {"none",        \* no readable receipt, or a page of unknown fate
             "delivered",   \* the user message was observed in the conversation
             "attempted",   \* deliveryStage SEND_ATTEMPTED
             "wait",        \* PRE_SEND, a resource is busy: pacing, capacity, draft
             "unready",     \* PRE_SEND, a retryable interface readiness failure
             "refused"}     \* PRE_SEND, anything else

\* manifest.json: the claimed row, with the history of the mode read.
Manifests  == [row : Rows, since : [Scopes -> Nat]]
NoManifest == [row |-> "none"]

NoPauses == [s \in Scopes |-> 0]

Phases == {"none", "prepared", "running", "intent", "armed", "clicked", "ended"}
Live   == {"running", "intent", "armed", "clicked"}

\* What a finish may be asked to write.
Results == {"QUEUED", "SENT", "DELIVERY_UNKNOWN", "FAILED_PRE_SEND", "WAITING_ROUTE"}

Outcomes == [status  : Results,
             failure : BOOLEAN,     \* pre_send_failure
             wait    : BOOLEAN,     \* resource_receipt
             session : BOOLEAN]     \* session_ref argument of finish

Outcome(status) ==
    [status |-> status, failure |-> FALSE, wait |-> FALSE, session |-> FALSE]

PCs == {"committed", "claimed", "restamp", "reread", "ready",
        "prepared", "running", "recording", "finishing"}

Idle == [pc |-> "idle"]

WorkerStates == [pc    : PCs,
                 op    : Ops,
                 row   : Rows,      \* the worker's copy of the row
                 mode  : Stamps,    \* the mode work_one read
                 since : [Scopes -> Nat],   \* history: pauses when it read the mode
                 out   : Outcomes]  \* arguments of the pending finish

\* A worker's snapshot of the row it claimed is still the row in the table.
Current(o, row) == /\ ops[o].status = "DISPATCHING"
                   /\ ops[o].attempts = row.attempts
                   /\ ops[o].claimedAt = row.claimedAt

-----------------------------------------------------------------------------
(* management_mode for an operation of the project without a workgroup:    *)
(* the most restrictive scope wins, and of two running scopes the project. *)

InMode(m) == {s \in Scopes : control[s].epoch > 0 /\ control[s].mode = m}

Broadest(S) == IF "global" \in S THEN "global" ELSE "project"

Restrictive == IF InMode("PAUSED") # {} THEN InMode("PAUSED") ELSE InMode("DRAINING")

Closed == Restrictive # {}

ModeScope == IF Closed THEN Broadest(Restrictive)
             ELSE IF "project" \in InMode("RUNNING") THEN "project"
             ELSE IF "global" \in InMode("RUNNING") THEN "global"
             ELSE "none"

ModeStamp == IF ModeScope = "none" THEN NoStamp
             ELSE [scope |-> ModeScope, epoch |-> control[ModeScope].epoch]

-----------------------------------------------------------------------------
\* A store with queued operations and no control change yet.
Init ==
    /\ ops = [o \in Ops |-> [status |-> "QUEUED", attempts |-> 0, claimedAt |-> 0,
                             failures |-> 0, stamp |-> NoStamp,
                             account |-> HomeAccount[o], session |-> o \notin Creates]]
    /\ due = Ops
    /\ serial = [o \in Ops |-> 0]
    /\ control = [s \in Scopes |-> [mode |-> "RUNNING", epoch |-> 0]]
    /\ setter = [k \in Controllers |-> [scope |-> "none", epoch |-> 0]]
    /\ worker = [w \in Workers |-> Idle]
    /\ latched = {}
    /\ child = [c \in Claims |-> "none"]
    /\ receipt = [c \in Claims |-> "none"]
    /\ manifest = [c \in Claims |-> NoManifest]
    /\ proofs = {}
    /\ sent = [o \in Ops |-> 0]
    /\ pauses = NoPauses

-----------------------------------------------------------------------------
(* claim: one writer transaction expires overdue claims and takes the most *)
(* urgent due row whose account has no claim.                              *)

Dispatching == {o \in Ops : ops[o].status = "DISPATCHING"}

\* Mutant: overdue claims are never expired.
ExpiredNever(stale) == ops

Expired(stale) ==
    [o \in Ops |-> IF o \in stale
                   THEN [ops[o] EXCEPT !.status = "DELIVERY_UNKNOWN"]
                   ELSE ops[o]]

Rank(o) == CASE Kind[o] = "management" -> 0
             [] Kind[o] = "callback"   -> 1
             [] Kind[o] = "rotation"   -> 2
             [] Kind[o] = "dispatch"   -> 3

\* Mutant: an uncertain delivery keeps its account occupied.
ClaimableAfterUnknown(table) ==
    {o \in due : /\ table[o].status = "QUEUED"
                 /\ serial[o] < MaxClaims
                 /\ \A p \in Ops : table[p].status \in {"DISPATCHING", "DELIVERY_UNKNOWN"}
                                     => table[p].account # table[o].account}

Claimable(table) ==
    {o \in due : /\ table[o].status = "QUEUED"
                 /\ serial[o] < MaxClaims
                 /\ \A p \in Ops : table[p].status = "DISPATCHING"
                                     => table[p].account # table[o].account}

MostUrgent(table) ==
    {o \in Claimable(table) : \A p \in Claimable(table) : Rank(o) <= Rank(p)}

ClaimedRow(row, time) == [row EXCEPT !.status = "DISPATCHING",
                                     !.attempts = @ + 1,
                                     !.claimedAt = time]

Claim(w) ==
    /\ worker[w] = Idle
    /\ w \notin latched
    /\ \E stale \in SUBSET Dispatching : \E o \in MostUrgent(Expired(stale)) :
         LET row == ClaimedRow(ops[o], serial[o] + 1)
         IN  /\ ops' = [Expired(stale) EXCEPT ![o] = row]
             /\ serial' = [serial EXCEPT ![o] = @ + 1]
             /\ worker' = [worker EXCEPT ![w] =
                             [pc |-> "committed", op |-> o, row |-> row, mode |-> NoStamp,
                              since |-> NoPauses, out |-> Outcome("QUEUED")]]
    /\ UNCHANGED <<due, control, setter, latched, child, receipt, manifest,
                   proofs, sent, pauses>>

\* The expiry of claim, or of `recover`, when no row is taken.
Recover ==
    /\ \E stale \in SUBSET Dispatching : stale # {} /\ ops' = Expired(stale)
    /\ UNCHANGED <<due, serial, control, setter, worker, latched, child, receipt,
                   manifest, proofs, sent, pauses>>

\* Advance worker w to pc, leaving every other local variable alone.
Goto(w, pc) == worker' = [worker EXCEPT ![w].pc = pc]

\* Advance worker w to its finish with the given outcome.
Settle(w, out) == worker' = [worker EXCEPT ![w].pc = "finishing", ![w].out = out]

ReturnedRow(row) == [row EXCEPT !.status = "QUEUED",
                                !.attempts = @ - 1,
                                !.claimedAt = 0]

\* claim returns: cancellation latched during COMMIT gives the row back.
ReturnClaim(w) ==
    /\ worker[w].pc = "committed"
    /\ LET o == worker[w].op
           row == worker[w].row
       IN  IF w \notin latched
           THEN Goto(w, "claimed") /\ UNCHANGED ops
           ELSE /\ worker' = [worker EXCEPT ![w] = Idle]
                /\ ops' = IF Current(o, row)
                          THEN [ops EXCEPT ![o] = ReturnedRow(ops[o])]
                          ELSE ops
    /\ UNCHANGED <<due, serial, control, setter, latched, child, receipt, manifest,
                   proofs, sent, pauses>>

-----------------------------------------------------------------------------
(* work_one between claim and finish.                                      *)

\* retarget_notification: the owner is still active, or its committed
\* successor is (possibly on another account), or nobody can be told yet.
Retarget(w) ==
    /\ worker[w].pc = "claimed"
    /\ Kind[worker[w].op] \in Notices
    /\ LET o == worker[w].op
           row == worker[w].row
       IN  \/ Goto(w, "ready") /\ UNCHANGED ops
           \/ Settle(w, Outcome("WAITING_ROUTE")) /\ UNCHANGED ops
           \/ \E a \in Accounts :
                /\ Current(o, row)
                /\ ops' = [ops EXCEPT ![o].account = a]
                /\ worker' = [worker EXCEPT ![w].row.account = a, ![w].pc = "ready"]
           \/ ~Current(o, row) /\ worker' = [worker EXCEPT ![w] = Idle] /\ UNCHANGED ops
    /\ UNCHANGED <<due, serial, control, setter, latched, child, receipt, manifest,
                   proofs, sent, pauses>>

\* Read the admission mode of a business operation.
CheckMode(w) ==
    /\ worker[w].pc = "claimed"
    /\ Kind[worker[w].op] \in Business
    /\ worker' = [worker EXCEPT
           ![w].since = pauses,
           ![w].mode  = ModeStamp,
           ![w].out   = Outcome("QUEUED"),
           ![w].pc    = IF Closed THEN "finishing"
                        ELSE IF worker[w].row.stamp # ModeStamp THEN "restamp"
                        ELSE "ready"]
    /\ UNCHANGED <<ops, due, serial, control, setter, latched, child, receipt,
                   manifest, proofs, sent, pauses>>

\* The control scope and epoch are rewritten whatever became of the claim,
Restamp(w) ==
    /\ worker[w].pc = "restamp"
    /\ ops' = [ops EXCEPT ![worker[w].op].stamp = worker[w].mode]
    /\ Goto(w, "reread")
    /\ UNCHANGED <<due, serial, control, setter, latched, child, receipt, manifest,
                   proofs, sent, pauses>>

\* and the row is read again in a transaction of its own.
Reread(w) ==
    /\ worker[w].pc = "reread"
    /\ worker' = [worker EXCEPT ![w].row = ops[worker[w].op], ![w].pc = "ready"]
    /\ UNCHANGED <<ops, due, serial, control, setter, latched, child, receipt,
                   manifest, proofs, sent, pauses>>

\* The registry no longer gives the route the first claim recorded.
RouteChanged(w) ==
    /\ worker[w].pc = "ready"
    /\ Settle(w, Outcome("FAILED_PRE_SEND"))
    /\ UNCHANGED <<ops, due, serial, control, setter, latched, child, receipt,
                   manifest, proofs, sent, pauses>>

\* The claim of a worker, which names its directory delivery-attempts/<op>/<n>.
ClaimOf(w) == <<worker[w].op, worker[w].row.attempts>>

\* Publish the exact claim before any child starts.  A changed row, or a
\* directory that exists already, is never armed.
Prepare(w) ==
    /\ worker[w].pc = "ready"
    /\ LET o == worker[w].op
           row == worker[w].row
           same == [ops[o] EXCEPT !.failures = row.failures, !.stamp = row.stamp] = row
       IN  IF same /\ child[ClaimOf(w)] = "none"
           THEN /\ child' = [child EXCEPT ![ClaimOf(w)] = "prepared"]
                /\ manifest' = [manifest EXCEPT ![ClaimOf(w)] =
                                  [row |-> row, since |-> worker[w].since]]
                /\ Goto(w, "prepared")
           ELSE Settle(w, Outcome("DELIVERY_UNKNOWN")) /\ UNCHANGED <<child, manifest>>
    /\ UNCHANGED <<ops, due, serial, control, setter, latched, receipt, proofs,
                   sent, pauses>>

\* Start the child.  After claim returned, a latched cancellation or a failing
\* spawn is an uncertain delivery, not a queued one.
Spawn(w) ==
    /\ worker[w].pc = "prepared"
    /\ \/ /\ w \notin latched
          /\ child' = [child EXCEPT ![ClaimOf(w)] = "running"]
          /\ Goto(w, "running")
       \/ Settle(w, Outcome("DELIVERY_UNKNOWN")) /\ UNCHANGED child
    /\ UNCHANGED <<ops, due, serial, control, setter, latched, receipt, manifest,
                   proofs, sent, pauses>>

\* What work_one makes of the receipt of a child that ended by itself.
ReceiptOutcome(o, row, r) ==
    CASE r = "delivered" -> [Outcome("SENT") EXCEPT !.session = TRUE]
      [] r = "wait"      -> [Outcome("QUEUED") EXCEPT !.wait = TRUE]
      [] r = "unready" /\ row.failures + 1 < RetryLimit
                         -> [Outcome("QUEUED") EXCEPT !.failure = TRUE]
      [] r = "refused" \/ (r = "unready" /\ row.failures + 1 >= RetryLimit)
                         -> [Outcome("FAILED_PRE_SEND") EXCEPT !.failure = TRUE]
      [] OTHER           -> Outcome("DELIVERY_UNKNOWN")

\* A delivered dispatch that opened a conversation registers its task next.
Collect(w) ==
    /\ worker[w].pc = "running"
    /\ child[ClaimOf(w)] = "ended"
    /\ w \notin latched
    /\ LET o == worker[w].op
           row == worker[w].row
           r == receipt[ClaimOf(w)]
       IN  IF r = "delivered" /\ Kind[o] = "dispatch" /\ ~row.session
           THEN Goto(w, "recording")
           ELSE Settle(w, ReceiptOutcome(o, row, r))
    /\ UNCHANGED <<ops, due, serial, control, setter, latched, child, receipt,
                   manifest, proofs, sent, pauses>>

\* Mutant: a child that was given up is taken for one that sent nothing.
AbandonToQueue(w) ==
    /\ worker[w].pc = "running"
    /\ Settle(w, Outcome("QUEUED"))
    /\ UNCHANGED <<ops, due, serial, control, setter, latched, child, receipt,
                   manifest, proofs, sent, pauses>>

\* Timeout or cancellation.  The group is signalled, but what already runs in
\* the browser may go on: the child is left as it is and may end, or not.
Abandon(w) ==
    /\ worker[w].pc = "running"
    /\ Settle(w, Outcome("DELIVERY_UNKNOWN"))
    /\ UNCHANGED <<ops, due, serial, control, setter, latched, child, receipt,
                   manifest, proofs, sent, pauses>>

\* The `task set` child of a new conversation.
RecordTask(w) ==
    /\ worker[w].pc = "recording"
    /\ \E status \in {"SENT", "DELIVERY_UNKNOWN"} :
         Settle(w, [Outcome(status) EXCEPT !.session = TRUE])
    /\ UNCHANGED <<ops, due, serial, control, setter, latched, child, receipt,
                   manifest, proofs, sent, pauses>>

-----------------------------------------------------------------------------
\* finish: compare and set on status, attempts and claimed_at.  A resource wait
\* of an open scope may have used up its budget.
FinalStatuses(o, out) ==
    IF out.wait /\ ~(Kind[o] \in Business /\ Closed)
    THEN {"QUEUED", "FAILED_PRE_SEND"}
    ELSE {out.status}

FinishedRow(row, out, status) ==
    [row EXCEPT !.status = status,
                !.claimedAt = 0,
                !.failures = IF out.failure THEN @ + 1 ELSE @,
                !.session = IF out.session THEN TRUE ELSE @]

\* Mutant: the result is written without asking whether the claim is still held.
FinishAnyway(w) ==
    /\ worker[w].pc = "finishing"
    /\ worker' = [worker EXCEPT ![w] = Idle]
    /\ \E status \in FinalStatuses(worker[w].op, worker[w].out) :
         ops' = [ops EXCEPT ![worker[w].op] =
                   FinishedRow(ops[worker[w].op], worker[w].out, status)]
    /\ UNCHANGED <<due, serial, control, setter, latched, child, receipt, manifest,
                   proofs, sent, pauses>>

Finish(w) ==
    /\ worker[w].pc = "finishing"
    /\ worker' = [worker EXCEPT ![w] = Idle]
    /\ LET o == worker[w].op
           out == worker[w].out
       IN  IF Current(o, worker[w].row)
           THEN \E status \in FinalStatuses(o, out) :
                  /\ ops' = [ops EXCEPT ![o] = FinishedRow(ops[o], out, status)]
                  /\ due' = IF status = "QUEUED" THEN due \ {o} ELSE due
           ELSE UNCHANGED <<ops, due>>
    /\ UNCHANGED <<serial, control, setter, latched, child, receipt, manifest,
                   proofs, sent, pauses>>

\* not_before passes.
Elapse(o) ==
    /\ o \notin due
    /\ due' = due \cup {o}
    /\ UNCHANGED <<ops, serial, control, setter, worker, latched, child, receipt,
                   manifest, proofs, sent, pauses>>

-----------------------------------------------------------------------------
(* The process of a worker: cancellation, sudden death, restart.           *)

Interrupt(w) ==
    /\ w \notin latched
    /\ latched' = latched \cup {w}
    /\ UNCHANGED <<ops, due, serial, control, setter, worker, child, receipt,
                   manifest, proofs, sent, pauses>>

\* A latched process exits once its worker is done, and is started again.
Restart(w) ==
    /\ worker[w] = Idle
    /\ w \in latched
    /\ latched' = latched \ {w}
    /\ UNCHANGED <<ops, due, serial, control, setter, worker, child, receipt,
                   manifest, proofs, sent, pauses>>

\* SIGKILL or power loss: nothing is finished, a child of its own session lives.
Crash(w) ==
    /\ worker[w] # Idle
    /\ worker' = [worker EXCEPT ![w] = Idle]
    /\ latched' = latched \ {w}
    /\ UNCHANGED <<ops, due, serial, control, setter, child, receipt, manifest,
                   proofs, sent, pauses>>

-----------------------------------------------------------------------------
(* The child: sendVerified and triggerSend of src/main.js, its journal     *)
(* phases, and the `delivery-admission` command it asks before the click.  *)

\* verify_current: the row still is the claim its manifest describes.
VerifyCurrent(c) ==
    /\ ops[c[1]].status = "DISPATCHING"
    /\ [ops[c[1]] EXCEPT !.failures = manifest[c].row.failures] = manifest[c].row

\* Mutant: any open mode admits, whatever happened since the mode was read.
FenceOpen(c) == VerifyCurrent(c) /\ (Kind[c[1]] \in Business => ~Closed)

\* delivery-admission: business also needs the mode its claim was stamped with.
Fence(c) ==
    /\ VerifyCurrent(c)
    /\ Kind[c[1]] \in Business => ~Closed /\ ModeStamp = ops[c[1]].stamp

\* The child of claim c ends and leaves receipt r.
End(c, r) == /\ child' = [child EXCEPT ![c] = "ended"]
             /\ receipt' = [receipt EXCEPT ![c] = r]

childUnchanged == <<ops, due, serial, control, setter, worker, latched, manifest,
                    proofs, pauses>>

\* A wait, an unready interface or a refusal before the first admission.
Decline(c) ==
    /\ child[c] = "running"
    /\ \E r \in {"wait", "unready", "refused"} : End(c, r)
    /\ UNCHANGED childUnchanged /\ UNCHANGED sent

\* First admission and the exclusive, synced SEND_INTENT.  Failing to write
\* the intent counts as an attempt.
RecordIntent(c) ==
    /\ child[c] = "running"
    /\ IF Fence(c)
       THEN \/ child' = [child EXCEPT ![c] = "intent"] /\ UNCHANGED receipt
            \/ End(c, "attempted")
       ELSE End(c, "refused")
    /\ UNCHANGED childUnchanged /\ UNCHANGED sent

\* Second admission, after the intent: a refusal no longer proves PRE_SEND.
Arm(c) ==
    /\ child[c] = "intent"
    /\ IF Fence(c)
       THEN child' = [child EXCEPT ![c] = "armed"] /\ UNCHANGED receipt
       ELSE End(c, "attempted")
    /\ UNCHANGED childUnchanged /\ UNCHANGED sent

\* The click, which may also fail with or without effect.
Click(c) ==
    /\ child[c] = "armed"
    /\ \/ /\ sent' = [sent EXCEPT ![c[1]] = @ + 1]
          /\ \/ child' = [child EXCEPT ![c] = "clicked"] /\ UNCHANGED receipt
             \/ End(c, "attempted")
       \/ End(c, "attempted") /\ UNCHANGED sent
    /\ UNCHANGED childUnchanged

\* deliveryObserved, or DELIVERY_UNCONFIRMED.
Observe(c) ==
    /\ child[c] = "clicked"
    /\ \E r \in {"delivered", "attempted"} : End(c, r)
    /\ UNCHANGED childUnchanged /\ UNCHANGED sent

\* The child dies, is killed, or ends without a readable receipt.
ChildDies(c) ==
    /\ child[c] \in Live
    /\ End(c, "none")
    /\ UNCHANGED childUnchanged /\ UNCHANGED sent

-----------------------------------------------------------------------------
(* Commands of operators and of the routing code.                          *)

dispatchUnchanged == <<serial, worker, latched, child, receipt, manifest, sent>>

\* Mutant: an uncertain delivery may be retried.
RetryUnknown(o) ==
    /\ ops[o].status \in {"FAILED_PRE_SEND", "DELIVERY_UNKNOWN"}
    /\ ops' = [ops EXCEPT ![o].status = "QUEUED", ![o].failures = 0]
    /\ due' = due \cup {o}
    /\ UNCHANGED dispatchUnchanged /\ UNCHANGED <<control, setter, proofs, pauses>>

\* Mutant: a retried operation counts its claims from the start.
RetryFromScratch(o) ==
    /\ ops[o].status = "FAILED_PRE_SEND"
    /\ ops' = [ops EXCEPT ![o].status = "QUEUED", ![o].failures = 0, ![o].attempts = 0]
    /\ due' = due \cup {o}
    /\ UNCHANGED dispatchUnchanged /\ UNCHANGED <<control, setter, proofs, pauses>>

\* Mutant: a retried operation keeps its used budget.
RetryExhausted(o) ==
    /\ ops[o].status = "FAILED_PRE_SEND"
    /\ ops' = [ops EXCEPT ![o].status = "QUEUED"]
    /\ due' = due \cup {o}
    /\ UNCHANGED dispatchUnchanged /\ UNCHANGED <<control, setter, proofs, pauses>>

\* `queue retry`: only from a proven failure before the send.
Retry(o) ==
    /\ ops[o].status = "FAILED_PRE_SEND"
    /\ ops' = [ops EXCEPT ![o].status = "QUEUED", ![o].failures = 0]
    /\ due' = due \cup {o}
    /\ UNCHANGED dispatchUnchanged /\ UNCHANGED <<control, setter, proofs, pauses>>

\* `queue cancel`: only while queued.
Cancel(o) ==
    /\ ops[o].status = "QUEUED"
    /\ ops' = [ops EXCEPT ![o].status = "CANCELLED"]
    /\ UNCHANGED dispatchUnchanged /\ UNCHANGED <<due, control, setter, proofs, pauses>>

\* refresh_waiting_routes: successors of waiting notices were committed.
RefreshRoutes ==
    /\ \E S \in SUBSET {o \in Ops : /\ Kind[o] \in Notices
                                    /\ ops[o].status = "WAITING_ROUTE"} :
         /\ S # {}
         /\ \E account \in [S -> Accounts] :
              ops' = [o \in Ops |->
                        IF o \in S THEN [ops[o] EXCEPT !.status = "QUEUED",
                                                       !.account = account[o]]
                        ELSE ops[o]]
         /\ due' = due \cup S
    /\ UNCHANGED dispatchUnchanged /\ UNCHANGED <<control, setter, proofs, pauses>>

\* reconcile reads the chat outside any transaction: exactly one user message
\* with the expected text in the bound conversation is proof of delivery,
ReadEvidence(o) ==
    /\ ops[o].status = "DELIVERY_UNKNOWN"
    /\ Kind[o] # "rotation"
    /\ ops[o].session
    /\ sent[o] = 1
    /\ proofs' = proofs \cup {o}
    /\ UNCHANGED dispatchUnchanged /\ UNCHANGED <<ops, due, control, setter, pauses>>

\* which counts only if the operation is still unknown when it is committed.
CommitEvidence(o) ==
    /\ o \in proofs
    /\ proofs' = proofs \ {o}
    /\ ops' = IF ops[o].status = "DELIVERY_UNKNOWN"
              THEN [ops EXCEPT ![o].status = "SENT"]
              ELSE ops
    /\ UNCHANGED dispatchUnchanged /\ UNCHANGED <<due, control, setter, pauses>>

\* reconcile of a management notice whose target retired to a successor.
Supersede(o) ==
    /\ ops[o].status = "DELIVERY_UNKNOWN"
    /\ Kind[o] = "management"
    /\ ops' = [ops EXCEPT ![o].status = "RECONCILED_SUPERSEDED"]
    /\ UNCHANGED dispatchUnchanged /\ UNCHANGED <<due, control, setter, proofs, pauses>>

\* set_control_mode reads the epoch in autocommit,
ReadEpoch(k) ==
    /\ setter[k].scope = "none"
    /\ \E s \in Scopes :
         /\ control[s].epoch < MaxEpoch
         /\ setter' = [setter EXCEPT ![k] = [scope |-> s, epoch |-> control[s].epoch]]
    /\ UNCHANGED dispatchUnchanged /\ UNCHANGED <<ops, due, control, proofs, pauses>>

\* and writes mode and epoch + 1 when it gets the writer lock.
SetMode(k) ==
    /\ setter[k].scope # "none"
    /\ \E m \in Modes :
         /\ control' = [control EXCEPT ![setter[k].scope] =
                          [mode |-> m, epoch |-> setter[k].epoch + 1]]
         /\ pauses' = IF m = "RUNNING" THEN pauses
                      ELSE [pauses EXCEPT ![setter[k].scope] = @ + 1]
    /\ setter' = [setter EXCEPT ![k] = [scope |-> "none", epoch |-> 0]]
    /\ UNCHANGED dispatchUnchanged /\ UNCHANGED <<ops, due, proofs>>

-----------------------------------------------------------------------------
WorkerStep(w) ==
    \/ ReturnClaim(w) \/ Retarget(w) \/ CheckMode(w) \/ Restamp(w) \/ Reread(w)
    \/ RouteChanged(w) \/ Prepare(w) \/ Spawn(w) \/ Collect(w) \/ Abandon(w)
    \/ RecordTask(w) \/ Finish(w)

ProcessStep(w) == Interrupt(w) \/ Restart(w) \/ Crash(w)

ChildStep(c) ==
    \/ Decline(c) \/ RecordIntent(c) \/ Arm(c) \/ Click(c) \/ Observe(c) \/ ChildDies(c)

Command(o) ==
    \/ Retry(o) \/ Cancel(o) \/ ReadEvidence(o) \/ CommitEvidence(o) \/ Supersede(o)

Next ==
    \/ \E w \in Workers : Claim(w) \/ WorkerStep(w) \/ ProcessStep(w)
    \/ \E c \in Claims : ChildStep(c)
    \/ \E o \in Ops : Command(o) \/ Elapse(o)
    \/ \E k \in Controllers : ReadEpoch(k) \/ SetMode(k)
    \/ Recover
    \/ RefreshRoutes

Spec == Init /\ [][Next]_vars

-----------------------------------------------------------------------------
(* Properties.                                                             *)

\* Every variable stays within the types of the tables, journals and locals.
TypeOK ==
    /\ ops \in [Ops -> Rows]
    /\ due \subseteq Ops
    /\ serial \in [Ops -> 0..MaxClaims]
    /\ control \in [Scopes -> [mode : Modes, epoch : Nat]]
    /\ setter \in [Controllers -> Stamps]
    /\ worker \in [Workers -> WorkerStates \cup {Idle}]
    /\ latched \subseteq Workers
    /\ child \in [Claims -> Phases]
    /\ receipt \in [Claims -> Receipts]
    /\ manifest \in [Claims -> Manifests \cup {NoManifest}]
    /\ proofs \subseteq Ops
    /\ sent \in [Ops -> Nat]
    /\ pauses \in [Scopes -> Nat]

\* No operation ever puts its message into the conversation twice, whatever
\* crashes, expiries, retries and late children occur on the way.
AtMostOnce == \A o \in Ops : sent[o] <= 1

\* A status that allows another try, or that promises nothing was sent, is
\* honest: the message is not in the conversation and no child left over from
\* an earlier claim is still able to put it there.
ProvenUnsent ==
    \A o \in Ops :
        ops[o].status \in {"QUEUED", "FAILED_PRE_SEND", "CANCELLED", "WAITING_ROUTE"}
            => /\ sent[o] = 0
               /\ \A n \in 1..MaxClaims : child[<<o, n>>] \notin Live

\* SENT, reported by a child or reconciled from chat evidence, means the
\* message is in the conversation.
SentIsDelivered == \A o \in Ops : ops[o].status = "SENT" => sent[o] = 1

\* What an operation's status says of its message is true, whether it says sent or
\* not sent: neither crashes and abandoned children nor reconciliation make the
\* table of coordinator.py differ from what the conversation holds.
OutcomesTrue == ProvenUnsent /\ SentIsDelivered

\* A worker about to publish a claim that is still its own finds no directory
\* of that name: ordinals given back by a cancelled claim were never armed.
FreshDirectory ==
    \A w \in Workers :
        /\ worker[w].pc \in {"claimed", "restamp", "reread", "ready"}
        /\ Current(worker[w].op, worker[w].row)
        => child[ClaimOf(w)] = "none"

\* Two business operations of one account are never in flight together, even
\* though the account of a claimed notice may be rewritten to a successor's.
BusinessExclusive ==
    \A o, p \in Ops :
        /\ o # p /\ Kind[o] \in Business /\ Kind[p] \in Business
        /\ ops[o].status = "DISPATCHING" /\ ops[p].status = "DISPATCHING"
        => ops[o].account # ops[p].account

\* Automatic retries end: a queued row always has budget left.
RetryBudget ==
    \A o \in Ops : ops[o].status = "QUEUED" => ops[o].failures < RetryLimit

\* The second admission never lets a business child through on a mode its
\* worker read before a pause or drain: resuming does not revive what a pause
\* stopped.  A claim stamped by the project's own row is held to the pauses of
\* the project only; a global pause and resume leaves that stamp current.
PauseFence ==
    [][\A c \in Claims :
         child[c] = "intent" /\ child'[c] = "armed" /\ Kind[c[1]] \in Business
            => \A s \in IF manifest[c].row.stamp.scope = "project"
                       THEN {"project"} ELSE Scopes :
                  manifest[c].since[s] = pauses[s]]_vars

-----------------------------------------------------------------------------
(* The promise of Delivery, which the queue implements.                    *)

PhaseOf(status) ==
    CASE status \in {"QUEUED", "WAITING_ROUTE"}            -> "waiting"
      [] status = "DISPATCHING"                            -> "trying"
      [] status = "SENT"                                   -> "delivered"
      [] status = "DELIVERY_UNKNOWN"                       -> "uncertain"
      [] status = "FAILED_PRE_SEND"                        -> "failed"
      [] status \in {"CANCELLED", "RECONCILED_SUPERSEDED"} -> "dropped"

Promise == INSTANCE Delivery WITH phase  <- [o \in Ops |-> PhaseOf(ops[o].status)],
                                  posted <- sent

\* Every step of the queue is a step of the promise: a late finish, a repeated
\* command or an expired claim changes the outcome of no operation.
KeepsPromise == Promise!Spec

-----------------------------------------------------------------------------
(* Liveness.  `serve` polls every second and its supervisor restarts it, so *)
(* workers keep stepping, the expiry of old claims keeps running and, of    *)
(* the polls that find a due row, one is eventually not interrupted.        *)
(* Commands, children and crashes get no fairness.                          *)

Fairness ==
    /\ \A w \in Workers : WF_vars(WorkerStep(w)) /\ WF_vars(Restart(w))
    /\ \A w \in Workers : SF_vars(Claim(w))
    /\ \A o \in Ops : WF_vars(Elapse(o))
    /\ WF_vars(Recover)

FairSpec == Spec /\ Fairness

\* A claim is always settled, by its worker or by its expiry: a worker that
\* died does not keep its account occupied for ever.
EveryClaimEnds ==
    \A o \in Ops : ops[o].status = "DISPATCHING" ~> ops[o].status # "DISPATCHING"

\* A queued operation is eventually claimed or cancelled, unless others keep
\* coming back to the queue before it: a claim that was never finished, or one
\* of unknown fate, does not block its account.  MaxClaims is TLC's bound only.
QueuedIsTried ==
    \A o \in Ops :
        (\A p \in Ops \ {o} : <>[](ops[p].status # "QUEUED"))
            => (ops[o].status = "QUEUED" /\ serial[o] < MaxClaims
                  ~> ops[o].status # "QUEUED")
=============================================================================
