--------------------------- MODULE DispatchProofs ---------------------------
(* Theorems about the delivery queue of Dispatch, for any number of workers, *)
(* operations, accounts, claims and retries.                                 *)
EXTENDS Dispatch, TLAPS

\* A claim that may still be given back has an ordinal to give back.
CommittedCounted ==
    \A w \in Workers : worker[w].pc = "committed" => worker[w].row.attempts >= 1

InFlight == {"DISPATCHING", "DELIVERY_UNKNOWN", "SENT", "RECONCILED_SUPERSEDED"}

\* The worker is between its claim and its finish.
Working(w) == worker[w].pc \in PCs

Unpublished == {"committed", "claimed", "restamp", "reread", "ready"}

Denials == {"QUEUED", "FAILED_PRE_SEND", "WAITING_ROUTE"}

\* No row counts more attempts than claims were committed.
AttemptsCounted ==
    /\ \A o \in Ops : ops[o].attempts <= serial[o]
    /\ \A w \in Workers : Working(w) => worker[w].row.attempts >= 1

\* A worker's operation is in flight under the ordinal the worker claimed.
ClaimHeld ==
    \A w \in Workers : Working(w) =>
        /\ ops[worker[w].op].status \in InFlight
        /\ ops[worker[w].op].attempts = worker[w].row.attempts

\* Two workers never hold one operation.
OneHolder ==
    \A v, w \in Workers :
        v # w /\ Working(v) /\ Working(w) => worker[v].op # worker[w].op

\* Claim directories exist for committed ordinals only, and a child that can
\* still act belongs to the current ordinal of an operation in flight.
ChildrenCurrent ==
    \A o \in Ops, n \in 1..MaxClaims :
        /\ child[<<o, n>>] # "none" => n <= ops[o].attempts
        /\ child[<<o, n>>] \in Live => n = ops[o].attempts /\ ops[o].status \in InFlight

\* Until its worker publishes it, a claim has no directory; until its worker
\* starts it, its child has done nothing.
NotYetStarted ==
    \A w \in Workers :
        /\ worker[w].pc \in Unpublished => child[ClaimOf(w)] = "none"
        /\ worker[w].pc = "prepared" => child[ClaimOf(w)] = "prepared"

\* A message in the conversation was posted once, by the child of the current
\* ordinal, which left no receipt that proves the contrary.
PostedByCurrent ==
    \A o \in Ops : sent[o] # 0 =>
        /\ sent[o] = 1
        /\ ops[o].status \in InFlight
        /\ ops[o].attempts >= 1
        /\ child[<<o, ops[o].attempts>>] \in {"clicked", "ended"}
        /\ receipt[<<o, ops[o].attempts>>] \notin {"wait", "unready", "refused"}

\* Whoever believes in a delivery is right.
BeliefsTrue ==
    /\ \A c \in Claims : child[c] = "clicked" \/ receipt[c] = "delivered" => sent[c[1]] # 0
    /\ \A c \in Claims : child[c] # "ended" => receipt[c] = "none"
    /\ \A o \in Ops : o \in proofs \/ ops[o].status = "SENT" => sent[o] # 0
    /\ \A w \in Workers :
          worker[w].pc = "recording" \/ (worker[w].pc = "finishing" /\ worker[w].out.status = "SENT")
              => sent[worker[w].op] # 0

\* A worker about to report that nothing was sent is right, and its child can
\* no longer prove it wrong.
DenialsTrue ==
    \A w \in Workers :
        worker[w].pc = "finishing" =>
          /\ worker[w].out.status \in Denials
               => sent[worker[w].op] = 0 /\ child[ClaimOf(w)] \notin Live
          /\ worker[w].out.wait => worker[w].out.status = "QUEUED"

SafeInv == /\ TypeOK /\ CommittedCounted /\ AttemptsCounted /\ ClaimHeld /\ OneHolder /\ ChildrenCurrent
           /\ NotYetStarted /\ PostedByCurrent /\ BeliefsTrue /\ DenialsTrue

-----------------------------------------------------------------------------
(* Types.                                                                  *)

\* A worker with a program counter of work_one has all its locals.
LEMMA Busy ==
    ASSUME TypeOK, NEW w \in Workers, worker[w].pc \in PCs
    PROVE  /\ worker[w] \in WorkerStates
           /\ worker[w].op \in Ops
           /\ worker[w].row \in Rows
           /\ worker[w].mode \in Stamps
           /\ worker[w].since \in [Scopes -> Nat]
           /\ worker[w].out \in Outcomes
           /\ Working(w)
    BY DEF TypeOK, PCs, Idle, WorkerStates, Working

LEMMA GotoType ==
    ASSUME TypeOK, NEW w \in Workers, worker[w].pc \in PCs, NEW pc \in PCs, Goto(w, pc)
    PROVE  worker' \in [Workers -> WorkerStates \cup {Idle}]
  <1>1. [worker[w] EXCEPT !.pc = pc] \in WorkerStates
    BY Busy DEF WorkerStates
  <1> QED
    BY <1>1 DEF Goto, TypeOK

LEMMA SettleType ==
    ASSUME TypeOK, NEW w \in Workers, worker[w].pc \in PCs, NEW out \in Outcomes, Settle(w, out)
    PROVE  worker' \in [Workers -> WorkerStates \cup {Idle}]
  <1>1. [worker[w] EXCEPT !.pc = "finishing", !.out = out] \in WorkerStates
    BY Busy DEF WorkerStates, PCs
  <1>2. worker' = [worker EXCEPT ![w] = [worker[w] EXCEPT !.pc = "finishing", !.out = out]]
    BY DEF Settle, TypeOK
  <1> QED
    BY <1>1, <1>2 DEF TypeOK

\* Goto and Settle touch the program counter and the outcome of one worker.
LEMMA MovesOnly ==
    ASSUME TypeOK, NEW w \in Workers
    PROVE  /\ \A pc : Goto(w, pc) =>
                /\ worker'[w].pc = pc
                /\ worker[w].pc \in PCs => worker'[w].op = worker[w].op /\ worker'[w].row = worker[w].row
                /\ \A v \in Workers : v # w => worker'[v] = worker[v]
           /\ \A out : Settle(w, out) =>
                /\ worker'[w].pc = "finishing"
                /\ worker[w].pc \in PCs => /\ worker'[w].out = out
                                          /\ worker'[w].op = worker[w].op
                                          /\ worker'[w].row = worker[w].row
                /\ \A v \in Workers : v # w => worker'[v] = worker[v]
  <1>1. ASSUME NEW pc, Goto(w, pc)
        PROVE  /\ worker'[w].pc = pc
               /\ worker[w].pc \in PCs => worker'[w].op = worker[w].op /\ worker'[w].row = worker[w].row
               /\ \A v \in Workers : v # w => worker'[v] = worker[v]
    BY <1>1, Busy DEF Goto, TypeOK, Idle, WorkerStates
  <1>2. ASSUME NEW out, Settle(w, out)
        PROVE  /\ worker'[w].pc = "finishing"
               /\ worker[w].pc \in PCs => /\ worker'[w].out = out
                                         /\ worker'[w].op = worker[w].op
                                         /\ worker'[w].row = worker[w].row
               /\ \A v \in Workers : v # w => worker'[v] = worker[v]
    BY <1>2, Busy DEF Settle, TypeOK, Idle, WorkerStates
  <1> QED
    BY <1>1, <1>2

\* The outcomes work_one hands to finish.
LEMMA OutcomeType ==
    /\ \A status \in Results : Outcome(status) \in Outcomes
    /\ \A status \in Results : [Outcome(status) EXCEPT !.session = TRUE] \in Outcomes
    /\ \A o, row, r : ReceiptOutcome(o, row, r) \in Outcomes
  <1>1. /\ \A status \in Results : Outcome(status) \in Outcomes
        /\ \A status \in Results : [Outcome(status) EXCEPT !.session = TRUE] \in Outcomes
        /\ \A status \in Results : [Outcome(status) EXCEPT !.wait = TRUE] \in Outcomes
        /\ \A status \in Results : [Outcome(status) EXCEPT !.failure = TRUE] \in Outcomes
    BY DEF Outcome, Outcomes
  <1> QED
    BY <1>1 DEF ReceiptOutcome, Results

\* The edits of a row keep it a row.
LEMMA RowType ==
    ASSUME NEW row \in Rows
    PROVE  /\ \A t \in Nat : ClaimedRow(row, t) \in Rows
           /\ row.attempts >= 1 => ReturnedRow(row) \in Rows
           /\ \A status \in Statuses, out \in Outcomes : FinishedRow(row, out, status) \in Rows
           /\ \A status \in Statuses : [row EXCEPT !.status = status] \in Rows
           /\ \A a \in Accounts : [row EXCEPT !.account = a] \in Rows
           /\ \A a \in Accounts : [row EXCEPT !.status = "QUEUED", !.account = a] \in Rows
           /\ [row EXCEPT !.status = "QUEUED", !.failures = 0] \in Rows
           /\ \A st \in Stamps : [row EXCEPT !.stamp = st] \in Rows
  <1>1. ASSUME NEW n \in Nat, NEW t \in Nat, NEW status \in Statuses
        PROVE  [row EXCEPT !.status = status, !.attempts = n, !.claimedAt = t] \in Rows
    BY DEF Rows
  <1>2. \A t \in Nat : ClaimedRow(row, t) \in Rows
    <2>1. row.attempts + 1 \in Nat
      BY DEF Rows
    <2> QED
      BY <1>1, <2>1 DEF ClaimedRow, Statuses
  <1>3. row.attempts >= 1 => ReturnedRow(row) \in Rows
    <2>1. row.attempts >= 1 => row.attempts - 1 \in Nat
      BY DEF Rows
    <2> QED
      BY <1>1, <2>1 DEF ReturnedRow, Statuses
  <1>4. \A status \in Statuses, out \in Outcomes : FinishedRow(row, out, status) \in Rows
    <2>1. ASSUME NEW status \in Statuses, NEW n \in Nat, NEW b \in BOOLEAN
          PROVE  [row EXCEPT !.status = status, !.claimedAt = 0, !.failures = n, !.session = b]
                    \in Rows
      BY DEF Rows
    <2>2. ASSUME NEW status \in Statuses, NEW out \in Outcomes
          PROVE  FinishedRow(row, out, status) \in Rows
      <3> DEFINE n == IF out.failure THEN row.failures + 1 ELSE row.failures
                 b == IF out.session THEN TRUE ELSE row.session
      <3>0. row.failures \in Nat /\ row.session \in BOOLEAN
        BY DEF Rows
      <3>1. n \in Nat /\ b \in BOOLEAN
        <4>1. n \in Nat
          BY <3>0
        <4>2. b \in BOOLEAN
          BY <3>0, Zenon
        <4> QED
          BY <4>1, <4>2
      <3> HIDE DEF n, b
      <3>2. [row EXCEPT !.status = status, !.claimedAt = 0, !.failures = n, !.session = b] \in Rows
        BY <2>1, <3>1
      <3> QED
        BY <3>2 DEF FinishedRow, n, b
    <2> QED
      BY <2>2
  <1>5. /\ \A status \in Statuses : [row EXCEPT !.status = status] \in Rows
        /\ \A a \in Accounts : [row EXCEPT !.account = a] \in Rows
        /\ \A a \in Accounts : [row EXCEPT !.status = "QUEUED", !.account = a] \in Rows
        /\ \A st \in Stamps : [row EXCEPT !.stamp = st] \in Rows
        /\ [row EXCEPT !.status = "QUEUED", !.failures = 0] \in Rows
    BY DEF Rows, Statuses
  <1> QED
    BY <1>2, <1>3, <1>4, <1>5

LEMMA ModeStampType ==
    ASSUME TypeOK
    PROVE  ModeStamp \in Stamps
  BY DEF TypeOK, ModeStamp, ModeScope, Broadest, Restrictive, InMode, Closed, Stamps, NoStamp, Scopes

LEMMA ExpiredType ==
    ASSUME TypeOK, NEW stale \in SUBSET Dispatching
    PROVE  Expired(stale) \in [Ops -> Rows]
  BY DEF TypeOK, Expired, Rows, Statuses

LEMMA TypeInit == Init => TypeOK
  <1> SUFFICES ASSUME Init PROVE TypeOK
    OBVIOUS
  <1>1. ops \in [Ops -> Rows]
    BY AccountAssumption DEF Init, Rows, Statuses, Stamps, NoStamp, Scopes
  <1>2. control \in [Scopes -> [mode : Modes, epoch : Nat]] /\ setter \in [Controllers -> Stamps]
    BY DEF Init, Modes, Stamps
  <1>3. worker \in [Workers -> WorkerStates \cup {Idle}]
    BY DEF Init
  <1>4. /\ child \in [Claims -> Phases] /\ receipt \in [Claims -> Receipts]
        /\ manifest \in [Claims -> Manifests \cup {NoManifest}]
    BY DEF Init, Phases, Receipts
  <1>5. /\ serial \in [Ops -> 0..MaxClaims] /\ sent \in [Ops -> Nat] /\ pauses \in [Scopes -> Nat]
        /\ due \subseteq Ops /\ latched \subseteq Workers /\ proofs \subseteq Ops
    BY BoundAssumption DEF Init, NoPauses
  <1> QED
    BY <1>1, <1>2, <1>3, <1>4, <1>5 DEF TypeOK

\* The type invariant is inductive.
LEMMA TypeStep == TypeOK /\ CommittedCounted /\ [Next]_vars => TypeOK'
  <1> SUFFICES ASSUME TypeOK, CommittedCounted, [Next]_vars PROVE TypeOK'
    OBVIOUS
  <1> USE DEF PCs
  <1>1. ASSUME NEW w \in Workers, Claim(w) PROVE TypeOK'
    <2>0. PICK stale \in SUBSET Dispatching : \E o \in MostUrgent(Expired(stale)) :
             LET row == ClaimedRow(ops[o], serial[o] + 1)
             IN  /\ ops' = [Expired(stale) EXCEPT ![o] = row]
                 /\ serial' = [serial EXCEPT ![o] = @ + 1]
                 /\ worker' = [worker EXCEPT ![w] =
                                 [pc |-> "committed", op |-> o, row |-> row, mode |-> NoStamp,
                                  since |-> NoPauses, out |-> Outcome("QUEUED")]]
      BY <1>1 DEF Claim
    <2>1. PICK o \in MostUrgent(Expired(stale)) :
             LET row == ClaimedRow(ops[o], serial[o] + 1)
             IN  /\ ops' = [Expired(stale) EXCEPT ![o] = row]
                 /\ serial' = [serial EXCEPT ![o] = @ + 1]
                 /\ worker' = [worker EXCEPT ![w] =
                                 [pc |-> "committed", op |-> o, row |-> row, mode |-> NoStamp,
                                  since |-> NoPauses, out |-> Outcome("QUEUED")]]
      BY <2>0
    <2> DEFINE row == ClaimedRow(ops[o], serial[o] + 1)
    <2>2. o \in Ops /\ serial[o] < MaxClaims
      BY DEF MostUrgent, Claimable, TypeOK
    <2>3. row \in Rows
      <3>1. ops[o] \in Rows /\ serial[o] + 1 \in Nat
        BY <2>2, BoundAssumption DEF TypeOK
      <3> QED
        BY <3>1, RowType
    <2>4. ops' \in [Ops -> Rows]
      BY <2>1, <2>2, <2>3, ExpiredType
    <2>5. serial' \in [Ops -> 0..MaxClaims]
      BY <2>1, <2>2, BoundAssumption DEF TypeOK
    <2>6. [pc |-> "committed", op |-> o, row |-> row, mode |-> NoStamp,
           since |-> NoPauses, out |-> Outcome("QUEUED")] \in WorkerStates
      BY <2>2, <2>3, OutcomeType DEF WorkerStates, NoStamp, Stamps, NoPauses, Results
    <2>7. worker' \in [Workers -> WorkerStates \cup {Idle}]
      BY <2>1, <2>6 DEF TypeOK
    <2> QED
      BY <1>1, <2>4, <2>5, <2>7 DEF TypeOK, Claim
  <1>2. ASSUME NEW w \in Workers, ReturnClaim(w) PROVE TypeOK'
    <2>1. worker[w].op \in Ops /\ worker[w].row \in Rows
      BY <1>2, Busy DEF ReturnClaim
    <2>2. worker' \in [Workers -> WorkerStates \cup {Idle}]
      BY <1>2, GotoType DEF ReturnClaim, TypeOK
    <2>3. ASSUME Current(worker[w].op, worker[w].row)
          PROVE  ReturnedRow(ops[worker[w].op]) \in Rows
      BY <1>2, <2>1, <2>3, RowType DEF ReturnClaim, Current, CommittedCounted, TypeOK
    <2>4. ops' \in [Ops -> Rows]
      BY <1>2, <2>1, <2>3 DEF ReturnClaim, TypeOK
    <2> QED
      BY <1>2, <2>2, <2>4 DEF ReturnClaim, TypeOK
  <1>3. ASSUME NEW w \in Workers, Retarget(w) PROVE TypeOK'
    <2>1. worker[w].op \in Ops /\ worker[w] \in WorkerStates
      BY <1>3, Busy DEF Retarget
    <2>2. CASE Goto(w, "ready") /\ UNCHANGED ops
      BY <1>3, <2>2, GotoType DEF Retarget, TypeOK
    <2>3. CASE Settle(w, Outcome("WAITING_ROUTE")) /\ UNCHANGED ops
      <3>1. Outcome("WAITING_ROUTE") \in Outcomes
        BY OutcomeType DEF Results
      <3> QED
        BY <1>3, <2>3, <3>1, SettleType DEF Retarget, TypeOK
    <2>4. ASSUME NEW a \in Accounts,
                 ops' = [ops EXCEPT ![worker[w].op].account = a],
                 worker' = [worker EXCEPT ![w].row.account = a, ![w].pc = "ready"]
          PROVE  TypeOK'
      <3>1. ops' \in [Ops -> Rows]
        <4>1. PICK row : row = [ops[worker[w].op] EXCEPT !.account = a]
          OBVIOUS
        <4>2. worker[w].op \in Ops /\ ops[worker[w].op] \in Rows
          BY <2>1 DEF TypeOK, WorkerStates
        <4>3. row \in Rows
          BY <4>1, <4>2 DEF Rows
        <4>4. ops' = [ops EXCEPT ![worker[w].op] = row]
          BY <2>4, <4>1, <4>2 DEF TypeOK
        <4> QED
          BY <4>2, <4>3, <4>4 DEF TypeOK
      <3>2. [worker[w] EXCEPT !.row.account = a, !.pc = "ready"] \in WorkerStates
        BY <2>1 DEF WorkerStates, Rows
      <3>3. worker' = [worker EXCEPT ![w] = [worker[w] EXCEPT !.row.account = a, !.pc = "ready"]]
        BY <2>4 DEF TypeOK
      <3> QED
        BY <1>3, <3>1, <3>2, <3>3 DEF Retarget, TypeOK
    <2>5. CASE worker' = [worker EXCEPT ![w] = Idle] /\ UNCHANGED ops
      BY <1>3, <2>5 DEF Retarget, TypeOK
    <2> QED
      BY <1>3, <2>2, <2>3, <2>4, <2>5 DEF Retarget
  <1>4. ASSUME NEW w \in Workers, CheckMode(w) PROVE TypeOK'
    <2> DEFINE pc == IF Closed THEN "finishing"
                     ELSE IF worker[w].row.stamp # ModeStamp THEN "restamp"
                     ELSE "ready"
               state == [worker[w] EXCEPT !.since = pauses, !.mode = ModeStamp,
                                          !.out = Outcome("QUEUED"), !.pc = pc]
    <2>1. worker[w] \in WorkerStates
      BY <1>4, Busy DEF CheckMode
    <2>2. Outcome("QUEUED") \in Outcomes
      BY OutcomeType DEF Results
    <2>3. state \in WorkerStates
      BY <2>1, <2>2, ModeStampType DEF WorkerStates, TypeOK
    <2>4. worker' = [worker EXCEPT ![w] = state]
      BY <1>4 DEF CheckMode, TypeOK
    <2> QED
      BY <1>4, <2>3, <2>4 DEF CheckMode, TypeOK
  <1>5. ASSUME NEW w \in Workers, Restamp(w) PROVE TypeOK'
    <2>1. worker[w].op \in Ops /\ worker[w].mode \in Stamps
      BY <1>5, Busy DEF Restamp
    <2>2. ops' \in [Ops -> Rows]
      <3>1. PICK row : row = [ops[worker[w].op] EXCEPT !.stamp = worker[w].mode]
        OBVIOUS
      <3>2. row \in Rows
        <4>1. ops[worker[w].op] \in Rows
          BY <2>1 DEF TypeOK
        <4> QED
          BY <2>1, <3>1, <4>1 DEF Rows
      <3>3. ops' = [ops EXCEPT ![worker[w].op] = row]
        BY <1>5, <2>1, <3>1 DEF Restamp, TypeOK
      <3> QED
        BY <2>1, <3>2, <3>3 DEF TypeOK
    <2> QED
      BY <1>5, <2>2, GotoType DEF Restamp, TypeOK
  <1>6. ASSUME NEW w \in Workers, Reread(w) PROVE TypeOK'
    <2>1. worker[w] \in WorkerStates /\ worker[w].op \in Ops
      BY <1>6, Busy DEF Reread
    <2>2. [worker[w] EXCEPT !.row = ops[worker[w].op], !.pc = "ready"] \in WorkerStates
      BY <2>1 DEF WorkerStates, TypeOK
    <2>3. worker' = [worker EXCEPT ![w] = [worker[w] EXCEPT !.row = ops[worker[w].op],
                                                            !.pc = "ready"]]
      BY <1>6 DEF Reread, TypeOK
    <2> QED
      BY <1>6, <2>2, <2>3 DEF Reread, TypeOK
  <1>7. ASSUME NEW w \in Workers, RouteChanged(w) PROVE TypeOK'
    <2>1. Outcome("FAILED_PRE_SEND") \in Outcomes
      BY OutcomeType DEF Results
    <2> QED
      BY <1>7, <2>1, SettleType DEF RouteChanged, TypeOK
  <1>8. ASSUME NEW w \in Workers, Prepare(w) PROVE TypeOK'
    <2>1. worker[w].row \in Rows /\ worker[w].since \in [Scopes -> Nat]
      BY <1>8, Busy DEF Prepare
    <2>2. Outcome("DELIVERY_UNKNOWN") \in Outcomes
      BY OutcomeType DEF Results
    <2>3. worker' \in [Workers -> WorkerStates \cup {Idle}]
      BY <1>8, <2>2, GotoType, SettleType DEF Prepare
    <2>4. child' \in [Claims -> Phases]
      BY <1>8 DEF Prepare, TypeOK, Phases
    <2>5. [row |-> worker[w].row, since |-> worker[w].since] \in Manifests
      BY <2>1 DEF Manifests
    <2>6. manifest' \in [Claims -> Manifests \cup {NoManifest}]
      BY <1>8, <2>5 DEF Prepare, TypeOK
    <2> QED
      BY <1>8, <2>3, <2>4, <2>6 DEF Prepare, TypeOK
  <1>9. ASSUME NEW w \in Workers, Spawn(w) PROVE TypeOK'
    <2>1. Outcome("DELIVERY_UNKNOWN") \in Outcomes
      BY OutcomeType DEF Results
    <2>2. worker' \in [Workers -> WorkerStates \cup {Idle}]
      BY <1>9, <2>1, GotoType, SettleType DEF Spawn
    <2>3. child' \in [Claims -> Phases]
      BY <1>9 DEF Spawn, TypeOK, Phases
    <2> QED
      BY <1>9, <2>2, <2>3 DEF Spawn, TypeOK
  <1>10. ASSUME NEW w \in Workers, Collect(w) PROVE TypeOK'
    <2>1. worker' \in [Workers -> WorkerStates \cup {Idle}]
      BY <1>10, OutcomeType, GotoType, SettleType DEF Collect
    <2> QED
      BY <1>10, <2>1 DEF Collect, TypeOK
  <1>11. ASSUME NEW w \in Workers, Abandon(w) PROVE TypeOK'
    <2>1. Outcome("DELIVERY_UNKNOWN") \in Outcomes
      BY OutcomeType DEF Results
    <2> QED
      BY <1>11, <2>1, SettleType DEF Abandon, TypeOK
  <1>12. ASSUME NEW w \in Workers, RecordTask(w) PROVE TypeOK'
    <2>1. PICK status \in {"SENT", "DELIVERY_UNKNOWN"} :
             Settle(w, [Outcome(status) EXCEPT !.session = TRUE])
      BY <1>12 DEF RecordTask
    <2>2. [Outcome(status) EXCEPT !.session = TRUE] \in Outcomes
      BY OutcomeType DEF Results
    <2>3. worker' \in [Workers -> WorkerStates \cup {Idle}]
      BY <1>12, <2>1, <2>2, SettleType DEF RecordTask
    <2> QED
      BY <1>12, <2>3 DEF RecordTask, TypeOK
  <1>13. ASSUME NEW w \in Workers, Finish(w) PROVE TypeOK'
    <2>1. worker[w].op \in Ops /\ worker[w].out \in Outcomes
      BY <1>13, Busy DEF Finish
    <2>2. \A status \in FinalStatuses(worker[w].op, worker[w].out) :
             FinishedRow(ops[worker[w].op], worker[w].out, status) \in Rows
      <3> TAKE status \in FinalStatuses(worker[w].op, worker[w].out)
      <3>1. status \in Statuses
        BY <2>1 DEF FinalStatuses, Outcomes, Results, Statuses
      <3> QED
        BY <2>1, <3>1, RowType DEF TypeOK
    <2>3. ops' \in [Ops -> Rows] /\ due' \subseteq Ops
      BY <1>13, <2>1, <2>2 DEF Finish, TypeOK
    <2> QED
      BY <1>13, <2>3 DEF Finish, TypeOK
  <1>14. ASSUME NEW w \in Workers, ProcessStep(w) PROVE TypeOK'
    BY <1>14 DEF ProcessStep, Interrupt, Restart, Crash, TypeOK
  <1>15. ASSUME NEW c \in Claims, ChildStep(c) PROVE TypeOK'
    <2>1. child' \in [Claims -> Phases] /\ receipt' \in [Claims -> Receipts]
      BY <1>15 DEF ChildStep, Decline, RecordIntent, Arm, Click, Observe, ChildDies, End,
                   TypeOK, Phases, Receipts
    <2>2. sent' \in [Ops -> Nat]
      BY <1>15 DEF ChildStep, Decline, RecordIntent, Arm, Click, Observe, ChildDies, TypeOK
    <2> QED
      BY <1>15, <2>1, <2>2 DEF ChildStep, Decline, RecordIntent, Arm, Click, Observe,
                               ChildDies, childUnchanged, TypeOK
  <1>16. ASSUME NEW o \in Ops, Command(o) \/ Elapse(o) PROVE TypeOK'
    <2> DEFINE Marked(status) == [ops EXCEPT ![o].status = status]
    <2>1. \A status \in Statuses : Marked(status) \in [Ops -> Rows]
      BY RowType DEF TypeOK
    <2>2. [ops EXCEPT ![o].status = "QUEUED", ![o].failures = 0] \in [Ops -> Rows]
      <3>1. [ops EXCEPT ![o].status = "QUEUED", ![o].failures = 0]
               = [ops EXCEPT ![o] = [ops[o] EXCEPT !.status = "QUEUED", !.failures = 0]]
        BY DEF TypeOK
      <3> QED
        BY <3>1, RowType DEF TypeOK
    <2>3. \/ ops' \in {ops, Marked("CANCELLED"), Marked("SENT"), Marked("RECONCILED_SUPERSEDED")}
          \/ ops' = [ops EXCEPT ![o].status = "QUEUED", ![o].failures = 0]
      BY <1>16 DEF Command, Elapse, Retry, Cancel, ReadEvidence, CommitEvidence, Supersede
    <2>4. ops' \in [Ops -> Rows]
      BY <2>1, <2>2, <2>3 DEF Statuses, TypeOK
    <2> QED
      BY <1>16, <2>4 DEF Command, Elapse, Retry, Cancel, ReadEvidence, CommitEvidence,
                         Supersede, dispatchUnchanged, TypeOK
  <1>17. ASSUME NEW k \in Controllers, ReadEpoch(k) \/ SetMode(k) PROVE TypeOK'
    <2>1. setter[k] \in Stamps /\ \A sc \in Scopes : control[sc].epoch \in Nat /\ pauses[sc] \in Nat
      BY DEF TypeOK
    <2>2. CASE ReadEpoch(k)
      <3>1. PICK sc \in Scopes :
               setter' = [setter EXCEPT ![k] = [scope |-> sc, epoch |-> control[sc].epoch]]
        BY <2>2 DEF ReadEpoch
      <3>2. [scope |-> sc, epoch |-> control[sc].epoch] \in Stamps
        BY <2>1 DEF Stamps
      <3> QED
        BY <2>2, <3>1, <3>2 DEF ReadEpoch, dispatchUnchanged, TypeOK
    <2>3. CASE SetMode(k)
      <3>1. [scope |-> "none", epoch |-> 0] \in Stamps
        BY DEF Stamps
      <3>2. setter[k].scope \in Scopes /\ setter[k].epoch + 1 \in Nat
        BY <2>1, <2>3 DEF SetMode, Stamps
      <3>3. PICK m \in Modes :
               /\ control' = [control EXCEPT ![setter[k].scope] =
                                [mode |-> m, epoch |-> setter[k].epoch + 1]]
               /\ pauses' = IF m = "RUNNING" THEN pauses
                            ELSE [pauses EXCEPT ![setter[k].scope] = @ + 1]
        BY <2>3 DEF SetMode
      <3>4. control' \in [Scopes -> [mode : Modes, epoch : Nat]]
        BY <3>2, <3>3 DEF TypeOK
      <3>5. pauses' \in [Scopes -> Nat]
        BY <2>1, <3>2, <3>3 DEF TypeOK
      <3> QED
        BY <2>3, <3>1, <3>4, <3>5 DEF SetMode, dispatchUnchanged, TypeOK
    <2> QED
      BY <1>17, <2>2, <2>3
  <1>18. CASE Recover
    BY <1>18, ExpiredType DEF Recover, TypeOK
  <1>19. CASE RefreshRoutes
    <2>1. PICK S \in SUBSET {o \in Ops : Kind[o] \in Notices /\ ops[o].status = "WAITING_ROUTE"} :
             /\ \E account \in [S -> Accounts] :
                  ops' = [o \in Ops |->
                            IF o \in S THEN [ops[o] EXCEPT !.status = "QUEUED",
                                                           !.account = account[o]]
                            ELSE ops[o]]
             /\ due' = due \cup S
      BY <1>19 DEF RefreshRoutes
    <2>2. \A o \in Ops, a \in Accounts : [ops[o] EXCEPT !.status = "QUEUED", !.account = a] \in Rows
      BY RowType DEF TypeOK
    <2>3. PICK account \in [S -> Accounts] :
             ops' = [o \in Ops |-> IF o \in S THEN [ops[o] EXCEPT !.status = "QUEUED",
                                                               !.account = account[o]]
                                  ELSE ops[o]]
      BY <2>1
    <2>4. \A o \in Ops : ops'[o] \in Rows
      BY <2>2, <2>3 DEF TypeOK
    <2>5. ops' \in [Ops -> Rows] /\ due' \subseteq Ops
      BY <2>1, <2>3, <2>4 DEF TypeOK
    <2> QED
      BY <1>19, <2>5 DEF RefreshRoutes, dispatchUnchanged, TypeOK
  <1>20. CASE UNCHANGED vars
    BY <1>20 DEF vars, TypeOK
  <1> QED
    BY <1>1, <1>2, <1>3, <1>4, <1>5, <1>6, <1>7, <1>8, <1>9, <1>10, <1>11, <1>12, <1>13,
       <1>14, <1>15, <1>16, <1>17, <1>18, <1>19, <1>20
    DEF Next, WorkerStep

LEMMA CommittedStep == TypeOK /\ CommittedCounted /\ [Next]_vars => CommittedCounted'
  <1> SUFFICES ASSUME TypeOK, CommittedCounted, [Next]_vars,
                      NEW v \in Workers, worker'[v].pc = "committed"
               PROVE  worker'[v].row.attempts >= 1
    BY DEF CommittedCounted
  <1>1. CASE worker'[v] = worker[v]
    BY <1>1 DEF CommittedCounted
  <1>2. CASE Claim(v)
    <2>1. PICK o \in Ops : worker'[v].row = ClaimedRow(ops[o], serial[o] + 1)
      BY <1>2 DEF Claim, MostUrgent, Claimable, TypeOK
    <2>2. ops[o] \in Rows
      BY DEF TypeOK
    <2> QED
      BY <2>1, <2>2 DEF ClaimedRow, Rows
  <1>3. worker'[v] = worker[v] \/ Claim(v)
    <2>1. ASSUME NEW w \in Workers, Claim(w), w # v PROVE worker'[v] = worker[v]
      BY <2>1 DEF Claim, TypeOK
    <2>2. ASSUME NEW w \in Workers, WorkerStep(w) PROVE worker'[v] = worker[v]
      <3>1. ASSUME w = v PROVE worker'[v].pc # "committed"
        <4>1. \A pc : Goto(v, pc) => worker'[v].pc = pc
          BY MovesOnly
        <4>2. \A out : Settle(v, out) => worker'[v].pc = "finishing"
          BY MovesOnly
        <4>3. CASE CheckMode(v)
          BY <4>3 DEF CheckMode, TypeOK
        <4>4. CASE Retarget(v)
          <5>1. ASSUME NEW a \in Accounts,
                       worker' = [worker EXCEPT ![v].row.account = a, ![v].pc = "ready"]
                PROVE  worker'[v].pc = "ready"
            BY <5>1 DEF TypeOK
          <5>2. ASSUME worker' = [worker EXCEPT ![v] = Idle] PROVE worker'[v].pc = "idle"
            BY <5>2 DEF Idle, TypeOK
          <5> QED
            BY <4>1, <4>2, <4>4, <5>1, <5>2 DEF Retarget
        <4>5. CASE ReturnClaim(v)
          BY <4>1, <4>2, <4>5 DEF ReturnClaim, Idle, TypeOK
        <4>6. CASE Restamp(v)
          BY <4>1, <4>2, <4>6 DEF Restamp
        <4>7. CASE Reread(v)
          BY <4>1, <4>2, <4>7 DEF Reread, TypeOK
        <4>8. CASE RouteChanged(v)
          BY <4>1, <4>2, <4>8 DEF RouteChanged
        <4>9. CASE Prepare(v)
          BY <4>1, <4>2, <4>9 DEF Prepare
        <4>10. CASE Spawn(v)
          BY <4>1, <4>2, <4>10 DEF Spawn
        <4>11. CASE Collect(v)
          BY <4>1, <4>2, <4>11 DEF Collect
        <4>12. CASE Abandon(v)
          BY <4>1, <4>2, <4>12 DEF Abandon
        <4>13. CASE RecordTask(v)
          BY <4>1, <4>2, <4>13 DEF RecordTask
        <4>14. CASE Finish(v)
          BY <4>1, <4>2, <4>14 DEF Finish, Idle, TypeOK
        <4> QED
          BY <2>2, <3>1, <4>3, <4>4, <4>5, <4>6, <4>7, <4>8, <4>9, <4>10, <4>11, <4>12, <4>13, <4>14
             DEF WorkerStep
      <3>2. ASSUME w # v PROVE worker'[v] = worker[v]
        BY <2>2, <3>2 DEF WorkerStep, ReturnClaim, Retarget, CheckMode, Restamp, Reread,
              RouteChanged, Prepare, Spawn, Collect, Abandon, RecordTask, Finish, Goto,
              Settle, TypeOK
      <3> QED
        BY <3>1, <3>2
    <2>3. ASSUME NEW w \in Workers, ProcessStep(w) PROVE worker'[v] = worker[v]
      BY <2>3 DEF ProcessStep, Interrupt, Restart, Crash, Idle, TypeOK
    <2>4. CASE \/ \E c \in Claims : ChildStep(c)
               \/ \E o \in Ops : Command(o) \/ Elapse(o)
               \/ \E k \in Controllers : ReadEpoch(k) \/ SetMode(k)
               \/ Recover \/ RefreshRoutes \/ UNCHANGED vars
      BY <2>4 DEF ChildStep, Decline, RecordIntent, Arm, Click, Observe, ChildDies,
            childUnchanged, Command, Elapse, Retry, Cancel, ReadEvidence, CommitEvidence,
            Supersede, ReadEpoch, SetMode, Recover, RefreshRoutes, dispatchUnchanged, vars
    <2> QED
      BY <2>1, <2>2, <2>3, <2>4 DEF Next
  <1> QED
    BY <1>1, <1>2, <1>3

\* Every reachable state is well typed: a claim that is given back always has an
\* ordinal to give back, and no conversion leaves the tables' domains.
THEOREM TypeCorrect == Spec => []TypeOK
  <1>1. Init => TypeOK /\ CommittedCounted
    BY TypeInit DEF Init, CommittedCounted, Idle
  <1>2. TypeOK /\ CommittedCounted /\ [Next]_vars => (TypeOK /\ CommittedCounted)'
    BY TypeStep, CommittedStep
  <1> QED
    BY <1>1, <1>2, PTL DEF Spec

-----------------------------------------------------------------------------
(* What the composite steps do, one fact per concern.                      *)

\* A claim takes one queued operation of an account without claims, expires
\* some others, and hands the new row to its worker.
LEMMA ClaimEffect ==
    ASSUME TypeOK, NEW w \in Workers, Claim(w)
    PROVE  /\ worker[w] = Idle
           /\ UNCHANGED <<child, receipt, manifest, proofs, sent, control, pauses>>
           /\ \E o \in Ops :
                /\ ops[o].status = "QUEUED"
                /\ ops'[o] = ClaimedRow(ops[o], serial[o] + 1)
                /\ serial' = [serial EXCEPT ![o] = @ + 1]
                /\ worker' = [worker EXCEPT ![w] =
                                [pc |-> "committed", op |-> o, row |-> ops'[o], mode |-> NoStamp,
                                 since |-> NoPauses, out |-> Outcome("QUEUED")]]
                /\ \A p \in Ops : p # o =>
                     \/ ops'[p] = ops[p]
                     \/ /\ ops[p].status = "DISPATCHING"
                        /\ ops'[p] = [ops[p] EXCEPT !.status = "DELIVERY_UNKNOWN"]
                /\ \A p \in Ops : p # o /\ ops'[p].status = "DISPATCHING"
                                   => ops[p].account # ops[o].account
  <1>1. PICK stale \in SUBSET Dispatching : \E o \in MostUrgent(Expired(stale)) :
           LET row == ClaimedRow(ops[o], serial[o] + 1)
           IN  /\ ops' = [Expired(stale) EXCEPT ![o] = row]
               /\ serial' = [serial EXCEPT ![o] = @ + 1]
               /\ worker' = [worker EXCEPT ![w] =
                               [pc |-> "committed", op |-> o, row |-> row, mode |-> NoStamp,
                                since |-> NoPauses, out |-> Outcome("QUEUED")]]
    BY DEF Claim
  <1>2. PICK o \in MostUrgent(Expired(stale)) :
           LET row == ClaimedRow(ops[o], serial[o] + 1)
           IN  /\ ops' = [Expired(stale) EXCEPT ![o] = row]
               /\ serial' = [serial EXCEPT ![o] = @ + 1]
               /\ worker' = [worker EXCEPT ![w] =
                               [pc |-> "committed", op |-> o, row |-> row, mode |-> NoStamp,
                                since |-> NoPauses, out |-> Outcome("QUEUED")]]
    BY <1>1
  <1>3. \A p \in Ops : /\ p \in stale => ops[p].status = "DISPATCHING"
                       /\ Expired(stale)[p] =
                            IF p \in stale THEN [ops[p] EXCEPT !.status = "DELIVERY_UNKNOWN"]
                            ELSE ops[p]
    BY DEF Dispatching, Expired
  <1>4. \A p \in stale : Expired(stale)[p].status = "DELIVERY_UNKNOWN"
    BY <1>3 DEF TypeOK, Rows, Dispatching
  <1>5. /\ o \in Ops /\ Expired(stale)[o].status = "QUEUED"
        /\ \A p \in Ops : Expired(stale)[p].status = "DISPATCHING"
                            => Expired(stale)[p].account # Expired(stale)[o].account
    BY DEF MostUrgent, Claimable, TypeOK
  <1>6. o \notin stale /\ ops[o].status = "QUEUED"
    BY <1>3, <1>4, <1>5
  <1>7. /\ ops'[o] = ClaimedRow(ops[o], serial[o] + 1)
        /\ \A p \in Ops : p # o => ops'[p] = Expired(stale)[p]
    BY <1>2, <1>5 DEF Expired
  <1>8. \A p \in Ops : p # o /\ ops'[p].status = "DISPATCHING" => ops[p].account # ops[o].account
    BY <1>3, <1>4, <1>5, <1>6, <1>7
  <1>9. \A p \in Ops : p # o =>
           \/ ops'[p] = ops[p]
           \/ /\ ops[p].status = "DISPATCHING"
              /\ ops'[p] = [ops[p] EXCEPT !.status = "DELIVERY_UNKNOWN"]
    BY <1>3, <1>7
  <1>10. /\ serial' = [serial EXCEPT ![o] = @ + 1]
         /\ worker' = [worker EXCEPT ![w] =
                         [pc |-> "committed", op |-> o, row |-> ops'[o], mode |-> NoStamp,
                          since |-> NoPauses, out |-> Outcome("QUEUED")]]
    BY <1>2, <1>7
  <1>11. worker[w] = Idle /\ UNCHANGED <<child, receipt, manifest, proofs, sent, control, pauses>>
    BY DEF Claim
  <1> QED
    BY <1>5, <1>6, <1>7, <1>8, <1>9, <1>10, <1>11

-----------------------------------------------------------------------------
(* One claim per account.                                                  *)

\* Two business operations of one account are never in flight together: only a
\* claim starts one, it looks at every other claim in the same transaction, and
\* nothing after it changes the account of a business operation.
THEOREM BusinessApart == Spec => []BusinessExclusive
  <1>1. Init => BusinessExclusive
    BY DEF Init, BusinessExclusive
  <1>2. TypeOK /\ BusinessExclusive /\ [Next]_vars => BusinessExclusive'
    <2> SUFFICES ASSUME TypeOK, BusinessExclusive, [Next]_vars PROVE BusinessExclusive'
      OBVIOUS
    <2> DEFINE Kept == \A p \in Ops : Kind[p] \in Business /\ ops'[p].status = "DISPATCHING"
                         => ops[p].status = "DISPATCHING" /\ ops'[p].account = ops[p].account
    <2>1. Kept => BusinessExclusive'
      BY DEF BusinessExclusive
    <2>2. ASSUME NEW w \in Workers, Claim(w) PROVE BusinessExclusive'
      <3>1. PICK o \in Ops :
               /\ ops'[o] = ClaimedRow(ops[o], serial[o] + 1)
               /\ \A p \in Ops : p # o =>
                    \/ ops'[p] = ops[p]
                    \/ ops'[p] = [ops[p] EXCEPT !.status = "DELIVERY_UNKNOWN"]
               /\ \A p \in Ops : p # o /\ ops'[p].status = "DISPATCHING"
                                  => ops[p].account # ops[o].account
        BY <2>2, ClaimEffect
      <3>2. /\ ops'[o].account = ops[o].account
            /\ \A p \in Ops : p # o /\ ops'[p].status = "DISPATCHING" => ops'[p] = ops[p]
        <4>1. \A p \in Ops : [ops[p] EXCEPT !.status = "DELIVERY_UNKNOWN"].status # "DISPATCHING"
          BY DEF TypeOK, Rows
        <4>2. ops[o] \in Rows
          BY DEF TypeOK
        <4>3. ClaimedRow(ops[o], serial[o] + 1).account = ops[o].account
          BY <4>2 DEF ClaimedRow, Rows
        <4> QED
          BY <3>1, <4>1, <4>3
      <3> QED
        BY <3>1, <3>2 DEF BusinessExclusive
    <2>3. ASSUME NEW w \in Workers, WorkerStep(w) PROVE Kept
      <3>1. CASE ReturnClaim(w)
        <4>1. \A p \in Ops : ops'[p] = ops[p] \/ ops'[p] = ReturnedRow(ops[p])
          BY <3>1 DEF ReturnClaim, TypeOK
        <4>2. \A p \in Ops : ReturnedRow(ops[p]).status = "QUEUED"
          BY DEF ReturnedRow, TypeOK, Rows
        <4> QED
          BY <4>1, <4>2
      <3>2. CASE Retarget(w)
        <4>1. worker[w].op \in Ops /\ Kind[worker[w].op] \notin Business
          BY <3>2, Busy DEF Retarget, Notices, Business, PCs
        <4>2. \A p \in Ops : p # worker[w].op => ops'[p] = ops[p]
          BY <3>2 DEF Retarget, TypeOK
        <4> QED
          BY <4>1, <4>2
      <3>3. CASE Restamp(w)
        <4>1. \A p \in Ops : ops'[p] = ops[p] \/ ops'[p] = [ops[p] EXCEPT !.stamp = worker[w].mode]
          BY <3>3 DEF Restamp, TypeOK
        <4> QED
          BY <4>1 DEF TypeOK, Rows
      <3>4. CASE Finish(w)
        <4>1. worker[w].out \in Outcomes
          BY <3>4, Busy DEF Finish, PCs
        <4>2. \A p \in Ops : \/ ops'[p] = ops[p]
                           \/ \E status \in FinalStatuses(worker[w].op, worker[w].out) :
                                 ops'[p] = FinishedRow(ops[p], worker[w].out, status)
          BY <3>4 DEF Finish, TypeOK
        <4>3. \A p \in Ops : \A status : FinishedRow(ops[p], worker[w].out, status).status = status
          BY DEF FinishedRow, TypeOK, Rows
        <4>4. "DISPATCHING" \notin FinalStatuses(worker[w].op, worker[w].out)
          BY <4>1 DEF FinalStatuses, Outcomes, Results
        <4> QED
          BY <4>2, <4>3, <4>4
      <3>5. CASE UNCHANGED ops
        BY <3>5
      <3> QED
        BY <2>3, <3>1, <3>2, <3>3, <3>4, <3>5 DEF WorkerStep, CheckMode, Reread, RouteChanged,
           Prepare, Spawn, Collect, Abandon, RecordTask
    <2>4. ASSUME NEW o \in Ops, Command(o) PROVE Kept
      <3>1. \A p \in Ops :
               \/ ops'[p] = ops[p]
               \/ ops'[p] = [ops[p] EXCEPT !.status = "QUEUED", !.failures = 0]
               \/ \E s \in {"CANCELLED", "SENT", "RECONCILED_SUPERSEDED"} : ops'[p] = [ops[p] EXCEPT !.status = s]
        <4>1. DOMAIN ops = Ops
          BY DEF TypeOK
        <4>2. CASE Retry(o)
          BY <4>1, <4>2 DEF Retry
        <4>3. CASE Cancel(o)
          BY <4>1, <4>3 DEF Cancel
        <4>4. CASE CommitEvidence(o)
          BY <4>1, <4>4 DEF CommitEvidence
        <4>5. CASE Supersede(o)
          BY <4>1, <4>5 DEF Supersede
        <4>6. CASE ReadEvidence(o)
          BY <4>6 DEF ReadEvidence
        <4> QED
          BY <2>4, <4>2, <4>3, <4>4, <4>5, <4>6 DEF Command
      <3>2. SUFFICES ASSUME NEW p \in Ops, ops'[p].status = "DISPATCHING"
                     PROVE  ops[p].status = "DISPATCHING" /\ ops'[p].account = ops[p].account
        OBVIOUS
      <3>3. ops[p] \in Rows
        BY DEF TypeOK
      <3>4. ops'[p] = ops[p]
        BY <3>1, <3>2, <3>3 DEF Rows
      <3> QED
        BY <3>2, <3>4
    <2>5. ASSUME Recover PROVE Kept
      BY <2>5 DEF Recover, Expired, Dispatching, TypeOK, Rows
    <2>6. ASSUME RefreshRoutes PROVE Kept
      <3>1. \A p \in Ops : Kind[p] \in Business => ops'[p] = ops[p]
        BY <2>6 DEF RefreshRoutes, Business, Notices
      <3> QED
        BY <3>1
    <2>7. ASSUME UNCHANGED ops PROVE Kept
      BY <2>7
    <2>8. \/ UNCHANGED ops \/ Recover \/ RefreshRoutes
          \/ \E w \in Workers : Claim(w) \/ WorkerStep(w)
          \/ \E o \in Ops : Command(o)
      BY DEF Next, ProcessStep, Interrupt, Restart, Crash, ChildStep, Decline, RecordIntent, Arm,
             Click, Observe, ChildDies, childUnchanged, Elapse, ReadEpoch, SetMode, vars
    <2> QED
      BY <2>1, <2>2, <2>3, <2>4, <2>5, <2>6, <2>7, <2>8
  <1> QED
    BY <1>1, <1>2, TypeCorrect, PTL DEF Spec

-----------------------------------------------------------------------------
(* At most one message, and honest reports about it.                       *)

\* The claim of a working worker is one of Claims.
LEMMA ClaimNamed ==
    ASSUME SafeInv, NEW w \in Workers, Working(w)
    PROVE  /\ worker[w].op \in Ops
           /\ worker[w].row.attempts \in 1..MaxClaims
           /\ ClaimOf(w) = <<worker[w].op, ops[worker[w].op].attempts>>
           /\ ClaimOf(w) \in Claims
  <1>1. worker[w].op \in Ops /\ worker[w].row.attempts \in Nat
    BY Busy DEF SafeInv, Working, Rows
  <1>2. /\ worker[w].row.attempts >= 1
        /\ ops[worker[w].op].attempts = worker[w].row.attempts
        /\ ops[worker[w].op].attempts <= serial[worker[w].op]
    BY <1>1 DEF SafeInv, AttemptsCounted, ClaimHeld
  <1>3. serial[worker[w].op] \in 0..MaxClaims
    BY <1>1 DEF SafeInv, TypeOK
  <1>4. worker[w].row.attempts \in 1..MaxClaims
    BY <1>1, <1>2, <1>3, BoundAssumption
  <1> QED
    BY <1>1, <1>2, <1>4 DEF ClaimOf, Claims

\* Steps that leave children and workers alone, or put workers to rest.  Each
\* operation stays on its side of InFlight, or provably sent nothing.
LEMMA RowsMove ==
    ASSUME SafeInv, TypeOK', CommittedCounted',
           UNCHANGED <<serial, child, receipt, sent>>,
           \A v \in Workers : worker'[v] = worker[v] \/ worker'[v] = Idle,
           \A o \in Ops :
             /\ ops'[o].attempts = ops[o].attempts
             /\ o \in proofs' => sent[o] # 0
             /\ \/ /\ ops[o].status \in InFlight <=> ops'[o].status \in InFlight
                   /\ ops'[o].status = "SENT" => sent[o] # 0
                \/ /\ ops'[o].status \in Denials
                   /\ sent[o] = 0
                   /\ \A n \in 1..MaxClaims : child[<<o, n>>] \notin Live
                   /\ \A v \in Workers : worker'[v] # Idle => worker[v].op # o
    PROVE  SafeInv'
  <1>1. \A v \in Workers : (Working(v)' => /\ Working(v) /\ worker'[v] = worker[v]
                                          /\ worker[v].op \in Ops /\ ClaimOf(v)' = ClaimOf(v))
    BY Busy DEF Working, Idle, PCs, ClaimOf, SafeInv
  <1>2. AttemptsCounted'
    BY <1>1 DEF SafeInv, AttemptsCounted
  <1>3. ClaimHeld'
    BY <1>1 DEF SafeInv, ClaimHeld, Working, Idle, PCs, Denials, InFlight
  <1>4. OneHolder'
    BY <1>1 DEF SafeInv, OneHolder
  <1>5. ChildrenCurrent'
    BY DEF SafeInv, ChildrenCurrent
  <1>6. NotYetStarted'
    BY <1>1 DEF SafeInv, NotYetStarted, Working, Unpublished, PCs
  <1>7. PostedByCurrent'
    BY DEF SafeInv, PostedByCurrent
  <1>8. BeliefsTrue'
    BY <1>1 DEF SafeInv, BeliefsTrue, Working, PCs, Denials
  <1>9. DenialsTrue'
    BY <1>1 DEF SafeInv, DenialsTrue, Working, PCs
  <1> QED
    BY <1>2, <1>3, <1>4, <1>5, <1>6, <1>7, <1>8, <1>9 DEF SafeInv

\* A worker goes on with its claim; no child acts.
LEMMA WorkerMoves ==
    ASSUME SafeInv, TypeOK', CommittedCounted', NEW w \in Workers,
           UNCHANGED <<serial, child, receipt, sent, proofs>>,
           \A o \in Ops : /\ ops'[o].attempts = ops[o].attempts
                          /\ ops'[o].status = ops[o].status,
           \A v \in Workers : v # w => worker'[v] = worker[v],
           Working(w), worker'[w].op = worker[w].op,
           worker'[w].row.attempts = worker[w].row.attempts,
           worker'[w].pc \in Unpublished => worker[w].pc \in Unpublished,
           worker'[w].pc # "prepared",
           worker'[w].pc = "recording" => sent[worker[w].op] # 0,
           worker'[w].pc = "finishing" =>
             /\ worker'[w].out.status = "SENT" => sent[worker[w].op] # 0
             /\ worker'[w].out.status \in Denials
                  => sent[worker[w].op] = 0 /\ child[ClaimOf(w)] \notin Live
             /\ worker'[w].out.wait => worker'[w].out.status = "QUEUED"
    PROVE  SafeInv'
  <1>1. \A v \in Workers : ClaimOf(v)' = ClaimOf(v)
    BY DEF ClaimOf
  <1>2. \A v \in Workers : (Working(v)' => /\ Working(v) /\ worker[v].op \in Ops
                                          /\ worker'[v].op = worker[v].op
                                          /\ worker'[v].row.attempts = worker[v].row.attempts)
    BY Busy DEF Working, SafeInv
  <1>3. AttemptsCounted'
    BY <1>2 DEF SafeInv, AttemptsCounted
  <1>4. ClaimHeld'
    BY <1>2 DEF SafeInv, ClaimHeld
  <1>5. OneHolder'
    BY <1>2 DEF SafeInv, OneHolder
  <1>6. ChildrenCurrent'
    BY DEF SafeInv, ChildrenCurrent
  <1>7. NotYetStarted'
    BY <1>1 DEF SafeInv, NotYetStarted, Unpublished
  <1>8. PostedByCurrent'
    BY DEF SafeInv, PostedByCurrent
  <1>9. BeliefsTrue'
    BY DEF SafeInv, BeliefsTrue
  <1>10. DenialsTrue'
    BY <1>1 DEF SafeInv, DenialsTrue
  <1> QED
    BY <1>3, <1>4, <1>5, <1>6, <1>7, <1>8, <1>9, <1>10 DEF SafeInv

\* A new claim: its ordinal has no directory, nothing was posted before it, and
\* no other worker holds the operation.
LEMMA ClaimSafe ==
    ASSUME SafeInv, TypeOK', CommittedCounted', NEW w \in Workers, Claim(w)
    PROVE  SafeInv'
  <1>1. /\ ~Working(w)
        /\ UNCHANGED <<child, receipt, manifest, proofs, sent, control, pauses>>
    BY ClaimEffect DEF SafeInv, Working, Idle, PCs
  <1>2. PICK o \in Ops :
           /\ ops[o].status = "QUEUED"
           /\ ops'[o] = ClaimedRow(ops[o], serial[o] + 1)
           /\ serial' = [serial EXCEPT ![o] = @ + 1]
           /\ worker' = [worker EXCEPT ![w] =
                           [pc |-> "committed", op |-> o, row |-> ops'[o], mode |-> NoStamp,
                            since |-> NoPauses, out |-> Outcome("QUEUED")]]
           /\ \A p \in Ops : p # o =>
                \/ ops'[p] = ops[p]
                \/ /\ ops[p].status = "DISPATCHING"
                   /\ ops'[p] = [ops[p] EXCEPT !.status = "DELIVERY_UNKNOWN"]
           /\ \A p \in Ops : p # o /\ ops'[p].status = "DISPATCHING"
                              => ops[p].account # ops[o].account
    <2>1. TypeOK
      BY DEF SafeInv
    <2> QED
      BY <2>1, ClaimEffect, Zenon
  <1>3. /\ ops'[o].status = "DISPATCHING"
        /\ ops'[o].attempts = ops[o].attempts + 1
        /\ ops[o].attempts \in Nat
    <2>1. ops[o] \in Rows
      BY DEF SafeInv, TypeOK
    <2> QED
      BY <1>2, <2>1 DEF ClaimedRow, Rows
  <1>4. \A p \in Ops : p # o =>
           /\ ops'[p].attempts = ops[p].attempts
           /\ ops[p].status \in InFlight <=> ops'[p].status \in InFlight
           /\ ops'[p].status = "SENT" => ops[p].status = "SENT"
    <2>1. \A p \in Ops : /\ [ops[p] EXCEPT !.status = "DELIVERY_UNKNOWN"].status = "DELIVERY_UNKNOWN"
                         /\ [ops[p] EXCEPT !.status = "DELIVERY_UNKNOWN"].attempts = ops[p].attempts
      BY DEF SafeInv, TypeOK, Rows
    <2> QED
      BY <1>2, <2>1 DEF InFlight
  <1>5. /\ worker'[w].pc = "committed" /\ worker'[w].op = o
        /\ worker'[w].row.attempts = ops[o].attempts + 1
        /\ \A v \in Workers : v # w => worker'[v] = worker[v]
    BY <1>2, <1>3 DEF SafeInv, TypeOK
  <1>6. /\ sent[o] = 0
        /\ \A n \in 1..MaxClaims : child[<<o, n>>] \notin Live
        /\ \A v \in Workers : Working(v) => worker[v].op # o
    BY <1>2 DEF SafeInv, PostedByCurrent, ChildrenCurrent, ClaimHeld, InFlight
  <1>7. child[<<o, ops[o].attempts + 1>>] = "none"
    <2>1. ops[o].attempts + 1 \in 1..MaxClaims
      <3>1. ops'[o].attempts <= serial'[o] /\ serial'[o] \in 0..MaxClaims
        BY <1>2, <1>3 DEF SafeInv, AttemptsCounted, TypeOK
      <3> QED
        BY <1>3, <3>1, BoundAssumption
    <2> QED
      BY <1>3, <2>1 DEF SafeInv, ChildrenCurrent
  <1>8. \A v \in Workers : ClaimOf(v)' = IF v = w THEN <<o, ops[o].attempts + 1>> ELSE ClaimOf(v)
    BY <1>5 DEF ClaimOf
  <1>9. \A v \in Workers : v # w => (Working(v)' <=> Working(v))
    BY <1>5 DEF Working
  <1>10. \A v \in Workers : Working(v) => worker[v].op \in Ops
    BY Busy DEF SafeInv, Working
  <1>11. AttemptsCounted'
    <2>1. \A p \in Ops : ops'[p].attempts <= serial'[p]
      BY <1>2, <1>3, <1>4 DEF SafeInv, AttemptsCounted, TypeOK
    <2>2. \A v \in Workers : Working(v)' => worker'[v].row.attempts >= 1
      BY <1>3, <1>5, <1>9 DEF SafeInv, AttemptsCounted
    <2> QED
      BY <2>1, <2>2 DEF AttemptsCounted
  <1>12. ClaimHeld'
    <2> SUFFICES ASSUME NEW v \in Workers, Working(v)'
                 PROVE  /\ ops'[worker'[v].op].status \in InFlight
                        /\ ops'[worker'[v].op].attempts = worker'[v].row.attempts
      BY DEF ClaimHeld
    <2>1. CASE v = w
      BY <2>1, <1>3, <1>5 DEF InFlight
    <2>2. CASE v # w
      BY <2>2, <1>4, <1>5, <1>6, <1>9, <1>10 DEF SafeInv, ClaimHeld
    <2> QED
      BY <2>1, <2>2
  <1>13. OneHolder'
    BY <1>5, <1>6, <1>9 DEF SafeInv, OneHolder
  <1>14. ChildrenCurrent'
    <2> SUFFICES ASSUME NEW p \in Ops, NEW n \in 1..MaxClaims
                 PROVE  /\ child[<<p, n>>] # "none" => n <= ops'[p].attempts
                        /\ child[<<p, n>>] \in Live
                             => n = ops'[p].attempts /\ ops'[p].status \in InFlight
      BY <1>1 DEF ChildrenCurrent
    <2>1. child[<<p, n>>] # "none" => n <= ops[p].attempts
      BY DEF SafeInv, ChildrenCurrent
    <2>2. CASE p = o
      BY <2>1, <2>2, <1>3, <1>6
    <2>3. CASE p # o
      BY <2>1, <2>3, <1>4 DEF SafeInv, ChildrenCurrent
    <2> QED
      BY <2>2, <2>3
  <1>15. NotYetStarted'
    BY <1>1, <1>5, <1>7, <1>8 DEF SafeInv, NotYetStarted, Unpublished
  <1>16. PostedByCurrent'
    BY <1>1, <1>4, <1>6 DEF SafeInv, PostedByCurrent
  <1>17. BeliefsTrue'
    BY <1>1, <1>3, <1>4, <1>5 DEF SafeInv, BeliefsTrue
  <1>18. DenialsTrue'
    BY <1>1, <1>5, <1>8 DEF SafeInv, DenialsTrue
  <1> QED
    BY <1>11, <1>12, <1>13, <1>14, <1>15, <1>16, <1>17, <1>18 DEF SafeInv

\* Giving a claim back frees an ordinal that never had a directory.
LEMMA ReturnSafe ==
    ASSUME SafeInv, TypeOK', CommittedCounted', NEW w \in Workers, ReturnClaim(w)
    PROVE  SafeInv'
  <1>1. CASE w \notin latched
    <2>1. Goto(w, "claimed") /\ UNCHANGED <<ops, serial, child, receipt, sent, proofs>>
      BY <1>1 DEF ReturnClaim
    <2>2. worker[w].pc = "committed" /\ Working(w)
      BY DEF ReturnClaim, Working, PCs
    <2> QED
      BY <2>1, <2>2, MovesOnly, WorkerMoves DEF SafeInv, Working, Unpublished
  <1>2. CASE w \in latched /\ ~Current(worker[w].op, worker[w].row)
    <2>1. /\ worker' = [worker EXCEPT ![w] = Idle]
          /\ UNCHANGED <<ops, serial, child, receipt, sent, proofs>>
      BY <1>2 DEF ReturnClaim
    <2>2. \A o \in Ops : /\ o \in proofs' => sent[o] # 0
                         /\ ops'[o].status = "SENT" => sent[o] # 0
      BY <2>1 DEF SafeInv, BeliefsTrue
    <2> QED
      BY <2>1, <2>2, RowsMove DEF SafeInv, TypeOK
  <1>3. CASE w \in latched /\ Current(worker[w].op, worker[w].row)
    <2> DEFINE o == worker[w].op
    <2>1. /\ worker' = [worker EXCEPT ![w] = Idle]
          /\ ops' = [ops EXCEPT ![o] = ReturnedRow(ops[o])]
          /\ UNCHANGED <<serial, child, receipt, sent, proofs>>
      BY <1>3 DEF ReturnClaim
    <2>2. worker[w].pc = "committed" /\ Working(w)
      BY DEF ReturnClaim, Working, PCs
    <2>3. /\ o \in Ops
          /\ ops[o].attempts \in 1..MaxClaims
          /\ child[<<o, ops[o].attempts>>] = "none"
          /\ ops[o].status = "DISPATCHING"
      BY <2>2, <1>3, ClaimNamed DEF SafeInv, NotYetStarted, Unpublished, ClaimHeld, Current
    <2>4. /\ ops'[o].status = "QUEUED" /\ ops'[o].attempts = ops[o].attempts - 1
          /\ \A p \in Ops : p # o => ops'[p] = ops[p]
      <3>1. ops[o] \in Rows
        BY <2>3 DEF SafeInv, TypeOK
      <3> QED
        BY <2>1, <2>3, <3>1 DEF ReturnedRow, Rows, SafeInv, TypeOK
    <2>5. /\ sent[o] = 0
          /\ \A n \in 1..MaxClaims : child[<<o, n>>] \notin Live
          /\ \A n \in 1..MaxClaims : child[<<o, n>>] # "none" => n <= ops[o].attempts - 1
      <3>1. sent[o] = 0
        BY <2>3 DEF SafeInv, PostedByCurrent
      <3>2. \A n \in 1..MaxClaims : child[<<o, n>>] \notin Live
        BY <2>3 DEF SafeInv, ChildrenCurrent, Live
      <3>3. \A n \in 1..MaxClaims : child[<<o, n>>] # "none" => n <= ops[o].attempts /\ n # ops[o].attempts
        BY <2>3 DEF SafeInv, ChildrenCurrent
      <3> QED
        BY <2>3, <3>1, <3>2, <3>3
    <2>6. \A v \in Workers : (Working(v)' => /\ v # w /\ Working(v) /\ worker'[v] = worker[v]
                                            /\ worker[v].op \in Ops /\ worker[v].op # o
                                            /\ ClaimOf(v)' = ClaimOf(v))
      BY <2>1, <2>2, Busy DEF Working, Idle, PCs, ClaimOf, SafeInv, OneHolder, TypeOK
    <2>7. AttemptsCounted'
      BY <2>1, <2>3, <2>4, <2>6 DEF SafeInv, AttemptsCounted, TypeOK
    <2>8. ClaimHeld'
      BY <2>4, <2>6 DEF SafeInv, ClaimHeld
    <2>9. OneHolder'
      BY <2>6 DEF SafeInv, OneHolder
    <2>10. ChildrenCurrent'
      <3> SUFFICES ASSUME NEW p \in Ops, NEW n \in 1..MaxClaims
                   PROVE  /\ child[<<p, n>>] # "none" => n <= ops'[p].attempts
                          /\ child[<<p, n>>] \in Live
                               => n = ops'[p].attempts /\ ops'[p].status \in InFlight
        BY <2>1 DEF ChildrenCurrent
      <3>1. CASE p = o
        BY <3>1, <2>4, <2>5
      <3>2. CASE p # o
        BY <3>2, <2>4 DEF SafeInv, ChildrenCurrent
      <3> QED
        BY <3>1, <3>2
    <2>11. NotYetStarted'
      BY <2>1, <2>6 DEF SafeInv, NotYetStarted, Working, Unpublished, PCs
    <2>12. PostedByCurrent'
      BY <2>1, <2>4, <2>5 DEF SafeInv, PostedByCurrent
    <2>13. BeliefsTrue'
      BY <2>1, <2>4, <2>6 DEF SafeInv, BeliefsTrue, Working, PCs
    <2>14. DenialsTrue'
      BY <2>1, <2>6 DEF SafeInv, DenialsTrue, Working, PCs
    <2> QED
      BY <2>7, <2>8, <2>9, <2>10, <2>11, <2>12, <2>13, <2>14 DEF SafeInv
  <1> QED
    BY <1>1, <1>2, <1>3

\* What a step of a child does to itself and to the conversation.
LEMMA ChildEffect ==
    ASSUME SafeInv, NEW c \in Claims, ChildStep(c)
    PROVE  /\ UNCHANGED <<ops, serial, worker, proofs>>
           /\ child[c] \in Live
           /\ child'[c] \in Live \cup {"ended"}
           /\ child'[c] # "ended" => receipt'[c] = "none"
           /\ \A d \in Claims : d # c => child'[d] = child[d] /\ receipt'[d] = receipt[d]
           /\ \/ /\ child[c] = "armed"
                 /\ sent' = [sent EXCEPT ![c[1]] = @ + 1]
                 /\ child'[c] \in {"clicked", "ended"}
                 /\ receipt'[c] \in {"none", "attempted"}
              \/ /\ child[c] = "clicked" /\ child'[c] = "ended"
                 /\ receipt'[c] \notin {"wait", "unready", "refused"}
                 /\ UNCHANGED sent
              \/ /\ child[c] # "clicked" /\ child'[c] # "clicked"
                 /\ receipt'[c] # "delivered"
                 /\ UNCHANGED sent
  <1>1. receipt[c] = "none" \/ child[c] = "ended"
    BY DEF SafeInv, BeliefsTrue
  <1>2. child \in [Claims -> Phases] /\ receipt \in [Claims -> Receipts]
    BY DEF SafeInv, TypeOK
  <1>3. ASSUME NEW r, End(c, r)
        PROVE  /\ child'[c] = "ended" /\ receipt'[c] = r
               /\ \A d \in Claims : d # c => child'[d] = child[d] /\ receipt'[d] = receipt[d]
    BY <1>2, <1>3 DEF End
  <1>4. ASSUME NEW phase, child' = [child EXCEPT ![c] = phase], UNCHANGED receipt
        PROVE  /\ child'[c] = phase /\ receipt'[c] = receipt[c]
               /\ \A d \in Claims : d # c => child'[d] = child[d] /\ receipt'[d] = receipt[d]
    BY <1>2, <1>4
  <1>5. UNCHANGED <<ops, serial, worker, proofs>>
    BY DEF ChildStep, Decline, RecordIntent, Arm, Click, Observe, ChildDies, childUnchanged
  <1>6. CASE Decline(c)
    BY <1>3, <1>5, <1>6 DEF Decline, Live
  <1>7. CASE RecordIntent(c)
    BY <1>1, <1>3, <1>4, <1>5, <1>7 DEF RecordIntent, Live
  <1>8. CASE Arm(c)
    BY <1>1, <1>3, <1>4, <1>5, <1>8 DEF Arm, Live
  <1>9. CASE Click(c)
    BY <1>1, <1>3, <1>4, <1>5, <1>9 DEF Click, Live
  <1>10. CASE Observe(c)
    BY <1>3, <1>5, <1>10 DEF Observe, Live
  <1>11. CASE ChildDies(c)
    BY <1>3, <1>5, <1>11 DEF ChildDies, Live
  <1> QED
    BY <1>6, <1>7, <1>8, <1>9, <1>10, <1>11 DEF ChildStep

\* The message of an operation is posted by the one child that can still act on
\* it, and only once.
LEMMA ChildSafe ==
    ASSUME SafeInv, TypeOK', CommittedCounted', NEW c \in Claims, ChildStep(c)
    PROVE  SafeInv'
  <1>1. PICK o \in Ops, n \in 1..MaxClaims : c = <<o, n>>
    BY DEF Claims
  <1>2. /\ n = ops[o].attempts /\ ops[o].status \in InFlight /\ ops[o].attempts >= 1
        /\ \A m \in 1..MaxClaims : m # n => child[<<o, m>>] \notin Live
    BY <1>1, ChildEffect DEF SafeInv, ChildrenCurrent
  <1>3. \A p \in Ops, m \in 1..MaxClaims :
           <<p, m>> # c => /\ child'[<<p, m>>] = child[<<p, m>>]
                           /\ receipt'[<<p, m>>] = receipt[<<p, m>>]
    BY ChildEffect DEF Claims
  <1>4. /\ UNCHANGED <<ops, serial, worker, proofs>>
        /\ \A w \in Workers : ClaimOf(w)' = ClaimOf(w) /\ (Working(w)' <=> Working(w))
    BY ChildEffect DEF ClaimOf, Working
  <1>5. \A w \in Workers : Working(w) => /\ ClaimOf(w) \in Claims /\ worker[w].op \in Ops
                                        /\ (worker[w].op = o => ClaimOf(w) = c)
    BY <1>1, <1>2, ClaimNamed
  <1>6. sent \in [Ops -> Nat]
    BY DEF SafeInv, TypeOK
  <1>7. /\ \A p \in Ops : p # o => sent'[p] = sent[p]
        /\ sent[o] # 0 => sent'[o] # 0
    BY <1>1, <1>6, ChildEffect
  <1>8. sent[o] # 0 => child[c] = "clicked"
    BY <1>1, <1>2, ChildEffect DEF SafeInv, PostedByCurrent, Live
  <1>9. AttemptsCounted' /\ ClaimHeld' /\ OneHolder'
    BY <1>4 DEF SafeInv, AttemptsCounted, ClaimHeld, OneHolder
  <1>10. ChildrenCurrent'
    <2> SUFFICES ASSUME NEW p \in Ops, NEW m \in 1..MaxClaims
                 PROVE  /\ child'[<<p, m>>] # "none" => m <= ops[p].attempts
                        /\ child'[<<p, m>>] \in Live
                             => m = ops[p].attempts /\ ops[p].status \in InFlight
      BY <1>4 DEF ChildrenCurrent
    <2>1. CASE <<p, m>> = c
      <3>1. p = o /\ m = n
        BY <1>1, <2>1
      <3>2. ops[o].attempts \in Nat
        BY DEF SafeInv, TypeOK, Rows
      <3> QED
        BY <1>2, <3>1, <3>2
    <2>2. CASE <<p, m>> # c
      BY <1>3, <2>2 DEF SafeInv, ChildrenCurrent
    <2> QED
      BY <2>1, <2>2
  <1>11. NotYetStarted'
    <2>1. \A w \in Workers : (worker[w].pc \in Unpublished \cup {"prepared"}
                              => ClaimOf(w) \in Claims /\ ClaimOf(w) # c)
      BY <1>5, ChildEffect DEF SafeInv, NotYetStarted, Live, Unpublished, Working, PCs
    <2> QED
      BY <1>4, <2>1, ChildEffect DEF SafeInv, NotYetStarted, Unpublished
  <1>12. PostedByCurrent'
    <2> SUFFICES ASSUME NEW p \in Ops, sent'[p] # 0
                 PROVE  /\ sent'[p] = 1
                        /\ ops[p].status \in InFlight
                        /\ ops[p].attempts >= 1
                        /\ child'[<<p, ops[p].attempts>>] \in {"clicked", "ended"}
                        /\ receipt'[<<p, ops[p].attempts>>] \notin {"wait", "unready", "refused"}
      BY <1>4 DEF PostedByCurrent
    <2>1. CASE p = o
      <3>1. CASE sent' = [sent EXCEPT ![o] = @ + 1]
        BY <1>1, <1>2, <1>6, <1>8, <2>1, <3>1, ChildEffect
      <3>2. CASE UNCHANGED sent
        BY <1>1, <1>2, <1>8, <2>1, <3>2, ChildEffect DEF SafeInv, PostedByCurrent
      <3> QED
        BY <1>1, <3>1, <3>2, ChildEffect
    <2>2. CASE p # o
      <3>1. /\ sent[p] = 1 /\ sent'[p] = 1 /\ ops[p].status \in InFlight /\ ops[p].attempts >= 1
            /\ child[<<p, ops[p].attempts>>] \in {"clicked", "ended"}
            /\ receipt[<<p, ops[p].attempts>>] \notin {"wait", "unready", "refused"}
        BY <1>7, <2>2 DEF SafeInv, PostedByCurrent
      <3>2. ops[p].attempts \in 1..MaxClaims
        <4>1. ops[p].attempts \in Nat /\ serial[p] \in 0..MaxClaims /\ ops[p].attempts <= serial[p]
          BY DEF SafeInv, TypeOK, Rows, AttemptsCounted
        <4> QED
          BY <3>1, <4>1, BoundAssumption
      <3> QED
        BY <1>1, <1>3, <2>2, <3>1, <3>2
    <2> QED
      BY <2>1, <2>2
  <1>13. BeliefsTrue'
    <2>1. \A d \in Claims : (child'[d] = "clicked" \/ receipt'[d] = "delivered" => sent'[d[1]] # 0)
      <3> SUFFICES ASSUME NEW d \in Claims, child'[d] = "clicked" \/ receipt'[d] = "delivered"
                   PROVE  sent'[d[1]] # 0
        OBVIOUS
      <3>1. CASE d = c
        BY <1>1, <1>6, <3>1, ChildEffect DEF SafeInv, BeliefsTrue
      <3>2. CASE d # c
        <4>1. sent[d[1]] # 0 /\ d[1] \in Ops
          BY <3>2, ChildEffect DEF SafeInv, BeliefsTrue, Claims
        <4> QED
          BY <1>7, <4>1
      <3> QED
        BY <3>1, <3>2
    <2>2. \A d \in Claims : child'[d] # "ended" => receipt'[d] = "none"
      BY ChildEffect DEF SafeInv, BeliefsTrue
    <2>3. \A p \in Ops : p \in proofs \/ ops[p].status = "SENT" => sent'[p] # 0
      BY <1>7 DEF SafeInv, BeliefsTrue
    <2>4. \A w \in Workers :
             worker[w].pc = "recording" \/ (worker[w].pc = "finishing" /\ worker[w].out.status = "SENT")
                => sent'[worker[w].op] # 0
      BY <1>5, <1>7 DEF SafeInv, BeliefsTrue, Working, PCs
    <2> QED
      BY <1>4, <2>1, <2>2, <2>3, <2>4 DEF BeliefsTrue
  <1>14. DenialsTrue'
    <2> SUFFICES ASSUME NEW w \in Workers, worker[w].pc = "finishing",
                        worker[w].out.status \in Denials
                 PROVE  sent'[worker[w].op] = 0 /\ child'[ClaimOf(w)] \notin Live
      BY <1>4 DEF SafeInv, DenialsTrue
    <2>1. sent[worker[w].op] = 0 /\ child[ClaimOf(w)] \notin Live /\ Working(w)
      BY DEF SafeInv, DenialsTrue, Working, PCs
    <2>2. ClaimOf(w) # c /\ worker[w].op # o
      BY <1>5, <2>1, ChildEffect
    <2> QED
      BY <1>5, <1>7, <2>1, <2>2, ChildEffect
  <1> QED
    BY <1>9, <1>10, <1>11, <1>12, <1>13, <1>14 DEF SafeInv

\* A worker publishes its claim, or starts the child of a published claim.
LEMMA OwnChildSafe ==
    ASSUME SafeInv, TypeOK', CommittedCounted', NEW w \in Workers, NEW phase,
           child' = [child EXCEPT ![ClaimOf(w)] = phase],
           Goto(w, phase),
           UNCHANGED <<ops, serial, receipt, proofs, sent>>,
           \/ phase = "prepared" /\ worker[w].pc = "ready"
           \/ phase = "running" /\ worker[w].pc = "prepared"
    PROVE  SafeInv'
  <1> DEFINE o == worker[w].op
             c == ClaimOf(w)
  <1>1. Working(w)
    BY DEF Working, PCs
  <1>2. /\ o \in Ops /\ c = <<o, ops[o].attempts>> /\ c \in Claims
        /\ ops[o].attempts \in 1..MaxClaims /\ ops[o].status \in InFlight
    BY <1>1, ClaimNamed DEF SafeInv, ClaimHeld
  <1>3. child[c] \in {"none", "prepared"} /\ sent[o] = 0
    BY <1>2 DEF SafeInv, NotYetStarted, Unpublished, PostedByCurrent
  <1>4. /\ child'[c] = phase
        /\ \A d \in Claims : d # c => child'[d] = child[d]
    BY <1>2 DEF SafeInv, TypeOK
  <1>5. /\ worker'[w].pc = phase /\ worker'[w].op = o /\ worker'[w].row = worker[w].row
        /\ \A v \in Workers : v # w => worker'[v] = worker[v]
    BY <1>1, MovesOnly DEF SafeInv, Working
  <1>6. \A v \in Workers : ClaimOf(v)' = ClaimOf(v)
    BY <1>5 DEF ClaimOf
  <1>7. \A v \in Workers : (Working(v)' => /\ Working(v) /\ worker'[v].op = worker[v].op
                                          /\ worker'[v].row = worker[v].row)
    BY <1>1, <1>5 DEF Working
  <1>8. \A v \in Workers : v # w /\ Working(v) => ClaimOf(v) \in Claims /\ ClaimOf(v) # c
    BY <1>1, ClaimNamed DEF SafeInv, OneHolder, ClaimOf
  <1>9. AttemptsCounted' /\ ClaimHeld' /\ OneHolder'
    BY <1>7 DEF SafeInv, AttemptsCounted, ClaimHeld, OneHolder
  <1>10. ChildrenCurrent'
    <2> SUFFICES ASSUME NEW p \in Ops, NEW m \in 1..MaxClaims
                 PROVE  /\ child'[<<p, m>>] # "none" => m <= ops[p].attempts
                        /\ child'[<<p, m>>] \in Live
                             => m = ops[p].attempts /\ ops[p].status \in InFlight
      BY DEF ChildrenCurrent
    <2>1. CASE <<p, m>> = c
      BY <1>2, <2>1
    <2>2. CASE <<p, m>> # c
      BY <1>4, <2>2 DEF SafeInv, ChildrenCurrent, Claims
    <2> QED
      BY <2>1, <2>2
  <1>11. NotYetStarted'
    <2> SUFFICES ASSUME NEW v \in Workers
                 PROVE  /\ worker'[v].pc \in Unpublished => child'[ClaimOf(v)] = "none"
                        /\ worker'[v].pc = "prepared" => child'[ClaimOf(v)] = "prepared"
      BY <1>6 DEF NotYetStarted
    <2>1. CASE v = w
      BY <1>4, <1>5, <2>1 DEF Unpublished
    <2>2. CASE v # w
      BY <1>4, <1>5, <1>8, <2>2 DEF SafeInv, NotYetStarted, Unpublished, Working, PCs
    <2> QED
      BY <2>1, <2>2
  <1>12. PostedByCurrent'
    <2> SUFFICES ASSUME NEW p \in Ops, sent[p] # 0
                 PROVE  child'[<<p, ops[p].attempts>>] \in {"clicked", "ended"}
      BY DEF SafeInv, PostedByCurrent
    <2>1. child[<<p, ops[p].attempts>>] \in {"clicked", "ended"} /\ p # o
      BY <1>3 DEF SafeInv, PostedByCurrent
    <2>2. <<p, ops[p].attempts>> \in Claims
      <3>1. ops[p].attempts \in Nat /\ serial[p] \in 0..MaxClaims /\ ops[p].attempts <= serial[p]
        BY DEF SafeInv, TypeOK, Rows, AttemptsCounted
      <3>2. ops[p].attempts >= 1
        BY DEF SafeInv, PostedByCurrent
      <3> QED
        BY <3>1, <3>2, BoundAssumption DEF Claims
    <2> QED
      BY <1>2, <1>4, <2>1, <2>2
  <1>13. BeliefsTrue'
    <2>1. \A d \in Claims : /\ child'[d] = "clicked" \/ receipt[d] = "delivered" => sent[d[1]] # 0
                            /\ child'[d] # "ended" => receipt[d] = "none"
      BY <1>3, <1>4 DEF SafeInv, BeliefsTrue
    <2>2. \A v \in Workers :
             worker'[v].pc = "recording" \/ (worker'[v].pc = "finishing" /\ worker'[v].out.status = "SENT")
                => sent[worker'[v].op] # 0
      BY <1>5 DEF SafeInv, BeliefsTrue
    <2> QED
      BY <2>1, <2>2 DEF SafeInv, BeliefsTrue
  <1>14. DenialsTrue'
    <2> SUFFICES ASSUME NEW v \in Workers, worker'[v].pc = "finishing"
                 PROVE  /\ v # w /\ worker'[v] = worker[v] /\ child'[ClaimOf(v)] = child[ClaimOf(v)]
      BY <1>6 DEF SafeInv, DenialsTrue
    <2>1. v # w /\ worker'[v] = worker[v]
      BY <1>5
    <2>2. Working(v)
      BY <2>1 DEF Working, PCs
    <2> QED
      BY <1>4, <1>8, <2>1, <2>2
  <1> QED
    BY <1>9, <1>10, <1>11, <1>12, <1>13, <1>14 DEF SafeInv

\* finish settles the operation of its worker, if the claim is still current.
LEMMA FinishSafe ==
    ASSUME SafeInv, TypeOK', CommittedCounted', NEW w \in Workers, Finish(w)
    PROVE  SafeInv'
  <1> DEFINE o == worker[w].op
             out == worker[w].out
  <1>1. Working(w) /\ worker[w].pc = "finishing" /\ out \in Outcomes
    BY Busy DEF Finish, Working, PCs, SafeInv
  <1>2. /\ o \in Ops /\ ClaimOf(w) = <<o, ops[o].attempts>> /\ ops[o].attempts \in 1..MaxClaims
        /\ ops[o].status \in InFlight
    BY <1>1, ClaimNamed DEF SafeInv, ClaimHeld
  <1>3. /\ worker' = [worker EXCEPT ![w] = Idle]
        /\ UNCHANGED <<serial, child, receipt, sent, proofs>>
    BY DEF Finish
  <1>4. \A v \in Workers : /\ worker'[v] = worker[v] \/ worker'[v] = Idle
                           /\ worker'[v] # Idle => v # w /\ worker'[v] = worker[v]
    BY <1>3 DEF SafeInv, TypeOK
  <1>5. \A v \in Workers : worker'[v] # Idle => worker[v].op # o
    BY <1>1, <1>4 DEF SafeInv, OneHolder, TypeOK, Working, WorkerStates
  <1>6. \A p \in Ops : /\ p \in proofs' => sent[p] # 0
                       /\ ops[p].status = "SENT" => sent[p] # 0
    BY <1>3 DEF SafeInv, BeliefsTrue
  <1>7. \/ UNCHANGED ops
        \/ \E status \in FinalStatuses(o, out) : ops' = [ops EXCEPT ![o] = FinishedRow(ops[o], out, status)]
    BY DEF Finish
  <1>8. CASE UNCHANGED ops
    BY <1>3, <1>4, <1>6, <1>8, RowsMove
  <1>9. ASSUME NEW status \in FinalStatuses(o, out),
               ops' = [ops EXCEPT ![o] = FinishedRow(ops[o], out, status)]
        PROVE  SafeInv'
    <2>1. /\ ops'[o].status = status /\ ops'[o].attempts = ops[o].attempts
          /\ \A p \in Ops : p # o => ops'[p] = ops[p]
      <3>1. ops[o] \in Rows
        BY <1>2 DEF SafeInv, TypeOK
      <3> QED
        BY <1>2, <1>9, <3>1 DEF FinishedRow, Rows, SafeInv, TypeOK
    <2>2. status = out.status \/ (status \in Denials /\ out.status \in Denials)
      BY <1>1, <1>9 DEF FinalStatuses, SafeInv, DenialsTrue, Denials
    <2>3. CASE status \in Denials
      <3>1. sent[o] = 0 /\ child[ClaimOf(w)] \notin Live
        BY <1>1, <2>2, <2>3 DEF SafeInv, DenialsTrue
      <3>2. \A n \in 1..MaxClaims : child[<<o, n>>] \notin Live
        BY <1>2, <3>1 DEF SafeInv, ChildrenCurrent
      <3> QED
        BY <1>3, <1>4, <1>5, <1>6, <2>1, <2>3, <3>1, <3>2, RowsMove
    <2>4. CASE status \notin Denials
      <3>1. status = out.status /\ status \in InFlight
        BY <1>1, <2>2, <2>4 DEF Outcomes, Results, Denials, InFlight
      <3>2. status = "SENT" => sent[o] # 0
        BY <1>1, <3>1 DEF SafeInv, BeliefsTrue
      <3> QED
        BY <1>2, <1>3, <1>4, <1>6, <2>1, <3>1, <3>2, RowsMove
    <2> QED
      BY <2>3, <2>4
  <1> QED
    BY <1>7, <1>8, <1>9

\* A worker that goes on, or settles an outcome it may report.
LEMMA GotoSafe ==
    ASSUME SafeInv, TypeOK', CommittedCounted', NEW w \in Workers, NEW pc \in PCs, Goto(w, pc),
           UNCHANGED <<ops, serial, child, receipt, sent, proofs>>, Working(w),
           pc \in Unpublished => worker[w].pc \in Unpublished,
           pc \notin {"prepared", "finishing"},
           pc = "recording" => sent[worker[w].op] # 0
    PROVE  SafeInv'
  <1>1. /\ worker'[w].pc = pc /\ worker'[w].op = worker[w].op /\ worker'[w].row = worker[w].row
        /\ \A v \in Workers : v # w => worker'[v] = worker[v]
    BY MovesOnly DEF SafeInv, Working
  <1> QED
    BY <1>1, WorkerMoves

LEMMA SettleSafe ==
    ASSUME SafeInv, TypeOK', CommittedCounted', NEW w \in Workers, NEW out, Settle(w, out),
           UNCHANGED <<ops, serial, child, receipt, sent, proofs>>, Working(w),
           out.status = "SENT" => sent[worker[w].op] # 0,
           out.status \in Denials => sent[worker[w].op] = 0 /\ child[ClaimOf(w)] \notin Live,
           out.wait => out.status = "QUEUED"
    PROVE  SafeInv'
  <1>1. /\ worker'[w].pc = "finishing" /\ worker'[w].out = out
        /\ worker'[w].op = worker[w].op /\ worker'[w].row = worker[w].row
        /\ \A v \in Workers : v # w => worker'[v] = worker[v]
    BY MovesOnly DEF SafeInv, Working
  <1> QED
    BY <1>1, WorkerMoves DEF Unpublished

\* Nothing was sent for a claim that is not published or not started.
LEMMA NotSentYet ==
    ASSUME SafeInv, NEW w \in Workers, worker[w].pc \in Unpublished \cup {"prepared"}
    PROVE  /\ Working(w)
           /\ sent[worker[w].op] = 0
           /\ child[ClaimOf(w)] \notin Live
  <1>1. Working(w)
    BY DEF Working, Unpublished, PCs
  <1>2. child[ClaimOf(w)] \in {"none", "prepared"}
    BY DEF SafeInv, NotYetStarted, Unpublished
  <1> QED
    BY <1>1, <1>2, ClaimNamed DEF SafeInv, PostedByCurrent, Live

\* What the worker makes of a receipt agrees with what its child did.
LEMMA CollectSafe ==
    ASSUME SafeInv, TypeOK', CommittedCounted', NEW w \in Workers, Collect(w)
    PROVE  SafeInv'
  <1> DEFINE o == worker[w].op
             r == receipt[ClaimOf(w)]
             out == ReceiptOutcome(o, worker[w].row, r)
  <1>1. Working(w) /\ child[ClaimOf(w)] = "ended"
        /\ UNCHANGED <<ops, serial, child, receipt, sent, proofs>>
    BY DEF Collect, Working, PCs
  <1>2. ClaimOf(w) \in Claims /\ ClaimOf(w) = <<o, ops[o].attempts>> /\ o \in Ops
    BY <1>1, ClaimNamed
  <1>3. r = "delivered" => sent[o] # 0
    BY <1>2 DEF SafeInv, BeliefsTrue
  <1>4. r \in {"wait", "unready", "refused"} => sent[o] = 0
    BY <1>2 DEF SafeInv, PostedByCurrent
  <1>5. CASE Goto(w, "recording") /\ r = "delivered"
    BY <1>1, <1>3, <1>5, GotoSafe DEF PCs, Unpublished
  <1>6. CASE Settle(w, out)
    <2>1. /\ out.status = "SENT" => r = "delivered"
          /\ out.status \in Denials => r \in {"wait", "unready", "refused"}
          /\ out.wait => out.status = "QUEUED"
      BY DEF ReceiptOutcome, Outcome, Denials
    <2> QED
      BY <1>1, <1>3, <1>4, <1>6, <2>1, SettleSafe DEF Live
  <1> QED
    BY <1>5, <1>6 DEF Collect

LEMMA WorkerStepSafe ==
    ASSUME SafeInv, TypeOK', CommittedCounted', NEW w \in Workers, WorkerStep(w)
    PROVE  SafeInv'
  <1>1. \A status : /\ Outcome(status).status = status /\ ~Outcome(status).wait
                    /\ [Outcome(status) EXCEPT !.session = TRUE].status = status
                    /\ ~[Outcome(status) EXCEPT !.session = TRUE].wait
    BY DEF Outcome
  <1>2. CASE ReturnClaim(w)
    BY <1>2, ReturnSafe
  <1>3. CASE Retarget(w)
    <2>1. /\ worker[w].pc = "claimed" /\ Working(w) /\ worker[w].op \in Ops
          /\ UNCHANGED <<serial, child, receipt, sent, proofs>>
      BY <1>3, ClaimNamed DEF Retarget, Working, PCs
    <2>2. CASE Goto(w, "ready") /\ UNCHANGED ops
      BY <2>1, <2>2, GotoSafe DEF PCs, Unpublished
    <2>3. CASE Settle(w, Outcome("WAITING_ROUTE")) /\ UNCHANGED ops
      BY <1>1, <2>1, <2>3, NotSentYet, SettleSafe DEF Unpublished
    <2>4. ASSUME NEW a \in Accounts,
                 ops' = [ops EXCEPT ![worker[w].op].account = a],
                 worker' = [worker EXCEPT ![w].row.account = a, ![w].pc = "ready"]
          PROVE  SafeInv'
      <3>1. \A o \in Ops : ops'[o].attempts = ops[o].attempts /\ ops'[o].status = ops[o].status
        BY <2>1, <2>4 DEF SafeInv, TypeOK, Rows
      <3>2. worker' = [worker EXCEPT ![w] = [worker[w] EXCEPT !.row.account = a, !.pc = "ready"]]
        BY <2>4 DEF SafeInv, TypeOK
      <3>3. worker[w] \in WorkerStates
        BY <2>1, Busy DEF SafeInv, Working
      <3>4. /\ worker'[w].pc = "ready" /\ worker'[w].op = worker[w].op
            /\ worker'[w].row.attempts = worker[w].row.attempts
            /\ \A v \in Workers : v # w => worker'[v] = worker[v]
        BY <3>2, <3>3 DEF SafeInv, TypeOK, WorkerStates, Rows
      <3> QED
        BY <2>1, <3>1, <3>4, WorkerMoves DEF Unpublished
    <2>5. CASE worker' = [worker EXCEPT ![w] = Idle] /\ UNCHANGED ops
      BY <2>1, <2>5, RowsMove DEF SafeInv, TypeOK, BeliefsTrue
    <2> QED
      BY <1>3, <2>2, <2>3, <2>4, <2>5 DEF Retarget
  <1>4. CASE CheckMode(w)
    <2> DEFINE pc == IF Closed THEN "finishing"
                     ELSE IF worker[w].row.stamp # ModeStamp THEN "restamp"
                     ELSE "ready"
               state == [worker[w] EXCEPT !.since = pauses, !.mode = ModeStamp,
                                          !.out = Outcome("QUEUED"), !.pc = pc]
    <2>1. /\ worker[w].pc = "claimed" /\ Working(w)
          /\ UNCHANGED <<ops, serial, child, receipt, sent, proofs>>
      BY <1>4 DEF CheckMode, Working, PCs
    <2>2. worker[w] \in WorkerStates /\ worker' = [worker EXCEPT ![w] = state]
      BY <1>4, <2>1, Busy DEF CheckMode, SafeInv, TypeOK, Working
    <2>3. pc \in {"finishing", "restamp", "ready"}
      OBVIOUS
    <2>4. /\ worker'[w].pc = pc /\ worker'[w].op = worker[w].op /\ worker'[w].row = worker[w].row
          /\ worker'[w].out = Outcome("QUEUED")
          /\ \A v \in Workers : v # w => worker'[v] = worker[v]
      BY <2>2 DEF SafeInv, TypeOK, WorkerStates
    <2> HIDE DEF pc, state
    <2> QED
      BY <1>1, <2>1, <2>3, <2>4, NotSentYet, WorkerMoves DEF Unpublished
  <1>5. CASE Restamp(w)
    <2>1. /\ worker[w].pc = "restamp" /\ Working(w) /\ Goto(w, "reread")
          /\ UNCHANGED <<serial, child, receipt, sent, proofs>>
      BY <1>5 DEF Restamp, Working, PCs
    <2>2. /\ worker'[w].pc = "reread" /\ worker'[w].op = worker[w].op /\ worker'[w].row = worker[w].row
          /\ \A v \in Workers : v # w => worker'[v] = worker[v]
      BY <2>1, MovesOnly DEF SafeInv, Working
    <2>3. \A o \in Ops : ops'[o].attempts = ops[o].attempts /\ ops'[o].status = ops[o].status
      BY <1>5 DEF Restamp, SafeInv, TypeOK, Rows
    <2> QED
      BY <2>1, <2>2, <2>3, WorkerMoves DEF Unpublished
  <1>6. CASE Reread(w)
    <2> DEFINE state == [worker[w] EXCEPT !.row = ops[worker[w].op], !.pc = "ready"]
    <2>1. /\ worker[w].pc = "reread" /\ Working(w) /\ worker' = [worker EXCEPT ![w] = state]
          /\ UNCHANGED <<ops, serial, child, receipt, sent, proofs>>
      BY <1>6 DEF Reread, Working, PCs, SafeInv, TypeOK
    <2>2. worker[w] \in WorkerStates /\ ops[worker[w].op].attempts = worker[w].row.attempts
      BY <2>1, Busy DEF SafeInv, Working, ClaimHeld
    <2>3. /\ worker'[w].pc = "ready" /\ worker'[w].op = worker[w].op
          /\ worker'[w].row.attempts = worker[w].row.attempts
          /\ \A v \in Workers : v # w => worker'[v] = worker[v]
      BY <2>1, <2>2 DEF SafeInv, TypeOK, WorkerStates
    <2> QED
      BY <2>1, <2>3, WorkerMoves DEF Unpublished
  <1>7. CASE RouteChanged(w)
    BY <1>1, <1>7, NotSentYet, SettleSafe DEF RouteChanged, Unpublished
  <1>8. CASE Prepare(w)
    <2>1. CASE child' = [child EXCEPT ![ClaimOf(w)] = "prepared"] /\ Goto(w, "prepared")
      BY <1>8, <2>1, OwnChildSafe DEF Prepare
    <2>2. CASE Settle(w, Outcome("DELIVERY_UNKNOWN")) /\ UNCHANGED child
      BY <1>1, <1>8, <2>2, NotSentYet, SettleSafe DEF Prepare, Unpublished, Denials
    <2> QED
      BY <1>8, <2>1, <2>2 DEF Prepare
  <1>9. CASE Spawn(w)
    <2>1. CASE child' = [child EXCEPT ![ClaimOf(w)] = "running"] /\ Goto(w, "running")
      BY <1>9, <2>1, OwnChildSafe DEF Spawn
    <2>2. CASE Settle(w, Outcome("DELIVERY_UNKNOWN")) /\ UNCHANGED child
      BY <1>1, <1>9, <2>2, NotSentYet, SettleSafe DEF Spawn, Denials
    <2> QED
      BY <1>9, <2>1, <2>2 DEF Spawn
  <1>10. CASE Collect(w)
    BY <1>10, CollectSafe
  <1>11. CASE Abandon(w)
    BY <1>1, <1>11, SettleSafe DEF Abandon, Working, PCs, Denials
  <1>12. CASE RecordTask(w)
    <2>1. PICK status \in {"SENT", "DELIVERY_UNKNOWN"} :
             Settle(w, [Outcome(status) EXCEPT !.session = TRUE])
      BY <1>12 DEF RecordTask
    <2>2. Working(w) /\ sent[worker[w].op] # 0
      BY <1>12 DEF RecordTask, Working, PCs, SafeInv, BeliefsTrue
    <2> QED
      BY <1>1, <1>12, <2>1, <2>2, SettleSafe DEF RecordTask, Denials
  <1>13. CASE Finish(w)
    BY <1>13, FinishSafe
  <1> QED
    BY <1>2, <1>3, <1>4, <1>5, <1>6, <1>7, <1>8, <1>9, <1>10, <1>11, <1>12, <1>13 DEF WorkerStep

LEMMA CommandSafe ==
    ASSUME SafeInv, TypeOK', CommittedCounted', NEW o \in Ops, Command(o)
    PROVE  SafeInv'
  <1>1. UNCHANGED <<serial, worker, child, receipt, sent>>
    BY DEF Command, Retry, Cancel, ReadEvidence, CommitEvidence, Supersede, dispatchUnchanged
  <1>2. /\ \A p \in Ops : /\ p \in proofs' => sent[p] # 0
                          /\ ops[p].status = "SENT" => sent[p] # 0
        /\ \A p \in Ops : p # o => ops'[p] = ops[p]
        /\ ops'[o].attempts = ops[o].attempts
    BY DEF Command, Retry, Cancel, ReadEvidence, CommitEvidence, Supersede, SafeInv, TypeOK,
           Rows, BeliefsTrue
  <1>3. CASE ops'[o].status = ops[o].status
    BY <1>1, <1>2, <1>3, RowsMove
  <1>4. CASE ops'[o].status # ops[o].status
    <2>1. \/ Retry(o) \/ Cancel(o) \/ CommitEvidence(o) \/ Supersede(o)
      BY <1>4 DEF Command, ReadEvidence
    <2>2. CASE Retry(o) \/ Cancel(o)
      <3>1. /\ ops[o].status \notin InFlight /\ ops'[o].status \notin InFlight
            /\ ops'[o].status # "SENT"
        BY <2>2 DEF Retry, Cancel, SafeInv, TypeOK, Rows, InFlight
      <3> QED
        BY <1>1, <1>2, <3>1, RowsMove
    <2>3. CASE CommitEvidence(o) \/ Supersede(o)
      <3>1. /\ ops[o].status \in InFlight /\ ops'[o].status \in InFlight
            /\ ops'[o].status = "SENT" => sent[o] # 0
        BY <1>4, <2>3 DEF CommitEvidence, Supersede, SafeInv, TypeOK, Rows, InFlight, BeliefsTrue
      <3> QED
        BY <1>1, <1>2, <3>1, RowsMove
    <2> QED
      BY <2>1, <2>2, <2>3
  <1> QED
    BY <1>3, <1>4

\* The inductive invariant: it holds initially and every step preserves it.
LEMMA SafeInit == Init => SafeInv
  <1> SUFFICES ASSUME Init PROVE SafeInv
    OBVIOUS
  <1>1. TypeOK /\ CommittedCounted
    BY TypeInit DEF Init, CommittedCounted, Idle
  <1>2. /\ \A w \in Workers : ~Working(w) /\ worker[w].pc = "idle"
        /\ \A o \in Ops : ops[o].status = "QUEUED" /\ ops[o].attempts = 0 /\ sent[o] = 0
                         /\ serial[o] = 0 /\ o \notin proofs
        /\ \A c \in Claims : child[c] = "none" /\ receipt[c] = "none"
    BY DEF Init, Working, Idle, PCs
  <1>3. AttemptsCounted /\ ClaimHeld /\ OneHolder
    BY <1>2 DEF AttemptsCounted, ClaimHeld, OneHolder
  <1>4. ChildrenCurrent /\ NotYetStarted
    BY <1>2 DEF ChildrenCurrent, NotYetStarted, Claims, Live, Unpublished
  <1>5. PostedByCurrent /\ BeliefsTrue /\ DenialsTrue
    BY <1>2 DEF PostedByCurrent, BeliefsTrue, DenialsTrue
  <1> QED
    BY <1>1, <1>3, <1>4, <1>5 DEF SafeInv

LEMMA SafeStep == SafeInv /\ [Next]_vars => SafeInv'
  <1> SUFFICES ASSUME SafeInv, [Next]_vars PROVE SafeInv'
    OBVIOUS
  <1>1. TypeOK' /\ CommittedCounted'
    BY TypeStep, CommittedStep DEF SafeInv
  <1>2. ASSUME NEW w \in Workers, Claim(w) PROVE SafeInv'
    BY <1>1, <1>2, ClaimSafe
  <1>3. ASSUME NEW w \in Workers, WorkerStep(w) PROVE SafeInv'
    BY <1>1, <1>3, WorkerStepSafe
  <1>4. ASSUME NEW c \in Claims, ChildStep(c) PROVE SafeInv'
    BY <1>1, <1>4, ChildSafe
  <1>5. ASSUME NEW o \in Ops, Command(o) PROVE SafeInv'
    BY <1>1, <1>5, CommandSafe
  <1>6. ASSUME Recover PROVE SafeInv'
    <2>1. \A o \in Ops : \/ ops'[o] = ops[o]
                       \/ /\ ops[o].status = "DISPATCHING"
                          /\ ops'[o] = [ops[o] EXCEPT !.status = "DELIVERY_UNKNOWN"]
      BY <1>6 DEF Recover, Expired, Dispatching
    <2>2. \A o \in Ops : /\ ops'[o].attempts = ops[o].attempts
                         /\ ops[o].status \in InFlight <=> ops'[o].status \in InFlight
                         /\ ops'[o].status = "SENT" => sent[o] # 0
      <3>1. \A o \in Ops :
               /\ [ops[o] EXCEPT !.status = "DELIVERY_UNKNOWN"].status = "DELIVERY_UNKNOWN"
               /\ [ops[o] EXCEPT !.status = "DELIVERY_UNKNOWN"].attempts = ops[o].attempts
               /\ ops[o].status = "SENT" => sent[o] # 0
        BY DEF SafeInv, TypeOK, Rows, BeliefsTrue
      <3> QED
        BY <2>1, <3>1 DEF InFlight
    <2> QED
      BY <1>1, <1>6, <2>2, RowsMove DEF Recover, SafeInv, BeliefsTrue
  <1>7. ASSUME RefreshRoutes PROVE SafeInv'
    <2>1. PICK S \in SUBSET {o \in Ops : Kind[o] \in Notices /\ ops[o].status = "WAITING_ROUTE"} :
             \E account \in [S -> Accounts] :
                ops' = [o \in Ops |-> IF o \in S THEN [ops[o] EXCEPT !.status = "QUEUED",
                                                                  !.account = account[o]]
                                     ELSE ops[o]]
      BY <1>7 DEF RefreshRoutes
    <2>2. \A o \in Ops : \/ ops'[o] = ops[o]
                       \/ /\ ops[o].status = "WAITING_ROUTE"
                          /\ \E a : ops'[o] = [ops[o] EXCEPT !.status = "QUEUED", !.account = a]
      BY <2>1
    <2>3. \A o \in Ops : /\ ops'[o].attempts = ops[o].attempts
                         /\ ops[o].status \in InFlight <=> ops'[o].status \in InFlight
                         /\ ops'[o].status = "SENT" => sent[o] # 0
      <3>1. \A o \in Ops : \A a :
               /\ [ops[o] EXCEPT !.status = "QUEUED", !.account = a].status = "QUEUED"
               /\ [ops[o] EXCEPT !.status = "QUEUED", !.account = a].attempts = ops[o].attempts
               /\ ops[o].status = "SENT" => sent[o] # 0
        BY DEF SafeInv, TypeOK, Rows, BeliefsTrue
      <3> TAKE o \in Ops
      <3>2. CASE ops'[o] = ops[o]
        BY <3>1, <3>2
      <3>3. ASSUME NEW a, ops[o].status = "WAITING_ROUTE",
                   ops'[o] = [ops[o] EXCEPT !.status = "QUEUED", !.account = a]
            PROVE  ops'[o].attempts = ops[o].attempts /\ ops'[o].status = "QUEUED"
        BY <3>1, <3>3
      <3> QED
        BY <2>2, <3>2, <3>3 DEF InFlight
    <2> QED
      BY <1>1, <1>7, <2>3, RowsMove DEF RefreshRoutes, dispatchUnchanged, SafeInv, BeliefsTrue
  <1>8. ASSUME \/ \E w \in Workers : ProcessStep(w)
               \/ \E o \in Ops : Elapse(o)
               \/ \E k \in Controllers : ReadEpoch(k) \/ SetMode(k)
               \/ UNCHANGED vars
        PROVE  SafeInv'
    <2>1. /\ UNCHANGED <<ops, serial, child, receipt, sent, proofs>>
          /\ \A v \in Workers : worker'[v] = worker[v] \/ worker'[v] = Idle
      BY <1>8 DEF ProcessStep, Interrupt, Restart, Crash, Elapse, ReadEpoch, SetMode,
                  dispatchUnchanged, vars, SafeInv, TypeOK
    <2> QED
      BY <1>1, <2>1, RowsMove DEF SafeInv, BeliefsTrue
  <1> QED
    BY <1>2, <1>3, <1>4, <1>5, <1>6, <1>7, <1>8 DEF Next

LEMMA Safe == Spec => []SafeInv
  BY SafeInit, SafeStep, PTL DEF Spec

\* No message is posted twice, whatever crashes, expired claims, repeated commands
\* and children that outlive their workers do.
THEOREM NoDuplicate == Spec => []AtMostOnce
  <1>1. SafeInv => AtMostOnce
    <2> SUFFICES ASSUME SafeInv, NEW o \in Ops PROVE sent[o] <= 1
      BY DEF AtMostOnce
    <2>1. sent[o] = 0 \/ sent[o] = 1
      BY DEF SafeInv, PostedByCurrent
    <2> QED
      BY <2>1
  <1> QED
    BY <1>1, Safe, PTL

\* An operation that may be tried again, or that is reported as not sent, was not
\* sent and cannot be sent any more by a child of an earlier claim.
THEOREM UnsentIsProven == Spec => []ProvenUnsent
  <1>1. SafeInv => ProvenUnsent
    BY DEF SafeInv, PostedByCurrent, ChildrenCurrent, InFlight, ProvenUnsent
  <1> QED
    BY <1>1, Safe, PTL

\* SENT is never claimed of a message that is not in the conversation.
THEOREM SentIsTrue == Spec => []SentIsDelivered
  <1>1. SafeInv => SentIsDelivered
    BY DEF SafeInv, BeliefsTrue, PostedByCurrent, SentIsDelivered
  <1> QED
    BY <1>1, Safe, PTL

\* What the queue says of a message is what happened to it: UNSENT and a message
\* that may be tried again were not posted, SENT was.
THEOREM OutcomesCorrect == Spec => []OutcomesTrue
  BY UnsentIsProven, SentIsTrue, PTL DEF OutcomesTrue

\* A claim directory is created for exactly one claim.
THEOREM DirectoriesFresh == Spec => []FreshDirectory
  <1>1. SafeInv => FreshDirectory
    BY DEF SafeInv, NotYetStarted, Unpublished, FreshDirectory
  <1> QED
    BY <1>1, Safe, PTL

-----------------------------------------------------------------------------
(* The queue implements the promise of Delivery.                           *)

\* How a step may move one operation.
Moved(o) ==
    \/ /\ sent'[o] = sent[o]
       /\ \/ ops'[o].status = ops[o].status
          \/ ops[o].status = "QUEUED" /\ ops'[o].status \in {"DISPATCHING", "CANCELLED"}
          \/ ops[o].status = "DISPATCHING" /\ ops'[o].status = "DELIVERY_UNKNOWN"
          \/ ops[o].status = "DISPATCHING" /\ ops'[o].status \in Denials /\ sent[o] = 0
          \/ ops[o].status \in {"DISPATCHING", "DELIVERY_UNKNOWN"} /\ ops'[o].status = "SENT" /\ sent[o] = 1
          \/ ops[o].status \in {"FAILED_PRE_SEND", "WAITING_ROUTE"} /\ ops'[o].status = "QUEUED"
          \/ ops[o].status = "DELIVERY_UNKNOWN" /\ ops'[o].status = "RECONCILED_SUPERSEDED"
    \/ /\ sent[o] = 0 /\ sent'[o] = 1
       /\ ops'[o].status = ops[o].status
       /\ ops[o].status \in {"DISPATCHING", "DELIVERY_UNKNOWN", "RECONCILED_SUPERSEDED"}

LEMMA FinishMoves ==
    ASSUME SafeInv, NEW w \in Workers, Finish(w), NEW p \in Ops
    PROVE  Moved(p)
  <1> DEFINE o == worker[w].op
             out == worker[w].out
  <1>1. worker[w].pc = "finishing" /\ out \in Outcomes /\ o \in Ops /\ UNCHANGED sent
    BY Busy DEF Finish, PCs, SafeInv
  <1>2. CASE ops'[p] = ops[p]
    BY <1>1, <1>2 DEF Moved
  <1>3. CASE ops'[p] # ops[p]
    <2>1. PICK status \in FinalStatuses(o, out) : ops' = [ops EXCEPT ![o] = FinishedRow(ops[o], out, status)]
      BY <1>3 DEF Finish
    <2>2. p = o /\ ops[o].status = "DISPATCHING"
      BY <1>1, <1>3, <2>1 DEF Finish, Current, SafeInv, TypeOK
    <2>3. ops'[o].status = status
      <3>1. ops[o] \in Rows
        BY <1>1 DEF SafeInv, TypeOK
      <3> QED
        BY <1>1, <2>1, <3>1 DEF FinishedRow, Rows, SafeInv, TypeOK
    <2>4. status = out.status \/ (status \in Denials /\ out.status \in Denials)
      BY <1>1 DEF FinalStatuses, SafeInv, DenialsTrue, Denials
    <2>5. /\ out.status \in Denials => sent[o] = 0
          /\ out.status = "SENT" => sent[o] = 1
      BY <1>1 DEF SafeInv, DenialsTrue, BeliefsTrue, PostedByCurrent
    <2>6. out.status \in Denials \cup {"SENT", "DELIVERY_UNKNOWN"}
      BY <1>1 DEF Outcomes, Results, Denials
    <2> QED
      BY <1>1, <2>2, <2>3, <2>4, <2>5, <2>6 DEF Moved
  <1> QED
    BY <1>2, <1>3

LEMMA EveryMove ==
    ASSUME SafeInv, SafeInv', [Next]_vars, NEW o \in Ops
    PROVE  Moved(o)
  <1>1. ASSUME NEW w \in Workers, Claim(w) PROVE Moved(o)
    <2>1. UNCHANGED sent
      BY <1>1, ClaimEffect DEF SafeInv
    <2>2. PICK q \in Ops :
             /\ ops[q].status = "QUEUED"
             /\ ops'[q] = ClaimedRow(ops[q], serial[q] + 1)
             /\ \A p \in Ops : p # q =>
                  \/ ops'[p] = ops[p]
                  \/ /\ ops[p].status = "DISPATCHING"
                     /\ ops'[p] = [ops[p] EXCEPT !.status = "DELIVERY_UNKNOWN"]
      BY <1>1, ClaimEffect DEF SafeInv
    <2>3. ops[o] \in Rows /\ ops[q] \in Rows
      BY DEF SafeInv, TypeOK
    <2>4. /\ ClaimedRow(ops[q], serial[q] + 1).status = "DISPATCHING"
          /\ [ops[o] EXCEPT !.status = "DELIVERY_UNKNOWN"].status = "DELIVERY_UNKNOWN"
      BY <2>3 DEF ClaimedRow, Rows
    <2> QED
      BY <2>1, <2>2, <2>4 DEF Moved
  <1>2. ASSUME NEW w \in Workers, ReturnClaim(w) PROVE Moved(o)
    <2>1. worker[w].op \in Ops /\ UNCHANGED sent /\ sent[worker[w].op] = 0
      BY <1>2, NotSentYet, ClaimNamed DEF ReturnClaim, Unpublished
    <2>2. CASE ops'[o] = ops[o]
      BY <2>1, <2>2 DEF Moved
    <2>3. CASE ops'[o] # ops[o]
      <3>1. o = worker[w].op /\ ops[o].status = "DISPATCHING" /\ ops'[o] = ReturnedRow(ops[o])
        BY <1>2, <2>1, <2>3 DEF ReturnClaim, Current, SafeInv, TypeOK
      <3>2. ReturnedRow(ops[o]).status = "QUEUED"
        BY DEF ReturnedRow, SafeInv, TypeOK, Rows
      <3> QED
        BY <2>1, <3>1, <3>2 DEF Moved, Denials
    <2> QED
      BY <2>2, <2>3
  <1>3. ASSUME NEW w \in Workers, Finish(w) PROVE Moved(o)
    BY <1>3, FinishMoves
  <1>4. ASSUME NEW w \in Workers, WorkerStep(w), ~ReturnClaim(w), ~Finish(w) PROVE Moved(o)
    <2>1. ops[o] \in Rows /\ ops = [p \in Ops |-> ops[p]]
      BY DEF SafeInv, TypeOK
    <2>2. CASE Retarget(w)
      <3>1. PICK a \in Accounts : ops' = ops \/ ops' = [ops EXCEPT ![worker[w].op].account = a]
        BY <2>2, AccountAssumption DEF Retarget
      <3>2. ops'[o].status = ops[o].status
        BY <2>1, <3>1 DEF Rows
      <3> QED
        BY <2>2, <3>2 DEF Retarget, Moved
    <2>3. CASE Restamp(w)
      <3>1. ops'[o].status = ops[o].status
        BY <2>1, <2>3 DEF Restamp, Rows
      <3> QED
        BY <2>3, <3>1 DEF Restamp, Moved
    <2>4. CASE ~Retarget(w) /\ ~Restamp(w)
      <3>1. UNCHANGED <<ops, sent>>
        BY <1>4, <2>4 DEF WorkerStep, CheckMode, Reread, RouteChanged, Prepare, Spawn,
                          Collect, Abandon, RecordTask
      <3> QED
        BY <3>1 DEF Moved
    <2> QED
      BY <2>2, <2>3, <2>4
  <1>5. ASSUME NEW c \in Claims, ChildStep(c) PROVE Moved(o)
    <2>1. /\ UNCHANGED ops
          /\ sent' = [sent EXCEPT ![c[1]] = @ + 1] \/ UNCHANGED sent
      BY <1>5, ChildEffect
    <2>2. CASE sent'[o] = sent[o]
      BY <2>1, <2>2 DEF Moved
    <2>3. CASE sent'[o] # sent[o]
      <3>1. sent[o] \in {0, 1} /\ sent'[o] \in {0, 1}
        BY DEF SafeInv, PostedByCurrent
      <3>2. sent'[o] = sent[o] + 1
        BY <2>1, <2>3 DEF SafeInv, TypeOK
      <3>3. sent[o] = 0 /\ sent'[o] = 1
        BY <3>1, <3>2
      <3>4. ops[o].status \in InFlight /\ ops[o].status # "SENT"
        <4>1. ops'[o].status \in InFlight
          <5>1. PostedByCurrent'
            BY DEF SafeInv
          <5>2. sent'[o] # 0
            BY <3>3
          <5> QED
            BY <5>1, <5>2 DEF PostedByCurrent, InFlight
        <4>2. ops[o].status # "SENT"
          BY <3>3 DEF SafeInv, BeliefsTrue
        <4> QED
          BY <2>1, <4>1, <4>2
      <3> QED
        <4>1. ops'[o].status = ops[o].status
          BY <2>1
        <4>2. ops[o].status \in {"DISPATCHING", "DELIVERY_UNKNOWN", "RECONCILED_SUPERSEDED"}
          BY <3>4 DEF InFlight
        <4> QED
          BY <3>3, <4>1, <4>2 DEF Moved
    <2> QED
      BY <2>2, <2>3
  <1>6. ASSUME NEW p \in Ops, Command(p) PROVE Moved(o)
    <2>1. UNCHANGED sent
      BY <1>6 DEF Command, Retry, Cancel, ReadEvidence, CommitEvidence, Supersede, dispatchUnchanged
    <2>2. CASE ops'[o].status = ops[o].status
      BY <2>1, <2>2 DEF Moved
    <2>3. CASE ops'[o].status # ops[o].status
      <3>1. \/ ops[o].status = "FAILED_PRE_SEND" /\ ops'[o].status = "QUEUED"
            \/ ops[o].status = "QUEUED" /\ ops'[o].status = "CANCELLED"
            \/ o \in proofs /\ ops[o].status = "DELIVERY_UNKNOWN" /\ ops'[o].status = "SENT"
            \/ ops[o].status = "DELIVERY_UNKNOWN" /\ ops'[o].status = "RECONCILED_SUPERSEDED"
        <4>1. ops[o] \in Rows /\ ops[p] \in Rows /\ ops = [q \in Ops |-> ops[q]]
          BY DEF SafeInv, TypeOK
        <4>2. ASSUME Retry(p) PROVE ops[o].status = "FAILED_PRE_SEND" /\ ops'[o].status = "QUEUED"
          BY <2>3, <4>1, <4>2 DEF Retry, Rows
        <4>3. ASSUME Cancel(p) PROVE ops[o].status = "QUEUED" /\ ops'[o].status = "CANCELLED"
          BY <2>3, <4>1, <4>3 DEF Cancel, Rows
        <4>4. ASSUME CommitEvidence(p)
              PROVE  o \in proofs /\ ops[o].status = "DELIVERY_UNKNOWN" /\ ops'[o].status = "SENT"
          BY <2>3, <4>1, <4>4 DEF CommitEvidence, Rows
        <4>5. ASSUME Supersede(p)
              PROVE  ops[o].status = "DELIVERY_UNKNOWN" /\ ops'[o].status = "RECONCILED_SUPERSEDED"
          BY <2>3, <4>1, <4>5 DEF Supersede, Rows
        <4>6. ASSUME ReadEvidence(p) PROVE FALSE
          BY <2>3, <4>6 DEF ReadEvidence
        <4> QED
          BY <1>6, <4>2, <4>3, <4>4, <4>5, <4>6 DEF Command
      <3>2. o \in proofs => sent[o] = 1
        BY DEF SafeInv, BeliefsTrue, PostedByCurrent
      <3> QED
        BY <2>1, <3>1, <3>2 DEF Moved
    <2> QED
      BY <2>2, <2>3
  <1>7. ASSUME Recover PROVE Moved(o)
    <2>1. \/ ops'[o] = ops[o]
          \/ /\ ops[o].status = "DISPATCHING"
             /\ ops'[o] = [ops[o] EXCEPT !.status = "DELIVERY_UNKNOWN"]
      BY <1>7 DEF Recover, Expired, Dispatching
    <2>2. [ops[o] EXCEPT !.status = "DELIVERY_UNKNOWN"].status = "DELIVERY_UNKNOWN"
      BY DEF SafeInv, TypeOK, Rows
    <2> QED
      BY <1>7, <2>1, <2>2 DEF Recover, Moved
  <1>8. ASSUME RefreshRoutes PROVE Moved(o)
    <2>1. PICK S \in SUBSET {p \in Ops : Kind[p] \in Notices /\ ops[p].status = "WAITING_ROUTE"} :
             \E account \in [S -> Accounts] :
                ops' = [p \in Ops |-> IF p \in S THEN [ops[p] EXCEPT !.status = "QUEUED",
                                                                  !.account = account[p]]
                                     ELSE ops[p]]
      BY <1>8 DEF RefreshRoutes
    <2>2. \/ ops'[o] = ops[o]
          \/ /\ ops[o].status = "WAITING_ROUTE"
             /\ \E a : ops'[o] = [ops[o] EXCEPT !.status = "QUEUED", !.account = a]
      BY <2>1
    <2>3. \A a : [ops[o] EXCEPT !.status = "QUEUED", !.account = a].status = "QUEUED"
      BY DEF SafeInv, TypeOK, Rows
    <2>4. UNCHANGED sent
      BY <1>8 DEF RefreshRoutes, dispatchUnchanged
    <2>5. ops'[o] = ops[o] \/ (ops[o].status = "WAITING_ROUTE" /\ ops'[o].status = "QUEUED")
      BY <2>2, <2>3
    <2> QED
      BY <2>4, <2>5 DEF Moved
  <1>9. ASSUME UNCHANGED <<ops, sent>> PROVE Moved(o)
    BY <1>9 DEF Moved
  <1>10. \/ \E w \in Workers : Claim(w) \/ WorkerStep(w)
         \/ \E c \in Claims : ChildStep(c)
         \/ \E p \in Ops : Command(p)
         \/ Recover \/ RefreshRoutes
         \/ UNCHANGED <<ops, sent>>
    BY DEF Next, ProcessStep, Interrupt, Restart, Crash, Elapse, ReadEpoch, SetMode,
           dispatchUnchanged, vars
  <1> QED
    BY <1>1, <1>2, <1>3, <1>4, <1>5, <1>6, <1>7, <1>8, <1>9, <1>10

\* Every step of the queue is a step of Delivery: a late finish, an expired claim or
\* a repeated command never changes the outcome of an operation again.
THEOREM PromiseKept == Spec => KeepsPromise
  <1>1. Init => Promise!Init
    BY DEF Init, Promise!Init, PhaseOf
  <1>2. SafeInv /\ SafeInv' /\ [Next]_vars => [Promise!Next]_(Promise!vars)
    <2> SUFFICES ASSUME SafeInv, SafeInv', [Next]_vars, NEW o \in Ops
                 PROVE  \/ Promise!Post(o) \/ Promise!Try(o) \/ Promise!GiveBack(o)
                        \/ Promise!Fail(o) \/ Promise!Confirm(o) \/ Promise!Lose(o)
                        \/ Promise!Reconcile(o) \/ Promise!Drop(o) \/ Promise!Retry(o)
                        \/ Promise!Stay(o)
      BY DEF Promise!Next
    <2> DEFINE before == PhaseOf(ops[o].status)
               after  == PhaseOf(ops'[o].status)
    <2>1. Moved(o)
      BY EveryMove
    <2>2. CASE after = before /\ sent'[o] = sent[o]
      BY <2>2 DEF Promise!Stay
    <2>3. CASE ops[o].status = "QUEUED" /\ ops'[o].status = "DISPATCHING" /\ sent'[o] = sent[o]
      BY <2>3 DEF Promise!Try, Promise!Move, PhaseOf
    <2>4. CASE ops[o].status = "QUEUED" /\ ops'[o].status = "CANCELLED" /\ sent'[o] = sent[o]
      BY <2>4 DEF Promise!Drop, Promise!Move, PhaseOf
    <2>5. CASE /\ ops[o].status = "DISPATCHING" /\ ops'[o].status = "DELIVERY_UNKNOWN"
               /\ sent'[o] = sent[o]
      BY <2>5 DEF Promise!Lose, Promise!Move, PhaseOf
    <2>6. CASE /\ ops[o].status = "DISPATCHING" /\ ops'[o].status \in Denials
               /\ sent[o] = 0 /\ sent'[o] = sent[o]
      <3>1. before = "trying" /\ after \in {"waiting", "failed"}
        BY <2>6 DEF Denials, PhaseOf
      <3> QED
        BY <2>6, <3>1 DEF Promise!GiveBack, Promise!Fail, Promise!Move
    <2>7. CASE /\ ops[o].status \in {"DISPATCHING", "DELIVERY_UNKNOWN"} /\ ops'[o].status = "SENT"
               /\ sent[o] = 1 /\ sent'[o] = sent[o]
      <3>1. before \in {"trying", "uncertain"} /\ after = "delivered"
        BY <2>7 DEF PhaseOf
      <3> QED
        BY <2>7, <3>1 DEF Promise!Confirm, Promise!Reconcile, Promise!Move
    <2>8. CASE ops[o].status = "FAILED_PRE_SEND" /\ ops'[o].status = "QUEUED" /\ sent'[o] = sent[o]
      BY <2>8 DEF Promise!Retry, Promise!Move, PhaseOf
    <2>9. CASE /\ ops[o].status = "DELIVERY_UNKNOWN" /\ ops'[o].status = "RECONCILED_SUPERSEDED"
               /\ sent'[o] = sent[o]
      BY <2>9 DEF Promise!Drop, Promise!Move, PhaseOf
    <2>10. CASE /\ sent[o] = 0 /\ sent'[o] = 1 /\ ops'[o].status = ops[o].status
                /\ ops[o].status \in {"DISPATCHING", "DELIVERY_UNKNOWN", "RECONCILED_SUPERSEDED"}
      <3>1. before \in {"trying", "uncertain", "dropped"} /\ after = before
        BY <2>10 DEF PhaseOf
      <3> QED
        BY <2>10, <3>1 DEF Promise!Post
    <2>11. ops[o].status = "WAITING_ROUTE" /\ ops'[o].status = "QUEUED" => after = before
      BY DEF PhaseOf
    <2>12. ops'[o].status = ops[o].status => after = before
      OBVIOUS
    <2> HIDE DEF before, after
    <2> QED
      BY <2>1, <2>2, <2>3, <2>4, <2>5, <2>6, <2>7, <2>8, <2>9, <2>10, <2>11, <2>12 DEF Moved
  <1> QED
    BY <1>1, <1>2, Safe, PTL DEF Spec, KeepsPromise, Promise!Spec

-----------------------------------------------------------------------------
(* Retries and pauses.                                                     *)

\* The statuses from which an operation may still be tried.
Open == {"QUEUED", "DISPATCHING", "WAITING_ROUTE"}

\* A failure is reported as one that may be tried again only while budget is left.
Affordable(out, failures) ==
    out.failure => ~out.wait /\ (out.status # "FAILED_PRE_SEND" => failures + 1 < RetryLimit)

\* An operation that may still be tried has budget left, and its worker knows how much.
BudgetInv ==
    /\ \A o \in Ops : ops[o].status \in Open => ops[o].failures < RetryLimit
    /\ \A w \in Workers :
         /\ Working(w) /\ ops[worker[w].op].status = "DISPATCHING"
              => worker[w].row.failures = ops[worker[w].op].failures
         /\ worker[w].pc = "finishing" => Affordable(worker[w].out, worker[w].row.failures)

\* A mode that was read after as many pauses of each scope as since says: as long as the
\* epoch of its scope stands, so does the number of pauses of that scope.
Honest(stamp, since) ==
    /\ \A s \in Scopes : since[s] <= pauses[s]
    /\ stamp.scope \in Scopes =>
         /\ stamp.epoch <= control[stamp.scope].epoch
         /\ stamp.epoch = control[stamp.scope].epoch => since[stamp.scope] = pauses[stamp.scope]

\* A scope that has no row was never paused, and whoever is about to write a mode of a scope
\* has read its epoch.  What workers and manifests carry of a mode is honest, and the row that
\* is armed carries the stamp of the mode its worker read.
FenceInv ==
    /\ \A s \in Scopes : control[s].epoch = 0 => pauses[s] = 0
    /\ \A k \in Controllers :
         setter[k].scope # "none" => setter[k].epoch = control[setter[k].scope].epoch
    /\ \A w \in Workers : Working(w) /\ Kind[worker[w].op] \in Business =>
         /\ worker[w].pc \in {"restamp", "reread", "ready"} => Honest(worker[w].mode, worker[w].since)
         /\ worker[w].pc = "reread" => ops[worker[w].op].stamp = worker[w].mode
         /\ worker[w].pc = "ready" => worker[w].row.stamp = worker[w].mode
    /\ \A c \in Claims : Kind[c[1]] \in Business /\ child[c] # "none" =>
         manifest[c] \in Manifests /\ Honest(manifest[c].row.stamp, manifest[c].since)

\* Two control commands never overlap in one scope.
Apart ==
    \A j, k \in Controllers :
        j # k /\ setter[j].scope # "none" => setter[k].scope # setter[j].scope

\* A row keeps its failures and its stamp, and does not come back to the statuses from which
\* it is tried, but by a retry, a finish or the restamp of its worker.
LEMMA RowEffect ==
    ASSUME TypeOK, [Next]_vars, NEW o \in Ops
    PROVE  /\ ops'[o].status = "DISPATCHING" => ops[o].status \in {"QUEUED", "DISPATCHING"}
           /\ \/ ops'[o].failures = ops[o].failures /\ (ops'[o].status \in Open => ops[o].status \in Open)
              \/ ops[o].status = "FAILED_PRE_SEND" /\ ops'[o].status = "QUEUED" /\ ops'[o].failures = 0
              \/ \E w \in Workers :
                   /\ worker[w].pc = "finishing" /\ worker[w].op = o /\ ops[o].status = "DISPATCHING"
                   /\ ops'[o].status \in FinalStatuses(o, worker[w].out)
                   /\ ops'[o].failures = IF worker[w].out.failure THEN ops[o].failures + 1 ELSE ops[o].failures
           /\ \/ ops'[o].stamp = ops[o].stamp
              \/ \E w \in Workers : /\ worker[w].pc = "restamp" /\ worker[w].op = o
                                    /\ ops'[o].stamp = worker[w].mode
  <1> USE DEF Open
  <1> DEFINE Same == ops'[o].failures = ops[o].failures /\ ops'[o].stamp = ops[o].stamp
  <1>0. ops[o] \in Rows BY DEF TypeOK
  <1>1. ASSUME NEW w \in Workers, Claim(w)
        PROVE  Same /\ (ops'[o].status \in Open => ops[o].status \in Open)
                    /\ (ops'[o].status = "DISPATCHING" => ops[o].status \in {"QUEUED", "DISPATCHING"})
    <2>1. PICK p \in Ops :
             /\ ops[p].status = "QUEUED" /\ ops'[p] = ClaimedRow(ops[p], serial[p] + 1)
             /\ \A q \in Ops : q # p => \/ ops'[q] = ops[q]
                                        \/ /\ ops[q].status = "DISPATCHING"
                                           /\ ops'[q] = [ops[q] EXCEPT !.status = "DELIVERY_UNKNOWN"]
      BY <1>1, ClaimEffect
    <2>2. CASE o = p BY <1>0, <2>1, <2>2 DEF ClaimedRow, Rows
    <2>3. CASE o # p BY <1>0, <2>1, <2>3 DEF Rows
    <2> QED BY <2>2, <2>3
  <1>2. ASSUME NEW w \in Workers, ReturnClaim(w)
        PROVE  Same /\ (ops'[o].status \in Open => ops[o].status \in Open)
                    /\ (ops'[o].status = "DISPATCHING" => ops[o].status \in {"QUEUED", "DISPATCHING"})
    <2>1. \/ ops'[o] = ops[o]
          \/ ops[o].status = "DISPATCHING" /\ ops'[o] = ReturnedRow(ops[o])
      BY <1>2 DEF ReturnClaim, Current, TypeOK
    <2> QED BY <1>0, <2>1 DEF ReturnedRow, Rows
  <1>3. ASSUME NEW w \in Workers, Retarget(w)
        PROVE  Same /\ ops'[o].status = ops[o].status
    <2>1. ops'[o] = ops[o] \/ \E a \in Accounts : ops'[o] = [ops[o] EXCEPT !.account = a]
      BY <1>3 DEF Retarget, TypeOK
    <2> QED BY <1>0, <2>1 DEF Rows
  <1>4. ASSUME NEW w \in Workers, Restamp(w)
        PROVE  /\ ops'[o].failures = ops[o].failures /\ ops'[o].status = ops[o].status
               /\ \/ ops'[o].stamp = ops[o].stamp
                  \/ worker[w].pc = "restamp" /\ worker[w].op = o /\ ops'[o].stamp = worker[w].mode
    <2>1. ops'[o] = IF worker[w].op = o THEN [ops[o] EXCEPT !.stamp = worker[w].mode] ELSE ops[o]
      BY <1>4 DEF Restamp, TypeOK
    <2> QED BY <1>0, <1>4, <2>1 DEF Rows, Restamp
  <1>5. ASSUME NEW w \in Workers, Finish(w), ops'[o] # ops[o]
        PROVE  /\ worker[w].pc = "finishing" /\ worker[w].op = o /\ ops[o].status = "DISPATCHING"
               /\ ops'[o].status \in FinalStatuses(o, worker[w].out) /\ ops'[o].status # "DISPATCHING"
               /\ ops'[o].failures = IF worker[w].out.failure THEN ops[o].failures + 1 ELSE ops[o].failures
               /\ ops'[o].stamp = ops[o].stamp
    <2>1. PICK status \in FinalStatuses(worker[w].op, worker[w].out) :
             /\ worker[w].pc = "finishing" /\ worker[w].op = o /\ ops[o].status = "DISPATCHING"
             /\ ops'[o] = FinishedRow(ops[o], worker[w].out, status)
      BY <1>5 DEF Finish, Current, TypeOK
    <2>2. worker[w].out \in Outcomes BY <2>1, Busy DEF PCs
    <2>3. status # "DISPATCHING" BY <2>1, <2>2 DEF FinalStatuses, Outcomes, Results
    <2>4. /\ ops'[o].status = status /\ ops'[o].stamp = ops[o].stamp
          /\ ops'[o].failures = IF worker[w].out.failure THEN ops[o].failures + 1 ELSE ops[o].failures
      BY <1>0, <2>1, <2>2 DEF FinishedRow, Rows, Outcomes
    <2> QED BY <2>1, <2>3, <2>4
  <1>6. ASSUME NEW p \in Ops, Command(p)
        PROVE  /\ ops'[o].stamp = ops[o].stamp
               /\ ops'[o].status = "DISPATCHING" => ops[o].status = "DISPATCHING"
               /\ \/ ops'[o].failures = ops[o].failures /\ (ops'[o].status \in Open => ops[o].status \in Open)
                  \/ ops[o].status = "FAILED_PRE_SEND" /\ ops'[o].status = "QUEUED" /\ ops'[o].failures = 0
    <2>1. \/ ops'[o] = ops[o]
          \/ ops[o].status = "FAILED_PRE_SEND" /\ ops'[o] = [ops[o] EXCEPT !.status = "QUEUED", !.failures = 0]
          \/ \E s \in {"CANCELLED", "SENT", "RECONCILED_SUPERSEDED"} : ops'[o] = [ops[o] EXCEPT !.status = s]
      BY <1>6 DEF Command, Retry, Cancel, ReadEvidence, CommitEvidence, Supersede, TypeOK
    <2> QED BY <1>0, <2>1 DEF Rows
  <1>7. ASSUME Recover \/ RefreshRoutes
        PROVE  Same /\ (ops'[o].status \in Open => ops[o].status \in Open)
                    /\ (ops'[o].status = "DISPATCHING" => ops[o].status \in {"QUEUED", "DISPATCHING"})
    <2>1. \/ ops'[o] = ops[o]
          \/ ops'[o] = [ops[o] EXCEPT !.status = "DELIVERY_UNKNOWN"]
          \/ \E a : ops[o].status = "WAITING_ROUTE"
                      /\ ops'[o] = [ops[o] EXCEPT !.status = "QUEUED", !.account = a]
      <3>1. CASE Recover BY <3>1 DEF Recover, Expired
      <3>2. CASE RefreshRoutes BY <3>2 DEF RefreshRoutes
      <3> QED BY <1>7, <3>1, <3>2
    <2> QED BY <1>0, <2>1 DEF Rows
  <1>8. \/ ops' = ops \/ Recover \/ RefreshRoutes
        \/ \E w \in Workers : Claim(w) \/ ReturnClaim(w) \/ Retarget(w) \/ Restamp(w) \/ Finish(w)
        \/ \E p \in Ops : Command(p)
    BY DEF Next, WorkerStep, CheckMode, Reread, RouteChanged, Prepare, Spawn, Collect, Abandon, RecordTask,
           ProcessStep, Interrupt, Restart, Crash, ChildStep, Decline, RecordIntent, Arm, Click, Observe,
           ChildDies, childUnchanged, Elapse, ReadEpoch, SetMode, vars
  <1>9. CASE ops'[o] = ops[o] BY <1>9
  <1> QED BY <1>1, <1>2, <1>3, <1>4, <1>5, <1>6, <1>7, <1>8, <1>9

\* A worker keeps its operation and what it has read of it, but in the steps that read: a
\* claim, the look at the mode and the second look at the row.
LEMMA WorkerEffect ==
    ASSUME TypeOK, [Next]_vars, NEW v \in Workers, worker'[v].pc \in PCs, worker'[v] # worker[v]
    PROVE  \/ /\ worker'[v].pc = "committed" /\ worker'[v].op \in Ops
              /\ worker'[v].row = ops'[worker'[v].op] /\ ops[worker'[v].op].status = "QUEUED"
           \/ /\ worker[v].pc \in PCs /\ worker'[v].op = worker[v].op
              /\ \/ /\ worker[v].pc = "reread" /\ worker'[v].pc = "ready" /\ UNCHANGED <<ops, child>>
                    /\ worker'[v].row = ops[worker[v].op]
                    /\ worker'[v].mode = worker[v].mode /\ worker'[v].since = worker[v].since
                 \/ /\ worker[v].pc = "claimed" /\ worker'[v].row = worker[v].row
                    /\ worker'[v].mode = ModeStamp /\ worker'[v].since = pauses
                    /\ worker'[v].out = Outcome("QUEUED")
                    /\ worker'[v].pc \in {"finishing", "restamp", "ready"}
                    /\ worker'[v].pc = "ready" => worker[v].row.stamp = ModeStamp
                 \/ /\ worker[v].pc = "restamp" /\ worker'[v].pc = "reread"
                    /\ worker'[v].row = worker[v].row /\ ops'[worker[v].op].stamp = worker[v].mode
                    /\ worker'[v].mode = worker[v].mode /\ worker'[v].since = worker[v].since
                 \/ /\ worker'[v].row.failures = worker[v].row.failures
                    /\ worker'[v].pc \notin {"restamp", "reread"}
                    /\ worker'[v].pc = "ready" => Kind[worker[v].op] \notin Business
                    /\ worker'[v].pc = "finishing" => Affordable(worker'[v].out, worker[v].row.failures)
  <1>0. worker \in [Workers -> WorkerStates \cup {Idle}] BY DEF TypeOK
  <1>a. \A out : ~out.failure => Affordable(out, worker[v].row.failures) BY DEF Affordable
  <1>b. \A s : Outcome(s).failure = FALSE /\ [Outcome(s) EXCEPT !.session = TRUE].failure = FALSE BY DEF Outcome
  <1>1. ASSUME NEW w \in Workers, Claim(w)
        PROVE  /\ worker'[v].pc = "committed" /\ worker'[v].op \in Ops
               /\ worker'[v].row = ops'[worker'[v].op] /\ ops[worker'[v].op].status = "QUEUED"
    <2>1. PICK p \in Ops :
             /\ ops[p].status = "QUEUED"
             /\ worker' = [worker EXCEPT ![w] =
                             [pc |-> "committed", op |-> p, row |-> ops'[p], mode |-> NoStamp,
                              since |-> NoPauses, out |-> Outcome("QUEUED")]]
      BY <1>1, ClaimEffect
    <2>2. worker'[v] = [pc |-> "committed", op |-> p, row |-> ops'[p], mode |-> NoStamp,
                        since |-> NoPauses, out |-> Outcome("QUEUED")]
      BY <1>0, <2>1
    <2> QED BY <2>1, <2>2
  <1>2. ASSUME NEW w \in Workers, WorkerStep(w) PROVE w = v /\ worker[v].pc \in PCs /\ worker[v] \in WorkerStates
    <2>1. worker[w].pc \in PCs
      BY <1>2 DEF WorkerStep, ReturnClaim, Retarget, CheckMode, Restamp, Reread, RouteChanged, Prepare, Spawn, Collect,
                  Abandon, RecordTask, Finish, PCs
    <2>2. w # v => worker'[v] = worker[v]
      BY <1>0, <1>2 DEF WorkerStep, ReturnClaim, Retarget, CheckMode, Restamp, Reread, RouteChanged, Prepare, Spawn,
                  Collect, Abandon, RecordTask, Finish, Goto, Settle
    <2> QED BY <2>1, <2>2, Busy
  <1>3. ASSUME WorkerStep(v)
        PROVE  /\ worker'[v].op = worker[v].op
               /\ \/ /\ worker[v].pc = "reread" /\ worker'[v].pc = "ready" /\ UNCHANGED <<ops, child>>
                     /\ worker'[v].row = ops[worker[v].op]
                     /\ worker'[v].mode = worker[v].mode /\ worker'[v].since = worker[v].since
                  \/ /\ worker[v].pc = "claimed" /\ worker'[v].row = worker[v].row
                     /\ worker'[v].mode = ModeStamp /\ worker'[v].since = pauses
                     /\ worker'[v].out = Outcome("QUEUED")
                     /\ worker'[v].pc \in {"finishing", "restamp", "ready"}
                     /\ worker'[v].pc = "ready" => worker[v].row.stamp = ModeStamp
                  \/ /\ worker[v].pc = "restamp" /\ worker'[v].pc = "reread"
                     /\ worker'[v].row = worker[v].row /\ ops'[worker[v].op].stamp = worker[v].mode
                     /\ worker'[v].mode = worker[v].mode /\ worker'[v].since = worker[v].since
                  \/ /\ worker'[v].row.failures = worker[v].row.failures
                     /\ worker'[v].pc \notin {"restamp", "reread"}
                     /\ worker'[v].pc = "ready" => Kind[worker[v].op] \notin Business
                     /\ worker'[v].pc = "finishing" => Affordable(worker'[v].out, worker[v].row.failures)
    <2>0. worker[v] \in WorkerStates BY <1>2, <1>3
    <2>1. \A pc : Goto(v, pc) =>
             /\ worker'[v].pc = pc /\ worker'[v].op = worker[v].op /\ worker'[v].row = worker[v].row
             /\ worker'[v].mode = worker[v].mode /\ worker'[v].since = worker[v].since
      BY <1>0, <2>0 DEF Goto, WorkerStates
    <2>2. \A out : Settle(v, out) =>
             /\ worker'[v].pc = "finishing" /\ worker'[v].out = out /\ worker'[v].op = worker[v].op
             /\ worker'[v].row = worker[v].row
      BY <1>0, <2>0 DEF Settle, WorkerStates
    <2>3. worker'[v] # Idle BY DEF Idle, PCs
    <2>4. CASE ReturnClaim(v) BY <1>0, <2>1, <2>3, <2>4 DEF ReturnClaim
    <2>5. CASE Retarget(v)
      <3>1. Kind[worker[v].op] \notin Business BY <2>5 DEF Retarget, Notices, Business
      <3>2. ASSUME NEW a \in Accounts, worker' = [worker EXCEPT ![v].row.account = a, ![v].pc = "ready"]
            PROVE  /\ worker'[v].op = worker[v].op /\ worker'[v].row.failures = worker[v].row.failures
                   /\ worker'[v].pc = "ready"
        <4>1. worker[v].row \in Rows BY <2>0 DEF WorkerStates
        <4> QED BY <1>0, <2>0, <3>2, <4>1 DEF WorkerStates, Rows
      <3>3. CASE Goto(v, "ready") BY <2>1, <3>1, <3>3
      <3>4. CASE Settle(v, Outcome("WAITING_ROUTE")) BY <1>a, <1>b, <2>2, <3>4
      <3>5. worker' # [worker EXCEPT ![v] = Idle] BY <1>0, <2>3
      <3> QED BY <2>5, <3>1, <3>2, <3>3, <3>4, <3>5 DEF Retarget
    <2>6. CASE CheckMode(v)
      <3>1. PICK pc : pc = IF Closed THEN "finishing" ELSE IF worker[v].row.stamp # ModeStamp THEN "restamp" ELSE "ready"
        OBVIOUS
      <3>2. PICK m, out : m = ModeStamp /\ out = Outcome("QUEUED") OBVIOUS
      <3>3. worker' = [worker EXCEPT ![v].since = pauses, ![v].mode = m, ![v].out = out, ![v].pc = pc]
        BY <2>6, <3>1, <3>2 DEF CheckMode
      <3>4. /\ worker'[v].row = worker[v].row /\ worker'[v].op = worker[v].op
            /\ worker'[v].mode = m /\ worker'[v].since = pauses /\ worker'[v].out = out /\ worker'[v].pc = pc
        BY <1>0, <2>0, <3>3 DEF WorkerStates
      <3> QED BY <2>6, <3>1, <3>2, <3>4 DEF CheckMode
    <2>7. CASE Restamp(v)
      <3>1. worker[v].op \in Ops /\ worker[v].mode \in Stamps BY <2>0 DEF WorkerStates
      <3>2. ops'[worker[v].op].stamp = worker[v].mode BY <2>7, <3>1 DEF Restamp, TypeOK, Rows
      <3> QED BY <2>1, <2>7, <3>2 DEF Restamp
    <2>8. CASE Reread(v)
      <3>1. PICK row : row = ops[worker[v].op] OBVIOUS
      <3>2. worker' = [worker EXCEPT ![v].row = row, ![v].pc = "ready"] BY <2>8, <3>1 DEF Reread
      <3>3. /\ worker'[v].row = row /\ worker'[v].op = worker[v].op /\ worker'[v].pc = "ready"
            /\ worker'[v].mode = worker[v].mode /\ worker'[v].since = worker[v].since
        BY <1>0, <2>0, <3>2 DEF WorkerStates
      <3> QED BY <2>8, <3>1, <3>3 DEF Reread
    <2>9. CASE Collect(v)
      <3>1. \A r : Affordable(ReceiptOutcome(worker[v].op, worker[v].row, r), worker[v].row.failures)
        <4> TAKE r
        <4>1. worker[v].row.failures \in Nat BY <2>0 DEF WorkerStates, Rows
        <4> QED BY <4>1, BoundAssumption DEF ReceiptOutcome, Affordable, Outcome
      <3> QED BY <2>1, <2>2, <2>9, <3>1 DEF Collect
    <2>10. CASE RouteChanged(v) \/ Abandon(v) \/ RecordTask(v)
      BY <1>a, <1>b, <2>2, <2>10 DEF RouteChanged, Abandon, RecordTask
    <2>11. CASE Prepare(v) \/ Spawn(v)
      BY <1>a, <1>b, <2>1, <2>2, <2>11 DEF Prepare, Spawn
    <2>12. ~Finish(v) BY <1>0, <2>3 DEF Finish
    <2> QED BY <1>3, <2>4, <2>5, <2>6, <2>7, <2>8, <2>9, <2>10, <2>11, <2>12 DEF WorkerStep
  <1>4. ASSUME NEW w \in Workers, ProcessStep(w) PROVE FALSE
    BY <1>0, <1>4 DEF ProcessStep, Interrupt, Restart, Crash, Idle, PCs
  <1>5. \/ worker' = worker \/ \E w \in Workers : Claim(w) \/ WorkerStep(w) \/ ProcessStep(w)
    BY DEF Next, ChildStep, Decline, RecordIntent, Arm, Click, Observe, ChildDies, childUnchanged, Elapse, ReadEpoch,
           SetMode, vars, Command, Retry, Cancel, ReadEvidence, CommitEvidence, Supersede, Recover, RefreshRoutes,
           dispatchUnchanged
  <1> QED BY <1>1, <1>2, <1>3, <1>4, <1>5

LEMMA BudgetStep == SafeInv /\ BudgetInv /\ [Next]_vars => BudgetInv'
  <1> SUFFICES ASSUME SafeInv, BudgetInv, [Next]_vars PROVE BudgetInv'
    OBVIOUS
  <1>0. /\ TypeOK
        /\ \A o \in Ops : ops[o].failures \in Nat
        /\ \A v \in Workers : Working(v) =>
             /\ worker[v].op \in Ops /\ ops[worker[v].op].status \in InFlight
             /\ worker[v].row.failures \in Nat
    BY Busy DEF SafeInv, TypeOK, Rows, ClaimHeld, Working
  <1>1. ASSUME NEW w \in Workers, worker[w].pc = "finishing", ops[worker[w].op].status = "DISPATCHING"
        PROVE  /\ worker[w].op \in Ops /\ Affordable(worker[w].out, ops[worker[w].op].failures)
               /\ worker[w].out.failure \in BOOLEAN
    <2>1. Working(w) BY <1>1 DEF Working, PCs
    <2>2. worker[w].out \in Outcomes BY <1>0, <2>1, Busy DEF Working
    <2> QED BY <1>0, <1>1, <2>1, <2>2 DEF BudgetInv, Outcomes
  <1>2. ASSUME NEW o \in Ops, ops'[o].status \in Open PROVE ops'[o].failures < RetryLimit
    <2>1. CASE ops'[o].failures = ops[o].failures /\ ops[o].status \in Open
      BY <2>1 DEF BudgetInv
    <2>2. CASE ops'[o].failures = 0 BY <2>2, BoundAssumption
    <2>3. ASSUME NEW w \in Workers,
                 worker[w].pc = "finishing", worker[w].op = o, ops[o].status = "DISPATCHING",
                 ops'[o].status \in FinalStatuses(o, worker[w].out),
                 ops'[o].failures = IF worker[w].out.failure THEN ops[o].failures + 1 ELSE ops[o].failures
          PROVE  ops'[o].failures < RetryLimit
      <3>1. CASE worker[w].out.failure
        <4>1. ~worker[w].out.wait /\ (worker[w].out.status # "FAILED_PRE_SEND" => ops[o].failures + 1 < RetryLimit)
          BY <1>1, <2>3, <3>1 DEF Affordable
        <4>2. ops'[o].status = worker[w].out.status BY <2>3, <4>1 DEF FinalStatuses
        <4> QED BY <1>2, <2>3, <3>1, <4>1, <4>2 DEF Open
      <3>2. CASE ~worker[w].out.failure
        BY <2>3, <3>2 DEF BudgetInv, Open
      <3> QED BY <3>1, <3>2
    <2> QED BY <1>0, <1>2, <2>1, <2>2, <2>3, RowEffect
  <1>3. ASSUME NEW v \in Workers, Working(v)', ops'[worker'[v].op].status = "DISPATCHING"
        PROVE  worker'[v].row.failures = ops'[worker'[v].op].failures
    <2>1. ASSUME Working(v), worker'[v].op = worker[v].op,
                 worker'[v].row.failures \in {worker[v].row.failures, ops[worker[v].op].failures}
          PROVE  worker'[v].row.failures = ops'[worker'[v].op].failures
      <3> DEFINE o == worker[v].op
      <3>1. o \in Ops /\ ops[o].status \in InFlight BY <1>0, <2>1
      <3>2. ops[o].status = "DISPATCHING" BY <1>0, <1>3, <2>1, <3>1, RowEffect DEF InFlight
      <3>3. worker'[v].row.failures = ops[o].failures BY <2>1, <3>2 DEF BudgetInv
      <3>4. ops'[o].failures = ops[o].failures
        <4>1. ~ \E w \in Workers : worker[w].pc = "finishing" /\ worker[w].op = o /\ ops'[o].status \in FinalStatuses(o, worker[w].out)
          <5> SUFFICES ASSUME NEW w \in Workers, worker[w].pc = "finishing",
                              ops'[o].status \in FinalStatuses(o, worker[w].out)
                       PROVE  FALSE
            OBVIOUS
          <5>1. worker[w].out \in Outcomes BY <1>0, Busy DEF PCs
          <5> QED BY <1>3, <2>1, <5>1 DEF FinalStatuses, Outcomes, Results
        <4> QED BY <1>0, <3>1, <3>2, <4>1, RowEffect
      <3> QED BY <2>1, <3>3, <3>4
    <2>2. CASE worker'[v] = worker[v]
      BY <1>3, <2>1, <2>2 DEF Working
    <2>3. CASE worker'[v] # worker[v]
      BY <1>0, <1>3, <2>1, <2>3, WorkerEffect DEF Working
    <2> QED BY <2>2, <2>3
  <1>4. ASSUME NEW v \in Workers, worker'[v].pc = "finishing"
        PROVE  Affordable(worker'[v].out, worker'[v].row.failures)
    <2>1. CASE worker'[v] = worker[v] BY <1>4, <2>1 DEF BudgetInv
    <2>2. CASE worker'[v] # worker[v]
      <3>1. worker'[v].pc \in PCs BY <1>4 DEF PCs
      <3>2. Affordable(Outcome("QUEUED"), worker'[v].row.failures) BY DEF Affordable, Outcome
      <3> QED BY <1>0, <1>4, <2>2, <3>1, <3>2, WorkerEffect
    <2> QED BY <2>1, <2>2
  <1>5. \A o \in Ops : (ops[o].status \in Open => ops[o].failures < RetryLimit)'
    BY <1>2
  <1>6. \A w \in Workers :
           /\ Working(w)' /\ ops'[worker'[w].op].status = "DISPATCHING"
                => worker'[w].row.failures = ops'[worker'[w].op].failures
           /\ worker'[w].pc = "finishing" => Affordable(worker'[w].out, worker'[w].row.failures)
    BY <1>3, <1>4
  <1>7. \A out, n : Affordable(out, n)' = Affordable(out, n) BY DEF Affordable
  <1> QED BY <1>5, <1>6, <1>7 DEF BudgetInv, Affordable

\* RetryBudget for every number of workers, operations and retries: a row that is queued has
\* budget left, though its worker decides on a copy of the row from its claim, and whoever
\* retries starts the count again.  coordinator.py:3085-3088, 5448.
THEOREM RetriesEnd == Spec => []RetryBudget
  <1>1. Init => BudgetInv
    <2> SUFFICES ASSUME Init PROVE BudgetInv
      OBVIOUS
    <2>1. \A o \in Ops : ops[o].failures = 0 BY DEF Init
    <2>2. \A w \in Workers : ~Working(w) /\ worker[w].pc # "finishing" BY DEF Init, Working, Idle, PCs
    <2> QED BY <2>1, <2>2, BoundAssumption DEF BudgetInv
  <1>2. BudgetInv => RetryBudget
    BY DEF BudgetInv, Open, RetryBudget
  <1> QED BY <1>1, <1>2, BudgetStep, Safe, PTL DEF Spec

\* Modes, epochs and pauses: what only control commands change.
LEMMA ControlEffect ==
    ASSUME TypeOK, [Next]_vars
    PROVE  \/ UNCHANGED <<control, pauses, setter>>
           \/ /\ UNCHANGED <<control, pauses>>
              /\ \E k \in Controllers : /\ \A j \in Controllers : j # k => setter'[j] = setter[j]
                                        /\ setter'[k].epoch = control[setter'[k].scope].epoch
           \/ /\ UNCHANGED <<ops, worker, child, manifest>>
              /\ \E k \in Controllers, m \in Modes :
                   /\ setter[k].scope # "none" /\ setter'[k].scope = "none"
                   /\ \A j \in Controllers : j # k => setter'[j] = setter[j]
                   /\ control' = [control EXCEPT ![setter[k].scope] = [mode |-> m, epoch |-> setter[k].epoch + 1]]
                   /\ \/ pauses' = pauses
                      \/ pauses' = [pauses EXCEPT ![setter[k].scope] = @ + 1]
  <1>1. ASSUME NEW k \in Controllers, SetMode(k)
        PROVE  /\ UNCHANGED <<ops, worker, child, manifest>>
               /\ setter[k].scope # "none" /\ setter'[k].scope = "none"
               /\ \A j \in Controllers : j # k => setter'[j] = setter[j]
               /\ \E m \in Modes :
                   /\ control' = [control EXCEPT ![setter[k].scope] = [mode |-> m, epoch |-> setter[k].epoch + 1]]
                   /\ \/ pauses' = pauses
                      \/ pauses' = [pauses EXCEPT ![setter[k].scope] = @ + 1]
    BY <1>1 DEF SetMode, TypeOK, dispatchUnchanged
  <1>2. \/ UNCHANGED <<control, pauses, setter>>
        \/ \E k \in Controllers : ReadEpoch(k) \/ SetMode(k)
    <2> DEFINE Same == UNCHANGED <<control, pauses, setter>>
    <2>1. ASSUME NEW w \in Workers, Claim(w) \/ WorkerStep(w) \/ ProcessStep(w) PROVE Same
      BY <2>1 DEF Claim, WorkerStep, ReturnClaim, Retarget, CheckMode, Restamp, Reread, RouteChanged, Prepare, Spawn,
                  Collect, Abandon, RecordTask, Finish, ProcessStep, Interrupt, Restart, Crash
    <2>2. ASSUME NEW c \in Claims, ChildStep(c) PROVE Same
      BY <2>2 DEF ChildStep, Decline, RecordIntent, Arm, Click, Observe, ChildDies, childUnchanged
    <2>3. ASSUME NEW o \in Ops, Command(o) \/ Elapse(o) PROVE Same
      BY <2>3 DEF Elapse, Command, Retry, Cancel, ReadEvidence, CommitEvidence, Supersede
    <2>4. CASE Recover \/ RefreshRoutes \/ UNCHANGED vars
      BY <2>4 DEF Recover, RefreshRoutes, vars
    <2> QED BY <2>1, <2>2, <2>3, <2>4 DEF Next
  <1>3. ASSUME NEW k \in Controllers, ReadEpoch(k)
        PROVE  /\ UNCHANGED <<control, pauses>>
               /\ \A j \in Controllers : j # k => setter'[j] = setter[j]
               /\ setter'[k].epoch = control[setter'[k].scope].epoch
    BY <1>3 DEF ReadEpoch, TypeOK
  <1>4. CASE \E k \in Controllers : ReadEpoch(k) BY <1>3, <1>4
  <1>5. CASE \E k \in Controllers : SetMode(k)
    <2>1. PICK k \in Controllers : SetMode(k) BY <1>5
    <2>2. PICK m \in Modes :
             /\ control' = [control EXCEPT ![setter[k].scope] = [mode |-> m, epoch |-> setter[k].epoch + 1]]
             /\ \/ pauses' = pauses
                \/ pauses' = [pauses EXCEPT ![setter[k].scope] = @ + 1]
      BY <1>1, <2>1
    <2> QED BY <1>1, <2>1, <2>2
  <1> QED BY <1>2, <1>4, <1>5

\* A manifest is written once, when its directory is made, from the worker's copy of its row.
LEMMA ManifestEffect ==
    ASSUME SafeInv, [Next]_vars, NEW c \in Claims, child'[c] # "none"
    PROVE  \/ child[c] # "none" /\ manifest'[c] = manifest[c]
           \/ \E w \in Workers :
                /\ worker[w].pc = "ready" /\ c[1] = worker[w].op
                /\ manifest'[c] = [row |-> worker[w].row, since |-> worker[w].since]
  <1>0. /\ child \in [Claims -> Phases] /\ DOMAIN manifest = Claims
        /\ manifest \in [Claims -> Manifests \cup {NoManifest}]
    BY DEF SafeInv, TypeOK
  <1>1. ASSUME NEW w \in Workers, Prepare(w)
        PROVE  \/ child[c] # "none" /\ manifest'[c] = manifest[c]
               \/ /\ worker[w].pc = "ready" /\ c[1] = worker[w].op
                  /\ manifest'[c] = [row |-> worker[w].row, since |-> worker[w].since]
    <2>1. CASE UNCHANGED <<child, manifest>> BY <2>1
    <2>2. CASE /\ child[ClaimOf(w)] = "none" /\ child' = [child EXCEPT ![ClaimOf(w)] = "prepared"]
               /\ manifest' = [manifest EXCEPT ![ClaimOf(w)] = [row |-> worker[w].row, since |-> worker[w].since]]
      <3>1. PICK m : m = [row |-> worker[w].row, since |-> worker[w].since] OBVIOUS
      <3>2. PICK d : d = ClaimOf(w) OBVIOUS
      <3>3. manifest' = [manifest EXCEPT ![d] = m] /\ child' = [child EXCEPT ![d] = "prepared"] BY <2>2, <3>1, <3>2
      <3>4. CASE c = d
        <4>1. manifest'[c] = m BY <1>0, <3>3, <3>4
        <4>2. c[1] = worker[w].op BY <3>2, <3>4 DEF ClaimOf
        <4> QED BY <1>1, <3>1, <4>1, <4>2 DEF Prepare
      <3>5. CASE c # d BY <1>0, <3>3, <3>5
      <3> QED BY <3>4, <3>5
    <2> QED BY <1>1, <2>1, <2>2 DEF Prepare
  <1>2. ASSUME NEW w \in Workers, Spawn(w)
        PROVE  child[c] # "none" /\ manifest'[c] = manifest[c]
    <2>1. child[ClaimOf(w)] = "prepared" BY <1>2 DEF Spawn, SafeInv, NotYetStarted
    <2> QED BY <1>0, <1>2, <2>1 DEF Spawn
  <1>3. ASSUME NEW d \in Claims, ChildStep(d)
        PROVE  child[c] # "none" /\ manifest'[c] = manifest[c]
    BY <1>0, <1>3 DEF ChildStep, Decline, RecordIntent, Arm, Click, Observe, ChildDies, End, Live, childUnchanged
  <1>4. CASE UNCHANGED <<child, manifest>> BY <1>4
  <1>5. \/ UNCHANGED <<child, manifest>>
        \/ \E w \in Workers : Prepare(w) \/ Spawn(w)
        \/ \E d \in Claims : ChildStep(d)
    <2> DEFINE Same == UNCHANGED <<child, manifest>>
    <2>1. ASSUME NEW w \in Workers, Claim(w) \/ WorkerStep(w) \/ ProcessStep(w)
          PROVE  Same \/ Prepare(w) \/ Spawn(w)
      BY <2>1 DEF Claim, WorkerStep, ReturnClaim, Retarget, CheckMode, Restamp, Reread, RouteChanged,
                  Collect, Abandon, RecordTask, Finish, ProcessStep, Interrupt, Restart, Crash
    <2>2. ASSUME NEW o \in Ops, Command(o) \/ Elapse(o) PROVE Same
      BY <2>2 DEF Elapse, Command, Retry, Cancel, ReadEvidence, CommitEvidence, Supersede, dispatchUnchanged
    <2>3. CASE Recover \/ RefreshRoutes \/ (\E k \in Controllers : ReadEpoch(k) \/ SetMode(k)) \/ UNCHANGED vars
      BY <2>3 DEF Recover, RefreshRoutes, ReadEpoch, SetMode, dispatchUnchanged, vars
    <2> QED BY <2>1, <2>2, <2>3 DEF Next
  <1> QED BY <1>1, <1>2, <1>3, <1>4, <1>5

\* What a reader of modes takes away stays true: who writes a mode raises the epoch it read.
LEMMA HonestStays ==
    ASSUME SafeInv, FenceInv, Apart, [Next]_vars, NEW stamp \in Stamps, NEW since \in [Scopes -> Nat],
           Honest(stamp, since)
    PROVE  Honest(stamp, since)'
  <1>0. control \in [Scopes -> [mode : Modes, epoch : Nat]] /\ pauses \in [Scopes -> Nat]
    BY DEF SafeInv, TypeOK
  <1>1. CASE UNCHANGED <<control, pauses>> BY <1>1 DEF Honest
  <1>2. ASSUME NEW k \in Controllers, NEW m \in Modes, setter[k].scope # "none",
               control' = [control EXCEPT ![setter[k].scope] = [mode |-> m, epoch |-> setter[k].epoch + 1]],
               pauses' = pauses \/ pauses' = [pauses EXCEPT ![setter[k].scope] = @ + 1]
        PROVE  Honest(stamp, since)'
    <2>1. PICK s : s = setter[k].scope OBVIOUS
    <2>2. s \in Scopes /\ setter[k].epoch = control[s].epoch
      BY <1>2, <2>1 DEF SafeInv, TypeOK, Stamps, FenceInv
    <2>3. PICK e \in Nat : e = control[s].epoch BY <1>0, <2>2
    <2>4. control' = [control EXCEPT ![s] = [mode |-> m, epoch |-> e + 1]] BY <1>2, <2>1, <2>2, <2>3
    <2>5. /\ control'[s].epoch = e + 1 /\ \A r \in Scopes : r # s => control'[r] = control[r]
          /\ \A r \in Scopes : pauses[r] <= pauses'[r] /\ (r # s => pauses'[r] = pauses[r]) /\ pauses'[r] \in Nat
      BY <1>0, <1>2, <2>1, <2>2, <2>4
    <2>6. \A r \in Scopes : since[r] <= pauses'[r] BY <1>0, <2>5 DEF Honest
    <2>7. stamp.scope \in Scopes =>
             /\ stamp.epoch <= control'[stamp.scope].epoch
             /\ stamp.epoch = control'[stamp.scope].epoch => since[stamp.scope] = pauses'[stamp.scope]
      BY <1>0, <2>3, <2>5 DEF Honest, Stamps
    <2> QED BY <2>6, <2>7 DEF Honest
  <1> QED
    BY <1>1, <1>2, ControlEffect DEF SafeInv

LEMMA FenceStep == SafeInv /\ SafeInv' /\ FenceInv /\ Apart /\ Apart' /\ [Next]_vars => FenceInv'
  <1> SUFFICES ASSUME SafeInv, SafeInv', FenceInv, Apart, Apart', [Next]_vars PROVE FenceInv'
    OBVIOUS
  <1>0. /\ control \in [Scopes -> [mode : Modes, epoch : Nat]] /\ pauses \in [Scopes -> Nat]
        /\ setter \in [Controllers -> Stamps]
    BY DEF SafeInv, TypeOK
  <1>1. ASSUME NEW s \in Scopes, control'[s].epoch = 0 PROVE pauses'[s] = 0
    <2>1. CASE UNCHANGED <<control, pauses>> BY <1>1, <2>1 DEF FenceInv
    <2>2. ASSUME NEW k \in Controllers, NEW m \in Modes, setter[k].scope # "none",
                 control' = [control EXCEPT ![setter[k].scope] = [mode |-> m, epoch |-> setter[k].epoch + 1]],
                 pauses' = pauses \/ pauses' = [pauses EXCEPT ![setter[k].scope] = @ + 1]
          PROVE  pauses'[s] = 0
      <3>1. setter[k].epoch \in Nat /\ setter[k].scope \in Scopes BY <1>0, <2>2 DEF Stamps
      <3>2. s # setter[k].scope BY <1>0, <1>1, <2>2, <3>1
      <3> QED BY <1>0, <1>1, <2>2, <3>1, <3>2 DEF FenceInv
    <2> QED BY <2>1, <2>2, ControlEffect DEF SafeInv
  <1>2. ASSUME NEW k \in Controllers, setter'[k].scope # "none"
        PROVE  setter'[k].epoch = control'[setter'[k].scope].epoch
    <2>1. CASE UNCHANGED <<control, setter>> BY <1>2, <2>1 DEF FenceInv
    <2>2. ASSUME UNCHANGED control, NEW j \in Controllers,
                 \A i \in Controllers : i # j => setter'[i] = setter[i],
                 setter'[j].epoch = control[setter'[j].scope].epoch
          PROVE  setter'[k].epoch = control'[setter'[k].scope].epoch
      BY <1>2, <2>2 DEF FenceInv
    <2>3. ASSUME NEW j \in Controllers, NEW m \in Modes, setter[j].scope # "none", setter'[j].scope = "none",
                 \A i \in Controllers : i # j => setter'[i] = setter[i],
                 control' = [control EXCEPT ![setter[j].scope] = [mode |-> m, epoch |-> setter[j].epoch + 1]]
          PROVE  setter'[k].epoch = control'[setter'[k].scope].epoch
      <3>1. k # j /\ setter'[k] = setter[k] BY <1>2, <2>3
      <3>2. setter[k].scope # setter[j].scope BY <1>2, <2>3, <3>1 DEF Apart
      <3>3. setter[k].scope \in Scopes BY <1>0, <1>2, <3>1 DEF Stamps
      <3> QED BY <1>0, <1>2, <2>3, <3>1, <3>2, <3>3 DEF FenceInv
    <2> QED BY <2>1, <2>2, <2>3, ControlEffect DEF SafeInv
  <1>3. ASSUME NEW v \in Workers, Working(v)', (Kind[worker[v].op] \in Business)'
        PROVE  (/\ worker[v].pc \in {"restamp", "reread", "ready"} => Honest(worker[v].mode, worker[v].since)
                /\ worker[v].pc = "reread" => ops[worker[v].op].stamp = worker[v].mode
                /\ worker[v].pc = "ready" => worker[v].row.stamp = worker[v].mode)'
    <2>0. Working(v) => /\ worker[v].op \in Ops /\ worker[v].mode \in Stamps /\ worker[v].since \in [Scopes -> Nat]
      BY Busy DEF SafeInv, Working
    <2>1. PICK mode, since, pc : mode = worker[v].mode /\ since = worker[v].since /\ pc = worker'[v].pc OBVIOUS
    <2>2. ASSUME Working(v), Kind[worker[v].op] \in Business, worker[v].pc \in {"restamp", "reread", "ready"},
                 worker'[v].mode = worker[v].mode, worker'[v].since = worker[v].since
          PROVE  Honest(worker[v].mode, worker[v].since)'
      <3>1. mode \in Stamps /\ since \in [Scopes -> Nat] /\ Honest(mode, since)
        BY <2>0, <2>1, <2>2 DEF FenceInv
      <3>2. Honest(mode, since)' BY <3>1, HonestStays
      <3> QED BY <2>1, <2>2, <3>2
    <2>3. CASE worker'[v] = worker[v]
      <3>1. Working(v) /\ Kind[worker[v].op] \in Business BY <1>3, <2>3 DEF Working
      <3>3. ASSUME worker[v].pc = "reread" PROVE ops'[worker[v].op].stamp = worker[v].mode
        <4>1. ASSUME NEW w \in Workers, worker[w].pc = "restamp", worker[w].op = worker[v].op PROVE FALSE
          BY <3>1, <3>3, <4>1 DEF SafeInv, OneHolder, Working, PCs
        <4>2. ops'[worker[v].op].stamp = ops[worker[v].op].stamp
          BY <2>0, <3>1, <4>1, RowEffect DEF SafeInv
        <4> QED BY <3>1, <3>3, <4>2 DEF FenceInv
      <3> QED BY <2>2, <2>3, <3>1, <3>3 DEF FenceInv
    <2>4. CASE worker'[v] # worker[v] /\ pc \in {"restamp", "reread", "ready"}
      <3>1. worker'[v].pc \in PCs BY <1>3 DEF Working
      <3>2. Working(v) /\ Kind[worker[v].op] \in Business /\ worker'[v].op = worker[v].op
        BY <1>3, <2>1, <2>4, <3>1, WorkerEffect DEF SafeInv, Working
      <3>3. CASE worker[v].pc = "reread" /\ worker'[v].pc = "ready" /\ worker'[v].row = ops[worker[v].op]
                 /\ worker'[v].mode = worker[v].mode /\ worker'[v].since = worker[v].since
        BY <2>2, <3>2, <3>3 DEF FenceInv
      <3>4. CASE /\ worker'[v].row = worker[v].row /\ worker'[v].mode = ModeStamp /\ worker'[v].since = pauses
                 /\ worker'[v].pc = "ready" => worker[v].row.stamp = ModeStamp
                 /\ worker'[v].pc \in {"restamp", "ready"}
        <4>1. PICK m, p : m = ModeStamp /\ p = pauses OBVIOUS
        <4>2. m \in Stamps /\ p \in [Scopes -> Nat] BY <4>1, ModeStampType DEF SafeInv, TypeOK
        <4>3. m.scope \in Scopes => m.epoch = control[m.scope].epoch
          BY <1>0, <4>1 DEF ModeStamp, NoStamp, Scopes
        <4>4. Honest(m, p) BY <1>0, <4>1, <4>2, <4>3 DEF Honest
        <4>5. Honest(m, p)' BY <4>2, <4>4, HonestStays
        <4> QED BY <3>4, <4>1, <4>5
      <3>5. CASE /\ worker[v].pc = "restamp" /\ worker'[v].pc = "reread" /\ ops'[worker[v].op].stamp = worker[v].mode
                 /\ worker'[v].mode = worker[v].mode /\ worker'[v].since = worker[v].since
        BY <2>2, <3>2, <3>5
      <3> QED BY <2>1, <2>4, <3>1, <3>2, <3>3, <3>4, <3>5, WorkerEffect DEF SafeInv
    <2> QED BY <2>1, <2>3, <2>4
  <1>4. ASSUME NEW c \in Claims, Kind[c[1]] \in Business, child'[c] # "none"
        PROVE  (manifest[c] \in Manifests /\ Honest(manifest[c].row.stamp, manifest[c].since))'
    <2>1. ASSUME NEW stamp \in Stamps, NEW since \in [Scopes -> Nat], Honest(stamp, since),
                 manifest'[c].row.stamp = stamp, manifest'[c].since = since
          PROVE  Honest(manifest[c].row.stamp, manifest[c].since)'
      <3>1. Honest(stamp, since)' BY <2>1, HonestStays
      <3> QED BY <2>1, <3>1
    <2>2. CASE child[c] # "none" /\ manifest'[c] = manifest[c]
      <3>1. manifest[c] \in Manifests /\ Honest(manifest[c].row.stamp, manifest[c].since)
        BY <1>4, <2>2 DEF FenceInv
      <3>2. manifest[c].row.stamp \in Stamps /\ manifest[c].since \in [Scopes -> Nat]
        BY <3>1 DEF Manifests, Rows
      <3> QED BY <2>1, <2>2, <3>1, <3>2
    <2>3. ASSUME NEW w \in Workers, worker[w].pc = "ready", c[1] = worker[w].op,
                 manifest'[c] = [row |-> worker[w].row, since |-> worker[w].since]
          PROVE  (manifest[c] \in Manifests /\ Honest(manifest[c].row.stamp, manifest[c].since))'
      <3>1. /\ Working(w) /\ worker[w].row.stamp = worker[w].mode /\ Honest(worker[w].mode, worker[w].since)
            /\ worker[w].mode \in Stamps /\ worker[w].since \in [Scopes -> Nat] /\ worker[w].row \in Rows
        BY <1>4, <2>3, Busy DEF FenceInv, SafeInv, PCs, Working
      <3>2. manifest'[c].row.stamp = worker[w].mode /\ manifest'[c].since = worker[w].since
        BY <2>3, <3>1
      <3>3. manifest'[c] \in Manifests BY <2>3, <3>1 DEF Manifests
      <3> QED BY <2>1, <3>1, <3>2, <3>3
    <2> QED BY <1>4, <2>2, <2>3, ManifestEffect
  <1> QED BY <1>1, <1>2, <1>3, <1>4 DEF FenceInv

LEMMA FenceInit == Init => FenceInv
  <1> SUFFICES ASSUME Init PROVE FenceInv
    OBVIOUS
  <1>1. \A s \in Scopes : control[s].epoch = 0 /\ pauses[s] = 0 BY DEF Init, NoPauses
  <1>2. \A k \in Controllers : setter[k].scope = "none" BY DEF Init
  <1>3. \A w \in Workers : ~Working(w) BY DEF Init, Working, Idle, PCs
  <1>4. \A c \in Claims : child[c] = "none" BY DEF Init
  <1> QED BY <1>1, <1>2, <1>3, <1>4 DEF FenceInv

\* What the second admission compares is enough: an open mode whose scope and epoch are those
\* of the stamp has been in force since the worker read it.
LEMMA FenceHolds ==
    ASSUME SafeInv, FenceInv, NEW c \in Claims, Fence(c), child[c] # "none", Kind[c[1]] \in Business,
           NEW s \in (IF manifest[c].row.stamp.scope = "project" THEN {"project"} ELSE Scopes)
    PROVE  manifest[c].since[s] = pauses[s]
  <1>0. /\ control \in [Scopes -> [mode : Modes, epoch : Nat]] /\ pauses \in [Scopes -> Nat]
        /\ c[1] \in Ops /\ ops[c[1]] \in Rows
    BY DEF SafeInv, TypeOK, Claims
  <1>1. /\ manifest[c].row \in Rows /\ manifest[c].since \in [Scopes -> Nat]
        /\ Honest(manifest[c].row.stamp, manifest[c].since)
    BY DEF FenceInv, Manifests
  <1>2. PICK stamp : stamp = manifest[c].row.stamp OBVIOUS
  <1>3. ~Closed /\ ModeStamp = stamp
    <2>1. ~Closed /\ ModeStamp = ops[c[1]].stamp BY DEF Fence
    <2>2. [ops[c[1]] EXCEPT !.failures = manifest[c].row.failures].stamp = stamp
      BY <1>2 DEF Fence, VerifyCurrent
    <2> QED BY <1>0, <2>1, <2>2 DEF Rows
  <1>4. s \in Scopes BY <1>2 DEF Scopes
  <1>5. \A r \in Scopes : stamp.scope = r => manifest[c].since[r] = pauses[r]
    <2>1. \A r \in Scopes : stamp.scope = r => stamp.epoch = control[r].epoch
      BY <1>3 DEF ModeStamp, Scopes, NoStamp
    <2> QED BY <1>1, <1>2, <2>1 DEF Honest
  <1>6. CASE stamp.scope = s BY <1>4, <1>5, <1>6
  <1>7. CASE stamp.scope # s
    <2>1. s \notin InMode("RUNNING")
      <3>1. stamp.scope # "project" BY <1>2, <1>7
      <3>2. ModeScope = stamp.scope BY <1>3 DEF ModeStamp, NoStamp
      <3> QED BY <1>3, <1>4, <1>7, <3>1, <3>2 DEF ModeScope, Scopes
    <2>2. s \notin InMode("PAUSED") /\ s \notin InMode("DRAINING") BY <1>3 DEF Closed, Restrictive
    <2>3. control[s].epoch = 0 BY <1>0, <1>4, <2>1, <2>2 DEF InMode, Modes
    <2>4. pauses[s] = 0 /\ manifest[c].since[s] <= pauses[s] BY <1>1, <1>4, <2>3 DEF FenceInv, Honest
    <2> QED BY <1>0, <1>1, <1>4, <2>4
  <1> QED BY <1>6, <1>7

\* PauseFence for every number of workers, operations, commands and epochs, as long as no two
\* control commands overlap in one scope: otherwise they may write one epoch twice, and a
\* stamp outlives the pause between them.  coordinator.py:1676, 5417.
THEOREM PausesHold == Spec /\ []Apart => PauseFence
  <1>1. SafeInv /\ FenceInv /\ [Next]_vars =>
          [\A c \in Claims :
             child[c] = "intent" /\ child'[c] = "armed" /\ Kind[c[1]] \in Business
               => \A s \in IF manifest[c].row.stamp.scope = "project" THEN {"project"} ELSE Scopes :
                     manifest[c].since[s] = pauses[s]]_vars
    <2> SUFFICES ASSUME SafeInv, FenceInv, [Next]_vars, NEW c \in Claims,
                        child[c] = "intent", child'[c] = "armed", Kind[c[1]] \in Business
                 PROVE  \A s \in IF manifest[c].row.stamp.scope = "project" THEN {"project"} ELSE Scopes :
                           manifest[c].since[s] = pauses[s]
      OBVIOUS
    <2>0. child \in [Claims -> Phases] BY DEF SafeInv, TypeOK
    <2>1. ASSUME NEW w \in Workers, Prepare(w) \/ Spawn(w) PROVE FALSE
      BY <2>0, <2>1 DEF Prepare, Spawn
    <2>2. ASSUME NEW d \in Claims, ChildStep(d) PROVE d = c /\ Fence(c)
      BY <2>0, <2>2 DEF ChildStep, Decline, RecordIntent, Arm, Click, Observe, ChildDies, End
    <2>3. ~UNCHANGED child OBVIOUS
    <2>4. \/ UNCHANGED child
          \/ \E w \in Workers : Prepare(w) \/ Spawn(w)
          \/ \E d \in Claims : ChildStep(d)
      BY DEF Next, Claim, WorkerStep, ReturnClaim, Retarget, CheckMode, Restamp, Reread, RouteChanged,
          Collect, Abandon, RecordTask, Finish, ProcessStep, Interrupt, Restart, Crash,
          Elapse, ReadEpoch, SetMode, vars, Command, Retry, Cancel, ReadEvidence,
          CommitEvidence, Supersede, Recover, RefreshRoutes, dispatchUnchanged
    <2>5. Fence(c) BY <2>1, <2>2, <2>3, <2>4
    <2> QED BY <2>5, FenceHolds
  <1>2. Spec /\ []Apart => []FenceInv
    BY FenceInit, FenceStep, Safe, PTL DEF Spec
  <1> QED BY <1>1, <1>2, Safe, PTL DEF Spec, PauseFence
=============================================================================
