------------------------------- MODULE Outbox -------------------------------
(***************************************************************************)
(* The outbox of src/coordinator.py: how the results of one task, plain    *)
(* callbacks and management notices reach the conversation of the owner.   *)
(*                                                                         *)
(* A notice is an operations row of kind callback or management, named by  *)
(* its request key, the pair of what it tells and the conversation it was  *)
(* made for.  Two side tables mirror it: task_results.callback_status for  *)
(* a result, management_deliveries for a broadcast event.  Conversations   *)
(* retire, and a rotation commits a successor, at any moment.              *)
(*                                                                         *)
(* Everything one SQLite transaction does is one action, and a command     *)
(* that reads before its transaction is two.  All conversations belong to  *)
(* one project and one workgroup and have a verified account of their own: *)
(* the exclusion of accounts, the order of claims and the fences of the    *)
(* child process are those of Dispatch.  Time is abstracted as there.      *)
(***************************************************************************)
EXTENDS Naturals, FiniteSets

CONSTANTS
    Sessions,       \* controller conversations
    Versions,       \* result versions of the task
    Callbacks,      \* event ids of plain callbacks of the task
    Events,         \* ids of management events
    Workers,        \* concurrent work_one calls
    Budgets,        \* bound: what one behaviour is about, its commands, and the claims of one notice
    Contracts,      \* the owners the task may have been given
    NoSession,      \* NULL
    LocalOwner      \* a local Codex owner, which polls for its results

Refs == Sessions \cup {NoSession, LocalOwner}

ASSUME RefAssumption == /\ NoSession \notin Sessions
                        /\ LocalOwner \notin Sessions \cup {NoSession}
                        /\ Contracts \subseteq Refs
                        /\ IsFiniteSet(Sessions)
ASSUME NoticeAssumption == /\ NoSession \notin Versions \cup Callbacks \cup Events
                           /\ Versions \cap Callbacks = {}
                           /\ Events \cap (Versions \cup Callbacks) = {}
ASSUME OutboxBounds == Budgets \subseteq [about : SUBSET (Versions \cup Callbacks \cup Events),
                                         commands : Nat, claims : Nat]

VARIABLES
    budget,     \* the bounds of this behaviour
    chat,       \* registry status of every conversation
    succ,       \* session_successors
    contract,   \* replyToSessionRef or controllerSessionRef of the task
    task,       \* the task in the runtime document
    results,    \* task_results
    ops,        \* the notices of the operations table
    deliveries, \* management_deliveries, by event and target
    calls,      \* commands between their reads and their transaction
    issued,     \* how many commands have read: the clock of recorded_at
    canceller,  \* the `cancel` call between its read and its transaction
    worker,     \* program counter and row copy of every worker
    posted,     \* messages in the conversations: notice and conversation
    missed      \* history: results whose mirror a late cancel rewrote

routeVars == <<budget, chat, succ, contract>>
userVars  == <<calls, issued, canceller>>
vars == <<routeVars, task, results, ops, deliveries, userVars, worker, posted, missed>>

-----------------------------------------------------------------------------
Notices  == Versions \cup Callbacks \cup Events
Keys     == Notices \X Refs
NoKey    == <<NoSession, NoSession>>
Statuses == {"QUEUED", "DISPATCHING", "WAITING_ROUTE", "SENT", "DELIVERY_UNKNOWN",
             "FAILED_PRE_SEND", "CANCELLED", "RECONCILED_SUPERSEDED"}
Verdicts == {"ACCEPTED", "REJECTED"}    \* BLOCKED does what REJECTED does

Rows == [status : Statuses, session : Refs, attempts : Nat]
Results == [op     : Keys \cup {NoKey},                  \* callback_operation_id
            mirror : Statuses \cup {"DELIVERED", "WAITING_LOCAL", "RECEIVED_LOCAL"},
            owner  : Refs,
            stamp  : Nat,                       \* recorded_at
            ack    : Verdicts \cup {"none"}]
Deliveries == [op : Keys, status : Statuses \cup {"DELIVERED", "SUPERSEDED", "ACKNOWLEDGED"}]
Calls == [notice : Notices, stamp : Nat, owner : Refs, target : Refs, active : BOOLEAN]
Places == {"idle", "attached", "routed", "claimed", "redirecting", "ready",
           "sending", "finishing"}
Copies == [pc : Places, key : Keys \cup {NoKey}, session : Refs, attempts : Nat,
           heir : Refs, out : Statuses]
Idle == [pc |-> "idle", key |-> NoKey, session |-> NoSession, attempts |-> 0,
         heir |-> NoSession, out |-> "QUEUED"]

NoCancel == [key |-> NoKey, seen |-> FALSE]

Active(r) == r \in Sessions /\ chat[r] = "active"

\* The links resolve_successor follows from r in the table heir, by their number.
Hop(heir, r) == IF r \in Sessions /\ heir[r] # NoSession THEN heir[r] ELSE r
Chain(heir, r) ==
    LET chain[n \in 0..Cardinality(Sessions)] == IF n = 0 THEN r ELSE Hop(heir, chain[n - 1])
    IN  chain

\* resolve_successor: the end of the chain of committed successors.
Resolve(r) == Chain(succ, r)[Cardinality(Sessions)]

\* r and every committed successor of r.
Heirs(r) == {Chain(succ, r)[n] : n \in 0..Cardinality(Sessions)}

\* The one active conversation of the root role, or nobody.
RootOwner == IF \E s \in Sessions : \A t \in Sessions : Active(t) <=> t = s
             THEN CHOOSE s \in Sessions : Active(s) ELSE NoSession

\* result_owner: the contract of the task, else the root; never another one.
OwnerRef == IF contract # NoSession THEN contract ELSE RootOwner

\* current_session_ref of logical_sessions after a rotation.
Lead == {t \in Sessions : succ[t] = NoSession /\ \E s \in Sessions : succ[s] = t}

\* current_controller_ref.
Controller == IF \E t \in Lead : Active(t) THEN CHOOSE t \in Lead : Active(t) ELSE RootOwner

Init ==
    /\ budget \in Budgets
    /\ chat \in [Sessions -> {"absent", "active"}]
    /\ Cardinality({s \in Sessions : Active(s)}) <= 1
    /\ succ = [s \in Sessions |-> NoSession]
    /\ contract \in {r \in Contracts : r \in Sessions => Active(r)}
    /\ task = [status |-> "RUNNING", version |-> NoSession]
    /\ results = <<>> /\ ops = <<>> /\ deliveries = <<>>
    /\ calls = {} /\ issued = 0
    /\ canceller = NoCancel
    /\ worker = [w \in Workers |-> Idle]
    /\ posted = {} /\ missed = {}

-----------------------------------------------------------------------------
(* Conversations.                                                          *)

\* A conversation of the role is registered.
Register(s) ==
    /\ chat[s] = "absent"
    /\ chat' = [chat EXCEPT ![s] = "active"]
    /\ UNCHANGED <<budget, succ, contract, task, results, ops, deliveries, userVars, worker, posted, missed>>

\* `retire`: no successor is named.  To routing `archive` and `delete` are the
\* same; only reconcile tells them from it.
Retire(s) ==
    /\ chat[s] = "active"
    /\ chat' = [chat EXCEPT ![s] = "retired"]
    /\ UNCHANGED <<budget, succ, contract, task, results, ops, deliveries, userVars, worker, posted, missed>>

\* rotation_ack: t replaces s, the current conversation of the role.
Commit(s, t) ==
    /\ chat[s] # "absent" /\ chat[t] = "absent"
    /\ succ[s] = NoSession /\ Lead \subseteq {s}
    /\ chat' = [chat EXCEPT ![s] = "retired", ![t] = "active"]
    /\ succ' = [succ EXCEPT ![s] = t]
    /\ UNCHANGED <<budget, contract, task, results, ops, deliveries, userVars, worker, posted, missed>>

-----------------------------------------------------------------------------
(* result, callback and broadcast: read, then one transaction.             *)

Read(n, owner, target) ==
    /\ n \in budget.about /\ issued < budget.commands
    /\ issued' = issued + 1
    /\ calls' = calls \cup {[notice |-> n, stamp |-> issued + 1, owner |-> owner,
                             target |-> target, active |-> Active(target)]}
    /\ UNCHANGED <<routeVars, task, results, ops, deliveries, canceller, worker, posted, missed>>

ReadResult(v) == v \notin DOMAIN results /\ Read(v, OwnerRef, Resolve(OwnerRef))

\* A plain callback is addressed to the contract itself, not to its successor.
ReadCallback(c) ==
    Read(c, IF contract # NoSession THEN contract ELSE RootOwner, Resolve(OwnerRef))

\* management_targets: a project without a controller gets nothing.
ReadTargets(e) == Controller # NoSession /\ Read(e, Controller, Controller)

\* INSERT: the rows of the table, and new ones under other keys.
Inserted(table, new) ==
    [k \in DOMAIN table \cup DOMAIN new |-> IF k \in DOMAIN table THEN table[k] ELSE new[k]]

Row(status, session) == [status |-> status, session |-> session, attempts |-> 0]

\* result: its row, its callback when the owner is active, and the task.
CommitResult(c) ==
    /\ c \in calls /\ c.notice \in Versions
    /\ calls' = calls \ {c}
    /\ LET v   == c.notice
           key == IF c.active THEN <<v, c.target>> ELSE NoKey
           row == [op     |-> key,
                   mirror |-> IF contract = LocalOwner THEN "WAITING_LOCAL"
                              ELSE IF c.active THEN "QUEUED" ELSE "WAITING_ROUTE",
                   owner  |-> c.owner, stamp |-> c.stamp, ack |-> "none"]
       IN  IF v \in DOMAIN results
           THEN UNCHANGED <<task, results, ops>>
           ELSE /\ results' = Inserted(results, [n \in {v} |-> row])
                /\ ops' = IF c.active THEN Inserted(ops, [k \in {key} |-> Row("QUEUED", c.target)]) ELSE ops
                /\ task' = [status |-> "RESULT_RECORDED", version |-> v]
    /\ UNCHANGED <<routeVars, deliveries, issued, canceller, worker, posted, missed>>

CommitCallback(c) ==
    /\ c \in calls /\ c.notice \in Callbacks
    /\ calls' = calls \ {c}
    /\ LET key == <<c.notice, c.target>>
       IN  ops' = IF key \in DOMAIN ops THEN ops
                  ELSE Inserted(ops, [k \in {key} |->
                                      Row(IF c.active THEN "QUEUED" ELSE "WAITING_ROUTE", c.owner)])
    /\ UNCHANGED <<routeVars, task, results, deliveries, issued, canceller, worker, posted, missed>>

\* broadcast_management and enqueue_management, which replaces a delivery.
CommitBroadcast(c) ==
    /\ c \in calls /\ c.notice \in Events
    /\ calls' = calls \ {c}
    /\ LET key == <<c.notice, c.target>>
       IN  IF key \in DOMAIN ops
           THEN UNCHANGED <<ops, deliveries>>
           ELSE /\ ops' = Inserted(ops, [k \in {key} |-> Row("QUEUED", c.target)])
                /\ deliveries' = Inserted([d \in {key} |-> [op |-> key, status |-> "QUEUED"]], deliveries)
    /\ UNCHANGED <<routeVars, task, results, issued, canceller, worker, posted, missed>>

-----------------------------------------------------------------------------
(* work_one: attach, refresh, claim, route, send, finish.                  *)

Goto(w, pc) == worker' = [worker EXCEPT ![w].pc = pc]
Rest(w)     == worker' = [worker EXCEPT ![w] = Idle]

Requeued(table, S, heir(_)) ==
    [k \in DOMAIN table |-> IF k \in S
                            THEN [table[k] EXCEPT !.status = "QUEUED", !.session = heir(k)]
                            ELSE table[k]]

\* The owner a waiting result or plain callback is attached to.
ResultHeir(v) == Resolve(IF results[v].owner # NoSession THEN results[v].owner ELSE OwnerRef)
CallbackHeir(k) ==
    Resolve(IF contract = NoSession /\ ops[k].session # NoSession THEN ops[k].session ELSE OwnerRef)

Waiting(k) == ops[k].status = "WAITING_ROUTE"

\* Mutant: a waiting result is attached whether or not it has its callback.
UnattachedAny == {v \in DOMAIN results : results[v].mirror = "WAITING_ROUTE"}

Unattached == {v \in DOMAIN results : results[v].op = NoKey /\ results[v].mirror = "WAITING_ROUTE"}

\* materialize_pending_callbacks, after the idle test of work_one.
Materialize(w) ==
    /\ worker[w].pc = "idle"
    /\ Unattached # {} \/ \E k \in DOMAIN ops : ops[k].status \in {"QUEUED", "DISPATCHING", "WAITING_ROUTE"}
    /\ LET attach == {v \in Unattached : Active(ResultHeir(v))}
           wake   == {k \in DOMAIN ops : /\ k[1] \notin Events /\ Waiting(k)
                                         /\ Active(CallbackHeir(k))}
           made   == {<<v, ResultHeir(v)>> : v \in attach}
       IN  /\ ops' = Inserted(Requeued(ops, wake, CallbackHeir),
                              [k \in made |-> Row("QUEUED", k[2])])
           /\ results' = [v \in DOMAIN results |->
                            IF v \in attach
                            THEN [results[v] EXCEPT !.op = <<v, ResultHeir(v)>>, !.mirror = "QUEUED",
                                                    !.owner = IF @ # NoSession THEN @ ELSE ResultHeir(v)]
                            ELSE results[v]]
    /\ Goto(w, "attached")
    /\ UNCHANGED <<routeVars, task, deliveries, userVars, posted, missed>>

\* UPDATE management_deliveries SET target_ref ... for a set of moves, each a
\* record of an event, the old target and the new one.
Moves(S, heir(_)) ==
    {m \in [event : Events, from : Sessions, to : Sessions] :
        /\ <<m.event, m.from>> \in DOMAIN deliveries
        /\ \E k \in S : k[1] = m.event /\ ops[k].session = m.from /\ heir(k) = m.to}

\* PRIMARY KEY (event_id, target_ref): no two deliveries of an event meet.
Clash(moves) ==
    \E m \in moves : \/ m.from # m.to /\ <<m.event, m.to>> \in DOMAIN deliveries
                     \/ \E n \in moves \ {m} : n.event = m.event /\ n.to = m.to

Moved(moves) ==
    LET gone == {<<m.event, m.from>> : m \in moves}
        came == {<<m.event, m.to>> : m \in moves}
        old(d) == CHOOSE m \in moves : <<m.event, m.to>> = d
    IN  [d \in (DOMAIN deliveries \ gone) \cup came |->
            IF d \in came THEN [deliveries[<<old(d).event, old(d).from>>] EXCEPT !.status = "QUEUED"]
            ELSE deliveries[d]]

SessionHeir(k) == Resolve(ops[k].session)

\* refresh_waiting_routes; a clash raises and ends this work_one.
Refresh(w) ==
    /\ worker[w].pc = "attached"
    /\ LET wake  == {k \in DOMAIN ops : Waiting(k) /\ Active(SessionHeir(k))}
           moves == Moves(wake, SessionHeir)
       IN  IF Clash(moves)
           THEN Rest(w) /\ UNCHANGED <<results, ops, deliveries>>
           ELSE /\ ops' = Requeued(ops, wake, SessionHeir)
                /\ deliveries' = Moved(moves)
                /\ results' = [v \in DOMAIN results |->
                                 IF results[v].op \in wake
                                 THEN [results[v] EXCEPT !.mirror = "QUEUED"] ELSE results[v]]
                /\ Goto(w, "routed")
    /\ UNCHANGED <<routeVars, task, userVars, posted, missed>>

Claim(w, k) ==
    /\ worker[w].pc = "routed"
    /\ ops[k].status = "QUEUED" /\ ops[k].attempts < budget.claims
    /\ ops' = [ops EXCEPT ![k].status = "DISPATCHING", ![k].attempts = @ + 1]
    /\ worker' = [worker EXCEPT ![w] = [Idle EXCEPT !.pc = "claimed", !.key = k,
                                                    !.session = ops[k].session,
                                                    !.attempts = ops[k].attempts + 1]]
    /\ UNCHANGED <<routeVars, task, results, deliveries, userVars, posted, missed>>

\* Nothing is due.
ClaimNothing(w) ==
    /\ worker[w].pc = "routed"
    /\ Rest(w)
    /\ UNCHANGED <<routeVars, task, results, ops, deliveries, userVars, posted, missed>>

\* claim or recover: an overdue claim becomes uncertain, its mirror stays.
Expire(k) ==
    /\ ops[k].status = "DISPATCHING"
    /\ ops' = [ops EXCEPT ![k].status = "DELIVERY_UNKNOWN"]
    /\ UNCHANGED <<routeVars, task, results, deliveries, userVars, worker, posted, missed>>

\* The fence of every write of a worker: its claim is still the current one.
Holds(w) == /\ ops[worker[w].key].status = "DISPATCHING"
            /\ ops[worker[w].key].attempts = worker[w].attempts

Settle(w, out) == worker' = [worker EXCEPT ![w].pc = "finishing", ![w].out = out]

Heir(w) == Resolve(worker[w].session)

\* retarget_notification, before its transaction.
Route(w) ==
    /\ worker[w].pc = "claimed"
    /\ \/ /\ Active(worker[w].session) \/ worker[w].session = NoSession
          /\ Goto(w, "ready")
       \/ /\ ~Active(worker[w].session) /\ worker[w].session # NoSession
          /\ Active(Heir(w))
          /\ worker' = [worker EXCEPT ![w].pc = "redirecting", ![w].heir = Heir(w)]
       \/ /\ ~Active(worker[w].session) /\ worker[w].session # NoSession
          /\ ~Active(Heir(w))
          /\ Settle(w, "WAITING_ROUTE")
    /\ UNCHANGED <<routeVars, task, results, ops, deliveries, userVars, posted, missed>>

\* Its transaction; a lost claim or a clash raises and leaves the claim.
Redirect(w) ==
    /\ worker[w].pc = "redirecting"
    /\ LET k     == worker[w].key
           heir  == worker[w].heir
           moves == {m \in [event : {k[1]} \cap Events, from : {worker[w].session}, to : {heir}] :
                       <<m.event, m.from>> \in DOMAIN deliveries}
       IN  IF ~Holds(w) \/ Clash(moves)
           THEN Rest(w) /\ UNCHANGED <<ops, deliveries>>
           ELSE /\ ops' = [ops EXCEPT ![k].session = heir]
                /\ deliveries' = Moved(moves)
                /\ worker' = [worker EXCEPT ![w].pc = "ready", ![w].session = heir,
                                                  ![w].heir = NoSession]
    /\ UNCHANGED <<routeVars, task, results, userVars, posted, missed>>

\* The claim is compared once more; a changed one is left to whoever has it.
Spawn(w) ==
    /\ worker[w].pc = "ready"
    /\ IF Holds(w) THEN Goto(w, "sending") ELSE Rest(w)
    /\ UNCHANGED <<routeVars, task, results, ops, deliveries, userVars, posted, missed>>

\* The child sends, and is believed or not.
Deliver(w) ==
    /\ worker[w].pc = "sending"
    /\ posted' = posted \cup {<<worker[w].key, worker[w].session>>}
    /\ \E out \in {"SENT", "DELIVERY_UNKNOWN"} : Settle(w, out)
    /\ UNCHANGED <<routeVars, task, results, ops, deliveries, userVars, missed>>

\* The child does not send: deferred, refused before sending, or unreadable.
Decline(w) ==
    /\ worker[w].pc = "sending"
    /\ \E out \in {"QUEUED", "FAILED_PRE_SEND", "DELIVERY_UNKNOWN"} : Settle(w, out)
    /\ UNCHANGED <<routeVars, task, results, ops, deliveries, userVars, posted, missed>>

Mirror(status) == IF status = "SENT" THEN "DELIVERED" ELSE status

\* UPDATE management_deliveries ... WHERE event_id=? AND target_ref=?
Marked(d, k, status) ==
    IF d \in DOMAIN deliveries
    THEN [deliveries EXCEPT ![d] = [op |-> k, status |-> status]] ELSE deliveries

\* finish, with the mirror of the kind.
Finish(w) ==
    /\ worker[w].pc = "finishing"
    /\ LET k == worker[w].key
           d == <<k[1], worker[w].session>>
           out == worker[w].out
       IN  IF Holds(w)
           THEN /\ ops' = [ops EXCEPT ![k].status = out]
                /\ results' = [v \in DOMAIN results |->
                                 IF v = k[1] THEN [results[v] EXCEPT !.mirror = Mirror(out)] ELSE results[v]]
                /\ deliveries' = Marked(d, k, Mirror(out))
           ELSE UNCHANGED <<ops, results, deliveries>>
    /\ Rest(w)
    /\ UNCHANGED <<routeVars, task, userVars, posted, missed>>

\* The worker dies, or its process is killed: the claim stays.
Crash(w) ==
    /\ worker[w].pc # "idle"
    /\ Rest(w)
    /\ UNCHANGED <<routeVars, task, results, ops, deliveries, userVars, posted, missed>>

-----------------------------------------------------------------------------
(* Operator commands on one notice.                                        *)

\* Mutant: the result keeps what its mirror said.
ResultMirrorKept(k, status) == results

\* Set the mirror of notice k: of its result, or of the deliveries made by it.
ResultMirror(k, status) ==
    [v \in DOMAIN results |-> IF results[v].op = k THEN [results[v] EXCEPT !.mirror = status] ELSE results[v]]
DeliveryMirror(k, status) ==
    [d \in DOMAIN deliveries |->
        IF deliveries[d].op = k THEN [deliveries[d] EXCEPT !.status = status] ELSE deliveries[d]]

\* The message was read back from the conversation.
Proven(k) == <<k, ops[k].session>> \in posted

\* reconcile, with proof.
ReconcileSent(k) ==
    /\ ops[k].status = "DELIVERY_UNKNOWN" /\ Proven(k)
    /\ ops' = [ops EXCEPT ![k].status = "SENT"]
    /\ results' = ResultMirror(k, "DELIVERED")
    /\ deliveries' = DeliveryMirror(k, "DELIVERED")
    /\ UNCHANGED <<routeVars, task, userVars, worker, posted, missed>>

\* reconcile of a management notice whose retired target has an heir.
ReconcileSuperseded(k) ==
    /\ ops[k].status = "DELIVERY_UNKNOWN" /\ k[1] \in Events
    /\ ops[k].session \in Sessions /\ chat[ops[k].session] = "retired"
    /\ Active(SessionHeir(k))
    /\ ops' = [ops EXCEPT ![k].status = "RECONCILED_SUPERSEDED"]
    /\ deliveries' = DeliveryMirror(k, "SUPERSEDED")
    /\ UNCHANGED <<routeVars, task, results, userVars, worker, posted, missed>>

\* queue retry, of a notice proven unsent.
Retry(k) ==
    /\ ops[k].status = "FAILED_PRE_SEND"
    /\ ops' = [ops EXCEPT ![k].status = "QUEUED"]
    /\ results' = ResultMirror(k, "QUEUED")
    /\ deliveries' = DeliveryMirror(k, "QUEUED")
    /\ UNCHANGED <<routeVars, task, userVars, worker, posted, missed>>

\* cancel first looks whether the notice is queued ...
CancelRead(k) ==
    /\ canceller = NoCancel /\ issued < budget.commands
    /\ issued' = issued + 1
    /\ canceller' = [key |-> k, seen |-> ops[k].status = "QUEUED"]
    /\ UNCHANGED <<routeVars, task, results, ops, deliveries, calls, worker, posted, missed>>

\* Mutant: a claimed notice is cancelled too.
CancellableClaimed(k) == ops[k].status \in {"QUEUED", "DISPATCHING"}

Cancellable(k) == ops[k].status = "QUEUED"

\* ... then cancels it if it is queued, and rewrites the mirror if it was.
CancelWrite ==
    /\ canceller # NoCancel
    /\ canceller' = NoCancel
    /\ LET k == canceller.key
           hit == Cancellable(k)
       IN  /\ ops' = IF hit THEN [ops EXCEPT ![k].status = "CANCELLED"] ELSE ops
           /\ IF canceller.seen
              THEN /\ results' = [v \in DOMAIN results |->
                                    IF v = k[1] THEN [results[v] EXCEPT !.mirror = "CANCELLED"]
                                    ELSE results[v]]
                   /\ deliveries' = DeliveryMirror(k, "CANCELLED")
                   /\ missed' = IF hit THEN missed ELSE missed \cup {k[1]}
              ELSE UNCHANGED <<results, deliveries, missed>>
    /\ UNCHANGED <<routeVars, task, calls, issued, worker, posted>>

\* Mutant: an older result may be acknowledged.
StaleNever(v) == FALSE

\* STALE_RESULT_ACK: a result recorded later exists.
Stale(v) == \E u \in DOMAIN results : results[u].stamp > results[v].stamp

\* result_ack.  The owner is looked up before the transaction and may have
\* been retired or succeeded since: one that ever answered will do.
Ack(v, verdict) ==
    /\ \/ contract = LocalOwner
       \/ \E s \in Heirs(IF results[v].owner # NoSession THEN results[v].owner ELSE OwnerRef) :
            s \in Sessions /\ chat[s] # "absent"
    /\ results[v].ack = "none" /\ ~Stale(v)
    /\ results' = [results EXCEPT ![v].ack = verdict,
                       ![v].mirror = IF contract = LocalOwner THEN "RECEIVED_LOCAL" ELSE @]
    /\ task' = [task EXCEPT !.status = IF verdict = "ACCEPTED" THEN "COMPLETE" ELSE "BLOCKED"]
    /\ UNCHANGED <<routeVars, ops, deliveries, userVars, worker, posted, missed>>

\* acknowledge_management.
AckEvent(d) ==
    /\ deliveries' = [deliveries EXCEPT ![d].status = "ACKNOWLEDGED"]
    /\ UNCHANGED <<routeVars, task, results, ops, userVars, worker, posted, missed>>

-----------------------------------------------------------------------------
Users ==
    \/ \E s \in Sessions : Register(s) \/ Retire(s) \/ \E t \in Sessions : Commit(s, t)
    \/ \E v \in Versions : ReadResult(v)
    \/ \E c \in Callbacks : ReadCallback(c)
    \/ \E e \in Events : ReadTargets(e)
    \/ \E c \in calls : CommitResult(c) \/ CommitCallback(c) \/ CommitBroadcast(c)
    \/ \E k \in DOMAIN ops : \/ ReconcileSent(k) \/ ReconcileSuperseded(k)
                             \/ Retry(k) \/ CancelRead(k)
    \/ CancelWrite
    \/ \E v \in DOMAIN results, verdict \in Verdicts : Ack(v, verdict)
    \/ \E d \in DOMAIN deliveries : AckEvent(d)

Work(w) ==
    \/ Materialize(w) \/ Refresh(w)
    \/ \E k \in DOMAIN ops : Claim(w, k)
    \/ ClaimNothing(w) \/ Route(w) \/ Redirect(w) \/ Spawn(w)
    \/ Deliver(w) \/ Decline(w) \/ Finish(w)

Next ==
    \/ Users
    \/ \E w \in Workers : Work(w) \/ Crash(w)
    \/ \E k \in DOMAIN ops : Expire(k)

Spec == Init /\ [][Next]_vars

\* serve calls work_one again and again, and is not killed each time just
\* before it refreshes the routes.
Fairness == \A w \in Workers : WF_vars(Work(w)) /\ SF_vars(Refresh(w))

FairSpec == Spec /\ Fairness

-----------------------------------------------------------------------------
(* Properties.                                                             *)

\* The variables keep their types, through every transaction and command.
TypeOK ==
    /\ chat \in [Sessions -> {"absent", "active", "retired"}]
    /\ succ \in [Sessions -> Sessions \cup {NoSession}]
    /\ budget \in Budgets /\ contract \in Refs
    /\ task \in [status : {"RUNNING", "RESULT_RECORDED", "COMPLETE", "BLOCKED"},
                 version : Versions \cup {NoSession}]
    /\ DOMAIN results \subseteq Versions /\ \A v \in DOMAIN results : results[v] \in Results
    /\ DOMAIN ops \subseteq Keys /\ \A k \in DOMAIN ops : ops[k] \in Rows
    /\ DOMAIN deliveries \subseteq Events \X Sessions
    /\ \A d \in DOMAIN deliveries : deliveries[d] \in Deliveries
    /\ calls \subseteq Calls /\ issued \in Nat
    /\ canceller \in [key : DOMAIN ops \cup {NoKey}, seen : BOOLEAN]
    /\ worker \in [Workers -> Copies]
    /\ \A w \in Workers : worker[w].key \in DOMAIN ops \cup {NoKey}
    /\ posted \subseteq (DOMAIN ops) \X Sessions
    /\ missed \subseteq Notices

\* A result is told to one conversation at most, by one notice: neither two
\* workers that attach it, nor a report that was already attached, nor a
\* redirection makes a second message of it.
ToldOnce == \A v \in Versions : Cardinality({p \in posted : p[1][1] = v}) <= 1

\* A message goes to the owner it was made for or to a committed successor of
\* that owner, never to a root guessed when the owner is away
\* (docs/architecture.md: "it never falls back to root by guesswork").
NeverGuessed ==
    \A p \in posted :
        LET owner == IF p[1][1] \in Events \/ contract = NoSession THEN p[1][2] ELSE contract
        IN  owner # NoSession => p[2] \in Heirs(owner)

\* A notice reaches the one conversation it is meant for, once: retirement,
\* succession and concurrent workers neither repeat it nor send it elsewhere.
NoticesExact == ToldOnce /\ NeverGuessed

\* What a mirror calls delivered, the conversation of its notice has: no late finish,
\* stale claim or reconciliation marks a notice delivered that was not posted.
DeliveredIsPosted ==
    /\ \A v \in DOMAIN results : results[v].mirror = "DELIVERED" => Proven(results[v].op)
    /\ \A d \in DOMAIN deliveries : deliveries[d].status = "DELIVERED" => Proven(deliveries[d].op)

\* A cancelled notice never reaches a conversation, whatever the worker that
\* claims it and the command that cancels it read before.
CancelledUnsent == \A p \in posted : ops[p[1]].status # "CANCELLED"

\* The tables agree with the conversations: well typed, delivered only what was
\* posted, cancelled only what was not.
PostsRecorded == TypeOK /\ DeliveredIsPosted /\ CancelledUnsent

\* migration-check, for the account of conversation s: nothing pending,
\* uncertain, waiting for a route, or delivered without its ACK.
MigrationSafe(s) ==
    /\ \A k \in DOMAIN ops : ops[k].session = s =>
         ops[k].status \notin {"QUEUED", "DISPATCHING", "DELIVERY_UNKNOWN"}
    /\ \A v \in DOMAIN results : results[v].ack = "none" =>
         /\ results[v].mirror # "WAITING_ROUTE"
         /\ ~(/\ results[v].op # NoKey /\ ops[results[v].op].session = s
              /\ results[v].mirror = "DELIVERED")

\* An account is declared free for migration only when every result it was
\* sent is acknowledged and none is still to be sent, unless a late cancel
\* rewrote the mirror of that result.
MigrationSettled ==
    \A s \in Sessions : MigrationSafe(s) =>
        \A v \in DOMAIN results \ missed :
            (results[v].op # NoKey /\ ops[results[v].op].session = s) =>
                \/ results[v].ack # "none"
                \/ ops[results[v].op].status \in {"CANCELLED", "FAILED_PRE_SEND"}

\* The result the task shows is the one that recorded_at calls the latest.
ShowsLatest == \A v \in DOMAIN results : results[v].stamp <= results[task.version].stamp

\* A task is COMPLETE only when the owner accepted the result it shows, unless
\* reports committed in another order than they took their time stamps.
CompleteIsAccepted ==
    (task.status = "COMPLETE" /\ ShowsLatest) => results[task.version].ack = "ACCEPTED"

\* A notice whose owner has an active successor leaves the outbox.
RouteResolves ==
    \A k \in Keys :
        ~ <>[](k \in DOMAIN ops /\ Waiting(k) /\ Active(SessionHeir(k)))
=============================================================================
