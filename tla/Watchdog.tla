------------------------------ MODULE Watchdog ------------------------------
(***************************************************************************)
(* The watchdog of main.js: a scan (watchOnce) visits the active tasks,    *)
(* looks at each conversation, and nudges, blocks or reports the task;     *)
(* then it may tell the project's owner to reconcile.  `chat-bridge        *)
(* recover` runs the same graded recovery.  Both hold the pacing lane of   *)
(* their account (PacingLock), so one process at a time is modelled; it    *)
(* may stop between any two steps.  Around it, and at any time, the        *)
(* controller edits tasks, results are recorded, conversations move, a     *)
(* person takes the Space over, and queued notices are delivered.          *)
(*                                                                         *)
(* The process reads the runtime document, works on its copy of one task   *)
(* and saves it: the store merges field by field against what was read     *)
(* and refuses the save when both sides changed a field (StateStore).      *)
(* Time is abstract: cooldowns and gaps may have passed or not.            *)
(***************************************************************************)
EXTENDS Integers, FiniteSets, Sequences

CONSTANTS
    Tasks,          \* tasks of one project, each with a conversation of its own
    None,           \* nothing
    Loads,          \* instances: modes, owners and how much happens around the scans
    Signs,          \* what a conversation's page can show, a set of sets of signs
    MaxAttempts,    \* --max-recovery
    MaxTotal,       \* --max-total-recovery
    MaxErrors       \* failed visits after which a task is blocked

ASSUME NothingAssumption ==
    None \notin Tasks \cup [stage : {"PRE_SEND", "SEND_ATTEMPTED"}, key : Tasks \X Nat]
ASSUME TotalAssumption == MaxTotal \in Nat

VARIABLES
    task,           \* runtime.tasks, the fields that the watchdog decides by
    clock,          \* the latest updatedAt
    chat,           \* [Tasks -> what the conversation shows, its changes, its answers]
    space,          \* who owns the browser Space: agent or user
    queue,          \* callback operations of the coordinator: keys and those SENT
    journal,        \* the event journal
    recon,          \* runtime.projects[P]: what was reconciled, pending attempt, pause
    run,            \* the process that holds the lane
    nudged,         \* recovery actions per task, and those whose count was never saved
    asked,          \* every reconcile message that was sent, with its fate
    left            \* bounds, and the instance

vars == <<task, clock, chat, space, queue, journal, recon, run, nudged, asked, left>>
world == <<chat, space>>

Ended == {"COMPLETE", "CANCELLED", "BLOCKED", "RESULT_RECORDED"}
Settled == {"COMPLETE", "RESULT_RECORDED"}
Active(r) == r.status \notin Ended \cup {"GONE"}

Idle == [pc |-> "idle", cmd |-> None, aggressive |-> FALSE, todo |-> {}, seen |-> None, t |-> None,
         obs |-> None, base |-> None, next |-> None, touch |-> FALSE, acted |-> FALSE, key |-> None]

NewTask == [status |-> "DISPATCHED", attempts |-> 0, total |-> 0, last |-> 0, errors |-> 0,
            notified |-> FALSE, told |-> FALSE, pending |-> None, note |-> None, episode |-> 0,
            paused |-> FALSE, response |-> FALSE, event |-> 0, ver |-> 0]
NoTask == [NewTask EXCEPT !.status = "GONE"]

Init ==
    /\ \E l \in Loads : left = l
    /\ task = [t \in Tasks |-> IF t \in left.tasks THEN NewTask ELSE NoTask]
    /\ chat = [t \in Tasks |-> [signs |-> {"generating"}, seq |-> 1, answers |-> 0]]
    /\ clock = 0 /\ space = "agent"
    /\ queue = [keys |-> {}, sent |-> {}] /\ journal = <<>>
    /\ recon = [ver |-> 0, pending |-> None, paused |-> FALSE]
    /\ run = Idle
    /\ nudged = [t \in Tasks |-> [done |-> 0, lost |-> 0]]
    /\ asked = <<>>

External(t) == t \in left.external

\* Bound: so many events of these kinds happen around the scans of an instance.
Happens(kind) ==
    /\ left.events > 0 /\ kind \in left.kinds
    /\ left' = [left EXCEPT !.events = @ - 1]
ReconcileOnly(t, r) == External(t) /\ r.status = "UNKNOWN"

-----------------------------------------------------------------------------
(* What the page shows. *)

\* Generation without progress for as long as the budget of the conversation's effort.
overBudget(signs) == signs = {"generating", "quiet"}

recoveryRequired(signs) == signs \cap {"approval", "exhausted"} = {} /\ "error" \in signs

SessionState(c) ==
    CASE "approval" \in c.signs -> "WAITING_USER_APPROVAL"
      [] "approval" \notin c.signs /\ "exhausted" \in c.signs -> "CONTEXT_EXHAUSTED"
      [] c.signs \cap {"approval", "exhausted"} = {} /\ "offline" \in c.signs -> "BLOCKED"
      [] "offline" \notin c.signs /\ recoveryRequired(c.signs) -> "ERROR_RECOVERABLE"
      [] overBudget(c.signs) -> "SUSPECT_STALL"
      [] c.signs = {"generating"} -> "RUNNING"
      [] c.signs = {} -> IF c.answers > 0 THEN "IDLE_COMPLETE" ELSE "IDLE_INCOMPLETE"

Observed(t) == [state |-> SessionState(chat[t]), seq |-> chat[t].seq, answers |-> chat[t].answers]

-----------------------------------------------------------------------------
(* The store. *)

Fields == DOMAIN NewTask \ {"ver"}
Touched(f) == run.next[f] # run.base[f]

\* Mutant: the save overwrites whatever is there.
ConflictIgnored == FALSE

\* Both sides changed a field (updatedAt is a field), or the record is gone.
Conflict ==
    LET cur == task[run.t] IN
    \/ cur.status = "GONE" /\ run.base.status # "GONE"
    \/ run.touch /\ cur.ver # run.base.ver
    \/ \E f \in Fields : Touched(f) /\ cur[f] \notin {run.base[f], run.next[f]}

Merged ==
    LET cur == task[run.t] IN
    [f \in DOMAIN NewTask |->
        IF f = "ver" THEN (IF run.touch THEN clock + 1 ELSE cur.ver)
        ELSE IF Touched(f) THEN run.next[f] ELSE cur[f]]

-----------------------------------------------------------------------------
(* The process moves on. *)

Lost(t) == nudged' = IF run.acted THEN [nudged EXCEPT ![t].lost = @ + 1] ELSE nudged

\* The visit of run.t is over: the scan takes the next task, a recover command ends.
Moved ==
    IF run.cmd = "watch"
    THEN [Idle EXCEPT !.pc = "scan", !.cmd = "watch", !.aggressive = run.aggressive,
                      !.todo = run.todo \ {run.t},
                      !.seen = [t \in run.todo \ {run.t} |-> run.seen[t]]]
    ELSE Idle
Leave == run' = Moved /\ Lost(run.t) /\ UNCHANGED left

Go(pc) == run' = [run EXCEPT !.pc = pc] /\ UNCHANGED <<nudged, left>>
Fail == run' = [run EXCEPT !.pc = "error"] /\ UNCHANGED nudged /\ Happens("failure")

\* The copy of the task that this step read becomes what it will save.
SaveNext(next, touch) ==
    /\ run' = [run EXCEPT !.pc = "save", !.base = task[run.t], !.next = next, !.touch = touch]
    /\ UNCHANGED <<nudged, left>>

\* An entry of the journal, which is appended under the journal's own lock.
emitTaskEvent(t, type, id) == <<[of |-> t, type |-> type, id |-> id]>>
journalBusy == Fail

\* What the callback of the notice text does to the task, and what it leaves outside.
\* The request key of a callback is the task and the text: a repeated text is the same operation.
Notified(t, r, text) ==
    LET key == <<t, text>>
        again == text # "stall" /\ r.note = text
        Kept(how, n) == [how |-> how, task |-> n, keys |-> {}, log |-> <<>>]
    IN  IF left.local
        THEN {[Kept("recorded", [r EXCEPT !.pending = None, !.note = text])
                  EXCEPT !.log = IF again THEN <<>> ELSE emitTaskEvent(t, text, chat[t].seq)],
              Kept("failed", [r EXCEPT !.pending = text])}
        ELSE {[Kept(IF key \in queue.sent THEN "sent" ELSE "queued",
                    [r EXCEPT !.pending = IF key \in queue.sent THEN None ELSE text])
                  EXCEPT !.keys = {key}],
              Kept("cooling", [r EXCEPT !.pending = text]),
              Kept("failed", r)}

Reached(n) == n.how \in {"sent", "recorded"}
Post(n) ==
    /\ queue' = [queue EXCEPT !.keys = @ \cup n.keys]
    /\ journal' = journal \o n.log

Quiet == UNCHANGED <<queue, journal>>
Reads == UNCHANGED <<task, clock, recon, asked>> /\ UNCHANGED world

-----------------------------------------------------------------------------
(* A scan, and the command recover. *)

Visitable(r) == ~r.paused /\ (Active(r) \/ (r.status = "BLOCKED" /\ r.pending # None))

Scan(aggressive) ==
    /\ run.pc = "idle" /\ left.scans > 0
    /\ run' = [Idle EXCEPT !.pc = "scan", !.cmd = "watch", !.aggressive = aggressive,
                           !.todo = {t \in Tasks : Visitable(task[t])},
                           !.seen = [t \in {u \in Tasks : Visitable(task[u])} |-> task[t]]]
    /\ left' = [left EXCEPT !.scans = @ - 1]
    /\ UNCHANGED <<task, clock, recon, nudged, asked>> /\ Quiet /\ UNCHANGED world

\* recover lifts the pause of the conversation's tasks and of the project, then looks.
Unpaused(t) == [task EXCEPT ![t].paused = FALSE, ![t].ver = IF task[t].paused THEN clock + 1 ELSE @]

Recover(t, aggressive) ==
    /\ run.pc = "idle" /\ Active(task[t]) /\ Happens("recover")
    /\ task' = Unpaused(t) /\ clock' = IF task[t].paused THEN clock + 1 ELSE clock
    /\ recon' = [recon EXCEPT !.paused = FALSE]
    /\ run' = [Idle EXCEPT !.pc = "open", !.cmd = "recover", !.aggressive = aggressive, !.t = t,
                           !.seen = [u \in {t} |-> task[u]]]
    /\ UNCHANGED <<nudged, asked>> /\ Quiet /\ UNCHANGED world

Visit(t) ==
    /\ run.pc = "scan" /\ t \in run.todo
    /\ run' = [run EXCEPT !.pc = IF run.seen[t].status = "BLOCKED" THEN "retell" ELSE "open", !.t = t]
    /\ UNCHANGED <<nudged, left>> /\ Reads /\ Quiet

\* A pending notice of a blocked task is tried again; a cooling account is passed over.
Retell ==
    /\ run.pc = "retell" /\ Reads
    /\ LET live == task[run.t] IN
       \/ (live.status # "BLOCKED" \/ live.pending = None) /\ Leave /\ Quiet
       \/ /\ live.status = "BLOCKED" /\ live.pending # None
          /\ \E n \in Notified(run.t, live, live.pending) :
                SaveNext([n.task EXCEPT !.notified = @ \/ Reached(n)], FALSE) /\ Post(n)
       \/ Leave /\ Quiet

\* The task as the store has it now, or as the scan saw it when it has been cleared since.
Remembered(t) == IF task[t].status = "GONE" THEN run.seen[t] ELSE task[t]

Open ==
    /\ run.pc = "open" /\ Reads /\ Quiet
    /\ \/ /\ space = "agent"
          /\ run' = [run EXCEPT !.pc = "look", !.obs = Observed(run.t)]
          /\ UNCHANGED <<nudged, left>>
       \/ /\ space = "user"
          /\ IF run.cmd = "watch"
             THEN SaveNext([Remembered(run.t) EXCEPT !.paused = TRUE, !.errors = 0], TRUE)
             ELSE Leave
       \/ Fail      \* the page cannot be reached or read
       \/ Leave     \* the account cools down, the store is busy, an image job holds the chat

\* The task may have changed while the page was opened and read.
Look ==
    /\ run.pc = "look" /\ Reads /\ Quiet
    /\ LET live == task[run.t]  state == run.obs.state IN
       IF \/ ~Active(live) \/ live.paused
          \/ ReconcileOnly(run.t, live) /\ state # "IDLE_COMPLETE"
          \/ state = "WAITING_USER_APPROVAL"
          \/ run.cmd = "recover" /\ state \in {"RUNNING", "IDLE_COMPLETE", "CONTEXT_EXHAUSTED"}
       THEN Leave
       ELSE Go(CASE state = "CONTEXT_EXHAUSTED" -> "exhausted"
                 [] state = "RUNNING" -> "running"
                 [] state = "IDLE_COMPLETE" -> "complete"
                 [] OTHER -> "recover")

Exhausted ==
    /\ run.pc = "exhausted" /\ Reads
    /\ LET live == Remembered(run.t)
           blocked == [live EXCEPT !.status = "BLOCKED"]
       IN  IF ReconcileOnly(run.t, live) THEN Leave /\ Quiet
           ELSE IF live.notified THEN SaveNext(blocked, FALSE) /\ Quiet
           ELSE \E n \in Notified(run.t, blocked, "exhausted") :
                    SaveNext([n.task EXCEPT !.notified = Reached(n)], FALSE) /\ Post(n)

Running ==
    /\ run.pc = "running" /\ Reads /\ Quiet
    /\ LET live == Remembered(run.t) IN
       IF ReconcileOnly(run.t, live) THEN Leave
       ELSE SaveNext([live EXCEPT
                !.status = IF @ \in {"DISPATCHED", "RECOVERING"} THEN "RUNNING" ELSE @,
                !.errors = 0,
                !.attempts = IF live.last > 0 /\ run.obs.seq > live.last THEN 0 ELSE @], FALSE)

\* A new answer: an external task's owner gets an event per answer, another's a notice.
Complete ==
    /\ run.pc = "complete" /\ Reads
    /\ LET t == run.t  live == task[t]
           calm == IF ReconcileOnly(t, live) THEN live ELSE [live EXCEPT !.attempts = 0, !.errors = 0]
           waiting == [calm EXCEPT !.status = "AWAITING_DURABLE_UPDATE"]
           answered == [calm EXCEPT !.response = TRUE, !.told = FALSE,
                                    !.status = IF ReconcileOnly(t, live) THEN @ ELSE "RUNNING"]
       IN  \/ (~Active(live) \/ live.paused) /\ Leave /\ Quiet
           \/ /\ Active(live) /\ ~live.paused /\ External(t)
              /\ IF live.event = run.obs.answers THEN SaveNext(answered, FALSE) /\ Quiet
                 ELSE \/ /\ SaveNext([answered EXCEPT !.event = run.obs.answers], FALSE)
                         /\ journal' = journal \o emitTaskEvent(t, "answer", run.obs.answers)
                         /\ UNCHANGED queue
                      \/ journalBusy /\ Quiet
           \/ /\ Active(live) /\ ~live.paused /\ ~External(t)
              /\ IF live.told THEN SaveNext(waiting, FALSE) /\ Quiet
                 ELSE \E n \in Notified(t, waiting, "result") :
                        SaveNext([n.task EXCEPT !.told = Reached(n)], FALSE) /\ Post(n)

-----------------------------------------------------------------------------
(* gradedRecover. *)

Recoverable(t, r) == Active(r) /\ ~r.paused /\ ~ReconcileOnly(t, r)

Counted(r, seq) ==
    [r EXCEPT !.attempts = @ + 1, !.total = @ + 1, !.last = seq, !.status = "RECOVERING", !.notified = FALSE]

\* Mutant: progress in between forgives the total as well.
SpentLately(r) == r.attempts >= MaxAttempts
Spent(r) == r.attempts >= MaxAttempts \/ r.total >= MaxTotal

\* One owner notice per quiet episode, when the last one is not too recent.
Stalled ==
    /\ run.pc = "recover" /\ run.obs.state = "SUSPECT_STALL" /\ ~run.aggressive /\ Reads
    /\ LET live == task[run.t] IN
       \/ Leave /\ Quiet
       \/ /\ Recoverable(run.t, live) /\ live.episode # run.obs.seq
          /\ \E n \in Notified(run.t, live, "stall") :
                /\ SaveNext([n.task EXCEPT !.episode = IF n.how \in {"sent", "queued", "recorded"}
                                                       THEN run.obs.seq ELSE @], FALSE)
                /\ Post(n)

Decide ==
    /\ run.pc = "recover" /\ (run.obs.state = "SUSPECT_STALL" => run.aggressive) /\ Reads
    /\ LET t == run.t  live == task[t]
           blocked == [live EXCEPT !.status = "BLOCKED"]
       IN  \/ ~Recoverable(t, live) /\ Leave /\ Quiet
           \/ live.last > 0 /\ run.cmd = "watch" /\ Leave /\ Quiet      \* within the cooldown
           \/ /\ Recoverable(t, live) /\ (Spent(live) \/ run.obs.state = "BLOCKED")
              /\ IF live.notified THEN SaveNext(blocked, FALSE) /\ Quiet
                 ELSE \E n \in Notified(t, blocked, "blocked") :
                        SaveNext([n.task EXCEPT !.notified = Reached(n)], FALSE) /\ Post(n)
           \/ /\ Recoverable(t, live) /\ ~Spent(live) /\ run.obs.state # "BLOCKED"
              /\ run' = [run EXCEPT !.pc = IF run.obs.state = "SUSPECT_STALL" THEN "stop" ELSE "admit",
                                    !.base = live, !.next = Counted(live, chat[t].seq), !.touch = TRUE]
              /\ UNCHANGED <<nudged, left>> /\ Quiet

\* Stop is pressed while the task may still be recovered, and must be seen to work.
Stop ==
    /\ run.pc = "stop" /\ Quiet /\ UNCHANGED <<task, clock, recon, asked, space>>
    /\ \/ ~Recoverable(run.t, task[run.t]) /\ Go("error") /\ UNCHANGED chat
       \/ Leave /\ UNCHANGED chat
       \/ /\ Recoverable(run.t, task[run.t]) /\ "approval" \notin chat[run.t].signs
          /\ chat' = [chat EXCEPT ![run.t].signs = @ \ {"generating", "quiet"}, ![run.t].seq = @ + 1]
          /\ Go("admit")

\* Mutant: the task is not looked at again before the click.
AdmitUnchecked ==
    /\ run.pc = "admit" /\ Reads /\ Quiet
    /\ \/ "approval" \in chat[run.t].signs /\ Leave
       \/ space = "agent" /\ chat[run.t].signs \subseteq {"error"} /\ Go("click")
       \/ Fail

\* The last look at the task and the page before the click; an approval card defers.
Admit ==
    /\ run.pc = "admit" /\ Reads /\ Quiet
    /\ \/ "approval" \in chat[run.t].signs /\ Leave
       \/ run.obs.state = "SUSPECT_STALL" /\ ~Recoverable(run.t, task[run.t]) /\ Leave
       \/ /\ Recoverable(run.t, task[run.t]) /\ space = "agent" /\ chat[run.t].signs \subseteq {"error"}
          /\ Go("click")
       \/ ~Recoverable(run.t, task[run.t]) /\ Go("error")
       \/ Fail      \* a person took over, the chat is busy or holds a draft

\* A continue message is admitted once more behind its recorded intent: when that
\* admission or the click fails, nothing was sent, and yet it counts as unconfirmed.
Refused == run' = [run EXCEPT !.pc = "unconfirmed"] /\ UNCHANGED <<nudged, chat>>

\* Retry, Continue generating or a continue message; its arrival may stay unconfirmed.
Click ==
    /\ run.pc = "click" /\ Quiet /\ UNCHANGED left /\ UNCHANGED <<task, clock, recon, asked, space>>
    /\ \/ /\ nudged' = [nudged EXCEPT ![run.t].done = @ + 1]
          /\ chat' = [chat EXCEPT ![run.t].signs = {"generating"}, ![run.t].seq = @ + 1]
          /\ \E pc \in {"clicked", "unconfirmed"} : run' = [run EXCEPT !.pc = pc, !.acted = TRUE]
       \/ Refused

Clicked ==
    /\ run.pc = "clicked" /\ Reads /\ Quiet
    /\ Go(IF Recoverable(run.t, task[run.t]) THEN "save" ELSE "error")

\* A send that may have arrived blocks the task; it is told by the next scan.
Unconfirmed ==
    /\ run.pc = "unconfirmed" /\ Reads /\ Quiet
    /\ LET live == task[run.t] IN
       IF run.cmd = "watch" /\ Recoverable(run.t, [live EXCEPT !.paused = FALSE])
       THEN SaveNext([live EXCEPT !.status = "BLOCKED", !.pending = "unconfirmed"], FALSE)
       ELSE Leave

\* Any other failure of a visit is counted; the last one blocks the task.
Failed ==
    /\ run.pc = "error" /\ Reads
    /\ LET live == task[run.t]
           failed == [live EXCEPT !.errors = @ + 1]
           blocked == [failed EXCEPT !.status = "BLOCKED"]
       IN  IF run.cmd # "watch" \/ ~Active(live) \/ ReconcileOnly(run.t, live) THEN Leave /\ Quiet
           ELSE IF failed.errors < MaxErrors THEN SaveNext(failed, FALSE) /\ Quiet
           ELSE \E n \in Notified(run.t, blocked, "failed") :
                    SaveNext([n.task EXCEPT !.notified = @ \/ Reached(n)], FALSE) /\ Post(n)

Save ==
    /\ run.pc = "save" /\ Quiet /\ UNCHANGED <<recon, asked>> /\ UNCHANGED world
    /\ \/ UNCHANGED <<task, clock>> /\ Leave      \* the store is busy, or refuses
       \/ /\ ~Conflict /\ UNCHANGED left
          /\ task' = [task EXCEPT ![run.t] = Merged]
          /\ clock' = IF run.touch THEN clock + 1 ELSE clock
          /\ run' = Moved
          /\ IF run.next.total > run.base.total THEN UNCHANGED nudged ELSE Lost(run.t)

-----------------------------------------------------------------------------
(* maybeNotifyProjectReconcile: when no task of the project is unfinished and *)
(* a result is newer than the last one told, the owner is asked to reconcile.  *)

Progress == {t \in Tasks : task[t].status \in Settled}
Newest(t) == t \in Progress /\ \A u \in Progress : task[u].ver <= task[t].ver

Candidate(t) ==
    /\ \A u \in Tasks : ~Active(task[u])
    /\ Newest(t) /\ task[t].ver > recon.ver
    /\ ~(recon.pending # None /\ recon.pending.stage = "SEND_ATTEMPTED")

EndScan == run' = Idle /\ UNCHANGED <<nudged, left>>

Lifecycle ==
    /\ run.pc = "scan" /\ run.todo = {} /\ Reads /\ Quiet
    /\ \/ EndScan      \* nothing to tell, too early, the owner is busy or cannot be resolved
       \/ \E t \in Tasks :
             /\ ~recon.paused /\ Candidate(t)
             /\ run' = [run EXCEPT !.pc = "reserve", !.t = t, !.key = <<t, task[t].ver>>]
             /\ UNCHANGED <<nudged, left>>

\* Before the reservation nothing can have been sent; a person's Space pauses the project.
Reserve ==
    /\ run.pc = "reserve" /\ Quiet /\ UNCHANGED <<task, clock, nudged, asked, left>> /\ UNCHANGED world
    /\ \/ /\ space = "agent"
          /\ recon' = [recon EXCEPT !.pending = [stage |-> "SEND_ATTEMPTED", key |-> run.key]]
          /\ run' = [run EXCEPT !.pc = "ask"]
       \/ /\ recon' = [recon EXCEPT !.pending = [stage |-> "PRE_SEND", key |-> run.key],
                                    !.paused = (space = "user")]
          /\ run' = Idle
       \/ UNCHANGED recon /\ run' = Idle      \* the store refuses the reservation

\* The message names the task and the version it is about.
projectReconcileMessage(fate) == [key |-> run.key, fate |-> fate]

Ask ==
    /\ run.pc = "ask" /\ Quiet /\ UNCHANGED <<task, clock, nudged, recon, left>> /\ UNCHANGED world
    /\ \/ run' = [run EXCEPT !.pc = "unasked"] /\ UNCHANGED asked
       \/ \E fate \in {"told", "doubtful"} :
             /\ asked' = Append(asked, projectReconcileMessage(fate))
             /\ run' = [run EXCEPT !.pc = fate]

\* Mutant: a failure after the send is recorded as a failure before it.
AskedForgotten ==
    /\ run.pc \in {"told", "doubtful", "unasked"}
    /\ Quiet /\ UNCHANGED <<task, clock, nudged, asked, left>> /\ UNCHANGED world
    /\ run' = Idle
    /\ recon' = IF run.pc = "told"
                THEN [recon EXCEPT !.ver = run.key[2], !.pending = None]
                ELSE [recon EXCEPT !.pending = [stage |-> "PRE_SEND", key |-> run.key]]

\* A confirmed message is recorded; a failure before the click frees the reservation; after
\* it, or when nothing can be saved, the reservation stands.
Asked ==
    /\ run.pc \in {"told", "doubtful", "unasked"}
    /\ Quiet /\ UNCHANGED <<task, clock, nudged, asked, left>> /\ UNCHANGED world
    /\ run' = Idle
    /\ \/ UNCHANGED recon
       \/ run.pc = "told" /\ recon' = [recon EXCEPT !.ver = run.key[2], !.pending = None]
       \/ run.pc = "doubtful" /\ recon' = [recon EXCEPT !.paused = (space = "user")]
       \/ /\ run.pc = "unasked"
          /\ recon' = [recon EXCEPT !.pending = [stage |-> "PRE_SEND", key |-> run.key],
                                   !.paused = (space = "user")]

-----------------------------------------------------------------------------
(* Around the process. *)

Crash ==
    /\ run.pc # "idle" /\ Happens("crash")
    /\ run' = Idle /\ (IF run.t = None THEN UNCHANGED nudged ELSE Lost(run.t))
    /\ UNCHANGED <<task, clock, recon, asked>> /\ Quiet /\ UNCHANGED world

Calm == UNCHANGED <<run, nudged, asked, recon>>

\* Pages move: generation ends, goes quiet, fails, asks for approval; an answer appears.
Page(t) ==
    /\ Happens("page")
    /\ \E s \in Signs, a \in {0, 1} :
          /\ s # chat[t].signs
          /\ chat' = [chat EXCEPT ![t] = [signs |-> s, answers |-> @.answers + a,
                                          seq |-> IF s = {"generating", "quiet"} THEN @.seq ELSE @.seq + 1]]
          /\ a = 1 => s = {}
    /\ UNCHANGED <<task, clock, space>> /\ Quiet /\ Calm

Person ==
    /\ Happens("hold")
    /\ space' = IF space = "user" THEN "agent" ELSE "user"
    /\ UNCHANGED <<task, clock, chat>> /\ Quiet /\ Calm

\* task set, task set-status, task clear, and a reported result, each in one transaction.
Edit(t) ==
    /\ task[t].status # "GONE" /\ Happens("edit")
    /\ clock' = clock + 1
    /\ \/ \E s \in {"RUNNING", "COMPLETE"} :
             task' = [task EXCEPT ![t].status = s, ![t].ver = clock + 1]
       \/ External(t) /\ task' = [task EXCEPT ![t].status = "UNKNOWN", ![t].ver = clock + 1]
       \/ task' = [task EXCEPT ![t].status = "RESULT_RECORDED", ![t].response = FALSE, ![t].ver = clock + 1]
       \/ task' = [task EXCEPT ![t] = NoTask]
    /\ Quiet /\ Calm /\ UNCHANGED world

Deliver ==
    /\ Happens("deliver")
    /\ \E k \in queue.keys \ queue.sent : queue' = [queue EXCEPT !.sent = @ \cup {k}]
    /\ UNCHANGED <<task, clock, journal>> /\ Calm /\ UNCHANGED world

Process ==
    \/ Scan(left.aggressive)
    \/ \E t \in Tasks : Recover(t, left.aggressive) \/ Visit(t)
    \/ Retell \/ Open \/ Look \/ Exhausted \/ Running \/ Complete
    \/ Stalled \/ Decide \/ Stop \/ Admit \/ Click \/ Clicked \/ Unconfirmed \/ Failed \/ Save
    \/ Lifecycle \/ Reserve \/ Ask \/ Asked

Next ==
    \/ Process \/ Crash \/ Person \/ Deliver
    \/ \E t \in Tasks : Page(t) \/ Edit(t)

Spec == Init /\ [][Next]_vars

-----------------------------------------------------------------------------
(* Properties. *)

\* The total budget bounds what the watchdog does to a conversation: only an action whose
\* count could not be saved (a crash, an edit of the task meanwhile, an unconfirmed send)
\* escapes it.  main.js:3947-3987.
RecoveryBudget == \A t \in Tasks : nudged[t].done - nudged[t].lost <= MaxTotal + (IF run.t = t /\ run.acted THEN 1 ELSE 0)

\* The process never makes a task active again that its controller or a result has ended,
\* whatever it read before: a save that would is refused.  main.js:4149-4222.
EndedStays ==
    [][\A t \in Tasks : run' # run /\ task[t].status \in Ended => ~Active(task'[t])]_vars

\* An external task that its adapter has declared UNKNOWN is only observed: no scan or recover
\* changes its status, spends its budgets, or begins to act on its conversation.
\* docs/architecture.md:188, task-policy.js:7.
ExternalUntouched ==
    [][\A t \in Tasks : run' # run /\ ReconcileOnly(t, task[t]) =>
          /\ task'[t].status = "UNKNOWN" /\ task'[t].total = task[t].total
          /\ ~(run'.pc = "click" /\ run'.t = t)]_vars

\* One reconcile message per event, also when the process stops between its send and its
\* record or cannot tell whether it arrived.  main.js:3822, 3855-3909.
ReconcileOnce ==
    \A i, j \in DOMAIN asked : asked[i].key = asked[j].key => i = j
=============================================================================
