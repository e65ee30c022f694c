--------------------------- MODULE WatchdogProofs ---------------------------
(***************************************************************************)
(* Proof that the watchdog's recoveries stay within their budget, that it  *)
(* revives no ended task and spends nothing of an external one, and that   *)
(* it asks for one reconciliation per event: for any tasks, pages, edits,  *)
(* crashes and persons.                                                    *)
(***************************************************************************)
EXTENDS Watchdog, SequenceTheorems, TLAPS

Statuses == Ended \cup {"GONE", "DISPATCHED", "RUNNING", "RECOVERING", "AWAITING_DURABLE_UPDATE", "UNKNOWN"}

\* A record of a task, as far as the argument needs its fields.
Shaped(r) ==
    /\ DOMAIN r = DOMAIN NewTask
    /\ r.status \in Statuses /\ r.total \in 0..MaxTotal /\ r.ver \in Nat

\* The recovery actions of a task whose count was not lost, and the one that is not saved yet.
Net(t) == nudged[t].done - nudged[t].lost
Acting(t) == IF run.t = t /\ run.acted THEN 1 ELSE 0

Visiting == {"retell", "open", "look", "exhausted", "running", "complete", "recover",
             "stop", "admit", "click", "clicked", "unconfirmed", "error", "save"}
Asking == {"reserve", "ask", "told", "doubtful", "unasked"}
Counting == {"stop", "admit", "click", "clicked"}

Shapes ==
    /\ DOMAIN task = Tasks /\ \A t \in Tasks : Shaped(task[t]) /\ task[t].ver <= clock
    /\ nudged \in [Tasks -> [done : Nat, lost : Nat]]
    /\ clock \in Nat
    /\ DOMAIN run = DOMAIN Idle
    /\ run.pc \in {"idle", "scan"} \cup Visiting \cup Asking

Budgeted ==
    \A t \in Tasks :
       /\ Net(t) <= MaxTotal + Acting(t)
       /\ task[t].status # "GONE" => Net(t) <= task[t].total + Acting(t)

\* The tasks that the process still holds a copy of from the beginning of its scan.
Held == run.todo \cup (IF run.pc \in Visiting THEN {run.t} ELSE {})

\* Such a copy counts every action, as nobody else counts any; it may bring back a cleared task.
Copied ==
    /\ Held \subseteq Tasks
    /\ \A t \in Held :
          /\ Shaped(run.seen[t]) /\ run.seen[t].status # "GONE"
          /\ task[t].status = "GONE" \/ task[t].total = run.seen[t].total
          /\ Net(t) <= run.seen[t].total + Acting(t)
    /\ run.acted => run.pc \in {"clicked", "unconfirmed", "error", "save"}
    /\ run.pc = "idle" => run.todo = {}

\* The copy that is about to be saved, and what may have happened to its original since.
Near ==
    \/ task[run.t].status = "GONE"
    \/ /\ task[run.t].total = run.base.total
       /\ task[run.t].ver = run.base.ver => task[run.t].status = run.base.status
Drafted ==
    /\ Shaped(run.base) /\ Shaped(run.next) /\ run.next.status # "GONE"
    /\ run.base.ver <= clock
    /\ Near

\* An action is counted in the copy before it is done.
Counts ==
    run.pc \in Counting =>
       /\ Drafted
       /\ Active(run.base) /\ ~ReconcileOnly(run.t, run.base) /\ run.touch
       /\ run.next.total = run.base.total + 1 /\ run.next.status = "RECOVERING"
       /\ Net(run.t) <= run.base.total + Acting(run.t)

\* What a save may do to its task.
Saves ==
    run.pc = "save" =>
       /\ Drafted
       /\ run.base.status = "GONE" => task[run.t] = run.base
       /\ run.base.status \in Ended => run.next.status \in Ended
       /\ run.next.status = "UNKNOWN" => run.base.status \in {"UNKNOWN", "GONE"}
       /\ ReconcileOnly(run.t, run.base) =>
             run.next.status = "UNKNOWN" /\ run.next.total = run.base.total
       /\ run.next.total # run.base.total => run.touch \/ run.base.status = "GONE"
       /\ Net(run.t) <= run.next.total + (IF run.next.total > run.base.total THEN 0 ELSE Acting(run.t))

\* A reservation is taken back only when nothing can have been sent for it.
Booked == recon.pending # None /\ recon.pending.stage = "SEND_ATTEMPTED"
AskedUpTo(n) == \A i \in DOMAIN asked : asked[i].key[2] <= n
Messages == [key : Tasks \X Nat, fate : {"told", "doubtful"}]
Reserved ==
    /\ asked \in Seq(Messages)
    /\ DOMAIN recon = {"ver", "pending", "paused"} /\ recon.ver \in Nat
    /\ Booked \/ AskedUpTo(recon.ver)
    /\ run.pc \in Asking => run.key \in Tasks \X Nat /\ run.todo = {} /\ ~run.acted
    /\ run.pc \in Asking \ {"reserve"} => Booked
    /\ run.pc \in {"reserve", "ask"} => recon.ver < run.key[2]
    /\ run.pc \in {"reserve", "ask", "unasked"} => AskedUpTo(recon.ver)
    /\ run.pc \in {"told", "doubtful"} => AskedUpTo(run.key[2])

WatchInv == Shapes /\ Budgeted /\ Copied /\ Counts /\ Saves /\ Reserved /\ ReconcileOnce

-----------------------------------------------------------------------------
(* Steps by what they do to the process. *)

Core == Shapes /\ Budgeted /\ Copied /\ Counts /\ Saves

\* Only the reconciliation asks.
LEMMA ReservedKept ==
  ASSUME Reserved, ReconcileOnce, UNCHANGED <<recon, asked>>, run'.pc \notin Asking
  PROVE  Reserved' /\ ReconcileOnce'
  <1>1. Booked' = Booked /\ \A n : AskedUpTo(n)' = AskedUpTo(n) BY DEF Booked, AskedUpTo
  <1>2. Reserved' BY <1>1 DEF Reserved, Asking
  <1> QED BY <1>2 DEF ReconcileOnce

\* The process ends its visit, or itself: what it did and did not save is given up as lost.
LEMMA EndsSafe ==
  ASSUME Core, UNCHANGED <<task, clock>>,
         DOMAIN run' = DOMAIN Idle, run'.pc \in {"idle", "scan"}, ~run'.acted,
         run'.todo \subseteq run.todo, run'.pc = "idle" => run'.todo = {},
         \A u \in run'.todo : run'.seen[u] = run.seen[u],
         \/ ~run.acted /\ nudged' = nudged
         \/ run.acted /\ run.t \in Tasks /\ nudged' = [nudged EXCEPT ![run.t].lost = @ + 1]
  PROVE  Core'
  <1>1. /\ nudged' \in [Tasks -> [done : Nat, lost : Nat]]
        /\ \A t \in Tasks : Net(t)' <= Net(t) - Acting(t) /\ Net(t) \in Int /\ Net(t)' \in Int
    <2>1. CASE ~run.acted /\ nudged' = nudged BY <2>1 DEF Core, Shapes, Net, Acting
    <2>2. CASE run.acted /\ run.t \in Tasks /\ nudged' = [nudged EXCEPT ![run.t].lost = @ + 1]
      <3>1. nudged' \in [Tasks -> [done : Nat, lost : Nat]] BY <2>2 DEF Core, Shapes
      <3>2. \A t \in Tasks : nudged'[t].done = nudged[t].done
                /\ nudged'[t].lost = IF t = run.t THEN nudged[t].lost + 1 ELSE nudged[t].lost
        BY <2>2 DEF Core, Shapes
      <3> HIDE <2>2
      <3> QED BY <2>2, <3>1, <3>2 DEF Core, Shapes, Net, Acting
    <2> QED BY <2>1, <2>2
  <1>2. \A t \in Tasks : Acting(t)' = 0 BY DEF Acting
  <1>3. Shapes' BY <1>1 DEF Core, Shapes, Shaped, Visiting, Asking
  <1>4. Budgeted' BY <1>1, <1>2, TotalAssumption DEF Core, Budgeted, Shapes, Shaped, Acting
  <1>5. Held' = run'.todo /\ Held' \subseteq Held BY DEF Held, Visiting
  <1>6. Copied'
    <2>1. SUFFICES ASSUME NEW t \in Held'
                   PROVE  /\ Shaped(run.seen[t]) /\ run.seen[t].status # "GONE"
                          /\ task[t].status = "GONE" \/ task[t].total = run.seen[t].total
                          /\ Net(t)' <= run.seen[t].total
      BY <1>2, <1>5 DEF Core, Copied, Shaped
    <2>2. t \in Held /\ t \in Tasks BY <1>5 DEF Core, Copied
    <2> QED BY <1>1, <2>2 DEF Core, Copied, Shaped, Acting
  <1>7. Counts' /\ Saves' BY DEF Counts, Saves, Counting
  <1> QED BY <1>3, <1>4, <1>6, <1>7 DEF Core

\* The process goes on with its visit and keeps its copies.
LEMMA GoesSafe ==
  ASSUME Core, UNCHANGED <<task, clock, nudged>>, left'.external = left.external,
         DOMAIN run' = DOMAIN Idle, run.pc \in Visiting, run'.pc \in Visiting \ {"save"},
         run'.t = run.t, run'.todo = run.todo, run'.seen = run.seen, run'.acted = run.acted,
         run'.base = run.base, run'.next = run.next, run'.touch = run.touch,
         run'.pc \in Counting => run.pc \in Counting,
         run.acted => run'.pc \in {"clicked", "unconfirmed", "error"}
  PROVE  Core'
  <1>1. \A t \in Tasks : Net(t)' = Net(t) /\ Acting(t)' = Acting(t) BY DEF Net, Acting
  <1>2. Shapes' BY DEF Core, Shapes, Shaped
  <1>3. Budgeted' BY <1>1 DEF Core, Budgeted
  <1>4. Held' = Held BY DEF Held
  <1>5. Copied' BY <1>1, <1>4 DEF Core, Copied, Shaped, Visiting
  <1>6. Counts'
    <2>1. SUFFICES ASSUME run'.pc \in Counting PROVE Counts' BY DEF Counts
    <2>2. run.t \in Tasks BY DEF Core, Copied, Held
    <2> QED BY <1>1, <2>1, <2>2
        DEF Core, Counts, Drafted, Near, Shaped, ReconcileOnly, External, Active
  <1>7. Saves' BY DEF Saves
  <1> QED BY <1>2, <1>3, <1>5, <1>6, <1>7 DEF Core

\* A copy that may be saved over the task as it is now.
Fits(next) ==
    LET now == task[run.t] IN
    /\ Shaped(next) /\ next.status # "GONE"
    /\ now.status \in Ended => next.status \in Ended
    /\ next.status = "UNKNOWN" => now.status \in {"UNKNOWN", "GONE"}
    /\ ReconcileOnly(run.t, now) => next.status = "UNKNOWN"
    /\ \/ now.status # "GONE" /\ next.total = now.total
       \/ now.status = "GONE" /\ next.total = run.seen[run.t].total /\ ~run.acted

LEMMA DraftSafe ==
  ASSUME Core, UNCHANGED <<task, clock>>, run.pc \in Visiting, NEW next, NEW touch,
         SaveNext(next, touch), Fits(next)
  PROVE  Core' /\ run'.pc = "save"
  <1>1. /\ DOMAIN run' = DOMAIN Idle /\ run'.pc = "save" /\ run'.base = task[run.t] /\ run'.next = next
        /\ run'.t = run.t /\ run'.todo = run.todo /\ run'.seen = run.seen /\ run'.acted = run.acted
        /\ nudged' = nudged /\ left' = left
    BY DEF SaveNext, Core, Shapes, Idle
  <1>2. run.t \in Tasks /\ run.t \in Held BY DEF Core, Copied, Held
  <1>3. \A t \in Tasks : Net(t)' = Net(t) /\ Acting(t)' = Acting(t) /\ Net(t) \in Int
    BY <1>1 DEF Net, Acting, Core, Shapes
  <1>4. Shapes' BY <1>1 DEF Core, Shapes, Shaped, Visiting
  <1>5. Budgeted' BY <1>1, <1>3 DEF Core, Budgeted
  <1>6. Held' = Held BY <1>1 DEF Held, Visiting
  <1>7. Copied' BY <1>1, <1>3, <1>6 DEF Core, Copied, Shaped
  <1>8. Counts' BY <1>1 DEF Counts, Counting
  <1>9. Drafted' BY <1>1, <1>2 DEF Drafted, Near, Fits, Core, Shapes, Shaped
  <1>a. Net(run.t) <= next.total + (IF next.total > task[run.t].total THEN 0 ELSE Acting(run.t))
    <2>1. CASE task[run.t].status # "GONE"
      BY <1>2, <2>1 DEF Fits, Core, Budgeted, Shapes, Shaped
    <2>2. CASE task[run.t].status = "GONE"
      BY <1>2, <1>3, <2>2 DEF Fits, Core, Copied, Shaped, Acting
    <2> QED BY <2>1, <2>2
  <1>b. Saves'
    <2>1. (Net(run.t) <= run.next.total + (IF run.next.total > run.base.total THEN 0 ELSE Acting(run.t)))'
      BY <1>1, <1>2, <1>3, <1>a
    <2>2. /\ run'.base.status \in Ended => run'.next.status \in Ended
          /\ run'.next.status = "UNKNOWN" => run'.base.status \in {"UNKNOWN", "GONE"}
          /\ ReconcileOnly(run.t, run.base)' => run'.next.status = "UNKNOWN" /\ run'.next.total = run'.base.total
          /\ run'.base.status = "GONE" => task'[run'.t] = run'.base
          /\ run'.next.total # run'.base.total => run'.base.status = "GONE"
      BY <1>1 DEF Fits, ReconcileOnly, External
    <2> QED BY <1>9, <2>1, <2>2 DEF Saves
  <1> QED BY <1>1, <1>4, <1>5, <1>7, <1>8, <1>b DEF Core

-----------------------------------------------------------------------------
(* The parts that several branches share. *)

LEMMA LeaveSafe ==
  ASSUME Core, UNCHANGED <<task, clock>>, run.pc \in Visiting, Leave
  PROVE  Core' /\ run'.pc \in {"idle", "scan"}
  <1>1. run.t \in Tasks /\ run' = Moved /\ (IF run.acted THEN nudged' = [nudged EXCEPT ![run.t].lost = @ + 1]
                                                          ELSE nudged' = nudged)
    BY DEF Core, Copied, Held, Leave, Lost
  <1>2. /\ DOMAIN run' = DOMAIN Idle /\ run'.pc \in {"idle", "scan"} /\ run'.acted = FALSE
        /\ run'.todo \subseteq run.todo /\ (run'.pc = "idle" => run'.todo = {})
        /\ \A u \in run'.todo : run'.seen[u] = run.seen[u]
    BY <1>1 DEF Moved, Idle
  <1> QED BY <1>1, <1>2, EndsSafe

LEMMA FailSafe ==
  ASSUME Core, UNCHANGED <<task, clock>>, run.pc \in Visiting, Fail
  PROVE  Core' /\ run'.pc = "error"
  <1>1. /\ DOMAIN run' = DOMAIN Idle /\ run'.pc = "error" /\ run'.t = run.t /\ run'.todo = run.todo
        /\ run'.seen = run.seen /\ run'.acted = run.acted /\ run'.base = run.base
        /\ run'.next = run.next /\ run'.touch = run.touch /\ nudged' = nudged
        /\ left'.external = left.external
    BY DEF Fail, Happens, Core, Shapes, Idle
  <1> QED BY <1>1, GoesSafe DEF Visiting, Counting

LEMMA GoSafe ==
  ASSUME Core, UNCHANGED <<task, clock>>, run.pc \in Visiting, NEW pc \in Visiting \ {"save"}, Go(pc),
         pc \in Counting => run.pc \in Counting,
         run.acted => pc \in {"clicked", "unconfirmed", "error"}
  PROVE  Core' /\ run'.pc = pc
  <1>1. /\ DOMAIN run' = DOMAIN Idle /\ run'.pc = pc /\ run'.t = run.t /\ run'.todo = run.todo
        /\ run'.seen = run.seen /\ run'.acted = run.acted /\ run'.base = run.base
        /\ run'.next = run.next /\ run'.touch = run.touch /\ nudged' = nudged /\ left' = left
    BY DEF Go, Core, Shapes, Idle
  <1> QED BY <1>1, GoesSafe

\* A notice, whatever becomes of it, changes the notice fields of the task and no other.
Alike(r, s) == DOMAIN r = DOMAIN s /\ r.status = s.status /\ r.total = s.total /\ r.ver = s.ver

LEMMA NoticeAlike ==
  ASSUME NEW t, NEW r, DOMAIN r = DOMAIN NewTask, NEW text, NEW n \in Notified(t, r, text)
  PROVE  Alike(n.task, r)
  <1>1. n.task \in {[r EXCEPT !.pending = None, !.note = text], [r EXCEPT !.pending = text],
                    [r EXCEPT !.pending = IF <<t, text>> \in queue.sent THEN None ELSE text], r}
    BY DEF Notified
  <1> QED BY <1>1 DEF Alike, NewTask

\* The process looks at a task it holds, and at the store's copy of it.
LEMMA Visited ==
  ASSUME Core, run.pc \in Visiting
  PROVE  /\ run.t \in Tasks /\ Shaped(task[run.t]) /\ Shaped(run.seen[run.t])
         /\ run.seen[run.t].status # "GONE" /\ run.seen[run.t].total \in Int
  BY DEF Core, Copied, Held, Shapes, Shaped

\* A copy that keeps status and total, or blocks a task, may be saved.
LEMMA KeptFits ==
  ASSUME Core, run.pc \in Visiting, NEW next, Alike(next, task[run.t]), task[run.t].status # "GONE"
  PROVE  Fits(next)
  BY Visited DEF Fits, Alike, Shaped, ReconcileOnly

LEMMA BlockedFits ==
  ASSUME Core, run.pc \in Visiting, NEW next, Alike(next, [task[run.t] EXCEPT !.status = "BLOCKED"]),
         task[run.t].status # "GONE", ~ReconcileOnly(run.t, task[run.t])
  PROVE  Fits(next)
  <1>1. /\ DOMAIN next = DOMAIN NewTask /\ next.status = "BLOCKED"
        /\ next.total = task[run.t].total /\ next.ver = task[run.t].ver
    BY Visited DEF Alike, Shaped, NewTask
  <1> QED BY <1>1, Visited DEF Fits, Shaped, Statuses, Ended

-----------------------------------------------------------------------------
(* The branches of a visit. *)

Stepped == Core' /\ run'.pc \in {"idle", "scan"} \cup Visiting

LEMMA RetellSafe == ASSUME Core, Retell PROVE Stepped
  <1>1. run.pc = "retell" /\ run.pc \in Visiting /\ UNCHANGED <<task, clock>> BY DEF Retell, Visiting, Reads
  <1>2. CASE Leave BY <1>1, <1>2, LeaveSafe DEF Stepped
  <1>3. CASE ~Leave
    <2>1. PICK n \in Notified(run.t, task[run.t], task[run.t].pending) :
             SaveNext([n.task EXCEPT !.notified = @ \/ Reached(n)], FALSE)
      BY <1>3 DEF Retell
    <2>2. task[run.t].status = "BLOCKED" BY <1>3 DEF Retell
    <2> DEFINE next == [n.task EXCEPT !.notified = @ \/ Reached(n)]
    <2>3. Alike(n.task, task[run.t]) BY <1>1, Visited, NoticeAlike DEF Shaped
    <2>4. Alike(next, task[run.t]) BY <2>3, <1>1, Visited DEF Alike, Shaped, NewTask
    <2>5. Fits(next) BY <1>1, <2>2, <2>4, KeptFits
    <2> QED BY <1>1, <2>1, <2>5, DraftSafe DEF Stepped, Visiting
  <1> QED BY <1>2, <1>3

LEMMA OpenSafe == ASSUME Core, Open PROVE Stepped
  <1>1. run.pc = "open" /\ run.pc \in Visiting /\ UNCHANGED <<task, clock>> BY DEF Open, Visiting, Reads
  <1>2. ~run.acted BY <1>1 DEF Core, Copied
  <1>3. CASE run' = [run EXCEPT !.pc = "look", !.obs = Observed(run.t)] /\ UNCHANGED <<nudged, left>>
    <2>1. /\ DOMAIN run' = DOMAIN Idle /\ run'.pc = "look" /\ run'.t = run.t /\ run'.todo = run.todo
          /\ run'.seen = run.seen /\ run'.acted = run.acted /\ run'.base = run.base
          /\ run'.next = run.next /\ run'.touch = run.touch /\ nudged' = nudged /\ left' = left
      BY <1>3 DEF Core, Shapes, Idle
    <2> QED BY <1>1, <1>2, <2>1, GoesSafe DEF Stepped, Visiting, Counting
  <1> DEFINE next == [Remembered(run.t) EXCEPT !.paused = TRUE, !.errors = 0]
  <1>4. CASE SaveNext(next, TRUE)
    <2>1. Fits(next) BY <1>1, <1>2, Visited DEF Fits, Remembered, Shaped, NewTask, ReconcileOnly, Ended
    <2> HIDE DEF next
    <2> QED BY <1>1, <1>4, <2>1, DraftSafe DEF Stepped, Visiting
  <1>5. CASE Fail BY <1>1, <1>5, FailSafe DEF Stepped, Visiting
  <1>6. CASE Leave BY <1>1, <1>6, LeaveSafe DEF Stepped
  <1> QED BY <1>3, <1>4, <1>5, <1>6 DEF Open

LEMMA LookSafe == ASSUME Core, Look PROVE Stepped
  <1>1. run.pc = "look" /\ run.pc \in Visiting /\ UNCHANGED <<task, clock>> BY DEF Look, Visiting, Reads
  <1>2. ~run.acted BY <1>1 DEF Core, Copied
  <1>3. CASE Leave BY <1>1, <1>3, LeaveSafe DEF Stepped
  <1>4. CASE ~Leave
    <2>1. PICK pc \in {"exhausted", "running", "complete", "recover"} : Go(pc) BY <1>4 DEF Look
    <2> QED BY <1>1, <1>2, <2>1, GoSafe DEF Stepped, Visiting, Counting
  <1> QED BY <1>3, <1>4

LEMMA ExhaustedSafe == ASSUME Core, Exhausted PROVE Stepped
  <1>1. run.pc = "exhausted" /\ run.pc \in Visiting /\ UNCHANGED <<task, clock>>
    BY DEF Exhausted, Visiting, Reads
  <1>2. ~run.acted BY <1>1 DEF Core, Copied
  <1>3. CASE Leave BY <1>1, <1>3, LeaveSafe DEF Stepped
  <1>4. CASE ~Leave
    <2> DEFINE live == Remembered(run.t)
               blocked == [live EXCEPT !.status = "BLOCKED"]
    <2>1. ~ReconcileOnly(run.t, live) BY <1>4 DEF Exhausted
    <2>2. /\ DOMAIN live = DOMAIN NewTask /\ live.total \in 0..MaxTotal /\ live.ver \in Nat
          /\ task[run.t].status # "GONE" => live = task[run.t]
          /\ task[run.t].status = "GONE" => live = run.seen[run.t]
      BY <1>1, Visited DEF Remembered, Shaped
    <2> HIDE DEF live
    <2>3. DOMAIN blocked = DOMAIN NewTask /\ blocked.status = "BLOCKED" /\ blocked.total = live.total /\ blocked.ver = live.ver
      BY <2>2 DEF NewTask
    <2> HIDE DEF blocked
    <2>4. ASSUME NEW next, Alike(next, blocked) PROVE Fits(next)
      BY <1>1, <1>2, <2>1, <2>2, <2>3, <2>4, Visited DEF Fits, Alike, Shaped, Statuses, Ended, ReconcileOnly
    <2>5. CASE SaveNext(blocked, FALSE)
      <3>1. Fits(blocked) BY <2>4 DEF Alike
      <3> QED BY <1>1, <2>5, <3>1, DraftSafe DEF Stepped, Visiting
    <2>6. CASE \E n \in Notified(run.t, blocked, "exhausted") :
                 SaveNext([n.task EXCEPT !.notified = Reached(n)], FALSE)
      <3>1. PICK n \in Notified(run.t, blocked, "exhausted") :
                 SaveNext([n.task EXCEPT !.notified = Reached(n)], FALSE) BY <2>6
      <3>2. Alike(n.task, blocked) BY <2>3, NoticeAlike
      <3>3. Alike([n.task EXCEPT !.notified = Reached(n)], blocked) BY <2>3, <3>2 DEF Alike, NewTask
      <3>4. Fits([n.task EXCEPT !.notified = Reached(n)]) BY <2>4, <3>3
      <3> QED BY <1>1, <3>1, <3>4, DraftSafe DEF Stepped, Visiting
    <2> QED BY <1>4, <2>5, <2>6 DEF Exhausted, blocked, live
  <1> QED BY <1>3, <1>4

LEMMA RunsNow ==
  ASSUME NEW old, NEW s, s = IF old \in {"DISPATCHED", "RECOVERING"} THEN "RUNNING" ELSE old
  PROVE  s = old \/ (old \in {"DISPATCHED", "RECOVERING"} /\ s = "RUNNING")
  OBVIOUS

LEMMA RunningSafe == ASSUME Core, Running PROVE Stepped
  <1>1. run.pc = "running" /\ run.pc \in Visiting /\ UNCHANGED <<task, clock>>
    BY DEF Running, Visiting, Reads
  <1>2. ~run.acted BY <1>1 DEF Core, Copied
  <1>3. CASE Leave BY <1>1, <1>3, LeaveSafe DEF Stepped
  <1>4. CASE ~Leave
    <2>1. PICK live : live = Remembered(run.t) OBVIOUS
    <2>2. PICK tries : tries = IF live.last > 0 /\ run.obs.seq > live.last THEN 0 ELSE live.attempts OBVIOUS
    <2>3. /\ Shaped(live) /\ live.status # "GONE" /\ ~ReconcileOnly(run.t, live)
          /\ task[run.t].status # "GONE" => live = task[run.t]
          /\ task[run.t].status = "GONE" => live = run.seen[run.t]
      BY <1>1, <1>4, <2>1, Visited DEF Remembered, Running
    <2>4. PICK status : status = IF live.status \in {"DISPATCHED", "RECOVERING"} THEN "RUNNING" ELSE live.status
      OBVIOUS
    <2>5. status = live.status \/ (live.status \in {"DISPATCHED", "RECOVERING"} /\ status = "RUNNING")
      BY <2>4, RunsNow
    <2>6. PICK next : next = [live EXCEPT !.status = status, !.errors = 0, !.attempts = tries] OBVIOUS
    <2>7. SaveNext(next, FALSE) BY <1>4, <2>1, <2>2, <2>3, <2>4, <2>6 DEF Running
    <2>8. /\ DOMAIN next = DOMAIN NewTask /\ next.total = live.total /\ next.ver = live.ver
          /\ \/ next.status = live.status
             \/ live.status \in {"DISPATCHED", "RECOVERING"} /\ next.status = "RUNNING"
      <3>1. DOMAIN live = DOMAIN NewTask BY <2>3 DEF Shaped
      <3>2. /\ DOMAIN next = DOMAIN NewTask /\ next.total = live.total /\ next.ver = live.ver
            /\ next.status = status
        BY <2>6, <3>1 DEF NewTask
      <3> QED BY <2>5, <3>2
    <2>9. Fits(next)
      BY <1>1, <1>2, <2>3, <2>8, Visited DEF Fits, Shaped, Statuses, Ended, ReconcileOnly
    <2> QED BY <1>1, <2>7, <2>9, DraftSafe DEF Stepped, Visiting
  <1> QED BY <1>3, <1>4

LEMMA CompleteSafe == ASSUME Core, Complete PROVE Stepped
  <1>1. run.pc = "complete" /\ run.pc \in Visiting /\ UNCHANGED <<task, clock>>
    BY DEF Complete, Visiting, Reads
  <1>2. ~run.acted BY <1>1 DEF Core, Copied
  <1>3. CASE Leave BY <1>1, <1>3, LeaveSafe DEF Stepped
  <1>4. CASE journalBusy BY <1>1, <1>4, FailSafe DEF Stepped, journalBusy, Visiting
  <1>5. CASE ~Leave /\ ~journalBusy
    <2>1. PICK live : live = task[run.t] OBVIOUS
    <2>2. Active(live) /\ live.status \notin Ended /\ live.status # "GONE" /\ DOMAIN live = DOMAIN NewTask
      BY <1>1, <1>5, <2>1, Visited DEF Complete, Active, Shaped
    <2>3. PICK calm : calm = IF ReconcileOnly(run.t, live) THEN live ELSE [live EXCEPT !.attempts = 0, !.errors = 0]
      OBVIOUS
    <2>4. Alike(calm, live) BY <2>2, <2>3 DEF Alike, NewTask
    <2>5. ASSUME NEW next, SaveNext(next, FALSE),
                 DOMAIN next = DOMAIN NewTask, next.total = live.total, next.ver = live.ver,
                 next.status \in {"AWAITING_DURABLE_UPDATE", "RUNNING"} \/ next.status = live.status,
                 ReconcileOnly(run.t, live) => next.status = live.status
          PROVE  Stepped
      <3>1. Fits(next) BY <1>1, <2>1, <2>2, <2>5, Visited DEF Fits, Shaped, Statuses, Ended, ReconcileOnly
      <3> QED BY <1>1, <2>5, <3>1, DraftSafe DEF Stepped, Visiting
    <2>6. CASE External(run.t)
      <3>1. PICK status : status = IF ReconcileOnly(run.t, live) THEN calm.status ELSE "RUNNING" OBVIOUS
      <3>2. PICK answered : answered = [calm EXCEPT !.response = TRUE, !.told = FALSE, !.status = status] OBVIOUS
      <3>3. /\ DOMAIN answered = DOMAIN NewTask /\ answered.total = live.total /\ answered.ver = live.ver
            /\ answered.status = status
        BY <2>2, <2>4, <3>2 DEF Alike, NewTask
      <3>4. \/ SaveNext(answered, FALSE) 
            \/ SaveNext([answered EXCEPT !.event = run.obs.answers], FALSE)
        BY <1>5, <2>1, <2>3, <2>6, <3>1, <3>2 DEF Complete
      <3>5. PICK next : SaveNext(next, FALSE) /\ Alike(next, answered)
        <4>1. Alike(answered, answered) BY DEF Alike
        <4>2. Alike([answered EXCEPT !.event = run.obs.answers], answered) BY <3>3 DEF Alike, NewTask
        <4> QED BY <3>4, <4>1, <4>2
      <3> QED BY <2>4, <2>5, <3>1, <3>3, <3>5 DEF Alike
    <2>7. CASE ~External(run.t)
      <3>1. PICK waiting : waiting = [calm EXCEPT !.status = "AWAITING_DURABLE_UPDATE"] OBVIOUS
      <3>2. /\ DOMAIN waiting = DOMAIN NewTask /\ waiting.total = live.total /\ waiting.ver = live.ver
            /\ waiting.status = "AWAITING_DURABLE_UPDATE"
        BY <2>2, <2>4, <3>1 DEF Alike, NewTask
      <3>3. \/ SaveNext(waiting, FALSE)
            \/ \E n \in Notified(run.t, waiting, "result") : SaveNext([n.task EXCEPT !.told = Reached(n)], FALSE)
        BY <1>5, <2>1, <2>3, <2>7, <3>1 DEF Complete
      <3>4. PICK next : SaveNext(next, FALSE) /\ Alike(next, waiting)
        <4>1. CASE SaveNext(waiting, FALSE) BY <4>1 DEF Alike
        <4>2. CASE \E n \in Notified(run.t, waiting, "result") : SaveNext([n.task EXCEPT !.told = Reached(n)], FALSE)
          <5>1. PICK n \in Notified(run.t, waiting, "result") : SaveNext([n.task EXCEPT !.told = Reached(n)], FALSE)
            BY <4>2
          <5>2. Alike(n.task, waiting) BY <3>2, NoticeAlike
          <5>3. Alike([n.task EXCEPT !.told = Reached(n)], waiting) BY <3>2, <5>2 DEF Alike, NewTask
          <5> QED BY <5>1, <5>3
        <4> QED BY <3>3, <4>1, <4>2
      <3>5. ~ReconcileOnly(run.t, live) BY <2>7 DEF ReconcileOnly
      <3> QED BY <2>5, <3>2, <3>4, <3>5 DEF Alike
    <2> QED BY <2>6, <2>7
  <1> QED BY <1>3, <1>4, <1>5

LEMMA StalledSafe == ASSUME Core, Stalled PROVE Stepped
  <1>1. run.pc = "recover" /\ run.pc \in Visiting /\ UNCHANGED <<task, clock>>
    BY DEF Stalled, Visiting, Reads
  <1>2. CASE Leave BY <1>1, <1>2, LeaveSafe DEF Stepped
  <1>3. CASE ~Leave
    <2>1. PICK live : live = task[run.t] OBVIOUS
    <2>2. PICK n \in Notified(run.t, live, "stall") :
             SaveNext([n.task EXCEPT !.episode = IF n.how \in {"sent", "queued", "recorded"}
                                                 THEN run.obs.seq ELSE @], FALSE)
      BY <1>3, <2>1 DEF Stalled
    <2>3. PICK episode : episode = IF n.how \in {"sent", "queued", "recorded"} THEN run.obs.seq ELSE n.task.episode
      OBVIOUS
    <2>4. PICK next : next = [n.task EXCEPT !.episode = episode] OBVIOUS
    <2>5. SaveNext(next, FALSE) BY <2>2, <2>3, <2>4
    <2>6. DOMAIN live = DOMAIN NewTask BY <1>1, <2>1, Visited DEF Shaped
    <2>7. Alike(n.task, live) BY <2>6, NoticeAlike
    <2>8. Alike(next, live) BY <2>4, <2>6, <2>7 DEF Alike, NewTask
    <2>9. live.status # "GONE" BY <1>3, <2>1 DEF Stalled, Recoverable, Active
    <2> QED BY <1>1, <2>1, <2>5, <2>8, <2>9, KeptFits, DraftSafe DEF Stepped, Visiting
  <1> QED BY <1>2, <1>3

\* An action is taken on a copy in which it is already counted.
LEMMA CountSafe ==
  ASSUME Core, UNCHANGED <<task, clock, nudged, left>>, run.pc = "recover", NEW pc \in {"stop", "admit"}, NEW next,
         run' = [run EXCEPT !.pc = pc, !.base = task[run.t], !.next = next, !.touch = TRUE],
         Recoverable(run.t, task[run.t]), ~Spent(task[run.t]),
         DOMAIN next = DOMAIN NewTask, next.status = "RECOVERING", next.total = task[run.t].total + 1,
         next.ver = task[run.t].ver
  PROVE  Stepped
  <1>1. /\ DOMAIN run' = DOMAIN Idle /\ run'.pc = pc /\ run'.base = task[run.t] /\ run'.next = next
        /\ run'.touch = TRUE
        /\ run'.t = run.t /\ run'.todo = run.todo /\ run'.seen = run.seen /\ run'.acted = run.acted
    BY DEF Core, Shapes, Idle
  <1>2. run.t \in Tasks /\ run.t \in Held /\ ~run.acted BY DEF Core, Copied, Held, Visiting
  <1>3. \A t \in Tasks : Net(t)' = Net(t) /\ Acting(t)' = Acting(t) /\ Net(t) \in Int
    BY <1>1 DEF Net, Acting, Core, Shapes
  <1>4. Shapes' BY <1>1 DEF Core, Shapes, Shaped, Visiting
  <1>5. Budgeted' BY <1>1, <1>3 DEF Core, Budgeted
  <1>6. Held' = Held BY <1>1 DEF Held, Visiting
  <1>7. Copied' BY <1>1, <1>2, <1>3, <1>6 DEF Core, Copied, Shaped
  <1>8. Saves' BY <1>1 DEF Saves
  <1>9. Shaped(task[run.t]) /\ task[run.t].ver <= clock BY <1>2 DEF Core, Shapes
  <1>10. Shaped(next) BY <1>9, TotalAssumption DEF Shaped, Spent, Statuses
  <1>11. Drafted' BY <1>1, <1>2, <1>9, <1>10 DEF Drafted, Near, Shaped
  <1>12. Net(run.t) <= task[run.t].total + Acting(run.t)
    BY <1>2 DEF Core, Budgeted, Recoverable, Active
  <1>13. Counts'
    <2>1. Active(run.base)' /\ ~ReconcileOnly(run.t, run.base)' BY <1>1 DEF Recoverable, Active, ReconcileOnly, External
    <2>2. (Net(run.t) <= run.base.total + Acting(run.t))' BY <1>1, <1>2, <1>3, <1>12
    <2> QED BY <1>1, <1>11, <2>1, <2>2 DEF Counts
  <1> QED BY <1>1, <1>4, <1>5, <1>7, <1>8, <1>13 DEF Core, Stepped, Visiting

LEMMA DecideSafe == ASSUME Core, Decide PROVE Stepped
  <1>1. run.pc = "recover" /\ run.pc \in Visiting /\ UNCHANGED <<task, clock>>
    BY DEF Decide, Visiting, Reads
  <1>2. CASE Leave BY <1>1, <1>2, LeaveSafe DEF Stepped
  <1>3. PICK live : live = task[run.t] OBVIOUS
  <1>4. DOMAIN live = DOMAIN NewTask BY <1>1, <1>3, Visited DEF Shaped
  <1>5. CASE /\ Recoverable(run.t, live) /\ ~Spent(live)
             /\ run' = [run EXCEPT !.pc = IF run.obs.state = "SUSPECT_STALL" THEN "stop" ELSE "admit",
                                   !.base = live, !.next = Counted(live, chat[run.t].seq), !.touch = TRUE]
             /\ UNCHANGED <<nudged, left>>
    <2>1. PICK pc \in {"stop", "admit"} : pc = IF run.obs.state = "SUSPECT_STALL" THEN "stop" ELSE "admit"
      OBVIOUS
    <2>2. PICK next : next = Counted(live, chat[run.t].seq) OBVIOUS
    <2>3. /\ DOMAIN next = DOMAIN NewTask /\ next.status = "RECOVERING" /\ next.total = live.total + 1
          /\ next.ver = live.ver
      BY <1>4, <2>2 DEF Counted, NewTask
    <2>4. run' = [run EXCEPT !.pc = pc, !.base = live, !.next = next, !.touch = TRUE] BY <1>5, <2>1, <2>2
    <2> QED BY <1>1, <1>3, <1>5, <2>3, <2>4, CountSafe
  <1>6. CASE /\ Recoverable(run.t, live)
             /\ \/ SaveNext([live EXCEPT !.status = "BLOCKED"], FALSE)
                \/ \E n \in Notified(run.t, [live EXCEPT !.status = "BLOCKED"], "blocked") :
                      SaveNext([n.task EXCEPT !.notified = Reached(n)], FALSE)
    <2>1. live.status # "GONE" /\ ~ReconcileOnly(run.t, live) BY <1>6 DEF Recoverable, Active
    <2>2. PICK blocked : blocked = [live EXCEPT !.status = "BLOCKED"] OBVIOUS
    <2>3. DOMAIN blocked = DOMAIN NewTask BY <1>4, <2>2
    <2>4. PICK next : SaveNext(next, FALSE) /\ Alike(next, blocked)
      <3>1. CASE SaveNext(blocked, FALSE) BY <3>1 DEF Alike
      <3>2. CASE \E n \in Notified(run.t, blocked, "blocked") : SaveNext([n.task EXCEPT !.notified = Reached(n)], FALSE)
        <4>1. PICK n \in Notified(run.t, blocked, "blocked") : SaveNext([n.task EXCEPT !.notified = Reached(n)], FALSE)
          BY <3>2
        <4>2. Alike(n.task, blocked) BY <2>3, NoticeAlike
        <4>3. Alike([n.task EXCEPT !.notified = Reached(n)], blocked) BY <2>3, <4>2 DEF Alike, NewTask
        <4> QED BY <4>1, <4>3
      <3> QED BY <1>6, <2>2, <3>1, <3>2
    <2>5. Fits(next) BY <1>1, <1>3, <2>1, <2>2, <2>4, BlockedFits
    <2> QED BY <1>1, <2>4, <2>5, DraftSafe DEF Stepped, Visiting
  <1> QED BY <1>2, <1>3, <1>5, <1>6 DEF Decide

LEMMA StopSafe == ASSUME Core, Stop PROVE Stepped
  <1>1. run.pc = "stop" /\ run.pc \in Visiting /\ UNCHANGED <<task, clock>> BY DEF Stop, Visiting
  <1>2. ~run.acted BY <1>1 DEF Core, Copied
  <1>3. CASE Leave BY <1>1, <1>3, LeaveSafe DEF Stepped
  <1>4. CASE Go("error") BY <1>1, <1>2, <1>4, GoSafe DEF Stepped, Visiting, Counting
  <1>5. CASE Go("admit") BY <1>1, <1>2, <1>5, GoSafe DEF Stepped, Visiting, Counting
  <1> QED BY <1>3, <1>4, <1>5 DEF Stop

LEMMA AdmitSafe == ASSUME Core, Admit PROVE Stepped
  <1>1. run.pc = "admit" /\ run.pc \in Visiting /\ UNCHANGED <<task, clock>> BY DEF Admit, Visiting, Reads
  <1>2. ~run.acted BY <1>1 DEF Core, Copied
  <1>3. CASE Leave BY <1>1, <1>3, LeaveSafe DEF Stepped
  <1>4. CASE Go("click") BY <1>1, <1>2, <1>4, GoSafe DEF Stepped, Visiting, Counting
  <1>5. CASE Go("error") BY <1>1, <1>2, <1>5, GoSafe DEF Stepped, Visiting, Counting
  <1>6. CASE Fail BY <1>1, <1>6, FailSafe DEF Stepped, Visiting
  <1> QED BY <1>3, <1>4, <1>5, <1>6 DEF Admit

\* The action itself: done, and not saved.
Acts ==
    /\ nudged' = [nudged EXCEPT ![run.t].done = @ + 1]
    /\ \E pc \in {"clicked", "unconfirmed"} : run' = [run EXCEPT !.pc = pc, !.acted = TRUE]

LEMMA ActsSafe == ASSUME Core, Click, Acts PROVE Stepped
  <1>1. PICK pc \in {"clicked", "unconfirmed"} : run' = [run EXCEPT !.pc = pc, !.acted = TRUE] BY DEF Acts
  <1>2. /\ DOMAIN run' = DOMAIN Idle /\ run'.pc = pc /\ run'.acted = TRUE
        /\ run'.t = run.t /\ run'.todo = run.todo /\ run'.seen = run.seen
        /\ run'.base = run.base /\ run'.next = run.next /\ run'.touch = run.touch
    BY <1>1 DEF Core, Shapes, Idle
  <1>3. /\ run.pc = "click" /\ UNCHANGED <<task, clock, left>>
        /\ nudged' = [nudged EXCEPT ![run.t].done = @ + 1]
    BY DEF Click, Acts
  <1>4. run.t \in Tasks /\ run.t \in Held /\ ~run.acted BY <1>3 DEF Core, Copied, Held, Visiting
  <1>5. /\ nudged' \in [Tasks -> [done : Nat, lost : Nat]]
        /\ \A t \in Tasks : Net(t) \in Int /\ Net(t)' = Net(t) + (IF t = run.t THEN 1 ELSE 0)
    <2>1. nudged' \in [Tasks -> [done : Nat, lost : Nat]]
      <3>1. [nudged[run.t] EXCEPT !.done = @ + 1] \in [done : Nat, lost : Nat] BY <1>4 DEF Core, Shapes
      <3> QED BY <1>3, <1>4, <3>1 DEF Core, Shapes
    <2>2. \A t \in Tasks : /\ nudged'[t].lost = nudged[t].lost
                           /\ nudged'[t].done = IF t = run.t THEN nudged[t].done + 1 ELSE nudged[t].done
      BY <1>3, <1>4 DEF Core, Shapes
    <2> HIDE <1>3
    <2> QED BY <2>1, <2>2 DEF Net, Core, Shapes
  <1>6. \A t \in Tasks : Acting(t) = 0 /\ Acting(t)' = IF t = run.t THEN 1 ELSE 0 BY <1>2, <1>4 DEF Acting
  <1>7. Shapes' BY <1>2, <1>3, <1>5 DEF Core, Shapes, Shaped, Visiting
  <1>8. Budgeted' BY <1>3, <1>5, <1>6, TotalAssumption DEF Core, Budgeted, Shapes, Shaped
  <1>9. Held' = Held BY <1>2, <1>3 DEF Held, Visiting
  <1>10. Copied' BY <1>2, <1>3, <1>5, <1>6, <1>9 DEF Core, Copied, Shaped
  <1>11. Saves' BY <1>2 DEF Saves
  <1>12. Counts'
    <2>1. Counts /\ Drafted' BY <1>2, <1>3, <1>4 DEF Core, Counts, Counting, Drafted, Near, Shaped
    <2>2. (Net(run.t) <= run.base.total + Acting(run.t))'
      BY <1>2, <1>3, <1>4, <1>5, <1>6, <2>1 DEF Counts, Counting, Drafted, Shaped
    <2> QED BY <1>2, <1>3, <2>1, <2>2 DEF Counts, Counting, Active, ReconcileOnly, External
  <1> QED BY <1>2, <1>7, <1>8, <1>10, <1>11, <1>12 DEF Core, Stepped, Visiting

\* Or refused behind the intent: nothing done.
LEMMA ClickSafe == ASSUME Core, Click PROVE Stepped
  <1>1. CASE Acts BY <1>1, ActsSafe
  <1>2. CASE Refused
    <2>1. /\ run.pc = "click" /\ run.pc \in Visiting /\ UNCHANGED <<task, clock>> /\ Go("unconfirmed")
      BY <1>2 DEF Click, Refused, Visiting, Go
    <2>2. ~run.acted BY <2>1 DEF Core, Copied
    <2> QED BY <2>1, <2>2, GoSafe DEF Stepped, Visiting, Counting
  <1> QED BY <1>1, <1>2 DEF Click, Acts

LEMMA ClickedSafe == ASSUME Core, Clicked PROVE Stepped
  <1>1. run.pc = "clicked" /\ run.pc \in Visiting /\ UNCHANGED <<task, clock>> BY DEF Clicked, Visiting, Reads
  <1>2. CASE Go("error") BY <1>1, <1>2, GoSafe DEF Stepped, Visiting, Counting
  <1>3. CASE Go("save")
    <2>1. /\ DOMAIN run' = DOMAIN Idle /\ run'.pc = "save" /\ run'.t = run.t /\ run'.todo = run.todo
          /\ run'.seen = run.seen /\ run'.acted = run.acted /\ run'.base = run.base
          /\ run'.next = run.next /\ run'.touch = run.touch /\ nudged' = nudged /\ left' = left
      BY <1>3 DEF Go, Core, Shapes, Idle
    <2>2. run.t \in Tasks /\ run.t \in Held BY <1>1 DEF Core, Copied, Held
    <2>3. \A t \in Tasks : Net(t)' = Net(t) /\ Acting(t)' = Acting(t) /\ Net(t) \in Int
      BY <2>1 DEF Net, Acting, Core, Shapes
    <2>4. Shapes' BY <1>1, <2>1 DEF Core, Shapes, Shaped, Visiting
    <2>5. Budgeted' BY <1>1, <2>1, <2>3 DEF Core, Budgeted
    <2>6. Held' = Held BY <1>1, <2>1 DEF Held, Visiting
    <2>7. Copied' BY <1>1, <2>1, <2>3, <2>6 DEF Core, Copied, Shaped
    <2>8. Counts' BY <2>1 DEF Counts, Counting
    <2>9. Counts /\ Drafted /\ Drafted'
      BY <1>1, <2>1, <2>2 DEF Core, Counts, Counting, Drafted, Near, Shaped
    <2>10. Saves'
      <3>1. /\ Active(run.base) /\ run.touch /\ run.next.total = run.base.total + 1
            /\ run.next.status = "RECOVERING" /\ Net(run.t) <= run.base.total + Acting(run.t)
            /\ ~ReconcileOnly(run.t, run.base)
        BY <1>1, <2>9 DEF Counts, Counting
      <3>2. (Net(run.t) <= run.next.total + (IF run.next.total > run.base.total THEN 0 ELSE Acting(run.t)))'
        BY <2>1, <2>2, <2>3, <2>9, <3>1 DEF Drafted, Shaped, Acting
      <3>3. ~ReconcileOnly(run.t, run.base)' BY <2>1, <3>1 DEF ReconcileOnly, External
      <3> QED BY <2>1, <2>9, <3>1, <3>2, <3>3 DEF Saves, Active
    <2> QED BY <2>1, <2>4, <2>5, <2>7, <2>8, <2>10 DEF Core, Stepped, Visiting
  <1> QED BY <1>2, <1>3 DEF Clicked

LEMMA UnconfirmedSafe == ASSUME Core, Unconfirmed PROVE Stepped
  <1>1. run.pc = "unconfirmed" /\ run.pc \in Visiting /\ UNCHANGED <<task, clock>>
    BY DEF Unconfirmed, Visiting, Reads
  <1>2. CASE Leave BY <1>1, <1>2, LeaveSafe DEF Stepped
  <1>3. CASE ~Leave
    <2>1. PICK live : live = task[run.t] OBVIOUS
    <2>2. /\ Recoverable(run.t, [live EXCEPT !.paused = FALSE])
          /\ SaveNext([live EXCEPT !.status = "BLOCKED", !.pending = "unconfirmed"], FALSE)
      BY <1>3, <2>1 DEF Unconfirmed
    <2>3. DOMAIN live = DOMAIN NewTask BY <1>1, <2>1, Visited DEF Shaped
    <2>4. [live EXCEPT !.paused = FALSE].status = live.status BY <2>3 DEF NewTask
    <2>5. live.status # "GONE" /\ ~ReconcileOnly(run.t, live)
      BY <2>2, <2>4 DEF Recoverable, Active, ReconcileOnly
    <2>6. Alike([live EXCEPT !.status = "BLOCKED", !.pending = "unconfirmed"], [live EXCEPT !.status = "BLOCKED"])
      BY <2>3 DEF Alike, NewTask
    <2> QED BY <1>1, <2>1, <2>2, <2>5, <2>6, BlockedFits, DraftSafe DEF Stepped, Visiting
  <1> QED BY <1>2, <1>3

LEMMA FailedSafe == ASSUME Core, Failed PROVE Stepped
  <1>1. run.pc = "error" /\ run.pc \in Visiting /\ UNCHANGED <<task, clock>> BY DEF Failed, Visiting, Reads
  <1>2. CASE Leave BY <1>1, <1>2, LeaveSafe DEF Stepped
  <1>3. CASE ~Leave
    <2>1. PICK live : live = task[run.t] OBVIOUS
    <2>2. DOMAIN live = DOMAIN NewTask BY <1>1, <2>1, Visited DEF Shaped
    <2>3. PICK failed : failed = [live EXCEPT !.errors = @ + 1] OBVIOUS
    <2>4. PICK blocked : blocked = [failed EXCEPT !.status = "BLOCKED"] OBVIOUS
    <2>5. live.status # "GONE" /\ ~ReconcileOnly(run.t, live) BY <1>3, <2>1 DEF Failed, Active
    <2>6. \/ SaveNext(failed, FALSE)
          \/ \E n \in Notified(run.t, blocked, "failed") :
                SaveNext([n.task EXCEPT !.notified = @ \/ Reached(n)], FALSE)
      BY <1>3, <2>1, <2>3, <2>4 DEF Failed
    <2>7. Alike(failed, live) /\ DOMAIN failed = DOMAIN NewTask BY <2>2, <2>3 DEF Alike, NewTask
    <2>8. Alike(blocked, [live EXCEPT !.status = "BLOCKED"]) /\ DOMAIN blocked = DOMAIN NewTask
      BY <2>2, <2>4, <2>7 DEF Alike, NewTask
    <2>9. CASE SaveNext(failed, FALSE)
      BY <1>1, <2>1, <2>5, <2>7, <2>9, KeptFits, DraftSafe DEF Stepped, Visiting
    <2>10. CASE \E n \in Notified(run.t, blocked, "failed") :
                SaveNext([n.task EXCEPT !.notified = @ \/ Reached(n)], FALSE)
      <3>1. PICK n \in Notified(run.t, blocked, "failed") :
                SaveNext([n.task EXCEPT !.notified = @ \/ Reached(n)], FALSE)
        BY <2>10
      <3>2. Alike(n.task, blocked) BY <2>8, NoticeAlike
      <3>3. PICK next : next = [n.task EXCEPT !.notified = @ \/ Reached(n)] OBVIOUS
      <3>4. Alike(next, blocked) BY <2>8, <3>2, <3>3 DEF Alike, NewTask
      <3>5. Alike(next, [live EXCEPT !.status = "BLOCKED"]) BY <2>8, <3>4 DEF Alike
      <3> QED BY <1>1, <2>1, <2>5, <3>1, <3>3, <3>5, BlockedFits, DraftSafe DEF Stepped, Visiting
    <2> QED BY <2>6, <2>9, <2>10
  <1> QED BY <1>2, <1>3

\* What a save that is not refused makes of the task.
LEMMA Merges ==
  ASSUME Core, run.pc = "save", ~Conflict
  PROVE  /\ Shaped(Merged) /\ Merged.ver <= (IF run.touch THEN clock + 1 ELSE clock)
         /\ Merged.status # "GONE" /\ Merged.total = run.next.total
         /\ task[run.t].status \in Ended => Merged.status \in Ended
         /\ ReconcileOnly(run.t, task[run.t]) => Merged.status = "UNKNOWN" /\ Merged.total = task[run.t].total
  <1> DEFINE cur == task[run.t]
             base == run.base
             next == run.next
  <1>1. /\ run.t \in Tasks /\ Drafted /\ Near
        /\ base.status = "GONE" => cur = base
        /\ base.status \in Ended => next.status \in Ended
        /\ next.status = "UNKNOWN" => base.status \in {"UNKNOWN", "GONE"}
        /\ ReconcileOnly(run.t, base) => next.status = "UNKNOWN" /\ next.total = base.total
        /\ next.total # base.total => run.touch \/ base.status = "GONE"
    BY DEF Core, Saves, Drafted, Copied, Held, Visiting
  <1>2. /\ Shaped(cur) /\ Shaped(base) /\ Shaped(next) /\ cur.ver <= clock /\ clock \in Nat /\ next.status # "GONE"
    BY <1>1 DEF Core, Shapes, Drafted
  <1>3. {"status", "total"} \subseteq Fields /\ DOMAIN NewTask = Fields \cup {"ver"} /\ "ver" \notin Fields
    BY DEF Fields, NewTask
  <1>4. /\ DOMAIN Merged = DOMAIN NewTask
        /\ Merged.ver = IF run.touch THEN clock + 1 ELSE cur.ver
        /\ Merged.status = IF next.status # base.status THEN next.status ELSE cur.status
        /\ Merged.total = IF next.total # base.total THEN next.total ELSE cur.total
    BY <1>3 DEF Merged, Touched
  <1>5. /\ cur.status = "GONE" => base.status = "GONE"
        /\ run.touch => cur.ver = base.ver
        /\ next.status # base.status => cur.status \in {base.status, next.status}
        /\ next.total # base.total => cur.total \in {base.total, next.total}
    BY <1>3 DEF Conflict, Touched
  <1>6. /\ cur.status # "GONE" => cur.total = base.total
        /\ cur.status # "GONE" /\ cur.ver = base.ver => cur.status = base.status
    BY <1>1 DEF Near
  <1>7. Merged.status # "GONE" /\ Merged.status \in Statuses BY <1>1, <1>2, <1>4, <1>5 DEF Shaped
  <1>8. Merged.total = next.total BY <1>1, <1>4, <1>5, <1>6
  <1>9. cur.status \in Ended => Merged.status \in Ended BY <1>1, <1>4, <1>5
  <1>10. ReconcileOnly(run.t, cur) => Merged.status = "UNKNOWN" /\ Merged.total = cur.total
    BY <1>1, <1>4, <1>5, <1>6 DEF ReconcileOnly
  <1>11. Merged.ver \in Nat /\ Merged.ver <= (IF run.touch THEN clock + 1 ELSE clock) BY <1>2, <1>4 DEF Shaped
  <1> QED BY <1>2, <1>4, <1>7, <1>8, <1>9, <1>10, <1>11 DEF Shaped

LEMMA SaveSafe == ASSUME Core, Save PROVE Stepped
  <1>1. run.pc = "save" /\ run.pc \in Visiting BY DEF Save, Visiting
  <1>2. CASE UNCHANGED <<task, clock>> /\ Leave BY <1>1, <1>2, LeaveSafe DEF Stepped
  <1>3. CASE ~(UNCHANGED <<task, clock>> /\ Leave)
    <2>1. /\ ~Conflict /\ left' = left /\ task' = [task EXCEPT ![run.t] = Merged]
          /\ clock' = (IF run.touch THEN clock + 1 ELSE clock) /\ run' = Moved
          /\ IF run.next.total > run.base.total THEN nudged' = nudged ELSE Lost(run.t)
      BY <1>3 DEF Save
    <2>2. PICK m : m = Merged OBVIOUS
    <2>3. /\ Shaped(m) /\ m.ver <= clock' /\ m.status # "GONE" /\ m.total = run.next.total
      BY <1>1, <2>1, <2>2, Merges
    <2>4. run.t \in Tasks /\ run.t \in Held /\ clock \in Nat /\ clock' \in Nat /\ clock <= clock'
      BY <1>1, <2>1 DEF Core, Copied, Held, Shapes
    <2>5. /\ DOMAIN task' = Tasks /\ task'[run.t] = m
          /\ \A t \in Tasks : t # run.t => task'[t] = task[t]
      BY <2>1, <2>2, <2>4 DEF Core, Shapes
    <2>6. /\ DOMAIN run' = DOMAIN Idle /\ run'.pc \in {"idle", "scan"} /\ run'.acted = FALSE
          /\ run'.todo \subseteq run.todo \ {run.t} /\ (run'.pc = "idle" => run'.todo = {})
          /\ \A u \in run'.todo : run'.seen[u] = run.seen[u]
      BY <2>1 DEF Moved, Idle
    <2>7. PICK u \in Tasks : u = run.t BY <2>4
    <2>8. /\ nudged' \in [Tasks -> [done : Nat, lost : Nat]]
          /\ \A t \in Tasks : Net(t) \in Int /\ Net(t)' \in Int /\ (t # run.t => Net(t)' = Net(t))
          /\ Net(u)' <= run.next.total
      <3>1. CASE nudged' = nudged /\ (run.next.total > run.base.total \/ ~run.acted)
        <4>1. Net(run.t) <= run.next.total + (IF run.next.total > run.base.total THEN 0 ELSE Acting(run.t))
          BY <1>1 DEF Core, Saves
        <4>2. run.next.total \in Int BY <1>1 DEF Core, Saves, Drafted, Shaped
        <4>3. Net(run.t) <= run.next.total BY <3>1, <4>1, <4>2 DEF Acting
        <4>4. \A t \in Tasks : Net(t) \in Int /\ Net(t)' = Net(t) BY <3>1 DEF Core, Shapes, Net
        <4>5. nudged' \in [Tasks -> [done : Nat, lost : Nat]] BY <3>1 DEF Core, Shapes
        <4> QED BY <2>7, <4>3, <4>4, <4>5
      <3>2. CASE ~(run.next.total > run.base.total) /\ run.acted /\ nudged' = [nudged EXCEPT ![run.t].lost = @ + 1]
        <4>1. nudged' \in [Tasks -> [done : Nat, lost : Nat]]
          <5>1. [nudged[run.t] EXCEPT !.lost = @ + 1] \in [done : Nat, lost : Nat] BY <2>4 DEF Core, Shapes
          <5> QED BY <2>4, <3>2, <5>1 DEF Core, Shapes
        <4>2. \A t \in Tasks : /\ nudged'[t].done = nudged[t].done
                               /\ nudged'[t].lost = IF t = run.t THEN nudged[t].lost + 1 ELSE nudged[t].lost
          BY <2>4, <3>2 DEF Core, Shapes
        <4>3. Net(run.t) <= run.next.total + 1 /\ run.next.total \in Int
          BY <1>1, <3>2, <2>4 DEF Core, Saves, Drafted, Shaped, Acting
        <4>4. ASSUME NEW t \in Tasks
              PROVE  Net(t) \in Int /\ Net(t)' = Net(t) - (IF t = run.t THEN 1 ELSE 0)
          BY <2>4, <4>1, <4>2 DEF Core, Shapes, Net
        <4>5. Net(u) \in Int /\ Net(u)' = Net(u) - 1 BY <2>7, <4>4
        <4>6. Net(u)' <= run.next.total BY <2>7, <4>3, <4>5
        <4>7. \A t \in Tasks : Net(t) \in Int /\ Net(t)' \in Int /\ (t # run.t => Net(t)' = Net(t)) BY <4>4
        <4> QED BY <4>1, <4>6, <4>7
      <3> QED BY <2>1, <3>1, <3>2 DEF Lost
    <2>9. \A t \in Tasks : Acting(t)' = 0 BY <2>6 DEF Acting
    <2>10. Shapes' BY <2>3, <2>4, <2>5, <2>6, <2>8 DEF Core, Shapes, Shaped
    <2>11. \A t \in Tasks : t # run.t => Acting(t) = 0 BY DEF Acting
    <2>12. Budgeted'
      <3>1. SUFFICES ASSUME NEW t \in Tasks
                     PROVE  Net(t)' <= MaxTotal /\ (task'[t].status # "GONE" => Net(t)' <= task'[t].total)
        <4>1. \A t \in Tasks : Net(t)' \in Int /\ Acting(t)' = 0 /\ task'[t].total \in Int
          BY <2>8, <2>9, <2>10 DEF Shapes, Shaped
        <4> QED BY <3>1, <4>1, TotalAssumption DEF Budgeted
      <3>2. CASE t = run.t
        <4>1. m.total \in 0..MaxTotal BY <2>3 DEF Shaped
        <4> QED BY <2>3, <2>5, <2>8, <2>7, <3>2, <4>1, TotalAssumption
      <3>3. CASE t # run.t BY <2>5, <2>8, <2>11, <3>3, TotalAssumption DEF Core, Budgeted, Shapes, Shaped
      <3> QED BY <3>2, <3>3
    <2>13. Held' = run'.todo /\ Held' \subseteq Held /\ run.t \notin Held' BY <2>6 DEF Held, Visiting
    <2>14. Copied'
      <3>1. SUFFICES ASSUME NEW t \in Held'
                     PROVE  /\ Shaped(run.seen[t]) /\ run.seen[t].status # "GONE"
                            /\ task'[t].status = "GONE" \/ task'[t].total = run.seen[t].total
                            /\ Net(t)' <= run.seen[t].total
        <4>1. \A t \in Held' : t \in Tasks /\ Acting(t)' = 0 /\ run'.seen[t] = run.seen[t]
          BY <2>6, <2>9, <2>13 DEF Core, Copied
        <4>2. \A t \in Held' : run.seen[t].total \in Int BY <2>13 DEF Core, Copied, Shaped
        <4> QED BY <2>6, <2>13, <3>1, <4>1, <4>2 DEF Copied, Shaped
      <3>2. t \in Held /\ t \in Tasks /\ t # run.t BY <2>13 DEF Core, Copied
      <3> QED BY <2>5, <2>8, <2>11, <3>2 DEF Core, Copied, Shaped
    <2>15. Counts' /\ Saves' BY <2>6 DEF Counts, Saves, Counting
    <2> QED BY <2>6, <2>10, <2>12, <2>14, <2>15 DEF Core, Stepped
  <1> QED BY <1>2, <1>3

-----------------------------------------------------------------------------
(* Scans and recoveries begin. *)

\* The process takes a copy of some tasks; it has done nothing yet.
LEMMA BeginsSafe ==
  ASSUME Core, run.pc = "idle", nudged' = nudged, NEW s \in SUBSET Tasks, DOMAIN run' = DOMAIN Idle, ~run'.acted,
         \/ run'.pc = "scan" /\ run'.todo = s
         \/ run'.pc = "open" /\ run'.todo = {} /\ s = {run'.t},
         \A t \in s : run'.seen[t] = task[t] /\ task[t].status # "GONE",
         clock' \in Nat, DOMAIN task' = Tasks, 
         \A t \in Tasks : /\ Shaped(task'[t]) /\ task'[t].ver <= clock'
                          /\ task'[t].status = task[t].status /\ task'[t].total = task[t].total
  PROVE  Core'
  <1>1. ~run.acted /\ Shapes BY DEF Core, Copied
  <1>2. \A t \in Tasks : Net(t)' = Net(t) /\ Acting(t)' = 0 /\ Acting(t) = 0 /\ Net(t) \in Int
    BY <1>1 DEF Net, Acting, Core, Shapes
  <1>3. Shapes' BY <1>1 DEF Shapes, Shaped, Visiting
  <1>4. Budgeted' BY <1>2 DEF Core, Budgeted
  <1>5. Held' = s BY DEF Held, Visiting
  <1>6. \A t \in s : Shaped(task[t]) /\ Net(t) <= task[t].total + Acting(t) BY <1>1 DEF Core, Shapes, Budgeted
  <1>7. \A t \in s : (Shaped(run.seen[t]))' BY <1>6 DEF Shaped
  <1>8. Copied' BY <1>2, <1>5, <1>6, <1>7 DEF Copied
  <1>9. Counts' /\ Saves' BY DEF Counts, Saves, Counting
  <1> QED BY <1>3, <1>4, <1>8, <1>9 DEF Core

LEMMA ScanSafe == ASSUME Core, NEW aggressive, Scan(aggressive) PROVE Stepped
  <1> DEFINE s == {t \in Tasks : Visitable(task[t])}
  <1>1. /\ DOMAIN run' = DOMAIN Idle /\ run'.pc = "scan" /\ run'.todo = s /\ run'.acted = FALSE
        /\ run'.seen = [t \in s |-> task[t]]
    BY DEF Scan, Idle
  <1>2. \A t \in s : task[t].status # "GONE" /\ run'.seen[t] = task[t] BY <1>1 DEF Visitable, Active
  <1>3. nudged' = nudged /\ task' = task /\ clock' = clock /\ run.pc = "idle" BY DEF Scan
  <1>4. /\ clock' \in Nat /\ DOMAIN task' = Tasks
        /\ \A t \in Tasks : /\ Shaped(task'[t]) /\ task'[t].ver <= clock'
                            /\ task'[t].status = task[t].status /\ task'[t].total = task[t].total
    BY <1>3 DEF Core, Shapes
  <1>5. s \in SUBSET Tasks OBVIOUS
  <1> HIDE DEF s
  <1>6. Core' BY <1>1, <1>2, <1>3, <1>4, <1>5, BeginsSafe
  <1> QED BY <1>1, <1>6 DEF Stepped

LEMMA RecoverSafe == ASSUME Core, NEW t \in Tasks, NEW aggressive, Recover(t, aggressive) PROVE Stepped
  <1>1. /\ DOMAIN run' = DOMAIN Idle /\ run'.pc = "open" /\ run'.todo = {} /\ run'.acted = FALSE /\ run'.t = t
        /\ run'.seen = [u \in {t} |-> task[u]]
    BY DEF Recover, Idle
  <1>2. /\ nudged' = nudged /\ run.pc = "idle" /\ Active(task[t]) /\ task' = Unpaused(t)
        /\ clock' = (IF task[t].paused THEN clock + 1 ELSE clock)
    BY DEF Recover
  <1>3. Shapes BY DEF Core
  <1>4. task[t].status # "GONE" /\ run'.seen[t] = task[t] BY <1>1, <1>2 DEF Active
  <1>5. PICK ver : ver = IF task[t].paused THEN clock + 1 ELSE task[t].ver OBVIOUS
  <1>6. task' = [task EXCEPT ![t].paused = FALSE, ![t].ver = ver] BY <1>2, <1>3, <1>5 DEF Unpaused, Shapes, Shaped, NewTask
  <1>7. /\ DOMAIN task' = Tasks /\ \A u \in Tasks : u # t => task'[u] = task[u]
        /\ DOMAIN task'[t] = DOMAIN NewTask /\ task'[t].ver = ver
        /\ task'[t].status = task[t].status /\ task'[t].total = task[t].total
    BY <1>3, <1>6 DEF Shapes, Shaped, NewTask
  <1>8. ver \in Nat /\ clock' \in Nat /\ ver <= clock' /\ clock <= clock' BY <1>2, <1>3, <1>5 DEF Shapes, Shaped
  <1>9. \A u \in Tasks : /\ Shaped(task'[u]) /\ task'[u].ver <= clock'
                         /\ task'[u].status = task[u].status /\ task'[u].total = task[u].total
    BY <1>3, <1>7, <1>8 DEF Shapes, Shaped
  <1>10. Core' BY <1>1, <1>2, <1>4, <1>7, <1>8, <1>9, BeginsSafe
  <1> QED BY <1>1, <1>10 DEF Stepped, Visiting

LEMMA VisitSafe == ASSUME Core, NEW t \in Tasks, Visit(t) PROVE Stepped
  <1>1. PICK pc \in {"retell", "open"} : run' = [run EXCEPT !.pc = pc, !.t = t]
    BY DEF Visit
  <1>2. /\ DOMAIN run' = DOMAIN Idle /\ run'.pc = pc /\ run'.todo = run.todo /\ run'.acted = run.acted /\ run'.t = t
        /\ run'.seen = run.seen
    BY <1>1 DEF Core, Shapes, Idle
  <1>3. /\ run.pc = "scan" /\ t \in run.todo /\ nudged' = nudged /\ task' = task /\ clock' = clock
        /\ ~run.acted
    BY DEF Visit, Reads, Core, Copied
  <1>4. Held' = Held BY <1>2, <1>3 DEF Held, Visiting
  <1>5. \A u \in Tasks : Net(u)' = Net(u) /\ Acting(u)' = Acting(u) BY <1>2, <1>3 DEF Net, Acting
  <1>6. Shapes' BY <1>2, <1>3 DEF Core, Shapes, Shaped, Visiting
  <1>7. Budgeted' BY <1>3, <1>5 DEF Core, Budgeted
  <1>8. Copied' BY <1>2, <1>3, <1>4, <1>5 DEF Core, Copied, Shaped
  <1>9. Counts' /\ Saves' BY <1>2 DEF Counts, Saves, Counting
  <1> QED BY <1>2, <1>6, <1>7, <1>8, <1>9 DEF Core, Stepped, Visiting

-----------------------------------------------------------------------------
(* The reconciliation. *)

\* Outside a visit the process has only its place to lose.
LEMMA AsideSafe ==
  ASSUME Core, UNCHANGED <<task, clock, nudged>>, ~run.acted, DOMAIN run' = DOMAIN Idle, ~run'.acted, run'.todo = {},
         run'.pc \in {"idle", "scan"} \cup Asking
  PROVE  Core'
  <1>1. \A t \in Tasks : Net(t)' = Net(t) /\ Acting(t)' = Acting(t) BY DEF Net, Acting
  <1>2. Shapes' BY DEF Core, Shapes, Shaped
  <1>3. Budgeted' BY <1>1 DEF Core, Budgeted
  <1>4. Held' = {} BY DEF Held, Visiting, Asking
  <1>5. Copied' BY <1>4 DEF Copied
  <1>6. Counts' /\ Saves' BY DEF Counts, Saves, Counting, Asking
  <1> QED BY <1>2, <1>3, <1>5, <1>6 DEF Core

LEMMA LifecycleSafe == ASSUME WatchInv, Lifecycle PROVE WatchInv'
  <1>1. /\ run.pc = "scan" /\ run.todo = {} /\ UNCHANGED <<task, clock, nudged, recon, asked, left>> /\ ~run.acted
        /\ Core
    BY DEF Lifecycle, Reads, EndScan, WatchInv, Copied, Core
  <1>2. CASE EndScan
    <2>1. run' = Idle BY <1>2 DEF EndScan
    <2>2. Core' BY <1>1, <2>1, AsideSafe DEF Idle
    <2>3. run'.pc \notin Asking BY <2>1 DEF Idle, Asking
    <2> QED BY <1>1, <2>2, <2>3, ReservedKept DEF WatchInv, Core
  <1>3. CASE ~EndScan
    <2>1. PICK t \in Tasks : Candidate(t) /\ run' = [run EXCEPT !.pc = "reserve", !.t = t, !.key = <<t, task[t].ver>>]
      BY <1>3 DEF Lifecycle
    <2>2. /\ DOMAIN run' = DOMAIN Idle /\ run'.pc = "reserve" /\ run'.todo = run.todo /\ run'.acted = run.acted
          /\ run'.key = <<t, task[t].ver>>
      BY <2>1 DEF WatchInv, Shapes, Idle
    <2>3. Core' BY <1>1, <2>2, AsideSafe DEF Asking
    <2>4. task[t].ver \in Nat /\ task[t].ver > recon.ver /\ ~Booked
      BY <2>1 DEF Candidate, Booked, WatchInv, Shapes, Shaped
    <2>5. run'.key \in Tasks \X Nat /\ run'.key[2] = task[t].ver BY <2>2, <2>4
    <2>6. Booked' = Booked /\ \A n : AskedUpTo(n)' = AskedUpTo(n) BY <1>1 DEF Booked, AskedUpTo
    <2>7. Reserved' BY <1>1, <2>2, <2>4, <2>5, <2>6 DEF WatchInv, Reserved, Asking
    <2> QED BY <1>1, <2>3, <2>7 DEF WatchInv, Core, ReconcileOnce
  <1> QED BY <1>2, <1>3

LEMMA ReserveSafe == ASSUME WatchInv, Reserve PROVE WatchInv'
  <1>1. /\ run.pc = "reserve" /\ UNCHANGED <<task, clock, nudged, asked, left>>
        /\ run.key \in Tasks \X Nat /\ run.todo = {} /\ ~run.acted /\ Core
        /\ recon.ver < run.key[2] /\ AskedUpTo(recon.ver) /\ DOMAIN recon = {"ver", "pending", "paused"}
        /\ recon.ver \in Nat /\ asked \in Seq(Messages)
    BY DEF Reserve, WatchInv, Core, Reserved, Asking
  <1>2. \A n : AskedUpTo(n)' = AskedUpTo(n) BY <1>1 DEF AskedUpTo
  <1>3. ReconcileOnce' BY <1>1 DEF WatchInv, ReconcileOnce
  <1>4. CASE /\ recon' = [recon EXCEPT !.pending = [stage |-> "SEND_ATTEMPTED", key |-> run.key]]
             /\ run' = [run EXCEPT !.pc = "ask"]
    <2>1. /\ DOMAIN run' = DOMAIN Idle /\ run'.pc = "ask" /\ run'.todo = run.todo /\ run'.acted = run.acted
          /\ run'.key = run.key
      BY <1>4 DEF WatchInv, Shapes, Idle
    <2>2. Core' BY <1>1, <2>1, AsideSafe DEF Asking
    <2>3. /\ DOMAIN recon' = {"ver", "pending", "paused"} /\ recon'.ver = recon.ver
          /\ recon'.pending = [stage |-> "SEND_ATTEMPTED", key |-> run.key]
      BY <1>1, <1>4
    <2>4. Booked' BY <1>1, <2>3, NothingAssumption DEF Booked
    <2>5. Reserved' BY <1>1, <1>2, <2>1, <2>3, <2>4 DEF Reserved, Asking
    <2> QED BY <1>3, <2>2, <2>5 DEF WatchInv, Core
  <1>5. CASE ~(/\ recon' = [recon EXCEPT !.pending = [stage |-> "SEND_ATTEMPTED", key |-> run.key]]
               /\ run' = [run EXCEPT !.pc = "ask"])
    <2>1. /\ DOMAIN run' = DOMAIN Idle /\ run'.pc = "idle" /\ run'.todo = {} /\ run'.acted = FALSE
      BY <1>5 DEF Reserve, Idle
    <2>2. Core' BY <1>1, <2>1, AsideSafe DEF Asking
    <2>3. recon'.ver = recon.ver /\ DOMAIN recon' = {"ver", "pending", "paused"}
      BY <1>1, <1>5 DEF Reserve
    <2>4. Reserved' BY <1>1, <1>2, <2>1, <2>3 DEF Reserved, Asking
    <2> QED BY <1>3, <2>2, <2>4 DEF WatchInv, Core
  <1> QED BY <1>4, <1>5

\* The message goes out under a reservation that no earlier message was sent for.
LEMMA AskSafe == ASSUME WatchInv, Ask PROVE WatchInv'
  <1>1. /\ run.pc = "ask" /\ UNCHANGED <<task, clock, nudged, recon, left>>
        /\ run.key \in Tasks \X Nat /\ run.todo = {} /\ ~run.acted /\ Core /\ Booked
        /\ recon.ver < run.key[2] /\ AskedUpTo(recon.ver) /\ DOMAIN recon = {"ver", "pending", "paused"}
        /\ recon.ver \in Nat /\ asked \in Seq(Messages)
    BY DEF Ask, WatchInv, Core, Reserved, Asking
  <1>2. Booked' BY <1>1 DEF Booked
  <1>3. PICK pc \in {"unasked", "told", "doubtful"} :
           /\ run' = [run EXCEPT !.pc = pc]
           /\ \/ pc = "unasked" /\ asked' = asked
              \/ pc \in {"told", "doubtful"} /\ asked' = Append(asked, projectReconcileMessage(pc))
    BY DEF Ask
  <1>4. /\ DOMAIN run' = DOMAIN Idle /\ run'.pc = pc /\ run'.todo = run.todo /\ run'.acted = run.acted
        /\ run'.key = run.key
    BY <1>3 DEF WatchInv, Shapes, Idle
  <1>5. Core' BY <1>1, <1>4, AsideSafe DEF Asking
  <1>6. CASE pc = "unasked" /\ asked' = asked
    <2>1. \A n : AskedUpTo(n)' = AskedUpTo(n) BY <1>6 DEF AskedUpTo
    <2>2. Reserved' BY <1>1, <1>2, <1>4, <1>6, <2>1 DEF Reserved, Asking
    <2>3. ReconcileOnce' BY <1>6 DEF WatchInv, ReconcileOnce
    <2> QED BY <1>5, <2>2, <2>3 DEF WatchInv, Core
  <1>7. CASE pc \in {"told", "doubtful"} /\ asked' = Append(asked, projectReconcileMessage(pc))
    <2>1. PICK m \in Messages : m = projectReconcileMessage(pc) /\ m.key = run.key
      BY <1>1, <1>7 DEF Messages, projectReconcileMessage
    <2>2. /\ asked' = Append(asked, m) /\ asked' \in Seq(Messages) /\ Len(asked') = Len(asked) + 1
          /\ \A i \in 1..Len(asked) : asked'[i] = asked[i]
          /\ asked'[Len(asked) + 1] = m
          /\ DOMAIN asked = 1..Len(asked) /\ DOMAIN asked' = 1..(Len(asked) + 1) /\ Len(asked) \in Nat
      BY <1>1, <1>7, <2>1
    <2>3. ASSUME NEW i \in DOMAIN asked' PROVE i \in DOMAIN asked \/ i = Len(asked) + 1 BY <2>2
    <2>4. run.key[2] \in Nat /\ \A i \in DOMAIN asked : asked[i].key[2] \in Nat /\ asked[i].key[2] <= recon.ver
      <3>1. \A i \in DOMAIN asked : asked[i] \in Messages BY <1>1
      <3> QED BY <1>1, <3>1 DEF Messages, AskedUpTo
    <2>5. AskedUpTo(run.key[2])'
      <3>1. \A i \in DOMAIN asked' : asked'[i].key[2] <= run.key[2] BY <1>1, <2>1, <2>2, <2>3, <2>4
      <3> QED BY <1>4, <3>1 DEF AskedUpTo
    <2>6. ReconcileOnce'
      <3>1. SUFFICES ASSUME NEW i \in DOMAIN asked', NEW j \in DOMAIN asked', asked'[i].key = asked'[j].key
                     PROVE  i = j
        BY DEF ReconcileOnce
      <3>2. \A k \in DOMAIN asked : asked'[k] = asked[k] /\ asked[k].key # run.key BY <1>1, <2>2, <2>4
      <3> QED BY <2>1, <2>2, <2>3, <3>1, <3>2 DEF WatchInv, ReconcileOnce
    <2>7. Reserved' BY <1>1, <1>2, <1>4, <1>7, <2>2, <2>5 DEF Reserved, Asking
    <2> QED BY <1>5, <2>6, <2>7 DEF WatchInv, Core
  <1> QED BY <1>3, <1>6, <1>7

LEMMA AskedSafe == ASSUME WatchInv, Asked PROVE WatchInv'
  <1>1. /\ run.pc \in {"told", "doubtful", "unasked"} /\ UNCHANGED <<task, clock, nudged, asked, left>> /\ run' = Idle
        /\ run.key \in Tasks \X Nat /\ ~run.acted /\ Core /\ Booked
        /\ DOMAIN recon = {"ver", "pending", "paused"} /\ recon.ver \in Nat /\ asked \in Seq(Messages)
        /\ run.pc = "told" => AskedUpTo(run.key[2])
        /\ run.pc = "unasked" => AskedUpTo(recon.ver)
    BY DEF Asked, WatchInv, Core, Reserved, Asking
  <1>2. \A n : AskedUpTo(n)' = AskedUpTo(n) BY <1>1 DEF AskedUpTo
  <1>3. DOMAIN run' = DOMAIN Idle /\ run'.pc = "idle" /\ run'.todo = {} /\ run'.acted = FALSE BY <1>1 DEF Idle
  <1>4. Core' BY <1>1, <1>3, AsideSafe DEF Asking
  <1>5. ReconcileOnce' BY <1>1 DEF WatchInv, ReconcileOnce
  <1>6. /\ DOMAIN recon' = {"ver", "pending", "paused"} /\ recon'.ver \in Nat
        /\ Booked' \/ AskedUpTo(recon'.ver)
    <2>1. CASE UNCHANGED recon BY <1>1, <2>1 DEF Booked
    <2>2. CASE run.pc = "told" /\ recon' = [recon EXCEPT !.ver = run.key[2], !.pending = None]
      <3>1. recon'.ver = run.key[2] /\ DOMAIN recon' = DOMAIN recon BY <1>1, <2>2
      <3> QED BY <1>1, <2>2, <3>1
    <2>3. CASE run.pc = "doubtful" /\ recon' = [recon EXCEPT !.paused = (space = "user")]
      <3>1. recon'.ver = recon.ver /\ recon'.pending = recon.pending /\ DOMAIN recon' = DOMAIN recon BY <1>1, <2>3
      <3> QED BY <1>1, <3>1 DEF Booked
    <2>4. CASE /\ run.pc = "unasked"
               /\ recon' = [recon EXCEPT !.pending = [stage |-> "PRE_SEND", key |-> run.key],
                                         !.paused = (space = "user")]
      <3>1. recon'.ver = recon.ver /\ DOMAIN recon' = DOMAIN recon BY <1>1, <2>4
      <3> QED BY <1>1, <2>4, <3>1
    <2> QED BY <2>1, <2>2, <2>3, <2>4 DEF Asked
  <1>7. Reserved'
    <2>1. Booked' \/ AskedUpTo(recon.ver)' BY <1>2, <1>6
    <2> QED BY <1>1, <1>3, <1>6, <2>1 DEF Reserved, Asking
  <1> QED BY <1>4, <1>5, <1>7 DEF WatchInv, Core

-----------------------------------------------------------------------------
(* Around the process. *)

LEMMA CrashSafe == ASSUME WatchInv, Crash PROVE WatchInv'
  <1>1. /\ UNCHANGED <<task, clock, recon, asked>> /\ run' = Idle /\ Core
        /\ IF run.t = None THEN UNCHANGED nudged ELSE Lost(run.t)
    BY DEF Crash, WatchInv, Core
  <1>2. run.acted => run.t \in Tasks /\ run.t # None
    BY NothingAssumption DEF WatchInv, Copied, Held, Visiting
  <1>3. DOMAIN run' = DOMAIN Idle /\ run'.pc = "idle" /\ run'.todo = {} /\ run'.acted = FALSE BY <1>1 DEF Idle
  <1>4. \/ ~run.acted /\ nudged' = nudged
        \/ run.acted /\ run.t \in Tasks /\ nudged' = [nudged EXCEPT ![run.t].lost = @ + 1]
    BY <1>1, <1>2 DEF Lost
  <1>5. Core' BY <1>1, <1>3, <1>4, EndsSafe
  <1>6. Reserved' /\ ReconcileOnce' BY <1>1, <1>3, ReservedKept DEF WatchInv, Asking
  <1> QED BY <1>5, <1>6 DEF WatchInv, Core

\* Only the bounds move, the pages and their people, and the queue.
LEMMA OthersSafe ==
  ASSUME WatchInv, UNCHANGED <<task, clock, run, nudged, asked, recon>>, left'.external = left.external
  PROVE  WatchInv'
  BY DEF WatchInv, Shapes, Shaped, Budgeted, Net, Acting, Copied, Held, Counts, Saves, Drafted, Near,
         ReconcileOnly, External, Active, Reserved, Booked, AskedUpTo, ReconcileOnce

LEMMA Happening == ASSUME NEW kind, Happens(kind) PROVE left'.external = left.external
  BY DEF Happens

\* The controller clears a task, or gives it a status and a new version.
LEMMA EditSafe == ASSUME WatchInv, NEW t \in Tasks, Edit(t) PROVE WatchInv'
  <1>1. /\ task[t].status # "GONE" /\ clock' = clock + 1 /\ UNCHANGED <<run, nudged, asked, recon>>
        /\ left'.external = left.external /\ Shapes
    BY Happening DEF Edit, Calm, WatchInv
  <1>2. /\ DOMAIN task' = Tasks /\ \A u \in Tasks : u # t => task'[u] = task[u]
        /\ \/ task'[t] = NoTask
           \/ /\ DOMAIN task'[t] = DOMAIN NewTask /\ task'[t].ver = clock + 1
              /\ task'[t].total = task[t].total
              /\ task'[t].status \in {"RUNNING", "COMPLETE", "UNKNOWN", "RESULT_RECORDED"}
    <2>1. CASE \E s \in {"RUNNING", "COMPLETE", "UNKNOWN"} :
                  task' = [task EXCEPT ![t].status = s, ![t].ver = clock + 1]
      BY <1>1, <2>1 DEF Shapes, Shaped, NewTask
    <2>2. CASE task' = [task EXCEPT ![t].status = "RESULT_RECORDED", ![t].response = FALSE, ![t].ver = clock + 1]
      BY <1>1, <2>2 DEF Shapes, Shaped, NewTask
    <2>3. CASE task' = [task EXCEPT ![t] = NoTask] BY <1>1, <2>3 DEF Shapes
    <2> QED BY <2>1, <2>2, <2>3 DEF Edit
  <1>3. Shaped(NoTask) /\ NoTask.status = "GONE" /\ NoTask.ver = 0
    BY TotalAssumption DEF Shaped, NoTask, NewTask, Statuses
  <1>4. clock \in Nat /\ \A u \in Tasks : Shaped(task[u]) /\ task[u].ver <= clock BY <1>1 DEF Shapes
  <1>5. \A u \in Tasks :
           /\ Shaped(task'[u]) /\ task'[u].ver <= clock'
           /\ task'[u].status = "GONE" \/ (task'[u].total = task[u].total /\ task[u].status # "GONE")
                                       \/ task'[u] = task[u]
           /\ task'[u] = task[u] \/ task'[u].status = "GONE" \/ task'[u].ver = clock + 1
           /\ task[u].status = "GONE" => task'[u] = task[u]
    BY <1>1, <1>2, <1>3, <1>4 DEF Shaped, Statuses, Ended
  <1>6. \A u \in Tasks : Net(u)' = Net(u) /\ Acting(u)' = Acting(u) BY <1>1 DEF Net, Acting
  <1>7. Shapes' BY <1>1, <1>2, <1>4, <1>5 DEF Shapes
  <1>8. Budgeted' BY <1>5, <1>6 DEF WatchInv, Budgeted
  <1>9. Held' = Held BY <1>1 DEF Held
  <1>10. Copied' BY <1>1, <1>5, <1>6, <1>9 DEF WatchInv, Copied, Shaped
  <1>11. ASSUME run.t \in Tasks, Drafted PROVE Drafted'
    <2>1. Near' BY <1>1, <1>4, <1>5, <1>11 DEF Near, Drafted, Shaped
    <2> QED BY <1>1, <1>4, <1>11, <2>1 DEF Drafted, Shaped
  <1>12. Counts'
    <2>1. SUFFICES ASSUME run.pc \in Counting PROVE Counts' BY <1>1 DEF Counts
    <2>2. run.t \in Tasks /\ Counts BY <2>1 DEF WatchInv, Copied, Held, Visiting, Counting
    <2> QED BY <1>1, <1>6, <1>11, <2>1, <2>2 DEF Counts, Active, ReconcileOnly, External
  <1>13. Saves'
    <2>1. SUFFICES ASSUME run.pc = "save" PROVE Saves' BY <1>1 DEF Saves
    <2>2. run.t \in Tasks /\ Saves BY <2>1 DEF WatchInv, Copied, Held, Visiting
    <2> QED BY <1>1, <1>5, <1>6, <1>11, <2>1, <2>2 DEF Saves, ReconcileOnly, External
  <1>14. Reserved' /\ ReconcileOnce' BY <1>1 DEF WatchInv, Reserved, Booked, AskedUpTo, ReconcileOnce
  <1> QED BY <1>7, <1>8, <1>10, <1>12, <1>13, <1>14 DEF WatchInv

-----------------------------------------------------------------------------
(* The invariant holds in every reachable state. *)

LEMMA WatchStart == ASSUME Init PROVE WatchInv
  <1>1. \A t \in Tasks : Shaped(IF t \in left.tasks THEN NewTask ELSE NoTask) /\ NewTask.ver = 0 /\ NoTask.ver = 0
    BY TotalAssumption DEF Shaped, NoTask, NewTask, Statuses
  <1>2. run = Idle /\ clock = 0 /\ asked = <<>> /\ nudged = [t \in Tasks |-> [done |-> 0, lost |-> 0]]
    BY DEF Init
  <1>3. Shapes BY <1>1, <1>2 DEF Shapes, Idle, Init
  <1>4. \A t \in Tasks : Net(t) = 0 /\ Acting(t) = 0 BY <1>2 DEF Net, Acting, Idle
  <1>5. Budgeted BY <1>3, <1>4, TotalAssumption DEF Budgeted, Shapes, Shaped
  <1>6. Copied /\ Counts /\ Saves BY <1>2 DEF Copied, Counts, Saves, Held, Idle, Visiting, Counting
  <1>7. Reserved /\ ReconcileOnce
    BY <1>2 DEF Reserved, ReconcileOnce, AskedUpTo, Idle, Asking, Init
  <1> QED BY <1>3, <1>5, <1>6, <1>7 DEF WatchInv

\* The steps of a scan and of its visits leave the reconciliation alone.
LEMMA VisitsStep ==
  ASSUME WatchInv,
         \/ \E t \in Tasks : Recover(t, left.aggressive) \/ Visit(t)
         \/ Scan(left.aggressive) \/ Retell \/ Open \/ Look \/ Exhausted \/ Running \/ Complete
         \/ Stalled \/ Decide \/ Stop \/ Admit \/ Click \/ Clicked \/ Unconfirmed \/ Failed \/ Save
  PROVE  WatchInv'
  <1>1. Core BY DEF WatchInv, Core
  <1>2. Stepped
    BY <1>1, ScanSafe, RecoverSafe, VisitSafe, RetellSafe, OpenSafe, LookSafe, ExhaustedSafe, RunningSafe,
       CompleteSafe, StalledSafe, DecideSafe, StopSafe, AdmitSafe, ClickSafe, ClickedSafe, UnconfirmedSafe,
       FailedSafe, SaveSafe
  <1>3. UNCHANGED <<recon, asked>> \/ \E t \in Tasks : Recover(t, left.aggressive)
    BY DEF Scan, Visit, Retell, Open, Look, Exhausted, Running, Complete, Stalled, Decide, Stop, Admit, Click,
           Clicked, Unconfirmed, Failed, Save, Reads
  <1>4. CASE UNCHANGED <<recon, asked>>
    BY <1>2, <1>4, ReservedKept DEF WatchInv, Core, Stepped, Visiting, Asking
  <1>5. CASE \E t \in Tasks : Recover(t, left.aggressive)
    <2>1. recon' = [recon EXCEPT !.paused = FALSE] /\ asked' = asked BY <1>5 DEF Recover
    <2>2. /\ DOMAIN recon = {"ver", "pending", "paused"} /\ recon.ver \in Nat /\ asked \in Seq(Messages)
          /\ Booked \/ AskedUpTo(recon.ver)
      BY DEF WatchInv, Reserved
    <2>3. recon'.ver = recon.ver /\ recon'.pending = recon.pending /\ DOMAIN recon' = DOMAIN recon BY <2>1, <2>2
    <2>4. Booked' = Booked /\ \A n : AskedUpTo(n)' = AskedUpTo(n) BY <2>1, <2>3 DEF Booked, AskedUpTo
    <2>5. Reserved' BY <1>2, <2>1, <2>2, <2>3, <2>4 DEF Reserved, Stepped, Visiting, Asking
    <2>6. ReconcileOnce' BY <2>1 DEF WatchInv, ReconcileOnce
    <2> QED BY <1>2, <2>5, <2>6 DEF WatchInv, Core, Stepped
  <1> QED BY <1>3, <1>4, <1>5

LEMMA WatchStep == ASSUME WatchInv, [Next]_vars PROVE WatchInv'
  <1>1. CASE Process
    <2>1. CASE Lifecycle \/ Reserve \/ Ask \/ Asked BY <2>1, LifecycleSafe, ReserveSafe, AskSafe, AskedSafe
    <2> QED BY <1>1, <2>1, VisitsStep DEF Process
  <1>2. CASE Crash BY <1>2, CrashSafe
  <1>3. CASE Person \/ Deliver \/ \E t \in Tasks : Page(t)
    <2>1. UNCHANGED <<task, clock, run, nudged, asked, recon>> /\ left'.external = left.external
      BY <1>3, Happening DEF Person, Deliver, Page, Calm
    <2> QED BY <2>1, OthersSafe
  <1>4. CASE \E t \in Tasks : Edit(t) BY <1>4, EditSafe
  <1>5. CASE UNCHANGED vars BY <1>5, OthersSafe DEF vars
  <1> QED BY <1>1, <1>2, <1>3, <1>4, <1>5 DEF Next

\* The inductive invariant: counts, copies and reservations agree with what was done, also
\* while the process works on a copy that others overtake.  main.js:3818-4307.
THEOREM WatchAgrees == Spec => []WatchInv
  <1>1. Init => WatchInv BY WatchStart
  <1>2. WatchInv /\ [Next]_vars => WatchInv' BY WatchStep
  <1> QED BY <1>1, <1>2, PTL DEF Spec

-----------------------------------------------------------------------------
(* What follows from it. *)

\* RecoveryBudget for every task, budget and schedule: no crash, edit, clearing or late
\* notice makes the watchdog count less than it did and saved.  main.js:3947-3987.
THEOREM BudgetKept == Spec => []RecoveryBudget
  <1>1. WatchInv => RecoveryBudget BY DEF WatchInv, Budgeted, RecoveryBudget, Net, Acting
  <1> QED BY <1>1, WatchAgrees, PTL

\* ReconcileOnce: one message per version of a result, also when the process stops between
\* its reservation, its send and its record.  main.js:3852-3917.
THEOREM AskedOnce == Spec => []ReconcileOnce
  <1>1. WatchInv => ReconcileOnce BY DEF WatchInv
  <1> QED BY <1>1, WatchAgrees, PTL

\* The steps of the process that touch a task: a recover lifts its pause, a save merges.
LEMMA TaskSteps ==
  ASSUME WatchInv, [Next]_vars, run' # run, NEW t \in Tasks
  PROVE  \/ task'[t] = task[t]
         \/ /\ task'[t].status = task[t].status /\ task'[t].total = task[t].total
            /\ run'.pc = "open"
         \/ /\ t = run.t /\ task'[t] = Merged /\ run.pc = "save" /\ ~Conflict
            /\ run'.pc \in {"idle", "scan"}
  <1>1. CASE \E u \in Tasks : Recover(u, left.aggressive)
    <2>1. PICK u \in Tasks : Recover(u, left.aggressive) BY <1>1
    <2>2. PICK ver : ver = IF task[u].paused THEN clock + 1 ELSE task[u].ver OBVIOUS
    <2>3. DOMAIN task = Tasks /\ DOMAIN task[u] = DOMAIN NewTask /\ DOMAIN task[t] = DOMAIN NewTask
      BY DEF WatchInv, Shapes, Shaped
    <2>4. task' = [task EXCEPT ![u].paused = FALSE, ![u].ver = ver]
      BY <2>1, <2>2, <2>3 DEF Recover, Unpaused, NewTask
    <2>5. task'[t].status = task[t].status /\ task'[t].total = task[t].total
      BY <2>3, <2>4 DEF NewTask
    <2>6. run'.pc = "open" BY <2>1 DEF Recover, Idle
    <2> QED BY <2>5, <2>6
  <1>2. CASE Save
    <2>1. CASE task' = task BY <2>1
    <2>2. CASE task' # task
      <3>1. /\ run.pc = "save" /\ ~Conflict /\ task' = [task EXCEPT ![run.t] = Merged] /\ run' = Moved
        BY <1>2, <2>2 DEF Save
      <3>2. DOMAIN task = Tasks BY DEF WatchInv, Shapes
      <3>3. run'.pc \in {"idle", "scan"} BY <3>1 DEF Moved, Idle
      <3>4. CASE t = run.t
        <4>1. PICK m : m = Merged OBVIOUS
        <4>2. task' = [task EXCEPT ![t] = m] BY <3>1, <3>4, <4>1
        <4>3. task'[t] = m BY <3>2, <4>2
        <4>4. task'[t] = Merged BY <4>1, <4>3
        <4>5. run.pc = "save" /\ ~Conflict BY <3>1
        <4> QED BY <3>3, <3>4, <4>4, <4>5
      <3>5. CASE t # run.t BY <3>1, <3>2, <3>5
      <3> QED BY <3>4, <3>5
    <2> QED BY <2>1, <2>2
  <1>3. CASE task' = task BY <1>3
  <1> QED
    BY <1>1, <1>2, <1>3
    DEF Next, Process, vars, Crash, Person, Deliver, Page, Edit, Calm, Scan, Visit, Retell, Open, Look, Exhausted,
        Running, Complete, Stalled, Decide, Stop, Admit, Click, Clicked, Unconfirmed, Failed, Lifecycle, Reserve,
        Ask, Asked, Reads

\* EndedStays: whatever a scan has read before, what its controller or a result has ended
\* is not made active again.  main.js:4149-4222.
THEOREM EndedKept == Spec => EndedStays
  <1> DEFINE Stays == \A t \in Tasks : run' # run /\ task[t].status \in Ended => ~Active(task'[t])
  <1>1. WatchInv /\ [Next]_vars => [Stays]_vars
    <2>1. SUFFICES ASSUME WatchInv, [Next]_vars, NEW t \in Tasks, run' # run, task[t].status \in Ended
                   PROVE  task'[t].status \in Ended
      BY DEF Active
    <2>2. CASE task'[t] = Merged /\ t = run.t /\ run.pc = "save" /\ ~Conflict
      BY <2>1, <2>2, Merges DEF WatchInv, Core
    <2>3. CASE task'[t] = task[t] \/ task'[t].status = task[t].status BY <2>1, <2>3
    <2> QED BY <2>1, <2>2, <2>3, TaskSteps
  <1> QED BY <1>1, WatchAgrees, PTL DEF Spec, EndedStays

\* Only a task that may still be recovered when it is looked at last is acted on.
LEMMA OnlyAdmitted ==
  ASSUME WatchInv, [Next]_vars, run' # run, run'.pc = "click"
  PROVE  run'.t = run.t /\ Recoverable(run.t, task[run.t])
  <1>1. DOMAIN run = DOMAIN Idle BY DEF WatchInv, Shapes
  <1>2. Moved.pc # "click" /\ Idle.pc # "click" /\ run' # Moved /\ run' # Idle /\ ~Leave
    <2>1. Moved.pc \in {"scan", "idle"} /\ Idle.pc = "idle" BY DEF Moved, Idle
    <2> QED BY <2>1 DEF Leave
  <1>3. ~Fail BY <1>1 DEF Fail, Idle
  <1>4. \A next, touch : ~SaveNext(next, touch) BY <1>1 DEF SaveNext, Idle
  <1>5. \A pc : Go(pc) => pc = "click" /\ run'.t = run.t BY <1>1 DEF Go, Idle
  <1>6. ~Retell /\ ~Open /\ ~Look /\ ~Exhausted /\ ~Running
    <2>1. ~Retell /\ ~Exhausted /\ ~Running BY <1>2, <1>4 DEF Retell, Exhausted, Running
    <2>2. ~Open BY <1>1, <1>2, <1>3, <1>4 DEF Open, Idle
    <2>3. ~Look BY <1>2, <1>5 DEF Look
    <2> QED BY <2>1, <2>2, <2>3
  <1>7. ~Complete BY <1>2, <1>3, <1>4 DEF Complete, journalBusy
  <1>8. ~Stalled /\ ~Decide /\ ~Stop
    <2>1. ~Stalled BY <1>2, <1>4 DEF Stalled
    <2>2. ASSUME Decide PROVE FALSE
      <3>1. PICK pc, base, next :
               pc # "click" /\ run' = [run EXCEPT !.pc = pc, !.base = base, !.next = next, !.touch = TRUE]
        <4>1. run' = [run EXCEPT !.pc = IF run.obs.state = "SUSPECT_STALL" THEN "stop" ELSE "admit",
                                 !.base = task[run.t], !.next = Counted(task[run.t], chat[run.t].seq), !.touch = TRUE]
          BY <1>2, <1>4, <2>2 DEF Decide
        <4>2. (IF run.obs.state = "SUSPECT_STALL" THEN "stop" ELSE "admit") # "click" OBVIOUS
        <4> QED BY <4>1, <4>2
      <3> QED BY <1>1, <3>1 DEF Idle
    <2>3. ~Stop BY <1>2, <1>5 DEF Stop
    <2> QED BY <2>1, <2>2, <2>3
  <1>9. ~Click /\ ~Clicked /\ ~Unconfirmed /\ ~Failed /\ ~Save
    <2>1. ~Click BY <1>1 DEF Click, Refused, Idle
    <2>2. ~Clicked BY <1>5 DEF Clicked
    <2>3. ~Unconfirmed BY <1>2, <1>4 DEF Unconfirmed
    <2>4. ~Failed BY <1>2, <1>4 DEF Failed
    <2>5. ~Save BY <1>2 DEF Save
    <2> QED BY <2>1, <2>2, <2>3, <2>4, <2>5
  <1>10. ~Lifecycle /\ ~Reserve /\ ~Ask /\ ~Asked
    <2>1. ~Asked BY <1>2 DEF Asked
    <2>2. ~Lifecycle BY <1>1, <1>2 DEF Lifecycle, EndScan, Idle
    <2>3. ~Reserve BY <1>1, <1>2 DEF Reserve, Idle
    <2>4. ~Ask BY <1>1 DEF Ask, Idle
    <2> QED BY <2>1, <2>2, <2>3, <2>4
  <1>11. ~Scan(left.aggressive) /\ ~\E t \in Tasks : Recover(t, left.aggressive) \/ Visit(t)
    BY <1>1 DEF Scan, Recover, Visit, Idle
  <1>12. ~Crash /\ ~Person /\ ~Deliver /\ ~(UNCHANGED vars) /\ ~\E t \in Tasks : Page(t) \/ Edit(t)
    BY <1>2 DEF vars, Crash, Person, Deliver, Page, Edit, Calm
  <1>13. Admit BY <1>6, <1>7, <1>8, <1>9, <1>10, <1>11, <1>12 DEF Next, Process
  <1> QED BY <1>2, <1>3, <1>5, <1>13 DEF Admit

\* ExternalUntouched: an external task that its adapter has declared UNKNOWN keeps status and
\* budget, and its conversation is not acted on, also when the declaration comes while a
\* scan is at work on it.  task-policy.js:7, docs/architecture.md:188.
THEOREM ExternalKept == Spec => ExternalUntouched
  <1> DEFINE Untouched == \A t \in Tasks : run' # run /\ ReconcileOnly(t, task[t]) =>
                             /\ task'[t].status = "UNKNOWN" /\ task'[t].total = task[t].total
                             /\ ~(run'.pc = "click" /\ run'.t = t)
  <1>1. WatchInv /\ [Next]_vars => [Untouched]_vars
    <2>1. SUFFICES ASSUME WatchInv, [Next]_vars, NEW t \in Tasks, run' # run, ReconcileOnly(t, task[t])
                   PROVE  /\ task'[t].status = "UNKNOWN" /\ task'[t].total = task[t].total
                          /\ ~(run'.pc = "click" /\ run'.t = t)
      OBVIOUS
    <2>2. task'[t].status = "UNKNOWN" /\ task'[t].total = task[t].total
      <3>1. CASE task'[t] = Merged /\ t = run.t /\ run.pc = "save" /\ ~Conflict
        BY <2>1, <3>1, Merges DEF WatchInv, Core
      <3>2. CASE task'[t] = task[t] \/ (task'[t].status = task[t].status /\ task'[t].total = task[t].total)
        BY <2>1, <3>2 DEF ReconcileOnly
      <3> QED BY <2>1, <3>1, <3>2, TaskSteps
    <2>3. ASSUME run'.pc = "click", run'.t = t PROVE FALSE
      BY <2>1, <2>3, OnlyAdmitted DEF Recoverable
    <2> QED BY <2>2, <2>3
  <1> QED BY <1>1, WatchAgrees, PTL DEF Spec, ExternalUntouched
=============================================================================
