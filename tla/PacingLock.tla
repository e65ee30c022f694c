----------------------------- MODULE PacingLock -----------------------------
(***************************************************************************)
(* The cross-process pacing lock of bin/chat-bridge, for one account.      *)
(*                                                                         *)
(* Every command that touches ChatGPT Web makes a lock directory, writes   *)
(* its process id into it, waits until the last run of the browser client  *)
(* is long enough ago, runs the client (src/ego-runner.py, in a session of *)
(* its own), stamps the end of the run and removes the directory in its    *)
(* exit trap.  A command that finds the directory asks whether the process *)
(* in it lives and removes the directory of a dead one.                    *)
(*                                                                         *)
(* Times are kept as ages and countdowns that Tick moves, so that time has *)
(* no bound.  An age is not counted beyond HeavyInterval: the script asks  *)
(* no more of it.  Process ids are not reused.                             *)
(***************************************************************************)
EXTENDS Naturals

CONSTANTS
    Commands,       \* runs of bin/chat-bridge with TOUCH_UI=1 and one PACE_SCOPE
    Heavy,          \* those with HEAVY_UI=1
    Interval,       \* UI_MIN_INTERVAL_SEC
    HeavyInterval,  \* UI_HEAVY_INTERVAL_SEC
    InlineWait,     \* MAX_INLINE_WAIT_SEC
    LockWait,       \* LOCK_WAIT_SEC
    Kills,          \* what SIGKILL hits: "none", the "shell", or "all" of a command
    Signals,        \* whether INT and TERM are sent to the shell
    NOBODY          \* NOBODY: no directory, no pid file, no stamp file

ASSUME HeavyAssumption == Heavy \subseteq Commands
ASSUME TimeAssumption == /\ Interval \in Nat /\ HeavyInterval \in Nat
                         /\ InlineWait \in Nat /\ LockWait \in Nat
                         /\ Interval <= HeavyInterval
ASSUME KillsAssumption == Kills \in {"none", "shell", "all"} /\ Signals \in BOOLEAN
ASSUME NobodyAssumption == NOBODY \notin Commands /\ NOBODY \notin Nat

Ages == 0..HeavyInterval

VARIABLES
    pc,         \* where the script of a command is
    dir,        \* LOCK_DIR: the command that made it
    pid,        \* LOCK_DIR/pid
    held,       \* the commands with LOCK_HELD=1
    old,        \* OLD_PID
    resume,     \* where a command goes on when its `rm -rf` is done
    timer,      \* rest of the lock wait, later of the sleep
    client,     \* the commands with a living browser client
    last,       \* age of the stamp in STAMP_FILE
    heavyLast,  \* age of the stamp in HEAVY_STAMP_FILE, NOBODY before there is one
    rest,       \* history: time since a browser client ran
    heavyRest,  \* history: time since the client of a heavy command ran
    overtaken,  \* history: a dead command's directory was removed when it had
                \* become another's already, or a command went on without its lock
    unstamped   \* history: a client ended and its end was not stamped

lockVars == <<dir, pid>>
timeVars == <<last, heavyLast, rest, heavyRest>>
vars == <<pc, dir, pid, held, old, resume, timer, client, timeVars, overtaken, unstamped>>

Places == {"start", "mkdir", "read", "check", "unlink", "rmdir", "busy", "write",
           "stamps", "sleep", "run", "stamp", "exit", "done", "dead"}
\* Where a command that may hold the lock is between two steps.
Working == {"write", "stamps", "sleep", "stamp"}

Init ==
    /\ pc = [p \in Commands |-> "start"]
    /\ dir = NOBODY /\ pid = NOBODY
    /\ held = {} /\ client = {}
    /\ old = [p \in Commands |-> NOBODY]
    /\ resume = [p \in Commands |-> "exit"]
    /\ timer = [p \in Commands |-> 0]
    /\ last \in Ages
    /\ heavyLast \in {age \in Ages : age >= last} \cup {NOBODY}
    /\ rest = HeavyInterval /\ heavyRest = HeavyInterval
    /\ overtaken = FALSE /\ unstamped = FALSE

Goto(p, place) == pc' = [pc EXCEPT ![p] = place]

\* rm -rf "$LOCK_DIR", then on to `place`.
Remove(p, place) ==
    /\ Goto(p, "unlink")
    /\ resume' = [resume EXCEPT ![p] = place]

-----------------------------------------------------------------------------
(* Taking the lock.                                                        *)

Start(p) ==
    /\ pc[p] = "start"
    /\ timer' = [timer EXCEPT ![p] = LockWait]
    /\ Goto(p, "mkdir")
    /\ UNCHANGED <<lockVars, held, old, resume, client, timeVars, overtaken, unstamped>>

Mkdir(p) ==
    /\ pc[p] = "mkdir"
    /\ IF dir = NOBODY
       THEN dir' = p /\ held' = held \cup {p} /\ Goto(p, "write")
       ELSE Goto(p, "read") /\ UNCHANGED <<dir, held>>
    /\ UNCHANGED <<pid, old, resume, timer, client, timeVars, overtaken, unstamped>>

\* OLD_PID, empty if there is no pid file (any more).
ReadPid(p) ==
    /\ pc[p] = "read"
    /\ old' = [old EXCEPT ![p] = pid]
    /\ Goto(p, "check")
    /\ UNCHANGED <<lockVars, held, resume, timer, client, timeVars, overtaken, unstamped>>

\* Mutant: a directory that names no process is taken for a dead one's.
CheckPidEmptyToo(p) ==
    /\ pc[p] = "check"
    /\ IF old[p] = NOBODY \/ (old[p] # NOBODY /\ pc[old[p]] \in {"done", "dead"})
       THEN Remove(p, "mkdir")
       ELSE Goto(p, "busy") /\ UNCHANGED resume
    /\ UNCHANGED <<lockVars, held, old, timer, client, timeVars, overtaken, unstamped>>

\* Mutant: kill -0 is not asked.
CheckPidNever(p) ==
    /\ pc[p] = "check"
    /\ Goto(p, "busy")
    /\ UNCHANGED <<resume, lockVars, held, old, timer, client, timeVars, overtaken, unstamped>>

\* kill -0: a process that ended of itself is as dead as a killed one.
CheckPid(p) ==
    /\ pc[p] = "check"
    /\ IF old[p] # NOBODY /\ pc[old[p]] \in {"done", "dead"}
       THEN Remove(p, "mkdir")
       ELSE Goto(p, "busy") /\ UNCHANGED resume
    /\ UNCHANGED <<lockVars, held, old, timer, client, timeVars, overtaken, unstamped>>

\* Mutant: wait for the lock as long as it takes.
BusyForever(p) ==
    /\ pc[p] = "busy"
    /\ Goto(p, "mkdir")
    /\ UNCHANGED <<lockVars, held, old, resume, timer, client, timeVars, overtaken, unstamped>>

\* Give up (PACING_DEFERRED, UI_LOCK_BUSY) after LOCK_WAIT_SEC, or try again.
Busy(p) ==
    /\ pc[p] = "busy"
    /\ Goto(p, IF timer[p] = 0 THEN "exit" ELSE "mkdir")
    /\ UNCHANGED <<lockVars, held, old, resume, timer, client, timeVars, overtaken, unstamped>>

\* set -e: without the directory the write fails and the script ends.
WritePid(p) ==
    /\ pc[p] = "write"
    /\ IF dir = NOBODY
       THEN Goto(p, "exit") /\ UNCHANGED pid
       ELSE Goto(p, "stamps") /\ pid' = p
    /\ UNCHANGED <<dir, held, old, resume, timer, client, timeVars, overtaken, unstamped>>

-----------------------------------------------------------------------------
(* rm -rf, in two steps: the pid file, then the directory unless somebody  *)
(* has put a pid file into it meanwhile.                                   *)

\* The directory is not that of the dead command it is removed for.
Overtakes(p) == resume[p] = "mkdir" /\ dir # NOBODY /\ old[p] \notin {dir, NOBODY}

Unlink(p) ==
    /\ pc[p] = "unlink"
    /\ pid' = NOBODY
    /\ overtaken' = (overtaken \/ Overtakes(p))
    /\ Goto(p, "rmdir")
    /\ UNCHANGED <<dir, held, old, resume, timer, client, timeVars, unstamped>>

Rmdir(p) ==
    /\ pc[p] = "rmdir"
    /\ dir' = IF pid = NOBODY THEN NOBODY ELSE dir
    /\ overtaken' = (overtaken \/ Overtakes(p))
    /\ held' = IF resume[p] = "mkdir" THEN held ELSE held \ {p}
    /\ Goto(p, resume[p])
    /\ UNCHANGED <<pid, old, resume, timer, client, timeVars, unstamped>>

-----------------------------------------------------------------------------
(* Pacing and the run.                                                     *)

Remaining(interval, age) == IF age >= interval THEN 0 ELSE interval - age

\* A missing heavy stamp starts as a copy of the other.
HeavyAge == IF heavyLast = NOBODY THEN last ELSE heavyLast

\* Mutant: a heavy command waits for the heavy interval alone.
WaitSecOne(p) == IF p \in Heavy THEN Remaining(HeavyInterval, HeavyAge)
                                ELSE Remaining(Interval, last)

\* How long a command waits; a heavy one for both intervals.
WaitSec(p) ==
    LET normal == Remaining(Interval, last)
        heavy == Remaining(HeavyInterval, HeavyAge)
    IN  IF p \in Heavy /\ heavy > normal THEN heavy ELSE normal

\* A command that would wait too long drops the lock and is deferred
\* (PACING_DEFERRED, UI_PACING).
ReadStamps(p) ==
    /\ pc[p] = "stamps"
    /\ heavyLast' = HeavyAge
    /\ IF WaitSec(p) > InlineWait
       THEN Remove(p, "exit") /\ UNCHANGED timer
       ELSE timer' = [timer EXCEPT ![p] = WaitSec(p)] /\ Goto(p, "sleep") /\ UNCHANGED resume
    /\ UNCHANGED <<lockVars, held, old, client, last, rest, heavyRest, overtaken, unstamped>>

\* The sleep is over: ego-runner starts the client.
Run(p) ==
    /\ pc[p] = "sleep"
    /\ timer[p] = 0
    /\ client' = client \cup {p}
    /\ rest' = 0
    /\ heavyRest' = IF p \in Heavy THEN 0 ELSE heavyRest
    /\ Goto(p, "run")
    /\ UNCHANGED <<lockVars, held, old, resume, timer, last, heavyLast, overtaken, unstamped>>

\* The client ends, of itself or at EGO_CLIENT_TIMEOUT_SEC.
ClientEnds(p) ==
    /\ p \in client
    /\ client' = client \ {p}
    /\ IF pc[p] = "run" THEN Goto(p, "stamp") /\ UNCHANGED unstamped
                        ELSE unstamped' = TRUE /\ UNCHANGED pc
    /\ UNCHANGED <<lockVars, held, old, resume, timer, timeVars, overtaken>>

\* Write the stamp or stamps.
Stamp(p) ==
    /\ pc[p] = "stamp"
    /\ last' = 0
    /\ heavyLast' = IF p \in Heavy THEN 0 ELSE heavyLast
    /\ Goto(p, "exit")
    /\ UNCHANGED <<lockVars, held, old, resume, timer, client, rest, heavyRest,
                   overtaken, unstamped>>

-----------------------------------------------------------------------------
(* The end of a command, expected or not.                                  *)

\* The exit trap.
Exit(p) ==
    /\ pc[p] = "exit"
    /\ IF p \in held THEN Remove(p, "done") ELSE Goto(p, "done") /\ UNCHANGED resume
    /\ UNCHANGED <<lockVars, held, old, timer, client, timeVars, overtaken, unstamped>>

\* set -e: a command of the script fails.
Fail(p) ==
    /\ pc[p] \in Working
    /\ Goto(p, "exit")
    /\ unstamped' = (unstamped \/ pc[p] = "stamp")
    /\ UNCHANGED <<lockVars, held, old, resume, timer, client, timeVars, overtaken>>

\* INT or TERM: the trap drops the lock, and the script goes on.  The shell
\* runs the trap when the command it waits for has ended.
Interrupt(p) ==
    /\ Signals
    /\ pc[p] \in Working
    /\ pc[p] = "sleep" => timer[p] = 0
    /\ p \in held
    /\ Remove(p, pc[p])
    /\ overtaken' = TRUE
    /\ UNCHANGED <<lockVars, held, old, timer, client, timeVars, unstamped>>

\* SIGKILL.
Kill(p) ==
    /\ Kills # "none"
    /\ pc[p] \notin {"start", "done", "dead"}
    /\ Goto(p, "dead")
    /\ client' = IF Kills = "all" THEN client \ {p} ELSE client
    /\ unstamped' = (unstamped \/ pc[p] = "stamp" \/ (Kills = "all" /\ p \in client))
    /\ overtaken' = (overtaken \/ (Kills = "shell" /\ p \in client))
    /\ UNCHANGED <<lockVars, held, old, resume, timer, timeVars>>

-----------------------------------------------------------------------------
Older(age) == IF age = HeavyInterval THEN age ELSE age + 1

Tick ==
    /\ timer' = [p \in Commands |-> IF timer[p] = 0 THEN 0 ELSE timer[p] - 1]
    /\ last' = Older(last)
    /\ heavyLast' = IF heavyLast = NOBODY THEN NOBODY ELSE Older(heavyLast)
    /\ rest' = IF client = {} THEN Older(rest) ELSE 0
    /\ heavyRest' = IF client \cap Heavy = {} THEN Older(heavyRest) ELSE 0
    /\ UNCHANGED <<pc, lockVars, held, old, resume, client, overtaken, unstamped>>

Step(p) ==
    \/ Start(p) \/ Mkdir(p) \/ ReadPid(p) \/ CheckPid(p) \/ Busy(p) \/ WritePid(p)
    \/ Unlink(p) \/ Rmdir(p) \/ ReadStamps(p) \/ Run(p) \/ Stamp(p) \/ Exit(p)

Next ==
    \/ \E p \in Commands : Step(p) \/ ClientEnds(p) \/ Fail(p) \/ Interrupt(p) \/ Kill(p)
    \/ Tick

Spec == Init /\ [][Next]_vars

-----------------------------------------------------------------------------
(* Properties.                                                             *)

\* The variables hold commands, places and times of the script.
TypeOK ==
    /\ pc \in [Commands -> Places]
    /\ dir \in Commands \cup {NOBODY} /\ pid \in Commands \cup {NOBODY}
    /\ held \subseteq Commands /\ client \subseteq Commands
    /\ old \in [Commands -> Commands \cup {NOBODY}]
    /\ resume \in [Commands -> {"mkdir", "exit", "done"} \cup Working]
    /\ timer \in [Commands -> Nat]
    /\ last \in Ages /\ heavyLast \in Ages \cup {NOBODY}
    /\ rest \in Ages /\ heavyRest \in Ages
    /\ overtaken \in BOOLEAN /\ unstamped \in BOOLEAN

\* "Concurrent commands cannot both enter Ego/browser work."
Exclusive == \A p, q \in client : p = q

\* Two browser clients run at once only after the directory of a dead command
\* was removed when another command had made it its own, after a signal whose
\* trap drops the lock and lets the script go on, or after a SIGKILL that leaves
\* the client alive: not after any other crash, a failing step or a lock left
\* without a pid.
Serialized == ~overtaken => Exclusive

\* Under the same condition no directory of a command stays behind, however it
\* ends, short of SIGKILL.
Released == ~overtaken => \A p \in Commands : pc[p] = "done" => dir # p

\* The lock is safe: exclusive while it is held, and given back.  bin/chat-bridge:301-345.
LockSafe == Serialized /\ Released

SpacedStep ==
    ~overtaken /\ ~unstamped =>
        \A p \in client' \ client :
            /\ rest >= Interval
            /\ p \in Heavy => heavyRest >= HeavyInterval

\* A client starts only when the last one has been over for UI_MIN_INTERVAL_SEC
\* and, for a heavy command, the last heavy one for UI_HEAVY_INTERVAL_SEC,
\* unless a client's end went unstamped.
Spaced == [][SpacedStep]_vars

-----------------------------------------------------------------------------
(* The operating system runs every process, sleeps end, and ego-runner     *)
(* stops a client at its time limit.  Nothing else is assumed of failures, *)
(* signals and kills.                                                      *)

Fairness ==
    /\ \A p \in Commands : WF_vars(Step(p)) /\ WF_vars(ClientEnds(p))
    /\ WF_vars(Tick)

FairSpec == Spec /\ Fairness

\* Every command runs, is deferred or fails in the end: nobody waits for ever,
\* not even for the lock of a command killed before it wrote its pid.
EveryCommandEnds == \A p \in Commands : <>(pc[p] \in {"done", "dead"})

\* A command that waits gets the lock of a killed one out of the way.
Recovered ==
    \A p, q \in Commands :
        pc[p] = "dead" /\ pid = p /\ pc[q] = "mkdir" ~> pid # p \/ pc[q] = "dead"
=============================================================================
