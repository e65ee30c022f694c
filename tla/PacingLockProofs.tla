-------------------------- MODULE PacingLockProofs --------------------------
(* Theorems about the lock of PacingLock, for any number of commands, any  *)
(* intervals, kills and signals.                                           *)
EXTENDS PacingLock, TLAPS

-----------------------------------------------------------------------------
(* Types.                                                                  *)

LEMMA OlderType ==
    ASSUME NEW age \in Ages
    PROVE  Older(age) \in Ages /\ Older(age) >= age
  BY TimeAssumption DEF Older, Ages

LEMMA OlderMonotone ==
    ASSUME NEW age \in Ages, NEW other \in Ages, age <= other
    PROVE  Older(age) <= Older(other)
  BY TimeAssumption DEF Older, Ages

LEMMA RemainingType ==
    ASSUME NEW interval \in Nat, NEW age \in Nat
    PROVE  Remaining(interval, age) \in Nat /\ Remaining(interval, age) + age >= interval
  BY DEF Remaining

LEMMA HeavyAgeType == ASSUME TypeOK PROVE HeavyAge \in Ages
  BY DEF TypeOK, HeavyAge

\* What a command waits for is at least what is left of either interval.
LEMMA WaitSecType ==
    ASSUME TypeOK, NEW p \in Commands
    PROVE  /\ WaitSec(p) \in Nat
           /\ WaitSec(p) + last >= Interval
           /\ p \in Heavy => WaitSec(p) + HeavyAge >= HeavyInterval
  <1> DEFINE normal == Remaining(Interval, last)
             heavy == Remaining(HeavyInterval, HeavyAge)
  <1>1. last \in Nat /\ HeavyAge \in Nat
    BY HeavyAgeType, TimeAssumption DEF TypeOK, Ages
  <1>2. normal \in Nat /\ normal + last >= Interval
    BY <1>1, RemainingType, TimeAssumption
  <1>3. heavy \in Nat /\ heavy + HeavyAge >= HeavyInterval
    BY <1>1, RemainingType, TimeAssumption
  <1>4. WaitSec(p) = IF p \in Heavy /\ heavy > normal THEN heavy ELSE normal
    BY DEF WaitSec
  <1> HIDE DEF normal, heavy
  <1>5. CASE p \in Heavy /\ heavy > normal
    <2>1. WaitSec(p) = heavy /\ heavy + last >= Interval
      BY <1>1, <1>2, <1>3, <1>4, <1>5, TimeAssumption
    <2> QED
      BY <2>1, <1>3
  <1>6. CASE ~(p \in Heavy /\ heavy > normal)
    <2>1. WaitSec(p) = normal
      BY <1>4, <1>6
    <2>2. p \in Heavy => normal + HeavyAge >= HeavyInterval
      BY <1>1, <1>2, <1>3, <1>6, TimeAssumption
    <2> QED
      BY <2>1, <2>2, <1>2
  <1> QED
    BY <1>5, <1>6

LEMMA InitType == Init => TypeOK
  <1> SUFFICES ASSUME Init PROVE TypeOK
    OBVIOUS
  <1>1. /\ pc \in [Commands -> Places]
        /\ resume \in [Commands -> {"mkdir", "exit", "done"} \cup Working]
        /\ timer \in [Commands -> Nat]
        /\ old \in [Commands -> Commands \cup {NOBODY}]
    BY DEF Init, Places
  <1>2. last \in Ages /\ heavyLast \in Ages \cup {NOBODY}
    BY DEF Init
  <1>3. rest \in Ages /\ heavyRest \in Ages
    BY TimeAssumption DEF Init, Ages
  <1> QED
    BY <1>1, <1>2, <1>3 DEF Init, TypeOK

LEMMA NextType == TypeOK /\ [Next]_vars => TypeOK'
  <1> SUFFICES ASSUME TypeOK, [Next]_vars PROVE TypeOK'
    OBVIOUS
  <1> USE DEF Places, Working
  <1>1. ASSUME NEW p \in Commands, Start(p) PROVE TypeOK'
    BY <1>1, TimeAssumption DEF Start, TypeOK, Goto, lockVars, timeVars
  <1>2. ASSUME NEW p \in Commands, Mkdir(p) PROVE TypeOK'
    BY <1>2 DEF Mkdir, TypeOK, Goto, timeVars
  <1>3. ASSUME NEW p \in Commands, ReadPid(p) PROVE TypeOK'
    BY <1>3 DEF ReadPid, TypeOK, Goto, lockVars, timeVars
  <1>4. ASSUME NEW p \in Commands, CheckPid(p) PROVE TypeOK'
    BY <1>4 DEF CheckPid, TypeOK, Goto, Remove, lockVars, timeVars
  <1>5. ASSUME NEW p \in Commands, Busy(p) PROVE TypeOK'
    BY <1>5 DEF Busy, TypeOK, Goto, lockVars, timeVars
  <1>6. ASSUME NEW p \in Commands, WritePid(p) PROVE TypeOK'
    BY <1>6 DEF WritePid, TypeOK, Goto, timeVars
  <1>7. ASSUME NEW p \in Commands, Unlink(p) PROVE TypeOK'
    BY <1>7 DEF Unlink, TypeOK, Goto, timeVars, Overtakes
  <1>8. ASSUME NEW p \in Commands, Rmdir(p) PROVE TypeOK'
    BY <1>8 DEF Rmdir, TypeOK, Goto, timeVars, Overtakes
  <1>9. ASSUME NEW p \in Commands, ReadStamps(p) PROVE TypeOK'
    <2>1. WaitSec(p) \in Nat /\ HeavyAge \in Ages
      BY WaitSecType, HeavyAgeType
    <2> QED
      BY <1>9, <2>1 DEF ReadStamps, TypeOK, Goto, Remove, lockVars
  <1>10. ASSUME NEW p \in Commands, Run(p) \/ Stamp(p) PROVE TypeOK'
    BY <1>10, TimeAssumption DEF Run, Stamp, TypeOK, Goto, lockVars, Ages
  <1>11. ASSUME NEW p \in Commands, ClientEnds(p) \/ Fail(p) PROVE TypeOK'
    BY <1>11 DEF ClientEnds, Fail, TypeOK, Goto, lockVars, timeVars
  <1>12. ASSUME NEW p \in Commands, Exit(p) PROVE TypeOK'
    BY <1>12 DEF Exit, TypeOK, Goto, Remove, lockVars, timeVars
  <1>13. ASSUME NEW p \in Commands, Interrupt(p) PROVE TypeOK'
    BY <1>13 DEF Interrupt, TypeOK, Goto, Remove, lockVars, timeVars
  <1>14. ASSUME NEW p \in Commands, Kill(p) PROVE TypeOK'
    BY <1>14 DEF Kill, TypeOK, Goto, lockVars, timeVars
  <1>15. CASE Tick
    <2>1. timer' \in [Commands -> Nat]
      BY <1>15 DEF Tick, TypeOK
    <2>2. last' \in Ages /\ heavyLast' \in Ages \cup {NOBODY}
      BY <1>15, OlderType DEF Tick, TypeOK
    <2>3. rest' \in Ages /\ heavyRest' \in Ages
      BY <1>15, OlderType, TimeAssumption DEF Tick, TypeOK, Ages
    <2> QED
      BY <1>15, <2>1, <2>2, <2>3 DEF Tick, TypeOK, lockVars
  <1>16. CASE UNCHANGED vars
    BY <1>16 DEF vars, timeVars, TypeOK
  <1> QED
    BY <1>1, <1>2, <1>3, <1>4, <1>5, <1>6, <1>7, <1>8, <1>9, <1>10, <1>11, <1>12, <1>13,
       <1>14, <1>15, <1>16 DEF Next, Step

\* The variables keep their types in every state of every behaviour.
THEOREM LockTypeCorrect == Spec => []TypeOK
  BY InitType, NextType, PTL DEF Spec

-----------------------------------------------------------------------------
(* The lock.  A living command that holds it is the maker of the directory *)
(* as long as nobody is overtaken.                                         *)

Holding(p) == \/ pc[p] \in {"write", "stamps", "sleep", "run", "stamp"}
              \/ pc[p] \in {"unlink", "rmdir"} /\ resume[p] # "mkdir"

\* LOCK_HELD and the place of the script agree, and so do the browser client
\* and the place.
PlacesAgree ==
    \A p \in Commands :
        /\ Holding(p) => p \in held
        /\ p \in held => Holding(p) \/ pc[p] \in {"exit", "dead"}
        /\ p \in client <=> pc[p] = "run"
        /\ resume[p] \in {"mkdir", "exit", "done"}

\* Who removes another's directory has seen that it was dead.
Judged ==
    \A q \in Commands :
        pc[q] \in {"unlink", "rmdir"} /\ resume[q] = "mkdir" =>
            old[q] \in Commands /\ pc[old[q]] \in {"done", "dead"}

\* The directory and its pid file belong to the one that holds the lock.
Owned ==
    /\ \A p \in held : pc[p] # "dead" => dir = p
    /\ \A p \in Commands : dir = p => p \in held
    /\ pid # NOBODY => dir = pid
    /\ \A p \in held : pc[p] \in {"write", "rmdir"} => pid = NOBODY

LockInv == ~overtaken => PlacesAgree /\ Judged /\ Owned

LEMMA InitLock == Init => LockInv
  BY NobodyAssumption DEF Init, LockInv, PlacesAgree, Judged, Owned, Holding

LEMMA PlacesStep == TypeOK /\ PlacesAgree /\ [Next]_vars /\ ~overtaken' => PlacesAgree'
  <1> SUFFICES ASSUME TypeOK, PlacesAgree, [Next]_vars, ~overtaken' PROVE PlacesAgree'
    OBVIOUS
  <1> USE DEF PlacesAgree, Holding, TypeOK, Goto, Remove
  <1>1. ASSUME NEW p \in Commands, Start(p) \/ Mkdir(p) \/ ReadPid(p) PROVE PlacesAgree'
    BY <1>1 DEF Start, Mkdir, ReadPid
  <1>2. ASSUME NEW p \in Commands, CheckPid(p) \/ Busy(p) \/ WritePid(p) PROVE PlacesAgree'
    BY <1>2 DEF CheckPid, Busy, WritePid
  <1>3. ASSUME NEW p \in Commands, Unlink(p) \/ Exit(p) PROVE PlacesAgree'
    BY <1>3 DEF Unlink, Exit
  <1>4. ASSUME NEW p \in Commands, Rmdir(p) PROVE PlacesAgree'
    BY <1>4 DEF Rmdir
  <1>5. ASSUME NEW p \in Commands, ReadStamps(p) PROVE PlacesAgree'
    BY <1>5 DEF ReadStamps
  <1>6. ASSUME NEW p \in Commands, Run(p) \/ Stamp(p) \/ ClientEnds(p) PROVE PlacesAgree'
    BY <1>6 DEF Run, Stamp, ClientEnds
  <1>7. ASSUME NEW p \in Commands, Fail(p) PROVE PlacesAgree'
    BY <1>7 DEF Fail, Working
  <1>8. ASSUME NEW p \in Commands, Interrupt(p) PROVE PlacesAgree'
    BY <1>8 DEF Interrupt
  <1>9. ASSUME NEW p \in Commands, Kill(p) PROVE PlacesAgree'
    BY <1>9, KillsAssumption DEF Kill
  <1>10. CASE Tick \/ UNCHANGED vars
    BY <1>10 DEF Tick, vars
  <1> QED
    BY <1>1, <1>2, <1>3, <1>4, <1>5, <1>6, <1>7, <1>8, <1>9, <1>10 DEF Next, Step

LEMMA JudgedStep ==
    TypeOK /\ PlacesAgree /\ Judged /\ [Next]_vars /\ ~overtaken' => Judged'
  <1> SUFFICES ASSUME TypeOK, PlacesAgree, Judged, [Next]_vars, ~overtaken' PROVE Judged'
    OBVIOUS
  <1> USE DEF Judged, TypeOK, Goto, Remove
  <1>1. ASSUME NEW p \in Commands, Start(p) \/ Mkdir(p) \/ ReadPid(p) PROVE Judged'
    BY <1>1 DEF Start, Mkdir, ReadPid
  <1>2. ASSUME NEW p \in Commands, CheckPid(p) PROVE Judged'
    BY <1>2, NobodyAssumption DEF CheckPid
  <1>3. ASSUME NEW p \in Commands, Busy(p) \/ WritePid(p) \/ Unlink(p) PROVE Judged'
    BY <1>3 DEF Busy, WritePid, Unlink
  <1>4. ASSUME NEW p \in Commands, Rmdir(p) \/ Exit(p) PROVE Judged'
    BY <1>4 DEF Rmdir, Exit, PlacesAgree
  <1>5. ASSUME NEW p \in Commands, ReadStamps(p) PROVE Judged'
    BY <1>5 DEF ReadStamps
  <1>6. ASSUME NEW p \in Commands, Run(p) \/ Stamp(p) \/ ClientEnds(p) PROVE Judged'
    BY <1>6 DEF Run, Stamp, ClientEnds
  <1>7. ASSUME NEW p \in Commands, Fail(p) \/ Kill(p) PROVE Judged'
    BY <1>7 DEF Fail, Kill, Working
  <1>8. ASSUME NEW p \in Commands, Interrupt(p) PROVE Judged'
    BY <1>8 DEF Interrupt
  <1>9. CASE Tick \/ UNCHANGED vars
    BY <1>9 DEF Tick, vars
  <1> QED
    BY <1>1, <1>2, <1>3, <1>4, <1>5, <1>6, <1>7, <1>8, <1>9 DEF Next, Step

\* What the removal for a dead command takes away is nobody's.
LEMMA RemovedUnheld ==
    ASSUME TypeOK, PlacesAgree, Judged, Owned, NEW q \in Commands,
           pc[q] \in {"unlink", "rmdir"}, resume[q] = "mkdir", ~Overtakes(q)
    PROVE  \A p \in held : pc[p] = "dead"
  <1> SUFFICES ASSUME NEW p \in held, pc[p] # "dead" PROVE FALSE
    OBVIOUS
  <1>1. dir = p /\ p \in Commands
    BY DEF Owned, TypeOK
  <1>2. old[q] \in Commands /\ pc[old[q]] \in {"done", "dead"}
    BY DEF Judged
  <1>3. old[q] = p
    BY <1>1, <1>2, NobodyAssumption DEF Overtakes
  <1>4. pc[p] # "done"
    BY <1>1 DEF PlacesAgree, Holding
  <1> QED
    BY <1>2, <1>3, <1>4

LEMMA OwnedStep ==
    TypeOK /\ PlacesAgree /\ Judged /\ Owned /\ [Next]_vars /\ ~overtaken'
        => Owned'
  <1> SUFFICES ASSUME TypeOK, PlacesAgree, Judged, Owned, [Next]_vars, ~overtaken'
               PROVE  Owned'
    OBVIOUS
  <1>1. ASSUME NEW p \in Commands, Start(p) \/ ReadPid(p) \/ CheckPid(p) \/ Busy(p)
        PROVE  Owned'
    BY <1>1 DEF Start, ReadPid, CheckPid, Busy, Owned, TypeOK, Goto, Remove, lockVars
  <1>2. ASSUME NEW p \in Commands, Mkdir(p) PROVE Owned'
    <2>1. CASE dir = NOBODY
      <3>1. pid = NOBODY /\ \A q \in held : pc[q] = "dead"
        BY <2>1, NobodyAssumption DEF Owned, TypeOK
      <3>2. dir' = p /\ held' = held \cup {p} /\ pc' = [pc EXCEPT ![p] = "write"] /\ pid' = pid
        BY <1>2, <2>1 DEF Mkdir, Goto
      <3>3. \A q \in held' : q = p \/ pc'[q] = "dead"
        BY <3>1, <3>2 DEF TypeOK
      <3>4. pid' = NOBODY
        BY <3>1, <3>2
      <3> QED
        BY <3>2, <3>3, <3>4 DEF Owned
    <2>2. CASE dir # NOBODY
      BY <1>2, <2>2 DEF Mkdir, Owned, TypeOK, Goto
    <2> QED
      BY <2>1, <2>2
  <1>3. ASSUME NEW p \in Commands, WritePid(p) PROVE Owned'
    <2>1. p \in held /\ dir = p
      BY <1>3 DEF WritePid, PlacesAgree, Holding, Owned
    <2>2. pid' = p /\ dir' = dir /\ held' = held /\ pc' = [pc EXCEPT ![p] = "stamps"]
      BY <1>3, <2>1, NobodyAssumption DEF WritePid, Goto
    <2>3. \A q \in held : q # p => pc[q] = "dead"
      BY <2>1 DEF Owned
    <2> QED
      BY <2>1, <2>2, <2>3 DEF Owned, TypeOK
  <1>4. ASSUME NEW p \in Commands, Unlink(p) PROVE Owned'
    BY <1>4 DEF Unlink, Owned, TypeOK, Goto
  <1>5. ASSUME NEW p \in Commands, Rmdir(p) PROVE Owned'
    <2>1. /\ pc' = [pc EXCEPT ![p] = resume[p]] /\ pid' = pid
          /\ dir' = IF pid = NOBODY THEN NOBODY ELSE dir
          /\ held' = IF resume[p] = "mkdir" THEN held ELSE held \ {p}
          /\ resume[p] \in {"mkdir", "exit", "done"} /\ pc[p] = "rmdir"
      BY <1>5 DEF Rmdir, Goto, PlacesAgree
    <2>2. \A q \in held' : pc'[q] = "dead"
      <3>1. CASE resume[p] = "mkdir"
        <4>1. \A q \in held : pc[q] = "dead"
          BY <1>5, <2>1, <3>1, RemovedUnheld DEF Rmdir
        <4> QED
          BY <2>1, <3>1, <4>1 DEF TypeOK
      <3>2. CASE resume[p] # "mkdir"
        <4>1. p \in held /\ dir = p
          BY <2>1, <3>2 DEF PlacesAgree, Holding, Owned
        <4> QED
          BY <2>1, <3>2, <4>1 DEF TypeOK, Owned
      <3> QED
        BY <3>1, <3>2
    <2>3. \A q \in Commands : dir' = q => q \in held'
      <3>1. CASE resume[p] = "mkdir"
        BY <2>1, <3>1, NobodyAssumption DEF Owned
      <3>2. CASE resume[p] # "mkdir"
        <4>1. p \in held /\ pid = NOBODY
          BY <2>1, <3>2 DEF PlacesAgree, Holding, Owned
        <4> QED
          BY <2>1, <4>1, NobodyAssumption
      <3> QED
        BY <3>1, <3>2
    <2> QED
      BY <2>1, <2>2, <2>3 DEF Owned
  <1>6. ASSUME NEW p \in Commands, ReadStamps(p) PROVE Owned'
    BY <1>6 DEF ReadStamps, Owned, TypeOK, Goto, Remove, lockVars
  <1>7. ASSUME NEW p \in Commands, Run(p) \/ Stamp(p) \/ ClientEnds(p) PROVE Owned'
    BY <1>7 DEF Run, Stamp, ClientEnds, Owned, TypeOK, Goto, lockVars
  <1>8. ASSUME NEW p \in Commands, Exit(p) \/ Fail(p) \/ Kill(p) PROVE Owned'
    BY <1>8 DEF Exit, Fail, Kill, Working, Owned, TypeOK, Goto, Remove, lockVars
  <1>9. ASSUME NEW p \in Commands, Interrupt(p) PROVE Owned'
    BY <1>9 DEF Interrupt
  <1>10. CASE Tick \/ UNCHANGED vars
    BY <1>10 DEF Tick, vars, lockVars, Owned
  <1> QED
    BY <1>1, <1>2, <1>3, <1>4, <1>5, <1>6, <1>7, <1>8, <1>9, <1>10 DEF Next, Step

LEMMA OvertakenStays == TypeOK /\ [Next]_vars /\ ~overtaken' => ~overtaken
  BY DEF Next, Step, Start, Mkdir, ReadPid, CheckPid, Busy, WritePid, Unlink, Rmdir,
         ReadStamps, Run, Stamp, ClientEnds, Exit, Fail, Interrupt, Kill, Tick, vars, TypeOK

LEMMA LockStep == TypeOK /\ LockInv /\ [Next]_vars => LockInv'
  BY PlacesStep, JudgedStep, OwnedStep, OvertakenStays DEF LockInv

LEMMA LockInvSafe == TypeOK /\ LockInv => LockSafe
  <1> SUFFICES ASSUME TypeOK, LockInv, ~overtaken PROVE Exclusive /\ \A p \in Commands :
                          pc[p] = "done" => dir # p
    BY DEF LockSafe, Serialized, Released
  <1>1. Exclusive
    BY DEF Exclusive, LockInv, PlacesAgree, Owned, Holding, TypeOK
  <1>2. ASSUME NEW p \in Commands, pc[p] = "done" PROVE dir # p
    BY <1>2 DEF LockInv, PlacesAgree, Owned, Holding
  <1> QED
    BY <1>1, <1>2

\* The only ways to two browser clients at once, and to a directory that
\* outlives a command that ended by itself, are the removal of a directory in
\* place of a dead command's, and a command or client that goes on without its lock.
THEOREM LockSafeCorrect == Spec => []LockSafe
  <1>1. Init => TypeOK /\ LockInv
    BY InitType, InitLock
  <1>2. TypeOK /\ LockInv /\ [Next]_vars => (TypeOK /\ LockInv)'
    BY NextType, LockStep
  <1>3. TypeOK /\ LockInv => LockSafe
    BY LockInvSafe
  <1> QED
    BY <1>1, <1>2, <1>3, PTL DEF Spec

-----------------------------------------------------------------------------
(* Pacing.  The stamps are at most as old as the last runs, except while   *)
(* the command that will write them holds the lock, and who sleeps sleeps  *)
(* for the rest of the intervals.                                          *)

Using(p) == pc[p] \in {"run", "stamp"}

Stamped ==
    /\ (\A p \in Commands : ~Using(p)) => last <= rest
    /\ (\A p \in Heavy : ~Using(p)) => HeavyAge <= heavyRest
    /\ heavyLast = NOBODY => heavyRest = HeavyInterval

Asleep ==
    \A p \in Commands :
        /\ pc[p] \in {"sleep", "run", "stamp"} => heavyLast # NOBODY
        /\ pc[p] = "sleep" =>
              /\ timer[p] + rest >= Interval
              /\ p \in Heavy => timer[p] + heavyRest >= HeavyInterval

PaceInv == ~overtaken /\ ~unstamped => Stamped /\ Asleep

\* While one command holds the lock, no other is beyond it.
LEMMA Alone ==
    ASSUME TypeOK, LockInv, ~overtaken, NEW p \in Commands, Holding(p)
    PROVE  \A q \in Commands : Holding(q) => q = p
  BY DEF LockInv, PlacesAgree, Owned, Holding, TypeOK

LEMMA InitPace == Init => PaceInv
  <1> SUFFICES ASSUME Init PROVE Stamped /\ Asleep
    BY DEF PaceInv
  <1>1. last <= HeavyInterval /\ HeavyAge <= HeavyInterval
    BY TimeAssumption DEF Init, HeavyAge, Ages
  <1> QED
    BY <1>1 DEF Init, Stamped, Asleep

LEMMA PaceTick ==
    ASSUME TypeOK, LockInv, ~overtaken, Stamped, Asleep, Tick
    PROVE  Stamped' /\ Asleep'
  <1>1. HeavyAge \in Ages
    BY HeavyAgeType
  <1>2. HeavyAge' = Older(HeavyAge)
    BY NobodyAssumption, OlderType DEF Tick, HeavyAge, TypeOK, Ages
  <1>3. pc' = pc /\ client' = client
    BY DEF Tick
  <1>4. ASSUME \A p \in Commands : ~Using(p) PROVE last' <= rest'
    <2>1. client = {}
      BY <1>4 DEF Using, LockInv, PlacesAgree, TypeOK
    <2> QED
      BY <1>4, <2>1, OlderMonotone DEF Tick, Stamped, TypeOK
  <1>5. ASSUME \A p \in Heavy : ~Using(p) PROVE HeavyAge' <= heavyRest'
    <2>1. client \cap Heavy = {}
      BY <1>5, HeavyAssumption DEF Using, LockInv, PlacesAgree, TypeOK
    <2> QED
      BY <1>1, <1>2, <1>5, <2>1, OlderMonotone DEF Tick, Stamped, TypeOK
  <1>6. ASSUME heavyLast' = NOBODY PROVE heavyRest' = HeavyInterval
    <2>1. heavyLast = NOBODY /\ heavyRest = HeavyInterval
      BY <1>6, NobodyAssumption, OlderType DEF Tick, Stamped, TypeOK, Ages
    <2>2. client \cap Heavy = {}
      BY <2>1 DEF Asleep, LockInv, PlacesAgree, TypeOK
    <2> QED
      BY <2>1, <2>2 DEF Tick, Older
  <1>7. Stamped'
    BY <1>3, <1>4, <1>5, <1>6 DEF Stamped, Using
  <1>8. ASSUME NEW p \in Commands, pc[p] \in {"sleep", "run", "stamp"} PROVE heavyLast' # NOBODY
    BY <1>8, NobodyAssumption, OlderType DEF Asleep, Tick, TypeOK, Ages
  <1>9. ASSUME NEW p \in Commands, pc[p] = "sleep"
        PROVE  /\ timer'[p] + rest' >= Interval
               /\ p \in Heavy => timer'[p] + heavyRest' >= HeavyInterval
    <2>1. client = {}
      <3>1. ASSUME NEW q \in client PROVE FALSE
        BY <1>9, <3>1, Alone DEF Holding, LockInv, PlacesAgree, TypeOK
      <3> QED
        BY <3>1
    <2>2. rest' = Older(rest) /\ heavyRest' = Older(heavyRest)
      BY <2>1 DEF Tick
    <2>3. timer'[p] = IF timer[p] = 0 THEN 0 ELSE timer[p] - 1
      BY DEF Tick
    <2>4. timer[p] \in Nat /\ rest \in Ages /\ heavyRest \in Ages
      BY DEF TypeOK
    <2>5. timer[p] + rest >= Interval
      BY <1>9 DEF Asleep
    <2>6. p \in Heavy => timer[p] + heavyRest >= HeavyInterval
      BY <1>9 DEF Asleep
    <2>7. timer'[p] + rest' >= Interval
      BY <2>2, <2>3, <2>4, <2>5, TimeAssumption DEF Older, Ages
    <2>8. p \in Heavy => timer'[p] + heavyRest' >= HeavyInterval
      BY <2>2, <2>3, <2>4, <2>6, TimeAssumption DEF Older, Ages
    <2> QED
      BY <2>7, <2>8
  <1>10. Asleep'
    BY <1>3, <1>8, <1>9 DEF Asleep
  <1> QED
    BY <1>7, <1>10

\* Steps that leave the times alone and bring nobody to sleep.
LEMMA PaceQuiet ==
    ASSUME Stamped, Asleep, NEW p \in Commands, NEW place, pc \in [Commands -> Places],
           ~Using(p), place \notin {"sleep", "run", "stamp"},
           pc' = [pc EXCEPT ![p] = place],
           \A q \in Commands : pc[q] = "sleep" /\ q # p => timer'[q] = timer[q],
           UNCHANGED timeVars
    PROVE  Stamped' /\ Asleep'
  <1>1. \A q \in Commands : pc'[q] \in {"sleep", "run", "stamp"} => q # p /\ pc'[q] = pc[q]
    OBVIOUS
  <1>2. \A q \in Commands : Using(q)' <=> Using(q)
    BY DEF Using
  <1>3. UNCHANGED <<last, heavyLast, rest, heavyRest>> /\ HeavyAge' = HeavyAge
    BY DEF timeVars, HeavyAge
  <1>4. Stamped'
    BY <1>2, <1>3, HeavyAssumption DEF Stamped
  <1>5. Asleep'
    BY <1>1, <1>3 DEF Asleep
  <1> QED
    BY <1>4, <1>5

LEMMA PaceReadStamps ==
    ASSUME TypeOK, LockInv, ~overtaken, Stamped, Asleep,
           NEW p \in Commands, ReadStamps(p)
    PROVE  Stamped' /\ Asleep'
  <1>1. \A q \in Commands : Holding(q) => q = p
    BY Alone DEF ReadStamps, Holding
  <1>2. \A q \in Commands : pc[q] \notin {"sleep", "run", "stamp"}
    BY <1>1 DEF ReadStamps, Holding
  <1>3. last <= rest /\ HeavyAge <= heavyRest
    BY <1>2, HeavyAssumption DEF Stamped, Using
  <1>4. HeavyAge \in Ages /\ last \in Ages
    BY HeavyAgeType DEF TypeOK
  <1>5. heavyLast' = HeavyAge /\ UNCHANGED <<last, rest, heavyRest>>
    BY DEF ReadStamps
  <1>6. heavyLast' # NOBODY /\ HeavyAge' = HeavyAge
    <2>1. HeavyAge # NOBODY
      BY <1>4, NobodyAssumption, TimeAssumption DEF Ages
    <2>2. HeavyAge' = IF heavyLast' = NOBODY THEN last' ELSE heavyLast'
      BY DEF HeavyAge
    <2> QED
      BY <2>1, <2>2, <1>5
  <1>7. \A q \in Commands : pc'[q] \in {"sleep", "run", "stamp"} => q = p /\ pc'[q] = "sleep"
    BY <1>2 DEF ReadStamps, Goto, Remove, TypeOK
  <1>8. Stamped'
    BY <1>3, <1>5, <1>6 DEF Stamped
  <1>9. ASSUME pc'[p] = "sleep"
        PROVE  /\ timer'[p] + rest >= Interval
               /\ p \in Heavy => timer'[p] + heavyRest >= HeavyInterval
    <2>1. timer'[p] = WaitSec(p)
      BY <1>9 DEF ReadStamps, Goto, Remove, TypeOK
    <2>2. rest \in Ages /\ heavyRest \in Ages
      BY DEF TypeOK
    <2>3. /\ WaitSec(p) \in Nat
          /\ WaitSec(p) + last >= Interval
          /\ p \in Heavy => WaitSec(p) + HeavyAge >= HeavyInterval
      BY WaitSecType
    <2>4. timer'[p] + rest >= Interval
      BY <2>1, <2>2, <2>3, <1>3, <1>4, TimeAssumption DEF Ages
    <2>5. p \in Heavy => timer'[p] + heavyRest >= HeavyInterval
      BY <2>1, <2>2, <2>3, <1>3, <1>4, TimeAssumption DEF Ages
    <2> QED
      BY <2>4, <2>5
  <1>10. Asleep'
    BY <1>5, <1>6, <1>7, <1>9 DEF Asleep
  <1> QED
    BY <1>8, <1>10

\* A run begins: the times since the last ones start again.
LEMMA PaceRun ==
    ASSUME TypeOK, LockInv, ~overtaken, Stamped, Asleep, NEW p \in Commands, Run(p)
    PROVE  Stamped' /\ Asleep'
  <1>1. \A q \in Commands : Holding(q) => q = p
    BY Alone DEF Run, Holding
  <1>2. pc' = [pc EXCEPT ![p] = "run"] /\ pc[p] = "sleep" /\ UNCHANGED <<last, heavyLast, timer>>
    BY DEF Run, Goto
  <1>3. heavyLast # NOBODY /\ HeavyAge' = HeavyAge
    BY <1>2 DEF Asleep, HeavyAge
  <1>4. pc'[p] = "run" /\ \A q \in Commands : q # p => pc'[q] \notin {"sleep", "run", "stamp"}
    BY <1>1, <1>2 DEF Holding, TypeOK
  <1>5. ASSUME \A q \in Heavy : ~Using(q)' PROVE HeavyAge' <= heavyRest'
    <2>1. p \notin Heavy
      BY <1>4, <1>5 DEF Using
    <2>2. \A q \in Heavy : ~Using(q)
      BY <1>1, <2>1, HeavyAssumption DEF Using, Holding
    <2> QED
      BY <1>3, <2>1, <2>2 DEF Run, Stamped
  <1>6. Using(p)'
    BY <1>4 DEF Using
  <1>7. Stamped'
    BY <1>2, <1>3, <1>5, <1>6 DEF Stamped
  <1>8. Asleep'
    BY <1>2, <1>3, <1>4 DEF Asleep
  <1> QED
    BY <1>7, <1>8

LEMMA PaceStamp ==
    ASSUME TypeOK, LockInv, ~overtaken, Stamped, Asleep, NEW p \in Commands, Stamp(p)
    PROVE  Stamped' /\ Asleep'
  <1>1. \A q \in Commands : Holding(q) => q = p
    BY Alone DEF Stamp, Holding
  <1>2. /\ pc' = [pc EXCEPT ![p] = "exit"] /\ pc[p] = "stamp"
        /\ last' = 0 /\ heavyLast' = IF p \in Heavy THEN 0 ELSE heavyLast
        /\ UNCHANGED <<rest, heavyRest>>
    BY DEF Stamp, Goto
  <1>3. heavyLast # NOBODY /\ heavyLast' # NOBODY
    BY <1>2, NobodyAssumption DEF Asleep
  <1>4. \A q \in Commands : pc'[q] \notin {"sleep", "run", "stamp"}
    BY <1>1, <1>2 DEF Holding, TypeOK
  <1>5. rest \in Nat /\ heavyRest \in Nat
    BY TimeAssumption DEF TypeOK, Ages
  <1>6. HeavyAge' <= heavyRest'
    <2>1. CASE p \in Heavy
      BY <1>2, <1>3, <1>5, <2>1 DEF HeavyAge
    <2>2. CASE p \notin Heavy
      <3>1. \A q \in Heavy : ~Using(q)
        BY <1>1, <2>2, HeavyAssumption DEF Using, Holding
      <3> QED
        BY <1>2, <1>3, <2>2, <3>1 DEF Stamped, HeavyAge
    <2> QED
      BY <2>1, <2>2
  <1>7. Stamped'
    BY <1>2, <1>3, <1>5, <1>6 DEF Stamped
  <1>8. Asleep'
    BY <1>4 DEF Asleep
  <1> QED
    BY <1>7, <1>8

LEMMA PaceClientEnds ==
    ASSUME TypeOK, LockInv, ~overtaken, Stamped, Asleep, NEW p \in Commands, ClientEnds(p)
    PROVE  Stamped' /\ Asleep'
  <1>1. pc[p] = "run" /\ pc' = [pc EXCEPT ![p] = "stamp"] /\ timer' = timer
    BY DEF ClientEnds, Goto, LockInv, PlacesAgree
  <1>2. UNCHANGED <<last, heavyLast, rest, heavyRest>> /\ HeavyAge' = HeavyAge
    BY DEF ClientEnds, timeVars, HeavyAge
  <1>3. \A q \in Commands : Using(q)' <=> Using(q)
    BY <1>1 DEF Using, TypeOK
  <1>4. Stamped'
    BY <1>2, <1>3, HeavyAssumption DEF Stamped
  <1>5. Asleep'
    BY <1>1, <1>2 DEF Asleep, TypeOK
  <1> QED
    BY <1>4, <1>5

LEMMA UnstampedStays == TypeOK /\ [Next]_vars /\ ~unstamped' => ~unstamped
  BY DEF Next, Step, Start, Mkdir, ReadPid, CheckPid, Busy, WritePid, Unlink, Rmdir,
         ReadStamps, Run, Stamp, ClientEnds, Exit, Fail, Interrupt, Kill, Tick, vars, TypeOK

LEMMA PaceStep == TypeOK /\ LockInv /\ PaceInv /\ [Next]_vars => PaceInv'
  <1> SUFFICES ASSUME TypeOK, LockInv, PaceInv, [Next]_vars,
                      ~overtaken', ~unstamped'
               PROVE  Stamped' /\ Asleep'
    BY DEF PaceInv
  <1>0. /\ ~overtaken /\ Stamped /\ Asleep
        /\ pc \in [Commands -> Places] /\ timer \in [Commands -> Nat]
    BY OvertakenStays, UnstampedStays DEF PaceInv, TypeOK
  <1>1. ASSUME NEW p \in Commands, Start(p) PROVE Stamped' /\ Asleep'
    <2>1. \A q \in Commands : q # p => timer'[q] = timer[q]
      BY <1>0, <1>1 DEF Start
    <2> QED
      BY <1>0, <1>1, <2>1, PaceQuiet DEF Start, Goto, Using
  <1>2. ASSUME NEW p \in Commands, Mkdir(p) PROVE Stamped' /\ Asleep'
    BY <1>0, <1>2, PaceQuiet DEF Mkdir, Goto, Using
  <1>3. ASSUME NEW p \in Commands, ReadPid(p) PROVE Stamped' /\ Asleep'
    BY <1>0, <1>3, PaceQuiet DEF ReadPid, Goto, Using
  <1>4. ASSUME NEW p \in Commands, CheckPid(p) PROVE Stamped' /\ Asleep'
    BY <1>0, <1>4, PaceQuiet DEF CheckPid, Goto, Remove, Using
  <1>5. ASSUME NEW p \in Commands, Busy(p) PROVE Stamped' /\ Asleep'
    BY <1>0, <1>5, PaceQuiet DEF Busy, Goto, Using
  <1>6. ASSUME NEW p \in Commands, WritePid(p) PROVE Stamped' /\ Asleep'
    BY <1>0, <1>6, PaceQuiet DEF WritePid, Goto, Using
  <1>7. ASSUME NEW p \in Commands, Unlink(p) PROVE Stamped' /\ Asleep'
    BY <1>0, <1>7, PaceQuiet DEF Unlink, Goto, Using
  <1>8. ASSUME NEW p \in Commands, Rmdir(p) PROVE Stamped' /\ Asleep'
    <2>1. resume[p] \in {"mkdir", "exit", "done"}
      BY <1>0 DEF LockInv, PlacesAgree
    <2> QED
      BY <1>0, <1>8, <2>1, PaceQuiet DEF Rmdir, Goto, Using
  <1>9. ASSUME NEW p \in Commands, Exit(p) PROVE Stamped' /\ Asleep'
    BY <1>0, <1>9, PaceQuiet DEF Exit, Goto, Remove, Using
  <1>10. ASSUME NEW p \in Commands, Fail(p) PROVE Stamped' /\ Asleep'
    <2>1. ~Using(p)
      BY <1>10 DEF Fail, Working, Using
    <2> QED
      BY <1>0, <1>10, <2>1, PaceQuiet DEF Fail, Goto
  <1>11. ASSUME NEW p \in Commands, Kill(p) PROVE Stamped' /\ Asleep'
    <2>1. p \notin client
      BY <1>11, KillsAssumption DEF Kill
    <2>2. pc[p] # "stamp" /\ pc[p] # "run"
      BY <1>0, <1>11, <2>1 DEF Kill, LockInv, PlacesAgree
    <2>3. ~Using(p)
      BY <2>2 DEF Using
    <2> QED
      BY <1>0, <1>11, <2>1, <2>3, PaceQuiet DEF Kill, Goto
  <1>12. ASSUME NEW p \in Commands, ReadStamps(p) \/ Run(p) \/ Stamp(p) \/ ClientEnds(p)
         PROVE  Stamped' /\ Asleep'
    BY <1>0, <1>12, PaceReadStamps, PaceRun, PaceStamp, PaceClientEnds
  <1>13. ASSUME NEW p \in Commands, Interrupt(p) PROVE Stamped' /\ Asleep'
    BY <1>13 DEF Interrupt
  <1>14. CASE Tick
    BY <1>0, <1>14, PaceTick
  <1>15. CASE UNCHANGED vars
    BY <1>0, <1>15 DEF vars, timeVars, Stamped, Asleep, Using, HeavyAge
  <1> QED
    BY <1>1, <1>2, <1>3, <1>4, <1>5, <1>6, <1>7, <1>8, <1>9, <1>10, <1>11, <1>12, <1>13,
       <1>14, <1>15 DEF Next, Step

LEMMA StartsRun ==
    ASSUME [Next]_vars, NEW p \in client' \ client
    PROVE  p \in Commands /\ Run(p)
  <1>1. CASE \E q \in Commands : Run(q)
    BY <1>1 DEF Run
  <1>2. CASE ~\E q \in Commands : Run(q)
    BY <1>2 DEF Next, Step, Start, Mkdir, ReadPid, CheckPid, Busy, WritePid, Unlink, Rmdir,
       ReadStamps, Stamp, ClientEnds, Exit, Fail, Interrupt, Kill, Tick, vars
  <1> QED
    BY <1>1, <1>2

LEMMA SpacedNext == TypeOK /\ LockInv /\ PaceInv /\ [Next]_vars => SpacedStep
  <1> SUFFICES ASSUME TypeOK, LockInv, PaceInv, [Next]_vars, ~overtaken, ~unstamped,
                      NEW p \in client' \ client
               PROVE  /\ rest >= Interval
                      /\ p \in Heavy => heavyRest >= HeavyInterval
    BY DEF SpacedStep
  <1>1. p \in Commands /\ pc[p] = "sleep" /\ timer[p] = 0
    BY StartsRun DEF Run
  <1>2. rest \in Nat /\ heavyRest \in Nat
    BY TimeAssumption DEF TypeOK, Ages
  <1>3. Asleep
    BY DEF PaceInv
  <1> QED
    BY <1>1, <1>2, <1>3, TimeAssumption DEF Asleep

\* A client starts no sooner than the intervals after the last clients, as
\* long as no removal went wrong and every end was stamped.
THEOREM SpacedCorrect == Spec => Spaced
  <1>1. Init => TypeOK /\ LockInv /\ PaceInv
    BY InitType, InitLock, InitPace
  <1>2. TypeOK /\ LockInv /\ PaceInv /\ [Next]_vars => (TypeOK /\ LockInv /\ PaceInv)'
    BY NextType, LockStep, PaceStep
  <1>3. TypeOK /\ LockInv /\ PaceInv /\ [Next]_vars => SpacedStep
    BY SpacedNext
  <1> QED
    BY <1>1, <1>2, <1>3, PTL DEF Spec, Spaced
=============================================================================
