----------------------------- MODULE MCBrowser -----------------------------
(* Instances of the two components that drive pages outside a delivery: Watchdog and Pages.  *)
(* They share no state here; every instance is one of a single component, the other is left  *)
(* with nothing to do.                                                                       *)
EXTENDS Watchdog, Pages, TLC

CONSTANTS t1, t2, c1, c2, c3

\* One task whose page moves; the same with a person, a recover command and notices that
\* are delivered; an external task that its adapter edits; two results to be reconciled.
OneTask == [tasks |-> {t1}, external |-> {}, local |-> FALSE, scans |-> 5, events |-> 3,
            aggressive |-> FALSE, kinds |-> {"page"}]
NoTasks == [OneTask EXCEPT !.tasks = {}, !.scans = 0, !.events = 0, !.kinds = {}]
WatchLoads ==
    {OneTask,
     [OneTask EXCEPT !.scans = 1, !.aggressive = TRUE, !.kinds = {"page", "hold", "recover", "deliver", "edit", "crash"}],
     [OneTask EXCEPT !.scans = 2, !.events = 2, !.kinds = {"page", "edit", "crash", "failure"},
                     !.external = {t1}, !.local = TRUE],
     [OneTask EXCEPT !.scans = 3, !.kinds = {"edit", "crash", "hold"}, !.tasks = {t1, t2}]}

PageSigns == {{}, {"generating"}, {"generating", "quiet"}, {"error"}, {"approval", "generating"},
              {"exhausted", "error"}, {"offline"}}

\* A finished conversation holds the only page: others are opened and sent to in its place;
\* a running one holds it: new ones wait, then go to an overflow Space; with more of them the
\* second overflow Space is made and the first is looked into again; one is pruned; a manager
\* closes pages that people use, or that a stopped command has left.
Works(f) == [c \in {c1, c2, c3} |-> IF c \in DOMAIN f THEN f[c] ELSE "none"]
OneDone == [attached |-> <<c1>>, rooms |-> << >>, pool |-> <<>>, stray |-> FALSE,
            work |-> Works(c1 :> "COMPLETE"), cmds |-> 2, events |-> 2, max |-> 1,
            allowed |-> {"send", "new"}, kinds |-> {"crash", "result", "queue"}]
NoCommands == [OneDone EXCEPT !.cmds = 0, !.events = 0, !.kinds = {}]
TwoSpaces == [OneDone EXCEPT !.attached = <<c1, c2>>, !.rooms = c2 :> "over1", !.pool = <<"over1">>]
SomePages ==
    {[OneDone EXCEPT !.events = 1],
     [OneDone EXCEPT !.work = Works(c1 :> "active"), !.events = 1, !.allowed = {"new"}, !.kinds = {"crash"}],
     [TwoSpaces EXCEPT !.work = Works(c1 :> "active" @@ c2 :> "active"), !.max = 2, !.events = 1, !.allowed = {"new"},
                       !.kinds = {"crash"}],
     [TwoSpaces EXCEPT !.attached = <<c1, c2, c3>>, !.rooms = (c2 :> "over1" @@ c3 :> "over2"), !.stray = TRUE,
                       !.work = Works(c1 :> "active" @@ c2 :> "active" @@ c3 :> "active"),
                       !.pool = <<"over2", "over1">>, !.max = 2, !.allowed = {"send"}, !.kinds = {"tab", "crash", "hold"}],
     [TwoSpaces EXCEPT !.work = Works(c1 :> "active" @@ c2 :> "COMPLETE"), !.allowed = {"send", "prune"},
                       !.kinds = {"task", "turn"}],
     [OneDone EXCEPT !.attached = <<>>, !.stray = TRUE, !.allowed = {"new", "close"},
                     !.events = 1, !.kinds = {"crash", "draft", "turn"}]}

TaskLoads == WatchLoads \cup {NoTasks}
ChatLoads == SomePages \cup {NoCommands}

BrowserInit ==
    /\ Init /\ PagesInit
    /\ left.tasks = {} \/ quota.cmds = 0
    /\ left.tasks # {} \/ quota.cmds # 0
\* Next of Watchdog, with its actions named so that TLC counts each of them, and PagesNext.
WatchNext ==
    \/ Scan(left.aggressive) /\ UNCHANGED pageVars
    \/ Retell /\ UNCHANGED pageVars
    \/ Open /\ UNCHANGED pageVars
    \/ Look /\ UNCHANGED pageVars
    \/ Exhausted /\ UNCHANGED pageVars
    \/ Running /\ UNCHANGED pageVars
    \/ Complete /\ UNCHANGED pageVars
    \/ Stalled /\ UNCHANGED pageVars
    \/ Decide /\ UNCHANGED pageVars
    \/ Stop /\ UNCHANGED pageVars
    \/ Admit /\ UNCHANGED pageVars
    \/ Click /\ UNCHANGED pageVars
    \/ Clicked /\ UNCHANGED pageVars
    \/ Unconfirmed /\ UNCHANGED pageVars
    \/ Failed /\ UNCHANGED pageVars
    \/ Save /\ UNCHANGED pageVars
    \/ Lifecycle /\ UNCHANGED pageVars
    \/ Reserve /\ UNCHANGED pageVars
    \/ Ask /\ UNCHANGED pageVars
    \/ Asked /\ UNCHANGED pageVars
    \/ Crash /\ UNCHANGED pageVars
    \/ Person /\ UNCHANGED pageVars
    \/ Deliver /\ UNCHANGED pageVars
    \/ \E t \in Tasks :
          \/ Recover(t, left.aggressive) /\ UNCHANGED pageVars
          \/ Visit(t) /\ UNCHANGED pageVars
          \/ Page(t) /\ UNCHANGED pageVars
          \/ Edit(t) /\ UNCHANGED pageVars

LaneNext ==
    \/ Prune /\ UNCHANGED vars
    \/ Locate /\ UNCHANGED vars
    \/ Visits /\ UNCHANGED vars
    \/ Attach /\ UNCHANGED vars
    \/ HandOff /\ UNCHANGED vars
    \/ Prepare /\ UNCHANGED vars
    \/ Clicks /\ UNCHANGED vars
    \/ Intend /\ UNCHANGED vars
    \/ Opens /\ UNCHANGED vars
    \/ RecordPage /\ UNCHANGED vars
    \/ Settle /\ UNCHANGED vars
    \/ NoPage /\ UNCHANGED vars
    \/ NoRoom /\ UNCHANGED vars
    \/ Overflow /\ UNCHANGED vars
    \/ MapSpace /\ UNCHANGED vars
    \/ Reclaim /\ UNCHANGED vars
    \/ Guard /\ UNCHANGED vars
    \/ GiveBack /\ UNCHANGED vars
    \/ Release /\ UNCHANGED vars
    \/ Reload /\ UNCHANGED vars
    \/ Check /\ UNCHANGED vars
    \/ Verify /\ UNCHANGED vars
    \/ CloseTarget /\ UNCHANGED vars
    \/ Closed /\ UNCHANGED vars
    \/ Refuse /\ UNCHANGED vars
    \/ Released /\ UNCHANGED vars
    \/ Over /\ UNCHANGED vars
    \/ Stops /\ UNCHANGED vars
    \/ \E c \in Chats :
          \/ Send(c) /\ UNCHANGED vars
          \/ New(c) /\ UNCHANGED vars
          \/ Queue(c) /\ UNCHANGED vars
          \/ Claims(c) /\ UNCHANGED vars
          \/ Recovers(c) /\ UNCHANGED vars
          \/ Results(c) /\ UNCHANGED vars
          \/ Sets(c) /\ UNCHANGED vars
    \/ \E t \in Targets :
          \/ Close(t) /\ UNCHANGED vars
          \/ Turns(t) /\ UNCHANGED vars
          \/ Sends(t) /\ UNCHANGED vars
    \/ \E s \in SpaceNames :
          \/ Takes(s) /\ UNCHANGED vars

BrowserNext == WatchNext \/ LaneNext
BrowserSpec == BrowserInit /\ [][BrowserNext]_<<vars, pageVars>>
=============================================================================
