----------------------------- MODULE PagesProofs -----------------------------
(***************************************************************************)
(* Proof that a page is closed once, and only if it was idle at the last   *)
(* look, that none is lost between its opening and its record, and that    *)
(* every page is in a mapped Space: for any conversations, pages, commands *)
(* and stops, and for whatever people do.                                  *)
(***************************************************************************)
EXTENDS Pages, TLAPS, FiniteSetTheorems, NaturalsInduction, WellFoundedInduction

Tabs == [live : BOOLEAN, s : SpaceNames, label : Nat, url : Urls,
         busy : BOOLEAN, draft : BOOLEAN, alloc : Nat]
Stages == {"ALLOCATION_INTENT", "ALLOCATION_REFUSED", "ALLOCATION_UNKNOWN",
           "PAGE_ALLOCATED", "PAGE_HANDED_OFF", "PAGE_RELEASED"}
Outcomes == {"none", "INTENT", "REFUSED", "UNKNOWN", "RELEASED"}

Attaching == {"locate", "visit", "attach", "hand off", "prepare", "click"}
Allocating == {"intend", "open", "opened", "settle", "full", "no room", "overflow", "map"}
Closing == {"release", "reload", "check", "verify", "close", "closed", "refuse", "released"}
Steppings == Attaching \cup Allocating \cup Closing \cup {"free", "reclaim", "guard", "give back", "over"}
Purposes == {"TERMINAL_ALLOCATION", "ORPHAN_IDLE", "OWNED_TEMPORARY", "MANAGEMENT_TERMINATION"}

Commands == [pc : Steppings, kind : {"send", "new", "prune", "close", Nil}, chat : Chats \cup {Nil},
             claim : BOOLEAN, s : SpaceNames, t : Targets \cup {0}, a : Nat, own : BOOLEAN,
             sent : BOOLEAN, again : BOOLEAN, over : {"no", "head", "previous", "last"}, made : BOOLEAN,
             long : BOOLEAN, todo : SUBSET SpaceNames, r : Targets \cup {0}, url : Urls,
             purpose : Purposes \cup {Nil}, cand : Chats \cup {Nil}, reload : BOOLEAN, term : BOOLEAN, closed : BOOLEAN, reloaded : BOOLEAN,
             late : SUBSET {"turn", "task"}]

Entries == [claim : BOOLEAN, s : SpaceNames, phase : Stages, t : Targets \cup {0}]
Homes == [s : SpaceNames \cup {Nil}, label : Nat, t : Targets \cup {0}]
Shapes ==
    /\ tabs \in [Targets -> Tabs]
    /\ homes \in [Chats -> Homes]
    /\ pool \in Seq(SpaceNames)
    /\ owner \in [SpaceNames -> {"agent", "user", "none"}]
    /\ work \in [Chats -> WorkStates]
    /\ releases \in [Targets -> [phase : Outcomes, reload : BOOLEAN, closed : BOOLEAN, term : Outcomes]]
    /\ allocs \in Seq(Entries)
    /\ seen \in [closes : [Targets -> Nat], held : SUBSET Targets]
    /\ quota \in Instances

-----------------------------------------------------------------------------
(* What holds of pages, journals and Spaces whichever command runs. *)

\* What has become of page t: an unopened one has no history, and a close follows an intent
\* that is not taken back.
Fate(t) ==
    /\ tabs[t].alloc = 0 => ~tabs[t].live /\ releases[t] = NoRelease /\ seen.closes[t] = 0
    /\ seen.closes[t] <= 1
    /\ seen.closes[t] = 1 =>
          /\ Fenced(t)
          /\ releases[t].phase = "UNKNOWN" /\ ~releases[t].closed => releases[t].term # "none"
    /\ releases[t].phase = "RELEASED" => ~tabs[t].live

\* Every opened page has the journal entry of its own allocation.
Journalled ==
    /\ \A t \in Targets : tabs[t].alloc # 0 => tabs[t].alloc \in DOMAIN allocs
    /\ \A t, u \in Targets : tabs[t].alloc = tabs[u].alloc /\ tabs[t].alloc # 0 => t = u
    /\ \A i \in DOMAIN allocs : allocs[i].t # 0 => tabs[allocs[i].t].alloc = i
    /\ \A t \in Targets : tabs[t].live => t \in seen.held \/ ~Finished(tabs[t].alloc)
    /\ \A i \in DOMAIN allocs : allocs[i].phase = "PAGE_HANDED_OFF" => allocs[i].t \in seen.held
    /\ \A s \in SpaceNames : \A i, j \in Unresolved(s) : i = j

SpacesMapped ==
    /\ \A t \in Targets : tabs[t].live => tabs[t].s \in PoolSpaces
    /\ \A c \in Chats : Registered(c) => homes[c].s \in PoolSpaces
    /\ \A s \in PoolSpaces : owner[s] # "none"
    /\ owner["over2"] # "none" => quota.max = 2
    /\ \A c \in Chats : work[c] \in {"active", "BLOCKED"} => Registered(c)

-----------------------------------------------------------------------------
(* What a command knows at each of its steps. *)

\* Which commands come to which steps.
Kinds ==
    /\ cmd.pc \in Attaching \cup Allocating \cup {"give back"} => cmd.kind \in {"send", "new"}
    /\ cmd.own => cmd.kind \in {"send", "new"}
    /\ cmd.kind \in {"send", "new"} => cmd.chat \in Chats /\ cmd.s \in PoolSpaces
    /\ cmd.pc = "locate" => cmd.kind = "send"
    /\ cmd.kind = "send" => Registered(cmd.chat)
    /\ cmd.kind = "close" => cmd.pc \in Closing \cup {"over"} /\ cmd.purpose = "MANAGEMENT_TERMINATION"
    /\ cmd.kind \notin {"send", "new"} => ~cmd.claim
    /\ cmd.over = "last" => quota.max = 2
    /\ cmd.pc = "map" => owner[Wanted] # "none"
    /\ cmd.pc # "free" => cmd.kind # Nil

\* The page it uses, and the one it has opened and not yet handed off.
Uses ==
    /\ cmd.pc \in {"opened", "settle", "visit", "attach", "hand off", "prepare", "click"} =>
          cmd.t \in Targets /\ tabs[cmd.t].alloc # 0 /\ ~Fenced(cmd.t)
    /\ cmd.pc \in {"opened", "settle", "visit", "hand off", "give back"} => cmd.own
    /\ cmd.own => /\ cmd.a \in DOMAIN allocs /\ cmd.t \in Targets /\ tabs[cmd.t].alloc = cmd.a
                  /\ cmd.pc # "opened" => allocs[cmd.a].t = cmd.t
    /\ cmd.pc \in {"open", "opened"} =>
          cmd.a \in DOMAIN allocs /\ allocs[cmd.a].phase = "ALLOCATION_INTENT" /\ allocs[cmd.a].t = 0
    /\ cmd.pc = "open" => \A t \in Targets : tabs[t].alloc # cmd.a
    /\ cmd.pc = "hand off" => cmd.t \in seen.held
    /\ cmd.pc \in {"locate", "intend", "open", "full", "no room", "overflow", "map", "reclaim", "guard"} =>
          ~cmd.own
    /\ cmd.pc \in Closing /\ cmd.own => cmd.purpose = "OWNED_TEMPORARY"

\* The page it is about to close, but for what has begun there since the command looked; a
\* termination never looked at the page.
Idles == tabs[cmd.r].busy => "turn" \in cmd.late \/ cmd.term
Unworked == \A c \in Chats :
    tabs[cmd.r].url = c /\ work[c] \in {"active", "BLOCKED"} => "task" \in cmd.late
Closes ==
    /\ cmd.pc \in Closing \cup {"guard"} => cmd.r \in Targets /\ tabs[cmd.r].alloc # 0
    /\ cmd.pc \in {"guard", "release"} => ~cmd.closed /\ ~cmd.reloaded
    /\ cmd.pc = "guard" => ~cmd.reload /\ ~cmd.term
    /\ cmd.pc \in {"reload", "check", "verify", "close"} => seen.closes[cmd.r] = 0
    /\ cmd.pc = "refuse" => cmd.closed \/ seen.closes[cmd.r] = 0
    /\ cmd.pc \in {"reload", "check", "verify"} => ~cmd.closed
    /\ cmd.pc \in {"close", "closed"} => cmd.closed
    /\ cmd.pc \in {"reload", "check", "verify", "close", "closed", "refuse"} =>
          IF cmd.term THEN /\ releases[cmd.r].phase = "UNKNOWN" /\ ~releases[cmd.r].closed
                           /\ releases[cmd.r].term = "INTENT"
          ELSE releases[cmd.r].phase = "INTENT"
    /\ cmd.pc = "verify" => Idles
    /\ cmd.pc = "close" => Idles /\ Unworked
    /\ cmd.pc \in {"closed", "released"} => ~tabs[cmd.r].live
    /\ cmd.pc \in Closing /\ cmd.purpose = "OWNED_TEMPORARY" => cmd.own /\ cmd.r = cmd.t
    /\ cmd.pc = "guard" => cmd.purpose \in {"TERMINAL_ALLOCATION", "ORPHAN_IDLE"}
    /\ cmd.pc \in Closing \cup {"guard"} /\ cmd.purpose # "TERMINAL_ALLOCATION" => cmd.cand = Nil

Fates == \A t \in Targets : Fate(t)
World == Shapes /\ Fates /\ Journalled /\ SpacesMapped
Holder == cmd \in Commands /\ Kinds /\ Uses /\ Closes
PagesInv == World /\ Holder

-----------------------------------------------------------------------------
(* How a step leaves alone what it does not touch. *)

places == <<tabs, homes, pool, owner, work, releases, allocs, seen>>

LEMMA WorldKept == ASSUME World, UNCHANGED places, quota' \in Instances, quota'.max = quota.max
  PROVE  World'
  BY DEF World, places, Shapes, Fates, Fate, Fenced, Journalled, Finished, Unresolved, SpacesMapped,
         PoolSpaces, Registered

LEMMA HolderKept == ASSUME Holder, UNCHANGED places, quota'.max = quota.max, cmd' = cmd
  PROVE  Holder'
  <1> USE DEF Holder, places
  <1>1. Kinds' BY NameAssumption DEF Kinds, PoolSpaces, Registered, Wanted
  <1>2. Uses' BY DEF Uses, Fenced
  <1>3. Closes' BY DEF Closes, Idles, Unworked
  <1> QED BY <1>1, <1>2, <1>3

\* Two records of a command that differ at most in the step, in what the page showed when it
\* was chosen, and in what has begun there since.
Alike(c, d) ==
    /\ d.kind = c.kind /\ d.chat = c.chat /\ d.claim = c.claim /\ d.s = c.s /\ d.t = c.t /\ d.a = c.a
    /\ d.own = c.own /\ d.sent = c.sent /\ d.again = c.again /\ d.over = c.over /\ d.made = c.made
    /\ d.long = c.long /\ d.todo = c.todo /\ d.r = c.r /\ d.purpose = c.purpose /\ d.cand = c.cand
    /\ d.reload = c.reload /\ d.term = c.term /\ d.closed = c.closed /\ d.reloaded = c.reloaded

LEMMA Stepped ==
  ASSUME cmd \in Commands, NEW pc \in Steppings, cmd' = [cmd EXCEPT !.pc = pc]
  PROVE  cmd' \in Commands /\ cmd'.pc = pc /\ Alike(cmd, cmd')
  BY DEF Commands, Alike

LEMMA EntriesCounted ==
  ASSUME World
  PROVE  /\ DOMAIN allocs = 1..Len(allocs) /\ Len(allocs) \in Nat
         /\ \A i \in DOMAIN allocs : i # 0 /\ i \in Nat /\ allocs[i] \in Entries
  <1>1. allocs \in Seq(Entries) BY DEF World, Shapes
  <1> QED BY <1>1

LEMMA Spent ==
  ASSUME quota \in Instances
  PROVE  /\ quota' = quota => quota' \in Instances /\ quota'.max = quota.max
         /\ quota.events > 0 /\ quota' = [quota EXCEPT !.events = @ - 1] =>
               quota' \in Instances /\ quota'.max = quota.max
         /\ quota.cmds > 0 /\ quota' = [quota EXCEPT !.cmds = @ - 1] =>
               quota' \in Instances /\ quota'.max = quota.max
  BY DEF Instances

\* A step that changes nothing but the command.
LEMMA OnlyCommand ==
  ASSUME PagesInv, Rest,
         \/ quota' = quota
         \/ quota.events > 0 /\ quota' = [quota EXCEPT !.events = @ - 1]
         \/ quota.cmds > 0 /\ quota' = [quota EXCEPT !.cmds = @ - 1]
  PROVE  /\ World' /\ quota'.max = quota.max
         /\ UNCHANGED <<tabs, homes, pool, owner, work, releases, allocs, seen>>
  <1>1. quota \in Instances BY DEF PagesInv, World, Shapes
  <1>2. quota' \in Instances /\ quota'.max = quota.max BY <1>1, Spent
  <1>3. UNCHANGED places BY DEF Rest, places
  <1> QED BY <1>2, <1>3, WorldKept DEF PagesInv, places

-----------------------------------------------------------------------------
(* Commands begin and end. *)

LEMMA SendSafe == ASSUME PagesInv, NEW c \in Chats, Send(c) PROVE PagesInv'
  <1>1. PICK claim \in BOOLEAN :
           cmd' = [Quitted EXCEPT !.pc = "locate", !.kind = "send", !.chat = c, !.claim = claim]
    BY DEF Send, Begins
  <1>2. Rest /\ quota.cmds > 0 /\ quota' = [quota EXCEPT !.cmds = @ - 1] /\ Registered(c)
    BY DEF Send, Begins
  <1>3. World' /\ UNCHANGED <<homes, pool, tabs>> BY <1>2, OnlyCommand
  <1>4. cmd' \in Commands
    BY ZenonT(60), <1>1 DEF Commands, Quitted, Urls, Steppings, Attaching, SpaceNames
  <1>5. /\ cmd'.pc = "locate" /\ cmd'.kind = "send" /\ cmd'.chat = c /\ cmd'.s = "main" /\ ~cmd'.own
        /\ cmd'.over = "no"
    BY <1>1 DEF Quitted
  <1>6. Kinds' BY <1>2, <1>3, <1>5, NameAssumption DEF Kinds, PoolSpaces, Registered, Wanted
  <1>7. Uses' BY <1>5 DEF Uses
  <1>8. Closes' BY <1>5 DEF Closes, Closing
  <1> QED BY <1>3, <1>4, <1>6, <1>7, <1>8 DEF PagesInv, Holder

LEMMA NewSafe == ASSUME PagesInv, NEW c \in Chats, New(c) PROVE PagesInv'
  <1>1. PICK claim \in BOOLEAN :
           cmd' = [Quitted EXCEPT !.pc = "intend", !.kind = "new", !.chat = c, !.claim = claim]
    BY DEF New, Begins
  <1>2. Rest /\ quota.cmds > 0 /\ quota' = [quota EXCEPT !.cmds = @ - 1]
    BY DEF New, Begins
  <1>3. World' /\ UNCHANGED <<homes, pool, tabs>> BY <1>2, OnlyCommand
  <1>4. cmd' \in Commands
    BY ZenonT(60), <1>1 DEF Commands, Quitted, Urls, Steppings, Allocating, SpaceNames
  <1>5. /\ cmd'.pc = "intend" /\ cmd'.kind = "new" /\ cmd'.chat = c /\ cmd'.s = "main" /\ ~cmd'.own
        /\ cmd'.over = "no"
    BY <1>1 DEF Quitted
  <1>6. Kinds' BY <1>2, <1>3, <1>5, NameAssumption DEF Kinds, PoolSpaces, Registered, Wanted
  <1>7. Uses' BY <1>5 DEF Uses
  <1>8. Closes' BY <1>5 DEF Closes, Closing
  <1> QED BY <1>3, <1>4, <1>6, <1>7, <1>8 DEF PagesInv, Holder

LEMMA PruneSafe == ASSUME PagesInv, Prune PROVE PagesInv'
  <1>1. cmd' = [Quitted EXCEPT !.pc = "reclaim", !.kind = "prune",
                               !.todo = {s \in SpaceNames \ {"main"} : owner[s] = "agent"}]
    BY DEF Prune, Begins
  <1>2. Rest /\ quota.cmds > 0 /\ quota' = [quota EXCEPT !.cmds = @ - 1]
    BY DEF Prune, Begins
  <1>3. World' BY <1>2, OnlyCommand
  <1>4. cmd' \in Commands
    BY <1>1 DEF Commands, Quitted, Urls, Steppings, SpaceNames
  <1>5. /\ cmd'.pc = "reclaim" /\ cmd'.kind = "prune" /\ ~cmd'.own /\ ~cmd'.claim /\ cmd'.over = "no"
    BY <1>1 DEF Quitted
  <1>6. Kinds' BY <1>5, NameAssumption DEF Kinds, Attaching, Allocating, Wanted
  <1>7. Uses' BY <1>5 DEF Uses
  <1>8. Closes' BY <1>5 DEF Closes, Closing
  <1> QED BY <1>3, <1>4, <1>6, <1>7, <1>8 DEF PagesInv, Holder

LEMMA CloseSafe == ASSUME PagesInv, NEW t \in Targets, Close(t) PROVE PagesInv'
  <1>1. PICK reload \in BOOLEAN, term \in BOOLEAN :
           cmd' = [Quitted EXCEPT !.pc = "release", !.kind = "close", !.r = t, !.url = tabs[t].url,
                                  !.purpose = "MANAGEMENT_TERMINATION", !.reload = reload, !.term = term]
    BY DEF Close, Begins
  <1>2. Rest /\ quota.cmds > 0 /\ quota' = [quota EXCEPT !.cmds = @ - 1] /\ tabs[t].live
    BY DEF Close, Begins
  <1>3. World' /\ UNCHANGED tabs BY <1>2, OnlyCommand
  <1>4. cmd' \in Commands
    <2>1. tabs[t].url \in Urls BY DEF PagesInv, World, Shapes, Tabs
    <2> QED BY ZenonT(60), <1>1, <2>1 DEF Commands, Quitted, Urls, Steppings, SpaceNames, Closing, Purposes
  <1>5. /\ cmd'.pc = "release" /\ cmd'.kind = "close" /\ ~cmd'.own /\ ~cmd'.claim /\ cmd'.over = "no"
        /\ cmd'.r = t /\ ~cmd'.closed /\ ~cmd'.reloaded /\ cmd'.purpose = "MANAGEMENT_TERMINATION" /\ cmd'.cand = Nil
    BY <1>1 DEF Quitted
  <1>6. Kinds' BY <1>5, NameAssumption DEF Kinds, Attaching, Allocating, Closing, Wanted
  <1>7. Uses' BY <1>5 DEF Uses
  <1>8. tabs[t].alloc # 0 BY <1>2 DEF PagesInv, World, Fates, Fate
  <1>9. Closes' BY <1>3, <1>5, <1>8 DEF Closes, Closing
  <1> QED BY <1>3, <1>4, <1>6, <1>7, <1>9 DEF PagesInv, Holder


LEMMA FatesKept ==
  ASSUME Fates, UNCHANGED <<tabs, releases>>, seen'.closes = seen.closes PROVE Fates'
  BY DEF Fates, Fate, Fenced

LEMMA JournalKept ==
  ASSUME Journalled, UNCHANGED <<tabs, allocs, releases>>, seen.held \subseteq seen'.held
  PROVE  Journalled'
  BY DEF Journalled, Finished, Unresolved

LEMMA SpacesKept ==
  ASSUME SpacesMapped, UNCHANGED <<tabs, homes, pool, owner>>, quota'.max = quota.max,
         \A c \in Chats : work'[c] \in {"active", "BLOCKED"} =>
                             work[c] \in {"active", "BLOCKED"} \/ Registered(c)
  PROVE  SpacesMapped'
  BY DEF SpacesMapped, PoolSpaces, Registered

\* A command that is gone knows nothing.
LEMMA QuitSafe == ASSUME World', cmd' = Quitted PROVE PagesInv'
  <1>1. cmd' \in Commands BY DEF Commands, Quitted, Urls, Steppings, SpaceNames
  <1>2. cmd'.pc = "free" /\ cmd'.kind = Nil /\ ~cmd'.own /\ ~cmd'.claim /\ cmd'.over = "no" BY DEF Quitted
  <1>3. Nil \notin {"send", "new", "close"} BY NameAssumption
  <1>4. Kinds' BY <1>2, <1>3, NameAssumption DEF Kinds, Attaching, Allocating, Wanted
  <1>5. Uses' BY <1>2 DEF Uses, Closing
  <1>6. Closes' BY <1>2 DEF Closes, Closing
  <1> QED BY <1>1, <1>4, <1>5, <1>6 DEF PagesInv, Holder

\* A command that fails keeps at most the page it has opened.
Grown ==
    /\ PoolSpaces \subseteq PoolSpaces'
    /\ \A c \in Chats : Registered(c) => Registered(c)'
    /\ \A i \in DOMAIN allocs : i \in DOMAIN allocs' /\ allocs'[i].t = allocs[i].t
    /\ \A t \in Targets : tabs[t].alloc # 0 => tabs'[t].alloc = tabs[t].alloc

LEMMA Broken ==
  ASSUME PagesInv, World', Grown, Breaks, cmd.pc \notin {"free", "opened"}
  PROVE  PagesInv'
  <1>1. PICK pc \in {"give back", "over"} :
           cmd' = [cmd EXCEPT !.pc = pc] /\ quota' = quota /\ (pc = "give back" => cmd.own)
    BY DEF Breaks
  <1>2. pc \in Steppings BY DEF Steppings
  <1>0. cmd \in Commands BY DEF PagesInv, Holder
  <1>A. cmd' = [cmd EXCEPT !.pc = pc] BY <1>1
  <1>B. quota' = quota /\ (pc = "give back" => cmd.own) BY <1>1
  <1>3. cmd' \in Commands /\ cmd'.pc = pc /\ Alike(cmd, cmd')
    BY <1>0, <1>A, <1>2, Stepped
  <1> USE <1>B, <1>3 DEF Alike, PagesInv, Holder
  <1>4. Kinds'
    <2>1. cmd.own => cmd.kind \in {"send", "new"} BY DEF Kinds
    <2>2. cmd'.kind \in {"send", "new"} => cmd'.chat \in Chats /\ cmd'.s \in PoolSpaces'
      BY DEF Kinds, Grown
    <2>3. cmd'.kind = "send" => Registered(cmd.chat)'
      BY DEF Kinds, Grown, Registered
    <2>4. cmd'.kind = "close" => cmd'.pc = "over" /\ cmd'.purpose = "MANAGEMENT_TERMINATION"
      BY <2>1 DEF Kinds
    <2> QED BY <2>1, <2>2, <2>3, <2>4 DEF Kinds, Attaching, Allocating, Closing
  <1>5. Uses'
    <2>1. ASSUME cmd.own
          PROVE  cmd.a \in DOMAIN allocs' /\ tabs'[cmd.t].alloc = cmd.a /\ allocs'[cmd.a].t = cmd.t
      <3>1. cmd.a \in DOMAIN allocs /\ tabs[cmd.t].alloc = cmd.a /\ allocs[cmd.a].t = cmd.t /\ cmd.t \in Targets
        BY <2>1 DEF Uses
      <3>2. cmd.a # 0
        BY <3>1, EntriesCounted
      <3> QED BY <3>1, <3>2 DEF Grown
    <2> QED BY <2>1 DEF Uses, Closing
  <1>6. Closes' BY DEF Closes, Closing
  <1> QED BY <1>4, <1>5, <1>6

LEMMA StopsSafe == ASSUME PagesInv, Stops PROVE PagesInv'
  <1>1. Rest /\ quota.events > 0 /\ quota' = [quota EXCEPT !.events = @ - 1] /\ cmd' = Quitted
    BY DEF Stops, Occurs
  <1> QED BY <1>1, OnlyCommand, QuitSafe

LEMMA OverSafe == ASSUME PagesInv, Over PROVE PagesInv'
  <1>1. /\ UNCHANGED <<tabs, homes, pool, owner, releases, allocs, seen, quota>> /\ cmd' = Quitted
        /\ \/ work' = work
           \/ /\ work' = [work EXCEPT ![cmd.chat] = IF cmd.kind = "new" THEN "active" ELSE @]
              /\ Registered(cmd.chat)
    BY DEF Over
  <1>2. work' \in [Chats -> WorkStates]
    BY <1>1 DEF PagesInv, World, Shapes, WorkStates
  <1>3. \A c \in Chats : work'[c] \in {"active", "BLOCKED"} =>
                             work[c] \in {"active", "BLOCKED"} \/ Registered(c)
    BY <1>1 DEF PagesInv, World, Shapes
  <1>4. World' BY <1>1, <1>2, <1>3, FatesKept, JournalKept, SpacesKept DEF PagesInv, World, Shapes
  <1> QED BY <1>1, <1>4, QuitSafe

-----------------------------------------------------------------------------
(* The world around the command. *)

\* What a command knows of the pages it uses lasts while they and the journals last.
LEMMA KnownStill ==
  ASSUME Holder, UNCHANGED <<homes, pool, owner, releases, allocs, seen>>, quota'.max = quota.max,
         \A t \in Targets : tabs'[t].alloc = tabs[t].alloc, cmd'.pc = cmd.pc, Alike(cmd, cmd')
  PROVE  Kinds' /\ Uses'
  <1>1. PoolSpaces' = PoolSpaces /\ Wanted' = Wanted /\ \A c : Registered(c)' <=> Registered(c)
    BY DEF PoolSpaces, Wanted, Registered, Alike
  <1>2. Kinds' BY <1>1 DEF Holder, Kinds, Alike
  <1>3. \A t : Fenced(t)' <=> Fenced(t) BY DEF Fenced
  <1>4. cmd.pc \in {"opened", "settle", "visit", "attach", "hand off", "prepare", "click"} \/ cmd.own =>
           cmd.t \in Targets /\ tabs'[cmd.t].alloc = tabs[cmd.t].alloc
    BY DEF Holder, Uses
  <1>5. Uses' BY <1>3, <1>4 DEF Holder, Uses, Alike
  <1> QED BY <1>2, <1>5

\* Only work changes; work that begins is registered, and what begins in a page that is about
\* to be closed is known to be late.
LEMMA WorkChanges ==
  ASSUME PagesInv, UNCHANGED <<tabs, homes, pool, owner, releases, allocs, seen>>,
         quota' \in Instances, quota'.max = quota.max, work' \in [Chats -> WorkStates],
         \A c \in Chats : work'[c] \in {"active", "BLOCKED"} =>
                             work[c] \in {"active", "BLOCKED"} \/ Registered(c),
         cmd' \in Commands, cmd'.pc = cmd.pc, Alike(cmd, cmd'), cmd.late \subseteq cmd'.late,
         cmd.pc = "close" => \A c \in Chats : tabs[cmd.r].url = c /\ work'[c] \in {"active", "BLOCKED"} =>
                                work[c] \in {"active", "BLOCKED"} \/ "task" \in cmd'.late
  PROVE  PagesInv'
  <1>1. World' BY FatesKept, JournalKept, SpacesKept DEF PagesInv, World, Shapes
  <1>2. Kinds' /\ Uses' BY KnownStill DEF PagesInv
  <1> USE DEF PagesInv, Holder, Alike
  <1>4. (cmd.pc = "verify" => Idles)' /\ (cmd.pc = "close" => Idles /\ Unworked)'
    BY DEF Closes, Idles, Unworked
  <1>5. Closes' BY <1>4 DEF Closes, Closing
  <1> QED BY <1>1, <1>2, <1>5

LEMMA ClaimsSafe ==
  ASSUME PagesInv, NEW c \in Chats, Queue(c) \/ Claims(c) \/ Recovers(c) \/ Results(c)
  PROVE  PagesInv'
  <1>1. /\ UNCHANGED <<tabs, homes, pool, owner, releases, allocs, seen, cmd>>
        /\ quota' = quota \/ (quota.events > 0 /\ quota' = [quota EXCEPT !.events = @ - 1])
        /\ work' = work \/ \E w \in EndedWork : work' = [work EXCEPT ![c] = w]
    BY DEF Queue, Claims, Recovers, Results, Occurs
  <1>2. quota' \in Instances /\ quota'.max = quota.max
    BY <1>1, Spent DEF PagesInv, World, Shapes
  <1>3. /\ work' \in [Chats -> WorkStates]
        /\ \A d \in Chats : work'[d] \in {"active", "BLOCKED"} => work[d] \in {"active", "BLOCKED"}
    BY <1>1 DEF PagesInv, World, Shapes, WorkStates, EndedWork
  <1>4. cmd' \in Commands /\ cmd'.pc = cmd.pc /\ Alike(cmd, cmd') /\ cmd.late \subseteq cmd'.late
    BY <1>1 DEF PagesInv, Holder, Alike
  <1> QED BY <1>1, <1>2, <1>3, <1>4, WorkChanges

\* What begins late is added to the command's history, nothing else of it changes.
LEMMA LateKnown ==
  ASSUME cmd \in Commands, NEW what \in {"turn", "task"}, Late(what)
  PROVE  /\ cmd' \in Commands /\ cmd'.pc = cmd.pc /\ Alike(cmd, cmd')
         /\ cmd.late \subseteq cmd'.late /\ what \in cmd'.late
  <1>1. cmd.late \cup {what} \in SUBSET {"turn", "task"} BY DEF Commands
  <1>2. cmd' = [cmd EXCEPT !.late = cmd.late \cup {what}] BY DEF Late
  <1>3. cmd' \in Commands BY ZenonT(60), <1>1, <1>2 DEF Commands
  <1>4. cmd'.late = cmd.late \cup {what} /\ cmd'.pc = cmd.pc /\ Alike(cmd, cmd')
    BY <1>2 DEF Commands, Alike
  <1> QED BY <1>3, <1>4

LEMMA SetsSafe == ASSUME PagesInv, NEW c \in Chats, Sets(c) PROVE PagesInv'
  <1>1. /\ UNCHANGED <<tabs, homes, pool, owner, releases, allocs, seen>>
        /\ quota.events > 0 /\ quota' = [quota EXCEPT !.events = @ - 1] /\ Registered(c)
        /\ \E w \in WorkStates : work' = [work EXCEPT ![c] = w]
        /\ IF cmd.pc = "close" /\ tabs[cmd.r].url = c THEN Late("task") ELSE cmd' = cmd
    BY DEF Sets, Occurs
  <1>2. quota' \in Instances /\ quota'.max = quota.max
    BY <1>1, Spent DEF PagesInv, World, Shapes
  <1>3. work' \in [Chats -> WorkStates] /\ \A d \in Chats : d # c => work'[d] = work[d]
    BY <1>1 DEF PagesInv, World, Shapes
  <1>4. /\ cmd' \in Commands /\ cmd'.pc = cmd.pc /\ Alike(cmd, cmd') /\ cmd.late \subseteq cmd'.late
        /\ cmd.pc = "close" /\ tabs[cmd.r].url = c => "task" \in cmd'.late
    <2>1. cmd \in Commands BY DEF PagesInv, Holder
    <2>2. cmd' = cmd \/ Late("task") BY <1>1
    <2>3. cmd' \in Commands /\ cmd'.pc = cmd.pc /\ Alike(cmd, cmd') /\ cmd.late \subseteq cmd'.late
      BY <2>1, <2>2, LateKnown DEF Alike
    <2>4. cmd.pc = "close" /\ tabs[cmd.r].url = c => "task" \in cmd'.late BY <1>1, <2>1, LateKnown
    <2> QED BY <2>3, <2>4
  <1>5. \A d \in Chats : work'[d] \in {"active", "BLOCKED"} => work[d] \in {"active", "BLOCKED"} \/ Registered(d)
    BY <1>1, <1>3
  <1>6. cmd.pc = "close" => \A d \in Chats : tabs[cmd.r].url = d /\ work'[d] \in {"active", "BLOCKED"} =>
                               work[d] \in {"active", "BLOCKED"} \/ "task" \in cmd'.late
    BY <1>3, <1>4
  <1>7. UNCHANGED <<tabs, homes, pool, owner, releases, allocs, seen>> BY <1>1
  <1> HIDE <1>1
  <1> QED BY <1>2, <1>3, <1>4, <1>5, <1>6, <1>7, WorkChanges

LEMMA TakesSafe == ASSUME PagesInv, NEW s \in SpaceNames, Takes(s) PROVE PagesInv'
  <1>1. /\ UNCHANGED <<tabs, homes, pool, work, releases, allocs, seen, cmd>>
        /\ quota.events > 0 /\ quota' = [quota EXCEPT !.events = @ - 1]
        /\ owner[s] # "none" /\ owner' = [owner EXCEPT ![s] = IF @ = "agent" THEN "user" ELSE "agent"]
    BY DEF Takes, Occurs
  <1>2. quota' \in Instances /\ quota'.max = quota.max
    BY <1>1, Spent DEF PagesInv, World, Shapes
  <1>3. /\ owner' \in [SpaceNames -> {"agent", "user", "none"}]
        /\ \A u \in SpaceNames : owner'[u] = "none" <=> owner[u] = "none"
    BY <1>1 DEF PagesInv, World, Shapes
  <1>4. PoolSpaces \subseteq SpaceNames BY DEF PagesInv, World, Shapes, PoolSpaces, SpaceNames
  <1>5. SpacesMapped'
    BY <1>1, <1>2, <1>3, <1>4 DEF PagesInv, World, SpacesMapped, PoolSpaces, Registered, SpaceNames
  <1>6. World' BY <1>1, <1>2, <1>3, <1>5, FatesKept, JournalKept DEF PagesInv, World, Shapes
  <1> USE <1>1, <1>2 DEF PagesInv, Holder
  <1>7. Kinds'
    <2>1. owner'[Wanted] = "none" <=> owner[Wanted] = "none" BY <1>3 DEF Wanted, SpaceNames
    <2>2. Wanted' = Wanted BY <1>1 DEF Wanted
    <2> HIDE <1>3
    <2> QED BY <2>1, <2>2 DEF Kinds, PoolSpaces, Registered
  <1>8. Uses' BY DEF Uses, Fenced
  <1>9. Closes' BY DEF Closes, Closing, Idles, Unworked
  <1> QED BY <1>6, <1>7, <1>8, <1>9

-----------------------------------------------------------------------------
(* Attaching and sending. *)

LEMMA LiveOpened == ASSUME World, NEW t \in Targets, tabs[t].live PROVE tabs[t].alloc # 0 /\ tabs[t].s \in PoolSpaces
  BY DEF World, Fates, Fate, SpacesMapped

LEMMA GrownRest ==
  ASSUME UNCHANGED <<homes, pool>>, \A i \in DOMAIN allocs : i \in DOMAIN allocs' /\ allocs'[i].t = allocs[i].t,
         \A t \in Targets : tabs[t].alloc # 0 => tabs'[t].alloc = tabs[t].alloc
  PROVE  Grown
  BY DEF Grown, PoolSpaces, Registered

\* A step of the command to another place where it has no more to know than before.
LEMMA LocateSafe == ASSUME PagesInv, Locate PROVE PagesInv'
  <1>1. cmd.pc = "locate" /\ Rest BY DEF Locate
  <1>2. CASE Breaks
    <2>1. quota' = quota BY <1>2 DEF Breaks
    <2>2. World' /\ Grown BY <1>1, <2>1, OnlyCommand, GrownRest
    <2> QED BY <1>1, <1>2, <2>2, Broken
  <1>3. CASE /\ homes[cmd.chat].s # Nil
             /\ cmd' = [cmd EXCEPT !.pc = "intend", !.s = homes[cmd.chat].s] /\ quota' = quota
    <2>1. World' /\ UNCHANGED <<homes, pool, tabs, releases, allocs>> /\ quota'.max = quota.max
      BY <1>1, <1>3, OnlyCommand
    <2>2. cmd \in Commands /\ cmd.kind \in {"send", "new"} /\ cmd.chat \in Chats /\ ~cmd.own
      BY <1>1 DEF PagesInv, Holder, Kinds, Uses, Attaching
    <2>3. homes[cmd.chat].s \in SpaceNames /\ homes[cmd.chat].s \in PoolSpaces
      BY <1>3, <2>2 DEF PagesInv, World, Shapes, Homes, SpacesMapped, Registered
    <2>4. cmd' \in Commands /\ cmd'.pc = "intend" /\ cmd'.s = homes[cmd.chat].s /\ cmd'.kind = cmd.kind
          /\ cmd'.chat = cmd.chat /\ cmd'.own = cmd.own /\ cmd'.over = cmd.over /\ cmd'.claim = cmd.claim
      BY <1>3, <2>2, <2>3 DEF Commands, Steppings, Allocating
    <2>5. Kinds' BY ZenonT(60), <2>1, <2>2, <2>3, <2>4, NameAssumption DEF PagesInv, Holder, Kinds, PoolSpaces, Registered, Wanted
    <2>6. Uses' BY <2>2, <2>4 DEF Uses, Closing
    <2>7. Closes' BY <2>4 DEF Closes, Closing
    <2> QED BY <2>1, <2>4, <2>5, <2>6, <2>7 DEF PagesInv, Holder
  <1>4. ASSUME NEW t \in Targets, tabs[t].live, ~Fenced(t), quota' = quota,
               cmd' = [cmd EXCEPT !.pc = "attach", !.t = t, !.s = tabs[t].s]
        PROVE  PagesInv'
    <2>1. World' /\ UNCHANGED <<homes, pool, tabs, releases, allocs>> /\ quota'.max = quota.max
      BY <1>1, <1>4, OnlyCommand
    <2>2. cmd \in Commands /\ cmd.kind \in {"send", "new"} /\ cmd.chat \in Chats /\ ~cmd.own
      BY <1>1 DEF PagesInv, Holder, Kinds, Uses, Attaching
    <2>3. tabs[t].s \in SpaceNames /\ tabs[t].s \in PoolSpaces /\ tabs[t].alloc # 0
      BY <1>4, LiveOpened DEF PagesInv, World, Shapes, Tabs
    <2>4. cmd' \in Commands /\ cmd'.pc = "attach" /\ cmd'.s = tabs[t].s /\ cmd'.kind = cmd.kind /\ cmd'.t = t
          /\ cmd'.chat = cmd.chat /\ cmd'.own = cmd.own /\ cmd'.over = cmd.over /\ cmd'.claim = cmd.claim
      BY <1>4, <2>2, <2>3 DEF Commands, Steppings, Attaching
    <2>5. Kinds' BY ZenonT(60), <2>1, <2>2, <2>3, <2>4, NameAssumption DEF PagesInv, Holder, Kinds, PoolSpaces, Registered, Wanted
    <2>6. Uses' BY <1>4, <2>1, <2>2, <2>3, <2>4 DEF Uses, Closing, Fenced
    <2>7. Closes' BY <2>4 DEF Closes, Closing
    <2> QED BY <2>1, <2>4, <2>5, <2>6, <2>7 DEF PagesInv, Holder
  <1>5. homes[cmd.chat].s # Nil BY <1>1 DEF PagesInv, Holder, Kinds, Registered
  <1> DEFINE c == cmd.chat
             here == Showing(homes[c].s, c)
             saved == {t \in here : tabs[t].label = homes[c].label}
             near == IF saved # {} THEN saved ELSE here
             far == UNION {Showing(s, c) : s \in PoolSpaces}
             found == IF near # {} \/ pool = <<>> THEN near ELSE far
  <1>6. found \subseteq {t \in Targets : tabs[t].live} BY DEF Showing, Live
  <1>7. \/ Breaks
        \/ Bindable(homes[c].s) /\ cmd' = [cmd EXCEPT !.pc = "intend", !.s = homes[c].s] /\ quota' = quota
        \/ \E t \in found : ~Fenced(t) /\ cmd' = [cmd EXCEPT !.pc = "attach", !.t = t, !.s = tabs[t].s]
                            /\ quota' = quota
    BY DEF Locate
  <1> QED BY <1>2, <1>3, <1>4, <1>5, <1>6, <1>7

\* Pages that only show something else, begin or end a turn, or go away.
LEMMA TabsKept ==
  ASSUME World, tabs' \in [Targets -> Tabs],
         \A t \in Targets : /\ tabs'[t].alloc = tabs[t].alloc /\ tabs'[t].s = tabs[t].s
                            /\ tabs'[t].live => tabs[t].live,
         UNCHANGED <<homes, pool, owner, work, releases, allocs, seen>>,
         quota' \in Instances, quota'.max = quota.max
  PROVE  World'
  <1>1. Shapes' BY DEF World, Shapes
  <1>2. Fates' BY DEF World, Fates, Fate, Fenced
  <1>3. Journalled'
    <2>1. \A t \in Targets : tabs'[t].live => t \in seen'.held \/ ~Finished(tabs[t].alloc)
      BY DEF World, Journalled
    <2>2. \A i : Finished(i)' <=> Finished(i) BY DEF Finished
    <2>3. \A s : Unresolved(s)' = Unresolved(s) BY <2>2 DEF Unresolved
    <2>4. \A i \in DOMAIN allocs : allocs[i].t # 0 => tabs'[allocs[i].t].alloc = i
      <3>1. \A i \in DOMAIN allocs : allocs[i].t \in Targets \cup {0} BY EntriesCounted DEF Entries
      <3> QED BY <3>1 DEF World, Journalled
    <2> QED BY <2>1, <2>2, <2>3, <2>4 DEF World, Journalled
  <1>4. SpacesMapped' BY DEF World, SpacesMapped, PoolSpaces, Registered
  <1> QED BY <1>1, <1>2, <1>3, <1>4 DEF World

\* A turn of a page begins or ends; one that begins in a page that is about to be closed is
\* known to be late.
LEMMA TurnsKept ==
  ASSUME PagesInv, UNCHANGED <<homes, pool, owner, work, releases, allocs, seen>>,
         quota' \in Instances, quota'.max = quota.max, tabs' \in [Targets -> Tabs],
         \A t \in Targets : /\ tabs'[t].alloc = tabs[t].alloc /\ tabs'[t].s = tabs[t].s
                            /\ tabs'[t].live => tabs[t].live
                            /\ tabs'[t].url \in Chats => tabs[t].url = tabs'[t].url,
         cmd' \in Commands, cmd'.pc = cmd.pc, Alike(cmd, cmd'), cmd.late \subseteq cmd'.late,
         cmd.pc \in {"verify", "close"} /\ tabs'[cmd.r].busy => tabs[cmd.r].busy \/ "turn" \in cmd'.late
  PROVE  PagesInv'
  <1>1. World' BY TabsKept DEF PagesInv
  <1>2. Kinds' /\ Uses' BY KnownStill DEF PagesInv
  <1> USE DEF PagesInv, Holder, Alike
  <1>4. cmd.pc \in Closing \cup {"guard"} =>
           /\ cmd.r \in Targets /\ tabs'[cmd.r].alloc = tabs[cmd.r].alloc
           /\ tabs'[cmd.r].live => tabs[cmd.r].live
           /\ tabs'[cmd.r].url \in Chats => tabs[cmd.r].url = tabs'[cmd.r].url
    BY DEF Closes
  <1>5. (cmd.pc = "verify" => Idles)' /\ (cmd.pc = "close" => Idles /\ Unworked)'
    BY <1>4 DEF Closes, Closing, Idles, Unworked
  <1>6. Closes' BY <1>4, <1>5 DEF Closes, Closing
  <1> QED BY <1>1, <1>2, <1>6

LEMMA TurnsSafe == ASSUME PagesInv, NEW t \in Targets, Turns(t) PROVE PagesInv'
  <1>1. /\ UNCHANGED <<homes, pool, owner, work, releases, allocs, cmd, seen>>
        /\ quota' = quota \/ (quota.events > 0 /\ quota' = [quota EXCEPT !.events = @ - 1])
        /\ \/ tabs' = [tabs EXCEPT ![t].busy = FALSE, ![t].url = IF @ = Home THEN Foreign ELSE @]
           \/ tabs' = [tabs EXCEPT ![t].draft = TRUE]
           \/ tabs' = [tabs EXCEPT ![t].live = FALSE]
    BY DEF Turns, Occurs
  <1>2. tabs \in [Targets -> Tabs] /\ quota \in Instances BY DEF PagesInv, World, Shapes
  <1>3. quota' \in Instances /\ quota'.max = quota.max BY <1>1, <1>2, Spent
  <1>4. Foreign \in Urls /\ Foreign \notin Chats BY NameAssumption DEF Urls
  <1>5. PICK url \in Urls : /\ url = tabs[t].url \/ url = Foreign
                           /\ \/ tabs' = [tabs EXCEPT ![t].busy = FALSE, ![t].url = url]
                              \/ tabs' = [tabs EXCEPT ![t].draft = TRUE]
                              \/ tabs' = [tabs EXCEPT ![t].live = FALSE]
    <2>1. tabs[t].url \in Urls BY <1>2 DEF Tabs
    <2> QED BY <1>1, <1>2, <1>4, <2>1 DEF Tabs
  <1>6. tabs' \in [Targets -> Tabs]
    <2>1. /\ [tabs[t] EXCEPT !.busy = FALSE, !.url = url] \in Tabs
          /\ [tabs[t] EXCEPT !.draft = TRUE] \in Tabs
          /\ [tabs[t] EXCEPT !.live = FALSE] \in Tabs
      BY ZenonT(60), <1>2, <1>5 DEF Tabs
    <2> QED BY <1>2, <1>5, <2>1
  <1>7. \A u \in Targets : /\ tabs'[u].alloc = tabs[u].alloc /\ tabs'[u].s = tabs[u].s
                           /\ tabs'[u].live => tabs[u].live
                           /\ tabs'[u].url \in Chats => tabs[u].url = tabs'[u].url
                           /\ tabs'[u].busy => tabs[u].busy
    BY <1>2, <1>4, <1>5 DEF Tabs
  <1>8. UNCHANGED <<homes, pool, owner, work, releases, allocs, seen>> BY <1>1
  <1>9. /\ cmd' \in Commands /\ cmd'.pc = cmd.pc /\ Alike(cmd, cmd') /\ cmd.late \subseteq cmd'.late
        /\ cmd.pc \in {"verify", "close"} => cmd.r \in Targets
    BY <1>1 DEF PagesInv, Holder, Alike, Closes, Closing
  <1> HIDE <1>1, <1>5
  <1> QED BY <1>3, <1>6, <1>7, <1>8, <1>9, TurnsKept

LEMMA SendsSafe == ASSUME PagesInv, NEW t \in Targets, Sends(t) PROVE PagesInv'
  <1>1. /\ UNCHANGED <<homes, pool, owner, work, releases, allocs, seen>>
        /\ quota.events > 0 /\ quota' = [quota EXCEPT !.events = @ - 1]
        /\ IF cmd.pc \in {"verify", "close"} /\ cmd.r = t THEN Late("turn") ELSE cmd' = cmd
    BY DEF Sends, Occurs
  <1>2. tabs \in [Targets -> Tabs] /\ quota \in Instances /\ cmd \in Commands
    BY DEF PagesInv, Holder, World, Shapes
  <1>3. quota' \in Instances /\ quota'.max = quota.max BY <1>1, <1>2, Spent
  <1>4. {Home, Foreign} \subseteq Urls /\ Home \notin Chats /\ Foreign \notin Chats BY NameAssumption DEF Urls
  <1>5. PICK url \in Urls : /\ url = tabs[t].url \/ url \notin Chats
                           /\ tabs' = [tabs EXCEPT ![t].busy = TRUE, ![t].draft = FALSE, ![t].url = url]
    <2>1. tabs[t].url \in Urls BY <1>2 DEF Tabs
    <2> QED BY <1>4, <2>1 DEF Sends
  <1>6. tabs' \in [Targets -> Tabs]
    <2>1. [tabs[t] EXCEPT !.busy = TRUE, !.draft = FALSE, !.url = url] \in Tabs
      BY ZenonT(60), <1>2, <1>5 DEF Tabs
    <2> QED BY <1>2, <1>5, <2>1
  <1>7. \A u \in Targets : /\ tabs'[u].alloc = tabs[u].alloc /\ tabs'[u].s = tabs[u].s
                           /\ tabs'[u].live => tabs[u].live
                           /\ tabs'[u].url \in Chats => tabs[u].url = tabs'[u].url
                           /\ u # t => tabs'[u].busy = tabs[u].busy
    BY <1>2, <1>5 DEF Tabs
  <1>8. /\ cmd' \in Commands /\ cmd'.pc = cmd.pc /\ Alike(cmd, cmd') /\ cmd.late \subseteq cmd'.late
        /\ cmd.pc \in {"verify", "close"} /\ cmd.r = t => "turn" \in cmd'.late
    <2>1. cmd' = cmd \/ Late("turn") BY <1>1
    <2>2. cmd' \in Commands /\ cmd'.pc = cmd.pc /\ Alike(cmd, cmd') /\ cmd.late \subseteq cmd'.late
      BY <1>2, <2>1, LateKnown DEF Alike
    <2>3. cmd.pc \in {"verify", "close"} /\ cmd.r = t => "turn" \in cmd'.late BY <1>1, <1>2, LateKnown
    <2> QED BY <2>2, <2>3
  <1>9. cmd.pc \in {"verify", "close"} => cmd.r \in Targets BY DEF PagesInv, Holder, Closes, Closing
  <1>10. UNCHANGED <<homes, pool, owner, work, releases, allocs, seen>> BY <1>1
  <1> HIDE <1>1, <1>5
  <1> QED BY <1>3, <1>6, <1>7, <1>8, <1>9, <1>10, TurnsKept

\* The command goes on with the page it uses.
Onward(c, d) ==
    /\ d.kind = c.kind /\ d.chat = c.chat /\ d.claim = c.claim /\ d.s = c.s /\ d.t = c.t /\ d.a = c.a
    /\ d.own => c.own
    /\ d.over = c.over

LEMMA UsesOn ==
  ASSUME PagesInv, World', Grown, UNCHANGED releases, quota'.max = quota.max,
         cmd.pc \in {"settle", "visit", "attach", "hand off", "prepare", "click"}, cmd' \in Commands, Onward(cmd, cmd'),
         cmd'.pc \in {"visit", "prepare", "attach", "hand off", "click", "over"},
         cmd'.pc \in {"visit", "hand off"} => cmd'.own,
         cmd'.pc = "hand off" => cmd.t \in seen'.held
  PROVE  PagesInv'
  <1>3. cmd.kind \in {"send", "new"} /\ cmd.chat \in Chats /\ cmd.s \in PoolSpaces
    BY DEF PagesInv, Holder, Kinds, Attaching, Allocating
  <1>4. cmd.t \in Targets /\ tabs[cmd.t].alloc # 0 /\ ~Fenced(cmd.t) BY DEF PagesInv, Holder, Uses
  <1>5. Kinds' BY <1>3, NameAssumption DEF PagesInv, Holder, Kinds, Grown, Onward, Registered, Wanted
  <1>6. Uses'
    <2>1. tabs'[cmd.t].alloc = tabs[cmd.t].alloc /\ ~Fenced(cmd.t)'
      <3>1. ~Fenced(cmd.t)' BY <1>4 DEF Fenced, Onward
      <3> QED BY <1>4, <3>1 DEF Grown
    <2>2. cmd.own => cmd.a \in DOMAIN allocs' /\ allocs'[cmd.a].t = cmd.t /\ tabs[cmd.t].alloc = cmd.a
      BY DEF PagesInv, Holder, Uses, Grown
    <2> QED BY <1>4, <2>1, <2>2 DEF Uses, Onward, Closing
  <1>7. Closes' BY DEF Closes, Closing
  <1> QED BY <1>5, <1>6, <1>7 DEF PagesInv, Holder

LEMMA SteppedOn ==
  ASSUME PagesInv, NEW pc \in Steppings, cmd' = [cmd EXCEPT !.pc = pc]
  PROVE  cmd' \in Commands /\ cmd'.pc = pc /\ Alike(cmd, cmd') /\ Onward(cmd, cmd')
  BY Stepped DEF PagesInv, Holder, Alike, Onward

\* The page did not show the conversation: its record loses the page, and keeps a Space.
LEMMA DetachedSafe ==
  ASSUME PagesInv, UNCHANGED <<tabs, pool, owner, work, releases, allocs, seen>>, quota' = quota,
         cmd.pc \in Attaching, Detaches, Breaks
  PROVE  PagesInv'
  <1>1. cmd.chat \in Chats /\ cmd.s \in PoolSpaces /\ cmd.s \in SpaceNames
    BY DEF PagesInv, Holder, Kinds, Commands
  <1>2. cmd.s # Nil BY <1>1, NameAssumption
  <1>3. homes \in [Chats -> Homes] /\ quota \in Instances BY DEF PagesInv, World, Shapes
  <1>4. /\ homes' \in [Chats -> Homes]
        /\ \A c \in Chats : homes'[c].s = homes[c].s \/ homes'[c].s = cmd.s
    <2>1. [homes[cmd.chat] EXCEPT !.s = cmd.s, !.label = 0] \in Homes BY <1>1, <1>3 DEF Homes
    <2> QED BY <1>1, <1>3, <2>1 DEF Detaches, Homes
  <1>5. \A c \in Chats : Registered(c) => Registered(c)' BY <1>2, <1>4 DEF Registered
  <1>6. Shapes' BY <1>3, <1>4 DEF PagesInv, World, Shapes
  <1>7. SpacesMapped' BY <1>1, <1>4, <1>5 DEF PagesInv, World, SpacesMapped, PoolSpaces, Registered
  <1>8. World' BY <1>6, <1>7, FatesKept, JournalKept DEF PagesInv, World
  <1>9. Grown BY <1>5 DEF Grown, PoolSpaces
  <1> QED BY <1>8, <1>9, Broken DEF Attaching

LEMMA VisitsSafe == ASSUME PagesInv, Visits PROVE PagesInv'
  <1>1. cmd.pc = "visit" /\ UNCHANGED <<pool, owner, work, releases, allocs, seen>> BY DEF Visits
  <1>2. quota' = quota BY DEF Visits, Steps, Mishap, Breaks
  <1>3. quota' \in Instances /\ quota'.max = quota.max /\ tabs \in [Targets -> Tabs]
    BY <1>2 DEF PagesInv, World, Shapes
  <1>4. cmd.t \in Targets /\ cmd.chat \in Chats BY <1>1 DEF PagesInv, Holder, Uses, Kinds, Attaching
  <1>5. CASE /\ tabs[cmd.t].live /\ UNCHANGED homes
             /\ tabs' = [tabs EXCEPT ![cmd.t].url = IF cmd.kind = "new" THEN Home ELSE cmd.chat]
             /\ Steps(IF cmd.kind = "new" THEN "prepare" ELSE "attach")
    <2>1. tabs' \in [Targets -> Tabs] BY <1>3, <1>4, <1>5 DEF Tabs, Urls
    <2>2. \A t \in Targets : /\ tabs'[t].alloc = tabs[t].alloc /\ tabs'[t].s = tabs[t].s
                             /\ tabs'[t].live => tabs[t].live
      BY <1>3, <1>4, <1>5 DEF Tabs
    <2>4. UNCHANGED homes BY <1>5
    <2>5. World' BY <1>1, <1>3, <2>1, <2>2, <2>4, TabsKept DEF PagesInv
    <2>6. Grown BY <1>1, <2>2, <2>4, GrownRest
    <2>7. PICK pc \in {"prepare", "attach"} : cmd' = [cmd EXCEPT !.pc = pc] BY <1>5 DEF Steps
    <2>8. cmd' \in Commands /\ cmd'.pc = pc /\ Onward(cmd, cmd')
      BY <2>7, SteppedOn DEF Steppings, Attaching
    <2> HIDE <1>5
    <2> QED BY <1>1, <1>3, <2>5, <2>6, <2>8, UsesOn
  <1>6. CASE UNCHANGED <<tabs, homes>> /\ Mishap
    <2>1. World' BY <1>1, <1>3, <1>6, WorldKept DEF places, PagesInv
    <2>2. Grown BY <1>1, <1>6, GrownRest
    <2> QED BY <1>1, <1>6, <2>1, <2>2, Broken DEF Mishap
  <1>7. CASE UNCHANGED tabs /\ Detaches /\ Mishap
    <2>1. cmd.pc \notin {"free", "opened"} /\ UNCHANGED <<tabs, pool, owner, work, releases, allocs, seen>>
      BY <1>1, <1>7
    <2> QED BY <1>1, <1>2, <1>7, <2>1, DetachedSafe DEF Mishap, Attaching
  <1> QED BY <1>5, <1>6, <1>7 DEF Visits

LEMMA ClicksSafe == ASSUME PagesInv, Clicks PROVE PagesInv'
  <1>1. cmd.pc = "click" /\ UNCHANGED <<homes, pool, owner, work, releases, allocs, seen>> BY DEF Clicks
  <1>2. quota' = quota BY DEF Clicks, Steps, Mishap, Breaks
  <1>3. quota' \in Instances /\ quota'.max = quota.max /\ tabs \in [Targets -> Tabs]
    BY <1>2 DEF PagesInv, World, Shapes
  <1>4. cmd.t \in Targets /\ cmd.chat \in Chats BY <1>1 DEF PagesInv, Holder, Uses, Kinds, Attaching
  <1>5. CASE /\ tabs' = [tabs EXCEPT ![cmd.t].busy = TRUE, ![cmd.t].url = cmd.chat]
             /\ Steps(IF cmd.kind = "new" THEN "attach" ELSE "over")
    <2>1. tabs' \in [Targets -> Tabs] BY <1>3, <1>4, <1>5 DEF Tabs, Urls
    <2>2. \A t \in Targets : /\ tabs'[t].alloc = tabs[t].alloc /\ tabs'[t].s = tabs[t].s
                             /\ tabs'[t].live => tabs[t].live
      BY <1>3, <1>4, <1>5 DEF Tabs
    <2>5. World' BY <1>1, <1>3, <2>1, <2>2, TabsKept DEF PagesInv
    <2>6. Grown BY <1>1, <2>2, GrownRest
    <2>7. PICK pc \in {"over", "attach"} : cmd' = [cmd EXCEPT !.pc = pc] BY <1>5 DEF Steps
    <2>8. cmd' \in Commands /\ cmd'.pc = pc /\ Onward(cmd, cmd')
      BY <2>7, SteppedOn DEF Steppings, Attaching
    <2> HIDE <1>5
    <2> QED BY <1>1, <1>3, <2>5, <2>6, <2>8, UsesOn
  <1>6. CASE UNCHANGED tabs /\ Mishap
    <2>1. World' BY <1>1, <1>3, <1>6, WorldKept DEF places, PagesInv
    <2>2. Grown BY <1>1, <1>6, GrownRest
    <2> QED BY <1>1, <1>6, <2>1, <2>2, Broken DEF Mishap
  <1> QED BY <1>5, <1>6 DEF Clicks


-----------------------------------------------------------------------------
(* The allocation journal. *)

Final == {"ALLOCATION_REFUSED", "PAGE_RELEASED", "PAGE_HANDED_OFF"}

\* Nothing is recorded in the journal but the state of allocation i.
Filed(i) ==
    /\ allocs' \in Seq(Entries) /\ DOMAIN allocs' = DOMAIN allocs
    /\ \A j \in DOMAIN allocs :
          /\ allocs'[j].claim = allocs[j].claim /\ allocs'[j].s = allocs[j].s /\ allocs'[j].t = allocs[j].t
          /\ j # i => allocs'[j].phase = allocs[j].phase

LEMMA FiledBy ==
  ASSUME World, NEW i \in DOMAIN allocs, NEW phase \in Stages, allocs' = [allocs EXCEPT ![i].phase = phase]
  PROVE  Filed(i) /\ allocs'[i].phase = phase
  <1>1. allocs \in Seq(Entries) /\ allocs[i] \in Entries BY EntriesCounted DEF World, Shapes
  <1>2. [allocs[i] EXCEPT !.phase = phase] \in Entries BY <1>1 DEF Entries
  <1>3. allocs' = [allocs EXCEPT ![i] = [allocs[i] EXCEPT !.phase = phase]] BY <1>1
  <1>4. allocs' \in Seq(Entries) /\ DOMAIN allocs' = DOMAIN allocs BY <1>1, <1>2, <1>3
  <1>5. \A j \in DOMAIN allocs :
          /\ allocs'[j].claim = allocs[j].claim /\ allocs'[j].s = allocs[j].s /\ allocs'[j].t = allocs[j].t
          /\ j # i => allocs'[j].phase = allocs[j].phase
          /\ j = i => allocs'[j].phase = phase
    BY <1>1 DEF Entries
  <1> QED BY <1>4, <1>5 DEF Filed

LEMMA FiledSafe ==
  ASSUME World, NEW i \in DOMAIN allocs, Filed(i),
         UNCHANGED <<tabs, homes, pool, owner, work, releases, seen>>, quota' = quota,
         allocs'[i].phase = "PAGE_HANDED_OFF" => allocs[i].t \in seen.held,
         allocs[i].phase \in Final => allocs'[i].phase \in Final,
         allocs'[i].phase \in Final =>
            \A t \in Targets : tabs[t].live /\ tabs[t].alloc = i => t \in seen.held
  PROVE  World' /\ Grown
  <1>1. Shapes' BY DEF World, Shapes, Filed
  <1>2. Fates' BY FatesKept DEF World
  <1>3. SpacesMapped' BY DEF World, SpacesMapped, PoolSpaces, Registered
  <1>4. \A j \in DOMAIN allocs : /\ j # i => (Finished(j)' <=> Finished(j))
                                 /\ Finished(j) => Finished(j)'
                                 /\ allocs'[i].phase \notin Final => (Finished(j)' <=> Finished(j))
    BY DEF Finished, Filed, Final
  <1>5. Journalled'
    <2>1. \A t \in Targets : tabs[t].alloc # 0 => tabs[t].alloc \in DOMAIN allocs BY DEF World, Journalled
    <2>2. \A t \in Targets : tabs[t].live => tabs[t].alloc # 0 BY LiveOpened
    <2>3. \A t \in Targets : (tabs[t].live => t \in seen.held \/ ~Finished(tabs[t].alloc))'
      BY <1>4, <2>1, <2>2 DEF World, Journalled
    <2>4. \A s : Unresolved(s)' \subseteq Unresolved(s) BY <1>4 DEF Unresolved, Filed
    <2>5. \A j \in DOMAIN allocs' : allocs'[j].phase = "PAGE_HANDED_OFF" => allocs'[j].t \in seen'.held
      BY DEF World, Journalled, Filed
    <2>6. \A j \in DOMAIN allocs' : allocs'[j].t # 0 => tabs'[allocs'[j].t].alloc = j
      BY DEF World, Journalled, Filed
    <2>7. \A s \in SpaceNames : \A j, k \in Unresolved(s)' : j = k BY <2>4 DEF World, Journalled
    <2> QED BY <2>1, <2>3, <2>5, <2>6, <2>7 DEF World, Journalled, Filed
  <1>6. Grown BY GrownRest DEF Filed
  <1> QED BY <1>1, <1>2, <1>3, <1>5, <1>6 DEF World

LEMMA AttachSafe == ASSUME PagesInv, Attach PROVE PagesInv'
  <1>1. cmd.pc = "attach" /\ UNCHANGED <<tabs, pool, owner, work, releases, allocs>> BY DEF Attach
  <1>2. quota' = quota BY DEF Attach, Steps, Mishap, Breaks
  <1>3. /\ quota' \in Instances /\ quota'.max = quota.max /\ tabs \in [Targets -> Tabs]
        /\ homes \in [Chats -> Homes] /\ seen \in [closes : [Targets -> Nat], held : SUBSET Targets]
    BY <1>2 DEF PagesInv, World, Shapes
  <1>4. cmd.t \in Targets /\ cmd.chat \in Chats /\ cmd.s \in PoolSpaces /\ cmd.s \in SpaceNames
    BY <1>1 DEF PagesInv, Holder, Uses, Kinds, Attaching, Commands
  <1>5. CASE /\ homes' = [homes EXCEPT ![cmd.chat] = [s |-> cmd.s, label |-> tabs[cmd.t].label, t |-> cmd.t]]
             /\ seen' = [seen EXCEPT !.held = @ \cup {cmd.t}]
             /\ Steps(IF cmd.own THEN "hand off" ELSE "prepare")
    <2>1. [s |-> cmd.s, label |-> tabs[cmd.t].label, t |-> cmd.t] \in Homes
      BY <1>3, <1>4 DEF Homes, Tabs
    <2>2. homes' \in [Chats -> Homes] BY <1>3, <1>5, <2>1
    <2>3. /\ seen' \in [closes : [Targets -> Nat], held : SUBSET Targets]
          /\ seen'.closes = seen.closes /\ seen'.held = seen.held \cup {cmd.t}
      BY <1>3, <1>4, <1>5
    <2>4. \A c \in Chats : homes'[c].s = homes[c].s \/ homes'[c].s = cmd.s BY <1>3, <1>5
    <2>5. \A c \in Chats : c # cmd.chat => homes'[c] = homes[c] BY <1>3, <1>5
    <2>6. cmd.s # Nil BY <1>4, NameAssumption
    <2>7. \A c \in Chats : Registered(c) => Registered(c)' BY <2>4, <2>6 DEF Registered
    <2>8. Shapes' BY <1>1, <1>3, <2>2, <2>3 DEF PagesInv, World, Shapes
    <2>9. SpacesMapped'
      BY <1>1, <1>3, <1>4, <2>4, <2>7 DEF PagesInv, World, SpacesMapped, PoolSpaces, Registered
    <2>10. World' BY <1>1, <2>3, <2>8, <2>9, FatesKept, JournalKept DEF PagesInv, World
    <2>11. Grown BY <1>1, <2>7 DEF Grown, PoolSpaces
    <2>12. /\ cmd' \in Commands /\ cmd'.pc = (IF cmd.own THEN "hand off" ELSE "prepare")
           /\ Onward(cmd, cmd') /\ cmd'.own = cmd.own
      BY <1>5, SteppedOn DEF Steps, Steppings, Attaching, Alike
    <2> HIDE <1>5
    <2> QED BY <1>1, <1>3, <2>3, <2>10, <2>11, <2>12, UsesOn
  <1>6. CASE UNCHANGED <<homes, seen>> /\ Mishap
    <2>1. World' BY <1>1, <1>3, <1>6, WorldKept DEF places, PagesInv
    <2>2. Grown BY <1>1, <1>6, GrownRest
    <2> QED BY <1>1, <1>6, <2>1, <2>2, Broken DEF Mishap
  <1>7. CASE UNCHANGED seen /\ Detaches /\ Mishap
    BY <1>1, <1>2, <1>7, DetachedSafe DEF Mishap, Attaching
  <1> QED BY <1>5, <1>6, <1>7 DEF Attach

LEMMA HandOffSafe == ASSUME PagesInv, HandOff PROVE PagesInv'
  <1>1. cmd.pc = "hand off" /\ UNCHANGED <<tabs, homes, pool, owner, work, releases, seen>> BY DEF HandOff
  <1>2. quota' = quota BY DEF HandOff, Mishap, Breaks
  <1>3. quota' \in Instances /\ quota'.max = quota.max /\ cmd \in Commands
    BY <1>2 DEF PagesInv, Holder, World, Shapes
  <1>4. /\ cmd.a \in DOMAIN allocs /\ cmd.t \in Targets /\ tabs[cmd.t].alloc = cmd.a /\ allocs[cmd.a].t = cmd.t
        /\ cmd.t \in seen.held
    BY <1>1 DEF PagesInv, Holder, Uses
  <1>5. CASE /\ allocs' = [allocs EXCEPT ![cmd.a].phase = "PAGE_HANDED_OFF"]
             /\ cmd' = [cmd EXCEPT !.own = FALSE, !.pc = IF cmd.kind = "new" THEN "over" ELSE "prepare"]
    <2>1. Filed(cmd.a) /\ allocs'[cmd.a].phase = "PAGE_HANDED_OFF"
      BY <1>4, <1>5, FiledBy DEF PagesInv, Stages
    <2>2. allocs'[cmd.a].phase \in Final BY <2>1 DEF Final
    <2>3. \A t \in Targets : tabs[t].live /\ tabs[t].alloc = cmd.a => t \in seen.held
      BY <1>4, EntriesCounted DEF PagesInv, World, Journalled
    <2>4. World' /\ Grown BY <1>1, <1>2, <1>4, <2>1, <2>2, <2>3, FiledSafe DEF PagesInv
    <2>5. PICK pc \in {"over", "prepare"} : cmd' = [cmd EXCEPT !.own = FALSE, !.pc = pc] BY <1>5
    <2>6. cmd' \in Commands /\ cmd'.pc = pc /\ Onward(cmd, cmd')
      BY ZenonT(60), <1>3, <2>5 DEF Commands, Onward, Steppings, Attaching
    <2> HIDE <1>5
    <2> QED BY <1>1, <1>3, <2>4, <2>6, UsesOn
  <1>6. CASE UNCHANGED allocs /\ Mishap
    <2>1. World' BY <1>1, <1>3, <1>6, WorldKept DEF places, PagesInv
    <2>2. Grown BY <1>1, <1>6, GrownRest
    <2> QED BY <1>1, <1>6, <2>1, <2>2, Broken DEF Mishap
  <1> QED BY <1>5, <1>6 DEF HandOff

LEMMA PrepareSafe == ASSUME PagesInv, Prepare PROVE PagesInv'
  <1>1. cmd.pc = "prepare" /\ UNCHANGED <<tabs, homes, pool, owner, releases, allocs, seen>> BY DEF Prepare
  <1>2. quota' = quota BY DEF Prepare, Mishap, Breaks
  <1>3. quota' \in Instances /\ quota'.max = quota.max /\ cmd \in Commands
    BY <1>2 DEF PagesInv, Holder, World, Shapes
  <1>4. cmd.t \in Targets /\ cmd.chat \in Chats /\ (cmd.kind = "send" => Registered(cmd.chat))
    BY <1>1 DEF PagesInv, Holder, Uses, Kinds, Attaching
  <1>5. CASE /\ cmd' = [cmd EXCEPT !.pc = "click", !.sent = TRUE]
             /\ work' = IF cmd.kind = "send" THEN [work EXCEPT ![cmd.chat] = "active"] ELSE work
    <2>1. work' \in [Chats -> WorkStates] BY <1>4, <1>5 DEF PagesInv, World, Shapes, WorkStates
    <2>2. \A c \in Chats : work'[c] \in {"active", "BLOCKED"} => work[c] \in {"active", "BLOCKED"} \/ Registered(c)
      BY <1>4, <1>5 DEF PagesInv, World, Shapes
    <2>3. World' BY <1>1, <1>2, <1>3, <2>1, <2>2, FatesKept, JournalKept, SpacesKept DEF PagesInv, World, Shapes
    <2>4. Grown BY <1>1, GrownRest
    <2>5. cmd' \in Commands /\ cmd'.pc = "click" /\ Onward(cmd, cmd')
      BY <1>3, <1>5 DEF Commands, Onward, Steppings, Attaching
    <2> HIDE <1>5
    <2> QED BY <1>1, <1>3, <2>3, <2>4, <2>5, UsesOn
  <1>6. CASE UNCHANGED work /\ Mishap
    <2>1. World' BY <1>1, <1>3, <1>6, WorldKept DEF places, PagesInv
    <2>2. Grown BY <1>1, <1>6, GrownRest
    <2> QED BY <1>1, <1>6, <2>1, <2>2, Broken DEF Mishap
  <1> QED BY <1>5, <1>6 DEF Prepare

-----------------------------------------------------------------------------
(* Allocating a page. *)

LEMMA Least ==
  ASSUME NEW L, L \subseteq Nat, L # {}
  PROVE  \E l \in L : \A k \in L : l <= k
  <1>1. \E l \in L : \A k \in L : <<k, l>> \notin OpToRel(<, Nat)
    BY WFMin, NatLessThanWellFounded, Zenon
  <1>2. \E l \in L : \A k \in L : ~(k < l)
    BY <1>1, Zenon DEF OpToRel
  <1> QED BY <1>2

LEMMA FreshOne ==
  ASSUME Opened # Targets
  PROVE  Fresh \in Targets /\ tabs[Fresh].alloc = 0
  <1>1. \E t \in Targets : t \notin Opened BY DEF Opened
  <1>2. Fresh \in Targets /\ Fresh \notin Opened BY <1>1 DEF Fresh
  <1> QED BY <1>2 DEF Opened

\* While some page was never opened, some label of the Space is free: labels are as many as
\* targets, and two pages do not share one.
LEMMA LabelFree ==
  ASSUME World, Opened # Targets, NEW s
  PROVE  FreeLabel(s) \in Targets
  <1>1. PICK u \in Targets : tabs[u].alloc = 0 BY FreshOne
  <1>2. ~tabs[u].live BY <1>1 DEF World, Fates, Fate
  <1>3. IsFiniteSet(Targets) /\ Cardinality(Targets) = MaxTargets /\ MaxTargets \in Nat
    <2>1. 1 \in Int /\ MaxTargets \in Int /\ MaxTargets \in Nat BY BoundAssumption
    <2>2. MaxTargets >= 1 BY <1>1, <2>1 DEF Targets
    <2> QED BY <2>1, <2>2, FS_Interval DEF Targets
  <1>4. IsFiniteSet(Targets \ {u}) /\ Cardinality(Targets \ {u}) < Cardinality(Targets)
    <2>1. IsFiniteSet(Targets \ {u}) /\ Cardinality(Targets \ {u}) = Cardinality(Targets) - 1
      BY <1>1, <1>3, FS_RemoveElement, Zenon
    <2> QED BY <1>3, <2>1
  <1>5. \E l \in Targets : At(s, l) = {}
    <2>1. SUFFICES ASSUME \A l \in Targets : At(s, l) # {} PROVE FALSE OBVIOUS
    <2> DEFINE f == [l \in Targets |-> CHOOSE t \in At(s, l) : TRUE]
    <2>2. \A l \in Targets : f[l] \in At(s, l) BY <2>1
    <2>3. \A l \in Targets : f[l] \in Targets \ {u} /\ tabs[f[l]].label = l
      BY <1>2, <2>2 DEF At, Live
    <2>4. f \in [Targets -> Targets \ {u}] BY <2>3
    <2> HIDE DEF f
    <2>5. \E x, y \in Targets : x # y /\ f[x] = f[y] BY <1>3, <1>4, <2>4, FS_PigeonHole
    <2> QED BY <2>3, <2>5
  <1> DEFINE L == {l \in Targets : At(s, l) = {}}
  <1>6. L \subseteq Nat /\ L # {} BY <1>5 DEF Targets
  <1>7. \E l \in L : \A k \in L : l <= k BY <1>6, Least
  <1>8. \E l \in Targets : At(s, l) = {} /\ \A k \in 1..(l - 1) : At(s, k) # {}
    <2>1. PICK l \in L : \A k \in L : l <= k BY <1>7
    <2>2. \A k \in 1..(l - 1) : k \in Targets /\ ~(l <= k) BY <1>3, <2>1 DEF Targets
    <2> QED BY <2>1, <2>2
  <1> QED BY <1>8 DEF FreeLabel

\* A command that has no page of its own goes on looking for one, or gives up.
LEMMA Without ==
  ASSUME PagesInv, World', Grown, quota'.max = quota.max, cmd.kind \in {"send", "new"},
         cmd' \in Commands, ~cmd'.own, cmd'.kind = cmd.kind, cmd'.chat = cmd.chat, cmd'.claim = cmd.claim,
         cmd'.pc \in {"intend", "full", "no room", "overflow", "map", "reclaim", "over"},
         cmd'.s \in PoolSpaces', cmd'.over = "last" => quota.max = 2,
         (cmd.pc = "map" => owner[Wanted] # "none")'
  PROVE  PagesInv'
  <1>1. cmd.chat \in Chats /\ (cmd.kind = "send" => Registered(cmd.chat)) BY DEF PagesInv, Holder, Kinds
  <1>2. Kinds' BY <1>1, NameAssumption DEF Kinds, Grown, Registered, Wanted
  <1>3. Uses' BY DEF Uses, Closing
  <1>4. Closes' BY DEF Closes, Closing
  <1> QED BY <1>2, <1>3, <1>4 DEF PagesInv, Holder

LEMMA Seeking ==
  ASSUME PagesInv, cmd.pc \in Allocating
  PROVE  /\ cmd \in Commands /\ cmd.kind \in {"send", "new"} /\ cmd.chat \in Chats /\ cmd.s \in PoolSpaces
         /\ cmd.s \in SpaceNames
         /\ cmd.pc \notin {"opened", "settle"} => ~cmd.own
         /\ cmd.over = "last" => quota.max = 2
  BY DEF PagesInv, Holder, Kinds, Uses, Allocating, Commands

LEMMA IntendSafe == ASSUME PagesInv, Intend PROVE PagesInv'
  <1>1. cmd.pc = "intend" /\ UNCHANGED <<tabs, homes, pool, owner, work, releases, seen>> BY DEF Intend
  <1>2. quota' = quota BY DEF Intend, Mishap, Breaks
  <1>3. quota' \in Instances /\ quota'.max = quota.max BY <1>2 DEF PagesInv, World, Shapes
  <1>4. CASE UNCHANGED allocs /\ Mishap
    <2>1. World' BY <1>1, <1>3, <1>4, WorldKept DEF places, PagesInv
    <2>2. Grown BY <1>1, <1>4, GrownRest
    <2> QED BY <1>1, <1>4, <2>1, <2>2, Broken DEF Mishap
  <1>5. CASE /\ cmd.claim \/ Unresolved(cmd.s) = {}
             /\ allocs' = Append(allocs, [claim |-> cmd.claim, s |-> cmd.s, phase |-> "ALLOCATION_INTENT", t |-> 0])
             /\ cmd' = [cmd EXCEPT !.pc = "open", !.a = Len(allocs) + 1]
    <2> DEFINE n == Len(allocs) + 1
               e == [claim |-> cmd.claim, s |-> cmd.s, phase |-> "ALLOCATION_INTENT", t |-> 0]
    <2>1. cmd \in Commands /\ cmd.kind \in {"send", "new"} /\ cmd.chat \in Chats /\ cmd.s \in PoolSpaces /\ ~cmd.own
      BY <1>1, Seeking DEF Allocating
    <2>2. allocs \in Seq(Entries) BY DEF PagesInv, World, Shapes
    <2>3. e \in Entries BY <2>1 DEF Entries, Commands, Stages
    <2>4. /\ allocs' \in Seq(Entries) /\ DOMAIN allocs = 1..Len(allocs) /\ DOMAIN allocs' = 1..n /\ allocs'[n] = e
          /\ n \in Nat /\ \A i \in DOMAIN allocs : allocs'[i] = allocs[i]
      BY <1>5, <2>2, <2>3
    <2>5. /\ n \notin DOMAIN allocs /\ DOMAIN allocs' = DOMAIN allocs \cup {n}
          /\ allocs'[n].t = 0 /\ allocs'[n].phase = "ALLOCATION_INTENT"
      BY <2>4
    <2>A. \A i \in DOMAIN allocs : allocs'[i] = allocs[i] BY <2>4
    <2>6. cmd' \in Commands /\ cmd'.pc = "open" /\ cmd'.a = n
      BY <1>5, <2>1, <2>4 DEF Commands, Steppings, Allocating
    <2>7. /\ cmd'.kind = cmd.kind /\ cmd'.chat = cmd.chat /\ cmd'.claim = cmd.claim /\ cmd'.s = cmd.s
          /\ cmd'.own = cmd.own /\ cmd'.over = cmd.over
      BY <1>5, <2>1 DEF Commands
    <2>8. cmd.claim \/ Unresolved(cmd.s) = {} BY <1>5
    <2>9. cmd.s \in SpaceNames BY <1>1, Seeking DEF Allocating
    <2> HIDE <1>5 DEF n
    <2>10. Shapes' BY <1>1, <1>3, <2>4 DEF PagesInv, World, Shapes
    <2>11. Fates' BY <1>1, FatesKept DEF PagesInv, World
    <2>12. SpacesMapped' BY <1>1, <1>3 DEF PagesInv, World, SpacesMapped, PoolSpaces, Registered
    <2>13. Journalled'
      <3>1. \A i \in DOMAIN allocs : Finished(i)' <=> Finished(i) BY <1>1, <2>4 DEF Finished
      <3>2. \A s : Unresolved(s)' \subseteq Unresolved(s) \cup {n} BY <2>4, <2>5, <3>1 DEF Unresolved
      <3>3. \A s \in SpaceNames : n \in Unresolved(s)' => Unresolved(s) = {}
        BY <2>4, <2>8 DEF Unresolved
      <3>4. \A s \in SpaceNames : \A i, j \in Unresolved(s)' : i = j
        BY <3>2, <3>3 DEF PagesInv, World, Journalled
      <3>5. \A t \in Targets : (tabs[t].live => t \in seen.held \/ ~Finished(tabs[t].alloc))'
        <4>1. \A t \in Targets : tabs[t].live => tabs[t].alloc \in DOMAIN allocs
          BY LiveOpened DEF PagesInv, World, Journalled
        <4> QED BY <1>1, <3>1, <4>1 DEF PagesInv, World, Journalled
      <3>6. \A i \in DOMAIN allocs' : allocs'[i].t # 0 => i \in DOMAIN allocs BY <2>5
      <3>7. \A i \in DOMAIN allocs' : allocs'[i].phase = "PAGE_HANDED_OFF" => i \in DOMAIN allocs BY <2>5
      <3>8. \A i \in DOMAIN allocs' : allocs'[i].t # 0 => tabs'[allocs'[i].t].alloc = i
        BY <1>1, <2>A, <3>6 DEF PagesInv, World, Journalled
      <3>9. \A i \in DOMAIN allocs' : allocs'[i].phase = "PAGE_HANDED_OFF" => allocs'[i].t \in seen'.held
        BY <1>1, <2>A, <3>7 DEF PagesInv, World, Journalled
      <3> QED BY <1>1, <2>5, <3>4, <3>5, <3>8, <3>9 DEF PagesInv, World, Journalled
    <2>14. World' BY <2>10, <2>11, <2>12, <2>13 DEF World
    <2>15. Kinds' BY <1>1, <1>3, <2>1, <2>6, <2>7, NameAssumption DEF PagesInv, Holder, Kinds, PoolSpaces, Registered, Wanted
    <2>16. \A t \in Targets : tabs[t].alloc # n
      BY <2>4, <2>5 DEF PagesInv, World, Journalled
    <2>17. Uses' BY <1>1, <2>1, <2>5, <2>6, <2>7, <2>16 DEF Uses, Closing
    <2>18. Closes' BY <2>6 DEF Closes, Closing
    <2> QED BY <2>6, <2>14, <2>15, <2>17, <2>18 DEF PagesInv, Holder
  <1> QED BY <1>4, <1>5 DEF Intend

LEMMA Opening ==
  ASSUME PagesInv, cmd.pc = "open"
  PROVE  /\ cmd.a \in DOMAIN allocs /\ cmd.a \in Nat /\ cmd.a # 0
         /\ allocs[cmd.a].phase = "ALLOCATION_INTENT" /\ allocs[cmd.a].t = 0
         /\ \A t \in Targets : tabs[t].alloc # cmd.a
  BY EntriesCounted DEF PagesInv, Holder, Uses

LEMMA Appeared ==
  ASSUME PagesInv, cmd.pc = "open", Opened # Targets, Appears, quota' = quota, Filed(cmd.a),
         UNCHANGED <<homes, pool, owner, work, releases, seen>>, allocs'[cmd.a].phase \notin Final
  PROVE  /\ World' /\ Grown /\ Fresh \in Targets /\ releases[Fresh] = NoRelease
         /\ tabs'[Fresh].alloc = cmd.a
  <1>1. Fresh \in Targets /\ tabs[Fresh].alloc = 0 BY FreshOne
  <1>2. FreeLabel(cmd.s) \in Nat
    <2>1. FreeLabel(cmd.s) \in Targets BY LabelFree DEF PagesInv
    <2> QED BY <2>1 DEF Targets
  <1>3. cmd.s \in PoolSpaces /\ cmd.s \in SpaceNames BY Seeking DEF Allocating
  <1>4. /\ cmd.a \in DOMAIN allocs /\ cmd.a \in Nat /\ cmd.a # 0 /\ allocs[cmd.a].phase = "ALLOCATION_INTENT"
        /\ allocs[cmd.a].t = 0 /\ \A t \in Targets : tabs[t].alloc # cmd.a
    BY Opening
  <1> DEFINE new == [NoTab EXCEPT !.live = TRUE, !.s = cmd.s, !.label = FreeLabel(cmd.s), !.alloc = cmd.a]
  <1>5. new \in Tabs /\ new.alloc = cmd.a /\ new.s = cmd.s
    BY <1>2, <1>3, <1>4 DEF Tabs, NoTab, SpaceNames, Urls
  <1>6. tabs \in [Targets -> Tabs] /\ tabs' = [tabs EXCEPT ![Fresh] = new] BY DEF PagesInv, World, Shapes, Appears
  <1> HIDE DEF new
  <1>7. tabs' \in [Targets -> Tabs] BY <1>5, <1>6
  <1>8. tabs'[Fresh] = new /\ \A t \in Targets \ {Fresh} : tabs'[t] = tabs[t] BY <1>1, <1>6
  <1> HIDE <1>6
  <1>9. /\ releases[Fresh] = NoRelease /\ seen.closes[Fresh] = 0 /\ ~tabs[Fresh].live
    BY <1>1 DEF PagesInv, World, Fates, Fate
  <1>10. Shapes' BY <1>7 DEF PagesInv, World, Shapes, Filed
  <1>11. Fates'
    <2>1. \A t \in Targets \ {Fresh} : Fate(t)' BY <1>8 DEF PagesInv, World, Fates, Fate, Fenced
    <2>2. \A t \in Targets : t = Fresh => Fate(t)' BY <1>1, <1>4, <1>5, <1>8, <1>9 DEF Fate, NoRelease
    <2> QED BY <2>1, <2>2 DEF Fates
  <1>12. SpacesMapped'
    <2>1. \A t \in Targets : tabs'[t].live => tabs'[t].s \in PoolSpaces
      BY <1>3, <1>5, <1>8 DEF PagesInv, World, SpacesMapped
    <2> QED BY <2>1 DEF PagesInv, World, SpacesMapped, PoolSpaces, Registered
  <1>13. \A j \in DOMAIN allocs : Finished(j)' <=> Finished(j)
    BY <1>4 DEF Finished, Filed, Final
  <1>14. ~Finished(cmd.a) BY <1>4 DEF Finished
  <1>15. Journalled'
    <2>1. \A t \in Targets : tabs'[t].alloc # 0 => tabs'[t].alloc \in DOMAIN allocs'
      BY <1>4, <1>5, <1>8 DEF PagesInv, World, Journalled, Filed
    <2>2. \A t, u \in Targets : tabs'[t].alloc = tabs'[u].alloc /\ tabs'[t].alloc # 0 => t = u
      BY <1>4, <1>5, <1>8 DEF PagesInv, World, Journalled
    <2>3. \A i \in DOMAIN allocs' : allocs'[i].t # 0 => tabs'[allocs'[i].t].alloc = i
      <3>1. \A i \in DOMAIN allocs : allocs[i].t # 0 => allocs[i].t \in Targets \ {Fresh}
        BY <1>1, EntriesCounted DEF PagesInv, World, Journalled, Entries
      <3> QED BY <1>8, <3>1 DEF PagesInv, World, Journalled, Filed
    <2>4. \A t \in Targets : (tabs[t].live => t \in seen.held \/ ~Finished(tabs[t].alloc))'
      <3>1. \A t \in Targets : tabs[t].live => tabs[t].alloc \in DOMAIN allocs
        BY LiveOpened DEF PagesInv, World, Journalled
      <3>2. \A t \in Targets : t = Fresh => ~Finished(tabs[t].alloc)'
        <4>1. PICK a \in DOMAIN allocs : a = cmd.a BY <1>4
        <4>2. ~Finished(a)' BY <1>4, <4>1 DEF Finished, Filed, Final
        <4>3. \A t \in Targets : t = Fresh => tabs'[t].alloc = a BY <1>5, <1>8, <4>1
        <4>4. \A t \in Targets : tabs'[t].alloc = a => ~Finished(tabs[t].alloc)' BY <4>2
        <4> QED BY <4>3, <4>4
      <3> QED BY <1>8, <1>13, <3>1, <3>2 DEF PagesInv, World, Journalled
    <2>5. \A i \in DOMAIN allocs' : allocs'[i].phase = "PAGE_HANDED_OFF" => allocs'[i].t \in seen'.held
      BY DEF PagesInv, World, Journalled, Filed, Final
    <2>6. \A s : Unresolved(s)' = Unresolved(s) BY <1>13 DEF Unresolved, Filed
    <2> QED BY <2>1, <2>2, <2>3, <2>4, <2>5, <2>6 DEF PagesInv, World, Journalled
  <1>16. Grown BY <1>1, <1>8, GrownRest DEF Filed
  <1> QED BY <1>1, <1>5, <1>8, <1>9, <1>10, <1>11, <1>12, <1>15, <1>16 DEF World

LEMMA OpensSafe == ASSUME PagesInv, Opens PROVE PagesInv'
  <1>1. cmd.pc = "open" /\ UNCHANGED <<homes, pool, owner, work, releases, seen>> BY DEF Opens
  <1>2. quota' = quota BY DEF Opens, Steps, Mishap, Breaks
  <1>3. quota' \in Instances /\ quota'.max = quota.max BY <1>2 DEF PagesInv, World, Shapes
  <1>4. /\ cmd \in Commands /\ cmd.kind \in {"send", "new"} /\ cmd.chat \in Chats /\ cmd.s \in PoolSpaces /\ ~cmd.own
        /\ cmd.over = "last" => quota.max = 2
    BY <1>1, Seeking DEF Allocating
  <1>5. /\ cmd.a \in DOMAIN allocs /\ cmd.a \in Nat /\ cmd.a # 0 /\ allocs[cmd.a].phase = "ALLOCATION_INTENT"
        /\ allocs[cmd.a].t = 0 /\ \A t \in Targets : tabs[t].alloc # cmd.a
    BY <1>1, Opening
  <1>6. CASE Records("ALLOCATION_REFUSED") /\ Steps("full") /\ UNCHANGED tabs
    <2>1. Filed(cmd.a) /\ allocs'[cmd.a].phase = "ALLOCATION_REFUSED"
      BY <1>5, <1>6, FiledBy DEF PagesInv, Stages, Records
    <2>2. World' /\ Grown BY <1>1, <1>2, <1>5, <1>6, <2>1, FiledSafe DEF PagesInv, Final
    <2>3. cmd' \in Commands /\ cmd'.pc = "full" /\ Alike(cmd, cmd')
      BY <1>6, SteppedOn DEF Steps, Steppings, Allocating
    <2> HIDE <1>6
    <2>4. cmd'.s \in PoolSpaces' BY <1>4, <2>2, <2>3 DEF Grown, Alike
    <2> QED BY <1>3, <1>4, <2>2, <2>3, <2>4, Without DEF Alike
  <1>7. CASE UNCHANGED <<tabs, allocs>> /\ Mishap
    <2>1. World' BY <1>1, <1>3, <1>7, WorldKept DEF places, PagesInv
    <2>2. Grown BY <1>1, <1>7, GrownRest
    <2> QED BY <1>1, <1>7, <2>1, <2>2, Broken DEF Mishap
  <1>8. CASE /\ Opened # Targets /\ Appears /\ UNCHANGED allocs
             /\ cmd' = [cmd EXCEPT !.pc = "opened", !.own = TRUE, !.t = Fresh]
    <2>1. Filed(cmd.a) /\ allocs'[cmd.a].phase \notin Final
      BY <1>5, <1>8 DEF Filed, PagesInv, World, Shapes, Final
    <2>2. /\ World' /\ Grown /\ Fresh \in Targets /\ releases[Fresh] = NoRelease
          /\ tabs'[Fresh].alloc = cmd.a
      BY <1>1, <1>2, <1>8, <2>1, Appeared
    <2>3. /\ cmd' \in Commands /\ cmd'.pc = "opened" /\ cmd'.t = Fresh /\ cmd'.own /\ cmd'.kind = cmd.kind
          /\ cmd'.chat = cmd.chat /\ cmd'.claim = cmd.claim /\ cmd'.s = cmd.s /\ cmd'.a = cmd.a /\ cmd'.over = cmd.over
      BY <1>4, <1>8, <2>2 DEF Commands, Steppings, Allocating
    <2>4. UNCHANGED allocs BY <1>8
    <2> HIDE <1>8
    <2>5. Kinds' BY <1>3, <1>4, <2>2, <2>3, NameAssumption DEF PagesInv, Holder, Kinds, Grown, Registered, Wanted
    <2>6. Uses'
      <3>1. \A t \in Targets : t = Fresh => ~Fenced(t)' BY <1>1, <2>2 DEF Fenced, NoRelease
      <3>2. ~Fenced(cmd.t)' BY <2>2, <2>3, <3>1
      <3> QED BY <1>1, <1>5, <2>2, <2>3, <2>4, <3>2 DEF Uses, Closing
    <2>7. Closes' BY <2>3 DEF Closes, Closing
    <2> QED BY <2>2, <2>3, <2>5, <2>6, <2>7 DEF PagesInv, Holder
  <1>9. CASE Records("ALLOCATION_UNKNOWN") /\ Mishap /\ (UNCHANGED tabs \/ (Opened # Targets /\ Appears))
    <2>1. Filed(cmd.a) /\ allocs'[cmd.a].phase = "ALLOCATION_UNKNOWN"
      BY <1>5, <1>9, FiledBy DEF PagesInv, Stages, Records
    <2>2. World' /\ Grown
      BY <1>1, <1>2, <1>5, <1>9, <2>1, Appeared, FiledSafe DEF PagesInv, Final
    <2> QED BY <1>1, <1>9, <2>2, Broken DEF Mishap
  <1> QED BY <1>6, <1>7, <1>8, <1>9 DEF Opens

LEMMA RecordPageSafe == ASSUME PagesInv, RecordPage PROVE PagesInv'
  <1>1. cmd.pc = "opened" /\ UNCHANGED <<tabs, homes, pool, owner, work, releases, seen, quota>> BY DEF RecordPage
  <1>2. quota \in Instances /\ allocs \in Seq(Entries) BY DEF PagesInv, World, Shapes
  <1>3. /\ cmd \in Commands /\ cmd.kind \in {"send", "new"} /\ cmd.chat \in Chats /\ cmd.s \in PoolSpaces /\ cmd.own
        /\ cmd.over = "last" => quota.max = 2
    BY <1>1, Seeking DEF Allocating, PagesInv, Holder, Uses
  <1>4. /\ cmd.a \in DOMAIN allocs /\ cmd.a \in Nat /\ cmd.a # 0 /\ allocs[cmd.a].phase = "ALLOCATION_INTENT"
        /\ allocs[cmd.a].t = 0 /\ cmd.t \in Targets /\ tabs[cmd.t].alloc = cmd.a /\ ~Fenced(cmd.t)
    BY <1>1, EntriesCounted DEF PagesInv, Holder, Uses
  <1>5. CASE Records("ALLOCATION_UNKNOWN") /\ cmd' = [cmd EXCEPT !.pc = "over", !.own = FALSE]
    <2>1. Filed(cmd.a) /\ allocs'[cmd.a].phase = "ALLOCATION_UNKNOWN"
      BY <1>4, <1>5, FiledBy DEF PagesInv, Stages, Records
    <2>2. World' /\ Grown BY <1>1, <1>4, <2>1, FiledSafe DEF PagesInv, Final
    <2>3. cmd' \in Commands /\ cmd'.pc = "over" /\ ~cmd'.own /\ cmd'.kind = cmd.kind
          /\ cmd'.chat = cmd.chat /\ cmd'.claim = cmd.claim /\ cmd'.s = cmd.s /\ cmd'.over = cmd.over
      BY ZenonT(60), <1>3, <1>5 DEF Commands, Steppings
    <2> HIDE <1>5
    <2>4. cmd'.s \in PoolSpaces' BY <1>3, <2>2, <2>3 DEF Grown
    <2> QED BY <1>1, <1>3, <2>2, <2>3, <2>4, Without
  <1>6. CASE /\ allocs' = [allocs EXCEPT ![cmd.a].phase = "PAGE_ALLOCATED", ![cmd.a].t = cmd.t]
             /\ cmd' = [cmd EXCEPT !.pc = "settle"]
    <2> DEFINE e == [allocs[cmd.a] EXCEPT !.phase = "PAGE_ALLOCATED", !.t = cmd.t]
    <2>1. allocs[cmd.a] \in Entries BY <1>4, EntriesCounted DEF PagesInv
    <2>2. /\ e \in Entries /\ e.claim = allocs[cmd.a].claim /\ e.s = allocs[cmd.a].s /\ e.t = cmd.t
          /\ e.phase = "PAGE_ALLOCATED"
      BY <1>4, <2>1 DEF Entries, Stages
    <2>3. allocs' = [allocs EXCEPT ![cmd.a] = e] BY <1>2, <1>4, <1>6
    <2> HIDE DEF e
    <2>4. /\ allocs' \in Seq(Entries) /\ DOMAIN allocs' = DOMAIN allocs /\ allocs'[cmd.a] = e
          /\ \A i \in DOMAIN allocs : i # cmd.a => allocs'[i] = allocs[i]
      BY <1>2, <1>4, <2>2, <2>3
    <2>5. cmd' \in Commands /\ cmd'.pc = "settle" /\ Alike(cmd, cmd')
      BY <1>6, SteppedOn DEF Steppings, Allocating
    <2> HIDE <1>6, <2>3
    <2>6. Shapes' BY <1>1, <2>4 DEF PagesInv, World, Shapes
    <2>7. Fates' BY <1>1, FatesKept DEF PagesInv, World
    <2>8. SpacesMapped' BY <1>1 DEF PagesInv, World, SpacesMapped, PoolSpaces, Registered
    <2>9. releases[cmd.t].phase # "RELEASED" BY <1>4 DEF Fenced
    <2>10. \A i \in DOMAIN allocs : Finished(i)' <=> Finished(i)
      <3>1. \A i \in DOMAIN allocs : i = cmd.a => ~Finished(i)' /\ ~Finished(i)
        BY <1>1, <1>4, <2>2, <2>4, <2>9 DEF Finished
      <3>2. \A i \in DOMAIN allocs : i # cmd.a => (Finished(i)' <=> Finished(i)) BY <1>1, <2>4 DEF Finished
      <3> QED BY <3>1, <3>2
    <2>11. Journalled'
      <3>1. \A s : Unresolved(s)' = Unresolved(s)
        BY <2>2, <2>4, <2>10 DEF Unresolved
      <3>2. \A t \in Targets : (tabs[t].live => t \in seen.held \/ ~Finished(tabs[t].alloc))'
        <4>1. \A t \in Targets : tabs[t].live => tabs[t].alloc \in DOMAIN allocs
          BY LiveOpened DEF PagesInv, World, Journalled
        <4> QED BY <1>1, <2>10, <4>1 DEF PagesInv, World, Journalled
      <3>3. \A i \in DOMAIN allocs' : allocs'[i].t # 0 => tabs'[allocs'[i].t].alloc = i
        BY <1>1, <1>4, <2>2, <2>4 DEF PagesInv, World, Journalled
      <3>4. \A i \in DOMAIN allocs' : allocs'[i].phase = "PAGE_HANDED_OFF" => allocs'[i].t \in seen'.held
        BY <1>1, <2>2, <2>4 DEF PagesInv, World, Journalled
      <3> QED BY <1>1, <2>4, <3>1, <3>2, <3>3, <3>4 DEF PagesInv, World, Journalled
    <2>12. World' BY <2>6, <2>7, <2>8, <2>11 DEF World
    <2>13. Kinds' BY <1>1, <1>3, <2>5, NameAssumption DEF PagesInv, Holder, Kinds, Alike, PoolSpaces, Registered, Wanted
    <2>14. Uses'
      <3>1. ~Fenced(cmd.t)' BY <1>1, <1>4, <2>5 DEF Fenced, Alike
      <3> QED BY <1>1, <1>3, <1>4, <2>2, <2>4, <2>5, <3>1 DEF Uses, Alike, Closing
    <2>15. Closes' BY <2>5 DEF Closes, Closing
    <2> QED BY <2>5, <2>12, <2>13, <2>14, <2>15 DEF PagesInv, Holder
  <1> QED BY <1>5, <1>6 DEF RecordPage

LEMMA SettleSafe == ASSUME PagesInv, Settle PROVE PagesInv'
  <1>1. cmd.pc = "settle" /\ UNCHANGED <<tabs, homes, pool, owner, work, releases, allocs, seen>> BY DEF Settle
  <1>2. quota' = quota BY DEF Settle, Steps, Mishap, Breaks
  <1>3. quota' \in Instances /\ quota'.max = quota.max BY <1>2 DEF PagesInv, World, Shapes
  <1>4. World' BY <1>1, <1>3, WorldKept DEF places, PagesInv
  <1>5. Grown BY <1>1, GrownRest
  <1>6. CASE Mishap BY <1>1, <1>4, <1>5, <1>6, Broken DEF Mishap
  <1>7. CASE Steps("visit")
    <2>1. cmd.own BY <1>1 DEF PagesInv, Holder, Uses
    <2>2. cmd' \in Commands /\ cmd'.pc = "visit" /\ Onward(cmd, cmd') /\ cmd'.own = cmd.own
      BY <1>7, SteppedOn DEF Steps, Steppings, Attaching, Alike
    <2> QED BY <1>1, <1>3, <1>4, <1>5, <2>1, <2>2, UsesOn
  <1> QED BY <1>6, <1>7 DEF Settle

LEMMA NoPageSafe == ASSUME PagesInv, NoPage PROVE PagesInv'
  <1>1. cmd.pc = "full" /\ Rest BY DEF NoPage
  <1>2. PICK pc \in {"no room", "reclaim"} : Steps(pc) BY DEF NoPage
  <1>3. quota' = quota BY <1>2 DEF Steps
  <1>4. /\ World' /\ quota'.max = quota.max
        /\ UNCHANGED <<tabs, homes, pool, owner, work, releases, allocs, seen>>
    BY <1>1, <1>3, OnlyCommand
  <1>5. Grown BY <1>4, GrownRest
  <1>6. cmd.kind \in {"send", "new"} /\ cmd.s \in PoolSpaces /\ ~cmd.own /\ (cmd.over = "last" => quota.max = 2)
    BY <1>1, Seeking DEF Allocating
  <1>7. cmd' \in Commands /\ cmd'.pc = pc /\ Alike(cmd, cmd')
    BY <1>2, SteppedOn DEF Steps, Steppings, Allocating
  <1>8. cmd'.s \in PoolSpaces' BY <1>5, <1>6, <1>7 DEF Grown, Alike
  <1> QED BY <1>4, <1>5, <1>6, <1>7, <1>8, Without DEF Alike

-----------------------------------------------------------------------------
(* Overflow Spaces. *)

LEMMA PoolNames ==
  ASSUME World
  PROVE  /\ PoolSpaces \subseteq SpaceNames
         /\ pool # <<>> => pool[1] \in PoolSpaces
         /\ Len(pool) = 2 => pool[2] \in PoolSpaces
  <1>1. pool \in Seq(SpaceNames) BY DEF World, Shapes
  <1> QED BY <1>1 DEF PoolSpaces, SpaceNames

\* The command has entered another Space.
LEMMA EntersSafe ==
  ASSUME PagesInv, World', Grown, quota' = quota, cmd.pc \in {"no room", "overflow", "map"},
         NEW s \in SpaceNames, s \in PoolSpaces', NEW over \in {"head", "previous", "last"}, Enters(s, over),
         over = "last" => quota.max = 2
  PROVE  PagesInv'
  <1>1. cmd \in Commands /\ cmd.kind \in {"send", "new"} /\ ~cmd.own BY Seeking DEF Allocating
  <1>2. /\ cmd' \in Commands /\ cmd'.pc = "intend" /\ cmd'.s = s /\ cmd'.over = over /\ cmd'.own = cmd.own
        /\ cmd'.kind = cmd.kind /\ cmd'.chat = cmd.chat /\ cmd'.claim = cmd.claim
    BY <1>1 DEF Enters, Commands, Steppings, Allocating
  <1> QED BY <1>1, <1>2, Without

LEMMA NoRoomSafe == ASSUME PagesInv, NoRoom PROVE PagesInv'
  <1>1. cmd.pc = "no room" /\ UNCHANGED <<tabs, homes, pool, owner, work, releases, allocs, seen>> BY DEF NoRoom
  <1>2. quota' = quota BY DEF NoRoom, Mishap, Breaks, Enters
  <1>3. quota' \in Instances /\ quota'.max = quota.max BY <1>2 DEF PagesInv, World, Shapes
  <1>4. World' BY <1>1, <1>3, WorldKept DEF places, PagesInv
  <1>5. Grown BY <1>1, GrownRest
  <1>6. cmd \in Commands /\ cmd.kind \in {"send", "new"} /\ cmd.s \in PoolSpaces /\ ~cmd.own
    BY <1>1, Seeking DEF Allocating
  <1>7. CASE Breaks BY <1>1, <1>4, <1>5, <1>7, Broken
  <1>8. ASSUME NEW long \in BOOLEAN, cmd' = [cmd EXCEPT !.pc = "overflow", !.over = "head", !.long = long]
        PROVE  PagesInv'
    <2>1. /\ cmd' \in Commands /\ cmd'.pc = "overflow" /\ cmd'.s = cmd.s /\ cmd'.over = "head" /\ cmd'.own = cmd.own
          /\ cmd'.kind = cmd.kind /\ cmd'.chat = cmd.chat /\ cmd'.claim = cmd.claim
      BY <1>6, <1>8 DEF Commands, Steppings, Allocating
    <2> HIDE <1>8
    <2>2. cmd'.s \in PoolSpaces' BY <1>5, <1>6, <2>1 DEF Grown
    <2> QED BY <1>3, <1>4, <1>5, <1>6, <2>1, <2>2, Without
  <1>9. CASE Len(pool) = 2 /\ Enters(pool[2], "previous")
    <2>1. pool[2] \in PoolSpaces' /\ pool[2] \in SpaceNames
      BY <1>1, <1>9, PoolNames DEF PagesInv, PoolSpaces
    <2> QED BY <1>1, <1>2, <1>4, <1>5, <1>9, <2>1, EntersSafe
  <1>10. CASE quota.max = 2 /\ cmd' = [cmd EXCEPT !.pc = "overflow", !.over = "last"]
    <2>1. /\ cmd' \in Commands /\ cmd'.pc = "overflow" /\ cmd'.s = cmd.s /\ cmd'.own = cmd.own
          /\ cmd'.kind = cmd.kind /\ cmd'.chat = cmd.chat /\ cmd'.claim = cmd.claim
      BY <1>6, <1>10 DEF Commands, Steppings, Allocating
    <2>2. quota.max = 2 BY <1>10
    <2> HIDE <1>10
    <2>3. cmd'.s \in PoolSpaces' BY <1>5, <1>6, <2>1 DEF Grown
    <2> QED BY <1>3, <1>4, <1>5, <1>6, <2>1, <2>2, <2>3, Without
  <1> QED BY <1>7, <1>8, <1>9, <1>10 DEF NoRoom, Mishap

LEMMA OverflowSafe == ASSUME PagesInv, Overflow PROVE PagesInv'
  <1>1. cmd.pc = "overflow" /\ UNCHANGED <<tabs, homes, pool, work, releases, allocs, seen>> BY DEF Overflow
  <1>2. quota' = quota BY DEF Overflow, Mishap, Breaks, Steps, Enters
  <1>3. quota' \in Instances /\ quota'.max = quota.max BY <1>2 DEF PagesInv, World, Shapes
  <1>4. Grown BY <1>1, GrownRest
  <1>5. /\ cmd \in Commands /\ cmd.kind \in {"send", "new"} /\ cmd.s \in PoolSpaces /\ ~cmd.own
        /\ cmd.over = "last" => quota.max = 2
    BY <1>1, Seeking DEF Allocating
  <1> DEFINE s == IF cmd.over = "head" /\ pool # <<>> THEN pool[1] ELSE Wanted
  <1>6. s = Wanted \/ s \in PoolSpaces BY PoolNames DEF PagesInv
  <1>7. s \in SpaceNames BY <1>6, PoolNames DEF PagesInv, Wanted, SpaceNames
  <1> DEFINE Goes == \/ owner[s] = "agent" /\ s \notin PoolSpaces /\ Steps("map")
                     \/ Steps("no room")
                     \/ s \in PoolSpaces /\ Enters(s, cmd.over)
                     \/ Breaks
  <1>A. \/ owner[s] = "none" /\ owner' = [owner EXCEPT ![s] = "agent"] /\ cmd' = [cmd EXCEPT !.pc = "map", !.made = TRUE]
        \/ owner' = owner /\ Goes
    BY DEF Overflow, Mishap
  <1>8. CASE owner[s] = "none" /\ owner' = [owner EXCEPT ![s] = "agent"] /\ cmd' = [cmd EXCEPT !.pc = "map", !.made = TRUE]
    <2>1. s = Wanted BY <1>6, <1>8 DEF PagesInv, World, SpacesMapped
    <2>2. owner \in [SpaceNames -> {"agent", "user", "none"}] BY DEF PagesInv, World, Shapes
    <2> HIDE DEF s
    <2>3. /\ owner' \in [SpaceNames -> {"agent", "user", "none"}] /\ owner'[s] = "agent"
          /\ \A u \in SpaceNames : u # s => owner'[u] = owner[u]
      BY <1>7, <1>8, <2>2
    <2>4. /\ cmd' \in Commands /\ cmd'.pc = "map" /\ cmd'.s = cmd.s /\ cmd'.over = cmd.over /\ cmd'.own = cmd.own
          /\ cmd'.kind = cmd.kind /\ cmd'.chat = cmd.chat /\ cmd'.claim = cmd.claim
      BY <1>5, <1>8 DEF Commands, Steppings, Allocating
    <2> HIDE <1>8
    <2>5. s = "over2" => quota.max = 2 BY <1>5, <2>1 DEF Wanted
    <2>6. \A u \in PoolSpaces : u \in SpaceNames /\ owner[u] # "none"
      BY PoolNames DEF PagesInv, World, SpacesMapped
    <2>7. \A u \in PoolSpaces : owner'[u] # "none" BY <2>3, <2>6
    <2>8. owner'["over2"] # "none" => quota.max = 2
      BY <2>3, <2>5 DEF PagesInv, World, SpacesMapped, SpaceNames
    <2>9. SpacesMapped'
      BY <1>1, <1>3, <2>7, <2>8 DEF PagesInv, World, SpacesMapped, PoolSpaces, Registered
    <2>10. World' BY <1>1, <1>3, <2>3, <2>9, FatesKept, JournalKept DEF PagesInv, World, Shapes
    <2>11. (owner[Wanted] # "none")' BY <2>1, <2>3, <2>4 DEF Wanted
    <2>12. cmd'.s \in PoolSpaces' BY <1>4, <1>5, <2>4 DEF Grown
    <2> QED BY <1>3, <1>4, <1>5, <2>4, <2>10, <2>11, <2>12, Without
  <1>9. CASE owner' = owner /\ Goes
    <2>1. World' BY <1>1, <1>3, <1>9, WorldKept DEF places, PagesInv
    <2>2. CASE owner[s] = "agent" /\ s \notin PoolSpaces /\ Steps("map")
      <3>1. s = Wanted BY <1>6, <2>2
      <3>2. cmd' \in Commands /\ cmd'.pc = "map" /\ Alike(cmd, cmd')
        BY <2>2, SteppedOn DEF Steps, Steppings, Allocating
      <3>3. owner[s] = "agent" BY <2>2
      <3> HIDE <2>2 DEF s
      <3>4. (owner[Wanted] # "none")' BY <1>9, <3>1, <3>2, <3>3 DEF Wanted, Alike
      <3>5. cmd'.s \in PoolSpaces' BY <1>4, <1>5, <3>2 DEF Grown, Alike
      <3> QED BY <1>3, <1>4, <1>5, <2>1, <3>2, <3>4, <3>5, Without DEF Alike
    <2>3. CASE Steps("no room")
      <3>1. cmd' \in Commands /\ cmd'.pc = "no room" /\ Alike(cmd, cmd')
        BY <2>3, SteppedOn DEF Steps, Steppings, Allocating
      <3>2. cmd'.s \in PoolSpaces' BY <1>4, <1>5, <3>1 DEF Grown, Alike
      <3> QED BY <1>3, <1>4, <1>5, <2>1, <3>1, <3>2, Without DEF Alike
    <2>4. CASE s \in PoolSpaces /\ Enters(s, cmd.over)
      <3>1. s \in PoolSpaces' BY <1>4, <2>4 DEF Grown
      <3>0. s \in SpaceNames /\ Enters(s, cmd.over) BY <1>7, <2>4
      <3> HIDE DEF s
      <3> HIDE <2>4
      <3>2. /\ cmd' \in Commands /\ cmd'.pc = "intend" /\ cmd'.s = s /\ cmd'.over = cmd.over /\ cmd'.own = cmd.own
            /\ cmd'.kind = cmd.kind /\ cmd'.chat = cmd.chat /\ cmd'.claim = cmd.claim
        BY ZenonT(60), <1>5, <3>0 DEF Enters, Commands, Steppings, Allocating
      <3> QED BY <1>3, <1>4, <1>5, <2>1, <3>1, <3>2, Without
    <2>5. CASE Breaks BY <1>1, <1>4, <2>1, <2>5, Broken
    <2> QED BY <1>9, <2>2, <2>3, <2>4, <2>5
  <1> QED BY <1>8, <1>9, <1>A

LEMMA MapSpaceSafe == ASSUME PagesInv, MapSpace PROVE PagesInv'
  <1>1. cmd.pc = "map" /\ UNCHANGED <<tabs, homes, owner, work, releases, allocs, seen>> BY DEF MapSpace
  <1>2. quota' = quota BY DEF MapSpace, Mishap, Breaks, Enters
  <1>3. quota' \in Instances /\ quota'.max = quota.max BY <1>2 DEF PagesInv, World, Shapes
  <1>4. Wanted \in SpaceNames /\ owner[Wanted] # "none"
    BY <1>1 DEF PagesInv, Holder, Kinds, Wanted, SpaceNames
  <1>5. CASE UNCHANGED pool /\ Mishap
    <2>1. World' BY <1>1, <1>3, <1>5, WorldKept DEF places, PagesInv
    <2>2. Grown BY <1>1, <1>5, GrownRest
    <2> QED BY <1>1, <1>5, <2>1, <2>2, Broken DEF Mishap
  <1>6. CASE pool' = Mapped /\ Enters(Wanted, cmd.over)
    <2>1. /\ cmd \in Commands /\ cmd.kind \in {"send", "new"} /\ ~cmd.own
          /\ cmd.over = "last" => quota.max = 2
      BY <1>1, Seeking DEF Allocating
    <2>2. pool \in Seq(SpaceNames) BY DEF PagesInv, World, Shapes
    <2> DEFINE w == Wanted
    <2>3. w \in SpaceNames /\ pool' = <<w>> \o pool BY <1>4, <1>6 DEF Mapped
    <2> HIDE DEF w
    <2>4. pool' \in Seq(SpaceNames) /\ PoolSpaces' = PoolSpaces \cup {w}
      <3>1. /\ pool' \in Seq(SpaceNames) /\ Len(pool') = Len(pool) + 1 /\ pool'[1] = w
            /\ Len(pool) \in Nat /\ \A i \in 1..Len(pool) : pool'[i + 1] = pool[i]
        BY <2>2, <2>3
      <3>2. DOMAIN pool = 1..Len(pool) /\ DOMAIN pool' = 1..(Len(pool) + 1) BY <2>2, <3>1
      <3>3. {pool'[i] : i \in DOMAIN pool'} \subseteq {pool[i] : i \in DOMAIN pool} \cup {w}
        <4>1. \A i \in DOMAIN pool' : i = 1 \/ (i - 1 \in 1..Len(pool) /\ (i - 1) + 1 = i) BY <3>1, <3>2
        <4> QED BY <3>1, <3>2, <4>1
      <3>4. {pool[i] : i \in DOMAIN pool} \cup {w} \subseteq {pool'[i] : i \in DOMAIN pool'}
        <4>1. \A i \in DOMAIN pool : i + 1 \in DOMAIN pool' BY <3>1, <3>2
        <4>2. 1 \in DOMAIN pool' BY <3>1, <3>2
        <4> QED BY <3>1, <3>2, <4>1, <4>2
      <3> QED BY <3>1, <3>3, <3>4 DEF PoolSpaces
    <2>5. SpacesMapped'
      <3>1. owner'[w] # "none" BY <1>1, <1>4 DEF w
      <3> QED BY <1>1, <1>3, <2>4, <3>1 DEF PagesInv, World, SpacesMapped, Registered
    <2>6. World' BY <1>1, <1>3, <2>4, <2>5, FatesKept, JournalKept DEF PagesInv, World, Shapes
    <2>7. Grown BY <1>1, <2>4 DEF Grown, Registered
    <2>0. w \in SpaceNames /\ Enters(w, cmd.over) BY <1>4, <1>6 DEF w
    <2> HIDE <1>6
    <2>8. /\ cmd' \in Commands /\ cmd'.pc = "intend" /\ cmd'.s = w /\ cmd'.over = cmd.over /\ cmd'.own = cmd.own
          /\ cmd'.kind = cmd.kind /\ cmd'.chat = cmd.chat /\ cmd'.claim = cmd.claim
      BY <2>0, <2>1 DEF Enters, Commands, Steppings, Allocating
    <2> QED BY <1>3, <2>1, <2>4, <2>6, <2>7, <2>8, Without
  <1> QED BY <1>5, <1>6 DEF MapSpace

-----------------------------------------------------------------------------
(* Making room. *)

LEMMA Reclaiming ==
  ASSUME PagesInv, cmd.pc \in {"reclaim", "guard"}
  PROVE  /\ cmd \in Commands /\ ~cmd.own /\ cmd.kind \in {"send", "new", "prune"}
         /\ cmd.over = "last" => quota.max = 2
         /\ cmd.kind \in {"send", "new"} => cmd.s \in PoolSpaces
  BY DEF PagesInv, Holder, Kinds, Uses, Closing, Commands

\* The command stays on its way to a release, with nothing of its own.
LEMMA ReclaimOn ==
  ASSUME PagesInv, World', cmd.pc \in {"reclaim", "guard"}, UNCHANGED <<homes, pool>>, quota'.max = quota.max,
         cmd' \in Commands, cmd'.pc \in {"reclaim", "guard", "release", "over"}, ~cmd'.own,
         cmd'.kind = cmd.kind, cmd'.chat = cmd.chat, cmd'.claim = cmd.claim, cmd'.over = cmd.over,
         cmd'.s = cmd.s \/ cmd.kind = "prune"
  PROVE  Kinds' /\ Uses'
  <1>1. cmd.kind \in {"send", "new", "prune"} /\ (cmd.kind \in {"send", "new"} => cmd.s \in PoolSpaces)
    BY Reclaiming
  <1>2. Kinds'
    <2>1. cmd'.kind # Nil BY <1>1, NameAssumption
    <2>2. PoolSpaces' = PoolSpaces BY DEF PoolSpaces
    <2> QED BY <1>1, <2>1, <2>2 DEF PagesInv, Holder, Kinds, Registered, Attaching, Allocating
  <1>3. Uses' BY DEF Uses, Closing
  <1> QED BY <1>2, <1>3

LEMMA ReclaimSafe == ASSUME PagesInv, Reclaim PROVE PagesInv'
  <1>1. cmd.pc = "reclaim" /\ Rest /\ quota' = quota BY DEF Reclaim
  <1>2. /\ World' /\ quota'.max = quota.max
        /\ UNCHANGED <<tabs, homes, pool, owner, work, releases, allocs, seen>>
    BY <1>1, OnlyCommand
  <1>3. Grown BY <1>2, GrownRest
  <1>4. /\ cmd \in Commands /\ ~cmd.own /\ cmd.kind \in {"send", "new", "prune"}
        /\ cmd.over = "last" => quota.max = 2
        /\ cmd.kind \in {"send", "new"} => cmd.s \in PoolSpaces
    BY <1>1, Reclaiming
  <1>5. ASSUME NEW t \in Targets, tabs[t].live, NEW c \in Chats \cup {Nil},
               NEW purpose \in {"TERMINAL_ALLOCATION", "ORPHAN_IDLE"}, Picks(t, c, purpose),
               purpose = "ORPHAN_IDLE" => c = Nil
        PROVE  PagesInv'
    <2>1. /\ cmd' \in Commands /\ cmd'.pc = "guard" /\ cmd'.r = t /\ cmd'.cand = c /\ cmd'.purpose = purpose
          /\ cmd'.reload = FALSE /\ cmd'.term = FALSE /\ cmd'.closed = FALSE /\ cmd'.reloaded = FALSE
      <3>1. tabs[t].url \in Urls BY DEF PagesInv, World, Shapes, Tabs
      <3>2. cmd' = [cmd EXCEPT !.pc = "guard", !.r = t, !.url = tabs[t].url, !.cand = c, !.purpose = purpose,
                               !.reload = FALSE, !.term = FALSE, !.closed = FALSE, !.reloaded = FALSE]
        BY <1>5 DEF Picks
      <3>3. cmd' \in Commands BY ZenonT(60), <1>4, <3>1, <3>2 DEF Commands, Steppings, Purposes
      <3>4. cmd \in Commands BY <1>4
      <3> HIDE <1>5
      <3>5. /\ cmd'.pc = "guard" /\ cmd'.r = t /\ cmd'.cand = c /\ cmd'.purpose = purpose
        BY ONLY <3>2, <3>4 DEF Commands
      <3>6. cmd'.reload = FALSE /\ cmd'.term = FALSE /\ cmd'.closed = FALSE /\ cmd'.reloaded = FALSE
        BY ONLY <3>2, <3>4 DEF Commands
      <3> QED BY ONLY <3>3, <3>5, <3>6
    <2>2. /\ cmd'.kind = cmd.kind /\ cmd'.chat = cmd.chat /\ cmd'.claim = cmd.claim /\ cmd'.over = cmd.over
          /\ cmd'.s = cmd.s /\ cmd'.own = cmd.own
      BY <1>4, <1>5 DEF Picks, Commands
    <2>3. tabs[t].alloc # 0 BY <1>5, LiveOpened DEF PagesInv
    <2>4. Kinds' /\ Uses' BY <1>1, <1>2, <1>4, <2>1, <2>2, ReclaimOn
    <2>5. purpose = "ORPHAN_IDLE" => c = Nil BY <1>5
    <2> HIDE <1>5
    <2>6. Closes' BY <1>2, <2>1, <2>3, <2>5 DEF Closes, Closing
    <2> QED BY <1>2, <2>1, <2>4, <2>6 DEF PagesInv, Holder
  <1>6. CASE cmd.kind # "prune" /\ cmd' = [cmd EXCEPT !.pc = "no room"]
    <2>1. cmd' \in Commands /\ cmd'.pc = "no room" /\ Alike(cmd, cmd')
      BY <1>6, SteppedOn DEF Steppings, Allocating
    <2>2. cmd.kind \in {"send", "new"} BY <1>4, <1>6
    <2> HIDE <1>6
    <2>3. cmd'.s \in PoolSpaces' BY <1>3, <1>4, <2>1, <2>2 DEF Grown, Alike
    <2> QED BY <1>2, <1>3, <1>4, <2>1, <2>2, <2>3, Without DEF Alike
  <1>7. CASE cmd' = [cmd EXCEPT !.pc = "over"]
    <2>1. cmd' \in Commands /\ cmd'.pc = "over" /\ Alike(cmd, cmd') BY <1>7, SteppedOn DEF Steppings
    <2> HIDE <1>7
    <2>2. Kinds' /\ Uses' BY <1>1, <1>2, <1>4, <2>1, ReclaimOn DEF Alike
    <2>3. Closes' BY <2>1 DEF Closes, Closing
    <2> QED BY <1>2, <2>1, <2>2, <2>3 DEF PagesInv, Holder
  <1>8. ASSUME cmd.kind = "prune", NEW s \in cmd.todo, cmd' = [cmd EXCEPT !.s = s, !.todo = @ \ {s}, !.again = FALSE]
        PROVE  PagesInv'
    <2>1. /\ cmd' \in Commands /\ cmd'.pc = cmd.pc /\ cmd'.kind = cmd.kind /\ cmd'.chat = cmd.chat
          /\ cmd'.claim = cmd.claim /\ cmd'.over = cmd.over /\ cmd'.own = cmd.own
      BY <1>4, <1>8 DEF Commands
    <2>2. cmd.kind = "prune" BY <1>8
    <2> HIDE <1>8
    <2>3. Kinds' /\ Uses' BY <1>1, <1>2, <1>4, <2>1, <2>2, ReclaimOn
    <2>4. Closes' BY <1>1, <2>1 DEF Closes, Closing
    <2> QED BY <1>2, <2>1, <2>3, <2>4 DEF PagesInv, Holder
  <1>9. \A c \in Chats, t \in Targets : Slot(c, t) => tabs[t].live BY DEF Slot, At, Live
  <1>10. \A t \in Targets : Orphan(t) => tabs[t].live BY DEF Orphan, orphanManagedPageCandidates, Live
  <1> QED BY <1>5, <1>6, <1>7, <1>8, <1>9, <1>10 DEF Reclaim

LEMMA GuardSafe == ASSUME PagesInv, Guard PROVE PagesInv'
  <1>1. cmd.pc = "guard" /\ Rest BY DEF Guard
  <1>2. PICK pc \in {"release", "reclaim"} : Steps(pc) BY DEF Guard
  <1>3. quota' = quota BY <1>2 DEF Steps
  <1>4. /\ World' /\ quota'.max = quota.max
        /\ UNCHANGED <<tabs, homes, pool, owner, work, releases, allocs, seen>>
    BY <1>1, <1>3, OnlyCommand
  <1>5. cmd \in Commands /\ ~cmd.own BY <1>1, Reclaiming
  <1>6. cmd' \in Commands /\ cmd'.pc = pc /\ Alike(cmd, cmd')
    BY <1>2, SteppedOn DEF Steps, Steppings, Closing
  <1> HIDE <1>2
  <1>7. Kinds' /\ Uses' BY <1>1, <1>4, <1>5, <1>6, ReclaimOn DEF Alike
  <1>8. Closes' BY <1>1, <1>4, <1>5, <1>6 DEF PagesInv, Holder, Closes, Closing, Alike
  <1> QED BY <1>4, <1>6, <1>7, <1>8 DEF PagesInv, Holder

-----------------------------------------------------------------------------
(* Releasing a page. *)

LEMMA Watches ==
  ASSUME PagesInv, World', Grown, quota'.max = quota.max, cmd.pc \in Closing \cup {"give back"},
         cmd' \in Commands, cmd'.pc \in Closing \cup {"over"}, Onward(cmd, cmd'), cmd'.own = cmd.own,
         cmd.pc = "give back" => cmd'.purpose = "OWNED_TEMPORARY",
         cmd.pc # "give back" => cmd'.purpose = cmd.purpose
  PROVE  Kinds' /\ Uses'
  <1>1. Kinds'
    <2>1. /\ cmd'.own => cmd'.kind \in {"send", "new"}
          /\ cmd'.kind = "close" => cmd'.purpose = "MANAGEMENT_TERMINATION"
          /\ cmd'.kind # Nil
          /\ cmd'.kind \notin {"send", "new"} => ~cmd'.claim
          /\ cmd'.over = "last" => quota'.max = 2
      BY DEF PagesInv, Holder, Kinds, Onward, Closing
    <2>2. cmd'.kind \in {"send", "new"} => cmd'.chat \in Chats /\ cmd'.s \in PoolSpaces'
      BY DEF PagesInv, Holder, Kinds, Onward, Grown
    <2>3. cmd'.kind = "send" => Registered(cmd.chat)'
      BY DEF PagesInv, Holder, Kinds, Onward, Grown, Registered
    <2> QED BY <2>1, <2>2, <2>3 DEF Kinds, Attaching, Allocating, Closing
  <1>2. Uses'
    <2>1. ASSUME cmd.own
          PROVE  cmd.a \in DOMAIN allocs' /\ cmd.t \in Targets /\ tabs'[cmd.t].alloc = cmd.a /\ allocs'[cmd.a].t = cmd.t
      <3>1. cmd.a \in DOMAIN allocs /\ tabs[cmd.t].alloc = cmd.a /\ allocs[cmd.a].t = cmd.t /\ cmd.t \in Targets
        BY <2>1 DEF PagesInv, Holder, Uses, Closing
      <3>2. cmd.a # 0 BY <3>1, EntriesCounted DEF PagesInv
      <3> QED BY <3>1, <3>2 DEF Grown
    <2>2. cmd.own /\ cmd'.pc \in Closing => cmd'.purpose = "OWNED_TEMPORARY"
      BY DEF PagesInv, Holder, Uses
    <2> QED BY <2>1, <2>2 DEF Uses, Onward, Closing
  <1> QED BY <1>1, <1>2

LEMMA GiveBackSafe == ASSUME PagesInv, GiveBack PROVE PagesInv'
  <1>1. cmd.pc = "give back" /\ Rest /\ quota' = quota BY DEF GiveBack
  <1>2. /\ World' /\ quota'.max = quota.max
        /\ UNCHANGED <<tabs, homes, pool, owner, work, releases, allocs, seen>>
    BY <1>1, OnlyCommand
  <1>3. Grown BY <1>2, GrownRest
  <1>4. cmd \in Commands /\ cmd.own /\ cmd.t \in Targets /\ cmd.a \in DOMAIN allocs /\ tabs[cmd.t].alloc = cmd.a
    BY <1>1 DEF PagesInv, Holder, Uses
  <1>5. cmd.a # 0 BY <1>4, EntriesCounted DEF PagesInv
  <1>a. /\ "release" \in Steppings /\ "OWNED_TEMPORARY" \in Purposes \cup {Nil} /\ cmd.t \in Targets \cup {0}
        /\ tabs[cmd.t].url \in Urls
    BY <1>4 DEF Steppings, Closing, Purposes, PagesInv, World, Shapes, Tabs
  <1>b. cmd' \in Commands BY ZenonT(60), <1>4, <1>a DEF GiveBack, Commands
  <1>c. /\ cmd'.pc = "release" /\ cmd'.r = cmd.t /\ cmd'.cand = Nil
        /\ cmd'.purpose = "OWNED_TEMPORARY" /\ ~cmd'.closed /\ ~cmd'.reloaded
    BY <1>4 DEF GiveBack, Commands
  <1>6. /\ cmd' \in Commands /\ cmd'.pc = "release" /\ cmd'.r = cmd.t /\ cmd'.cand = Nil
        /\ cmd'.purpose = "OWNED_TEMPORARY" /\ ~cmd'.closed /\ ~cmd'.reloaded
    BY <1>b, <1>c
  <1>7. Onward(cmd, cmd') /\ cmd'.own = cmd.own BY <1>4 DEF GiveBack, Commands, Onward
  <1>8. Kinds' /\ Uses' BY <1>1, <1>2, <1>3, <1>6, <1>7, Watches DEF Closing
  <1>9. Closes' BY <1>2, <1>4, <1>5, <1>6, <1>7 DEF Closes, Closing, Onward
  <1> QED BY <1>2, <1>6, <1>8, <1>9 DEF PagesInv, Holder

Releases == [phase : Outcomes, reload : BOOLEAN, closed : BOOLEAN, term : Outcomes]

\* What is recorded of the release, or of its termination.
Noted(phase) ==
    /\ releases' \in [Targets -> Releases]
    /\ \A t \in Targets : t # cmd.r => releases'[t] = releases[t]
    /\ cmd.term => /\ releases'[cmd.r].phase = releases[cmd.r].phase /\ releases'[cmd.r].term = phase
                   /\ releases'[cmd.r].closed = releases[cmd.r].closed
    /\ ~cmd.term => /\ releases'[cmd.r].phase = phase /\ releases'[cmd.r].closed = cmd.closed
                    /\ releases'[cmd.r].term = releases[cmd.r].term

LEMMA NotedBy ==
  ASSUME PagesInv, cmd.r \in Targets, NEW phase \in Outcomes, Outcome(phase)
  PROVE  Noted(phase)
  <1>1. releases \in [Targets -> Releases] /\ cmd \in Commands
    BY DEF PagesInv, Holder, World, Shapes, Releases
  <1> DEFINE e == IF cmd.term THEN [releases[cmd.r] EXCEPT !.term = phase]
                  ELSE [releases[cmd.r] EXCEPT !.phase = phase, !.reload = cmd.reload, !.closed = cmd.closed]
  <1>2. releases' = [releases EXCEPT ![cmd.r] = e] BY <1>1 DEF Outcome
  <1>3. /\ e \in Releases
        /\ cmd.term => e.phase = releases[cmd.r].phase /\ e.term = phase /\ e.closed = releases[cmd.r].closed
        /\ ~cmd.term => e.phase = phase /\ e.closed = cmd.closed /\ e.term = releases[cmd.r].term
    <2>1. releases[cmd.r] \in Releases BY <1>1
    <2>2. cmd.reload \in BOOLEAN /\ cmd.closed \in BOOLEAN BY <1>1 DEF Commands
    <2> QED BY <2>1, <2>2 DEF Releases
  <1> HIDE DEF e
  <1>4. releases' \in [Targets -> Releases] BY <1>1, <1>2, <1>3
  <1>5. releases'[cmd.r] = e /\ \A t \in Targets : t # cmd.r => releases'[t] = releases[t] BY <1>1, <1>2
  <1> QED BY <1>3, <1>4, <1>5 DEF Noted

LEMMA OutcomeSafe ==
  ASSUME PagesInv, cmd.pc \in Closing, NEW phase \in {"INTENT", "REFUSED", "UNKNOWN", "RELEASED"}, Outcome(phase),
         UNCHANGED <<tabs, homes, pool, owner, work, allocs, seen>>, quota' = quota,
         releases[cmd.r].phase # "RELEASED",
         phase = "RELEASED" => ~tabs[cmd.r].live,
         cmd.term => releases[cmd.r].phase = "UNKNOWN",
         ~cmd.term /\ seen.closes[cmd.r] = 1 => phase # "REFUSED" /\ (phase = "UNKNOWN" => cmd.closed)
  PROVE  World' /\ Grown /\ Noted(phase)
  <1>1. cmd.r \in Targets /\ tabs[cmd.r].alloc # 0 BY DEF PagesInv, Holder, Closes
  <1>2. Noted(phase) BY <1>1, NotedBy DEF Outcomes
  <1>3. Shapes' BY <1>2 DEF PagesInv, World, Shapes, Noted, Releases
  <1>4. SpacesMapped' BY DEF PagesInv, World, SpacesMapped, PoolSpaces, Registered
  <1>5. Fates'
    <2>1. \A t \in Targets : t # cmd.r => Fate(t)' BY <1>2 DEF PagesInv, World, Fates, Fate, Fenced, Noted
    <2>2. \A t \in Targets : t = cmd.r => Fate(t)'
      BY <1>1, <1>2 DEF PagesInv, World, Fates, Fate, Fenced, Noted
    <2> QED BY <2>1, <2>2 DEF Fates
  <1>6. Journalled'
    <2>1. \A t \in Targets : /\ releases[t].phase = "RELEASED" => releases'[t].phase = "RELEASED"
                             /\ releases'[t].phase = "RELEASED" => releases[t].phase = "RELEASED" \/ ~tabs[t].live
      BY <1>2 DEF Noted
    <2>2. \A i \in DOMAIN allocs : allocs[i].t \in Targets \cup {0} BY EntriesCounted DEF PagesInv, Entries
    <2>3. \A i \in DOMAIN allocs : Finished(i) => Finished(i)' BY <2>1, <2>2 DEF Finished
    <2>4. \A i \in DOMAIN allocs : Finished(i)' => Finished(i) \/ (allocs[i].t \in Targets /\ ~tabs[allocs[i].t].live)
      BY <2>1, <2>2 DEF Finished
    <2>5. \A s : Unresolved(s)' \subseteq Unresolved(s) BY <2>3 DEF Unresolved
    <2>6. \A t \in Targets : (tabs[t].live => t \in seen.held \/ ~Finished(tabs[t].alloc))'
      <3>1. \A t \in Targets : tabs[t].live => tabs[t].alloc \in DOMAIN allocs /\ tabs[t].alloc # 0
        BY LiveOpened DEF PagesInv, World, Journalled
      <3>2. \A t \in Targets : tabs[t].live => allocs[tabs[t].alloc].t \in {t, 0}
        BY <2>2, <3>1 DEF PagesInv, World, Journalled
      <3>3. 0 \notin Targets BY BoundAssumption DEF Targets
      <3>4. \A t \in Targets : tabs[t].live => (Finished(tabs[t].alloc)' => Finished(tabs[t].alloc))
        BY <2>4, <3>1, <3>2, <3>3
      <3> QED BY <3>4 DEF PagesInv, World, Journalled
    <2> QED BY <2>5, <2>6 DEF PagesInv, World, Journalled
  <1>7. Grown BY GrownRest
  <1> QED BY <1>2, <1>3, <1>4, <1>5, <1>6, <1>7 DEF World

\* What a command knows while it releases a page.
LEMMA Known ==
  ASSUME PagesInv, cmd.pc \in Closing
  PROVE  /\ cmd \in Commands /\ cmd.r \in Targets /\ tabs[cmd.r].alloc # 0
         /\ cmd.purpose = "OWNED_TEMPORARY" => cmd.own /\ cmd.r = cmd.t
         /\ cmd.purpose # "TERMINAL_ALLOCATION" => cmd.cand = Nil
         /\ seen.closes[cmd.r] \in Nat /\ seen.closes[cmd.r] <= 1
  BY DEF PagesInv, Holder, Closes, World, Shapes, Fates, Fate

LEMMA ReleaseEnds ==
  ASSUME PagesInv, World', Grown, quota' = quota, cmd.pc \in Closing, cmd' = [cmd EXCEPT !.pc = "over"]
  PROVE  PagesInv'
  <1>1. cmd' \in Commands /\ cmd'.pc = "over" /\ Alike(cmd, cmd') /\ Onward(cmd, cmd')
    BY SteppedOn DEF Steppings
  <1>2. cmd.pc # "give back" BY DEF Closing
  <1>3. Kinds' /\ Uses' BY <1>1, <1>2, Watches DEF Alike
  <1>4. Closes' BY <1>1 DEF Closes, Closing
  <1> QED BY <1>1, <1>3, <1>4 DEF PagesInv, Holder

LEMMA ReleaseSafe == ASSUME PagesInv, Release PROVE PagesInv'
  <1>1. cmd.pc = "release" /\ UNCHANGED <<tabs, homes, pool, owner, work, allocs, seen, quota>> BY DEF Release
  <1>2. cmd.pc \in Closing /\ quota' = quota /\ quota \in Instances BY <1>1 DEF Closing, PagesInv, World, Shapes
  <1>3. CASE UNCHANGED releases /\ cmd' = [cmd EXCEPT !.pc = "over"]
    <2>1. World' BY <1>1, <1>2, <1>3, WorldKept DEF places, PagesInv
    <2>2. Grown BY <1>1, <1>3, GrownRest
    <2> QED BY <1>2, <1>3, <2>1, <2>2, ReleaseEnds
  <1>4. CASE /\ IF cmd.term THEN Terminable(cmd.r) /\ releases[cmd.r].term = "none" ELSE ~Fenced(cmd.r)
             /\ Outcome("INTENT")
             /\ cmd' = [cmd EXCEPT !.pc = IF cmd.reload THEN "reload" ELSE IF cmd.term THEN "verify" ELSE "check"]
    <2>1. /\ cmd \in Commands /\ cmd.r \in Targets /\ tabs[cmd.r].alloc # 0 /\ ~cmd.closed
          /\ cmd.purpose = "OWNED_TEMPORARY" => cmd.own /\ cmd.r = cmd.t
          /\ cmd.purpose # "TERMINAL_ALLOCATION" => cmd.cand = Nil
      BY <1>1, <1>2, Known DEF PagesInv, Holder, Closes
    <2>2. releases[cmd.r].phase # "RELEASED" /\ (cmd.term => releases[cmd.r].phase = "UNKNOWN" /\ ~releases[cmd.r].closed)
      BY <1>4 DEF Terminable, Fenced
    <2>3. seen.closes[cmd.r] = 0
      <3>1. seen.closes[cmd.r] # 1
        BY <1>4, <2>1 DEF Terminable, Fenced, PagesInv, World, Fates, Fate
      <3>2. seen.closes[cmd.r] \in Nat /\ seen.closes[cmd.r] <= 1 BY <1>2, Known
      <3> QED BY <3>1, <3>2
    <2>4. World' /\ Grown /\ Noted("INTENT") BY <1>1, <1>2, <1>4, <2>2, <2>3, OutcomeSafe
    <2>5. PICK pc \in {"reload", "verify", "check"} : cmd' = [cmd EXCEPT !.pc = pc] /\ (pc = "verify" => cmd.term)
      BY <1>4
    <2>6. cmd' = [cmd EXCEPT !.pc = pc] BY <2>5
    <2>7. pc = "verify" => cmd.term BY <2>5
    <2>8. cmd' \in Commands /\ cmd'.pc = pc /\ Alike(cmd, cmd') /\ Onward(cmd, cmd')
      BY <2>6, SteppedOn DEF Steppings, Closing
    <2> HIDE <1>4, <2>5, <2>6
    <2>9. Kinds' /\ Uses' BY <1>1, <1>2, <2>4, <2>8, Watches DEF Alike, Closing
    <2>10. Closes' BY <1>1, <2>1, <2>2, <2>3, <2>4, <2>7, <2>8 DEF Closes, Closing, Alike, Noted, Idles
    <2> QED BY <2>4, <2>8, <2>9, <2>10 DEF PagesInv, Holder
  <1> QED BY <1>3, <1>4 DEF Release

LEMMA ReloadSafe == ASSUME PagesInv, Reload PROVE PagesInv'
  <1>1. cmd.pc = "reload" /\ UNCHANGED <<homes, pool, owner, work, releases, allocs, seen, quota>> BY DEF Reload
  <1>2. cmd.pc \in Closing /\ quota' = quota /\ quota \in Instances BY <1>1 DEF Closing, PagesInv, World, Shapes
  <1>3. /\ cmd \in Commands /\ cmd.r \in Targets /\ tabs[cmd.r].alloc # 0 /\ ~cmd.closed /\ seen.closes[cmd.r] = 0
        /\ cmd.purpose = "OWNED_TEMPORARY" => cmd.own /\ cmd.r = cmd.t
        /\ cmd.purpose # "TERMINAL_ALLOCATION" => cmd.cand = Nil
        /\ IF cmd.term THEN /\ releases[cmd.r].phase = "UNKNOWN" /\ ~releases[cmd.r].closed
                            /\ releases[cmd.r].term = "INTENT"
           ELSE releases[cmd.r].phase = "INTENT"
    BY <1>1, <1>2, Known DEF PagesInv, Holder, Closes
  <1>4. PICK pc \in {"check", "refuse"} :
           \/ tabs' = tabs /\ cmd' = [cmd EXCEPT !.pc = pc]
           \/ tabs' = [tabs EXCEPT ![cmd.r].draft = FALSE] /\ cmd' = [cmd EXCEPT !.pc = pc, !.reloaded = TRUE]
    BY DEF Reload
  <1>5. /\ cmd' \in Commands /\ cmd'.pc = pc /\ Onward(cmd, cmd') /\ cmd'.own = cmd.own
        /\ cmd'.r = cmd.r /\ cmd'.purpose = cmd.purpose /\ cmd'.cand = cmd.cand /\ cmd'.term = cmd.term
        /\ cmd'.closed = cmd.closed
    <2>0. pc \in {"check", "refuse"} /\ pc \in Steppings BY <1>4 DEF Steppings, Closing
    <2>1. CASE cmd' = [cmd EXCEPT !.pc = pc]
      BY <2>0, <2>1, SteppedOn DEF Alike
    <2>2. CASE cmd' = [cmd EXCEPT !.pc = pc, !.reloaded = TRUE]
      BY ZenonT(60), <1>3, <2>0, <2>2 DEF Commands, Onward
    <2> QED BY <1>4, <2>1, <2>2
  <1>6. tabs \in [Targets -> Tabs] BY DEF PagesInv, World, Shapes
  <1>7. tabs' \in [Targets -> Tabs]
    <2>1. [tabs[cmd.r] EXCEPT !.draft = FALSE] \in Tabs BY <1>3, <1>6 DEF Tabs
    <2> QED BY <1>4, <1>6, <2>1
  <1>8. \A t \in Targets : /\ tabs'[t].alloc = tabs[t].alloc /\ tabs'[t].s = tabs[t].s
                           /\ tabs'[t].live => tabs[t].live
    BY <1>4, <1>6 DEF Tabs
  <1> HIDE <1>4
  <1>10. World' BY <1>1, <1>2, <1>7, <1>8, TabsKept DEF PagesInv
  <1>11. Grown BY <1>1, <1>8, GrownRest
  <1>12. Kinds' /\ Uses' BY <1>1, <1>2, <1>5, <1>10, <1>11, Watches DEF Closing
  <1>13. Closes' BY <1>1, <1>3, <1>5, <1>8 DEF Closes, Closing, Onward
  <1> QED BY <1>5, <1>10, <1>12, <1>13 DEF PagesInv, Holder

LEMMA CheckSafe == ASSUME PagesInv, Check PROVE PagesInv'
  <1>1. cmd.pc = "check" /\ Rest /\ quota' = quota /\ cmd \in Commands BY DEF Check, PagesInv, Holder
  <1>2. PICK pc \in {"verify", "refuse"} :
           cmd' = [cmd EXCEPT !.pc = pc, !.late = {}] /\ (pc = "verify" => Still(cmd.r))
    BY DEF Check
  <1>3. cmd' = [cmd EXCEPT !.pc = pc, !.late = {}] BY <1>2
  <1>4. /\ World' /\ quota'.max = quota.max
        /\ UNCHANGED <<tabs, homes, pool, owner, work, releases, allocs, seen>>
    BY <1>1, OnlyCommand
  <1>5. Grown BY <1>4, GrownRest
  <1>6. cmd' \in Commands BY ZenonT(60), <1>1, <1>3 DEF Commands, Steppings, Closing
  <1>7. cmd'.pc = pc /\ Alike(cmd, cmd') /\ Onward(cmd, cmd')
    BY <1>1, <1>3 DEF Commands, Alike, Onward
  <1>8. pc = "verify" => ~tabs[cmd.r].busy BY <1>2 DEF Still
  <1> HIDE <1>2, <1>3
  <1>9. Kinds' /\ Uses' BY <1>1, <1>4, <1>5, <1>6, <1>7, Watches DEF Alike, Closing
  <1>10. Closes' BY <1>1, <1>4, <1>7, <1>8 DEF PagesInv, Holder, Closes, Closing, Alike, Idles
  <1> QED BY <1>4, <1>6, <1>9, <1>10 DEF PagesInv, Holder

\* At the last permission no task of the conversation that the page shows is at work.
LEMMA Permitted ==
  ASSUME PagesInv, cmd.pc = "verify", Allowed, NEW c \in Chats, tabs[cmd.r].url = c
  PROVE  work[c] \notin {"active", "BLOCKED"}
  <1>1. cmd.pc \in Closing BY DEF Closing
  <1>2. cmd.r \in Targets /\ (cmd.purpose # "TERMINAL_ALLOCATION" => cmd.cand = Nil) BY <1>1, Known
  <1>3. SUFFICES ASSUME work[c] \in {"active", "BLOCKED"} PROVE FALSE OBVIOUS
  <1>4. Registered(c) BY <1>3 DEF PagesInv, World, SpacesMapped
  <1>5. c = cmd.cand BY <1>4 DEF Allowed, Referenced
  <1>6. c # Nil BY NameAssumption
  <1>7. cmd.purpose = "TERMINAL_ALLOCATION" BY <1>2, <1>5, <1>6
  <1>8. ~InUse(c) BY <1>5, <1>7 DEF Allowed
  <1> QED BY <1>3, <1>8 DEF InUse, EndedWork

LEMMA VerifySafe == ASSUME PagesInv, Verify PROVE PagesInv'
  <1>1. cmd.pc = "verify" /\ Rest /\ quota' = quota BY DEF Verify
  <1>2. /\ World' /\ quota'.max = quota.max
        /\ UNCHANGED <<tabs, homes, pool, owner, work, releases, allocs, seen>>
    BY <1>1, OnlyCommand
  <1>3. Grown BY <1>2, GrownRest
  <1>4. cmd \in Commands BY DEF PagesInv, Holder
  <1>5. CASE Allowed /\ cmd' = [cmd EXCEPT !.pc = "close", !.closed = TRUE, !.late = @ \ {"task"}]
    <2>1. \A c \in Chats : tabs[cmd.r].url = c => work[c] \notin {"active", "BLOCKED"} BY <1>1, <1>5, Permitted
    <2>2. cmd.late \ {"task"} \in SUBSET {"turn", "task"} BY <1>4 DEF Commands
    <2>3. cmd' \in Commands BY ZenonT(60), <1>4, <1>5, <2>2 DEF Commands, Steppings, Closing
    <2>4. /\ cmd'.pc = "close" /\ cmd'.closed /\ Onward(cmd, cmd') /\ cmd'.own = cmd.own
          /\ cmd'.r = cmd.r /\ cmd'.purpose = cmd.purpose /\ cmd'.cand = cmd.cand /\ cmd'.term = cmd.term
          /\ cmd'.late = cmd.late \ {"task"}
      BY <1>4, <1>5 DEF Commands, Onward
    <2> HIDE <1>5
    <2>5. Kinds' /\ Uses' BY <1>1, <1>2, <1>3, <2>3, <2>4, Watches DEF Closing
    <2>6. Idles' /\ Unworked'
      <3>1. Idles BY <1>1 DEF PagesInv, Holder, Closes
      <3> QED BY <1>2, <2>1, <2>4, <3>1 DEF Idles, Unworked
    <2>7. Closes' BY <1>1, <1>2, <2>4, <2>6 DEF PagesInv, Holder, Closes, Closing, Onward
    <2> QED BY <1>2, <2>3, <2>5, <2>7 DEF PagesInv, Holder
  <1>6. CASE cmd' = [cmd EXCEPT !.pc = "refuse"]
    <2>1. cmd' \in Commands /\ cmd'.pc = "refuse" /\ Alike(cmd, cmd') /\ Onward(cmd, cmd')
      BY <1>6, SteppedOn DEF Steppings, Closing
    <2> HIDE <1>6
    <2>2. Kinds' /\ Uses' BY <1>1, <1>2, <1>3, <2>1, Watches DEF Alike, Closing
    <2>3. Closes' BY <1>1, <1>2, <2>1 DEF PagesInv, Holder, Closes, Closing, Alike
    <2> QED BY <1>2, <2>1, <2>2, <2>3 DEF PagesInv, Holder
  <1> QED BY <1>5, <1>6 DEF Verify, Proceeds

LEMMA CloseTargetSafe == ASSUME PagesInv, CloseTarget PROVE PagesInv'
  <1>1. cmd.pc = "close" /\ UNCHANGED <<homes, pool, owner, work, releases, allocs>> BY DEF CloseTarget
  <1>2. cmd.pc \in Closing BY <1>1 DEF Closing
  <1>3. /\ cmd \in Commands /\ cmd.r \in Targets /\ tabs[cmd.r].alloc # 0 /\ cmd.closed /\ seen.closes[cmd.r] = 0
        /\ cmd.purpose = "OWNED_TEMPORARY" => cmd.own /\ cmd.r = cmd.t
        /\ cmd.purpose # "TERMINAL_ALLOCATION" => cmd.cand = Nil
        /\ IF cmd.term THEN /\ releases[cmd.r].phase = "UNKNOWN" /\ ~releases[cmd.r].closed
                            /\ releases[cmd.r].term = "INTENT"
           ELSE releases[cmd.r].phase = "INTENT"
    BY <1>1, <1>2, Known DEF PagesInv, Holder, Closes
  <1>4. tabs \in [Targets -> Tabs] /\ seen \in [closes : [Targets -> Nat], held : SUBSET Targets] /\ quota \in Instances
    BY DEF PagesInv, World, Shapes
  <1>5. PICK pc \in {"closed", "refuse"} :
           /\ Steps(pc)
           /\ \/ tabs' = [tabs EXCEPT ![cmd.r].live = FALSE]
              \/ tabs' = tabs /\ pc = "refuse"
    BY DEF CloseTarget
  <1>6. quota' = quota /\ cmd' = [cmd EXCEPT !.pc = pc] BY <1>5 DEF Steps
  <1>7. cmd' \in Commands /\ cmd'.pc = pc /\ Alike(cmd, cmd') /\ Onward(cmd, cmd')
    BY <1>6, SteppedOn DEF Steppings, Closing
  <1>8. /\ seen' \in [closes : [Targets -> Nat], held : SUBSET Targets] /\ seen'.held = seen.held
        /\ seen'.closes[cmd.r] = 1 /\ \A t \in Targets : t # cmd.r => seen'.closes[t] = seen.closes[t]
    BY <1>3, <1>4 DEF CloseTarget
  <1>9. tabs' \in [Targets -> Tabs]
    <2>1. [tabs[cmd.r] EXCEPT !.live = FALSE] \in Tabs BY ZenonT(60), <1>3, <1>4 DEF Tabs
    <2> QED BY <1>4, <1>5, <2>1
  <1>10. \A t \in Targets : /\ tabs'[t].alloc = tabs[t].alloc /\ tabs'[t].s = tabs[t].s
                            /\ tabs'[t].live => tabs[t].live
    BY <1>4, <1>5 DEF Tabs
  <1>11. pc = "closed" => ~tabs'[cmd.r].live BY <1>3, <1>4, <1>5 DEF Tabs
  <1> HIDE <1>5
  <1>12. Shapes' BY <1>1, <1>4, <1>6, <1>8, <1>9 DEF PagesInv, World, Shapes
  <1>13. Fates'
    <2>1. \A t \in Targets : t # cmd.r => Fate(t)' BY <1>1, <1>8, <1>10 DEF PagesInv, World, Fates, Fate, Fenced
    <2>2. \A t \in Targets : t = cmd.r => Fate(t)'
      BY <1>1, <1>3, <1>8, <1>10 DEF PagesInv, World, Fates, Fate, Fenced
    <2> QED BY <2>1, <2>2 DEF Fates
  <1>14. Journalled'
    <2>1. \A i : Finished(i)' <=> Finished(i) BY <1>1 DEF Finished
    <2>2. \A s : Unresolved(s)' = Unresolved(s) BY <1>1, <2>1 DEF Unresolved
    <2>3. \A t \in Targets : (tabs[t].live => t \in seen.held \/ ~Finished(tabs[t].alloc))'
      BY <1>8, <1>10, <2>1 DEF PagesInv, World, Journalled
    <2>4. \A i \in DOMAIN allocs : allocs[i].t # 0 => tabs'[allocs[i].t].alloc = i
      <3>1. \A i \in DOMAIN allocs : allocs[i].t \in Targets \cup {0} BY EntriesCounted DEF PagesInv, Entries
      <3> QED BY <1>10, <3>1 DEF PagesInv, World, Journalled
    <2> QED BY <1>1, <1>8, <1>10, <2>2, <2>3, <2>4 DEF PagesInv, World, Journalled
  <1>15. SpacesMapped' BY <1>1, <1>6, <1>10 DEF PagesInv, World, SpacesMapped, PoolSpaces, Registered
  <1>16. World' BY <1>12, <1>13, <1>14, <1>15 DEF World
  <1>17. Grown BY <1>1, <1>10, GrownRest
  <1>18. Kinds' /\ Uses' BY <1>2, <1>6, <1>7, <1>16, <1>17, Watches DEF Alike, Closing
  <1>19. Closes' BY <1>1, <1>3, <1>7, <1>10, <1>11 DEF Closes, Closing, Alike
  <1> QED BY <1>7, <1>16, <1>18, <1>19 DEF PagesInv, Holder

\* Once the close was tried, the outcome is recorded, or not.
LEMMA ClosedSafe == ASSUME PagesInv, Closed PROVE PagesInv'
  <1>1. cmd.pc = "closed" /\ UNCHANGED <<tabs, homes, pool, owner, work, allocs, seen>> BY DEF Closed
  <1>2. quota' = quota BY DEF Closed, Steps
  <1>3. cmd.pc \in Closing /\ quota \in Instances BY <1>1 DEF Closing, PagesInv, World, Shapes
  <1>4. /\ cmd \in Commands /\ cmd.r \in Targets /\ tabs[cmd.r].alloc # 0 /\ cmd.closed /\ ~tabs[cmd.r].live
        /\ cmd.purpose = "OWNED_TEMPORARY" => cmd.own /\ cmd.r = cmd.t
        /\ cmd.purpose # "TERMINAL_ALLOCATION" => cmd.cand = Nil
        /\ IF cmd.term THEN /\ releases[cmd.r].phase = "UNKNOWN" /\ ~releases[cmd.r].closed
                            /\ releases[cmd.r].term = "INTENT"
           ELSE releases[cmd.r].phase = "INTENT"
    BY <1>1, <1>3, Known DEF PagesInv, Holder, Closes
  <1>5. CASE Outcome("RELEASED") /\ Steps("released")
    <2>1. World' /\ Grown BY <1>1, <1>2, <1>3, <1>4, <1>5, OutcomeSafe
    <2>2. cmd' \in Commands /\ cmd'.pc = "released" /\ Alike(cmd, cmd') /\ Onward(cmd, cmd')
      BY <1>5, SteppedOn DEF Steps, Steppings, Closing
    <2> HIDE <1>5
    <2>3. Kinds' /\ Uses' BY <1>1, <1>2, <2>1, <2>2, Watches DEF Alike, Closing
    <2>4. Closes' BY <1>1, <1>4, <2>2 DEF Closes, Closing, Alike
    <2> QED BY <2>1, <2>2, <2>3, <2>4 DEF PagesInv, Holder
  <1>6. CASE UNCHANGED releases /\ Steps("refuse")
    <2>1. World' BY <1>1, <1>2, <1>3, <1>6, WorldKept DEF places, PagesInv
    <2>2. Grown BY <1>1, <1>6, GrownRest
    <2>3. cmd' \in Commands /\ cmd'.pc = "refuse" /\ Alike(cmd, cmd') /\ Onward(cmd, cmd')
      BY <1>6, SteppedOn DEF Steps, Steppings, Closing
    <2>4. UNCHANGED releases BY <1>6
    <2> HIDE <1>6
    <2>5. Kinds' /\ Uses' BY <1>1, <1>2, <2>1, <2>2, <2>3, Watches DEF Alike, Closing
    <2>6. Closes' BY <1>1, <1>4, <2>3, <2>4 DEF Closes, Closing, Alike
    <2> QED BY <2>1, <2>3, <2>5, <2>6 DEF PagesInv, Holder
  <1> QED BY <1>5, <1>6 DEF Closed

LEMMA RefuseSafe == ASSUME PagesInv, Refuse PROVE PagesInv'
  <1>1. cmd.pc = "refuse" /\ UNCHANGED <<tabs, homes, pool, owner, work, allocs, seen>> BY DEF Refuse
  <1>2. quota' = quota /\ cmd' = [cmd EXCEPT !.pc = "over"] BY DEF Refuse, Steps
  <1>3. cmd.pc \in Closing /\ quota \in Instances BY <1>1 DEF Closing, PagesInv, World, Shapes
  <1>4. /\ cmd.closed \/ seen.closes[cmd.r] = 0
        /\ IF cmd.term THEN releases[cmd.r].phase = "UNKNOWN" ELSE releases[cmd.r].phase = "INTENT"
    BY <1>1 DEF PagesInv, Holder, Closes
  <1> HIDE <1>2
  <1>5. quota' = quota BY <1>2
  <1>6. CASE UNCHANGED releases
    <2>1. World' BY <1>1, <1>3, <1>5, <1>6, WorldKept DEF places, PagesInv
    <2>2. Grown BY <1>1, <1>6, GrownRest
    <2> QED BY <1>2, <1>3, <2>1, <2>2, ReleaseEnds
  <1>7. CASE Outcome(IF cmd.closed \/ cmd.reloaded THEN "UNKNOWN" ELSE "REFUSED")
    <2>1. PICK phase \in {"UNKNOWN", "REFUSED"} :
             Outcome(phase) /\ (cmd.closed => phase = "UNKNOWN")
      BY <1>7
    <2>2. seen.closes[cmd.r] = 1 => phase # "REFUSED" /\ (phase = "UNKNOWN" => cmd.closed)
      BY <1>4, <2>1
    <2>3. World' /\ Grown BY <1>1, <1>3, <1>4, <1>5, <2>1, <2>2, OutcomeSafe
    <2> QED BY <1>2, <1>3, <2>3, ReleaseEnds
  <1> QED BY <1>6, <1>7 DEF Refuse

\* A released page is forgotten by the conversation it was taken from, or by its allocation.
LEMMA ReleasedSafe == ASSUME PagesInv, Released PROVE PagesInv'
  <1>1. cmd.pc = "released" /\ UNCHANGED <<tabs, pool, owner, work, releases, seen, quota>> BY DEF Released
  <1>2. cmd.pc \in Closing /\ quota' = quota /\ quota \in Instances BY <1>1 DEF Closing, PagesInv, World, Shapes
  <1>3. /\ cmd \in Commands /\ cmd.r \in Targets /\ ~tabs[cmd.r].live /\ cmd.kind # Nil
        /\ cmd.purpose = "OWNED_TEMPORARY" => cmd.own /\ cmd.r = cmd.t
        /\ cmd.own => cmd.purpose = "OWNED_TEMPORARY"
        /\ cmd.kind = "close" => cmd.purpose = "MANAGEMENT_TERMINATION"
        /\ cmd.over = "last" => quota.max = 2
        /\ cmd.kind \in {"send", "new"} => cmd.chat \in Chats /\ cmd.s \in PoolSpaces
    BY <1>1, <1>2, Known DEF PagesInv, Holder, Closes, Kinds, Uses, Closing
  <1>4. CASE UNCHANGED <<homes, allocs>> /\ cmd' = [cmd EXCEPT !.pc = "over"]
    <2>1. World' BY <1>1, <1>2, <1>4, WorldKept DEF places, PagesInv
    <2>2. Grown BY <1>1, <1>4, GrownRest
    <2> QED BY <1>2, <1>4, <2>1, <2>2, ReleaseEnds
  <1>5. CASE /\ cmd.purpose = "OWNED_TEMPORARY" /\ UNCHANGED homes
             /\ Records("PAGE_RELEASED") /\ cmd' = [cmd EXCEPT !.pc = "over"]
    <2>1. cmd.own /\ cmd.r = cmd.t BY <1>3, <1>5
    <2>2. cmd.a \in DOMAIN allocs /\ cmd.a # 0 /\ tabs[cmd.r].alloc = cmd.a
      BY <1>1, <2>1, EntriesCounted DEF PagesInv, Holder, Uses
    <2>3. Filed(cmd.a) /\ allocs'[cmd.a].phase = "PAGE_RELEASED"
      BY <1>5, <2>2, FiledBy DEF PagesInv, Stages, Records
    <2>4. \A t \in Targets : tabs[t].live => tabs[t].alloc # cmd.a
      BY <1>3, <2>2 DEF PagesInv, World, Journalled
    <2>5. World' /\ Grown
      BY <1>1, <1>2, <1>5, <2>2, <2>3, <2>4, FiledSafe DEF PagesInv, Final
    <2> QED BY <1>2, <1>5, <2>5, ReleaseEnds
  <1>6. CASE /\ cmd.purpose \in {"TERMINAL_ALLOCATION", "ORPHAN_IDLE"} /\ UNCHANGED allocs
             /\ homes' = IF cmd.cand = Nil THEN homes ELSE [homes EXCEPT ![cmd.cand].label = 0, ![cmd.cand].t = 0]
             /\ cmd' = IF cmd.kind = "prune"
                       THEN [cmd EXCEPT !.pc = "reclaim", !.again = (@ \/ cmd.purpose = "ORPHAN_IDLE")]
                       ELSE [cmd EXCEPT !.pc = "intend", !.again = TRUE]
    <2>1. ~cmd.own /\ cmd.kind \in {"send", "new", "prune"} BY <1>3, <1>6 DEF Commands
    <2>2. homes \in [Chats -> Homes] /\ cmd.cand \in Chats \cup {Nil}
      BY <1>3 DEF PagesInv, World, Shapes, Commands
    <2>3. /\ homes' \in [Chats -> Homes]
          /\ \A c \in Chats : homes'[c].s = homes[c].s
      BY <1>6, <2>2 DEF Homes
    <2>4. /\ cmd' \in Commands /\ cmd'.pc = (IF cmd.kind = "prune" THEN "reclaim" ELSE "intend")
          /\ cmd'.own = cmd.own /\ cmd'.kind = cmd.kind /\ cmd'.chat = cmd.chat /\ cmd'.claim = cmd.claim
          /\ cmd'.s = cmd.s /\ cmd'.over = cmd.over
      <3>1. CASE cmd.kind = "prune"
        <4>1. (cmd.again \/ cmd.purpose = "ORPHAN_IDLE") \in BOOLEAN OBVIOUS
        <4>2. PICK again \in BOOLEAN : cmd' = [cmd EXCEPT !.pc = "reclaim", !.again = again]
          BY <1>6, <3>1, <4>1
        <4> HIDE <1>6
        <4> QED BY <1>3, <3>1, <4>2 DEF Commands, Steppings
      <3>2. CASE cmd.kind # "prune" BY ZenonT(60), <1>3, <1>6, <3>2 DEF Commands, Steppings, Allocating
      <3> QED BY <3>1, <3>2
    <2>5. UNCHANGED allocs BY <1>6
    <2> HIDE <1>6
    <2>6. Shapes' BY <1>1, <2>3, <2>5 DEF PagesInv, World, Shapes
    <2>7. SpacesMapped' BY <1>1, <2>3 DEF PagesInv, World, SpacesMapped, PoolSpaces, Registered
    <2>8. World' BY <1>1, <2>5, <2>6, <2>7, FatesKept, JournalKept DEF PagesInv, World
    <2>9. Grown BY <1>1, <2>3, <2>5 DEF Grown, PoolSpaces, Registered
    <2>10. CASE cmd.kind \in {"send", "new"}
      <3>1. cmd'.s \in PoolSpaces' BY <1>3, <2>4, <2>9, <2>10 DEF Grown
      <3>2. cmd'.pc = "intend" BY <2>4, <2>10
      <3> QED BY <1>1, <1>3, <2>1, <2>4, <2>8, <2>9, <2>10, <3>1, <3>2, Without
    <2>11. CASE cmd.kind = "prune"
      <3>1. cmd'.pc = "reclaim" /\ ~cmd'.claim
        BY <2>4, <2>11 DEF PagesInv, Holder, Kinds
      <3>2. Kinds' BY <1>1, <1>3, <2>1, <2>4, <2>11, <3>1, NameAssumption DEF Kinds, Attaching, Allocating
      <3>3. Uses' BY <2>1, <2>4, <3>1 DEF Uses, Closing
      <3>4. Closes' BY <3>1 DEF Closes, Closing
      <3> QED BY <2>4, <2>8, <3>2, <3>3, <3>4 DEF PagesInv, Holder
    <2> QED BY <2>1, <2>10, <2>11
  <1> QED BY <1>4, <1>5, <1>6 DEF Released

-----------------------------------------------------------------------------
(* The invariant. *)

LEMMA PagesStart == ASSUME PagesInit PROVE PagesInv
  <1> DEFINE n == Len(quota.attached)
             m == n + (IF quota.stray THEN 1 ELSE 0)
  <1>1. quota \in PageLoads /\ quota \in Instances BY LoadAssumption DEF PagesInit
  <1>2. /\ quota.attached \in Seq(Chats) /\ n \in Nat /\ DOMAIN quota.attached = 1..n
        /\ \A i \in 1..n : quota.attached[i] \in Chats
        /\ quota.stray \in BOOLEAN /\ quota.work \in [Chats -> WorkStates] /\ quota.max \in {1, 2}
        /\ quota.pool \in {<<>>, <<"over1">>, <<"over2", "over1">>}
    BY <1>1 DEF Instances
  <1>3. m \in Nat /\ m <= MaxTargets /\ n <= m /\ (quota.stray => m = n + 1) /\ (~quota.stray => m = n)
    <2>1. m <= MaxTargets BY <1>1, LoadAssumption DEF n, m
    <2>2. n \in Nat /\ quota.stray \in BOOLEAN BY <1>2
    <2> HIDE DEF n
    <2>3. CASE quota.stray BY <2>1, <2>2, <2>3 DEF m
    <2>4. CASE ~quota.stray BY <2>1, <2>2, <2>4 DEF m
    <2> QED BY <2>2, <2>3, <2>4
  <1>4. Len(quota.pool) <= quota.max BY <1>1, LoadAssumption
  <1>5. pool = quota.pool /\ work = quota.work /\ cmd = Quitted /\ releases = [t \in Targets |-> NoRelease]
    BY DEF PagesInit
  <1>6. pool \in Seq(SpaceNames) /\ PoolSpaces \subseteq SpaceNames /\ "main" \in PoolSpaces
    <2>1. CASE pool = <<>> BY <2>1 DEF PoolSpaces, SpaceNames
    <2>2. CASE pool = <<"over1">>
      <3>1. <<"over1">> \in Seq(SpaceNames) /\ DOMAIN <<"over1">> = {1} BY DEF SpaceNames
      <3> QED BY <2>2, <3>1 DEF PoolSpaces, SpaceNames
    <2>3. CASE pool = <<"over2", "over1">>
      <3>1. <<"over2", "over1">> \in Seq(SpaceNames) /\ DOMAIN <<"over2", "over1">> = {1, 2} BY DEF SpaceNames
      <3> QED BY <2>3, <3>1 DEF PoolSpaces, SpaceNames
    <2> QED BY <1>2, <1>5, <2>1, <2>2, <2>3
  <1>7. \A c \in Chats : Room(c) \in PoolSpaces
    <2>1. \A c \in DOMAIN quota.rooms : quota.rooms[c] \in PoolSpaces
      <3>1. \A c \in DOMAIN quota.rooms :
               quota.rooms[c] \in {"main"} \cup {quota.pool[i] : i \in DOMAIN quota.pool}
        BY <1>1, LoadAssumption, Zenon
      <3> QED BY <1>5, <3>1, Zenon DEF PoolSpaces
    <2> QED BY <1>6, <2>1 DEF Room
  <1>8. "over2" \in PoolSpaces => quota.max = 2
    <2>1. CASE pool = <<>> BY <2>1 DEF PoolSpaces
    <2>2. CASE pool = <<"over1">> BY <2>2 DEF PoolSpaces
    <2>3. CASE pool = <<"over2", "over1">> BY <1>2, <1>4, <1>5, <2>3
    <2> QED BY <1>2, <1>5, <2>1, <2>2, <2>3
  <1>9. \A t \in Targets : t \in Nat /\ t # 0 BY BoundAssumption DEF Targets
  <1>10. \A t \in 1..n : t \in Targets
    <2> HIDE DEF n, m
    <2>1. n <= MaxTargets /\ n \in Nat /\ MaxTargets \in Nat BY <1>2, <1>3, BoundAssumption
    <2> QED BY <2>1 DEF Targets
  <1> HIDE DEF n, m
  <1> DEFINE at(t) == tabs[t]
  <1>11. \A t \in Targets :
           /\ t \in 1..n => tabs[t] = Placed(quota.attached[t], t, quota.work[quota.attached[t]] = "active")
           /\ t \notin 1..n /\ quota.stray /\ t = n + 1 => 
                 tabs[t] = [NoTab EXCEPT !.live = TRUE, !.label = t, !.url = Home, !.alloc = t]
           /\ t \notin 1..n /\ ~(quota.stray /\ t = n + 1) => tabs[t] = NoTab
    BY <1>2 DEF PagesInit, n
  <1>12. DOMAIN tabs = Targets /\ tabs = [t \in Targets |-> tabs[t]] BY DEF PagesInit
  <1>13. \A t \in Targets :
           /\ tabs[t] \in Tabs
           /\ t \in 1..m => tabs[t].live /\ tabs[t].alloc = t
           /\ t \notin 1..m => ~tabs[t].live /\ tabs[t].alloc = 0
           /\ tabs[t].s \in PoolSpaces
    <2> SUFFICES ASSUME NEW t \in Targets
                 PROVE  /\ tabs[t] \in Tabs
                        /\ t \in 1..m => tabs[t].live /\ tabs[t].alloc = t
                        /\ t \notin 1..m => ~tabs[t].live /\ tabs[t].alloc = 0
                        /\ tabs[t].s \in PoolSpaces
      OBVIOUS
    <2>1. CASE t \in 1..n
      <3> DEFINE c == quota.attached[t]
      <3>1. c \in Chats /\ Room(c) \in PoolSpaces /\ Room(c) \in SpaceNames
        BY <1>2, <1>6, <1>7, <2>1
      <3>2. tabs[t] = Placed(c, t, quota.work[c] = "active") BY <1>11, <2>1
      <3>3. t \in 1..m BY <1>2, <1>3, <2>1
      <3> HIDE DEF c
      <3>4. (quota.work[c] = "active") \in BOOLEAN OBVIOUS
      <3>5. PICK busy \in BOOLEAN : tabs[t] = Placed(c, t, busy) BY <3>2, <3>4
      <3> QED BY <1>9, <3>1, <3>3, <3>5 DEF Placed, NoTab, Tabs, Urls
    <2>2. CASE t \notin 1..n /\ quota.stray /\ t = n + 1
      <3>1. tabs[t] = [NoTab EXCEPT !.live = TRUE, !.label = t, !.url = Home, !.alloc = t] BY <1>11, <2>2
      <3>2. t \in 1..m BY <1>2, <1>3, <2>2
      <3> QED BY <1>6, <1>9, <3>1, <3>2 DEF NoTab, Tabs, SpaceNames, Urls
    <2>3. CASE t \notin 1..n /\ ~(quota.stray /\ t = n + 1)
      <3>1. tabs[t] = NoTab BY <1>11, <2>3
      <3>2. t \notin 1..m BY <1>2, <1>3, <1>9, <2>3
      <3> QED BY <1>6, <3>1, <3>2 DEF NoTab, Tabs, SpaceNames, Urls
    <2> QED BY <2>1, <2>2, <2>3
  <1>14. tabs \in [Targets -> Tabs] BY <1>12, <1>13
  <1>15. \A c \in Chats : /\ homes[c] \in Homes
                          /\ Registered(c) => homes[c].s \in PoolSpaces
                          /\ (\E i \in 1..n : quota.attached[i] = c) => Registered(c)
    <2> SUFFICES ASSUME NEW c \in Chats
                 PROVE  /\ homes[c] \in Homes
                        /\ Registered(c) => homes[c].s \in PoolSpaces
                        /\ (\E i \in 1..n : quota.attached[i] = c) => Registered(c)
      OBVIOUS
    <2> DEFINE is == {i \in DOMAIN quota.attached : quota.attached[i] = c}
               i0 == CHOOSE i \in is : TRUE
    <2>1. homes[c] = IF is = {} THEN Nowhere ELSE [s |-> Room(c), label |-> i0, t |-> i0] BY DEF PagesInit
    <2>2. Nowhere \in Homes /\ Nowhere.s = Nil BY DEF Nowhere, Homes
    <2>3. is # {} => i0 \in 1..n BY <1>2
    <2>4. is # {} => i0 \in Targets /\ i0 \in Nat BY <1>9, <1>10, <2>3
    <2>5. Room(c) \in PoolSpaces /\ Room(c) \in SpaceNames /\ Room(c) # Nil BY <1>6, <1>7, NameAssumption
    <2>6. (\E i \in 1..n : quota.attached[i] = c) => is # {} BY <1>2
    <2> HIDE DEF is, i0
    <2>7. CASE is = {} BY <2>1, <2>2, <2>6, <2>7 DEF Registered
    <2>8. CASE is # {} BY <2>1, <2>4, <2>5, <2>8 DEF Registered, Homes
    <2> QED BY <2>7, <2>8
  <1>16. homes \in [Chats -> Homes]
    <2>1. homes = [c \in Chats |-> homes[c]] BY DEF PagesInit
    <2> QED BY <1>15, <2>1
  <1>17. /\ allocs \in Seq(Entries) /\ DOMAIN allocs = 1..m
         /\ \A i \in 1..m : allocs[i].t = i /\ allocs[i].phase = "PAGE_HANDED_OFF"
    <2>1. allocs = [i \in 1..m |-> [claim |-> FALSE, s |-> tabs[i].s, phase |-> "PAGE_HANDED_OFF", t |-> i]]
      BY DEF PagesInit, n, m
    <2>2. \A i \in 1..m : i \in Targets BY <1>3, BoundAssumption DEF Targets
    <2>3. \A i \in 1..m : [claim |-> FALSE, s |-> tabs[i].s, phase |-> "PAGE_HANDED_OFF", t |-> i] \in Entries
      BY <1>6, <1>13, <2>2 DEF Entries, Stages
    <2>4. allocs \in [1..m -> Entries] BY <2>1, <2>3
    <2>5. allocs \in Seq(Entries) BY <1>3, <2>4
    <2> QED BY <2>1, <2>5
  <1>18. /\ seen.closes = [t \in Targets |-> 0] /\ seen.held = {t \in Targets : tabs[t].live}
         /\ seen \in [closes : [Targets -> Nat], held : SUBSET Targets]
    BY DEF PagesInit
  <1>19. owner = [s \in SpaceNames |-> IF s \in PoolSpaces THEN "agent" ELSE "none"] BY DEF PagesInit
  <1>20. Shapes
    <2>1. releases \in [Targets -> [phase : Outcomes, reload : BOOLEAN, closed : BOOLEAN, term : Outcomes]]
      BY <1>5 DEF NoRelease, Outcomes
    <2>2. owner \in [SpaceNames -> {"agent", "user", "none"}] BY <1>19
    <2> QED BY <1>1, <1>2, <1>5, <1>6, <1>14, <1>16, <1>17, <1>18, <2>1, <2>2 DEF Shapes
  <1>21. Fates
    <2>1. \A t \in Targets : releases[t] = NoRelease /\ releases[t].phase = "none" /\ seen.closes[t] = 0
      BY <1>5, <1>18 DEF NoRelease
    <2>2. \A t \in Targets : tabs[t].alloc = 0 => ~tabs[t].live BY <1>9, <1>13
    <2> QED BY <1>13, <2>1, <2>2 DEF Fates, Fate
  <1>22. Journalled
    <2>1. \A i \in 1..m : i \in Targets /\ i # 0 BY <1>3, BoundAssumption DEF Targets
    <2>2. \A i \in DOMAIN allocs : Finished(i) BY <1>17 DEF Finished
    <2>3. \A s : Unresolved(s) = {} BY <2>2 DEF Unresolved
    <2>4. \A t \in Targets : tabs[t].alloc # 0 => t \in 1..m /\ tabs[t].alloc = t BY <1>13
    <2> QED BY <1>13, <1>17, <1>18, <2>1, <2>3, <2>4 DEF Journalled
  <1>23. SpacesMapped
    <2>1. \A s \in PoolSpaces : owner[s] # "none" BY <1>6, <1>19
    <2>2. owner["over2"] # "none" => quota.max = 2 BY <1>8, <1>19 DEF SpaceNames
    <2>3. \A c \in Chats : work[c] \in {"active", "BLOCKED"} => \E i \in 1..n : quota.attached[i] = c
      BY ZenonT(60), <1>1, <1>2, <1>5, LoadAssumption
    <2> QED BY <1>13, <1>15, <2>1, <2>2, <2>3 DEF SpacesMapped
  <1>24. Holder
    <2>1. cmd \in Commands BY <1>5 DEF Commands, Quitted, Urls, Steppings, SpaceNames
    <2>2. cmd.pc = "free" /\ cmd.kind = Nil /\ ~cmd.own /\ ~cmd.claim /\ cmd.over = "no" BY <1>5 DEF Quitted
    <2>3. Nil \notin {"send", "new", "close"} BY NameAssumption
    <2>4. Kinds BY <2>2, <2>3 DEF Kinds, Attaching, Allocating
    <2>5. Uses BY <2>2 DEF Uses, Closing
    <2>6. Closes BY <2>2 DEF Closes, Closing
    <2> QED BY <2>1, <2>4, <2>5, <2>6 DEF Holder
  <1> QED BY <1>20, <1>21, <1>22, <1>23, <1>24 DEF PagesInv, World

LEMMA PagesStep == ASSUME PagesInv, [PagesNext]_pageVars PROVE PagesInv'
  <1>1. CASE UNCHANGED pageVars
    <2>1. UNCHANGED places /\ quota' = quota /\ cmd' = cmd BY <1>1 DEF pageVars, places
    <2>2. quota' \in Instances BY <2>1 DEF PagesInv, World, Shapes
    <2> QED BY <2>1, <2>2, WorldKept, HolderKept DEF PagesInv
  <1>2. CASE Command
    BY <1>2, SendSafe, NewSafe, PruneSafe, CloseSafe, LocateSafe, VisitsSafe, AttachSafe, HandOffSafe, PrepareSafe,
       ClicksSafe, IntendSafe, OpensSafe, RecordPageSafe, SettleSafe, NoPageSafe, NoRoomSafe, OverflowSafe, MapSpaceSafe,
       ReclaimSafe, GuardSafe, GiveBackSafe, ReleaseSafe, ReloadSafe, CheckSafe, VerifySafe, CloseTargetSafe, ClosedSafe,
       RefuseSafe, ReleasedSafe, OverSafe DEF Command
  <1>3. CASE ~Command /\ PagesNext
    BY <1>3, StopsSafe, ClaimsSafe, SetsSafe, TurnsSafe, SendsSafe, TakesSafe DEF PagesNext
  <1> QED BY <1>1, <1>2, <1>3

\* The journals, the pages and the command that drives them agree in every reachable state.
THEOREM PagesAgree == PagesSpec => []PagesInv
  <1>1. PagesInit => PagesInv BY PagesStart
  <1>2. PagesInv /\ [PagesNext]_pageVars => PagesInv' BY PagesStep
  <1> QED BY <1>1, <1>2, PTL DEF PagesSpec

-----------------------------------------------------------------------------
(* What follows from it. *)

\* A page is closed at most once, whatever is seen or recorded of the close, and no message
\* goes into a page of which a release may still take effect (ReleaseOnce).
THEOREM PageReleasedOnce == PagesSpec => []ReleaseOnce
  <1>1. PagesInv => ReleaseOnce
    <2>1. SUFFICES ASSUME PagesInv PROVE ReleaseOnce OBVIOUS
    <2>2. \A t \in Targets : seen.closes[t] <= 1 BY <2>1 DEF PagesInv, World, Fates, Fate
    <2>3. cmd.pc \in {"attach", "prepare", "click"} => ~Fenced(cmd.t) BY <2>1 DEF PagesInv, Holder, Uses
    <2> QED BY <2>2, <2>3 DEF ReleaseOnce
  <1> QED BY <1>1, PagesAgree, PTL

\* A page that the registry has never named keeps an open record in the journal of its
\* allocation, and each Space has at most one unsettled direct allocation (NoLostPage).
THEOREM PageNeverLost == PagesSpec => []NoLostPage
  <1>1. PagesInv => NoLostPage
    <2>1. SUFFICES ASSUME PagesInv PROVE NoLostPage OBVIOUS
    <2>2. \A s \in SpaceNames : Cardinality(Unresolved(s)) <= 1
      <3>1. SUFFICES ASSUME NEW s \in SpaceNames PROVE Cardinality(Unresolved(s)) <= 1 OBVIOUS
      <3>2. \A i, j \in Unresolved(s) : i = j BY <2>1 DEF PagesInv, World, Journalled
      <3>3. CASE Unresolved(s) = {} BY <3>3, FS_EmptySet
      <3>4. CASE Unresolved(s) # {}
        <4>1. PICK i : Unresolved(s) = {i} BY <3>2, <3>4
        <4>2. Cardinality(Unresolved(s)) = 1 BY <4>1, FS_Singleton
        <4> QED BY <4>2
      <3> QED BY <3>3, <3>4
    <2> QED BY <2>1, <2>2 DEF PagesInv, World, Journalled, NoLostPage
  <1> QED BY <1>1, PagesAgree, PTL

LEMMA SpacesCounted ==
  ASSUME NEW S \in SUBSET SpaceNames
  PROVE  Cardinality(S) <= 3 /\ ("over2" \notin S => Cardinality(S) <= 2)
  <1>1. IsFiniteSet({"main"}) /\ Cardinality({"main"}) = 1 BY FS_Singleton
  <1> DEFINE two == {"main"} \cup {"over1"}
  <1>2. IsFiniteSet(two) /\ Cardinality(two) = 2 BY <1>1, FS_AddElement
  <1> HIDE DEF two
  <1>3. "over2" \notin two BY DEF two
  <1>4. IsFiniteSet(two \cup {"over2"}) /\ Cardinality(two \cup {"over2"}) = 3 BY <1>2, <1>3, FS_AddElement
  <1>5. S \subseteq two \cup {"over2"} BY DEF SpaceNames, two
  <1>6. Cardinality(S) <= 3
    <2>1. Cardinality(S) <= Cardinality(two \cup {"over2"}) BY <1>4, <1>5, FS_Subset
    <2> QED BY <1>4, <2>1
  <1>7. ASSUME "over2" \notin S PROVE Cardinality(S) <= 2
    <2>1. S \subseteq two BY <1>5, <1>7
    <2>2. Cardinality(S) <= Cardinality(two) BY <1>2, <2>1, FS_Subset
    <2> QED BY <1>2, <2>2
  <1> QED BY <1>6, <1>7

\* Every page is in the main Space or in an overflow Space that the registry maps, and there
\* are as many overflow Spaces as the policy allows (OverflowMapped).
THEOREM PagesMapped == PagesSpec => []OverflowMapped
  <1>1. PagesInv => OverflowMapped
    <2>1. SUFFICES ASSUME PagesInv PROVE OverflowMapped OBVIOUS
    <2>2. \A t \in Targets : tabs[t].live => tabs[t].s \in PoolSpaces
      BY <2>1 DEF PagesInv, World, SpacesMapped
    <2> DEFINE S == {s \in SpaceNames : owner[s] # "none"}
    <2>3. quota.max \in {1, 2} BY <2>1 DEF PagesInv, World, Shapes, Instances
    <2>4. "over2" \in S => quota.max = 2 BY <2>1 DEF PagesInv, World, SpacesMapped
    <2>5. Cardinality(S) <= 3 /\ ("over2" \notin S => Cardinality(S) <= 2) BY SpacesCounted
    <2> HIDE DEF S
    <2>6. Cardinality(S) \in Nat
      <3>1. S \subseteq SpaceNames BY DEF S
      <3>2. IsFiniteSet(SpaceNames)
        <4>1. IsFiniteSet({"main"}) BY FS_Singleton
        <4>2. IsFiniteSet({"main"} \cup {"over1"}) BY <4>1, FS_AddElement
        <4>3. IsFiniteSet(({"main"} \cup {"over1"}) \cup {"over2"}) BY <4>2, FS_AddElement
        <4>4. SpaceNames = ({"main"} \cup {"over1"}) \cup {"over2"} BY DEF SpaceNames
        <4> QED BY <4>3, <4>4
      <3> QED BY <3>1, <3>2, FS_Subset, FS_CardinalityType
    <2>7. Cardinality(S) <= 1 + quota.max BY <2>3, <2>4, <2>5, <2>6
    <2> QED BY <2>2, <2>7 DEF OverflowMapped, S
  <1> QED BY <1>1, PagesAgree, PTL

\* Only one step closes pages.
LEMMA OnlyCloseTarget ==
  ASSUME PagesNext, seen \in [closes : [Targets -> Nat], held : SUBSET Targets]
  PROVE  CloseTarget \/ seen'.closes = seen.closes
  <1>1. CASE Attach
    <2>1. seen' = seen \/ seen' = [seen EXCEPT !.held = @ \cup {cmd.t}] BY <1>1 DEF Attach
    <2> QED BY <2>1
  <1>2. CASE Command /\ ~Attach
    BY <1>2 DEF Command, Send, New, Prune, Close, Begins, Rest, Locate, Visits, HandOff, Prepare, Clicks, Intend, Opens,
       RecordPage, Settle, NoPage, NoRoom, Overflow, MapSpace, Reclaim, Guard, GiveBack, Release, Reload, Check, Verify,
       Closed, Refuse, Released, Over
  <1>3. CASE ~Command
    BY <1>3 DEF PagesNext, Stops, Rest, Queue, Claims, Recovers, Results, Sets, Turns, Sends, Takes
  <1> QED BY <1>1, <1>2, <1>3

\* Whatever people and tasks do between the last look and the close: a turn that a close meets
\* began after the last sample of the page, or the close is a termination, which takes none; a
\* task that it meets was set after the last permission (IdleClose).
THEOREM PagesClosedIdle == PagesSpec => IdleClose
  <1> DEFINE Idle == \A t \in Targets : tabs[t].live /\ seen'.closes[t] # seen.closes[t] =>
                        /\ tabs[t].busy => "turn" \in cmd.late \/ cmd.term
                        /\ \A c \in Chats : tabs[t].url = c /\ work[c] \in {"active", "BLOCKED"} => "task" \in cmd.late
  <1>1. PagesInv /\ [PagesNext]_pageVars => [Idle]_pageVars
    <2>1. SUFFICES ASSUME PagesInv, PagesNext, NEW t \in Targets, seen'.closes[t] # seen.closes[t]
                   PROVE  /\ tabs[t].busy => "turn" \in cmd.late \/ cmd.term
                          /\ \A c \in Chats : tabs[t].url = c /\ work[c] \in {"active", "BLOCKED"} => "task" \in cmd.late
      OBVIOUS
    <2>2. seen \in [closes : [Targets -> Nat], held : SUBSET Targets] BY <2>1 DEF PagesInv, World, Shapes
    <2>3. CloseTarget BY <2>1, <2>2, OnlyCloseTarget
    <2>4. t = cmd.r
      <3>1. seen'.closes = [seen.closes EXCEPT ![cmd.r] = @ + 1] BY <2>2, <2>3 DEF CloseTarget
      <3> QED BY <2>1, <2>2, <3>1
    <2>5. cmd.pc = "close" BY <2>3 DEF CloseTarget
    <2> QED BY <2>1, <2>4, <2>5 DEF PagesInv, Holder, Closes, Idles, Unworked
  <1> QED BY <1>1, PagesAgree, PTL DEF PagesSpec, IdleClose
=============================================================================
