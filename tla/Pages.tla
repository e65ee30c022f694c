------------------------------- MODULE Pages -------------------------------
(***************************************************************************)
(* Pages of the browser Spaces of one account and one project, main.js:    *)
(* a command attaches a conversation to a page (ensurePage) or opens a new *)
(* one (new), allocates a page under the page budget of a Space, makes     *)
(* room by releasing a page that nothing uses, goes over to overflow       *)
(* Spaces, sends, prunes the Spaces, or releases one page for a manager.   *)
(* Commands hold the pacing lane of their account (PacingLock): one runs   *)
(* at a time, and it may stop between any two steps.  Meanwhile the        *)
(* coordinator queues, claims and settles operations, results come in,     *)
(* tasks are set, turns begin and end, and a person closes tabs, types, or *)
(* takes a Space over.                                                     *)
(*                                                                         *)
(* A page has a target, never used twice, and a label of its Space, which  *)
(* is.  What a page shows is a conversation, the project's home, or blank; *)
(* a conversation that a person has begun is foreign to the registry.      *)
(***************************************************************************)
EXTENDS Integers, FiniteSets, Sequences

CONSTANTS
    Chats,          \* conversations
    Nil,            \* nothing
    PageLoads,      \* instances: what is there first, which commands and events happen
    MaxTargets,     \* bound: pages opened
    Budget          \* pages that a Space may hold

VARIABLES
    tabs,           \* the pages that were opened
    homes,          \* registry.chats: where each conversation is attached
    pool,           \* registry.capacityOverflow: the overflow Spaces, the head first
    owner,          \* who controls each Space; "none" when it does not exist
    work,           \* the task linked to each conversation
    ops,            \* the delivery operation of each conversation
    releases,       \* page-releases/<target>: the latest release and the termination
    allocs,         \* the allocation journals, one entry per intent
    waiting,        \* runtime.capacity has a record
    cmd,            \* the command that holds the lane; late is history: what has begun in the
                    \* page to be closed after the last look at it
    seen,           \* history: closes per target, targets that the registry has held
    quota           \* bounds, and the instance

pageVars == <<tabs, homes, pool, owner, work, ops, releases, allocs, waiting, cmd, seen, quota>>

SpaceNames == {"main", "over1", "over2"}
Targets == 1..MaxTargets
Home == "home"
Blank == "blank"
Foreign == "foreign"
Urls == Chats \cup {Home, Blank, Foreign}

EndedWork == {"COMPLETE", "CANCELLED", "RECORDED"}
WorkStates == EndedWork \cup {"none", "active", "BLOCKED"}

ASSUME NameAssumption == /\ Chats \cap {Nil, Home, Blank, Foreign} = {}
                         /\ Nil \notin SpaceNames \cup {"send", "new", "prune", "close"}
ASSUME BoundAssumption == MaxTargets \in Nat

Instances == [attached : Seq(Chats), rooms : UNION {[S -> SpaceNames] : S \in SUBSET Chats},
              pool : {<<>>, <<"over1">>, <<"over2", "over1">>}, stray : BOOLEAN,
              work : [Chats -> WorkStates], cmds : Nat, events : Nat, max : {1, 2},
              allowed : SUBSET {"send", "new", "prune", "close"},
              kinds : SUBSET {"crash", "result", "task", "queue", "draft", "turn", "tab", "hold"}]

\* Conversations are attached to pages whose Spaces are mapped, the newest overflow Space
\* first; a task that is not over has a page.
ASSUME LoadAssumption ==
    /\ PageLoads \subseteq Instances
    /\ \A l \in PageLoads :
          /\ Len(l.attached) + (IF l.stray THEN 1 ELSE 0) <= MaxTargets
          /\ Len(l.pool) <= l.max
          /\ \A c \in DOMAIN l.rooms : l.rooms[c] \in {"main"} \cup {l.pool[i] : i \in DOMAIN l.pool}
          /\ \A c \in Chats : l.work[c] \in {"active", "BLOCKED"} =>
                \E i \in DOMAIN l.attached : l.attached[i] = c

NoTab == [live |-> FALSE, s |-> "main", label |-> 0, url |-> Blank, busy |-> FALSE, draft |-> FALSE, alloc |-> 0]
Nowhere == [s |-> Nil, label |-> 0, t |-> 0]
NoRelease == [phase |-> "none", reload |-> FALSE, closed |-> FALSE, term |-> "none"]
Quitted == [pc |-> "free", kind |-> Nil, chat |-> Nil, claim |-> FALSE, s |-> "main", t |-> 0, a |-> 0,
            own |-> FALSE, sent |-> FALSE, again |-> FALSE, over |-> "no", made |-> FALSE, long |-> FALSE, todo |-> {},
            r |-> 0, url |-> Blank, purpose |-> Nil, cand |-> Nil, reload |-> FALSE, term |-> FALSE,
            closed |-> FALSE, reloaded |-> FALSE, late |-> {}]

PoolSpaces == {"main"} \cup {pool[i] : i \in DOMAIN pool}

\* Conversation c is attached to page t, whose turn has ended or not.
Room(c) == IF c \in DOMAIN quota.rooms THEN quota.rooms[c] ELSE "main"
Placed(c, t, busy) == [NoTab EXCEPT !.live = TRUE, !.s = Room(c), !.label = t, !.url = c, !.busy = busy, !.alloc = t]

PagesInit ==
    /\ \E l \in PageLoads : quota = l
    /\ tabs = [t \in Targets |->
                 IF t \in DOMAIN quota.attached THEN Placed(quota.attached[t], t, quota.work[quota.attached[t]] = "active")
                 ELSE IF t = Len(quota.attached) + 1 /\ quota.stray
                      THEN [NoTab EXCEPT !.live = TRUE, !.label = t, !.url = Home, !.alloc = t]
                      ELSE NoTab]
    /\ homes = [c \in Chats |->
                  LET is == {i \in DOMAIN quota.attached : quota.attached[i] = c}
                  IN  IF is = {} THEN Nowhere ELSE [s |-> Room(c), label |-> CHOOSE i \in is : TRUE, t |-> CHOOSE i \in is : TRUE]]
    /\ pool = quota.pool
    /\ owner = [s \in SpaceNames |-> IF s \in PoolSpaces THEN "agent" ELSE "none"]
    /\ work = quota.work
    /\ ops = [c \in Chats |-> IF work[c] = "active" THEN "SENT" ELSE "none"]
    /\ releases = [t \in Targets |-> NoRelease]
    /\ allocs = [i \in 1..(Len(quota.attached) + IF quota.stray THEN 1 ELSE 0) |->
                    [claim |-> FALSE, s |-> tabs[i].s, phase |-> "PAGE_HANDED_OFF", t |-> i]]
    /\ waiting = (pool # <<>>)
    /\ cmd = Quitted
    /\ seen = [closes |-> [t \in Targets |-> 0], held |-> {t \in Targets : tabs[t].live}]

\* Bound: so many events of these kinds happen around the commands of an instance.
Occurs(kind) ==
    /\ quota.events > 0 /\ kind \in quota.kinds
    /\ quota' = [quota EXCEPT !.events = @ - 1]

Live(s) == {t \in Targets : tabs[t].live /\ tabs[t].s = s}
Opened == {t \in Targets : tabs[t].alloc # 0}
Registered(c) == homes[c].s # Nil
At(s, label) == {t \in Live(s) : tabs[t].label = label}

Rest == UNCHANGED <<tabs, homes, pool, owner, work, ops, releases, allocs, waiting, seen>>
Steps(pc) == cmd' = [cmd EXCEPT !.pc = pc] /\ UNCHANGED quota

\* The command fails here: it ends, or first gives back the page it has allocated.
Breaks == cmd' = [cmd EXCEPT !.pc = IF cmd.own /\ ~cmd.sent THEN "give back" ELSE "over"] /\ UNCHANGED quota
Mishap == Breaks /\ cmd.pc # "free"

-----------------------------------------------------------------------------
(* Who uses a page. *)

Current(c) == cmd.claim /\ cmd.chat = c
Writers == {c \in Chats : ops[c] \in {"DISPATCHING", "SENDING"} /\ ~Current(c)}
Uncertain == Writers \cup {c \in Chats : ops[c] = "DELIVERY_UNKNOWN" /\ ~Current(c)}

\* A conversation whose task or operation may still have something to do there; a message
\* that was sent occupies it until its result is recorded or its task is cancelled.
InUse(c) ==
    \/ work[c] \notin EndedWork
    \/ ops[c] \in {"QUEUED", "DISPATCHING", "SENDING", "DELIVERY_UNKNOWN"}
    \/ ops[c] = "SENT" /\ work[c] = "COMPLETE"

\* An active task without a page of its own: any page could become its page.
Unplaced(s) == \E c \in Chats : work[c] = "active" /\
    \/ homes[c].label = 0
    \/ homes[c].s = s /\ ~\E t \in At(s, homes[c].label) : tabs[t].url = c

\* A settled delivery of the conversation's task opened this page itself.
OwnedBefore(c, t) == ops[c] = "SENT" /\
    \E i \in DOMAIN allocs : allocs[i].claim /\ allocs[i].t = t /\ allocs[i].phase = "PAGE_HANDED_OFF"

Referenced(t, except) == \E c \in Chats : Registered(c) /\ c # except /\
    (tabs[t].url = c \/ (homes[c].s = tabs[t].s /\ homes[c].label = tabs[t].label))

\* Mutant: an uncertain release may be tried again.
FencedReleased(t) == releases[t].phase = "RELEASED"

\* A release of this target has begun, and is not known to have left it alone.
Fenced(t) == releases[t].phase \notin {"none", "REFUSED"}

Terminable(t) == releases[t].phase = "UNKNOWN" /\ releases[t].reload /\ ~releases[t].closed /\ releases[t].term \in {"none", "INTENT"}

\* page_resource_decision: the coordinator's permission to release the page.
Allowed ==
    LET t == cmd.r  c == cmd.cand IN
    /\ Writers = {} /\ ~Referenced(t, c)
    /\ cmd.purpose = "TERMINAL_ALLOCATION" =>
          /\ homes[c] = [s |-> tabs[t].s, label |-> tabs[t].label, t |-> t]
          /\ ~InUse(c) /\ (Uncertain = {} \/ OwnedBefore(c, t))
    /\ cmd.purpose = "OWNED_TEMPORARY" => allocs[cmd.a].t = t
    /\ cmd.purpose = "ORPHAN_IDLE" => Uncertain = {}
    /\ cmd.reload \/ cmd.term => tabs[t].url = Home /\ ~\E d \in Chats : homes[d].t = t

\* The tab, what it shows, and its Space are those the release began with.
Intact == tabs[cmd.r].live /\ tabs[cmd.r].url = cmd.url /\ owner[tabs[cmd.r].s] = "agent"
Still(t) == ~tabs[t].busy /\ ~tabs[t].draft

-----------------------------------------------------------------------------
(* Commands begin. *)

Begins(c) ==
    /\ cmd.pc = "free" /\ quota.cmds > 0
    /\ quota' = [quota EXCEPT !.cmds = @ - 1]
    /\ cmd' = c /\ Rest

\* send, by a claimed operation or directly; the conversation must be registered.
Send(c) == \E claim \in BOOLEAN :
    /\ "send" \in quota.allowed /\ Registered(c)
    /\ claim => ops[c] = "DISPATCHING"
    /\ Begins([Quitted EXCEPT !.pc = "locate", !.kind = "send", !.chat = c, !.claim = claim])

New(c) == \E claim \in BOOLEAN :
    /\ "new" \in quota.allowed /\ ~Registered(c) /\ ~\E t \in Targets : tabs[t].url = c
    /\ claim => ops[c] = "DISPATCHING"
    /\ owner["main"] = "agent"
    /\ Begins([Quitted EXCEPT !.pc = "intend", !.kind = "new", !.chat = c, !.claim = claim])

Prune ==
    /\ "prune" \in quota.allowed /\ owner["main"] = "agent"
    /\ Begins([Quitted EXCEPT !.pc = "reclaim", !.kind = "prune",
                              !.todo = {s \in SpaceNames \ {"main"} : owner[s] = "agent"}])

\* close-page of a manager: the exact target, with or without a reload of the project's home
\* first; a release that stopped after its reload may be ended by a termination.
Close(t) == \E reload, term \in BOOLEAN :
    /\ "close" \in quota.allowed /\ ~(reload /\ term)
    /\ tabs[t].live /\ owner[tabs[t].s] = "agent"
    /\ Begins([Quitted EXCEPT !.pc = "release", !.kind = "close", !.r = t, !.url = tabs[t].url,
                              !.purpose = "MANAGEMENT_TERMINATION", !.reload = reload, !.term = term])

-----------------------------------------------------------------------------
(* ensurePage. *)

Showing(s, c) == {t \in Live(s) : tabs[t].url = c}

\* The page that the record names is being released, or may have been.
HomeFenced(c) == \E t \in Targets : homes[c].t = t /\ releases[t].phase \notin {"none", "REFUSED", "RELEASED"}

\* A person holds the Space, or it is gone: the command ends without touching it.  The queue
\* and the watchdog send in the background (pauseOnUserControl); a foreground command, which
\* would go on in another Space of the account, is not among the commands here.
userControlled(s) == owner[s] = "user"
Bindable(s) == owner[s] # "none" /\ ~userControlled(s)

Locate ==
    /\ cmd.pc = "locate" /\ Rest
    /\ LET c == cmd.chat  home == homes[c]  here == Showing(home.s, c)
           saved == {t \in here : tabs[t].label = home.label}
           near == IF saved # {} THEN saved ELSE here
           far == UNION {Showing(s, c) : s \in PoolSpaces}
           found == IF near # {} \/ pool = <<>> THEN near ELSE far
       IN  \/ (HomeFenced(c) \/ ~Bindable(home.s)) /\ Breaks
           \/ /\ ~HomeFenced(c) /\ Bindable(home.s)
              /\ \/ found = {} /\ cmd' = [cmd EXCEPT !.pc = "intend", !.s = home.s] /\ UNCHANGED quota
                 \/ /\ near = {} /\ Breaks
                    /\ Cardinality(found) > 1 \/ (\E t \in found : owner[tabs[t].s] # "agent")
                 \/ \E t \in found :
                       /\ near # {} \/ (found = {t} /\ owner[tabs[t].s] = "agent")
                       /\ IF Fenced(t) THEN Breaks
                          ELSE /\ cmd' = [cmd EXCEPT !.pc = "attach", !.t = t, !.s = tabs[t].s]
                               /\ UNCHANGED quota

\* A page that does not show the conversation is not attached: the record loses its page.
Detaches == homes' = [homes EXCEPT ![cmd.chat].s = cmd.s, ![cmd.chat].label = 0]

\* The new page shows the conversation, or the attachment fails and is forgotten; a new
\* conversation begins at the project's home.
Visits ==
    /\ cmd.pc = "visit" /\ UNCHANGED <<pool, owner, work, ops, releases, allocs, waiting, seen>>
    /\ \/ /\ tabs[cmd.t].live /\ UNCHANGED homes
          /\ tabs' = [tabs EXCEPT ![cmd.t].url = IF cmd.kind = "new" THEN Home ELSE cmd.chat]
          /\ Steps(IF cmd.kind = "new" THEN "prepare" ELSE "attach")
       \/ UNCHANGED <<tabs, homes>> /\ Mishap
       \/ cmd.kind = "send" /\ UNCHANGED tabs /\ Detaches /\ Mishap

Attach ==
    /\ cmd.pc = "attach" /\ UNCHANGED <<tabs, pool, owner, work, ops, releases, allocs, waiting>>
    /\ \/ /\ homes' = [homes EXCEPT ![cmd.chat] = [s |-> cmd.s, label |-> tabs[cmd.t].label, t |-> cmd.t]]
          /\ seen' = [seen EXCEPT !.held = @ \cup {cmd.t}]
          /\ Steps(IF cmd.own THEN "hand off" ELSE "prepare")
       \/ UNCHANGED <<homes, seen>> /\ Mishap      \* the page is not ready, the registry has changed
       \/ cmd.kind = "send" /\ ~cmd.own /\ UNCHANGED seen /\ Detaches /\ Mishap

\* The registry names the page: the allocation is over.
HandOff ==
    /\ cmd.pc = "hand off" /\ UNCHANGED <<tabs, homes, pool, owner, work, ops, releases, waiting, seen>>
    /\ \/ /\ allocs' = [allocs EXCEPT ![cmd.a].phase = "PAGE_HANDED_OFF"] /\ UNCHANGED quota
          /\ cmd' = [cmd EXCEPT !.own = FALSE, !.pc = IF cmd.kind = "new" THEN "over" ELSE "prepare"]
       \/ UNCHANGED allocs /\ Mishap

\* Where the message must go.
inputTarget == IF cmd.kind = "new" THEN Home ELSE cmd.chat
Expected == tabs[cmd.t].live /\ tabs[cmd.t].url = inputTarget

\* The task is recorded, then the intent, then the click.
Prepare ==
    /\ cmd.pc = "prepare" /\ UNCHANGED <<tabs, homes, pool, owner, releases, allocs, waiting, seen>>
    /\ \/ /\ Expected /\ Still(cmd.t) /\ owner[cmd.s] = "agent" /\ UNCHANGED quota
          /\ cmd' = [cmd EXCEPT !.pc = "click", !.sent = TRUE]
          /\ work' = IF cmd.kind = "send" THEN [work EXCEPT ![cmd.chat] = "active"] ELSE work
          /\ ops' = IF cmd.claim THEN [ops EXCEPT ![cmd.chat] = "SENDING"] ELSE ops
       \/ UNCHANGED <<work, ops>> /\ Mishap

Clicks ==
    /\ cmd.pc = "click" /\ UNCHANGED <<homes, pool, owner, work, ops, releases, allocs, waiting, seen>>
    /\ \/ /\ Expected /\ tabs' = [tabs EXCEPT ![cmd.t].busy = TRUE, ![cmd.t].url = cmd.chat]
          /\ Steps(IF cmd.kind = "new" THEN "attach" ELSE "over")
       \/ UNCHANGED tabs /\ Mishap

-----------------------------------------------------------------------------
(* allocateManagedPage and newManagedPage. *)

\* A direct allocation is settled by one of these records, or by the release of its page.
Finished(i) ==
    \/ allocs[i].phase \in {"ALLOCATION_REFUSED", "PAGE_RELEASED", "PAGE_HANDED_OFF"}
    \/ allocs[i].t # 0 /\ releases[allocs[i].t].phase = "RELEASED"

Unresolved(s) == {i \in DOMAIN allocs : ~allocs[i].claim /\ allocs[i].s = s /\ ~Finished(i)}

Intend ==
    /\ cmd.pc = "intend" /\ UNCHANGED <<tabs, homes, pool, owner, work, ops, releases, waiting, seen>>
    /\ \/ /\ cmd.claim \/ Unresolved(cmd.s) = {}
          /\ allocs' = Append(allocs, [claim |-> cmd.claim, s |-> cmd.s, phase |-> "ALLOCATION_INTENT", t |-> 0])
          /\ cmd' = [cmd EXCEPT !.pc = "open", !.a = Len(allocs) + 1] /\ UNCHANGED quota
       \/ UNCHANGED allocs /\ Mishap

Full(s) == Cardinality(Live(s)) >= Budget
Fresh == CHOOSE t \in Targets : t \notin Opened
FreeLabel(s) == CHOOSE l \in Targets : At(s, l) = {} /\ \A k \in 1..(l - 1) : At(s, k) # {}
Appears == tabs' = [tabs EXCEPT ![Fresh] =
    [NoTab EXCEPT !.live = TRUE, !.s = cmd.s, !.label = FreeLabel(cmd.s), !.alloc = cmd.a]]
Records(phase) == allocs' = [allocs EXCEPT ![cmd.a].phase = phase]

\* Mutant: every failure of newPage is recorded as a refusal.
OpensRefused ==
    /\ cmd.pc = "open" /\ UNCHANGED <<homes, pool, owner, work, ops, releases, waiting, seen>>
    /\ \/ Full(cmd.s) /\ Records("ALLOCATION_REFUSED") /\ Steps("full") /\ UNCHANGED tabs
       \/ /\ ~Full(cmd.s) /\ Opened # Targets /\ Appears /\ UNCHANGED <<allocs, quota>>
          /\ cmd' = [cmd EXCEPT !.pc = "opened", !.own = TRUE, !.t = Fresh]
       \/ Records("ALLOCATION_REFUSED") /\ Mishap /\ ~Full(cmd.s) /\ Opened # Targets /\ Appears

\* The budget refuses for certain; any other failure may have opened a page.
Opens ==
    /\ cmd.pc = "open" /\ UNCHANGED <<homes, pool, owner, work, ops, releases, waiting, seen>>
    /\ \/ Full(cmd.s) /\ Records("ALLOCATION_REFUSED") /\ Steps("full") /\ UNCHANGED tabs
       \/ Full(cmd.s) /\ UNCHANGED <<tabs, allocs>> /\ Mishap      \* the refusal is not recorded
       \/ /\ ~Full(cmd.s) /\ Opened # Targets /\ Appears /\ UNCHANGED <<allocs, quota>>
          /\ cmd' = [cmd EXCEPT !.pc = "opened", !.own = TRUE, !.t = Fresh]
       \/ /\ Records("ALLOCATION_UNKNOWN") /\ Mishap
          /\ UNCHANGED tabs \/ (~Full(cmd.s) /\ Opened # Targets /\ Appears)

\* A page whose record fails is left alone.
RecordPage ==
    /\ cmd.pc = "opened" /\ UNCHANGED <<tabs, homes, pool, owner, work, ops, releases, waiting, seen, quota>>
    /\ \/ /\ allocs' = [allocs EXCEPT ![cmd.a].phase = "PAGE_ALLOCATED", ![cmd.a].t = cmd.t]
          /\ cmd' = [cmd EXCEPT !.pc = "settle"]
       \/ Records("ALLOCATION_UNKNOWN") /\ cmd' = [cmd EXCEPT !.pc = "over", !.own = FALSE]

\* clearCapacityWait; when the store refuses, the page is given back.
Settle ==
    /\ cmd.pc = "settle" /\ UNCHANGED <<tabs, homes, pool, owner, work, ops, releases, allocs, seen>>
    /\ \/ waiting' = FALSE /\ Steps("visit")
       \/ waiting /\ UNCHANGED waiting /\ Mishap

\* No page in this Space: room is made once, then the capacity wait is recorded.
NoPage ==
    /\ cmd.pc = "full" /\ Rest
    /\ Steps(IF cmd.again \/ cmd.over = "last" THEN "no room" ELSE "reclaim")

Base == IF cmd.kind = "send" THEN homes[cmd.chat].s ELSE "main"

\* The next Space to look for a page in; a new one only after a long wait.
Enters(s, over) == cmd' = [cmd EXCEPT !.pc = "intend", !.s = s, !.over = over, !.again = FALSE] /\ UNCHANGED quota

NoRoom ==
    /\ cmd.pc = "no room" /\ UNCHANGED <<tabs, homes, pool, owner, work, ops, releases, allocs, seen>>
    /\ \/ UNCHANGED waiting /\ Mishap
       \/ /\ cmd.over = "no" /\ waiting' = TRUE
          /\ \E long \in BOOLEAN :
                /\ long => waiting
                /\ IF long \/ pool # <<>>
                   THEN cmd' = [cmd EXCEPT !.pc = "overflow", !.over = "head", !.long = long] /\ UNCHANGED quota
                   ELSE Breaks
       \/ /\ cmd.over = "head" /\ Len(pool) = 2 /\ pool[2] # Base
          /\ owner[pool[2]] = "agent" /\ Enters(pool[2], "previous") /\ UNCHANGED waiting
       \/ /\ cmd.over = "head" /\ Len(pool) = 1 /\ cmd.long /\ quota.max = 2 /\ ~cmd.made
          /\ owner[pool[1]] = "agent" /\ UNCHANGED <<waiting, quota>>
          /\ cmd' = [cmd EXCEPT !.pc = "overflow", !.over = "last"]
       \/ cmd.over # "no" /\ waiting' = TRUE /\ Mishap

\* overflowManagedTask: the Space has a fixed name, and is found again when its record is lost.
Wanted == IF cmd.over = "last" THEN "over2" ELSE "over1"
Overflow ==
    /\ cmd.pc = "overflow" /\ UNCHANGED <<tabs, homes, pool, work, ops, releases, allocs, waiting, seen>>
    /\ LET s == IF cmd.over = "head" /\ pool # <<>> THEN pool[1] ELSE Wanted IN
       \/ /\ owner[s] = "none" /\ cmd.long
          /\ owner' = [owner EXCEPT ![s] = "agent"]
          /\ cmd' = [cmd EXCEPT !.pc = "map", !.made = TRUE] /\ UNCHANGED quota
       \/ /\ owner[s] = "agent" /\ UNCHANGED owner
          /\ IF s \notin PoolSpaces THEN Steps("map")
             ELSE IF s = Base THEN Steps("no room") ELSE Enters(s, cmd.over)
       \/ UNCHANGED owner /\ Mishap

\* Mutant: the head replaces the mapping and the Space before it is forgotten.
MappedForgotten == <<Wanted>>
Mapped == <<Wanted>> \o pool

MapSpace ==
    /\ cmd.pc = "map" /\ UNCHANGED <<tabs, homes, owner, work, ops, releases, allocs, waiting, seen>>
    /\ \/ pool' = Mapped /\ Enters(Wanted, cmd.over)
       \/ UNCHANGED pool /\ Mishap

-----------------------------------------------------------------------------
(* reclaimIdlePageSlot and reclaimOrphanManagedPage. *)

\* Conversations attached in the Space, but for the command's own, without an active task.
pageDetachCandidates ==
    {c \in Chats \ {cmd.chat} : homes[c].s = cmd.s /\ homes[c].label # 0 /\ work[c] # "active"}

\* The page of a conversation whose tasks have all ended and that nothing else uses.
Slot(c, t) ==
    /\ c \in pageDetachCandidates /\ ~InUse(c)
    /\ t \in At(cmd.s, homes[c].label) /\ tabs[t].url = c /\ Still(t)

\* Pages of the Space that no conversation is attached to.
orphanManagedPageCandidates == {t \in Live(cmd.s) : ~Referenced(t, Nil)}

\* A blank page or a home that no conversation is attached to.
Orphan(t) ==
    /\ t \in orphanManagedPageCandidates /\ ~Unplaced(cmd.s)
    /\ tabs[t].url \in {Blank, Home} /\ Still(t)

Picks(t, c, purpose) ==
    cmd' = [cmd EXCEPT !.pc = "guard", !.r = t, !.url = tabs[t].url, !.cand = c, !.purpose = purpose,
                       !.reload = FALSE, !.term = FALSE, !.closed = FALSE, !.reloaded = FALSE]

Reclaim ==
    /\ cmd.pc = "reclaim" /\ UNCHANGED quota /\ Rest
    /\ \/ \E c \in Chats, t \in Targets : Slot(c, t) /\ Picks(t, c, "TERMINAL_ALLOCATION")
       \/ ~cmd.again /\ \E t \in Targets : Orphan(t) /\ Picks(t, Nil, "ORPHAN_IDLE")
       \/ /\ cmd.kind # "prune" /\ cmd' = [cmd EXCEPT !.pc = "no room"]
       \/ /\ cmd.kind = "prune" /\ cmd.todo = {} /\ cmd' = [cmd EXCEPT !.pc = "over"]
       \/ cmd.kind = "prune" /\ \E s \in cmd.todo : cmd' = [cmd EXCEPT !.s = s, !.todo = @ \ {s}, !.again = FALSE]

\* Everything is looked at again; a page that is used by now is passed over.
Guard ==
    /\ cmd.pc = "guard" /\ Rest
    /\ Steps(IF /\ Allowed /\ Intact /\ Still(cmd.r)
                /\ cmd.purpose = "ORPHAN_IDLE" => ~Unplaced(cmd.s)
             THEN "release" ELSE "reclaim")

-----------------------------------------------------------------------------
(* releasePhysicalPage. *)

GiveBack ==
    /\ cmd.pc = "give back" /\ UNCHANGED quota /\ Rest
    /\ cmd' = [cmd EXCEPT !.pc = "release", !.r = cmd.t, !.url = tabs[cmd.t].url, !.cand = Nil,
                          !.purpose = "OWNED_TEMPORARY", !.reload = FALSE, !.term = FALSE,
                          !.closed = FALSE, !.reloaded = FALSE]

Proceeds == Allowed /\ Intact
Outcome(phase) ==
    releases' = [releases EXCEPT ![cmd.r] =
        IF cmd.term THEN [@ EXCEPT !.term = phase]
        ELSE [@ EXCEPT !.phase = phase, !.reload = cmd.reload, !.closed = cmd.closed]]

\* The intent is recorded in the transaction that permits the release, once per target.
Release ==
    /\ cmd.pc = "release" /\ UNCHANGED <<tabs, homes, pool, owner, work, ops, allocs, waiting, seen, quota>>
    /\ \/ /\ Proceeds
          /\ IF cmd.term THEN Terminable(cmd.r) /\ releases[cmd.r].term = "none" ELSE ~Fenced(cmd.r)
          /\ Outcome("INTENT")
          /\ cmd' = [cmd EXCEPT !.pc = IF cmd.reload THEN "reload" ELSE IF cmd.term THEN "verify" ELSE "check"]
       \/ UNCHANGED releases /\ cmd' = [cmd EXCEPT !.pc = "over"]

Reload ==
    /\ cmd.pc = "reload" /\ UNCHANGED <<homes, pool, owner, work, ops, releases, allocs, waiting, seen, quota>>
    /\ \/ UNCHANGED tabs /\ cmd' = [cmd EXCEPT !.pc = "refuse"]
       \/ /\ Proceeds /\ tabs' = [tabs EXCEPT ![cmd.r].draft = FALSE]
          /\ \E pc \in {"check", "refuse"} : cmd' = [cmd EXCEPT !.pc = pc, !.reloaded = TRUE]

\* Mutant: what the page shows is not sampled before the close.
CheckSkipped == cmd.pc = "check" /\ Rest /\ Steps("verify")

\* The page shows no turn, no approval and no text.
Check ==
    /\ cmd.pc = "check" /\ Rest /\ UNCHANGED quota
    /\ cmd' = [cmd EXCEPT !.pc = IF Intact /\ Still(cmd.r) THEN "verify" ELSE "refuse", !.late = {}]

\* The permission and the target once more, not what the page does.
Verify ==
    /\ cmd.pc = "verify" /\ Rest /\ UNCHANGED quota
    /\ \/ Proceeds /\ cmd' = [cmd EXCEPT !.pc = "close", !.closed = TRUE, !.late = @ \ {"task"}]
       \/ cmd' = [cmd EXCEPT !.pc = "refuse"]

\* Target.closeTarget: done and seen, done and not seen, or not done.
CloseTarget ==
    /\ cmd.pc = "close" /\ UNCHANGED <<homes, pool, owner, work, ops, releases, allocs, waiting>>
    /\ seen' = [seen EXCEPT !.closes[cmd.r] = @ + 1]
    /\ \/ \E pc \in {"closed", "refuse"} : tabs' = [tabs EXCEPT ![cmd.r].live = FALSE] /\ Steps(pc)
       \/ UNCHANGED tabs /\ Steps("refuse")

Closed ==
    /\ cmd.pc = "closed" /\ UNCHANGED <<tabs, homes, pool, owner, work, ops, allocs, waiting, seen>>
    /\ \/ Outcome("RELEASED") /\ Steps("released")
       \/ UNCHANGED releases /\ Steps("refuse")

\* Once the page may have been touched the outcome is unknown; it may not be recorded at all.
Refuse ==
    /\ cmd.pc = "refuse" /\ UNCHANGED <<tabs, homes, pool, owner, work, ops, allocs, waiting, seen>>
    /\ Steps("over")
    /\ Outcome(IF cmd.closed \/ cmd.reloaded THEN "UNKNOWN" ELSE "REFUSED") \/ UNCHANGED releases

Released ==
    /\ cmd.pc = "released" /\ UNCHANGED <<tabs, pool, owner, work, ops, releases, waiting, seen, quota>>
    /\ \/ /\ cmd.purpose \in {"TERMINAL_ALLOCATION", "ORPHAN_IDLE"} /\ UNCHANGED allocs
          /\ homes' = IF cmd.cand = Nil THEN homes ELSE [homes EXCEPT ![cmd.cand].label = 0, ![cmd.cand].t = 0]
          /\ cmd' = IF cmd.kind = "prune"
                    THEN [cmd EXCEPT !.pc = "reclaim", !.again = (@ \/ cmd.purpose = "ORPHAN_IDLE")]
                    ELSE [cmd EXCEPT !.pc = "intend", !.again = TRUE]
       \/ /\ cmd.purpose = "OWNED_TEMPORARY" /\ UNCHANGED homes
          /\ Records("PAGE_RELEASED") /\ cmd' = [cmd EXCEPT !.pc = "over"]
       \/ UNCHANGED <<homes, allocs>> /\ cmd' = [cmd EXCEPT !.pc = "over"]      \* or nothing can be saved

-----------------------------------------------------------------------------
(* The command ends; the world around it. *)

\* The claim is settled by what is known of the send.
Over ==
    /\ cmd.pc = "over" /\ cmd' = Quitted
    /\ UNCHANGED <<tabs, homes, pool, owner, releases, allocs, waiting, seen, quota>>
    /\ IF ~cmd.claim THEN UNCHANGED <<work, ops>>
       ELSE IF ~cmd.sent THEN ops' = [ops EXCEPT ![cmd.chat] = "none"] /\ UNCHANGED work
       ELSE \/ ops' = [ops EXCEPT ![cmd.chat] = "DELIVERY_UNKNOWN"] /\ UNCHANGED work
            \/ /\ Registered(cmd.chat) /\ ops' = [ops EXCEPT ![cmd.chat] = "SENT"]
               /\ work' = [work EXCEPT ![cmd.chat] = IF cmd.kind = "new" THEN "active" ELSE @]

Stops ==
    /\ cmd.pc # "free" /\ Occurs("crash") /\ cmd' = Quitted /\ Rest

\* A dispatch is submitted for a conversation that has none to come and no running task.
Queue(c) ==
    /\ Occurs("queue") /\ work[c] # "active"
    /\ ops[c] = "none" \/ (ops[c] = "SENT" /\ work[c] \in {"CANCELLED", "RECORDED"})
    /\ ops' = [ops EXCEPT ![c] = "QUEUED"]
    /\ UNCHANGED <<tabs, homes, pool, owner, work, releases, allocs, waiting, cmd, seen>>

\* One delivery per account is claimed at a time; it waits for the lane.
Claims(c) ==
    /\ ops[c] = "QUEUED" /\ \A d \in Chats : ops[d] \notin {"DISPATCHING", "SENDING"}
    /\ ops' = [ops EXCEPT ![c] = "DISPATCHING"]
    /\ UNCHANGED <<tabs, homes, pool, owner, work, releases, allocs, waiting, cmd, seen, quota>>

\* A claim whose process is gone.
Recovers(c) ==
    /\ c \in Writers
    /\ ops' = [ops EXCEPT ![c] = IF @ = "SENDING" THEN "DELIVERY_UNKNOWN" ELSE "none"]
    /\ UNCHANGED <<tabs, homes, pool, owner, work, releases, allocs, waiting, cmd, seen, quota>>

Results(c) ==
    /\ Occurs("result") /\ work[c] = "active"
    /\ \E w \in EndedWork : work' = [work EXCEPT ![c] = w]
    /\ UNCHANGED <<tabs, homes, pool, owner, ops, releases, allocs, waiting, cmd, seen>>

\* History: what begins at a page that a release has already looked at.
Late(what) == cmd' = [cmd EXCEPT !.late = @ \cup {what}]

\* `task set` gives the task of a conversation any status again, `task clear` removes it.
Sets(c) ==
    /\ Occurs("task") /\ Registered(c)
    /\ \E w \in WorkStates \ {work[c]} : work' = [work EXCEPT ![c] = w]
    /\ IF cmd.pc = "close" /\ tabs[cmd.r].url = c THEN Late("task") ELSE UNCHANGED cmd
    /\ UNCHANGED <<tabs, homes, pool, owner, ops, releases, allocs, waiting, seen>>

\* A turn ends; a person types a draft, or closes the tab.
Turns(t) ==
    /\ tabs[t].live /\ tabs[t].alloc # 0
    /\ \/ tabs[t].busy /\ tabs' = [tabs EXCEPT ![t].busy = FALSE, ![t].url = IF @ = Home THEN Foreign ELSE @]
          /\ UNCHANGED quota
       \/ ~tabs[t].draft /\ Occurs("draft") /\ tabs' = [tabs EXCEPT ![t].draft = TRUE]
       \/ Occurs("tab") /\ tabs' = [tabs EXCEPT ![t].live = FALSE]
    /\ UNCHANGED <<homes, pool, owner, work, ops, releases, allocs, waiting, cmd, seen>>

\* A person sends a message in the page; at the project's home a conversation begins, whose
\* address the page shows at once or later.
Sends(t) ==
    /\ tabs[t].live /\ ~tabs[t].busy /\ tabs[t].url # Blank /\ Occurs("turn")
    /\ \E url \in IF tabs[t].url = Home THEN {Home, Foreign} ELSE {tabs[t].url} :
          tabs' = [tabs EXCEPT ![t].busy = TRUE, ![t].draft = FALSE, ![t].url = url]
    /\ IF cmd.pc \in {"verify", "close"} /\ cmd.r = t THEN Late("turn") ELSE UNCHANGED cmd
    /\ UNCHANGED <<homes, pool, owner, work, ops, releases, allocs, waiting, seen>>

Takes(s) ==
    /\ owner[s] # "none" /\ Occurs("hold")
    /\ owner' = [owner EXCEPT ![s] = IF @ = "agent" THEN "user" ELSE "agent"]
    /\ UNCHANGED <<tabs, homes, pool, work, ops, releases, allocs, waiting, cmd, seen>>

Command ==
    \/ \E c \in Chats : Send(c) \/ New(c)
    \/ Prune \/ \E t \in Targets : Close(t)
    \/ Locate \/ Visits \/ Attach \/ HandOff \/ Prepare \/ Clicks
    \/ Intend \/ Opens \/ RecordPage \/ Settle \/ NoPage \/ NoRoom \/ Overflow \/ MapSpace
    \/ Reclaim \/ Guard \/ GiveBack
    \/ Release \/ Reload \/ Check \/ Verify \/ CloseTarget \/ Closed \/ Refuse \/ Released
    \/ Over

PagesNext ==
    \/ Command \/ Stops
    \/ \E c \in Chats : Queue(c) \/ Claims(c) \/ Recovers(c) \/ Results(c) \/ Sets(c)
    \/ \E t \in Targets : Turns(t) \/ Sends(t)
    \/ \E s \in SpaceNames : Takes(s)

PagesSpec == PagesInit /\ [][PagesNext]_pageVars

-----------------------------------------------------------------------------
(* Properties. *)

\* A page is closed at most once, whatever of the first close was seen or recorded, and no
\* message goes into a page of which a release may still take effect.
\* delivery_attempt.py:209-327, main.js:610-687, 710, 1498.
ReleaseOnce ==
    /\ \A t \in Targets : seen.closes[t] <= 1
    /\ cmd.pc \in {"attach", "prepare", "click"} => ~Fenced(cmd.t)

\* The bridge closes a page only when it was idle at the last look: a turn that the close
\* meets was begun by a person after the last sample of the page, never by a command, and a
\* task of the conversation in it that is not over was set so after the last permission.  The
\* code keeps this window small and cannot close it (docs/architecture.md:142, "does not
\* promise zero pre-close races"); a termination after a reload takes no sample (146).
\* main.js:610-687, 796-866, coordinator.py:4709.
IdleClose ==
    [][\A t \in Targets : tabs[t].live /\ seen'.closes[t] # seen.closes[t] =>
          /\ tabs[t].busy => "turn" \in cmd.late \/ cmd.term
          /\ \A c \in Chats : tabs[t].url = c /\ work[c] \in {"active", "BLOCKED"} => "task" \in cmd.late]_pageVars

\* No page is lost: one that the registry has never named has an open record in the journal
\* of its allocation, and only a page that the registry has named counts as handed off.
\* main.js:569-608, 715-742, delivery_attempt.py:336-397.
NoLostPage ==
    /\ \A t \in Targets : tabs[t].live => t \in seen.held \/ ~Finished(tabs[t].alloc)
    /\ \A i \in DOMAIN allocs : allocs[i].phase = "PAGE_HANDED_OFF" => allocs[i].t \in seen.held
    /\ \A s \in SpaceNames : Cardinality(Unresolved(s)) <= 1

\* Every page is in the main Space or in an overflow Space that the registry maps, also when
\* the command stops between the creation of a Space and its record; there are as many
\* overflow Spaces as the policy allows.  main.js:976-1044, 1070-1096.
OverflowMapped ==
    /\ \A t \in Targets : tabs[t].live => tabs[t].s \in PoolSpaces
    /\ Cardinality({s \in SpaceNames : owner[s] # "none"}) <= 1 + quota.max
=============================================================================
