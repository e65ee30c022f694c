----------------------------- MODULE StateStore -----------------------------
(***************************************************************************)
(* One document (the registry or the runtime) of src/state-store.py: a row *)
(* of bridge.sqlite3, a JSON file projected from it, and the programs that *)
(* edit it.                                                                *)
(*                                                                         *)
(* A client is a run of src/main.js.  It peeks at the document, edits its  *)
(* copy, and spawns `state-store.py put` with the copy it started from and *)
(* the copy it wants; put merges the difference into whatever the row is   *)
(* by then.  A reader is a `state-store.py get`: the coordinator commands  *)
(* that may initialize the store begin with one of the registry, nothing   *)
(* but an explicit call gets the runtime.  Both kinds of process may die   *)
(* at any point, and a put outlives the client that spawned it.  The       *)
(* coordinator also edits the row itself.                                  *)
(*                                                                         *)
(* A document is two levels deep: records (a task, a chat, a project) with *)
(* fields.  Values are the times at which they were written, so that no    *)
(* two edits write the same value.                                         *)
(***************************************************************************)
EXTENDS Naturals

CONSTANTS
    Kind,       \* "registry" or "runtime"
    Records,
    Projects,   \* the records under `projects`
    Fields,
    Clients,    \* runs of main.js
    Readers,    \* `get` commands
    Writers,    \* coordinator commands that read and write back without a lock
    Legacy,     \* what the JSON file holds when the store is first used
    MISSING,    \* MISSING: an absent field, record or row
    MaxClock    \* bound: edits

Values == 0..MaxClock
Leaves == Records \X Fields
Objects == [Fields -> Values \cup {MISSING}]
Documents == [Records -> Objects \cup {MISSING}]

ASSUME KindAssumption == Kind \in {"registry", "runtime"}
ASSUME ClockAssumption == MaxClock \in Nat
ASSUME RecordAssumption == Projects \subseteq Records
ASSUME LegacyAssumption == Legacy \in [Records -> [Fields -> {0, MISSING}] \cup {MISSING}]
ASSUME MissingAssumption == /\ MISSING \notin Values
                            /\ MISSING \notin Objects
                            /\ MISSING \notin Documents
ASSUME ProcessAssumption == /\ Clients \cap Readers = {}
                            /\ Clients \cap Writers = {}
                            /\ "transaction" \notin Clients \cup Writers

VARIABLES
    doc,        \* the row, MISSING before the store is initialized
    file,       \* the JSON projection
    client,     \* base and next of every client, and the paths it wants checked
    store,      \* the state-store.py process of every client and reader
    writer,     \* what a coordinator command has read and not yet written back
    clock,      \* edits made so far
    seen,       \* history: leaf values a client or writer has read or written
    author      \* history: who changed the row last

vars == <<doc, file, client, store, writer, clock, seen, author>>

-----------------------------------------------------------------------------
(* Differences and their merge.                                            *)

Empty == [f \in Fields |-> MISSING]

value_at(document, l) ==
    IF document[l[1]] = MISSING THEN MISSING ELSE document[l[1]][l[2]]

\* The records a difference adds as an empty object or removes as a whole.
Whole(base, next) ==
    {r \in Records : /\ base[r] # next[r]
                     /\ next[r] = MISSING \/ (base[r] = MISSING /\ next[r] = Empty)}

\* The single fields a difference writes, those of a new record included.
Single(base, next) ==
    {l \in Leaves : /\ l[1] \notin Whole(base, next)
                    /\ value_at(base, l) # value_at(next, l)}

\* projects/*/updatedAt of the runtime is a heartbeat: the later one stands.
Volatile(l) == Kind = "runtime" /\ l[1] \in Projects /\ l[2] = "updatedAt"

\* Mutant: every field is merged like a heartbeat.
AcceptsLater(current, base, next, reads) ==
    /\ \A r \in reads : current[r] = base[r]
    /\ \A r \in Whole(base, next) : current[r] \in {base[r], next[r]}
    /\ \A l \in Single(base, next) :
          \/ value_at(current, l) \in {value_at(base, l), value_at(next, l)}
          \/ MISSING \notin {value_at(current, l), value_at(next, l)}

\* Mutant: what is already as the client wants it is a conflict, too.
AcceptsOnlyBase(current, base, next, reads) ==
    /\ \A r \in reads : current[r] = base[r]
    /\ \A r \in Whole(base, next) : current[r] = base[r]
    /\ \A l \in Single(base, next) :
          \/ value_at(current, l) = value_at(base, l)
          \/ Volatile(l) /\ MISSING \notin {value_at(current, l), value_at(next, l)}

\* No conflict: whatever is written is still what the client started from, or
\* is already what it wants.
Accepts(current, base, next, reads) ==
    /\ \A r \in reads : current[r] = base[r]
    /\ \A r \in Whole(base, next) : current[r] \in {base[r], next[r]}
    /\ \A l \in Single(base, next) :
          \/ value_at(current, l) \in {value_at(base, l), value_at(next, l)}
          \/ Volatile(l) /\ MISSING \notin {value_at(current, l), value_at(next, l)}

\* Mutant: a heartbeat is written as it is.
MergedLast(current, base, next, l) == value_at(next, l)

Merged(current, base, next, l) ==
    IF value_at(current, l) \in {value_at(base, l), value_at(next, l)}
    THEN value_at(next, l)
    ELSE IF value_at(next, l) >= value_at(current, l) THEN value_at(next, l)
                                                      ELSE value_at(current, l)

\* A field of a record that is gone brings the record back (setdefault).
apply(current, base, next) ==
    [r \in Records |->
        IF r \in Whole(base, next) THEN next[r]
        ELSE IF \A f \in Fields : <<r, f>> \notin Single(base, next) THEN current[r]
        ELSE [f \in Fields |-> IF <<r, f>> \in Single(base, next)
                               THEN Merged(current, base, next, <<r, f>>)
                               ELSE value_at(current, <<r, f>>)]]

\* One edit at time t: write some fields of a record, which may be new, drop a
\* field, or drop a record.
Written(document, r, F, t) ==
    [document EXCEPT ![r] = [f \in Fields |-> IF f \in F THEN t
                                              ELSE value_at(document, <<r, f>>)]]

Dropped(document, l) == [document EXCEPT ![l[1]] = [document[l[1]] EXCEPT ![l[2]] = MISSING]]

Edits(document, t) ==
    {Written(document, r, F, t) : r \in Records, F \in SUBSET Fields}
    \cup {Dropped(document, l) : l \in {k \in Leaves : document[k[1]] # MISSING}}
    \cup {[document EXCEPT ![r] = MISSING] : r \in Records}

-----------------------------------------------------------------------------
Processes == Clients \cup Readers
Authors == Clients \cup Writers

ClientStates == [pc : {"idle", "editing", "waiting", "gone"},
                 base : Documents, next : Documents, reads : SUBSET Records]
IdleClient == [pc |-> "idle", base |-> Legacy, next |-> Legacy, reads |-> {}]

StoreStates == [pc : {"none", "seeding", "inserting", "running", "projecting"},
                image : Documents]
NoStore == [pc |-> "none", image |-> Legacy]

Contents(document) == {<<l, value_at(document, l)>> : l \in Leaves}

Init ==
    /\ doc \in {MISSING, Legacy}
    /\ file = Legacy
    /\ client = [c \in Clients |-> IdleClient]
    /\ store = [p \in Processes |-> NoStore]
    /\ writer = [k \in Writers |-> MISSING]
    /\ clock = 0
    /\ seen = [a \in Authors |-> {}]
    /\ author = "transaction"

-----------------------------------------------------------------------------
(* The client: loadRegistry or loadRuntime, edits, saveRegistry or         *)
(* saveRuntime.                                                            *)

\* peek: the row, or the legacy file while there is no row.
Peek(c) ==
    /\ client[c].pc = "idle"
    /\ LET image == IF doc # MISSING THEN doc ELSE file
       IN  /\ client' = [client EXCEPT ![c] = [pc |-> "editing", base |-> image,
                                               next |-> image, reads |-> {}]]
           /\ seen' = [seen EXCEPT ![c] = Contents(image)]
    /\ UNCHANGED <<doc, file, store, writer, clock, author>>

Edit(c) ==
    /\ client[c].pc = "editing"
    /\ clock < MaxClock
    /\ clock' = clock + 1
    /\ \E next \in Edits(client[c].next, clock + 1) :
          client' = [client EXCEPT ![c].next = next]
    /\ UNCHANGED <<doc, file, store, writer, seen, author>>

\* Spawn put.  An unchanged registry without paths to check is not saved.
Save(c) ==
    /\ client[c].pc = "editing"
    /\ \E reads \in IF Kind = "registry" THEN {{}} \cup {{r} : r \in Records} ELSE {{}} :
         /\ Kind = "registry" => client[c].base # client[c].next \/ reads # {}
         /\ client' = [client EXCEPT ![c].pc = "waiting", ![c].reads = reads]
    /\ store' = [store EXCEPT ![c].pc = IF doc = MISSING THEN "seeding" ELSE "running"]
    /\ UNCHANGED <<doc, file, writer, clock, seen, author>>

\* The program ends, or is killed while its put lives on.
Quit(c) ==
    /\ client[c].pc \in {"editing", "waiting"}
    /\ client' = [client EXCEPT ![c] = IF client[c].pc = "editing" THEN IdleClient
                                       ELSE [client[c] EXCEPT !.pc = "gone"]]
    /\ UNCHANGED <<doc, file, store, writer, clock, seen, author>>

\* What becomes of a client whose put ended, with or without an answer.  After
\* an answer it takes the copy it wanted for the stored one; after an error it
\* may go on with what it has.
Answered(c, ok) ==
    LET state == client[c]
    IN  [client EXCEPT ![c] =
            IF state.pc = "gone" THEN IdleClient
            ELSE [state EXCEPT !.pc = "editing",
                               !.base = IF ok THEN state.next ELSE state.base,
                               !.reads = {}]]

-----------------------------------------------------------------------------
(* state-store.py put and get.                                             *)

Goto(p, pc) == store' = [store EXCEPT ![p].pc = pc]

\* get: the row, or the way through the initialization.
Get(g) ==
    /\ store[g].pc = "none"
    /\ store' = [store EXCEPT ![g] = IF doc = MISSING
                                     THEN [pc |-> "seeding", image |-> Legacy]
                                     ELSE [pc |-> "projecting", image |-> doc]]
    /\ UNCHANGED <<doc, file, client, writer, clock, seen, author>>

\* No row was found: read the file that precedes it,
ReadSeed(p) ==
    /\ store[p].pc = "seeding"
    /\ store' = [store EXCEPT ![p] = [pc |-> "inserting", image |-> file]]
    /\ UNCHANGED <<doc, file, client, writer, clock, seen, author>>

\* and insert it unless another process has done so (INSERT OR IGNORE).
Insert(p) ==
    /\ store[p].pc = "inserting"
    /\ doc' = IF doc = MISSING THEN store[p].image ELSE doc
    /\ Goto(p, "running")
    /\ UNCHANGED <<file, client, writer, clock, seen, author>>

\* get after the initialization.
Reread(g) ==
    /\ store[g].pc = "running"
    /\ store' = [store EXCEPT ![g] = [pc |-> "projecting", image |-> doc]]
    /\ UNCHANGED <<doc, file, client, writer, clock, seen, author>>

\* The writer transaction of a put: commit the merge, or end in STATE_CONFLICT.
Commit(c) ==
    /\ store[c].pc = "running"
    /\ LET base == client[c].base
           next == client[c].next
       IN  IF Accepts(doc, base, next, client[c].reads)
           THEN /\ doc' = apply(doc, base, next)
                /\ store' = [store EXCEPT ![c] = [pc |-> "projecting", image |-> doc']]
                /\ seen' = [seen EXCEPT ![c] = @ \cup Contents(next)]
                /\ author' = c
                /\ UNCHANGED client
           ELSE /\ store' = [store EXCEPT ![c] = NoStore]
                /\ client' = Answered(c, FALSE)
                /\ UNCHANGED <<doc, seen, author>>
    /\ UNCHANGED <<file, writer, clock>>

\* Mutant: get prints the row and leaves the file as it is.
ProjectNever(p) ==
    /\ store[p].pc = "projecting"
    /\ store' = [store EXCEPT ![p] = NoStore]
    /\ client' = IF p \in Clients THEN Answered(p, TRUE) ELSE client
    /\ UNCHANGED <<doc, file, writer, clock, seen, author>>

\* Replace the JSON file, after the transaction and in no order with others.
Project(p) ==
    /\ store[p].pc = "projecting"
    /\ file' = store[p].image
    /\ store' = [store EXCEPT ![p] = NoStore]
    /\ client' = IF p \in Clients THEN Answered(p, TRUE) ELSE client
    /\ UNCHANGED <<doc, writer, clock, seen, author>>

\* The process is killed, or gives up waiting for the database.
Fail(p) ==
    /\ store[p].pc # "none"
    /\ store' = [store EXCEPT ![p] = NoStore]
    /\ client' = IF p \in Clients THEN Answered(p, FALSE) ELSE client
    /\ UNCHANGED <<doc, file, writer, clock, seen, author>>

-----------------------------------------------------------------------------
(* The coordinator.  It writes the row and never the file.                 *)

\* Read and write in one BEGIN IMMEDIATE transaction.
Transaction ==
    /\ doc # MISSING
    /\ clock < MaxClock
    /\ clock' = clock + 1
    /\ doc' \in Edits(doc, clock + 1)
    /\ author' = "transaction"
    /\ UNCHANGED <<file, client, store, writer, seen>>

\* mark_capacity_wait, clear_capacity_wait, enqueue_stop_requests: the row is
\* read outside any transaction,
ReadForWrite(k) ==
    /\ doc # MISSING
    /\ writer[k] = MISSING
    /\ writer' = [writer EXCEPT ![k] = doc]
    /\ seen' = [seen EXCEPT ![k] = Contents(doc)]
    /\ UNCHANGED <<doc, file, client, store, clock, author>>

\* and all of it is written back.
WriteBack(k) ==
    /\ writer[k] # MISSING
    /\ clock < MaxClock
    /\ clock' = clock + 1
    /\ doc' \in Edits(writer[k], clock + 1)
    /\ writer' = [writer EXCEPT ![k] = MISSING]
    /\ author' = k
    /\ UNCHANGED <<file, client, store, seen>>

-----------------------------------------------------------------------------
ClientStep(c) == Peek(c) \/ Edit(c) \/ Save(c) \/ Quit(c) \/ Commit(c)

Next ==
    \/ \E c \in Clients : ClientStep(c)
    \/ \E g \in Readers : Get(g) \/ Reread(g)
    \/ \E p \in Processes : ReadSeed(p) \/ Insert(p) \/ Project(p) \/ Fail(p)
    \/ Transaction

Spec == Init /\ [][Next]_vars

\* The same with the coordinator commands that write back what they read
\* outside any transaction.
UnguardedNext == Next \/ \E k \in Writers : ReadForWrite(k) \/ WriteBack(k)

UnguardedSpec == Init /\ [][UnguardedNext]_vars

-----------------------------------------------------------------------------
(* Properties.                                                             *)

\* Every variable stays within the documents and process states of the code.
TypeOK ==
    /\ doc \in Documents \cup {MISSING}
    /\ file \in Documents
    /\ client \in [Clients -> ClientStates]
    /\ store \in [Processes -> StoreStates]
    /\ writer \in [Writers -> Documents \cup {MISSING}]
    /\ clock \in 0..MaxClock
    /\ seen \in [Authors -> SUBSET (Leaves \X (Values \cup {MISSING}))]
    /\ author \in Authors \cup {"transaction"}

\* The leaf values a step of the row replaces or removes.
Replaced(l) == value_at(doc, l) # MISSING /\ value_at(doc', l) # value_at(doc, l)

Forward(l) == Volatile(l) /\ value_at(doc', l) # MISSING
                          /\ value_at(doc', l) > value_at(doc, l)

KeepsUpdates ==
    doc # MISSING =>
        \A l \in Leaves : Replaced(l) =>
            \/ author' = "transaction"
            \/ <<l, value_at(doc, l)>> \in seen[author']
            \/ Forward(l)

KeepsHeartbeats ==
    doc # MISSING =>
        \A l \in Leaves :
            Volatile(l) /\ MISSING \notin {value_at(doc, l), value_at(doc', l)}
                => value_at(doc', l) >= value_at(doc, l)

\* No lost update: a value in the row is replaced only by a process that had
\* read it or written it itself, be it through a merge of an old copy, a late
\* put of a dead client or a second initialization.  Only a heartbeat may be
\* overtaken unseen, by a later one.
NoLostUpdate == [][KeepsUpdates]_vars

\* Heartbeats of the runtime never move back, however old the copy a put
\* started from.
HeartbeatForward == [][KeepsHeartbeats]_vars

\* Saving again after an answer was lost changes nothing: a put that has been
\* merged is either refused or merged into the same document.
RetryHarmless ==
    \A c \in Clients :
        client[c].pc = "waiting" /\ doc # MISSING =>
          LET base == client[c].base
              next == client[c].next
          IN  Accepts(doc, base, next, client[c].reads) =>
                LET merged == apply(doc, base, next)
                IN  Accepts(merged, base, next, {}) /\ apply(merged, base, next) = merged

-----------------------------------------------------------------------------
(* A put or a get that runs is not killed each time before it has replaced the file.  That   *)
(* anybody gets the document is not assumed: the scheduled workers open the database without *)
(* a get, and main.js peeks.                                                                 *)

Fairness == \A g \in Readers :
                SF_vars(ReadSeed(g)) /\ SF_vars(Insert(g)) /\ SF_vars(Reread(g)) /\ SF_vars(Project(g))

FairSpec == Spec /\ Fairness

\* Only an explicit get repairs the file (docs/architecture.md:348).  Once the row is no longer
\* written, and if somebody goes on getting the document, the file becomes equal to the row and
\* stays so, although puts and gets project in any order, with old images, and may die first.
\* state-store.py:102-115, 405-408, coordinator.py:150-153.
ProjectionCatchesUp ==
    (<>[][doc' = doc]_doc /\ \E g \in Readers : []<><<Get(g)>>_vars) => <>[](file = doc)
=============================================================================
