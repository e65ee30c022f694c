-------------------------- MODULE StateStoreProofs --------------------------
(* Theorems about the document store of StateStore, for any number of      *)
(* clients, readers, records, fields and edits.                            *)
EXTENDS StateStore, TLAPS

-----------------------------------------------------------------------------
(* What the operators on documents return.                                 *)

LEMMA ValueType ==
    ASSUME NEW d \in Documents, NEW l \in Leaves
    PROVE  value_at(d, l) \in Values \cup {MISSING}
  BY DEF value_at, Documents, Objects, Leaves

LEMMA ContentsType ==
    ASSUME NEW d \in Documents
    PROVE  Contents(d) \subseteq Leaves \X (Values \cup {MISSING})
  BY ValueType DEF Contents

\* The three kinds of edit.
LEMMA EditsCases ==
    ASSUME NEW d, NEW t, NEW e \in Edits(d, t)
    PROVE  \/ \E r \in Records, F \in SUBSET Fields : e = Written(d, r, F, t)
           \/ \E l \in Leaves : d[l[1]] # MISSING /\ e = Dropped(d, l)
           \/ \E r \in Records : e = [d EXCEPT ![r] = MISSING]
  BY DEF Edits

LEMMA EditsType ==
    ASSUME NEW d \in Documents, NEW t \in Values
    PROVE  Edits(d, t) \subseteq Documents
  <1>1. ASSUME NEW r \in Records, NEW F \in SUBSET Fields
        PROVE  Written(d, r, F, t) \in Documents
    <2>1. \A f \in Fields : value_at(d, <<r, f>>) \in Values \cup {MISSING}
      BY ValueType DEF Leaves
    <2>2. [f \in Fields |-> IF f \in F THEN t ELSE value_at(d, <<r, f>>)] \in Objects
      BY <2>1 DEF Objects
    <2> QED
      BY <2>2 DEF Written, Documents
  <1>2. ASSUME NEW l \in Leaves, d[l[1]] # MISSING
        PROVE  Dropped(d, l) \in Documents
    <2>1. l[1] \in Records /\ l[2] \in Fields /\ d[l[1]] \in Objects
      BY <1>2 DEF Leaves, Documents
    <2>2. [d[l[1]] EXCEPT ![l[2]] = MISSING] \in Objects
      BY <2>1 DEF Objects
    <2> QED
      BY <2>1, <2>2 DEF Dropped, Documents
  <1>3. ASSUME NEW r \in Records PROVE [d EXCEPT ![r] = MISSING] \in Documents
    BY DEF Documents
  <1> QED
    BY <1>1, <1>2, <1>3, EditsCases

\* An edit leaves a field alone, drops it, or writes the time into it.
LEMMA EditsLeaf ==
    ASSUME NEW d \in Documents, NEW t \in Values, NEW e \in Edits(d, t), NEW l \in Leaves
    PROVE  value_at(e, l) \in {value_at(d, l), t, MISSING}
  <1>0. PICK s \in Records, g \in Fields : l = <<s, g>>
    BY DEF Leaves
  <1>1. ASSUME NEW r \in Records, NEW F \in SUBSET Fields,
               e = Written(d, r, F, t)
        PROVE  value_at(e, l) \in {value_at(d, l), t, MISSING}
    <2>1. CASE s = r
      <3>1. e[s] = [f \in Fields |-> IF f \in F THEN t ELSE value_at(d, <<r, f>>)]
        BY <1>1, <2>1 DEF Written, Documents
      <3>2. e[s][g] \in {value_at(d, l), t}
        BY <1>0, <2>1, <3>1
      <3> QED
        BY <1>0, <3>2 DEF value_at
    <2>2. CASE s # r
      <3>1. e[s] = d[s]
        BY <1>1, <2>2 DEF Written, Documents
      <3> QED
        BY <1>0, <3>1 DEF value_at
    <2> QED
      BY <2>1, <2>2
  <1>2. ASSUME NEW k \in Leaves, d[k[1]] # MISSING, e = Dropped(d, k)
        PROVE  value_at(e, l) \in {value_at(d, l), t, MISSING}
    <2>1. k[1] \in Records /\ k[2] \in Fields /\ d[k[1]] \in Objects
      BY <1>2 DEF Leaves, Documents
    <2>2. e = [d EXCEPT ![k[1]] = [d[k[1]] EXCEPT ![k[2]] = MISSING]]
      BY <1>2 DEF Dropped
    <2>3. CASE s = k[1]
      <3>1. e[s] = [d[s] EXCEPT ![k[2]] = MISSING]
        BY <2>1, <2>2, <2>3 DEF Documents
      <3>2. e[s][g] = IF g = k[2] THEN MISSING ELSE d[s][g]
        BY <2>1, <2>3, <3>1 DEF Objects
      <3> QED
        BY <1>0, <1>2, <2>3, <3>2 DEF value_at
    <2>4. CASE s # k[1]
      <3>1. e[s] = d[s]
        BY <2>2, <2>4, <2>1 DEF Documents
      <3> QED
        BY <1>0, <3>1 DEF value_at
    <2> QED
      BY <2>3, <2>4
  <1>3. ASSUME NEW r \in Records, e = [d EXCEPT ![r] = MISSING]
        PROVE  value_at(e, l) \in {value_at(d, l), t, MISSING}
    <2>1. e[s] = IF s = r THEN MISSING ELSE d[s]
      BY <1>3 DEF Documents
    <2> QED
      BY <1>0, <2>1 DEF value_at
  <1> QED
    BY <1>1, <1>2, <1>3, EditsCases

-----------------------------------------------------------------------------
(* The merge of an accepted put.                                           *)

LEMMA MergedValue ==
    ASSUME NEW current \in Documents, NEW base \in Documents, NEW next \in Documents,
           NEW reads, Accepts(current, base, next, reads), NEW l \in Single(base, next)
    PROVE  /\ Merged(current, base, next, l) \in {value_at(current, l), value_at(next, l)}
           /\ Merged(current, base, next, l) # value_at(current, l) =>
                 \/ value_at(current, l) = value_at(base, l)
                 \/ /\ Volatile(l)
                    /\ MISSING \notin {value_at(current, l), value_at(next, l)}
                    /\ value_at(next, l) > value_at(current, l)
  <1>1. l \in Leaves
    BY DEF Single
  <1>2. /\ value_at(current, l) \in Values \cup {MISSING}
        /\ value_at(next, l) \in Values \cup {MISSING}
    BY <1>1, ValueType
  <1>3. \/ value_at(current, l) \in {value_at(base, l), value_at(next, l)}
        \/ Volatile(l) /\ MISSING \notin {value_at(current, l), value_at(next, l)}
    BY DEF Accepts
  <1>4. CASE value_at(current, l) \in {value_at(base, l), value_at(next, l)}
    BY <1>4 DEF Merged
  <1>5. CASE /\ value_at(current, l) \notin {value_at(base, l), value_at(next, l)}
             /\ Volatile(l)
             /\ MISSING \notin {value_at(current, l), value_at(next, l)}
    <2>1. value_at(current, l) \in Nat /\ value_at(next, l) \in Nat
      BY <1>2, <1>5, ClockAssumption DEF Values
    <2> QED
      BY <1>5, <2>1 DEF Merged
  <1> QED
    BY <1>3, <1>4, <1>5

LEMMA ApplyType ==
    ASSUME NEW current \in Documents, NEW base \in Documents, NEW next \in Documents,
           NEW reads, Accepts(current, base, next, reads)
    PROVE  apply(current, base, next) \in Documents
  <1>1. ASSUME NEW r \in Records PROVE apply(current, base, next)[r] \in Objects \cup {MISSING}
    <2>1. CASE r \in Whole(base, next)
      BY <2>1 DEF apply, Documents
    <2>2. CASE r \notin Whole(base, next) /\ \A f \in Fields : <<r, f>> \notin Single(base, next)
      BY <2>2 DEF apply, Documents
    <2>3. CASE r \notin Whole(base, next) /\ ~ \A f \in Fields : <<r, f>> \notin Single(base, next)
      <3>1. ASSUME NEW f \in Fields
            PROVE  (IF <<r, f>> \in Single(base, next)
                    THEN Merged(current, base, next, <<r, f>>)
                    ELSE value_at(current, <<r, f>>)) \in Values \cup {MISSING}
        <4>1. <<r, f>> \in Leaves
          BY DEF Leaves
        <4>2. /\ value_at(current, <<r, f>>) \in Values \cup {MISSING}
              /\ value_at(next, <<r, f>>) \in Values \cup {MISSING}
          BY <4>1, ValueType
        <4>3. <<r, f>> \in Single(base, next) =>
                Merged(current, base, next, <<r, f>>)
                    \in {value_at(current, <<r, f>>), value_at(next, <<r, f>>)}
          BY MergedValue
        <4> QED
          BY <4>2, <4>3
      <3>2. [f \in Fields |-> IF <<r, f>> \in Single(base, next)
                              THEN Merged(current, base, next, <<r, f>>)
                              ELSE value_at(current, <<r, f>>)] \in Objects
        BY <3>1 DEF Objects
      <3> QED
        BY <2>3, <3>2 DEF apply
    <2> QED
      BY <2>1, <2>2, <2>3
  <1> QED
    BY <1>1 DEF apply, Documents

\* A put changes a field only to the value its client wants, and only from the
\* value its client started with, heartbeats that move forward excepted.
LEMMA ApplyLeaf ==
    ASSUME NEW current \in Documents, NEW base \in Documents, NEW next \in Documents,
           NEW reads, Accepts(current, base, next, reads), NEW l \in Leaves,
           value_at(apply(current, base, next), l) # value_at(current, l)
    PROVE  /\ value_at(apply(current, base, next), l) = value_at(next, l)
           /\ \/ value_at(current, l) = value_at(base, l)
              \/ /\ Volatile(l)
                 /\ MISSING \notin {value_at(current, l), value_at(next, l)}
                 /\ value_at(next, l) > value_at(current, l)
  <1> DEFINE merged == apply(current, base, next)
  <1>0. PICK r \in Records, f \in Fields : l = <<r, f>>
    BY DEF Leaves
  <1>1. CASE r \in Whole(base, next)
    <2>1. merged[r] = next[r] /\ current[r] \in {base[r], next[r]}
      BY <1>1 DEF apply, Accepts
    <2>2. value_at(merged, l) = value_at(next, l)
      BY <1>0, <2>1 DEF value_at
    <2>3. current[r] # next[r]
      BY <1>0, <2>1 DEF value_at
    <2> QED
      BY <1>0, <2>1, <2>2, <2>3 DEF value_at
  <1>2. CASE r \notin Whole(base, next) /\ \A g \in Fields : <<r, g>> \notin Single(base, next)
    <2>1. merged[r] = current[r]
      BY <1>2 DEF apply
    <2> QED
      BY <1>0, <2>1 DEF value_at
  <1>3. CASE r \notin Whole(base, next) /\ ~ \A g \in Fields : <<r, g>> \notin Single(base, next)
    <2>1. merged[r] = [g \in Fields |-> IF <<r, g>> \in Single(base, next)
                                        THEN Merged(current, base, next, <<r, g>>)
                                        ELSE value_at(current, <<r, g>>)]
      BY <1>3 DEF apply
    <2>2. merged[r] # MISSING
      <3>1. \A g \in Fields : (IF <<r, g>> \in Single(base, next)
                               THEN Merged(current, base, next, <<r, g>>)
                               ELSE value_at(current, <<r, g>>)) \in Values \cup {MISSING}
        <4> TAKE g \in Fields
        <4>1. <<r, g>> \in Leaves
          BY DEF Leaves
        <4> QED
          BY <4>1, ValueType, MergedValue
      <3>2. merged[r] \in Objects
        BY <2>1, <3>1 DEF Objects
      <3> QED
        BY <3>2, MissingAssumption
    <2>3. value_at(merged, l) = IF l \in Single(base, next)
                                THEN Merged(current, base, next, l)
                                ELSE value_at(current, l)
      BY <1>0, <2>1, <2>2 DEF value_at
    <2>4. l \in Single(base, next) /\ value_at(merged, l) = Merged(current, base, next, l)
      BY <2>3
    <2> QED
      BY <2>4, MergedValue
  <1> QED
    BY <1>1, <1>2, <1>3

-----------------------------------------------------------------------------
(* The invariant.                                                          *)

\* A client has a store process exactly while it waits for one, or left one.
Spawned ==
    \A c \in Clients : store[c].pc = "none" <=> client[c].pc \in {"idle", "editing"}

\* No process has passed the initialization while there is no row.
Initialized ==
    doc = MISSING => \A p \in Processes : store[p].pc \in {"none", "seeding", "inserting"}

\* What a client takes for the stored document, it has read or written.
Known ==
    \A c \in Clients :
        /\ client[c].pc # "idle" => Contents(client[c].base) \subseteq seen[c]
        /\ store[c].pc = "projecting" => Contents(client[c].next) \subseteq seen[c]

Past(d, t) == \A l \in Leaves : value_at(d, l) # MISSING => value_at(d, l) <= t

\* Every value anybody holds was written in the past.
Timed ==
    /\ doc # MISSING => Past(doc, clock)
    /\ Past(file, clock)
    /\ \A c \in Clients : Past(client[c].base, clock) /\ Past(client[c].next, clock)
    /\ \A p \in Processes : Past(store[p].image, clock)
    /\ \A k \in Writers : writer[k] # MISSING => Past(writer[k], clock)

\* What a client writes is younger than what it started from.
Grows ==
    \A c \in Clients, l \in Leaves :
        MISSING \notin {value_at(client[c].base, l), value_at(client[c].next, l)}
            => value_at(client[c].next, l) >= value_at(client[c].base, l)

SafeInv == TypeOK /\ Spawned /\ Initialized /\ Known /\ Timed /\ Grows

LEMMA LegacyType == Legacy \in Documents /\ Past(Legacy, 0)
  <1>1. 0 \in Values
    BY ClockAssumption DEF Values
  <1>2. Legacy \in Documents
    BY <1>1, LegacyAssumption DEF Documents, Objects
  <1>3. ASSUME NEW l \in Leaves PROVE value_at(Legacy, l) \in {0, MISSING}
    BY LegacyAssumption DEF value_at, Leaves
  <1> QED
    BY <1>2, <1>3 DEF Past

LEMMA SafeInit == Init => SafeInv
  <1> SUFFICES ASSUME Init PROVE SafeInv
    OBVIOUS
  <1>1. 0 \in Values
    BY ClockAssumption DEF Values
  <1>2. TypeOK
    BY <1>1, LegacyType DEF Init, TypeOK, IdleClient, ClientStates, NoStore, StoreStates, Values
  <1>3. Spawned /\ Initialized /\ Known
    BY DEF Init, Spawned, Initialized, Known, IdleClient, NoStore, Processes
  <1>4. Timed
    BY LegacyType DEF Init, Timed, IdleClient, NoStore
  <1>5. Grows
    <2>1. \A l \in Leaves : value_at(Legacy, l) \in Values \cup {MISSING}
      BY LegacyType, ValueType
    <2> QED
      BY <2>1 DEF Init, Grows, IdleClient, Values
  <1> QED
    BY <1>2, <1>3, <1>4, <1>5 DEF SafeInv

\* A process of a client is one of the processes.
LEMMA ProcessKinds ==
    /\ Clients \subseteq Processes
    /\ Readers \subseteq Processes
    /\ \A g \in Readers : g \notin Clients
  BY ProcessAssumption DEF Processes

\* The answer to a client changes no other client.
LEMMA AnswerEffect ==
    ASSUME TypeOK, NEW c \in Clients, NEW ok \in BOOLEAN
    PROVE  /\ Answered(c, ok) \in [Clients -> ClientStates]
           /\ Answered(c, ok)[c].pc \in {"idle", "editing"}
           /\ Answered(c, ok)[c].pc = "idle" =>
                 Answered(c, ok)[c].base = Legacy /\ Answered(c, ok)[c].next = Legacy
           /\ Answered(c, ok)[c].pc = "editing" =>
                 /\ client[c].pc # "gone"
                 /\ Answered(c, ok)[c].next = client[c].next
                 /\ Answered(c, ok)[c].base = IF ok THEN client[c].next ELSE client[c].base
           /\ \A d \in Clients : d # c => Answered(c, ok)[d] = client[d]
  <1> DEFINE state == client[c]
  <1>1. state \in ClientStates
    BY DEF TypeOK
  <1>2. IdleClient \in ClientStates
    BY LegacyType DEF IdleClient, ClientStates
  <1>3. [state EXCEPT !.pc = "editing",
                      !.base = IF ok THEN state.next ELSE state.base,
                      !.reads = {}] \in ClientStates
    BY <1>1 DEF ClientStates
  <1> QED
    BY <1>1, <1>2, <1>3 DEF Answered, TypeOK, ClientStates, IdleClient

-----------------------------------------------------------------------------
(* Every step preserves it.                                                *)

\* The end of a store process moves its client, if it is a client's.
LEMMA EndEffect ==
    ASSUME TypeOK, NEW p \in Processes, Project(p) \/ Fail(p)
    PROVE  /\ store' = [store EXCEPT ![p] = NoStore]
           /\ client' \in [Clients -> ClientStates]
           /\ p \in Clients =>
                /\ client'[p].pc \in {"idle", "editing"}
                /\ client'[p].pc = "idle" =>
                      client'[p].base = Legacy /\ client'[p].next = Legacy
                /\ client'[p].pc = "editing" =>
                      /\ client[p].pc # "gone"
                      /\ client'[p].next = client[p].next
                      /\ \/ client'[p].base = client[p].base
                         \/ client'[p].base = client[p].next /\ store[p].pc = "projecting"
           /\ \A d \in Clients : d # p => client'[d] = client[d]
  <1>1. store' = [store EXCEPT ![p] = NoStore]
    BY DEF Project, Fail
  <1>2. CASE p \notin Clients
    <2>1. client' = client
      BY <1>2 DEF Project, Fail
    <2> QED
      BY <1>1, <1>2, <2>1 DEF TypeOK
  <1>3. CASE p \in Clients /\ Project(p)
    <2>1. client' = Answered(p, TRUE) /\ store[p].pc = "projecting"
      BY <1>3 DEF Project
    <2> QED
      BY <1>1, <1>3, <2>1, AnswerEffect
  <1>4. CASE p \in Clients /\ Fail(p)
    <2>1. client' = Answered(p, FALSE)
      BY <1>4 DEF Fail
    <2> QED
      BY <1>1, <1>4, <2>1, AnswerEffect
  <1> QED
    BY <1>2, <1>3, <1>4

LEMMA TypeStep == TypeOK /\ Initialized /\ [UnguardedNext]_vars => TypeOK'
  <1> SUFFICES ASSUME TypeOK, Initialized, [UnguardedNext]_vars PROVE TypeOK'
    OBVIOUS
  <1> USE ProcessKinds
  <1>1. ASSUME NEW c \in Clients, Peek(c) PROVE TypeOK'
    <2> DEFINE image == IF doc # MISSING THEN doc ELSE file
    <2>1. image \in Documents
      BY DEF TypeOK
    <2>2. [pc |-> "editing", base |-> image, next |-> image, reads |-> {}] \in ClientStates
      BY <2>1 DEF ClientStates
    <2>3. Contents(image) \subseteq Leaves \X (Values \cup {MISSING})
      BY <2>1, ContentsType
    <2> HIDE DEF image
    <2>4. /\ client' = [client EXCEPT ![c] = [pc |-> "editing", base |-> image,
                                              next |-> image, reads |-> {}]]
          /\ seen' = [seen EXCEPT ![c] = Contents(image)]
          /\ UNCHANGED <<doc, file, store, writer, clock, author>>
      BY <1>1 DEF Peek, image
    <2> QED
      BY <2>2, <2>3, <2>4 DEF TypeOK
  <1>2. ASSUME NEW c \in Clients, Edit(c) PROVE TypeOK'
    <2>1. clock + 1 \in Values
      BY <1>2, ClockAssumption DEF Edit, TypeOK, Values
    <2>2. client[c].next \in Documents
      BY DEF TypeOK, ClientStates
    <2>3. PICK next \in Edits(client[c].next, clock + 1) :
                client' = [client EXCEPT ![c].next = next]
      BY <1>2 DEF Edit
    <2>4. next \in Documents
      BY <2>1, <2>2, <2>3, EditsType
    <2>5. [client[c] EXCEPT !.next = next] \in ClientStates
      BY <2>4 DEF TypeOK, ClientStates
    <2> QED
      BY <1>2, <2>1, <2>3, <2>5 DEF Edit, TypeOK, Values
  <1>3. ASSUME NEW c \in Clients, Save(c) PROVE TypeOK'
    <2>1. PICK reads \in SUBSET Records :
                client' = [client EXCEPT ![c].pc = "waiting", ![c].reads = reads]
      <3>1. \A reads : reads \in (IF Kind = "registry" THEN {{}} \cup {{r} : r \in Records}
                                                         ELSE {{}}) => reads \in SUBSET Records
        OBVIOUS
      <3> QED
        BY <1>3, <3>1 DEF Save
    <2>2. [client[c] EXCEPT !.pc = "waiting", !.reads = reads] \in ClientStates
      <3>1. PICK s \in ClientStates : s = client[c]
        BY DEF TypeOK
      <3>2. [s EXCEPT !.pc = "waiting", !.reads = reads] \in ClientStates
        BY DEF ClientStates
      <3> QED
        BY <3>1, <3>2
    <2>3. client' \in [Clients -> ClientStates]
      BY <2>1, <2>2 DEF TypeOK
    <2>4. store' \in [Processes -> StoreStates]
      BY <1>3 DEF Save, TypeOK, StoreStates
    <2> QED
      BY <1>3, <2>3, <2>4 DEF Save, TypeOK
  <1>4. ASSUME NEW c \in Clients, Quit(c) PROVE TypeOK'
    <2>1. IdleClient \in ClientStates /\ [client[c] EXCEPT !.pc = "gone"] \in ClientStates
      BY LegacyType DEF TypeOK, IdleClient, ClientStates
    <2> QED
      BY <1>4, <2>1 DEF Quit, TypeOK
  <1>5. ASSUME NEW c \in Clients, Commit(c) PROVE TypeOK'
    <2>1. doc \in Documents
      BY <1>5 DEF Commit, Initialized, TypeOK
    <2>2. client[c].base \in Documents /\ client[c].next \in Documents
      BY DEF TypeOK, ClientStates
    <2>3. CASE Accepts(doc, client[c].base, client[c].next, client[c].reads)
      <3>1. doc' \in Documents
        BY <1>5, <2>1, <2>2, <2>3, ApplyType DEF Commit
      <3>2. [pc |-> "projecting", image |-> doc'] \in StoreStates
        BY <3>1 DEF StoreStates
      <3>3. Contents(client[c].next) \subseteq Leaves \X (Values \cup {MISSING})
        BY <2>2, ContentsType
      <3>4. /\ store' = [store EXCEPT ![c] = [pc |-> "projecting", image |-> doc']]
            /\ seen' = [seen EXCEPT ![c] = seen[c] \cup Contents(client[c].next)]
            /\ author' = c
            /\ UNCHANGED <<client, file, writer, clock>>
        BY <1>5, <2>3 DEF Commit
      <3>5. store' \in [Processes -> StoreStates]
        BY <3>2, <3>4 DEF TypeOK
      <3>6. seen' \in [Authors -> SUBSET (Leaves \X (Values \cup {MISSING}))]
        BY <3>3, <3>4 DEF TypeOK, Authors
      <3> QED
        BY <3>1, <3>4, <3>5, <3>6 DEF TypeOK, Authors
    <2>4. CASE ~Accepts(doc, client[c].base, client[c].next, client[c].reads)
      <3>1. NoStore \in StoreStates
        BY LegacyType DEF NoStore, StoreStates
      <3> QED
        BY <1>5, <2>4, <3>1, AnswerEffect DEF Commit, TypeOK
    <2> QED
      BY <2>3, <2>4
  <1>6. ASSUME NEW g \in Readers, Get(g) PROVE TypeOK'
    <2>1. [pc |-> "seeding", image |-> Legacy] \in StoreStates
      BY LegacyType DEF StoreStates
    <2>2. doc # MISSING => [pc |-> "projecting", image |-> doc] \in StoreStates
      BY DEF StoreStates, TypeOK
    <2> QED
      BY <1>6, <2>1, <2>2 DEF Get, TypeOK
  <1>7. ASSUME NEW g \in Readers, Reread(g) PROVE TypeOK'
    <2>1. [pc |-> "projecting", image |-> doc] \in StoreStates
      BY <1>7 DEF Reread, Initialized, StoreStates, TypeOK
    <2> QED
      BY <1>7, <2>1 DEF Reread, TypeOK
  <1>8. ASSUME NEW p \in Processes, ReadSeed(p) PROVE TypeOK'
    <2>1. [pc |-> "inserting", image |-> file] \in StoreStates
      BY DEF StoreStates, TypeOK
    <2> QED
      BY <1>8, <2>1 DEF ReadSeed, TypeOK
  <1>9. ASSUME NEW p \in Processes, Insert(p) PROVE TypeOK'
    <2>1. store[p].image \in Documents /\ [store[p] EXCEPT !.pc = "running"] \in StoreStates
      BY DEF StoreStates, TypeOK
    <2> QED
      BY <1>9, <2>1 DEF Insert, Goto, TypeOK
  <1>10. ASSUME NEW p \in Processes, Project(p) \/ Fail(p) PROVE TypeOK'
    <2>1. NoStore \in StoreStates /\ store[p].image \in Documents
      BY LegacyType DEF NoStore, StoreStates, TypeOK
    <2>2. client' \in [Clients -> ClientStates]
      BY <1>10, EndEffect
    <2> QED
      BY <1>10, <2>1, <2>2 DEF Project, Fail, TypeOK
  <1>11. ASSUME Transaction PROVE TypeOK'
    <2>1. clock + 1 \in Values
      BY <1>11, ClockAssumption DEF Transaction, TypeOK, Values
    <2>2. doc' \in Documents
      BY <1>11, <2>1, EditsType DEF Transaction, TypeOK
    <2> QED
      BY <1>11, <2>1, <2>2 DEF Transaction, TypeOK, Values
  <1>12. ASSUME NEW k \in Writers, ReadForWrite(k) PROVE TypeOK'
    <2>1. doc \in Documents
      BY <1>12 DEF ReadForWrite, TypeOK
    <2>2. Contents(doc) \subseteq Leaves \X (Values \cup {MISSING})
      BY <2>1, ContentsType
    <2> QED
      BY <1>12, <2>1, <2>2 DEF ReadForWrite, TypeOK
  <1>13. ASSUME NEW k \in Writers, WriteBack(k) PROVE TypeOK'
    <2>1. clock + 1 \in Values
      BY <1>13, ClockAssumption DEF WriteBack, TypeOK, Values
    <2>2. writer[k] \in Documents
      BY <1>13 DEF WriteBack, TypeOK
    <2>3. doc' \in Documents
      BY <1>13, <2>1, <2>2, EditsType DEF WriteBack
    <2> QED
      BY <1>13, <2>1, <2>3 DEF WriteBack, TypeOK, Values, Authors
  <1>14. ASSUME UNCHANGED vars PROVE TypeOK'
    BY <1>14 DEF vars, TypeOK
  <1> QED
    BY <1>1, <1>2, <1>3, <1>4, <1>5, <1>6, <1>7, <1>8, <1>9, <1>10, <1>11, <1>12, <1>13, <1>14
    DEF UnguardedNext, Next, ClientStep

LEMMA ShapeStep == TypeOK /\ Spawned /\ Initialized /\ [UnguardedNext]_vars => Spawned' /\ Initialized'
  <1> SUFFICES ASSUME TypeOK, Spawned, Initialized, [UnguardedNext]_vars PROVE Spawned' /\ Initialized'
    OBVIOUS
  <1> USE ProcessKinds
  <1>1. ASSUME NEW c \in Clients, Peek(c) \/ Edit(c) \/ Quit(c) PROVE Spawned' /\ Initialized'
    BY <1>1 DEF Peek, Edit, Quit, Spawned, Initialized, TypeOK, ClientStates, IdleClient
  <1>2. ASSUME NEW c \in Clients, Save(c) PROVE Spawned' /\ Initialized'
    <2>1. store'[c].pc = IF doc = MISSING THEN "seeding" ELSE "running"
      BY <1>2 DEF Save, TypeOK, StoreStates
    <2>2. client'[c].pc = "waiting"
      BY <1>2 DEF Save, TypeOK, ClientStates
    <2>3. /\ \A d \in Clients : d # c => client'[d] = client[d]
          /\ \A p \in Processes : p # c => store'[p] = store[p]
      BY <1>2 DEF Save, TypeOK
    <2>4. Spawned'
      BY <2>1, <2>2, <2>3 DEF Spawned
    <2>5. Initialized'
      BY <1>2, <2>1, <2>3 DEF Save, Initialized
    <2> QED
      BY <2>4, <2>5
  <1>3. ASSUME NEW c \in Clients, Commit(c) PROVE Spawned' /\ Initialized'
    <2>1. CASE Accepts(doc, client[c].base, client[c].next, client[c].reads)
      <3>1. /\ store'[c].pc = "projecting"
            /\ \A p \in Processes : p # c => store'[p] = store[p]
            /\ UNCHANGED client
            /\ store[c].pc = "running" /\ doc # MISSING
        BY <1>3, <2>1 DEF Commit, TypeOK, Initialized
      <3>2. doc' # MISSING
        BY <1>3, <2>1, <3>1, ApplyType, MissingAssumption DEF Commit, TypeOK, ClientStates
      <3> QED
        BY <3>1, <3>2 DEF Spawned, Initialized
    <2>2. CASE ~Accepts(doc, client[c].base, client[c].next, client[c].reads)
      <3>1. client' = Answered(c, FALSE) /\ store' = [store EXCEPT ![c] = NoStore] /\ doc' = doc
        BY <1>3, <2>2 DEF Commit
      <3>2. /\ Answered(c, FALSE)[c].pc \in {"idle", "editing"}
            /\ \A d \in Clients : d # c => Answered(c, FALSE)[d] = client[d]
        BY AnswerEffect
      <3>3. /\ store'[c].pc = "none"
            /\ \A p \in Processes : p # c => store'[p] = store[p]
        BY <3>1 DEF TypeOK, NoStore
      <3>4. Spawned'
        BY <3>1, <3>2, <3>3 DEF Spawned
      <3>5. Initialized'
        BY <3>1, <3>3 DEF Initialized
      <3> QED
        BY <3>4, <3>5
    <2> QED
      BY <2>1, <2>2
  <1>4. ASSUME NEW g \in Readers, Get(g) \/ Reread(g) PROVE Spawned' /\ Initialized'
    <2>1. store'[g].pc = IF doc = MISSING THEN "seeding" ELSE "projecting"
      BY <1>4 DEF Get, Reread, TypeOK, StoreStates, Initialized
    <2>2. \A p \in Processes : p # g => store'[p] = store[p]
      BY <1>4 DEF Get, Reread, TypeOK
    <2> QED
      BY <1>4, <2>1, <2>2 DEF Get, Reread, Spawned, Initialized
  <1>5. ASSUME NEW p \in Processes, ReadSeed(p) PROVE Spawned' /\ Initialized'
    BY <1>5 DEF ReadSeed, Spawned, Initialized, TypeOK, StoreStates
  <1>6. ASSUME NEW p \in Processes, Insert(p) PROVE Spawned' /\ Initialized'
    <2>1. doc' # MISSING
      BY <1>6, MissingAssumption DEF Insert, TypeOK, StoreStates
    <2> QED
      BY <1>6, <2>1 DEF Insert, Goto, Spawned, Initialized, TypeOK, StoreStates
  <1>7. ASSUME NEW p \in Processes, Project(p) \/ Fail(p) PROVE Spawned' /\ Initialized'
    <2>1. store' = [store EXCEPT ![p] = NoStore] /\ doc' = doc
      BY <1>7 DEF Project, Fail
    <2>2. \A c \in Clients : c # p => client'[c] = client[c] /\ store'[c] = store[c]
      BY <1>7, EndEffect DEF TypeOK
    <2>3. p \in Clients => client'[p].pc \in {"idle", "editing"}
      BY <1>7, EndEffect
    <2> QED
      BY <2>1, <2>2, <2>3 DEF Spawned, Initialized, TypeOK, NoStore
  <1>8. ASSUME Transaction PROVE Spawned' /\ Initialized'
    <2>1. clock + 1 \in Values
      BY <1>8, ClockAssumption DEF Transaction, TypeOK, Values
    <2>2. doc' # MISSING
      BY <1>8, <2>1, EditsType, MissingAssumption DEF Transaction, TypeOK
    <2> QED
      BY <1>8, <2>2 DEF Transaction, Spawned, Initialized
  <1>9. ASSUME NEW k \in Writers, ReadForWrite(k) PROVE Spawned' /\ Initialized'
    BY <1>9 DEF ReadForWrite, Spawned, Initialized
  <1>10. ASSUME NEW k \in Writers, WriteBack(k) PROVE Spawned' /\ Initialized'
    <2>1. clock + 1 \in Values
      BY <1>10, ClockAssumption DEF WriteBack, TypeOK, Values
    <2>2. doc' # MISSING
      BY <1>10, <2>1, EditsType, MissingAssumption DEF WriteBack, TypeOK
    <2> QED
      BY <1>10, <2>2 DEF WriteBack, Spawned, Initialized
  <1>11. ASSUME UNCHANGED vars PROVE Spawned' /\ Initialized'
    BY <1>11 DEF vars, Spawned, Initialized
  <1> QED
    BY <1>1, <1>2, <1>3, <1>4, <1>5, <1>6, <1>7, <1>8, <1>9, <1>10, <1>11 DEF UnguardedNext, Next, ClientStep

LEMMA KnownStep == TypeOK /\ Spawned /\ Known /\ [UnguardedNext]_vars => Known'
  <1> SUFFICES ASSUME TypeOK, Spawned, Known, [UnguardedNext]_vars, NEW d \in Clients
               PROVE  /\ client'[d].pc # "idle" => Contents(client'[d].base) \subseteq seen'[d]
                      /\ store'[d].pc = "projecting" => Contents(client'[d].next) \subseteq seen'[d]
    BY DEF Known, Contents, value_at
  <1> DEFINE Goal == /\ client'[d].pc # "idle" => Contents(client'[d].base) \subseteq seen'[d]
                     /\ store'[d].pc = "projecting" => Contents(client'[d].next) \subseteq seen'[d]
  <1> USE ProcessKinds
  <1>0. /\ client[d].pc # "idle" => Contents(client[d].base) \subseteq seen[d]
        /\ store[d].pc = "projecting" => Contents(client[d].next) \subseteq seen[d]
        /\ store[d].pc = "none" <=> client[d].pc \in {"idle", "editing"}
    BY DEF Known, Spawned
  <1>1. ASSUME UNCHANGED <<client[d], store[d], seen[d]>> PROVE Goal
    BY <1>0, <1>1
  <1>2. ASSUME NEW c \in Clients, Peek(c) PROVE Goal
    <2> DEFINE image == IF doc # MISSING THEN doc ELSE file
    <2>1. /\ client' = [client EXCEPT ![c] = [pc |-> "editing", base |-> image,
                                              next |-> image, reads |-> {}]]
          /\ seen' = [seen EXCEPT ![c] = Contents(image)]
          /\ store' = store /\ client[c].pc = "idle"
      BY <1>2 DEF Peek
    <2> HIDE DEF image
    <2>2. CASE d = c
      <3>1. client'[d].base = image /\ seen'[d] = Contents(image)
        BY <2>1, <2>2 DEF TypeOK, Authors
      <3> QED
        BY <1>0, <2>1, <2>2, <3>1
    <2>3. CASE d # c
      <3>1. UNCHANGED <<client[d], store[d], seen[d]>>
        BY <2>1, <2>3 DEF TypeOK
      <3> QED
        BY <1>1, <3>1
    <2> QED
      BY <2>2, <2>3
  <1>3. ASSUME NEW c \in Clients, Edit(c) PROVE Goal
    <2>1. CASE d = c
      <3>1. client'[d].base = client[d].base /\ client[d].pc = "editing"
        BY <1>3, <2>1 DEF Edit, TypeOK, ClientStates
      <3>2. store' = store /\ seen' = seen
        BY <1>3 DEF Edit
      <3> QED
        BY <1>0, <3>1, <3>2
    <2>2. CASE d # c
      <3>1. UNCHANGED <<client[d], store[d], seen[d]>>
        BY <1>3, <2>2 DEF Edit, TypeOK
      <3> QED
        BY <1>1, <3>1
    <2> QED
      BY <2>1, <2>2
  <1>4. ASSUME NEW c \in Clients, Save(c) PROVE Goal
    <2>1. CASE d = c
      <3>1. client'[d].base = client[d].base /\ client[d].pc = "editing" /\ seen' = seen
        BY <1>4, <2>1 DEF Save, TypeOK, ClientStates
      <3>2. store'[d].pc # "projecting"
        BY <1>4, <2>1 DEF Save, TypeOK, StoreStates
      <3> QED
        BY <1>0, <3>1, <3>2
    <2>2. CASE d # c
      <3>1. UNCHANGED <<client[d], store[d], seen[d]>>
        BY <1>4, <2>2 DEF Save, TypeOK
      <3> QED
        BY <1>1, <3>1
    <2> QED
      BY <2>1, <2>2
  <1>5. ASSUME NEW c \in Clients, Quit(c) PROVE Goal
    <2>1. CASE d = c
      <3>1. /\ store' = store /\ seen' = seen /\ client[d].pc \in {"editing", "waiting"}
            /\ client'[d].pc # "idle" =>
                 client'[d].base = client[d].base /\ client'[d].next = client[d].next
            /\ client'[d].pc = "idle" => client[d].pc = "editing"
        BY <1>5, <2>1 DEF Quit, TypeOK, ClientStates, IdleClient
      <3> QED
        BY <1>0, <3>1
    <2>2. CASE d # c
      <3>1. UNCHANGED <<client[d], store[d], seen[d]>>
        BY <1>5, <2>2 DEF Quit, TypeOK
      <3> QED
        BY <1>1, <3>1
    <2> QED
      BY <2>1, <2>2
  <1>6. ASSUME NEW c \in Clients, Commit(c) PROVE Goal
    <2>1. CASE d = c /\ Accepts(doc, client[c].base, client[c].next, client[c].reads)
      <3>1. client' = client /\ seen'[d] = seen[d] \cup Contents(client[d].next)
            /\ store[d].pc = "running"
        BY <1>6, <2>1 DEF Commit, TypeOK, Authors
      <3> QED
        BY <1>0, <3>1
    <2>2. CASE d = c /\ ~Accepts(doc, client[c].base, client[c].next, client[c].reads)
      <3>1. client' = Answered(c, FALSE) /\ seen' = seen /\ store'[d] = NoStore
            /\ store[d].pc = "running"
        BY <1>6, <2>2 DEF Commit, TypeOK
      <3>2. /\ Answered(c, FALSE)[c].pc \in {"idle", "editing"}
            /\ Answered(c, FALSE)[c].pc = "editing" =>
                  Answered(c, FALSE)[c].base = client[c].base
        BY AnswerEffect
      <3>3. client[d].pc # "idle" /\ Contents(client[d].base) \subseteq seen[d]
        BY <1>0, <3>1
      <3>4. client'[d].pc # "idle" => client'[d].base = client[d].base
        BY <2>2, <3>1, <3>2
      <3>5. client'[d].pc # "idle" => Contents(client'[d].base) \subseteq seen'[d]
        BY <3>1, <3>3, <3>4
      <3>6. store'[d].pc # "projecting"
        BY <3>1 DEF NoStore
      <3> QED
        BY <3>5, <3>6
    <2>3. CASE d # c
      <3>1. store'[d] = store[d] /\ seen'[d] = seen[d]
        BY <1>6, <2>3 DEF Commit, TypeOK, Authors
      <3>2. client' = client \/ client' = Answered(c, FALSE)
        BY <1>6 DEF Commit
      <3>3. Answered(c, FALSE)[d] = client[d]
        BY <2>3, AnswerEffect
      <3>4. UNCHANGED <<client[d], store[d], seen[d]>>
        BY <3>1, <3>2, <3>3
      <3> QED
        BY <1>1, <3>4
    <2> QED
      BY <2>1, <2>2, <2>3
  <1>7. ASSUME NEW g \in Readers, Get(g) \/ Reread(g) PROVE Goal
    <2>1. UNCHANGED <<client[d], store[d], seen[d]>>
      BY <1>7 DEF Get, Reread, TypeOK
    <2> QED
      BY <1>1, <2>1
  <1>8. ASSUME NEW p \in Processes, ReadSeed(p) \/ Insert(p) PROVE Goal
    <2>1. client' = client /\ seen' = seen
          /\ (store'[d] = store[d] \/ store'[d].pc # "projecting")
      BY <1>8 DEF ReadSeed, Insert, Goto, TypeOK, StoreStates
    <2> QED
      BY <1>0, <2>1
  <1>9. ASSUME NEW p \in Processes, Project(p) \/ Fail(p) PROVE Goal
    <2>1. seen' = seen
      BY <1>9 DEF Project, Fail
    <2>2. CASE d = p
      <3>1. store'[d].pc = "none"
        BY <1>9, <2>2, EndEffect DEF TypeOK, NoStore
      <3>2. store[d].pc # "none"
        BY <1>9, <2>2 DEF Project, Fail
      <3>3. client'[d].pc # "idle" => \/ client'[d].base = client[d].base
                                      \/ client'[d].base = client[d].next /\ store[d].pc = "projecting"
        BY <1>9, <2>2, EndEffect
      <3> QED
        BY <1>0, <2>1, <3>1, <3>2, <3>3
    <2>3. CASE d # p
      <3>1. UNCHANGED <<client[d], store[d], seen[d]>>
        BY <1>9, <2>1, <2>3, EndEffect DEF TypeOK
      <3> QED
        BY <1>1, <3>1
    <2> QED
      BY <2>2, <2>3
  <1>10. ASSUME Transaction PROVE Goal
    BY <1>1, <1>10 DEF Transaction
  <1>11. ASSUME NEW k \in Writers, ReadForWrite(k) \/ WriteBack(k) PROVE Goal
    <2>1. d # k
      BY ProcessAssumption
    <2>2. client' = client /\ store' = store /\ seen'[d] = seen[d]
      BY <1>11, <2>1 DEF ReadForWrite, WriteBack, TypeOK, Authors
    <2> QED
      BY <1>1, <2>2
  <1>12. ASSUME UNCHANGED vars PROVE Goal
    BY <1>1, <1>12 DEF vars
  <1> QED
    BY <1>2, <1>3, <1>4, <1>5, <1>6, <1>7, <1>8, <1>9, <1>10, <1>11, <1>12 DEF UnguardedNext, Next, ClientStep

-----------------------------------------------------------------------------
(* Time.                                                                   *)

LEMMA PastLater ==
    ASSUME NEW d \in Documents, NEW t \in Nat, NEW u \in Nat, t <= u, Past(d, t)
    PROVE  Past(d, u)
  <1> SUFFICES ASSUME NEW l \in Leaves, value_at(d, l) # MISSING PROVE value_at(d, l) <= u
    BY DEF Past
  <1>1. value_at(d, l) \in Nat
    BY ValueType, ClockAssumption DEF Values
  <1> QED
    BY <1>1 DEF Past

LEMMA PastEdit ==
    ASSUME NEW d \in Documents, NEW t \in Nat, t + 1 \in Values, Past(d, t),
           NEW e \in Edits(d, t + 1)
    PROVE  Past(e, t + 1)
  <1> SUFFICES ASSUME NEW l \in Leaves, value_at(e, l) # MISSING PROVE value_at(e, l) <= t + 1
    BY DEF Past
  <1>1. value_at(e, l) \in {value_at(d, l), t + 1, MISSING}
    BY EditsLeaf
  <1>2. value_at(e, l) \in Nat
    BY EditsType, ValueType, ClockAssumption DEF Values
  <1> QED
    BY <1>1, <1>2 DEF Past

LEMMA PastApply ==
    ASSUME NEW current \in Documents, NEW base \in Documents, NEW next \in Documents,
           NEW reads, Accepts(current, base, next, reads), NEW t \in Nat,
           Past(current, t), Past(next, t)
    PROVE  Past(apply(current, base, next), t)
  BY ApplyLeaf DEF Past

LEMMA TimedStep == TypeOK /\ Initialized /\ Timed /\ [UnguardedNext]_vars => Timed'
  <1> SUFFICES ASSUME TypeOK, Initialized, Timed, [UnguardedNext]_vars PROVE Timed'
    OBVIOUS
  <1> USE ProcessKinds
  <1>0. /\ clock \in Nat
        /\ Past(Legacy, clock)
        /\ \A c \in Clients : client[c].base \in Documents /\ client[c].next \in Documents
        /\ \A p \in Processes : store[p].image \in Documents
        /\ \A k \in Writers : writer[k] # MISSING => writer[k] \in Documents
    <2>1. clock \in Nat
      BY ClockAssumption DEF TypeOK
    <2> QED
      BY <2>1, LegacyType, PastLater DEF TypeOK, ClientStates, StoreStates
  <1>1. ASSUME NEW c \in Clients, Peek(c) PROVE Timed'
    <2> DEFINE image == IF doc # MISSING THEN doc ELSE file
    <2>1. Past(image, clock)
      BY DEF Timed
    <2>2. client' = [client EXCEPT ![c] = [pc |-> "editing", base |-> image,
                                           next |-> image, reads |-> {}]]
          /\ UNCHANGED <<doc, file, store, writer, clock>>
      BY <1>1 DEF Peek
    <2> HIDE DEF image
    <2> QED
      BY <2>1, <2>2 DEF Timed, TypeOK
  <1>2. ASSUME clock' = clock + 1, clock + 1 \in Values
        PROVE  /\ doc # MISSING => Past(doc, clock + 1)
               /\ Past(file, clock + 1)
               /\ \A c \in Clients : Past(client[c].base, clock + 1) /\ Past(client[c].next, clock + 1)
               /\ \A p \in Processes : Past(store[p].image, clock + 1)
               /\ \A k \in Writers : writer[k] # MISSING => Past(writer[k], clock + 1)
    <2>1. clock \in Nat /\ clock + 1 \in Nat /\ clock <= clock + 1
      BY <1>0
    <2>2. \A d \in Documents : Past(d, clock) => Past(d, clock + 1)
      BY <2>1, PastLater
    <2> QED
      BY <1>0, <2>2 DEF Timed, TypeOK
  <1>3. ASSUME NEW c \in Clients, Edit(c) PROVE Timed'
    <2>1. clock' = clock + 1 /\ clock + 1 \in Values
      BY <1>3, ClockAssumption DEF Edit, TypeOK, Values
    <2>2. PICK next \in Edits(client[c].next, clock + 1) :
                client' = [client EXCEPT ![c].next = next]
      BY <1>3 DEF Edit
    <2>3. Past(next, clock + 1)
      BY <1>0, <2>1, PastEdit DEF Timed
    <2>4. UNCHANGED <<doc, file, store, writer>>
      BY <1>3 DEF Edit
    <2>5. \A d \in Clients : /\ client'[d].base = client[d].base
                             /\ client'[d].next = IF d = c THEN next ELSE client[d].next
      BY <2>2 DEF TypeOK, ClientStates
    <2> QED
      BY <1>2, <2>1, <2>3, <2>4, <2>5 DEF Timed
  <1>4. ASSUME NEW c \in Clients, Save(c) PROVE Timed'
    <2>1. \A d \in Clients : client'[d].base = client[d].base /\ client'[d].next = client[d].next
      BY <1>4 DEF Save, TypeOK, ClientStates
    <2>2. \A p \in Processes : store'[p].image = store[p].image
      BY <1>4 DEF Save, TypeOK, StoreStates
    <2> QED
      BY <1>4, <2>1, <2>2 DEF Save, Timed
  <1>5. ASSUME NEW c \in Clients, Quit(c) PROVE Timed'
    <2>1. \A d \in Clients : \/ client'[d].base = client[d].base /\ client'[d].next = client[d].next
                             \/ client'[d].base = Legacy /\ client'[d].next = Legacy
      BY <1>5 DEF Quit, TypeOK, ClientStates, IdleClient
    <2> QED
      BY <1>0, <1>5, <2>1 DEF Quit, Timed
  <1>6. ASSUME NEW c \in Clients, Commit(c) PROVE Timed'
    <2>1. doc \in Documents /\ Past(doc, clock)
      BY <1>6 DEF Commit, Initialized, TypeOK, Timed
    <2>2. CASE Accepts(doc, client[c].base, client[c].next, client[c].reads)
      <3>1. /\ doc' = apply(doc, client[c].base, client[c].next)
            /\ store' = [store EXCEPT ![c] = [pc |-> "projecting", image |-> doc']]
            /\ UNCHANGED <<client, file, writer, clock>>
        BY <1>6, <2>2 DEF Commit
      <3>2. Past(doc', clock)
        BY <1>0, <2>1, <2>2, <3>1, PastApply DEF Timed
      <3> QED
        BY <3>1, <3>2 DEF Timed, TypeOK
    <2>3. CASE ~Accepts(doc, client[c].base, client[c].next, client[c].reads)
      <3>1. /\ client' = Answered(c, FALSE)
            /\ store' = [store EXCEPT ![c] = NoStore]
            /\ UNCHANGED <<doc, file, writer, clock>>
        BY <1>6, <2>3 DEF Commit
      <3>2. \A d \in Clients : \/ client'[d].base = client[d].base /\ client'[d].next = client[d].next
                               \/ client'[d].base = Legacy /\ client'[d].next = Legacy
        BY <3>1, AnswerEffect
      <3>3. \A p \in Processes : store'[p].image \in {store[p].image, Legacy}
        BY <3>1 DEF TypeOK, NoStore
      <3> QED
        BY <1>0, <3>1, <3>2, <3>3 DEF Timed
    <2> QED
      BY <2>2, <2>3
  <1>7. ASSUME NEW g \in Readers, Get(g) \/ Reread(g) PROVE Timed'
    <2>1. /\ UNCHANGED <<doc, file, client, writer, clock>>
          /\ doc # MISSING \/ store'[g].image = Legacy
          /\ store'[g].image \in {doc, Legacy}
          /\ \A p \in Processes : p # g => store'[p] = store[p]
      BY <1>7 DEF Get, Reread, TypeOK, StoreStates, Initialized
    <2> QED
      BY <1>0, <2>1 DEF Timed
  <1>8. ASSUME NEW p \in Processes, ReadSeed(p) PROVE Timed'
    BY <1>8 DEF ReadSeed, Timed, TypeOK
  <1>9. ASSUME NEW p \in Processes, Insert(p) PROVE Timed'
    <2>1. \A q \in Processes : store'[q].image = store[q].image
      BY <1>9 DEF Insert, Goto, TypeOK, StoreStates
    <2> QED
      BY <1>9, <2>1 DEF Insert, Timed
  <1>10. ASSUME NEW p \in Processes, Project(p) \/ Fail(p) PROVE Timed'
    <2>1. /\ file' \in {file, store[p].image}
          /\ UNCHANGED <<doc, writer, clock>>
      BY <1>10 DEF Project, Fail
    <2>2. \A q \in Processes : store'[q].image \in {store[q].image, Legacy}
      BY <1>10, EndEffect DEF TypeOK, NoStore
    <2>3. \A d \in Clients : /\ client'[d].base \in {client[d].base, client[d].next, Legacy}
                             /\ client'[d].next \in {client[d].next, Legacy}
      BY <1>10, EndEffect
    <2> QED
      BY <1>0, <2>1, <2>2, <2>3 DEF Timed
  <1>11. ASSUME Transaction PROVE Timed'
    <2>1. clock' = clock + 1 /\ clock + 1 \in Values
      BY <1>11, ClockAssumption DEF Transaction, TypeOK, Values
    <2>2. Past(doc', clock + 1)
      BY <1>0, <1>11, <2>1, PastEdit DEF Transaction, Timed, TypeOK
    <2> QED
      BY <1>2, <1>11, <2>1, <2>2 DEF Transaction, Timed
  <1>12. ASSUME NEW k \in Writers, ReadForWrite(k) PROVE Timed'
    BY <1>12 DEF ReadForWrite, Timed, TypeOK
  <1>13. ASSUME NEW k \in Writers, WriteBack(k) PROVE Timed'
    <2>1. clock' = clock + 1 /\ clock + 1 \in Values
      BY <1>13, ClockAssumption DEF WriteBack, TypeOK, Values
    <2>2. Past(doc', clock + 1)
      BY <1>0, <1>13, <2>1, PastEdit DEF WriteBack, Timed
    <2>3. \A j \in Writers : writer'[j] # MISSING => writer'[j] = writer[j]
      BY <1>13 DEF WriteBack, TypeOK
    <2> QED
      BY <1>2, <1>13, <2>1, <2>2, <2>3 DEF WriteBack, Timed
  <1>14. ASSUME UNCHANGED vars PROVE Timed'
    BY <1>14 DEF vars, Timed
  <1> QED
    BY <1>1, <1>3, <1>4, <1>5, <1>6, <1>7, <1>8, <1>9, <1>10, <1>11, <1>12, <1>13, <1>14
    DEF UnguardedNext, Next, ClientStep

LEMMA GrowsStep == TypeOK /\ Timed /\ Grows /\ [UnguardedNext]_vars => Grows'
  <1> SUFFICES ASSUME TypeOK, Timed, Grows, [UnguardedNext]_vars, NEW d \in Clients, NEW l \in Leaves,
                      MISSING \notin {value_at(client'[d].base, l), value_at(client'[d].next, l)}
               PROVE  value_at(client'[d].next, l) >= value_at(client'[d].base, l)
    BY DEF Grows, value_at
  <1> DEFINE Goal == value_at(client'[d].next, l) >= value_at(client'[d].base, l)
  <1> USE ProcessKinds
  <1>0. /\ client[d].base \in Documents /\ client[d].next \in Documents
        /\ \A e \in Documents : value_at(e, l) # MISSING => value_at(e, l) \in Nat
    BY ValueType, ClockAssumption DEF TypeOK, ClientStates, Values
  <1>1. ASSUME client'[d].base = client[d].base, client'[d].next = client[d].next PROVE Goal
    BY <1>1 DEF Grows
  <1>2. ASSUME client'[d].base = client'[d].next, client'[d].next \in Documents PROVE Goal
    BY <1>0, <1>2
  <1>3. ASSUME client'[d] = client[d] PROVE Goal
    BY <1>1, <1>3
  <1>4. Legacy \in Documents
    BY LegacyType
  <1>5. ASSUME NEW c \in Clients, Peek(c) PROVE Goal
    <2> DEFINE image == IF doc # MISSING THEN doc ELSE file
    <2>1. image \in Documents
      BY DEF TypeOK
    <2>2. client' = [client EXCEPT ![c] = [pc |-> "editing", base |-> image,
                                           next |-> image, reads |-> {}]]
      BY <1>5 DEF Peek
    <2> HIDE DEF image
    <2>3. CASE d = c
      <3>1. client'[d].base = image /\ client'[d].next = image
        BY <2>2, <2>3 DEF TypeOK
      <3> QED
        BY <1>2, <2>1, <3>1
    <2>4. CASE d # c
      BY <1>3, <2>2, <2>4 DEF TypeOK
    <2> QED
      BY <2>3, <2>4
  <1>6. ASSUME NEW c \in Clients, Edit(c) PROVE Goal
    <2>1. clock + 1 \in Values /\ clock \in Nat
      BY <1>6, ClockAssumption DEF Edit, TypeOK, Values
    <2>2. PICK next \in Edits(client[c].next, clock + 1) :
                client' = [client EXCEPT ![c].next = next]
      BY <1>6 DEF Edit
    <2>3. CASE d = c
      <3>1. client'[d].base = client[d].base /\ client'[d].next = next
        BY <2>2, <2>3 DEF TypeOK, ClientStates
      <3>2. value_at(next, l) \in {value_at(client[d].next, l), clock + 1, MISSING}
        BY <1>0, <2>1, <2>3, EditsLeaf
      <3>3. value_at(client[d].base, l) # MISSING /\ value_at(next, l) # MISSING
        BY <3>1
      <3>4. value_at(client[d].base, l) \in Nat /\ value_at(client[d].base, l) <= clock
        BY <1>0, <3>3 DEF Timed, Past
      <3>5. CASE value_at(next, l) = clock + 1
        BY <2>1, <3>1, <3>4, <3>5
      <3>6. CASE value_at(next, l) = value_at(client[d].next, l)
        BY <3>1, <3>3, <3>6 DEF Grows
      <3> QED
        BY <3>2, <3>3, <3>5, <3>6
    <2>4. CASE d # c
      BY <1>3, <2>2, <2>4 DEF TypeOK
    <2> QED
      BY <2>3, <2>4
  <1>7. ASSUME NEW c \in Clients, Save(c) PROVE Goal
    <2>1. client'[d].base = client[d].base /\ client'[d].next = client[d].next
      BY <1>7 DEF Save, TypeOK, ClientStates
    <2> QED
      BY <1>1, <2>1
  <1>8. ASSUME NEW c \in Clients, Quit(c) PROVE Goal
    <2>1. \/ client'[d].base = client[d].base /\ client'[d].next = client[d].next
          \/ client'[d].base = Legacy /\ client'[d].next = Legacy
      BY <1>8 DEF Quit, TypeOK, ClientStates, IdleClient
    <2> QED
      BY <1>1, <1>2, <1>4, <2>1
  <1>9. ASSUME NEW c \in Clients, Commit(c) PROVE Goal
    <2>1. client' = client \/ client' = Answered(c, FALSE)
      BY <1>9 DEF Commit
    <2>2. \/ Answered(c, FALSE)[d].base = client[d].base /\ Answered(c, FALSE)[d].next = client[d].next
          \/ Answered(c, FALSE)[d].base = Legacy /\ Answered(c, FALSE)[d].next = Legacy
      BY AnswerEffect
    <2> QED
      BY <1>1, <1>2, <1>4, <2>1, <2>2
  <1>10. ASSUME NEW p \in Processes, Project(p) \/ Fail(p) PROVE Goal
    <2>1. CASE d = p
      <3>1. \/ client'[d].base = Legacy /\ client'[d].next = Legacy
            \/ client'[d].next = client[d].next /\ client'[d].base = client[d].base
            \/ client'[d].next = client[d].next /\ client'[d].base = client[d].next
        BY <1>10, <2>1, EndEffect
      <3> QED
        BY <1>0, <1>1, <1>2, <1>4, <3>1
    <2>2. CASE d # p
      BY <1>3, <1>10, <2>2, EndEffect
    <2> QED
      BY <2>1, <2>2
  <1>11. ASSUME UNCHANGED client PROVE Goal
    BY <1>3, <1>11
  <1> QED
    BY <1>5, <1>6, <1>7, <1>8, <1>9, <1>10, <1>11
    DEF UnguardedNext, Next, ClientStep, Get, Reread, ReadSeed, Insert, Transaction, ReadForWrite, WriteBack, vars

LEMMA Safe == UnguardedSpec => []SafeInv
  <1>1. SafeInv /\ [UnguardedNext]_vars => SafeInv'
    BY TypeStep, ShapeStep, KnownStep, TimedStep, GrowsStep DEF SafeInv
  <1> QED
    BY SafeInit, <1>1, PTL DEF UnguardedSpec

-----------------------------------------------------------------------------
(* The theorems.                                                           *)

\* Every behaviour of the store without unguarded commands is one with them.
LEMMA Guarded == Spec => UnguardedSpec
  <1>1. [Next]_vars => [UnguardedNext]_vars
    BY DEF UnguardedNext
  <1> QED
    BY <1>1, PTL DEF Spec, UnguardedSpec

\* Nothing outside the documents and process states of the code is ever
\* stored, projected or held by a process, with unguarded commands or without.
THEOREM StoreTypeCorrect == UnguardedSpec => []TypeOK
  <1>1. SafeInv => TypeOK
    BY DEF SafeInv
  <1> QED
    BY Safe, <1>1, PTL

\* The steps that change the row, if the coordinator has no command that reads
\* and writes back without a lock: a merge, an insert where there is no row,
\* or a transaction.
LEMMA RowStep ==
    ASSUME SafeInv, [Next]_vars, doc # MISSING, doc' # doc
    PROVE  \/ /\ Transaction
              /\ doc \in Documents
              /\ clock \in Nat /\ clock + 1 \in Values
           \/ \E c \in Clients :
                /\ author' = c
                /\ doc \in Documents
                /\ client[c].base \in Documents /\ client[c].next \in Documents
                /\ Contents(client[c].base) \subseteq seen[c]
                /\ Accepts(doc, client[c].base, client[c].next, client[c].reads)
                /\ doc' = apply(doc, client[c].base, client[c].next)
  <1> USE ProcessKinds
  <1>0. doc \in Documents
    BY DEF SafeInv, TypeOK
  <1>1. CASE Transaction
    BY <1>0, <1>1, ClockAssumption DEF Transaction, SafeInv, TypeOK, Values
  <1>2. ASSUME NEW c \in Clients, Commit(c)
        PROVE  /\ author' = c
               /\ client[c].base \in Documents /\ client[c].next \in Documents
               /\ Contents(client[c].base) \subseteq seen[c]
               /\ Accepts(doc, client[c].base, client[c].next, client[c].reads)
               /\ doc' = apply(doc, client[c].base, client[c].next)
    <2>1. /\ Accepts(doc, client[c].base, client[c].next, client[c].reads)
          /\ doc' = apply(doc, client[c].base, client[c].next)
          /\ author' = c /\ store[c].pc = "running"
      BY <1>2 DEF Commit
    <2>2. client[c].pc # "idle"
      BY <2>1 DEF SafeInv, Spawned
    <2> QED
      BY <2>1, <2>2 DEF SafeInv, Known, TypeOK, ClientStates
  <1>3. Transaction \/ \E c \in Clients : Commit(c)
    BY DEF Next, ClientStep, Peek, Edit, Save, Quit, Get, Reread, ReadSeed, Insert, Project, Fail, vars
  <1> QED
    BY <1>0, <1>1, <1>2, <1>3

\* No update is lost, for any number of clients, late puts, crashes and
\* initializations, as long as no coordinator command writes back a copy it
\* read outside a transaction (what the run that allows them shows).
THEOREM NoneLost == Spec => NoLostUpdate
  <1>1. SafeInv /\ [Next]_vars => [KeepsUpdates]_vars
    <2> SUFFICES ASSUME SafeInv, [Next]_vars, doc # MISSING, NEW l \in Leaves, Replaced(l)
                 PROVE  \/ author' = "transaction"
                        \/ <<l, value_at(doc, l)>> \in seen[author']
                        \/ Forward(l)
      BY DEF KeepsUpdates
    <2>1. doc' # doc
      BY DEF Replaced, value_at
    <2>2. CASE Transaction
      BY <2>2 DEF Transaction
    <2>3. ASSUME NEW c \in Clients,
                 author' = c,
                 doc \in Documents,
                 client[c].base \in Documents, client[c].next \in Documents,
                 Contents(client[c].base) \subseteq seen[c],
                 Accepts(doc, client[c].base, client[c].next, client[c].reads),
                 doc' = apply(doc, client[c].base, client[c].next)
          PROVE  <<l, value_at(doc, l)>> \in seen[author'] \/ Forward(l)
      <3>0. value_at(apply(doc, client[c].base, client[c].next), l) = value_at(doc', l)
        BY <2>3
      <3>1. /\ value_at(doc', l) = value_at(client[c].next, l)
            /\ \/ value_at(doc, l) = value_at(client[c].base, l)
               \/ /\ Volatile(l)
                  /\ MISSING \notin {value_at(doc, l), value_at(client[c].next, l)}
                  /\ value_at(client[c].next, l) > value_at(doc, l)
        BY <2>3, <3>0, ApplyLeaf DEF Replaced
      <3>2. <<l, value_at(client[c].base, l)>> \in seen[c]
        BY <2>3 DEF Contents
      <3> QED
        BY <2>3, <3>1, <3>2 DEF Forward
    <2> QED
      BY <2>1, <2>2, <2>3, RowStep
  <1> QED
    BY Safe, Guarded, <1>1, PTL DEF Spec, NoLostUpdate

\* Heartbeats never move back.
THEOREM HeartbeatsAdvance == Spec => HeartbeatForward
  <1>1. SafeInv /\ [Next]_vars => [KeepsHeartbeats]_vars
    <2> SUFFICES ASSUME SafeInv, [Next]_vars, doc # MISSING, NEW l \in Leaves,
                        MISSING \notin {value_at(doc, l), value_at(doc', l)}
                 PROVE  value_at(doc', l) >= value_at(doc, l)
      BY DEF KeepsHeartbeats
    <2>0. doc \in Documents /\ value_at(doc, l) \in Nat
      BY ValueType, ClockAssumption DEF SafeInv, TypeOK, Values
    <2>1. CASE value_at(doc', l) = value_at(doc, l)
      BY <2>0, <2>1
    <2>2. CASE /\ value_at(doc', l) # value_at(doc, l)
               /\ Transaction /\ clock \in Nat /\ clock + 1 \in Values
      <3>1. value_at(doc', l) \in {value_at(doc, l), clock + 1, MISSING}
        BY <2>0, <2>2, EditsLeaf DEF Transaction
      <3>2. value_at(doc, l) <= clock
        BY DEF SafeInv, Timed, Past
      <3> QED
        BY <2>0, <2>2, <3>1, <3>2
    <2>3. ASSUME NEW c \in Clients,
                 value_at(doc', l) # value_at(doc, l),
                 client[c].base \in Documents, client[c].next \in Documents,
                 Accepts(doc, client[c].base, client[c].next, client[c].reads),
                 doc' = apply(doc, client[c].base, client[c].next)
          PROVE  value_at(doc', l) >= value_at(doc, l)
      <3>0. value_at(apply(doc, client[c].base, client[c].next), l) = value_at(doc', l)
        BY <2>3
      <3>1. /\ value_at(doc', l) = value_at(client[c].next, l)
            /\ \/ value_at(doc, l) = value_at(client[c].base, l)
               \/ value_at(client[c].next, l) > value_at(doc, l)
        BY <2>0, <2>3, <3>0, ApplyLeaf
      <3>2. value_at(client[c].next, l) \in Nat
        BY <2>3, <3>1, ValueType, ClockAssumption DEF Values
      <3>3. CASE value_at(doc, l) = value_at(client[c].base, l)
        BY <3>1, <3>3 DEF SafeInv, Grows
      <3> QED
        BY <2>0, <3>1, <3>2, <3>3
    <2> QED
      BY <2>1, <2>2, <2>3, RowStep DEF value_at
  <1> QED
    BY Safe, Guarded, <1>1, PTL DEF Spec, HeartbeatForward

-----------------------------------------------------------------------------
(* A put that is run again.                                                *)

\* What a merge makes of one record: its fields, where any is written.
LEMMA ApplyRecord ==
    ASSUME NEW current \in Documents, NEW base \in Documents, NEW next \in Documents, NEW r \in Records
    PROVE  LET merged == apply(current, base, next)
           IN  /\ r \in Whole(base, next) => merged[r] = next[r]
               /\ r \notin Whole(base, next) /\ (\A f \in Fields : <<r, f>> \notin Single(base, next))
                    => merged[r] = current[r]
               /\ \A g \in Fields : r \notin Whole(base, next) /\ <<r, g>> \in Single(base, next) =>
                    merged[r] = [f \in Fields |-> IF <<r, f>> \in Single(base, next)
                                                  THEN Merged(current, base, next, <<r, f>>)
                                                  ELSE value_at(current, <<r, f>>)]
  BY DEF apply

\* A field that is written is, after the merge, either as the client wants it or a later
\* heartbeat than the client's; a second merge of the same difference leaves it there.
LEMMA MergedStays ==
    ASSUME NEW current \in Documents, NEW base \in Documents, NEW next \in Documents,
           NEW reads, Accepts(current, base, next, reads), NEW l \in Single(base, next)
    PROVE  LET merged == apply(current, base, next)
           IN  /\ value_at(merged, l) = Merged(current, base, next, l)
               /\ \/ value_at(merged, l) = value_at(next, l)
                  \/ Volatile(l) /\ MISSING \notin {value_at(merged, l), value_at(next, l)}
               /\ Merged(merged, base, next, l) = value_at(merged, l)
  <1> DEFINE merged == apply(current, base, next)
  <1>0. PICK r \in Records, f \in Fields : l = <<r, f>> /\ r \notin Whole(base, next)
    BY DEF Single, Leaves
  <1>1. merged \in Documents BY ApplyType
  <1>2. value_at(merged, l) = Merged(current, base, next, l)
    <2>1. merged[r] = [g \in Fields |-> IF <<r, g>> \in Single(base, next)
                                        THEN Merged(current, base, next, <<r, g>>)
                                        ELSE value_at(current, <<r, g>>)]
      BY <1>0, ApplyRecord
    <2>2. merged[r][f] = Merged(current, base, next, l) BY <1>0, <2>1
    <2>3. merged[r] # MISSING
      <3>1. \A g \in Fields : (IF <<r, g>> \in Single(base, next) THEN Merged(current, base, next, <<r, g>>)
                               ELSE value_at(current, <<r, g>>)) \in Values \cup {MISSING}
        BY <1>0, MergedValue, ValueType DEF Leaves, Single
      <3>2. merged[r] \in Objects BY <2>1, <3>1 DEF Objects
      <3> QED BY <3>2, MissingAssumption
    <2> QED BY <1>0, <2>2, <2>3 DEF value_at
  <1> HIDE DEF merged
  <1>3. l \in Leaves BY DEF Single
  <1>4. PICK b, n, v, m : /\ b = value_at(base, l) /\ n = value_at(next, l) /\ v = value_at(current, l)
                          /\ m = value_at(merged, l)
    OBVIOUS
  <1>5. {b, n, v, m} \subseteq Values \cup {MISSING} /\ MISSING \notin Values /\ Values \subseteq Nat
    BY <1>1, <1>3, <1>4, ValueType, MissingAssumption, ClockAssumption DEF Values
  <1>6. m = IF v \in {b, n} THEN n ELSE IF n >= v THEN n ELSE v
    BY <1>2, <1>4 DEF Merged
  <1>7. Merged(merged, base, next, l) = IF m \in {b, n} THEN n ELSE IF n >= m THEN n ELSE m
    BY <1>4 DEF Merged
  <1>8. v \in {b, n} \/ (Volatile(l) /\ MISSING \notin {v, n})
    BY <1>4 DEF Accepts
  <1>9. m = n \/ (m = v /\ v \notin {b, n} /\ n \in Nat /\ v \in Nat /\ ~(n >= v) /\ Volatile(l))
    BY <1>5, <1>6, <1>8
  <1>10. (m = n \/ (Volatile(l) /\ MISSING \notin {m, n})) /\ (IF m \in {b, n} THEN n ELSE IF n >= m THEN n ELSE m) = m
    BY <1>5, <1>8, <1>9
  <1> QED BY <1>2, <1>4, <1>7, <1>10 DEF merged

\* A merge of any difference into any document may be repeated: it is accepted again and
\* changes nothing.
LEMMA MergeTwice ==
    ASSUME NEW current \in Documents, NEW base \in Documents, NEW next \in Documents,
           NEW reads, Accepts(current, base, next, reads)
    PROVE  LET merged == apply(current, base, next)
           IN  Accepts(merged, base, next, {}) /\ apply(merged, base, next) = merged
  <1> DEFINE merged == apply(current, base, next)
             again == apply(merged, base, next)
  <1>1. merged \in Documents BY ApplyType
  <1>2. Accepts(merged, base, next, {})
    <2>1. \A r \in Whole(base, next) : merged[r] = next[r] BY ApplyRecord DEF Whole
    <2>2. \A l \in Single(base, next) : \/ value_at(merged, l) \in {value_at(base, l), value_at(next, l)}
                                        \/ Volatile(l) /\ MISSING \notin {value_at(merged, l), value_at(next, l)}
      BY MergedStays
    <2> QED BY <2>1, <2>2 DEF Accepts
  <1>3. ASSUME NEW r \in Records PROVE again[r] = merged[r]
    <2>1. CASE r \in Whole(base, next) BY <1>1, <2>1, ApplyRecord
    <2>2. CASE r \notin Whole(base, next) /\ \A f \in Fields : <<r, f>> \notin Single(base, next)
      BY <1>1, <2>2, ApplyRecord
    <2>3. ASSUME NEW g \in Fields, r \notin Whole(base, next), <<r, g>> \in Single(base, next)
          PROVE  again[r] = merged[r]
      <3>1. merged[r] = [f \in Fields |-> IF <<r, f>> \in Single(base, next)
                                          THEN Merged(current, base, next, <<r, f>>)
                                          ELSE value_at(current, <<r, f>>)]
        BY <2>3, ApplyRecord
      <3>2. again[r] = [f \in Fields |-> IF <<r, f>> \in Single(base, next)
                                         THEN Merged(merged, base, next, <<r, f>>)
                                         ELSE value_at(merged, <<r, f>>)]
        BY <1>1, <2>3, ApplyRecord
      <3>3. ASSUME NEW f \in Fields, <<r, f>> \in Single(base, next)
            PROVE  Merged(merged, base, next, <<r, f>>) = Merged(current, base, next, <<r, f>>)
        BY <3>3, MergedStays
      <3>4. ASSUME NEW f \in Fields, <<r, f>> \notin Single(base, next)
            PROVE  value_at(merged, <<r, f>>) = value_at(current, <<r, f>>)
        <4>1. merged[r][f] = value_at(current, <<r, f>>) BY <3>1, <3>4
        <4>2. value_at(merged, <<r, g>>) = merged[r][g] \/ merged[r] = MISSING BY DEF value_at
        <4>3. merged[r] # MISSING
          <5>1. \A h \in Fields : (IF <<r, h>> \in Single(base, next) THEN Merged(current, base, next, <<r, h>>)
                                   ELSE value_at(current, <<r, h>>)) \in Values \cup {MISSING}
            BY MergedValue, ValueType DEF Leaves, Single
          <5>2. merged[r] \in Objects BY <3>1, <5>1 DEF Objects
          <5> QED BY <5>2, MissingAssumption
        <4> QED BY <4>1, <4>3 DEF value_at
      <3> HIDE DEF merged, again
      <3> QED BY <3>1, <3>2, <3>3, <3>4
    <2> QED BY <2>1, <2>2, <2>3
  <1>4. again = merged
    <2>1. again = [r \in Records |-> again[r]] BY DEF apply
    <2>2. merged = [r \in Records |-> merged[r]] BY DEF apply
    <2> HIDE DEF merged, again
    <2> QED BY <1>3, <2>1, <2>2
  <1> QED BY <1>2, <1>4

\* RetryHarmless for any documents, edits and clients, with unguarded commands or without:
\* a put whose answer was lost may be run again.  state-store.py:50-99.
THEOREM RetrySafe == UnguardedSpec => []RetryHarmless
  <1>1. TypeOK => RetryHarmless
    <2> SUFFICES ASSUME TypeOK, NEW c \in Clients, doc # MISSING,
                        Accepts(doc, client[c].base, client[c].next, client[c].reads)
                 PROVE  LET merged == apply(doc, client[c].base, client[c].next)
                        IN  /\ Accepts(merged, client[c].base, client[c].next, {})
                            /\ apply(merged, client[c].base, client[c].next) = merged
      BY DEF RetryHarmless
    <2>1. doc \in Documents /\ client[c].base \in Documents /\ client[c].next \in Documents
      BY DEF TypeOK, ClientStates
    <2> QED BY <2>1, MergeTwice
  <1> QED BY <1>1, StoreTypeCorrect, PTL
=============================================================================
