---------------------------- MODULE OutboxProofs ----------------------------
(***************************************************************************)
(* Proofs that a notice reaches the conversation it is meant for, once,    *)
(* that the tables agree with the conversations, and that tasks complete   *)
(* and accounts are free only after an acknowledgement: for any number of  *)
(* conversations, results, notices, workers and commands.                  *)
(***************************************************************************)
EXTENDS Outbox, TLAPS, FiniteSetTheorems, NaturalsInduction, WellFoundedInduction

-----------------------------------------------------------------------------
(* The line of successors. *)

\* The hops that reach the end of every line, and the tables of successors.
Size == Cardinality(Sessions)
Tables == [Sessions -> Sessions \cup {NoSession}]

\* A set of numbers has a least member (the induction theorems take operators).
LEMMA Least ==
  ASSUME NEW L, L \subseteq Nat, L # {}
  PROVE  \E l \in L : \A k \in L : l <= k
  <1>1. \E l \in L : \A k \in L : <<k, l>> \notin OpToRel(<, Nat)
    BY WFMin, NatLessThanWellFounded, Zenon
  <1>2. \E l \in L : \A k \in L : ~(k < l)
    BY <1>1, Zenon DEF OpToRel
  <1> QED BY <1>2

\* There are finitely many conversations.
LEMMA SizeNat == Size \in Nat
  BY RefAssumption, FS_CardinalityType DEF Size

\* A walk of n hops from r.
Walk(heir, r, n, g) ==
    /\ g \in [0..n -> Sessions \cup {r}]
    /\ \A i \in 0..n : g[i] = IF i = 0 THEN r ELSE Hop(heir, g[i - 1])

\* A hop from a known conversation ends at one.
LEMMA HopStays ==
  ASSUME NEW heir \in Tables, NEW r, NEW x \in Sessions \cup {r}
  PROVE  Hop(heir, x) \in Sessions \cup {r}
  BY DEF Hop, Tables

\* From everywhere there is a walk of any length.
LEMMA Walks ==
  ASSUME NEW heir \in Tables, NEW r, NEW n \in Nat
  PROVE  \E g : Walk(heir, r, n, g)
  <1> DEFINE Bad == {m \in Nat : ~ \E g : Walk(heir, r, m, g)}
  <1>1. CASE Bad = {} BY <1>1
  <1>2. CASE Bad # {}
    <2>1. PICK m \in Bad : \A k \in Bad : m <= k BY <1>2, Least
    <2>2. m # 0
      <3>1. Walk(heir, r, 0, [i \in 0..0 |-> r]) BY DEF Walk
      <3> QED BY <3>1, <2>1
    <2>3. m \in Nat /\ m - 1 \in Nat /\ m - 1 \notin Bad BY <2>1, <2>2
    <2>4. PICK g : Walk(heir, r, m - 1, g) BY <2>3
    <2> DEFINE h == [i \in 0..m |-> IF i = m THEN Hop(heir, g[m - 1]) ELSE g[i]]
    <2>5. \A i \in 0..(m - 1) : g[i] \in Sessions \cup {r} /\ g[i] = IF i = 0 THEN r ELSE Hop(heir, g[i - 1]) BY <2>4, <2>3 DEF Walk
    <2>6. Hop(heir, g[m - 1]) \in Sessions \cup {r}
      <3>1. m - 1 \in 0..(m - 1) BY <2>3
      <3>2. g[m - 1] \in Sessions \cup {r} BY <3>1, <2>5
      <3> QED BY <3>2, HopStays
    <2>7. Walk(heir, r, m, h)
      <3>1. h \in [0..m -> Sessions \cup {r}] BY <2>3, <2>5, <2>6
      <3>2. ASSUME NEW i \in 0..m PROVE h[i] = IF i = 0 THEN r ELSE Hop(heir, h[i - 1])
        <4>1. CASE i = m BY <4>1, <2>2, <2>3
        <4>2. CASE i # m 
          <5>1. i \in 0..(m-1) /\ h[i] = g[i] BY <4>2, <2>3
          <5>2. i # 0 => i - 1 \in 0..m /\ i - 1 # m /\ h[i - 1] = g[i - 1] BY <5>1, <2>3
          <5> QED BY <5>1, <5>2, <2>5
        <4> QED BY <4>1, <4>2
      <3> HIDE DEF h
      <3> QED BY <3>1, <3>2 DEF Walk
    <2> QED BY <2>1, <2>7
  <1> QED BY <1>1, <1>2

\* The chain that resolve_successor follows is the walk of Size hops.
LEMMA ChainIs ==
  ASSUME NEW heir \in Tables, NEW r
  PROVE  Walk(heir, r, Size, Chain(heir, r))
  <1>1. PICK g : Walk(heir, r, Size, g) BY Walks, SizeNat
  <1>2. g = [n \in 0..Size |-> IF n = 0 THEN r ELSE Hop(heir, g[n - 1])]
    BY <1>1, SizeNat DEF Walk
  <1>3. Chain(heir, r) = CHOOSE f : f = [n \in 0..Size |-> IF n = 0 THEN r ELSE Hop(heir, f[n - 1])]
    BY DEF Chain, Size
  <1>4. Chain(heir, r) = [n \in 0..Size |-> IF n = 0 THEN r ELSE Hop(heir, Chain(heir, r)[n - 1])]
    BY <1>2, <1>3
  <1> DEFINE f == Chain(heir, r)
  <1>5. /\ DOMAIN f = 0..Size /\ f = [n \in 0..Size |-> f[n]]
        /\ \A n \in 0..Size : f[n] = IF n = 0 THEN r ELSE Hop(heir, f[n - 1])
    BY <1>4
  <1> HIDE DEF f
  <1> DEFINE Off == {n \in 0..Size : f[n] \notin Sessions \cup {r}}
  <1>6. CASE Off # {}
    <2>1. PICK n \in Off : \A k \in Off : n <= k
      <3>1. Off \subseteq Nat BY SizeNat
      <3> HIDE DEF Off
      <3> QED BY <3>1, <1>6, Least
    <2>2. n # 0 BY <2>1, <1>5
    <2>3. n - 1 \in 0..Size /\ n - 1 \notin Off BY <2>1, <2>2, SizeNat
    <2>4. f[n - 1] \in Sessions \cup {r} BY <2>3
    <2>5. f[n] = Hop(heir, f[n - 1]) BY <1>5, <2>1, <2>2
    <2>6. Hop(heir, f[n - 1]) \in Sessions \cup {r} BY <2>4, HopStays
    <2> QED BY <2>1, <2>5, <2>6
  <1>7. CASE Off = {}
    <2>1. f \in [0..Size -> Sessions \cup {r}] BY <1>5, <1>7
    <2>2. Walk(heir, r, Size, f) BY <2>1, <1>5 DEF Walk
    <2> QED BY <2>2 DEF f
  <1> QED BY <1>6, <1>7

\* The conversations that r leads to.
Line(heir, r) == {Chain(heir, r)[n] : n \in 0..Size}

\* A line begins with its first conversation, and the end of the chain is in it.
LEMMA Begins ==
  ASSUME NEW heir \in Tables, NEW r
  PROVE  r \in Line(heir, r) /\ Chain(heir, r)[Size] \in Line(heir, r)
  BY ChainIs, SizeNat DEF Walk, Line

\* Whatever contains r and all that its members hand over to contains the line of r.
LEMMA Contains ==
  ASSUME NEW heir \in Tables, NEW r, NEW S, r \in S, \A x \in S : Hop(heir, x) \in S
  PROVE  Line(heir, r) \subseteq S
  <1> DEFINE f == Chain(heir, r)
  <1>1. \A n \in 0..Size : f[n] = IF n = 0 THEN r ELSE Hop(heir, f[n - 1]) BY ChainIs DEF Walk
  <1> HIDE DEF f
  <1> DEFINE Off == {n \in 0..Size : f[n] \notin S}
  <1>2. CASE Off # {}
    <2>1. PICK n \in Off : \A k \in Off : n <= k
      <3>1. Off \subseteq Nat BY SizeNat
      <3> HIDE DEF Off
      <3> QED BY <3>1, <1>2, Least
    <2>2. n # 0 BY <2>1, <1>1
    <2>3. n - 1 \in 0..Size /\ n - 1 \notin Off BY <2>1, <2>2, SizeNat
    <2>4. f[n - 1] \in S BY <2>3
    <2>5. f[n] = Hop(heir, f[n - 1]) BY <1>1, <2>1, <2>2
    <2> QED BY <2>1, <2>4, <2>5
  <1>3. CASE Off = {} BY <1>3 DEF Line, f
  <1> QED BY <1>2, <1>3

\* The line of a conversation consists of conversations; nobody else has successors.
LEMMA Inside ==
  ASSUME NEW heir \in Tables, NEW r
  PROVE  /\ r \in Sessions => Line(heir, r) \subseteq Sessions
         /\ r \notin Sessions => Line(heir, r) = {r}
  <1>1. ASSUME r \in Sessions PROVE Line(heir, r) \subseteq Sessions
    <2>1. \A x \in Sessions : Hop(heir, x) \in Sessions BY DEF Hop, Tables
    <2> QED BY <1>1, <2>1, Contains
  <1>2. ASSUME r \notin Sessions PROVE Line(heir, r) = {r}
    <2>1. \A x \in {r} : Hop(heir, x) \in {r} BY <1>2 DEF Hop
    <2>2. Line(heir, r) \subseteq {r} BY <2>1, Contains
    <2> QED BY <2>2, Begins
  <1> QED BY <1>1, <1>2

\* The line is long enough: it repeats itself before it ends.
LEMMA Closed ==
  ASSUME NEW heir \in Tables, NEW r, NEW x \in Line(heir, r)
  PROVE  Hop(heir, x) \in Line(heir, r)
  <1> DEFINE f == Chain(heir, r)
  <1>1. \A n \in 0..Size : f[n] = IF n = 0 THEN r ELSE Hop(heir, f[n - 1]) BY ChainIs DEF Walk
  <1>2. PICK n \in 0..Size : x = f[n] BY DEF Line
  <1>3. CASE r \notin Sessions BY <1>3, Inside DEF Hop
  <1>4. CASE r \in Sessions /\ n # Size
    <2>1. n + 1 \in 0..Size /\ n + 1 # 0 /\ (n + 1) - 1 = n BY <1>4, SizeNat
    <2>2. f[n + 1] = Hop(heir, x) BY <2>1, <1>1, <1>2
    <2> QED BY <2>1, <2>2 DEF Line
  <1>5. CASE r \in Sessions /\ n = Size
    <2>1. f \in [0..Size -> Sessions]
      <3>1. Sessions \cup {r} = Sessions BY <1>5
      <3> QED BY <3>1, ChainIs DEF Walk
    <2>2. PICK i, j \in 0..Size : i < j /\ f[i] = f[j]
      <3>1. IsFiniteSet(0..Size) /\ Cardinality(0..Size) = Size + 1
        <4>1. 0 \in Int /\ Size \in Int /\ 0 <= Size BY SizeNat
        <4> QED BY <4>1, FS_Interval
      <3>2. IsFiniteSet(Sessions) /\ Cardinality(Sessions) < Cardinality(0..Size)
        BY <3>1, SizeNat, RefAssumption DEF Size
      <3>3. \E i, j \in 0..Size : i # j /\ f[i] = f[j]
        <4> HIDE DEF f
        <4> QED BY <3>1, <3>2, <2>1, FS_PigeonHole
      <3>4. PICK i, j \in 0..Size : i # j /\ f[i] = f[j] BY <3>3
      <3>5. i < j \/ j < i BY <3>4, SizeNat
      <3> QED BY <3>4, <3>5
    <2> HIDE DEF f
    <2> DEFINE Off == {m \in 0..(Size - j) : f[i + m] # f[j + m]}
    <2>3. Off = {}
      <3> SUFFICES ASSUME Off # {} PROVE FALSE OBVIOUS
      <3>1. PICK m \in Off : \A k \in Off : m <= k
        <4>1. Off \subseteq Nat BY <2>2, SizeNat
        <4> HIDE DEF Off
        <4> QED BY <4>1, Least
      <3>2. m # 0 BY <3>1, <2>2, SizeNat
      <3>3. m - 1 \in 0..(Size - j) /\ m - 1 \notin Off BY <3>1, <3>2, <2>2, SizeNat
      <3>4. f[i + (m - 1)] = f[j + (m - 1)] BY <3>3
      <3>5. /\ i + m \in 0..Size /\ i + m # 0 /\ (i + m) - 1 = i + (m - 1)
            /\ j + m \in 0..Size /\ j + m # 0 /\ (j + m) - 1 = j + (m - 1)
        BY <3>1, <3>2, <2>2, SizeNat
      <3>6. f[i + m] = Hop(heir, f[i + (m - 1)]) /\ f[j + m] = Hop(heir, f[j + (m - 1)]) BY <3>5, <1>1
      <3> QED BY <3>1, <3>4, <3>6
    <2>4. Size - j \in 0..(Size - j) /\ j + (Size - j) = Size BY <2>2, SizeNat
    <2>5. f[i + (Size - j)] = f[Size] BY <2>3, <2>4
    <2>6. /\ i + (Size - j) + 1 \in 0..Size /\ i + (Size - j) + 1 # 0
          /\ (i + (Size - j) + 1) - 1 = i + (Size - j)
      BY <2>2, SizeNat
    <2>7. f[i + (Size - j) + 1] = Hop(heir, x) BY <2>5, <2>6, <1>1, <1>2, <1>5
    <2> QED BY <2>6, <2>7 DEF Line, f
  <1> QED BY <1>3, <1>4, <1>5

\* The line of an heir is part of the line.
LEMMA Continues ==
  ASSUME NEW heir \in Tables, NEW r, NEW x \in Line(heir, r)
  PROVE  Line(heir, x) \subseteq Line(heir, r)
  BY Closed, Contains

\* A conversation without a successor gets one: lines only grow.
LEMMA Extended ==
  ASSUME NEW heir \in Tables, NEW s \in Sessions, heir[s] = NoSession, NEW t \in Sessions, NEW r
  PROVE  Line(heir, r) \subseteq Line([heir EXCEPT ![s] = t], r)
  <1> DEFINE next == [heir EXCEPT ![s] = t]
  <1>1. next \in Tables /\ \A x \in Sessions : x # s => next[x] = heir[x] BY DEF Tables
  <1> HIDE DEF next
  <1>2. \A x : Hop(heir, x) = x \/ Hop(heir, x) = Hop(next, x) BY <1>1 DEF Hop
  <1>3. \A x \in Line(next, r) : Hop(heir, x) \in Line(next, r) BY <1>1, <1>2, Closed
  <1>4. r \in Line(next, r) BY <1>1, Begins
  <1>5. Line(heir, r) \subseteq Line(next, r) BY <1>3, <1>4, Contains
  <1> QED BY <1>5 DEF next

-----------------------------------------------------------------------------
(* The invariant. *)

Busy == {"claimed", "redirecting", "ready", "sending", "finishing"}
Working(w) == worker[w].pc \in Busy
InFlight == {"DISPATCHING", "DELIVERY_UNKNOWN", "SENT", "RECONCILED_SUPERSEDED"}
Outs == {"WAITING_ROUTE", "SENT", "DELIVERY_UNKNOWN", "QUEUED", "FAILED_PRE_SEND"}

\* Whoever the messages of notice k are for.
Owner(k) == IF k[1] \in Events \/ contract = NoSession THEN k[2] ELSE contract

\* Who was replaced is retired, and stays it.
Committed == \A s \in Sessions : succ[s] # NoSession => chat[s] = "retired"

\* A result and its one callback name each other; deliveries and a cancel name notices.
Named ==
    /\ \A v \in DOMAIN results :
         results[v].op # NoKey => results[v].op \in DOMAIN ops /\ results[v].op[1] = v
    /\ \A k \in DOMAIN ops :
         /\ k[1] \in Versions => k[1] \in DOMAIN results /\ results[k[1]].op = k
         /\ ops[k].status = "RECONCILED_SUPERSEDED" => k[1] \in Events
    /\ \A d \in DOMAIN deliveries : deliveries[d].op \in DOMAIN ops
    /\ canceller # NoCancel => canceller.key \in DOMAIN ops

\* A notice is addressed to its owner or a committed successor of it, and to a conversation
\* unless it waits for one.
Addressed ==
    /\ \A k \in DOMAIN ops :
         /\ ops[k].status # "WAITING_ROUTE" => ops[k].session \in Sessions
         /\ Owner(k) # NoSession => ops[k].session \in Line(succ, Owner(k))
    /\ contract # NoSession => \A v \in DOMAIN results : results[v].owner = contract
    /\ \A w \in Workers : worker[w].pc = "redirecting" =>
         worker[w].heir \in Sessions /\ worker[w].heir \in Line(succ, worker[w].session)

\* What a command read of the owner and its successors.
Called ==
    \A c \in calls :
        /\ c.active => c.owner \in Sessions /\ c.target \in Sessions
        /\ c.notice \in Events => c.owner \in Sessions
        /\ IF c.notice \in Events \/ contract = NoSession THEN c.owner = c.target
           ELSE c.owner = contract /\ c.target \in Line(succ, contract)

\* A worker between claim and finish works on the current attempt of its notice, alone, with
\* the right address, although the claim may have expired.
Held ==
    /\ \A w \in Workers : Working(w) =>
         /\ worker[w].key \in DOMAIN ops
         /\ ops[worker[w].key].attempts = worker[w].attempts
         /\ ops[worker[w].key].session = worker[w].session
         /\ ops[worker[w].key].status \in InFlight
         /\ worker[w].pc = "finishing" =>
              worker[w].out \in Outs /\ (worker[w].out = "SENT" => Proven(worker[w].key))
    /\ \A w, u \in Workers : Working(w) /\ Working(u) /\ worker[w].key = worker[u].key => w = u

\* A posted message is that of the current attempt, which is not claimed again.
Posts ==
    \A p \in posted :
        /\ p[1] \in DOMAIN ops /\ p[2] = ops[p[1]].session /\ ops[p[1]].status \in InFlight
        /\ \A w \in Workers : Working(w) /\ worker[w].key = p[1] =>
             worker[w].pc = "finishing" /\ worker[w].out \in {"SENT", "DELIVERY_UNKNOWN"}

\* The mirror of a result whose callback waits or was sent says so until the result is
\* acknowledged, unless a late cancel rewrote it.
Mirrored ==
    /\ \A v \in DOMAIN results \ missed : results[v].op # NoKey /\ results[v].ack = "none" =>
         /\ ops[results[v].op].status = "WAITING_ROUTE" => results[v].mirror = "WAITING_ROUTE"
         /\ ops[results[v].op].status = "SENT" => results[v].mirror = "DELIVERED"
    /\ DeliveredIsPosted

\* Stamps tell reports apart, and the task shows a report.
Timed ==
    /\ \A c \in calls : c.stamp <= issued
    /\ \A c, d \in calls : c.stamp = d.stamp => c = d
    /\ \A v \in DOMAIN results : results[v].stamp <= issued
    /\ \A v \in DOMAIN results, c \in calls : c.stamp # results[v].stamp
    /\ \A u, v \in DOMAIN results : results[u].stamp = results[v].stamp => u = v
    /\ DOMAIN results # {} => task.version \in DOMAIN results
    /\ DOMAIN results = {} => task.status = "RUNNING"
    /\ CompleteIsAccepted

OutboxInv == TypeOK /\ Committed /\ Named /\ Addressed /\ Called /\ Held /\ Posts /\ Mirrored /\ Timed

-----------------------------------------------------------------------------
(* Successors and owners. *)

LEMMA Tabled == TypeOK => succ \in Tables
  BY DEF TypeOK, Tables

LEMMA Resolved ==
  ASSUME TypeOK, NEW r
  PROVE  /\ Resolve(r) \in Line(succ, r) /\ Heirs(r) = Line(succ, r)
         /\ r \in Refs => Resolve(r) \in Refs
  <1>1. Resolve(r) \in Line(succ, r) /\ Heirs(r) = Line(succ, r)
    BY Tabled, Begins DEF Resolve, Heirs, Line, Size
  <1>2. CASE r \in Sessions BY <1>1, <1>2, Tabled, Inside DEF Refs
  <1>3. CASE r \notin Sessions BY <1>1, <1>3, Tabled, Inside
  <1> QED BY <1>1, <1>2, <1>3

\* An active conversation has no successor.
LEMMA Current ==
  ASSUME TypeOK, Committed, NEW r, Active(r) \/ r = NoSession
  PROVE  Resolve(r) = r
  <1>1. \A x \in {r} : Hop(succ, x) \in {r} BY RefAssumption DEF Hop, Active, Committed
  <1>2. Line(succ, r) \subseteq {r} BY <1>1, Tabled, Contains
  <1> QED BY <1>2, Resolved

LEMMA Owners ==
  ASSUME TypeOK, Committed
  PROVE  /\ OwnerRef \in Refs
         /\ contract # NoSession => OwnerRef = contract
         /\ contract = NoSession => Resolve(OwnerRef) = OwnerRef
         /\ RootOwner \in Sessions \cup {NoSession}
         /\ Controller \in Sessions \cup {NoSession}
  <1>1. (RootOwner \in Sessions /\ Active(RootOwner)) \/ RootOwner = NoSession BY DEF RootOwner
  <1>2. Controller \in Sessions \cup {NoSession} BY <1>1 DEF Controller, Lead
  <1>3. contract \in Refs BY DEF TypeOK
  <1> QED BY <1>1, <1>2, <1>3, Current DEF OwnerRef, Refs

\* Who inherits from a member of a line is a member of it.
LEMMA Inherits ==
  ASSUME TypeOK, NEW r, NEW x \in Line(succ, r)
  PROVE  Resolve(x) \in Line(succ, r)
  BY Tabled, Resolved, Continues

-----------------------------------------------------------------------------
(* Parts of the invariant that a step leaves alone. *)

LEMMA CommittedKept == ASSUME Committed, UNCHANGED routeVars PROVE Committed'
  BY DEF Committed, routeVars

LEMMA CalledKept == ASSUME Called, UNCHANGED routeVars, calls' \subseteq calls PROVE Called'
  BY DEF Called, routeVars

LEMMA TimedKept ==
  ASSUME Timed, TypeOK, UNCHANGED <<task, issued>>, calls' \subseteq calls,
         DOMAIN results' = DOMAIN results,
         \A v \in DOMAIN results : results'[v].stamp = results[v].stamp /\ results'[v].ack = results[v].ack
  PROVE  Timed'
  <1>1. ShowsLatest' <=> ShowsLatest
    <2>1. CASE DOMAIN results = {} BY <2>1 DEF ShowsLatest
    <2>2. CASE DOMAIN results # {} BY <2>2 DEF ShowsLatest, Timed
    <2> QED BY <2>1, <2>2
  <1>2. CompleteIsAccepted'
    <2>1. CASE DOMAIN results = {} BY <2>1 DEF CompleteIsAccepted, Timed
    <2>2. CASE DOMAIN results # {} BY <1>1, <2>2 DEF CompleteIsAccepted, Timed
    <2> QED BY <2>1, <2>2
  <1> QED BY <1>2 DEF Timed

LEMMA NamedKept ==
  ASSUME Named, DOMAIN ops' = DOMAIN ops, canceller' \in {canceller, NoCancel},
         \A k \in DOMAIN ops : ops'[k].status = "RECONCILED_SUPERSEDED" =>
                                 ops[k].status = "RECONCILED_SUPERSEDED" \/ k[1] \in Events,
         DOMAIN results' = DOMAIN results, \A v \in DOMAIN results : results'[v].op = results[v].op,
         \A d \in DOMAIN deliveries' : deliveries'[d].op \in DOMAIN ops
  PROVE  Named'
  BY DEF Named

LEMMA AddressedKept ==
  ASSUME Addressed, UNCHANGED routeVars, DOMAIN ops' = DOMAIN ops,
         \A k \in DOMAIN ops : /\ ops'[k].session = ops[k].session
                               /\ ops'[k].status # "WAITING_ROUTE" => ops[k].session \in Sessions,
         DOMAIN results' = DOMAIN results, \A v \in DOMAIN results : results'[v].owner = results[v].owner,
         \A w \in Workers : worker'[w].pc = "redirecting" => worker'[w] = worker[w]
  PROVE  Addressed'
  <1>1. succ' = succ /\ contract' = contract /\ \A k : Owner(k)' = Owner(k) BY DEF routeVars, Owner
  <1> QED BY <1>1 DEF Addressed

\* Rows and posts stay as they are, but for rows not in flight; workers that work stay.
LEMMA HeldKept ==
  ASSUME Held, Posts, posted' = posted, DOMAIN ops \subseteq DOMAIN ops',
         \A u \in Workers : worker'[u].pc \in Busy => worker'[u] = worker[u],
         \A k \in DOMAIN ops : ops[k].status \in InFlight =>
             /\ ops'[k].session = ops[k].session /\ ops'[k].attempts = ops[k].attempts
             /\ ops'[k].status \in InFlight
  PROVE  Held' /\ Posts'
  <1>1. \A w \in Workers : Working(w)' => Working(w) /\ worker'[w] = worker[w] BY DEF Working
  <1>2. ASSUME NEW k, Proven(k) PROVE Proven(k)' BY <1>2 DEF Proven, Posts
  <1>3. ASSUME NEW w \in Workers, Working(w)
        PROVE  /\ worker[w].key \in DOMAIN ops'
               /\ ops'[worker[w].key].attempts = worker[w].attempts
               /\ ops'[worker[w].key].session = worker[w].session
               /\ ops'[worker[w].key].status \in InFlight
    BY <1>3 DEF Held
  <1>4. ASSUME NEW w \in Workers, Working(w)'
        PROVE  (worker[w].pc = "finishing" =>
                  worker[w].out \in Outs /\ (worker[w].out = "SENT" => Proven(worker[w].key)))'
    <2>1. Working(w) /\ worker'[w] = worker[w] BY <1>1, <1>4
    <2>2. worker[w].pc = "finishing" =>
            worker[w].out \in Outs /\ (worker[w].out = "SENT" => Proven(worker[w].key)')
      BY <1>2, <2>1 DEF Held
    <2> QED BY <2>1, <2>2 DEF Proven
  <1>5. \A w, u \in Workers : Working(w)' /\ Working(u)' /\ worker'[w].key = worker'[u].key => w = u
    BY <1>1 DEF Held
  <1>6. Held' BY <1>1, <1>3, <1>4, <1>5 DEF Held
  <1>7. Posts' BY <1>1 DEF Posts
  <1> QED BY <1>6, <1>7

\* Mirrors say DELIVERED only where they said so before, or of a notice that was posted.
LEMMA DeliveredKept ==
  ASSUME Mirrored, Posts, posted \subseteq posted', DOMAIN ops \subseteq DOMAIN ops',
         \A k \in DOMAIN ops : ops[k].status \in InFlight => ops'[k].session = ops[k].session,
         \A v \in DOMAIN results' : results'[v].mirror = "DELIVERED" =>
             \/ v \in DOMAIN results /\ results[v].mirror = "DELIVERED" /\ results'[v].op = results[v].op
             \/ <<results'[v].op, ops'[results'[v].op].session>> \in posted',
         \A d \in DOMAIN deliveries' : deliveries'[d].status = "DELIVERED" =>
             \/ /\ d \in DOMAIN deliveries /\ deliveries[d].status = "DELIVERED"
                /\ deliveries'[d].op = deliveries[d].op
             \/ <<deliveries'[d].op, ops'[deliveries'[d].op].session>> \in posted'
  PROVE  DeliveredIsPosted'
  <1>1. ASSUME NEW k, Proven(k) PROVE Proven(k)' BY <1>1 DEF Proven, Posts
  <1>2. ASSUME NEW v \in DOMAIN results', results'[v].mirror = "DELIVERED"
        PROVE  <<results'[v].op, ops'[results'[v].op].session>> \in posted'
    BY <1>1, <1>2 DEF DeliveredIsPosted, Mirrored, Proven
  <1>3. ASSUME NEW d \in DOMAIN deliveries', deliveries'[d].status = "DELIVERED"
        PROVE  <<deliveries'[d].op, ops'[deliveries'[d].op].session>> \in posted'
    BY <1>1, <1>3 DEF DeliveredIsPosted, Mirrored, Proven
  <1> QED BY <1>2, <1>3 DEF DeliveredIsPosted, Proven

-----------------------------------------------------------------------------
(* Steps of a worker that leave the tables alone. *)

\* Worker w goes on with the notice it has, or gives it up; it may have posted it.
LEMMA WorkerOnly ==
  ASSUME OutboxInv, NEW w \in Workers, NEW x \in Copies, worker' = [worker EXCEPT ![w] = x],
         UNCHANGED <<routeVars, task, results, ops, deliveries, userVars, missed>>,
         x.key \in {NoKey, worker[w].key},
         x.pc \in Busy => /\ Working(w) /\ worker[w].pc # "finishing" /\ x.key = worker[w].key
                          /\ x.attempts = worker[w].attempts /\ x.session = worker[w].session,
         x.pc = "finishing" => x.out \in Outs /\ (x.out = "SENT" => <<x.key, x.session>> \in posted'),
         x.pc = "redirecting" => x.heir \in Sessions /\ x.heir \in Line(succ, x.session),
         \/ posted' = posted
         \/ /\ posted' = posted \cup {<<x.key, x.session>>}
            /\ x.pc = "finishing" /\ x.out \in {"SENT", "DELIVERY_UNKNOWN"}
  PROVE  OutboxInv'
  <1> USE DEF OutboxInv
  <1>1. /\ worker'[w] = x /\ \A u \in Workers : u # w => worker'[u] = worker[u]
        /\ worker' \in [Workers -> Copies]
    BY DEF TypeOK
  <1>2. \A u \in Workers : Working(u)' => Working(u) /\ worker'[u].key = worker[u].key
                            /\ worker'[u].attempts = worker[u].attempts
                            /\ worker'[u].session = worker[u].session
    BY <1>1 DEF Working
  <1>3. x.pc \in Busy => /\ x.key \in DOMAIN ops /\ x.session = ops[x.key].session /\ x.session \in Sessions
                         /\ ops[x.key].status \in InFlight
    <2>1. Working(w) => ops[worker[w].key].status \in InFlight BY DEF Held
    <2>2. Working(w) => ops[worker[w].key].status # "WAITING_ROUTE" BY <2>1 DEF InFlight
    <2> QED BY <1>2, <2>1, <2>2 DEF Held, Addressed
  <1>4. posted \subseteq posted'
        /\ \A p \in posted' : p \in posted \/ (/\ p = <<x.key, x.session>> /\ x.pc = "finishing"
                                               /\ x.out \in {"SENT", "DELIVERY_UNKNOWN"})
    OBVIOUS
  <1>5. TypeOK'
    <2>1. posted' \subseteq (DOMAIN ops) \X Sessions
      <3>1. CASE posted' = posted BY <3>1 DEF TypeOK
      <3>2. CASE posted' # posted
        <4>1. x.pc \in Busy BY <3>2 DEF Busy
        <4> QED BY <1>3, <3>2, <4>1 DEF TypeOK
      <3> QED BY <3>1, <3>2
    <2>2. \A u \in Workers : worker'[u].key \in DOMAIN ops \cup {NoKey} BY <1>1 DEF TypeOK
    <2> QED BY <1>1, <2>1, <2>2 DEF TypeOK, routeVars, userVars
  <1>6. Committed' /\ Called' BY CommittedKept, CalledKept DEF userVars
  <1>7. Named' BY NamedKept DEF userVars, Named
  <1>8. Addressed'
    <2>1. succ' = succ /\ contract' = contract /\ \A k : Owner(k)' = Owner(k) BY DEF routeVars, Owner
    <2> QED BY <1>1, <2>1 DEF Addressed
  <1>9. Held'
    <2>1. ASSUME NEW u \in Workers, Working(u)'
          PROVE  /\ worker'[u].key \in DOMAIN ops
                 /\ ops[worker'[u].key].attempts = worker'[u].attempts
                 /\ ops[worker'[u].key].session = worker'[u].session
                 /\ ops[worker'[u].key].status \in InFlight
      BY <1>2, <2>1 DEF Held
    <2>2. ASSUME NEW u \in Workers, Working(u)', worker'[u].pc = "finishing"
          PROVE  worker'[u].out \in Outs
                 /\ (worker'[u].out = "SENT" => <<worker'[u].key, ops[worker'[u].key].session>> \in posted')
      <3>1. CASE u = w BY <1>1, <2>1, <2>2, <3>1
      <3>2. CASE u # w BY <1>1, <1>2, <1>4, <2>2, <3>2 DEF Held, Proven
      <3> QED BY <3>1, <3>2
    <2>3. \A u, v \in Workers : Working(u)' /\ Working(v)' /\ worker'[u].key = worker'[v].key => u = v
      BY <1>2 DEF Held
    <2> QED BY <2>1, <2>2, <2>3 DEF Held, Proven
  <1>10. Posts'
    <2>1. ASSUME NEW p \in posted'
          PROVE  p[1] \in DOMAIN ops /\ p[2] = ops[p[1]].session /\ ops[p[1]].status \in InFlight
      <3>1. CASE p \in posted BY <3>1 DEF Posts
      <3>2. CASE p \notin posted BY <1>3, <1>4, <2>1, <3>2 DEF Busy
      <3> QED BY <3>1, <3>2
    <2>2. ASSUME NEW p \in posted', NEW u \in Workers, Working(u)', worker'[u].key = p[1]
          PROVE  worker'[u].pc = "finishing" /\ worker'[u].out \in {"SENT", "DELIVERY_UNKNOWN"}
      <3>1. CASE p \in posted /\ u = w
        <4>1. worker[w].pc = "finishing" BY <1>2, <2>2, <3>1 DEF Posts
        <4>2. x.pc \in Busy BY <1>1, <2>2, <3>1 DEF Working
        <4> QED BY <4>1, <4>2
      <3>2. CASE p \in posted /\ u # w BY <1>1, <1>2, <2>2, <3>2 DEF Posts
      <3>3. CASE p \notin posted
        <4>1. x.pc = "finishing" /\ p[1] = x.key /\ x.out \in {"SENT", "DELIVERY_UNKNOWN"} BY <1>4, <2>2, <3>3
        <4>2. Working(w)' BY <1>1, <4>1 DEF Working, Busy
        <4>3. u = w BY <1>1, <1>2, <2>2, <4>1, <4>2 DEF Held
        <4> QED BY <1>1, <4>1, <4>3
      <3> QED BY <3>1, <3>2, <3>3
    <2> QED BY <2>1, <2>2 DEF Posts
  <1>11. DeliveredIsPosted' BY <1>4 DEF Mirrored, DeliveredIsPosted, Proven
  <1>12. Mirrored' BY <1>11 DEF Mirrored
  <1>13. Timed' BY TimedKept DEF userVars
  <1> QED BY <1>5, <1>6, <1>7, <1>8, <1>9, <1>10, <1>12, <1>13

LEMMA RestSafe ==
  ASSUME OutboxInv, NEW w \in Workers, Rest(w),
         UNCHANGED <<routeVars, task, results, ops, deliveries, userVars, posted, missed>>
  PROVE  OutboxInv'
  <1>1. /\ Idle \in Copies /\ Idle.key = NoKey /\ Idle.pc \notin Busy
        /\ Idle.pc # "finishing" /\ Idle.pc # "redirecting"
    BY DEF Idle, Copies, Places, Refs, Statuses, Busy
  <1>2. worker' = [worker EXCEPT ![w] = Idle] BY DEF Rest
  <1> HIDE DEF Idle
  <1> QED BY <1>1, <1>2, WorkerOnly

\* The copy of worker w when only its place, outcome and heir change.
Copy(w, pc, out, heir) == [worker[w] EXCEPT !.pc = pc, !.out = out, !.heir = heir]

LEMMA Advanced ==
  ASSUME TypeOK, NEW w \in Workers, NEW pc \in Places, NEW out \in Statuses, NEW heir \in Refs
  PROVE  LET x == Copy(w, pc, out, heir)
         IN  /\ x \in Copies /\ x.pc = pc /\ x.out = out /\ x.heir = heir /\ x.key = worker[w].key
             /\ x.attempts = worker[w].attempts /\ x.session = worker[w].session
  <1>1. worker[w] \in Copies BY DEF TypeOK
  <1> QED BY <1>1 DEF Copies, Copy

LEMMA CopyFields ==
  ASSUME TypeOK, NEW w \in Workers
  PROVE  /\ \A pc : Goto(w, pc) =>
              worker' = [worker EXCEPT ![w] = Copy(w, pc, worker[w].out, worker[w].heir)]
         /\ \A out : Settle(w, out) =>
              worker' = [worker EXCEPT ![w] = Copy(w, "finishing", out, worker[w].heir)]
         /\ worker[w].out \in Statuses /\ worker[w].heir \in Refs
  <1>1. worker \in [Workers -> Copies] /\ worker[w] \in Copies BY DEF TypeOK
  <1> QED BY <1>1 DEF Copies, Goto, Settle, Copy

\* The places of a worker.
LEMMA Busily == Busy \subseteq Places /\ {"idle", "attached", "routed"} \subseteq Places \ Busy
  BY DEF Busy, Places

LEMMA GotoSafe ==
  ASSUME OutboxInv, NEW w \in Workers, NEW pc \in {"attached", "routed", "ready", "sending"}, Goto(w, pc),
         pc \in Busy => Working(w) /\ worker[w].pc # "finishing",
         UNCHANGED <<routeVars, task, results, ops, deliveries, userVars, posted, missed>>
  PROVE  OutboxInv'
  <1> DEFINE x == Copy(w, pc, worker[w].out, worker[w].heir)
  <1>1. TypeOK /\ pc \in Places BY Busily DEF OutboxInv, Places
  <1>2. worker' = [worker EXCEPT ![w] = x] /\ worker[w].out \in Statuses /\ worker[w].heir \in Refs
    BY <1>1, CopyFields
  <1>3. /\ x \in Copies /\ x.pc = pc /\ x.key = worker[w].key
        /\ x.attempts = worker[w].attempts /\ x.session = worker[w].session
    BY <1>1, <1>2, Advanced
  <1> HIDE DEF x
  <1> QED BY <1>2, <1>3, WorkerOnly

LEMMA SettleSafe ==
  ASSUME OutboxInv, NEW w \in Workers, NEW out \in Outs, Settle(w, out),
         Working(w) /\ worker[w].pc # "finishing",
         \/ posted' = posted /\ out # "SENT"
         \/ /\ posted' = posted \cup {<<worker[w].key, worker[w].session>>}
            /\ out \in {"SENT", "DELIVERY_UNKNOWN"},
         UNCHANGED <<routeVars, task, results, ops, deliveries, userVars, missed>>
  PROVE  OutboxInv'
  <1> DEFINE x == Copy(w, "finishing", out, worker[w].heir)
  <1>1. TypeOK /\ "finishing" \in Places /\ out \in Statuses BY DEF OutboxInv, Places, Outs, Statuses
  <1>2. worker' = [worker EXCEPT ![w] = x] /\ worker[w].heir \in Refs
    BY <1>1, CopyFields
  <1>3. /\ x \in Copies /\ x.pc = "finishing" /\ x.out = out /\ x.key = worker[w].key
        /\ x.attempts = worker[w].attempts /\ x.session = worker[w].session
    BY <1>1, <1>2, Advanced
  <1> HIDE DEF x
  <1> QED BY <1>2, <1>3, WorkerOnly

LEMMA RouteSafe == ASSUME OutboxInv, NEW w \in Workers, Route(w) PROVE OutboxInv'
  <1>1. /\ Working(w) /\ worker[w].pc # "finishing" /\ worker[w].pc = "claimed"
        /\ UNCHANGED <<routeVars, task, results, ops, deliveries, userVars, posted, missed>>
    BY DEF Route, Working, Busy
  <1>2. CASE Goto(w, "ready") BY <1>1, <1>2, GotoSafe
  <1>3. CASE Settle(w, "WAITING_ROUTE")
    <2>1. "WAITING_ROUTE" \in Outs BY DEF Outs
    <2> QED BY <1>1, <1>3, <2>1, SettleSafe DEF userVars
  <1>4. CASE /\ Active(Heir(w))
             /\ worker' = [worker EXCEPT ![w].pc = "redirecting", ![w].heir = Heir(w)]
    <2> DEFINE x == Copy(w, "redirecting", worker[w].out, Heir(w))
    <2>1. TypeOK /\ "redirecting" \in Places BY DEF OutboxInv, Places
    <2>2. Heir(w) \in Sessions /\ Heir(w) \in Line(succ, worker[w].session) /\ Heir(w) \in Refs
      BY <1>4, <2>1, Resolved DEF Active, Heir, Refs
    <2>3. worker[w].out \in Statuses BY <2>1, CopyFields
    <2>4. /\ x \in Copies /\ x.pc = "redirecting" /\ x.heir = Heir(w) /\ x.key = worker[w].key
          /\ x.attempts = worker[w].attempts /\ x.session = worker[w].session
      BY <2>1, <2>2, <2>3, Advanced
    <2>5. worker' = [worker EXCEPT ![w] = x]
      <3>1. worker \in [Workers -> Copies] /\ worker[w] \in Copies BY <2>1 DEF TypeOK
      <3> QED BY <1>4, <3>1 DEF Copies, Copy
    <2> HIDE DEF x
    <2> QED BY <1>1, <2>2, <2>4, <2>5, WorkerOnly
  <1> QED BY <1>2, <1>3, <1>4 DEF Route

LEMMA SpawnSafe == ASSUME OutboxInv, NEW w \in Workers, Spawn(w) PROVE OutboxInv'
  <1>1. /\ Working(w) /\ worker[w].pc # "finishing"
        /\ UNCHANGED <<routeVars, task, results, ops, deliveries, userVars, posted, missed>>
    BY DEF Spawn, Working, Busy
  <1>2. CASE Goto(w, "sending") BY <1>1, <1>2, GotoSafe
  <1>3. CASE Rest(w) BY <1>1, <1>3, RestSafe
  <1> QED BY <1>2, <1>3 DEF Spawn

LEMMA DeliverSafe == ASSUME OutboxInv, NEW w \in Workers, Deliver(w) PROVE OutboxInv'
  <1>1. /\ Working(w) /\ worker[w].pc # "finishing"
        /\ UNCHANGED <<routeVars, task, results, ops, deliveries, userVars, missed>>
        /\ posted' = posted \cup {<<worker[w].key, worker[w].session>>}
    BY DEF Deliver, Working, Busy
  <1>2. PICK out \in {"SENT", "DELIVERY_UNKNOWN"} : Settle(w, out) BY DEF Deliver
  <1>3. out \in Outs BY DEF Outs
  <1> QED BY <1>1, <1>2, <1>3, SettleSafe

LEMMA DeclineSafe == ASSUME OutboxInv, NEW w \in Workers, Decline(w) PROVE OutboxInv'
  <1>1. /\ Working(w) /\ worker[w].pc # "finishing" /\ posted' = posted
        /\ UNCHANGED <<routeVars, task, results, ops, deliveries, userVars, missed>>
    BY DEF Decline, Working, Busy
  <1>2. PICK out \in {"QUEUED", "FAILED_PRE_SEND", "DELIVERY_UNKNOWN"} : Settle(w, out) BY DEF Decline
  <1>3. out \in Outs /\ out # "SENT" BY DEF Outs
  <1> QED BY <1>1, <1>2, <1>3, SettleSafe

-----------------------------------------------------------------------------
(* Steps that change the status of one notice and its mirrors. *)

\* The rows of all notices but k stay, and that of k but for its status.
Rewritten(k, st) ==
    /\ DOMAIN ops' = DOMAIN ops
    /\ \A j \in DOMAIN ops : ops'[j] = IF j = k THEN [ops[k] EXCEPT !.status = st] ELSE ops[j]

\* Notice k gets status st; a worker may go home.
RowStep(k, st) ==
    /\ st \in Statuses /\ Rewritten(k, st)
    /\ worker' \in [Workers -> Copies] /\ \A w \in Workers : worker'[w] \in {worker[w], Idle}
    /\ canceller' \in {canceller, NoCancel}
    /\ st = "WAITING_ROUTE" \/ ops[k].status # "WAITING_ROUTE"
    /\ st = "RECONCILED_SUPERSEDED" => ops[k].status = "RECONCILED_SUPERSEDED" \/ k[1] \in Events
    /\ ops[k].status \in InFlight /\ st \notin InFlight =>
          /\ \A w \in Workers : worker'[w].pc \in Busy => worker[w].key # k
          /\ \A p \in posted : p[1] # k

\* Results keep all but their mirrors.
ResultStep(k, st) ==
    /\ DOMAIN results' = DOMAIN results
    /\ \A v \in DOMAIN results :
          /\ results'[v] \in Results /\ results'[v].op = results[v].op
          /\ results'[v].owner = results[v].owner
          /\ results'[v].stamp = results[v].stamp /\ results'[v].ack = results[v].ack
          /\ results'[v].mirror = "DELIVERED" => results[v].mirror = "DELIVERED" \/ Proven(results[v].op)
    /\ missed \subseteq missed' /\ missed' \subseteq Notices
    /\ \A v \in DOMAIN results \ missed' : results[v].op # NoKey /\ results[v].ack = "none" =>
          IF results[v].op = k
          THEN /\ st = "WAITING_ROUTE" => results'[v].mirror = "WAITING_ROUTE"
               /\ st = "SENT" => results'[v].mirror = "DELIVERED"
          ELSE results'[v].mirror = results[v].mirror

DeliveryStep ==
    /\ DOMAIN deliveries' = DOMAIN deliveries
    /\ \A d \in DOMAIN deliveries :
          /\ deliveries'[d] \in Deliveries /\ deliveries'[d].op \in DOMAIN ops
          /\ deliveries'[d].status = "DELIVERED" =>
               \/ deliveries[d].status = "DELIVERED" /\ deliveries'[d].op = deliveries[d].op
               \/ Proven(deliveries'[d].op)

\* A step of this shape keeps the invariant.
LEMMA StatusSafe ==
  ASSUME OutboxInv, NEW k \in DOMAIN ops, NEW st, UNCHANGED <<routeVars, task, calls, issued, posted>>,
         RowStep(k, st), ResultStep(k, st), DeliveryStep
  PROVE  OutboxInv'
  <1> USE DEF OutboxInv, RowStep, ResultStep, DeliveryStep
  <1>1. /\ DOMAIN ops' = DOMAIN ops /\ ops'[k].status = st
        /\ \A j \in DOMAIN ops : /\ ops'[j].session = ops[j].session /\ ops'[j].attempts = ops[j].attempts
                                 /\ ops'[j] \in Rows /\ (j # k => ops'[j].status = ops[j].status)
    BY DEF TypeOK, Rows, Rewritten
  <1>2. \A w \in Workers : worker'[w].pc \in Busy \cup {"redirecting"} => worker'[w] = worker[w]
    BY DEF Idle, Busy
  <1>3. /\ \A w \in Workers : worker'[w].key \in DOMAIN ops \cup {NoKey}
        /\ canceller' \in [key : DOMAIN ops \cup {NoKey}, seen : BOOLEAN]
    <2>1. Idle.key = NoKey BY DEF Idle
    <2>2. NoCancel \in [key : DOMAIN ops \cup {NoKey}, seen : BOOLEAN] BY DEF NoCancel
    <2>3. /\ \A w \in Workers : worker[w].key \in DOMAIN ops \cup {NoKey}
          /\ canceller \in [key : DOMAIN ops \cup {NoKey}, seen : BOOLEAN]
      BY DEF TypeOK
    <2> QED BY <2>1, <2>2, <2>3
  <1>4. TypeOK'
    <2>1. DOMAIN results' \subseteq Versions /\ \A v \in DOMAIN results' : results'[v] \in Results
      BY DEF TypeOK
    <2>2. DOMAIN ops' \subseteq Keys /\ \A j \in DOMAIN ops' : ops'[j] \in Rows BY <1>1 DEF TypeOK
    <2>3. DOMAIN deliveries' \subseteq Events \X Sessions
          /\ \A d \in DOMAIN deliveries' : deliveries'[d] \in Deliveries
      BY DEF TypeOK
    <2> QED BY <1>1, <1>3, <2>1, <2>2, <2>3 DEF TypeOK, routeVars
  <1>5. Committed' /\ Called' BY CommittedKept, CalledKept
  <1>6. Named' BY <1>1, NamedKept
  <1>7. Addressed'
    <2>1. \A j \in DOMAIN ops : ops'[j].status # "WAITING_ROUTE" => ops[j].session \in Sessions
      BY <1>1 DEF Addressed
    <2> QED BY <1>1, <1>2, <2>1, AddressedKept
  <1>8. ASSUME NEW j, Proven(j) PROVE Proven(j)' BY <1>1, <1>8 DEF Proven, Posts
  <1>9. Held'
    <2>1. ASSUME NEW w \in Workers, Working(w)'
          PROVE  /\ Working(w) /\ worker'[w] = worker[w] /\ worker[w].key \in DOMAIN ops
                 /\ ops'[worker[w].key].attempts = worker[w].attempts
                 /\ ops'[worker[w].key].session = worker[w].session
                 /\ ops'[worker[w].key].status \in InFlight
                 /\ worker[w].pc = "finishing" =>
                      worker[w].out \in Outs /\ (worker[w].out = "SENT" => Proven(worker[w].key)')
      <3>1. Working(w) /\ worker'[w] = worker[w] BY <1>2, <2>1 DEF Working
      <3>2. /\ worker[w].key \in DOMAIN ops /\ ops[worker[w].key].status \in InFlight
            /\ ops[worker[w].key].attempts = worker[w].attempts
            /\ ops[worker[w].key].session = worker[w].session
            /\ worker[w].pc = "finishing" =>
                      worker[w].out \in Outs /\ (worker[w].out = "SENT" => Proven(worker[w].key)')
        BY <1>8, <3>1 DEF Held
      <3>3. worker[w].key = k => st \in InFlight BY <2>1, <3>2 DEF Working
      <3> QED BY <1>1, <3>1, <3>2, <3>3
    <2>2. \A w, u \in Workers : Working(w)' /\ Working(u)' /\ worker'[w].key = worker'[u].key => w = u
      BY <2>1 DEF Held
    <2>3. ASSUME NEW w \in Workers, Working(w)'
          PROVE  (/\ worker[w].key \in DOMAIN ops
                  /\ ops[worker[w].key].attempts = worker[w].attempts
                  /\ ops[worker[w].key].session = worker[w].session
                  /\ ops[worker[w].key].status \in InFlight)'
      <3> HIDE DEF OutboxInv, RowStep, ResultStep, DeliveryStep
      <3> QED BY <1>1, <2>1, <2>3
    <2>4. ASSUME NEW w \in Workers, Working(w)'
          PROVE  (worker[w].pc = "finishing" =>
                    worker[w].out \in Outs /\ (worker[w].out = "SENT" => Proven(worker[w].key)))'
      <3> HIDE DEF OutboxInv, RowStep, ResultStep, DeliveryStep
      <3> QED BY <2>1, <2>4 DEF Proven
    <2> HIDE DEF OutboxInv, RowStep, ResultStep, DeliveryStep
    <2> QED BY <2>2, <2>3, <2>4 DEF Held
  <1>10. Posts'
    <2>1. ASSUME NEW p \in posted
          PROVE  p[1] \in DOMAIN ops' /\ p[2] = ops'[p[1]].session /\ ops'[p[1]].status \in InFlight
      BY <1>1 DEF Posts
    <2>2. ASSUME NEW w \in Workers, Working(w)' PROVE Working(w) /\ worker'[w] = worker[w]
      BY <1>2, <2>2 DEF Working
    <2> QED BY <2>1, <2>2 DEF Posts
  <1>11. DeliveredIsPosted'
    <2>1. ASSUME NEW v \in DOMAIN results', results'[v].mirror = "DELIVERED"
          PROVE  Proven(results'[v].op)
      BY <2>1 DEF Mirrored, DeliveredIsPosted
    <2>2. ASSUME NEW d \in DOMAIN deliveries', deliveries'[d].status = "DELIVERED"
          PROVE  Proven(deliveries'[d].op)
      BY <2>2 DEF Mirrored, DeliveredIsPosted
    <2> QED BY <1>8, <2>1, <2>2 DEF DeliveredIsPosted, Proven
  <1>12. Mirrored'
    <2>1. ASSUME NEW v \in DOMAIN results' \ missed', results'[v].op # NoKey, results'[v].ack = "none"
          PROVE  /\ ops'[results'[v].op].status = "WAITING_ROUTE" => results'[v].mirror = "WAITING_ROUTE"
                 /\ ops'[results'[v].op].status = "SENT" => results'[v].mirror = "DELIVERED"
      <3>1. /\ v \in DOMAIN results \ missed /\ results[v].op # NoKey /\ results[v].ack = "none"
            /\ results[v].op \in DOMAIN ops /\ results'[v].op = results[v].op
        BY <2>1 DEF Named
      <3>2. CASE results[v].op = k BY <1>1, <2>1, <3>1, <3>2
      <3>3. CASE results[v].op # k BY <1>1, <2>1, <3>1, <3>3 DEF Mirrored
      <3> QED BY <3>2, <3>3
    <2> QED BY <1>11, <2>1 DEF Mirrored
  <1>13. Timed' BY TimedKept
  <1> QED BY <1>4, <1>5, <1>6, <1>7, <1>9, <1>10, <1>12, <1>13

\* The mirrors of notice k, and no others, are rewritten.
LEMMA ResultsOf ==
  ASSUME OutboxInv, NEW k \in DOMAIN ops, NEW st \in {"QUEUED", "SENT"}, missed' = missed,
         st = "SENT" => Proven(k), results' = ResultMirror(k, Mirror(st))
  PROVE  ResultStep(k, st)
  <1> USE DEF OutboxInv
  <1>1. \A v \in DOMAIN results : results[v] \in Results BY DEF TypeOK
  <1>2. Mirror(st) = IF st = "SENT" THEN "DELIVERED" ELSE "QUEUED" BY DEF Mirror
  <1>3. ASSUME NEW v \in DOMAIN results
        PROVE  LET new == IF results[v].op = k THEN [results[v] EXCEPT !.mirror = Mirror(st)] ELSE results[v]
               IN  /\ new \in Results /\ new.op = results[v].op /\ new.owner = results[v].owner
                   /\ new.stamp = results[v].stamp /\ new.ack = results[v].ack
                   /\ new.mirror = IF results[v].op = k THEN Mirror(st) ELSE results[v].mirror
    BY <1>1, <1>2 DEF Results, Statuses
  <1>4. /\ DOMAIN results' = DOMAIN results
        /\ \A v \in DOMAIN results :
             /\ results'[v] \in Results /\ results'[v].op = results[v].op
             /\ results'[v].owner = results[v].owner
             /\ results'[v].stamp = results[v].stamp /\ results'[v].ack = results[v].ack
             /\ results'[v].mirror = IF results[v].op = k THEN Mirror(st) ELSE results[v].mirror
    BY <1>3 DEF ResultMirror
  <1>5. missed \subseteq Notices BY DEF TypeOK
  <1> QED BY <1>2, <1>4, <1>5 DEF ResultStep

\* Mirrors that stay fit a status that no mirror has to follow.
LEMMA ResultsAlike ==
  ASSUME OutboxInv, NEW k \in DOMAIN ops, NEW st, UNCHANGED <<results, missed>>,
         st \notin {"SENT", "WAITING_ROUTE"} \/ st = ops[k].status
  PROVE  ResultStep(k, st)
  <1>1. missed \subseteq Notices /\ \A v \in DOMAIN results : results[v] \in Results BY DEF OutboxInv, TypeOK
  <1>2. ASSUME NEW v \in DOMAIN results \ missed, results[v].op # NoKey, results[v].ack = "none"
        PROVE  /\ ops[results[v].op].status = "WAITING_ROUTE" => results[v].mirror = "WAITING_ROUTE"
               /\ ops[results[v].op].status = "SENT" => results[v].mirror = "DELIVERED"
    BY <1>2 DEF OutboxInv, Mirrored
  <1> QED BY <1>1, <1>2 DEF ResultStep

\* The mirrors of notice k in the deliveries follow it.
LEMMA DeliveriesOf ==
  ASSUME OutboxInv, NEW k \in DOMAIN ops, NEW st \in Statuses \cup {"DELIVERED", "SUPERSEDED"},
         st = "DELIVERED" => Proven(k), deliveries' = DeliveryMirror(k, st)
  PROVE  DeliveryStep
  <1> USE DEF OutboxInv
  <1>1. \A d \in DOMAIN deliveries : deliveries[d] \in Deliveries /\ deliveries[d].op \in DOMAIN ops
    BY DEF TypeOK, Named
  <1>2. ASSUME NEW d \in DOMAIN deliveries
        PROVE  LET new == IF deliveries[d].op = k THEN [deliveries[d] EXCEPT !.status = st] ELSE deliveries[d]
               IN  /\ new \in Deliveries /\ new.op = deliveries[d].op
                   /\ new.status = IF deliveries[d].op = k THEN st ELSE deliveries[d].status
    BY <1>1 DEF Deliveries
  <1>3. /\ DOMAIN deliveries' = DOMAIN deliveries
        /\ \A d \in DOMAIN deliveries :
             /\ deliveries'[d] \in Deliveries /\ deliveries'[d].op = deliveries[d].op
             /\ deliveries'[d].status = IF deliveries[d].op = k THEN st ELSE deliveries[d].status
    BY <1>2 DEF DeliveryMirror
  <1> QED BY <1>1, <1>3 DEF DeliveryStep

\* Deliveries that stay are a step of this shape.
LEMMA DeliveriesAlike == ASSUME OutboxInv, deliveries' = deliveries PROVE DeliveryStep
  BY DEF OutboxInv, TypeOK, Named, DeliveryStep

\* What an update of one status is.
LEMMA StatusRow ==
  ASSUME OutboxInv, NEW k \in DOMAIN ops, NEW st,
         ops' = [ops EXCEPT ![k].status = st] \/ (ops' = ops /\ st = ops[k].status)
  PROVE  Rewritten(k, st) /\ ops[k].status \in Statuses
  <1>1. ops[k] \in Rows BY DEF OutboxInv, TypeOK
  <1>2. [ops[k] EXCEPT !.status = ops[k].status] = ops[k] BY <1>1 DEF Rows
  <1> QED BY <1>1, <1>2 DEF Rows, Rewritten

\* The row of k changes, and nobody who works on it stops for it.
LEMMA RowOnly ==
  ASSUME OutboxInv, NEW k \in DOMAIN ops, NEW st \in Statuses, Rewritten(k, st),
         worker' = worker, canceller' \in {canceller, NoCancel},
         st = "WAITING_ROUTE" \/ ops[k].status # "WAITING_ROUTE",
         st = "RECONCILED_SUPERSEDED" => ops[k].status = "RECONCILED_SUPERSEDED" \/ k[1] \in Events,
         ops[k].status \in InFlight => st \in InFlight
  PROVE  RowStep(k, st)
  BY DEF RowStep, OutboxInv, TypeOK

LEMMA ExpireSafe == ASSUME OutboxInv, NEW k \in DOMAIN ops, Expire(k) PROVE OutboxInv'
  <1>1. /\ ops[k].status = "DISPATCHING" /\ ops' = [ops EXCEPT ![k].status = "DELIVERY_UNKNOWN"]
        /\ UNCHANGED <<routeVars, task, results, deliveries, calls, issued, canceller, worker, posted, missed>>
    BY DEF Expire, userVars
  <1>2. "DELIVERY_UNKNOWN" \in Statuses /\ "DELIVERY_UNKNOWN" \in InFlight BY DEF Statuses, InFlight
  <1>3. RowStep(k, "DELIVERY_UNKNOWN") BY <1>1, <1>2, StatusRow, RowOnly
  <1>4. ResultStep(k, "DELIVERY_UNKNOWN") BY <1>1, ResultsAlike
  <1>5. DeliveryStep BY <1>1, DeliveriesAlike
  <1> QED BY <1>1, <1>3, <1>4, <1>5, StatusSafe

LEMMA ReconcileSentSafe == ASSUME OutboxInv, NEW k \in DOMAIN ops, ReconcileSent(k) PROVE OutboxInv'
  <1>1. /\ ops[k].status = "DELIVERY_UNKNOWN" /\ Proven(k) /\ ops' = [ops EXCEPT ![k].status = "SENT"]
        /\ results' = ResultMirror(k, "DELIVERED") /\ deliveries' = DeliveryMirror(k, "DELIVERED")
        /\ UNCHANGED <<routeVars, task, calls, issued, canceller, worker, posted, missed>>
    BY DEF ReconcileSent, userVars
  <1>2. "SENT" \in Statuses /\ "SENT" \in InFlight /\ Mirror("SENT") = "DELIVERED" BY DEF Statuses, InFlight, Mirror
  <1>3. RowStep(k, "SENT") BY <1>1, <1>2, StatusRow, RowOnly
  <1>4. ResultStep(k, "SENT") BY <1>1, <1>2, ResultsOf
  <1>5. DeliveryStep BY <1>1, DeliveriesOf
  <1> QED BY <1>1, <1>3, <1>4, <1>5, StatusSafe

LEMMA ReconcileSupersededSafe ==
  ASSUME OutboxInv, NEW k \in DOMAIN ops, ReconcileSuperseded(k) PROVE OutboxInv'
  <1>1. /\ ops[k].status = "DELIVERY_UNKNOWN" /\ k[1] \in Events
        /\ ops' = [ops EXCEPT ![k].status = "RECONCILED_SUPERSEDED"]
        /\ deliveries' = DeliveryMirror(k, "SUPERSEDED")
        /\ UNCHANGED <<routeVars, task, results, calls, issued, canceller, worker, posted, missed>>
    BY DEF ReconcileSuperseded, userVars
  <1>2. "RECONCILED_SUPERSEDED" \in Statuses /\ "RECONCILED_SUPERSEDED" \in InFlight BY DEF Statuses, InFlight
  <1>3. RowStep(k, "RECONCILED_SUPERSEDED") BY <1>1, <1>2, StatusRow, RowOnly
  <1>4. ResultStep(k, "RECONCILED_SUPERSEDED") BY <1>1, ResultsAlike
  <1>5. DeliveryStep BY <1>1, DeliveriesOf
  <1> QED BY <1>1, <1>3, <1>4, <1>5, StatusSafe

LEMMA RetrySafe == ASSUME OutboxInv, NEW k \in DOMAIN ops, Retry(k) PROVE OutboxInv'
  <1>1. /\ ops[k].status = "FAILED_PRE_SEND" /\ ops' = [ops EXCEPT ![k].status = "QUEUED"]
        /\ results' = ResultMirror(k, "QUEUED") /\ deliveries' = DeliveryMirror(k, "QUEUED")
        /\ UNCHANGED <<routeVars, task, calls, issued, canceller, worker, posted, missed>>
    BY DEF Retry, userVars
  <1>2. "QUEUED" \in Statuses /\ "FAILED_PRE_SEND" \notin InFlight /\ Mirror("QUEUED") = "QUEUED"
    BY DEF Statuses, InFlight, Mirror
  <1>3. RowStep(k, "QUEUED") BY <1>1, <1>2, StatusRow, RowOnly
  <1>4. ResultStep(k, "QUEUED") BY <1>1, <1>2, ResultsOf
  <1>5. DeliveryStep BY <1>1, <1>2, DeliveriesOf
  <1> QED BY <1>1, <1>3, <1>4, <1>5, StatusSafe

LEMMA CancelWriteSafe == ASSUME OutboxInv, CancelWrite PROVE OutboxInv'
  <1> DEFINE k == canceller.key
             hit == Cancellable(k)
             st == IF hit THEN "CANCELLED" ELSE ops[k].status
  <1>1. TypeOK /\ Named BY DEF OutboxInv
  <1>2. k \in DOMAIN ops BY <1>1 DEF CancelWrite, Named
  <1>3. /\ st \in Statuses /\ "CANCELLED" \in Statuses /\ "QUEUED" \notin InFlight
        /\ Rewritten(k, st)
    <2>1. ops' = [ops EXCEPT ![k].status = st] \/ (ops' = ops /\ st = ops[k].status) BY DEF CancelWrite
    <2>2. Rewritten(k, st) /\ ops[k].status \in Statuses BY <1>2, <2>1, StatusRow
    <2> QED BY <2>2 DEF Statuses, InFlight
  <1>4. /\ UNCHANGED <<routeVars, task, calls, issued, worker, posted>>
        /\ canceller' = NoCancel
    BY DEF CancelWrite
  <1>5. /\ hit => ops[k].status = "QUEUED"
        /\ IF hit THEN st = "CANCELLED" ELSE st = ops[k].status
    BY DEF Cancellable
  <1>6. CASE ~canceller.seen
    <2>1. UNCHANGED <<results, deliveries, missed>> BY <1>6 DEF CancelWrite
    <2> HIDE DEF k, st, hit
    <2>2. RowStep(k, st) BY <1>2, <1>3, <1>4, <1>5, StatusRow, RowOnly
    <2>3. ResultStep(k, st) BY <1>2, <1>5, <2>1, ResultsAlike
    <2>4. DeliveryStep BY <2>1, DeliveriesAlike
    <2> QED BY <1>2, <1>4, <2>2, <2>3, <2>4, StatusSafe
  <1>7. CASE canceller.seen
    <2>1. /\ results' = [v \in DOMAIN results |->
                           IF v = k[1] THEN [results[v] EXCEPT !.mirror = "CANCELLED"] ELSE results[v]]
          /\ deliveries' = DeliveryMirror(k, "CANCELLED")
          /\ missed' = IF hit THEN missed ELSE missed \cup {k[1]}
      BY <1>7 DEF CancelWrite
    <2> HIDE DEF k, st, hit
    <2>2. RowStep(k, st) BY <1>2, <1>3, <1>4, <1>5, StatusRow, RowOnly
    <2>3. k[1] \in Notices /\ missed \subseteq Notices /\ missed \subseteq missed' /\ missed' \subseteq Notices
      BY <1>1, <1>2, <2>1 DEF TypeOK, Keys
    <2>4. /\ DOMAIN results' = DOMAIN results
          /\ \A v \in DOMAIN results :
               /\ results'[v] \in Results /\ results'[v].op = results[v].op
               /\ results'[v].owner = results[v].owner
               /\ results'[v].stamp = results[v].stamp /\ results'[v].ack = results[v].ack
               /\ results'[v].mirror = IF v = k[1] THEN "CANCELLED" ELSE results[v].mirror
      <3>1. \A v \in DOMAIN results : results[v] \in Results BY <1>1 DEF TypeOK
      <3> QED BY <1>3, <2>1, <3>1 DEF Results
    <2>5. DeliveryStep BY <1>2, <1>3, <2>1, DeliveriesOf
    <2>6. ASSUME NEW v \in DOMAIN results \ missed', results[v].op # NoKey
          PROVE  IF results[v].op = k
                 THEN st = "CANCELLED" ELSE results'[v].mirror = results[v].mirror
      <3>1. results[v].op[1] = v BY <1>1, <2>6 DEF Named
      <3>2. CASE results[v].op = k BY <1>5, <2>1, <2>6, <3>1, <3>2
      <3>3. CASE results[v].op # k
        <4>1. v # k[1]
          <5> SUFFICES ASSUME v = k[1] PROVE FALSE OBVIOUS
          <5>1. v \in Versions BY <1>1, <2>6 DEF TypeOK
          <5> QED BY <1>1, <1>2, <3>3, <5>1 DEF Named
        <4> QED BY <2>4, <2>6, <3>3, <4>1
      <3> QED BY <3>2, <3>3
    <2>7. ResultStep(k, st) BY <2>3, <2>4, <2>6 DEF ResultStep
    <2> QED BY <1>2, <1>4, <2>2, <2>5, <2>7, StatusSafe
  <1> QED BY <1>6, <1>7

\* The one result that notice k can be about.
LEMMA Callback ==
  ASSUME OutboxInv, NEW k \in DOMAIN ops, NEW v \in DOMAIN results, results[v].op # NoKey
  PROVE  results[v].op = k <=> v = k[1]
  <1>1. v \in Versions /\ results[v].op[1] = v BY DEF OutboxInv, TypeOK, Named
  <1> QED BY <1>1 DEF OutboxInv, Named

LEMMA FinishSafe == ASSUME OutboxInv, NEW w \in Workers, Finish(w) PROVE OutboxInv'
  <1> DEFINE k == worker[w].key
             out == worker[w].out
             d == <<k[1], worker[w].session>>
  <1>1. Rest(w) /\ UNCHANGED <<routeVars, task, userVars, posted, missed>> BY DEF Finish
  <1>2. /\ Working(w) /\ k \in DOMAIN ops /\ out \in Outs
        /\ out = "SENT" => Proven(k)
        /\ \A u \in Workers : Working(u) /\ worker[u].key = k => u = w
        /\ \A p \in posted : p[1] = k => out \in {"SENT", "DELIVERY_UNKNOWN"}
    <2>1. Working(w) /\ worker[w].pc = "finishing" BY DEF Finish, Working, Busy
    <2> QED BY <2>1 DEF OutboxInv, Held, Posts
  <1>3. CASE ~Holds(w)
    <2>1. UNCHANGED <<ops, results, deliveries>> BY <1>3 DEF Finish
    <2> QED BY <1>1, <2>1, RestSafe
  <1>4. CASE Holds(w)
    <2>1. /\ ops[k].status = "DISPATCHING" /\ ops' = [ops EXCEPT ![k].status = out]
          /\ results' = [v \in DOMAIN results |->
                           IF v = k[1] THEN [results[v] EXCEPT !.mirror = Mirror(out)] ELSE results[v]]
          /\ deliveries' = Marked(d, k, Mirror(out))
      BY <1>4 DEF Finish, Holds
    <2>2. worker' = [worker EXCEPT ![w] = Idle] BY <1>1 DEF Rest
    <2>3. /\ out \in Statuses /\ out # "RECONCILED_SUPERSEDED"
          /\ out \notin InFlight => out \notin {"SENT", "DELIVERY_UNKNOWN"}
          /\ Mirror(out) = IF out = "SENT" THEN "DELIVERED" ELSE out
      BY <1>2 DEF Outs, Statuses, InFlight, Mirror
    <2> HIDE DEF k, out
    <2>4. RowStep(k, out)
      <3>1. Rewritten(k, out) BY <1>2, <2>1, StatusRow
      <3>2. /\ worker' \in [Workers -> Copies] /\ \A u \in Workers : worker'[u] \in {worker[u], Idle}
            /\ \A u \in Workers : worker'[u].pc \in Busy => u # w /\ Working(u)
        <4>1. Idle \in Copies /\ Idle.pc \notin Busy BY DEF Idle, Copies, Places, Refs, Statuses, Busy
        <4>2. worker \in [Workers -> Copies] BY DEF OutboxInv, TypeOK
        <4> QED BY <2>2, <4>1, <4>2 DEF Working
      <3>3. \A u \in Workers : worker'[u].pc \in Busy => worker[u].key # k BY <1>2, <3>2
      <3>4. canceller' = canceller BY <1>1 DEF userVars
      <3> QED BY <1>2, <2>1, <2>3, <3>1, <3>2, <3>3, <3>4 DEF RowStep
    <2>5. ResultStep(k, out)
      <3>1. missed' = missed /\ missed \subseteq Notices /\ \A v \in DOMAIN results : results[v] \in Results
        BY <1>1 DEF OutboxInv, TypeOK
      <3>2. /\ DOMAIN results' = DOMAIN results
            /\ \A v \in DOMAIN results :
                 /\ results'[v] \in Results /\ results'[v].op = results[v].op
                 /\ results'[v].owner = results[v].owner
                 /\ results'[v].stamp = results[v].stamp /\ results'[v].ack = results[v].ack
                 /\ results'[v].mirror = IF v = k[1] THEN Mirror(out) ELSE results[v].mirror
        BY <2>1, <2>3, <3>1 DEF Results
      <3>3. ASSUME NEW v \in DOMAIN results, v = k[1] PROVE results[v].op = k
        <4>1. v \in Versions BY DEF OutboxInv, TypeOK
        <4> QED BY <1>2, <3>3, <4>1 DEF OutboxInv, Named
      <3>4. \A v \in DOMAIN results : results[v].op # NoKey => (results[v].op = k <=> v = k[1])
        BY <1>2, Callback
      <3>5. \A v \in DOMAIN results :
              results'[v].mirror = "DELIVERED" => results[v].mirror = "DELIVERED" \/ Proven(results[v].op)
        <4>1. Mirror(out) = "DELIVERED" => out = "SENT" BY <2>3 DEF Statuses
        <4> QED BY <1>2, <3>2, <3>3, <4>1
      <3>6. \A v \in DOMAIN results : results[v].op # NoKey =>
              IF results[v].op = k THEN results'[v].mirror = Mirror(out)
              ELSE results'[v].mirror = results[v].mirror
        BY <3>2, <3>4
      <3> QED BY <2>3, <3>1, <3>2, <3>5, <3>6 DEF ResultStep
    <2>6. DeliveryStep
      <3>1. /\ \A e \in DOMAIN deliveries : deliveries[e] \in Deliveries /\ deliveries[e].op \in DOMAIN ops
            /\ DOMAIN ops \subseteq Keys
        BY DEF OutboxInv, TypeOK, Named
      <3> DEFINE new == [op |-> k, status |-> Mirror(out)]
      <3>2. /\ new \in Deliveries /\ new.op \in DOMAIN ops
            /\ new.status = "DELIVERED" => Proven(new.op)
        BY <1>2, <2>3, <3>1 DEF Deliveries, Statuses
      <3>3. /\ DOMAIN deliveries' = DOMAIN deliveries
            /\ \A e \in DOMAIN deliveries : deliveries'[e] \in {deliveries[e], new}
        BY <2>1 DEF Marked
      <3> HIDE DEF new
      <3> QED BY <3>1, <3>2, <3>3 DEF DeliveryStep
    <2> QED BY <1>1, <1>2, <2>4, <2>5, <2>6, StatusSafe DEF userVars
  <1> QED BY <1>3, <1>4

LEMMA CrashSafe == ASSUME OutboxInv, NEW w \in Workers, Crash(w) PROVE OutboxInv'
  BY RestSafe DEF Crash

LEMMA ClaimNothingSafe == ASSUME OutboxInv, NEW w \in Workers, ClaimNothing(w) PROVE OutboxInv'
  BY RestSafe DEF ClaimNothing

LEMMA ClaimSafe == ASSUME OutboxInv, NEW w \in Workers, NEW k \in DOMAIN ops, Claim(w, k) PROVE OutboxInv'
  <1> DEFINE x == [Idle EXCEPT !.pc = "claimed", !.key = k, !.session = ops[k].session,
                               !.attempts = ops[k].attempts + 1]
  <1>1. /\ ops[k].status = "QUEUED" /\ ~Working(w)
        /\ ops' = [ops EXCEPT ![k].status = "DISPATCHING", ![k].attempts = @ + 1]
        /\ worker' = [worker EXCEPT ![w] = x]
        /\ UNCHANGED <<routeVars, task, results, deliveries, calls, issued, canceller, posted, missed>>
    BY DEF Claim, Working, Busy, userVars
  <1>2. ops[k] \in Rows /\ ops[k].session \in Sessions /\ \A j \in DOMAIN ops : ops[j] \in Rows
    BY <1>1 DEF OutboxInv, TypeOK, Addressed
  <1>3. /\ x \in Copies /\ x.pc = "claimed" /\ x.key = k /\ x.session = ops[k].session
        /\ x.attempts = ops[k].attempts + 1
    <2>1. k \in Keys /\ ops[k].session \in Refs /\ ops[k].attempts + 1 \in Nat
      BY <1>2 DEF OutboxInv, TypeOK, Rows
    <2> QED BY <2>1 DEF Copies, Places, Idle, Statuses, Refs
  <1>4. /\ DOMAIN ops' = DOMAIN ops /\ \A j \in DOMAIN ops : j # k => ops'[j] = ops[j]
        /\ ops'[k] \in Rows /\ ops'[k].status = "DISPATCHING" /\ ops'[k].session = ops[k].session
        /\ ops'[k].attempts = ops[k].attempts + 1
    <2> DEFINE row == [ops[k] EXCEPT !.status = "DISPATCHING", !.attempts = @ + 1]
    <2>1. /\ row \in Rows /\ row.status = "DISPATCHING" /\ row.session = ops[k].session
          /\ row.attempts = ops[k].attempts + 1
      <3>1. ops[k].attempts + 1 \in Nat BY <1>2 DEF Rows
      <3> QED BY <1>2, <3>1 DEF Rows, Statuses
    <2>2. /\ DOMAIN ops' = DOMAIN ops /\ ops'[k] = row
          /\ \A j \in DOMAIN ops : j # k => ops'[j] = ops[j]
      <3>1. [ops EXCEPT ![k].status = "DISPATCHING"][k] = [ops[k] EXCEPT !.status = "DISPATCHING"] OBVIOUS
      <3>2. [ops[k] EXCEPT !.status = "DISPATCHING"].attempts = ops[k].attempts BY <1>2 DEF Rows
      <3> QED BY <1>1, <3>1, <3>2
    <2> HIDE DEF row
    <2> QED BY <2>1, <2>2
  <1>5. /\ worker' \in [Workers -> Copies] /\ worker'[w] = x
        /\ \A u \in Workers : u # w => worker'[u] = worker[u]
    BY <1>1, <1>3 DEF OutboxInv, TypeOK
  <1>6. "DISPATCHING" \in InFlight /\ "QUEUED" \notin InFlight /\ x.pc \in Busy /\ x.pc # "finishing"
        /\ x.pc # "redirecting"
    BY <1>3 DEF InFlight, Busy
  <1> HIDE DEF x
  <1> USE DEF OutboxInv
  <1>7. TypeOK'
    <2>1. \A u \in Workers : worker'[u].key \in DOMAIN ops \cup {NoKey} BY <1>3, <1>5 DEF TypeOK
    <2> QED BY <1>1, <1>2, <1>4, <1>5, <2>1 DEF TypeOK, routeVars
  <1>8. Committed' /\ Called' BY <1>1, CommittedKept, CalledKept
  <1>9. Named' BY <1>1, <1>4, NamedKept DEF Named
  <1>10. Addressed'
    <2>1. \A u \in Workers : worker'[u].pc = "redirecting" => worker'[u] = worker[u] BY <1>5, <1>6
    <2>2. \A j \in DOMAIN ops : ops'[j].session = ops[j].session
                               /\ (ops'[j].status # "WAITING_ROUTE" => ops[j].session \in Sessions)
      BY <1>2, <1>4 DEF Addressed
    <2> QED BY <1>1, <1>4, <2>1, <2>2, AddressedKept
  <1>11. /\ \A u \in Workers : Working(u) => worker[u].key # k
         /\ \A p \in posted : p[1] # k
    BY <1>1, <1>6 DEF Held, Posts
  <1>12. \A j \in DOMAIN ops : ops'[j].session = ops[j].session BY <1>4
  <1>13. \A j : Proven(j) => Proven(j)' BY <1>1, <1>12 DEF Proven, Posts
  <1>14. Held'
    <2>1. \A u \in Workers : Working(u)' => u = w \/ (Working(u) /\ worker'[u] = worker[u])
      BY <1>5 DEF Working
    <2>2. ASSUME NEW u \in Workers, Working(u)'
          PROVE  (/\ worker[u].key \in DOMAIN ops
                  /\ ops[worker[u].key].attempts = worker[u].attempts
                  /\ ops[worker[u].key].session = worker[u].session
                  /\ ops[worker[u].key].status \in InFlight)'
      <3>1. CASE u = w BY <1>3, <1>4, <1>5, <1>6, <3>1
      <3>2. CASE u # w
        <4>1. Working(u) /\ worker'[u] = worker[u] /\ worker[u].key \in DOMAIN ops /\ worker[u].key # k
          BY <1>11, <2>1, <2>2, <3>2 DEF Held
        <4> QED BY <1>4, <4>1 DEF Held
      <3> QED BY <3>1, <3>2
    <2>3. ASSUME NEW u \in Workers, Working(u)'
          PROVE  (worker[u].pc = "finishing" =>
                    worker[u].out \in Outs /\ (worker[u].out = "SENT" => Proven(worker[u].key)))'
      <3>1. CASE u = w BY <1>5, <1>6, <3>1
      <3>2. CASE u # w
        <4>1. Working(u) /\ worker'[u] = worker[u] BY <2>1, <2>3, <3>2
        <4>2. worker[u].pc = "finishing" =>
                 worker[u].out \in Outs /\ (worker[u].out = "SENT" => Proven(worker[u].key)')
          BY <1>13, <4>1 DEF Held
        <4> QED BY <4>1, <4>2 DEF Proven
      <3> QED BY <3>1, <3>2
    <2>4. \A u, v \in Workers : Working(u)' /\ Working(v)' /\ worker'[u].key = worker'[v].key => u = v
      BY <1>3, <1>5, <1>11, <2>1 DEF Held
    <2> QED BY <2>2, <2>3, <2>4 DEF Held
  <1>15. Posts'
    <2>1. \A u \in Workers : Working(u)' /\ worker'[u].key # k => Working(u) /\ worker'[u] = worker[u]
      BY <1>3, <1>5 DEF Working
    <2>2. ASSUME NEW p \in posted
          PROVE  p[1] # k /\ p[1] \in DOMAIN ops' /\ p[2] = ops'[p[1]].session /\ ops'[p[1]].status \in InFlight
      BY <1>4, <1>11 DEF Posts
    <2> QED BY <1>1, <2>1, <2>2 DEF Posts
  <1>16. Mirrored'
    <2>1. DeliveredIsPosted' BY <1>1, <1>13 DEF Mirrored, DeliveredIsPosted, Proven
    <2>2. \A v \in DOMAIN results : results[v].op # NoKey => results[v].op \in DOMAIN ops BY DEF Named
    <2> QED BY <1>1, <1>4, <2>1, <2>2 DEF Mirrored
  <1>17. Timed' BY <1>1, TimedKept
  <1> QED BY <1>7, <1>8, <1>9, <1>10, <1>14, <1>15, <1>16, <1>17

-----------------------------------------------------------------------------
(* Steps that address notices anew. *)

\* Deliveries that move keep their notice and wait again; the others stay.
DeliveriesMove ==
    /\ DOMAIN deliveries' \subseteq Events \X Sessions
    /\ \A d \in DOMAIN deliveries' :
         /\ deliveries'[d] \in Deliveries /\ deliveries'[d].op \in DOMAIN ops'
         /\ deliveries'[d].status = "DELIVERED" =>
              /\ d \in DOMAIN deliveries /\ deliveries[d].status = "DELIVERED"
              /\ deliveries'[d].op = deliveries[d].op

\* What retarget_notification does to the deliveries.
LEMMA MovedEffect ==
  ASSUME OutboxInv, NEW moves, moves \subseteq [event : Events, from : Sessions, to : Sessions],
         \A m \in moves : <<m.event, m.from>> \in DOMAIN deliveries,
         deliveries' = Moved(moves), DOMAIN ops \subseteq DOMAIN ops'
  PROVE  DeliveriesMove
  <1> DEFINE gone == {<<m.event, m.from>> : m \in moves}
             came == {<<m.event, m.to>> : m \in moves}
             old(d) == CHOOSE m \in moves : <<m.event, m.to>> = d
             D == (DOMAIN deliveries \ gone) \cup came
  <1>1. deliveries' = [d \in D |->
            IF d \in came THEN [deliveries[<<old(d).event, old(d).from>>] EXCEPT !.status = "QUEUED"]
            ELSE deliveries[d]]
    BY DEF Moved
  <1>2. /\ DOMAIN deliveries \subseteq Events \X Sessions
        /\ \A d \in DOMAIN deliveries : deliveries[d] \in Deliveries /\ deliveries[d].op \in DOMAIN ops
    BY DEF OutboxInv, TypeOK, Named
  <1>3. DOMAIN deliveries' \subseteq Events \X Sessions
    <2>1. came \subseteq Events \X Sessions OBVIOUS
    <2>2. D \subseteq Events \X Sessions BY <1>2, <2>1
    <2> HIDE DEF D
    <2> QED BY <1>1, <2>2
  <1>4. ASSUME NEW d \in D, d \in came
        PROVE  /\ deliveries'[d] \in Deliveries /\ deliveries'[d].op \in DOMAIN ops
               /\ deliveries'[d].status = "QUEUED"
    <2>1. old(d) \in moves BY <1>4
    <2> DEFINE e == <<old(d).event, old(d).from>>
    <2>2. e \in DOMAIN deliveries BY <2>1
    <2>3. deliveries'[d] = [deliveries[e] EXCEPT !.status = "QUEUED"] BY <1>1, <1>4
    <2> HIDE DEF e
    <2> QED BY <1>2, <2>2, <2>3 DEF Deliveries, Statuses
  <1>5. ASSUME NEW d \in D, d \notin came
        PROVE  d \in DOMAIN deliveries /\ deliveries'[d] = deliveries[d]
    BY <1>1, <1>5
  <1>6. DOMAIN deliveries' = D BY <1>1
  <1> HIDE DEF D, came
  <1> QED BY <1>2, <1>3, <1>4, <1>5, <1>6 DEF DeliveriesMove

\* Workers that work on a notice go on.
WorkersFree ==
    /\ worker' \in [Workers -> Copies]
    /\ \A u \in Workers : worker'[u].key \in DOMAIN ops \cup {NoKey}
    /\ \A u \in Workers : worker'[u].pc \in Busy => worker'[u] = worker[u]

\* Worker w goes from one place before its claim to another.
LEMMA GotoFree ==
  ASSUME TypeOK, NEW w \in Workers, NEW pc \in {"attached", "routed"}, Goto(w, pc)
  PROVE  WorkersFree
  <1> DEFINE x == Copy(w, pc, worker[w].out, worker[w].heir)
  <1>1. pc \in Places /\ pc \notin Busy BY Busily
  <1>2. worker' = [worker EXCEPT ![w] = x] /\ worker[w].out \in Statuses /\ worker[w].heir \in Refs
    BY CopyFields
  <1>3. x \in Copies /\ x.pc = pc /\ x.key = worker[w].key BY <1>1, <1>2, Advanced
  <1> HIDE DEF x
  <1> QED BY <1>1, <1>2, <1>3 DEF TypeOK, WorkersFree

LEMMA RedirectSafe == ASSUME OutboxInv, NEW w \in Workers, Redirect(w) PROVE OutboxInv'
  <1> DEFINE k == worker[w].key
             heir == worker[w].heir
             moves == {m \in [event : {k[1]} \cap Events, from : {worker[w].session}, to : {heir}] :
                         <<m.event, m.from>> \in DOMAIN deliveries}
  <1>1. /\ Working(w) /\ worker[w].pc = "redirecting"
        /\ UNCHANGED <<routeVars, task, results, calls, issued, canceller, posted, missed>>
    BY DEF Redirect, Working, Busy, userVars
  <1>2. CASE ~Holds(w) \/ Clash(moves)
    <2>1. Rest(w) /\ UNCHANGED <<ops, deliveries>> BY <1>2 DEF Redirect
    <2> QED BY <1>1, <2>1, RestSafe DEF userVars
  <1>3. CASE Holds(w) /\ ~Clash(moves)
    <2>1. /\ ops' = [ops EXCEPT ![k].session = heir] /\ deliveries' = Moved(moves)
          /\ worker' = [worker EXCEPT ![w].pc = "ready", ![w].session = heir, ![w].heir = NoSession]
      BY <1>3 DEF Redirect
    <2>2. ops[k].status = "DISPATCHING" BY <1>3 DEF Holds
    <2>3. /\ k \in DOMAIN ops /\ heir \in Sessions /\ heir \in Line(succ, ops[k].session)
          /\ worker[w].session = ops[k].session /\ ops[k].attempts = worker[w].attempts
          /\ ops[k].session \in Sessions
          /\ \A u \in Workers : Working(u) /\ worker[u].key = k => u = w
          /\ \A p \in posted : p[1] # k
      <3>1. k \in DOMAIN ops /\ worker[w].session = ops[k].session /\ ops[k].attempts = worker[w].attempts
            /\ \A u \in Workers : Working(u) /\ worker[u].key = k => u = w
        BY <1>1 DEF OutboxInv, Held
      <3>2. heir \in Sessions /\ heir \in Line(succ, worker[w].session) /\ ops[k].session \in Sessions
        BY <1>1, <2>2, <3>1 DEF OutboxInv, Addressed
      <3>3. \A p \in posted : p[1] # k BY <1>1 DEF OutboxInv, Posts
      <3> QED BY <3>1, <3>2, <3>3
    <2>4. DeliveriesMove
      <3>1. moves \subseteq [event : Events, from : Sessions, to : Sessions] BY <2>3
      <3>2. \A m \in moves : <<m.event, m.from>> \in DOMAIN deliveries OBVIOUS
      <3>3. DOMAIN ops \subseteq DOMAIN ops' BY <2>1
      <3> HIDE DEF moves
      <3> QED BY <2>1, <3>1, <3>2, <3>3, MovedEffect
    <2> DEFINE x == [worker[w] EXCEPT !.pc = "ready", !.session = heir, !.heir = NoSession]
    <2>5. /\ x \in Copies /\ x.pc = "ready" /\ x.key = k /\ x.session = heir
          /\ x.attempts = worker[w].attempts
      <3>1. worker[w] \in Copies BY DEF OutboxInv, TypeOK
      <3> QED BY <2>3, <3>1 DEF Copies, Places, Refs
    <2>6. /\ worker' \in [Workers -> Copies] /\ worker'[w] = x
          /\ \A u \in Workers : u # w => worker'[u] = worker[u]
      <3>1. worker \in [Workers -> Copies] /\ worker[w] \in Copies BY DEF OutboxInv, TypeOK
      <3>2. worker' = [worker EXCEPT ![w] = x] BY <2>1, <3>1 DEF Copies
      <3> HIDE DEF x
      <3> QED BY <2>5, <3>1, <3>2
    <2>7. "ready" \in Busy BY DEF Busy
    <2> HIDE DEF k, heir, x, moves
    <2>8. /\ DOMAIN ops' = DOMAIN ops /\ \A j \in DOMAIN ops : j # k => ops'[j] = ops[j]
          /\ ops'[k] \in Rows /\ ops'[k].status = ops[k].status /\ ops'[k].session = heir
          /\ ops'[k].attempts = ops[k].attempts
          /\ \A j \in DOMAIN ops : ops'[j] \in Rows /\ ops'[j].status = ops[j].status
      <3>1. \A j \in DOMAIN ops : ops[j] \in Rows BY DEF OutboxInv, TypeOK
      <3>2. heir \in Refs BY <2>3 DEF Refs
      <3> QED BY <2>1, <2>3, <3>1, <3>2 DEF Rows
    <2> USE DEF OutboxInv
    <2>9. TypeOK'
      <3>1. \A u \in Workers : worker'[u].key \in DOMAIN ops \cup {NoKey} BY <2>3, <2>5, <2>6 DEF TypeOK
      <3>2. DOMAIN deliveries' \subseteq Events \X Sessions
            /\ \A d \in DOMAIN deliveries' : deliveries'[d] \in Deliveries
        BY <2>4 DEF DeliveriesMove
      <3>3. DOMAIN ops' \subseteq Keys /\ \A j \in DOMAIN ops' : ops'[j] \in Rows BY <2>8 DEF TypeOK
      <3> QED BY <1>1, <2>6, <2>8, <3>1, <3>2, <3>3 DEF TypeOK, routeVars
    <2>10. Committed' /\ Called' BY <1>1, CommittedKept, CalledKept
    <2>11. Named' BY <1>1, <2>4, <2>8, NamedKept DEF DeliveriesMove, Named
    <2>12. Addressed'
      <3>1. succ' = succ /\ contract' = contract /\ \A j : Owner(j)' = Owner(j)
        BY <1>1 DEF routeVars, Owner
      <3>2. ASSUME NEW j \in DOMAIN ops
            PROVE  /\ ops'[j].status # "WAITING_ROUTE" => ops'[j].session \in Sessions
                   /\ Owner(j) # NoSession => ops'[j].session \in Line(succ, Owner(j))
        <4>1. CASE j = k
          <5>1. ASSUME Owner(j) # NoSession PROVE heir \in Line(succ, Owner(j))
            <6>1. ops[k].session \in Line(succ, Owner(k)) BY <4>1, <5>1, <2>3 DEF Addressed
            <6> QED BY <2>3, <4>1, <6>1, Tabled, Continues
          <5> QED BY <2>3, <2>8, <4>1, <5>1
        <4>2. CASE j # k BY <2>8, <4>2 DEF Addressed
        <4> QED BY <4>1, <4>2
      <3>3. ASSUME NEW u \in Workers, worker'[u].pc = "redirecting"
            PROVE  worker'[u] = worker[u]
        BY <2>5, <2>6, <3>3
      <3> QED BY <1>1, <2>8, <3>1, <3>2, <3>3 DEF Addressed
    <2>13. \A j : Proven(j) => Proven(j)' BY <1>1, <2>3, <2>8 DEF Proven, Posts
    <2>14. \A u \in Workers : Working(u)' => u = w \/ (Working(u) /\ worker'[u] = worker[u])
      BY <2>6 DEF Working
    <2>15. Held'
      <3>1. ASSUME NEW u \in Workers, Working(u)'
            PROVE  (/\ worker[u].key \in DOMAIN ops
                    /\ ops[worker[u].key].attempts = worker[u].attempts
                    /\ ops[worker[u].key].session = worker[u].session
                    /\ ops[worker[u].key].status \in InFlight)'
        <4>1. CASE u = w BY <2>2, <2>3, <2>5, <2>6, <2>8, <4>1 DEF InFlight
        <4>2. CASE u # w
          <5>1. Working(u) /\ worker'[u] = worker[u] /\ worker[u].key \in DOMAIN ops /\ worker[u].key # k
            BY <2>3, <2>14, <3>1, <4>2 DEF Held
          <5> QED BY <2>8, <5>1 DEF Held
        <4> QED BY <4>1, <4>2
      <3>2. ASSUME NEW u \in Workers, Working(u)'
            PROVE  (worker[u].pc = "finishing" =>
                      worker[u].out \in Outs /\ (worker[u].out = "SENT" => Proven(worker[u].key)))'
        <4>1. CASE u = w BY <2>5, <2>6, <4>1
        <4>2. CASE u # w
          <5>1. Working(u) /\ worker'[u] = worker[u] BY <2>14, <3>2, <4>2
          <5>2. worker[u].pc = "finishing" =>
                   worker[u].out \in Outs /\ (worker[u].out = "SENT" => Proven(worker[u].key)')
            BY <2>13, <5>1 DEF Held
          <5> QED BY <5>1, <5>2 DEF Proven
        <4> QED BY <4>1, <4>2
      <3>3. \A u, v \in Workers : Working(u)' /\ Working(v)' /\ worker'[u].key = worker'[v].key => u = v
        BY <2>3, <2>5, <2>6, <2>14 DEF Held
      <3> QED BY <3>1, <3>2, <3>3 DEF Held
    <2>16. Posts'
      <3>1. \A u \in Workers : Working(u)' /\ worker'[u].key # k => Working(u) /\ worker'[u] = worker[u]
        BY <2>5, <2>6, <2>14
      <3>2. ASSUME NEW p \in posted
            PROVE  p[1] # k /\ p[1] \in DOMAIN ops' /\ p[2] = ops'[p[1]].session
                   /\ ops'[p[1]].status \in InFlight
        BY <2>3, <2>8 DEF Posts
      <3> QED BY <1>1, <3>1, <3>2 DEF Posts
    <2>17. Mirrored'
      <3>1. DeliveredIsPosted'
        BY <1>1, <2>4, <2>13 DEF DeliveriesMove, Mirrored, DeliveredIsPosted, Proven
      <3>2. \A v \in DOMAIN results : results[v].op # NoKey => results[v].op \in DOMAIN ops BY DEF Named
      <3> QED BY <1>1, <2>8, <3>1, <3>2 DEF Mirrored
    <2>18. Timed' BY <1>1, TimedKept
    <2> QED BY <2>9, <2>10, <2>11, <2>12, <2>15, <2>16, <2>17, <2>18
  <1> QED BY <1>2, <1>3

\* New notices wait or are queued with the right address, and so are those that waited.
RowsGrow ==
    /\ DOMAIN ops \subseteq DOMAIN ops' /\ DOMAIN ops' \subseteq Keys
    /\ \A k \in DOMAIN ops' :
         /\ ops'[k] \in Rows
         /\ \/ k \in DOMAIN ops /\ ops'[k] = ops[k]
            \/ /\ ops'[k].status = "QUEUED" \/ (k \notin DOMAIN ops /\ ops'[k].status = "WAITING_ROUTE")
               /\ k \in DOMAIN ops => ops[k].status = "WAITING_ROUTE"
               /\ ops'[k].status = "QUEUED" => ops'[k].session \in Sessions
               /\ Owner(k) # NoSession => ops'[k].session \in Line(succ, Owner(k))

\* New results and those that change name the notice that is queued for them, if any.
ResultsGrow ==
    /\ DOMAIN results' \subseteq Versions
    /\ \A v \in DOMAIN results' :
         /\ results'[v] \in Results
         /\ contract # NoSession => results'[v].owner = contract
         /\ results'[v].mirror = "DELIVERED" =>
              v \in DOMAIN results /\ results[v].mirror = "DELIVERED" /\ results'[v].op = results[v].op
         /\ results'[v].op # NoKey =>
              /\ results'[v].op \in DOMAIN ops' /\ results'[v].op[1] = v
              /\ \/ v \in DOMAIN results /\ results'[v] = results[v]
                 \/ ops'[results'[v].op].status = "QUEUED"
    /\ \A k \in DOMAIN ops' : k[1] \in Versions => k[1] \in DOMAIN results' /\ results'[k[1]].op = k

\* A step of this shape keeps the invariant.
LEMMA TablesSafe ==
  ASSUME OutboxInv, UNCHANGED <<routeVars, issued, canceller, posted, missed>>, calls' \subseteq calls,
         task' \in [status : {"RUNNING", "RESULT_RECORDED", "COMPLETE", "BLOCKED"},
                    version : Versions \cup {NoSession}],
         RowsGrow, ResultsGrow, DeliveriesMove, WorkersFree, Timed'
  PROVE  OutboxInv'
  <1> USE DEF OutboxInv
  <1>1. /\ DOMAIN ops \subseteq DOMAIN ops'
        /\ \A k \in DOMAIN ops : ops[k].status \in InFlight => ops'[k] = ops[k]
    BY DEF RowsGrow, InFlight
  <1>2. TypeOK'
    <2>1. DOMAIN results' \subseteq Versions /\ \A v \in DOMAIN results' : results'[v] \in Results
      BY DEF ResultsGrow
    <2>2. DOMAIN ops' \subseteq Keys /\ \A k \in DOMAIN ops' : ops'[k] \in Rows BY DEF RowsGrow
    <2>3. DOMAIN deliveries' \subseteq Events \X Sessions
          /\ \A d \in DOMAIN deliveries' : deliveries'[d] \in Deliveries
      BY DEF DeliveriesMove
    <2>4. /\ worker' \in [Workers -> Copies]
          /\ \A u \in Workers : worker'[u].key \in DOMAIN ops' \cup {NoKey}
      BY <1>1 DEF WorkersFree
    <2>5. /\ canceller' \in [key : DOMAIN ops' \cup {NoKey}, seen : BOOLEAN]
          /\ posted' \subseteq (DOMAIN ops') \X Sessions
          /\ calls' \subseteq Calls
      BY <1>1 DEF TypeOK
    <2> QED BY <2>1, <2>2, <2>3, <2>4, <2>5 DEF TypeOK, routeVars
  <1>3. Committed' /\ Called' BY CommittedKept, CalledKept
  <1>4. Named'
    <2>1. \A k \in DOMAIN ops' : ops'[k].status = "RECONCILED_SUPERSEDED" => k[1] \in Events
      BY DEF RowsGrow, Named
    <2>2. \A v \in DOMAIN results' :
            results'[v].op # NoKey => results'[v].op \in DOMAIN ops' /\ results'[v].op[1] = v
      BY DEF ResultsGrow
    <2>3. \A k \in DOMAIN ops' : k[1] \in Versions => k[1] \in DOMAIN results' /\ results'[k[1]].op = k
      BY DEF ResultsGrow
    <2>4. \A d \in DOMAIN deliveries' : deliveries'[d].op \in DOMAIN ops' BY DEF DeliveriesMove
    <2>5. canceller' # NoCancel => canceller'.key \in DOMAIN ops' BY <1>1 DEF Named
    <2> QED BY <2>1, <2>2, <2>3, <2>4, <2>5 DEF Named
  <1>5. Addressed'
    <2>1. succ' = succ /\ contract' = contract /\ \A j : Owner(j)' = Owner(j) BY DEF routeVars, Owner
    <2>2. ASSUME NEW k \in DOMAIN ops'
          PROVE  /\ ops'[k].status # "WAITING_ROUTE" => ops'[k].session \in Sessions
                 /\ Owner(k) # NoSession => ops'[k].session \in Line(succ, Owner(k))
      BY DEF RowsGrow, Addressed
    <2>3. contract # NoSession => \A v \in DOMAIN results' : results'[v].owner = contract BY DEF ResultsGrow
    <2>4. \A u \in Workers : worker'[u].pc = "redirecting" => worker'[u] = worker[u]
      BY DEF WorkersFree, Busy
    <2> QED BY <2>1, <2>2, <2>3, <2>4 DEF Addressed
  <1>6. Held' /\ Posts'
    <2>1. \A u \in Workers : worker'[u].pc \in Busy => worker'[u] = worker[u] BY DEF WorkersFree
    <2>2. Held /\ Posts /\ posted' = posted OBVIOUS
    <2>3. \A k \in DOMAIN ops : ops[k].status \in InFlight =>
             /\ ops'[k].session = ops[k].session /\ ops'[k].attempts = ops[k].attempts
             /\ ops'[k].status \in InFlight
      BY <1>1
    <2>4. DOMAIN ops \subseteq DOMAIN ops' BY <1>1
    <2> HIDE DEF OutboxInv
    <2> QED BY <2>1, <2>2, <2>3, <2>4, HeldKept
  <1>7. DeliveredIsPosted'
    <2>1. \A v \in DOMAIN results' : results'[v].mirror = "DELIVERED" =>
            v \in DOMAIN results /\ results[v].mirror = "DELIVERED" /\ results'[v].op = results[v].op
      BY DEF ResultsGrow
    <2>2. \A d \in DOMAIN deliveries' : deliveries'[d].status = "DELIVERED" =>
            /\ d \in DOMAIN deliveries /\ deliveries[d].status = "DELIVERED"
            /\ deliveries'[d].op = deliveries[d].op
      BY DEF DeliveriesMove
    <2> HIDE DEF OutboxInv
    <2>3. Mirrored /\ Posts BY DEF OutboxInv
    <2> QED BY <1>1, <2>1, <2>2, <2>3, DeliveredKept
  <1>8. Mirrored'
    <2>1. ASSUME NEW v \in DOMAIN results' \ missed, results'[v].op # NoKey, results'[v].ack = "none"
          PROVE  /\ ops'[results'[v].op].status = "WAITING_ROUTE" => results'[v].mirror = "WAITING_ROUTE"
                 /\ ops'[results'[v].op].status = "SENT" => results'[v].mirror = "DELIVERED"
      <3>1. CASE ops'[results'[v].op].status = "QUEUED" BY <3>1
      <3>2. CASE ops'[results'[v].op].status # "QUEUED"
        <4>1. v \in DOMAIN results /\ results'[v] = results[v] BY <2>1, <3>2 DEF ResultsGrow
        <4>2. results[v].op \in DOMAIN ops BY <2>1, <4>1 DEF Named
        <4>3. ops'[results[v].op] = ops[results[v].op] BY <1>1, <3>2, <4>1, <4>2 DEF RowsGrow
        <4> QED BY <2>1, <4>1, <4>3 DEF Mirrored
      <3> QED BY <3>1, <3>2
    <2> QED BY <1>7, <2>1 DEF Mirrored
  <1> QED BY <1>2, <1>3, <1>4, <1>5, <1>6, <1>8

LEMMA RefreshSafe == ASSUME OutboxInv, NEW w \in Workers, Refresh(w) PROVE OutboxInv'
  <1> DEFINE wake == {k \in DOMAIN ops : Waiting(k) /\ Active(SessionHeir(k))}
             moves == Moves(wake, SessionHeir)
  <1>1. UNCHANGED <<routeVars, task, calls, issued, canceller, posted, missed>> BY DEF Refresh, userVars
  <1>2. CASE Clash(moves)
    <2>1. Rest(w) /\ UNCHANGED <<results, ops, deliveries>> BY <1>2 DEF Refresh
    <2> QED BY <1>1, <2>1, RestSafe DEF userVars
  <1>3. CASE ~Clash(moves)
    <2>1. /\ ops' = Requeued(ops, wake, SessionHeir)
          /\ deliveries' = Moved(moves)
          /\ results' = [v \in DOMAIN results |->
                           IF results[v].op \in wake
                           THEN [results[v] EXCEPT !.mirror = "QUEUED"] ELSE results[v]]
          /\ Goto(w, "routed")
      BY <1>3 DEF Refresh
    <2>2. /\ wake \subseteq DOMAIN ops
          /\ \A k \in wake : /\ ops[k].status = "WAITING_ROUTE" /\ SessionHeir(k) \in Sessions
                             /\ Owner(k) # NoSession => SessionHeir(k) \in Line(succ, Owner(k))
      <3>1. ASSUME NEW k \in wake, Owner(k) # NoSession PROVE SessionHeir(k) \in Line(succ, Owner(k))
        <4>1. TypeOK /\ ops[k].session \in Line(succ, Owner(k)) BY <3>1 DEF OutboxInv, Addressed
        <4> QED BY <4>1, Inherits DEF SessionHeir
      <3> QED BY <3>1 DEF Waiting, Active
    <2>3. \A k \in DOMAIN ops : ops[k] \in Rows BY DEF OutboxInv, TypeOK
    <2> HIDE DEF wake
    <2>4. /\ DOMAIN ops' = DOMAIN ops
          /\ \A k \in DOMAIN ops :
               IF k \in wake
               THEN ops'[k] \in Rows /\ ops'[k].status = "QUEUED" /\ ops'[k].session = SessionHeir(k)
               ELSE ops'[k] = ops[k]
      <3>1. \A k \in wake : SessionHeir(k) \in Refs BY <2>2 DEF Refs
      <3> QED BY <2>1, <2>3, <3>1 DEF Requeued, Rows, Statuses
    <2>5. RowsGrow
      <3>1. DOMAIN ops \subseteq Keys BY DEF OutboxInv, TypeOK
      <3> QED BY <2>2, <2>3, <2>4, <3>1 DEF RowsGrow
    <2>6. DeliveriesMove
      <3>1. moves \subseteq [event : Events, from : Sessions, to : Sessions]
            /\ \A m \in moves : <<m.event, m.from>> \in DOMAIN deliveries
        BY DEF Moves
      <3> HIDE DEF moves
      <3> QED BY <2>1, <2>4, <3>1, MovedEffect
    <2>7. \A v \in DOMAIN results : results[v] \in Results BY DEF OutboxInv, TypeOK
    <2>8. /\ DOMAIN results' = DOMAIN results
          /\ \A v \in DOMAIN results :
               /\ results'[v] \in Results /\ results'[v].op = results[v].op
               /\ results'[v].owner = results[v].owner
               /\ results'[v].stamp = results[v].stamp /\ results'[v].ack = results[v].ack
               /\ IF results[v].op \in wake THEN results'[v].mirror = "QUEUED" ELSE results'[v] = results[v]
      BY <2>1, <2>7 DEF Results, Statuses
    <2>9. ResultsGrow
      <3>1. /\ DOMAIN results \subseteq Versions
            /\ \A v \in DOMAIN results : results[v].op # NoKey => results[v].op \in DOMAIN ops /\ results[v].op[1] = v
            /\ \A k \in DOMAIN ops : k[1] \in Versions => k[1] \in DOMAIN results /\ results[k[1]].op = k
            /\ contract # NoSession => \A v \in DOMAIN results : results[v].owner = contract
        BY DEF OutboxInv, TypeOK, Named, Addressed
      <3>2. \A v \in DOMAIN results : results[v].op \in wake => ops'[results[v].op].status = "QUEUED"
        BY <2>2, <2>4
      <3> QED BY <2>4, <2>8, <3>1, <3>2 DEF ResultsGrow
    <2>10. WorkersFree BY <2>1, GotoFree DEF OutboxInv
    <2>11. Timed' BY <1>1, <2>8, TimedKept DEF OutboxInv
    <2>12. task \in [status : {"RUNNING", "RESULT_RECORDED", "COMPLETE", "BLOCKED"},
                     version : Versions \cup {NoSession}]
      BY DEF OutboxInv, TypeOK
    <2> QED BY <1>1, <2>5, <2>6, <2>9, <2>10, <2>11, <2>12, TablesSafe
  <1> QED BY <1>2, <1>3

\* The owner a waiting notice is attached to is the one it is for or inherits from it.
LEMMA CallbackHeirOwned ==
  ASSUME OutboxInv, NEW k \in DOMAIN ops, k[1] \notin Events, Owner(k) # NoSession
  PROVE  CallbackHeir(k) \in Line(succ, Owner(k))
  <1> USE DEF OutboxInv
  <1>1. CASE contract # NoSession
    <2>1. OwnerRef = contract /\ CallbackHeir(k) = Resolve(OwnerRef) /\ Owner(k) = contract
      BY <1>1 DEF OwnerRef, CallbackHeir, Owner
    <2> QED BY <2>1, Resolved
  <1>2. CASE contract = NoSession
    <2>1. Owner(k) = k[2] /\ ops[k].session \in Line(succ, k[2]) BY <1>2 DEF Owner, Addressed
    <2>2. ops[k].session # NoSession
      <3>1. CASE k[2] \in Sessions BY <2>1, <3>1, Tabled, Inside, RefAssumption
      <3>2. CASE k[2] \notin Sessions BY <2>1, <3>2, Tabled, Inside
      <3> QED BY <3>1, <3>2
    <2>3. CallbackHeir(k) = Resolve(ops[k].session) BY <1>2, <2>2 DEF CallbackHeir
    <2> QED BY <2>1, <2>3, Inherits
  <1> QED BY <1>1, <1>2

LEMMA ResultHeirOwned ==
  ASSUME OutboxInv, NEW v \in DOMAIN results, contract # NoSession
  PROVE  ResultHeir(v) \in Line(succ, contract)
  <1>1. results[v].owner = contract BY DEF OutboxInv, Addressed
  <1>2. ResultHeir(v) = Resolve(contract) BY <1>1 DEF ResultHeir
  <1> QED BY <1>2, Resolved DEF OutboxInv

LEMMA NewRow ==
  ASSUME NEW st \in Statuses, NEW s \in Refs
  PROVE  Row(st, s) \in Rows /\ Row(st, s).status = st /\ Row(st, s).session = s
  BY DEF Row, Rows

LEMMA MaterializeSafe == ASSUME OutboxInv, NEW w \in Workers, Materialize(w) PROVE OutboxInv'
  <1> DEFINE attach == {v \in Unattached : Active(ResultHeir(v))}
             wake   == {k \in DOMAIN ops : /\ k[1] \notin Events /\ Waiting(k) /\ Active(CallbackHeir(k))}
             made   == {<<v, ResultHeir(v)>> : v \in attach}
             woken  == Requeued(ops, wake, CallbackHeir)
             new    == [k \in made |-> Row("QUEUED", k[2])]
  <1>1. /\ UNCHANGED <<routeVars, task, deliveries, calls, issued, canceller, posted, missed>>
        /\ Goto(w, "attached")
        /\ ops' = Inserted(woken, new)
        /\ results' = [v \in DOMAIN results |->
                         IF v \in attach
                         THEN [results[v] EXCEPT !.op = <<v, ResultHeir(v)>>, !.mirror = "QUEUED",
                                                 !.owner = IF @ # NoSession THEN @ ELSE ResultHeir(v)]
                         ELSE results[v]]
    BY DEF Materialize, userVars
  <1>2. /\ attach \subseteq DOMAIN results
        /\ \A v \in attach : results[v].op = NoKey /\ ResultHeir(v) \in Sessions
    BY DEF Unattached, Active
  <1>3. \A k \in wake : /\ k \in DOMAIN ops /\ k[1] \notin Events /\ ops[k].status = "WAITING_ROUTE"
                        /\ CallbackHeir(k) \in Sessions
                        /\ Owner(k) # NoSession => CallbackHeir(k) \in Line(succ, Owner(k))
    BY CallbackHeirOwned DEF Waiting, Active
  <1>4. /\ DOMAIN ops \subseteq Keys /\ \A k \in DOMAIN ops : ops[k] \in Rows
        /\ DOMAIN results \subseteq Versions /\ \A v \in DOMAIN results : results[v] \in Results
    BY DEF OutboxInv, TypeOK
  <1>5. \A k \in made : /\ k[1] \in attach /\ k[2] = ResultHeir(k[1]) /\ k = <<k[1], ResultHeir(k[1])>>
                        /\ k \in Keys
    BY <1>2, <1>4 DEF Keys, Notices, Refs
  <1>6. \A k \in DOMAIN ops : k \notin made /\ k[1] \notin attach
    <2>1. ASSUME NEW k \in DOMAIN ops, k[1] \in attach PROVE FALSE
      <3>1. k[1] \in Versions /\ results[k[1]].op = NoKey BY <1>2, <1>4, <2>1
      <3>2. k = NoKey BY <3>1 DEF OutboxInv, Named
      <3>3. k \in Notices \X Refs BY <1>4 DEF Keys
      <3> QED BY <3>2, <3>3, NoticeAssumption DEF NoKey, Notices
    <2> QED BY <1>5, <2>1
  <1>7. /\ DOMAIN woken = DOMAIN ops
        /\ \A k \in DOMAIN ops :
             IF k \in wake
             THEN woken[k] \in Rows /\ woken[k].status = "QUEUED" /\ woken[k].session = CallbackHeir(k)
             ELSE woken[k] = ops[k]
    <2>1. \A k \in wake : CallbackHeir(k) \in Refs BY <1>3 DEF Refs
    <2> HIDE DEF wake
    <2> QED BY <1>4, <2>1 DEF Requeued, Rows, Statuses
  <1>8. /\ DOMAIN new = made
        /\ \A k \in made : new[k] \in Rows /\ new[k].status = "QUEUED" /\ new[k].session = ResultHeir(k[1])
    <2>1. "QUEUED" \in Statuses BY DEF Statuses
    <2>2. \A k \in made : k[2] = ResultHeir(k[1]) /\ k[2] \in Refs BY <1>2, <1>5 DEF Refs
    <2> HIDE DEF made
    <2> QED BY <2>1, <2>2, NewRow
  <1> HIDE DEF attach, wake, made, woken, new
  <1>9. /\ DOMAIN ops' = DOMAIN ops \cup made
        /\ \A k \in DOMAIN ops : ops'[k] = woken[k]
        /\ \A k \in made : ops'[k] = new[k]
    <2>1. /\ DOMAIN ops' = DOMAIN woken \cup DOMAIN new
          /\ \A k \in DOMAIN woken : ops'[k] = woken[k]
          /\ \A k \in DOMAIN new \ DOMAIN woken : ops'[k] = new[k]
      BY <1>1 DEF Inserted
    <2> QED BY <1>6, <1>7, <1>8, <2>1
  <1>10. ASSUME NEW k \in made, Owner(k) # NoSession PROVE ResultHeir(k[1]) \in Line(succ, Owner(k))
    <2>1. k[1] \in DOMAIN results /\ k[1] \in Versions /\ k[2] = ResultHeir(k[1]) BY <1>2, <1>4, <1>5, <1>10
    <2>2. k[1] \notin Events BY <2>1, NoticeAssumption
    <2>3. CASE contract = NoSession BY <2>1, <2>2, <2>3, Tabled, Begins DEF Owner, OutboxInv
    <2>4. CASE contract # NoSession BY <2>1, <2>2, <2>4, ResultHeirOwned DEF Owner
    <2> QED BY <2>3, <2>4
  <1>11. RowsGrow
    <2>1. \A k \in made : ResultHeir(k[1]) \in Sessions BY <1>2, <1>5
    <2>2. DOMAIN ops \subseteq DOMAIN ops' /\ DOMAIN ops' \subseteq Keys BY <1>4, <1>5, <1>9
    <2>3. ASSUME NEW k \in DOMAIN ops
          PROVE  /\ ops'[k] \in Rows
                 /\ \/ ops'[k] = ops[k]
                    \/ /\ ops'[k].status = "QUEUED" /\ ops[k].status = "WAITING_ROUTE"
                       /\ ops'[k].session \in Sessions
                       /\ Owner(k) # NoSession => ops'[k].session \in Line(succ, Owner(k))
      BY <1>3, <1>4, <1>7, <1>9
    <2>4. ASSUME NEW k \in made
          PROVE  /\ ops'[k] \in Rows /\ k \notin DOMAIN ops /\ ops'[k].status = "QUEUED"
                 /\ ops'[k].session \in Sessions
                 /\ Owner(k) # NoSession => ops'[k].session \in Line(succ, Owner(k))
      BY <1>6, <1>8, <1>9, <1>10, <2>1
    <2> QED BY <1>9, <2>2, <2>3, <2>4 DEF RowsGrow
  <1>12. /\ DOMAIN results' = DOMAIN results
         /\ \A v \in DOMAIN results :
              /\ results'[v] \in Results
              /\ results'[v].stamp = results[v].stamp /\ results'[v].ack = results[v].ack
              /\ IF v \in attach
                 THEN /\ results'[v].op = <<v, ResultHeir(v)>> /\ results'[v].mirror = "QUEUED"
                      /\ results[v].owner # NoSession => results'[v].owner = results[v].owner
                 ELSE results'[v] = results[v]
    <2>1. \A v \in attach : ResultHeir(v) \in Refs /\ <<v, ResultHeir(v)>> \in Keys
      BY <1>2, <1>4 DEF Refs, Keys, Notices
    <2> QED BY <1>1, <1>4, <2>1 DEF Results, Statuses
  <1>13. ResultsGrow
    <2>1. ASSUME NEW v \in DOMAIN results
          PROVE  /\ contract # NoSession => results'[v].owner = contract
                 /\ results'[v].mirror = "DELIVERED" =>
                      results[v].mirror = "DELIVERED" /\ results'[v].op = results[v].op
                 /\ results'[v].op # NoKey =>
                      /\ results'[v].op \in DOMAIN ops' /\ results'[v].op[1] = v
                      /\ results'[v] = results[v] \/ ops'[results'[v].op].status = "QUEUED"
      <3>1. contract # NoSession => results[v].owner = contract BY DEF OutboxInv, Addressed
      <3>2. CASE v \in attach
        <4>1. <<v, ResultHeir(v)>> \in made BY <3>2 DEF made
        <4> QED BY <1>8, <1>9, <1>12, <3>1, <3>2, <4>1
      <3>3. CASE v \notin attach
        <4>1. results[v].op # NoKey => results[v].op \in DOMAIN ops /\ results[v].op[1] = v
          BY DEF OutboxInv, Named
        <4> QED BY <1>9, <1>12, <3>1, <3>3, <4>1
      <3> QED BY <3>2, <3>3
    <2>2. ASSUME NEW k \in DOMAIN ops', k[1] \in Versions
          PROVE  k[1] \in DOMAIN results /\ results'[k[1]].op = k
      <3>1. CASE k \in made BY <1>2, <1>5, <1>12, <3>1
      <3>2. CASE k \in DOMAIN ops
        <4>1. k[1] \in DOMAIN results /\ results[k[1]].op = k BY <2>2, <3>2 DEF OutboxInv, Named
        <4> QED BY <1>6, <1>12, <3>2, <4>1
      <3> QED BY <1>9, <3>1, <3>2
    <2> QED BY <1>4, <1>12, <2>1, <2>2 DEF ResultsGrow
  <1>14. DeliveriesMove
    <2>1. /\ DOMAIN deliveries \subseteq Events \X Sessions
          /\ \A d \in DOMAIN deliveries : deliveries[d] \in Deliveries /\ deliveries[d].op \in DOMAIN ops
      BY DEF OutboxInv, TypeOK, Named
    <2> QED BY <1>1, <1>9, <2>1 DEF DeliveriesMove
  <1>15. WorkersFree BY <1>1, GotoFree DEF OutboxInv
  <1>16. Timed' BY <1>1, <1>12, TimedKept DEF OutboxInv
  <1>17. task \in [status : {"RUNNING", "RESULT_RECORDED", "COMPLETE", "BLOCKED"},
                   version : Versions \cup {NoSession}]
    BY DEF OutboxInv, TypeOK
  <1> QED BY <1>1, <1>11, <1>13, <1>14, <1>15, <1>16, <1>17, TablesSafe

-----------------------------------------------------------------------------
(* Commands. *)

\* A command reads who is to be told.
LEMMA ReadSafe ==
  ASSUME OutboxInv, NEW n \in Notices, NEW owner \in Refs, NEW target \in Refs, Read(n, owner, target),
         Active(target) => owner \in Sessions /\ target \in Sessions,
         n \in Events => owner \in Sessions,
         IF n \in Events \/ contract = NoSession THEN owner = target
         ELSE owner = contract /\ target \in Line(succ, contract)
  PROVE  OutboxInv'
  <1> DEFINE c == [notice |-> n, stamp |-> issued + 1, owner |-> owner, target |-> target,
                   active |-> Active(target)]
  <1>1. /\ issued' = issued + 1 /\ calls' = calls \cup {c}
        /\ UNCHANGED <<routeVars, task, results, ops, deliveries, canceller, worker, posted, missed>>
    BY DEF Read
  <1>2. issued \in Nat /\ calls \subseteq Calls /\ \A v \in DOMAIN results : results[v].stamp \in Nat
    BY DEF OutboxInv, TypeOK, Results
  <1>3. /\ c \in Calls /\ c.notice = n /\ c.stamp = issued + 1 /\ c.owner = owner /\ c.target = target
        /\ c.active = Active(target)
    BY <1>2 DEF Calls, Active
  <1> HIDE DEF c
  <1>4. TypeOK' BY <1>1, <1>2, <1>3 DEF OutboxInv, TypeOK, routeVars
  <1>5. Committed' BY <1>1, CommittedKept DEF OutboxInv
  <1>6. Called' BY <1>1, <1>3 DEF OutboxInv, Called, routeVars
  <1>7. Named' /\ Mirrored'
    BY <1>1 DEF OutboxInv, Named, Mirrored, DeliveredIsPosted, Proven
  <1>8. Addressed'
    <2>1. succ' = succ /\ contract' = contract /\ \A j : Owner(j)' = Owner(j) BY <1>1 DEF routeVars, Owner
    <2> QED BY <1>1, <2>1 DEF OutboxInv, Addressed
  <1>9. Held' /\ Posts'
    <2>1. \A w : Working(w)' = Working(w) BY <1>1 DEF Working
    <2> QED BY <1>1, <2>1 DEF OutboxInv, Held, Posts, Proven
  <1>10. Timed'
    <2>1. /\ \A d \in calls : d.stamp \in Nat /\ d.stamp <= issued
          /\ \A v \in DOMAIN results : results[v].stamp <= issued
      BY <1>2 DEF OutboxInv, Timed, Calls
    <2>2. CompleteIsAccepted' BY <1>1 DEF OutboxInv, Timed, CompleteIsAccepted, ShowsLatest
    <2>3. /\ \A d \in calls' : d.stamp <= issued'
          /\ \A d, e \in calls' : d.stamp = e.stamp => d = e
      BY <1>1, <1>2, <1>3, <2>1 DEF OutboxInv, Timed
    <2>4. /\ \A v \in DOMAIN results : results[v].stamp <= issued'
          /\ \A v \in DOMAIN results, d \in calls' : d.stamp # results[v].stamp
      BY <1>1, <1>2, <1>3, <2>1 DEF OutboxInv, Timed
    <2> QED BY <1>1, <2>2, <2>3, <2>4 DEF OutboxInv, Timed
  <1> QED BY <1>4, <1>5, <1>6, <1>7, <1>8, <1>9, <1>10 DEF OutboxInv

\* A task's notices are for the contract, or for the active root.
LEMMA OwnerRead ==
  ASSUME OutboxInv
  PROVE  /\ OwnerRef \in Refs /\ Resolve(OwnerRef) \in Refs
         /\ Active(Resolve(OwnerRef)) => OwnerRef \in Sessions /\ Resolve(OwnerRef) \in Sessions
         /\ IF contract = NoSession THEN OwnerRef = Resolve(OwnerRef)
            ELSE OwnerRef = contract /\ Resolve(OwnerRef) \in Line(succ, contract)
  <1>1. TypeOK /\ Committed BY DEF OutboxInv
  <1>2. /\ OwnerRef \in Refs
        /\ contract # NoSession => OwnerRef = contract
        /\ contract = NoSession => Resolve(OwnerRef) = OwnerRef
    BY <1>1, Owners
  <1>3. Resolve(OwnerRef) \in Refs /\ Resolve(OwnerRef) \in Line(succ, OwnerRef) BY <1>1, <1>2, Resolved
  <1>4. OwnerRef \notin Sessions => Resolve(OwnerRef) = OwnerRef BY <1>1, <1>3, Tabled, Inside
  <1> QED BY <1>2, <1>3, <1>4 DEF Active

LEMMA ReadResultSafe == ASSUME OutboxInv, NEW v \in Versions, ReadResult(v) PROVE OutboxInv'
  <1>1. Read(v, OwnerRef, Resolve(OwnerRef)) /\ v \in Notices /\ v \notin Events
    BY NoticeAssumption DEF ReadResult, Notices
  <1> QED BY <1>1, OwnerRead, ReadSafe

LEMMA ReadCallbackSafe == ASSUME OutboxInv, NEW c \in Callbacks, ReadCallback(c) PROVE OutboxInv'
  <1>1. Read(c, OwnerRef, Resolve(OwnerRef)) /\ c \in Notices /\ c \notin Events
    BY NoticeAssumption DEF ReadCallback, OwnerRef, Notices
  <1> QED BY <1>1, OwnerRead, ReadSafe

LEMMA ReadTargetsSafe == ASSUME OutboxInv, NEW e \in Events, ReadTargets(e) PROVE OutboxInv'
  <1>1. Controller \in Sessions /\ Read(e, Controller, Controller) BY Owners DEF ReadTargets, OutboxInv
  <1>2. e \in Notices /\ Controller \in Refs BY <1>1 DEF Notices, Refs
  <1> QED BY <1>1, <1>2, ReadSafe

\* Deliveries of notices that are still there.
LEMMA DeliveriesStay ==
  ASSUME OutboxInv, deliveries' = deliveries, DOMAIN ops \subseteq DOMAIN ops'
  PROVE  DeliveriesMove
  BY DEF OutboxInv, TypeOK, Named, DeliveriesMove

LEMMA WorkersStay == ASSUME OutboxInv, worker' = worker PROVE WorkersFree
  BY DEF OutboxInv, TypeOK, WorkersFree

LEMMA TaskTyped ==
  OutboxInv => task \in [status : {"RUNNING", "RESULT_RECORDED", "COMPLETE", "BLOCKED"},
                         version : Versions \cup {NoSession}]
  BY DEF OutboxInv, TypeOK

\* Results stay where the table of notices only got one about something else.
LEMMA ResultsStay ==
  ASSUME OutboxInv, results' = results, DOMAIN ops \subseteq DOMAIN ops',
         \A k \in DOMAIN ops' \ DOMAIN ops : k[1] \notin Versions
  PROVE  ResultsGrow
  BY DEF OutboxInv, TypeOK, Named, Addressed, ResultsGrow

\* One notice is added, with the right address.
Added(k, st, s) == Inserted(ops, [j \in {k} |-> Row(st, s)])

LEMMA RowAdded ==
  ASSUME OutboxInv, NEW k \in Keys, k \notin DOMAIN ops, NEW st \in {"QUEUED", "WAITING_ROUTE"},
         NEW s \in Refs, ops' = Added(k, st, s),
         st = "QUEUED" => s \in Sessions, Owner(k) # NoSession => s \in Line(succ, Owner(k))
  PROVE  RowsGrow /\ DOMAIN ops' = DOMAIN ops \cup {k} /\ ops'[k].status = st
  <1>1. Row(st, s) \in Rows /\ Row(st, s).status = st /\ Row(st, s).session = s
    BY NewRow DEF Statuses
  <1>2. /\ DOMAIN ops' = DOMAIN ops \cup {k} /\ ops'[k] = Row(st, s)
        /\ \A j \in DOMAIN ops : ops'[j] = ops[j]
    BY DEF Inserted, Added
  <1>3. DOMAIN ops \subseteq Keys /\ \A j \in DOMAIN ops : ops[j] \in Rows BY DEF OutboxInv, TypeOK
  <1> QED BY <1>1, <1>2, <1>3 DEF RowsGrow

LEMMA CommitResultSafe == ASSUME OutboxInv, NEW c \in calls, CommitResult(c) PROVE OutboxInv'
  <1> DEFINE v   == c.notice
             key == IF c.active THEN <<v, c.target>> ELSE NoKey
             row == [op     |-> key,
                     mirror |-> IF contract = LocalOwner THEN "WAITING_LOCAL"
                                ELSE IF c.active THEN "QUEUED" ELSE "WAITING_ROUTE",
                     owner  |-> c.owner, stamp |-> c.stamp, ack |-> "none"]
  <1>1. /\ v \in Versions /\ calls' = calls \ {c}
        /\ UNCHANGED <<routeVars, deliveries, issued, canceller, worker, posted, missed>>
    BY DEF CommitResult
  <1>2. WorkersFree BY <1>1, WorkersStay
  <1>3. CASE v \in DOMAIN results
    <2>1. UNCHANGED <<task, results, ops>> BY <1>3 DEF CommitResult
    <2>2. RowsGrow BY <2>1 DEF RowsGrow, OutboxInv, TypeOK
    <2>3. ResultsGrow BY <2>1, ResultsStay
    <2>4. DeliveriesMove BY <1>1, <2>1, DeliveriesStay
    <2>5. Timed' BY <1>1, <2>1, TimedKept DEF OutboxInv
    <2>6. calls' \subseteq calls BY <1>1
    <2> QED BY <1>1, <1>2, <2>1, <2>2, <2>3, <2>4, <2>5, <2>6, TaskTyped, TablesSafe
  <1>4. CASE v \notin DOMAIN results
    <2>1. /\ results' = Inserted(results, [n \in {v} |-> row])
          /\ ops' = IF c.active THEN Inserted(ops, [k \in {key} |-> Row("QUEUED", c.target)]) ELSE ops
          /\ task' = [status |-> "RESULT_RECORDED", version |-> v]
      BY <1>4 DEF CommitResult
    <2>2. /\ c \in Calls /\ v \notin Events
          /\ c.active => c.owner \in Sessions /\ c.target \in Sessions
          /\ IF contract = NoSession THEN c.owner = c.target
             ELSE c.owner = contract /\ c.target \in Line(succ, contract)
      BY <1>1, NoticeAssumption DEF OutboxInv, TypeOK, Called
    <2>3. /\ row \in Results /\ row.op = key /\ row.owner = c.owner /\ row.stamp = c.stamp
          /\ row.ack = "none" /\ row.mirror # "DELIVERED"
      <3>1. key \in Keys \cup {NoKey} /\ c.owner \in Refs /\ c.stamp \in Nat
        BY <1>1, <2>2 DEF Keys, Notices, Calls
      <3> QED BY <3>1 DEF Results, Statuses
    <2>4. /\ DOMAIN results' = DOMAIN results \cup {v} /\ results'[v] = row
          /\ \A u \in DOMAIN results : results'[u] = results[u]
      BY <1>4, <2>1 DEF Inserted
    <2>5. \A k \in DOMAIN ops : k[1] # v BY <1>1, <1>4 DEF OutboxInv, Named
    <2>6. /\ RowsGrow
          /\ DOMAIN ops' = IF c.active THEN DOMAIN ops \cup {key} ELSE DOMAIN ops
          /\ c.active => ops'[key].status = "QUEUED"
          /\ c.active => key[1] = v /\ key # NoKey
          /\ ~c.active => key = NoKey
      <3>1. CASE c.active
        <4>1. key \in Keys /\ key \notin DOMAIN ops /\ key[1] = v /\ key[2] = c.target /\ c.target \in Refs
          BY <1>1, <2>2, <2>5, <3>1 DEF Keys, Notices, Refs
        <4>2. Owner(key) # NoSession => c.target \in Line(succ, Owner(key))
          BY <2>2, <4>1, Tabled, Begins DEF Owner, OutboxInv
        <4>3. ops' = Added(key, "QUEUED", c.target) BY <2>1, <3>1 DEF Added
        <4>4. c.target \in Sessions /\ key # NoKey
          BY <1>1, <2>2, <3>1, <4>1, NoticeAssumption DEF NoKey
        <4> HIDE DEF key
        <4>5. RowsGrow /\ DOMAIN ops' = DOMAIN ops \cup {key} /\ ops'[key].status = "QUEUED"
          BY <4>1, <4>2, <4>3, <4>4, RowAdded
        <4> QED BY <3>1, <4>1, <4>4, <4>5
      <3>2. CASE ~c.active BY <2>1, <3>2 DEF RowsGrow, OutboxInv, TypeOK
      <3> QED BY <3>1, <3>2
    <2> HIDE DEF v, key, row
    <2>7. ResultsGrow
      <3>1. /\ DOMAIN results \subseteq Versions
            /\ \A u \in DOMAIN results :
                 /\ results[u] \in Results
                 /\ results[u].op # NoKey => results[u].op \in DOMAIN ops /\ results[u].op[1] = u
                 /\ contract # NoSession => results[u].owner = contract
            /\ \A k \in DOMAIN ops : k[1] \in Versions => k[1] \in DOMAIN results /\ results[k[1]].op = k
        BY DEF OutboxInv, TypeOK, Named, Addressed
      <3>2. \A k \in DOMAIN ops' : k[1] \in Versions => k[1] \in DOMAIN results' /\ results'[k[1]].op = k
        BY <2>3, <2>4, <2>6, <3>1
      <3>3. \A u \in DOMAIN results' :
              /\ results'[u] \in Results
              /\ contract # NoSession => results'[u].owner = contract
              /\ results'[u].mirror = "DELIVERED" => u \in DOMAIN results /\ results'[u] = results[u]
        BY <2>2, <2>3, <2>4, <3>1
      <3>4. \A u \in DOMAIN results' : results'[u].op # NoKey =>
              /\ results'[u].op \in DOMAIN ops' /\ results'[u].op[1] = u
              /\ \/ u \in DOMAIN results /\ results'[u] = results[u]
                 \/ ops'[results'[u].op].status = "QUEUED"
        BY <2>3, <2>4, <2>6, <3>1
      <3> QED BY <1>1, <2>4, <3>1, <3>2, <3>3, <3>4 DEF ResultsGrow
    <2>8. DeliveriesMove BY <1>1, <2>6, DeliveriesStay
    <2>9. Timed'
      <3>1. /\ DOMAIN results' # {} /\ task'.version \in DOMAIN results' /\ task'.status # "COMPLETE"
        BY <2>1, <2>4
      <3>2. CompleteIsAccepted' BY <3>1 DEF CompleteIsAccepted
      <3>3. /\ \A d \in calls : d.stamp <= issued
            /\ \A d, e \in calls : d.stamp = e.stamp => d = e
            /\ \A u \in DOMAIN results : results[u].stamp <= issued
            /\ \A u \in DOMAIN results, d \in calls : d.stamp # results[u].stamp
            /\ \A u, w \in DOMAIN results : results[u].stamp = results[w].stamp => u = w
        BY DEF OutboxInv, Timed
      <3> QED BY <1>1, <2>3, <2>4, <3>1, <3>2, <3>3 DEF Timed
    <2>10. task' \in [status : {"RUNNING", "RESULT_RECORDED", "COMPLETE", "BLOCKED"},
                      version : Versions \cup {NoSession}]
      BY <1>1, <2>1
    <2>11. calls' \subseteq calls BY <1>1
    <2> QED BY <1>1, <1>2, <2>6, <2>7, <2>8, <2>9, <2>10, <2>11, TablesSafe
  <1> QED BY <1>3, <1>4

LEMMA CommitCallbackSafe == ASSUME OutboxInv, NEW c \in calls, CommitCallback(c) PROVE OutboxInv'
  <1> DEFINE key == <<c.notice, c.target>>
             st == IF c.active THEN "QUEUED" ELSE "WAITING_ROUTE"
  <1>1. /\ c.notice \in Callbacks /\ calls' = calls \ {c} /\ calls' \subseteq calls
        /\ ops' = IF key \in DOMAIN ops THEN ops ELSE Inserted(ops, [k \in {key} |-> Row(st, c.owner)])
        /\ UNCHANGED <<routeVars, task, results, deliveries, issued, canceller, worker, posted, missed>>
    BY DEF CommitCallback
  <1>2. /\ c \in Calls /\ c.notice \notin Events /\ c.notice \notin Versions
        /\ c.active => c.owner \in Sessions
        /\ IF contract = NoSession THEN c.owner = c.target ELSE c.owner = contract
    BY <1>1, NoticeAssumption DEF OutboxInv, TypeOK, Called
  <1>3. RowsGrow /\ DOMAIN ops \subseteq DOMAIN ops' /\ DOMAIN ops' \subseteq DOMAIN ops \cup {key}
    <2>1. CASE key \in DOMAIN ops BY <1>1, <2>1 DEF RowsGrow, OutboxInv, TypeOK
    <2>2. CASE key \notin DOMAIN ops
      <3>1. /\ key \in Keys /\ key[1] = c.notice /\ key[2] = c.target /\ c.owner \in Refs
            /\ st \in {"QUEUED", "WAITING_ROUTE"} /\ (st = "QUEUED" => c.owner \in Sessions)
        BY <1>1, <1>2 DEF Keys, Notices, Calls
      <3>2. Owner(key) # NoSession => c.owner \in Line(succ, Owner(key))
        BY <1>2, <3>1, Tabled, Begins DEF Owner, OutboxInv
      <3>3. ops' = Added(key, st, c.owner) BY <1>1, <2>2 DEF Added
      <3> HIDE DEF key, st
      <3>4. RowsGrow /\ DOMAIN ops' = DOMAIN ops \cup {key} BY <2>2, <3>1, <3>2, <3>3, RowAdded
      <3> QED BY <3>4
    <2> QED BY <2>1, <2>2
  <1>4. ResultsGrow
    <2>1. \A k \in DOMAIN ops' \ DOMAIN ops : k[1] \notin Versions BY <1>2, <1>3
    <2> QED BY <1>1, <1>3, <2>1, ResultsStay
  <1>5. DeliveriesMove BY <1>1, <1>3, DeliveriesStay
  <1>6. WorkersFree BY <1>1, WorkersStay
  <1>7. Timed' BY <1>1, TimedKept DEF OutboxInv
  <1> QED BY <1>1, <1>3, <1>4, <1>5, <1>6, <1>7, TaskTyped, TablesSafe

LEMMA CommitBroadcastSafe == ASSUME OutboxInv, NEW c \in calls, CommitBroadcast(c) PROVE OutboxInv'
  <1> DEFINE key == <<c.notice, c.target>>
             row == [op |-> key, status |-> "QUEUED"]
  <1>1. /\ c.notice \in Events /\ calls' = calls \ {c} /\ calls' \subseteq calls
        /\ IF key \in DOMAIN ops THEN UNCHANGED <<ops, deliveries>>
           ELSE /\ ops' = Inserted(ops, [k \in {key} |-> Row("QUEUED", c.target)])
                /\ deliveries' = Inserted([d \in {key} |-> row], deliveries)
        /\ UNCHANGED <<routeVars, task, results, issued, canceller, worker, posted, missed>>
    BY DEF CommitBroadcast
  <1>2. c \in Calls /\ c.notice \notin Versions /\ c.target \in Sessions
    BY <1>1, NoticeAssumption DEF OutboxInv, TypeOK, Called
  <1>3. /\ key \in Keys /\ key[1] = c.notice /\ key[2] = c.target /\ c.target \in Refs
        /\ key \in Events \X Sessions
    BY <1>1, <1>2 DEF Keys, Notices, Refs
  <1>4. Owner(key) # NoSession => c.target \in Line(succ, Owner(key))
    BY <1>1, <1>3, Tabled, Begins DEF Owner, OutboxInv
  <1>5. row \in Deliveries /\ row.op = key /\ row.status = "QUEUED" BY <1>3 DEF Deliveries, Statuses
  <1> HIDE DEF key, row
  <1>6. RowsGrow /\ DOMAIN ops \subseteq DOMAIN ops' /\ DOMAIN ops' = DOMAIN ops \cup {key}
    <2>1. CASE key \in DOMAIN ops
      <3>1. RowsGrow BY <1>1, <2>1 DEF RowsGrow, OutboxInv, TypeOK
      <3> QED BY <1>1, <2>1, <3>1
    <2>2. CASE key \notin DOMAIN ops
      <3>1. ops' = Added(key, "QUEUED", c.target) BY <1>1, <2>2 DEF Added
      <3>2. RowsGrow /\ DOMAIN ops' = DOMAIN ops \cup {key} BY <1>2, <1>3, <1>4, <2>2, <3>1, RowAdded
      <3> QED BY <3>2
    <2> QED BY <2>1, <2>2
  <1>7. ResultsGrow
    <2>1. \A k \in DOMAIN ops' \ DOMAIN ops : k[1] \notin Versions BY <1>2, <1>3, <1>6
    <2> QED BY <1>1, <1>6, <2>1, ResultsStay
  <1>8. DeliveriesMove
    <2>1. CASE key \in DOMAIN ops BY <1>1, <1>6, <2>1, DeliveriesStay
    <2>2. CASE key \notin DOMAIN ops
      <3>1. /\ DOMAIN deliveries' = DOMAIN deliveries \cup {key} /\ deliveries'[key] = row
            /\ \A d \in DOMAIN deliveries \ {key} : deliveries'[d] = deliveries[d]
        BY <1>1, <2>2 DEF Inserted
      <3>2. /\ DOMAIN deliveries \subseteq Events \X Sessions
            /\ \A d \in DOMAIN deliveries : deliveries[d] \in Deliveries /\ deliveries[d].op \in DOMAIN ops
        BY DEF OutboxInv, TypeOK, Named
      <3> QED BY <1>3, <1>5, <1>6, <3>1, <3>2 DEF DeliveriesMove
    <2> QED BY <2>1, <2>2
  <1>9. WorkersFree BY <1>1, WorkersStay
  <1>10. Timed' BY <1>1, TimedKept DEF OutboxInv
  <1> QED BY <1>1, <1>6, <1>7, <1>8, <1>9, <1>10, TaskTyped, TablesSafe

\* Notices, workers and messages stay.
LEMMA WorkStays ==
  ASSUME OutboxInv, UNCHANGED <<ops, worker, posted>>
  PROVE  Held' /\ Posts'
  <1>1. \A w : Working(w)' = Working(w) BY DEF Working
  <1> QED BY <1>1 DEF OutboxInv, Held, Posts, Proven

\* Whom notices are addressed to stays.
LEMMA AddressStays ==
  ASSUME OutboxInv, UNCHANGED <<routeVars, ops, worker>>,
         DOMAIN results' = DOMAIN results, \A v \in DOMAIN results : results'[v].owner = results[v].owner
  PROVE  Addressed'
  <1>1. succ' = succ /\ contract' = contract /\ \A j : Owner(j)' = Owner(j) BY DEF routeVars, Owner
  <1> QED BY <1>1 DEF OutboxInv, Addressed

LEMMA CancelReadSafe == ASSUME OutboxInv, NEW k \in DOMAIN ops, CancelRead(k) PROVE OutboxInv'
  <1>1. /\ issued' = issued + 1
        /\ canceller' = [key |-> k, seen |-> ops[k].status = "QUEUED"]
        /\ UNCHANGED <<routeVars, task, results, ops, deliveries, calls, worker, posted, missed>>
    BY DEF CancelRead
  <1>2. canceller' \in [key : DOMAIN ops \cup {NoKey}, seen : BOOLEAN] /\ canceller'.key = k BY <1>1
  <1>3. TypeOK' BY <1>1, <1>2 DEF OutboxInv, TypeOK, routeVars
  <1>4. Committed' /\ Called' BY <1>1, CommittedKept, CalledKept DEF OutboxInv
  <1>5. Named' BY <1>1, <1>2 DEF OutboxInv, Named
  <1>6. Addressed' BY <1>1, AddressStays
  <1>7. Held' /\ Posts' BY <1>1, WorkStays
  <1>8. Mirrored' BY <1>1 DEF OutboxInv, Mirrored, DeliveredIsPosted, Proven
  <1>9. Timed'
    <2>1. CompleteIsAccepted' BY <1>1 DEF OutboxInv, Timed, CompleteIsAccepted, ShowsLatest
    <2>2. /\ issued \in Nat
          /\ \A c \in calls : c.stamp \in Nat /\ c.stamp <= issued
          /\ \A v \in DOMAIN results : results[v].stamp \in Nat /\ results[v].stamp <= issued
      BY DEF OutboxInv, TypeOK, Timed, Calls, Results
    <2>3. /\ \A c \in calls : c.stamp <= issued'
          /\ \A v \in DOMAIN results : results[v].stamp <= issued'
      BY <1>1, <2>2
    <2> QED BY <1>1, <2>1, <2>3 DEF OutboxInv, Timed
  <1> QED BY <1>3, <1>4, <1>5, <1>6, <1>7, <1>8, <1>9 DEF OutboxInv

LEMMA AckSafe ==
  ASSUME OutboxInv, NEW v \in DOMAIN results, NEW verdict \in Verdicts, Ack(v, verdict) PROVE OutboxInv'
  <1> DEFINE mirror == IF contract = LocalOwner THEN "RECEIVED_LOCAL" ELSE results[v].mirror
             status == IF verdict = "ACCEPTED" THEN "COMPLETE" ELSE "BLOCKED"
  <1>1. /\ results[v].ack = "none" /\ ~Stale(v)
        /\ results' = [results EXCEPT ![v].ack = verdict,
                           ![v].mirror = IF contract = LocalOwner THEN "RECEIVED_LOCAL" ELSE @]
        /\ task' = [task EXCEPT !.status = status]
        /\ UNCHANGED <<routeVars, ops, deliveries, calls, issued, canceller, worker, posted, missed>>
    BY DEF Ack, userVars
  <1>2. \A u \in DOMAIN results : results[u] \in Results BY DEF OutboxInv, TypeOK
  <1>3. /\ DOMAIN results' = DOMAIN results
        /\ \A u \in DOMAIN results :
             /\ results'[u] \in Results /\ results'[u].op = results[u].op
             /\ results'[u].owner = results[u].owner /\ results'[u].stamp = results[u].stamp
             /\ IF u = v THEN results'[u].ack = verdict /\ results'[u].mirror = mirror
                ELSE results'[u] = results[u]
    <2> DEFINE first == [results[v] EXCEPT !.ack = verdict]
               row == [first EXCEPT !.mirror = mirror]
    <2>1. verdict \in Verdicts \cup {"none"} /\ first.mirror = results[v].mirror BY <1>2 DEF Results
    <2>2. results' = [results EXCEPT ![v] = row]
      <3>1. [results EXCEPT ![v].ack = verdict][v] = first OBVIOUS
      <3> QED BY <1>1, <2>1, <3>1
    <2>3. /\ row \in Results /\ row.op = results[v].op /\ row.owner = results[v].owner
          /\ row.stamp = results[v].stamp /\ row.ack = verdict /\ row.mirror = mirror
      BY <1>2, <2>1 DEF Results
    <2> HIDE DEF row, mirror
    <2> QED BY <1>2, <2>2, <2>3
  <1>4. /\ task' \in [status : {"RUNNING", "RESULT_RECORDED", "COMPLETE", "BLOCKED"},
                      version : Versions \cup {NoSession}]
        /\ task'.version = task.version /\ task'.status = status
    BY <1>1, TaskTyped
  <1>5. "RECEIVED_LOCAL" # "DELIVERED" /\ verdict # "none" BY DEF Verdicts
  <1>6. TypeOK' BY <1>1, <1>3, <1>4 DEF OutboxInv, TypeOK, routeVars
  <1>7. Committed' /\ Called' BY <1>1, CommittedKept, CalledKept DEF OutboxInv
  <1>8. Named' BY <1>1, <1>3 DEF OutboxInv, Named
  <1>9. Addressed' BY <1>1, <1>3, AddressStays
  <1>10. Held' /\ Posts' BY <1>1, WorkStays
  <1>11. Mirrored'
    <2>1. DeliveredIsPosted' BY <1>1, <1>3 DEF OutboxInv, Mirrored, DeliveredIsPosted, Proven
    <2> QED BY <1>1, <1>3, <1>5, <2>1 DEF OutboxInv, Mirrored
  <1>12. Timed'
    <2>1. /\ task.version \in DOMAIN results
          /\ \A u, w \in DOMAIN results : results[u].stamp = results[w].stamp => u = w
          /\ \A u \in DOMAIN results : results[u].stamp \in Nat
      BY <1>2 DEF OutboxInv, Timed, Results
    <2>2. CompleteIsAccepted'
      <3> SUFFICES ASSUME task'.status = "COMPLETE", ShowsLatest'
                   PROVE  results'[task'.version].ack = "ACCEPTED"
        BY DEF CompleteIsAccepted
      <3>1. verdict = "ACCEPTED" BY <1>4
      <3>2. results[v].stamp <= results[task.version].stamp BY <1>3, <1>4, <2>1 DEF ShowsLatest
      <3>3. ~(results[task.version].stamp > results[v].stamp) BY <1>1, <2>1 DEF Stale
      <3>4. v = task.version BY <2>1, <3>2, <3>3
      <3> QED BY <1>3, <1>4, <3>1, <3>4
    <2> QED BY <1>1, <1>3, <1>4, <2>1, <2>2 DEF OutboxInv, Timed
  <1> QED BY <1>6, <1>7, <1>8, <1>9, <1>10, <1>11, <1>12 DEF OutboxInv

LEMMA AckEventSafe == ASSUME OutboxInv, NEW d \in DOMAIN deliveries, AckEvent(d) PROVE OutboxInv'
  <1>1. /\ deliveries' = [deliveries EXCEPT ![d].status = "ACKNOWLEDGED"]
        /\ UNCHANGED <<routeVars, task, results, ops, calls, issued, canceller, worker, posted, missed>>
    BY DEF AckEvent, userVars
  <1>2. \A e \in DOMAIN deliveries : deliveries[e] \in Deliveries BY DEF OutboxInv, TypeOK
  <1>3. /\ DOMAIN deliveries' = DOMAIN deliveries
        /\ \A e \in DOMAIN deliveries :
             /\ deliveries'[e] \in Deliveries /\ deliveries'[e].op = deliveries[e].op
             /\ deliveries'[e].status = IF e = d THEN "ACKNOWLEDGED" ELSE deliveries[e].status
    BY <1>1, <1>2 DEF Deliveries
  <1>4. TypeOK' BY <1>1, <1>3 DEF OutboxInv, TypeOK, routeVars
  <1>5. Committed' /\ Called' BY <1>1, CommittedKept, CalledKept DEF OutboxInv
  <1>6. Named' BY <1>1, <1>3 DEF OutboxInv, Named
  <1>7. Addressed' BY <1>1, AddressStays
  <1>8. Held' /\ Posts' BY <1>1, WorkStays
  <1>9. Mirrored' BY <1>1, <1>3 DEF OutboxInv, Mirrored, DeliveredIsPosted, Proven
  <1>10. Timed' BY <1>1, TimedKept DEF OutboxInv
  <1> QED BY <1>4, <1>5, <1>6, <1>7, <1>8, <1>9, <1>10 DEF OutboxInv

-----------------------------------------------------------------------------
(* Conversations come, go and are replaced. *)

\* Everything but the conversations stays, and lines only grow.
LEMMA RoutesSafe ==
  ASSUME OutboxInv,
         UNCHANGED <<budget, contract, task, results, ops, deliveries, calls, issued, canceller,
                     worker, posted, missed>>,
         chat' \in [Sessions -> {"absent", "active", "retired"}],
         succ' \in [Sessions -> Sessions \cup {NoSession}], Committed',
         \A r : Line(succ, r) \subseteq Line(succ', r)
  PROVE  OutboxInv'
  <1>1. TypeOK' BY DEF OutboxInv, TypeOK
  <1>2. Named' BY DEF OutboxInv, Named
  <1>3. Addressed'
    <2>1. \A j : Owner(j)' = Owner(j) BY DEF Owner
    <2>2. ASSUME NEW k \in DOMAIN ops
          PROVE  /\ ops[k].status # "WAITING_ROUTE" => ops[k].session \in Sessions
                 /\ Owner(k) # NoSession => ops[k].session \in Line(succ', Owner(k))
      BY DEF OutboxInv, Addressed
    <2>3. ASSUME NEW w \in Workers, worker[w].pc = "redirecting"
          PROVE  worker[w].heir \in Sessions /\ worker[w].heir \in Line(succ', worker[w].session)
      BY <2>3 DEF OutboxInv, Addressed
    <2> QED BY <2>1, <2>2, <2>3 DEF OutboxInv, Addressed
  <1>4. Called'
    <2>1. ASSUME NEW c \in calls
          PROVE  /\ c.active => c.owner \in Sessions /\ c.target \in Sessions
                 /\ c.notice \in Events => c.owner \in Sessions
                 /\ IF c.notice \in Events \/ contract = NoSession THEN c.owner = c.target
                    ELSE c.owner = contract /\ c.target \in Line(succ', contract)
      BY DEF OutboxInv, Called
    <2> QED BY <2>1 DEF Called
  <1>5. Held' /\ Posts' BY WorkStays
  <1>6. Mirrored' BY DEF OutboxInv, Mirrored, DeliveredIsPosted, Proven
  <1>7. Timed' BY TimedKept DEF OutboxInv
  <1> QED BY <1>1, <1>2, <1>3, <1>4, <1>5, <1>6, <1>7 DEF OutboxInv

LEMMA RegisterSafe == ASSUME OutboxInv, NEW s \in Sessions, Register(s) PROVE OutboxInv'
  <1>1. /\ chat[s] = "absent" /\ chat' = [chat EXCEPT ![s] = "active"] /\ succ' = succ
        /\ UNCHANGED <<budget, contract, task, results, ops, deliveries, calls, issued, canceller,
                       worker, posted, missed>>
    BY DEF Register, userVars
  <1>2. /\ chat' \in [Sessions -> {"absent", "active", "retired"}]
        /\ succ' \in [Sessions -> Sessions \cup {NoSession}]
    BY <1>1 DEF OutboxInv, TypeOK
  <1>3. Committed' BY <1>1 DEF OutboxInv, TypeOK, Committed
  <1>4. \A r : Line(succ, r) \subseteq Line(succ', r) BY <1>1
  <1> QED BY <1>1, <1>2, <1>3, <1>4, RoutesSafe

LEMMA RetireSafe == ASSUME OutboxInv, NEW s \in Sessions, Retire(s) PROVE OutboxInv'
  <1>1. /\ chat[s] = "active" /\ chat' = [chat EXCEPT ![s] = "retired"] /\ succ' = succ
        /\ UNCHANGED <<budget, contract, task, results, ops, deliveries, calls, issued, canceller,
                       worker, posted, missed>>
    BY DEF Retire, userVars
  <1>2. /\ chat' \in [Sessions -> {"absent", "active", "retired"}]
        /\ succ' \in [Sessions -> Sessions \cup {NoSession}]
    BY <1>1 DEF OutboxInv, TypeOK
  <1>3. Committed' BY <1>1 DEF OutboxInv, TypeOK, Committed
  <1>4. \A r : Line(succ, r) \subseteq Line(succ', r) BY <1>1
  <1> QED BY <1>1, <1>2, <1>3, <1>4, RoutesSafe

LEMMA CommitSafe ==
  ASSUME OutboxInv, NEW s \in Sessions, NEW t \in Sessions, Commit(s, t) PROVE OutboxInv'
  <1>1. /\ chat[s] # "absent" /\ chat[t] = "absent" /\ succ[s] = NoSession
        /\ chat' = [chat EXCEPT ![s] = "retired", ![t] = "active"] /\ succ' = [succ EXCEPT ![s] = t]
        /\ UNCHANGED <<budget, contract, task, results, ops, deliveries, calls, issued, canceller,
                       worker, posted, missed>>
    BY DEF Commit, userVars
  <1>2. /\ chat' \in [Sessions -> {"absent", "active", "retired"}]
        /\ succ' \in [Sessions -> Sessions \cup {NoSession}]
    BY <1>1 DEF OutboxInv, TypeOK
  <1>3. Committed' BY <1>1 DEF OutboxInv, TypeOK, Committed
  <1>4. ASSUME NEW r PROVE Line(succ, r) \subseteq Line(succ', r)
    BY <1>1, Tabled, Extended DEF OutboxInv
  <1> QED BY <1>1, <1>2, <1>3, <1>4, RoutesSafe

-----------------------------------------------------------------------------
(* The invariant is one. *)

LEMMA InvInit == Init => OutboxInv
  <1> SUFFICES ASSUME Init PROVE OutboxInv OBVIOUS
  <1>1. /\ DOMAIN results = {} /\ DOMAIN ops = {} /\ DOMAIN deliveries = {}
        /\ calls = {} /\ issued = 0 /\ canceller = NoCancel /\ posted = {} /\ missed = {}
    BY DEF Init
  <1>2. /\ chat \in [Sessions -> {"absent", "active", "retired"}]
        /\ succ \in [Sessions -> Sessions \cup {NoSession}] /\ \A s \in Sessions : succ[s] = NoSession
        /\ budget \in Budgets /\ contract \in Refs
        /\ task = [status |-> "RUNNING", version |-> NoSession]
    BY RefAssumption DEF Init
  <1>3. /\ worker \in [Workers -> Copies] /\ \A w \in Workers : worker[w] = Idle
        /\ Idle.key = NoKey /\ Idle.pc = "idle" /\ "idle" \notin Busy
    BY DEF Init, Idle, Copies, Places, Refs, Statuses, Busy
  <1>4. NoCancel \in [key : DOMAIN ops \cup {NoKey}, seen : BOOLEAN] BY DEF NoCancel
  <1>5. \A w \in Workers : ~Working(w) /\ worker[w].pc # "redirecting"
    BY <1>3 DEF Working, Busy
  <1>6. TypeOK BY <1>1, <1>2, <1>3, <1>4 DEF TypeOK
  <1>7. Committed /\ Named /\ Called /\ Posts BY <1>1, <1>2 DEF Committed, Named, Called, Posts
  <1>8. Addressed /\ Held BY <1>1, <1>5 DEF Addressed, Held
  <1>9. Mirrored BY <1>1 DEF Mirrored, DeliveredIsPosted
  <1>10. Timed BY <1>1, <1>2 DEF Timed, CompleteIsAccepted
  <1> QED BY <1>6, <1>7, <1>8, <1>9, <1>10 DEF OutboxInv

LEMMA InvStutters == ASSUME OutboxInv, UNCHANGED vars PROVE OutboxInv'
  <1>1. chat' = chat /\ succ' = succ
        /\ UNCHANGED <<budget, contract, task, results, ops, deliveries, calls, issued, canceller,
                       worker, posted, missed>>
    BY DEF vars, routeVars, userVars
  <1>2. /\ chat' \in [Sessions -> {"absent", "active", "retired"}]
        /\ succ' \in [Sessions -> Sessions \cup {NoSession}]
    BY <1>1 DEF OutboxInv, TypeOK
  <1>3. Committed' BY <1>1 DEF OutboxInv, Committed
  <1>4. \A r : Line(succ, r) \subseteq Line(succ', r) BY <1>1
  <1> QED BY <1>1, <1>2, <1>3, <1>4, RoutesSafe

LEMMA InvNext == ASSUME OutboxInv, [Next]_vars PROVE OutboxInv'
  <1>1. CASE UNCHANGED vars BY <1>1, InvStutters
  <1>2. CASE Users
    <2>1. CASE \E s \in Sessions : Register(s) \/ Retire(s) \/ \E t \in Sessions : Commit(s, t)
      BY <2>1, RegisterSafe, RetireSafe, CommitSafe
    <2>2. CASE \/ \E v \in Versions : ReadResult(v)
               \/ \E c \in Callbacks : ReadCallback(c)
               \/ \E e \in Events : ReadTargets(e)
      BY <2>2, ReadResultSafe, ReadCallbackSafe, ReadTargetsSafe
    <2>3. CASE \E c \in calls : CommitResult(c) \/ CommitCallback(c) \/ CommitBroadcast(c)
      BY <2>3, CommitResultSafe, CommitCallbackSafe, CommitBroadcastSafe
    <2>4. CASE \E k \in DOMAIN ops : \/ ReconcileSent(k) \/ ReconcileSuperseded(k)
                                     \/ Retry(k) \/ CancelRead(k)
      BY <2>4, ReconcileSentSafe, ReconcileSupersededSafe, RetrySafe, CancelReadSafe
    <2>5. CASE CancelWrite BY <2>5, CancelWriteSafe
    <2>6. CASE \E v \in DOMAIN results, verdict \in Verdicts : Ack(v, verdict) BY <2>6, AckSafe
    <2>7. CASE \E d \in DOMAIN deliveries : AckEvent(d) BY <2>7, AckEventSafe
    <2> QED BY <1>2, <2>1, <2>2, <2>3, <2>4, <2>5, <2>6, <2>7 DEF Users
  <1>3. CASE \E w \in Workers : Work(w) \/ Crash(w)
    <2>1. PICK w \in Workers : Work(w) \/ Crash(w) BY <1>3
    <2>2. CASE Crash(w) BY <2>2, CrashSafe
    <2>3. CASE Materialize(w) \/ Refresh(w) BY <2>3, MaterializeSafe, RefreshSafe
    <2>4. CASE ClaimNothing(w) \/ \E k \in DOMAIN ops : Claim(w, k) BY <2>4, ClaimSafe, ClaimNothingSafe
    <2>5. CASE Route(w) \/ Redirect(w) \/ Spawn(w) BY <2>5, RouteSafe, RedirectSafe, SpawnSafe
    <2>6. CASE Deliver(w) \/ Decline(w) \/ Finish(w) BY <2>6, DeliverSafe, DeclineSafe, FinishSafe
    <2> QED BY <2>1, <2>2, <2>3, <2>4, <2>5, <2>6 DEF Work
  <1>4. CASE \E k \in DOMAIN ops : Expire(k) BY <1>4, ExpireSafe
  <1> QED BY <1>1, <1>2, <1>3, <1>4 DEF Next

\* The tables, the workers, the owners and the messages fit one another after any number of
\* commands, claims, deaths and successions.
THEOREM OutboxSafe == Spec => []OutboxInv
  <1>1. OutboxInv /\ [Next]_vars => OutboxInv' BY InvNext
  <1> QED BY <1>1, InvInit, PTL DEF Spec

-----------------------------------------------------------------------------
(* What it says. *)

LEMMA InvToldOnce == OutboxInv => ToldOnce
  <1> SUFFICES ASSUME OutboxInv, NEW v \in Versions
               PROVE  Cardinality({p \in posted : p[1][1] = v}) <= 1
    BY DEF ToldOnce
  <1> DEFINE told == {p \in posted : p[1][1] = v}
  <1>1. posted \subseteq (DOMAIN ops) \X Sessions BY DEF OutboxInv, TypeOK
  <1>2. \A p \in told : p = <<results[v].op, ops[results[v].op].session>>
    BY <1>1 DEF OutboxInv, Named, Posts
  <1>3. CASE told = {} BY <1>3, FS_EmptySet
  <1>4. CASE told # {}
    <2>1. PICK p \in told : TRUE BY <1>4
    <2>2. told = {p} BY <1>2, <2>1
    <2>3. Cardinality({p}) = 1 BY FS_Singleton
    <2>4. Cardinality(told) = 1
      <3> HIDE DEF told
      <3> QED BY <2>2, <2>3
    <2> QED BY <2>4
  <1> QED BY <1>3, <1>4

LEMMA InvNeverGuessed == OutboxInv => NeverGuessed
  <1> SUFFICES ASSUME OutboxInv, NEW p \in posted, Owner(p[1]) # NoSession
               PROVE  p[2] \in Heirs(Owner(p[1]))
    BY DEF NeverGuessed, Owner
  <1>1. p[1] \in DOMAIN ops /\ p[2] = ops[p[1]].session BY DEF OutboxInv, Posts
  <1>2. p[2] \in Line(succ, Owner(p[1])) BY <1>1 DEF OutboxInv, Addressed
  <1> QED BY <1>2, Resolved DEF OutboxInv

\* A notice reaches the one conversation it is meant for, once: a result is one message, and
\* every message goes to the owner it was made for or to a committed successor.
THEOREM NoticesHold == Spec => []NoticesExact
  <1>1. OutboxInv => NoticesExact BY InvToldOnce, InvNeverGuessed DEF NoticesExact
  <1> QED BY <1>1, OutboxSafe, PTL

\* The tables agree with the conversations: well typed, delivered only what was posted,
\* cancelled only what was not.
THEOREM PostsHold == Spec => []PostsRecorded
  <1>1. OutboxInv => CancelledUnsent BY DEF OutboxInv, Posts, CancelledUnsent, InFlight
  <1>2. OutboxInv => PostsRecorded BY <1>1 DEF OutboxInv, Mirrored, PostsRecorded
  <1> QED BY <1>2, OutboxSafe, PTL

\* An account is declared free for migration only when every result it was sent is
\* acknowledged and none is still to be sent, but for late cancels.
THEOREM MigrationHolds == Spec => []MigrationSettled
  <1>1. OutboxInv => MigrationSettled
    <2> SUFFICES ASSUME OutboxInv, NEW s \in Sessions, MigrationSafe(s), NEW v \in DOMAIN results \ missed,
                        results[v].op # NoKey, ops[results[v].op].session = s, results[v].ack = "none"
                 PROVE  ops[results[v].op].status \in {"CANCELLED", "FAILED_PRE_SEND"}
      BY DEF MigrationSettled
    <2> DEFINE k == results[v].op
    <2>1. k \in DOMAIN ops /\ k[1] = v /\ v \in Versions BY DEF OutboxInv, TypeOK, Named
    <2>2. ops[k].status \in Statuses /\ ops[k].status # "RECONCILED_SUPERSEDED"
      BY <2>1, NoticeAssumption DEF OutboxInv, TypeOK, Rows, Named
    <2>3. ops[k].status \notin {"QUEUED", "DISPATCHING", "DELIVERY_UNKNOWN"} BY <2>1 DEF MigrationSafe
    <2>4. ops[k].status \notin {"WAITING_ROUTE", "SENT"} BY <2>1 DEF OutboxInv, Mirrored, MigrationSafe
    <2> QED BY <2>2, <2>3, <2>4 DEF Statuses
  <1> QED BY <1>1, OutboxSafe, PTL

\* A task is COMPLETE only when the owner accepted the result it shows, unless reports
\* committed in another order than they took their time stamps.
THEOREM CompleteHolds == Spec => []CompleteIsAccepted
  <1>1. OutboxInv => CompleteIsAccepted BY DEF OutboxInv, Timed
  <1> QED BY <1>1, OutboxSafe, PTL
=============================================================================
