------------------------ MODULE ReportBuilderProofs -------------------------
(***************************************************************************)
(* What waits in the ring of report_builder.c, for every number of         *)
(* trackers, ring size and report size.                                    *)
(***************************************************************************)
EXTENDS ReportBuilder, FiniteSetTheorems, SequenceTheorems, TLAPS

USE ReportAssumption

-----------------------------------------------------------------------------
(* Types of the ring and of what it is compared with *)

Entries == DataRecords \union {Diagnostic}

RingType ==
    /\ queue \in Seq(Entries)
    /\ tracker_addresses \in [Ids -> Devices \union {NoDevice}]
    /\ newest \in [Ids -> 0..(Stamps - 1)]

\* The entries of a ring q: each packet is the newest one of its id, comes from the
\* id's device and waits alone.
Current(q, addresses, stamps) ==
    \A k \in 1..Len(q) : q[k].kind = "data" =>
        /\ q[k].stamp = stamps[q[k].id]
        /\ q[k].device = addresses[q[k].id]
        /\ \A j \in 1..Len(q) : q[j].kind = "data" /\ q[j].id = q[k].id => j = k

RingInv == RingType /\ Current(queue, tracker_addresses, newest)

\* An entry of the ring is a packet or the diagnostic.
LEMMA EntryKinds ==
    /\ \A e \in Entries : e.kind = "data" => e \in DataRecords
    /\ Diagnostic.kind # "data"
  BY DEF Entries, DataRecords, Diagnostic

\* The entry e may join the end of the ring q.
MayJoin(e, q, addresses, stamps) ==
    e.kind = "data" =>
        /\ e.stamp = stamps[e.id] /\ e.device = addresses[e.id]
        /\ \A k \in 1..Len(q) : q[k].kind = "data" => q[k].id # e.id

\* Appending a diagnostic, or the first packet of an id.
LEMMA RingAppend ==
    ASSUME NEW q \in Seq(Entries), NEW addresses, NEW stamps,
           Current(q, addresses, stamps), NEW e \in Entries,
           MayJoin(e, q, addresses, stamps)
    PROVE  Append(q, e) \in Seq(Entries) /\ Current(Append(q, e), addresses, stamps)
  <1> DEFINE a == Append(q, e)
  <1>1. a \in Seq(Entries) /\ Len(a) = Len(q) + 1
    OBVIOUS
  <1>2. \A k \in 1..Len(q) : a[k] = q[k]
    OBVIOUS
  <1>3. a[Len(q) + 1] = e
    OBVIOUS
  <1> HIDE DEF a
  <1>4. \A k \in 1..Len(a) : k \in 1..Len(q) \/ k = Len(q) + 1
    BY <1>1
  <1>5. Current(a, addresses, stamps)
    BY <1>1, <1>2, <1>3, <1>4 DEF Current, MayJoin
  <1> QED BY <1>1, <1>5 DEF a

\* Replacing a packet by one of the same id.
LEMMA RingReplace ==
    ASSUME NEW q \in Seq(Entries), NEW addresses, NEW stamps, NEW m \in 1..Len(q),
           NEW e \in DataRecords,
           q[m].kind = "data", q[m].id = e.id,
           e.stamp = stamps[e.id], e.device = addresses[e.id], e.kind = "data",
           NEW old, Current(q, addresses, old),
           \A k \in 1..Len(q) : q[k].kind = "data" /\ q[k].id # e.id =>
               stamps[q[k].id] = old[q[k].id]
    PROVE  /\ [q EXCEPT ![m] = e] \in Seq(Entries)
           /\ Current([q EXCEPT ![m] = e], addresses, stamps)
  <1> DEFINE r == [q EXCEPT ![m] = e]
  <1>1. r \in Seq(Entries) /\ Len(r) = Len(q)
    BY DEF Entries
  <1>2. \A k \in 1..Len(q) : r[k] = IF k = m THEN e ELSE q[k]
    OBVIOUS
  <1> HIDE DEF r
  <1>3. \A k \in 1..Len(q) : k # m /\ q[k].kind = "data" => q[k].id # e.id
    BY DEF Current
  <1>4. Current(r, addresses, stamps)
    BY <1>1, <1>2, <1>3 DEF Current
  <1> QED BY <1>1, <1>4 DEF r

\* Taking entries from the front.
LEMMA RingTake ==
    ASSUME NEW q \in Seq(Entries), NEW addresses, NEW stamps,
           Current(q, addresses, stamps), NEW n \in 0..Len(q)
    PROVE  /\ SubSeq(q, n + 1, Len(q)) \in Seq(Entries)
           /\ Current(SubSeq(q, n + 1, Len(q)), addresses, stamps)
  <1> DEFINE r == SubSeq(q, n + 1, Len(q))
  <1>1. /\ r \in Seq(Entries)
        /\ Len(r) = Len(q) - n
        /\ \A k \in 1..Len(r) : r[k] = q[k + n]
    <2>1. \A k \in (n + 1)..Len(q) : q[k] \in Entries
      OBVIOUS
    <2>2. /\ r \in Seq(Entries)
          /\ Len(r) = IF n + 1 <= Len(q) THEN Len(q) - (n + 1) + 1 ELSE 0
          /\ \A k \in 1..(Len(q) - (n + 1) + 1) : r[k] = q[(n + 1) + k - 1]
      BY <2>1, SubSeqProperties
    <2> HIDE DEF r
    <2>3. Len(r) = Len(q) - n
      BY <2>2
    <2>4. ASSUME NEW k \in 1..Len(r) PROVE r[k] = q[k + n]
      <3>1. k \in 1..(Len(q) - (n + 1) + 1) /\ (n + 1) + k - 1 = k + n
        BY <2>3
      <3> QED BY <3>1, <2>2
    <2> QED BY <2>2, <2>3, <2>4
  <1> HIDE DEF r
  <1>2. \A k \in 1..Len(r) : k + n \in 1..Len(q)
    BY <1>1
  <1>3. \A j, k \in 1..Len(r) : j + n = k + n => j = k
    BY <1>1
  <1>4. ASSUME NEW k \in 1..Len(r), r[k].kind = "data"
        PROVE  /\ r[k].stamp = stamps[r[k].id]
               /\ r[k].device = addresses[r[k].id]
               /\ \A j \in 1..Len(r) : r[j].kind = "data" /\ r[j].id = r[k].id => j = k
    <2>1. r[k] = q[k + n] /\ k + n \in 1..Len(q)
      BY <1>1, <1>2
    <2>2. /\ q[k + n].stamp = stamps[q[k + n].id]
          /\ q[k + n].device = addresses[q[k + n].id]
      BY <1>4, <2>1 DEF Current
    <2>3. ASSUME NEW j \in 1..Len(r), r[j].kind = "data", r[j].id = r[k].id
          PROVE  j = k
      <3>1. r[j] = q[j + n] /\ j + n \in 1..Len(q)
        BY <1>1, <1>2
      <3>2. j + n = k + n
        BY <1>4, <2>1, <2>3, <3>1 DEF Current
      <3> QED BY <3>2, <1>3
    <2> QED BY <2>1, <2>2, <2>3
  <1>5. Current(r, addresses, stamps)
    BY <1>4 DEF Current
  <1> QED BY <1>1, <1>5 DEF r

\* The least element of a set of numbers that has one element or two.
LEMMA LeastOfOne ==
    ASSUME NEW S \in SUBSET Nat, NEW x \in S, \A y \in S : y = x
    PROVE  Min(S) = x
  <1>1. \A y \in S : x <= y
    OBVIOUS
  <1>2. Min(S) \in S
    BY <1>1, Zenon DEF Min
  <1> QED BY <1>2

LEMMA LeastOfTwo ==
    ASSUME NEW x \in Nat, NEW y \in Nat
    PROVE  Min({x, y}) \in 0..y /\ Min({x, y}) <= x
  <1>1. CASE x <= y
    BY <1>1 DEF Min
  <1>2. CASE ~ x <= y
    BY <1>2 DEF Min
  <1> QED BY <1>1, <1>2

-----------------------------------------------------------------------------
(* The invariant *)

LEMMA RingInit == Init => RingInv
  BY DEF Init, RingInv, RingType, Current, NoAddresses

LEMMA RingSetTracker ==
    ASSUME RingInv, NEW id \in Ids, NEW device \in Devices, SetTracker(id, device)
    PROVE  RingInv'
  <1> USE DEF RingInv, RingType
  <1>1. RingType'
    BY DEF SetTracker
  <1>2. ASSUME NEW k \in 1..Len(queue), queue[k].kind = "data"
        PROVE  tracker_addresses'[queue[k].id] = tracker_addresses[queue[k].id]
    <2>1. queue[k] \in DataRecords
      BY <1>2, EntryKinds
    <2>2. queue[k].device \in Devices /\ queue[k].id \in Ids
      BY <2>1 DEF DataRecords
    <2>3. tracker_addresses[queue[k].id] # NoDevice
      BY <1>2, <2>2 DEF Current
    <2> QED BY <2>2, <2>3 DEF SetTracker
  <1>3. queue' = queue /\ newest' = newest
    BY DEF SetTracker
  <1>4. Current(queue', tracker_addresses', newest')
    BY <1>2, <1>3 DEF Current
  <1> QED BY <1>1, <1>4

LEMMA RingReceiveData ==
    ASSUME RingInv, NEW id \in Ids, ReceiveData(id)
    PROVE  RingInv'
  <1> USE DEF RingInv, RingType
  <1> DEFINE stamp == (newest[id] + 1) % Stamps
             e == [kind |-> "data", id |-> id, device |-> tracker_addresses[id],
                   stamp |-> stamp]
  <1>1. stamp \in 0..(Stamps - 1)
    OBVIOUS
  <1>2. newest' = [newest EXCEPT ![id] = stamp] /\ tracker_addresses' = tracker_addresses
    BY DEF ReceiveData
  <1>3. newest'[id] = stamp /\ newest' \in [Ids -> 0..(Stamps - 1)]
    BY <1>1, <1>2
  <1>4. queue' = Enqueued(e)
    BY <1>3 DEF ReceiveData
  <1>5. e \in DataRecords /\ e \in Entries /\ e.kind = "data" /\ e.id = id
        /\ e.stamp = newest'[id] /\ e.device = tracker_addresses'[id]
    BY <1>1, <1>2, <1>3 DEF ReceiveData, Registered, DataRecords, Entries
  <1> HIDE DEF e, stamp
  <1>6. \A k \in 1..Len(queue) : queue[k].kind = "data" /\ queue[k].id # id =>
            newest'[queue[k].id] = newest[queue[k].id]
    <2> TAKE k \in 1..Len(queue)
    <2> HAVE queue[k].kind = "data" /\ queue[k].id # id
    <2>1. queue[k].id \in Ids
      BY EntryKinds DEF DataRecords
    <2> QED BY <1>2, <2>1
  <1>7. queue' \in Seq(Entries) /\ Current(queue', tracker_addresses', newest')
    <2>1. CASE Waiting(id) # {}
      <3>1. PICK m \in 1..Len(queue) : queue[m].kind = "data" /\ queue[m].id = id
        BY <2>1 DEF Waiting
      <3>2. Min(Waiting(id)) = m
        <4>1. Waiting(id) \in SUBSET Nat /\ m \in Waiting(id)
          BY <3>1 DEF Waiting
        <4>2. \A y \in Waiting(id) : y = m
          BY <3>1 DEF Waiting, Current
        <4> QED BY <4>1, <4>2, LeastOfOne
      <3>3. queue' = [queue EXCEPT ![m] = e]
        BY <1>4, <1>5, <2>1, <3>2 DEF Enqueued
      <3>4. Current(queue, tracker_addresses', newest)
        BY <1>2
      <3> QED BY <1>5, <1>6, <3>1, <3>3, <3>4, RingReplace
    <2>2. CASE Waiting(id) = {}
      <3>1. \A k \in 1..Len(queue) : queue[k].kind = "data" => queue[k].id # id
        BY <2>2 DEF Waiting
      <3>2. Current(queue, tracker_addresses', newest')
        BY <1>2, <1>6, <3>1 DEF Current
      <3>3. queue' = Appended(e)
        BY <1>4, <1>5, <2>2 DEF Enqueued
      <3>4. queue' = Append(queue, e) \/ queue' = queue
        BY <3>3 DEF Appended
      <3>5. MayJoin(e, queue, tracker_addresses', newest')
        BY <1>5, <3>1 DEF MayJoin
      <3>6. CASE queue' = Append(queue, e)
        BY <1>5, <3>2, <3>5, <3>6, RingAppend
      <3> QED BY <3>2, <3>4, <3>6
    <2> QED BY <2>1, <2>2
  <1> QED BY <1>2, <1>3, <1>7

LEMMA RingReceiveGarbled ==
    ASSUME RingInv, ReceiveGarbled
    PROVE  RingInv'
  <1> USE DEF RingInv, RingType
  <1>1. UNCHANGED <<tracker_addresses, newest>>
        /\ (queue' = Append(queue, Diagnostic) \/ queue' = queue)
    BY DEF ReceiveGarbled, Appended
  <1>2. Diagnostic \in Entries
    BY DEF Entries
  <1>3. queue' \in Seq(Entries) /\ Current(queue', tracker_addresses, newest)
    <2>1. MayJoin(Diagnostic, queue, tracker_addresses, newest)
      BY EntryKinds DEF MayJoin
    <2>2. CASE queue' = Append(queue, Diagnostic)
      BY <1>2, <2>1, <2>2, RingAppend
    <2> QED BY <1>1, <2>2
  <1> QED BY <1>1, <1>3

LEMMA RingReport ==
    ASSUME RingInv, Report
    PROVE  RingInv'
  <1> USE DEF RingInv, RingType
  <1>1. Taken \in 0..Len(queue)
    BY LeastOfTwo DEF Taken
  <1>2. queue' = SubSeq(queue, Taken + 1, Len(queue))
        /\ UNCHANGED <<tracker_addresses, newest>>
    BY DEF Report
  <1>3. queue' \in Seq(Entries) /\ Current(queue', tracker_addresses, newest)
    BY <1>1, <1>2, RingTake
  <1> QED BY <1>2, <1>3

LEMMA RingStep == RingInv /\ [Next]_vars => RingInv'
  <1> SUFFICES ASSUME RingInv, [Next]_vars PROVE RingInv'
    OBVIOUS
  <1>1. CASE \E id \in Ids, device \in Devices : SetTracker(id, device)
    BY <1>1, RingSetTracker
  <1>2. CASE \E id \in Ids : ReceiveData(id)
    BY <1>2, RingReceiveData
  <1>3. CASE ReceiveGarbled
    BY <1>3, RingReceiveGarbled
  <1>4. CASE ClearTrackers
    BY <1>4 DEF ClearTrackers, RingInv, RingType, Current, NoAddresses
  <1>5. CASE Report
    BY <1>5, RingReport
  <1>6. CASE Tick
    BY <1>6 DEF Tick, RingInv, RingType
  <1>7. CASE UNCHANGED vars
    BY <1>7 DEF vars, RingInv, RingType
  <1> QED BY <1>1, <1>2, <1>3, <1>4, <1>5, <1>6, <1>7 DEF Next

\* Every packet that waits in the ring is the newest of its tracker, the only one,
\* and from the device that has the id: for report_builder_enqueue() with
\* replacement and report_builder_clear_trackers().
THEOREM OnlyNewestWaits == Spec => []QueuedIsNewest
  <1>1. RingInv => QueuedIsNewest
    <2> SUFFICES ASSUME RingInv, NEW k \in 1..Len(queue), queue[k].kind = "data"
                 PROVE  /\ queue[k].stamp = newest[queue[k].id]
                        /\ queue[k].device = tracker_addresses[queue[k].id]
                        /\ Waiting(queue[k].id) = {k}
      BY DEF QueuedIsNewest
    <2> QED BY DEF RingInv, Current, Waiting
  <1> QED BY <1>1, RingInit, RingStep, PTL DEF Spec

-----------------------------------------------------------------------------
(* Turns around the table: the scan of next_registration() *)

\* A nonempty set of natural numbers has a least element: the one that ends the smallest
\* of the intervals from 0 to an element.
LEMMA LeastElement ==
    ASSUME NEW T, T \subseteq Nat, T # {}
    PROVE  \E x \in T : \A y \in T : x <= y
  <1> DEFINE Upto == {0..n : n \in T}
             R == StrictSubsetOrdering(Nat)
  <1>1. Upto \subseteq FiniteSubsetsOf(Nat) /\ Upto # {}
    <2>1. \A n \in T : IsFiniteSet(0..n) /\ 0..n \subseteq Nat
      BY FS_Interval
    <2> QED BY <2>1 DEF FiniteSubsetsOf
  <1>2. \E u \in Upto : \A v \in Upto : <<v, u>> \notin R
    BY <1>1, FS_StrictSubsetOrderingWellFounded, WFMin
  <1>3. PICK x \in T : \A y \in T : <<0..y, 0..x>> \notin R
    BY <1>2
  <1>4. ASSUME NEW y \in T, y < x PROVE FALSE
    <2>1. x \in 0..x /\ x \notin 0..y /\ 0..y \subseteq 0..x /\ 0..x \subseteq Nat
      BY <1>4
    <2> QED BY <1>3, <2>1 DEF StrictSubsetOrdering
  <1> QED BY <1>4

\* How many ids the scan from c passes before it comes to k.
Turn(c, k) == IF k >= c THEN k - c ELSE k + MaxTrackers - c

LEMMA Wrapped ==
    ASSUME NEW n \in Nat, NEW m \in Nat, m > 0, n < m + m
    PROVE  n % m = IF n < m THEN n ELSE n - m
  <1>1. CASE n < m
    BY <1>1
  <1>2. CASE n >= m
    BY <1>2
  <1> QED BY <1>1, <1>2

LEMMA TurnIsDistance ==
    ASSUME NEW c \in Ids, NEW k \in Ids
    PROVE  (k + MaxTrackers - c) % MaxTrackers = Turn(c, k) /\ Turn(c, k) \in Ids
  <1>1. Turn(c, k) \in Ids
    BY DEF Turn, Ids
  <1> DEFINE n == k + MaxTrackers - c
  <1>2. n \in Nat /\ MaxTrackers \in Nat /\ MaxTrackers > 0 /\ n < MaxTrackers + MaxTrackers
    BY DEF Ids
  <1>3. Turn(c, k) = IF n < MaxTrackers THEN n ELSE n - MaxTrackers
    BY DEF Turn, Ids
  <1> HIDE DEF n
  <1>4. n % MaxTrackers = IF n < MaxTrackers THEN n ELSE n - MaxTrackers
    BY <1>2, Wrapped
  <1> QED BY <1>1, <1>3, <1>4 DEF n

LEMMA AfterIsNext ==
    ASSUME NEW id \in Ids
    PROVE  After(id) \in Ids /\ After(id) = IF id + 1 = MaxTrackers THEN 0 ELSE id + 1
  <1>1. CASE id + 1 = MaxTrackers
    BY <1>1 DEF After, Ids
  <1>2. CASE id + 1 # MaxTrackers
    BY <1>2 DEF After, Ids
  <1> QED BY <1>1, <1>2

\* The id that next_registration() finds comes before every other one in use.
LEMMA NextIsFirst ==
    ASSUME Registered # {}, NEW c \in Ids
    PROVE  /\ NextFrom(c) \in Registered
           /\ \A j \in Registered : Turn(c, NextFrom(c)) <= Turn(c, j)
  <1> DEFINE T == {Turn(c, j) : j \in Registered}
  <1>1. Registered \subseteq Ids
    BY DEF Registered
  <1>2. T \subseteq Nat /\ T # {}
    <2>1. Ids \subseteq Nat
      BY DEF Ids
    <2>2. \A j \in Registered : Turn(c, j) \in Nat
      BY <1>1, <2>1, TurnIsDistance
    <2> QED BY <2>2
  <1>3. PICK t \in T : \A u \in T : t <= u
    BY <1>2, LeastElement
  <1>4. PICK i \in Registered : t = Turn(c, i)
    OBVIOUS
  <1>5. \A j \in Registered : Turn(c, i) <= Turn(c, j)
    BY <1>3, <1>4
  <1> HIDE DEF T
  <1>6. \A j \in Registered : (i + MaxTrackers - c) % MaxTrackers
                                  <= (j + MaxTrackers - c) % MaxTrackers
    BY <1>1, <1>5, TurnIsDistance
  <1>7. /\ NextFrom(c) \in Registered
        /\ \A j \in Registered : (NextFrom(c) + MaxTrackers - c) % MaxTrackers
                                     <= (j + MaxTrackers - c) % MaxTrackers
    BY <1>6 DEF NextFrom
  <1> QED BY <1>1, <1>7, TurnIsDistance

\* The slots that Registrations fills: f[k] is what k calls leave.
Slot(f, k) ==
    IF k = 0 THEN [cursor |-> cursor, ids |-> {}, passes |-> passes]
    ELSE [cursor |-> After(NextFrom(f[k - 1].cursor)),
          ids |-> f[k - 1].ids \union {NextFrom(f[k - 1].cursor)},
          passes |-> Passed(f[k - 1].passes, NextFrom(f[k - 1].cursor))]

\* The recursion is well founded, by induction on the number of calls.
LEMMA SlotsExist ==
    ASSUME NEW n \in Nat
    PROVE  \E f : f = [k \in 0..n |-> Slot(f, k)]
  <1> DEFINE Exist(m) == \E f : f = [k \in 0..m |-> Slot(f, k)]
             T == {m \in Nat : ~ Exist(m)}
  <1>1. SUFFICES ASSUME T # {} PROVE FALSE
    OBVIOUS
  <1>2. PICK m \in T : \A y \in T : m <= y
    BY <1>1, LeastElement
  <1>3. Exist(m)
    <2>1. CASE m = 0
      <3> DEFINE f == [k \in 0..0 |-> [cursor |-> cursor, ids |-> {}, passes |-> passes]]
      <3>1. f = [k \in 0..0 |-> Slot(f, k)]
        BY DEF Slot
      <3> QED BY <2>1, <3>1
    <2>2. CASE m # 0
      <3>1. m - 1 \in Nat /\ m \in Nat /\ 0..m = (0..(m - 1)) \union {m} /\ m \notin 0..(m - 1)
        BY <2>2
      <3>2. Exist(m - 1)
        BY <1>2, <3>1
      <3>3. PICK f : f = [k \in 0..(m - 1) |-> Slot(f, k)]
        BY <3>2
      <3> DEFINE g == [k \in 0..m |-> IF k = m THEN Slot(f, m) ELSE f[k]]
      <3>4. \A k \in 0..m : Slot(g, k) = Slot(f, k)
        <4> TAKE k \in 0..m
        <4>1. CASE k = 0
          BY <4>1 DEF Slot
        <4>2. CASE k # 0
          <5>1. k - 1 \in 0..m /\ k - 1 # m
            BY <3>1, <4>2
          <5>2. g[k - 1] = f[k - 1]
            BY <5>1
          <5> HIDE DEF g
          <5> QED BY <5>2 DEF Slot
        <4> QED BY <4>1, <4>2
      <3>5. \A k \in 0..m : g[k] = Slot(g, k)
        <4> TAKE k \in 0..m
        <4>1. g[k] = IF k = m THEN Slot(f, m) ELSE f[k]
          OBVIOUS
        <4>2. k # m => f[k] = Slot(f, k)
          BY <3>1, <3>3
        <4> HIDE DEF g
        <4> QED BY <3>4, <4>1, <4>2
      <3>6. g = [k \in 0..m |-> g[k]]
        OBVIOUS
      <3> HIDE DEF g
      <3>7. g = [k \in 0..m |-> Slot(g, k)]
        BY <3>5, <3>6
      <3> QED BY <3>7
    <2> QED BY <2>1, <2>2
  <1> QED BY <1>2, <1>3

LEMMA RegistrationsUnfold ==
    ASSUME NEW n \in Nat
    PROVE  \E f : f = [k \in 0..n |-> Slot(f, k)] /\ Registrations(n) = f[n]
  <1> DEFINE f == CHOOSE f : f = [k \in 0..n |-> Slot(f, k)]
  <1>1. f = [k \in 0..n |-> Slot(f, k)]
    BY SlotsExist
  <1>2. Registrations(n) = f[n]
    BY Zenon DEF Registrations, Slot
  <1> QED BY <1>1, <1>2

-----------------------------------------------------------------------------
(* Turns and the ghost that counts them *)

\* Whoever was announced since i comes after i in the next scan, and only once.
InTurn(p, c) ==
    \A i, j \in Registered : p[i][j] <= 1 /\ (p[i][j] = 1 => Turn(c, i) < Turn(c, j))

Counts(p) ==
    /\ p \in [Ids -> [Ids -> 0..2]]
    /\ \A i, j \in Ids : p[i][j] # 0 => j \in Registered

RoundInv ==
    /\ tracker_addresses \in [Ids -> Devices \union {NoDevice}]
    /\ cursor \in Ids /\ announced \subseteq Ids
    /\ Counts(passes) /\ InTurn(passes, cursor)

\* One announcement more, as the ghost counts them.
More(n) == Min({n + 1, 2})

LEMMA MoreThanNone == More(0) = 1
  <1>1. {0 + 1, 2} \in SUBSET Nat /\ 1 \in {0 + 1, 2} /\ \A y \in {0 + 1, 2} : 1 <= y
    OBVIOUS
  <1>2. Min({0 + 1, 2}) \in {0 + 1, 2} /\ \A y \in {0 + 1, 2} : Min({0 + 1, 2}) <= y
    BY <1>1, Zenon DEF Min
  <1> QED BY <1>2 DEF More

LEMMA PassedCounts ==
    ASSUME NEW p, Counts(p), NEW id \in Registered
    PROVE  /\ Counts(Passed(p, id))
           /\ \A i, j \in Ids :
                 Passed(p, id)[i][j] = IF i = id THEN 0
                                       ELSE IF j = id THEN More(p[i][id]) ELSE p[i][j]
  <1> DEFINE row(i) == IF i = id THEN NoPasses ELSE [p[i] EXCEPT ![id] = More(@)]
  <1>1. id \in Ids
    BY DEF Registered
  <1>2. \A i \in Ids : p[i] \in [Ids -> 0..2] /\ More(p[i][id]) \in 0..2
    <2> TAKE i \in Ids
    <2>1. p[i] \in [Ids -> 0..2]
      BY DEF Counts
    <2>2. p[i][id] \in 0..2
      BY <1>1, <2>1
    <2>3. p[i][id] + 1 \in Nat /\ 2 \in Nat
      BY <2>2
    <2> QED BY <2>1, <2>3, LeastOfTwo DEF More
  <1>3. NoPasses \in [Ids -> 0..2] /\ \A j \in Ids : NoPasses[j] = 0
    BY DEF NoPasses
  <1>4. \A i \in Ids : row(i) \in [Ids -> 0..2]
    BY <1>1, <1>2, <1>3
  <1>5. \A i, j \in Ids : row(i)[j] = IF i = id THEN 0
                                      ELSE IF j = id THEN More(p[i][id]) ELSE p[i][j]
    BY <1>1, <1>2, <1>3
  <1>6. Passed(p, id) = [i \in Ids |-> row(i)]
    BY DEF Passed, More
  <1> HIDE DEF row
  <1>7. /\ Passed(p, id) \in [Ids -> [Ids -> 0..2]]
        /\ \A i \in Ids : Passed(p, id)[i] = row(i)
    BY <1>4, <1>6
  <1>8. \A i, j \in Ids :
            Passed(p, id)[i][j] = IF i = id THEN 0
                                  ELSE IF j = id THEN More(p[i][id]) ELSE p[i][j]
    BY <1>5, <1>7
  <1>9. \A i, j \in Ids : Passed(p, id)[i][j] # 0 => j \in Registered
    BY <1>8 DEF Counts
  <1> QED BY <1>7, <1>8, <1>9 DEF Counts

\* An announcement takes the tracker whose turn it is to the end of the round.
LEMMA TurnOver ==
    ASSUME NEW c \in Ids, NEW id \in Ids, NEW k \in Ids, Turn(c, id) <= Turn(c, k)
    PROVE  Turn(After(id), k) = IF k = id THEN MaxTrackers - 1
                                ELSE Turn(c, k) - Turn(c, id) - 1
  <1>1. CASE k = id
    BY <1>1, AfterIsNext DEF Turn, Ids
  <1>2. CASE k # id /\ id + 1 = MaxTrackers
    BY <1>2, AfterIsNext DEF Turn, Ids
  <1>3. CASE k # id /\ id + 1 # MaxTrackers
    BY <1>3, AfterIsNext DEF Turn, Ids
  <1> QED BY <1>1, <1>2, <1>3

LEMMA AnnouncedInTurn ==
    ASSUME Registered # {}, NEW c \in Ids, NEW p, Counts(p), InTurn(p, c)
    PROVE  /\ NextFrom(c) \in Registered
           /\ After(NextFrom(c)) \in Ids
           /\ Counts(Passed(p, NextFrom(c)))
           /\ InTurn(Passed(p, NextFrom(c)), After(NextFrom(c)))
  <1> DEFINE id == NextFrom(c)
             q == Passed(p, id)
             d == After(id)
  <1>1. id \in Registered /\ \A j \in Registered : Turn(c, id) <= Turn(c, j)
    BY NextIsFirst
  <1>2. Registered \subseteq Ids
    BY DEF Registered
  <1> HIDE DEF id
  <1>3. d \in Ids
    BY <1>1, <1>2, AfterIsNext
  <1>4. /\ Counts(q)
        /\ \A i, j \in Ids : q[i][j] = IF i = id THEN 0
                                       ELSE IF j = id THEN More(p[i][id]) ELSE p[i][j]
    <2>1. \A k \in Registered :
             /\ Counts(Passed(p, k))
             /\ \A i, j \in Ids :
                   Passed(p, k)[i][j] = IF i = k THEN 0
                                        ELSE IF j = k THEN More(p[i][k]) ELSE p[i][j]
      BY PassedCounts
    <2> QED BY <1>1, <2>1
  <1>5. \A k \in Registered : /\ Turn(c, k) \in Ids
                              /\ Turn(d, k) = IF k = id THEN MaxTrackers - 1
                                              ELSE Turn(c, k) - Turn(c, id) - 1
    BY <1>1, <1>2, TurnOver, TurnIsDistance
  <1> HIDE DEF q, d
  <1>6. ASSUME NEW i \in Registered, NEW j \in Registered
        PROVE  q[i][j] <= 1 /\ (q[i][j] = 1 => Turn(d, i) < Turn(d, j))
    <2>1. p[i][j] \in 0..2 /\ p[i][j] <= 1 /\ (p[i][j] = 1 => Turn(c, i) < Turn(c, j))
      BY <1>2 DEF Counts, InTurn
    <2>2. /\ Turn(c, i) \in Nat /\ Turn(c, j) \in Nat /\ Turn(c, id) \in Nat
          /\ Turn(c, i) < MaxTrackers /\ Turn(c, j) < MaxTrackers
      BY <1>1, <1>5 DEF Ids
    <2>3. CASE i = id
      <3>1. q[i][j] = 0
        BY <1>2, <1>4, <2>3
      <3> QED BY <3>1
    <2>4. CASE i # id /\ j = id
      <3>1. p[i][id] = 0
        <4>1. Turn(c, id) <= Turn(c, i)
          BY <1>1
        <4> QED BY <2>1, <2>2, <2>4, <4>1
      <3>2. q[i][j] = More(0)
        BY <1>2, <1>4, <2>4, <3>1
      <3>3. More(0) = 1
        BY MoreThanNone
      <3>4. Turn(d, i) = Turn(c, i) - Turn(c, id) - 1 /\ Turn(d, j) = MaxTrackers - 1
        BY <1>5, <2>4
      <3>5. Turn(d, i) < Turn(d, j)
        BY <2>2, <3>4
      <3> QED BY <3>2, <3>3, <3>5
    <2>5. CASE i # id /\ j # id
      <3>1. q[i][j] = p[i][j]
        BY <1>2, <1>4, <2>5
      <3>2. /\ Turn(d, i) = Turn(c, i) - Turn(c, id) - 1
            /\ Turn(d, j) = Turn(c, j) - Turn(c, id) - 1
        BY <1>5, <2>5
      <3> QED BY <2>1, <2>2, <3>1, <3>2
    <2> QED BY <2>3, <2>4, <2>5
  <1>7. InTurn(q, d)
    BY <1>6 DEF InTurn
  <1> QED BY <1>1, <1>3, <1>4, <1>7 DEF id, q, d

\* What a call of next_registration() finds: who is announced in which order.
RoundOf(r) ==
    /\ r.cursor \in Ids /\ r.ids \subseteq Ids
    /\ Counts(r.passes) /\ InTurn(r.passes, r.cursor)

\* The announcements of a report keep the order, by induction on their number.
LEMMA RegistrationsInTurn ==
    ASSUME RoundInv, NEW n \in Nat, n > 0 => Registered # {}
    PROVE  RoundOf(Registrations(n))
  <1>1. PICK f : f = [k \in 0..n |-> Slot(f, k)] /\ Registrations(n) = f[n]
    BY RegistrationsUnfold
  <1>2. \A k \in 0..n : f[k] = Slot(f, k)
    BY <1>1
  <1> DEFINE T == {k \in 0..n : ~ RoundOf(f[k])}
  <1>3. SUFFICES ASSUME T # {} PROVE FALSE
    <2>1. n \in 0..n
      OBVIOUS
    <2> QED BY <1>1, <1>3, <2>1
  <1>4. T \subseteq Nat
    OBVIOUS
  <1>5. PICK m \in T : \A y \in T : m <= y
    BY <1>3, <1>4, LeastElement
  <1>6. RoundOf(f[m])
    <2>1. CASE m = 0
      <3>1. f[0] = [cursor |-> cursor, ids |-> {}, passes |-> passes]
        <4>1. f[0] = Slot(f, 0)
          BY <1>2
        <4>2. Slot(f, 0) = [cursor |-> cursor, ids |-> {}, passes |-> passes]
          BY DEF Slot
        <4> QED BY <4>1, <4>2
      <3>2. RoundOf([cursor |-> cursor, ids |-> {}, passes |-> passes])
        BY DEF RoundOf, RoundInv
      <3> QED BY <2>1, <3>1, <3>2
    <2>2. CASE m # 0
      <3>1. m \in 0..n /\ m - 1 \in 0..n /\ m - 1 < m /\ n > 0
        BY <2>2
      <3>2. m - 1 \notin T
        BY <1>5, <3>1
      <3> DEFINE r == f[m - 1]
                 id == NextFrom(r.cursor)
      <3>3. RoundOf(r)
        BY <3>1, <3>2
      <3>4. f[m] = [cursor |-> After(id), ids |-> r.ids \union {id},
                    passes |-> Passed(r.passes, id)]
        BY <1>2, <2>2, <3>1 DEF Slot
      <3> HIDE DEF r
      <3>5. /\ id \in Registered /\ After(id) \in Ids
            /\ Counts(Passed(r.passes, id)) /\ InTurn(Passed(r.passes, id), After(id))
        BY <3>1, <3>3, AnnouncedInTurn DEF RoundOf
      <3>6. r.ids \union {id} \subseteq Ids
        BY <3>3, <3>5 DEF RoundOf, Registered
      <3> HIDE DEF id
      <3> DEFINE next == [cursor |-> After(id), ids |-> r.ids \union {id},
                          passes |-> Passed(r.passes, id)]
      <3>7. /\ next.cursor = After(id) /\ next.ids = r.ids \union {id}
            /\ next.passes = Passed(r.passes, id)
        OBVIOUS
      <3>8. f[m] = next
        BY <3>4
      <3> HIDE DEF next
      <3> QED BY <3>5, <3>6, <3>7, <3>8 DEF RoundOf
    <2> QED BY <2>1, <2>2
  <1> QED BY <1>5, <1>6

-----------------------------------------------------------------------------
(* The invariant of the announcements and of the room in the ring *)

RoomInv == Len(queue) <= QueueSize - 1 /\ age \in 0..Period

BuilderInv == RingInv /\ RoomInv /\ RoundInv

LEMMA NothingPassed ==
    /\ Counts([i \in Ids |-> NoPasses])
    /\ \A c : InTurn([i \in Ids |-> NoPasses], c)
  <1>1. Registered \subseteq Ids
    BY DEF Registered
  <1> QED BY <1>1 DEF Counts, InTurn, NoPasses

LEMMA BuilderInit == Init => BuilderInv
  <1> SUFFICES ASSUME Init PROVE BuilderInv
    OBVIOUS
  <1>1. RingInv
    BY RingInit
  <1>2. RoomInv
    BY DEF Init, RoomInv
  <1>3. 0 \in Ids
    BY DEF Ids
  <1>4. RoundInv
    BY <1>3, NothingPassed DEF Init, RoundInv, NoAddresses
  <1> QED BY <1>1, <1>2, <1>4 DEF BuilderInv

LEMMA RoomAppend ==
    ASSUME NEW q \in Seq(Entries), NEW e \in Entries, Len(q) <= QueueSize - 1
    PROVE  Len(IF Len(q) < QueueSize - 1 THEN Append(q, e) ELSE q) <= QueueSize - 1
  OBVIOUS

LEMMA RoomStep ==
    ASSUME RingInv, RoomInv, [Next]_vars
    PROVE  RoomInv'
  <1>1. queue \in Seq(Entries)
    BY DEF RingInv, RingType
  <1>2. CASE \E id \in Ids, device \in Devices : SetTracker(id, device)
    BY <1>2 DEF SetTracker, RoomInv
  <1>3. ASSUME NEW id \in Ids, ReceiveData(id) PROVE RoomInv'
    <2> DEFINE e == [kind |-> "data", id |-> id, device |-> tracker_addresses[id],
                     stamp |-> newest'[id]]
    <2>1. queue' = Enqueued(e) /\ age' = age
      BY <1>3 DEF ReceiveData
    <2> HIDE DEF e
    <2>2. Len(queue') <= QueueSize - 1
      <3>1. CASE Waiting(e.id) # {}
        <4>1. Len([queue EXCEPT ![Min(Waiting(e.id))] = e]) = Len(queue)
          BY <1>1
        <4> QED BY <2>1, <3>1, <4>1 DEF Enqueued, RoomInv
      <3>2. CASE Waiting(e.id) = {} /\ Len(queue) < QueueSize - 1
        <4>1. Len(Append(queue, e)) = Len(queue) + 1 /\ Len(queue) \in Nat
          BY <1>1
        <4>2. queue' = Append(queue, e)
          BY <2>1, <3>2 DEF Enqueued, Appended
        <4> QED BY <3>2, <4>1, <4>2
      <3>3. CASE Waiting(e.id) = {} /\ ~ Len(queue) < QueueSize - 1
        BY <2>1, <3>3 DEF Enqueued, Appended, RoomInv
      <3> QED BY <3>1, <3>2, <3>3
    <2> QED BY <2>1, <2>2 DEF RoomInv
  <1>4. CASE ReceiveGarbled
    <2>1. queue' = Appended(Diagnostic) /\ age' = age
      BY <1>4 DEF ReceiveGarbled
    <2>2. Diagnostic \in Entries
      BY DEF Entries
    <2>3. Len(queue') <= QueueSize - 1
      BY <1>1, <2>1, <2>2, RoomAppend DEF Appended, RoomInv
    <2> QED BY <2>1, <2>3 DEF RoomInv
  <1>5. CASE ClearTrackers
    BY <1>5 DEF ClearTrackers, RoomInv
  <1>6. CASE Report
    <2>1. Taken \in 0..Len(queue)
      BY <1>1, LeastOfTwo DEF Taken
    <2>2. Len(SubSeq(queue, Taken + 1, Len(queue))) = Len(queue) - Taken
      BY <1>1, <2>1
    <2>3. queue' = SubSeq(queue, Taken + 1, Len(queue)) /\ age' \in {0, age}
      BY <1>6 DEF Report
    <2>4. Len(queue) \in Nat
      BY <1>1
    <2>5. Len(queue') = Len(queue) - Taken
      BY <2>2, <2>3
    <2>6. Len(queue') <= Len(queue) /\ Len(queue') \in Nat
      BY <2>1, <2>4, <2>5
    <2>7. Len(queue') <= QueueSize - 1
      BY <2>4, <2>6 DEF RoomInv
    <2>8. age' \in 0..Period
      BY <2>3 DEF RoomInv
    <2> QED BY <2>7, <2>8 DEF RoomInv
  <1>7. CASE Tick
    BY <1>7 DEF Tick, RoomInv
  <1>8. CASE UNCHANGED vars
    BY <1>8 DEF vars, RoomInv
  <1> QED BY <1>2, <1>3, <1>4, <1>5, <1>6, <1>7, <1>8 DEF Next

\* Who is registered and who passed whom stays when these stay.
LEMMA RoundKept ==
    ASSUME RoundInv, UNCHANGED <<tracker_addresses, cursor, announced, passes>>
    PROVE  RoundInv'
  <1>1. Registered' = Registered
    BY DEF Registered
  <1> QED BY <1>1 DEF RoundInv, Counts, InTurn

LEMMA RoundSetTracker ==
    ASSUME RoundInv, NEW id \in Ids, NEW device \in Devices, SetTracker(id, device)
    PROVE  RoundInv'
  <1>1. /\ tracker_addresses' = [tracker_addresses EXCEPT ![id] = device]
        /\ passes' = IF id \in Registered THEN passes ELSE [passes EXCEPT ![id] = NoPasses]
        /\ cursor' = cursor /\ announced' = announced
    BY DEF SetTracker
  <1>2. tracker_addresses' \in [Ids -> Devices \union {NoDevice}]
    BY <1>1 DEF RoundInv
  <1>3. Registered' = Registered \union {id}
    BY <1>1 DEF Registered, RoundInv
  <1>4. NoPasses \in [Ids -> 0..2] /\ \A j \in Ids : NoPasses[j] = 0
    BY DEF NoPasses
  <1>5. Counts(passes) /\ InTurn(passes, cursor) /\ cursor \in Ids
    BY DEF RoundInv
  <1>6. passes \in [Ids -> [Ids -> 0..2]] /\ passes' \in [Ids -> [Ids -> 0..2]]
    BY <1>1, <1>4, <1>5 DEF Counts
  <1>7. \A i, j \in Ids : passes'[i][j] = IF i = id /\ id \notin Registered THEN 0
                                          ELSE passes[i][j]
    BY <1>1, <1>4, <1>6
  <1>8. Counts(passes)'
    BY <1>3, <1>5, <1>6, <1>7 DEF Counts
  <1>9. ASSUME NEW i \in Registered', NEW j \in Registered'
        PROVE  passes'[i][j] <= 1 /\ (passes'[i][j] = 1 => Turn(cursor', i) < Turn(cursor', j))
    <2>1. i \in Ids /\ j \in Ids
      BY <1>3 DEF Registered
    <2>2. CASE i \in Registered /\ j \in Registered
      <3>1. passes'[i][j] = passes[i][j]
        BY <1>7, <2>1, <2>2
      <3> QED BY <1>1, <1>5, <2>2, <3>1 DEF InTurn, Turn
    <2>3. CASE i \notin Registered
      BY <1>3, <1>7, <2>1, <2>3
    <2>4. CASE i \in Registered /\ j \notin Registered
      <3>1. passes'[i][j] = passes[i][j]
        BY <1>7, <2>1, <2>4
      <3>2. passes[i][j] = 0
        BY <1>5, <2>1, <2>4 DEF Counts
      <3> QED BY <3>1, <3>2
    <2> QED BY <2>2, <2>3, <2>4
  <1>10. InTurn(passes, cursor)'
    BY <1>9 DEF InTurn
  <1> QED BY <1>1, <1>2, <1>8, <1>10 DEF RoundInv

LEMMA RoundReport ==
    ASSUME RingInv, RoundInv, Report
    PROVE  RoundInv'
  <1> DEFINE free == FreeSlots(Taken)
             r == Registrations(free)
  <1>1. free \in Nat /\ (free > 0 => Registered # {})
    <2>1. Len(queue) \in Nat /\ ReportRecords \in Nat
      BY DEF RingInv, RingType
    <2>2. Taken \in Nat /\ Taken <= ReportRecords
      BY <2>1, LeastOfTwo DEF Taken
    <2> QED BY <2>1, <2>2 DEF FreeSlots
  <1>2. /\ announced' = r.ids /\ cursor' = r.cursor /\ passes' = r.passes
        /\ tracker_addresses' = tracker_addresses
    BY DEF Report
  <1> HIDE DEF free
  <1>3. RoundOf(r)
    BY <1>1, RegistrationsInTurn
  <1> HIDE DEF r
  <1>4. Registered' = Registered
    BY <1>2 DEF Registered
  <1> QED BY <1>2, <1>3, <1>4 DEF RoundInv, RoundOf, Counts, InTurn

LEMMA RoundStep ==
    ASSUME RingInv, RoundInv, [Next]_vars
    PROVE  RoundInv'
  <1>1. CASE \E id \in Ids, device \in Devices : SetTracker(id, device)
    BY <1>1, RoundSetTracker
  <1>2. CASE \E id \in Ids : ReceiveData(id)
    BY <1>2, RoundKept DEF ReceiveData
  <1>3. CASE ReceiveGarbled
    BY <1>3, RoundKept DEF ReceiveGarbled
  <1>4. CASE ClearTrackers
    <2>1. /\ tracker_addresses' = NoAddresses /\ cursor' = 0 /\ announced' = announced
          /\ passes' = [i \in Ids |-> NoPasses]
      BY <1>4 DEF ClearTrackers
    <2>2. Registered' = {} /\ 0 \in Ids
      BY <2>1 DEF Registered, NoAddresses, Ids
    <2>3. passes' \in [Ids -> [Ids -> 0..2]] /\ \A i, j \in Ids : passes'[i][j] = 0
      BY <2>1 DEF NoPasses
    <2>4. NoAddresses \in [Ids -> Devices \union {NoDevice}]
      BY DEF NoAddresses
    <2> QED BY <2>1, <2>2, <2>3, <2>4 DEF RoundInv, Counts, InTurn
  <1>5. CASE Report
    BY <1>5, RoundReport
  <1>6. CASE Tick
    BY <1>6, RoundKept DEF Tick
  <1>7. CASE UNCHANGED vars
    BY <1>7, RoundKept DEF vars
  <1> QED BY <1>1, <1>2, <1>3, <1>4, <1>5, <1>6, <1>7 DEF Next

LEMMA BuilderStep == BuilderInv /\ [Next]_vars => BuilderInv'
  BY RingStep, RoomStep, RoundStep DEF BuilderInv

\* Every variable of the builder keeps its type, and the ring of
\* report_builder_enqueue() always keeps the entry that tells full from empty.
THEOREM BuilderTypes == Spec => []TypeOK
  <1>1. BuilderInv => TypeOK
    BY DEF BuilderInv, RingInv, RingType, RoomInv, RoundInv, Counts, TypeOK, Entries
  <1> QED BY <1>1, BuilderInit, BuilderStep, PTL DEF Spec

\* next_registration() announces no tracker twice while another one that is paired
\* waits: for any table, any report size, and whatever is paired or cleared meanwhile.
THEOREM TurnsAreFair == Spec => []RoundRobin
  <1>1. BuilderInv => RoundRobin
    BY DEF BuilderInv, RoundInv, InTurn, RoundRobin
  <1> QED BY <1>1, BuilderInit, BuilderStep, PTL DEF Spec
=============================================================================
