------------------------- MODULE ReceiverHubProofs --------------------------
(***************************************************************************)
(* Proofs about ReceiverHub, for any receivers, trackers, tables and       *)
(* bounds: records are given to the tracker their receiver has announced.  *)
(***************************************************************************)
EXTENDS ReceiverHub, SequenceTheorems, TLAPS

-----------------------------------------------------------------------------
(* What the hub will know of an id when the first records have arrived *)

Names(r, i) == r.kind = "registration" /\ r.id = i
NamesAs(r, i, t) == Names(r, i) /\ r.tracker = t
NamesOther(r, i, t) == Names(r, i) /\ r.tracker # t

\* By what the hub knows of a source, base, and the first n records of q, the id i is
\* t's: the last registration among them says so.
KnownAs(base, q, n, i, t) ==
    /\ base[i] = t \/ \E j \in 1..n : NamesAs(q[j], i, t)
    /\ \A j \in 1..n : NamesOther(q[j], i, t) => \E m \in (j + 1)..n : NamesAs(q[m], i, t)

\* It only depends on the kind, the id and the tracker of those records.
LEMMA KnownBySameRecords ==
    ASSUME NEW base, NEW q, NEW r, NEW n \in Nat, NEW i, NEW t,
           \A j \in 1..n : r[j].kind = q[j].kind /\ r[j].id = q[j].id
                               /\ r[j].tracker = q[j].tracker,
           KnownAs(base, q, n, i, t)
    PROVE  KnownAs(base, r, n, i, t)
<1>1. \A j \in 1..n : /\ NamesAs(r[j], i, t) <=> NamesAs(q[j], i, t)
                      /\ NamesOther(r[j], i, t) <=> NamesOther(q[j], i, t)
    BY DEF NamesAs, NamesOther, Names
<1>2. base[i] = t \/ \E j \in 1..n : NamesAs(r[j], i, t)
    BY <1>1 DEF KnownAs
<1>3. ASSUME NEW j \in 1..n, NamesOther(r[j], i, t)
      PROVE  \E m \in (j + 1)..n : NamesAs(r[m], i, t)
  <2>1. PICK m \in (j + 1)..n : NamesAs(q[m], i, t)
    BY <1>1, <1>3 DEF KnownAs
  <2>2. m \in 1..n
    OBVIOUS
  <2> QED
    BY <1>1, <2>1, <2>2
<1> QED
    BY <1>2, <1>3 DEF KnownAs

\* A registration of the id decides.
LEMMA KnownByRegistration ==
    ASSUME NEW base, NEW q, NEW n \in Nat, NEW i, NEW t, NamesAs(q[n + 1], i, t)
    PROVE  KnownAs(base, q, n + 1, i, t)
<1>1. n + 1 \in 1..(n + 1)
    OBVIOUS
<1>2. ASSUME NEW j \in 1..(n + 1), NamesOther(q[j], i, t)
      PROVE  \E m \in (j + 1)..(n + 1) : NamesAs(q[m], i, t)
  <2>1. j # n + 1
    BY <1>2 DEF NamesAs, NamesOther
  <2>2. n + 1 \in (j + 1)..(n + 1)
    BY <2>1
  <2> QED
    BY <2>2
<1> QED
    BY <1>1, <1>2 DEF KnownAs

\* Any other record changes nothing.
LEMMA KnownBeyondOthers ==
    ASSUME NEW base, NEW q, NEW n \in Nat, NEW i, NEW t, ~ Names(q[n + 1], i),
           KnownAs(base, q, n, i, t)
    PROVE  KnownAs(base, q, n + 1, i, t)
<1>1. base[i] = t \/ \E j \in 1..(n + 1) : NamesAs(q[j], i, t)
  <2>1. \A j \in 1..n : j \in 1..(n + 1)
    OBVIOUS
  <2> QED
    BY <2>1 DEF KnownAs
<1>2. ASSUME NEW j \in 1..(n + 1), NamesOther(q[j], i, t)
      PROVE  \E m \in (j + 1)..(n + 1) : NamesAs(q[m], i, t)
  <2>1. j # n + 1
    BY <1>2 DEF NamesOther
  <2>2. j \in 1..n
    BY <2>1
  <2>3. PICK m \in (j + 1)..n : NamesAs(q[m], i, t)
    BY <1>2, <2>2 DEF KnownAs
  <2>4. m \in (j + 1)..(n + 1)
    OBVIOUS
  <2> QED
    BY <2>3, <2>4
<1> QED
    BY <1>1, <1>2 DEF KnownAs

\* The first record has arrived: what it says of the id has moved into the table.
LEMMA KnownAfterArrival ==
    ASSUME NEW base, NEW next, NEW q, NEW r, NEW n \in Nat \ {0}, NEW i, NEW t,
           \A j \in 1..(n - 1) : r[j] = q[j + 1],
           next[i] = IF Names(q[1], i) THEN q[1].tracker ELSE base[i],
           KnownAs(base, q, n, i, t)
    PROVE  KnownAs(next, r, n - 1, i, t)
<1>1. ASSUME NEW m \in 2..n, NamesAs(q[m], i, t)
      PROVE  m - 1 \in 1..(n - 1) /\ NamesAs(r[m - 1], i, t)
  <2>1. m - 1 \in 1..(n - 1) /\ (m - 1) + 1 = m
    OBVIOUS
  <2>2. r[m - 1] = q[m]
    BY <2>1
  <2> QED
    BY <1>1, <2>1, <2>2
<1>2. next[i] = t \/ \E j \in 1..(n - 1) : NamesAs(r[j], i, t)
  <2>1. CASE NamesOther(q[1], i, t)
    <3>1. 1 \in 1..n
      OBVIOUS
    <3>2. PICK m \in 2..n : NamesAs(q[m], i, t)
      BY <2>1, <3>1 DEF KnownAs
    <3> QED
      BY <1>1, <3>2
  <2>2. CASE NamesAs(q[1], i, t)
    BY <2>2 DEF NamesAs
  <2>3. CASE ~ Names(q[1], i)
    <3>1. CASE base[i] = t
      BY <2>3, <3>1
    <3>2. CASE \E j \in 1..n : NamesAs(q[j], i, t)
      <4>1. PICK j \in 1..n : NamesAs(q[j], i, t)
        BY <3>2
      <4>2. j \in 2..n
        BY <2>3, <4>1 DEF NamesAs
      <4> QED
        BY <1>1, <4>1, <4>2
    <3> QED
      BY <3>1, <3>2 DEF KnownAs
  <2> QED
    BY <2>1, <2>2, <2>3 DEF NamesAs, NamesOther
<1>3. ASSUME NEW j \in 1..(n - 1), NamesOther(r[j], i, t)
      PROVE  \E m \in (j + 1)..(n - 1) : NamesAs(r[m], i, t)
  <2>1. j + 1 \in 1..n /\ NamesOther(q[j + 1], i, t)
    BY <1>3
  <2>2. PICK m \in ((j + 1) + 1)..n : NamesAs(q[m], i, t)
    BY <2>1 DEF KnownAs
  <2>3. m \in 2..n /\ m - 1 \in (j + 1)..(n - 1)
    OBVIOUS
  <2> QED
    BY <1>1, <2>2, <2>3
<1> QED
    BY <1>2, <1>3 DEF KnownAs

LEMMA KnownNow ==
    ASSUME NEW base, NEW q, NEW i, NEW t, KnownAs(base, q, 0, i, t)
    PROVE  base[i] = t
BY DEF KnownAs

-----------------------------------------------------------------------------
(* One source: its registrations and the records on their way *)

AnyRecord ==
    [kind : {"registration"}, id : LocalIds, tracker : Trackers, age : Nat]
        \union
    [kind : {"data"}, id : LocalIds, tracker : Trackers, age : Nat,
     sequence : Nat, number : Nat, announced : BOOLEAN]

Announced(r) == r.kind = "data" /\ r.announced

\* When all records have arrived the hub knows the ids that are announced, and at the
\* turn of a record that was sent under an announced id it knows that one.
SourceInv(base, q, ids, who) ==
    /\ \A i \in ids : KnownAs(base, q, Len(q), i, who[i])
    /\ \A k \in 1..Len(q) :
          Announced(q[k]) => KnownAs(base, q, k - 1, q[k].id, q[k].tracker)

LEMMA RecordFields ==
    ASSUME NEW r \in AnyRecord
    PROVE  r.id \in LocalIds /\ r.tracker \in Trackers /\ r.kind \in {"registration", "data"}
BY DEF AnyRecord

\* Appending a record leaves what is known before it.
LEMMA KnownBeforeLast ==
    ASSUME NEW base, NEW q \in Seq(AnyRecord), NEW r \in AnyRecord, NEW n \in 0..Len(q),
           NEW i, NEW t, KnownAs(base, q, n, i, t)
    PROVE  KnownAs(base, Append(q, r), n, i, t)
<1> DEFINE a == Append(q, r)
<1>1. \A j \in 1..Len(q) : a[j] = q[j]
    BY AppendProperties
<1>2. n \in Nat /\ \A j \in 1..n : j \in 1..Len(q)
    BY LenProperties
<1> HIDE DEF a
<1>3. \A j \in 1..n : a[j].kind = q[j].kind /\ a[j].id = q[j].id /\ a[j].tracker = q[j].tracker
    BY <1>1, <1>2
<1>4. KnownAs(base, a, n, i, t)
    BY <1>2, <1>3, KnownBySameRecords
<1> QED
    BY <1>4 DEF a

LEMMA SourceAppends ==
    ASSUME NEW base, NEW q \in Seq(AnyRecord), NEW r \in AnyRecord, NEW ids, NEW who,
           SourceInv(base, q, ids, who),
           r.kind = "data" /\ r.announced => r.id \in ids /\ who[r.id] = r.tracker,
           r.kind = "registration" => who[r.id] = r.tracker
    PROVE  SourceInv(base, Append(q, r),
                     IF r.kind = "registration" THEN ids \union {r.id} ELSE ids, who)
<1> DEFINE a == Append(q, r)
           more == IF r.kind = "registration" THEN ids \union {r.id} ELSE ids
<1>1. Len(q) \in Nat /\ Len(a) = Len(q) + 1 /\ a[Len(q) + 1] = r
      /\ \A j \in 1..Len(q) : a[j] = q[j]
    BY AppendProperties, LenProperties
<1>2. \A n \in 0..Len(q) : \A i, t : KnownAs(base, q, n, i, t) => KnownAs(base, a, n, i, t)
    BY KnownBeforeLast
<1> HIDE DEF a
<1>3. ASSUME NEW i \in more
      PROVE  KnownAs(base, a, Len(a), i, who[i])
  <2>1. CASE Names(r, i)
    <3>1. NamesAs(a[Len(q) + 1], i, who[i])
      BY <2>1, <1>1 DEF NamesAs, Names
    <3> QED
      BY <3>1, <1>1, KnownByRegistration
  <2>2. CASE ~ Names(r, i)
    <3>1. i \in ids
      BY <2>2 DEF Names
    <3>2. KnownAs(base, a, Len(q), i, who[i])
      BY <3>1, <1>1, <1>2 DEF SourceInv
    <3>3. ~ Names(a[Len(q) + 1], i)
      BY <1>1, <2>2
    <3> QED
      BY <3>2, <3>3, <1>1, KnownBeyondOthers
  <2> QED
    BY <2>1, <2>2
<1>4. ASSUME NEW k \in 1..Len(a), Announced(a[k])
      PROVE  KnownAs(base, a, k - 1, a[k].id, a[k].tracker)
  <2>1. CASE k = Len(q) + 1
    <3>1. r.id \in ids /\ who[r.id] = r.tracker /\ a[k] = r /\ k - 1 = Len(q)
      BY <2>1, <1>1, <1>4 DEF Announced
    <3>2. KnownAs(base, a, Len(q), r.id, r.tracker)
      BY <3>1, <1>1, <1>2 DEF SourceInv
    <3> QED
      BY <3>1, <3>2
  <2>2. CASE k # Len(q) + 1
    <3>1. k \in 1..Len(q) /\ k - 1 \in 0..Len(q)
      BY <2>2, <1>1
    <3>2. a[k] = q[k]
      BY <3>1, <1>1
    <3>3. KnownAs(base, q, k - 1, q[k].id, q[k].tracker)
      BY <3>1, <3>2, <1>4 DEF SourceInv
    <3> QED
      BY <3>1, <3>2, <3>3, <1>2
  <2> QED
    BY <2>1, <2>2
<1>5. SourceInv(base, a, more, who)
    BY <1>3, <1>4 DEF SourceInv
<1> QED
    BY <1>5 DEF a

\* The age of a record does not matter.
LEMMA SourceAges ==
    ASSUME NEW base, NEW q, NEW a, NEW ids, NEW who, SourceInv(base, q, ids, who),
           Len(q) \in Nat, Len(a) = Len(q),
           \A j \in 1..Len(q) : a[j].kind = q[j].kind /\ a[j].id = q[j].id
               /\ a[j].tracker = q[j].tracker /\ (Announced(a[j]) => Announced(q[j]))
    PROVE  SourceInv(base, a, ids, who)
<1>1. ASSUME NEW n \in 0..Len(q), NEW i, NEW t, KnownAs(base, q, n, i, t)
      PROVE  KnownAs(base, a, n, i, t)
  <2>1. \A j \in 1..n : j \in 1..Len(q)
    OBVIOUS
  <2>2. \A j \in 1..n : a[j].kind = q[j].kind /\ a[j].id = q[j].id /\ a[j].tracker = q[j].tracker
    BY <2>1
  <2> QED
    BY <1>1, <2>2, KnownBySameRecords
<1>2. \A i \in ids : KnownAs(base, a, Len(a), i, who[i])
    BY <1>1 DEF SourceInv
<1>3. ASSUME NEW k \in 1..Len(a), Announced(a[k])
      PROVE  KnownAs(base, a, k - 1, a[k].id, a[k].tracker)
  <2>1. k \in 1..Len(q) /\ k - 1 \in 0..Len(q)
    OBVIOUS
  <2>2. KnownAs(base, q, k - 1, q[k].id, q[k].tracker)
    BY <1>3, <2>1 DEF SourceInv
  <2>3. KnownAs(base, a, k - 1, q[k].id, q[k].tracker)
    BY <1>1, <2>1, <2>2
  <2> QED
    BY <2>1, <2>3
<1> QED
    BY <1>2, <1>3 DEF SourceInv

\* The hub takes the first record.
LEMMA SourceReceives ==
    ASSUME NEW base, NEW next, NEW q \in Seq(AnyRecord), q # <<>>, NEW ids \in SUBSET LocalIds,
           NEW who, SourceInv(base, q, ids, who),
           \A i \in LocalIds : next[i] = IF Names(q[1], i) THEN q[1].tracker ELSE base[i]
    PROVE  SourceInv(next, Tail(q), ids, who)
<1> DEFINE r == Tail(q)
<1>1. Len(q) \in Nat \ {0} /\ Len(r) = Len(q) - 1 /\ \A j \in 1..(Len(q) - 1) : r[j] = q[j + 1]
    BY HeadTailProperties, EmptySeq, LenProperties
<1> HIDE DEF r
<1>2. ASSUME NEW n \in 1..Len(q), NEW i \in LocalIds, NEW t, KnownAs(base, q, n, i, t)
      PROVE  KnownAs(next, r, n - 1, i, t)
  <2>1. n \in Nat \ {0} /\ \A j \in 1..(n - 1) : j \in 1..(Len(q) - 1)
    BY <1>1
  <2>2. \A j \in 1..(n - 1) : r[j] = q[j + 1]
    BY <2>1, <1>1
  <2>3. next[i] = IF Names(q[1], i) THEN q[1].tracker ELSE base[i]
    OBVIOUS
  <2> QED
    BY <1>2, <2>1, <2>2, <2>3, KnownAfterArrival
<1>3. ASSUME NEW i \in ids PROVE KnownAs(next, r, Len(r), i, who[i])
  <2>1. KnownAs(base, q, Len(q), i, who[i]) /\ Len(q) \in 1..Len(q) /\ i \in LocalIds
    BY <1>1 DEF SourceInv
  <2> QED
    BY <2>1, <1>1, <1>2
<1>4. ASSUME NEW k \in 1..Len(r), Announced(r[k])
      PROVE  KnownAs(next, r, k - 1, r[k].id, r[k].tracker)
  <2>1. k + 1 \in 1..Len(q) /\ r[k] = q[k + 1] /\ (k + 1) - 1 = k /\ k \in 1..Len(q)
    BY <1>1
  <2>2. q[k + 1] \in AnyRecord
    BY <2>1, LenProperties
  <2>3. q[k + 1].id \in LocalIds
    BY <2>2, RecordFields
  <2>4. KnownAs(base, q, k, q[k + 1].id, q[k + 1].tracker)
    BY <2>1, <1>4 DEF SourceInv
  <2>5. KnownAs(next, r, k - 1, q[k + 1].id, q[k + 1].tracker)
    BY <2>1, <2>3, <2>4, <1>2
  <2> QED
    BY <2>1, <2>5
<1>5. SourceInv(next, r, ids, who)
    BY <1>3, <1>4 DEF SourceInv
<1> QED
    BY <1>5 DEF r

-----------------------------------------------------------------------------
(* The hub *)

Tables == [Sources -> [LocalIds -> Trackers \union {NoTracker}]]

WireInv ==
    /\ local_to_address \in Tables
    /\ assigned \in Tables
    /\ transit \in [Sources -> Seq(AnyRecord)]
    /\ sequence \in [Trackers -> Nat]
    /\ sent \in [Trackers -> Nat]

RegisteredIds(s) == {i \in LocalIds : <<s, i>> \in registered}

AttributionInv ==
    \A s \in Sources :
        SourceInv(local_to_address[s], transit[s], RegisteredIds(s), assigned[s])

HubInv == WireInv /\ AttributionInv

LEMMA HubInit == Init => HubInv
<1> SUFFICES ASSUME Init PROVE HubInv
    OBVIOUS
<1>1. local_to_address = [s \in Sources |-> [i \in LocalIds |-> NoTracker]]
      /\ assigned \in Tables /\ registered = {} /\ transit = [s \in Sources |-> <<>>]
      /\ sequence = [t \in Trackers |-> FirstSequence] /\ sent = [t \in Trackers |-> 0]
    BY DEF Init, Tables
<1>2. local_to_address \in Tables
    BY <1>1 DEF Tables
<1>3. transit \in [Sources -> Seq(AnyRecord)]
    BY <1>1, EmptySeq
<1>4. sequence \in [Trackers -> Nat] /\ sent \in [Trackers -> Nat]
    BY <1>1, HubConstants
<1>5. ASSUME NEW s \in Sources
      PROVE  SourceInv(local_to_address[s], transit[s], RegisteredIds(s), assigned[s])
  <2>1. RegisteredIds(s) = {} /\ transit[s] = <<>>
    BY <1>1 DEF RegisteredIds
  <2>2. Len(<<>>) = 0
    OBVIOUS
  <2> QED
    BY <2>1, <2>2 DEF SourceInv
<1> QED
    BY <1>1, <1>2, <1>3, <1>4, <1>5 DEF HubInv, WireInv, AttributionInv

\* A receiver that has heard a tracker sends a record under one of its ids.
LEMMA HubBroadcast ==
    ASSUME HubInv, NEW t \in Trackers, NEW hearing \in SUBSET Sources, Broadcast(t, hearing)
    PROVE  HubInv'
<1>1. /\ sent' = [sent EXCEPT ![t] = @ + 1]
      /\ sequence' = [sequence EXCEPT ![t] = NextSequence(@)]
      /\ local_to_address' = local_to_address /\ assigned' = assigned /\ registered' = registered
    BY DEF Broadcast
<1>2. PICK id \in [hearing -> LocalIds] :
        /\ \A s \in hearing : id[s] \in IdsOf(s, t)
        /\ transit' = [s \in Sources |->
            IF s \notin hearing THEN transit[s]
            ELSE Append(transit[s], [kind |-> "data", id |-> id[s], tracker |-> t, age |-> 0,
                                     sequence |-> sequence[t], number |-> sent'[t],
                                     announced |-> <<s, id[s]>> \in registered])]
    BY DEF Broadcast
<1>3. sent' \in [Trackers -> Nat] /\ sequence[t] \in Nat /\ sent'[t] \in Nat
    BY <1>1 DEF HubInv, WireInv
<1>4. sequence' \in [Trackers -> Nat]
  <2>1. NextSequence(sequence[t]) \in Nat
    BY <1>3, HubConstants DEF NextSequence
  <2> QED
    BY <1>1, <2>1 DEF HubInv, WireInv
<1>5. ASSUME NEW s \in Sources
      PROVE  /\ transit'[s] \in Seq(AnyRecord)
             /\ SourceInv(local_to_address[s], transit'[s], RegisteredIds(s), assigned[s])
  <2>1. transit[s] \in Seq(AnyRecord)
        /\ SourceInv(local_to_address[s], transit[s], RegisteredIds(s), assigned[s])
    BY DEF HubInv, WireInv, AttributionInv
  <2>2. CASE s \notin hearing
    BY <2>1, <2>2, <1>2
  <2>3. CASE s \in hearing
    <3> DEFINE b == <<s, id[s]>> \in registered
               r == [kind |-> "data", id |-> id[s], tracker |-> t, age |-> 0,
                     sequence |-> sequence[t], number |-> sent'[t], announced |-> b]
    <3>1. transit'[s] = Append(transit[s], r)
      BY <2>3, <1>2
    <3>2. id[s] \in LocalIds /\ assigned[s][id[s]] = t /\ b \in BOOLEAN
          /\ (b => id[s] \in RegisteredIds(s))
      BY <2>3, <1>2 DEF IdsOf, RegisteredIds
    <3> HIDE DEF b
    <3>3. r \in AnyRecord
      BY <3>2, <1>3 DEF AnyRecord
    <3>4. r.kind = "data" /\ r.announced = b /\ r.id = id[s] /\ r.tracker = t
      OBVIOUS
    <3> HIDE DEF r
    <3>5. r.kind = "data" /\ r.announced => r.id \in RegisteredIds(s) /\ assigned[s][r.id] = r.tracker
      BY <3>2, <3>4
    <3>6. SourceInv(local_to_address[s], Append(transit[s], r), RegisteredIds(s), assigned[s])
      BY <2>1, <3>3, <3>4, <3>5, SourceAppends
    <3> QED
      BY <2>1, <3>1, <3>3, <3>6, AppendProperties
  <2> QED
    BY <2>2, <2>3
<1>6. WireInv'
    BY <1>1, <1>2, <1>3, <1>4, <1>5 DEF HubInv, WireInv
<1>7. AttributionInv'
    BY <1>1, <1>5 DEF AttributionInv, RegisteredIds
<1> QED
    BY <1>6, <1>7 DEF HubInv

LEMMA HubAnnounce ==
    ASSUME HubInv, NEW s \in Sources, NEW id \in LocalIds, Announce(s, id)
    PROVE  HubInv'
<1> DEFINE r == [kind |-> "registration", id |-> id, tracker |-> assigned[s][id], age |-> 0]
<1>1. /\ assigned[s][id] # NoTracker
      /\ transit' = [transit EXCEPT ![s] = Append(@, r)]
      /\ registered' = registered \union {<<s, id>>}
      /\ local_to_address' = local_to_address /\ assigned' = assigned
      /\ sequence' = sequence /\ sent' = sent
    BY DEF Announce
<1>2. assigned[s][id] \in Trackers
    BY <1>1 DEF HubInv, WireInv, Tables
<1>3. r \in AnyRecord
    BY <1>2 DEF AnyRecord
<1>4. r.kind = "registration" /\ r.id = id /\ r.tracker = assigned[s][id]
    OBVIOUS
<1> HIDE DEF r
<1>5. /\ transit'[s] = Append(transit[s], r)
      /\ \A o \in Sources : o # s => transit'[o] = transit[o]
    BY <1>1 DEF HubInv, WireInv
<1>6. Append(transit[s], r) \in Seq(AnyRecord)
    BY <1>3, AppendProperties DEF HubInv, WireInv
<1>7. WireInv'
    BY <1>1, <1>6 DEF HubInv, WireInv
<1>8. ASSUME NEW o \in Sources
      PROVE  SourceInv(local_to_address[o], transit'[o], RegisteredIds(o)', assigned[o])
  <2>1. transit[o] \in Seq(AnyRecord)
        /\ SourceInv(local_to_address[o], transit[o], RegisteredIds(o), assigned[o])
    BY DEF HubInv, WireInv, AttributionInv
  <2>2. CASE o = s
    <3>1. RegisteredIds(o)' = RegisteredIds(o) \union {r.id}
      BY <2>2, <1>1, <1>4 DEF RegisteredIds
    <3>2. SourceInv(local_to_address[o], Append(transit[o], r), RegisteredIds(o) \union {r.id}, assigned[o])
      BY <2>1, <2>2, <1>3, <1>4, SourceAppends
    <3> QED
      BY <2>2, <3>1, <3>2, <1>5
  <2>3. CASE o # s
    <3>1. RegisteredIds(o)' = RegisteredIds(o)
      BY <2>3, <1>1 DEF RegisteredIds
    <3> QED
      BY <2>1, <2>3, <3>1, <1>5
  <2> QED
    BY <2>2, <2>3
<1>9. AttributionInv'
    BY <1>1, <1>8 DEF AttributionInv
<1> QED
    BY <1>7, <1>9 DEF HubInv

LEMMA HubReassign ==
    ASSUME HubInv, NEW s \in Sources, NEW id \in LocalIds, NEW t \in Trackers, Reassign(s, id, t)
    PROVE  HubInv'
<1>1. /\ assigned' = [assigned EXCEPT ![s][id] = t]
      /\ registered' = registered \ {<<s, id>>}
      /\ local_to_address' = local_to_address /\ transit' = transit
      /\ sequence' = sequence /\ sent' = sent
    BY DEF Reassign
<1>2. WireInv'
    BY <1>1 DEF HubInv, WireInv, Tables
<1>3. ASSUME NEW o \in Sources
      PROVE  SourceInv(local_to_address[o], transit[o], RegisteredIds(o)', assigned'[o])
  <2>1. SourceInv(local_to_address[o], transit[o], RegisteredIds(o), assigned[o])
    BY DEF HubInv, AttributionInv
  <2>2. ASSUME NEW i \in RegisteredIds(o)'
        PROVE  i \in RegisteredIds(o) /\ assigned'[o][i] = assigned[o][i]
    <3>1. i \in LocalIds /\ <<o, i>> \in registered /\ <<o, i>> # <<s, id>>
      BY <1>1 DEF RegisteredIds
    <3>2. o # s \/ i # id
      BY <3>1
    <3>3. assigned'[o][i] = assigned[o][i]
      BY <3>1, <3>2, <1>1 DEF HubInv, WireInv, Tables
    <3> QED
      BY <3>1, <3>3 DEF RegisteredIds
  <2> QED
    BY <2>1, <2>2 DEF SourceInv
<1>4. AttributionInv'
    BY <1>1, <1>3 DEF AttributionInv
<1> QED
    BY <1>2, <1>4 DEF HubInv

LEMMA HubTick == HubInv /\ Tick => HubInv'
<1> SUFFICES ASSUME HubInv, Tick PROVE HubInv'
    OBVIOUS
<1>1. /\ transit' = [s \in Sources |->
             [k \in 1..Len(transit[s]) |-> [transit[s][k] EXCEPT !.age = @ + 1]]]
      /\ local_to_address' = local_to_address /\ assigned' = assigned /\ registered' = registered
      /\ sequence' = sequence /\ sent' = sent
    BY DEF Tick
<1> DEFINE Older(r) == [r EXCEPT !.age = @ + 1]
<1>2. ASSUME NEW r \in AnyRecord
      PROVE  /\ Older(r) \in AnyRecord
             /\ Older(r).kind = r.kind /\ Older(r).id = r.id /\ Older(r).tracker = r.tracker
             /\ Announced(Older(r)) => Announced(r)
  <2>1. CASE r \in [kind : {"registration"}, id : LocalIds, tracker : Trackers, age : Nat]
    BY <2>1 DEF AnyRecord, Announced
  <2>2. CASE r \in [kind : {"data"}, id : LocalIds, tracker : Trackers, age : Nat,
                    sequence : Nat, number : Nat, announced : BOOLEAN]
    BY <2>2 DEF AnyRecord, Announced
  <2> QED
    BY <2>1, <2>2 DEF AnyRecord
<1>3. ASSUME NEW s \in Sources
      PROVE  /\ transit'[s] \in Seq(AnyRecord)
             /\ SourceInv(local_to_address[s], transit'[s], RegisteredIds(s), assigned[s])
  <2> DEFINE q == transit[s]
             a == [k \in 1..Len(q) |-> Older(q[k])]
  <2>1. q \in Seq(AnyRecord) /\ Len(q) \in Nat /\ \A k \in 1..Len(q) : q[k] \in AnyRecord
    BY LenProperties DEF HubInv, WireInv
  <2>2. SourceInv(local_to_address[s], q, RegisteredIds(s), assigned[s])
    BY DEF HubInv, AttributionInv
  <2>3. transit'[s] = a
    BY <1>1
  <2>4. \A k \in 1..Len(q) : a[k] = Older(q[k])
    OBVIOUS
  <2> HIDE DEF q, Older
  <2>5. a \in Seq(AnyRecord) /\ Len(a) = Len(q)
    <3>1. \A k \in 1..Len(q) : Older(q[k]) \in AnyRecord
      BY <2>1, <1>2
    <3>2. a \in [1..Len(q) -> AnyRecord]
      BY <3>1
    <3> HIDE DEF a
    <3> QED
      BY <2>1, <3>2
  <2> HIDE DEF a
  <2>6. \A k \in 1..Len(q) : a[k].kind = q[k].kind /\ a[k].id = q[k].id
            /\ a[k].tracker = q[k].tracker /\ (Announced(a[k]) => Announced(q[k]))
    BY <2>1, <2>4, <1>2
  <2>7. SourceInv(local_to_address[s], a, RegisteredIds(s), assigned[s])
    BY <2>1, <2>2, <2>5, <2>6, SourceAges
  <2> QED
    BY <2>3, <2>5, <2>7
<1>4. WireInv'
    BY <1>1, <1>3 DEF HubInv, WireInv
<1>5. AttributionInv'
    BY <1>1, <1>3 DEF AttributionInv, RegisteredIds
<1> QED
    BY <1>4, <1>5 DEF HubInv

LEMMA HubIngest ==
    ASSUME HubInv, NEW s \in Sources, Ingest(s)
    PROVE  HubInv'
<1>1. /\ transit[s] # <<>>
      /\ transit' = [transit EXCEPT ![s] = Tail(@)]
      /\ assigned' = assigned /\ registered' = registered
      /\ sequence' = sequence /\ sent' = sent
    BY DEF Ingest, IngestRegistration, IngestUnregistered, IngestAccepted, IngestRejected,
           ArriveData, Arrive
<1>2. \/ /\ Arrived(s).kind = "registration"
         /\ local_to_address' = [local_to_address EXCEPT ![s][Arrived(s).id] = Arrived(s).tracker]
      \/ /\ Arrived(s).kind = "data"
         /\ local_to_address' = local_to_address
    BY DEF Ingest, IngestRegistration, IngestUnregistered, IngestAccepted, IngestRejected,
           ArriveData, RegisteredAs
<1> DEFINE q == transit[s]
<1>3. q \in Seq(AnyRecord) /\ q # <<>>
    BY <1>1 DEF HubInv, WireInv
<1>4. Head(q) = q[1] /\ Arrived(s) = q[1] /\ q[1] \in AnyRecord /\ Tail(q) \in Seq(AnyRecord)
  <2>1. Head(q) = q[1]
    OBVIOUS
  <2>2. Head(q) \in AnyRecord /\ Tail(q) \in Seq(AnyRecord)
    BY <1>3, HeadTailProperties
  <2> QED
    BY <2>1, <2>2 DEF Arrived
<1>5. q[1].id \in LocalIds /\ q[1].tracker \in Trackers
    BY <1>4, RecordFields
<1>6. local_to_address' \in Tables
  <2>1. local_to_address \in Tables
    BY DEF HubInv, WireInv
  <2>2. ASSUME NEW i \in LocalIds, NEW t \in Trackers
        PROVE  [local_to_address EXCEPT ![s][i] = t] \in Tables
    BY <2>1 DEF Tables
  <2> QED
    BY <2>1, <2>2, <1>2, <1>4, <1>5
<1>7. \A i \in LocalIds :
          local_to_address'[s][i] = IF Names(q[1], i) THEN q[1].tracker ELSE local_to_address[s][i]
    BY <1>2, <1>4, <1>5 DEF HubInv, WireInv, Tables, Names
<1>8. \A o \in Sources : o # s => /\ transit'[o] = transit[o]
                                   /\ local_to_address'[o] = local_to_address[o]
    BY <1>1, <1>2 DEF HubInv, WireInv, Tables
<1>9. transit'[s] = Tail(q)
    BY <1>1 DEF HubInv, WireInv
<1>10. WireInv'
    BY <1>1, <1>4, <1>6 DEF HubInv, WireInv
<1>11. ASSUME NEW o \in Sources
       PROVE  SourceInv(local_to_address'[o], transit'[o], RegisteredIds(o), assigned[o])
  <2>1. SourceInv(local_to_address[o], transit[o], RegisteredIds(o), assigned[o])
    BY DEF HubInv, AttributionInv
  <2>2. CASE o = s
    <3>1. SourceInv(local_to_address[s], q, RegisteredIds(s), assigned[s])
      BY <2>1, <2>2
    <3>2. RegisteredIds(s) \in SUBSET LocalIds
      BY DEF RegisteredIds
    <3> HIDE DEF q
    <3>3. SourceInv(local_to_address'[s], Tail(q), RegisteredIds(s), assigned[s])
      BY <3>1, <3>2, <1>3, <1>7, SourceReceives
    <3> QED
      BY <2>2, <3>3, <1>9
  <2>3. CASE o # s
    BY <2>1, <2>3, <1>8
  <2> QED
    BY <2>2, <2>3
<1>12. AttributionInv'
    BY <1>1, <1>11 DEF AttributionInv, RegisteredIds
<1> QED
    BY <1>10, <1>12 DEF HubInv

LEMMA HubStep == HubInv /\ [Next]_vars => HubInv'
<1> SUFFICES ASSUME HubInv, [Next]_vars PROVE HubInv'
    OBVIOUS
<1>1. CASE \E t \in Trackers, hearing \in SUBSET Sources : Broadcast(t, hearing)
    BY <1>1, HubBroadcast
<1>2. ASSUME NEW t \in Trackers, TrackerRestart(t) PROVE HubInv'
  <2>1. /\ sequence' = [sequence EXCEPT ![t] = 0] /\ sent' = sent
        /\ local_to_address' = local_to_address /\ assigned' = assigned
        /\ registered' = registered /\ transit' = transit
    BY <1>2 DEF TrackerRestart
  <2>2. WireInv'
    BY <2>1 DEF HubInv, WireInv
  <2>3. AttributionInv'
    BY <2>1 DEF HubInv, AttributionInv, RegisteredIds
  <2> QED
    BY <2>2, <2>3 DEF HubInv
<1>3. CASE \E s \in Sources, id \in LocalIds : Announce(s, id)
    BY <1>3, HubAnnounce
<1>4. CASE \E s \in Sources, id \in LocalIds, t \in Trackers : Reassign(s, id, t)
    BY <1>4, HubReassign
<1>5. CASE Tick
    BY <1>5, HubTick
<1>6. CASE \E s \in Sources : Ingest(s)
    BY <1>6, HubIngest
<1>7. CASE UNCHANGED vars
  <2>1. /\ sequence' = sequence /\ sent' = sent
        /\ local_to_address' = local_to_address /\ assigned' = assigned
        /\ registered' = registered /\ transit' = transit
    BY <1>7 DEF vars, receivers
  <2>2. WireInv'
    BY <2>1 DEF HubInv, WireInv
  <2>3. AttributionInv'
    BY <2>1 DEF HubInv, AttributionInv, RegisteredIds
  <2> QED
    BY <2>2, <2>3 DEF HubInv
<1> QED
    BY <1>1, <1>2, <1>3, <1>4, <1>5, <1>6, <1>7 DEF Next

\* The records a receiver sends under an id it has announced are given to the tracker that
\* has the id then, although the hub knew it as another one's and further registrations
\* of the same id may be on their way behind them.
THEOREM RecordsOfAnnouncedIds == Spec => []AnnouncedAttributed
<1>1. HubInv => AnnouncedAttributed
  <2> SUFFICES ASSUME HubInv, NEW s \in Sources, transit[s] # <<>>,
                      Arrived(s).kind = "data", Arrived(s).announced
               PROVE  Address(s) = Arrived(s).tracker
    BY DEF AnnouncedAttributed
  <2>1. transit[s] \in Seq(AnyRecord) /\ 1 \in 1..Len(transit[s])
    BY EmptySeq DEF HubInv, WireInv
  <2>2. Arrived(s) = transit[s][1] /\ Announced(transit[s][1])
    BY DEF Arrived, Announced
  <2>3. KnownAs(local_to_address[s], transit[s], 1 - 1, transit[s][1].id, transit[s][1].tracker)
    BY <2>1, <2>2 DEF HubInv, AttributionInv, SourceInv
  <2>4. local_to_address[s][transit[s][1].id] = transit[s][1].tracker
    BY <2>3, KnownNow
  <2> QED
    BY <2>2, <2>4 DEF Address
<1> QED
    BY HubInit, HubStep, <1>1, PTL DEF Spec

-----------------------------------------------------------------------------
(* Types *)

OnTheWay(s) == {transit[s][k] : k \in 1..Len(transit[s])}

Older(r) == [r EXCEPT !.age = @ + 1]

LEMMA Fields ==
    ASSUME NEW r \in Records
    PROVE  /\ r.kind \in {"registration", "data"}
           /\ r.id \in LocalIds /\ r.tracker \in Trackers /\ r.age \in 0..MaxDelay
           /\ r.kind = "data" => r.sequence \in 0..(Modulus - 1) /\ r.number \in 1..MaxPackets
BY DEF Records

LEMMA OlderRecord ==
    ASSUME NEW r \in Records, r.age < MaxDelay
    PROVE  /\ Older(r) \in Records
           /\ Older(r).kind = r.kind /\ Older(r).tracker = r.tracker /\ Older(r).age = r.age + 1
           /\ r.kind = "data" => Older(r).sequence = r.sequence /\ Older(r).number = r.number
<1>1. MaxDelay \in Nat /\ \A a \in 0..MaxDelay : a < MaxDelay => a + 1 \in 0..MaxDelay
    BY HubConstants
<1>2. CASE r \in [kind : {"registration"}, id : LocalIds, tracker : Trackers, age : 0..MaxDelay]
    BY <1>1, <1>2 DEF Records, Older
<1>3. CASE r \in [kind : {"data"}, id : LocalIds, tracker : Trackers, age : 0..MaxDelay,
                  sequence : 0..(Modulus - 1), number : 1..MaxPackets, announced : BOOLEAN]
    BY <1>1, <1>3 DEF Records, Older
<1> QED
    BY <1>2, <1>3 DEF Records

TypeInv == TypeOK /\ \A t \in Trackers : sent[t] <= broadcasts

LEMMA Sizes ==
    /\ MaxDelay \in Nat /\ ResetAfter \in Nat /\ Off \in Nat /\ Modulus \in Nat
    /\ MaxPackets \in Nat /\ MaxReassigned \in Nat
    /\ Off = ResetAfter + MaxDelay /\ MaxDelay < ResetAfter
    /\ Off + Off <= Modulus /\ Off < Modulus /\ 0 < Off
BY HubConstants, DelayAssumption DEF Off

LEMMA TypesInit == Init => TypeInv
<1> SUFFICES ASSUME Init PROVE TypeInv
    OBVIOUS
<1>1. transit \in [Sources -> Seq(Records)]
    BY EmptySeq DEF Init
<1>2. /\ local_to_address \in Tables
      /\ gate \in [Trackers -> States \union {Unknown}]
    BY DEF Init, Tables
<1>3. /\ sequence \in [Trackers -> 0..(Modulus - 1)] /\ quiet \in [Trackers -> 0..Off]
      /\ sent \in [Trackers -> 0..MaxPackets] /\ passed \in [Trackers -> 0..MaxPackets]
      /\ heard \in [Trackers -> 0..MaxPackets]
      /\ broadcasts \in 0..MaxPackets /\ reassigned \in 0..MaxReassigned
    BY Sizes, HubConstants DEF Init
<1>4. \A t \in Trackers : sent[t] <= broadcasts
    BY DEF Init
<1> QED
    BY <1>1, <1>2, <1>3, <1>4 DEF Init, TypeInv, TypeOK, Tables

LEMMA NextSequenceType == \A n \in 0..(Modulus - 1) : NextSequence(n) \in 0..(Modulus - 1)
BY HubConstants DEF NextSequence

\* A broadcast adds the same packet to the records of those who hear it.
LEMMA BroadcastRecords ==
    ASSUME TypeInv, NEW t \in Trackers, NEW hearing \in SUBSET Sources, Broadcast(t, hearing)
    PROVE  /\ transit' \in [Sources -> Seq(Records)]
           /\ \A s \in Sources : \A r \in OnTheWay(s)' :
                 \/ r \in OnTheWay(s)
                 \/ /\ r.kind = "data" /\ r.tracker = t /\ r.age = 0
                    /\ r.sequence = sequence[t] /\ r.number = sent[t] + 1
<1>1. PICK id \in [hearing -> LocalIds] :
        transit' = [s \in Sources |->
            IF s \notin hearing THEN transit[s]
            ELSE Append(transit[s], [kind |-> "data", id |-> id[s], tracker |-> t, age |-> 0,
                                     sequence |-> sequence[t], number |-> sent'[t],
                                     announced |-> <<s, id[s]>> \in registered])]
    BY DEF Broadcast
<1>2. sent'[t] = sent[t] + 1 /\ sent[t] + 1 \in 1..MaxPackets
  <2>1. sent[t] \in Nat /\ sent[t] <= broadcasts /\ broadcasts \in Nat /\ broadcasts < MaxPackets
    BY DEF TypeInv, TypeOK, Broadcast
  <2>2. sent' = [sent EXCEPT ![t] = @ + 1]
    BY DEF Broadcast
  <2> QED
    BY <2>1, <2>2, Sizes DEF TypeInv, TypeOK
<1>3. sequence[t] \in 0..(Modulus - 1)
    BY DEF TypeInv, TypeOK
<1>4. ASSUME NEW s \in Sources
      PROVE  /\ transit'[s] \in Seq(Records)
             /\ \A r \in OnTheWay(s)' :
                 \/ r \in OnTheWay(s)
                 \/ /\ r.kind = "data" /\ r.tracker = t /\ r.age = 0
                    /\ r.sequence = sequence[t] /\ r.number = sent[t] + 1
  <2>1. transit[s] \in Seq(Records)
    BY DEF TypeInv, TypeOK
  <2>2. CASE s \notin hearing
    BY <1>1, <2>1, <2>2 DEF OnTheWay
  <2>3. CASE s \in hearing
    <3> DEFINE b == <<s, id[s]>> \in registered
               e == [kind |-> "data", id |-> id[s], tracker |-> t, age |-> 0,
                     sequence |-> sequence[t], number |-> sent'[t], announced |-> b]
    <3>1. transit'[s] = Append(transit[s], e)
      BY <1>1, <2>3
    <3>2. b \in BOOLEAN /\ id[s] \in LocalIds /\ 0 \in 0..MaxDelay
      BY <2>3, Sizes
    <3> HIDE DEF b
    <3>3. e \in Records
      BY <1>2, <1>3, <3>2 DEF Records
    <3>4. /\ e.kind = "data" /\ e.tracker = t /\ e.age = 0
          /\ e.sequence = sequence[t] /\ e.number = sent[t] + 1
      BY <1>2
    <3> HIDE DEF e
    <3>5. /\ Append(transit[s], e) \in Seq(Records)
          /\ Len(Append(transit[s], e)) = Len(transit[s]) + 1
          /\ \A k \in 1..Len(transit[s]) : Append(transit[s], e)[k] = transit[s][k]
          /\ Append(transit[s], e)[Len(transit[s]) + 1] = e
      BY <2>1, <3>3, AppendProperties
    <3>6. \A k \in 1..(Len(transit[s]) + 1) : k \in 1..Len(transit[s]) \/ k = Len(transit[s]) + 1
      BY <2>1, LenProperties
    <3>7. \A r \in OnTheWay(s)' : r \in OnTheWay(s) \/ r = e
      BY <3>1, <3>5, <3>6 DEF OnTheWay
    <3> QED
      BY <3>1, <3>4, <3>5, <3>7
  <2> QED
    BY <2>2, <2>3
<1>5. transit' \in [Sources -> Seq(Records)]
    BY <1>1, <1>4
<1> QED
    BY <1>4, <1>5

LEMMA AnnounceRecords ==
    ASSUME TypeInv, NEW s \in Sources, NEW id \in LocalIds, Announce(s, id)
    PROVE  /\ transit' \in [Sources -> Seq(Records)]
           /\ \A o \in Sources : \A r \in OnTheWay(o)' :
                 r \in OnTheWay(o) \/ r.kind = "registration"
<1> DEFINE e == [kind |-> "registration", id |-> id, tracker |-> assigned[s][id], age |-> 0]
<1>1. transit' = [transit EXCEPT ![s] = Append(@, e)] /\ assigned[s][id] # NoTracker
    BY DEF Announce
<1>2. assigned[s][id] \in Trackers /\ 0 \in 0..MaxDelay
    BY <1>1, Sizes DEF TypeInv, TypeOK
<1>3. e \in Records /\ e.kind = "registration"
    BY <1>2 DEF Records
<1> HIDE DEF e
<1>4. transit \in [Sources -> Seq(Records)]
    BY DEF TypeInv, TypeOK
<1>5. /\ Append(transit[s], e) \in Seq(Records)
      /\ Len(Append(transit[s], e)) = Len(transit[s]) + 1
      /\ \A k \in 1..Len(transit[s]) : Append(transit[s], e)[k] = transit[s][k]
      /\ Append(transit[s], e)[Len(transit[s]) + 1] = e
    BY <1>3, <1>4, AppendProperties
<1>6. \A k \in 1..(Len(transit[s]) + 1) : k \in 1..Len(transit[s]) \/ k = Len(transit[s]) + 1
    BY <1>4, LenProperties
<1>7. transit'[s] = Append(transit[s], e) /\ \A o \in Sources : o # s => transit'[o] = transit[o]
    BY <1>1, <1>4
<1>8. ASSUME NEW o \in Sources, NEW r \in OnTheWay(o)'
      PROVE  r \in OnTheWay(o) \/ r.kind = "registration"
    BY <1>3, <1>5, <1>6, <1>7, <1>8 DEF OnTheWay
<1> QED
    BY <1>1, <1>4, <1>5, <1>8

LEMMA TickRecords ==
    ASSUME TypeInv, Tick
    PROVE  /\ transit' \in [Sources -> Seq(Records)]
           /\ \A s \in Sources : \A r \in OnTheWay(s)' :
                 \E e \in OnTheWay(s) : e.age < MaxDelay /\ r = Older(e)
<1>1. transit' = [s \in Sources |-> [k \in 1..Len(transit[s]) |-> Older(transit[s][k])]]
    BY DEF Tick, Older
<1>2. ASSUME NEW s \in Sources
      PROVE  /\ transit'[s] \in Seq(Records)
             /\ \A r \in OnTheWay(s)' : \E e \in OnTheWay(s) : e.age < MaxDelay /\ r = Older(e)
  <2> DEFINE q == transit[s]
             a == [k \in 1..Len(q) |-> Older(q[k])]
  <2>1. q \in Seq(Records) /\ Len(q) \in Nat /\ \A k \in 1..Len(q) : q[k] \in Records
    BY LenProperties DEF TypeInv, TypeOK
  <2>2. \A k \in 1..Len(q) : q[k].age < MaxDelay
    BY DEF Tick
  <2>3. transit'[s] = a
    BY <1>1
  <2> HIDE DEF q
  <2>4. \A k \in 1..Len(q) : Older(q[k]) \in Records
    BY <2>1, <2>2, OlderRecord
  <2>5. a \in [1..Len(q) -> Records] /\ \A k \in 1..Len(q) : a[k] = Older(q[k])
    BY <2>4
  <2> HIDE DEF a
  <2>6. a \in Seq(Records) /\ Len(a) = Len(q)
    BY <2>1, <2>5
  <2> QED
    BY <2>2, <2>3, <2>5, <2>6 DEF OnTheWay, q
<1> QED
    BY <1>1, <1>2

LEMMA IngestRecords ==
    ASSUME TypeInv, NEW s \in Sources, Arrive(s)
    PROVE  /\ transit' \in [Sources -> Seq(Records)]
           /\ Arrived(s) \in OnTheWay(s) /\ Arrived(s) \in Records
           /\ \A o \in Sources : OnTheWay(o)' \subseteq OnTheWay(o)
<1>1. transit[s] # <<>> /\ transit' = [transit EXCEPT ![s] = Tail(@)]
    BY DEF Arrive
<1>2. transit \in [Sources -> Seq(Records)]
    BY DEF TypeInv, TypeOK
<1>3. /\ Len(transit[s]) \in Nat \ {0} /\ Tail(transit[s]) \in Seq(Records)
      /\ Len(Tail(transit[s])) = Len(transit[s]) - 1
      /\ \A k \in 1..(Len(transit[s]) - 1) : Tail(transit[s])[k] = transit[s][k + 1]
    BY <1>1, <1>2, HeadTailProperties, EmptySeq, LenProperties
<1>4. Arrived(s) = transit[s][1] /\ 1 \in 1..Len(transit[s]) /\ transit[s][1] \in Records
  <2>1. Head(transit[s]) = transit[s][1]
    OBVIOUS
  <2> QED
    BY <1>2, <1>3, <2>1 DEF Arrived
<1>5. transit'[s] = Tail(transit[s]) /\ \A o \in Sources : o # s => transit'[o] = transit[o]
    BY <1>1, <1>2
<1>6. ASSUME NEW r \in OnTheWay(s)' PROVE r \in OnTheWay(s)
  <2>1. PICK k \in 1..(Len(transit[s]) - 1) : r = Tail(transit[s])[k]
    BY <1>3, <1>5 DEF OnTheWay
  <2>2. k + 1 \in 1..Len(transit[s]) /\ r = transit[s][k + 1]
    BY <1>3, <2>1
  <2> QED
    BY <2>2 DEF OnTheWay
<1>7. \A o \in Sources : OnTheWay(o)' \subseteq OnTheWay(o)
    BY <1>5, <1>6 DEF OnTheWay
<1> QED
    BY <1>1, <1>2, <1>3, <1>4, <1>7 DEF OnTheWay

LEMMA TypesBroadcast ==
    ASSUME TypeInv, NEW t \in Trackers, NEW hearing \in SUBSET Sources, Broadcast(t, hearing)
    PROVE  TypeInv'
<1>1. /\ sent' = [sent EXCEPT ![t] = @ + 1] /\ broadcasts' = broadcasts + 1
      /\ sequence' = [sequence EXCEPT ![t] = NextSequence(@)]
      /\ quiet' = [quiet EXCEPT ![t] = 0]
      /\ UNCHANGED <<local_to_address, gate, assigned, registered, reassigned, ghosts>>
      /\ broadcasts < MaxPackets
    BY DEF Broadcast
<1>2. /\ broadcasts \in 0..MaxPackets /\ sent \in [Trackers -> 0..MaxPackets]
      /\ \A o \in Trackers : sent[o] <= broadcasts
      /\ sequence \in [Trackers -> 0..(Modulus - 1)] /\ quiet \in [Trackers -> 0..Off]
    BY DEF TypeInv, TypeOK
<1>3. transit' \in [Sources -> Seq(Records)]
    BY BroadcastRecords
<1>4. broadcasts' \in 0..MaxPackets
    BY <1>1, <1>2, Sizes
<1>5. sent' \in [Trackers -> 0..MaxPackets] /\ \A o \in Trackers : sent'[o] <= broadcasts'
    BY <1>1, <1>2, Sizes
<1>6. sequence' \in [Trackers -> 0..(Modulus - 1)]
    BY <1>1, <1>2, NextSequenceType
<1>7. quiet' \in [Trackers -> 0..Off]
    BY <1>1, <1>2, Sizes
<1> QED
    BY <1>1, <1>3, <1>4, <1>5, <1>6, <1>7 DEF TypeInv, TypeOK, ghosts

LEMMA StateAged ==
    ASSUME NEW g \in States, NEW a \in 0..ResetAfter
    PROVE  /\ [g EXCEPT !.age = a] \in States
           /\ [g EXCEPT !.age = a].known
           /\ [g EXCEPT !.age = a].sequence = g.sequence /\ [g EXCEPT !.age = a].age = a
BY DEF States

LEMMA StateFields ==
    ASSUME NEW g \in States
    PROVE  g.known /\ g.sequence \in 0..(Modulus - 1) /\ g.age \in 0..ResetAfter
BY DEF States

LEMMA TypesTick ==
    ASSUME TypeInv, Tick
    PROVE  TypeInv'
<1>1. /\ quiet' = [t \in Trackers |-> IF quiet[t] < Off THEN quiet[t] + 1 ELSE Off]
      /\ gate' = [t \in Trackers |->
            IF gate[t].known /\ gate[t].age < ResetAfter THEN [gate[t] EXCEPT !.age = @ + 1]
                                                         ELSE gate[t]]
      /\ UNCHANGED <<local_to_address, assigned, registered, sequence, sent, broadcasts,
                     reassigned, ghosts>>
    BY DEF Tick
<1>2. quiet' \in [Trackers -> 0..Off]
  <2>1. \A t \in Trackers : quiet[t] \in 0..Off
    BY DEF TypeInv, TypeOK
  <2>2. \A t \in Trackers : (IF quiet[t] < Off THEN quiet[t] + 1 ELSE Off) \in 0..Off
    BY <2>1, Sizes
  <2> QED
    BY <1>1, <2>2
<1>3. gate' \in [Trackers -> States \union {Unknown}]
  <2>1. ASSUME NEW g \in States, g.age < ResetAfter PROVE [g EXCEPT !.age = @ + 1] \in States
    <3>1. g.age \in 0..ResetAfter
      BY StateFields
    <3>2. g.age + 1 \in 0..ResetAfter
      BY <2>1, <3>1, Sizes
    <3> QED
      BY <3>2, StateAged
  <2>2. ASSUME NEW t \in Trackers, gate[t].known PROVE gate[t] \in States
    BY <2>2 DEF TypeInv, TypeOK, Unknown
  <2>3. \A t \in Trackers : (IF gate[t].known /\ gate[t].age < ResetAfter
                             THEN [gate[t] EXCEPT !.age = @ + 1] ELSE gate[t])
                                \in States \union {Unknown}
    BY <2>1, <2>2 DEF TypeInv, TypeOK
  <2> QED
    BY <1>1, <2>3
<1> QED
    BY <1>1, <1>2, <1>3, TickRecords DEF TypeInv, TypeOK, ghosts

\* What an ingest does to the gate and to the ghosts.
LEMMA IngestEffect ==
    ASSUME TypeInv, NEW s \in Sources, Ingest(s)
    PROVE  /\ Arrive(s)
           /\ \/ UNCHANGED <<gate, ghosts>>
              \/ /\ Arrived(s).kind = "data" /\ Address(s) \in Trackers
                 /\ \/ /\ Fresh(Address(s), Arrived(s).sequence)
                       /\ gate' = [gate EXCEPT ![Address(s)] = Previous(Arrived(s).sequence)]
                       /\ Noted(s, TRUE)
                    \/ /\ ~ Fresh(Address(s), Arrived(s).sequence)
                       /\ gate' = [gate EXCEPT ![Address(s)].age = 0]
                       /\ Noted(s, FALSE)
           /\ \/ local_to_address' = local_to_address
              \/ local_to_address' = RegisteredAs(s, Arrived(s).id, Arrived(s).tracker)
<1>1. Arrive(s)
    BY DEF Ingest, IngestRegistration, IngestUnregistered, IngestAccepted, IngestRejected, ArriveData
<1>2. Arrived(s).id \in LocalIds
    BY <1>1, IngestRecords, Fields
<1>3. Address(s) # NoTracker => Address(s) \in Trackers
    BY <1>2 DEF Address, TypeInv, TypeOK
<1> QED
    BY <1>1, <1>3 DEF Ingest, IngestRegistration, IngestUnregistered, IngestAccepted,
                      IngestRejected, ArriveData

LEMMA TypesIngest ==
    ASSUME TypeInv, NEW s \in Sources, Ingest(s)
    PROVE  TypeInv'
<1> DEFINE t == Arrived(s).tracker
           n == Arrived(s).number
<1>1. /\ Arrive(s)
      /\ UNCHANGED <<assigned, registered, sequence, quiet, sent, broadcasts, reassigned>>
    BY IngestEffect DEF Arrive
<1>2. Arrived(s) \in Records /\ transit' \in [Sources -> Seq(Records)]
    BY <1>1, IngestRecords
<1>3. /\ Arrived(s).id \in LocalIds /\ t \in Trackers
      /\ Arrived(s).kind = "data" => Arrived(s).sequence \in 0..(Modulus - 1) /\ n \in 1..MaxPackets
    BY <1>2, Fields
<1>4. local_to_address' \in Tables
  <2>1. local_to_address \in Tables
    BY DEF TypeInv, TypeOK, Tables
  <2>2. ASSUME NEW i \in LocalIds, NEW o \in Trackers
        PROVE  [local_to_address EXCEPT ![s][i] = o] \in Tables
    BY <2>1 DEF Tables
  <2> QED
    <3>1. \/ local_to_address' = local_to_address
          \/ local_to_address' = [local_to_address EXCEPT ![s][Arrived(s).id] = t]
      BY IngestEffect DEF RegisteredAs
    <3> QED
      BY <1>3, <2>1, <2>2, <3>1
<1>5. /\ gate \in [Trackers -> States \union {Unknown}]
      /\ passed \in [Trackers -> 0..MaxPackets] /\ heard \in [Trackers -> 0..MaxPackets]
      /\ repeated \subseteq Trackers /\ confused \in BOOLEAN
    BY DEF TypeInv, TypeOK
<1>6. /\ gate' \in [Trackers -> States \union {Unknown}]
      /\ passed' \in [Trackers -> 0..MaxPackets] /\ heard' \in [Trackers -> 0..MaxPackets]
      /\ repeated' \subseteq Trackers /\ confused' \in BOOLEAN
  <2>1. CASE UNCHANGED <<gate, ghosts>>
    BY <1>5, <2>1 DEF ghosts
  <2>2. ASSUME NEW pass \in BOOLEAN, Noted(s, pass), Arrived(s).kind = "data"
        PROVE  /\ passed' \in [Trackers -> 0..MaxPackets] /\ heard' \in [Trackers -> 0..MaxPackets]
               /\ repeated' \subseteq Trackers /\ confused' \in BOOLEAN
    <3>1. n \in 0..MaxPackets
      BY <1>3, <2>2, Sizes
    <3> HIDE DEF n, t
    <3>2. /\ heard' = [heard EXCEPT ![t] = IF n > @ THEN n ELSE @]
          /\ passed' = IF pass THEN [passed EXCEPT ![t] = n] ELSE passed
          /\ repeated' = IF pass /\ n <= passed[t] THEN repeated \union {t} ELSE repeated
          /\ confused' = (confused \/ Address(s) # t)
      BY <2>2 DEF Noted, n, t
    <3> QED
      BY <1>3, <1>5, <3>1, <3>2
  <2>3. ASSUME NEW o \in Trackers, Fresh(o, Arrived(s).sequence), Arrived(s).kind = "data",
               gate' = [gate EXCEPT ![o] = Previous(Arrived(s).sequence)]
        PROVE  gate' \in [Trackers -> States \union {Unknown}]
    <3>1. Previous(Arrived(s).sequence) \in States
      BY <1>3, <2>3, Sizes DEF Previous, States
    <3> QED
      BY <1>5, <2>3, <3>1
  <2>4. ASSUME NEW o \in Trackers, ~ Fresh(o, Arrived(s).sequence),
               gate' = [gate EXCEPT ![o].age = 0]
        PROVE  gate' \in [Trackers -> States \union {Unknown}]
    <3>1. gate[o] \in States
      BY <1>5, <2>4 DEF Fresh, Unknown
    <3>2. [gate[o] EXCEPT !.age = 0] \in States
      <4>1. 0 \in 0..ResetAfter
        BY Sizes
      <4> QED
        BY <3>1, <4>1, StateAged
    <3> QED
      BY <1>5, <2>4, <3>2
  <2> QED
    BY <2>1, <2>2, <2>3, <2>4, IngestEffect
<1> QED
    BY <1>1, <1>2, <1>4, <1>6 DEF TypeInv, TypeOK, Tables

LEMMA TypesStep == TypeInv /\ [Next]_vars => TypeInv'
<1> SUFFICES ASSUME TypeInv, [Next]_vars PROVE TypeInv'
    OBVIOUS
<1>1. CASE \E t \in Trackers, hearing \in SUBSET Sources : Broadcast(t, hearing)
    BY <1>1, TypesBroadcast
<1>2. ASSUME NEW t \in Trackers, TrackerRestart(t) PROVE TypeInv'
  <2>1. 0 \in 0..(Modulus - 1)
    BY HubConstants
  <2> QED
    BY <1>2, <2>1 DEF TrackerRestart, TypeInv, TypeOK, ghosts
<1>3. ASSUME NEW s \in Sources, NEW id \in LocalIds, Announce(s, id) PROVE TypeInv'
  <2>1. transit' \in [Sources -> Seq(Records)]
    BY <1>3, AnnounceRecords
  <2>2. registered' \subseteq Sources \X LocalIds
    BY <1>3 DEF Announce, TypeInv, TypeOK
  <2> QED
    BY <1>3, <2>1, <2>2 DEF Announce, TypeInv, TypeOK, ghosts
<1>4. ASSUME NEW s \in Sources, NEW id \in LocalIds, NEW t \in Trackers, Reassign(s, id, t)
      PROVE  TypeInv'
  <2>1. assigned' \in [Sources -> [LocalIds -> Trackers \union {NoTracker}]]
    BY <1>4 DEF Reassign, TypeInv, TypeOK
  <2>2. reassigned' \in 0..MaxReassigned
    BY <1>4, Sizes DEF Reassign, TypeInv, TypeOK
  <2> QED
    BY <1>4, <2>1, <2>2 DEF Reassign, TypeInv, TypeOK, ghosts
<1>5. CASE Tick
    BY <1>5, TypesTick
<1>6. CASE \E s \in Sources : Ingest(s)
    BY <1>6, TypesIngest
<1>7. CASE UNCHANGED vars
    BY <1>7 DEF vars, receivers, ghosts, TypeInv, TypeOK
<1> QED
    BY <1>1, <1>2, <1>3, <1>4, <1>5, <1>6, <1>7 DEF Next

\* The hub, its gate and the receivers keep their types: an age never exceeds what the
\* gate looks at, and a stale record only touches the gate of a tracker it knows.
THEOREM HubTypes == Spec => []TypeOK
<1>1. TypeInv => TypeOK
    BY DEF TypeInv
<1> QED
    BY <1>1, TypesInit, TypesStep, PTL DEF Spec

-----------------------------------------------------------------------------
(* Sequence numbers and time *)

\* The sequence number d broadcasts after q.
Later(q, d) == IF q + d < Modulus THEN q + d ELSE q + d - Modulus

\* The broadcast n of a tracker had the sequence number q and was at most w ago, if the
\* tracker's last broadcast was `last', `silence' ago, and it numbers the next one `next'.
Recent(n, q, w, last, next, silence) ==
    /\ n \in 1..last
    /\ (last - n) + silence <= w
    /\ next = Later(q, last - n + 1)

LEMMA Wrapped ==
    ASSUME NEW n \in Nat, NEW m \in Nat, m > 0, n < m + m
    PROVE  n % m = IF n < m THEN n ELSE n - m
<1>1. CASE n < m
    BY <1>1
<1>2. CASE n >= m
    BY <1>2
<1> QED
    BY <1>1, <1>2

LEMMA NextIsLater ==
    ASSUME NEW q \in 0..(Modulus - 1)
    PROVE  NextSequence(q) = Later(q, 1)
<1>1. Modulus \in Nat /\ Modulus > 0 /\ q \in Nat /\ q < Modulus
    BY HubConstants
<1>2. CASE q + 1 < Modulus
    BY <1>1, <1>2 DEF NextSequence, Later
<1>3. CASE q + 1 = Modulus
    BY <1>1, <1>3 DEF NextSequence, Later
<1> QED
    BY <1>1, <1>2, <1>3

LEMMA RecentAfterBroadcast ==
    ASSUME NEW n \in Nat, NEW q \in 0..(Modulus - 1), NEW w \in Nat, w < Off,
           NEW last \in Nat, NEW next \in 0..(Modulus - 1), NEW silence \in Nat, silence >= 1,
           Recent(n, q, w, last, next, silence)
    PROVE  Recent(n, q, w, last + 1, NextSequence(next), 0)
<1> DEFINE d == last - n + 1
<1>1. d \in Nat /\ d + 1 < Modulus /\ d <= w
    BY Sizes DEF Recent
<1>2. next = Later(q, d) /\ NextSequence(next) = Later(next, 1)
    BY NextIsLater DEF Recent
<1>3. (last + 1) - n + 1 = d + 1 /\ n \in 1..(last + 1) /\ (last + 1) - n = d
    BY DEF Recent
<1> HIDE DEF d
<1>4. Later(next, 1) = Later(q, d + 1)
    BY <1>1, <1>2, Sizes DEF Later
<1> QED
    BY <1>1, <1>2, <1>3, <1>4 DEF Recent

LEMMA RecentOfNew ==
    ASSUME NEW last \in Nat, NEW next \in 0..(Modulus - 1)
    PROVE  Recent(last + 1, next, 0, last + 1, NextSequence(next), 0)
<1>1. (last + 1) - (last + 1) = 0 /\ 0 + 1 = 1 /\ last + 1 \in 1..(last + 1)
    OBVIOUS
<1> QED
    BY <1>1, NextIsLater DEF Recent

LEMMA RecentSilence ==
    ASSUME NEW n, NEW q, NEW w \in Nat, NEW last \in Nat, NEW next, NEW silence \in Nat,
           Recent(n, q, w, last, next, silence)
    PROVE  silence <= w
BY DEF Recent

LEMMA RecentInAWhile ==
    ASSUME NEW n, NEW q, NEW w \in Nat, NEW last \in Nat, NEW next, NEW silence \in Nat,
           Recent(n, q, w, last, next, silence)
    PROVE  /\ Recent(n, q, w + 1, last, next, silence + 1)
           /\ \A v \in Nat : w <= v => Recent(n, q, v, last, next, silence)
BY DEF Recent

LEMMA GapOfNumbers ==
    ASSUME NEW M \in Nat, NEW a \in Nat, NEW b \in Nat, NEW x \in Nat, NEW y \in Nat,
           a < M, b < M, x < M, y < M,
           (IF b + x < M THEN b + x ELSE b + x - M) = (IF a + y < M THEN a + y ELSE a + y - M)
    PROVE  (IF b >= a THEN b - a ELSE b + M - a) = (IF x <= y THEN y - x ELSE M - (x - y))
<1>1. CASE b + x < M /\ a + y < M
    BY <1>1
<1>2. CASE b + x < M /\ a + y >= M
    BY <1>2
<1>3. CASE b + x >= M /\ a + y < M
    BY <1>3
<1>4. CASE b + x >= M /\ a + y >= M
    BY <1>4
<1> QED
    BY <1>1, <1>2, <1>3, <1>4

\* The gate's test tells the broadcasts after p from p and those before, if all are recent.
LEMMA AheadMeansLater ==
    ASSUME NEW m \in Nat, NEW p \in Nat, NEW b \in 0..(Modulus - 1), NEW a \in 0..(Modulus - 1),
           NEW v \in Nat, v < Off, NEW w \in Nat, w < Off,
           NEW last \in Nat, NEW next, NEW silence \in Nat,
           Recent(m, b, v, last, next, silence), Recent(p, a, w, last, next, silence)
    PROVE  (b + Modulus - a) % Modulus \in 1..(Modulus \div 2 - 1) <=> m > p
<1> DEFINE x == last - m + 1
           y == last - p + 1
           h == Modulus \div 2
           g == (b + Modulus - a) % Modulus
<1>1. /\ x \in Nat /\ y \in Nat /\ x >= 1 /\ y >= 1 /\ x <= Off /\ y <= Off
      /\ (m > p <=> x < y)
      /\ Later(b, x) = Later(a, y)
    BY Sizes DEF Recent
<1>2. h \in Nat /\ h + h <= Modulus /\ Modulus <= h + h + 1
    BY Sizes
<1>3. g = IF b >= a THEN b - a ELSE b + Modulus - a
  <2> DEFINE n == b + Modulus - a
  <2>1. n \in Nat /\ n < Modulus + Modulus /\ Modulus > 0 /\ Modulus \in Nat
        /\ (n < Modulus <=> b < a) /\ n - Modulus = b - a
    BY Sizes
  <2> HIDE DEF n
  <2>2. n % Modulus = IF n < Modulus THEN n ELSE n - Modulus
    BY <2>1, Wrapped
  <2> QED
    BY <2>1, <2>2 DEF n
<1> HIDE DEF x, y, h, g
<1>4. Off <= h
    BY <1>2, Sizes
<1>5. g = IF x <= y THEN y - x ELSE Modulus - (x - y)
  <2>1. x < Modulus /\ y < Modulus /\ Modulus \in Nat
    BY <1>1, Sizes
  <2>2. a \in Nat /\ b \in Nat /\ a < Modulus /\ b < Modulus
    BY <2>1
  <2>3. (IF b + x < Modulus THEN b + x ELSE b + x - Modulus)
            = (IF a + y < Modulus THEN a + y ELSE a + y - Modulus)
    BY <1>1 DEF Later
  <2> QED
    BY <1>1, <1>3, <2>1, <2>2, <2>3, GapOfNumbers
<1>6. CASE x < y
  <2>1. g = y - x /\ y - x \in 1..(Off - 1)
    BY <1>1, <1>5, <1>6, Sizes
  <2>2. g \in 1..(h - 1)
    BY <1>2, <1>4, <2>1, Sizes
  <2> QED
    BY <1>1, <1>6, <2>2 DEF h, g
<1>7. CASE x >= y
  <2>1. g = 0 \/ g = Modulus - (x - y)
    BY <1>1, <1>5, <1>7
  <2>2. x - y \in Nat /\ x - y < Off
    BY <1>1, <1>7, Sizes
  <2>3. g \notin 1..(h - 1)
    BY <1>2, <1>4, <2>1, <2>2, Sizes
  <2> QED
    BY <1>1, <1>7, <2>3 DEF h, g
<1> QED
    BY <1>1, <1>6, <1>7

-----------------------------------------------------------------------------
(* The packets on their way *)

RecentOf(t, n, q, w) == Recent(n, q, w, sent[t], sequence[t], quiet[t])

\* A packet on its way is as recent as its age says.
AirInv ==
    \A s \in Sources : \A r \in OnTheWay(s) :
        r.kind = "data" => RecentOf(r.tracker, r.number, r.sequence, r.age)

LEMMA OnTheWayRecords ==
    ASSUME TypeInv
    PROVE  \A s \in Sources : OnTheWay(s) \subseteq Records
<1> SUFFICES ASSUME NEW s \in Sources, NEW k \in 1..Len(transit[s]) PROVE transit[s][k] \in Records
    BY DEF OnTheWay
<1>1. transit[s] \in Seq(Records)
    BY DEF TypeInv, TypeOK
<1> QED
    BY <1>1, LenProperties

LEMMA TrackerTypes ==
    ASSUME TypeInv, NEW t \in Trackers
    PROVE  /\ sent[t] \in Nat /\ sequence[t] \in 0..(Modulus - 1)
           /\ quiet[t] \in Nat /\ quiet[t] <= Off
           /\ passed[t] \in Nat /\ heard[t] \in Nat
           /\ gate[t].known => gate[t] \in States
BY Sizes DEF TypeInv, TypeOK, Unknown

\* What is recent stays so when its tracker sends, and ages when time passes.
LEMMA RecentAfterSending ==
    ASSUME TypeInv, NEW t \in Trackers, NEW hearing \in SUBSET Sources, Broadcast(t, hearing),
           NEW o \in Trackers, NEW n \in Nat, NEW q \in 0..(Modulus - 1), NEW w \in Nat, w < Off,
           RecentOf(o, n, q, w)
    PROVE  RecentOf(o, n, q, w)'
<1>1. /\ sent' = [sent EXCEPT ![t] = @ + 1]
      /\ sequence' = [sequence EXCEPT ![t] = NextSequence(@)]
      /\ quiet' = [quiet EXCEPT ![t] = 0]
      /\ quiet[t] >= 1
    BY DEF Broadcast
<1>2. CASE o = t
  <2>1. sent'[o] = sent[o] + 1 /\ sequence'[o] = NextSequence(sequence[o]) /\ quiet'[o] = 0
    BY <1>1, <1>2 DEF TypeInv, TypeOK
  <2>2. Recent(n, q, w, sent[o] + 1, NextSequence(sequence[o]), 0)
    BY <1>1, <1>2, TrackerTypes, RecentAfterBroadcast DEF RecentOf
  <2> QED
    BY <2>1, <2>2 DEF RecentOf
<1>3. CASE o # t
  <2>1. sent'[o] = sent[o] /\ sequence'[o] = sequence[o] /\ quiet'[o] = quiet[o]
    BY <1>1, <1>3 DEF TypeInv, TypeOK
  <2> QED
    BY <2>1 DEF RecentOf
<1> QED
    BY <1>2, <1>3

LEMMA RecentAfterTick ==
    ASSUME TypeInv, Tick,
           NEW o \in Trackers, NEW n \in Nat, NEW q, NEW w \in Nat, w < Off,
           RecentOf(o, n, q, w)
    PROVE  RecentOf(o, n, q, w + 1)'
<1>1. quiet[o] <= w /\ Recent(n, q, w + 1, sent[o], sequence[o], quiet[o] + 1)
    BY TrackerTypes, RecentInAWhile, RecentSilence DEF RecentOf
<1>2. quiet'[o] = quiet[o] + 1 /\ sent' = sent /\ sequence' = sequence
  <2>1. quiet[o] < Off
    BY <1>1, TrackerTypes, Sizes
  <2> QED
    BY <2>1 DEF Tick
<1> QED
    BY <1>1, <1>2 DEF RecentOf

LEMMA AirStep ==
    ASSUME TypeInv, AirInv, [Next]_vars
    PROVE  AirInv'
<1>1. ASSUME NEW s \in Sources, NEW r \in OnTheWay(s), r.kind = "data"
      PROVE  /\ r \in Records /\ r.tracker \in Trackers /\ r.number \in Nat
             /\ r.sequence \in 0..(Modulus - 1) /\ r.age \in Nat /\ r.age <= MaxDelay
             /\ r.age < Off
             /\ RecentOf(r.tracker, r.number, r.sequence, r.age)
  <2>1. r \in Records
    BY OnTheWayRecords
  <2> QED
    BY <1>1, <2>1, Fields, Sizes DEF AirInv
<1>2. ASSUME NEW t \in Trackers, NEW hearing \in SUBSET Sources, Broadcast(t, hearing)
      PROVE  AirInv'
  <2> SUFFICES ASSUME NEW s \in Sources, NEW r \in OnTheWay(s)', r.kind = "data"
               PROVE  RecentOf(r.tracker, r.number, r.sequence, r.age)'
    BY DEF AirInv
  <2>1. CASE r \in OnTheWay(s)
    BY <1>1, <1>2, <2>1, RecentAfterSending
  <2>2. CASE r.tracker = t /\ r.age = 0 /\ r.sequence = sequence[t] /\ r.number = sent[t] + 1
    <3>1. /\ sent'[t] = sent[t] + 1 /\ sequence'[t] = NextSequence(sequence[t]) /\ quiet'[t] = 0
      BY <1>2 DEF Broadcast, TypeInv, TypeOK
    <3>2. Recent(sent[t] + 1, sequence[t], 0, sent[t] + 1, NextSequence(sequence[t]), 0)
      BY TrackerTypes, RecentOfNew
    <3> QED
      BY <2>2, <3>1, <3>2 DEF RecentOf
  <2> QED
    BY <1>2, <2>1, <2>2, BroadcastRecords
<1>3. ASSUME NEW t \in Trackers, TrackerRestart(t) PROVE AirInv'
  <2>1. /\ quiet[t] = Off /\ sequence' = [sequence EXCEPT ![t] = 0]
        /\ transit' = transit /\ sent' = sent /\ quiet' = quiet
    BY <1>3 DEF TrackerRestart
  <2> SUFFICES ASSUME NEW s \in Sources, NEW r \in OnTheWay(s), r.kind = "data"
               PROVE  RecentOf(r.tracker, r.number, r.sequence, r.age)'
    BY <2>1 DEF AirInv, OnTheWay
  <2>2. r.tracker # t
    <3>1. quiet[r.tracker] <= r.age
      <4>1. r.tracker \in Trackers /\ r.age \in Nat
            /\ Recent(r.number, r.sequence, r.age, sent[r.tracker], sequence[r.tracker],
                      quiet[r.tracker])
        BY <1>1 DEF RecentOf
      <4>2. sent[r.tracker] \in Nat /\ quiet[r.tracker] \in Nat
        BY <4>1, TrackerTypes
      <4> QED
        BY <4>1, <4>2, RecentSilence
    <3> QED
      BY <1>1, <2>1, <3>1, Sizes
  <2>3. sequence'[r.tracker] = sequence[r.tracker]
    BY <1>1, <2>1, <2>2 DEF TypeInv, TypeOK
  <2> QED
    BY <1>1, <2>1, <2>3 DEF RecentOf
<1>4. ASSUME \A s \in Sources : \A r \in OnTheWay(s)' : r \in OnTheWay(s) \/ r.kind = "registration",
             UNCHANGED <<sequence, quiet, sent>>
      PROVE  AirInv'
    BY <1>4 DEF AirInv, RecentOf
<1>5. ASSUME NEW s \in Sources, NEW id \in LocalIds, Announce(s, id) PROVE AirInv'
    BY <1>4, <1>5, AnnounceRecords DEF Announce
<1>6. ASSUME NEW s \in Sources, NEW id \in LocalIds, NEW t \in Trackers, Reassign(s, id, t)
      PROVE  AirInv'
    BY <1>4, <1>6 DEF Reassign, OnTheWay
<1>7. CASE Tick
  <2> SUFFICES ASSUME NEW s \in Sources, NEW r \in OnTheWay(s)', r.kind = "data"
               PROVE  RecentOf(r.tracker, r.number, r.sequence, r.age)'
    BY DEF AirInv
  <2>1. PICK e \in OnTheWay(s) : e.age < MaxDelay /\ r = Older(e)
    BY <1>7, TickRecords
  <2>2. e \in Records
    BY OnTheWayRecords
  <2>3. e.kind = "data" /\ r.tracker = e.tracker /\ r.number = e.number
        /\ r.sequence = e.sequence /\ r.age = e.age + 1
    BY <2>1, <2>2, OlderRecord
  <2>4. RecentOf(e.tracker, e.number, e.sequence, e.age + 1)'
    BY <1>1, <1>7, <2>3, RecentAfterTick
  <2> QED
    BY <2>3, <2>4
<1>8. ASSUME NEW s \in Sources, Ingest(s) PROVE AirInv'
  <2>1. Arrive(s)
    BY <1>8, IngestEffect
  <2>2. UNCHANGED <<sequence, quiet, sent>>
    BY <2>1 DEF Arrive
  <2> QED
    BY <1>4, <2>1, <2>2, IngestRecords
<1>9. CASE UNCHANGED vars
    BY <1>4, <1>9 DEF vars, receivers, OnTheWay
<1> QED
    BY <1>2, <1>3, <1>5, <1>6, <1>7, <1>8, <1>9 DEF Next

-----------------------------------------------------------------------------
(* The gate and what has passed it *)

\* The gate holds the number of the last broadcast that passed, which is recent while the
\* tracker counts as heard of.
SeenInv(t) ==
    /\ passed[t] <= sent[t]
    /\ gate[t].known <=> passed[t] > 0
    /\ gate[t].known /\ gate[t].age < ResetAfter =>
          RecentOf(t, passed[t], gate[t].sequence, gate[t].age + MaxDelay)

\* A packet that is no newer than the last one that passed was sent before that one arrived.
LateInv(r) ==
    r.kind = "data" /\ r.number <= passed[r.tracker] =>
        gate[r.tracker].known /\ gate[r.tracker].age <= r.age

GateInv ==
    ~ confused =>
        /\ repeated = {} /\ heard = passed
        /\ \A t \in Trackers : SeenInv(t)
        /\ \A s \in Sources : \A r \in OnTheWay(s) : LateInv(r)

\* The gate lets a packet pass exactly if it is newer than all that passed.
LEMMA FreshIsNewer ==
    ASSUME TypeInv, AirInv, NEW s \in Sources, NEW r \in OnTheWay(s), r.kind = "data",
           SeenInv(r.tracker), LateInv(r)
    PROVE  Fresh(r.tracker, r.sequence) <=> r.number > passed[r.tracker]
<1> DEFINE t == r.tracker
<1>1. r \in Records
    BY OnTheWayRecords
<1>2. /\ t \in Trackers /\ r.number \in Nat /\ r.sequence \in 0..(Modulus - 1)
      /\ r.age \in Nat /\ r.age <= MaxDelay /\ r.age < ResetAfter /\ r.age < Off
    BY <1>1, Fields, Sizes
<1>3. Recent(r.number, r.sequence, r.age, sent[t], sequence[t], quiet[t])
    BY DEF AirInv, RecentOf
<1>4. /\ sent[t] \in Nat /\ quiet[t] \in Nat /\ passed[t] \in Nat
      /\ gate[t].known => gate[t].sequence \in 0..(Modulus - 1) /\ gate[t].age \in Nat
    BY <1>2, TrackerTypes, StateFields, Sizes
<1> HIDE DEF t
<1>5. CASE gate[t].known /\ gate[t].age < ResetAfter
  <2> DEFINE w == gate[t].age + MaxDelay
             a == gate[t].sequence
  <2>1. w \in Nat /\ w < Off /\ a \in 0..(Modulus - 1)
    BY <1>4, <1>5, Sizes
  <2>2. Recent(passed[t], a, w, sent[t], sequence[t], quiet[t])
    BY <1>5 DEF SeenInv, RecentOf, t
  <2> HIDE DEF w, a
  <2>3. (r.sequence + Modulus - a) % Modulus \in 1..(Modulus \div 2 - 1)
            <=> r.number > passed[t]
    BY <1>2, <1>3, <1>4, <2>1, <2>2, AheadMeansLater
  <2> QED
    BY <1>5, <2>3 DEF Fresh, Ahead, t, a
<1>6. CASE ~ (gate[t].known /\ gate[t].age < ResetAfter)
  <2>1. ~ r.number <= passed[t]
    <3>1. SUFFICES ASSUME r.number <= passed[t] PROVE FALSE
      OBVIOUS
    <3>2. gate[t].known /\ gate[t].age <= r.age
      BY <3>1 DEF LateInv, t
    <3> QED
      BY <1>2, <1>4, <1>6, <3>2, Sizes
  <2>2. r.number > passed[t]
    BY <1>2, <1>4, <2>1
  <2> QED
    BY <1>6, <2>2 DEF Fresh, t
<1> QED
    BY <1>5, <1>6

\* A packet passes.
LEMMA GateAccepts ==
    ASSUME TypeInv, AirInv, GateInv, ~ confused, NEW s \in Sources, Arrive(s),
           Arrived(s).kind = "data", Fresh(Arrived(s).tracker, Arrived(s).sequence),
           gate' = [gate EXCEPT ![Arrived(s).tracker] = Previous(Arrived(s).sequence)],
           Noted(s, TRUE)
    PROVE  GateInv'
<1> DEFINE r == Arrived(s)
           t == r.tracker
<1>1. /\ r \in OnTheWay(s) /\ r \in Records
      /\ \A o \in Sources : OnTheWay(o)' \subseteq OnTheWay(o)
      /\ UNCHANGED <<sequence, quiet, sent>>
    BY IngestRecords DEF Arrive
<1>2. /\ heard' = [heard EXCEPT ![t] = IF r.number > @ THEN r.number ELSE @]
      /\ passed' = [passed EXCEPT ![t] = r.number]
      /\ repeated' = IF r.number <= passed[t] THEN repeated \union {t} ELSE repeated
    BY DEF Noted
<1>3. Fresh(t, r.sequence) /\ gate' = [gate EXCEPT ![t] = Previous(r.sequence)] /\ r.kind = "data"
    OBVIOUS
<1> HIDE DEF r
<1>4. /\ t \in Trackers /\ r.number \in Nat /\ r.number > 0 /\ r.age \in Nat /\ r.age <= MaxDelay
    BY <1>1, <1>3, Fields, Sizes
<1>5. r.number > passed[t]
    BY <1>1, <1>3, <1>4, FreshIsNewer DEF GateInv
<1>6. /\ passed \in [Trackers -> Nat] /\ heard = passed /\ repeated = {}
      /\ gate \in [Trackers -> States \union {Unknown}]
    BY Sizes DEF GateInv, TypeInv, TypeOK
<1> HIDE DEF t
<1>7. /\ passed'[t] = r.number /\ \A o \in Trackers : o # t => passed'[o] = passed[o]
      /\ gate'[t] = Previous(r.sequence) /\ \A o \in Trackers : o # t => gate'[o] = gate[o]
    BY <1>2, <1>3, <1>4, <1>6
<1>8. repeated' = {} /\ heard' = passed'
    BY <1>2, <1>4, <1>5, <1>6
<1>9. Previous(r.sequence).known /\ Previous(r.sequence).age = 0
      /\ Previous(r.sequence).sequence = r.sequence
    BY DEF Previous
<1>10. ASSUME NEW o \in Trackers PROVE SeenInv(o)'
  <2>1. CASE o = t
    <3>1. RecentOf(t, r.number, r.sequence, r.age)
      BY <1>1, <1>3 DEF AirInv, t
    <3>2. sent[t] \in Nat /\ quiet[t] \in Nat
      BY <1>4, TrackerTypes
    <3>3. Recent(r.number, r.sequence, 0 + MaxDelay, sent[t], sequence[t], quiet[t])
      BY <1>4, <3>1, <3>2, RecentInAWhile, Sizes DEF RecentOf
    <3>4. r.number <= sent[t]
      BY <3>1, <3>2 DEF RecentOf, Recent
    <3> QED
      BY <1>1, <1>4, <1>7, <1>9, <2>1, <3>3, <3>4 DEF SeenInv, RecentOf
  <2>2. CASE o # t
    BY <1>1, <1>7, <2>2 DEF GateInv, SeenInv, RecentOf
  <2> QED
    BY <2>1, <2>2
<1>11. ASSUME NEW o \in Sources, NEW e \in OnTheWay(o)' PROVE LateInv(e)'
  <2>1. e \in OnTheWay(o) /\ e \in Records
    BY <1>1, OnTheWayRecords
  <2>2. e.tracker \in Trackers /\ e.age >= 0
    BY <2>1, Fields, Sizes
  <2>3. CASE e.tracker = t
    BY <1>7, <1>9, <2>2, <2>3 DEF LateInv
  <2>4. CASE e.tracker # t
    BY <1>7, <2>1, <2>2, <2>4 DEF GateInv, LateInv
  <2> QED
    BY <2>3, <2>4
<1> QED
    BY <1>8, <1>10, <1>11 DEF GateInv

\* A packet is dropped.
LEMMA GateRejects ==
    ASSUME TypeInv, AirInv, GateInv, ~ confused, NEW s \in Sources, Arrive(s),
           Arrived(s).kind = "data", ~ Fresh(Arrived(s).tracker, Arrived(s).sequence),
           gate' = [gate EXCEPT ![Arrived(s).tracker].age = 0],
           Noted(s, FALSE)
    PROVE  GateInv'
<1> DEFINE r == Arrived(s)
           t == r.tracker
<1>1. /\ r \in OnTheWay(s) /\ r \in Records
      /\ \A o \in Sources : OnTheWay(o)' \subseteq OnTheWay(o)
      /\ UNCHANGED <<sequence, quiet, sent>>
    BY IngestRecords DEF Arrive
<1>2. /\ heard' = [heard EXCEPT ![t] = IF r.number > @ THEN r.number ELSE @]
      /\ passed' = passed /\ repeated' = repeated
    BY DEF Noted
<1>3. ~ Fresh(t, r.sequence) /\ gate' = [gate EXCEPT ![t].age = 0] /\ r.kind = "data"
    OBVIOUS
<1> HIDE DEF r
<1>4. /\ t \in Trackers /\ r.number \in Nat /\ r.age \in Nat /\ r.age <= MaxDelay
    BY <1>1, <1>3, Fields, Sizes
<1>5. /\ passed \in [Trackers -> Nat] /\ heard = passed /\ repeated = {}
      /\ gate \in [Trackers -> States \union {Unknown}]
    BY Sizes DEF GateInv, TypeInv, TypeOK
<1>6. r.number <= passed[t]
  <2>1. ~ r.number > passed[t]
    BY <1>1, <1>3, <1>4, FreshIsNewer DEF GateInv
  <2> QED
    BY <1>4, <1>5, <2>1
<1>7. gate[t].known /\ gate[t].age < ResetAfter /\ gate[t] \in States
    BY <1>3, <1>4, TrackerTypes DEF Fresh
<1> HIDE DEF t
<1>8. heard' = passed'
  <2>1. ~ r.number > heard[t]
    BY <1>4, <1>5, <1>6
  <2> QED
    BY <1>2, <1>5, <2>1
<1>9. /\ gate'[t].known /\ gate'[t].age = 0 /\ gate'[t].sequence = gate[t].sequence
      /\ \A o \in Trackers : o # t => gate'[o] = gate[o]
  <2>1. gate'[t] = [gate[t] EXCEPT !.age = 0] /\ \A o \in Trackers : o # t => gate'[o] = gate[o]
    BY <1>3, <1>4, <1>5
  <2>2. 0 \in 0..ResetAfter
    BY Sizes
  <2>3. ASSUME NEW a \in 0..ResetAfter, NEW g, g = [gate[t] EXCEPT !.age = a]
        PROVE  g.known /\ g.sequence = gate[t].sequence /\ g.age = a
    BY <1>7, <2>3, StateAged
  <2>4. gate'[t].known /\ gate'[t].sequence = gate[t].sequence /\ gate'[t].age = 0
    BY <2>1, <2>2, <2>3
  <2> QED
    BY <2>1, <2>4
<1>10. ASSUME NEW o \in Trackers PROVE SeenInv(o)'
  <2>1. CASE o = t
    <3>1. RecentOf(t, r.number, r.sequence, r.age)
      BY <1>1, <1>3 DEF AirInv, t
    <3>2. sent[t] \in Nat /\ quiet[t] \in Nat /\ passed[t] \in Nat
      BY <1>4, TrackerTypes
    <3>3. SeenInv(t)
      BY <1>4 DEF GateInv
    <3>4. Recent(passed[t], gate[t].sequence, gate[t].age + MaxDelay,
                 sent[t], sequence[t], quiet[t])
      BY <1>7, <3>3 DEF SeenInv, RecentOf
    <3>5. (sent[t] - passed[t]) + quiet[t] <= MaxDelay
      <4>1. r.number <= sent[t] /\ (sent[t] - r.number) + quiet[t] <= r.age
        BY <3>1, <3>2 DEF RecentOf, Recent
      <4> QED
        BY <1>4, <1>6, <3>2, <4>1, Sizes
    <3>6. Recent(passed[t], gate[t].sequence, 0 + MaxDelay, sent[t], sequence[t], quiet[t])
      BY <3>4, <3>5, Sizes DEF Recent
    <3> QED
      BY <1>1, <1>2, <1>7, <1>9, <2>1, <3>3, <3>6 DEF SeenInv, RecentOf
  <2>2. CASE o # t
    BY <1>1, <1>2, <1>9, <2>2 DEF GateInv, SeenInv, RecentOf
  <2> QED
    BY <2>1, <2>2
<1>11. ASSUME NEW o \in Sources, NEW e \in OnTheWay(o)' PROVE LateInv(e)'
  <2>1. e \in OnTheWay(o) /\ e \in Records
    BY <1>1, OnTheWayRecords
  <2>2. e.tracker \in Trackers /\ e.age >= 0
    BY <2>1, Fields, Sizes
  <2>3. CASE e.tracker = t
    BY <1>9, <2>2, <2>3 DEF LateInv
  <2>4. CASE e.tracker # t
    BY <1>2, <1>9, <2>1, <2>2, <2>4 DEF GateInv, LateInv
  <2> QED
    BY <2>3, <2>4
<1> QED
    BY <1>2, <1>5, <1>8, <1>10, <1>11 DEF GateInv

\* Time passes, or a tracker sends: the gate stays as it is but for its ages.
LEMMA GateBroadcast ==
    ASSUME TypeInv, AirInv, GateInv, NEW t \in Trackers, NEW hearing \in SUBSET Sources,
           Broadcast(t, hearing)
    PROVE  GateInv'
<1>1. /\ sent' = [sent EXCEPT ![t] = @ + 1]
      /\ gate' = gate /\ passed' = passed /\ heard' = heard /\ repeated' = repeated
      /\ confused' = confused
    BY DEF Broadcast, ghosts
<1> SUFFICES ASSUME ~ confused PROVE GateInv'
    BY <1>1 DEF GateInv
<1>2. ASSUME NEW o \in Trackers PROVE SeenInv(o)'
  <2>1. SeenInv(o) /\ sent[o] \in Nat /\ passed[o] \in Nat
        /\ (gate[o].known => gate[o].sequence \in 0..(Modulus - 1) /\ gate[o].age \in Nat)
    BY TrackerTypes, StateFields, Sizes DEF GateInv
  <2>2. sent'[o] \in Nat /\ sent'[o] >= sent[o]
    BY <1>1, <2>1 DEF TypeInv, TypeOK
  <2>3. passed'[o] <= sent'[o] /\ (gate'[o].known <=> passed'[o] > 0)
    BY <1>1, <2>1, <2>2 DEF SeenInv
  <2>4. ASSUME gate[o].known, gate[o].age < ResetAfter
        PROVE  RecentOf(o, passed[o], gate[o].sequence, gate[o].age + MaxDelay)'
    <3>1. gate[o].age + MaxDelay \in Nat /\ gate[o].age + MaxDelay < Off
      BY <2>1, <2>4, Sizes
    <3>2. RecentOf(o, passed[o], gate[o].sequence, gate[o].age + MaxDelay)
      BY <2>1, <2>4 DEF SeenInv
    <3> DEFINE n == passed[o]
               q == gate[o].sequence
               w == gate[o].age + MaxDelay
    <3>3. n \in Nat /\ q \in 0..(Modulus - 1) /\ w \in Nat /\ w < Off /\ RecentOf(o, n, q, w)
      BY <2>1, <2>4, <3>1, <3>2
    <3>4. n' = n /\ q' = q /\ w' = w
      BY <1>1
    <3> HIDE DEF n, q, w
    <3>5. Recent(n, q, w, sent[o], sequence[o], quiet[o])'
      <4>1. \A m \in Nat : \A p \in 0..(Modulus - 1) : \A v \in Nat :
                v < Off /\ RecentOf(o, m, p, v) =>
                    Recent(m, p, v, sent'[o], sequence'[o], quiet'[o])
        BY RecentAfterSending DEF RecentOf
      <4> QED
        BY <3>3, <3>4, <4>1
    <3> QED
      BY <3>5 DEF RecentOf, n, q, w
  <2> QED
    BY <1>1, <2>3, <2>4 DEF SeenInv
<1>3. ASSUME NEW s \in Sources, NEW r \in OnTheWay(s)' PROVE LateInv(r)'
  <2>1. CASE r \in OnTheWay(s)
    BY <1>1, <2>1 DEF GateInv, LateInv
  <2>2. CASE r.tracker = t /\ r.number = sent[t] + 1
    <3>1. passed[t] <= sent[t] /\ sent[t] \in Nat /\ passed[t] \in Nat
      BY TrackerTypes DEF GateInv, SeenInv
    <3> QED
      BY <1>1, <2>2, <3>1 DEF LateInv
  <2> QED
    BY <2>1, <2>2, BroadcastRecords
<1> QED
    BY <1>1, <1>2, <1>3 DEF GateInv

LEMMA GateTick ==
    ASSUME TypeInv, AirInv, GateInv, Tick
    PROVE  GateInv'
<1>1. /\ gate' = [t \in Trackers |->
            IF gate[t].known /\ gate[t].age < ResetAfter THEN [gate[t] EXCEPT !.age = @ + 1]
                                                         ELSE gate[t]]
      /\ passed' = passed /\ heard' = heard /\ repeated' = repeated /\ confused' = confused
      /\ sent' = sent
    BY DEF Tick, ghosts
<1> SUFFICES ASSUME ~ confused PROVE GateInv'
    BY <1>1 DEF GateInv
<1>2. ASSUME NEW o \in Trackers
      PROVE  /\ gate'[o].known <=> gate[o].known
             /\ gate[o].known =>
                   /\ gate'[o].sequence = gate[o].sequence
                   /\ gate[o].age \in Nat
                   /\ \/ gate[o].age < ResetAfter /\ gate'[o].age = gate[o].age + 1
                      \/ gate[o].age = ResetAfter /\ gate'[o].age = gate[o].age
  <2>1. gate[o].known => gate[o] \in States
    BY TrackerTypes
  <2>2. CASE gate[o].known /\ gate[o].age < ResetAfter
    <3>1. gate[o].age \in 0..ResetAfter /\ gate[o].age \in Nat
      BY <2>1, <2>2, StateFields, Sizes
    <3> DEFINE a == gate[o].age + 1
    <3>2. a \in 0..ResetAfter
      BY <2>2, <3>1, Sizes
    <3>3. gate'[o] = [gate[o] EXCEPT !.age = a]
      BY <1>1, <2>2
    <3> HIDE DEF a
    <3>4. gate'[o].known /\ gate'[o].sequence = gate[o].sequence /\ gate'[o].age = a
      BY <2>1, <2>2, <3>2, <3>3, StateAged
    <3> QED
      BY <2>2, <3>1, <3>4 DEF a
  <2>3. CASE ~ (gate[o].known /\ gate[o].age < ResetAfter)
    <3>1. gate'[o] = gate[o]
      BY <1>1, <2>3
    <3>2. gate[o].known => gate[o].age \in Nat /\ gate[o].age = ResetAfter
      BY <2>1, <2>3, StateFields, Sizes
    <3> QED
      BY <3>1, <3>2
  <2> QED
    BY <2>2, <2>3
<1>3. ASSUME NEW o \in Trackers PROVE SeenInv(o)'
  <2>1. SeenInv(o) /\ sent[o] \in Nat /\ passed[o] \in Nat
    BY TrackerTypes DEF GateInv
  <2>2. passed'[o] <= sent'[o] /\ (gate'[o].known <=> passed'[o] > 0)
    BY <1>1, <1>2, <2>1 DEF SeenInv
  <2>3. ASSUME gate'[o].known, gate'[o].age < ResetAfter
        PROVE  RecentOf(o, passed[o], gate[o].sequence, gate[o].age + MaxDelay)'
    <3>1. gate[o].known /\ gate[o].age \in Nat /\ gate[o].age < ResetAfter
          /\ gate'[o].age = gate[o].age + 1
      BY <1>2, <2>3, Sizes
    <3>2. gate[o].age + MaxDelay \in Nat /\ gate[o].age + MaxDelay < Off
      BY <3>1, Sizes
    <3>3. RecentOf(o, passed[o], gate[o].sequence, gate[o].age + MaxDelay)
      BY <2>1, <3>1 DEF SeenInv
    <3>4. \A m \in Nat : \A p : \A v \in Nat :
              v < Off /\ RecentOf(o, m, p, v) =>
                  Recent(m, p, v + 1, sent'[o], sequence'[o], quiet'[o])
      BY RecentAfterTick DEF RecentOf
    <3>5. Recent(passed[o], gate[o].sequence, gate[o].age + MaxDelay + 1,
                 sent'[o], sequence'[o], quiet'[o])
      BY <2>1, <3>2, <3>3, <3>4
    <3>6. passed'[o] = passed[o] /\ gate'[o].sequence = gate[o].sequence
          /\ gate'[o].age + MaxDelay = gate[o].age + MaxDelay + 1
      BY <1>1, <1>2, <3>1, Sizes
    <3> QED
      BY <3>5, <3>6 DEF RecentOf
  <2> QED
    BY <1>1, <1>2, <2>2, <2>3 DEF SeenInv
<1>4. ASSUME NEW s \in Sources, NEW r \in OnTheWay(s)' PROVE LateInv(r)'
  <2>1. PICK e \in OnTheWay(s) : e.age < MaxDelay /\ r = Older(e)
    BY TickRecords
  <2>2. e \in Records
    BY OnTheWayRecords
  <2>3. /\ r.kind = e.kind /\ r.tracker = e.tracker /\ r.age = e.age + 1
        /\ e.kind = "data" => r.number = e.number
        /\ e.tracker \in Trackers /\ e.age \in Nat
    BY <2>1, <2>2, OlderRecord, Fields, Sizes
  <2>4. LateInv(e)
    BY DEF GateInv
  <2>5. ASSUME gate[e.tracker].known, gate[e.tracker].age <= e.age
        PROVE  gate'[e.tracker].known /\ gate'[e.tracker].age <= r.age
    BY <1>2, <2>3, <2>5
  <2> QED
    BY <1>1, <2>3, <2>4, <2>5 DEF LateInv
<1> QED
    BY <1>1, <1>3, <1>4 DEF GateInv

\* What is neither sent nor arrives nor ages leaves the gate alone.
LEMMA GateKept ==
    ASSUME GateInv, UNCHANGED <<gate, ghosts, sent, quiet>>,
           \A t \in Trackers : quiet[t] < Off => sequence'[t] = sequence[t],
           \A t \in Trackers : gate[t].known /\ gate[t].age < ResetAfter => quiet[t] < Off,
           \A s \in Sources : \A r \in OnTheWay(s)' : r \in OnTheWay(s) \/ r.kind = "registration"
    PROVE  GateInv'
<1>1. gate' = gate /\ passed' = passed /\ heard' = heard /\ repeated' = repeated
      /\ confused' = confused /\ sent' = sent /\ quiet' = quiet
    BY DEF ghosts
<1> SUFFICES ASSUME ~ confused PROVE GateInv'
    BY <1>1 DEF GateInv
<1>2. \A t \in Trackers : SeenInv(t)'
    BY <1>1 DEF GateInv, SeenInv, RecentOf
<1>3. \A s \in Sources : \A r \in OnTheWay(s)' : LateInv(r)'
    BY <1>1 DEF GateInv, LateInv
<1> QED
    BY <1>1, <1>2, <1>3 DEF GateInv

\* A tracker that the gate still counts as heard of has sent in the time of a restart.
LEMMA HeardOfIsNotOff ==
    ASSUME TypeInv, GateInv, ~ confused, NEW t \in Trackers,
           gate[t].known, gate[t].age < ResetAfter
    PROVE  quiet[t] < Off
<1>1. gate[t].age \in Nat /\ sent[t] \in Nat /\ quiet[t] \in Nat
    BY TrackerTypes, StateFields, Sizes
<1> DEFINE w == gate[t].age + MaxDelay
<1>2. w \in Nat /\ w < Off
    BY <1>1, Sizes
<1>3. Recent(passed[t], gate[t].sequence, w, sent[t], sequence[t], quiet[t])
    BY DEF GateInv, SeenInv, RecentOf
<1> HIDE DEF w
<1>4. quiet[t] <= w
    BY <1>1, <1>2, <1>3, RecentSilence
<1> QED
    BY <1>1, <1>2, <1>4, Sizes

LEMMA GateStep ==
    ASSUME TypeInv, AirInv, GateInv, [Next]_vars
    PROVE  GateInv'
<1>1. CASE \E t \in Trackers, hearing \in SUBSET Sources : Broadcast(t, hearing)
    BY <1>1, GateBroadcast
<1>2. ASSUME UNCHANGED <<gate, ghosts, sent, quiet>>,
             \A t \in Trackers : quiet[t] < Off => sequence'[t] = sequence[t],
             \A s \in Sources : \A r \in OnTheWay(s)' :
                 r \in OnTheWay(s) \/ r.kind = "registration"
      PROVE  GateInv'
  <2>1. CASE confused
    BY <1>2, <2>1 DEF GateInv, ghosts
  <2>2. CASE ~ confused
    BY <1>2, <2>2, HeardOfIsNotOff, GateKept
  <2> QED
    BY <2>1, <2>2
<1>3. ASSUME NEW t \in Trackers, TrackerRestart(t) PROVE GateInv'
  <2>1. quiet[t] = Off /\ sequence' = [sequence EXCEPT ![t] = 0] /\ transit' = transit
        /\ UNCHANGED <<gate, ghosts, sent, quiet>>
    BY <1>3 DEF TrackerRestart
  <2>2. ASSUME NEW o \in Trackers, quiet[o] < Off PROVE sequence'[o] = sequence[o]
    <3>1. o # t
      BY <2>1, <2>2, Sizes
    <3> QED
      BY <2>1, <3>1 DEF TypeInv, TypeOK
  <2>3. \A s \in Sources : OnTheWay(s)' = OnTheWay(s)
    BY <2>1 DEF OnTheWay
  <2> QED
    BY <1>2, <2>1, <2>2, <2>3
<1>4. ASSUME NEW s \in Sources, NEW id \in LocalIds, Announce(s, id) PROVE GateInv'
  <2>1. UNCHANGED <<gate, ghosts, sent, quiet>> /\ sequence' = sequence
    BY <1>4 DEF Announce
  <2> QED
    BY <1>2, <1>4, <2>1, AnnounceRecords
<1>5. ASSUME NEW s \in Sources, NEW id \in LocalIds, NEW t \in Trackers, Reassign(s, id, t)
      PROVE  GateInv'
  <2>1. UNCHANGED <<gate, ghosts, sent, quiet>> /\ sequence' = sequence /\ transit' = transit
    BY <1>5 DEF Reassign
  <2> QED
    BY <1>2, <2>1 DEF OnTheWay
<1>6. CASE Tick
    BY <1>6, GateTick
<1>7. ASSUME NEW s \in Sources, Ingest(s) PROVE GateInv'
  <2>1. Arrive(s) /\ UNCHANGED <<sequence, sent, quiet>>
    BY <1>7, IngestEffect DEF Arrive
  <2>2. CASE UNCHANGED <<gate, ghosts>>
    BY <1>2, <2>1, <2>2, IngestRecords
  <2>3. ASSUME NEW pass \in BOOLEAN, Noted(s, pass), confused \/ Address(s) # Arrived(s).tracker
        PROVE  GateInv'
    BY <2>3 DEF Noted, GateInv
  <2>4. CASE ~ confused /\ Address(s) = Arrived(s).tracker
    BY <1>7, <2>1, <2>2, <2>4, IngestEffect, GateAccepts, GateRejects
  <2> QED
    BY <1>7, <2>2, <2>3, <2>4, IngestEffect
<1>8. CASE UNCHANGED vars
  <2>1. UNCHANGED <<gate, ghosts, sent, quiet>> /\ sequence' = sequence /\ transit' = transit
    BY <1>8 DEF vars, receivers
  <2> QED
    BY <1>2, <2>1 DEF OnTheWay
<1> QED
    BY <1>1, <1>3, <1>4, <1>5, <1>6, <1>7, <1>8 DEF Next

SequenceInv == TypeInv /\ AirInv /\ GateInv

LEMMA SequenceInit == Init => SequenceInv
<1> SUFFICES ASSUME Init PROVE SequenceInv
    OBVIOUS
<1>1. TypeInv
    BY TypesInit
<1>2. \A s \in Sources : OnTheWay(s) = {}
  <2>1. \A s \in Sources : transit[s] = <<>>
    BY DEF Init
  <2>2. Len(<<>>) = 0 /\ 1..0 = {}
    OBVIOUS
  <2> QED
    BY <2>1, <2>2 DEF OnTheWay
<1>3. AirInv
    BY <1>2 DEF AirInv
<1>4. \A t \in Trackers : SeenInv(t)
    BY DEF Init, SeenInv, Unknown
<1>5. GateInv
    BY <1>2, <1>4 DEF GateInv, Init
<1> QED
    BY <1>1, <1>3, <1>5 DEF SequenceInv

LEMMA SequenceStep == SequenceInv /\ [Next]_vars => SequenceInv'
    BY TypesStep, AirStep, GateStep DEF SequenceInv

\* The sequence gate of dedup.rs lets each broadcast through at most once and never after
\* a later one, whatever receivers heard it, over wraps of the number and restarts of the
\* tracker, as long as no copy is later than MaxDelay.
THEOREM EachBroadcastOnce == Spec => []FirstCopyOnly
<1>1. SequenceInv => FirstCopyOnly
    BY DEF SequenceInv, GateInv, FirstCopyOnly
<1> QED
    BY <1>1, SequenceInit, SequenceStep, PTL DEF Spec

\* The gate holds back nothing that is newer than all it has seen of a tracker.
THEOREM NothingNewIsHeldBack == Spec => []NewestPassed
<1>1. SequenceInv => NewestPassed
    BY DEF SequenceInv, GateInv, NewestPassed
<1> QED
    BY <1>1, SequenceInit, SequenceStep, PTL DEF Spec
=============================================================================
