------------------------- MODULE DatagramGateProofs -------------------------
(***************************************************************************)
(* What the datagram gate of the Bridge guarantees for any number of       *)
(* gateways and any even or odd sequence space of which a datagram's lag   *)
(* is at most half.                                                        *)
(***************************************************************************)
EXTENDS DatagramGate, TLAPS

USE SeqModAssumption, MaxLagAssumption, GateBoundsAssumption

-----------------------------------------------------------------------------
(* Positions and wrapped sequence numbers *)

LEMMA NextPositionType ==
    ASSUME NEW p \in Positions
    PROVE  NextPosition(p) \in Positions /\ Before(p, NextPosition(p))
  BY DEF Positions, NextPosition, Before

LEMMA BeforeTransitive ==
    ASSUME NEW p \in Positions, NEW q \in Positions, NEW r \in Positions,
           Before(p, q), Before(q, r)
    PROVE  Before(p, r)
  BY DEF Positions, Before

\* The comparison of the code is right within the lag: a sequence number it calls
\* newer belongs to a later position.
LEMMA NewerIsLater ==
    ASSUME NEW p \in Positions, NEW q \in Positions, NEW r \in Positions,
           Before(p, r), Before(q, r), WithinLag(q, r), Newer(q.sequence, p.sequence)
    PROVE  Before(p, q)
  <1>1. /\ p.epoch \in Nat /\ q.epoch \in Nat /\ r.epoch \in Nat
        /\ p.sequence \in 0..(SeqMod - 1) /\ q.sequence \in 0..(SeqMod - 1)
        /\ r.sequence \in 0..(SeqMod - 1)
    BY DEF Positions
  <1>2. Half \in Nat /\ Half + Half <= SeqMod
    BY DEF Half
  <1>3. p.sequence # q.sequence
    BY <1>1 DEF Newer, WrappingSub
  <1>4. SUFFICES ASSUME Before(q, p) PROVE FALSE
    BY <1>1, <1>3 DEF Before
  <1>5. WrappingSub(q.sequence, p.sequence) < Half
    BY DEF Newer
  <1>6. MaxLag \in Nat /\ MaxLag <= Half /\ SeqMod \in Nat
    OBVIOUS
  <1>7. CASE q.epoch = p.epoch
    <2>1. q.sequence < p.sequence
      BY <1>1, <1>4, <1>7 DEF Before
    <2>2. q.sequence + SeqMod - p.sequence < Half
      BY <1>1, <1>5, <1>6, <2>1 DEF WrappingSub
    <2> QED BY <1>1, <1>2, <1>6, <1>7, <2>1, <2>2 DEF Before, WithinLag
  <1>8. CASE q.epoch + 1 = p.epoch
    <2>1. r.epoch = p.epoch /\ p.sequence < r.sequence /\ r.sequence + SeqMod - q.sequence <= MaxLag
      BY <1>1, <1>8 DEF Before, WithinLag
    <2>2. p.sequence < q.sequence
      BY <1>1, <1>2, <1>6, <2>1
    <2>3. q.sequence - p.sequence < Half
      BY <1>1, <1>5, <2>2 DEF WrappingSub
    <2> QED BY <1>1, <1>2, <1>6, <2>1, <2>3
  <1> QED BY <1>1, <1>4, <1>7, <1>8 DEF Before, WithinLag

-----------------------------------------------------------------------------
(* Types *)

LEMMA AppendFacts ==
    ASSUME NEW S, NEW s \in Seq(S), NEW e \in S
    PROVE  /\ Len(s) \in Nat /\ DOMAIN s = 1..Len(s)
           /\ \A i \in 1..Len(s) : s[i] \in S
           /\ Append(s, e) \in Seq(S) /\ Append(s, e) # <<>>
           /\ Len(Append(s, e)) = Len(s) + 1 /\ DOMAIN Append(s, e) = 1..(Len(s) + 1)
           /\ Append(s, e)[Len(s) + 1] = e
           /\ \A i \in 1..Len(s) : Append(s, e)[i] = s[i]
  OBVIOUS

\* The parts of TypeOK the steps below need, one per fact.
LEMMA GateTypes ==
    ASSUME TypeOK
    PROVE  /\ \A d \in network : /\ d \in Datagrams /\ d.gateway \in Gateways
                                 /\ d.boot \in Boots /\ d.at \in Positions
           /\ \A g \in Gateways : /\ boot[g] \in Boots
                                  /\ position[g] \in [Boots -> Positions]
                                  /\ states[g].boot_id \in Boots
                                  /\ states[g].retired \in SUBSET Boots
                                  /\ accepted[g] \in Seq(Datagrams)
           /\ \A g \in Gateways : \A i \in DOMAIN accepted[g] :
                 /\ accepted[g][i] \in Datagrams
                 /\ accepted[g][i].boot \in Boots
                 /\ accepted[g][i].at \in Positions
  <1>1. \A d \in Datagrams : d.gateway \in Gateways /\ d.boot \in Boots /\ d.at \in Positions
    BY DEF Datagrams
  <1>2. \A g \in Gateways : accepted[g] \in Seq(Datagrams)
    BY DEF TypeOK
  <1>3. \A g \in Gateways : \A i \in DOMAIN accepted[g] : accepted[g][i] \in Datagrams
    BY <1>2
  <1>4. \A g \in Gateways : states[g].boot_id \in Boots /\ states[g].retired \in SUBSET Boots
    BY DEF TypeOK
  <1> QED BY <1>1, <1>2, <1>3, <1>4 DEF TypeOK

LEMMA StartType == Start \in Positions
  BY DEF Start, Positions

LEMMA GateTypeInit == Init => TypeOK
  BY StartType DEF Init, TypeOK, Boots, Unknown

LEMMA AdvanceType ==
    ASSUME TypeOK, NEW g \in Gateways, Advance(g)
    PROVE  position' \in [Gateways -> [Boots -> Positions]]
  <1>1. boot[g] \in Boots /\ position[g] \in [Boots -> Positions]
    BY DEF TypeOK
  <1>2. NextPosition(position[g][boot[g]]) \in Positions
    BY <1>1, NextPositionType
  <1>3. [position[g] EXCEPT ![boot[g]] = NextPosition(@)] \in [Boots -> Positions]
    BY <1>1, <1>2
  <1> QED BY <1>3 DEF Advance, TypeOK

LEMMA EnterType ==
    ASSUME TypeOK, NEW d \in network, NEW R \in SUBSET Boots, Enter(d, R),
           late' \in SUBSET Gateways
    PROVE  TypeOK'
  <1>1. d.gateway \in Gateways /\ d.boot \in Boots /\ d.at.sequence \in 0..(SeqMod - 1)
        /\ d \in Datagrams
    BY DEF TypeOK, Datagrams, Positions
  <1>2. accepted' \in [Gateways -> Seq(Datagrams)]
    <2>1. Append(accepted[d.gateway], d) \in Seq(Datagrams)
      BY <1>1 DEF TypeOK
    <2> QED BY <1>1, <2>1 DEF Enter, TypeOK
  <1> QED BY <1>1, <1>2 DEF Enter, TypeOK

LEMMA GateTypeStep == TypeOK /\ [Next]_vars => TypeOK'
  <1> SUFFICES ASSUME TypeOK, [Next]_vars PROVE TypeOK'
    OBVIOUS
  <1>1. ASSUME NEW g \in Gateways, SendBatch(g) PROVE TypeOK'
    <2>1. [gateway |-> g, boot |-> boot[g], at |-> position[g][boot[g]]] \in Datagrams
      BY DEF TypeOK, Datagrams
    <2>2. network' \in SUBSET Datagrams
      BY <1>1, <2>1 DEF SendBatch, StillPending, TypeOK
    <2> QED BY <1>1, <2>2, AdvanceType DEF SendBatch, TypeOK
  <1>2. ASSUME NEW g \in Gateways, SendControl(g) PROVE TypeOK'
    <2>1. network' \in SUBSET Datagrams
      BY <1>2 DEF SendControl, StillPending, TypeOK
    <2> QED BY <1>2, <2>1, AdvanceType DEF SendControl, TypeOK
  <1>3. ASSUME NEW g \in Gateways, RebootGateway(g) PROVE TypeOK'
    BY <1>3 DEF RebootGateway, TypeOK, Boots
  <1>4. ASSUME NEW d \in network, Deliver(d) PROVE TypeOK'
    <2>1. d.gateway \in Gateways
      BY DEF TypeOK, Datagrams
    <2>2. states[d.gateway].boot_id \in Boots /\ states[d.gateway].retired \in SUBSET Boots
      BY <2>1 DEF TypeOK
    <2>3. late' \in SUBSET Gateways
      BY <1>4, <2>1 DEF Deliver, TypeOK
    <2>4. CASE AcceptUnknownGateway(d) BY <2>4, <2>3, EnterType DEF AcceptUnknownGateway
    <2>5. CASE AcceptNewBoot(d) BY <2>2, <2>5, <2>3, EnterType DEF AcceptNewBoot
    <2>6. CASE AcceptNewer(d) BY <2>2, <2>6, <2>3, EnterType DEF AcceptNewer
    <2>7. CASE Reject(d) BY <2>7, <2>3 DEF Reject, TypeOK
    <2> QED BY <1>4, <2>4, <2>5, <2>6, <2>7 DEF Deliver
  <1>5. CASE BridgeRestart
    <2>1. <<>> \in Seq(Datagrams) /\ 1 \in Boots
      BY DEF Boots
    <2>2. accepted' \in [Gateways -> Seq(Datagrams)]
      BY <1>5, <2>1 DEF BridgeRestart
    <2>3. restarts' \in 0..MaxBridgeRestarts
      BY <1>5 DEF BridgeRestart, TypeOK
    <2> QED BY <1>5, <2>1, <2>2, <2>3 DEF BridgeRestart, TypeOK, Unknown
  <1>6. CASE UNCHANGED vars
    BY <1>6 DEF vars, TypeOK
  <1> QED BY <1>1, <1>2, <1>3, <1>4, <1>5, <1>6 DEF Next
\* Every variable of the gate keeps its type.
THEOREM GateTypeCorrect == Spec => []TypeOK
  BY GateTypeInit, GateTypeStep, PTL DEF Spec

-----------------------------------------------------------------------------
(* What the gate remembers of the batches it passed *)

Last(g) == accepted[g][Len(accepted[g])]

\* Batches in the network and passed batches were sent; the gate's entry describes
\* the last batch it passed and the boots of all of them.
MemoryInv ==
    /\ \A d \in network : Before(d.at, position[d.gateway][d.boot])
    /\ \A g \in Gateways :
          /\ states[g].known = (accepted[g] # <<>>)
          /\ states[g].known =>
                /\ Last(g).boot = states[g].boot_id
                /\ Last(g).at.sequence = states[g].sequence
          /\ states[g].boot_id \notin states[g].retired
          /\ \A i \in DOMAIN accepted[g] :
                /\ accepted[g][i].gateway = g
                /\ accepted[g][i].boot \in states[g].retired \union {states[g].boot_id}
                /\ Before(accepted[g][i].at, position[g][accepted[g][i].boot])

GateInv == MemoryInv /\ NoDuplicateBatch /\ RetiredStaysRetired

LEMMA GateInit == Init => GateInv
  <1> SUFFICES ASSUME Init PROVE GateInv
    OBVIOUS
  <1>0. DOMAIN <<>> = {}
    OBVIOUS
  <1>1. \A g \in Gateways : accepted[g] = <<>> /\ DOMAIN accepted[g] = {} /\ states[g] = Unknown
    BY <1>0 DEF Init
  <1>2. MemoryInv
    BY <1>1 DEF Init, MemoryInv, Unknown
  <1> QED BY <1>1, <1>2 DEF GateInv, NoDuplicateBatch, RetiredStaysRetired

\* Sending only moves a position forward.
LEMMA GateSend ==
    ASSUME TypeOK, GateInv, NEW g \in Gateways, SendBatch(g) \/ SendControl(g)
    PROVE  GateInv'
  <1> DEFINE at == position[g][boot[g]]
             sent == [gateway |-> g, boot |-> boot[g], at |-> at]
  <1>1. /\ boot[g] \in Boots /\ at \in Positions
        /\ \A h \in Gateways : position[h] \in [Boots -> Positions]
        /\ \A d \in network : d.gateway \in Gateways /\ d.boot \in Boots /\ d.at \in Positions
        /\ \A h \in Gateways : \A i \in DOMAIN accepted[h] :
              accepted[h][i].boot \in Boots /\ accepted[h][i].at \in Positions
    BY GateTypes
  <1>2. UNCHANGED <<states, accepted>> /\ network' \subseteq network \union {sent}
    BY DEF SendBatch, SendControl, StillPending
  <1>3. \A h \in Gateways, b \in Boots :
          position'[h][b] = IF h = g /\ b = boot[g] THEN NextPosition(at) ELSE position[h][b]
    BY <1>1 DEF SendBatch, SendControl, Advance, TypeOK
  <1>4. NextPosition(at) \in Positions /\ Before(at, NextPosition(at))
    BY <1>1, NextPositionType
  <1>5. ASSUME NEW h \in Gateways, NEW b \in Boots, NEW p \in Positions,
               Before(p, position[h][b])
        PROVE  Before(p, position'[h][b])
    BY <1>1, <1>3, <1>4, <1>5, BeforeTransitive
  <1>6. \A d \in network' : Before(d.at, position'[d.gateway][d.boot])
    <2>1. \A d \in network : Before(d.at, position'[d.gateway][d.boot])
      BY <1>1, <1>5 DEF GateInv, MemoryInv
    <2>2. Before(sent.at, position'[sent.gateway][sent.boot])
      BY <1>1, <1>3, <1>4
    <2> QED BY <1>2, <2>1, <2>2
  <1>7. \A h \in Gateways : \A i \in DOMAIN accepted[h] :
          Before(accepted[h][i].at, position'[h][accepted[h][i].boot])
    BY <1>1, <1>5 DEF GateInv, MemoryInv
  <1> QED BY <1>2, <1>6, <1>7 DEF GateInv, MemoryInv, NoDuplicateBatch, RetiredStaysRetired, Last

\* Passing batch d preserves the invariant if d is of a boot never seen, or later
\* than the last batch of the current boot.
LEMMA GateEnter ==
    ASSUME TypeOK, GateInv, NEW d \in network, NEW R \in SUBSET Boots, Enter(d, R),
           NEW g \in Gateways, g = d.gateway, d.boot \notin R,
           \A i \in DOMAIN accepted[g] : accepted[g][i].boot \in R \union {d.boot},
           \/ \A i \in DOMAIN accepted[g] : accepted[g][i].boot # d.boot
           \/ accepted[g] # <<>> /\ Last(g).boot = d.boot /\ Before(Last(g).at, d.at)
    PROVE  GateInv'
  <1> DEFINE s == accepted[g]
             n == Len(accepted[g])
  <1>1. /\ d \in Datagrams /\ d.at \in Positions /\ s \in Seq(Datagrams) /\ n \in Nat
        /\ DOMAIN s = 1..n
    BY GateTypes
  <1>2. /\ accepted'[g] = Append(s, d)
        /\ \A h \in Gateways : h # g => accepted'[h] = accepted[h] /\ states'[h] = states[h]
        /\ states'[g] = [known |-> TRUE, boot_id |-> d.boot, sequence |-> d.at.sequence,
                         retired |-> R]
        /\ UNCHANGED <<position, network>>
    BY DEF Enter, TypeOK
  <1>3. /\ Len(accepted'[g]) = n + 1 /\ DOMAIN accepted'[g] = 1..(n + 1)
        /\ accepted'[g][n + 1] = d
        /\ \A i \in 1..n : accepted'[g][i] = s[i]
        /\ accepted'[g] # <<>>
    BY <1>1, <1>2, AppendFacts
  <1>4. \A i \in 1..n : s[i] \in Datagrams /\ s[i].at \in Positions
    BY <1>1, GateTypes
  <1>5. ASSUME NEW i \in 1..n, s[i].boot = d.boot
        PROVE  Before(s[i].at, d.at) /\ \A k \in i..n : s[k].boot = d.boot
    <2>1. s # <<>> /\ n \in DOMAIN s /\ s[n].boot = d.boot /\ Before(s[n].at, d.at)
      BY <1>1, <1>5 DEF Last
    <2>2. i = n \/ Before(s[i].at, s[n].at)
      BY <1>1, <1>5, <2>1 DEF GateInv, NoDuplicateBatch
    <2>3. Before(s[i].at, d.at)
      BY <1>1, <1>4, <2>1, <2>2, BeforeTransitive
    <2>4. \A k \in i..n : s[k].boot = d.boot
      <3>1. CASE i = n
        BY <2>1, <3>1
      <3>2. CASE i < n
        BY <1>1, <1>5, <2>1, <3>2 DEF GateInv, RetiredStaysRetired
      <3> QED BY <1>1, <3>1, <3>2
    <2> QED BY <2>3, <2>4
  <1>6. MemoryInv'
    <2> DEFINE Passed(e) == /\ e.gateway = g
                            /\ e.boot \in R \union {d.boot}
                            /\ Before(e.at, position[g][e.boot])
    <2>1. \A i \in 1..n : Passed(s[i])
      BY <1>1 DEF GateInv, MemoryInv
    <2>2. Passed(d)
      BY DEF GateInv, MemoryInv
    <2>3. \A i \in 1..(n + 1) : i \in 1..n \/ i = n + 1
      BY <1>1
    <2>4. \A i \in DOMAIN accepted'[g] : Passed(accepted'[g][i])
      BY <1>3, <2>1, <2>2, <2>3
    <2>5. Last(g)' = d
      BY <1>3 DEF Last
    <2>6. \A h \in Gateways : h # g => Last(h)' = Last(h)
      BY <1>2 DEF Last
    <2>7. \A b \in network : Before(b.at, position[b.gateway][b.boot])
      BY DEF GateInv, MemoryInv
    <2> DEFINE Entry(h) ==
           /\ states[h].known = (accepted[h] # <<>>)
           /\ states[h].known =>
                 /\ Last(h).boot = states[h].boot_id
                 /\ Last(h).at.sequence = states[h].sequence
           /\ states[h].boot_id \notin states[h].retired
           /\ \A i \in DOMAIN accepted[h] :
                 /\ accepted[h][i].gateway = h
                 /\ accepted[h][i].boot \in states[h].retired \union {states[h].boot_id}
                 /\ Before(accepted[h][i].at, position[h][accepted[h][i].boot])
    <2>8. Entry(g)'
      <3>1. /\ states'[g].known /\ states'[g].boot_id = d.boot
            /\ states'[g].sequence = d.at.sequence /\ states'[g].retired = R
        BY <1>2
      <3>2. \A i \in DOMAIN accepted'[g] :
               /\ accepted'[g][i].gateway = g
               /\ accepted'[g][i].boot \in states'[g].retired \union {states'[g].boot_id}
               /\ Before(accepted'[g][i].at, position'[g][accepted'[g][i].boot])
        BY <1>2, <2>4, <3>1
      <3> QED BY <1>3, <2>5, <3>1, <3>2
    <2>9. ASSUME NEW h \in Gateways, h # g PROVE Entry(h)'
      <3>1. Entry(h)
        BY DEF GateInv, MemoryInv
      <3> QED BY <1>2, <2>6, <2>9, <3>1
    <2>10. \A h \in Gateways : Entry(h)'
      BY <2>8, <2>9
    <2> QED BY <1>2, <2>7, <2>10 DEF MemoryInv
  <1>7. NoDuplicateBatch'
    <2>1. ASSUME NEW i \in 1..(n + 1), NEW j \in 1..(n + 1), i < j,
                 accepted'[g][i].boot = accepted'[g][j].boot
          PROVE  Before(accepted'[g][i].at, accepted'[g][j].at)
      <3>1. i \in 1..n /\ accepted'[g][i] = s[i]
        BY <1>1, <1>3, <2>1
      <3>2. CASE j = n + 1
        BY <1>3, <1>5, <2>1, <3>1, <3>2
      <3>3. CASE j # n + 1
        <4>1. j \in 1..n /\ accepted'[g][j] = s[j]
          BY <1>1, <1>3, <3>3
        <4> QED BY <1>1, <2>1, <3>1, <4>1 DEF GateInv, NoDuplicateBatch
      <3> QED BY <3>2, <3>3
    <2>2. ASSUME NEW h \in Gateways, h # g,
                 NEW i \in DOMAIN accepted'[h], NEW j \in DOMAIN accepted'[h], i < j,
                 accepted'[h][i].boot = accepted'[h][j].boot
          PROVE  Before(accepted'[h][i].at, accepted'[h][j].at)
      BY <1>2, <2>2 DEF GateInv, NoDuplicateBatch
    <2> QED BY <1>3, <2>1, <2>2 DEF NoDuplicateBatch
  <1>8. RetiredStaysRetired'
    <2>1. ASSUME NEW i \in 1..(n + 1), NEW j \in 1..(n + 1), i < j,
                 accepted'[g][i].boot = accepted'[g][j].boot, NEW k \in i..j
          PROVE  accepted'[g][k].boot = accepted'[g][i].boot
      <3>0. i \in 1..n /\ accepted'[g][i] = s[i]
        BY <1>1, <1>3, <2>1
      <3>1. CASE j = n + 1
        <4>1. s[i].boot = d.boot
          BY <1>3, <2>1, <3>0, <3>1
        <4>2. k = n + 1 \/ (k \in i..n /\ k \in 1..n)
          BY <1>1, <3>1
        <4> QED BY <1>3, <1>5, <3>0, <4>1, <4>2
      <3>2. CASE j # n + 1
        <4>0. i \in Nat /\ j \in Nat /\ k \in Nat /\ 1 <= i /\ i <= k /\ k <= j /\ j < n + 1
          BY <1>1, <2>1, <3>2
        <4>1. j \in 1..n /\ k \in 1..n
          BY <1>1, <4>0
        <4>2. accepted'[g][j] = s[j] /\ accepted'[g][k] = s[k]
          BY <1>3, <4>1
        <4>3. i \in DOMAIN accepted[g] /\ j \in DOMAIN accepted[g] /\ s[i].boot = s[j].boot
          BY <1>1, <2>1, <3>0, <4>1, <4>2
        <4>4. s[k].boot = s[i].boot
          BY <2>1, <4>3 DEF GateInv, RetiredStaysRetired
        <4> QED BY <3>0, <4>2, <4>4
      <3> QED BY <3>1, <3>2
    <2>2. ASSUME NEW h \in Gateways, h # g,
                 NEW i \in DOMAIN accepted'[h], NEW j \in DOMAIN accepted'[h], i < j,
                 accepted'[h][i].boot = accepted'[h][j].boot, NEW k \in i..j
          PROVE  accepted'[h][k].boot = accepted'[h][i].boot
      BY <1>2, <2>2 DEF GateInv, RetiredStaysRetired
    <2>3. ASSUME NEW h \in Gateways,
                 NEW i \in DOMAIN accepted'[h], NEW j \in DOMAIN accepted'[h], i < j,
                 accepted'[h][i].boot = accepted'[h][j].boot, NEW k \in i..j
          PROVE  accepted'[h][k].boot = accepted'[h][i].boot
      <3>1. CASE h = g
        BY <1>3, <2>1, <2>3, <3>1
      <3>2. CASE h # g
        BY <2>2, <2>3, <3>2
      <3> QED BY <3>1, <3>2
    <2> QED BY <2>3 DEF RetiredStaysRetired
  <1> QED BY <1>6, <1>7, <1>8 DEF GateInv

LEMMA GateDeliver ==
    ASSUME TypeOK, GateInv, NEW d \in network, Deliver(d)
    PROVE  GateInv'
  <1> DEFINE g == d.gateway
             entry == states[d.gateway]
  <1>1. g \in Gateways /\ entry.boot_id \in Boots /\ entry.retired \in SUBSET Boots
        /\ d \in Datagrams /\ d.at \in Positions /\ d.boot \in Boots
    BY GateTypes
  <1>2. CASE AcceptUnknownGateway(d)
    <2>1. accepted[g] = <<>>
      BY <1>1, <1>2 DEF AcceptUnknownGateway, GateInv, MemoryInv
    <2> QED BY <1>1, <1>2, <2>1, GateEnter DEF AcceptUnknownGateway
  <1>3. CASE AcceptNewBoot(d)
    <2> DEFINE R == entry.retired \union {entry.boot_id}
    <2>1. R \in SUBSET Boots /\ Enter(d, R) /\ d.boot \notin R
      BY <1>1, <1>3 DEF AcceptNewBoot
    <2>2. \A i \in DOMAIN accepted[g] : accepted[g][i].boot \in R
      BY <1>1 DEF GateInv, MemoryInv
    <2> HIDE DEF R
    <2>3. /\ \A i \in DOMAIN accepted[g] : accepted[g][i].boot \in R \union {d.boot}
          /\ \A i \in DOMAIN accepted[g] : accepted[g][i].boot # d.boot
      BY <2>1, <2>2
    <2> QED BY <1>1, <2>1, <2>3, GateEnter
  <1>4. CASE AcceptNewer(d)
    <2>1. /\ entry.known /\ d.boot = entry.boot_id /\ Enter(d, entry.retired)
          /\ Newer(d.at.sequence, entry.sequence)
      BY <1>4 DEF AcceptNewer
    <2>2. accepted[g] # <<>> /\ Last(g).boot = d.boot /\ Last(g).at.sequence = entry.sequence
          /\ d.boot \notin entry.retired
      BY <1>1, <2>1 DEF GateInv, MemoryInv
    <2>3. Len(accepted[g]) \in DOMAIN accepted[g] /\ Last(g) \in Datagrams
      BY <1>1, <2>2 DEF TypeOK, Last
    <2>4. Before(Last(g).at, d.at)
      <3>1. Before(Last(g).at, position[g][d.boot]) /\ Before(d.at, position[g][d.boot])
        BY <1>1, <2>2, <2>3 DEF GateInv, MemoryInv, Last
      <3>2. WithinLag(d.at, position[g][d.boot]) /\ position[g][d.boot] \in Positions
            /\ Last(g).at \in Positions
        BY <1>1, <2>3 DEF Deliver, Deliverable, TypeOK, Datagrams
      <3> QED BY <1>1, <2>1, <2>2, <3>1, <3>2, NewerIsLater
    <2>5. \A i \in DOMAIN accepted[g] : accepted[g][i].boot \in entry.retired \union {d.boot}
      BY <1>1, <2>1 DEF GateInv, MemoryInv
    <2> QED BY <1>1, <2>1, <2>2, <2>4, <2>5, GateEnter
  <1>5. CASE Reject(d)
    BY <1>5 DEF Reject, vars, GateInv, MemoryInv, NoDuplicateBatch, RetiredStaysRetired, Last
  <1> QED BY <1>2, <1>3, <1>4, <1>5 DEF Deliver

LEMMA GateStep == TypeOK /\ GateInv /\ [Next]_vars => GateInv'
  <1> SUFFICES ASSUME TypeOK, GateInv, [Next]_vars PROVE GateInv'
    OBVIOUS
  <1> USE DEF GateInv, MemoryInv, NoDuplicateBatch, RetiredStaysRetired, Last
  <1>1. ASSUME NEW g \in Gateways, RebootGateway(g) PROVE GateInv'
    BY <1>1 DEF RebootGateway
  <1>2. CASE BridgeRestart
    <2>0. DOMAIN <<>> = {}
      OBVIOUS
    <2>1. \A g \in Gateways :
            accepted'[g] = <<>> /\ DOMAIN accepted'[g] = {} /\ states'[g] = Unknown
      BY <1>2, <2>0 DEF BridgeRestart
    <2>2. UNCHANGED <<position, network>>
      BY <1>2 DEF BridgeRestart
    <2>3. MemoryInv'
      <3>1. Unknown.known = FALSE /\ Unknown.boot_id \notin Unknown.retired
        BY DEF Unknown
      <3>2. \A d \in network' : Before(d.at, position'[d.gateway][d.boot])
        BY <2>2
      <3> QED BY <2>1, <3>1, <3>2
    <2>4. NoDuplicateBatch' /\ RetiredStaysRetired'
      BY <2>1
    <2> QED BY <2>3, <2>4 DEF GateInv
  <1>3. CASE UNCHANGED vars
    BY <1>3 DEF vars
  <1> QED BY <1>1, <1>2, <1>3, GateSend, GateDeliver DEF Next

LEMMA GateAlways == Spec => [](TypeOK /\ GateInv)
  BY GateTypeInit, GateTypeStep, GateInit, GateStep, PTL DEF Spec

-----------------------------------------------------------------------------
(* A network that delivers nothing across a reboot of the gateway *)

\* Everything the gate has seen is of the gateway's boot or an earlier one.
PromptInv ==
    \A g \in Gateways \ late :
        /\ states[g].known => states[g].boot_id <= boot[g]
        /\ \A b \in states[g].retired : b < boot[g]

LEMMA PromptStep ==
    TypeOK /\ PromptInv /\ [Next]_vars => PromptInv'
  <1> SUFFICES ASSUME TypeOK, PromptInv, [Next]_vars PROVE PromptInv'
    OBVIOUS
  <1>0. \A g \in Gateways : /\ boot[g] \in Nat /\ states[g].boot_id \in Nat
                           /\ \A b \in states[g].retired : b \in Nat
    BY GateTypes DEF Boots
  <1> USE <1>0 DEF PromptInv
  <1>1. ASSUME NEW g \in Gateways, SendBatch(g) \/ SendControl(g) PROVE PromptInv'
    BY <1>1 DEF SendBatch, SendControl
  <1>2. ASSUME NEW g \in Gateways, RebootGateway(g) PROVE PromptInv'
    BY <1>2 DEF RebootGateway, TypeOK
  <1>3. ASSUME NEW d \in network, Deliver(d) PROVE PromptInv'
    <2>1. d.gateway \in Gateways /\ late \subseteq late'
          /\ (d.gateway \notin late' => d.boot = boot[d.gateway])
      BY <1>3, GateTypes DEF Deliver
    <2>2. CASE AcceptUnknownGateway(d)
      BY <2>1, <2>2 DEF AcceptUnknownGateway, Enter, TypeOK
    <2>3. CASE AcceptNewBoot(d)
      BY <2>1, <2>3 DEF AcceptNewBoot, Enter, TypeOK
    <2>4. CASE AcceptNewer(d)
      BY <2>1, <2>4 DEF AcceptNewer, Enter, TypeOK
    <2>5. CASE Reject(d)
      BY <2>1, <2>5 DEF Reject
    <2> QED BY <1>3, <2>2, <2>3, <2>4, <2>5 DEF Deliver
  <1>4. CASE BridgeRestart
    BY <1>4 DEF BridgeRestart, Unknown
  <1>5. CASE UNCHANGED vars
    BY <1>5 DEF vars
  <1> QED BY <1>1, <1>2, <1>3, <1>4, <1>5 DEF Next

\* If no datagram outlives the boot that sent it, the gate never silences a live
\* gateway.
THEOREM PromptNetworkKeepsLiveBoot == Spec => []LiveBootNotRetired
  <1>1. Init => PromptInv
    <2>1. Unknown.known = FALSE /\ Unknown.retired = {}
      BY DEF Unknown
    <2>2. Init => \A g \in Gateways : states[g] = Unknown
      BY DEF Init
    <2> QED BY <2>1, <2>2 DEF PromptInv
  <1>2. TypeOK /\ PromptInv => LiveBootNotRetired
    <2> SUFFICES ASSUME TypeOK, PromptInv, NEW g \in Gateways \ late, boot[g] \in states[g].retired
                 PROVE  FALSE
      BY DEF LiveBootNotRetired
    <2>1. boot[g] \in Nat /\ boot[g] < boot[g]
      BY GateTypes DEF PromptInv, Boots
    <2> QED BY <2>1
  <1>3. TypeOK /\ PromptInv /\ [Next]_vars => PromptInv'
    BY PromptStep
  <1> QED BY <1>1, <1>2, <1>3, GateTypeCorrect, PTL DEF Spec

-----------------------------------------------------------------------------
(* The promises *)

\* Each batch of a boot reaches the hub at most once and in sending order, also
\* across the wrap-around of its sequence number.
THEOREM BatchesOnceInOrder == Spec => []NoDuplicateBatch
  <1>1. GateInv => NoDuplicateBatch
    BY DEF GateInv
  <1> QED BY <1>1, GateAlways, PTL

\* The gate never returns to a boot it left, whatever the network delivers.
THEOREM NoReturnToRetiredBoot == Spec => []RetiredStaysRetired
  <1>1. GateInv => RetiredStaysRetired
    BY DEF GateInv
  <1> QED BY <1>1, GateAlways, PTL
=============================================================================
