---------------------------- MODULE DatagramGate ----------------------------
(***************************************************************************)
(* Report batches from the Wi-Fi gateways to the Bridge: send_message() of *)
(* gateway_udp.c numbers every datagram of a boot, the network loses,      *)
(* duplicates and reorders them, and GatewayDatagramGate::accept() of      *)
(* gateway.rs decides which batches reach the hub.                         *)
(*                                                                         *)
(* A position of a boot is a pair of the wrapped sequence number, which is *)
(* all the code sees, and the ghost count of its wrap-arounds (epoch).     *)
(* Boot IDs are random in the code; here the n-th boot of a gateway has ID *)
(* n, so two boots never draw the same ID.                                 *)
(***************************************************************************)
EXTENDS Naturals, Sequences

CONSTANTS
    Gateways,           \* gateway IDs (MAC addresses)
    SeqMod,             \* sequence numbers are u32: 2^32 in the code
    MaxLag,             \* a datagram is delivered before MaxLag later ones are sent
    MaxBoots,           \* bound: boots of a gateway
    MaxEpoch,           \* bound: wrap-arounds of a boot's sequence number
    MaxBridgeRestarts   \* bound: restarts of the Bridge

\* wrapping_sub() results from Half on mean "not newer": 0x8000_0000 in the code.
Half == SeqMod \div 2

ASSUME SeqModAssumption == SeqMod \in Nat /\ SeqMod >= 2
ASSUME MaxLagAssumption == MaxLag \in Nat /\ MaxLag <= Half
ASSUME GateBoundsAssumption ==
    MaxBoots \in Nat /\ MaxBoots >= 1 /\ MaxEpoch \in Nat /\ MaxBridgeRestarts \in Nat

VARIABLES
    boot,       \* boot[g]: the current boot of gateway g
    position,   \* position[g][b]: number of the next datagram of boot b
    network,    \* batches on their way; each may arrive any number of times
    states,     \* states[g]: the gate's entry for g
    accepted,   \* ghost: batches accepted since the Bridge started, in order
    late,       \* ghost: gateways a datagram of which arrived after they had rebooted
    restarts    \* restarts of the Bridge

vars == <<boot, position, network, states, accepted, late, restarts>>

Boots == 1..MaxBoots
Positions == [epoch : Nat, sequence : 0..(SeqMod - 1)]
Datagrams == [gateway : Gateways, boot : Boots, at : Positions]

Start == [epoch |-> 0, sequence |-> 0]

\* Fault: the wrap-around is forgotten.
NextUnwrapped(p) == [p EXCEPT !.sequence = @ + 1]

\* sequence++
NextPosition(p) ==
    IF p.sequence + 1 = SeqMod
    THEN [epoch |-> p.epoch + 1, sequence |-> 0]
    ELSE [epoch |-> p.epoch, sequence |-> p.sequence + 1]

Before(p, q) ==
    \/ p.epoch < q.epoch
    \/ p.epoch = q.epoch /\ p.sequence < q.sequence

\* At most MaxLag datagrams from p on, of which q is the next to be sent.
WithinLag(p, q) ==
    \/ p.epoch = q.epoch /\ q.sequence - p.sequence <= MaxLag
    \/ p.epoch + 1 = q.epoch /\ q.sequence + SeqMod - p.sequence <= MaxLag

\* u32::wrapping_sub
WrappingSub(a, b) == IF a >= b THEN a - b ELSE a + SeqMod - b

\* A gateway the map has no entry for; boot_id and sequence mean nothing then.
Unknown == [known |-> FALSE, boot_id |-> 1, sequence |-> 0, retired |-> {}]

Init ==
    /\ boot = [g \in Gateways |-> 1]
    /\ position = [g \in Gateways |-> [b \in Boots |-> Start]]
    /\ network = {}
    /\ states = [g \in Gateways |-> Unknown]
    /\ accepted = [g \in Gateways |-> <<>>]
    /\ late = {}
    /\ restarts = 0

-----------------------------------------------------------------------------
(* The gateway *)

Advance(g) ==
    /\ NextPosition(position[g][boot[g]]).epoch <= MaxEpoch
    /\ position' = [position EXCEPT ![g][boot[g]] = NextPosition(@)]

\* The datagrams that may still arrive after the next one of g has been sent.
StillPending(g) ==
    {d \in network : d.gateway = g /\ d.boot = boot[g]
                        => WithinLag(d.at, NextPosition(position[g][boot[g]]))}

SendBatch(g) ==
    /\ Advance(g)
    /\ network' = StillPending(g)
          \union {[gateway |-> g, boot |-> boot[g], at |-> position[g][boot[g]]]}
    /\ UNCHANGED <<boot, states, accepted, late, restarts>>

\* HELLO and DISCOVER take a number too, but are no batch.
SendControl(g) ==
    /\ Advance(g)
    /\ network' = StillPending(g)
    /\ UNCHANGED <<boot, states, accepted, late, restarts>>

RebootGateway(g) ==
    /\ boot[g] < MaxBoots
    /\ boot' = [boot EXCEPT ![g] = @ + 1]
    /\ UNCHANGED <<position, network, states, accepted, late, restarts>>

-----------------------------------------------------------------------------
(* The Bridge: GatewayDatagramGate::accept() on a report batch *)

Deliverable(d) ==
    /\ d \in network
    /\ WithinLag(d.at, position[d.gateway][d.boot])

Enter(d, retired) ==
    /\ states' = [states EXCEPT ![d.gateway] =
                    [known |-> TRUE, boot_id |-> d.boot, sequence |-> d.at.sequence,
                     retired |-> retired]]
    /\ accepted' = [accepted EXCEPT ![d.gateway] = Append(@, d)]
    /\ UNCHANGED <<boot, position, network, restarts>>

AcceptUnknownGateway(d) ==
    /\ ~states[d.gateway].known
    /\ Enter(d, {})

\* Fault: the retired boots are not consulted.
AcceptAnyBoot(d) ==
    LET previous == states[d.gateway] IN
    /\ previous.known
    /\ d.boot # previous.boot_id
    /\ Enter(d, previous.retired \union {previous.boot_id})

\* Fault: the new boot is retired instead of the former one.
RetireNewBoot(d) ==
    LET previous == states[d.gateway] IN
    /\ previous.known
    /\ d.boot # previous.boot_id
    /\ d.boot \notin previous.retired
    /\ Enter(d, previous.retired \union {d.boot})

AcceptNewBoot(d) ==
    LET previous == states[d.gateway] IN
    /\ previous.known
    /\ d.boot # previous.boot_id
    /\ d.boot \notin previous.retired
    /\ Enter(d, previous.retired \union {previous.boot_id})

\* Fault: the numbers are compared without regard to the wrap-around.
NewerUnwrapped(sequence, previous) == sequence > previous

Newer(sequence, previous) ==
    LET delta == WrappingSub(sequence, previous) IN delta # 0 /\ delta < Half

AcceptNewer(d) ==
    LET previous == states[d.gateway] IN
    /\ previous.known
    /\ d.boot = previous.boot_id
    /\ Newer(d.at.sequence, previous.sequence)
    /\ Enter(d, previous.retired)

\* The remaining batches change nothing.
Reject(d) ==
    LET previous == states[d.gateway] IN
    /\ previous.known
    /\ \/ d.boot # previous.boot_id /\ d.boot \in previous.retired
       \/ d.boot = previous.boot_id /\ ~Newer(d.at.sequence, previous.sequence)
    /\ UNCHANGED <<boot, position, network, states, accepted, restarts>>

Deliver(d) ==
    /\ Deliverable(d)
    /\ AcceptUnknownGateway(d) \/ AcceptNewBoot(d) \/ AcceptNewer(d) \/ Reject(d)
    /\ late' = IF d.boot = boot[d.gateway] THEN late ELSE late \union {d.gateway}

BridgeRestart ==
    /\ restarts < MaxBridgeRestarts
    /\ restarts' = restarts + 1
    /\ states' = [g \in Gateways |-> Unknown]
    /\ accepted' = [g \in Gateways |-> <<>>]
    /\ UNCHANGED <<boot, position, network, late>>

Next ==
    \/ \E g \in Gateways : SendBatch(g) \/ SendControl(g) \/ RebootGateway(g)
    \/ \E d \in network : Deliver(d)
    \/ BridgeRestart

Spec == Init /\ [][Next]_vars

-----------------------------------------------------------------------------
(* Properties *)

\* The types of the variables; sequence numbers stay within their width.
TypeOK ==
    /\ boot \in [Gateways -> Boots]
    /\ position \in [Gateways -> [Boots -> Positions]]
    /\ network \in SUBSET Datagrams
    /\ states \in [Gateways -> [known : BOOLEAN, boot_id : Boots,
                                sequence : 0..(SeqMod - 1), retired : SUBSET Boots]]
    /\ accepted \in [Gateways -> Seq(Datagrams)]
    /\ late \in SUBSET Gateways
    /\ restarts \in 0..MaxBridgeRestarts

\* The gate passes each batch of a boot at most once and in sending order, across
\* the wrap-around of the sequence number, whatever the network does within MaxLag.
NoDuplicateBatch ==
    \A g \in Gateways : \A i, j \in DOMAIN accepted[g] :
        i < j /\ accepted[g][i].boot = accepted[g][j].boot
            => Before(accepted[g][i].at, accepted[g][j].at)

\* Once another boot's batch has been passed, none of the former boot is passed
\* again: the accepted batches never alternate between two boots.
RetiredStaysRetired ==
    \A g \in Gateways : \A i, j \in DOMAIN accepted[g] :
        i < j /\ accepted[g][i].boot = accepted[g][j].boot
            => \A k \in i..j : accepted[g][k].boot = accepted[g][i].boot

\* As long as no datagram of a gateway outlives the boot that sent it, the gate never
\* retires the boot the gateway is running, whose batches it would then reject for good.
LiveBootNotRetired ==
    \A g \in Gateways \ late : boot[g] \notin states[g].retired
=============================================================================
