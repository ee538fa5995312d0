---------------------------- MODULE ReceiverHub -----------------------------
(***************************************************************************)
(* hub.rs and dedup.rs: several receivers hear the broadcasts of the same  *)
(* trackers; the hub names the tracker of each record by the registrations *)
(* of its receiver and lets one copy of each broadcast through a sequence  *)
(* gate that all receivers share.                                          *)
(*                                                                         *)
(* A receiver hears any part of the broadcasts and its records reach the   *)
(* hub in order, each within MaxDelay of the broadcast or never; a record  *)
(* that is lost or superseded on the way is one the receiver did not hear. *)
(* Records without RF v2 metadata pass by the gate and are left out.  A    *)
(* CRC diagnostic has an id that is never registered: ingest() skips it.   *)
(***************************************************************************)
EXTENDS Naturals, Sequences

CONSTANTS
    Sources,        \* receivers, by HID path or gateway ID
    Trackers,       \* 48-bit tracker addresses
    NoTracker,      \* nobody has the id
    LocalIds,       \* ids of a receiver's table
    Modulus,        \* RF sequence numbers (256)
    ResetAfter,     \* reset_after_ms
    MaxDelay,       \* of a record from the radio to the hub
    FirstSequence,  \* bound: the number of the first broadcast of each tracker
    MaxPackets,     \* bound: broadcasts of all trackers
    MaxReassigned   \* bound: ids given to another tracker

ASSUME HubConstants ==
    /\ Modulus \in Nat \ {0} /\ ResetAfter \in Nat /\ MaxDelay \in Nat
    /\ FirstSequence \in 0..(Modulus - 1)
    /\ MaxPackets \in Nat /\ MaxReassigned \in Nat
    /\ NoTracker \notin Trackers

\* A copy is never as late as the silence after which a sequence starts afresh,
\* and the broadcasts of that time, at most one in a unit of it, are fewer than
\* half the sequence numbers.
ASSUME DelayAssumption ==
    /\ MaxDelay < ResetAfter
    /\ 2 * (ResetAfter + MaxDelay) <= Modulus

VARIABLES
    local_to_address,   \* the registrations the hub has, by source and local id
    gate,               \* the sequence gate's state of each tracker
    assigned,           \* the table of each receiver
    registered,         \* ghost: ids announced since they were given to their tracker
    transit,            \* the records of each receiver on their way to the hub
    sequence,           \* the RF sequence number of each tracker's next broadcast
    quiet,              \* the time since each tracker's last broadcast
    sent,               \* ghost: broadcasts of each tracker
    passed,             \* ghost: the last broadcast of each tracker that was passed
    heard,              \* ghost: the latest broadcast that got as far as the gate
    repeated,           \* ghost: trackers with a broadcast passed twice or late
    confused,           \* ghost: a record was passed for another tracker
    broadcasts,         \* those of all trackers, counted to MaxPackets
    reassigned          \* counted to MaxReassigned

receivers == <<assigned, registered, transit, sequence, quiet, sent, broadcasts, reassigned>>
ghosts == <<passed, heard, repeated, confused>>
vars == <<local_to_address, gate, receivers, ghosts>>

Off == ResetAfter + MaxDelay
Unknown == [known |-> FALSE]
States == [known : {TRUE}, sequence : 0..(Modulus - 1), age : 0..ResetAfter]
Records ==
    [kind : {"registration"}, id : LocalIds, tracker : Trackers, age : 0..MaxDelay]
        \union
    [kind : {"data"}, id : LocalIds, tracker : Trackers, age : 0..MaxDelay,
     sequence : 0..(Modulus - 1), number : 1..MaxPackets, announced : BOOLEAN]

Init ==
    /\ local_to_address = [s \in Sources |-> [i \in LocalIds |-> NoTracker]]
    /\ gate = [t \in Trackers |-> Unknown]
    /\ assigned \in [Sources -> [LocalIds -> Trackers \union {NoTracker}]]
    /\ registered = {}
    /\ transit = [s \in Sources |-> <<>>]
    /\ sequence = [t \in Trackers |-> FirstSequence]
    /\ quiet = [t \in Trackers |-> Off]
    /\ sent = [t \in Trackers |-> 0]
    /\ passed = [t \in Trackers |-> 0]
    /\ heard = [t \in Trackers |-> 0]
    /\ repeated = {}
    /\ confused = FALSE
    /\ broadcasts = 0
    /\ reassigned = 0

-----------------------------------------------------------------------------
(* The trackers and the receivers *)

IdsOf(s, t) == {i \in LocalIds : assigned[s][i] = t}

NextSequence(n) == (n + 1) % Modulus

\* A tracker's packet is heard by some of the receivers it belongs to.
Broadcast(t, hearing) ==
    /\ broadcasts < MaxPackets /\ quiet[t] >= 1
    /\ \A s \in hearing : IdsOf(s, t) # {}
    /\ broadcasts' = broadcasts + 1
    /\ sent' = [sent EXCEPT ![t] = @ + 1]
    /\ sequence' = [sequence EXCEPT ![t] = NextSequence(@)]
    /\ quiet' = [quiet EXCEPT ![t] = 0]
    /\ \E id \in [hearing -> LocalIds] :
        /\ \A s \in hearing : id[s] \in IdsOf(s, t)
        /\ transit' = [s \in Sources |->
            IF s \notin hearing THEN transit[s]
            ELSE Append(transit[s], [kind |-> "data", id |-> id[s], tracker |-> t, age |-> 0,
                                     sequence |-> sequence[t], number |-> sent'[t],
                                     announced |-> <<s, id[s]>> \in registered])]
    /\ UNCHANGED <<local_to_address, gate, assigned, registered, reassigned, ghosts>>

\* A tracker that was off starts its numbering afresh.
TrackerRestart(t) ==
    /\ quiet[t] = Off /\ sequence[t] # 0
    /\ sequence' = [sequence EXCEPT ![t] = 0]
    /\ UNCHANGED <<local_to_address, gate, assigned, registered, transit, quiet, sent,
                   broadcasts, reassigned, ghosts>>

\* A receiver announces every id it has again and again; only the first time is
\* news to the hub.
Announce(s, id) ==
    /\ assigned[s][id] # NoTracker
    /\ <<s, id>> \notin registered
    /\ transit' = [transit EXCEPT ![s] =
        Append(@, [kind |-> "registration", id |-> id, tracker |-> assigned[s][id], age |-> 0])]
    /\ registered' = registered \union {<<s, id>>}
    /\ UNCHANGED <<local_to_address, gate, assigned, sequence, quiet, sent,
                   broadcasts, reassigned, ghosts>>

\* The receiver's table is cleared and another tracker paired under the id.
Reassign(s, id, t) ==
    /\ reassigned < MaxReassigned
    /\ assigned[s][id] # t
    /\ reassigned' = reassigned + 1
    /\ assigned' = [assigned EXCEPT ![s][id] = t]
    /\ registered' = registered \ {<<s, id>>}
    /\ UNCHANGED <<local_to_address, gate, transit, sequence, quiet, sent, broadcasts, ghosts>>

\* Time passes unless a record is due to arrive.
Tick ==
    /\ \A s \in Sources : \A k \in 1..Len(transit[s]) : transit[s][k].age < MaxDelay
    /\ quiet' = [t \in Trackers |-> IF quiet[t] < Off THEN quiet[t] + 1 ELSE Off]
    /\ transit' = [s \in Sources |->
        [k \in 1..Len(transit[s]) |-> [transit[s][k] EXCEPT !.age = @ + 1]]]
    /\ gate' = [t \in Trackers |->
        IF gate[t].known /\ gate[t].age < ResetAfter THEN [gate[t] EXCEPT !.age = @ + 1]
                                                     ELSE gate[t]]
    /\ UNCHANGED <<local_to_address, assigned, registered, sequence, sent,
                   broadcasts, reassigned, ghosts>>

-----------------------------------------------------------------------------
(* The hub *)

Arrived(s) == Head(transit[s])

Arrive(s) ==
    /\ transit[s] # <<>>
    /\ transit' = [transit EXCEPT ![s] = Tail(@)]
    /\ UNCHANGED <<assigned, registered, sequence, quiet, sent, broadcasts, reassigned>>

\* Fault: an id keeps the address it was first registered with.
RegisteredOnce(s, id, t) ==
    IF local_to_address[s][id] = NoTracker
    THEN [local_to_address EXCEPT ![s][id] = t] ELSE local_to_address

RegisteredAs(s, id, t) == [local_to_address EXCEPT ![s][id] = t]

IngestRegistration(s) ==
    /\ Arrive(s) /\ Arrived(s).kind = "registration"
    /\ local_to_address' = RegisteredAs(s, Arrived(s).id, Arrived(s).tracker)
    /\ UNCHANGED <<gate, ghosts>>

\* The address of the record that has arrived.
Address(s) == local_to_address[s][Arrived(s).id]

ArriveData(s) ==
    /\ Arrive(s) /\ Arrived(s).kind = "data"
    /\ UNCHANGED local_to_address

IngestUnregistered(s) ==
    /\ ArriveData(s) /\ Address(s) = NoTracker
    /\ UNCHANGED <<gate, ghosts>>

\* Fault: the sequence numbers are compared as they are.
AheadUnwrapped(t, n) == n > gate[t].sequence

\* Fault: everything but the last sequence number is new.
AheadUnlessEqual(t, n) == n # gate[t].sequence

\* sequence.wrapping_sub(previous.sequence) is in 1..=127.
Ahead(t, n) ==
    (n + Modulus - gate[t].sequence) % Modulus \in 1..(Modulus \div 2 - 1)

\* A tracker that is unknown or was silent for long starts afresh.
Fresh(t, n) == gate[t].known /\ gate[t].age < ResetAfter => Ahead(t, n)

\* Fault: the gate keeps the number it expects next, without its width.
PreviousExpected(n) == [known |-> TRUE, sequence |-> n + 1, age |-> 0]

Previous(n) == [known |-> TRUE, sequence |-> n, age |-> 0]

\* The ghost records of an arrival at the gate, that is passed or not.
Noted(s, pass) ==
    LET t == Arrived(s).tracker
        n == Arrived(s).number
    IN  /\ heard' = [heard EXCEPT ![t] = IF n > @ THEN n ELSE @]
        /\ passed' = IF pass THEN [passed EXCEPT ![t] = n] ELSE passed
        /\ repeated' = IF pass /\ n <= passed[t] THEN repeated \union {t} ELSE repeated
        /\ confused' = (confused \/ Address(s) # t)

IngestAccepted(s) ==
    LET t == Address(s)
        n == Arrived(s).sequence
    IN  /\ ArriveData(s) /\ t # NoTracker
        /\ Fresh(t, n)
        /\ gate' = [gate EXCEPT ![t] = Previous(n)]
        /\ Noted(s, TRUE)

\* A duplicate or a stale packet proves that the tracker is there.
IngestRejected(s) ==
    LET t == Address(s)
        n == Arrived(s).sequence
    IN  /\ ArriveData(s) /\ t # NoTracker
        /\ ~ Fresh(t, n)
        /\ gate' = [gate EXCEPT ![t].age = 0]
        /\ Noted(s, FALSE)

Ingest(s) ==
    \/ IngestRegistration(s)
    \/ IngestUnregistered(s)
    \/ IngestAccepted(s)
    \/ IngestRejected(s)

Next ==
    \/ \E t \in Trackers, hearing \in SUBSET Sources : Broadcast(t, hearing)
    \/ \E t \in Trackers : TrackerRestart(t)
    \/ \E s \in Sources, id \in LocalIds : Announce(s, id)
    \/ \E s \in Sources, id \in LocalIds, t \in Trackers : Reassign(s, id, t)
    \/ Tick
    \/ \E s \in Sources : Ingest(s)

Spec == Init /\ [][Next]_vars

-----------------------------------------------------------------------------
(* Properties *)

\* The types of the variables.
TypeOK ==
    /\ local_to_address \in [Sources -> [LocalIds -> Trackers \union {NoTracker}]]
    /\ gate \in [Trackers -> States \union {Unknown}]
    /\ assigned \in [Sources -> [LocalIds -> Trackers \union {NoTracker}]]
    /\ registered \subseteq Sources \X LocalIds
    /\ transit \in [Sources -> Seq(Records)]
    /\ sequence \in [Trackers -> 0..(Modulus - 1)]
    /\ quiet \in [Trackers -> 0..Off]
    /\ sent \in [Trackers -> 0..MaxPackets]
    /\ passed \in [Trackers -> 0..MaxPackets]
    /\ heard \in [Trackers -> 0..MaxPackets]
    /\ repeated \subseteq Trackers
    /\ confused \in BOOLEAN
    /\ broadcasts \in 0..MaxPackets
    /\ reassigned \in 0..MaxReassigned

\* Every broadcast is passed at most once, and never after a later one of the
\* same tracker, however many receivers heard it and however late one of them is.
FirstCopyOnly == ~ confused => repeated = {}

\* The gate keeps nothing back that is newer than all it has seen of a tracker,
\* not after a gap, a wrap of the sequence number or a restart of the tracker.
NewestPassed == ~ confused => heard = passed

\* Once a receiver has announced who has an id, the records it sends under that id
\* are given to that tracker, although the hub knew the id as another one's.
AnnouncedAttributed ==
    \A s \in Sources : transit[s] # <<>> =>
        (Arrived(s).kind = "data" /\ Arrived(s).announced => Address(s) = Arrived(s).tracker)
=============================================================================
