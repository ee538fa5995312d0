--------------------------- MODULE ReportBuilder ----------------------------
(***************************************************************************)
(* report_builder.c: the ring of RF records on its way to the SPI bridge,  *)
(* in which a packet replaces the one of the same tracker that still       *)
(* waits, and the round-robin announcement of the paired trackers in the   *)
(* record slots that a report has left.  Every operation runs under the    *)
(* spinlock of the file and is one action.                                 *)
(*                                                                         *)
(* A data record is the tracker's id, the device that sent it and a stamp; *)
(* the ring is the sequence of its entries between read_index and          *)
(* write_index.  Times count in units of REGISTRATION_PERIOD_MS / Period.  *)
(***************************************************************************)
EXTENDS Naturals, Sequences, FiniteSetsExt, SequencesExt

CONSTANTS
    Devices,        \* trackers that may be paired, by their 48-bit address
    NoDevice,       \* address 0, an id that nobody has
    MaxTrackers,    \* SMOL_MAX_TRACKERS
    QueueSize,      \* REPORT_QUEUE_SIZE: one entry of the ring stays empty
    ReportRecords,  \* SV_SMOL_DATA_RECORDS
    Period,         \* REGISTRATION_PERIOD_MS
    Stamps          \* bound: data packets are stamped modulo this number

ASSUME ReportAssumption ==
    /\ MaxTrackers \in Nat \ {0} /\ QueueSize \in Nat \ {0}
    /\ ReportRecords \in Nat \ {0} /\ Period \in Nat /\ Stamps \in Nat \ {0}
    /\ NoDevice \notin Devices

VARIABLES
    queue,              \* the records of the ring, oldest first
    tracker_addresses,  \* whom each id belongs to
    cursor,             \* registration_cursor
    age,                \* time since last_registration_ms, counted to Period
    announced,          \* ids announced by the last report
    newest,             \* ghost: the stamp of the last data packet from each id
    passes              \* ghost: passes[i][j] announcements of j since that of i

vars == <<queue, tracker_addresses, cursor, age, announced, newest, passes>>

Ids == 0..(MaxTrackers - 1)
DataRecords == [kind : {"data"}, id : Ids, device : Devices, stamp : 0..(Stamps - 1)]
Diagnostic == [kind |-> "diagnostic"]
NoAddresses == [i \in Ids |-> NoDevice]
NoPasses == [i \in Ids |-> 0]

\* has_registration() is Registered # {}.
Registered == {i \in Ids : tracker_addresses[i] # NoDevice}

Waiting(id) == {k \in 1..Len(queue) : queue[k].kind = "data" /\ queue[k].id = id}

Init ==
    /\ queue = <<>>
    /\ tracker_addresses = NoAddresses
    /\ cursor = 0
    /\ age = Period
    /\ announced = {}
    /\ newest = [i \in Ids |-> 0]
    /\ passes = [i \in Ids |-> NoPasses]

-----------------------------------------------------------------------------
(* The radio interrupt *)

\* add_tracker() gives an id to nobody but the device that has it.
SetTracker(id, device) ==
    /\ tracker_addresses[id] \in {NoDevice, device}
    /\ tracker_addresses' = [tracker_addresses EXCEPT ![id] = device]
    /\ passes' = IF id \in Registered THEN passes ELSE [passes EXCEPT ![id] = NoPasses]
    /\ UNCHANGED <<queue, cursor, age, announced, newest>>

\* Fault: the ring is full only when no entry is left, which reads as an empty ring.
AppendedToLast(record) == IF Len(queue) < QueueSize THEN Append(queue, record) ELSE queue

\* The record is dropped when the ring is full.
Appended(record) ==
    IF Len(queue) < QueueSize - 1 THEN Append(queue, record) ELSE queue

\* Fault: the packet joins the end of the ring whatever waits there.
EnqueuedLast(record) == Appended(record)

\* Fault: the replaced packet loses its place in the ring.
EnqueuedAgain(record) ==
    IF Waiting(record.id) # {}
    THEN Append(RemoveAt(queue, Min(Waiting(record.id))), record)
    ELSE Appended(record)

\* report_builder_enqueue() with replace_sensor_data
Enqueued(record) ==
    IF Waiting(record.id) # {}
    THEN [queue EXCEPT ![Min(Waiting(record.id))] = record]
    ELSE Appended(record)

ReceiveData(id) ==
    /\ id \in Registered
    /\ newest' = [newest EXCEPT ![id] = (@ + 1) % Stamps]
    /\ queue' = Enqueued([kind |-> "data", id |-> id, device |-> tracker_addresses[id],
                          stamp |-> newest'[id]])
    /\ UNCHANGED <<tracker_addresses, cursor, age, announced, passes>>

\* A packet with a wrong CRC leaves a record that replaces none.
ReceiveGarbled ==
    /\ queue' = Appended(Diagnostic)
    /\ UNCHANGED <<tracker_addresses, cursor, age, announced, newest, passes>>

-----------------------------------------------------------------------------
(* The commands and the SPI thread *)

\* Fault: the waiting records survive the clearing.
ClearTrackersOnly ==
    /\ tracker_addresses' = NoAddresses
    /\ cursor' = 0
    /\ newest' = [i \in Ids |-> 0]
    /\ passes' = [i \in Ids |-> NoPasses]
    /\ UNCHANGED <<queue, age, announced>>

ClearTrackers ==
    /\ tracker_addresses' = NoAddresses
    /\ queue' = <<>>
    /\ cursor' = 0
    /\ newest' = [i \in Ids |-> 0]
    /\ passes' = [i \in Ids |-> NoPasses]
    /\ UNCHANGED <<age, announced>>

\* Fault: the scan starts from the first id every time.
NextFromFirst(c) == Min(Registered)

\* The first id in use at or after the cursor, around the table.
NextFrom(c) ==
    CHOOSE i \in Registered :
        \A j \in Registered : (i + MaxTrackers - c) % MaxTrackers
                                  <= (j + MaxTrackers - c) % MaxTrackers

\* Fault: the id at the cursor is announced again.
AfterSame(id) == id

After(id) == (id + 1) % MaxTrackers

Passed(p, id) ==
    [i \in Ids |-> IF i = id THEN NoPasses
                   ELSE [p[i] EXCEPT ![id] = Min({@ + 1, 2})]]

\* What n calls of next_registration() leave: each one announces an id and moves the cursor.
Registrations(n) ==
    LET slot[k \in 0..n] ==
            IF k = 0 THEN [cursor |-> cursor, ids |-> {}, passes |-> passes]
            ELSE LET before == slot[k - 1]
                     id == NextFrom(before.cursor)
                 IN  [cursor |-> After(id), ids |-> before.ids \union {id},
                      passes |-> Passed(before.passes, id)]
    IN  slot[n]

\* Fault: registrations only leave with a report that has no records.
FreeWhenIdle(taken) ==
    IF taken > 0 \/ Registered = {} THEN 0 ELSE ReportRecords

FreeSlots(taken) == IF Registered = {} THEN 0 ELSE ReportRecords - taken

RegistrationDue == Registered # {} /\ age >= Period

Taken == Min({ReportRecords, Len(queue)})

\* report_builder_next() when it returns a report
Report ==
    LET free == FreeSlots(Taken)
    IN  /\ Taken > 0 \/ RegistrationDue
        /\ queue' = SubSeq(queue, Taken + 1, Len(queue))
        /\ age' = IF RegistrationDue \/ free > 0 THEN 0 ELSE age
        /\ \E registrations \in {Registrations(free)} :
              /\ announced' = registrations.ids
              /\ cursor' = registrations.cursor
              /\ passes' = registrations.passes
        /\ UNCHANGED <<tracker_addresses, newest>>

Tick ==
    /\ age < Period
    /\ age' = age + 1
    /\ UNCHANGED <<queue, tracker_addresses, cursor, announced, newest, passes>>

Next ==
    \/ \E id \in Ids, device \in Devices : SetTracker(id, device)
    \/ \E id \in Ids : ReceiveData(id)
    \/ ReceiveGarbled
    \/ ClearTrackers
    \/ Report
    \/ Tick

Spec == Init /\ [][Next]_vars

\* The SPI thread prepares a transfer whenever the ESP32 has clocked one, and at
\* most every other transfer carries a response; time passes.
FairSpec == Spec /\ WF_vars(Report) /\ WF_vars(Tick)

-----------------------------------------------------------------------------
(* Properties *)

\* The types of the variables; the ring keeps one entry empty.
TypeOK ==
    /\ queue \in Seq(DataRecords \union {Diagnostic})
    /\ Len(queue) <= QueueSize - 1
    /\ tracker_addresses \in [Ids -> Devices \union {NoDevice}]
    /\ cursor \in Ids
    /\ age \in 0..Period
    /\ announced \subseteq Ids
    /\ newest \in [Ids -> 0..(Stamps - 1)]
    /\ passes \in [Ids -> [Ids -> 0..2]]

\* A waiting packet is the newest one of its tracker, the only one, and comes
\* from the device that has the id now: neither a packet that was superseded nor
\* one from before the trackers were cleared reaches the host.
QueuedIsNewest ==
    \A k \in 1..Len(queue) : queue[k].kind = "data" =>
        /\ queue[k].stamp = newest[queue[k].id]
        /\ queue[k].device = tracker_addresses[queue[k].id]
        /\ Waiting(queue[k].id) = {k}

\* No tracker is announced twice while another one waits for its turn.
RoundRobin == \A i, j \in Registered : passes[i][j] <= 1

\* A tracker whose packet waits gets into a report, however fast it and the
\* others send: a replaced packet keeps its place in the ring.
NoTrackerStarves ==
    \A id \in Ids : Waiting(id) # {} ~> Waiting(id) = {}

ReportWithRoom == Taken < ReportRecords /\ Report

\* If a report now and then has a slot left, every paired tracker is announced
\* again and again, although a full report restarts the registration period.
EveryTrackerAnnounced ==
    []<><<ReportWithRoom>>_vars =>
        \A id \in Ids : [](id \in Registered => <>(id \in announced \/ id \notin Registered))
=============================================================================
