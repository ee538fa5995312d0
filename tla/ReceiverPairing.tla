-------------------------- MODULE ReceiverPairing ---------------------------
(***************************************************************************)
(* Who belongs to a receiver: the tracker table, group, pairing mode and   *)
(* radio of rf_receiver.c, its pairing-persistence queue and worker, and   *)
(* the NVS keys of receiver_storage.c, with power loss at every point      *)
(* between two flash operations.                                           *)
(*                                                                         *)
(* The era is a ghost clock that CLEAR_TRACKERS and SET_GROUP advance; a   *)
(* table entry and an NVS key carry the era in which they were paired.     *)
(* The calls into report_builder.c are left to that component.  If         *)
(* start_radio() fails during boot the receiver serves nothing until it is *)
(* booted again; such boots are left out.                                  *)
(***************************************************************************)
EXTENDS Naturals, Sequences, FiniteSets

CONSTANTS
    Addresses,      \* 48-bit tracker addresses
    NoTracker,      \* an empty table entry or a missing NVS key
    Own,            \* the receiver's own ID
    Groups,         \* group IDs that may be requested, Own among them
    MaxTrackers,    \* SMOL_MAX_TRACKERS
    QueueSize,      \* entries of pairing_persist_queue
    PageSize,       \* entries of a tracker page
    RadioMayFail,   \* start_radio() may return an error
    MaxEra,         \* bound: CLEAR_TRACKERS and SET_GROUP commands
    MaxFaults       \* bound: power losses, reboots and failing flash operations

ASSUME GroupsAssumption == Own \in Groups
ASSUME TableAssumption == MaxTrackers \in Nat /\ MaxTrackers >= 1 /\ QueueSize \in Nat
ASSUME PageAssumption == PageSize \in Nat \ {0}
ASSUME RadioAssumption == RadioMayFail \in BOOLEAN
ASSUME PairingBoundsAssumption ==
    MaxEra \in Nat /\ MaxFaults \in Nat

VARIABLES
    ram,          \* the static variables of rf_receiver.c and the state of the radio
    queue,        \* pairing_persist_queue
    worker,       \* persist_pairing_work_handler()
    control,      \* the command the SPI thread is executing
    storedCount,  \* tracker_count of receiver_storage.c
    nvs,          \* the flash keys
    acked,        \* ghost: pairings acknowledged since the last boot, clear or regroup
    era,          \* ghost: clears and regroups begun
    clearedEra,   \* ghost: the era of the last one that succeeded
    torn,         \* ghost: power was lost between the two writes of a pairing
    reboots, failures

vars == <<ram, queue, worker, control, storedCount, nvs, acked, era, clearedEra,
          torn, reboots, failures>>

Ids == 0..(MaxTrackers - 1)
Eras == 0..MaxEra
Entries == [address : Addresses, era : Eras] \union {NoTracker}

ASSUME NoTrackerAssumption == NoTracker \notin [address : Addresses, era : Eras]

EmptyTable == [i \in Ids |-> NoTracker]

Records == [id : Ids, tracker_count : 1..MaxTrackers, address : Addresses,
            generation : Eras, era : Eras]

Idle == [step |-> "idle"]
NoControl == [op |-> "none"]

\* state_mutex is held by the worker between its two writes and by a command
\* until it finishes.
MutexFree == worker.step # "count" /\ control.op = "none"

StopRadio(r) == [r EXCEPT !.radio.on = FALSE]

RadioStarted(r) ==
    IF r.radio_enabled
    THEN [r EXCEPT !.radio = [on |-> TRUE, pairing |-> r.pairing, group |-> r.group]]
    ELSE r

\* The outcomes of start_radio() with the radio stopped.
StartRadio(r) ==
    {RadioStarted(r)} \union (IF RadioMayFail THEN {r} ELSE {})

\* rf_receiver_init() from the keys n.
Boot(n) ==
    RadioStarted(
        [trackers |-> [i \in Ids |-> IF i < n.count THEN n.trackers[i] ELSE NoTracker],
         count |-> n.count,
         group |-> n.group,
         primary |-> n.group = Own,
         pairing |-> n.group = Own /\ n.count = 0,
         radio_enabled |-> TRUE,
         radio |-> [on |-> FALSE, pairing |-> FALSE, group |-> n.group],
         generation |-> 0])

\* A missing group key reads as 0, which means the receiver's own group.
EmptyNvs == [group |-> Own, count |-> 0, trackers |-> EmptyTable]

Init ==
    /\ nvs = EmptyNvs
    /\ ram = Boot(EmptyNvs)
    /\ queue = <<>>
    /\ worker = Idle
    /\ control = NoControl
    /\ storedCount = 0
    /\ acked = {}
    /\ era = 0
    /\ clearedEra = 0
    /\ torn = FALSE
    /\ reboots = 0
    /\ failures = 0

\* A flash operation that would make the keys n succeeds or fails.
Flash(n, ok) ==
    IF ok
    THEN nvs' = n /\ UNCHANGED failures
    ELSE reboots + failures < MaxFaults /\ failures' = failures + 1 /\ UNCHANGED nvs

-----------------------------------------------------------------------------
(* The radio interrupt *)

\* Fault: a known tracker is counted again.
AddCounted(r, id, a) ==
    [r EXCEPT !.trackers[id] = [address |-> a, era |-> era], !.count = @ + 1]

AddTracker(r, id, a) ==
    [r EXCEPT !.trackers[id] = [address |-> a, era |-> era],
              !.count = IF id >= @ THEN id + 1 ELSE @]

\* add_tracker() refuses an id that another address occupies.
Free(r, id, a) ==
    r.trackers[id] # NoTracker => r.trackers[id].address = a

IdsOf(a) == {i \in 0..(ram.count - 1) : ram.trackers[i] # NoTracker /\ ram.trackers[i].address = a}

\* Fault: a known tracker gets a new id.
PairNextId(a) == ram.count

\* The first id of a known address, else the next one.
PairId(a) ==
    IF IdsOf(a) = {} THEN ram.count
    ELSE CHOOSE i \in IdsOf(a) : \A j \in IdsOf(a) : i <= j

PairAllowed(a) ==
    /\ ram.radio.on /\ ram.radio.pairing
    /\ ram.primary /\ ram.pairing
    /\ PairId(a) < MaxTrackers
    /\ Free(ram, PairId(a), a)

\* handle_pair_request(): the record is queued and the tracker is answered.
PairAcknowledged(a) ==
    /\ PairAllowed(a)
    /\ Len(queue) < QueueSize
    /\ ram' = AddTracker(ram, PairId(a), a)
    /\ queue' = Append(queue,
                    [id |-> PairId(a), tracker_count |-> ram'.count, address |-> a,
                     generation |-> ram.generation, era |-> era])
    /\ acked' = acked \union {[id |-> PairId(a), address |-> a]}
    /\ UNCHANGED <<worker, control, storedCount, nvs, era, clearedEra, torn, reboots, failures>>

\* Fault: the tracker is answered although its record was not queued.
PairUnqueued(a) ==
    /\ PairAllowed(a)
    /\ Len(queue) = QueueSize
    /\ ram' = AddTracker(ram, PairId(a), a)
    /\ acked' = acked \union {[id |-> PairId(a), address |-> a]}
    /\ UNCHANGED <<queue, worker, control, storedCount, nvs, era, clearedEra,
                   torn, reboots, failures>>

\* The queue is full: no answer, but the table has the tracker.
PairQueueFull(a) ==
    /\ PairAllowed(a)
    /\ Len(queue) = QueueSize
    /\ ram' = AddTracker(ram, PairId(a), a)
    /\ UNCHANGED <<queue, worker, control, storedCount, nvs, acked, era, clearedEra,
                   torn, reboots, failures>>

\* handle_rf_v2() on a secondary learns a tracker from its packets.  A primary
\* changes nothing.
LearnTracker(id, a) ==
    /\ ram.radio.on
    /\ ~ram.primary
    /\ Free(ram, id, a)
    /\ ram' = AddTracker(ram, id, a)
    /\ UNCHANGED <<queue, worker, control, storedCount, nvs, acked, era, clearedEra,
                   torn, reboots, failures>>

-----------------------------------------------------------------------------
(* The persistence worker, on the system work queue *)

PersistTake ==
    /\ worker.step = "idle"
    /\ queue # <<>>
    /\ worker' = [step |-> "taken", record |-> Head(queue)]
    /\ queue' = Tail(queue)
    /\ UNCHANGED <<ram, control, storedCount, nvs, acked, era, clearedEra, torn, reboots, failures>>

\* A record queued before the last clear or regroup is dropped.
PersistStale ==
    /\ worker.step = "taken"
    /\ MutexFree
    /\ worker.record.generation # ram.generation
    /\ worker' = Idle
    /\ UNCHANGED <<ram, queue, control, storedCount, nvs, acked, era, clearedEra,
                   torn, reboots, failures>>

\* Fault: the count is not written after the tracker.
PersistUncounted ==
    /\ worker.step = "taken"
    /\ MutexFree
    /\ worker.record.generation = ram.generation
    /\ LET key == [address |-> worker.record.address, era |-> worker.record.era] IN
       \E ok \in BOOLEAN : Flash([nvs EXCEPT !.trackers[worker.record.id] = key], ok)
    /\ worker' = Idle
    /\ UNCHANGED <<ram, queue, control, storedCount, acked, era, clearedEra, torn, reboots>>

\* receiver_storage_set_tracker()
PersistTracker ==
    /\ worker.step = "taken"
    /\ MutexFree
    /\ worker.record.generation = ram.generation
    /\ LET key == [address |-> worker.record.address, era |-> worker.record.era] IN
       \E ok \in BOOLEAN :
          /\ Flash([nvs EXCEPT !.trackers[worker.record.id] = key], ok)
          /\ worker' = IF ok THEN [worker EXCEPT !.step = "count"] ELSE Idle
    /\ UNCHANGED <<ram, queue, control, storedCount, acked, era, clearedEra, torn, reboots>>

\* receiver_storage_set_tracker_count()
PersistCount ==
    /\ worker.step = "count"
    /\ storedCount' = worker.record.tracker_count
    /\ \E ok \in BOOLEAN : Flash([nvs EXCEPT !.count = worker.record.tracker_count], ok)
    /\ worker' = Idle
    /\ UNCHANGED <<ram, queue, control, acked, era, clearedEra, torn, reboots>>

-----------------------------------------------------------------------------
(* Commands, on the SPI thread *)

\* rf_receiver_set_group() up to its first flash operation.
BeginSetGroup(secondary, group) ==
    /\ MutexFree
    /\ era < MaxEra
    /\ era' = era + 1
    /\ ram' = [StopRadio(ram) EXCEPT
                  !.generation = @ + 1,
                  !.group = IF secondary THEN group ELSE Own,
                  !.primary = ~secondary,
                  !.pairing = FALSE]
    /\ control' = [op |-> "group", step |-> "write", next |-> 0, failed |-> FALSE,
                   previous |-> [group |-> ram.group, primary |-> ram.primary,
                                 pairing |-> ram.pairing]]
    /\ acked' = {}
    /\ UNCHANGED <<queue, worker, storedCount, nvs, clearedEra, torn, reboots, failures>>

WriteGroup ==
    /\ control.op = "group" /\ control.step = "write"
    /\ \E ok \in BOOLEAN :
          /\ Flash([nvs EXCEPT !.group = ram.group], ok)
          /\ control' = [control EXCEPT !.step = "delete", !.failed = ~ok]
    /\ UNCHANGED <<ram, queue, worker, storedCount, acked, era, clearedEra, torn, reboots>>

\* Fault: the generation is not advanced.
BeginClearSameGeneration ==
    /\ MutexFree
    /\ era < MaxEra
    /\ era' = era + 1
    /\ ram' = StopRadio(ram)
    /\ control' = [op |-> "clear", step |-> "delete", next |-> 0, failed |-> FALSE]
    /\ acked' = {}
    /\ UNCHANGED <<queue, worker, storedCount, nvs, clearedEra, torn, reboots, failures>>

\* rf_receiver_clear_trackers() up to its first flash operation.
BeginClear ==
    /\ MutexFree
    /\ era < MaxEra
    /\ era' = era + 1
    /\ ram' = [StopRadio(ram) EXCEPT !.generation = @ + 1]
    /\ control' = [op |-> "clear", step |-> "delete", next |-> 0, failed |-> FALSE]
    /\ acked' = {}
    /\ UNCHANGED <<queue, worker, storedCount, nvs, clearedEra, torn, reboots, failures>>

\* receiver_storage_clear_trackers(): one key per pass of the loop.
DeleteKey ==
    /\ control.op # "none" /\ control.step = "delete"
    /\ control.next < storedCount
    /\ \E ok \in BOOLEAN :
          /\ Flash([nvs EXCEPT !.trackers[control.next] = NoTracker], ok)
          /\ control' = IF ok THEN [control EXCEPT !.next = @ + 1]
                        ELSE [control EXCEPT !.step = "finish", !.failed = TRUE]
    /\ UNCHANGED <<ram, queue, worker, storedCount, acked, era, clearedEra, torn, reboots>>

ClearCount ==
    /\ control.op # "none" /\ control.step = "delete"
    /\ control.next >= storedCount
    /\ storedCount' = 0
    /\ \E ok \in BOOLEAN :
          /\ Flash([nvs EXCEPT !.count = 0], ok)
          /\ control' = [control EXCEPT !.step = "finish", !.failed = @ \/ ~ok]
    /\ UNCHANGED <<ram, queue, worker, acked, era, clearedEra, torn, reboots>>

EmptiedTable(r) == [r EXCEPT !.trackers = EmptyTable, !.count = 0]

\* The radio stays off until the reboot that receiver_control.c has scheduled.
FinishSetGroup ==
    /\ control.op = "group" /\ control.step = "finish"
    /\ ~control.failed
    /\ ram' = EmptiedTable(ram)
    /\ queue' = <<>>
    /\ clearedEra' = era
    /\ control' = NoControl
    /\ UNCHANGED <<worker, storedCount, nvs, acked, era, torn, reboots, failures>>

\* Fault: the former group is restored in RAM only.
RestoreGroupInRam ==
    /\ control.op = "group" /\ control.step = "finish"
    /\ control.failed
    /\ LET old == control.previous IN
       ram' \in StartRadio([ram EXCEPT !.group = old.group, !.primary = old.primary,
                                       !.pairing = old.pairing])
    /\ control' = NoControl
    /\ UNCHANGED <<queue, worker, storedCount, nvs, acked, era, clearedEra, torn, reboots, failures>>

\* The group is restored in RAM and, if that write succeeds, in flash.
RestoreGroup ==
    /\ control.op = "group" /\ control.step = "finish"
    /\ control.failed
    /\ LET old == control.previous
           group == IF old.primary THEN Own ELSE old.group
       IN /\ ram' \in StartRadio([ram EXCEPT !.group = old.group, !.primary = old.primary,
                                             !.pairing = old.pairing])
          /\ \E ok \in BOOLEAN : Flash([nvs EXCEPT !.group = group], ok)
    /\ control' = NoControl
    /\ UNCHANGED <<queue, worker, storedCount, acked, era, clearedEra, torn, reboots>>

FinishClear ==
    /\ control.op = "clear" /\ control.step = "finish"
    /\ ram' \in StartRadio([EmptiedTable(ram) EXCEPT !.pairing = ram.primary])
    /\ queue' = <<>>
    /\ clearedEra' = IF control.failed THEN clearedEra ELSE era
    /\ control' = NoControl
    /\ UNCHANGED <<worker, storedCount, nvs, acked, era, torn, reboots, failures>>

\* Fault: the radio is not restarted.
SetPairingFlag(on) ==
    /\ MutexFree
    /\ on => ram.primary
    /\ ram' = [ram EXCEPT !.pairing = on]
    /\ UNCHANGED <<queue, worker, control, storedCount, nvs, acked, era, clearedEra,
                   torn, reboots, failures>>

\* rf_receiver_start_pairing() and rf_receiver_stop_pairing()
SetPairing(on) ==
    /\ MutexFree
    /\ on => ram.primary
    /\ ram' \in StartRadio([StopRadio(ram) EXCEPT !.pairing = on])
    /\ UNCHANGED <<queue, worker, control, storedCount, nvs, acked, era, clearedEra,
                   torn, reboots, failures>>

SetEnabled(on) ==
    /\ MutexFree
    /\ ram' \in StartRadio([StopRadio(ram) EXCEPT !.radio_enabled = on])
    /\ UNCHANGED <<queue, worker, control, storedCount, nvs, acked, era, clearedEra,
                   torn, reboots, failures>>

\* Power loss, a watchdog or the scheduled reboot, at any point.
Reboot ==
    /\ reboots + failures < MaxFaults
    /\ reboots' = reboots + 1
    /\ torn' = (torn \/ worker.step = "count")
    /\ ram' = Boot(nvs)
    /\ queue' = <<>>
    /\ worker' = Idle
    /\ control' = NoControl
    /\ storedCount' = nvs.count
    /\ acked' = {}
    /\ UNCHANGED <<nvs, era, clearedEra, failures>>

RadioInterrupt ==
    \E a \in Addresses :
        \/ PairAcknowledged(a)
        \/ PairQueueFull(a)
        \/ \E id \in Ids : LearnTracker(id, a)

Persist == PersistTake \/ PersistStale \/ PersistTracker \/ PersistCount

ControlStep ==
    \/ WriteGroup \/ DeleteKey \/ ClearCount
    \/ FinishSetGroup \/ RestoreGroup \/ FinishClear

Next ==
    \/ RadioInterrupt
    \/ Persist
    \/ \E group \in Groups, secondary \in BOOLEAN : BeginSetGroup(secondary, group)
    \/ BeginClear
    \/ ControlStep
    \/ \E on \in BOOLEAN : SetPairing(on) \/ SetEnabled(on)
    \/ Reboot

Spec == Init /\ [][Next]_vars

\* The system work queue and the SPI thread keep running.
FairSpec == Spec /\ WF_vars(Persist) /\ WF_vars(ControlStep)

-----------------------------------------------------------------------------
(* The listing that the portal reads page by page. *)

\* Fault: a page covers its own ids only.
TrackerPageOfIds(page) ==
    LET start == page * PageSize
    IN  {i \in Ids : start <= i /\ i < start + PageSize /\ i < ram.count /\ ram.trackers[i] # NoTracker}

\* get_tracker_page(): the first ids from start on that have a tracker; start is 8 bits wide.
TrackerPage(page) ==
    LET start == (page * PageSize) % 256
        listed == {i \in Ids : start <= i /\ i < ram.count /\ ram.trackers[i] # NoTracker}
    IN  {i \in listed : Cardinality({j \in listed : j < i}) < PageSize}

-----------------------------------------------------------------------------
(* Properties *)

\* The types of the variables; ids and counts stay within the table.
TypeOK ==
    /\ ram \in [trackers : [Ids -> Entries], count : 0..MaxTrackers, group : Groups,
                primary : BOOLEAN, pairing : BOOLEAN, radio_enabled : BOOLEAN,
                radio : [on : BOOLEAN, pairing : BOOLEAN, group : Groups],
                generation : Eras]
    /\ queue \in Seq(Records) /\ Len(queue) <= QueueSize
    /\ worker.step \in {"idle", "taken", "count"}
    /\ worker.step # "idle" => worker.record \in Records
    /\ control.op \in {"none", "group", "clear"}
    /\ control.op # "none" => control.step \in {"write", "delete", "finish"}
    /\ storedCount \in 0..MaxTrackers
    /\ nvs \in [group : Groups, count : 0..MaxTrackers, trackers : [Ids -> Entries]]
    /\ acked \in SUBSET [id : Ids, address : Addresses]
    /\ era \in Eras /\ clearedEra \in Eras
    /\ torn \in BOOLEAN
    /\ reboots \in Nat /\ failures \in Nat /\ reboots + failures <= MaxFaults

\* The running radio always listens for the current group, and for pairing requests
\* exactly in pairing mode: every change of either goes through a restart of it.
RadioMatchesConfig ==
    ram.radio.on =>
        /\ ram.radio_enabled
        /\ ram.radio.group = ram.group
        /\ ram.radio.pairing = ram.pairing
        /\ ram.pairing => ram.primary

\* No two ids of a primary name the same tracker, also after a regroup or a power loss
\* in the middle of one.  (A clear whose flash operation fails leaves keys behind, and
\* so does a power loss between the two writes of a pairing: a tracker paired again
\* under another id then has two after a later boot.)
PrimaryIdsDistinct ==
    control = NoControl /\ ram.primary /\ failures = 0 /\ ~torn =>
        \A i, j \in 0..(ram.count - 1) :
            i # j /\ ram.trackers[i] # NoTracker /\ ram.trackers[j] # NoTracker
                => ram.trackers[i].address # ram.trackers[j].address

\* A tracker that was cleared, by CLEAR_TRACKERS or by joining another group, does
\* not come back: neither the worker that had already dequeued its record nor a
\* reboot restores it.  (A power loss between the two writes of a pairing leaves a
\* key that no clear deletes and that a later hole in the table brings back.)
ClearedStaysCleared ==
    failures = 0 /\ ~torn => \A i \in Ids :
        /\ i < nvs.count /\ nvs.trackers[i] # NoTracker => nvs.trackers[i].era >= clearedEra
        /\ ram.trackers[i] # NoTracker => ram.trackers[i].era >= clearedEra

\* Whatever fails once while a regroup is carried out or undone, the group in flash
\* is the group in use: a reboot never changes the group by itself.
GroupIsStored ==
    control = NoControl /\ failures <= 1 => nvs.group = ram.group

\* When nothing is in progress and no flash operation has failed, every pairing
\* the receiver acknowledged is in flash under the id it announced: the next boot
\* restores it.
AckedIsStored ==
    queue = <<>> /\ worker = Idle /\ control = NoControl /\ failures = 0 =>
        \A p \in acked :
            /\ p.id < nvs.count
            /\ nvs.trackers[p.id] # NoTracker
            /\ nvs.trackers[p.id].address = p.address

\* A client that asks for one page after the other until one is empty has seen every
\* tracker, although a table has holes after a clear that failed or on a secondary.
PagingListsAll ==
    LET pages == 0 .. MaxTrackers
        asked == {p \in pages : \A q \in 0 .. p : TrackerPage(q) # {}}
    IN  {i \in Ids : i < ram.count /\ ram.trackers[i] # NoTracker}
            \subseteq UNION {TrackerPage(p) : p \in asked}

\* An acknowledged pairing is eventually stored, unless a clear, a regroup or a
\* reboot intervenes or the flash fails.
AckedEventuallyStored ==
    \A i \in Ids, a \in Addresses :
        [id |-> i, address |-> a] \in acked ~>
            \/ [id |-> i, address |-> a] \notin acked
            \/ failures > 0
            \/ /\ i < nvs.count
               /\ nvs.trackers[i] # NoTracker
               /\ nvs.trackers[i].address = a
=============================================================================
