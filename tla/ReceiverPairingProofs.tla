----------------------- MODULE ReceiverPairingProofs ------------------------
(***************************************************************************)
(* Proofs about ReceiverPairing, for any addresses, groups, table, queue   *)
(* and bounds: the radio runs as it is configured, and the group in flash  *)
(* is the group in use.                                                    *)
(***************************************************************************)
EXTENDS ReceiverPairing, TLAPS, FiniteSetTheorems, SequenceTheorems

-----------------------------------------------------------------------------
(* The state of the receiver: its fields and what changes them *)

RamFields == {"trackers", "count", "group", "primary", "pairing", "radio_enabled", "radio",
              "generation"}

IsRam(r) ==
    /\ DOMAIN r = RamFields
    /\ DOMAIN r.radio = {"on", "pairing", "group"}
    /\ r.group \in Groups /\ r.primary \in BOOLEAN /\ r.pairing \in BOOLEAN
    /\ r.radio_enabled \in BOOLEAN
    /\ r.radio.on \in BOOLEAN

\* A receiver in pairing mode is a primary, and a primary has its own group.
Consistent(group, primary, pairing) ==
    /\ pairing => primary
    /\ primary => group = Own

\* The radio is off or runs with the current configuration.
RadioOk(r) ==
    r.radio.on =>
        r.radio_enabled /\ r.radio.group = r.group /\ r.radio.pairing = r.pairing

RamOk(r) == IsRam(r) /\ RadioOk(r) /\ Consistent(r.group, r.primary, r.pairing)

LEMMA AddTrackerKeeps ==
    ASSUME NEW r, RamOk(r), NEW id, NEW a
    PROVE  RamOk(AddTracker(r, id, a)) /\ AddTracker(r, id, a).group = r.group
<1> DEFINE n == AddTracker(r, id, a)
<1>1. DOMAIN n = DOMAIN r
    BY DEF AddTracker
<1>2. /\ n.group = r.group /\ n.primary = r.primary /\ n.pairing = r.pairing
      /\ n.radio_enabled = r.radio_enabled /\ n.radio = r.radio
    BY DEF AddTracker, RamOk, IsRam, RamFields
<1> HIDE DEF n
<1>3. RamOk(n) /\ n.group = r.group
    BY <1>1, <1>2 DEF RamOk, IsRam, RadioOk
<1> QED
    BY <1>3 DEF n

LEMMA StopRadioKeeps ==
    ASSUME NEW r, IsRam(r)
    PROVE  LET n == StopRadio(r) IN
           /\ IsRam(n) /\ ~n.radio.on /\ n.group = r.group /\ n.primary = r.primary
           /\ n.pairing = r.pairing /\ n.radio_enabled = r.radio_enabled
<1> DEFINE n == StopRadio(r)
<1>1. DOMAIN n = DOMAIN r
    BY DEF StopRadio
<1>2. /\ n.group = r.group /\ n.primary = r.primary /\ n.pairing = r.pairing
      /\ n.radio_enabled = r.radio_enabled
      /\ n.radio = [r.radio EXCEPT !.on = FALSE]
    BY DEF StopRadio, IsRam, RamFields
<1>3. DOMAIN n.radio = {"on", "pairing", "group"} /\ n.radio.on = FALSE
    BY <1>2 DEF IsRam
<1> HIDE DEF n
<1>4. IsRam(n) /\ ~n.radio.on
    BY <1>1, <1>2, <1>3 DEF IsRam
<1> QED
    BY <1>2, <1>4 DEF n

LEMMA StartRadioKeeps ==
    ASSUME NEW r, IsRam(r), ~r.radio.on, Consistent(r.group, r.primary, r.pairing),
           NEW n \in StartRadio(r)
    PROVE  RamOk(n) /\ n.group = r.group
<1>1. CASE n = r
    BY <1>1 DEF RamOk, RadioOk
<1>2. CASE n = RadioStarted(r) /\ r.radio_enabled
  <2> DEFINE radio == [on |-> TRUE, pairing |-> r.pairing, group |-> r.group]
  <2>1. n = [r EXCEPT !.radio = radio]
    BY <1>2 DEF RadioStarted
  <2>2. DOMAIN radio = {"on", "pairing", "group"} /\ radio.on = TRUE
        /\ radio.pairing = r.pairing /\ radio.group = r.group
    OBVIOUS
  <2> HIDE DEF radio
  <2>3. DOMAIN n = RamFields /\ n.radio = radio
        /\ n.group = r.group /\ n.primary = r.primary /\ n.pairing = r.pairing
        /\ n.radio_enabled = r.radio_enabled
    BY <2>1 DEF IsRam, RamFields
  <2>4. IsRam(n)
    BY <2>2, <2>3 DEF IsRam
  <2>5. RadioOk(n)
    BY <2>2, <2>3, <1>2 DEF RadioOk
  <2> QED
    BY <2>3, <2>4, <2>5 DEF RamOk
<1> QED
    BY <1>1, <1>2 DEF StartRadio, RadioStarted

LEMMA EmptiedTableKeeps ==
    ASSUME NEW r, IsRam(r)
    PROVE  LET n == EmptiedTable(r) IN
           /\ IsRam(n) /\ n.group = r.group /\ n.primary = r.primary /\ n.pairing = r.pairing
           /\ n.radio_enabled = r.radio_enabled /\ n.radio = r.radio
<1> DEFINE n == EmptiedTable(r)
<1>1. DOMAIN n = DOMAIN r
    BY DEF EmptiedTable
<1>2. /\ n.group = r.group /\ n.primary = r.primary /\ n.pairing = r.pairing
      /\ n.radio_enabled = r.radio_enabled /\ n.radio = r.radio
    BY DEF EmptiedTable, IsRam, RamFields
<1> HIDE DEF n
<1>3. IsRam(n)
    BY <1>1, <1>2 DEF IsRam
<1> QED
    BY <1>2, <1>3 DEF n

LEMMA BootOk ==
    ASSUME NEW n, n.group \in Groups
    PROVE  RamOk(Boot(n)) /\ Boot(n).group = n.group
<1> DEFINE r == [trackers |-> [i \in Ids |-> IF i < n.count THEN n.trackers[i] ELSE NoTracker],
                 count |-> n.count, group |-> n.group, primary |-> n.group = Own,
                 pairing |-> n.group = Own /\ n.count = 0, radio_enabled |-> TRUE,
                 radio |-> [on |-> FALSE, pairing |-> FALSE, group |-> n.group],
                 generation |-> 0]
<1>1. Boot(n) = RadioStarted(r)
    BY DEF Boot
<1>2. DOMAIN r = RamFields
    BY DEF RamFields
<1>3. DOMAIN r.radio = {"on", "pairing", "group"} /\ ~r.radio.on
    OBVIOUS
<1>4. r.group = n.group /\ r.radio_enabled = TRUE
    OBVIOUS
<1>5. (r.primary <=> n.group = Own) /\ r.primary \in BOOLEAN
    OBVIOUS
<1>6. (r.pairing <=> n.group = Own /\ n.count = 0) /\ r.pairing \in BOOLEAN
    OBVIOUS
<1>7. r.radio.on \in BOOLEAN
    OBVIOUS
<1> HIDE DEF r
<1>8. IsRam(r) /\ Consistent(r.group, r.primary, r.pairing)
    BY <1>2, <1>3, <1>4, <1>5, <1>6, <1>7 DEF IsRam, Consistent
<1>9. RadioStarted(r) \in StartRadio(r)
    BY DEF StartRadio
<1> QED
    BY <1>1, <1>3, <1>4, <1>8, <1>9, StartRadioKeeps

-----------------------------------------------------------------------------
(* The invariant *)

StateInv ==
    /\ RamOk(ram)
    /\ DOMAIN nvs = {"group", "count", "trackers"} /\ nvs.group \in Groups
    /\ failures \in Nat
    /\ control.op \in {"none", "group", "clear"}

\* While a command is executed the radio is off, and a regroup knows how to undo itself.
ControlInv ==
    /\ control.op # "none" => ~ram.radio.on
    /\ control.op = "clear" => DOMAIN control = {"op", "step", "next", "failed"}
    /\ control.op = "group" =>
          /\ DOMAIN control = {"op", "step", "next", "failed", "previous"}
          /\ control.failed \in BOOLEAN
          /\ control.previous.group \in Groups
          /\ control.previous.primary \in BOOLEAN /\ control.previous.pairing \in BOOLEAN
          /\ Consistent(control.previous.group, control.previous.primary, control.previous.pairing)

\* Where the group in flash stands while a regroup is carried out.
GroupInv ==
    /\ control.op # "group" /\ failures <= 1 => nvs.group = ram.group
    /\ control.op = "group" =>
          /\ control.step = "write" => ~control.failed
          /\ control.step = "write" /\ failures <= 1 => nvs.group = control.previous.group
          /\ control.step # "write" /\ ~control.failed => nvs.group = ram.group
          /\ control.failed => failures >= 1

PairingInv == StateInv /\ ControlInv /\ GroupInv

\* A flash operation that leaves the group alone.
LEMMA FlashKeepsGroup ==
    ASSUME StateInv, NEW n, n.group = nvs.group, DOMAIN n = DOMAIN nvs, NEW ok, Flash(n, ok)
    PROVE  /\ DOMAIN nvs' = {"group", "count", "trackers"} /\ nvs'.group = nvs.group
           /\ failures' \in Nat /\ failures' >= failures /\ (ok \/ failures' >= 1)
BY DEF Flash, StateInv

LEMMA PairingInit == Init => PairingInv
<1> SUFFICES ASSUME Init PROVE PairingInv
    OBVIOUS
<1>1. nvs = EmptyNvs /\ ram = Boot(EmptyNvs) /\ control = NoControl /\ failures = 0
    BY DEF Init
<1>2. EmptyNvs.group = Own /\ DOMAIN EmptyNvs = {"group", "count", "trackers"}
    BY DEF EmptyNvs
<1>3. RamOk(ram) /\ ram.group = Own
    BY <1>1, <1>2, BootOk, GroupsAssumption
<1>4. control.op = "none"
    BY <1>1 DEF NoControl
<1>5. StateInv
    BY <1>1, <1>2, <1>3, <1>4, GroupsAssumption DEF StateInv
<1>6. ControlInv /\ GroupInv
    BY <1>1, <1>2, <1>3, <1>4 DEF ControlInv, GroupInv
<1> QED
    BY <1>5, <1>6 DEF PairingInv

\* The radio interrupt and the persistence worker, and whatever leaves the group and
\* the command alone.
LEMMA PairingKept ==
    ASSUME PairingInv, control' = control, RamOk(ram'), ram'.group = ram.group,
           control.op = "none" \/ ram' = ram,
           DOMAIN nvs' = {"group", "count", "trackers"}, nvs'.group = nvs.group,
           failures' \in Nat, failures' >= failures
    PROVE  PairingInv'
<1>1. StateInv'
    BY DEF PairingInv, StateInv
<1>2. ControlInv'
    BY DEF PairingInv, ControlInv
<1>3. GroupInv'
  <2>1. failures \in Nat
    BY DEF PairingInv, StateInv
  <2> QED
    BY <2>1 DEF PairingInv, GroupInv
<1> QED
    BY <1>1, <1>2, <1>3 DEF PairingInv

LEMMA PairingRadio == PairingInv /\ RadioInterrupt => PairingInv'
<1> SUFFICES ASSUME PairingInv, RadioInterrupt PROVE PairingInv'
    OBVIOUS
<1>1. ram.radio.on /\ control' = control /\ nvs' = nvs /\ failures' = failures
    BY DEF RadioInterrupt, PairAcknowledged, PairQueueFull, LearnTracker, PairAllowed
<1>2. PICK id, a : ram' = AddTracker(ram, id, a)
    BY DEF RadioInterrupt, PairAcknowledged, PairQueueFull, LearnTracker
<1>3. RamOk(ram') /\ ram'.group = ram.group
    BY <1>2, AddTrackerKeeps DEF PairingInv, StateInv
<1>4. control.op = "none"
    BY <1>1 DEF PairingInv, ControlInv, StateInv
<1>5. DOMAIN nvs' = {"group", "count", "trackers"} /\ nvs'.group = nvs.group
      /\ failures' \in Nat /\ failures' >= failures
    BY <1>1 DEF PairingInv, StateInv
<1> QED
    BY <1>1, <1>3, <1>4, <1>5, PairingKept

LEMMA PairingPersists == PairingInv /\ Persist => PairingInv'
<1> SUFFICES ASSUME PairingInv, Persist PROVE PairingInv'
    OBVIOUS
<1>1. ram' = ram /\ control' = control
    BY DEF Persist, PersistTake, PersistStale, PersistTracker, PersistCount
<1>2. RamOk(ram) /\ DOMAIN nvs = {"group", "count", "trackers"} /\ failures \in Nat /\ StateInv
    BY DEF PairingInv, StateInv
<1>3. /\ DOMAIN nvs' = {"group", "count", "trackers"} /\ nvs'.group = nvs.group
      /\ failures' \in Nat /\ failures' >= failures
  <2>1. CASE PersistTake \/ PersistStale
    BY <2>1, <1>2 DEF PersistTake, PersistStale
  <2>2. CASE PersistTracker
    <3> DEFINE key == [address |-> worker.record.address, era |-> worker.record.era]
               n == [nvs EXCEPT !.trackers[worker.record.id] = key]
    <3>1. PICK ok \in BOOLEAN : Flash(n, ok)
      BY <2>2 DEF PersistTracker
    <3>2. n.group = nvs.group /\ DOMAIN n = DOMAIN nvs
      BY <1>2
    <3> HIDE DEF n
    <3> QED
      BY <1>2, <3>1, <3>2, FlashKeepsGroup
  <2>3. CASE PersistCount
    <3> DEFINE n == [nvs EXCEPT !.count = worker.record.tracker_count]
    <3>1. PICK ok \in BOOLEAN : Flash(n, ok)
      BY <2>3 DEF PersistCount
    <3>2. n.group = nvs.group /\ DOMAIN n = DOMAIN nvs
      BY <1>2
    <3> HIDE DEF n
    <3> QED
      BY <1>2, <3>1, <3>2, FlashKeepsGroup
  <2> QED
    BY <2>1, <2>2, <2>3 DEF Persist
<1> QED
    BY <1>1, <1>2, <1>3, PairingKept

LEMMA PairingBeginsGroup ==
    ASSUME PairingInv, NEW group \in Groups, NEW secondary \in BOOLEAN,
           BeginSetGroup(secondary, group)
    PROVE  PairingInv'
<1> DEFINE g == IF secondary THEN group ELSE Own
           stopped == StopRadio(ram)
           old == [group |-> ram.group, primary |-> ram.primary, pairing |-> ram.pairing]
<1>1. /\ ram' = [stopped EXCEPT !.generation = @ + 1, !.group = g, !.primary = ~secondary,
                                !.pairing = FALSE]
      /\ control' = [op |-> "group", step |-> "write", next |-> 0, failed |-> FALSE, previous |-> old]
      /\ nvs' = nvs /\ failures' = failures /\ control.op = "none"
    BY DEF BeginSetGroup, MutexFree, NoControl
<1>2. IsRam(stopped) /\ ~stopped.radio.on
    BY StopRadioKeeps DEF PairingInv, StateInv, RamOk
<1>3. g \in Groups
    BY GroupsAssumption
<1> HIDE DEF stopped, g
<1>4. DOMAIN ram' = DOMAIN stopped
    BY <1>1
<1>5. /\ ram'.group = g /\ ram'.primary = ~secondary /\ ram'.pairing = FALSE
      /\ ram'.radio_enabled = stopped.radio_enabled /\ ram'.radio = stopped.radio
    BY <1>1, <1>2 DEF IsRam, RamFields
<1>6. IsRam(ram') /\ ~ram'.radio.on
    BY <1>2, <1>3, <1>4, <1>5 DEF IsRam
<1>7. Consistent(ram'.group, ram'.primary, ram'.pairing)
    BY <1>5 DEF Consistent, g
<1>8. RamOk(ram')
    BY <1>6, <1>7 DEF RamOk, RadioOk
<1>9. old.group = ram.group /\ old.primary = ram.primary /\ old.pairing = ram.pairing
    OBVIOUS
<1> HIDE DEF old
<1>10. /\ control'.op = "group" /\ control'.step = "write" /\ control'.failed = FALSE
       /\ control'.previous = old
       /\ DOMAIN control' = {"op", "step", "next", "failed", "previous"}
    BY <1>1
<1>11. StateInv'
    BY <1>1, <1>8, <1>10 DEF PairingInv, StateInv
<1>12. ControlInv'
    BY <1>6, <1>9, <1>10 DEF ControlInv, PairingInv, StateInv, RamOk, IsRam
<1>13. GroupInv'
    BY <1>1, <1>9, <1>10 DEF PairingInv, GroupInv
<1> QED
    BY <1>11, <1>12, <1>13 DEF PairingInv

LEMMA PairingBeginsClear == PairingInv /\ BeginClear => PairingInv'
<1> SUFFICES ASSUME PairingInv, BeginClear PROVE PairingInv'
    OBVIOUS
<1> DEFINE stopped == StopRadio(ram)
<1>1. /\ ram' = [stopped EXCEPT !.generation = @ + 1]
      /\ control' = [op |-> "clear", step |-> "delete", next |-> 0, failed |-> FALSE]
      /\ nvs' = nvs /\ failures' = failures /\ control.op = "none"
    BY DEF BeginClear, MutexFree, NoControl
<1>2. /\ IsRam(stopped) /\ ~stopped.radio.on /\ stopped.group = ram.group
      /\ stopped.primary = ram.primary /\ stopped.pairing = ram.pairing
      /\ Consistent(ram.group, ram.primary, ram.pairing)
    BY StopRadioKeeps DEF PairingInv, StateInv, RamOk
<1> HIDE DEF stopped
<1>3. /\ DOMAIN ram' = DOMAIN stopped
      /\ ram'.group = stopped.group /\ ram'.primary = stopped.primary
      /\ ram'.pairing = stopped.pairing /\ ram'.radio_enabled = stopped.radio_enabled
      /\ ram'.radio = stopped.radio
    BY <1>1, <1>2 DEF IsRam, RamFields
<1>4. IsRam(ram')
    BY <1>2, <1>3 DEF IsRam
<1>5. RamOk(ram') /\ ~ram'.radio.on /\ ram'.group = ram.group
    BY <1>2, <1>3, <1>4 DEF RamOk, RadioOk
<1>6. control'.op = "clear" /\ DOMAIN control' = {"op", "step", "next", "failed"}
    BY <1>1
<1>7. StateInv'
    BY <1>1, <1>5, <1>6 DEF PairingInv, StateInv
<1>8. ControlInv'
    BY <1>5, <1>6 DEF ControlInv
<1>9. GroupInv'
    BY <1>1, <1>5, <1>6 DEF PairingInv, GroupInv
<1> QED
    BY <1>7, <1>8, <1>9 DEF PairingInv

\* The flash operations of a command that is under way.
LEMMA PairingWritesGroup == PairingInv /\ WriteGroup => PairingInv'
<1> SUFFICES ASSUME PairingInv, WriteGroup PROVE PairingInv'
    OBVIOUS
<1>1. control.op = "group" /\ control.step = "write" /\ ram' = ram
    BY DEF WriteGroup
<1>2. PICK ok \in BOOLEAN :
          /\ Flash([nvs EXCEPT !.group = ram.group], ok)
          /\ control' = [control EXCEPT !.step = "delete", !.failed = ~ok]
    BY DEF WriteGroup
<1>3. /\ DOMAIN control = {"op", "step", "next", "failed", "previous"}
      /\ DOMAIN nvs = {"group", "count", "trackers"} /\ nvs.group \in Groups /\ failures \in Nat
      /\ ram.group \in Groups
    BY <1>1 DEF PairingInv, StateInv, ControlInv, RamOk, IsRam
<1>4. /\ DOMAIN control' = DOMAIN control /\ control'.op = "group" /\ control'.step = "delete"
      /\ control'.failed = ~ok /\ control'.previous = control.previous
    BY <1>1, <1>2, <1>3
<1>5. /\ DOMAIN nvs' = DOMAIN nvs /\ failures' \in Nat
      /\ nvs'.group = IF ok THEN ram.group ELSE nvs.group
      /\ ok \/ failures' >= 1
    BY <1>2, <1>3 DEF Flash
<1>6. StateInv'
    BY <1>1, <1>3, <1>4, <1>5 DEF PairingInv, StateInv
<1>7. ControlInv'
    BY <1>1, <1>3, <1>4 DEF PairingInv, ControlInv
<1>8. GroupInv'
    BY <1>1, <1>4, <1>5 DEF GroupInv
<1> QED
    BY <1>6, <1>7, <1>8 DEF PairingInv

LEMMA PairingDeletes == PairingInv /\ (DeleteKey \/ ClearCount) => PairingInv'
<1> SUFFICES ASSUME PairingInv, DeleteKey \/ ClearCount PROVE PairingInv'
    OBVIOUS
<1>1. control.op \in {"group", "clear"} /\ control.step = "delete" /\ ram' = ram
    BY DEF DeleteKey, ClearCount, PairingInv, StateInv
<1>2. PICK ok, n :
          /\ ok \in BOOLEAN /\ Flash(n, ok) /\ DOMAIN n = DOMAIN nvs /\ n.group = nvs.group
          /\ \/ control' = [control EXCEPT !.next = @ + 1] /\ ok
             \/ control' = [control EXCEPT !.step = "finish", !.failed = TRUE] /\ ~ok
             \/ control' = [control EXCEPT !.step = "finish", !.failed = @ \/ ~ok]
  <2>1. DOMAIN nvs = {"group", "count", "trackers"}
    BY DEF PairingInv, StateInv
  <2>2. CASE DeleteKey
    <3> DEFINE n == [nvs EXCEPT !.trackers[control.next] = NoTracker]
    <3>1. PICK ok \in BOOLEAN :
            /\ Flash(n, ok)
            /\ control' = IF ok THEN [control EXCEPT !.next = @ + 1]
                          ELSE [control EXCEPT !.step = "finish", !.failed = TRUE]
      BY <2>2 DEF DeleteKey
    <3>2. DOMAIN n = DOMAIN nvs /\ n.group = nvs.group
      BY <2>1
    <3> HIDE DEF n
    <3> QED
      BY <3>1, <3>2
  <2>3. CASE ClearCount
    <3> DEFINE n == [nvs EXCEPT !.count = 0]
    <3>1. PICK ok \in BOOLEAN :
            /\ Flash(n, ok)
            /\ control' = [control EXCEPT !.step = "finish", !.failed = @ \/ ~ok]
      BY <2>3 DEF ClearCount
    <3>2. DOMAIN n = DOMAIN nvs /\ n.group = nvs.group
      BY <2>1
    <3> HIDE DEF n
    <3> QED
      BY <3>1, <3>2
  <2> QED
    BY <2>2, <2>3
<1>3. /\ DOMAIN nvs' = {"group", "count", "trackers"} /\ nvs'.group = nvs.group
      /\ failures' \in Nat /\ failures' >= failures /\ (ok \/ failures' >= 1)
      /\ failures \in Nat
    BY <1>2, FlashKeepsGroup DEF PairingInv, StateInv
<1>4. /\ {"op", "step", "next", "failed"} \subseteq DOMAIN control
      /\ control.op = "group" => "previous" \in DOMAIN control
    BY <1>1 DEF PairingInv, ControlInv
<1>5. /\ DOMAIN control' = DOMAIN control /\ control'.op = control.op
      /\ control'.step \in {"delete", "finish"}
      /\ control.op = "group" => control'.previous = control.previous
    BY <1>1, <1>2, <1>4
<1>6. \/ ok /\ control'.failed = control.failed
      \/ control'.failed = TRUE /\ failures' >= 1
      \/ ok /\ control'.failed = (control.failed \/ FALSE)
    BY <1>2, <1>3, <1>4
<1>7. StateInv'
    BY <1>1, <1>3, <1>5 DEF PairingInv, StateInv
<1>8. CASE control.op = "clear"
  <2>1. ControlInv' /\ GroupInv'
    BY <1>1, <1>3, <1>5, <1>8 DEF PairingInv, ControlInv, GroupInv
  <2> QED
    BY <1>7, <2>1 DEF PairingInv
<1>9. CASE control.op = "group"
  <2>1. control.failed \in BOOLEAN /\ (control.failed => failures >= 1)
        /\ (~control.failed => nvs.group = ram.group)
    BY <1>1, <1>9 DEF PairingInv, ControlInv, GroupInv
  <2>2. control'.failed \in BOOLEAN /\ (control'.failed => failures' >= 1)
        /\ (~control'.failed => nvs'.group = ram'.group)
    <3>1. CASE ok /\ control'.failed = control.failed
      BY <2>1, <3>1, <1>1, <1>3
    <3>2. CASE control'.failed = TRUE /\ failures' >= 1
      BY <3>2
    <3>3. CASE ok /\ control'.failed = (control.failed \/ FALSE)
      <4>1. control'.failed = control.failed
        BY <2>1, <3>3
      <4> QED
        BY <3>1, <3>3, <4>1
    <3> QED
      BY <1>6, <3>1, <3>2, <3>3
  <2>3. ControlInv'
    BY <1>1, <1>5, <1>9, <2>2 DEF PairingInv, ControlInv
  <2>4. GroupInv'
    BY <1>5, <1>9, <2>2 DEF GroupInv
  <2> QED
    BY <1>7, <2>3, <2>4 DEF PairingInv
<1> QED
    BY <1>1, <1>8, <1>9

\* The end of a command, and the commands without a flash operation: the command is over,
\* the radio agrees with the configuration, and the group with the one in flash.
LEMMA PairingRests ==
    ASSUME PairingInv, control'.op = "none", RamOk(ram'),
           DOMAIN nvs' = {"group", "count", "trackers"}, nvs'.group \in Groups,
           failures' \in Nat, failures' <= 1 => nvs'.group = ram'.group
    PROVE  PairingInv'
BY DEF PairingInv, StateInv, ControlInv, GroupInv

LEMMA PairingFinishes == PairingInv /\ (FinishSetGroup \/ FinishClear) => PairingInv'
<1> SUFFICES ASSUME PairingInv, FinishSetGroup \/ FinishClear PROVE PairingInv'
    OBVIOUS
<1>1. /\ control.op # "none" /\ control' = NoControl /\ nvs' = nvs /\ failures' = failures
    BY DEF FinishSetGroup, FinishClear
<1>2. ~ram.radio.on /\ RamOk(ram) /\ IsRam(ram)
    BY <1>1 DEF PairingInv, ControlInv, StateInv, RamOk
<1> DEFINE e == EmptiedTable(ram)
<1>3. IsRam(e) /\ e.group = ram.group /\ e.primary = ram.primary /\ e.pairing = ram.pairing
      /\ e.radio = ram.radio
    BY <1>2, EmptiedTableKeeps
<1> HIDE DEF e
<1>4. RamOk(ram') /\ ram'.group = ram.group
  <2>1. CASE FinishSetGroup
    <3>1. ram' = e
      BY <2>1 DEF FinishSetGroup, e
    <3> QED
      BY <3>1, <1>2, <1>3 DEF RamOk, RadioOk
  <2>2. CASE FinishClear
    <3> DEFINE p == [e EXCEPT !.pairing = ram.primary]
    <3>1. ram' \in StartRadio(p)
      BY <2>2 DEF FinishClear, e
    <3>2. /\ DOMAIN p = DOMAIN e /\ p.group = e.group /\ p.primary = e.primary
          /\ p.pairing = ram.primary /\ p.radio_enabled = e.radio_enabled /\ p.radio = e.radio
      BY <1>3 DEF IsRam, RamFields
    <3> HIDE DEF p
    <3>3. IsRam(p) /\ ~p.radio.on
      BY <1>2, <1>3, <3>2 DEF IsRam
    <3>4. Consistent(p.group, p.primary, p.pairing)
      BY <1>2, <1>3, <3>2 DEF RamOk, Consistent
    <3> QED
      BY <1>3, <3>1, <3>2, <3>3, <3>4, StartRadioKeeps
  <2> QED
    BY <2>1, <2>2
<1>5. failures <= 1 => nvs.group = ram.group
    BY DEF FinishSetGroup, FinishClear, PairingInv, GroupInv, StateInv
<1>6. control'.op = "none"
    BY <1>1 DEF NoControl
<1>7. DOMAIN nvs = {"group", "count", "trackers"} /\ nvs.group \in Groups /\ failures \in Nat
    BY DEF PairingInv, StateInv
<1> QED
    BY <1>1, <1>4, <1>5, <1>6, <1>7, PairingRests

LEMMA PairingRestores == PairingInv /\ RestoreGroup => PairingInv'
<1> SUFFICES ASSUME PairingInv, RestoreGroup PROVE PairingInv'
    OBVIOUS
<1> DEFINE old == control.previous
           group == IF old.primary THEN Own ELSE old.group
           r == [ram EXCEPT !.group = old.group, !.primary = old.primary, !.pairing = old.pairing]
<1>1. /\ control.op = "group" /\ control.failed /\ control' = NoControl
      /\ ram' \in StartRadio(r)
      /\ \E ok \in BOOLEAN : Flash([nvs EXCEPT !.group = group], ok)
    BY DEF RestoreGroup
<1>2. /\ old.group \in Groups /\ old.primary \in BOOLEAN /\ old.pairing \in BOOLEAN
      /\ Consistent(old.group, old.primary, old.pairing)
      /\ ~ram.radio.on /\ IsRam(ram)
      /\ failures \in Nat /\ failures >= 1
      /\ DOMAIN nvs = {"group", "count", "trackers"} /\ nvs.group \in Groups
    BY <1>1 DEF PairingInv, ControlInv, GroupInv, StateInv, RamOk
<1>3. group = old.group
    BY <1>2 DEF Consistent
<1> HIDE DEF old, group
<1>4. IsRam(r) /\ r.group = old.group /\ r.primary = old.primary /\ r.pairing = old.pairing
      /\ r.radio = ram.radio
  <2>1. /\ DOMAIN r = DOMAIN ram /\ r.group = old.group /\ r.primary = old.primary
        /\ r.pairing = old.pairing /\ r.radio = ram.radio /\ r.radio_enabled = ram.radio_enabled
    BY <1>2 DEF IsRam, RamFields
  <2> HIDE DEF r
  <2> QED
    BY <1>2, <2>1 DEF IsRam
<1> HIDE DEF r
<1>5. RamOk(ram') /\ ram'.group = old.group
    BY <1>1, <1>2, <1>4, StartRadioKeeps
<1>6. /\ DOMAIN nvs' = {"group", "count", "trackers"} /\ nvs'.group \in Groups
      /\ failures' \in Nat /\ (failures' <= 1 => nvs'.group = old.group)
    BY <1>1, <1>2, <1>3 DEF Flash
<1>7. control'.op = "none"
    BY <1>1 DEF NoControl
<1> QED
    BY <1>5, <1>6, <1>7, PairingRests

LEMMA PairingSwitches ==
    ASSUME PairingInv, NEW on \in BOOLEAN, SetPairing(on) \/ SetEnabled(on)
    PROVE  PairingInv'
<1> DEFINE stopped == StopRadio(ram)
<1>1. control.op = "none" /\ control' = control /\ nvs' = nvs /\ failures' = failures
    BY DEF SetPairing, SetEnabled, MutexFree
<1>2. /\ IsRam(stopped) /\ ~stopped.radio.on /\ stopped.group = ram.group
      /\ stopped.primary = ram.primary /\ stopped.pairing = ram.pairing
      /\ Consistent(ram.group, ram.primary, ram.pairing)
    BY StopRadioKeeps DEF PairingInv, StateInv, RamOk
<1>3. PICK r : /\ ram' \in StartRadio(r)
               /\ \/ r = [stopped EXCEPT !.pairing = on] /\ (on => ram.primary)
                  \/ r = [stopped EXCEPT !.radio_enabled = on]
    BY DEF SetPairing, SetEnabled
<1> HIDE DEF stopped
<1>4. /\ DOMAIN r = DOMAIN stopped /\ r.group = stopped.group /\ r.primary = stopped.primary
      /\ r.pairing \in BOOLEAN /\ (r.pairing => r.primary)
      /\ r.radio_enabled \in BOOLEAN /\ r.radio = stopped.radio
    BY <1>2, <1>3 DEF IsRam, RamFields, Consistent
<1>5. IsRam(r) /\ ~r.radio.on /\ Consistent(r.group, r.primary, r.pairing)
    BY <1>2, <1>4 DEF IsRam, Consistent
<1>6. RamOk(ram') /\ ram'.group = ram.group
    BY <1>2, <1>3, <1>4, <1>5, StartRadioKeeps
<1>7. /\ DOMAIN nvs = {"group", "count", "trackers"} /\ nvs.group \in Groups /\ failures \in Nat
      /\ (failures <= 1 => nvs.group = ram.group)
    BY <1>1 DEF PairingInv, StateInv, GroupInv
<1> QED
    BY <1>1, <1>6, <1>7, PairingRests

LEMMA PairingReboots == PairingInv /\ Reboot => PairingInv'
<1> SUFFICES ASSUME PairingInv, Reboot PROVE PairingInv'
    OBVIOUS
<1>1. ram' = Boot(nvs) /\ control' = NoControl /\ nvs' = nvs /\ failures' = failures
    BY DEF Reboot
<1>2. DOMAIN nvs = {"group", "count", "trackers"} /\ nvs.group \in Groups /\ failures \in Nat
    BY DEF PairingInv, StateInv
<1>3. RamOk(ram') /\ ram'.group = nvs.group
    BY <1>1, <1>2, BootOk
<1>4. control'.op = "none"
    BY <1>1 DEF NoControl
<1> QED
    BY <1>1, <1>2, <1>3, <1>4, PairingRests

LEMMA PairingStep == PairingInv /\ [Next]_vars => PairingInv'
<1> SUFFICES ASSUME PairingInv, [Next]_vars PROVE PairingInv'
    OBVIOUS
<1>1. CASE UNCHANGED vars
  <2>1. ram' = ram /\ control' = control /\ nvs' = nvs /\ failures' = failures
    BY <1>1 DEF vars
  <2>2. RamOk(ram) /\ DOMAIN nvs = {"group", "count", "trackers"} /\ failures \in Nat
    BY DEF PairingInv, StateInv
  <2> QED
    BY <2>1, <2>2, PairingKept
<1>2. CASE RadioInterrupt \/ Persist
    BY <1>2, PairingRadio, PairingPersists
<1>3. CASE \/ \E group \in Groups, secondary \in BOOLEAN : BeginSetGroup(secondary, group)
           \/ BeginClear
    BY <1>3, PairingBeginsGroup, PairingBeginsClear
<1>4. CASE ControlStep
    BY <1>4, PairingWritesGroup, PairingDeletes, PairingFinishes, PairingRestores DEF ControlStep
<1>5. CASE \E on \in BOOLEAN : SetPairing(on) \/ SetEnabled(on)
    BY <1>5, PairingSwitches
<1>6. CASE Reboot
    BY <1>6, PairingReboots
<1> QED
    BY <1>1, <1>2, <1>3, <1>4, <1>5, <1>6 DEF Next

LEMMA PairingHolds == Spec => []PairingInv
BY PairingInit, PairingStep, PTL DEF Spec

-----------------------------------------------------------------------------
(* The theorems *)

\* The running radio listens for the current group, and for pairing requests exactly in
\* pairing mode, whichever command, failed command or boot has started it.
THEOREM RadioAsConfigured == Spec => []RadioMatchesConfig
<1>1. PairingInv => RadioMatchesConfig
    BY DEF PairingInv, StateInv, RamOk, RadioOk, Consistent, RadioMatchesConfig
<1> QED
    BY PairingHolds, <1>1, PTL

\* A regroup that is carried out or undone, with one flash operation failing in it or
\* before it, leaves the group in flash that is in use.
THEOREM GroupSurvivesReboot == Spec => []GroupIsStored
<1>1. PairingInv => GroupIsStored
  <2>1. NoControl.op = "none"
    BY DEF NoControl
  <2> QED
    BY <2>1 DEF PairingInv, GroupInv, GroupIsStored
<1> QED
    BY PairingHolds, <1>1, PTL

-----------------------------------------------------------------------------
(* The types of the variables *)

\* A nonempty set of natural numbers has a least element: the one that ends the smallest
\* of the intervals from 0 to an element.
LEMMA LeastElement ==
    ASSUME NEW T, T \subseteq Nat, T # {}
    PROVE  \E x \in T : \A y \in T : x <= y
<1> DEFINE Upto == {0..n : n \in T}
           R == StrictSubsetOrdering(Nat)
<1>1. Upto \subseteq FiniteSubsetsOf(Nat) /\ Upto # {}
  <2>1. \A n \in T : IsFiniteSet(0..n) /\ 0..n \subseteq Nat
    BY FS_Interval
  <2> QED
    BY <2>1 DEF FiniteSubsetsOf
<1>2. \E u \in Upto : \A v \in Upto : <<v, u>> \notin R
    BY <1>1, FS_StrictSubsetOrderingWellFounded, WFMin
<1>3. PICK x \in T : \A y \in T : <<0..y, 0..x>> \notin R
    BY <1>2
<1>4. ASSUME NEW y \in T, y < x PROVE FALSE
  <2>1. x \in 0..x /\ x \notin 0..y /\ 0..y \subseteq 0..x /\ 0..x \subseteq Nat
    BY <1>4
  <2> QED
    BY <1>3, <2>1 DEF StrictSubsetOrdering
<1> QED
    BY <1>4

Rams == [trackers : [Ids -> Entries], count : 0..MaxTrackers, group : Groups,
         primary : BOOLEAN, pairing : BOOLEAN, radio_enabled : BOOLEAN,
         radio : [on : BOOLEAN, pairing : BOOLEAN, group : Groups], generation : Eras]

Nvs == [group : Groups, count : 0..MaxTrackers, trackers : [Ids -> Entries]]

Workers == [step : {"idle"}] \union [step : {"taken", "count"}, record : Records]

Clears == [op : {"clear"}, step : {"delete", "finish"}, next : 0..MaxTrackers, failed : BOOLEAN]

Regroups == [op : {"group"}, step : {"write", "delete", "finish"}, next : 0..MaxTrackers,
             failed : BOOLEAN,
             previous : [group : Groups, primary : BOOLEAN, pairing : BOOLEAN]]

Commands == Clears \union Regroups

TypeInv ==
    /\ ram \in Rams
    /\ queue \in Seq(Records) /\ Len(queue) <= QueueSize
    /\ worker \in Workers
    /\ control \in {NoControl} \union Commands
    /\ storedCount \in 0..MaxTrackers
    /\ nvs \in Nvs
    /\ acked \subseteq [id : Ids, address : Addresses]
    /\ era \in Eras /\ clearedEra \in 0..era /\ ram.generation <= era
    /\ torn \in BOOLEAN
    /\ reboots \in Nat /\ failures \in Nat /\ reboots + failures <= MaxFaults

\* What the radio, the group and the pairing mode do not touch.
SameTable(n, r) ==
    /\ n.trackers = r.trackers /\ n.count = r.count /\ n.generation = r.generation

LEMMA NoneOrCommand ==
    /\ NoControl.op = "none"
    /\ \A c \in Commands : c.op \in {"clear", "group"} /\ c.next \in 0..MaxTrackers
                           /\ c.failed \in BOOLEAN /\ c.step \in {"write", "delete", "finish"}
BY DEF NoControl, Commands, Clears, Regroups

LEMMA TableAdded ==
    ASSUME NEW r \in Rams, NEW id \in Ids, NEW a \in Addresses, era \in Eras
    PROVE  LET n == AddTracker(r, id, a) IN
           /\ n \in Rams
           /\ n.trackers = [r.trackers EXCEPT ![id] = [address |-> a, era |-> era]]
           /\ n.generation = r.generation /\ n.primary = r.primary
           /\ n.count >= r.count /\ n.count > id
           /\ n.count = IF id >= r.count THEN id + 1 ELSE r.count
<1> DEFINE t == [r.trackers EXCEPT ![id] = [address |-> a, era |-> era]]
           c == IF id >= r.count THEN id + 1 ELSE r.count
<1>1. AddTracker(r, id, a) = [r EXCEPT !.trackers = t, !.count = c]
    BY DEF AddTracker, Rams
<1>2. r.count \in 0..MaxTrackers /\ r.trackers \in [Ids -> Entries]
    BY DEF Rams
<1>3. c \in 0..MaxTrackers /\ c >= r.count /\ c > id
    BY <1>2, TableAssumption DEF Ids
<1>4. t \in [Ids -> Entries]
    BY <1>2 DEF Entries
<1> HIDE DEF t, c
<1>5. LET n == [r EXCEPT !.trackers = t, !.count = c] IN
      n \in Rams /\ n.trackers = t /\ n.count = c /\ n.generation = r.generation
      /\ n.primary = r.primary
    BY <1>3, <1>4 DEF Rams
<1> QED
    BY <1>1, <1>3, <1>5 DEF t, c

LEMMA RadioStopped ==
    ASSUME NEW r \in Rams
    PROVE  LET n == StopRadio(r) IN
           n \in Rams /\ SameTable(n, r) /\ n.primary = r.primary
BY DEF StopRadio, Rams, SameTable

LEMMA RadioStarts ==
    ASSUME NEW r \in Rams, NEW n \in StartRadio(r)
    PROVE  n \in Rams /\ SameTable(n, r) /\ n.primary = r.primary
<1>1. CASE n = r
    BY <1>1 DEF SameTable
<1>2. CASE n = [r EXCEPT !.radio = [on |-> TRUE, pairing |-> r.pairing, group |-> r.group]]
  <2> DEFINE radio == [on |-> TRUE, pairing |-> r.pairing, group |-> r.group]
  <2>1. radio \in [on : BOOLEAN, pairing : BOOLEAN, group : Groups]
    BY DEF Rams
  <2> HIDE DEF radio
  <2>2. n = [r EXCEPT !.radio = radio]
    BY <1>2 DEF radio
  <2> QED
    BY <2>1, <2>2 DEF Rams, SameTable
<1> QED
    BY <1>1, <1>2 DEF StartRadio, RadioStarted

LEMMA TableEmptied ==
    ASSUME NEW r \in Rams
    PROVE  LET n == EmptiedTable(r) IN
           /\ n \in Rams /\ n.trackers = EmptyTable /\ n.count = 0
           /\ n.generation = r.generation /\ n.primary = r.primary
<1>1. EmptyTable \in [Ids -> Entries]
    BY DEF EmptyTable, Entries
<1>2. 0 \in 0..MaxTrackers
    BY TableAssumption
<1> QED
    BY <1>1, <1>2 DEF EmptiedTable, Rams

LEMMA TableBooted ==
    ASSUME NEW n \in Nvs
    PROVE  LET r == Boot(n) IN
           /\ r \in Rams /\ r.count = n.count /\ r.generation = 0
           /\ r.trackers = [i \in Ids |-> IF i < n.count THEN n.trackers[i] ELSE NoTracker]
<1> DEFINE t == [i \in Ids |-> IF i < n.count THEN n.trackers[i] ELSE NoTracker]
           Off(primary, pairing, zero, on, yes) ==
               [trackers |-> t, count |-> n.count, group |-> n.group, primary |-> primary,
                pairing |-> pairing, radio_enabled |-> yes,
                radio |-> [on |-> on, pairing |-> on, group |-> n.group], generation |-> zero]
           r == Off(n.group = Own, n.group = Own /\ n.count = 0, 0, FALSE, TRUE)
<1>1. Boot(n) = RadioStarted(r)
    BY DEF Boot
<1>2. t \in [Ids -> Entries] /\ n.count \in 0..MaxTrackers /\ n.group \in Groups
    BY DEF Nvs, Entries
<1>3. 0 \in Eras
    BY PairingBoundsAssumption DEF Eras
<1>4. (n.group = Own) \in BOOLEAN /\ (n.group = Own /\ n.count = 0) \in BOOLEAN
    OBVIOUS
<1> HIDE DEF t
<1>5. \A primary, pairing, on, yes \in BOOLEAN, zero \in Eras :
          LET o == Off(primary, pairing, zero, on, yes) IN
          o \in Rams /\ o.trackers = t /\ o.count = n.count /\ o.generation = zero
    BY <1>2 DEF Rams
<1> HIDE DEF Off
<1>6. r \in Rams /\ r.trackers = t /\ r.count = n.count /\ r.generation = 0
    BY <1>3, <1>4, <1>5
<1> HIDE DEF r
<1>7. RadioStarted(r) \in StartRadio(r)
    BY DEF StartRadio
<1>8. Boot(n) \in Rams /\ SameTable(Boot(n), r)
    BY <1>1, <1>6, <1>7, RadioStarts
<1> QED
    BY <1>6, <1>8 DEF t, SameTable

\* The id that a pairing request is given.
LEMMA PairIdIsFree ==
    ASSUME TypeInv, NEW a \in Addresses, PairAllowed(a)
    PROVE  /\ PairId(a) \in Ids
           /\ \/ PairId(a) \in IdsOf(a)
              \/ PairId(a) = ram.count /\ IdsOf(a) = {}
<1>1. ram.count \in 0..MaxTrackers /\ PairId(a) < MaxTrackers
    BY DEF TypeInv, Rams, PairAllowed
<1>2. CASE IdsOf(a) = {}
    BY <1>1, <1>2, TableAssumption DEF PairId, Ids
<1>3. CASE IdsOf(a) # {}
  <2>1. IdsOf(a) \subseteq 0..(ram.count - 1)
    BY DEF IdsOf
  <2>2. \E i \in IdsOf(a) : \A j \in IdsOf(a) : i <= j
    BY <1>1, <1>3, <2>1, LeastElement
  <2>3. PairId(a) \in IdsOf(a)
    BY <1>3, <2>2 DEF PairId
  <2> QED
    BY <1>1, <2>1, <2>3, TableAssumption DEF Ids
<1> QED
    BY <1>2, <1>3

LEMMA FlashTypes ==
    ASSUME TypeInv, NEW n \in Nvs, NEW ok \in BOOLEAN, Flash(n, ok), reboots' = reboots
    PROVE  /\ nvs' \in Nvs /\ failures' \in Nat /\ reboots' + failures' <= MaxFaults
           /\ failures' = 0 => failures = 0 /\ ok /\ nvs' = n
BY PairingBoundsAssumption DEF Flash, TypeInv

LEMMA TypesInit == Init => TypeInv
<1> SUFFICES ASSUME Init PROVE TypeInv
    OBVIOUS
<1>1. EmptyNvs \in Nvs
  <2>1. EmptyTable \in [Ids -> Entries]
    BY DEF EmptyTable, Entries
  <2>2. 0 \in 0..MaxTrackers
    BY TableAssumption
  <2> QED
    BY <2>1, <2>2, GroupsAssumption DEF EmptyNvs, Nvs
<1>2. ram \in Rams /\ ram.generation = 0 /\ nvs \in Nvs
    BY <1>1, TableBooted DEF Init
<1>3. worker \in Workers
    BY DEF Init, Idle, Workers
<1>4. queue \in Seq(Records) /\ Len(queue) = 0
    BY DEF Init
<1>5. era = 0 /\ clearedEra = 0 /\ 0 \in 0..0 /\ 0 \in Eras
    BY PairingBoundsAssumption DEF Init, Eras
<1>6. storedCount \in 0..MaxTrackers
    BY TableAssumption DEF Init
<1> QED
  <2>1. /\ control = NoControl /\ acked = {} /\ torn = FALSE /\ reboots = 0 /\ failures = 0
        /\ queue = <<>>
    BY DEF Init
  <2>2. reboots + failures <= MaxFaults /\ reboots \in Nat /\ failures \in Nat
    BY <2>1, PairingBoundsAssumption
  <2>3. Len(queue) <= QueueSize /\ ram.generation <= era /\ clearedEra \in 0..era
    BY <1>2, <1>4, <1>5, TableAssumption
  <2> QED
    BY <1>2, <1>3, <1>4, <1>5, <1>6, <2>1, <2>2, <2>3 DEF TypeInv

\* A tracker enters the table; a pairing request also queues a record.
LEMMA RadioAdds ==
    ASSUME TypeInv, RadioInterrupt
    PROVE  \E a \in Addresses, id \in Ids :
              /\ ram' = AddTracker(ram, id, a) /\ Free(ram, id, a) /\ ram.radio.on
              /\ UNCHANGED <<worker, control, storedCount, nvs, era, clearedEra, torn,
                             reboots, failures>>
              /\ \/ queue' = queue /\ acked' = acked
                 \/ /\ Len(queue) < QueueSize /\ ram.primary
                    /\ queue' = Append(queue,
                           [id |-> id, tracker_count |-> ram'.count, address |-> a,
                            generation |-> ram.generation, era |-> era])
                    /\ acked' = acked \union {[id |-> id, address |-> a]}
              /\ ram.primary => (id \in IdsOf(a) \/ (id = ram.count /\ IdsOf(a) = {}))
<1>1. PICK a \in Addresses :
          PairAcknowledged(a) \/ PairQueueFull(a) \/ \E id \in Ids : LearnTracker(id, a)
    BY DEF RadioInterrupt
<1>2. CASE PairAcknowledged(a) \/ PairQueueFull(a)
  <2>1. PairAllowed(a)
    BY <1>2 DEF PairAcknowledged, PairQueueFull
  <2>2. PairId(a) \in Ids /\ (PairId(a) \in IdsOf(a) \/ (PairId(a) = ram.count /\ IdsOf(a) = {}))
    BY <2>1, PairIdIsFree
  <2>3. Free(ram, PairId(a), a) /\ ram.radio.on
    BY <2>1 DEF PairAllowed
  <2> DEFINE id == PairId(a)
  <2>4. /\ ram' = AddTracker(ram, id, a)
        /\ UNCHANGED <<worker, control, storedCount, nvs, era, clearedEra, torn, reboots, failures>>
    BY <1>2 DEF PairAcknowledged, PairQueueFull
  <2>5. \/ queue' = queue /\ acked' = acked
        \/ /\ Len(queue) < QueueSize /\ ram.primary
           /\ queue' = Append(queue,
                  [id |-> id, tracker_count |-> ram'.count, address |-> a,
                   generation |-> ram.generation, era |-> era])
           /\ acked' = acked \union {[id |-> id, address |-> a]}
    BY <1>2, <2>1 DEF PairAcknowledged, PairQueueFull, PairAllowed
  <2> HIDE DEF id
  <2> QED
    BY <2>2, <2>3, <2>4, <2>5 DEF id
<1>3. CASE \E id \in Ids : LearnTracker(id, a)
    BY <1>3 DEF LearnTracker
<1> QED
    BY <1>1, <1>2, <1>3

LEMMA TypesRadio == TypeInv /\ RadioInterrupt => TypeInv'
<1> SUFFICES ASSUME TypeInv, RadioInterrupt PROVE TypeInv'
    OBVIOUS
<1>1. PICK a \in Addresses, id \in Ids :
          /\ ram' = AddTracker(ram, id, a)
          /\ UNCHANGED <<worker, control, storedCount, nvs, era, clearedEra, torn, reboots, failures>>
          /\ \/ queue' = queue /\ acked' = acked
             \/ /\ Len(queue) < QueueSize
                /\ queue' = Append(queue,
                       [id |-> id, tracker_count |-> ram'.count, address |-> a,
                        generation |-> ram.generation, era |-> era])
                /\ acked' = acked \union {[id |-> id, address |-> a]}
    BY RadioAdds
<1>2. /\ ram' \in Rams /\ ram'.generation = ram.generation /\ ram'.count > id
      /\ era \in Eras /\ ram.generation \in Eras
  <2>1. ram \in Rams /\ era \in Eras
    BY DEF TypeInv
  <2>2. ram.generation \in Eras
    BY <2>1 DEF Rams
  <2> QED
    BY <1>1, <2>1, <2>2, TableAdded
<1>3. ram'.count \in 1..MaxTrackers
    BY <1>2 DEF Rams, Ids
<1>4. [id |-> id, tracker_count |-> ram'.count, address |-> a,
       generation |-> ram.generation, era |-> era] \in Records
    BY <1>2, <1>3 DEF Records
<1>5. queue' \in Seq(Records) /\ Len(queue') <= QueueSize
    BY <1>1, <1>4, TableAssumption DEF TypeInv
<1>6. acked' \subseteq [id : Ids, address : Addresses]
    BY <1>1 DEF TypeInv
<1> QED
    BY <1>1, <1>2, <1>5, <1>6 DEF TypeInv

LEMMA TypesPersist == TypeInv /\ Persist => TypeInv'
<1> SUFFICES ASSUME TypeInv, Persist PROVE TypeInv'
    OBVIOUS
<1>1. UNCHANGED <<ram, control, acked, era, clearedEra, torn, reboots>>
    BY DEF Persist, PersistTake, PersistStale, PersistTracker, PersistCount
<1>2. Idle \in Workers
    BY DEF Idle, Workers
<1>3. CASE PersistTake
  <2>1. Head(queue) \in Records /\ Tail(queue) \in Seq(Records) /\ Len(Tail(queue)) <= QueueSize
    <3>1. queue \in Seq(Records) /\ Len(queue) <= QueueSize /\ queue # <<>>
      BY <1>3 DEF PersistTake, TypeInv
    <3> QED
      BY <3>1, TableAssumption, HeadTailProperties
  <2>2. worker' \in Workers
    BY <1>3, <2>1 DEF PersistTake, Workers
  <2> QED
    BY <1>1, <1>3, <2>1, <2>2 DEF PersistTake, TypeInv
<1>4. CASE PersistStale
    BY <1>1, <1>2, <1>4 DEF PersistStale, TypeInv
<1>5. CASE PersistTracker
  <2> DEFINE key == [address |-> worker.record.address, era |-> worker.record.era]
             n == [nvs EXCEPT !.trackers[worker.record.id] = key]
  <2>1. PICK ok \in BOOLEAN :
            Flash(n, ok) /\ worker' = IF ok THEN [worker EXCEPT !.step = "count"] ELSE Idle
    BY <1>5 DEF PersistTracker
  <2>2. worker.record \in Records /\ worker \in [step : {"taken", "count"}, record : Records]
    BY <1>5 DEF PersistTracker, TypeInv, Workers
  <2>3. n \in Nvs
    <3>1. key \in Entries /\ worker.record.id \in Ids
      BY <2>2 DEF Records, Entries
    <3> HIDE DEF key
    <3> QED
      BY <3>1 DEF TypeInv, Nvs
  <2> HIDE DEF n
  <2>4. worker' \in Workers
    BY <1>2, <2>1, <2>2 DEF Workers
  <2>5. nvs' \in Nvs /\ failures' \in Nat /\ reboots' + failures' <= MaxFaults
    BY <1>1, <2>1, <2>3, FlashTypes
  <2>6. UNCHANGED <<queue, storedCount>>
    BY <1>5 DEF PersistTracker
  <2> QED
    BY <1>1, <2>4, <2>5, <2>6 DEF TypeInv
<1>6. CASE PersistCount
  <2> DEFINE n == [nvs EXCEPT !.count = worker.record.tracker_count]
  <2>1. PICK ok \in BOOLEAN : Flash(n, ok)
    BY <1>6 DEF PersistCount
  <2>2. worker.record.tracker_count \in 0..MaxTrackers
    BY <1>6 DEF PersistCount, TypeInv, Workers, Records
  <2>3. n \in Nvs
    BY <2>2 DEF TypeInv, Nvs
  <2> HIDE DEF n
  <2>4. nvs' \in Nvs /\ failures' \in Nat /\ reboots' + failures' <= MaxFaults
    BY <1>1, <2>1, <2>3, FlashTypes
  <2> QED
    BY <1>1, <1>2, <1>6, <2>2, <2>4 DEF PersistCount, TypeInv
<1> QED
    BY <1>3, <1>4, <1>5, <1>6 DEF Persist

\* A command stops the radio, and whatever is queued belongs to a former generation.
LEMMA CommandBegins ==
    ASSUME TypeInv, BeginClear \/ \E group \in Groups, s \in BOOLEAN : BeginSetGroup(s, group)
    PROVE  /\ MutexFree /\ era' = era + 1 /\ era' \in Eras /\ acked' = {}
           /\ UNCHANGED <<queue, worker, storedCount, nvs, clearedEra, torn, reboots, failures>>
           /\ ram' \in Rams /\ ram'.generation = ram.generation + 1
           /\ ram'.trackers = ram.trackers /\ ram'.count = ram.count
           /\ control' \in Commands /\ control'.next = 0 /\ control'.failed = FALSE
           /\ control'.step \in {"write", "delete"}
<1> DEFINE r == StopRadio(ram)
<1>1. r \in Rams /\ SameTable(r, ram) /\ era < MaxEra /\ ram.generation <= era /\ ram.generation \in Nat
  <2>1. r \in Rams /\ SameTable(r, ram)
    BY RadioStopped DEF TypeInv
  <2> QED
    <3>1. era < MaxEra
      BY DEF BeginClear, BeginSetGroup
    <3>2. ram.generation <= era /\ ram.generation \in Nat
      BY DEF TypeInv, Rams, Eras
    <3> QED
      BY <2>1, <3>1, <3>2
<1>2. ram.generation + 1 \in Eras /\ era + 1 \in Eras
    BY <1>1, PairingBoundsAssumption DEF TypeInv, Eras
<1>3. 0 \in 0..MaxTrackers
    BY TableAssumption
<1>4. CASE BeginClear
  <2>1. ram' = [r EXCEPT !.generation = @ + 1]
    BY <1>4 DEF BeginClear
  <2>2. control' = [op |-> "clear", step |-> "delete", next |-> 0, failed |-> FALSE]
    BY <1>4 DEF BeginClear
  <2>3. \A z \in 0..MaxTrackers, f \in BOOLEAN :
            [op |-> "clear", step |-> "delete", next |-> z, failed |-> f] \in Commands
    BY DEF Commands, Clears
  <2>4. control' \in Commands
    BY <1>3, <2>2, <2>3
  <2>5. control'.next = 0 /\ control'.failed = FALSE /\ control'.step = "delete"
    BY <2>2
  <2> HIDE DEF r
  <2>6. ram' \in Rams /\ ram'.generation = ram.generation + 1
        /\ ram'.trackers = ram.trackers /\ ram'.count = ram.count
    BY <1>1, <1>2, <2>1 DEF Rams, SameTable
  <2> QED
    BY <1>2, <1>4, <2>4, <2>5, <2>6 DEF BeginClear
<1>5. CASE \E group \in Groups, s \in BOOLEAN : BeginSetGroup(s, group)
  <2>1. PICK group \in Groups, s \in BOOLEAN : BeginSetGroup(s, group)
    BY <1>5
  <2> DEFINE g == IF s THEN group ELSE Own
             old == [group |-> ram.group, primary |-> ram.primary, pairing |-> ram.pairing]
             Regroup(z, f) == [op |-> "group", step |-> "write", next |-> z, failed |-> f,
                               previous |-> old]
             Quiet(p, f) == [r EXCEPT !.generation = @ + 1, !.group = g, !.primary = p, !.pairing = f]
  <2>2. ram' = Quiet(~s, FALSE) /\ control' = Regroup(0, FALSE)
    BY <2>1 DEF BeginSetGroup
  <2>3. old \in [group : Groups, primary : BOOLEAN, pairing : BOOLEAN]
    BY DEF TypeInv, Rams
  <2>4. g \in Groups
    BY GroupsAssumption
  <2> HIDE DEF old, g, r
  <2>5. \A z \in 0..MaxTrackers, f \in BOOLEAN :
            LET c == Regroup(z, f) IN
            c \in Commands /\ c.next = z /\ c.failed = f /\ c.step = "write"
    BY <2>3 DEF Commands, Regroups
  <2>6. \A p, f \in BOOLEAN :
            LET q == Quiet(p, f) IN
            /\ q \in Rams /\ q.generation = ram.generation + 1
            /\ q.trackers = ram.trackers /\ q.count = ram.count
    BY <1>1, <1>2, <2>4 DEF Rams, SameTable
  <2> HIDE DEF Regroup, Quiet
  <2>7. /\ control' \in Commands /\ control'.next = 0 /\ control'.failed = FALSE
        /\ control'.step = "write"
    BY <1>3, <2>2, <2>5
  <2>8. /\ ram' \in Rams /\ ram'.generation = ram.generation + 1
        /\ ram'.trackers = ram.trackers /\ ram'.count = ram.count
    BY <2>2, <2>6
  <2> QED
    BY <1>2, <2>1, <2>7, <2>8 DEF BeginSetGroup
<1> QED
    BY <1>4, <1>5

LEMMA TypesBegin ==
    TypeInv /\ (BeginClear \/ \E group \in Groups, s \in BOOLEAN : BeginSetGroup(s, group))
        => TypeInv'
<1> SUFFICES ASSUME TypeInv,
                    BeginClear \/ \E group \in Groups, s \in BOOLEAN : BeginSetGroup(s, group)
             PROVE  TypeInv'
    OBVIOUS
<1>1. /\ era' = era + 1 /\ era' \in Eras /\ acked' = {}
      /\ UNCHANGED <<queue, worker, storedCount, nvs, clearedEra, torn, reboots, failures>>
      /\ ram' \in Rams /\ ram'.generation = ram.generation + 1 /\ control' \in Commands
    BY CommandBegins
<1>2. ram.generation <= era /\ ram.generation \in Nat /\ era \in Nat /\ clearedEra \in 0..era
    BY DEF TypeInv, Rams, Eras
<1>3. ram'.generation <= era' /\ clearedEra' \in 0..era'
    BY <1>1, <1>2
<1> QED
    BY <1>1, <1>3 DEF TypeInv

\* A flash operation of a command, and what it does to the keys.
LEMMA CommandWrites ==
    ASSUME TypeInv, WriteGroup \/ DeleteKey \/ ClearCount
    PROVE  /\ UNCHANGED <<ram, queue, worker, acked, era, clearedEra, torn, reboots>>
           /\ control \in Commands /\ control' \in Commands
           /\ nvs' \in Nvs /\ failures' \in Nat /\ reboots' + failures' <= MaxFaults
           /\ storedCount' \in 0..MaxTrackers
           /\ failures' = 0 =>
                /\ failures = 0
                /\ control.failed = FALSE => control'.failed = FALSE
                /\ \/ /\ control.step = "write" /\ control'.step = "delete"
                      /\ control'.next = control.next /\ storedCount' = storedCount
                      /\ nvs'.trackers = nvs.trackers /\ nvs'.count = nvs.count
                   \/ /\ control.step = "delete" /\ control'.step = "delete"
                      /\ control.next < storedCount /\ control.next \in Ids
                      /\ control'.next = control.next + 1 /\ storedCount' = storedCount
                      /\ nvs'.trackers = [nvs.trackers EXCEPT ![control.next] = NoTracker]
                      /\ nvs'.count = nvs.count
                   \/ /\ control.step = "delete" /\ control'.step = "finish"
                      /\ control.next >= storedCount /\ storedCount' = 0
                      /\ nvs'.trackers = nvs.trackers /\ nvs'.count = 0
<1>1. UNCHANGED <<ram, queue, worker, acked, era, clearedEra, torn, reboots>>
    BY DEF WriteGroup, DeleteKey, ClearCount
<1>2. control \in Commands
    BY NoneOrCommand DEF WriteGroup, DeleteKey, ClearCount, TypeInv
<1>3. 0 \in 0..MaxTrackers /\ nvs \in Nvs /\ storedCount \in 0..MaxTrackers
    BY TableAssumption DEF TypeInv
<1>4. \A st \in {"delete", "finish"}, f \in BOOLEAN :
          LET c == [control EXCEPT !.step = st, !.failed = f] IN
          c \in Commands /\ c.step = st /\ c.failed = f /\ c.next = control.next
  <2>1. CASE control \in Clears
    BY <2>1 DEF Commands, Clears
  <2>2. CASE control \in Regroups
    BY <2>2 DEF Commands, Regroups
  <2> QED
    BY <1>2, <2>1, <2>2 DEF Commands
<1>5. CASE WriteGroup
  <2> DEFINE n == [nvs EXCEPT !.group = ram.group]
  <2>1. PICK ok \in BOOLEAN :
            Flash(n, ok) /\ control' = [control EXCEPT !.step = "delete", !.failed = ~ok]
    BY <1>5 DEF WriteGroup
  <2>2. n \in Nvs /\ n.trackers = nvs.trackers /\ n.count = nvs.count
    BY DEF TypeInv, Nvs, Rams
  <2> HIDE DEF n
  <2>3. /\ nvs' \in Nvs /\ failures' \in Nat /\ reboots' + failures' <= MaxFaults
        /\ failures' = 0 => failures = 0 /\ ok /\ nvs' = n
    BY <1>1, <2>1, <2>2, FlashTypes
  <2>4. /\ control' \in Commands /\ control'.step = "delete" /\ control'.next = control.next
        /\ control'.failed = ~ok
    BY <1>4, <2>1
  <2> QED
    BY <1>1, <1>2, <1>3, <1>5, <2>2, <2>3, <2>4 DEF WriteGroup
<1>6. CASE DeleteKey
  <2> DEFINE n == [nvs EXCEPT !.trackers[control.next] = NoTracker]
  <2>1. PICK ok \in BOOLEAN :
            /\ Flash(n, ok)
            /\ control' = IF ok THEN [control EXCEPT !.next = @ + 1]
                          ELSE [control EXCEPT !.step = "finish", !.failed = TRUE]
    BY <1>6 DEF DeleteKey
  <2>2. control.next \in Ids /\ control.next + 1 \in 0..MaxTrackers /\ control.next < storedCount
    <3>1. control.next \in 0..MaxTrackers
      BY <1>2, NoneOrCommand
    <3>2. control.next < storedCount
      BY <1>6 DEF DeleteKey
    <3> QED
      BY <1>3, <3>1, <3>2, TableAssumption DEF Ids
  <2>3. /\ n \in Nvs /\ n.trackers = [nvs.trackers EXCEPT ![control.next] = NoTracker]
        /\ n.count = nvs.count
    BY <1>3 DEF Nvs, Entries
  <2> HIDE DEF n
  <2>4. /\ nvs' \in Nvs /\ failures' \in Nat /\ reboots' + failures' <= MaxFaults
        /\ failures' = 0 => failures = 0 /\ ok /\ nvs' = n
    BY <1>1, <2>1, <2>3, FlashTypes
  <2>5. CASE ok
    <3>1. control' = [control EXCEPT !.next = control.next + 1]
      BY <2>1, <2>5
    <3>2. /\ control' \in Commands /\ control'.next = control.next + 1
          /\ control'.step = control.step /\ control'.failed = control.failed
      <4>1. CASE control \in Clears
        BY <2>2, <3>1, <4>1 DEF Commands, Clears
      <4>2. CASE control \in Regroups
        BY <2>2, <3>1, <4>2 DEF Commands, Regroups
      <4> QED
        BY <1>2, <4>1, <4>2 DEF Commands
    <3> QED
      BY <1>1, <1>2, <1>3, <1>6, <2>2, <2>3, <2>4, <3>2 DEF DeleteKey
  <2>6. CASE ~ok
    <3>1. control' \in Commands
      BY <1>4, <2>1, <2>6
    <3> QED
      BY <1>1, <1>2, <1>3, <1>6, <2>4, <2>6, <3>1 DEF DeleteKey
  <2> QED
    BY <2>5, <2>6
<1>7. CASE ClearCount
  <2> DEFINE n == [nvs EXCEPT !.count = 0]
  <2>1. PICK ok \in BOOLEAN :
            Flash(n, ok) /\ control' = [control EXCEPT !.step = "finish", !.failed = @ \/ ~ok]
    BY <1>7 DEF ClearCount
  <2>2. n \in Nvs /\ n.trackers = nvs.trackers /\ n.count = 0
    BY <1>3 DEF Nvs
  <2> HIDE DEF n
  <2>3. /\ nvs' \in Nvs /\ failures' \in Nat /\ reboots' + failures' <= MaxFaults
        /\ failures' = 0 => failures = 0 /\ ok /\ nvs' = n
    BY <1>1, <2>1, <2>2, FlashTypes
  <2>4. control.failed \in BOOLEAN
    BY <1>2, NoneOrCommand
  <2> DEFINE f == control.failed \/ ~ok
  <2>5. f \in BOOLEAN /\ (ok /\ control.failed = FALSE => f = FALSE)
    BY <2>4
  <2>6. control' = [control EXCEPT !.step = "finish", !.failed = f]
    BY <2>1
  <2> HIDE DEF f
  <2>7. control' \in Commands /\ control'.step = "finish" /\ control'.failed = f
    BY <1>4, <2>5, <2>6
  <2> QED
    BY <1>1, <1>2, <1>3, <1>7, <2>2, <2>3, <2>5, <2>7 DEF ClearCount
<1> QED
    BY <1>5, <1>6, <1>7

LEMMA TypesWrites == TypeInv /\ (WriteGroup \/ DeleteKey \/ ClearCount) => TypeInv'
BY CommandWrites DEF TypeInv

\* The end of a command, and what a command that has not failed leaves behind.
LEMMA CommandEnds ==
    ASSUME TypeInv, FinishSetGroup \/ RestoreGroup \/ FinishClear
    PROVE  /\ control \in Commands /\ control.step = "finish" /\ control' = NoControl
           /\ UNCHANGED <<worker, storedCount, acked, era, torn, reboots>>
           /\ ram' \in Rams /\ ram'.generation = ram.generation
           /\ nvs' \in Nvs /\ nvs'.trackers = nvs.trackers /\ nvs'.count = nvs.count
           /\ failures' \in Nat /\ reboots' + failures' <= MaxFaults
           /\ failures' = 0 => failures = 0
           /\ queue' \in {queue, <<>>} /\ clearedEra' \in {clearedEra, era}
           /\ ~control.failed =>
                 ram'.trackers = EmptyTable /\ ram'.count = 0 /\ queue' = <<>> /\ clearedEra' = era
<1>1. control \in Commands /\ control.step = "finish" /\ control' = NoControl
      /\ UNCHANGED <<worker, storedCount, acked, era, torn, reboots>>
    BY NoneOrCommand DEF FinishSetGroup, RestoreGroup, FinishClear, TypeInv
<1> DEFINE e == EmptiedTable(ram)
<1>2. /\ ram \in Rams /\ nvs \in Nvs /\ failures \in Nat /\ reboots + failures <= MaxFaults
      /\ e \in Rams /\ e.trackers = EmptyTable /\ e.count = 0 /\ e.generation = ram.generation
    BY TableEmptied DEF TypeInv
<1>3. CASE FinishSetGroup
    BY <1>1, <1>2, <1>3 DEF FinishSetGroup
<1>4. CASE FinishClear
  <2> DEFINE p == [e EXCEPT !.pairing = ram.primary]
  <2>1. ram' \in StartRadio(p)
    BY <1>4 DEF FinishClear
  <2>2. ram.primary \in BOOLEAN
    BY <1>2 DEF Rams
  <2> HIDE DEF e
  <2>3. p \in Rams /\ p.trackers = EmptyTable /\ p.count = 0 /\ p.generation = ram.generation
    BY <1>2, <2>2 DEF Rams
  <2> HIDE DEF p
  <2>4. /\ ram' \in Rams /\ ram'.trackers = EmptyTable /\ ram'.count = 0
        /\ ram'.generation = ram.generation
    BY <2>1, <2>3, RadioStarts DEF SameTable
  <2> QED
    BY <1>1, <1>2, <1>4, <2>4 DEF FinishClear
<1>5. CASE RestoreGroup
  <2> DEFINE old == control.previous
             group == IF old.primary THEN Own ELSE old.group
             r == [ram EXCEPT !.group = old.group, !.primary = old.primary, !.pairing = old.pairing]
             n == [nvs EXCEPT !.group = group]
  <2>1. /\ control.op = "group" /\ control.failed /\ ram' \in StartRadio(r)
        /\ \E ok \in BOOLEAN : Flash(n, ok)
        /\ queue' = queue /\ clearedEra' = clearedEra
    BY <1>5 DEF RestoreGroup
  <2>2. old \in [group : Groups, primary : BOOLEAN, pairing : BOOLEAN]
    BY <1>1, <2>1 DEF Commands, Clears, Regroups
  <2>3. group \in Groups
    BY <2>2, GroupsAssumption
  <2> HIDE DEF old, group
  <2>4. r \in Rams /\ r.generation = ram.generation
    BY <1>2, <2>2 DEF Rams
  <2>5. n \in Nvs /\ n.trackers = nvs.trackers /\ n.count = nvs.count
    BY <1>2, <2>3 DEF Nvs
  <2> HIDE DEF r, n
  <2>6. ram' \in Rams /\ ram'.generation = ram.generation
    BY <2>1, <2>4, RadioStarts DEF SameTable
  <2>7. /\ nvs' \in Nvs /\ failures' \in Nat /\ reboots' + failures' <= MaxFaults
        /\ failures' = 0 => failures = 0
    BY <1>1, <2>1, <2>5, FlashTypes
  <2>8. nvs'.trackers = nvs.trackers /\ nvs'.count = nvs.count
    BY <2>1, <2>5 DEF Flash
  <2> QED
    BY <1>1, <2>1, <2>6, <2>7, <2>8
<1> QED
    BY <1>3, <1>4, <1>5

LEMMA TypesEnds == TypeInv /\ (FinishSetGroup \/ RestoreGroup \/ FinishClear) => TypeInv'
<1> SUFFICES ASSUME TypeInv, FinishSetGroup \/ RestoreGroup \/ FinishClear PROVE TypeInv'
    OBVIOUS
<1>1. /\ control' = NoControl
      /\ UNCHANGED <<worker, storedCount, acked, era, torn, reboots>>
      /\ ram' \in Rams /\ ram'.generation = ram.generation /\ nvs' \in Nvs
      /\ failures' \in Nat /\ reboots' + failures' <= MaxFaults
      /\ queue' \in {queue, <<>>} /\ clearedEra' \in {clearedEra, era}
    BY CommandEnds
<1>2. queue' \in Seq(Records) /\ Len(queue') <= QueueSize
  <2>1. CASE queue' = queue
    BY <2>1 DEF TypeInv
  <2>2. CASE queue' = <<>>
    BY <2>2, TableAssumption
  <2> QED
    BY <1>1, <2>1, <2>2
<1>3. clearedEra' \in 0..era'
    BY <1>1 DEF TypeInv, Eras
<1> QED
    BY <1>1, <1>2, <1>3 DEF TypeInv

\* The radio restarts with another mode; the table is as it was.
LEMMA RadioSwitched ==
    ASSUME TypeInv, NEW on \in BOOLEAN, SetPairing(on) \/ SetEnabled(on)
    PROVE  /\ ram' \in Rams /\ SameTable(ram', ram) /\ ram'.primary = ram.primary
           /\ UNCHANGED <<queue, worker, control, storedCount, nvs, acked, era, clearedEra,
                          torn, reboots, failures>>
<1> DEFINE r == StopRadio(ram)
<1>1. r \in Rams /\ SameTable(r, ram) /\ r.primary = ram.primary
    BY RadioStopped DEF TypeInv
<1>2. PICK n : /\ ram' \in StartRadio(n)
               /\ n = [r EXCEPT !.pairing = on] \/ n = [r EXCEPT !.radio_enabled = on]
    BY DEF SetPairing, SetEnabled
<1> HIDE DEF r
<1>3. n \in Rams /\ SameTable(n, ram) /\ n.primary = ram.primary
  <2>1. CASE n = [r EXCEPT !.pairing = on]
    BY <1>1, <2>1 DEF Rams, SameTable
  <2>2. CASE n = [r EXCEPT !.radio_enabled = on]
    BY <1>1, <2>2 DEF Rams, SameTable
  <2> QED
    BY <1>2, <2>1, <2>2
<1>4. ram' \in Rams /\ SameTable(ram', ram) /\ ram'.primary = ram.primary
    BY <1>2, <1>3, RadioStarts DEF SameTable
<1> QED
    BY <1>4 DEF SetPairing, SetEnabled

LEMMA TypesSwitch ==
    ASSUME TypeInv, NEW on \in BOOLEAN, SetPairing(on) \/ SetEnabled(on)
    PROVE  TypeInv'
BY RadioSwitched DEF SameTable, TypeInv

LEMMA TypesReboot == TypeInv /\ Reboot => TypeInv'
<1> SUFFICES ASSUME TypeInv, Reboot PROVE TypeInv'
    OBVIOUS
<1>1. /\ reboots + failures < MaxFaults /\ reboots' = reboots + 1
      /\ torn' = (torn \/ worker.step = "count") /\ ram' = Boot(nvs) /\ queue' = <<>>
      /\ worker' = Idle /\ control' = NoControl /\ storedCount' = nvs.count /\ acked' = {}
      /\ UNCHANGED <<nvs, era, clearedEra, failures>>
    BY DEF Reboot
<1>2. ram' \in Rams /\ ram'.generation = 0
    BY <1>1, TableBooted DEF TypeInv
<1>3. storedCount' \in 0..MaxTrackers /\ nvs' \in Nvs
    BY <1>1 DEF TypeInv, Nvs
<1>4. worker' \in Workers /\ queue' \in Seq(Records) /\ Len(queue') <= QueueSize
    BY <1>1, TableAssumption DEF Idle, Workers
<1>5. torn' \in BOOLEAN
    BY <1>1
<1>6. reboots' \in Nat /\ reboots' + failures' <= MaxFaults /\ failures' \in Nat
    BY <1>1, PairingBoundsAssumption DEF TypeInv
<1>7. era' \in Eras /\ clearedEra' \in 0..era' /\ ram'.generation <= era'
    BY <1>1, <1>2 DEF TypeInv, Eras
<1>8. control' = NoControl /\ acked' = {}
    BY <1>1
<1> QED
    BY <1>2, <1>3, <1>4, <1>5, <1>6, <1>7, <1>8 DEF TypeInv

LEMMA TypesStep == TypeInv /\ [Next]_vars => TypeInv'
<1> SUFFICES ASSUME TypeInv, [Next]_vars PROVE TypeInv'
    OBVIOUS
<1>1. CASE UNCHANGED vars
    BY <1>1 DEF vars, TypeInv
<1>2. CASE RadioInterrupt \/ Persist
    BY <1>2, TypesRadio, TypesPersist
<1>3. CASE \/ \E group \in Groups, secondary \in BOOLEAN : BeginSetGroup(secondary, group)
           \/ BeginClear
    BY <1>3, TypesBegin
<1>4. CASE ControlStep
    BY <1>4, TypesWrites, TypesEnds DEF ControlStep
<1>5. CASE \E on \in BOOLEAN : SetPairing(on) \/ SetEnabled(on)
    BY <1>5, TypesSwitch
<1>6. CASE Reboot
    BY <1>6, TypesReboot
<1> QED
    BY <1>1, <1>2, <1>3, <1>4, <1>5, <1>6 DEF Next

LEMMA TypesHold == Spec => []TypeInv
BY TypesInit, TypesStep, PTL DEF Spec

\* Every variable keeps its type; in particular no id leaves the table and no count
\* exceeds it, whatever is paired, learnt, stored or restored.
THEOREM PairingTypes == Spec => []TypeOK
<1>1. TypeInv => TypeOK
  <2> SUFFICES ASSUME TypeInv PROVE TypeOK
      OBVIOUS
  <2>1. worker.step \in {"idle", "taken", "count"} /\ (worker.step # "idle" => worker.record \in Records)
    BY DEF TypeInv, Workers
  <2>2. control.op \in {"none", "group", "clear"}
        /\ (control.op # "none" => control.step \in {"write", "delete", "finish"})
    BY NoneOrCommand DEF TypeInv
  <2>3. clearedEra \in Eras
    <3>1. era \in Eras /\ clearedEra \in 0..era
      BY DEF TypeInv
    <3> QED
      BY <3>1, PairingBoundsAssumption DEF Eras
  <2>4. acked \in SUBSET [id : Ids, address : Addresses]
    BY DEF TypeInv
  <2> QED
    BY <2>1, <2>2, <2>3, <2>4 DEF TypeInv, TypeOK, Rams, Nvs
<1> QED
    BY TypesHold, <1>1, PTL

-----------------------------------------------------------------------------
(* What is still to be stored, and what is in flash *)

\* The records the worker has yet to deal with, the one it holds first.
Held == IF worker.step = "idle" THEN queue ELSE <<worker.record>> \o queue

\* A record of the present generation: the worker will not drop it.
Current(r) == r.generation = ram.generation

Key(r) == [address |-> r.address, era |-> r.era]

At(t, i, a) == t[i] # NoTracker /\ t[i].address = a

\* Generations and eras advance together until a reboot empties the queue, and while a
\* command is carried out no record is current.  Between its two writes the worker holds
\* a current record whose key is in flash.
RecordInv ==
    /\ \A k \in 1..Len(Held) :
          /\ Held[k].id < Held[k].tracker_count
          /\ Held[k].generation <= ram.generation
          /\ Held[k].era + ram.generation = era + Held[k].generation
          /\ control.op # "none" => ~Current(Held[k])
    /\ worker.step = "count" =>
          /\ control.op = "none" /\ Current(worker.record)
          /\ nvs.trackers[worker.record.id] = Key(worker.record)

\* The count in flash only rises to the one in the table, through the counts of the
\* current records in their order.
CountInv ==
    failures = 0 =>
        /\ storedCount = nvs.count /\ nvs.count <= ram.count
        /\ control.op # "none" =>
              ~control.failed /\ (control.step = "finish" => nvs.count = 0)
        /\ \A k \in 1..Len(Held) : Current(Held[k]) =>
              /\ ram.primary
              /\ nvs.count <= Held[k].tracker_count /\ Held[k].tracker_count <= ram.count
              /\ At(ram.trackers, Held[k].id, Held[k].address)
              /\ \A j \in 1..(k - 1) :
                    Current(Held[j]) => Held[j].tracker_count <= Held[k].tracker_count

Stored(p) == p.id < nvs.count /\ At(nvs.trackers, p.id, p.address)

Underway(p, k) == Current(Held[k]) /\ Held[k].id = p.id /\ Held[k].address = p.address

\* An acknowledged pairing is in the table, and in flash or on its way there.
AckInv ==
    failures = 0 =>
        /\ control.op # "none" => acked = {}
        /\ \A p \in acked :
              /\ At(ram.trackers, p.id, p.address)
              /\ Stored(p) \/ \E k \in 1..Len(Held) : Underway(p, k)

\* There is no key beyond the count but the one between its two writes; a clear has
\* deleted every key it has passed.
KeyInv ==
    failures = 0 /\ ~torn => \A i \in Ids :
        /\ nvs.trackers[i] # NoTracker =>
              /\ \/ i < nvs.count
                 \/ worker.step = "count" /\ i = worker.record.id
              /\ nvs.trackers[i].era >= clearedEra
              /\ control.op # "none" => control.step # "finish" /\ i >= control.next
        /\ ram.trackers[i] # NoTracker => ram.trackers[i].era >= clearedEra

\* The keys name different trackers, and the table of a primary agrees with them.
DistinctInv ==
    failures = 0 /\ ~torn =>
        /\ \A i, j \in Ids :
              nvs.trackers[i] # NoTracker /\ At(nvs.trackers, j, nvs.trackers[i].address) => i = j
        /\ control.op = "none" /\ ram.primary =>
              /\ \A i \in Ids :
                    nvs.trackers[i] # NoTracker => At(ram.trackers, i, nvs.trackers[i].address)
              /\ \A i, j \in 0..(ram.count - 1) :
                    ram.trackers[i] # NoTracker /\ At(ram.trackers, j, ram.trackers[i].address) => i = j

StoreInv == TypeInv /\ RecordInv /\ CountInv /\ AckInv /\ KeyInv /\ DistinctInv

LEMMA HeldTypes ==
    ASSUME TypeInv
    PROVE  /\ Held \in Seq(Records)
           /\ worker.step = "idle" => Held = queue
           /\ worker.step # "idle" =>
                /\ worker.record \in Records
                /\ Len(Held) = Len(queue) + 1 /\ Held[1] = worker.record
                /\ \A k \in 1..Len(queue) : Held[k + 1] = queue[k]
<1>1. queue \in Seq(Records)
    BY DEF TypeInv
<1>2. CASE worker.step = "idle"
    BY <1>1, <1>2 DEF Held
<1>3. CASE worker.step # "idle"
  <2>1. worker.record \in Records
    BY <1>3 DEF TypeInv, Workers
  <2>2. Held = <<worker.record>> \o queue
    BY <1>3 DEF Held
  <2> QED
    BY <1>1, <1>3, <2>1, <2>2
<1> QED
    BY <1>2, <1>3

\* What the worker has dealt with leaves the front, what a command drops the back.
Drops(d) ==
    \A k \in 1..Len(Held') : k + d \in 1..Len(Held) /\ Held'[k] = Held[k + d]

LEMMA HeldStays ==
    ASSUME TypeInv, queue' = queue, worker'.step = worker.step \/ {worker.step, worker'.step} \subseteq {"taken", "count"},
           worker.step # "idle" => worker'.record = worker.record
    PROVE  Held' = Held /\ Drops(0)
<1>1. Held' = Held
    BY DEF Held
<1>2. Held \in Seq(Records)
    BY HeldTypes
<1> QED
    BY <1>1, <1>2 DEF Drops

LEMMA HeldTaken ==
    ASSUME TypeInv, PersistTake
    PROVE  Held' = Held /\ Drops(0)
<1>1. worker.step = "idle" /\ queue # <<>> /\ worker' = [step |-> "taken", record |-> Head(queue)]
      /\ queue' = Tail(queue) /\ queue \in Seq(Records)
    BY DEF PersistTake, TypeInv
<1>2. Held' = <<Head(queue)>> \o Tail(queue) /\ Held = queue
    BY <1>1 DEF Held
<1>3. <<Head(queue)>> \o Tail(queue) = queue
    BY <1>1
<1> QED
    BY <1>1, <1>2, <1>3 DEF Drops

LEMMA HeldDone ==
    ASSUME TypeInv, worker.step # "idle", worker' = Idle, queue' = queue
    PROVE  Drops(1) /\ Len(Held') = Len(Held) - 1
<1>1. Held' = queue
    BY DEF Held, Idle
<1>2. queue \in Seq(Records)
    BY DEF TypeInv
<1> QED
    BY <1>1, <1>2, HeldTypes DEF Drops

LEMMA HeldEmptied ==
    ASSUME TypeInv, worker' = worker, queue' \in {queue, <<>>}
    PROVE  Drops(0)
<1>1. CASE queue' = queue
    BY <1>1, HeldStays
<1>2. CASE queue' = <<>>
  <2>1. CASE worker.step = "idle"
    BY <1>2, <2>1 DEF Held, Drops
  <2>2. CASE worker.step # "idle"
    <3>1. Held' = <<worker.record>>
      BY <1>2, <2>2, HeldTypes DEF Held
    <3>2. Len(Held') = 1 /\ Held'[1] = worker.record
      BY <3>1
    <3>3. Len(Held) >= 1 /\ Held[1] = worker.record /\ Len(Held) \in Nat
      BY <2>2, HeldTypes DEF TypeInv
    <3> QED
      BY <3>2, <3>3 DEF Drops
  <2> QED
    BY <2>1, <2>2
<1> QED
    BY <1>1, <1>2

\* What the radio interrupt does to the table, and to the records still to be stored.
Grows(a, id) ==
    /\ control.op = "none" /\ ram' \in Rams
    /\ UNCHANGED <<worker, control, storedCount, nvs, era, clearedEra, torn, reboots, failures>>
    /\ ram'.generation = ram.generation /\ ram'.primary = ram.primary
    /\ ram'.count = (IF id >= ram.count THEN id + 1 ELSE ram.count)
    /\ \A i \in Ids \ {id} : ram'.trackers[i] = ram.trackers[i]
    /\ At(ram'.trackers, id, a) /\ ram'.trackers[id].era = era
    /\ \A i \in Ids : \A b : At(ram.trackers, i, b) => At(ram'.trackers, i, b)
    /\ Free(ram, id, a)
    /\ ram.primary => (id \in IdsOf(a) \/ (id = ram.count /\ IdsOf(a) = {}))

Queues(a, id) ==
    /\ ram.primary
    /\ Len(Held') = Len(Held) + 1
    /\ \A k \in 1..Len(Held) : Held'[k] = Held[k]
    /\ LET r == Held'[Len(Held')] IN
       /\ r.id = id /\ r.address = a /\ r.tracker_count = ram'.count
       /\ r.generation = ram.generation /\ r.era = era
    /\ acked' = acked \union {[id |-> id, address |-> a]}

LEMMA RadioEffect ==
    ASSUME TypeInv, PairingInv, RadioInterrupt
    PROVE  \E a \in Addresses, id \in Ids :
              /\ Grows(a, id)
              /\ (Held' = Held /\ acked' = acked) \/ Queues(a, id)
<1>1. PICK a \in Addresses, id \in Ids :
          /\ ram' = AddTracker(ram, id, a) /\ Free(ram, id, a) /\ ram.radio.on
          /\ UNCHANGED <<worker, control, storedCount, nvs, era, clearedEra, torn,
                         reboots, failures>>
          /\ \/ queue' = queue /\ acked' = acked
             \/ /\ Len(queue) < QueueSize /\ ram.primary
                /\ queue' = Append(queue,
                       [id |-> id, tracker_count |-> ram'.count, address |-> a,
                        generation |-> ram.generation, era |-> era])
                /\ acked' = acked \union {[id |-> id, address |-> a]}
          /\ ram.primary => (id \in IdsOf(a) \/ (id = ram.count /\ IdsOf(a) = {}))
    BY RadioAdds
<1> DEFINE entry == [address |-> a, era |-> era]
<1>2. ram \in Rams /\ era \in Eras /\ ram.trackers \in [Ids -> Entries] /\ queue \in Seq(Records)
    BY DEF TypeInv, Rams
<1>3. /\ ram' \in Rams /\ ram'.trackers = [ram.trackers EXCEPT ![id] = entry]
      /\ ram'.generation = ram.generation /\ ram'.primary = ram.primary
      /\ ram'.count = (IF id >= ram.count THEN id + 1 ELSE ram.count)
    BY <1>1, <1>2, TableAdded
<1>4. entry # NoTracker /\ entry.address = a /\ entry.era = era
    BY <1>2, NoTrackerAssumption
<1> HIDE DEF entry
<1>5. control.op = "none"
    BY <1>1 DEF PairingInv, ControlInv, StateInv
<1>6. ram'.trackers[id] = entry /\ \A i \in Ids \ {id} : ram'.trackers[i] = ram.trackers[i]
    BY <1>2, <1>3
<1>7. ASSUME NEW i \in Ids, NEW b, At(ram.trackers, i, b) PROVE At(ram'.trackers, i, b)
  <2>1. CASE i = id
    BY <1>1, <1>4, <1>6, <1>7, <2>1 DEF Free, At
  <2>2. CASE i # id
    BY <1>6, <1>7, <2>2 DEF At
  <2> QED
    BY <2>1, <2>2
<1>8. Grows(a, id)
  <2>1. At(ram'.trackers, id, a) /\ ram'.trackers[id].era = era
    BY <1>4, <1>6 DEF At
  <2> QED
    BY <1>1, <1>3, <1>5, <1>6, <1>7, <2>1 DEF Grows
<1>9. CASE queue' = queue /\ acked' = acked
  <2>1. Held' = Held
    BY <1>1, <1>9 DEF Held
  <2> QED
    BY <1>8, <1>9, <2>1
<1>10. CASE ~(queue' = queue /\ acked' = acked)
  <2> DEFINE r == [id |-> id, tracker_count |-> ram'.count, address |-> a,
                   generation |-> ram.generation, era |-> era]
  <2>1. queue' = Append(queue, r) /\ acked' = acked \union {[id |-> id, address |-> a]}
        /\ ram.primary
    BY <1>1, <1>10
  <2>2. /\ r.id = id /\ r.address = a /\ r.tracker_count = ram'.count
        /\ r.generation = ram.generation /\ r.era = era
    OBVIOUS
  <2> HIDE DEF r
  <2>3. /\ Len(queue') = Len(queue) + 1 /\ queue'[Len(queue) + 1] = r
        /\ \A k \in 1..Len(queue) : queue'[k] = queue[k]
    BY <1>2, <2>1, AppendProperties
  <2>4. Queues(a, id)
    <3>1. CASE worker.step = "idle"
      <4>1. Held' = queue' /\ Held = queue
        BY <1>1, <3>1 DEF Held
      <4> QED
        BY <2>1, <2>2, <2>3, <4>1 DEF Queues
    <3>2. CASE worker.step # "idle"
      <4> DEFINE w == worker.record
      <4>1. /\ Held \in Seq(Records) /\ Len(Held) = Len(queue) + 1 /\ Held[1] = w
            /\ \A k \in 1..Len(queue) : Held[k + 1] = queue[k]
        BY <3>2, HeldTypes
      <4>2. TypeInv'
        BY TypesRadio
      <4>3. /\ Len(Held') = Len(queue') + 1 /\ Held'[1] = w
            /\ \A k \in 1..Len(queue') : Held'[k + 1] = queue'[k]
        <5>1. Held' = <<w>> \o queue' /\ w \in Records /\ queue' \in Seq(Records)
          BY <1>1, <3>2, <4>2, HeldTypes DEF Held, TypeInv
        <5> QED
          BY <5>1
      <4>4. Len(queue) \in Nat
        BY <1>2
      <4>5. Len(Held') = Len(Held) + 1 /\ Held'[Len(Held')] = r
        BY <2>3, <4>1, <4>3, <4>4
      <4>6. ASSUME NEW k \in 1..Len(Held) PROVE Held'[k] = Held[k]
        <5>1. CASE k = 1
          BY <4>1, <4>3, <5>1
        <5>2. CASE k # 1
          <6>1. k - 1 \in 1..Len(queue) /\ k - 1 \in 1..Len(queue') /\ k = (k - 1) + 1
            BY <2>3, <4>1, <4>4, <5>2
          <6>2. Held[(k - 1) + 1] = queue[k - 1] /\ Held'[(k - 1) + 1] = queue'[k - 1]
            BY <4>1, <4>3, <6>1
          <6> QED
            BY <2>3, <6>1, <6>2
        <5> QED
          BY <5>1, <5>2
      <4> QED
        BY <2>1, <2>2, <4>5, <4>6 DEF Queues
    <3> QED
      BY <3>1, <3>2
  <2> QED
    BY <1>8, <2>4
<1> QED
    BY <1>9, <1>10

-----------------------------------------------------------------------------
(* The records *)

LEMMA HeldRecord ==
    ASSUME TypeInv, NEW k \in 1..Len(Held)
    PROVE  /\ Held[k] \in Records /\ Held[k].id \in Ids /\ Held[k].tracker_count \in 1..MaxTrackers
           /\ Held[k].generation \in Nat /\ Held[k].era \in Nat
<1>1. Held[k] \in Records
    BY HeldTypes
<1> QED
    BY <1>1 DEF Records, Eras

LEMMA Clocks ==
    ASSUME TypeInv
    PROVE  /\ era \in Nat /\ clearedEra \in Nat /\ ram.generation \in Nat /\ clearedEra <= era
           /\ ram.count \in Nat /\ nvs.count \in Nat /\ storedCount \in Nat
           /\ Len(Held) \in Nat /\ Len(queue) \in Nat /\ failures \in Nat
<1>1. /\ era \in Nat /\ clearedEra \in 0..era /\ storedCount \in Nat /\ failures \in Nat
      /\ ram \in Rams /\ nvs \in Nvs /\ queue \in Seq(Records)
    BY DEF TypeInv, Eras
<1>2. ram.generation \in Nat /\ ram.count \in Nat /\ nvs.count \in Nat
    BY <1>1 DEF Rams, Nvs, Eras
<1>3. Len(Held) \in Nat
    BY HeldTypes
<1> QED
    BY <1>1, <1>2, <1>3

\* Only the front of the records is dealt with, and neither clock moves.
LEMMA RecordsDrop ==
    ASSUME RecordInv, NEW d, Drops(d), ram'.generation = ram.generation, era' = era,
           control'.op = control.op \/ control'.op = "none",
           worker'.step = "count" =>
              /\ control'.op = "none" /\ Current(worker'.record)
              /\ nvs'.trackers[worker'.record.id] = Key(worker'.record)
    PROVE  RecordInv'
<1>1. ASSUME NEW k \in 1..Len(Held')
      PROVE  /\ Held'[k].id < Held'[k].tracker_count
             /\ Held'[k].generation <= ram'.generation
             /\ Held'[k].era + ram'.generation = era' + Held'[k].generation
             /\ control'.op # "none" => Held'[k].generation # ram'.generation
  <2>1. k + d \in 1..Len(Held) /\ Held'[k] = Held[k + d]
    BY DEF Drops
  <2> QED
    BY <2>1 DEF RecordInv, Current
<1> QED
    BY <1>1 DEF RecordInv, Current

LEMMA RecordsRadio == TypeInv /\ PairingInv /\ RecordInv /\ RadioInterrupt => RecordInv'
<1> SUFFICES ASSUME TypeInv, PairingInv, RecordInv, RadioInterrupt PROVE RecordInv'
    OBVIOUS
<1>1. PICK a \in Addresses, id \in Ids :
          Grows(a, id) /\ ((Held' = Held /\ acked' = acked) \/ Queues(a, id))
    BY RadioEffect
<1>2. /\ control' = control /\ control.op = "none" /\ worker' = worker /\ nvs' = nvs /\ era' = era
      /\ ram'.generation = ram.generation
    BY <1>1 DEF Grows
<1>3. worker'.step = "count" =>
          /\ control'.op = "none" /\ worker'.record.generation = ram'.generation
          /\ nvs'.trackers[worker'.record.id] = Key(worker'.record)
    BY <1>2 DEF RecordInv, Current
<1>4. ASSUME NEW k \in 1..Len(Held')
      PROVE  /\ Held'[k].id < Held'[k].tracker_count
             /\ Held'[k].generation <= ram'.generation
             /\ Held'[k].era + ram'.generation = era' + Held'[k].generation
  <2>1. CASE k \in 1..Len(Held) /\ Held'[k] = Held[k]
    BY <1>2, <2>1 DEF RecordInv
  <2>2. CASE Queues(a, id) /\ k = Len(Held')
    <3>1. ram'.count > id /\ Held'[k].tracker_count = ram'.count /\ Held'[k].id = id
      BY <1>1, <2>2, Clocks DEF Grows, Queues, Ids
    <3>2. Held'[k].generation = ram.generation /\ Held'[k].era = era
      BY <2>2 DEF Queues
    <3> QED
      BY <1>2, <3>1, <3>2, Clocks
  <2> QED
    BY <1>1, <2>1, <2>2, Clocks DEF Queues
<1> QED
    BY <1>2, <1>3, <1>4 DEF RecordInv, Current, Key

LEMMA RecordsPersist == TypeInv /\ RecordInv /\ Persist => RecordInv'
<1> SUFFICES ASSUME TypeInv, RecordInv, Persist PROVE RecordInv'
    OBVIOUS
<1>1. ram' = ram /\ control' = control /\ era' = era
    BY DEF Persist, PersistTake, PersistStale, PersistTracker, PersistCount
<1>2. CASE PersistTake
  <2>1. Drops(0) /\ worker'.step # "count"
    BY <1>2, HeldTaken DEF PersistTake
  <2> QED
    BY <1>1, <2>1, RecordsDrop
<1>3. CASE worker' = Idle
  <2>1. worker.step # "idle" /\ queue' = queue
    BY <1>3 DEF Persist, PersistTake, PersistStale, PersistTracker, PersistCount, Idle
  <2>2. Drops(1) /\ worker'.step # "count"
    BY <1>3, <2>1, HeldDone DEF Idle
  <2> QED
    BY <1>1, <2>2, RecordsDrop
<1>4. CASE PersistTracker /\ worker' # Idle
  <2> DEFINE n == [nvs EXCEPT !.trackers[worker.record.id] = Key(worker.record)]
  <2>1. /\ worker.step = "taken" /\ control.op = "none" /\ Current(worker.record)
        /\ worker' = [worker EXCEPT !.step = "count"] /\ nvs' = n /\ queue' = queue
    BY <1>4, NoneOrCommand DEF PersistTracker, Flash, Key, MutexFree, Current
  <2>2. worker.record \in Records /\ worker \in [step : {"taken", "count"}, record : Records]
    BY <2>1 DEF TypeInv, Workers
  <2>3. worker'.step = "count" /\ worker'.record = worker.record
    BY <2>1, <2>2
  <2>4. nvs'.trackers[worker.record.id] = Key(worker.record)
    BY <2>1, <2>2 DEF TypeInv, Nvs, Records
  <2>5. Drops(0)
    BY <2>1, <2>3, HeldStays
  <2> QED
    BY <1>1, <2>1, <2>3, <2>4, <2>5, RecordsDrop
<1> QED
    BY <1>2, <1>3, <1>4 DEF Persist, PersistStale, PersistCount

LEMMA RecordsBegin ==
    TypeInv /\ RecordInv
        /\ (BeginClear \/ \E group \in Groups, s \in BOOLEAN : BeginSetGroup(s, group))
        => RecordInv'
<1> SUFFICES ASSUME TypeInv, RecordInv,
                    BeginClear \/ \E group \in Groups, s \in BOOLEAN : BeginSetGroup(s, group)
             PROVE  RecordInv'
    OBVIOUS
<1>1. /\ worker' = worker /\ queue' = queue /\ worker.step # "count"
      /\ era' = era + 1 /\ ram'.generation = ram.generation + 1
    BY CommandBegins DEF MutexFree
<1>2. Drops(0)
    BY <1>1, HeldStays
<1>3. ASSUME NEW k \in 1..Len(Held')
      PROVE  /\ Held'[k].id < Held'[k].tracker_count
             /\ Held'[k].generation <= ram'.generation
             /\ Held'[k].era + ram'.generation = era' + Held'[k].generation
             /\ Held'[k].generation # ram'.generation
  <2>1. k + 0 \in 1..Len(Held) /\ Held'[k] = Held[k + 0]
    BY <1>2 DEF Drops
  <2>2. /\ Held'[k].id < Held'[k].tracker_count /\ Held'[k].generation <= ram.generation
        /\ Held'[k].era + ram.generation = era + Held'[k].generation
    BY <2>1 DEF RecordInv
  <2>3. Held'[k].generation \in Nat /\ Held'[k].era \in Nat
    BY <2>1, HeldRecord
  <2>4. era \in Nat /\ ram.generation \in Nat
    BY Clocks
  <2> DEFINE g == Held'[k].generation
             e == Held'[k].era
  <2>5. g <= ram'.generation /\ e + ram'.generation = era' + g /\ g # ram'.generation
    <3>1. g <= ram.generation /\ e + ram.generation = era + g /\ g \in Nat /\ e \in Nat
      BY <2>2, <2>3
    <3> HIDE DEF g, e
    <3> QED
      BY <1>1, <2>4, <3>1
  <2> QED
    BY <2>2, <2>5
<1> QED
    BY <1>1, <1>3 DEF RecordInv, Current

LEMMA RecordsRest ==
    ASSUME TypeInv, RecordInv, worker' = worker, queue' \in {queue, <<>>},
           ram'.generation = ram.generation, era' = era,
           control'.op = control.op \/ control'.op = "none",
           nvs'.trackers = nvs.trackers \/ control.op # "none"
    PROVE  RecordInv' /\ Drops(0)
<1>1. Drops(0)
    BY HeldEmptied
<1>2. worker'.step = "count" =>
          /\ control'.op = "none" /\ Current(worker'.record)
          /\ nvs'.trackers[worker'.record.id] = Key(worker'.record)
    BY DEF RecordInv
<1> QED
    BY <1>1, <1>2, RecordsDrop

LEMMA RecordsReboot ==
    ASSUME Reboot
    PROVE  RecordInv' /\ Held' = <<>>
<1>1. worker' = Idle /\ queue' = <<>>
    BY DEF Reboot
<1>2. Held' = <<>> /\ worker'.step = "idle"
    BY <1>1 DEF Idle, Held
<1> QED
    BY <1>2 DEF RecordInv

\* A command leaves the records alone until its end.
LEMMA WritesKeepOp ==
    ASSUME WriteGroup \/ DeleteKey \/ ClearCount, TypeInv
    PROVE  control'.op = control.op
<1>1. control \in Commands /\ control.op # "none"
    BY CommandWrites, NoneOrCommand
<1>2. {"op", "step", "failed", "next"} \subseteq DOMAIN control
  <2>1. CASE control \in Clears
    BY <2>1 DEF Clears
  <2>2. CASE control \in Regroups
    BY <2>2 DEF Regroups
  <2> QED
    BY <1>1, <2>1, <2>2 DEF Commands
<1> QED
    BY <1>2 DEF WriteGroup, DeleteKey, ClearCount

LEMMA RecordsStep == TypeInv /\ PairingInv /\ RecordInv /\ [Next]_vars => RecordInv'
<1> SUFFICES ASSUME TypeInv, PairingInv, RecordInv, [Next]_vars PROVE RecordInv'
    OBVIOUS
<1>1. CASE UNCHANGED vars
    BY <1>1, RecordsRest DEF vars
<1>2. CASE RadioInterrupt \/ Persist
    BY <1>2, RecordsRadio, RecordsPersist
<1>3. CASE \/ \E group \in Groups, secondary \in BOOLEAN : BeginSetGroup(secondary, group)
           \/ BeginClear
    BY <1>3, RecordsBegin
<1>4. CASE WriteGroup \/ DeleteKey \/ ClearCount
    BY <1>4, CommandWrites, WritesKeepOp, NoneOrCommand, RecordsRest
<1>5. CASE FinishSetGroup \/ RestoreGroup \/ FinishClear
    BY <1>5, CommandEnds, NoneOrCommand, RecordsRest
<1>6. CASE \E on \in BOOLEAN : SetPairing(on) \/ SetEnabled(on)
    BY <1>6, RadioSwitched, RecordsRest DEF SameTable
<1>7. CASE Reboot
    BY <1>7, RecordsReboot
<1> QED
    BY <1>1, <1>2, <1>3, <1>4, <1>5, <1>6, <1>7 DEF Next, ControlStep

-----------------------------------------------------------------------------
(* The counts *)

\* Records are only dealt with, and the table and the count in flash stay.
LEMMA CountsDrop ==
    ASSUME TypeInv, RecordInv, CountInv, NEW d \in {0, 1}, Drops(d), failures' = 0 => failures = 0,
           SameTable(ram', ram), ram'.primary = ram.primary, storedCount' = storedCount,
           nvs'.count = nvs.count, control' = control
    PROVE  CountInv'
<1> SUFFICES ASSUME failures' = 0 PROVE CountInv'
    BY DEF CountInv
<1>1. ASSUME NEW k \in 1..Len(Held'), Held'[k].generation = ram'.generation
      PROVE  /\ ram'.primary
             /\ nvs'.count <= Held'[k].tracker_count /\ Held'[k].tracker_count <= ram'.count
             /\ At(ram'.trackers, Held'[k].id, Held'[k].address)
             /\ \A j \in 1..(k - 1) : Held'[j].generation = ram'.generation
                    => Held'[j].tracker_count <= Held'[k].tracker_count
  <2>1. k + d \in 1..Len(Held) /\ Held'[k] = Held[k + d] /\ Current(Held[k + d])
    BY <1>1 DEF Drops, Current, SameTable
  <2>2. /\ ram.primary
        /\ nvs.count <= Held[k + d].tracker_count /\ Held[k + d].tracker_count <= ram.count
        /\ At(ram.trackers, Held[k + d].id, Held[k + d].address)
        /\ \A j \in 1..((k + d) - 1) :
              Current(Held[j]) => Held[j].tracker_count <= Held[k + d].tracker_count
    BY <2>1 DEF CountInv
  <2>3. ASSUME NEW j \in 1..(k - 1), Held'[j].generation = ram'.generation
        PROVE  Held'[j].tracker_count <= Held'[k].tracker_count
    <3>1. j \in 1..Len(Held') /\ j + d \in 1..((k + d) - 1)
      <4>1. k \in Int /\ Len(Held) \in Nat
        BY Clocks
      <4>2. j <= k - 1 /\ k <= Len(Held')
        OBVIOUS
      <4> QED
        BY <4>1, <4>2
    <3>2. Held'[j] = Held[j + d] /\ Current(Held[j + d])
      BY <2>3, <3>1 DEF Drops, Current, SameTable
    <3> QED
      BY <2>1, <2>2, <3>1, <3>2
  <2> QED
    BY <2>1, <2>2, <2>3 DEF SameTable
<1> QED
    BY <1>1 DEF CountInv, Current, SameTable

LEMMA CountsRadio == StoreInv /\ PairingInv /\ RadioInterrupt => CountInv'
<1> SUFFICES ASSUME TypeInv, RecordInv, CountInv, PairingInv, RadioInterrupt, failures' = 0
             PROVE  CountInv'
    BY DEF StoreInv, CountInv
<1>1. PICK a \in Addresses, id \in Ids :
          Grows(a, id) /\ ((Held' = Held /\ acked' = acked) \/ Queues(a, id))
    BY RadioEffect
<1>2. /\ control' = control /\ control.op = "none" /\ nvs' = nvs /\ storedCount' = storedCount
      /\ failures = 0 /\ ram'.generation = ram.generation /\ ram'.primary = ram.primary
      /\ storedCount = nvs.count /\ nvs.count <= ram.count
    BY <1>1 DEF Grows, CountInv
<1>3. ram'.count \in Nat /\ ram.count <= ram'.count /\ nvs.count <= ram'.count
      /\ ram.count \in Nat /\ nvs.count \in Nat
    BY <1>1, <1>2, Clocks DEF Grows, Ids
<1>4. ASSUME NEW k \in 1..Len(Held), Current(Held[k])
      PROVE  /\ ram.primary /\ Held[k].tracker_count \in Nat
             /\ nvs.count <= Held[k].tracker_count /\ Held[k].tracker_count <= ram.count
             /\ At(ram'.trackers, Held[k].id, Held[k].address)
             /\ \A j \in 1..(k - 1) :
                   Current(Held[j]) => Held[j].tracker_count <= Held[k].tracker_count
    BY <1>1, <1>2, <1>4, HeldRecord DEF CountInv, Grows
<1>5. ASSUME NEW k \in 1..Len(Held'), Held'[k].generation = ram.generation
      PROVE  /\ ram.primary
             /\ nvs.count <= Held'[k].tracker_count /\ Held'[k].tracker_count <= ram'.count
             /\ At(ram'.trackers, Held'[k].id, Held'[k].address)
             /\ \A j \in 1..(k - 1) : Held'[j].generation = ram.generation
                    => Held'[j].tracker_count <= Held'[k].tracker_count
  <2>1. CASE k \in 1..Len(Held) /\ \A j \in 1..k : Held'[j] = Held[j]
    <3>1. k \in 1..k /\ \A j \in 1..(k - 1) : j \in 1..k
      OBVIOUS
    <3>2. Held'[k] = Held[k] /\ Current(Held[k])
      BY <1>5, <2>1, <3>1 DEF Current
    <3>3. Held[k].tracker_count <= ram'.count
      BY <1>3, <1>4, <2>1, <3>2
    <3> QED
      BY <1>4, <2>1, <3>1, <3>2, <3>3 DEF Current
  <2>2. CASE Queues(a, id) /\ k = Len(Held')
    <3>1. /\ Held'[k].id = id /\ Held'[k].address = a /\ Held'[k].tracker_count = ram'.count
          /\ ram.primary /\ At(ram'.trackers, id, a)
      BY <1>1, <2>2 DEF Queues, Grows
    <3>2. ASSUME NEW j \in 1..(k - 1), Held'[j].generation = ram.generation
          PROVE  Held'[j].tracker_count <= ram'.count
      <4>1. j \in 1..Len(Held) /\ Held'[j] = Held[j]
        BY <2>2, Clocks DEF Queues
      <4> QED
        BY <1>3, <1>4, <3>2, <4>1 DEF Current
    <3> QED
      BY <1>3, <3>1, <3>2
  <2> QED
    BY <1>1, <2>1, <2>2, Clocks DEF Queues
<1> QED
    BY <1>2, <1>3, <1>5 DEF CountInv, Current

LEMMA CountsPersist == StoreInv /\ Persist => CountInv'
<1> SUFFICES ASSUME TypeInv, RecordInv, CountInv, Persist, failures' = 0 PROVE CountInv'
    BY DEF StoreInv, CountInv
<1>1. ram' = ram /\ control' = control
    BY DEF Persist, PersistTake, PersistStale, PersistTracker, PersistCount
<1>2. failures = 0 /\ nvs \in Nvs
  <2>1. failures' = failures \/ failures' = failures + 1
    BY DEF Persist, PersistTake, PersistStale, PersistTracker, PersistCount, Flash
  <2> QED
    BY <2>1, Clocks DEF TypeInv
<1>3. CASE PersistTake \/ PersistStale
  <2>1. \E d \in {0, 1} : Drops(d)
    BY <1>3, HeldTaken, HeldDone DEF PersistStale
  <2> QED
    BY <1>1, <1>2, <1>3, <2>1, CountsDrop DEF PersistTake, PersistStale, SameTable
<1>4. CASE PersistTracker
  <2> DEFINE n == [nvs EXCEPT !.trackers[worker.record.id] = Key(worker.record)]
  <2>1. /\ worker.step = "taken" /\ worker' = [worker EXCEPT !.step = "count"] /\ nvs' = n
        /\ queue' = queue /\ storedCount' = storedCount
    BY <1>2, <1>4, Clocks DEF PersistTracker, Flash, Key
  <2>2. worker \in [step : {"taken", "count"}, record : Records]
    BY <2>1 DEF TypeInv, Workers
  <2>3. worker'.step = "count" /\ worker'.record = worker.record
    BY <2>1, <2>2
  <2>4. nvs'.count = nvs.count
    BY <1>2, <2>1 DEF Nvs
  <2>5. Drops(0)
    BY <2>1, <2>3, HeldStays
  <2> QED
    BY <1>1, <1>2, <2>1, <2>4, <2>5, CountsDrop DEF SameTable
<1>5. CASE PersistCount
  <2> DEFINE c == worker.record.tracker_count
             n == [nvs EXCEPT !.count = c]
  <2>1. /\ worker.step = "count" /\ worker' = Idle /\ nvs' = n
        /\ queue' = queue /\ storedCount' = c
    BY <1>2, <1>5, Clocks DEF PersistCount, Flash
  <2>2. nvs'.count = c
    BY <1>2, <2>1 DEF Nvs
  <2>3. /\ Drops(1) /\ 1 \in 1..Len(Held) /\ Held[1] = worker.record
    <3>1. Drops(1) /\ Held[1] = worker.record /\ Len(Held) = Len(queue) + 1
      BY <2>1, HeldDone, HeldTypes
    <3> QED
      BY <3>1, Clocks
  <2>4. Current(worker.record) /\ control.op = "none"
    BY <2>1 DEF RecordInv
  <2>5. c <= ram.count
    BY <1>2, <2>3, <2>4 DEF CountInv
  <2>6. ASSUME NEW k \in 1..Len(Held'), Held'[k].generation = ram.generation
        PROVE  /\ ram.primary
               /\ c <= Held'[k].tracker_count /\ Held'[k].tracker_count <= ram.count
               /\ At(ram.trackers, Held'[k].id, Held'[k].address)
               /\ \A j \in 1..(k - 1) : Held'[j].generation = ram.generation
                      => Held'[j].tracker_count <= Held'[k].tracker_count
    <3>1. k + 1 \in 1..Len(Held) /\ Held'[k] = Held[k + 1] /\ Current(Held[k + 1])
      BY <2>3, <2>6 DEF Drops, Current
    <3>2. /\ ram.primary /\ Held[k + 1].tracker_count <= ram.count
          /\ At(ram.trackers, Held[k + 1].id, Held[k + 1].address)
          /\ \A j \in 1..((k + 1) - 1) :
                Current(Held[j]) => Held[j].tracker_count <= Held[k + 1].tracker_count
      BY <1>2, <3>1 DEF CountInv
    <3>3. 1 \in 1..((k + 1) - 1)
      OBVIOUS
    <3>4. c <= Held[k + 1].tracker_count
      BY <2>3, <2>4, <3>2, <3>3
    <3>5. ASSUME NEW j \in 1..(k - 1), Held'[j].generation = ram.generation
          PROVE  Held'[j].tracker_count <= Held'[k].tracker_count
      <4>1. j \in 1..Len(Held') /\ j + 1 \in 1..((k + 1) - 1)
        OBVIOUS
      <4> QED
        BY <2>3, <3>1, <3>2, <3>5, <4>1 DEF Drops, Current
    <3> QED
      BY <3>1, <3>2, <3>4, <3>5
  <2> QED
    BY <1>1, <1>2, <2>1, <2>2, <2>4, <2>5, <2>6 DEF CountInv, Current
<1> QED
    BY <1>3, <1>4, <1>5 DEF Persist

LEMMA CountsBegin ==
    ASSUME StoreInv, RecordInv',
           BeginClear \/ \E group \in Groups, s \in BOOLEAN : BeginSetGroup(s, group)
    PROVE  CountInv'
<1>1. /\ storedCount' = storedCount /\ nvs' = nvs /\ failures' = failures
      /\ ram'.count = ram.count /\ control'.failed = FALSE /\ control' \in Commands
      /\ control'.step # "finish"
    BY CommandBegins DEF StoreInv
<1>2. \A k \in 1..Len(Held') : Held'[k].generation # ram'.generation
    BY <1>1, NoneOrCommand DEF RecordInv, Current
<1> QED
    BY <1>1, <1>2 DEF StoreInv, CountInv, Current

LEMMA CountsWrites ==
    ASSUME StoreInv, RecordInv', WriteGroup \/ DeleteKey \/ ClearCount
    PROVE  CountInv'
<1> SUFFICES ASSUME failures' = 0 PROVE CountInv'
    BY DEF CountInv
<1>1. /\ ram' = ram /\ control \in Commands /\ control' \in Commands /\ failures = 0
      /\ control.failed = FALSE => control'.failed = FALSE
      /\ \/ storedCount' = storedCount /\ nvs'.count = nvs.count /\ control'.step = "delete"
         \/ storedCount' = 0 /\ nvs'.count = 0
    BY CommandWrites DEF StoreInv
<1>2. /\ storedCount = nvs.count /\ nvs.count <= ram.count /\ ~control.failed
      /\ control.failed \in BOOLEAN /\ 0 <= ram.count
    BY <1>1, NoneOrCommand, Clocks DEF StoreInv, CountInv
<1>3. \A k \in 1..Len(Held') : Held'[k].generation # ram'.generation
    BY <1>1, NoneOrCommand DEF RecordInv, Current
<1> QED
    BY <1>1, <1>2, <1>3 DEF CountInv, Current

LEMMA CountsEnds ==
    ASSUME StoreInv, FinishSetGroup \/ RestoreGroup \/ FinishClear
    PROVE  CountInv'
<1> SUFFICES ASSUME failures' = 0 PROVE CountInv'
    BY DEF CountInv
<1>1. /\ control \in Commands /\ control.step = "finish" /\ control' = NoControl
      /\ worker' = worker /\ storedCount' = storedCount
      /\ ram'.generation = ram.generation /\ nvs'.count = nvs.count /\ failures = 0
      /\ queue' \in {queue, <<>>} /\ (~control.failed => ram'.count = 0)
    BY CommandEnds DEF StoreInv
<1>2. storedCount = nvs.count /\ ~control.failed /\ nvs.count = 0
    BY <1>1, NoneOrCommand DEF StoreInv, CountInv
<1>3. \A k \in 1..Len(Held') : Held'[k].generation # ram'.generation
  <2>1. Drops(0)
    BY <1>1, HeldEmptied DEF StoreInv
  <2> QED
    BY <1>1, <2>1, NoneOrCommand DEF StoreInv, RecordInv, Current, Drops
<1> QED
    BY <1>1, <1>2, <1>3, NoneOrCommand DEF CountInv, Current

LEMMA CountsReboot == StoreInv /\ Reboot => CountInv'
<1> SUFFICES ASSUME StoreInv, Reboot PROVE CountInv'
    OBVIOUS
<1>1. storedCount' = nvs.count /\ nvs' = nvs /\ control' = NoControl /\ ram' = Boot(nvs)
    BY DEF Reboot
<1>2. ram'.count = nvs.count /\ nvs.count \in Nat
    BY <1>1, TableBooted, Clocks DEF StoreInv, TypeInv
<1>3. Len(Held') = 0
    BY RecordsReboot
<1> QED
    BY <1>1, <1>2, <1>3, NoneOrCommand DEF CountInv

LEMMA CountsStep == StoreInv /\ PairingInv /\ RecordInv' /\ [Next]_vars => CountInv'
<1> SUFFICES ASSUME StoreInv, PairingInv, RecordInv', [Next]_vars PROVE CountInv'
    OBVIOUS
<1>1. TypeInv /\ RecordInv /\ CountInv
    BY DEF StoreInv
<1>2. CASE UNCHANGED vars
  <2>1. Drops(0)
    BY <1>1, <1>2, HeldStays DEF vars
  <2> QED
    BY <1>1, <1>2, <2>1, CountsDrop DEF vars, SameTable
<1>3. CASE \E on \in BOOLEAN : SetPairing(on) \/ SetEnabled(on)
  <2>1. /\ SameTable(ram', ram) /\ ram'.primary = ram.primary
        /\ UNCHANGED <<queue, worker, control, storedCount, nvs, failures>>
    BY <1>1, <1>3, RadioSwitched
  <2>2. Drops(0)
    BY <1>1, <2>1, HeldStays
  <2> QED
    BY <1>1, <2>1, <2>2, CountsDrop
<1>4. CASE RadioInterrupt \/ Persist
    BY <1>4, CountsRadio, CountsPersist
<1>5. CASE \/ \E group \in Groups, secondary \in BOOLEAN : BeginSetGroup(secondary, group)
           \/ BeginClear
    BY <1>5, CountsBegin
<1>6. CASE ControlStep
    BY <1>6, CountsWrites, CountsEnds DEF ControlStep
<1>7. CASE Reboot
    BY <1>7, CountsReboot
<1> QED
    BY <1>2, <1>3, <1>4, <1>5, <1>6, <1>7 DEF Next

-----------------------------------------------------------------------------
(* The acknowledged pairings *)

LEMMA AcksRadio == StoreInv /\ PairingInv /\ RadioInterrupt => AckInv'
<1> SUFFICES ASSUME TypeInv, AckInv, PairingInv, RadioInterrupt, failures' = 0 PROVE AckInv'
    BY DEF StoreInv, AckInv
<1>1. PICK a \in Addresses, id \in Ids :
          Grows(a, id) /\ ((Held' = Held /\ acked' = acked) \/ Queues(a, id))
    BY RadioEffect
<1>2. /\ control' = control /\ control.op = "none" /\ nvs' = nvs /\ failures = 0
      /\ ram'.generation = ram.generation
    BY <1>1 DEF Grows
<1>3. ASSUME NEW p \in acked
      PROVE  /\ At(ram'.trackers, p.id, p.address)
             /\ Stored(p) \/ \E k \in 1..Len(Held') :
                    /\ Held'[k].generation = ram.generation
                    /\ Held'[k].id = p.id /\ Held'[k].address = p.address
  <2>1. p.id \in Ids /\ At(ram.trackers, p.id, p.address)
    BY <1>2 DEF TypeInv, AckInv
  <2>2. Stored(p) \/ \E k \in 1..Len(Held) : Underway(p, k)
    BY <1>2 DEF AckInv
  <2>3. ASSUME NEW k \in 1..Len(Held), Underway(p, k)
        PROVE  k \in 1..Len(Held') /\ Held'[k] = Held[k]
    BY <1>1, Clocks DEF Queues
  <2> QED
    BY <1>1, <2>1, <2>2, <2>3 DEF Grows, Underway, Current
<1>4. ASSUME NEW p \in acked' \ acked
      PROVE  /\ At(ram'.trackers, p.id, p.address)
             /\ \E k \in 1..Len(Held') :
                    /\ Held'[k].generation = ram.generation
                    /\ Held'[k].id = p.id /\ Held'[k].address = p.address
  <2>1. Queues(a, id) /\ p = [id |-> id, address |-> a]
    BY <1>1, <1>4 DEF Queues
  <2>2. p.id = id /\ p.address = a
    BY <2>1
  <2>3. Len(Held') \in 1..Len(Held')
    BY <2>1, Clocks DEF Queues
  <2> QED
    BY <1>1, <2>1, <2>2, <2>3 DEF Queues, Grows
<1> QED
    BY <1>2, <1>3, <1>4 DEF AckInv, Stored, Underway, Current

\* The front record is dealt with: what was on its way with it is in flash now.
LEMMA AcksDrop ==
    ASSUME TypeInv, AckInv, NEW d \in {0, 1}, Drops(d), failures' = 0 => failures = 0,
           Len(Held') = Len(Held) - d,
           SameTable(ram', ram), control' = control, acked' = acked,
           \A p \in acked : Stored(p) => Stored(p)',
           \A p \in acked : d = 1 /\ Underway(p, 1) => Stored(p)'
    PROVE  AckInv'
<1> SUFFICES ASSUME failures' = 0 PROVE AckInv'
    BY DEF AckInv
<1>1. ASSUME NEW p \in acked
      PROVE  /\ At(ram.trackers, p.id, p.address)
             /\ Stored(p)' \/ \E k \in 1..Len(Held') :
                    /\ Held'[k].generation = ram.generation
                    /\ Held'[k].id = p.id /\ Held'[k].address = p.address
  <2>1. At(ram.trackers, p.id, p.address) /\ (Stored(p) \/ \E k \in 1..Len(Held) : Underway(p, k))
    BY DEF AckInv
  <2>2. ASSUME NEW k \in 1..Len(Held), Underway(p, k), ~(d = 1 /\ k = 1)
        PROVE  \E j \in 1..Len(Held') :
                    /\ Held'[j].generation = ram.generation
                    /\ Held'[j].id = p.id /\ Held'[j].address = p.address
    <3>1. k - d \in 1..Len(Held') /\ (k - d) + d = k
      BY <2>2, Clocks
    <3>2. Held'[k - d] = Held[k]
      BY <3>1 DEF Drops
    <3> QED
      BY <2>2, <3>1, <3>2 DEF Underway, Current
  <2> QED
    BY <2>1, <2>2
<1> QED
    BY <1>1 DEF AckInv, Underway, Current, SameTable

LEMMA AcksPersist == StoreInv /\ Persist => AckInv'
<1> SUFFICES ASSUME TypeInv, RecordInv, CountInv, AckInv, Persist, failures' = 0 PROVE AckInv'
    BY DEF StoreInv, AckInv
<1>1. ram' = ram /\ control' = control /\ acked' = acked /\ SameTable(ram', ram)
    BY DEF Persist, PersistTake, PersistStale, PersistTracker, PersistCount, SameTable
<1>2. failures = 0 /\ nvs \in Nvs
  <2>1. failures' = failures \/ failures' = failures + 1
    BY DEF Persist, PersistTake, PersistStale, PersistTracker, PersistCount, Flash
  <2> QED
    BY <2>1, Clocks DEF TypeInv
<1>3. CASE PersistTake
  <2>1. Drops(0) /\ Held' = Held /\ nvs' = nvs
    BY <1>3, HeldTaken DEF PersistTake
  <2> QED
    BY <1>1, <1>2, <2>1, AcksDrop, Clocks DEF Stored
<1>4. CASE PersistStale
  <2>1. Drops(1) /\ Len(Held') = Len(Held) - 1 /\ nvs' = nvs
    BY <1>4, HeldDone DEF PersistStale
  <2>2. ~Current(Held[1])
    BY <1>4, HeldTypes DEF PersistStale, Current
  <2> QED
    BY <1>1, <1>2, <2>1, <2>2, AcksDrop DEF Stored, Underway
<1>5. CASE PersistTracker
  <2> DEFINE r == worker.record
             n == [nvs EXCEPT !.trackers[r.id] = Key(r)]
  <2>1. /\ worker.step = "taken" /\ worker' = [worker EXCEPT !.step = "count"] /\ nvs' = n
        /\ queue' = queue /\ Current(r)
    BY <1>2, <1>5, Clocks DEF PersistTracker, Flash, Key, Current
  <2>2. worker \in [step : {"taken", "count"}, record : Records] /\ r.id \in Ids /\ r \in Records
    BY <2>1 DEF TypeInv, Workers, Records
  <2>3. worker'.step = "count" /\ worker'.record = r
    BY <2>1, <2>2
  <2>4. Drops(0) /\ Held' = Held
    BY <2>1, <2>3, HeldStays
  <2>5. /\ nvs'.count = nvs.count /\ nvs'.trackers[r.id] = Key(r)
        /\ \A i \in Ids \ {r.id} : nvs'.trackers[i] = nvs.trackers[i]
    BY <1>2, <2>1, <2>2 DEF Nvs
  <2>6. Key(r) # NoTracker /\ Key(r).address = r.address
    BY <2>2, NoTrackerAssumption DEF Key, Records
  <2>7. At(ram.trackers, r.id, r.address)
    <3>1. 1 \in 1..Len(Held) /\ Held[1] = r
      BY <2>1, HeldTypes, Clocks
    <3> QED
      BY <1>2, <2>1, <3>1 DEF CountInv
  <2>8. ASSUME NEW p \in acked, Stored(p) PROVE Stored(p)'
    <3>1. p.id \in Ids /\ At(ram.trackers, p.id, p.address)
      BY <1>2 DEF TypeInv, AckInv
    <3>2. p.id = r.id => p.address = r.address
      BY <2>7, <3>1 DEF At
    <3> QED
      BY <2>5, <2>6, <2>8, <3>1, <3>2 DEF Stored, At
  <2>9. Len(Held') = Len(Held) - 0
    BY <2>4, Clocks
  <2> HIDE DEF r, n
  <2>10. \A p \in acked : Stored(p) => Stored(p)'
    BY <2>8
  <2>11. 0 \in {0, 1} /\ \A p \in acked : 0 = 1 /\ Underway(p, 1) => Stored(p)'
    OBVIOUS
  <2>12. Drops(0) /\ Len(Held') = Len(Held) - 0 /\ (failures' = 0 => failures = 0)
    BY <1>2, <2>4, <2>9
  <2> QED
    BY <1>1, <2>10, <2>11, <2>12, AcksDrop
<1>6. CASE PersistCount
  <2> DEFINE r == worker.record
             n == [nvs EXCEPT !.count = r.tracker_count]
  <2>1. worker.step = "count" /\ worker' = Idle /\ nvs' = n /\ queue' = queue
    BY <1>2, <1>6, Clocks DEF PersistCount, Flash
  <2>2. nvs'.count = r.tracker_count /\ nvs'.trackers = nvs.trackers
    BY <1>2, <2>1 DEF Nvs
  <2>3. Drops(1) /\ Len(Held') = Len(Held) - 1 /\ 1 \in 1..Len(Held) /\ Held[1] = r /\ r \in Records
    BY <2>1, HeldDone, HeldTypes, Clocks
  <2>4. nvs.count <= r.tracker_count /\ r.id < r.tracker_count /\ nvs.trackers[r.id] = Key(r)
    BY <1>2, <2>1, <2>3 DEF RecordInv, CountInv
  <2>5. Key(r) # NoTracker /\ Key(r).address = r.address
    BY <2>3, NoTrackerAssumption DEF Key, Records
  <2>6. ASSUME NEW p \in acked, Stored(p) PROVE Stored(p)'
    <3>1. p.id \in Nat /\ r.tracker_count \in Nat
      BY <2>3 DEF TypeInv, Ids, Records
    <3> QED
      BY <2>2, <2>4, <2>6, <3>1, Clocks DEF Stored, At
  <2>7. ASSUME NEW p \in acked, Underway(p, 1) PROVE Stored(p)'
    BY <2>2, <2>3, <2>4, <2>5, <2>7 DEF Stored, At, Underway
  <2> QED
    BY <1>1, <1>2, <2>3, <2>6, <2>7, AcksDrop
<1> QED
    BY <1>3, <1>4, <1>5, <1>6 DEF Persist

LEMMA AcksStep == StoreInv /\ PairingInv /\ [Next]_vars => AckInv'
<1> SUFFICES ASSUME StoreInv, PairingInv, [Next]_vars PROVE AckInv'
    OBVIOUS
<1>1. TypeInv /\ AckInv
    BY DEF StoreInv
<1>2. CASE UNCHANGED vars
  <2>1. Drops(0) /\ Held' = Held
    BY <1>1, <1>2, HeldStays DEF vars
  <2> QED
    BY <1>1, <1>2, <2>1, AcksDrop, Clocks DEF vars, SameTable, Stored
<1>3. CASE \E on \in BOOLEAN : SetPairing(on) \/ SetEnabled(on)
  <2>1. /\ SameTable(ram', ram)
        /\ UNCHANGED <<queue, worker, control, nvs, acked, failures>>
    BY <1>1, <1>3, RadioSwitched
  <2>2. Drops(0) /\ Held' = Held
    BY <1>1, <2>1, HeldStays
  <2> QED
    BY <1>1, <2>1, <2>2, AcksDrop, Clocks DEF Stored
<1>4. CASE RadioInterrupt \/ Persist
    BY <1>4, AcksRadio, AcksPersist
<1>5. CASE \/ \E group \in Groups, secondary \in BOOLEAN : BeginSetGroup(secondary, group)
           \/ BeginClear \/ Reboot
  <2>1. acked' = {}
    BY <1>1, <1>5, CommandBegins DEF Reboot
  <2> QED
    BY <2>1 DEF AckInv
<1>6. CASE ControlStep
  <2>1. acked' = acked /\ control \in Commands /\ (failures' = 0 => failures = 0)
    BY <1>1, <1>6, CommandWrites, CommandEnds DEF ControlStep
  <2> QED
    BY <1>1, <2>1, NoneOrCommand DEF AckInv
<1> QED
    BY <1>2, <1>3, <1>4, <1>5, <1>6 DEF Next

-----------------------------------------------------------------------------
(* The keys *)

LEMMA KeysRadio == StoreInv /\ PairingInv /\ RadioInterrupt => KeyInv'
<1> SUFFICES ASSUME TypeInv, KeyInv, PairingInv, RadioInterrupt, failures' = 0, ~torn'
             PROVE  KeyInv'
    BY DEF StoreInv, KeyInv
<1>1. PICK a \in Addresses, id \in Ids : Grows(a, id)
    BY RadioEffect
<1>2. /\ UNCHANGED <<worker, control, nvs, clearedEra>> /\ failures = 0 /\ ~torn
      /\ ram'.trackers[id].era = era /\ \A i \in Ids \ {id} : ram'.trackers[i] = ram.trackers[i]
    BY <1>1 DEF Grows
<1>3. ASSUME NEW i \in Ids, ram'.trackers[i] # NoTracker PROVE ram'.trackers[i].era >= clearedEra
    BY <1>2, <1>3, Clocks DEF KeyInv
<1> QED
    BY <1>2, <1>3 DEF KeyInv

LEMMA KeysPersist == StoreInv /\ Persist => KeyInv'
<1> SUFFICES ASSUME TypeInv, RecordInv, CountInv, KeyInv, Persist, failures' = 0, ~torn'
             PROVE  KeyInv'
    BY DEF StoreInv, KeyInv
<1>1. UNCHANGED <<ram, control, torn, clearedEra>>
    BY DEF Persist, PersistTake, PersistStale, PersistTracker, PersistCount
<1>2. failures = 0 /\ nvs \in Nvs /\ ~torn
  <2>1. failures' = failures \/ failures' = failures + 1
    BY DEF Persist, PersistTake, PersistStale, PersistTracker, PersistCount, Flash
  <2> QED
    BY <1>1, <2>1, Clocks DEF TypeInv
<1>3. CASE PersistTake \/ PersistStale
  <2>1. worker.step # "count" /\ nvs' = nvs
    BY <1>3 DEF PersistTake, PersistStale
  <2> QED
    BY <1>1, <1>2, <2>1 DEF KeyInv
<1>4. CASE PersistTracker
  <2> DEFINE r == worker.record
             n == [nvs EXCEPT !.trackers[r.id] = Key(r)]
  <2>1. /\ worker.step = "taken" /\ worker' = [worker EXCEPT !.step = "count"] /\ nvs' = n
        /\ Current(r) /\ control.op = "none"
    BY <1>2, <1>4, NoneOrCommand, Clocks DEF PersistTracker, Flash, Key, Current, MutexFree
  <2>2. worker \in [step : {"taken", "count"}, record : Records] /\ r.id \in Ids /\ r \in Records
    BY <2>1 DEF TypeInv, Workers, Records
  <2>3. worker'.step = "count" /\ worker'.record = r
    BY <2>1, <2>2
  <2>4. /\ nvs'.count = nvs.count /\ nvs'.trackers[r.id] = Key(r)
        /\ \A i \in Ids \ {r.id} : nvs'.trackers[i] = nvs.trackers[i]
    BY <1>2, <2>1, <2>2 DEF Nvs
  <2>5. Key(r).era >= clearedEra
    <3>1. 1 \in 1..Len(Held) /\ Held[1] = r
      BY <2>1, HeldTypes, Clocks
    <3>2. r.era + ram.generation = era + r.generation /\ r.era \in Nat
      BY <3>1, HeldRecord DEF RecordInv
    <3>3. r.era = era
      BY <2>1, <3>2, Clocks DEF Current
    <3> QED
      BY <3>3, Clocks DEF Key
  <2> QED
    BY <1>1, <1>2, <2>1, <2>3, <2>4, <2>5 DEF KeyInv
<1>5. CASE PersistCount
  <2> DEFINE r == worker.record
             n == [nvs EXCEPT !.count = r.tracker_count]
  <2>1. worker.step = "count" /\ worker' = Idle /\ nvs' = n /\ queue' = queue
    BY <1>2, <1>5, Clocks DEF PersistCount, Flash
  <2>2. nvs'.count = r.tracker_count /\ nvs'.trackers = nvs.trackers
    BY <1>2, <2>1 DEF Nvs
  <2>3. 1 \in 1..Len(Held) /\ Held[1] = r
    BY <2>1, HeldTypes, Clocks
  <2>4. nvs.count <= r.tracker_count /\ r.id < r.tracker_count /\ r.tracker_count \in Nat
    BY <1>2, <2>1, <2>3, HeldRecord DEF RecordInv, CountInv
  <2>5. ASSUME NEW i \in Ids, i < nvs.count \/ i = r.id PROVE i < r.tracker_count
    BY <2>4, <2>5, Clocks DEF Ids
  <2> QED
    BY <1>1, <1>2, <2>2, <2>5 DEF KeyInv
<1> QED
    BY <1>3, <1>4, <1>5 DEF Persist

LEMMA KeysBegin ==
    ASSUME StoreInv, BeginClear \/ \E group \in Groups, s \in BOOLEAN : BeginSetGroup(s, group)
    PROVE  KeyInv'
<1>1. /\ UNCHANGED <<worker, nvs, clearedEra, torn, failures>> /\ ram'.trackers = ram.trackers
      /\ control'.next = 0 /\ control'.step # "finish"
    BY CommandBegins DEF StoreInv
<1>2. \A i \in Ids : i >= 0
    BY DEF Ids
<1> QED
    BY <1>1, <1>2 DEF StoreInv, KeyInv

LEMMA KeysWrites ==
    ASSUME StoreInv, WriteGroup \/ DeleteKey \/ ClearCount
    PROVE  KeyInv'
<1> SUFFICES ASSUME failures' = 0, ~torn' PROVE KeyInv'
    BY DEF KeyInv
<1> DEFINE c == control.next
<1>1. /\ UNCHANGED <<ram, worker, clearedEra, torn>> /\ control \in Commands /\ failures = 0
      /\ \/ /\ control'.step = "delete" /\ control'.next = c
            /\ nvs'.trackers = nvs.trackers /\ nvs'.count = nvs.count
         \/ /\ control'.step = "delete" /\ control'.next = c + 1 /\ c \in Ids
            /\ nvs'.trackers = [nvs.trackers EXCEPT ![c] = NoTracker] /\ nvs'.count = nvs.count
         \/ c >= storedCount /\ nvs'.trackers = nvs.trackers
    BY CommandWrites DEF StoreInv
<1>2. /\ ~torn /\ storedCount = nvs.count /\ worker.step # "count" /\ control.op # "none"
      /\ nvs.trackers \in [Ids -> Entries] /\ c \in Nat
    BY <1>1, NoneOrCommand DEF StoreInv, CountInv, RecordInv, TypeInv, Nvs
<1>3. \A i \in Ids : nvs.trackers[i] # NoTracker =>
          i < nvs.count /\ nvs.trackers[i].era >= clearedEra /\ i >= c
    BY <1>1, <1>2 DEF StoreInv, KeyInv
<1>4. \A i \in Ids : ram.trackers[i] # NoTracker => ram.trackers[i].era >= clearedEra
    BY <1>1, <1>2 DEF StoreInv, KeyInv
<1>5. ASSUME NEW i \in Ids, nvs'.trackers[i] # NoTracker
      PROVE  /\ i < nvs'.count /\ nvs'.trackers[i].era >= clearedEra
             /\ control'.step # "finish" /\ i >= control'.next
  <2>1. nvs'.trackers[i] = nvs.trackers[i] /\ nvs.trackers[i] # NoTracker
    BY <1>1, <1>2, <1>5
  <2>2. i < nvs.count /\ i >= c /\ i \in Int /\ nvs.count \in Nat
    BY <1>3, <2>1, Clocks DEF Ids, StoreInv
  <2>3. ~(c >= storedCount)
    BY <1>2, <2>2
  <2>4. i < nvs'.count /\ control'.step # "finish"
    BY <1>1, <2>2, <2>3
  <2>5. i >= control'.next
    <3>1. CASE control'.next = c
      BY <2>2, <3>1
    <3>2. CASE control'.next = c + 1 /\ nvs'.trackers = [nvs.trackers EXCEPT ![c] = NoTracker]
      <4>1. i # c
        BY <1>2, <1>5, <3>2
      <4> QED
        BY <1>2, <2>2, <3>2, <4>1
    <3> QED
      BY <1>1, <2>3, <3>1, <3>2
  <2> QED
    BY <1>3, <2>1, <2>4, <2>5
<1> QED
    BY <1>1, <1>4, <1>5 DEF KeyInv

\* A finished command has left no key and no entry.
LEMMA KeysEnds ==
    ASSUME StoreInv, FinishSetGroup \/ RestoreGroup \/ FinishClear
    PROVE  KeyInv' /\ (failures' = 0 /\ ~torn' =>
               \A i \in Ids : nvs'.trackers[i] = NoTracker /\ ram'.trackers[i] = NoTracker)
<1> SUFFICES ASSUME failures' = 0, ~torn'
             PROVE  \A i \in Ids : nvs'.trackers[i] = NoTracker /\ ram'.trackers[i] = NoTracker
    BY DEF KeyInv
<1>1. /\ control \in Commands /\ control.step = "finish" /\ failures = 0 /\ ~torn
      /\ nvs'.trackers = nvs.trackers /\ (~control.failed => ram'.trackers = EmptyTable)
    BY CommandEnds DEF StoreInv
<1>2. ~control.failed /\ control.op # "none"
    BY <1>1, NoneOrCommand DEF StoreInv, CountInv
<1>3. \A i \in Ids : nvs.trackers[i] = NoTracker
    BY <1>1, <1>2 DEF StoreInv, KeyInv
<1> QED
    BY <1>1, <1>2, <1>3 DEF EmptyTable

LEMMA BootRestores ==
    ASSUME StoreInv, Reboot, failures' = 0, ~torn'
    PROVE  /\ nvs' = nvs /\ clearedEra' = clearedEra /\ failures = 0 /\ ~torn /\ control' = NoControl
           /\ \A i \in Ids : ram'.trackers[i] = nvs.trackers[i]
           /\ \A i \in Ids : nvs.trackers[i] # NoTracker =>
                 i < nvs.count /\ nvs.trackers[i].era >= clearedEra
<1>1. /\ nvs' = nvs /\ clearedEra' = clearedEra /\ failures = 0 /\ control' = NoControl
      /\ ram' = Boot(nvs) /\ ~torn /\ worker.step # "count"
    BY DEF Reboot
<1>2. \A i \in Ids : nvs.trackers[i] # NoTracker =>
          i < nvs.count /\ nvs.trackers[i].era >= clearedEra
    BY <1>1 DEF StoreInv, KeyInv
<1>3. \A i \in Ids : ram'.trackers[i] = IF i < nvs.count THEN nvs.trackers[i] ELSE NoTracker
    BY <1>1, TableBooted DEF StoreInv, TypeInv
<1> QED
    BY <1>1, <1>2, <1>3

LEMMA KeysReboot == StoreInv /\ Reboot => KeyInv'
<1> SUFFICES ASSUME StoreInv, Reboot, failures' = 0, ~torn' PROVE KeyInv'
    BY DEF KeyInv
<1> QED
    BY BootRestores, NoneOrCommand DEF KeyInv

LEMMA KeysStep == StoreInv /\ PairingInv /\ [Next]_vars => KeyInv'
<1> SUFFICES ASSUME StoreInv, PairingInv, [Next]_vars PROVE KeyInv'
    OBVIOUS
<1>1. CASE UNCHANGED vars
    BY <1>1 DEF vars, StoreInv, KeyInv
<1>2. CASE \E on \in BOOLEAN : SetPairing(on) \/ SetEnabled(on)
    BY <1>2, RadioSwitched DEF StoreInv, KeyInv, SameTable
<1>3. CASE RadioInterrupt \/ Persist
    BY <1>3, KeysRadio, KeysPersist
<1>4. CASE \/ \E group \in Groups, secondary \in BOOLEAN : BeginSetGroup(secondary, group)
           \/ BeginClear
    BY <1>4, KeysBegin
<1>5. CASE ControlStep
    BY <1>5, KeysWrites, KeysEnds DEF ControlStep
<1>6. CASE Reboot
    BY <1>6, KeysReboot
<1> QED
    BY <1>1, <1>2, <1>3, <1>4, <1>5, <1>6 DEF Next

-----------------------------------------------------------------------------
(* Different ids name different trackers *)

LEMMA DistinctRadio == StoreInv /\ PairingInv /\ RadioInterrupt => DistinctInv'
<1> SUFFICES ASSUME TypeInv, DistinctInv, PairingInv, RadioInterrupt, failures' = 0, ~torn'
             PROVE  DistinctInv'
    BY DEF StoreInv, DistinctInv
<1>1. PICK a \in Addresses, id \in Ids : Grows(a, id)
    BY RadioEffect
<1>2. /\ nvs' = nvs /\ failures = 0 /\ ~torn /\ control.op = "none" /\ ram'.primary = ram.primary
      /\ \A i \in Ids \ {id} : ram'.trackers[i] = ram.trackers[i]
      /\ At(ram'.trackers, id, a)
      /\ \A i \in Ids : \A b : At(ram.trackers, i, b) => At(ram'.trackers, i, b)
      /\ ram'.count = (IF id >= ram.count THEN id + 1 ELSE ram.count)
    BY <1>1 DEF Grows
<1>3. \A i, j \in Ids :
          nvs.trackers[i] # NoTracker /\ At(nvs.trackers, j, nvs.trackers[i].address) => i = j
    BY <1>2 DEF DistinctInv
<1>4. ASSUME ram.primary
      PROVE  /\ \A i \in Ids : nvs.trackers[i] # NoTracker => At(ram.trackers, i, nvs.trackers[i].address)
             /\ \A i, j \in 0..(ram.count - 1) :
                   ram.trackers[i] # NoTracker /\ At(ram.trackers, j, ram.trackers[i].address) => i = j
    BY <1>2, <1>4 DEF DistinctInv
<1>5. ASSUME ram.primary, NEW i \in 0..(ram'.count - 1), NEW j \in 0..(ram'.count - 1),
             ram'.trackers[i] # NoTracker, At(ram'.trackers, j, ram'.trackers[i].address)
      PROVE  i = j
  <2>1. id \in IdsOf(a) \/ (id = ram.count /\ IdsOf(a) = {})
    BY <1>1, <1>5 DEF Grows
  <2>2. ram.count \in 0..MaxTrackers /\ ram'.count \in 0..MaxTrackers
    BY <1>1 DEF Grows, TypeInv, Rams
  <2>3. i \in Ids /\ j \in Ids
    BY <2>2, TableAssumption DEF Ids
  <2>4. CASE id \in IdsOf(a)
    <3>1. id \in 0..(ram.count - 1) /\ At(ram.trackers, id, a) /\ ram'.count = ram.count
      BY <1>2, <2>2, <2>4 DEF IdsOf, At
    <3>2. \A k \in 0..(ram.count - 1) : k \in Ids
      BY <2>2, TableAssumption DEF Ids
    <3>3. \A k \in 0..(ram.count - 1) : ram'.trackers[k] # NoTracker =>
              ram.trackers[k] # NoTracker /\ ram.trackers[k].address = ram'.trackers[k].address
      BY <1>2, <3>1, <3>2 DEF At
    <3> QED
      BY <1>4, <1>5, <3>1, <3>3 DEF At
  <2>5. CASE id = ram.count /\ IdsOf(a) = {}
    <3>1. ram'.count = ram.count + 1 /\ id = ram.count
      BY <1>2, <2>2, <2>5
    <3>2. \A k \in 0..(ram'.count - 1) : k = id \/ (k \in 0..(ram.count - 1) /\ k # id)
      BY <2>2, <3>1
    <3>3. \A k \in 0..(ram.count - 1) : ~At(ram.trackers, k, a)
      BY <2>5 DEF IdsOf, At
    <3>4. CASE i # id /\ j # id
      <4>1. i \in 0..(ram.count - 1) /\ j \in 0..(ram.count - 1)
            /\ ram'.trackers[i] = ram.trackers[i] /\ ram'.trackers[j] = ram.trackers[j]
        BY <1>2, <2>3, <3>2, <3>4
      <4> QED
        BY <1>4, <1>5, <4>1 DEF At
    <3>5. CASE i = id /\ j # id
      <4>1. j \in 0..(ram.count - 1) /\ ram'.trackers[j] = ram.trackers[j] /\ ram'.trackers[i].address = a
        BY <1>2, <2>3, <3>2, <3>5 DEF At
      <4> QED
        BY <1>5, <3>3, <4>1 DEF At
    <3>6. CASE i # id /\ j = id
      <4>1. i \in 0..(ram.count - 1) /\ ram'.trackers[i] = ram.trackers[i] /\ ram'.trackers[j].address = a
        BY <1>2, <2>3, <3>2, <3>6 DEF At
      <4> QED
        BY <1>5, <3>3, <4>1 DEF At
    <3> QED
      BY <3>4, <3>5, <3>6
  <2> QED
    BY <2>1, <2>4, <2>5
<1>6. ASSUME ram.primary, NEW i \in Ids, nvs.trackers[i] # NoTracker
      PROVE  At(ram'.trackers, i, nvs.trackers[i].address)
    BY <1>2, <1>4, <1>6
<1> QED
    BY <1>2, <1>3, <1>5, <1>6 DEF DistinctInv, At

LEMMA DistinctPersist == StoreInv /\ Persist => DistinctInv'
<1> SUFFICES ASSUME TypeInv, RecordInv, CountInv, KeyInv, DistinctInv, Persist,
                    failures' = 0, ~torn'
             PROVE  DistinctInv'
    BY DEF StoreInv, DistinctInv
<1>1. UNCHANGED <<ram, control, torn>>
    BY DEF Persist, PersistTake, PersistStale, PersistTracker, PersistCount
<1>2. failures = 0 /\ nvs \in Nvs /\ ~torn
  <2>1. failures' = failures \/ failures' = failures + 1
    BY DEF Persist, PersistTake, PersistStale, PersistTracker, PersistCount, Flash
  <2> QED
    BY <1>1, <2>1, Clocks DEF TypeInv
<1>3. CASE ~PersistTracker
  <2>1. nvs'.trackers = nvs.trackers
    BY <1>2, <1>3 DEF Persist, PersistTake, PersistStale, PersistCount, Flash, Nvs
  <2> QED
    BY <1>1, <1>2, <2>1 DEF DistinctInv
<1>4. CASE PersistTracker
  <2> DEFINE r == worker.record
             n == [nvs EXCEPT !.trackers[r.id] = Key(r)]
  <2>1. /\ worker.step = "taken" /\ nvs' = n /\ Current(r) /\ control.op = "none"
    BY <1>2, <1>4, NoneOrCommand, Clocks DEF PersistTracker, Flash, Key, Current, MutexFree
  <2>2. r.id \in Ids /\ r \in Records
    BY <2>1 DEF TypeInv, Workers, Records
  <2>3. /\ nvs'.trackers[r.id] = Key(r)
        /\ \A i \in Ids \ {r.id} : nvs'.trackers[i] = nvs.trackers[i]
    BY <1>2, <2>1, <2>2 DEF Nvs
  <2>4. Key(r) # NoTracker /\ Key(r).address = r.address
    BY <2>2, NoTrackerAssumption DEF Key, Records
  <2>5. /\ At(ram.trackers, r.id, r.address) /\ ram.primary /\ r.id \in 0..(ram.count - 1)
    <3>1. 1 \in 1..Len(Held) /\ Held[1] = r
      BY <2>1, HeldTypes, Clocks
    <3>2. /\ At(ram.trackers, r.id, r.address) /\ ram.primary
          /\ r.id < r.tracker_count /\ r.tracker_count <= ram.count /\ r.tracker_count \in Nat
      BY <1>2, <2>1, <3>1, HeldRecord DEF RecordInv, CountInv
    <3> QED
      BY <2>2, <3>2, Clocks DEF Ids
  <2>6. /\ \A i \in Ids : nvs.trackers[i] # NoTracker => At(ram.trackers, i, nvs.trackers[i].address)
        /\ \A i, j \in 0..(ram.count - 1) :
              ram.trackers[i] # NoTracker /\ At(ram.trackers, j, ram.trackers[i].address) => i = j
        /\ \A i, j \in Ids :
              nvs.trackers[i] # NoTracker /\ At(nvs.trackers, j, nvs.trackers[i].address) => i = j
    BY <1>2, <2>1, <2>5 DEF DistinctInv
  <2>7. \A i \in Ids : nvs.trackers[i] # NoTracker => i \in 0..(ram.count - 1)
    <3>1. \A i \in Ids : nvs.trackers[i] # NoTracker => i < nvs.count
      BY <1>2, <2>1 DEF KeyInv
    <3>2. nvs.count <= ram.count
      BY <1>2 DEF CountInv
    <3> QED
      BY <3>1, <3>2, Clocks DEF Ids
  <2>8. ASSUME NEW i \in Ids \ {r.id}, nvs.trackers[i] # NoTracker PROVE nvs.trackers[i].address # r.address
    BY <2>5, <2>6, <2>7, <2>8 DEF At
  <2>9. \A i, j \in Ids :
            nvs'.trackers[i] # NoTracker /\ At(nvs'.trackers, j, nvs'.trackers[i].address) => i = j
    BY <2>3, <2>4, <2>6, <2>8 DEF At
  <2>10. \A i \in Ids : nvs'.trackers[i] # NoTracker => At(ram.trackers, i, nvs'.trackers[i].address)
    BY <2>3, <2>4, <2>5, <2>6
  <2> QED
    BY <1>1, <2>6, <2>9, <2>10 DEF DistinctInv
<1> QED
    BY <1>3, <1>4

LEMMA DistinctStep == StoreInv /\ PairingInv /\ [Next]_vars => DistinctInv'
<1> SUFFICES ASSUME StoreInv, PairingInv, [Next]_vars, failures' = 0, ~torn' PROVE DistinctInv'
    BY DEF DistinctInv
<1>1. TypeInv /\ DistinctInv
    BY DEF StoreInv
<1>2. CASE UNCHANGED vars
    BY <1>1, <1>2 DEF vars, DistinctInv
<1>3. CASE \E on \in BOOLEAN : SetPairing(on) \/ SetEnabled(on)
    BY <1>1, <1>3, RadioSwitched DEF DistinctInv, SameTable
<1>4. CASE RadioInterrupt \/ Persist
    BY <1>4, DistinctRadio, DistinctPersist
<1>5. CASE \/ \E group \in Groups, secondary \in BOOLEAN : BeginSetGroup(secondary, group)
           \/ BeginClear
  <2>1. /\ nvs' = nvs /\ failures' = failures /\ torn' = torn /\ control' \in Commands
    BY <1>1, <1>5, CommandBegins
  <2> QED
    BY <1>1, <2>1, NoneOrCommand DEF DistinctInv
<1>6. CASE WriteGroup \/ DeleteKey \/ ClearCount
  <2>1. /\ torn' = torn /\ control' \in Commands /\ failures = 0
        /\ \/ nvs'.trackers = nvs.trackers
           \/ \E c \in Ids : nvs'.trackers = [nvs.trackers EXCEPT ![c] = NoTracker]
    BY <1>1, <1>6, CommandWrites
  <2>2. nvs.trackers \in [Ids -> Entries]
    BY <1>1 DEF TypeInv, Nvs
  <2>3. \A i \in Ids : nvs'.trackers[i] \in {nvs.trackers[i], NoTracker}
    BY <2>1, <2>2
  <2>4. \A i, j \in Ids :
            nvs.trackers[i] # NoTracker /\ At(nvs.trackers, j, nvs.trackers[i].address) => i = j
    BY <1>1, <2>1 DEF DistinctInv
  <2>5. control'.op # "none"
    BY <2>1, NoneOrCommand
  <2> QED
    BY <2>3, <2>4, <2>5 DEF DistinctInv, At
<1>7. CASE FinishSetGroup \/ RestoreGroup \/ FinishClear
  <2>1. \A i \in Ids : nvs'.trackers[i] = NoTracker /\ ram'.trackers[i] = NoTracker
    BY <1>7, KeysEnds
  <2>2. \A i \in 0..(ram'.count - 1) : i \in Ids
    <3>1. ram'.count \in 0..MaxTrackers
      BY <1>1, <1>7, CommandEnds DEF Rams
    <3> QED
      BY <3>1, TableAssumption DEF Ids
  <2> QED
    BY <2>1, <2>2 DEF DistinctInv
<1>8. CASE Reboot
  <2>1. /\ nvs' = nvs /\ failures = 0 /\ ~torn
        /\ \A i \in Ids : ram'.trackers[i] = nvs.trackers[i]
    BY <1>8, BootRestores
  <2>2. \A i \in 0..(ram'.count - 1) : i \in Ids
    <3>1. ram'.count \in 0..MaxTrackers
      BY <1>1, <1>8, TypesReboot DEF TypeInv, Rams
    <3> QED
      BY <3>1, TableAssumption DEF Ids
  <2>3. \A i, j \in Ids :
            nvs.trackers[i] # NoTracker /\ At(nvs.trackers, j, nvs.trackers[i].address) => i = j
    BY <1>1, <2>1 DEF DistinctInv
  <2> QED
    BY <2>1, <2>2, <2>3 DEF DistinctInv, At
<1> QED
    BY <1>2, <1>3, <1>4, <1>5, <1>6, <1>7, <1>8 DEF Next, ControlStep

-----------------------------------------------------------------------------
(* The theorems about the table and the flash *)

LEMMA StoreInit == Init => StoreInv
<1> SUFFICES ASSUME Init PROVE StoreInv
    OBVIOUS
<1>1. /\ TypeInv /\ worker.step = "idle" /\ queue = <<>> /\ control = NoControl /\ acked = {}
      /\ nvs = EmptyNvs /\ ram = Boot(EmptyNvs) /\ storedCount = 0
    BY TypesInit DEF Init, Idle
<1>2. Len(Held) = 0
    BY <1>1 DEF Held
<1>3. EmptyNvs \in Nvs /\ EmptyNvs.count = 0 /\ EmptyNvs.trackers = EmptyTable
    BY <1>1 DEF EmptyNvs, TypeInv
<1>4. ram.count = 0 /\ \A i \in Ids : ram.trackers[i] = NoTracker /\ nvs.trackers[i] = NoTracker
    BY <1>1, <1>3, TableBooted DEF EmptyTable
<1>5. RecordInv
    BY <1>1, <1>2 DEF RecordInv
<1>6. CountInv /\ AckInv
    BY <1>1, <1>2, <1>3, <1>4, NoneOrCommand DEF CountInv, AckInv
<1>7. KeyInv
    BY <1>4 DEF KeyInv
<1>8. DistinctInv
  <2>1. ~\E i : i \in 0..(ram.count - 1)
    BY <1>4
  <2> QED
    BY <1>4, <2>1 DEF DistinctInv
<1> QED
    BY <1>1, <1>5, <1>6, <1>7, <1>8 DEF StoreInv

LEMMA StoreStep == StoreInv /\ PairingInv /\ [Next]_vars => StoreInv'
<1> SUFFICES ASSUME StoreInv, PairingInv, [Next]_vars PROVE StoreInv'
    OBVIOUS
<1>1. TypeInv'
    BY TypesStep DEF StoreInv
<1>2. RecordInv'
    BY RecordsStep DEF StoreInv
<1>3. CountInv'
    BY <1>2, CountsStep
<1>4. AckInv' /\ KeyInv' /\ DistinctInv'
    BY AcksStep, KeysStep, DistinctStep
<1> QED
    BY <1>1, <1>2, <1>3, <1>4 DEF StoreInv

LEMMA StoreHolds == Spec => []StoreInv
BY StoreInit, StoreStep, PairingHolds, PTL DEF Spec

\* A cleared tracker stays cleared: neither a record the worker had already dequeued
\* nor a power loss in the middle of CLEAR_TRACKERS or SET_GROUP brings it back.
THEOREM NoResurrection == Spec => []ClearedStaysCleared
<1>1. StoreInv => ClearedStaysCleared
    BY DEF StoreInv, KeyInv, ClearedStaysCleared
<1> QED
    BY StoreHolds, <1>1, PTL

\* What handle_pair_request() acknowledged is in flash once the worker is done.
THEOREM AckIsPersisted == Spec => []AckedIsStored
<1>1. StoreInv => AckedIsStored
  <2> SUFFICES ASSUME StoreInv, queue = <<>>, worker = Idle, control = NoControl, failures = 0,
                      NEW p \in acked
               PROVE  Stored(p)
      BY DEF AckedIsStored, Stored, At
  <2>1. Len(Held) = 0
    BY DEF Held, Idle
  <2> QED
    BY <2>1 DEF StoreInv, AckInv
<1> QED
    BY StoreHolds, <1>1, PTL

\* The table of a primary never gives one tracker two ids.
THEOREM OneIdEach == Spec => []PrimaryIdsDistinct
<1>1. StoreInv => PrimaryIdsDistinct
  <2> SUFFICES ASSUME StoreInv, control = NoControl, ram.primary, failures = 0, ~torn,
                      NEW i \in 0..(ram.count - 1), NEW j \in 0..(ram.count - 1), i # j,
                      ram.trackers[i] # NoTracker, ram.trackers[j] # NoTracker
               PROVE  ram.trackers[i].address # ram.trackers[j].address
      BY DEF PrimaryIdsDistinct
  <2> QED
    BY NoneOrCommand DEF StoreInv, DistinctInv, At
<1> QED
    BY StoreHolds, <1>1, PTL

-----------------------------------------------------------------------------
(* The listing by pages *)

LEMMA Division ==
    ASSUME NEW i \in Nat, NEW d \in Nat \ {0}
    PROVE  LET p == i \div d IN p \in 0..i /\ p * d <= i /\ i < p * d + d
OBVIOUS

LEMMA Multiples ==
    ASSUME NEW p \in Nat, NEW q \in 0..p, NEW d \in Nat
    PROVE  q * d \in Nat /\ q * d <= p * d
OBVIOUS

LEMMA NothingBefore == Cardinality({}) = 0
BY FS_EmptySet

\* While no page number exceeds its 8 bits the start of a page is a multiple of the page
\* size, so the page of a tracker's id lists it, and no page before it is empty.
LEMMA PagesCover ==
    ASSUME TypeInv, MaxTrackers <= 256
    PROVE  PagingListsAll
<1> SUFFICES ASSUME NEW i \in Ids, i < ram.count, ram.trackers[i] # NoTracker
             PROVE  \E p \in 0..MaxTrackers :
                       /\ \A q \in 0..p : TrackerPage(q) # {}
                       /\ i \in TrackerPage(p)
    BY DEF PagingListsAll
<1> DEFINE p == i \div PageSize
           Listed(s) == {k \in Ids : s <= k /\ k < ram.count /\ ram.trackers[k] # NoTracker}
           Page(s) == {k \in Listed(s) : Cardinality({j \in Listed(s) : j < k}) < PageSize}
<1>1. /\ i \in Nat /\ i < 256 /\ PageSize \in Nat \ {0} /\ i < MaxTrackers
      /\ MaxTrackers \in Nat
    BY TableAssumption, PageAssumption DEF Ids
<1>2. p \in 0..i /\ p * PageSize <= i /\ i < p * PageSize + PageSize
    BY <1>1, Division
<1> HIDE DEF p
<1>3. ASSUME NEW q \in 0..p
      PROVE  q * PageSize \in Nat /\ q * PageSize <= i /\ TrackerPage(q) = Page(q * PageSize)
  <2> DEFINE s == q * PageSize
  <2>1. s \in Nat /\ s <= p * PageSize /\ p * PageSize \in Nat
    BY <1>1, <1>2, Multiples
  <2> HIDE DEF s
  <2>2. s <= i /\ s % 256 = s
    BY <1>1, <1>2, <2>1
  <2> QED
    BY <2>1, <2>2 DEF TrackerPage, s
<1>4. ASSUME NEW s \in Nat, s <= i PROVE Page(s) # {}
  <2>1. Listed(s) \subseteq Nat /\ Listed(s) # {}
    BY <1>4 DEF Ids
  <2>2. PICK m \in Listed(s) : \A k \in Listed(s) : m <= k
    BY <2>1, LeastElement
  <2>3. {j \in Listed(s) : j < m} = {}
    BY <2>1, <2>2
  <2> QED
    BY <1>1, <2>3, NothingBefore
<1>5. ASSUME NEW s \in Nat, s <= i, i < s + PageSize PROVE i \in Page(s)
  <2> DEFINE before == {j \in Listed(s) : j < i}
  <2>1. before \subseteq s..(i - 1)
    BY <1>1 DEF Ids
  <2>2. IsFiniteSet(s..(i - 1)) /\ Cardinality(s..(i - 1)) = IF s > i - 1 THEN 0 ELSE (i - 1) - s + 1
    BY <1>1, FS_Interval
  <2>3. Cardinality(before) <= Cardinality(s..(i - 1)) /\ IsFiniteSet(before)
    BY <2>1, <2>2, FS_Subset
  <2>4. Cardinality(before) \in Nat
    BY <2>3, FS_CardinalityType
  <2>5. i \in Listed(s)
    BY <1>5
  <2> HIDE DEF Listed
  <2>6. Cardinality(before) < PageSize
    BY <1>1, <1>5, <2>2, <2>3, <2>4
  <2> QED
    BY <2>5, <2>6
<1> HIDE DEF Page, Listed
<1>6. \A q \in 0..p : TrackerPage(q) # {}
    BY <1>3, <1>4
<1>7. p \in 0..p /\ p \in 0..MaxTrackers
    BY <1>1, <1>2
<1>8. i \in TrackerPage(p)
    BY <1>2, <1>3, <1>5, <1>7
<1> QED
    BY <1>6, <1>7, <1>8

\* A client that asks for one page after the other until one is empty has seen every
\* tracker, whatever holes the table has, as long as an id fits in the 8 bits in which
\* get_tracker_page() computes the start of a page (the firmware has 32 ids).
THEOREM PagesListEveryTracker ==
    ASSUME MaxTrackers <= 256
    PROVE  Spec => []PagingListsAll
<1>1. TypeInv => PagingListsAll
    BY PagesCover
<1> QED
    BY TypesHold, <1>1, PTL
=============================================================================
