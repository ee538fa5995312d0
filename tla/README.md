# Smol WiFi Receiver: a verification development

This directory models the concurrent and distributed parts of the repository in
TLA+, checks them with TLC on small instances and proves the most important
safety properties, and the refinement of an abstract specification, with TLAPS for
every value of the constants. Paths such as
`rf_receiver.c:203` refer to the sources; `PROJECT.json` maps every modelling
definition to its lines, and lists runs, hazards, findings and theorems.

## 1. The system

```
 trackers --RF v2--> nRF54L15 --SVB1 over SPI--> ESP32-C5 --SVW1 over UDP--> Bridge --UDP--> SlimeVR
 (broadcast)         receiver  <--commands----   gateway   <--OFFER, ACK---  (host)          Server
                     `--- USB HID receivers of other builds ---------------->'
```

| Component (source) | State it keeps | Operations | What is hard | What makes it correct |
|---|---|---|---|---|
| SPI command path, ESP32 side (`bridge_spi.c`) | one shared command, two mutexes, the binary semaphore `command_done`, `next_request_id` | `bridge_spi_command()` from several tasks; `bridge_task()` loads, transfers, accepts | a response that races with a timeout; retries; restart of one chip | a call returns its own answer or a timeout, and always returns |
| SPI command path, nRF side (`spi_bridge.c`, `receiver_control.c`, `command_replay_cache.c`) | armed buffers, `pending_response`, the replay cache | `prepare_tx`, `process_rx`, `receiver_control_handle` | a repeated request must not be executed again | each request is executed at most once and in order |
| Receiver pairing, group, radio (`rf_receiver.c`) | tracker table, group, pairing mode, radio, generation, persistence queue | ISR: pair, learn; commands: clear, set group, pairing, enable; work item: persist | ISR, worker and SPI thread interleave; flash fails; power is lost | table and flash agree; the radio listens as configured; what is cleared stays so |
| Receiver storage (`receiver_storage.c`) | NVS keys: group, count, one per tracker | single-key writes and deletes | no operation covers two keys | see above |
| Report builder (`report_builder.c`) | ring of records, address table, registration cursor and time | enqueue, set/clear trackers, next report | replacement in place, ring full of diagnostics, slots left for registrations | the newest packet of each tracker leaves, all trackers get their turn |
| Gateway numbering (`gateway_udp.c`) and datagram gate (`gateway.rs`) | boot ID, sequence; per gateway the last position and the retired boots | send, reboot; `accept()` | loss, duplicates, reordering, wrap, restarts on both sides | batches once and in order; never back to a retired boot |
| Gateway discovery (`gateway_udp.c`, `inputs.rs`) | session, selected server, three time stamps | DISCOVER, OFFER, HELLO, ACK, time limit, name resolution | lost and late replies, Bridges that come and go, Wi-Fi drops | a silent Bridge is given up, a running one is found |
| Bridge hub and sequence gate (`hub.rs`, `dedup.rs`) | registrations per source; last sequence number and time per tracker | `ingest()`, `evaluate()` | copies of a broadcast from several receivers with different delays; 8-bit numbers | one copy of each broadcast, in order, for the right tracker |
| USB HID input (`inputs.rs`) | open devices | refresh, poll | devices come and go | a device that fails is dropped and found again |
| SlimeVR output (`slimevr.rs`) | one socket and session per tracker: confirmed, information, status, button, six time stamps | `process()` a record, `tick()`: poll, time-outs, handshake, heartbeat | Server restarts, lost packets, refused sends that end a function half way | an active tracker is shown, a silent one goes, a press is one tap |
| Wi-Fi manager (`wifi_manager.c`) | station or setup AP, one event group bit | event handler, one 30 s supervisor | one-shot decision; events that race with the opening of the AP; an unconditional pause of the receiver | every boot reaches the user; RF is paused while the setup AP runs and only then |
| Application configuration (`app_config.c`) | several NVS keys, a schema version | load with migration, save | a save is several writes | what was saved is what is loaded |
| Web portal (`web_portal.c`) | none of its own | save and delayed reboot; receiver commands; tracker pages | the reboot does not wait | see the components it calls |
| Status metrics, entry points, test generator, codecs | - | - | input/output, pure encoding | decoding rejects what encoding did not make |

Interactions: the SPI thread of the receiver executes commands that call into
`rf_receiver.c`, and takes reports from `report_builder.c`; the RF interrupt
calls `report_builder.c` and posts to the persistence worker; the web portal and
the Wi-Fi manager are the callers of `bridge_spi_command()`; `bridge_task()` puts
reports into a queue that `gateway_task()` empties into UDP batches; the single
thread of the Bridge polls its inputs, feeds the hub and sends to the server.

## 2. Modules

Each component has one module, with one action per operation or per step
between two points at which another task, an interrupt, the network or a power
loss can come in. Ghost variables record history for the properties; no guard
of the program depends on them. Operators whose comment starts with "Fault:"
are used by no specification: each is the form of the definition below it that
a plausible bug would give, and the property named in `PROJECT.json` fails with it.

**CommandService** is what the command path promises: requests are issued,
executed at most once and in order, and answered by their own result or a
timeout. **CommandLink** is the path itself. A caller goes through the program
points of `bridge_spi_command()` (`pc`): API mutex, drain of a left-over
`command_done`, arming under the command mutex, wait, collect or abandon. The
bridge task loads (`SendCommand` counts the attempt), transfers and accepts; the
SPI thread prepares, arms, receives and executes or replays. A transfer delivers
or garbles each direction independently, finds the slave unarmed, or never
happens. Payloads are abstracted to the ghost number of the request; the code
only compares request IDs, modulo `IdMod`. **CommandLinkProofs** has the proofs,
**MCCommandLink** the symmetry for TLC.

**DatagramGate** composes the numbering of `send_message()` with the network and
`accept()`. Datagrams may arrive any number of times, in any order, or never;
`MaxLag` limits how many later ones of the same boot can be sent before it is
too late. The sequence number is a pair of the wrapped number and a ghost epoch.
Boot IDs are random in the code; the model numbers boots, so two boots never
draw the same ID. **DatagramGateProofs** has the proofs.

**GatewayDiscovery** models one pass of the inner loop of `gateway_task()` as one
action (receive, search, HELLO, time limit, in that order), the sessions around
it, name resolution, both kinds of target, and the Bridge's replies. Time is in
ticks of a second, in which every loop runs at least once.
**GatewayDiscoveryProofs** has the proofs.

**ReceiverPairing** models `rf_receiver.c` with the persistence queue and worker
and every NVS operation as an action of its own that may fail and before and
after which power may be lost. `state_mutex` is what keeps two of them apart.
`era` is a ghost clock of clears and regroups. `TrackerPage` is the listing the
portal reads page by page. `torn` is a ghost: power was lost between the two
writes of a pairing. **ReceiverPairingProofs** has the proofs.

**ReportBuilder** models the ring as a sequence, since only the entries between
the two indices are ever read; each operation runs under the spinlock of the
file and is one action. `Report` is `report_builder_next()`: up to
`ReportRecords` records, registrations in the slots left, the new cursor and the
restarted period, which a full report restarts too (`report_builder.c:144`).
`Registrations` is the loop over those slots, a function of the number of slots
defined by recursion. **ReportBuilderProofs** has the proofs.

**ReceiverHub** models `ingest()` and the shared sequence gate, with receivers
that each hear any part of the broadcasts and whose records arrive in order. A
loss on the way is a record not heard. `broadcasts` counts broadcasts for the
bound. **MCReceiverHub** has the symmetry, **ReceiverHubProofs** the proofs.

**GatewaySetup** composes `app_config.c`, `wifi_manager.c` and the part of
`web_portal.c` that saves and reboots, in the order of `app_main()`. A save or a
migration writes one NVS key per step, and power may be lost before and after
each; the station, its events, the event task and the supervisor are separate
actors. `promised` is a ghost: the configuration the next boot has to load. The
receiver is one flag, `radio_enabled`, since the command that clears it is
CommandLink's subject: it is executed or not, and nobody looks.
**MCGatewaySetup** has the configurations for TLC, among them one whose port is
the former default next to a fixed host, and one that chooses another port.
**GatewaySetupProofs** has the proofs.

**SlimeVrOutput** models one `TrackerConnection`; a Bridge has one per tracker,
each with a socket of its own, and they share only the process. `process()` and
`tick()` are given as the packets they would send and how many of them are sent,
because `?` leaves the function at the first send that fails, with the state
changed so far. A send fails when the host of a stopped Server has refused the
packet before. Time is in seconds, in each of which the main loop completes a
tick, a tracker that is on gets a record through and the Server pings. The
Server is external: it registers on a handshake, answers it, shows the status it
was last told and drops a tracker it does not hear for three seconds; what it makes
of the packets of one call that arrive is `ServerHears`. **SlimeVrOutputProofs** has
the proofs.

## 3. Runs

| Run | Bounds | What it shows |
|---|---|---|
| `command` | 2 callers, 3 calls, 2 attempts, cache of 2, IDs modulo 2, one restart of each chip, fair callers | type invariant, `ExecutedInOrder`, `WokenWithAnswer` also with reused IDs; `FreshOwnResponse` while IDs are fresh; the path implements CommandService; every call returns (`EveryCallReturns`) |
| `command_esp_restart` | violation | `OwnResponse` fails once the ESP32 has restarted alone |
| `gate_order` | 1 gateway, 2 boots, numbers modulo 4, one wrap, lag 2, one Bridge restart | batches once and in order, no alternation of boots, a live boot retired only after a late datagram of an earlier boot |
| `discovery` | 2 hosts, limits 1/1/3 s, 2 mishaps, 1 outage, fair | `SilentServerForgotten`, `KeepsConnection`, `EventuallyConnected` |
| `discovery_dead_offer` | violation | a Bridge that offered and never acknowledged stays selected |
| `discovery_moved_host` | violation | a configured host that moves is not followed |
| `pairing` | 2 addresses, 2 ids, queue of 1, pages of 1, 2 eras, 1 fault (power loss or failing flash operation), failing radio starts, fair | the invariants on table, flash, radio, group and pages; `AckedEventuallyStored` |
| `report_builder` | 3 ids, ring of 5 (4 usable), 2 records per report, fair | `QueuedIsNewest`, `RoundRobin`, `NoTrackerStarves`, `EveryTrackerAnnounced` |
| `hub` | 2 receivers, 2 trackers, numbers modulo 6 starting at 4, silence 2, delay 1, 4 broadcasts, 1 reassigned id | `FirstCopyOnly`, `NewestPassed`, `AnnouncedAttributed` |
| `setup` | 2 networks, 3 configurations to post, any flash of an earlier or this version, 2 faults, fair | `PromisedIsLoaded`, `ApExcludesStation`, `BootReachesUser`, `JoinsAgain` |
| `setup_radio` | violation, no fault | the receiver stays deaf after the first set-up |
| `slimevr` | 2 statuses, 2 faults (lost packets, Server stops, Bridge ends, tracker changes), 2 presses, limits 1/3/3 s, fair | `TapsArePresses`, `SilentTrackerGone`, `ActiveTrackerShown` |

Why the bounds are enough. Each is the smallest with which every branch of the
code is taken and every case of interest has room: two callers, so that one
inherits the other's late answer, and three calls, so that it does so twice; two
attempts, since a third repeats the second; a cache of two, so that an entry can
be replaced; a datagram window of half the numbers, the largest the gate can
tolerate, and a wrap inside it; an ACK limit of three HELLO intervals, the ratio
of the code; two mishaps, because one is what `KeepsConnection` tolerates; two
eras, so that a record of the first can survive into the second; one fault there,
since the two kinds are stated apart in the properties; two faults in the set-up,
so that a migration and the save after it can both be cut, and in the session,
so that a packet can be lost after a restart; three ids and
two slots, so that a report cannot announce everybody; a ring that three waiting
trackers do not fill and diagnostics do; a late copy that crosses the wrap of the
RF number. Packet stamps (`Stamps`) are taken modulo 2, so that senders are
never limited and starvation would be found. The proofs remove the bounds for
the properties they cover.

Deadlock is not checked in `gate_order`: once every boot, number and restart
is used up nothing is left to send. Everywhere else it is checked.

### Fairness

- *Commands*: the callers' own steps only. Every wait in `bridge_spi_command()`
  is a FreeRTOS wait with a time limit (`bridge_spi.c:221,233`), so a call
  returns even if the receiver never raises READY; neither the bridge task nor
  the receiver is assumed to be fair.
- *Discovery*: the gateway's task and time (weak fairness: FreeRTOS schedules the
  task, ticks do not stop); for messages, that one of those sent again and again
  is received (strong fairness, over all messages together).
- *Pairing*: the system work queue and the command under way continue (weak).
- *Set-up*: the tasks of the ESP32 continue (weak), and a network in reach that is
  tried again and again is joined once (strong: each attempt may end in between).
  Nothing is assumed about users, the air or power.
- *SlimeVR session*: the main loop and time go on, the tracker repeats its
  information and status records, the Server pings, and a Server or a Bridge that
  stopped is started again by whoever runs it. The last one is an assumption about
  the user: nothing in the repository restarts the Bridge.
- *Reports*: the SPI thread prepares a transfer whenever the ESP32 has clocked
  one (weak). A response takes the place of a report, but at most every other
  transfer carries one, because the ESP32 sends its next command only after it has
  the answer to the last. `EveryTrackerAnnounced` assumes in its own statement
  that reports with room go on being made.

## 4. Proofs

Every safety property of the passing runs is a theorem, and so is the refinement of
CommandService. The theorems hold for every value of the constants under the named
assumptions of the component's module. Most of these only give types. Those that say
more are:

- `MaxLagAssumption` (gate): a datagram is not delivered after half of the sequence
  space has been used up, 2^31 datagrams in the code.
- `DelayAssumption` (hub): a copy of a broadcast is late by less than the silence
  after which the gate starts anew, and what a tracker can send in the sum of the two
  is at most half of the sequence numbers. In the code: 250 ms of silence, so fewer
  than 500 ms in all, 50 packets of a tracker at 100 Hz, and half of an 8-bit number
  is 128.
- `IntervalsAssumption` (discovery): the ACK limit exceeds the HELLO interval.
- `StatusesAssumption` (SlimeVR): a HID status is a byte, and there is one.
- `NoTrackerAssumption` (pairing), `NoCaller \notin Callers`, and their like: a value
  that stands for "none" is none of the others.

Two theorems have a hypothesis of their own, which the code satisfies:
`ConnectionIsKept` (an ACK limit above two HELLO intervals; 3 s and 1 s in
`gateway_udp.c`; and a bound that lets the model count two mishaps, since a lost
message is counted only up to the bound), and `PagesListEveryTracker`
(`MaxTrackers <= 256`; the firmware has 32).

**CommandLinkProofs**

- `TypeCorrect`: `TypeOK` is inductive.
- `NeverWokenForNothing` (`WokenWithAnswer`). The property is not inductive: why
  can a caller be woken only by its own answer? `LockInv` says that the command
  mutex is held exactly by the caller between acquiring it and leaving, that
  nothing is active when it is free, that draining leaves `command_done` empty
  when a command is armed, and that while a caller waits the semaphore is given
  exactly when the command has been completed.
- `ExecutedOnceInOrder` (`ExecutedInOrder`). `OrderInv` adds that a
  request that may still reach the receiver is not older than anything executed,
  and that if it was executed already it is still in the cache, under the same ID.
  That needs a cache of one entry only, since a request is repeated at most until
  a newer one is armed, and no older one can be under way then. Freshness of IDs is not needed,
  so it holds across ESP32 restarts and wraps.
- `AnsweredByOwnRequest` (`FreshOwnResponse`, `FreshIds => OwnResponse`): `FreshIds` says
  that the ESP32 has not restarted and at most `IdMod` requests were issued.
  `AnswerInv` says that then an ID names one request everywhere it occurs, and
  that responses and cached entries only name executed requests. Without the
  assumption the property is false: `command_esp_restart`.
- `PathImplementsService` (`ImplementsService`): the path implements CommandService.
  A caller is in a call when its program counter is not `idle`; the other variables
  of the service are variables of the path. Arming a command is `Issue`, executing one
  is `Execute`, collecting, giving up and failing to get the mutex are `Return`, a
  restart of either chip is the reboot of its side; every other step (transfers,
  retries, replays, lost frames) changes nothing the service has. `PathInv` is what this
  needs: an executed request is newer than the log (`OrderInv`), an answer collected is
  that of an executed request even when IDs are used again (`CallInv`), and of the
  caller's own while they are fresh (`AnswerInv`).

**DatagramGateProofs**

- `GateTypeCorrect`; `BatchesOnceInOrder` (`NoDuplicateBatch`);
  `NoReturnToRetiredBoot` (`RetiredStaysRetired`). `GateInv` ties the gate's
  entry of a gateway to the last batch accepted and its retired set to all boots
  accepted before. The arithmetic is in `NewerIsLater`: if two positions are less
  than `MaxLag` behind the sender's, then the wrapped difference is below `Half`
  exactly for the later one.
- `PromptNetworkKeepsLiveBoot` (`LiveBootNotRetired`): for a gateway none of whose
  datagrams arrived after it rebooted, the entry's boot is not newer than the
  running one and the retired ones are older.

**GatewayDiscoveryProofs**

- `DiscoveryTypes` (`TypeOK`) and `SilentServerIsForgotten`
  (`SilentServerForgotten`). `Session` says where the ages can be after a pass of the
  loop: below their limits, since at the limit the pass has sent a HELLO or closed the
  session. `AnswerIsFresh` says that a Bridge that has answered has been silent for at
  most the age of the last ACK, also when an OFFER of another one came in between.
- `ConnectionIsKept` (the action property `KeepsConnection`). `AckOnTime` relates the
  two ages while nothing but one mishap has happened: the last ACK is no older than
  the last HELLO, or it is one interval older and the answer to that HELLO is on
  its way (`AckPending`); a mishap adds one interval. So a connection can end only
  when the limit is within two intervals. `NoOutage` says that the Bridge that is
  asked runs.

**ReceiverPairingProofs**, for any addresses, groups, table, queue and bounds

- `PairingTypes` (`TypeOK`): no id leaves the table, no count exceeds it.
- `RadioAsConfigured` (`RadioMatchesConfig`) and `GroupSurvivesReboot`
  (`GroupIsStored`), from one invariant. `RamOk` holds whenever a step has ended:
  the radio is off or was started with the current configuration, pairing mode
  implies a primary, a primary has its own group. `ControlInv` says that the radio
  stays off while a command runs (so that no interrupt changes the table then) and that
  a regroup remembers a consistent configuration to return to. `GroupInv` follows
  the flash through a regroup: before the first write it has the former group, and a
  command that has not failed has written the new one. A failed one counts one
  failure, so that, of the two writes of the group, at most one fails.
- `NoResurrection` (`ClearedStaysCleared`), `AckIsPersisted` (`AckedIsStored`) and
  `OneIdEach` (`PrimaryIdsDistinct`), from `StoreInv`. `Held` is the queue with the
  record the worker has taken from it in front. `RecordInv` says which of these
  records are of the present generation and will be written, and that none is while a
  command runs; between its two writes the worker holds such a record and its key is in
  flash. `CountInv` says that the stored count rises to the one in RAM through the
  counts of these records in order, `AckInv` that what was acknowledged is stored or
  under way in one of them, `KeyInv` that flash has no key above the count but the one
  between its two writes and that a clear has deleted all those it has passed,
  `DistinctInv` that keys name different trackers and agree with the table of a
  primary.
- `PagesListEveryTracker` (`PagingListsAll`). The first page that is empty comes after
  every tracker: a page is filled by skipping holes, so one that starts at or below a
  tracker is not empty.

**ReportBuilderProofs**, for every table, ring and report size

- `BuilderTypes` (`TypeOK`).
- `OnlyNewestWaits` (`QueuedIsNewest`).
  The property is inductive with the types of the ring, the table and the
  stamps (`RingInv`); the lemmas say what appending, replacing in place and
  taking from the front do to a ring. That a packet waits alone is what makes the
  entry found by the scan (`report_builder.c:65-71`) the only one to replace.
- `TurnsAreFair` (`RoundRobin`). `Turn(c, k)` is how many ids the scan from `c`
  passes before it comes to `k`. `RoundInv` says that whoever was announced since `i`
  comes after `i` in the next scan, and was announced once. An announcement moves
  the cursor behind the nearest registered id (`NextIsFirst`), which keeps that;
  `RegistrationsInTurn` carries it over the slots of a report.

**ReceiverHubProofs**, for any receivers, trackers, tables and bounds

- `HubTypes` (`TypeOK`).
- `RecordsOfAnnouncedIds` (`AnnouncedAttributed`). `KnownAs(base, q, n, i, t)` says
  that the hub, knowing `base`, gives id `i` to `t` after the first `n` records of
  `q`: the last registration among them decides. `SourceInv` says that this holds
  for each announced id at the end of the queue, and for each record sent under an
  announced id at its turn. The lemmas `SourceAppends`, `SourceAges` and
  `SourceReceives` are what sending, time and arrival do to it.
- `EachBroadcastOnce` (`FirstCopyOnly`) and `NothingNewIsHeldBack` (`NewestPassed`),
  from `SequenceInv`. `Recent(n, q, w, ...)` says that broadcast `n` had number `q`
  and was at most `w` ago; it holds of each packet under way with its age
  (`AirInv`) and of what the gate remembers with the gate's. `DelayAssumption` then gives
  `AheadMeansLater`: of two recent broadcasts, the wrapped comparison of
  `dedup.rs` finds the later one. `GateInv` says that what passed last is
  what the gate remembers, and that a packet older than that arrives before the gate
  has been silent long enough to start anew.

**GatewaySetupProofs**, for all networks, hosts, posted configurations and any
number of faults

- `SetupTypes`: `TypeOK` follows from the two invariants below.
- `SavedConfigIsUsed` (`PromisedIsLoaded`). `ConfigInv` says what lies in the flash
  between two keys: every prefix of a migration is read back as what the boot has
  read (`MigrationInv`: it writes the port before the schema version, and the new
  port is not migrated again), and every prefix of a save agrees with the posted
  configuration on the keys written so far, while nothing is promised (`SaveInv`).
  That a configuration written with its schema version is read unchanged is
  `SavedIsLoaded`; that the promise at delivery agrees with what is loaded is
  `DeliveredIsLoaded`.
- `SetupApIsAlone` (`ApExcludesStation`). `EventInv` lists which events can wait in
  which state of the station and with which value of the bit; `PhaseInv` ties
  `setup_ap` to the progress of `app_main()` and the supervisor. The property needs
  both: the station is off because the supervisor has passed `esp_wifi_stop()`, and the
  bit is cleared because a `got_ip` that waits always has a `disconnected` behind it.

**SlimeVrOutputProofs**, for every set of statuses and any number of faults

- `OutputTypes` (`TypeOK`). What a call of `process()` or `tick()` sends is bounded
  by the set its packets are taken from and by their number.
- `NoTapInvented` (`TapsArePresses`). `PressesCounted`: a button that is down has been
  counted, and until the connection has seen it down there is a press without a tap.
- `SilentTrackerGoes` (`SilentTrackerGone`). `StopsInTime` says that an input that
  has stopped keeps its connection active, and an answer to its handshake
  waiting, only until the loop has acted in that second; so from then on the Server
  hears nothing, and its age grows with the silence (`AgesTogether`).

Induction over natural numbers, where a proof needs it, is the lemma `LeastElement`:
a nonempty set of naturals has a least element. It rests on the well-foundedness of
strict inclusion between finite sets, because the library's induction theorems, which take an
operator as a parameter, cannot be instantiated here. With it `ReportBuilderProofs`
shows that the recursive function `Registrations` exists and unfolds (`SlotsExist`,
`RegistrationsUnfold`).

Only model-checked is liveness, which is out of the prover's reach:
`EveryCallReturns`, `EventuallyConnected`, `AckedEventuallyStored`,
`NoTrackerStarves`, `EveryTrackerAnnounced`, `BootReachesUser`, `JoinsAgain` and
`ActiveTrackerShown`; and the violations of section 5, which are counterexamples.

## 5. What was found

Disagreements between the code and its documents, each with a run:

1. *Request IDs after an ESP32 restart* (`command_esp_restart`). The ESP32 starts
   again at ID 1 (`bridge_spi.c:36`); the receiver's cache survives. A new command
   gets the cached answer of an old one and is not executed.
2. *A dead offer* (`discovery_dead_offer`). The ACK limit is tested only when
   connected (`gateway_udp.c:154`).
3. *A configured host that moves* (`discovery_moved_host`). `server_known` is
    never cleared for a configured host (`gateway_udp.c:156`).
4. *A receiver that stays paused* (`setup_radio`). The setup AP pauses the
   receiver's radio (`wifi_manager.c:42`) and nothing ever resumes it: the reboot
   into station mode restarts the ESP32 only, and `radio_enabled` of the receiver
   (`rf_receiver.c:38`) keeps its value until the receiver restarts. Conversely the
   result of the pause is ignored, and a receiver that restarts during the AP
   session receives again.

Facts that restrict a property, visible in its statement:

- A power loss between the two writes of a pairing (`rf_receiver.c:119-120`)
  leaves a tracker key above the stored count; no later clear deletes it, since
  `receiver_storage_clear_trackers()` deletes only ids below the count. Hence
  `~torn` in `ClearedStaysCleared`.
- A clear whose flash operation fails has already emptied RAM; a tracker paired
  again under another id then has two after the next boot (`failures = 0` in
  `PrimaryIdsDistinct`). The key that a torn pairing leaves can
  become a second id too: no clear deletes it, its tracker is paired again under
  another id, and a boot reads it once the count has passed it (`~torn` there).
- When every report is full, no registration is ever sent, although
  `last_registration_ms` advances (premise of `EveryTrackerAnnounced`).
- After a receiver gives an id to another tracker, that tracker's packets are
  attributed to the former one until the registration is heard (premise of
  `AnnouncedAttributed`, and `~confused` in the other two).
- A copy of a broadcast that arrives after 250 ms of silence from its tracker
  would be passed twice (`MaxDelay < ResetAfter` in `ReceiverHub`).
- `accept()` takes any boot that is not in its retired set for a newer one
  (`gateway.rs:191`). A late datagram of an earlier boot that the gate has not met
  retires the live boot, whose batches are then rejected (premise of
  `LiveBootNotRetired`).
- A gateway in its setup AP never tries the station again by itself: the
  supervisor runs once (`wifi_manager.c:74-88`), and `JoinsAgain` speaks of a
  gateway that has joined. A power loss after the first key of the very first save
  leaves `configured` without an SSID, with which `esp_wifi_connect()` may abort
  the boot (exception in `BootReachesUser`).
- The reboot 250 ms after a save (`web_portal.c:147`) cuts a second save that began
  in the meantime; its keys are a mixture then (`promised = NoConfig`).
- A send to a stopped Server ends the whole Bridge if the record came over Wi-Fi
  (`inputs.rs:76`, `main.rs:49`) and is only logged if it came over USB
  (`inputs.rs:135`). `ActiveTrackerShown` holds because somebody starts it again.
- A press that is released while the Server is away is not tapped: the button is
  recorded only when the session is confirmed (`slimevr.rs:147,340`). Hence
  `TapsArePresses` bounds taps from one side.
- CRC diagnostics have local id 255 (`rf_receiver.c:137`), which is never
  registered, so `ingest()` skips them (`hub.rs:57-59`) before it reaches the
  counter at `hub.rs:65`. Counters are not modelled.

## 6. What is not modelled

- Logging, metrics, counters, argument parsing, HTTP, DNS and JSON, the test
  generator: input/output, no protocol state.
- Codecs and CRC: a garbled frame is rejected (`Garbled`, `ReceiveGarbled`); that
  encoding and decoding are inverse is left to the golden vectors of the tests.
- USB HID devices: opening and dropping them is input/output; what an error of
  the output does on this path is in SlimeVrOutput.
- Values of telemetry, quaternions and accelerations; the country code; failures
  of the Wi-Fi driver while the setup AP starts (`wifi_manager.c:53-69`), after
  which there would be neither station nor AP.
- A record that the receiver has put into a frame and that the SPI link garbles:
  the report builder and the SPI link are not composed.
- A receiver whose `start_radio()` fails during boot serves nothing until it is
  booted again; such boots are left out of ReceiverPairing.
- Records without RF v2 metadata bypass the sequence gate.

## 7. Plan

Done: the command path with its abstract service, the datagram gate, pairing and
storage with the tracker pages, discovery, the report builder, the hub, the
set-up of the gateway, the session with the SlimeVR Server, and the proofs of
section 4. What would come next, in this order:

1. Composition *ReportPath*: ReportBuilder, the SPI transfer that can lose a
   frame, and ReceiverHub: from enqueueing to an accepted record, with the id
   reassignment that now is an environment action. An abstract per-tracker
   mailbox that ReportBuilder implements.
2. A primary and its secondaries: ReceiverPairing twice, with the answers of the
   primary overheard by the secondary (`rf_receiver.c:100`).
3. Proofs: the refinement of the mailbox of item 1; what a system without the
   premises of the theorems still promises (`NewestPassed` while ids are misread).
4. ID48 and envelope codecs against reference definitions.

## 8. Running

```
tlc -workers 2 -config command.cfg MCCommandLink
tlc -workers 2 -config report_builder.cfg ReportBuilder
tlapm CommandLinkProofs.tla
```

The longest runs take about a minute and a half with two workers.
