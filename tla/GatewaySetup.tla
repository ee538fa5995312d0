---------------------------- MODULE GatewaySetup ----------------------------
(***************************************************************************)
(* How the gateway gets its configuration and its network: the NVS keys of *)
(* app_config.c with their migration, the save and the reboot of           *)
(* config_handler() in web_portal.c, the station, the supervisor and the   *)
(* setup AP of wifi_manager.c, in the order of app_main(), and the radio   *)
(* switch of the receiver, which the setup AP turns off.                   *)
(*                                                                         *)
(* Left out: the country code, which is handled like the server name, the  *)
(* validation of a request, which changes nothing, and failures of the     *)
(* Wi-Fi driver while the AP starts.  A network is opened by the password  *)
(* that bears its name.                                                    *)
(***************************************************************************)
EXTENDS Naturals, Sequences

CONSTANTS
    Networks,   \* SSIDs
    NoText,     \* the empty string
    Hosts,      \* names or addresses of a fixed server, NoText among them
    Inputs,     \* the configurations that are posted to the portal
    NoConfig,   \* no configuration is promised
    MaxFaults   \* bound: power losses, failing flash operations and erased flashes

DefaultPort == 6970
LegacyPort == 6969

Configs == [configured : BOOLEAN, ssid : Networks \union {NoText},
            password : Networks \union {NoText}, server : Hosts, port : Nat \ {0}]

ASSUME SetupAssumption ==
    /\ NoText \in Hosts
    /\ \A c \in Inputs : c \in Configs /\ c.configured /\ c.ssid # NoText
    /\ NoConfig \notin Configs
    /\ MaxFaults \in Nat

VARIABLES
    nvs,        \* the flash keys; a missing string reads as NoText, a missing number as 0
    current,    \* app_config.c: the configuration in use
    write,      \* a migration or a save that is writing keys
    step,       \* app_main(): "load", "migrate", "start" or "up"
    rebooting,  \* reboot_task() waits for its 250 ms
    supervisor, \* connection_supervisor(): "none", "decide", "wait", "pause", "open" or "done"
    setup_ap,
    station,    \* "off", "connecting", "up" or "dropped"
    events,     \* Wi-Fi and IP events that the event task has not handled
    connected,  \* WIFI_CONNECTED_BIT
    radio,      \* radio_enabled of the receiver
    air,        \* the networks in reach
    promised,   \* ghost: what the next boot has to load, NoConfig if a save was cut
    faults

configVars == <<nvs, current, write, promised>>
wifiVars == <<supervisor, setup_ap, station, events, connected>>
vars == <<configVars, step, rebooting, wifiVars, radio, air, faults>>

\* The order in which app_config_save() writes; a migration writes the end of it.
KeyOrder == <<"configured", "ssid", "password", "server", "port", "schema">>
PortKey == 5
SchemaKey == 6
Committing == Len(KeyOrder) + 1

Defaults == [configured |-> FALSE, ssid |-> NoText, password |-> NoText,
             server |-> NoText, port |-> DefaultPort]

Stored(c, version) ==
    [exists |-> TRUE, configured |-> c.configured, ssid |-> c.ssid,
     password |-> c.password, server |-> c.server, port |-> c.port, schema |-> version]

EmptyNvs == [exists |-> FALSE, configured |-> FALSE, ssid |-> NoText, password |-> NoText,
             server |-> NoText, port |-> 0, schema |-> 0]

NoWrite == [for |-> "none", next |-> Committing, config |-> NoConfig]

\* Fault: a missing port stays 0.
ReadRaw(n) ==
    [configured |-> n.configured, ssid |-> n.ssid, password |-> n.password,
     server |-> n.server, port |-> n.port]

\* What app_config_init() reads.
Read(n) ==
    [configured |-> n.configured, ssid |-> n.ssid, password |-> n.password,
     server |-> n.server, port |-> IF n.port = 0 THEN DefaultPort ELSE n.port]

IsLegacyDynamic(c) == c.server = NoText /\ c.port = LegacyPort

\* Fault: the schema version is not consulted.
NeedsMigrationAlways(n) == n.exists /\ IsLegacyDynamic(Read(n))

NeedsMigration(n) == n.exists /\ n.schema = 0 /\ IsLegacyDynamic(Read(n))

Loaded(n) == IF NeedsMigration(n) THEN [Read(n) EXCEPT !.port = DefaultPort] ELSE Read(n)

\* The configuration that documentation and users expect after an update.
Preserved(n) ==
    IF n.schema = 0 /\ n.server = NoText /\ n.port \in {0, LegacyPort}
    THEN [Read(n) EXCEPT !.port = DefaultPort] ELSE Read(n)

\* Factory-new, set up by firmware without a schema version, or set up by this one.
Init ==
    /\ nvs \in {EmptyNvs} \union {Stored(c, v) : c \in Inputs, v \in {0, 1}}
    /\ promised = Preserved(nvs)
    /\ current = Defaults
    /\ write = NoWrite
    /\ step = "load"
    /\ rebooting = FALSE
    /\ supervisor = "none"
    /\ setup_ap = FALSE
    /\ station = "off"
    /\ events = <<>>
    /\ connected = FALSE
    /\ radio = TRUE
    /\ air \in SUBSET Networks
    /\ faults = 0

\* Everything in RAM is lost.
Restarted ==
    /\ step' = "load"
    /\ current' = Defaults
    /\ write' = NoWrite
    /\ rebooting' = FALSE
    /\ supervisor' = "none"
    /\ setup_ap' = FALSE
    /\ station' = "off"
    /\ events' = <<>>
    /\ connected' = FALSE

Fault == faults < MaxFaults /\ faults' = faults + 1

-----------------------------------------------------------------------------
(* app_config.c and app_main() *)

\* nvs_flash_init() reports an unusable partition, which is then erased.
EraseFlash ==
    /\ step = "load"
    /\ Fault
    /\ nvs' = EmptyNvs
    /\ promised' = Defaults
    /\ UNCHANGED <<current, write, step, rebooting, wifiVars, radio, air>>

\* app_config_init() up to the first key that a migration writes.
LoadConfig ==
    /\ step = "load"
    /\ current' = Loaded(nvs)
    /\ \/ /\ nvs.exists /\ nvs.schema = 0
          /\ step' = "migrate"
          /\ write' = [for |-> "migrate", config |-> Loaded(nvs),
                       next |-> IF NeedsMigration(nvs) THEN PortKey ELSE SchemaKey]
       \/ /\ ~(nvs.exists /\ nvs.schema = 0)
          /\ step' = "start"
          /\ UNCHANGED write
    /\ UNCHANGED <<nvs, promised, rebooting, wifiVars, radio, air, faults>>

WriteKey ==
    /\ write.for # "none" /\ write.next < Committing
    /\ LET key == KeyOrder[write.next]
           value == IF key = "schema" THEN 1 ELSE write.config[key]
       IN nvs' = [nvs EXCEPT ![key] = value]
    /\ write' = [write EXCEPT !.next = @ + 1]
    /\ UNCHANGED <<current, promised, step, rebooting, wifiVars, radio, air, faults>>

CommitMigration ==
    /\ write.for = "migrate" /\ write.next = Committing
    /\ write' = NoWrite
    /\ step' = "start"
    /\ UNCHANGED <<nvs, current, promised, rebooting, wifiVars, radio, air, faults>>

\* app_main() aborts, and the chip restarts.
MigrationFails ==
    /\ write.for = "migrate"
    /\ Fault
    /\ Restarted
    /\ UNCHANGED <<nvs, promised, radio, air>>

\* wifi_manager_init() and the rest of app_main().
StartWifi ==
    /\ step = "start"
    /\ step' = "up"
    /\ supervisor' = "decide"
    /\ station' = IF current.configured THEN "connecting" ELSE "off"
    /\ UNCHANGED <<configVars, rebooting, setup_ap, events, connected, radio, air, faults>>

\* Without an SSID esp_wifi_connect() may report an error, which aborts.
StartWifiAborts ==
    /\ step = "start"
    /\ current.configured /\ current.ssid = NoText
    /\ Restarted
    /\ UNCHANGED <<nvs, promised, radio, air, faults>>

-----------------------------------------------------------------------------
(* wifi_manager.c *)

Joinable == current.ssid \in air /\ current.password = current.ssid

Join ==
    /\ station = "connecting"
    /\ Joinable
    /\ station' = "up"
    /\ events' = Append(events, "got_ip")
    /\ UNCHANGED <<configVars, step, rebooting, supervisor, setup_ap, connected, radio, air, faults>>

\* An attempt fails or the connection is lost.
Disconnect ==
    /\ station \in {"connecting", "up"}
    /\ station' = "dropped"
    /\ events' = Append(events, "disconnected")
    /\ UNCHANGED <<configVars, step, rebooting, supervisor, setup_ap, connected, radio, air, faults>>

HandleGotIp ==
    /\ events # <<>> /\ Head(events) = "got_ip"
    /\ events' = Tail(events)
    /\ connected' = TRUE
    /\ UNCHANGED <<configVars, step, rebooting, supervisor, setup_ap, station, radio, air, faults>>

\* Fault: the station is only started once.
HandleDisconnectedOnce ==
    /\ events # <<>> /\ Head(events) = "disconnected"
    /\ events' = Tail(events)
    /\ connected' = FALSE
    /\ UNCHANGED <<configVars, step, rebooting, supervisor, setup_ap, station, radio, air, faults>>

\* Fault: the station is started again beside the setup AP.
HandleDisconnectedAlways ==
    /\ events # <<>> /\ Head(events) = "disconnected"
    /\ events' = Tail(events)
    /\ connected' = FALSE
    /\ station' = "connecting"
    /\ UNCHANGED <<configVars, step, rebooting, supervisor, setup_ap, radio, air, faults>>

HandleDisconnected ==
    /\ events # <<>> /\ Head(events) = "disconnected"
    /\ events' = Tail(events)
    /\ connected' = FALSE
    /\ station' = IF setup_ap THEN station ELSE "connecting"
    /\ UNCHANGED <<configVars, step, rebooting, supervisor, setup_ap, radio, air, faults>>

SupervisorWaits ==
    /\ supervisor = "decide"
    /\ current.configured
    /\ supervisor' = "wait"
    /\ UNCHANGED <<configVars, step, rebooting, setup_ap, station, events, connected,
                   radio, air, faults>>

SupervisorConnected ==
    /\ supervisor = "wait"
    /\ connected
    /\ supervisor' = "done"
    /\ UNCHANGED <<configVars, step, rebooting, setup_ap, station, events, connected,
                   radio, air, faults>>

\* Fault: the time limit of a configured station is forgotten.
BeginFirstSetup ==
    /\ supervisor = "decide" /\ ~current.configured
    /\ setup_ap' = TRUE
    /\ supervisor' = "pause"
    /\ UNCHANGED <<configVars, step, rebooting, station, events, connected, radio, air, faults>>

\* start_setup_ap(), without a configuration or after 30 s without a connection.
BeginSetup ==
    /\ \/ supervisor = "decide" /\ ~current.configured
       \/ supervisor = "wait" /\ ~connected
    /\ setup_ap' = TRUE
    /\ supervisor' = "pause"
    /\ UNCHANGED <<configVars, step, rebooting, station, events, connected, radio, air, faults>>

\* bridge_spi_set_radio_enabled(false): its result is ignored, also if the receiver
\* has not executed it.
PauseRadio ==
    /\ supervisor = "pause"
    /\ radio' \in {FALSE, radio}
    /\ supervisor' = "open"
    /\ UNCHANGED <<configVars, step, rebooting, setup_ap, station, events, connected, air, faults>>

\* The station is stopped, which disconnects it, and the AP is started.
OpenAp ==
    /\ supervisor = "open"
    /\ supervisor' = "done"
    /\ station' = "off"
    /\ events' = IF station = "up" THEN Append(events, "disconnected") ELSE events
    /\ UNCHANGED <<configVars, step, rebooting, setup_ap, connected, radio, air, faults>>

-----------------------------------------------------------------------------
(* web_portal.c *)

ApOpen == setup_ap /\ supervisor = "done"
PortalReachable == step = "up" /\ (ApOpen \/ connected)

\* config_handler() calls app_config_save(); requests are handled one at a time.
BeginSave(c) ==
    /\ PortalReachable
    /\ write.for = "none"
    /\ nvs' = [nvs EXCEPT !.exists = TRUE]
    /\ write' = [for |-> "save", config |-> c, next |-> 1]
    /\ promised' = NoConfig
    /\ UNCHANGED <<current, step, rebooting, wifiVars, radio, air, faults>>

\* One of the keys or the commit fails; what was written stays written.
SaveFails ==
    /\ write.for = "save"
    /\ Fault
    /\ write' = NoWrite
    /\ UNCHANGED <<nvs, current, promised, step, rebooting, wifiVars, radio, air>>

CommitSave ==
    /\ write.for = "save" /\ write.next = Committing
    /\ current' = write.config
    /\ promised' = write.config
    /\ write' = NoWrite
    /\ rebooting' = TRUE
    /\ UNCHANGED <<nvs, step, wifiVars, radio, air, faults>>

\* esp_restart(), which does not wait for a save that has begun since.
RebootTask ==
    /\ rebooting
    /\ Restarted
    /\ UNCHANGED <<nvs, promised, radio, air, faults>>

-----------------------------------------------------------------------------
(* The environment *)

PowerLoss ==
    /\ Fault
    /\ Restarted
    /\ UNCHANGED <<nvs, promised, radio, air>>

\* By a power cycle, the reboot command or a change of group.
ReceiverReboot ==
    /\ radio' = TRUE
    /\ UNCHANGED <<configVars, step, rebooting, wifiVars, air, faults>>

AirChanges ==
    /\ air' \in SUBSET Networks
    /\ UNCHANGED <<configVars, step, rebooting, wifiVars, radio, faults>>

Boot == LoadConfig \/ CommitMigration \/ MigrationFails \/ StartWifi \/ StartWifiAborts
HandleEvent == HandleGotIp \/ HandleDisconnected
Supervise ==
    SupervisorWaits \/ SupervisorConnected \/ BeginSetup \/ PauseRadio \/ OpenAp

Next ==
    \/ EraseFlash \/ Boot \/ WriteKey
    \/ Join \/ Disconnect \/ HandleEvent \/ Supervise
    \/ \E c \in Inputs : BeginSave(c)
    \/ SaveFails \/ CommitSave \/ RebootTask
    \/ PowerLoss \/ ReceiverReboot \/ AirChanges

Spec == Init /\ [][Next]_vars

\* The tasks keep running; a network in reach that is tried again and again is joined.
FairSpec ==
    /\ Spec
    /\ WF_vars(Boot) /\ WF_vars(WriteKey) /\ WF_vars(HandleEvent)
    /\ WF_vars(Supervise) /\ WF_vars(RebootTask)
    /\ SF_vars(Join)

-----------------------------------------------------------------------------
(* Properties *)

NvsKeys == [exists : BOOLEAN, configured : BOOLEAN, ssid : Networks \union {NoText},
            password : Networks \union {NoText}, server : Hosts, port : Nat, schema : {0, 1}]
Writes == [for : {"none", "migrate", "save"}, next : 1..Committing,
           config : Configs \union {NoConfig}]

\* The types of the variables; at most two events wait to be handled.
TypeOK ==
    /\ nvs \in NvsKeys
    /\ current \in Configs
    /\ write \in Writes
    /\ step \in {"load", "migrate", "start", "up"}
    /\ rebooting \in BOOLEAN
    /\ supervisor \in {"none", "decide", "wait", "pause", "open", "done"}
    /\ setup_ap \in BOOLEAN
    /\ station \in {"off", "connecting", "up", "dropped"}
    /\ events \in Seq({"got_ip", "disconnected"}) /\ Len(events) <= 2
    /\ connected \in BOOLEAN
    /\ radio \in BOOLEAN
    /\ air \in SUBSET Networks
    /\ promised \in Configs \union {NoConfig}
    /\ faults \in 0..MaxFaults

\* The gateway runs with the configuration that the portal has last answered to be
\* saved, or with the one it was delivered with, of which only the former dynamic
\* port is migrated: whatever boots, migrations and power losses came in between,
\* unless a later save was begun and cut.
PromisedIsLoaded ==
    step \in {"start", "up"} /\ promised # NoConfig => current = promised

\* Once the setup AP is open the station is off and, when the events before that
\* are handled, WIFI_CONNECTED_BIT is cleared, although the station may join while
\* the radio is being paused.
ApExcludesStation ==
    ApOpen => station = "off" /\ (events = <<>> => ~connected)

\* Every boot gets the user a connection or the setup AP, also from the keys of a save
\* that was cut, unless the power was lost after the first key of the very first save.
BootReachesUser ==
    supervisor # "done" ~>
        \/ connected \/ ApOpen
        \/ nvs.configured /\ nvs.ssid = NoText

\* A gateway that has joined once joins again whenever its network is back.
JoinsAgain ==
    <>[](supervisor = "done" /\ ~setup_ap /\ Joinable) => []<>connected

\* The receiver is only paused for a session of the setup AP: a gateway that runs
\* as a station has trackers to forward.
RadioRunsInStation ==
    connected /\ ~setup_ap => radio
=============================================================================
