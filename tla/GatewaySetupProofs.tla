------------------------- MODULE GatewaySetupProofs -------------------------
(***************************************************************************)
(* Proofs about GatewaySetup, for all networks, hosts, configurations and  *)
(* bounds: the setup AP excludes the station, and the configuration that   *)
(* was saved or delivered is the one in use.                               *)
(***************************************************************************)
EXTENDS GatewaySetup, SequenceTheorems, TLAPS

-----------------------------------------------------------------------------
(* Records of keys and configurations *)

LEMMA Keys ==
    /\ Committing = 7
    /\ KeyOrder[1] = "configured" /\ KeyOrder[2] = "ssid" /\ KeyOrder[3] = "password"
    /\ KeyOrder[4] = "server" /\ KeyOrder[5] = "port" /\ KeyOrder[6] = "schema"
BY DEF Committing, KeyOrder

LEMMA SameConfig ==
    ASSUME NEW c \in Configs, NEW d \in Configs,
           c.configured = d.configured, c.ssid = d.ssid, c.password = d.password,
           c.server = d.server, c.port = d.port
    PROVE  c = d
BY DEF Configs

LEMMA DefaultsType == Defaults \in Configs
BY SetupAssumption DEF Defaults, Configs, DefaultPort

\* What the boot reads from each key.
LEMMA ReadKeys ==
    ASSUME NEW n \in NvsKeys
    PROVE  /\ Read(n) \in Configs
           /\ Read(n).configured = n.configured /\ Read(n).ssid = n.ssid
           /\ Read(n).password = n.password /\ Read(n).server = n.server
           /\ Read(n).port = IF n.port = 0 THEN DefaultPort ELSE n.port
<1>1. Read(n).configured = n.configured /\ Read(n).ssid = n.ssid
      /\ Read(n).password = n.password /\ Read(n).server = n.server
      /\ Read(n).port = IF n.port = 0 THEN DefaultPort ELSE n.port
    BY DEF Read
<1>2. Read(n) \in Configs
    BY DEF Read, Configs, NvsKeys, DefaultPort
<1> QED
    BY <1>1, <1>2

LEMMA LoadedKeys ==
    ASSUME NEW n \in NvsKeys
    PROVE  /\ Loaded(n) \in Configs
           /\ Loaded(n).configured = n.configured /\ Loaded(n).ssid = n.ssid
           /\ Loaded(n).password = n.password /\ Loaded(n).server = n.server
           /\ NeedsMigration(n) => Loaded(n).port = DefaultPort
           /\ ~NeedsMigration(n) => Loaded(n) = Read(n)
<1> DEFINE r == Read(n)
<1>1. r \in Configs /\ r.configured = n.configured /\ r.ssid = n.ssid
      /\ r.password = n.password /\ r.server = n.server
    BY ReadKeys
<1>2. Loaded(n) = IF NeedsMigration(n) THEN [r EXCEPT !.port = DefaultPort] ELSE r
    BY DEF Loaded
<1>3. DefaultPort \in Nat \ {0}
    BY DEF DefaultPort
<1> HIDE DEF r
<1>4. [r EXCEPT !.port = DefaultPort] \in Configs
      /\ [r EXCEPT !.port = DefaultPort].configured = r.configured
      /\ [r EXCEPT !.port = DefaultPort].ssid = r.ssid
      /\ [r EXCEPT !.port = DefaultPort].password = r.password
      /\ [r EXCEPT !.port = DefaultPort].server = r.server
      /\ [r EXCEPT !.port = DefaultPort].port = DefaultPort
    BY <1>1, <1>3 DEF Configs
<1>5. ~NeedsMigration(n) => Loaded(n) = Read(n)
    BY <1>2 DEF r
<1> QED
    BY <1>1, <1>2, <1>4, <1>5

\* A configuration written with the schema version is read back as it is.
LEMMA SavedIsLoaded ==
    ASSUME NEW n \in NvsKeys, NEW c \in Configs,
           n.configured = c.configured, n.ssid = c.ssid, n.password = c.password,
           n.server = c.server, n.port = c.port, n.schema = 1
    PROVE  Loaded(n) = c
<1>1. ~NeedsMigration(n)
    BY DEF NeedsMigration
<1>2. c.port # 0
    BY DEF Configs
<1>3. Read(n) = c
    BY ReadKeys, SameConfig, <1>2
<1> QED
    BY <1>1, <1>3, LoadedKeys

\* What is promised at delivery is what the first boot loads.
LEMMA DeliveredIsLoaded ==
    ASSUME NEW n \in {EmptyNvs} \union {Stored(c, v) : c \in Inputs, v \in {0, 1}}
    PROVE  n \in NvsKeys /\ Preserved(n) = Loaded(n)
<1>1. CASE n = EmptyNvs
  <2>1. n \in NvsKeys
      BY <1>1, SetupAssumption DEF NvsKeys, EmptyNvs
  <2>2. n.port = 0 /\ n.server = NoText /\ n.schema = 0 /\ ~n.exists
      BY <1>1 DEF EmptyNvs
  <2>3. Loaded(n) = Read(n)
      BY <2>1, <2>2, LoadedKeys DEF NeedsMigration
  <2>4. Preserved(n) = [Read(n) EXCEPT !.port = DefaultPort]
      BY <2>2 DEF Preserved
  <2>5. Read(n).port = DefaultPort /\ Read(n) \in Configs
      BY <2>1, <2>2, ReadKeys
  <2>6. [Read(n) EXCEPT !.port = DefaultPort] = Read(n)
      BY <2>5 DEF Configs
  <2> QED
      BY <2>1, <2>3, <2>4, <2>6
<1>2. CASE n # EmptyNvs
  <2>1. PICK c \in Inputs, v \in {0, 1} : n = Stored(c, v)
      BY <1>2
  <2>2. c \in Configs
      BY SetupAssumption
  <2>3. n = [exists |-> TRUE, configured |-> c.configured, ssid |-> c.ssid,
             password |-> c.password, server |-> c.server, port |-> c.port, schema |-> v]
      BY <2>1 DEF Stored
  <2>4. n \in NvsKeys /\ n.port # 0 /\ n.exists
      BY <2>2, <2>3 DEF NvsKeys, Configs
  <2>5. Read(n).server = n.server /\ Read(n).port = n.port
      BY <2>4, ReadKeys
  <2>6. NeedsMigration(n) <=> n.schema = 0 /\ n.server = NoText /\ n.port \in {0, LegacyPort}
      BY <2>4, <2>5 DEF NeedsMigration, IsLegacyDynamic
  <2> QED
      BY <2>4, <2>6 DEF Preserved, Loaded
<1> QED
    BY <1>1, <1>2

-----------------------------------------------------------------------------
(* The keys, the configuration in use and the one that is promised *)

DataInv ==
    /\ nvs \in NvsKeys
    /\ current \in Configs
    /\ write \in Writes
    /\ write.for # "none" => write.config \in Configs
    /\ rebooting \in BOOLEAN /\ radio \in BOOLEAN /\ air \in SUBSET Networks
    /\ promised \in Configs \union {NoConfig}
    /\ faults \in 0..MaxFaults

StepInv == step \in {"load", "migrate", "start", "up"}

\* A migration writes what the boot has read; every prefix of it is read the same.
MigrationInv ==
    write.for = "migrate" =>
        /\ step = "migrate"
        /\ nvs.exists
        /\ write.config = current /\ current = Loaded(nvs)
        /\ write.next \in {PortKey, SchemaKey, Committing}
        /\ write.next = PortKey => current.port = DefaultPort
        /\ write.next # PortKey => Read(nvs) = current /\ ~NeedsMigration(nvs)

\* A save has written the keys before the next one.
SaveInv ==
    write.for = "save" =>
        /\ step = "up" /\ promised = NoConfig
        /\ write.next > 1 => nvs.configured = write.config.configured
        /\ write.next > 2 => nvs.ssid = write.config.ssid
        /\ write.next > 3 => nvs.password = write.config.password
        /\ write.next > 4 => nvs.server = write.config.server
        /\ write.next > 5 => nvs.port = write.config.port
        /\ write.next > 6 => nvs.schema = 1

PromiseInv ==
    promised # NoConfig =>
        /\ Loaded(nvs) = promised
        /\ step # "load" => current = promised

ConfigInv == DataInv /\ StepInv /\ MigrationInv /\ SaveInv /\ PromiseInv

LEMMA ConfigInit == Init => ConfigInv
<1> SUFFICES ASSUME Init PROVE ConfigInv
    OBVIOUS
<1>1. /\ nvs \in {EmptyNvs} \union {Stored(c, v) : c \in Inputs, v \in {0, 1}}
      /\ promised = Preserved(nvs) /\ current = Defaults /\ write = NoWrite /\ step = "load"
      /\ rebooting = FALSE /\ radio = TRUE /\ air \in SUBSET Networks /\ faults = 0
    BY DEF Init
<1>2. nvs \in NvsKeys /\ promised = Loaded(nvs)
    BY <1>1, DeliveredIsLoaded
<1>3. write \in Writes /\ write.for = "none"
    BY <1>1, Keys DEF Writes, NoWrite
<1>4. DataInv
  <2>1. Loaded(nvs) \in Configs
    BY <1>2, LoadedKeys
  <2>2. current \in Configs
    BY <1>1, DefaultsType
  <2>3. faults \in 0..MaxFaults
    BY <1>1, SetupAssumption
  <2>4. promised \in Configs \union {NoConfig}
    BY <1>2, <2>1
  <2>5. rebooting \in BOOLEAN /\ radio \in BOOLEAN
    BY <1>1
  <2>6. air \in SUBSET Networks
    BY <1>1
  <2> QED
    BY <1>2, <1>3, <2>2, <2>3, <2>4, <2>5, <2>6 DEF DataInv
<1>5. StepInv /\ MigrationInv /\ SaveInv /\ PromiseInv
    BY <1>1, <1>2, <1>3 DEF StepInv, MigrationInv, SaveInv, PromiseInv
<1> QED
    BY <1>4, <1>5 DEF ConfigInv

\* Steps that touch neither the keys nor a configuration.
LEMMA ConfigKept ==
    ASSUME ConfigInv, configVars' = configVars, rebooting' = rebooting,
           radio' \in BOOLEAN, air' \in SUBSET Networks, faults' = faults,
           StepInv', step = "start" \/ step' = step, step' = "load" => step = "load"
    PROVE  ConfigInv'
<1>1. nvs' = nvs /\ current' = current /\ write' = write /\ promised' = promised
    BY DEF configVars
<1>2. DataInv'
    BY <1>1 DEF ConfigInv, DataInv
<1>3. MigrationInv' /\ SaveInv' /\ PromiseInv'
    BY <1>1 DEF ConfigInv, StepInv, MigrationInv, SaveInv, PromiseInv
<1> QED
    BY <1>2, <1>3 DEF ConfigInv

LEMMA ConfigRestarts ==
    ASSUME ConfigInv, Restarted, nvs' = nvs, promised' = promised,
           radio' = radio, air' = air, faults' \in 0..MaxFaults
    PROVE  ConfigInv'
<1>1. step' = "load" /\ current' = Defaults /\ write' = NoWrite /\ rebooting' = FALSE
    BY DEF Restarted
<1>2. write' \in Writes /\ (write.for)' = "none"
    BY <1>1, Keys DEF Writes, NoWrite
<1>3. DataInv'
    BY <1>1, <1>2, DefaultsType DEF ConfigInv, DataInv
<1>4. StepInv' /\ MigrationInv' /\ SaveInv' /\ PromiseInv'
    BY <1>1, <1>2 DEF ConfigInv, StepInv, MigrationInv, SaveInv, PromiseInv
<1> QED
    BY <1>3, <1>4 DEF ConfigInv

LEMMA ConfigFault == ASSUME ConfigInv, Fault PROVE faults' \in 0..MaxFaults
BY SetupAssumption DEF Fault, ConfigInv, DataInv

LEMMA ConfigLoads == ConfigInv /\ LoadConfig => ConfigInv'
<1> SUFFICES ASSUME ConfigInv, LoadConfig PROVE ConfigInv'
    OBVIOUS
<1>1. /\ step = "load" /\ current' = Loaded(nvs) /\ nvs' = nvs /\ promised' = promised
      /\ rebooting' = rebooting /\ radio' = radio /\ air' = air /\ faults' = faults
    BY DEF LoadConfig
<1>2. current' \in Configs /\ (~NeedsMigration(nvs) => current' = Read(nvs))
      /\ (NeedsMigration(nvs) => (current').port = DefaultPort)
    BY <1>1, LoadedKeys DEF ConfigInv, DataInv
<1>3. PromiseInv'
    BY <1>1 DEF ConfigInv, PromiseInv
<1>4. CASE nvs.exists /\ nvs.schema = 0
  <2> DEFINE start == IF NeedsMigration(nvs) THEN PortKey ELSE SchemaKey
  <2>1. step' = "migrate" /\ write' = [for |-> "migrate", config |-> Loaded(nvs), next |-> start]
    BY <1>4 DEF LoadConfig
  <2>2. start \in 1..Committing /\ (start = PortKey <=> NeedsMigration(nvs))
        /\ start \in {PortKey, SchemaKey, Committing}
    BY Keys DEF PortKey, SchemaKey
  <2> HIDE DEF start
  <2>3. (write.for)' = "migrate" /\ (write.config)' = Loaded(nvs) /\ (write.next)' = start
    BY <2>1
  <2>4. write' \in Writes
    BY <2>1, <2>2, <1>1, <1>2 DEF Writes
  <2>5. DataInv'
    BY <1>1, <1>2, <2>3, <2>4 DEF ConfigInv, DataInv
  <2>6. MigrationInv'
    BY <1>1, <1>2, <1>4, <2>1, <2>2, <2>3 DEF MigrationInv
  <2>7. SaveInv' /\ StepInv'
    BY <2>1, <2>3 DEF SaveInv, StepInv
  <2> QED
    BY <1>3, <2>5, <2>6, <2>7 DEF ConfigInv
<1>5. CASE ~(nvs.exists /\ nvs.schema = 0)
  <2>1. step' = "start" /\ write' = write
    BY <1>5 DEF LoadConfig
  <2>2. (write.for)' = "none"
    BY <1>1, <2>1 DEF ConfigInv, DataInv, Writes, MigrationInv, SaveInv
  <2>3. DataInv'
    BY <1>1, <1>2, <2>1, <2>2 DEF ConfigInv, DataInv
  <2>4. MigrationInv' /\ SaveInv' /\ StepInv'
    BY <2>1, <2>2 DEF MigrationInv, SaveInv, StepInv
  <2> QED
    BY <1>3, <2>3, <2>4 DEF ConfigInv
<1> QED
    BY <1>4, <1>5

\* The ends of a migration and of a save, and the erased flash: nothing is being written.
LEMMA ConfigEnds ==
    ASSUME ConfigInv, EraseFlash \/ CommitMigration \/ SaveFails \/ CommitSave
    PROVE  ConfigInv'
<1>1. (write.for)' = "none" /\ write' \in Writes
  <2>1. CASE EraseFlash
    <3>1. step = "load" /\ write' = write
      BY <2>1 DEF EraseFlash
    <3> QED
      BY <3>1 DEF ConfigInv, DataInv, Writes, MigrationInv, SaveInv
  <2>2. CASE CommitMigration \/ SaveFails \/ CommitSave
    <3>1. write' = NoWrite
      BY <2>2 DEF CommitMigration, SaveFails, CommitSave
    <3> QED
      BY <3>1, Keys DEF NoWrite, Writes
  <2> QED
    BY <2>1, <2>2
<1>2. MigrationInv' /\ SaveInv'
    BY <1>1 DEF MigrationInv, SaveInv
<1>3. CASE EraseFlash
  <2>1. nvs' = EmptyNvs /\ promised' = Defaults /\ current' = current /\ step = "load" /\ step' = step
        /\ rebooting' = rebooting /\ radio' = radio /\ air' = air /\ Fault
    BY <1>3 DEF EraseFlash
  <2>2. faults' \in 0..MaxFaults
    BY <2>1, ConfigFault
  <2>3. EmptyNvs \in NvsKeys
    BY DeliveredIsLoaded
  <2>4. DataInv'
    BY <1>1, <2>1, <2>2, <2>3, DefaultsType DEF ConfigInv, DataInv
  <2>5. Loaded(EmptyNvs) = Defaults
    <3>1. Loaded(EmptyNvs) = Read(EmptyNvs)
      BY <2>3, LoadedKeys DEF NeedsMigration, EmptyNvs
    <3>2. Read(EmptyNvs) = Defaults
      BY DEF Read, EmptyNvs, Defaults
    <3> QED
      BY <3>1, <3>2
  <2>6. PromiseInv' /\ StepInv'
    BY <2>1, <2>5 DEF ConfigInv, PromiseInv, StepInv
  <2> QED
    BY <1>2, <2>4, <2>6 DEF ConfigInv
<1>4. CASE CommitMigration
  <2>1. nvs' = nvs /\ promised' = promised /\ current' = current /\ step' = "start"
        /\ rebooting' = rebooting /\ radio' = radio /\ air' = air /\ faults' = faults
        /\ write.for = "migrate"
    BY <1>4 DEF CommitMigration
  <2>2. DataInv'
    BY <1>1, <2>1 DEF ConfigInv, DataInv
  <2>3. PromiseInv' /\ StepInv'
    BY <2>1 DEF ConfigInv, PromiseInv, StepInv, MigrationInv
  <2> QED
    BY <1>2, <2>2, <2>3 DEF ConfigInv
<1>5. CASE SaveFails
  <2>1. nvs' = nvs /\ promised' = promised /\ current' = current /\ step' = step
        /\ rebooting' = rebooting /\ radio' = radio /\ air' = air /\ Fault
    BY <1>5 DEF SaveFails
  <2>2. faults' \in 0..MaxFaults
    BY <2>1, ConfigFault
  <2>3. DataInv'
    BY <1>1, <2>1, <2>2 DEF ConfigInv, DataInv
  <2>4. PromiseInv' /\ StepInv'
    BY <2>1 DEF ConfigInv, PromiseInv, StepInv
  <2> QED
    BY <1>2, <2>3, <2>4 DEF ConfigInv
<1>6. CASE CommitSave
  <2>1. /\ write.for = "save" /\ write.next = Committing /\ step' = step
        /\ nvs' = nvs /\ promised' = write.config /\ current' = write.config
        /\ rebooting' = TRUE /\ radio' = radio /\ air' = air /\ faults' = faults
    BY <1>6 DEF CommitSave, wifiVars
  <2>2. write.config \in Configs /\ nvs \in NvsKeys
    BY <2>1 DEF ConfigInv, DataInv
  <2>3. DataInv'
    BY <1>1, <2>1, <2>2 DEF ConfigInv, DataInv
  <2>4. nvs.configured = write.config.configured /\ nvs.ssid = write.config.ssid
        /\ nvs.password = write.config.password /\ nvs.server = write.config.server
        /\ nvs.port = write.config.port /\ nvs.schema = 1
    BY <2>1, Keys DEF ConfigInv, SaveInv
  <2>5. Loaded(nvs) = write.config
    BY <2>2, <2>4, SavedIsLoaded
  <2>6. PromiseInv' /\ StepInv'
    BY <2>1, <2>5 DEF ConfigInv, PromiseInv, StepInv
  <2> QED
    BY <1>2, <2>3, <2>6 DEF ConfigInv
<1> QED
    BY <1>3, <1>4, <1>5, <1>6

LEMMA ConfigBeginsSave ==
    ASSUME ConfigInv, NEW c \in Inputs, BeginSave(c)
    PROVE  ConfigInv'
<1>1. /\ nvs' = [nvs EXCEPT !.exists = TRUE]
      /\ write' = [for |-> "save", config |-> c, next |-> 1]
      /\ promised' = NoConfig /\ current' = current /\ step = "up" /\ step' = "up"
      /\ rebooting' = rebooting /\ radio' = radio /\ air' = air /\ faults' = faults
    BY DEF BeginSave, PortalReachable
<1>2. (write.for)' = "save" /\ (write.config)' = c /\ (write.next)' = 1
    BY <1>1
<1>3. write' \in Writes /\ c \in Configs
    BY <1>1, Keys, SetupAssumption DEF Writes
<1>4. nvs' \in NvsKeys
    BY <1>1 DEF ConfigInv, DataInv, NvsKeys
<1>5. DataInv'
    BY <1>1, <1>2, <1>3, <1>4 DEF ConfigInv, DataInv
<1>6. StepInv' /\ MigrationInv' /\ SaveInv' /\ PromiseInv'
    BY <1>1, <1>2 DEF StepInv, MigrationInv, SaveInv, PromiseInv
<1> QED
    BY <1>5, <1>6 DEF ConfigInv

\* One key of a migration or of a save.
LEMMA ConfigWrites == ConfigInv /\ WriteKey => ConfigInv'
<1> SUFFICES ASSUME ConfigInv, WriteKey PROVE ConfigInv'
    OBVIOUS
<1> DEFINE key == KeyOrder[write.next]
           value == IF key = "schema" THEN 1 ELSE write.config[key]
<1>1. /\ write.for # "none" /\ write.next \in 1..6
      /\ nvs \in NvsKeys /\ write \in Writes /\ write.config \in Configs
    BY Keys DEF WriteKey, ConfigInv, DataInv, Writes
<1>2. /\ nvs' = [nvs EXCEPT ![key] = value]
      /\ write' = [write EXCEPT !.next = @ + 1]
      /\ current' = current /\ promised' = promised /\ step' = step
      /\ rebooting' = rebooting /\ radio' = radio /\ air' = air /\ faults' = faults
    BY DEF WriteKey
<1>3. (write.for)' = write.for /\ (write.config)' = write.config
      /\ (write.next)' = write.next + 1 /\ write' \in Writes
    BY <1>1, <1>2, Keys DEF Writes
<1>4. \/ write.next = 1 /\ nvs' = [nvs EXCEPT !.configured = write.config.configured]
      \/ write.next = 2 /\ nvs' = [nvs EXCEPT !.ssid = write.config.ssid]
      \/ write.next = 3 /\ nvs' = [nvs EXCEPT !.password = write.config.password]
      \/ write.next = 4 /\ nvs' = [nvs EXCEPT !.server = write.config.server]
      \/ write.next = 5 /\ nvs' = [nvs EXCEPT !.port = write.config.port]
      \/ write.next = 6 /\ nvs' = [nvs EXCEPT !.schema = 1]
  <2>1. \/ write.next = 1 /\ key = "configured" /\ value = write.config.configured
        \/ write.next = 2 /\ key = "ssid" /\ value = write.config.ssid
        \/ write.next = 3 /\ key = "password" /\ value = write.config.password
        \/ write.next = 4 /\ key = "server" /\ value = write.config.server
        \/ write.next = 5 /\ key = "port" /\ value = write.config.port
        \/ write.next = 6 /\ key = "schema" /\ value = 1
    BY <1>1, Keys
  <2> HIDE DEF key, value
  <2> QED
    BY <1>2, <2>1
<1>5. /\ (nvs.exists)' = nvs.exists
      /\ (nvs.configured)' = IF write.next = 1 THEN write.config.configured ELSE nvs.configured
      /\ (nvs.ssid)' = IF write.next = 2 THEN write.config.ssid ELSE nvs.ssid
      /\ (nvs.password)' = IF write.next = 3 THEN write.config.password ELSE nvs.password
      /\ (nvs.server)' = IF write.next = 4 THEN write.config.server ELSE nvs.server
      /\ (nvs.port)' = IF write.next = 5 THEN write.config.port ELSE nvs.port
      /\ (nvs.schema)' = IF write.next = 6 THEN 1 ELSE nvs.schema
    BY <1>1, <1>4 DEF NvsKeys
<1>6. nvs' \in NvsKeys
    BY <1>1, <1>4 DEF NvsKeys, Configs
<1>7. DataInv'
    BY <1>1, <1>2, <1>3, <1>6 DEF ConfigInv, DataInv
<1>8. StepInv'
    BY <1>2 DEF ConfigInv, StepInv
<1>9. CASE write.for = "save"
  <2>1. step = "up" /\ promised = NoConfig
    BY <1>9 DEF ConfigInv, SaveInv
  <2>2. MigrationInv' /\ PromiseInv'
    BY <1>2, <1>3, <1>9, <2>1 DEF MigrationInv, PromiseInv
  <2>3. SaveInv'
    BY <1>1, <1>2, <1>3, <1>5, <1>9 DEF ConfigInv, SaveInv
  <2> QED
    BY <1>7, <1>8, <2>2, <2>3 DEF ConfigInv
<1>10. CASE write.for = "migrate"
  <2>1. /\ step = "migrate" /\ nvs.exists /\ write.config = current /\ current = Loaded(nvs)
        /\ write.next \in {5, 6}
        /\ write.next = 5 => current.port = DefaultPort
        /\ write.next = 6 => Read(nvs) = current /\ ~NeedsMigration(nvs)
    BY <1>1, <1>10, Keys DEF ConfigInv, MigrationInv, PortKey, SchemaKey
  <2>2. current \in Configs /\ current.port # 0
    BY DEF ConfigInv, DataInv, Configs
  <2>3. nvs.configured = current.configured /\ nvs.ssid = current.ssid
        /\ nvs.password = current.password /\ nvs.server = current.server
    BY <1>1, <2>1, LoadedKeys
  <2>4. Read(nvs') = current
    <3>1. Read(nvs') \in Configs
          /\ Read(nvs').configured = current.configured /\ Read(nvs').ssid = current.ssid
          /\ Read(nvs').password = current.password /\ Read(nvs').server = current.server
      BY <1>5, <1>6, <2>1, <2>3, ReadKeys
    <3>2. Read(nvs').port = current.port
      <4>1. CASE write.next = 5
        <5>1. nvs'.port = current.port
          BY <4>1, <1>5, <2>1
        <5> QED
          BY <5>1, <2>2, <1>6, ReadKeys
      <4>2. CASE write.next = 6
        <5>1. nvs'.port = nvs.port /\ Read(nvs).port = current.port
          BY <4>2, <1>5, <2>1
        <5> QED
          BY <5>1, <1>1, <1>6, ReadKeys
      <4> QED
        BY <4>1, <4>2, <2>1
    <3> QED
      BY <3>1, <3>2, <2>2, SameConfig
  <2>5. ~NeedsMigration(nvs')
    <3>1. CASE write.next = 5
      BY <3>1, <2>1, <2>4 DEF NeedsMigration, IsLegacyDynamic, DefaultPort, LegacyPort
    <3>2. CASE write.next = 6
      BY <3>2, <1>5 DEF NeedsMigration
    <3> QED
      BY <3>1, <3>2, <2>1
  <2>6. Loaded(nvs') = current
    BY <2>4, <2>5, <1>6, LoadedKeys
  <2>7. MigrationInv'
    BY <1>2, <1>3, <1>5, <2>1, <2>4, <2>5, <2>6, Keys DEF MigrationInv, PortKey, SchemaKey
  <2>8. PromiseInv'
    BY <1>2, <2>1, <2>6 DEF ConfigInv, PromiseInv
  <2>9. SaveInv'
    BY <1>3, <1>10 DEF SaveInv
  <2> QED
    BY <1>7, <1>8, <2>7, <2>8, <2>9 DEF ConfigInv
<1> QED
    BY <1>1, <1>9, <1>10 DEF Writes

LEMMA ConfigStep == ConfigInv /\ [Next]_vars => ConfigInv'
<1> SUFFICES ASSUME ConfigInv, [Next]_vars PROVE ConfigInv'
    OBVIOUS
<1>1. CASE LoadConfig
    BY <1>1, ConfigLoads
<1>2. CASE WriteKey
    BY <1>2, ConfigWrites
<1>3. CASE EraseFlash \/ CommitMigration \/ SaveFails \/ CommitSave
    BY <1>3, ConfigEnds
<1>4. CASE \E c \in Inputs : BeginSave(c)
    BY <1>4, ConfigBeginsSave
<1>5. CASE MigrationFails \/ StartWifiAborts \/ RebootTask \/ PowerLoss
  <2>1. Restarted /\ nvs' = nvs /\ promised' = promised /\ radio' = radio /\ air' = air
        /\ (Fault \/ faults' = faults)
    BY <1>5 DEF MigrationFails, StartWifiAborts, RebootTask, PowerLoss
  <2>2. faults' \in 0..MaxFaults
    BY <2>1, ConfigFault DEF ConfigInv, DataInv
  <2> QED
    BY <2>1, <2>2, ConfigRestarts
<1>6. CASE StartWifi \/ HandleEvent \/ Join \/ Disconnect \/ Supervise
           \/ ReceiverReboot \/ AirChanges \/ UNCHANGED vars
  <2>1. radio \in BOOLEAN /\ air \in SUBSET Networks
    BY DEF ConfigInv, DataInv
  <2>2. CASE StartWifi
    BY <2>1, <2>2, ConfigKept DEF StartWifi, StepInv
  <2>3. CASE HandleEvent \/ Join \/ Disconnect
    <3>1. configVars' = configVars /\ rebooting' = rebooting /\ radio' = radio /\ air' = air
          /\ faults' = faults /\ step' = step
      BY <2>3 DEF HandleEvent, HandleGotIp, HandleDisconnected, Join, Disconnect
    <3>2. radio' \in BOOLEAN /\ air' \in SUBSET Networks
      BY <3>1, <2>1
    <3>3. StepInv' /\ (step' = "load" => step = "load")
      BY <3>1 DEF ConfigInv, StepInv
    <3>4. radio' \in BOOLEAN
      BY <3>2
    <3>5. air' \in SUBSET Networks
      BY <3>2
    <3> QED
      BY ONLY ConfigInv, <3>1, <3>3, <3>4, <3>5, ConfigKept
  <2>4. CASE Supervise
    <3>1. configVars' = configVars /\ rebooting' = rebooting /\ radio' \in {FALSE, radio}
          /\ air' = air /\ faults' = faults /\ step' = step
      BY <2>4 DEF Supervise, SupervisorWaits, SupervisorConnected, BeginSetup, PauseRadio, OpenAp
    <3>2. radio' \in BOOLEAN /\ air' \in SUBSET Networks
      BY <3>1, <2>1
    <3>3. StepInv' /\ (step' = "load" => step = "load")
      BY <3>1 DEF ConfigInv, StepInv
    <3>4. radio' \in BOOLEAN
      BY <3>2
    <3>5. air' \in SUBSET Networks
      BY <3>2
    <3> QED
      BY ONLY ConfigInv, <3>1, <3>3, <3>4, <3>5, ConfigKept
  <2>5. CASE ReceiverReboot \/ AirChanges \/ UNCHANGED vars
    <3>1. configVars' = configVars /\ rebooting' = rebooting /\ radio' \in {TRUE, radio}
          /\ air' \in SUBSET Networks /\ faults' = faults /\ step' = step
      BY <2>1, <2>5 DEF ReceiverReboot, AirChanges, vars
    <3>2. radio' \in BOOLEAN
      BY <3>1, <2>1
    <3>3. StepInv' /\ (step' = "load" => step = "load")
      BY <3>1 DEF ConfigInv, StepInv
    <3>4. air' \in SUBSET Networks
      BY <3>1
    <3>5. configVars' = configVars /\ rebooting' = rebooting /\ faults' = faults /\ step' = step
      BY <3>1
    <3> QED
      BY <3>2, <3>3, <3>4, <3>5, ConfigKept
  <2> QED
    BY <1>6, <2>2, <2>3, <2>4, <2>5
<1> QED
    BY <1>1, <1>2, <1>3, <1>4, <1>5, <1>6 DEF Next, Boot

-----------------------------------------------------------------------------
(* The station, its events and the supervisor. *)

Got == <<"got_ip">>
Lost == <<"disconnected">>
Both == <<"got_ip", "disconnected">>

\* Which events can wait in which state of the station, and when the bit is set.
EventInv ==
    /\ \/ station = "connecting" /\ events = <<>> /\ ~connected
       \/ station = "up" /\ events = <<>> /\ connected
       \/ station = "up" /\ events = Got /\ ~connected
       \/ station = "dropped" /\ events = <<>> /\ ~connected /\ setup_ap
       \/ station = "dropped" /\ events = Lost
       \/ station = "dropped" /\ events = Both /\ ~connected
       \/ station = "off" /\ events = <<>> /\ ~connected
       \/ station = "off" /\ events = Lost
       \/ station = "off" /\ events = Both /\ ~connected

\* How far the boot and the supervisor have come.
PhaseInv ==
    /\ step \in {"load", "migrate", "start", "up"}
    /\ supervisor \in {"none", "decide", "wait", "pause", "open", "done"}
    /\ setup_ap \in BOOLEAN /\ connected \in BOOLEAN
    /\ step # "up" => supervisor = "none" /\ station = "off" /\ events = <<>>
    /\ supervisor = "none" => step # "up"
    /\ supervisor \in {"none", "decide", "wait"} => ~setup_ap
    /\ supervisor \in {"pause", "open"} => setup_ap
    /\ supervisor = "done" /\ setup_ap => station = "off"

WifiInv == EventInv /\ PhaseInv

LEMMA EventQueues ==
    /\ Append(<<>>, "got_ip") = Got
    /\ Append(<<>>, "disconnected") = Lost
    /\ Append(Got, "disconnected") = Both
    /\ Head(Got) = "got_ip" /\ Tail(Got) = <<>>
    /\ Head(Lost) = "disconnected" /\ Tail(Lost) = <<>>
    /\ Head(Both) = "got_ip" /\ Tail(Both) = Lost
    /\ Got # <<>> /\ Lost # <<>> /\ Both # <<>>
<1>1. Append(<<>>, "got_ip") = Got
    BY DEF Got
<1>2. Append(<<>>, "disconnected") = Lost
    BY DEF Lost
<1>3. Append(Got, "disconnected") = Both
  <2> DEFINE E == {"got_ip", "disconnected"}
             q == Append(Got, "disconnected")
  <2>1. Got \in Seq(E) /\ Len(Got) = 1 /\ Got[1] = "got_ip" /\ "disconnected" \in E
    BY DEF Got
  <2>2. Both \in Seq(E) /\ Len(Both) = 2 /\ Both[1] = "got_ip" /\ Both[2] = "disconnected"
    BY DEF Both
  <2>3. q \in Seq(E) /\ Len(q) = Len(Got) + 1
        /\ (\A i \in 1..Len(Got) : q[i] = Got[i]) /\ q[Len(Got) + 1] = "disconnected"
    BY <2>1, AppendProperties
  <2> HIDE DEF E, q
  <2>4. Len(q) = Len(Both) /\ \A i \in 1..Len(q) : q[i] = Both[i]
    BY <2>1, <2>2, <2>3
  <2>5. q = Both
    BY <2>2, <2>3, <2>4, SeqEqual
  <2> QED
    BY <2>5 DEF q
<1>4. Head(Got) = "got_ip" /\ Tail(Got) = <<>>
    BY DEF Got
<1>5. Head(Lost) = "disconnected" /\ Tail(Lost) = <<>>
    BY DEF Lost
<1>6. Head(Both) = "got_ip" /\ Tail(Both) = Lost
    BY DEF Both, Lost
<1>7. Got # <<>> /\ Lost # <<>> /\ Both # <<>>
    BY DEF Got, Lost, Both
<1> QED
    BY <1>1, <1>2, <1>3, <1>4, <1>5, <1>6, <1>7

LEMMA WifiInit == Init => WifiInv
<1> SUFFICES ASSUME Init PROVE WifiInv
    OBVIOUS
<1>1. station = "off" /\ events = <<>> /\ connected = FALSE /\ setup_ap = FALSE
      /\ supervisor = "none" /\ step = "load"
    BY DEF Init
<1>2. EventInv
    BY <1>1 DEF EventInv
<1>3. PhaseInv
    BY <1>1 DEF PhaseInv
<1> QED
    BY <1>2, <1>3 DEF WifiInv

\* What is left alone by the steps that only touch keys, the radio or the air.
LEMMA WifiKept ==
    ASSUME WifiInv, UNCHANGED wifiVars, step' = step
    PROVE  WifiInv'
<1>1. supervisor' = supervisor /\ setup_ap' = setup_ap /\ station' = station
      /\ events' = events /\ connected' = connected
    BY DEF wifiVars
<1>2. EventInv'
    BY <1>1 DEF WifiInv, EventInv
<1>3. PhaseInv'
    BY <1>1 DEF WifiInv, PhaseInv
<1> QED
    BY <1>2, <1>3 DEF WifiInv

LEMMA WifiRestarts == Restarted => WifiInv'
<1> SUFFICES ASSUME Restarted PROVE WifiInv'
    OBVIOUS
<1>1. station' = "off" /\ events' = <<>> /\ connected' = FALSE /\ setup_ap' = FALSE
      /\ supervisor' = "none" /\ step' = "load"
    BY DEF Restarted
<1>2. EventInv'
    BY <1>1 DEF EventInv
<1>3. PhaseInv'
    BY <1>1 DEF PhaseInv
<1> QED
    BY <1>2, <1>3 DEF WifiInv

\* app_main() before and at the start of the Wi-Fi manager.
LEMMA WifiBoots ==
    ASSUME ConfigInv, WifiInv, LoadConfig \/ CommitMigration \/ StartWifi
    PROVE  WifiInv'
<1>1. CASE LoadConfig \/ CommitMigration
  <2>1. step # "up" /\ step' \in {"migrate", "start"}
    BY <1>1 DEF LoadConfig, CommitMigration, ConfigInv, MigrationInv
  <2>2. supervisor' = supervisor /\ setup_ap' = setup_ap /\ station' = station
        /\ events' = events /\ connected' = connected
    BY <1>1 DEF LoadConfig, CommitMigration, wifiVars
  <2>3. EventInv'
    BY <2>2 DEF WifiInv, EventInv
  <2>4. PhaseInv'
    BY <2>1, <2>2 DEF WifiInv, PhaseInv
  <2> QED
    BY <2>3, <2>4 DEF WifiInv
<1>2. CASE StartWifi
  <2>1. step = "start" /\ step' = "up" /\ supervisor' = "decide"
        /\ station' \in {"connecting", "off"} /\ setup_ap' = setup_ap
        /\ events' = events /\ connected' = connected
    BY <1>2 DEF StartWifi
  <2>2. supervisor = "none" /\ station = "off" /\ events = <<>> /\ ~setup_ap
    BY <2>1 DEF WifiInv, PhaseInv
  <2>3. ~connected
    BY <2>2, EventQueues DEF WifiInv, EventInv
  <2>4. EventInv'
    BY <2>1, <2>2, <2>3 DEF EventInv
  <2>5. PhaseInv'
    BY <2>1, <2>2 DEF WifiInv, PhaseInv
  <2> QED
    BY <2>4, <2>5 DEF WifiInv
<1> QED
    BY <1>1, <1>2

\* The station and the event task.
LEMMA WifiEvents ==
    ASSUME WifiInv, Join \/ Disconnect \/ HandleEvent
    PROVE  WifiInv'
<1>1. supervisor' = supervisor /\ setup_ap' = setup_ap /\ step' = step
    BY DEF Join, Disconnect, HandleEvent, HandleGotIp, HandleDisconnected
<1>2. CASE Join
  <2>1. station = "connecting" /\ station' = "up" /\ events' = Append(events, "got_ip")
        /\ connected' = connected
    BY <1>2 DEF Join
  <2>2. events = <<>> /\ ~connected
    BY <2>1 DEF WifiInv, EventInv
  <2>3. events' = Got
    BY <2>1, <2>2, EventQueues
  <2>4. EventInv'
    BY <2>1, <2>2, <2>3 DEF EventInv
  <2>5. PhaseInv'
    BY <1>1, <2>1 DEF WifiInv, PhaseInv
  <2> QED
    BY <2>4, <2>5 DEF WifiInv
<1>3. CASE Disconnect
  <2>1. station \in {"connecting", "up"} /\ station' = "dropped"
        /\ events' = Append(events, "disconnected") /\ connected' = connected
    BY <1>3 DEF Disconnect
  <2>2. events = <<>> \/ (events = Got /\ ~connected)
    BY <2>1 DEF WifiInv, EventInv
  <2>3. events' = Lost \/ (events' = Both /\ ~connected')
    BY <2>1, <2>2, EventQueues
  <2>4. EventInv'
    BY <2>1, <2>3 DEF EventInv
  <2>5. PhaseInv'
    BY <1>1, <2>1 DEF WifiInv, PhaseInv
  <2> QED
    BY <2>4, <2>5 DEF WifiInv
<1>4. CASE HandleGotIp
  <2>1. events # <<>> /\ Head(events) = "got_ip" /\ events' = Tail(events)
        /\ connected' = TRUE /\ station' = station
    BY <1>4 DEF HandleGotIp
  <2>2. \/ station = "up" /\ events = Got
        \/ station \in {"dropped", "off"} /\ events = Both
    BY <2>1, EventQueues DEF WifiInv, EventInv
  <2>3. \/ station' = "up" /\ events' = <<>>
        \/ station' \in {"dropped", "off"} /\ events' = Lost
    BY <2>1, <2>2, EventQueues
  <2>4. EventInv'
    BY <2>1, <2>3 DEF EventInv
  <2>5. step = "up"
    BY <2>1 DEF WifiInv, PhaseInv
  <2>6. PhaseInv'
    BY <1>1, <2>1, <2>5 DEF WifiInv, PhaseInv
  <2> QED
    BY <2>4, <2>6 DEF WifiInv
<1>5. CASE HandleDisconnected
  <2>1. events # <<>> /\ Head(events) = "disconnected" /\ events' = Tail(events)
        /\ connected' = FALSE /\ station' = IF setup_ap THEN station ELSE "connecting"
    BY <1>5 DEF HandleDisconnected
  <2>2. station \in {"dropped", "off"} /\ events = Lost
    BY <2>1, EventQueues DEF WifiInv, EventInv
  <2>3. events' = <<>>
    BY <2>1, <2>2, EventQueues
  <2>4. EventInv'
    BY <1>1, <2>1, <2>2, <2>3 DEF EventInv
  <2>5. step = "up"
    BY <2>1 DEF WifiInv, PhaseInv
  <2>6. PhaseInv'
    BY <1>1, <2>1, <2>5 DEF WifiInv, PhaseInv
  <2> QED
    BY <2>4, <2>6 DEF WifiInv
<1> QED
    BY <1>2, <1>3, <1>4, <1>5 DEF HandleEvent

LEMMA WifiSupervised == WifiInv /\ Supervise => WifiInv'
<1> SUFFICES ASSUME WifiInv, Supervise PROVE WifiInv'
    OBVIOUS
<1>1. CASE SupervisorWaits \/ SupervisorConnected \/ BeginSetup \/ PauseRadio
  <2>1. /\ station' = station /\ events' = events /\ connected' = connected /\ step' = step
        /\ \/ supervisor = "decide" /\ supervisor' = "wait" /\ setup_ap' = setup_ap
           \/ supervisor = "wait" /\ supervisor' = "done" /\ setup_ap' = setup_ap
           \/ supervisor \in {"decide", "wait"} /\ supervisor' = "pause" /\ setup_ap' = TRUE
           \/ supervisor = "pause" /\ supervisor' = "open" /\ setup_ap' = setup_ap
    BY <1>1 DEF SupervisorWaits, SupervisorConnected, BeginSetup, PauseRadio
  <2>2. setup_ap => setup_ap'
    BY <2>1
  <2>3. EventInv'
    BY <2>1, <2>2 DEF WifiInv, EventInv
  <2>4. step = "up"
    BY <2>1 DEF WifiInv, PhaseInv
  <2>5. PhaseInv'
    <3>1. connected \in BOOLEAN /\ setup_ap \in BOOLEAN /\ (supervisor = "wait" => ~setup_ap)
          /\ (supervisor = "decide" => ~setup_ap) /\ (supervisor = "pause" => setup_ap)
      BY DEF WifiInv, PhaseInv
    <3>2. connected' \in BOOLEAN /\ setup_ap' \in BOOLEAN /\ step' = "up"
      BY <2>1, <2>4, <3>1
    <3>3. \/ supervisor' \in {"wait", "done"} /\ ~setup_ap'
          \/ supervisor' \in {"pause", "open"} /\ setup_ap'
      BY <2>1, <3>1
    <3> QED
      BY <3>2, <3>3 DEF PhaseInv
  <2> QED
    BY <2>3, <2>5 DEF WifiInv
<1>2. CASE OpenAp
  <2>1. /\ supervisor = "open" /\ supervisor' = "done" /\ setup_ap' = setup_ap
        /\ station' = "off" /\ connected' = connected /\ step' = step
        /\ events' = IF station = "up" THEN Append(events, "disconnected") ELSE events
    BY <1>2 DEF OpenAp
  <2>2. \/ events' = <<>> /\ ~connected
        \/ events' = Lost
        \/ events' = Both /\ ~connected
    BY <2>1, EventQueues DEF WifiInv, EventInv
  <2>3. EventInv'
    BY <2>1, <2>2 DEF EventInv
  <2>4. step = "up"
    BY <2>1 DEF WifiInv, PhaseInv
  <2>5. PhaseInv'
    BY <2>1, <2>4 DEF WifiInv, PhaseInv
  <2> QED
    BY <2>3, <2>5 DEF WifiInv
<1> QED
    BY <1>1, <1>2 DEF Supervise

LEMMA WifiStep == ConfigInv /\ WifiInv /\ [Next]_vars => WifiInv'
<1> SUFFICES ASSUME ConfigInv, WifiInv, [Next]_vars PROVE WifiInv'
    OBVIOUS
<1>1. CASE LoadConfig \/ CommitMigration \/ StartWifi
    BY <1>1, WifiBoots
<1>2. CASE MigrationFails \/ StartWifiAborts \/ RebootTask \/ PowerLoss
    BY <1>2, WifiRestarts DEF MigrationFails, StartWifiAborts, RebootTask, PowerLoss
<1>3. CASE Join \/ Disconnect \/ HandleEvent
    BY <1>3, WifiEvents
<1>4. CASE Supervise
    BY <1>4, WifiSupervised
<1>5. CASE EraseFlash \/ WriteKey \/ (\E c \in Inputs : BeginSave(c)) \/ SaveFails
           \/ CommitSave \/ ReceiverReboot \/ AirChanges \/ UNCHANGED vars
  <2>1. wifiVars' = wifiVars /\ step' = step
    BY <1>5 DEF EraseFlash, WriteKey, BeginSave, SaveFails, CommitSave, ReceiverReboot,
                AirChanges, vars
  <2> QED
    BY <2>1, WifiKept
<1> QED
    BY <1>1, <1>2, <1>3, <1>4, <1>5 DEF Next, Boot

LEMMA InvHolds == Spec => [](ConfigInv /\ WifiInv)
<1>1. Init => ConfigInv /\ WifiInv
    BY ConfigInit, WifiInit
<1>2. ConfigInv /\ WifiInv /\ [Next]_vars => (ConfigInv /\ WifiInv)'
    BY ConfigStep, WifiStep
<1> QED
    BY <1>1, <1>2, PTL DEF Spec

-----------------------------------------------------------------------------
(* The theorems *)

\* The variables keep their types, and at most two events wait for the event task.
THEOREM SetupTypes == Spec => []TypeOK
<1>1. ConfigInv /\ WifiInv => TypeOK
  <2> SUFFICES ASSUME ConfigInv, WifiInv PROVE TypeOK
    OBVIOUS
  <2> DEFINE E == {"got_ip", "disconnected"}
  <2>1. <<>> \in Seq(E) /\ Len(<<>>) <= 2
    OBVIOUS
  <2>2. Got \in Seq(E) /\ Len(Got) <= 2
    BY DEF Got
  <2>3. Lost \in Seq(E) /\ Len(Lost) <= 2
    BY DEF Lost
  <2>4. Both \in Seq(E) /\ Len(Both) <= 2
    BY DEF Both
  <2>5. events \in {<<>>, Got, Lost, Both}
    BY DEF WifiInv, EventInv
  <2>6. events \in Seq(E) /\ Len(events) <= 2
    BY <2>1, <2>2, <2>3, <2>4, <2>5
  <2>7. station \in {"off", "connecting", "up", "dropped"}
    BY DEF WifiInv, EventInv
  <2> QED
    BY <2>6, <2>7 DEF TypeOK, ConfigInv, DataInv, StepInv, WifiInv, PhaseInv
<1> QED
    BY InvHolds, <1>1, PTL

\* The configuration that was delivered or that the portal answered to be saved is the one
\* in use, whatever boots, migrations and power losses lie between.
THEOREM SavedConfigIsUsed == Spec => []PromisedIsLoaded
<1>1. ConfigInv => PromisedIsLoaded
    BY DEF ConfigInv, PromiseInv, PromisedIsLoaded
<1> QED
    BY InvHolds, <1>1, PTL

\* Once start_setup_ap() has returned, the station is off and the bit is cleared as soon
\* as the events before that are handled, however they raced with it.
THEOREM SetupApIsAlone == Spec => []ApExcludesStation
<1>1. WifiInv => ApExcludesStation
  <2> SUFFICES ASSUME WifiInv, ApOpen PROVE station = "off" /\ (events = <<>> => ~connected)
    BY DEF ApExcludesStation
  <2>1. station = "off"
    BY DEF ApOpen, WifiInv, PhaseInv
  <2>2. ASSUME events = <<>> PROVE ~connected
    BY <2>1, <2>2, EventQueues DEF WifiInv, EventInv
  <2> QED
    BY <2>1, <2>2
<1> QED
    BY InvHolds, <1>1, PTL
=============================================================================
