------------------------- MODULE CommandLinkProofs --------------------------
(***************************************************************************)
(* Safety of the management-command path for every number of callers,      *)
(* request-ID width, cache size, attempt limit and bound on restarts.      *)
(***************************************************************************)
EXTENDS CommandLink, TLAPS

USE CallersAssumption, IdModAssumption, CacheSizeAssumption,
    MaxAttemptsAssumption, BoundsAssumption

\* A counter incremented modulo m stays below m.
LEMMA IncrementInRange ==
    ASSUME NEW m \in Nat, m >= 1, NEW i \in 0..(m - 1)
    PROVE  Increment(i, m) \in 0..(m - 1)
  BY DEF Increment

-----------------------------------------------------------------------------
(* Types *)

LEMMA InitialValues ==
    /\ NullFrame \in Frames
    /\ Garbled \in Frames
    /\ NoCommand \in Commands
    /\ EmptyCache \in [0..(CacheSize - 1) -> Entries]
    /\ 0 \in 0..(CacheSize - 1)
    /\ 1 \in Ids
    /\ <<>> \in Seq(Nat)
  <1>1. 0 \in Ids /\ 1 \in Ids
    BY DEF Ids
  <1>2. NullFrame \in Frames /\ Garbled \in Frames
    BY <1>1 DEF NullFrame, Garbled, Frames
  <1>3. NoCommand \in Commands
    BY <1>1 DEF NoCommand, Commands
  <1>4. EmptyCache \in [0..(CacheSize - 1) -> Entries]
    BY <1>1 DEF EmptyCache, Entries
  <1> QED BY <1>1, <1>2, <1>3, <1>4

LEMMA TypeInit == Init => TypeOK
  <1> SUFFICES ASSUME Init PROVE TypeOK
    OBVIOUS
  <1>1. espRestarts \in 0..MaxEspRestarts /\ nrfRestarts \in 0..MaxNrfRestarts
    BY DEF Init
  <1>2. pc \in [Callers -> PcValues]
    BY DEF Init, PcValues
  <1> QED BY <1>1, <1>2, InitialValues DEF Init, TypeOK

LEMMA TypeCaller ==
    ASSUME TypeOK, NEW c \in Callers, CallerStep(c)
    PROVE  TypeOK'
  <1> USE DEF TypeOK, PcValues, Holding, Commands, espVars, callVars, taskVars,
              nrfVars, restartVars
  <1>1. CASE Call(c)           BY <1>1 DEF Call
  <1>2. CASE AcquireMutex(c)   BY <1>2 DEF AcquireMutex
  <1>3. CASE AcquireTimeout(c) BY <1>3 DEF AcquireTimeout
  <1>4. CASE DrainDone(c)      BY <1>4 DEF DrainDone
  <1>5. CASE ArmCommand(c)
    <2>1. next_request_id' \in Ids
      BY <1>5, IncrementInRange DEF ArmCommand, Ids
    <2> QED BY <1>5, <2>1 DEF ArmCommand
  <1>6. CASE WakeUp(c)         BY <1>6 DEF WakeUp
  <1>7. CASE Collect(c)        BY <1>7 DEF Collect
  <1>8. CASE WaitTimeout(c)    BY <1>8 DEF WaitTimeout
  <1>9. CASE Abandon(c)        BY <1>9 DEF Abandon
  <1> QED BY <1>1, <1>2, <1>3, <1>4, <1>5, <1>6, <1>7, <1>8, <1>9 DEF CallerStep

LEMMA TypeBridgeTask ==
    ASSUME TypeOK, BridgeTaskStep
    PROVE  TypeOK'
  <1> USE DEF TypeOK, espVars, callVars, taskVars, nrfVars, restartVars
  <1>1. CASE SendCommand
    <2>a. command.attempts + 1 \in 0..MaxAttempts
      BY <1>1 DEF SendCommand, Commands
    <2>b. command' = [command EXCEPT !.attempts = command.attempts + 1]
      BY <1>1 DEF SendCommand
    <2>1. command' \in Commands
      BY <2>a, <2>b DEF Commands
    <2>2. espFrame' \in Frames
      BY <1>1 DEF SendCommand, CommandFrame, Frames, Commands
    <2> QED BY <1>1, <2>1, <2>2 DEF SendCommand
  <1>2. CASE SendNothing     BY <1>2, InitialValues DEF SendNothing
  <1>3. CASE Transfer        BY <1>3, InitialValues DEF Transfer
  <1>4. CASE TransferUnarmed BY <1>4, InitialValues DEF TransferUnarmed
  <1>5. CASE AcceptResponse
    <2>1. command' \in Commands
      BY <1>5 DEF AcceptResponse, Commands, Frames
    <2> QED BY <1>5, <2>1 DEF AcceptResponse
  <1>6. CASE IgnoreFrame     BY <1>6 DEF IgnoreFrame
  <1> QED BY <1>1, <1>2, <1>3, <1>4, <1>5, <1>6 DEF BridgeTaskStep

LEMMA TypeSpiThread ==
    ASSUME TypeOK, SpiThreadStep
    PROVE  TypeOK'
  <1> USE DEF TypeOK, Frames, espVars, callVars, taskVars, restartVars
  <1>1. CASE PrepareTx      BY <1>1, InitialValues DEF PrepareTx
  <1>2. CASE Arm            BY <1>2 DEF Arm
  <1>3. CASE ArmFails       BY <1>3 DEF ArmFails
  <1>4. CASE ReplayCached
    <2>1. PICK k \in DOMAIN cache : pending' = ResponseFrame(nrfFrame.id, cache[k].issue)
      BY <1>4 DEF ReplayCached, ReplaySlots
    <2>2. cache[k] \in Entries
      BY <2>1
    <2> QED BY <1>4, <2>1, <2>2 DEF ReplayCached, ResponseFrame, Entries
  <1>5. CASE Execute
    <2>1. cursor' \in 0..(CacheSize - 1)
      BY <1>5, IncrementInRange DEF Execute
    <2>2. cache' \in [0..(CacheSize - 1) -> Entries]
      BY <1>5 DEF Execute, Entries
    <2>3. pending' \in Frames
      BY <1>5 DEF Execute, ResponseFrame
    <2>4. nrfFrame.issue \in Nat
      BY <1>5
    <2>5. log' \in Seq(Nat)
      BY <1>5, <2>4 DEF Execute
    <2>6. served' \in SUBSET Nat
      BY <1>5, <2>4 DEF Execute
    <2> QED BY <1>5, <2>1, <2>2, <2>3, <2>5, <2>6 DEF Execute
  <1>6. CASE ProcessNothing BY <1>6 DEF ProcessNothing
  <1> QED BY <1>1, <1>2, <1>3, <1>4, <1>5, <1>6 DEF SpiThreadStep

LEMMA TypeRestart ==
    ASSUME TypeOK, EspRestart \/ NrfRestart
    PROVE  TypeOK'
  <1> USE InitialValues DEF TypeOK, espVars, callVars, taskVars, nrfVars
  <1>1. CASE EspRestart
    <2>1. pc' \in [Callers -> PcValues]
      BY <1>1 DEF EspRestart, PcValues
    <2>2. espRestarts' \in 0..MaxEspRestarts
      BY <1>1 DEF EspRestart
    <2>3. own' \in [Callers -> Nat] /\ result' \in [Callers -> Nat]
      BY <1>1 DEF EspRestart
    <2> QED BY <1>1, <2>1, <2>2, <2>3 DEF EspRestart
  <1>2. CASE NrfRestart BY <1>2 DEF NrfRestart
  <1> QED BY <1>1, <1>2

LEMMA TypeStep == TypeOK /\ [Next]_vars => TypeOK'
  <1> SUFFICES ASSUME TypeOK, [Next]_vars PROVE TypeOK'
    OBVIOUS
  <1>1. CASE UNCHANGED vars
    BY <1>1 DEF TypeOK, vars, espVars, callVars, taskVars, nrfVars, restartVars
  <1>2. CASE Next
    BY <1>2, TypeCaller, TypeBridgeTask, TypeSpiThread, TypeRestart DEF Next
  <1> QED BY <1>1, <1>2

\* Every variable of the command path keeps its type.
THEOREM TypeCorrect == Spec => []TypeOK
  BY TypeInit, TypeStep, PTL DEF Spec
-----------------------------------------------------------------------------
(* The lock and the semaphore.  Why a stale completion never wakes a caller: *)
(* it is drained before the command is armed, and none can arrive in between *)
(* because the command is not active then.                                  *)

\* Requests are numbered from 1.
Numbered(f) == f.kind \in {"command", "response"} => f.issue # 0

NumberedInv ==
    /\ Numbered(espFrame) /\ Numbered(nrfFrame) /\ Numbered(pending)
    /\ \A k \in DOMAIN cache : cache[k].valid => cache[k].issue # 0
    /\ command.active => command.issue # 0

LockInv ==
    /\ \A c \in Callers : pc[c] \in Holding <=> command_mutex = c
    /\ command_mutex = NoCaller => ~command.active
    /\ \A c \in Callers :
          /\ pc[c] \in {"drain", "arm", "collect"} => ~command.active
          /\ pc[c] = "arm" => ~command_done
          /\ pc[c] \in {"wait", "collect", "abandon"} => command.issue = own[c]
          /\ pc[c] = "wait" => command_done = ~command.active
          /\ pc[c] = "wait" /\ command_done => command.response # 0
          /\ pc[c] = "collect" => command.response # 0

LEMMA LockInit == Init => NumberedInv /\ LockInv
  BY DEF Init, NumberedInv, Numbered, LockInv, Holding, NullFrame, NoCommand, EmptyCache

LEMMA LockCaller ==
    ASSUME TypeOK, NumberedInv, LockInv, NEW c \in Callers, CallerStep(c)
    PROVE  NumberedInv' /\ LockInv'
  <1> USE DEF TypeOK, NumberedInv, Numbered, LockInv, Holding, PcValues, Commands,
              espVars, callVars, taskVars, nrfVars, restartVars
  <1>1. CASE Call(c)           BY <1>1 DEF Call
  <1>2. CASE AcquireMutex(c)   BY <1>2 DEF AcquireMutex
  <1>3. CASE AcquireTimeout(c) BY <1>3 DEF AcquireTimeout
  <1>4. CASE DrainDone(c)      BY <1>4 DEF DrainDone
  <1>5. CASE ArmCommand(c)     BY <1>5 DEF ArmCommand
  <1>6. CASE WakeUp(c)         BY <1>6 DEF WakeUp
  <1>7. CASE Collect(c)        BY <1>7 DEF Collect
  <1>8. CASE WaitTimeout(c)    BY <1>8 DEF WaitTimeout
  <1>9. CASE Abandon(c)        BY <1>9 DEF Abandon
  <1> QED BY <1>1, <1>2, <1>3, <1>4, <1>5, <1>6, <1>7, <1>8, <1>9 DEF CallerStep

LEMMA LockBridgeTask ==
    ASSUME TypeOK, NumberedInv, LockInv, BridgeTaskStep
    PROVE  NumberedInv' /\ LockInv'
  <1> USE DEF TypeOK, NumberedInv, Numbered, LockInv, Holding, PcValues, Commands,
              Frames, espVars, callVars, taskVars, nrfVars, restartVars
  <1>1. CASE SendCommand     BY <1>1 DEF SendCommand, CommandFrame
  <1>2. CASE SendNothing     BY <1>2 DEF SendNothing, NullFrame
  <1>3. CASE Transfer        BY <1>3 DEF Transfer, Garbled
  <1>4. CASE TransferUnarmed BY <1>4 DEF TransferUnarmed, Garbled
  <1>5. CASE AcceptResponse  BY <1>5 DEF AcceptResponse, AnswersCommand
  <1>6. CASE IgnoreFrame     BY <1>6 DEF IgnoreFrame
  <1> QED BY <1>1, <1>2, <1>3, <1>4, <1>5, <1>6 DEF BridgeTaskStep

LEMMA LockSpiThread ==
    ASSUME TypeOK, NumberedInv, LockInv, SpiThreadStep
    PROVE  NumberedInv' /\ LockInv'
  <1> USE DEF TypeOK, Frames, espVars, callVars, taskVars, restartVars
  <1>1. LockInv'
    BY DEF LockInv, SpiThreadStep, PrepareTx, Arm, ArmFails, ReplayCached, Execute,
           ProcessNothing
  <1>2. NumberedInv'
    <2> USE DEF NumberedInv, Numbered
    <2>1. CASE PrepareTx BY <2>1 DEF PrepareTx, NullFrame
    <2>2. CASE Arm \/ ArmFails \/ ProcessNothing BY <2>2 DEF Arm, ArmFails, ProcessNothing
    <2>3. CASE ReplayCached BY <2>3 DEF ReplayCached, ReplaySlots, ResponseFrame
    <2>4. CASE Execute BY <2>4 DEF Execute, ResponseFrame
    <2> QED BY <2>1, <2>2, <2>3, <2>4 DEF SpiThreadStep
  <1> QED BY <1>1, <1>2

LEMMA LockStep == TypeOK /\ NumberedInv /\ LockInv /\ [Next]_vars => NumberedInv' /\ LockInv'
  <1> SUFFICES ASSUME TypeOK, NumberedInv, LockInv, [Next]_vars
               PROVE  NumberedInv' /\ LockInv'
    OBVIOUS
  <1>1. CASE EspRestart
    BY <1>1 DEF EspRestart, NumberedInv, Numbered, LockInv, Holding, NullFrame, NoCommand,
                nrfVars
  <1>2. CASE NrfRestart
    BY <1>2 DEF NrfRestart, NumberedInv, Numbered, LockInv, NullFrame, EmptyCache,
                callVars, espVars, taskVars
  <1>3. CASE UNCHANGED vars
    BY <1>3 DEF NumberedInv, LockInv, vars, espVars, callVars, taskVars, nrfVars
  <1> QED BY <1>1, <1>2, <1>3, LockCaller, LockBridgeTask, LockSpiThread DEF Next

LEMMA LockAlways == Spec => [](TypeOK /\ NumberedInv /\ LockInv)
  BY TypeInit, TypeStep, LockInit, LockStep, PTL DEF Spec

\* No caller is ever woken without the answer of the command it armed.
THEOREM NeverWokenForNothing == Spec => []WokenWithAnswer
  <1>1. LockInv => WokenWithAnswer
    BY DEF LockInv, WokenWithAnswer
  <1> QED BY <1>1, LockAlways, PTL

-----------------------------------------------------------------------------
(* The order of executions.  A request travels from the command slot over the *)
(* ESP32's loaded frame to the frame the nRF received; a request further along *)
(* is never newer, and one that was already executed is still in the cache.  *)

LogUpTo(n) == \A i \in DOMAIN log : log[i] <= n

\* The cache knows issue n, if at all, under the ID rid.
CachedUnder(rid, n) ==
    \A k \in DOMAIN cache : cache[k].valid /\ cache[k].issue = n => cache[k].id = rid

\* The request (rid, n) may still be executed.
Executable(rid, n) == n <= issued /\ LogUpTo(n) /\ CachedUnder(rid, n)

\* The request (rid, n) is not newer than the active command.
NotNewer(rid, n) ==
    command.active =>
        n <= command.issue /\ (n = command.issue => rid = command.id)

EspSends == espTask = "loaded" /\ espFrame.kind = "command"
NrfReceives == nrfTask = "received" /\ nrfFrame.kind = "command"

OrderInv ==
    /\ ExecutedInOrder
    /\ LogUpTo(issued)
    /\ \A k \in DOMAIN cache : cache[k].valid => cache[k].issue <= issued
    /\ command.active => Executable(command.id, command.issue)
    /\ EspSends => Executable(espFrame.id, espFrame.issue)
    /\ EspSends => NotNewer(espFrame.id, espFrame.issue)
    /\ espTask = "loaded" => nrfTask # "received"
    /\ NrfReceives => Executable(nrfFrame.id, nrfFrame.issue)
    /\ NrfReceives => NotNewer(nrfFrame.id, nrfFrame.issue)
    /\ log # <<>> =>
          \E k \in DOMAIN cache : cache[k].valid /\ cache[k].issue = log[Len(log)]

LEMMA OrderInit == Init => OrderInv
  BY DEF Init, OrderInv, ExecutedInOrder, LogUpTo, EspSends, NrfReceives, EmptyCache,
         NoCommand, NullFrame

LEMMA OrderCaller ==
    ASSUME TypeOK, OrderInv, NEW c \in Callers, CallerStep(c)
    PROVE  OrderInv'
  <1> USE DEF TypeOK, OrderInv, ExecutedInOrder, LogUpTo, CachedUnder, Executable, NotNewer,
              EspSends, NrfReceives, espVars, callVars, taskVars, nrfVars, restartVars
  <1>1. CASE UNCHANGED <<issued, command, taskVars, nrfVars>>
    BY <1>1
  <1>2. CASE ArmCommand(c)
    <2>1. /\ issued' = issued + 1
          /\ command'.active /\ command'.issue = issued + 1
          /\ UNCHANGED <<espTask, espFrame, nrfTask, nrfFrame, log, cache>>
      BY <1>2 DEF ArmCommand
    <2>2. Executable(command.id, command.issue)'
      <3>1. \A k \in DOMAIN cache : cache[k] \in Entries
        OBVIOUS
      <3>2. \A i \in DOMAIN log : log[i] \in Nat
        OBVIOUS
      <3> QED BY <2>1, <3>1, <3>2 DEF Entries
    <2>3. EspSends' => Executable(espFrame.id, espFrame.issue)' /\ NotNewer(espFrame.id, espFrame.issue)'
      BY <2>1 DEF Frames
    <2>4. NrfReceives' => Executable(nrfFrame.id, nrfFrame.issue)' /\ NotNewer(nrfFrame.id, nrfFrame.issue)'
      BY <2>1 DEF Frames
    <2>5. LogUpTo(issued)' /\ (\A k \in DOMAIN cache : cache[k].valid => cache[k].issue <= issued)'
      <3>1. \A k \in DOMAIN cache : cache[k] \in Entries
        OBVIOUS
      <3>2. \A i \in DOMAIN log : log[i] \in Nat
        OBVIOUS
      <3> QED BY <2>1, <3>1, <3>2 DEF Entries
    <2> QED BY <2>1, <2>2, <2>3, <2>4, <2>5
  <1>3. CASE Abandon(c)
    BY <1>3 DEF Abandon, Commands
  <1> QED BY <1>1, <1>2, <1>3 DEF CallerStep, Call, AcquireMutex, AcquireTimeout, DrainDone,
          WakeUp, Collect, WaitTimeout

LEMMA OrderBridgeTask ==
    ASSUME TypeOK, OrderInv, BridgeTaskStep
    PROVE  OrderInv'
  <1> USE DEF TypeOK, OrderInv, ExecutedInOrder, LogUpTo, CachedUnder, Executable, NotNewer,
              EspSends, NrfReceives, espVars, callVars, taskVars, nrfVars, restartVars, Ready
  <1>1. CASE SendCommand
    BY <1>1 DEF SendCommand, CommandFrame, Commands
  <1>2. CASE SendNothing
    BY <1>2 DEF SendNothing, NullFrame
  <1>3. CASE Transfer
    BY <1>3 DEF Transfer, Garbled
  <1>4. CASE TransferUnarmed
    BY <1>4 DEF TransferUnarmed
  <1>5. CASE AcceptResponse
    BY <1>5 DEF AcceptResponse, AnswersCommand, Commands
  <1>6. CASE IgnoreFrame
    BY <1>6 DEF IgnoreFrame
  <1> QED BY <1>1, <1>2, <1>3, <1>4, <1>5, <1>6 DEF BridgeTaskStep

\* The step that matters: a request the nRF finds in no cache entry is newer than
\* every request it executed, since the latest of those is cached under its own ID.
LEMMA OrderExecute ==
    ASSUME TypeOK, OrderInv, Execute
    PROVE  OrderInv'
  <1> DEFINE n == nrfFrame.issue
             rid == nrfFrame.id
  <1>1. n \in Nat /\ log \in Seq(Nat) /\ cursor \in DOMAIN cache
        /\ DOMAIN cache' = DOMAIN cache /\ NrfReceives
    BY DEF TypeOK, Frames, Execute, NrfReceives
  <1>2. Executable(rid, n) /\ NotNewer(rid, n) /\ espTask # "loaded"
    BY <1>1 DEF OrderInv, Execute
  <1>3. \A i \in DOMAIN log : log[i] < n
    <2> SUFFICES ASSUME NEW i \in DOMAIN log PROVE log[i] < n
      OBVIOUS
    <2>1. log # <<>> /\ i \in 1..Len(log) /\ Len(log) \in DOMAIN log
      BY <1>1
    <2>2. PICK k \in DOMAIN cache : cache[k].valid /\ cache[k].issue = log[Len(log)]
      BY <2>1 DEF OrderInv
    <2>3. log[Len(log)] # n
      BY <1>2, <2>2 DEF Execute, ReplaySlots, Executable, CachedUnder
    <2>4. log[Len(log)] <= n
      BY <1>2, <2>1 DEF Executable, LogUpTo
    <2>5. i = Len(log) \/ log[i] < log[Len(log)]
      BY <2>1 DEF OrderInv, ExecutedInOrder
    <2>6. log[i] \in Nat /\ log[Len(log)] \in Nat
      BY <1>1, <2>1
    <2> QED BY <1>1, <2>3, <2>4, <2>5, <2>6
  <1>4. /\ DOMAIN log' = 1..(Len(log) + 1) /\ Len(log') = Len(log) + 1
        /\ log'[Len(log) + 1] = n
        /\ \A i \in DOMAIN log : log'[i] = log[i]
        /\ DOMAIN log = 1..Len(log) /\ Len(log) \in Nat
    BY <1>1 DEF Execute
  <1>5. ExecutedInOrder'
    BY <1>3, <1>4 DEF OrderInv, ExecutedInOrder
  <1>6. ASSUME NEW m \in Nat, LogUpTo(m), n <= m
        PROVE  LogUpTo(m)'
    BY <1>4, <1>6 DEF LogUpTo
  <1>7. LogUpTo(issued)'
    BY <1>2, <1>6 DEF OrderInv, Executable, Execute, TypeOK
  <1>8. \A k \in DOMAIN cache : cache'[k] =
            IF k = cursor THEN [valid |-> TRUE, id |-> rid, issue |-> n] ELSE cache[k]
    BY <1>1 DEF Execute, TypeOK
  <1>9. (\A k \in DOMAIN cache : cache[k].valid => cache[k].issue <= issued)'
    BY <1>1, <1>2, <1>8 DEF OrderInv, Executable, Execute
  <1>10. (log # <<>> =>
          \E k \in DOMAIN cache : cache[k].valid /\ cache[k].issue = log[Len(log)])'
    BY <1>1, <1>4, <1>8
  <1>11. (command.active => Executable(command.id, command.issue))'
    <2> SUFFICES ASSUME command.active
                 PROVE  Executable(command.id, command.issue)'
      BY DEF Execute, espVars
    <2>1. command.issue \in Nat /\ n <= command.issue /\ (n = command.issue => rid = command.id)
      BY <1>2 DEF NotNewer, TypeOK, Commands
    <2>2. Executable(command.id, command.issue)
      BY DEF OrderInv
    <2>3. LogUpTo(command.issue)'
      BY <1>6, <2>1, <2>2 DEF Executable, Execute, espVars
    <2>4. CachedUnder(command.id, command.issue)'
      BY <1>1, <1>8, <2>1, <2>2 DEF Executable, CachedUnder, Execute, espVars
    <2> QED BY <2>2, <2>3, <2>4 DEF Executable, Execute, espVars
  <1> QED
    BY <1>2, <1>5, <1>7, <1>9, <1>10, <1>11
    DEF OrderInv, EspSends, NrfReceives, Execute, taskVars

LEMMA OrderSpiThread ==
    ASSUME TypeOK, OrderInv, SpiThreadStep
    PROVE  OrderInv'
  <1>1. CASE Execute
    BY <1>1, OrderExecute
  <1>2. CASE PrepareTx \/ Arm \/ ArmFails \/ ReplayCached \/ ProcessNothing
    BY <1>2
    DEF PrepareTx, Arm, ArmFails, ReplayCached, ProcessNothing, OrderInv, ExecutedInOrder,
        LogUpTo, CachedUnder, Executable, NotNewer, EspSends, NrfReceives, espVars, taskVars
  <1> QED BY <1>1, <1>2 DEF SpiThreadStep

LEMMA OrderStep == TypeOK /\ OrderInv /\ [Next]_vars => OrderInv'
  <1> SUFFICES ASSUME TypeOK, OrderInv, [Next]_vars PROVE OrderInv'
    OBVIOUS
  <1> USE DEF OrderInv, ExecutedInOrder, LogUpTo, CachedUnder, Executable, NotNewer,
              EspSends, NrfReceives
  <1>1. CASE EspRestart
    BY <1>1 DEF EspRestart, NoCommand, NullFrame, nrfVars
  <1>2. CASE NrfRestart
    BY <1>2 DEF NrfRestart, NullFrame, EmptyCache, callVars, espVars, taskVars, TypeOK
  <1>3. CASE UNCHANGED vars
    BY <1>3 DEF vars, espVars, taskVars, nrfVars
  <1> QED BY <1>1, <1>2, <1>3, OrderCaller, OrderBridgeTask, OrderSpiThread DEF Next

LEMMA OrderAlways == Spec => [](TypeOK /\ OrderInv)
  BY TypeInit, TypeStep, OrderInit, OrderStep, PTL DEF Spec

\* Between two restarts the nRF executes every request at most once, in the order
\* of issue, for any width of the request ID, even if the ESP32 restarts.
THEOREM ExecutedOnceInOrder == Spec => []ExecutedInOrder
  <1>1. OrderInv => ExecutedInOrder
    BY DEF OrderInv
  <1> QED BY <1>1, OrderAlways, PTL

-----------------------------------------------------------------------------
(* Whose answer a call returns.  While request IDs are fresh, an ID names one *)
(* request, so every frame and every cache entry that bears an ID bears the   *)
(* number of that request.                                                   *)

\* The ID of the n-th request.
IdOf(n) == IF n = IdMod THEN 0 ELSE n
Named(id, n) == n \in 1..issued /\ id = IdOf(n)
NamedById(f) == f.kind \in {"command", "response"} => Named(f.id, f.issue)
ServedAnswer(f) == f.kind = "response" => f.issue \in served

AnswerInv ==
    /\ next_request_id = IF issued = IdMod THEN 1 ELSE IdOf(issued + 1)
    /\ command.active => Named(command.id, command.issue)
    /\ NamedById(espFrame) /\ NamedById(nrfFrame) /\ NamedById(pending)
    /\ ServedAnswer(espFrame) /\ ServedAnswer(nrfFrame) /\ ServedAnswer(pending)
    /\ \A k \in DOMAIN cache :
          cache[k].valid => Named(cache[k].id, cache[k].issue) /\ cache[k].issue \in served
    /\ \A c \in Callers :
          /\ pc[c] = "collect" \/ (pc[c] = "wait" /\ command_done) =>
                command.response = command.issue /\ command.response \in served
          /\ result[c] # 0 =>
                pc[c] = "idle" /\ result[c] = own[c] /\ own[c] \in served

\* While IDs are fresh, an ID names one request.
LEMMA IdNamesIssue ==
    ASSUME issued \in Nat, issued <= IdMod, NEW id, NEW m, NEW n, Named(id, m), Named(id, n)
    PROVE  m = n
  BY IdModAssumption DEF Named, IdOf

LEMMA AnswerInit == Init => AnswerInv
  BY DEF Init, AnswerInv, NamedById, Named, ServedAnswer, IdOf, NullFrame, NoCommand, EmptyCache

LEMMA AnswerCaller ==
    ASSUME TypeOK, LockInv, FreshIds', AnswerInv, NEW c \in Callers, CallerStep(c)
    PROVE  AnswerInv'
  <1> USE DEF TypeOK, LockInv, Holding, PcValues, AnswerInv, NamedById, Named, ServedAnswer,
              espVars, callVars, taskVars, nrfVars, restartVars
  <1>1. CASE Call(c)           BY <1>1 DEF Call
  <1>2. CASE AcquireMutex(c)   BY <1>2 DEF AcquireMutex
  <1>3. CASE AcquireTimeout(c) BY <1>3 DEF AcquireTimeout
  <1>4. CASE DrainDone(c)      BY <1>4 DEF DrainDone
  <1>5. CASE ArmCommand(c)
    <2>1. issued \in Nat /\ issued' = issued + 1 /\ issued' <= IdMod
      BY <1>5 DEF ArmCommand, FreshIds
    <2>2. next_request_id = IdOf(issued')
      BY <2>1, IdModAssumption
    <2>3. next_request_id' = IF issued' = IdMod THEN 1 ELSE IdOf(issued' + 1)
      BY <1>5, <2>1, <2>2, IdModAssumption DEF ArmCommand, Increment, IdOf
    <2>4. command'.active /\ Named(command.id, command.issue)'
      BY <1>5, <2>1, <2>2 DEF ArmCommand
    <2>5. result[c] = 0
      BY <1>5 DEF ArmCommand
    <2>6. ~command_done
      BY <1>5 DEF ArmCommand
    <2>7. \A d \in Callers : d # c => pc[d] \notin Holding
      BY <1>5 DEF ArmCommand
    <2> QED BY <1>5, <2>3, <2>4, <2>5, <2>6, <2>7 DEF ArmCommand
  <1>6. CASE WakeUp(c)         BY <1>6 DEF WakeUp
  <1>7. CASE Collect(c)        BY <1>7 DEF Collect
  <1>8. CASE WaitTimeout(c)    BY <1>8 DEF WaitTimeout
  <1>9. CASE Abandon(c)        BY <1>9 DEF Abandon, Commands
  <1> QED BY <1>1, <1>2, <1>3, <1>4, <1>5, <1>6, <1>7, <1>8, <1>9 DEF CallerStep

LEMMA AnswerBridgeTask ==
    ASSUME TypeOK, LockInv, FreshIds, AnswerInv, BridgeTaskStep
    PROVE  AnswerInv'
  <1> USE DEF TypeOK, LockInv, Holding, PcValues, AnswerInv, NamedById, Named, ServedAnswer,
              Commands, Frames, espVars, callVars, taskVars, nrfVars, restartVars
  <1>1. CASE SendCommand     BY <1>1 DEF SendCommand, CommandFrame
  <1>2. CASE SendNothing     BY <1>2 DEF SendNothing, NullFrame
  <1>3. CASE Transfer        BY <1>3 DEF Transfer, Garbled
  <1>4. CASE TransferUnarmed BY <1>4 DEF TransferUnarmed, Garbled
  <1>5. CASE AcceptResponse
    <2>1. espFrame.issue = command.issue
      BY <1>5, IdNamesIssue DEF AcceptResponse, AnswersCommand, FreshIds
    <2> QED BY <1>5, <2>1 DEF AcceptResponse, AnswersCommand
  <1>6. CASE IgnoreFrame     BY <1>6 DEF IgnoreFrame
  <1> QED BY <1>1, <1>2, <1>3, <1>4, <1>5, <1>6 DEF BridgeTaskStep

LEMMA AnswerSpiThread ==
    ASSUME TypeOK, AnswerInv, SpiThreadStep
    PROVE  AnswerInv'
  <1> USE DEF TypeOK, AnswerInv, NamedById, Named, ServedAnswer, Frames, espVars, callVars,
              taskVars, nrfVars, restartVars
  <1>1. CASE PrepareTx      BY <1>1 DEF PrepareTx, NullFrame
  <1>2. CASE Arm            BY <1>2 DEF Arm
  <1>3. CASE ArmFails       BY <1>3 DEF ArmFails
  <1>4. CASE ReplayCached   BY <1>4 DEF ReplayCached, ReplaySlots, ResponseFrame
  <1>5. CASE Execute        BY <1>5 DEF Execute, ResponseFrame
  <1>6. CASE ProcessNothing BY <1>6 DEF ProcessNothing
  <1> QED BY <1>1, <1>2, <1>3, <1>4, <1>5, <1>6 DEF SpiThreadStep

\* IDs that are fresh after a step were fresh before it.
LEMMA FreshBefore ==
    ASSUME TypeOK, [Next]_vars, FreshIds'
    PROVE  FreshIds /\ ~EspRestart
  <1> USE DEF FreshIds, TypeOK, restartVars
  <1>1. ~EspRestart
    BY DEF EspRestart
  <1>2. CASE UNCHANGED vars
    BY <1>1, <1>2 DEF vars
  <1>3. CASE NrfRestart
    BY <1>1, <1>3 DEF NrfRestart
  <1>4. CASE BridgeTaskStep
    BY <1>1, <1>4 DEF BridgeTaskStep, SendCommand, SendNothing, Transfer, TransferUnarmed,
                AcceptResponse, IgnoreFrame
  <1>5. CASE SpiThreadStep
    BY <1>1, <1>5 DEF SpiThreadStep, PrepareTx, Arm, ArmFails, ReplayCached, Execute,
                ProcessNothing
  <1>6. ASSUME NEW c \in Callers, CallerStep(c) PROVE FreshIds
    BY <1>6 DEF CallerStep, Call, AcquireMutex, AcquireTimeout, DrainDone, ArmCommand,
                WakeUp, Collect, WaitTimeout, Abandon
  <1> QED BY <1>1, <1>2, <1>3, <1>4, <1>5, <1>6 DEF Next

LEMMA AnswerStep ==
    TypeOK /\ LockInv /\ (FreshIds => AnswerInv) /\ [Next]_vars => (FreshIds => AnswerInv)'
  <1> SUFFICES ASSUME TypeOK, LockInv, FreshIds => AnswerInv, [Next]_vars, FreshIds'
               PROVE  AnswerInv'
    OBVIOUS
  <1>1. FreshIds /\ AnswerInv /\ ~EspRestart
    BY FreshBefore
  <1>2. CASE UNCHANGED vars
    BY <1>1, <1>2
    DEF vars, AnswerInv, NamedById, Named, ServedAnswer, callVars, espVars, taskVars, nrfVars
  <1>3. CASE NrfRestart
    BY <1>1, <1>3 DEF NrfRestart, AnswerInv, NamedById, Named, ServedAnswer, NullFrame,
                      EmptyCache, callVars, espVars, taskVars
  <1> QED BY <1>1, <1>2, <1>3, AnswerCaller, AnswerBridgeTask, AnswerSpiThread DEF Next

\* A call returns a timeout or the result of its own request, as long as the ESP32
\* has not restarted and no request ID has been given twice.
THEOREM AnsweredByOwnRequest == Spec => []FreshOwnResponse
  <1>1. Init => (FreshIds => AnswerInv)
    BY AnswerInit
  <1>2. (FreshIds => AnswerInv) => FreshOwnResponse
    BY DEF AnswerInv, OwnResponse, FreshOwnResponse
  <1> QED BY <1>1, <1>2, AnswerStep, LockAlways, PTL DEF Spec

-----------------------------------------------------------------------------
(* The command path implements CommandService                              *)

\* What holds of a call and of the answers under way however often IDs are used again:
\* an answer is that of a request the nRF executed.
CallInv ==
    /\ \A c \in Callers :
          /\ pc[c] # "idle" => result[c] = 0
          /\ pc[c] \in {"acquire", "drain", "arm"} => own[c] = 0
          /\ pc[c] = "collect" \/ (pc[c] = "wait" /\ command_done) => command.response \in served
    /\ ServedAnswer(espFrame) /\ ServedAnswer(nrfFrame) /\ ServedAnswer(pending)
    /\ \A k \in DOMAIN cache : cache[k].valid => cache[k].issue \in served

LEMMA CallInit == Init => CallInv
  BY DEF Init, CallInv, ServedAnswer, NullFrame, EmptyCache

LEMMA CallStep == TypeOK /\ LockInv /\ CallInv /\ [Next]_vars => CallInv'
  <1> SUFFICES ASSUME TypeOK, LockInv, CallInv, [Next]_vars PROVE CallInv'
    OBVIOUS
  <1> USE DEF TypeOK, CallInv, ServedAnswer, espVars, callVars, taskVars, nrfVars, restartVars
  <1>1. ASSUME NEW c \in Callers, CallerStep(c) PROVE CallInv'
    <2> USE DEF LockInv, Holding, PcValues, Commands
    <2>1. CASE Call(c)           BY <2>1 DEF Call
    <2>2. CASE AcquireMutex(c)   BY <2>2 DEF AcquireMutex
    <2>3. CASE AcquireTimeout(c) BY <2>3 DEF AcquireTimeout
    <2>4. CASE DrainDone(c)      BY <2>4 DEF DrainDone
    <2>5. CASE ArmCommand(c)     BY <2>5 DEF ArmCommand
    <2>6. CASE WakeUp(c)         BY <2>6 DEF WakeUp
    <2>7. CASE Collect(c)        BY <2>7 DEF Collect
    <2>8. CASE WaitTimeout(c)    BY <2>8 DEF WaitTimeout
    <2>9. CASE Abandon(c)        BY <2>9 DEF Abandon
    <2> QED BY <1>1, <2>1, <2>2, <2>3, <2>4, <2>5, <2>6, <2>7, <2>8, <2>9 DEF CallerStep
  <1>2. CASE BridgeTaskStep
    <2> USE DEF Commands, Frames
    <2>1. CASE SendCommand     BY <2>1 DEF SendCommand, CommandFrame
    <2>2. CASE SendNothing     BY <2>2 DEF SendNothing, NullFrame
    <2>3. CASE Transfer        BY <2>3 DEF Transfer, Garbled
    <2>4. CASE TransferUnarmed BY <2>4 DEF TransferUnarmed, Garbled
    <2>5. CASE AcceptResponse  BY <2>5 DEF AcceptResponse, AnswersCommand
    <2>6. CASE IgnoreFrame     BY <2>6 DEF IgnoreFrame
    <2> QED BY <1>2, <2>1, <2>2, <2>3, <2>4, <2>5, <2>6 DEF BridgeTaskStep
  <1>3. CASE SpiThreadStep
    <2> USE DEF Frames
    <2>1. CASE PrepareTx      BY <2>1 DEF PrepareTx, NullFrame
    <2>2. CASE Arm            BY <2>2 DEF Arm
    <2>3. CASE ArmFails       BY <2>3 DEF ArmFails
    <2>4. CASE ReplayCached   BY <2>4 DEF ReplayCached, ReplaySlots, ResponseFrame
    <2>5. CASE Execute        BY <2>5 DEF Execute, ResponseFrame
    <2>6. CASE ProcessNothing BY <2>6 DEF ProcessNothing
    <2> QED BY <1>3, <2>1, <2>2, <2>3, <2>4, <2>5, <2>6 DEF SpiThreadStep
  <1>4. CASE EspRestart
    BY <1>4 DEF EspRestart, NullFrame
  <1>5. CASE NrfRestart
    BY <1>5 DEF NrfRestart, NullFrame, EmptyCache
  <1>6. CASE UNCHANGED vars
    BY <1>6 DEF vars
  <1> QED BY <1>1, <1>2, <1>3, <1>4, <1>5, <1>6 DEF Next

\* The request that is executed is newer than the executed ones (see OrderExecute).
LEMMA ExecutesNewer ==
    ASSUME TypeOK, NumberedInv, OrderInv, Execute
    PROVE  nrfFrame.issue \in 1..issued /\ \A i \in DOMAIN log : log[i] < nrfFrame.issue
  <1>1. NrfReceives /\ nrfFrame.issue \in Nat /\ issued \in Nat /\ log \in Seq(Nat)
    BY DEF Execute, NrfReceives, TypeOK, Frames
  <1>2. nrfFrame.issue # 0 /\ nrfFrame.issue <= issued
    BY <1>1 DEF NumberedInv, Numbered, NrfReceives, OrderInv, Executable
  <1>3. ExecutedInOrder'
    BY OrderExecute DEF OrderInv
  <1>4. /\ \A i \in DOMAIN log : i \in DOMAIN log' /\ Len(log) + 1 \in DOMAIN log'
                                  /\ i < Len(log) + 1 /\ log'[i] = log[i]
        /\ log'[Len(log) + 1] = nrfFrame.issue
    BY <1>1 DEF Execute
  <1>5. \A i \in DOMAIN log : log[i] < nrfFrame.issue
    BY <1>3, <1>4 DEF ExecutedInOrder
  <1> QED BY <1>1, <1>2, <1>5

\* The mapped state: which callers are inside a call.
Open == [c \in Callers |-> pc[c] # "idle"]

ServiceSame == UNCHANGED <<issued, own, result, log, served>>

\* The steps of the path that the service does not see.
LEMMA ServiceStutters ==
    ASSUME ServiceSame, UNCHANGED espRestarts, Open' = Open
    PROVE  UNCHANGED Service!vars
  BY DEF ServiceSame, Service!vars, Open, FreshIds

LEMMA Opened ==
    ASSUME TypeOK, NEW c \in Callers, NEW p, pc' = [pc EXCEPT ![c] = p]
    PROVE  /\ p # "idle" => Open' = [Open EXCEPT ![c] = TRUE]
           /\ p = "idle" => Open' = [Open EXCEPT ![c] = FALSE]
           /\ p # "idle" /\ pc[c] # "idle" => Open' = Open
  BY DEF TypeOK, Open

\* What the refinement knows of a state.
PathInv == TypeOK /\ NumberedInv /\ LockInv /\ OrderInv /\ CallInv /\ (FreshIds => AnswerInv)

LEMMA PathInit == Init => PathInv
  BY TypeInit, LockInit, OrderInit, CallInit, AnswerInit DEF PathInv

LEMMA PathStep == PathInv /\ [Next]_vars => PathInv'
  BY TypeStep, LockStep, OrderStep, CallStep, AnswerStep DEF PathInv

\* A step of the service, apart from the condition that IDs do not become fresh again.
ServiceAction ==
    \/ \E c \in Callers : Service!Call(c) \/ Service!Issue(c) \/ Service!Return(c)
    \/ \E n \in 1..issued : Service!Execute(n)
    \/ Service!ReceiverReboot
    \/ Service!GatewayReboot

LEMMA ServiceInit == Init => Service!Init
  <1> SUFFICES ASSUME Init PROVE Service!Init
    OBVIOUS
  <1>1. [c \in Callers |-> pc[c] # "idle"] = [c \in Callers |-> FALSE]
    BY DEF Init
  <1>2. FreshIds = TRUE
    BY DEF Init, FreshIds
  <1> QED BY <1>1, <1>2 DEF Init, Service!Init

LEMMA CallerServes ==
    ASSUME PathInv, NEW c \in Callers, CallerStep(c)
    PROVE  ServiceAction \/ UNCHANGED Service!vars
  <1> USE DEF PathInv, espVars, callVars, taskVars, nrfVars, restartVars
  <1>1. CASE Call(c)
    <2>1. Service!Call(c)
      BY <1>1, Opened DEF Call, Service!Call, Open, TypeOK
    <2> QED BY <2>1 DEF ServiceAction
  <1>2. CASE AcquireMutex(c)
    <2>1. Open' = Open
      BY <1>2, Opened DEF AcquireMutex, Open
    <2> QED BY <1>2, <2>1, ServiceStutters DEF AcquireMutex, ServiceSame
  <1>3. CASE AcquireTimeout(c)
    <2>1. Open[c] /\ Open' = [Open EXCEPT ![c] = FALSE]
      BY <1>3, Opened DEF AcquireTimeout, Open
    <2>2. result' = [result EXCEPT ![c] = 0]
      BY <1>3 DEF AcquireTimeout, CallInv, TypeOK
    <2>3. Service!Return(c)
      BY <1>3, <2>1, <2>2 DEF AcquireTimeout, Service!Return, Open
    <2> QED BY <2>3 DEF ServiceAction
  <1>4. CASE DrainDone(c)
    <2>1. Open' = Open
      BY <1>4, Opened DEF DrainDone, Open
    <2> QED BY <1>4, <2>1, ServiceStutters DEF DrainDone, ServiceSame
  <1>5. CASE ArmCommand(c)
    <2>1. Open[c] /\ Open' = Open
      BY <1>5, Opened DEF ArmCommand, Open
    <2>2. own[c] = 0
      BY <1>5 DEF ArmCommand, CallInv
    <2>3. Service!Issue(c)
      BY <1>5, <2>1, <2>2 DEF ArmCommand, Service!Issue, Open
    <2> QED BY <2>3 DEF ServiceAction
  <1>6. CASE WakeUp(c)
    <2>1. Open' = Open
      BY <1>6, Opened DEF WakeUp, Open
    <2> QED BY <1>6, <2>1, ServiceStutters DEF WakeUp, ServiceSame
  <1>7. CASE Collect(c)
    <2>1. Open[c] /\ Open' = [Open EXCEPT ![c] = FALSE]
      BY <1>7, Opened DEF Collect, Open
    <2>2. command.response \in served
      BY <1>7 DEF Collect, CallInv
    <2>3. FreshIds => command.response = own[c]
      BY <1>7 DEF Collect, AnswerInv, LockInv
    <2>4. Service!Return(c)
      BY <1>7, <2>1, <2>2, <2>3 DEF Collect, Service!Return, Open
    <2> QED BY <2>4 DEF ServiceAction
  <1>8. CASE WaitTimeout(c)
    <2>1. Open' = Open
      BY <1>8, Opened DEF WaitTimeout, Open
    <2> QED BY <1>8, <2>1, ServiceStutters DEF WaitTimeout, ServiceSame
  <1>9. CASE Abandon(c)
    <2>1. Open[c] /\ Open' = [Open EXCEPT ![c] = FALSE]
      BY <1>9, Opened DEF Abandon, Open
    <2>2. result' = [result EXCEPT ![c] = 0]
      BY <1>9 DEF Abandon, CallInv, TypeOK
    <2>3. Service!Return(c)
      BY <1>9, <2>1, <2>2 DEF Abandon, Service!Return, Open
    <2> QED BY <2>3 DEF ServiceAction
  <1> QED BY <1>1, <1>2, <1>3, <1>4, <1>5, <1>6, <1>7, <1>8, <1>9 DEF CallerStep

LEMMA DevicesServe ==
    ASSUME PathInv, BridgeTaskStep \/ SpiThreadStep \/ EspRestart \/ NrfRestart
    PROVE  ServiceAction \/ UNCHANGED Service!vars
  <1> USE DEF espVars, callVars, taskVars, nrfVars, restartVars
  <1>1. CASE BridgeTaskStep
    <2>1. ServiceSame /\ UNCHANGED espRestarts /\ Open' = Open
      BY <1>1 DEF BridgeTaskStep, SendCommand, SendNothing, Transfer, TransferUnarmed,
                  AcceptResponse, IgnoreFrame, ServiceSame, Open
    <2> QED BY <2>1, ServiceStutters
  <1>2. CASE SpiThreadStep /\ ~Execute
    <2>1. ServiceSame /\ UNCHANGED espRestarts /\ Open' = Open
      BY <1>2 DEF SpiThreadStep, PrepareTx, Arm, ArmFails, ReplayCached, ProcessNothing,
                  ServiceSame, Open
    <2> QED BY <2>1, ServiceStutters
  <1>3. CASE Execute
    <2>1. nrfFrame.issue \in 1..issued /\ \A i \in DOMAIN log : log[i] < nrfFrame.issue
      BY <1>3, ExecutesNewer DEF PathInv
    <2>2. Service!Execute(nrfFrame.issue)
      BY <1>3, <2>1 DEF Execute, Service!Execute
    <2> QED BY <2>1, <2>2 DEF ServiceAction
  <1>4. CASE EspRestart
    <2>1. [c \in Callers |-> pc[c] # "idle"]' = [c \in Callers |-> FALSE]
      BY <1>4 DEF EspRestart
    <2>2. Service!GatewayReboot
      BY <1>4, <2>1 DEF EspRestart, Service!GatewayReboot
    <2> QED BY <2>2 DEF ServiceAction
  <1>5. CASE NrfRestart
    <2>1. Service!ReceiverReboot
      BY <1>5 DEF NrfRestart, Service!ReceiverReboot
    <2> QED BY <2>1 DEF ServiceAction
  <1> QED BY <1>1, <1>2, <1>3, <1>4, <1>5

\* Every step of the path is a step of the service, or none.
LEMMA StepServes == PathInv /\ [Next]_vars => [Service!Next]_(Service!vars)
  <1> SUFFICES ASSUME PathInv, [Next]_vars PROVE Service!Next \/ UNCHANGED Service!vars
    OBVIOUS
  <1>1. ServiceAction \/ UNCHANGED Service!vars
    <2>1. CASE UNCHANGED vars
      BY <2>1, ServiceStutters
      DEF vars, espVars, callVars, taskVars, nrfVars, restartVars, ServiceSame, Open
    <2> QED BY <2>1, CallerServes, DevicesServe DEF Next
  <1>2. FreshIds' => FreshIds
    BY FreshBefore DEF PathInv
  <1> QED BY <1>1, <1>2 DEF ServiceAction, Service!Next

\* The command path of the two chips does what CommandService promises the callers of
\* bridge_spi_command(), for every number of callers, width of the request ID, depth of
\* the replay cache and number of restarts.
THEOREM PathImplementsService == Spec => ImplementsService
  BY PathInit, PathStep, ServiceInit, StepServes, PTL DEF Spec, ImplementsService, Service!Spec
=============================================================================
