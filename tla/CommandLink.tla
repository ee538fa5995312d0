---------------------------- MODULE CommandLink -----------------------------
(***************************************************************************)
(* Management commands between the ESP32-C5 and the nRF54L15: the blocking *)
(* call of bridge_spi.c with its two mutexes and its completion semaphore, *)
(* the bridge task that sends and retries the command, the full-duplex SPI *)
(* transfer, the nRF SPI thread of spi_bridge.c and the replay cache with  *)
(* which receiver_control.c answers a repeated request.                    *)
(*                                                                         *)
(* A request is identified by the ghost number of the call that issued it  *)
(* ("issue"); the code only sees its request ID.  Payloads are abstracted: *)
(* the result of executing request n is n.                                 *)
(***************************************************************************)
EXTENDS Naturals, Sequences, FiniteSets

CONSTANTS
    Callers,         \* ESP32 tasks calling bridge_spi_command()
    NoCaller,        \* value of a free command_mutex
    IdMod,           \* request IDs are uint16_t: 65536 in the code
    MaxAttempts,     \* COMMAND_MAX_ATTEMPTS
    CacheSize,       \* SV_COMMAND_REPLAY_CACHE_SIZE
    MaxCalls,        \* bound: calls that may be issued
    MaxEspRestarts,  \* bound: restarts of the ESP32-C5
    MaxNrfRestarts   \* bound: restarts of the nRF54L15

ASSUME CallersAssumption == NoCaller \notin Callers
ASSUME IdModAssumption == IdMod \in Nat /\ IdMod >= 2
ASSUME CacheSizeAssumption == CacheSize \in Nat /\ CacheSize >= 1
ASSUME MaxAttemptsAssumption == MaxAttempts \in Nat /\ MaxAttempts >= 1
ASSUME BoundsAssumption ==
    MaxCalls \in Nat /\ MaxEspRestarts \in Nat /\ MaxNrfRestarts \in Nat

VARIABLES
    pc,            \* pc[c]: where caller c is in bridge_spi_command()
    own,           \* ghost: own[c] is the issue of c's current call, 0 if none
    result,        \* result[c]: what c's last call returned, 0 for a timeout
    command_mutex, \* its holder, or NoCaller
    command_done,  \* the binary semaphore
    command,       \* the static struct the callers share with bridge_task
    next_request_id,
    espTask,       \* bridge_task: "idle", "loaded" or "received"
    espFrame,      \* its tx_buffer, then its rx_buffer
    nrfTask,       \* spi_thread: "prepare", "loaded", "armed" or "received"
    nrfFrame,      \* its tx_buffer, then its rx_buffer
    pending,       \* pending_response, NullFrame when response_pending is false
    cache,         \* the replay cache entries
    cursor,        \* and its insertion point
    issued,        \* ghost: requests issued so far
    log,           \* ghost: requests executed since the nRF booted, in order
    served,        \* ghost: requests ever executed
    espRestarts, nrfRestarts

espVars == <<command_mutex, command_done, command, next_request_id>>
callVars == <<pc, own, result>>
taskVars == <<espTask, espFrame>>
nrfVars == <<nrfTask, nrfFrame, pending, cache, cursor, log, served>>
restartVars == <<espRestarts, nrfRestarts>>
vars == <<callVars, espVars, issued, taskVars, nrfVars, restartVars>>

Ids == 0..(IdMod - 1)

\* Frames that matter here: a report or an empty envelope is "null", a frame
\* whose CRC fails is "garbled".
Frames == [kind : {"null", "garbled", "command", "response"}, id : Ids, issue : Nat]

NullFrame == [kind |-> "null", id |-> 0, issue |-> 0]
Garbled == [kind |-> "garbled", id |-> 0, issue |-> 0]
CommandFrame(rid, n) == [kind |-> "command", id |-> rid, issue |-> n]
ResponseFrame(rid, n) == [kind |-> "response", id |-> rid, issue |-> n]

Commands == [active : BOOLEAN, id : Ids, issue : Nat, attempts : 0..MaxAttempts,
             response : Nat]
NoCommand == [active |-> FALSE, id |-> 0, issue |-> 0, attempts |-> 0, response |-> 0]

Entries == [valid : BOOLEAN, id : Ids, issue : Nat]
EmptyCache == [k \in 0..(CacheSize - 1) |-> [valid |-> FALSE, id |-> 0, issue |-> 0]]

Holding == {"drain", "arm", "wait", "collect", "abandon"}
PcValues == {"idle", "acquire"} \union Holding

\* Fault: the wrap-around is forgotten.
IncrementUnwrapped(i, modulus) == i + 1

Increment(i, modulus) == IF i + 1 = modulus THEN 0 ELSE i + 1

Init ==
    /\ pc = [c \in Callers |-> "idle"]
    /\ own = [c \in Callers |-> 0]
    /\ result = [c \in Callers |-> 0]
    /\ command_mutex = NoCaller
    /\ command_done = FALSE
    /\ command = NoCommand
    /\ next_request_id = 1
    /\ espTask = "idle"
    /\ espFrame = NullFrame
    /\ nrfTask = "prepare"
    /\ nrfFrame = NullFrame
    /\ pending = NullFrame
    /\ cache = EmptyCache
    /\ cursor = 0
    /\ issued = 0
    /\ log = <<>>
    /\ served = {}
    /\ espRestarts = 0
    /\ nrfRestarts = 0

-----------------------------------------------------------------------------
(* The caller: bridge_spi_command(), one action per stretch of code between *)
(* two points at which another task can run.                               *)

\* Calls that have not issued their request yet; used by the bound only.
Unissued == {d \in Callers : pc[d] \in {"acquire", "drain", "arm"}}

\* A task enters bridge_spi_command() with valid arguments.
Call(c) ==
    /\ pc[c] = "idle"
    /\ issued + Cardinality(Unissued) < MaxCalls
    /\ pc' = [pc EXCEPT ![c] = "acquire"]
    /\ own' = [own EXCEPT ![c] = 0]
    /\ result' = [result EXCEPT ![c] = 0]
    /\ UNCHANGED <<espVars, issued, taskVars, nrfVars, restartVars>>

AcquireMutex(c) ==
    /\ pc[c] = "acquire"
    /\ command_mutex = NoCaller
    /\ command_mutex' = c
    /\ pc' = [pc EXCEPT ![c] = "drain"]
    /\ UNCHANGED <<own, result, command_done, command, next_request_id,
                   issued, taskVars, nrfVars, restartVars>>

\* xSemaphoreTake(command_mutex, timeout) gives up while another task holds it.
AcquireTimeout(c) ==
    /\ pc[c] = "acquire"
    /\ command_mutex # NoCaller
    /\ pc' = [pc EXCEPT ![c] = "idle"]
    /\ UNCHANGED <<own, result, espVars, issued, taskVars, nrfVars, restartVars>>

\* Fault: a stale completion is left in the semaphore.
KeepDone(c) ==
    /\ pc[c] = "drain"
    /\ pc' = [pc EXCEPT ![c] = "arm"]
    /\ UNCHANGED <<own, result, espVars, issued, taskVars, nrfVars, restartVars>>

\* (void)xSemaphoreTake(command_done, 0): throw away a stale completion.
DrainDone(c) ==
    /\ pc[c] = "drain"
    /\ command_done' = FALSE
    /\ pc' = [pc EXCEPT ![c] = "arm"]
    /\ UNCHANGED <<own, result, command_mutex, command, next_request_id,
                   issued, taskVars, nrfVars, restartVars>>

ArmCommand(c) ==
    /\ pc[c] = "arm"
    /\ command' = [active |-> TRUE, id |-> next_request_id, issue |-> issued + 1,
                   attempts |-> 0, response |-> 0]
    /\ next_request_id' = Increment(next_request_id, IdMod)
    /\ issued' = issued + 1
    /\ own' = [own EXCEPT ![c] = issued + 1]
    /\ pc' = [pc EXCEPT ![c] = "wait"]
    /\ UNCHANGED <<result, command_mutex, command_done, taskVars, nrfVars, restartVars>>

\* xSemaphoreTake(command_done, timeout) succeeds.
WakeUp(c) ==
    /\ pc[c] = "wait"
    /\ command_done
    /\ command_done' = FALSE
    /\ pc' = [pc EXCEPT ![c] = "collect"]
    /\ UNCHANGED <<own, result, command_mutex, command, next_request_id,
                   issued, taskVars, nrfVars, restartVars>>

Collect(c) ==
    /\ pc[c] = "collect"
    /\ result' = [result EXCEPT ![c] = command.response]
    /\ command_mutex' = NoCaller
    /\ pc' = [pc EXCEPT ![c] = "idle"]
    /\ UNCHANGED <<own, command_done, command, next_request_id,
                   issued, taskVars, nrfVars, restartVars>>

\* Fault: the caller waits for the last attempt instead of for its time limit.
WaitForAttempts(c) ==
    /\ pc[c] = "wait"
    /\ ~command_done
    /\ command.attempts = MaxAttempts
    /\ pc' = [pc EXCEPT ![c] = "abandon"]
    /\ UNCHANGED <<own, result, espVars, issued, taskVars, nrfVars, restartVars>>

\* The wait times out; accept_response() may still run before Abandon.
WaitTimeout(c) ==
    /\ pc[c] = "wait"
    /\ ~command_done
    /\ pc' = [pc EXCEPT ![c] = "abandon"]
    /\ UNCHANGED <<own, result, espVars, issued, taskVars, nrfVars, restartVars>>

Abandon(c) ==
    /\ pc[c] = "abandon"
    /\ command' = [command EXCEPT !.active = FALSE]
    /\ command_mutex' = NoCaller
    /\ pc' = [pc EXCEPT ![c] = "idle"]
    /\ UNCHANGED <<own, result, command_done, next_request_id,
                   issued, taskVars, nrfVars, restartVars>>

-----------------------------------------------------------------------------
(* bridge_task(): transact() and accept_response().                        *)

\* READY is high exactly while the nRF peripheral is armed.
Ready == nrfTask = "armed"

\* prepare_command() sends the command; whether the 50 ms retry interval has
\* passed is left open.
SendCommand ==
    /\ espTask = "idle"
    /\ Ready
    /\ command.active
    /\ command.attempts < MaxAttempts
    /\ command' = [command EXCEPT !.attempts = @ + 1]
    /\ espFrame' = CommandFrame(command.id, command.issue)
    /\ espTask' = "loaded"
    /\ UNCHANGED <<callVars, command_mutex, command_done, next_request_id,
                   issued, nrfVars, restartVars>>

\* prepare_command() has nothing to send, or the retry is not due yet.
SendNothing ==
    /\ espTask = "idle"
    /\ Ready
    /\ command.active => command.attempts > 0
    /\ espFrame' = NullFrame
    /\ espTask' = "loaded"
    /\ UNCHANGED <<callVars, espVars, issued, nrfVars, restartVars>>

\* The full-duplex transfer; noise may garble either direction.
Transfer ==
    /\ espTask = "loaded"
    /\ Ready
    /\ espFrame' \in {nrfFrame, Garbled}
    /\ nrfFrame' \in {espFrame, Garbled}
    /\ espTask' = "received"
    /\ nrfTask' = "received"
    /\ UNCHANGED <<callVars, espVars, issued, pending, cache, cursor, log, served,
                   restartVars>>

\* The nRF restarted after READY was read: the controller clocks in noise.
TransferUnarmed ==
    /\ espTask = "loaded"
    /\ ~Ready
    /\ espFrame' = Garbled
    /\ espTask' = "received"
    /\ UNCHANGED <<callVars, espVars, issued, nrfVars, restartVars>>

\* Fault: any response answers the command.
AnswersAnyCommand(f) == f.kind = "response" /\ command.active

AnswersCommand(f) == f.kind = "response" /\ command.active /\ f.id = command.id

AcceptResponse ==
    /\ espTask = "received"
    /\ AnswersCommand(espFrame)
    /\ command' = [command EXCEPT !.active = FALSE, !.response = espFrame.issue]
    /\ command_done' = TRUE
    /\ espTask' = "idle"
    /\ UNCHANGED <<callVars, command_mutex, next_request_id, espFrame,
                   issued, nrfVars, restartVars>>

IgnoreFrame ==
    /\ espTask = "received"
    /\ ~AnswersCommand(espFrame)
    /\ espTask' = "idle"
    /\ UNCHANGED <<callVars, espVars, espFrame, issued, nrfVars, restartVars>>

-----------------------------------------------------------------------------
(* The nRF: spi_thread(), receiver_control_handle() and the replay cache.  *)

\* prepare_tx(): a pending response goes before any report.
PrepareTx ==
    /\ nrfTask = "prepare"
    /\ nrfFrame' = pending
    /\ pending' = NullFrame
    /\ nrfTask' = "loaded"
    /\ UNCHANGED <<callVars, espVars, issued, taskVars, cache, cursor, log, served,
                   restartVars>>

Arm ==
    /\ nrfTask = "loaded"
    /\ nrfTask' = "armed"
    /\ UNCHANGED <<callVars, espVars, issued, taskVars, nrfFrame, pending, cache,
                   cursor, log, served, restartVars>>

\* spi_transceive_cb() fails: the loop starts over and the prepared frame is lost.
ArmFails ==
    /\ nrfTask = "loaded"
    /\ nrfTask' = "prepare"
    /\ UNCHANGED <<callVars, espVars, issued, taskVars, nrfFrame, pending, cache,
                   cursor, log, served, restartVars>>

\* Fault: the request ID is not compared.
ReplayAnySlot(rid) == {k \in DOMAIN cache : cache[k].valid}

ReplaySlots(rid) == {k \in DOMAIN cache : cache[k].valid /\ cache[k].id = rid}

\* The first valid entry wins.
ReplayCached ==
    /\ nrfTask = "received"
    /\ nrfFrame.kind = "command"
    /\ \E k \in ReplaySlots(nrfFrame.id) :
          /\ \A j \in ReplaySlots(nrfFrame.id) : k <= j
          /\ pending' = ResponseFrame(nrfFrame.id, cache[k].issue)
    /\ nrfTask' = "prepare"
    /\ UNCHANGED <<callVars, espVars, issued, taskVars, nrfFrame, cache, cursor,
                   log, served, restartVars>>

\* Fault: the result is not stored in the cache.
ExecuteUncached ==
    /\ nrfTask = "received"
    /\ nrfFrame.kind = "command"
    /\ ReplaySlots(nrfFrame.id) = {}
    /\ pending' = ResponseFrame(nrfFrame.id, nrfFrame.issue)
    /\ log' = Append(log, nrfFrame.issue)
    /\ served' = served \union {nrfFrame.issue}
    /\ nrfTask' = "prepare"
    /\ UNCHANGED <<callVars, espVars, issued, taskVars, nrfFrame, cache, cursor, restartVars>>

Execute ==
    /\ nrfTask = "received"
    /\ nrfFrame.kind = "command"
    /\ ReplaySlots(nrfFrame.id) = {}
    /\ pending' = ResponseFrame(nrfFrame.id, nrfFrame.issue)
    /\ cache' = [cache EXCEPT ![cursor] =
                    [valid |-> TRUE, id |-> nrfFrame.id, issue |-> nrfFrame.issue]]
    /\ cursor' = Increment(cursor, CacheSize)
    /\ log' = Append(log, nrfFrame.issue)
    /\ served' = served \union {nrfFrame.issue}
    /\ nrfTask' = "prepare"
    /\ UNCHANGED <<callVars, espVars, issued, taskVars, nrfFrame, restartVars>>

\* A garbled frame only counts a CRC error; an empty one asks for nothing.
ProcessNothing ==
    /\ nrfTask = "received"
    /\ nrfFrame.kind # "command"
    /\ nrfTask' = "prepare"
    /\ UNCHANGED <<callVars, espVars, issued, taskVars, nrfFrame, pending, cache,
                   cursor, log, served, restartVars>>

-----------------------------------------------------------------------------
(* Restarts: the two chips restart independently (web_portal.c restarts    *)
(* the ESP32 after a save, receiver_control.c the nRF after SET_GROUP).    *)

EspRestart ==
    /\ espRestarts < MaxEspRestarts
    /\ espRestarts' = espRestarts + 1
    /\ pc' = [c \in Callers |-> "idle"]
    /\ own' = [c \in Callers |-> 0]
    /\ result' = [c \in Callers |-> 0]
    /\ command_mutex' = NoCaller
    /\ command_done' = FALSE
    /\ command' = NoCommand
    /\ next_request_id' = 1
    /\ espTask' = "idle"
    /\ espFrame' = NullFrame
    /\ UNCHANGED <<issued, nrfVars, nrfRestarts>>

NrfRestart ==
    /\ nrfRestarts < MaxNrfRestarts
    /\ nrfRestarts' = nrfRestarts + 1
    /\ nrfTask' = "prepare"
    /\ nrfFrame' = NullFrame
    /\ pending' = NullFrame
    /\ cache' = EmptyCache
    /\ cursor' = 0
    /\ log' = <<>>
    /\ UNCHANGED <<callVars, espVars, issued, taskVars, served, espRestarts>>

CallerStep(c) ==
    \/ Call(c) \/ AcquireMutex(c) \/ AcquireTimeout(c) \/ DrainDone(c)
    \/ ArmCommand(c) \/ WakeUp(c) \/ Collect(c) \/ WaitTimeout(c) \/ Abandon(c)

BridgeTaskStep ==
    \/ SendCommand \/ SendNothing \/ Transfer \/ TransferUnarmed
    \/ AcceptResponse \/ IgnoreFrame

SpiThreadStep ==
    \/ PrepareTx \/ Arm \/ ArmFails \/ ReplayCached \/ Execute \/ ProcessNothing

Next ==
    \/ \E c \in Callers : CallerStep(c)
    \/ BridgeTaskStep
    \/ SpiThreadStep
    \/ EspRestart
    \/ NrfRestart

Spec == Init /\ [][Next]_vars

\* A task inside bridge_spi_command() is scheduled again, and every wait in it
\* is a FreeRTOS wait with a time limit.  A mutex that keeps being released is
\* obtained or the attempt times out.
CallerFairness ==
    \A c \in Callers :
        /\ WF_vars(AcquireMutex(c) \/ AcquireTimeout(c))
        /\ WF_vars(DrainDone(c) \/ ArmCommand(c) \/ Collect(c) \/ Abandon(c))
        /\ WF_vars(WakeUp(c) \/ WaitTimeout(c))

FairSpec == Spec /\ CallerFairness
-----------------------------------------------------------------------------
(* Properties *)

\* The types of the variables; request IDs stay within their width.
TypeOK ==
    /\ pc \in [Callers -> PcValues]
    /\ own \in [Callers -> Nat]
    /\ result \in [Callers -> Nat]
    /\ command_mutex \in Callers \union {NoCaller}
    /\ command_done \in BOOLEAN
    /\ command \in Commands
    /\ next_request_id \in Ids
    /\ espTask \in {"idle", "loaded", "received"}
    /\ espFrame \in Frames
    /\ nrfTask \in {"prepare", "loaded", "armed", "received"}
    /\ nrfFrame \in Frames
    /\ pending \in Frames
    /\ cache \in [0..(CacheSize - 1) -> Entries]
    /\ cursor \in 0..(CacheSize - 1)
    /\ issued \in Nat
    /\ log \in Seq(Nat)
    /\ served \in SUBSET Nat
    /\ espRestarts \in 0..MaxEspRestarts
    /\ nrfRestarts \in 0..MaxNrfRestarts

\* Until it restarts, the nRF executes no request twice and none after a newer
\* one, whatever is lost, retried, replayed or given up: what the replay cache
\* of receiver_control_handle() and the one-command slot of bridge_spi.c are for.
ExecutedInOrder ==
    \A i, j \in DOMAIN log : i < j => log[i] < log[j]

\* A call that returns a result returns the result of its own request, and the
\* nRF did execute that request: bridge_spi_command() never hands a caller the
\* late answer of another call or a cached answer to another request.
OwnResponse ==
    \A c \in Callers :
        pc[c] = "idle" /\ result[c] # 0 => result[c] = own[c] /\ own[c] \in served

\* The ESP32 has not restarted and no request ID has been given twice.
FreshIds == espRestarts = 0 /\ issued <= IdMod

\* While request IDs are fresh, OwnResponse holds.
FreshOwnResponse == FreshIds => OwnResponse

\* A caller woken by command_done finds its command completed: the give of a
\* response that raced with the previous caller's timeout never wakes it.
WokenWithAnswer ==
    \A c \in Callers :
        pc[c] = "collect" => ~command.active /\ command.response # 0 /\ command.issue = own[c]

\* Every call returns, even when the nRF never answers or never raises READY.
EveryCallReturns ==
    \A c \in Callers : pc[c] # "idle" ~> pc[c] = "idle"

\* The detailed path implements CommandService, across restarts of both chips and
\* request IDs that are used again.
Service == INSTANCE CommandService WITH
    open <- [c \in Callers |-> pc[c] # "idle"], fresh <- FreshIds
ImplementsService == Service!Spec
=============================================================================
