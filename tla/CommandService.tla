--------------------------- MODULE CommandService ---------------------------
(***************************************************************************)
(* What the management-command path of the receiver promises to the tasks  *)
(* of the ESP32-C5 that call bridge_spi_command(): the receiver executes   *)
(* each request at most once between two of its reboots and in the order   *)
(* the requests were issued, and a call returns either a timeout (0) or    *)
(* the result of a request that the receiver has executed: its own one, as *)
(* long as request IDs are fresh.                                          *)
(* CommandLink is the detailed specification that implements this one.     *)
(***************************************************************************)
EXTENDS Naturals, Sequences

CONSTANT Callers        \* the ESP32 tasks that issue management commands

VARIABLES
    issued,   \* requests issued so far; request n is the n-th one
    open,     \* open[c]: caller c is inside a call
    own,      \* own[c]: the request of c's current call, 0 before it is issued
    result,   \* result[c]: what c's last call returned, 0 for a timeout
    log,      \* requests executed since the receiver booted, in order
    served,   \* requests executed at least once since the beginning
    fresh     \* no request ID has been used twice yet

vars == <<issued, open, own, result, log, served, fresh>>

Init ==
    /\ issued = 0
    /\ open = [c \in Callers |-> FALSE]
    /\ own = [c \in Callers |-> 0]
    /\ result = [c \in Callers |-> 0]
    /\ log = <<>>
    /\ served = {}
    /\ fresh = TRUE

Call(c) ==
    /\ ~open[c]
    /\ open' = [open EXCEPT ![c] = TRUE]
    /\ own' = [own EXCEPT ![c] = 0]
    /\ result' = [result EXCEPT ![c] = 0]
    /\ UNCHANGED <<issued, log, served>>

Issue(c) ==
    /\ open[c]
    /\ own[c] = 0
    /\ issued' = issued + 1
    /\ own' = [own EXCEPT ![c] = issued + 1]
    /\ UNCHANGED <<open, result, log, served>>

Execute(n) ==
    /\ \A i \in DOMAIN log : log[i] < n
    /\ log' = Append(log, n)
    /\ served' = served \union {n}
    /\ UNCHANGED <<issued, open, own, result>>

Return(c) ==
    /\ open[c]
    /\ open' = [open EXCEPT ![c] = FALSE]
    /\ \E r \in {0} \union served :
          /\ fresh /\ r # 0 => r = own[c]
          /\ result' = [result EXCEPT ![c] = r]
    /\ UNCHANGED <<issued, own, log, served>>

ReceiverReboot ==
    /\ log' = <<>>
    /\ UNCHANGED <<issued, open, own, result, served>>

GatewayReboot ==
    /\ open' = [c \in Callers |-> FALSE]
    /\ own' = [c \in Callers |-> 0]
    /\ result' = [c \in Callers |-> 0]
    /\ UNCHANGED <<issued, log, served>>

Next ==
    /\ \/ \E c \in Callers : Call(c) \/ Issue(c) \/ Return(c)
       \/ \E n \in 1..issued : Execute(n)
       \/ ReceiverReboot
       \/ GatewayReboot
    /\ fresh' => fresh

Spec == Init /\ [][Next]_vars
=============================================================================
