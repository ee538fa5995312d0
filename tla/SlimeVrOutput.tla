--------------------------- MODULE SlimeVrOutput ---------------------------
(***************************************************************************)
(* What the Bridge tells the SlimeVR Server of one tracker: the            *)
(* TrackerConnection of slimevr.rs with its handshake, time-outs, sensor   *)
(* information, taps and the answers it polls, and what the two inputs of  *)
(* inputs.rs do with an error of its sends.  The Bridge keeps one such     *)
(* connection, with a socket of its own, per tracker address; they share   *)
(* only the process.                                                       *)
(*                                                                         *)
(* Time passes in seconds.  The main loop, which runs every millisecond,   *)
(* completes at least one tick() in a second, a tracker that is on gets at *)
(* least one record through, and the Server pings the trackers it knows.   *)
(*                                                                         *)
(* process() and tick() are modelled by the packets they would send and    *)
(* the number that is sent: a send fails when an earlier packet of the     *)
(* socket was refused by the Server's host, on which no Server was         *)
(* running, and the Rust operator ? ends the function there.               *)
(***************************************************************************)
EXTENDS Naturals, Sequences, FiniteSets

CONSTANTS
    Statuses,    \* statuses a tracker reports (byte 2 of a type 3 record)
    MaxFaults,   \* bound: lost packets, Server stops, Bridge ends, tracker changes
    MaxPresses   \* bound: presses of the tracker's button

ASSUME StatusesAssumption == Statuses \subseteq 0 .. 255 /\ Statuses # {}
ASSUME OutputBoundsAssumption == MaxFaults \in Nat /\ MaxPresses \in Nat

NoConnection == [confirmed |-> FALSE]  \* the tracker map has no entry
InputTimeout == 3    \* TRACKER_INPUT_TIMEOUT in seconds
ServerTimeout == 3   \* SERVER_TIMEOUT in seconds
ServerMemory == 3    \* seconds after which the Server drops a tracker it does not hear
SilenceLimit == InputTimeout + ServerMemory  \* bound: where the count of the silence stops

VARIABLES
    running,   \* the Bridge process is running
    conn,      \* the TrackerConnection
    inbox,     \* kinds of packets that wait at its socket
    refused,   \* its socket has a pending ECONNREFUSED
    silence,   \* seconds since the Bridge processed a record of the tracker
    tracker,   \* the tracker: switched on, its status and whether its button is down
    server,    \* the SlimeVR Server and what it knows of the tracker
    due,       \* who has not yet acted in this second
    presses,   \* ghost: presses this Bridge process can have seen
    faults     \* faults that have happened

bridgeVars == <<running, conn, inbox, refused>>
vars == <<bridgeVars, silence, tracker, server, due, presses, faults>>

Parties == {"loop", "server", "tracker"}
RecordTypes == {"info", "motion", "status", "button", "motion_button"}  \* 0, 1|2|4, 3, 6, 7
Connections ==
    [confirmed : BOOLEAN, info : BOOLEAN, active : BOOLEAN, status : 0 .. 2, button : BOOLEAN,
     serverAge : 0 .. ServerTimeout, handshakeDue : BOOLEAN, quiet : BOOLEAN]

NewConnection ==
    [confirmed |-> FALSE, info |-> FALSE, active |-> FALSE, status |-> 1, button |-> FALSE,
     serverAge |-> 0, handshakeDue |-> TRUE, quiet |-> TRUE]

\* Fault: the status of the record is sent as it is.
RawStatus(status) == status

map_hid_status(status) ==
    CASE status = 0 -> 0 [] status = 3 -> 2 [] OTHER -> 1

-----------------------------------------------------------------------------
(* The packets of the connection, and how far a function got with them. *)

SensorInfo(status) == [kind |-> "sensor", status |-> status]
Packet(kind) == [kind |-> kind]
If(condition, packets) == IF condition THEN packets ELSE <<>>

\* How many packets are sent when send number failAt fails (0: none does).
Sent(packets, failAt) ==
    IF failAt \in 1 .. Len(packets) THEN failAt - 1 ELSE Len(packets)

\* The function got as far as count packets and left the connection c; send_packet()
\* and ensure_handshake() note the time of what was sent.
Outcome(c, packets, count) ==
    LET handshakes == {i \in 1 .. count : packets[i] = Packet("handshake")}
    IN  [conn |-> [c EXCEPT !.quiet = @ /\ handshakes = 1 .. count,
                            !.handshakeDue = @ /\ handshakes = {}],
         sent |-> SubSeq(packets, 1, count),
         failed |-> count < Len(packets)]

\* ensure_handshake()
Handshake(c) ==
    If(~c.confirmed /\ c.active /\ c.info /\ c.handshakeDue, <<Packet("handshake")>>)

\* Fault: a button that is held is a tap in every record.
TapWhileHeld(c, held) == If(held, <<Packet("tap")>>)

\* send_button_if_changed()
Tap(c, held) == If(held /\ ~c.button, <<Packet("tap")>>)

\* Fault: pings are answered for a tracker whose input has stopped.
PongAlways(c) == If("ping" \in inbox, <<Packet("pong")>>)

\* poll_server(): a ping is answered, a hello is not a ping.
Pong(c) == If("ping" \in inbox /\ c.active, <<Packet("pong")>>)

-----------------------------------------------------------------------------
(* A record, and a tick of the main loop. *)

\* process(): a record of the tracker; aux says whether auxiliary data is due.
process(old, type, aux, failAt) ==
    LET resumed == ~old.active
        status == CASE type = "status" -> map_hid_status(tracker.status)
                    [] resumed /\ type # "status" -> 1
                    [] OTHER -> old.status
        c == [old EXCEPT !.active = TRUE, !.info = @ \/ type = "info", !.status = status]
        data == If(resumed /\ c.info, <<SensorInfo(status)>>)
                \o If(type \in {"info", "status"} /\ c.info, <<SensorInfo(status)>>)
                \o If(type \in {"motion", "motion_button"}, <<Packet("motion")>>)
        buttons == type \in {"button", "motion_button"}
        packets == IF ~c.confirmed THEN Handshake(c)
                   ELSE data \o If(buttons, Tap(c, tracker.held))
                             \o If(aux \/ type = "info", <<Packet("aux")>>)
        count == Sent(packets, failAt)
        pressed == c.confirmed /\ buttons /\ count >= Len(data)
    IN  Outcome([c EXCEPT !.button = IF pressed THEN tracker.held ELSE @], packets, count)

\* Fault: the connection stays confirmed.
NeverSilent(age) == FALSE

\* The Server has been silent for SERVER_TIMEOUT.
ServerSilent(age) == age >= ServerTimeout

\* tick() with no error pending on the socket: the answers, the time-out of the input,
\* the time-out of the Server, the handshake and the heartbeat.
tick(old, failAt) ==
    LET greeted == "hello" \in inbox /\ ~old.confirmed
        c == [old EXCEPT !.confirmed = @ \/ "hello" \in inbox,
                         !.serverAge = IF inbox = {} THEN @ ELSE 0]
        poll == If(greeted, <<SensorInfo(c.status), Packet("aux")>>) \o Pong(c)
        stops == c.active /\ silence >= InputTimeout
        stopped == IF stops THEN [c EXCEPT !.active = FALSE, !.status = 0] ELSE c
        goodbye == poll \o If(stops /\ c.confirmed, <<SensorInfo(0)>>)
        forgotten == IF c.confirmed /\ ServerSilent(c.serverAge)
                     THEN [stopped EXCEPT !.confirmed = FALSE, !.handshakeDue = TRUE]
                     ELSE stopped
        packets == goodbye \o Handshake(forgotten)
                   \o If(forgotten.confirmed /\ forgotten.active /\ c.quiet /\ goodbye = <<>>,
                         <<Packet("heartbeat")>>)
        count == Sent(packets, failAt)
    IN  Outcome(CASE count < Len(poll) -> c
                  [] count \in Len(poll) .. Len(goodbye) - 1 -> stopped
                  [] OTHER -> forgotten,
                packets, count)

-----------------------------------------------------------------------------
(* The Server, as far as the Bridge's packets address it. *)

\* A handshake makes the sender the tracker's peer; the Server takes no other packet but
\* from the peer of a tracker it knows.  It shows the last status it was told.
ServerHears(packets, arrived) ==
    LET Kind(kind) == {i \in arrived : packets[i].kind = kind}
        heard == IF server.known /\ server.peer THEN arrived
                 ELSE {i \in arrived : \E j \in Kind("handshake") : j <= i}
        told == heard \cap Kind("sensor")
        last == {i \in told : \A j \in told : j <= i}
        shown == IF told = {} THEN {server.shown} ELSE {packets[i].status : i \in last}
    IN  {[server EXCEPT !.known = @ \/ heard # {}, !.peer = @ \/ heard # {},
                        !.heardAge = IF heard = {} THEN @ ELSE 0,
                        !.shown = status,
                        !.taps = @ + Cardinality(heard \cap Kind("tap"))] : status \in shown}

\* The sends that may fail: a refusal is reported by the next one.
FailingSends ==
    CASE refused -> {1}
      [] ~refused /\ server.up -> {0}
      [] OTHER -> {0} \cup 2 .. 4

\* The packets of w that are not lost reach the Server, which answers a handshake;
\* packets were waiting for the Bridge before.
Deliver(w, waiting) ==
    LET packets == DOMAIN w.sent
    IN  \E lost \in SUBSET packets :
            /\ IF server.up THEN faults < MaxFaults \/ lost = {} ELSE lost = packets
            /\ faults' = IF server.up /\ lost # {} THEN faults + 1 ELSE faults
            /\ server' \in ServerHears(w.sent, packets \ lost)
            /\ inbox' = IF \E i \in packets \ lost : w.sent[i].kind = "handshake"
                        THEN waiting \cup {"hello"} ELSE waiting

\* A host without a Server refuses a packet or is silent.
Refusals(w) ==
    CASE w.failed -> {FALSE}
      [] ~w.failed /\ ~server.up /\ w.sent # <<>> -> BOOLEAN
      [] OTHER -> {refused}

-----------------------------------------------------------------------------
Init ==
    /\ running = TRUE /\ conn = NoConnection
    /\ inbox = {} /\ refused = FALSE /\ silence = SilenceLimit
    /\ tracker = [on |-> TRUE, status |-> CHOOSE s \in Statuses : TRUE, held |-> FALSE]
    /\ server = [up |-> TRUE, known |-> FALSE, peer |-> FALSE, heardAge |-> 0, shown |-> 0, taps |-> 0]
    /\ due = Parties /\ presses = 0 /\ faults = 0

\* The process and its sockets are gone; the Server's answers go nowhere.
EndBridge ==
    /\ running' = FALSE /\ conn' = NoConnection /\ inbox' = {} /\ refused' = FALSE
    /\ presses' = IF tracker.held THEN 1 ELSE 0
    /\ server' = [server EXCEPT !.peer = FALSE, !.taps = 0]

\* A record of the hub for the tracker: SlimeVrOutput::process() and its caller.  An
\* error ends the Bridge if the record came over Wi-Fi and is only logged if over USB.
Record(type) ==
    /\ running /\ tracker.on
    /\ silence' = 0 /\ due' = due \ {"tracker"}
    /\ UNCHANGED <<tracker>>
    /\ LET old == IF conn = NoConnection THEN NewConnection ELSE conn
       IN  \E aux \in BOOLEAN : \E w \in {process(old, type, aux, failAt) : failAt \in FailingSends} :
            \/ /\ w.failed
               /\ EndBridge
               /\ UNCHANGED faults
            \/ /\ conn' = w.conn
               /\ refused' \in Refusals(w)
               /\ Deliver(w, inbox)
               /\ UNCHANGED <<running, presses>>

\* A tick of the main loop that meets the pending error in poll_server().
TickRefused ==
    /\ running /\ refused
    /\ refused' = FALSE
    /\ UNCHANGED <<running, conn, inbox, silence, tracker, server, due, presses, faults>>

\* Any other tick; one that fails is followed by one that does not in the same second.
Tick ==
    /\ running /\ conn # NoConnection /\ ~refused
    /\ \E w \in {tick(conn, failAt) : failAt \in FailingSends} :
        /\ conn' = w.conn
        /\ refused' \in Refusals(w)
        /\ due' = IF w.failed THEN due ELSE due \ {"loop"}
        /\ Deliver(w, IF w.failed THEN inbox \ {"hello"} ELSE {})
    /\ UNCHANGED <<running, silence, tracker, presses>>

\* main() returns: an error of the gateway socket, or the user.
BridgeEnds ==
    /\ running /\ faults < MaxFaults
    /\ faults' = faults + 1
    /\ EndBridge
    /\ UNCHANGED <<silence, tracker, due>>

BridgeStarts ==
    /\ ~running
    /\ running' = TRUE
    /\ UNCHANGED <<conn, inbox, refused, silence, tracker, server, due, presses, faults>>

ServerPings ==
    /\ server.up /\ server.known /\ server.peer /\ running
    /\ inbox' = inbox \cup {"ping"}
    /\ due' = due \ {"server"}
    /\ UNCHANGED <<running, conn, refused, silence, tracker, server, presses, faults>>

\* A packet of the Server is lost.
LoseAnswer ==
    /\ faults < MaxFaults
    /\ \E packet \in inbox : inbox' = inbox \ {packet}
    /\ faults' = faults + 1
    /\ UNCHANGED <<running, conn, refused, silence, tracker, server, due, presses>>

ServerStops ==
    /\ server.up /\ faults < MaxFaults
    /\ faults' = faults + 1
    /\ server' = [server EXCEPT !.up = FALSE, !.known = FALSE, !.peer = FALSE, !.shown = 0]
    /\ UNCHANGED <<bridgeVars, silence, tracker, due, presses>>

ServerStarts ==
    /\ ~server.up
    /\ server' = [server EXCEPT !.up = TRUE]
    /\ UNCHANGED <<bridgeVars, silence, tracker, due, presses, faults>>

\* The tracker is switched off or on, or its status changes.
TrackerChanges ==
    /\ faults < MaxFaults
    /\ faults' = faults + 1
    /\ \/ tracker' = [tracker EXCEPT !.on = ~@]
       \/ \E s \in Statuses \ {tracker.status} : tracker' = [tracker EXCEPT !.status = s]
    /\ UNCHANGED <<bridgeVars, silence, server, due, presses>>

Press ==
    /\ ~tracker.held /\ presses < MaxPresses
    /\ tracker' = [tracker EXCEPT !.held = TRUE]
    /\ presses' = presses + 1
    /\ UNCHANGED <<bridgeVars, silence, server, due, faults>>

Release ==
    /\ tracker.held
    /\ tracker' = [tracker EXCEPT !.held = FALSE]
    /\ UNCHANGED <<bridgeVars, silence, server, due, presses, faults>>

\* Who must act before a second is over.
MustAct ==
    (IF running /\ conn # NoConnection THEN {"loop"} ELSE {})
    \cup (IF running /\ tracker.on THEN {"tracker"} ELSE {})
    \cup (IF running /\ server.up /\ server.known /\ server.peer THEN {"server"} ELSE {})

Older(age, limit) == IF age < limit THEN age + 1 ELSE limit

\* A second passes, and the Server drops a tracker it has not heard for too long.
PassSecond ==
    /\ due \cap MustAct = {}
    /\ due' = Parties
    /\ silence' = Older(silence, SilenceLimit)
    /\ conn' = IF conn = NoConnection THEN conn
               ELSE [conn EXCEPT !.serverAge = Older(@, ServerTimeout),
                                 !.handshakeDue = TRUE, !.quiet = TRUE]
    /\ server' = IF server.known /\ server.heardAge + 1 >= ServerMemory
                 THEN [server EXCEPT !.known = FALSE, !.peer = FALSE, !.shown = 0, !.heardAge = 0]
                 ELSE [server EXCEPT !.heardAge = IF server.known THEN @ + 1 ELSE 0]
    /\ UNCHANGED <<running, inbox, refused, tracker, presses, faults>>

Next ==
    \/ \E type \in RecordTypes : Record(type)
    \/ TickRefused \/ Tick
    \/ BridgeEnds \/ BridgeStarts
    \/ ServerPings \/ LoseAnswer \/ ServerStops \/ ServerStarts
    \/ TrackerChanges \/ Press \/ Release
    \/ PassSecond

Spec == Init /\ [][Next]_vars

\* The tracker repeats its information and its status, the loop runs, time passes,
\* the Server pings, and whoever runs the Server and the Bridge starts them again.
Fairness ==
    /\ WF_vars(Record("info")) /\ WF_vars(Record("status"))
    /\ WF_vars(TickRefused \/ Tick) /\ WF_vars(PassSecond)
    /\ WF_vars(ServerPings) /\ WF_vars(ServerStarts) /\ WF_vars(BridgeStarts)

FairSpec == Spec /\ Fairness

-----------------------------------------------------------------------------
\* The connection is well formed: the Server time-out never overruns its limit.
TypeOK ==
    /\ running \in BOOLEAN
    /\ conn \in Connections \cup {NoConnection}
    /\ inbox \subseteq {"hello", "ping"} /\ refused \in BOOLEAN
    /\ silence \in 0 .. SilenceLimit
    /\ tracker \in [on : BOOLEAN, status : Statuses, held : BOOLEAN]
    /\ server \in [up : BOOLEAN, known : BOOLEAN, peer : BOOLEAN, heardAge : 0 .. ServerMemory,
                   shown : 0 .. 2, taps : 0 .. MaxPresses]
    /\ due \subseteq Parties
    /\ presses \in 0 .. MaxPresses /\ faults \in 0 .. MaxFaults

\* The Server never takes more taps than the button was pressed: not when a record is
\* repeated, when the input or the Server was away while the button was down, or when a
\* send failed half way.
TapsArePresses == server.taps <= presses

\* "The tracker disconnects only after the final source ends", and then it does: the
\* Server does not show a tracker for long after its last record, whatever is lost.
SilentTrackerGone ==
    server.known /\ server.shown # 0 => silence < InputTimeout + ServerMemory

\* A tracker that stays on ends up with the Server, shown with the status it reports,
\* across restarts of the Server and of the Bridge, lost packets and refused sends.
ActiveTrackerShown ==
    <>[]tracker.on =>
        <>[](server.known /\ server.peer /\ server.shown = map_hid_status(tracker.status))
=============================================================================
