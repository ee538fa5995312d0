-------------------------- MODULE GatewayDiscovery --------------------------
(***************************************************************************)
(* How a Wi-Fi gateway finds and keeps a Bridge: the sessions of           *)
(* gateway_task() in gateway_udp.c, with discovery, HELLO, the ACK time    *)
(* limit and a configured host name, and the replies of                    *)
(* GatewayInput::poll() in inputs.rs.                                      *)
(*                                                                         *)
(* Time passes in ticks of one second; an age counts the ticks since a     *)
(* time stamp of the code and stops at the limit it is compared with.  The *)
(* 1 ms loop runs at least once a tick.  Equal messages in flight are one. *)
(***************************************************************************)
EXTENDS Naturals

CONSTANTS
    Hosts,             \* addresses at which a Bridge may run
    NoHost,            \* no address
    DiscoverInterval,  \* DISCOVER_INTERVAL_MS in ticks
    HelloInterval,     \* HELLO_INTERVAL_MS in ticks
    AckTimeout,        \* ACK_TIMEOUT_MS in ticks
    MaxMishaps,        \* bound: ticks that end with a message in flight; lost messages
                       \* are counted up to this number
    MaxOutages         \* bound: Bridge stops, Wi-Fi drops and name changes

ASSUME HostsAssumption == NoHost \notin Hosts
ASSUME IntervalsAssumption ==
    /\ DiscoverInterval \in Nat /\ DiscoverInterval >= 1
    /\ HelloInterval \in Nat /\ HelloInterval >= 1
    /\ AckTimeout \in Nat /\ AckTimeout > HelloInterval
ASSUME DiscoveryBoundsAssumption == MaxMishaps \in Nat /\ MaxOutages \in Nat

VARIABLES
    wifi,        \* wifi_manager_is_connected()
    open,        \* gateway_task() has a socket and is in its inner loop
    gw,          \* its local variables and stats.server_connected
    polled,      \* the loop has run in this tick
    requests,    \* datagrams on their way to a host
    replies,     \* datagrams on their way to, or waiting at, the gateway
    bridges,     \* hosts on which a Bridge is running
    dns,         \* the address the configured name resolves to now
    mishaps,     \* lost messages and ticks that ended with a message in flight
    outages,     \* Bridge stops, Wi-Fi drops and name changes
    unanswered,  \* ghost: ticks since the selection or the last accepted ACK
    answered     \* ghost: an ACK was accepted since the search that led here

envVars == <<wifi, bridges, dns>>
ghosts == <<unanswered, answered>>
vars == <<envVars, open, gw, polled, requests, replies, mishaps, outages, ghosts>>

Requests == [kind : {"DISCOVER", "HELLO", "BATCH"}, host : Hosts]
Replies == [kind : {"OFFER", "ACK"}, host : Hosts]
Discover == [kind : {"DISCOVER"}, host : Hosts]
Hello(h) == [kind |-> "HELLO", host |-> h]
Batch(h) == [kind |-> "BATCH", host |-> h]

\* Fault: the age is not limited.
LaterUnlimited(age, limit) == age + 1

Later(age, limit) == IF age < limit THEN age + 1 ELSE limit

\* What resolve_server() makes of the configured name.
Resolved(g) == [g EXCEPT !.server = dns, !.known = dns # NoHost]

\* The variables of a new session; last_discover and last_hello are long ago.
NewSession(fixed) ==
    LET fresh == [fixed |-> fixed, server |-> NoHost, known |-> FALSE, connected |-> FALSE,
                  discoverAge |-> DiscoverInterval, helloAge |-> HelloInterval,
                  ackAge |-> AckTimeout]
    IN IF fixed THEN Resolved(fresh) ELSE fresh

Init ==
    /\ wifi = FALSE
    /\ open = FALSE
    /\ gw \in [fixed : BOOLEAN, server : {NoHost}, known : {FALSE}, connected : {FALSE},
               discoverAge : {DiscoverInterval}, helloAge : {HelloInterval},
               ackAge : {AckTimeout}]
    /\ polled = FALSE
    /\ requests = {}
    /\ replies = {}
    /\ bridges \in SUBSET Hosts
    /\ dns \in Hosts \union {NoHost}
    /\ mishaps = 0
    /\ outages = 0
    /\ unanswered = 0
    /\ answered = FALSE

-----------------------------------------------------------------------------
(* gateway_task() *)

OpenSession ==
    /\ ~open
    /\ wifi
    /\ open' = TRUE
    /\ gw' = NewSession(gw.fixed)
    /\ polled' = FALSE
    /\ unanswered' = 0
    /\ answered' = FALSE
    /\ UNCHANGED <<envVars, requests, replies, mishaps, outages>>

\* The socket is closed; stats.server_connected keeps its value.
CloseSession ==
    /\ open
    /\ ~wifi
    /\ open' = FALSE
    /\ UNCHANGED <<envVars, gw, polled, requests, replies, mishaps, outages, ghosts>>

Accepts(g, m) == m.kind = "ACK" /\ g.known /\ m.host = g.server

\* receive_control()
Received(g, m) ==
    IF m.kind = "OFFER" THEN [g EXCEPT !.server = m.host, !.known = TRUE]
    ELSE IF Accepts(g, m) THEN [g EXCEPT !.ackAge = 0, !.connected = TRUE]
    ELSE g

\* Fault: a name that could not be resolved is not tried again.
SearchDueDynamic(g) == ~g.fixed /\ ~g.known /\ g.discoverAge >= DiscoverInterval

SearchDue(g) == ~g.known /\ g.discoverAge >= DiscoverInterval

\* A configured name is resolved; otherwise DISCOVER is broadcast.
Searched(g) ==
    IF ~SearchDue(g) THEN g
    ELSE [(IF g.fixed THEN Resolved(g) ELSE g) EXCEPT !.discoverAge = 0]

HelloDue(g) == g.known /\ g.helloAge >= HelloInterval

Greeted(g) == IF HelloDue(g) THEN [g EXCEPT !.helloAge = 0] ELSE g

\* Fault: the time limit is one interval short.
ExpiredEarly(g) == g.connected /\ g.ackAge >= AckTimeout - 1

Expired(g) == g.connected /\ g.ackAge >= AckTimeout

\* Fault: the selection survives the time limit.
TimedOutSelected(g) == IF Expired(g) THEN [g EXCEPT !.connected = FALSE] ELSE g

TimedOut(g) ==
    IF Expired(g) THEN [g EXCEPT !.connected = FALSE, !.known = @ /\ g.fixed] ELSE g

\* The rest of a pass of the loop, after receive_control() made g of the variables
\* and sent the datagrams early; reports tells whether any report is waiting.
FinishPass(g, early, reports) ==
    LET searched == Searched(g)
        final == TimedOut(Greeted(searched))
    IN /\ gw' = final
       /\ requests' = requests \union early
             \union (IF SearchDue(g) /\ ~g.fixed THEN Discover ELSE {})
             \union (IF HelloDue(searched) THEN {Hello(searched.server)} ELSE {})
             \union (IF final.connected /\ reports THEN {Batch(final.server)} ELSE {})
       /\ polled' = TRUE
       /\ unanswered' = IF ~gw.known \/ g.server # gw.server \/ g.ackAge < gw.ackAge
                        THEN 0 ELSE unanswered
       /\ answered' = (final.known /\ (answered \/ g.ackAge < gw.ackAge))

\* A pass in which recvfrom() returns nothing.
PassIdle(reports) ==
    /\ open
    /\ wifi
    /\ FinishPass(gw, {}, reports)
    /\ UNCHANGED <<envVars, open, replies, mishaps, outages>>

\* A pass that receives m.
PassReceive(m, reports) ==
    /\ open
    /\ wifi
    /\ m \in replies
    /\ replies' = replies \ {m}
    /\ FinishPass(Received(gw, m), IF m.kind = "OFFER" THEN {Hello(m.host)} ELSE {}, reports)
    /\ UNCHANGED <<envVars, open, mishaps, outages>>

Tick ==
    /\ open
    /\ wifi
    /\ polled
    /\ LET inFlight == requests \union replies # {} IN
          /\ inFlight => mishaps < MaxMishaps
          /\ mishaps' = IF inFlight THEN mishaps + 1 ELSE mishaps
    /\ polled' = FALSE
    /\ gw' = [gw EXCEPT !.discoverAge = Later(@, DiscoverInterval),
                        !.helloAge = Later(@, HelloInterval),
                        !.ackAge = Later(@, AckTimeout)]
    /\ unanswered' = Later(unanswered, AckTimeout + 1)
    /\ UNCHANGED <<envVars, open, requests, replies, outages, answered>>

-----------------------------------------------------------------------------
(* The Bridge and the network *)

Reply(m) == [kind |-> IF m.kind = "DISCOVER" THEN "OFFER" ELSE "ACK", host |-> m.host]

Answer(m) ==
    /\ m \in requests
    /\ m.host \in bridges
    /\ requests' = requests \ {m}
    /\ replies' = replies \union {Reply(m)}
    /\ UNCHANGED <<envVars, open, gw, polled, mishaps, outages, ghosts>>

\* No Bridge listens at the host.
Unheard(m) ==
    /\ m \in requests
    /\ m.host \notin bridges
    /\ requests' = requests \ {m}
    /\ UNCHANGED <<envVars, open, gw, polled, replies, mishaps, outages, ghosts>>

Lose ==
    /\ \/ \E m \in requests : requests' = requests \ {m} /\ UNCHANGED replies
       \/ \E m \in replies : replies' = replies \ {m} /\ UNCHANGED requests
    /\ mishaps' = Later(mishaps, MaxMishaps)
    /\ UNCHANGED <<envVars, open, gw, polled, outages, ghosts>>

Outage == outages < MaxOutages /\ outages' = outages + 1

StartBridge(h) ==
    /\ h \notin bridges
    /\ bridges' = bridges \union {h}
    /\ UNCHANGED <<wifi, dns, open, gw, polled, requests, replies, mishaps, outages, ghosts>>

StopBridge(h) ==
    /\ Outage
    /\ bridges' = bridges \ {h}
    /\ UNCHANGED <<wifi, dns, open, gw, polled, requests, replies, mishaps, ghosts>>

\* The name is given another address, or none.
MoveName ==
    /\ Outage
    /\ dns' \in (Hosts \union {NoHost}) \ {dns}
    /\ UNCHANGED <<wifi, bridges, open, gw, polled, requests, replies, mishaps, ghosts>>

WifiJoins ==
    /\ ~wifi
    /\ wifi' = TRUE
    /\ UNCHANGED <<bridges, dns, open, gw, polled, requests, replies, mishaps, outages, ghosts>>

\* The station is disconnected; everything in flight is lost.
WifiDrops ==
    /\ wifi
    /\ Outage
    /\ wifi' = FALSE
    /\ requests' = {}
    /\ replies' = {}
    /\ UNCHANGED <<bridges, dns, open, gw, polled, mishaps, ghosts>>

Pass ==
    \E reports \in BOOLEAN :
        PassIdle(reports) \/ \E m \in replies : PassReceive(m, reports)

Next ==
    \/ OpenSession \/ CloseSession \/ Pass \/ Tick
    \/ \E m \in requests : Answer(m) \/ Unheard(m)
    \/ Lose
    \/ \E h \in Hosts : StartBridge(h) \/ StopBridge(h)
    \/ MoveName \/ WifiJoins \/ WifiDrops

Spec == Init /\ [][Next]_vars

\* The task runs, time passes and a running Bridge answers; if messages are sent again
\* and again, some of them get through.
FairSpec ==
    /\ Spec
    /\ WF_vars(OpenSession) /\ WF_vars(CloseSession)
    /\ WF_vars(Pass) /\ WF_vars(Tick)
    /\ SF_vars(\E m \in requests : Answer(m) \/ Unheard(m))
    /\ SF_vars(\E m \in replies, reports \in BOOLEAN : PassReceive(m, reports))

-----------------------------------------------------------------------------
(* Properties *)

\* The types of the variables; ages stop at their limits.
TypeOK ==
    /\ wifi \in BOOLEAN /\ open \in BOOLEAN /\ polled \in BOOLEAN
    /\ gw \in [fixed : BOOLEAN, server : Hosts \union {NoHost}, known : BOOLEAN, connected : BOOLEAN,
               discoverAge : 0..DiscoverInterval, helloAge : 0..HelloInterval,
               ackAge : 0..AckTimeout]
    /\ gw.known => gw.server # NoHost
    /\ requests \subseteq Requests
    /\ replies \subseteq Replies
    /\ bridges \subseteq Hosts
    /\ dns \in Hosts \union {NoHost}
    /\ mishaps \in 0..MaxMishaps /\ outages \in 0..MaxOutages
    /\ unanswered \in 0..(AckTimeout + 1) /\ answered \in BOOLEAN

\* A discovered Bridge that has answered and falls silent is given up within the
\* ACK time limit, also when a later OFFER had replaced the one that answered.
SilentServerForgotten ==
    open /\ ~gw.fixed /\ gw.known /\ answered => unanswered <= AckTimeout

\* One message lost, or late by a tick, does not disconnect a gateway: HELLO is
\* repeated often enough for the ACK time limit.
KeepsConnection ==
    [][gw.connected /\ ~gw'.connected => mishaps > 1 \/ outages > 0]_vars

\* A gateway whose possible Bridges all run and whose Wi-Fi stays up connects, and
\* reconnects after every loss of its connection.
EventuallyConnected ==
    <>[](wifi /\ bridges = Hosts /\ (gw.fixed => dns # NoHost)) => []<>(open /\ gw.connected)

\* "Three seconds without a Bridge ACK clears the dynamic Bridge selection"
\* (docs/architecture.md:45): also the selection of a Bridge that never answered.
SelectionExpires ==
    open /\ ~gw.fixed /\ gw.known => unanswered <= AckTimeout

\* "A configured static host is resolved again instead" (docs/architecture.md:46):
\* a gateway follows its host to a new address.
FollowsName ==
    \A h \in Hosts :
        <>[](gw.fixed /\ wifi /\ dns = h /\ bridges = {h}) => <>(open /\ gw.known /\ gw.server = h)
=============================================================================
