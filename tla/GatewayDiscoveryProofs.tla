----------------------- MODULE GatewayDiscoveryProofs -----------------------
(***************************************************************************)
(* The safety of GatewayDiscovery for all hosts, intervals and bounds: its *)
(* types, that a Bridge that has fallen silent is forgotten, and how the   *)
(* HELLO interval and the ACK time limit keep a connection over one lost   *)
(* or late message.                                                        *)
(***************************************************************************)
EXTENDS GatewayDiscovery, TLAPS

\* Only a selected Bridge is connected; a pass disconnects at the time limit and greets
\* when the interval is over.
Session ==
    /\ gw.connected => gw.known
    /\ open /\ polled /\ gw.connected => gw.ackAge < AckTimeout
    /\ open /\ polled /\ gw.known => gw.helloAge < HelloInterval

\* A discovered Bridge that has answered is connected, and has been silent for no longer
\* than the age of the last ACK.
AnswerIsFresh ==
    open /\ ~gw.fixed /\ answered => gw.connected /\ unanswered <= gw.ackAge

Safe == TypeOK /\ Session /\ AnswerIsFresh

-----------------------------------------------------------------------------
(* The connection while there is no outage *)

\* Without an outage only a Bridge that runs has sent anything, is connected, or has been
\* closed on.
NoOutage ==
    outages = 0 =>
        /\ \A m \in replies : m.host \in bridges
        /\ gw.connected => gw.server \in bridges
        /\ open => wifi
        /\ ~open => ~gw.connected

\* A datagram that will be answered with an ACK of the selected Bridge, or that ACK.
AckPending ==
    \/ \E m \in requests : m.kind # "DISCOVER" /\ m.host = gw.server
    \/ \E m \in replies : m.kind = "ACK" /\ m.host = gw.server

\* The last ACK is as old as the last HELLO, or one interval more while the answer to it
\* is pending, and a mishap adds one interval to that.
AckFollowsHello(m) ==
    \/ gw.ackAge <= gw.helloAge + (IF m = 0 THEN 0 ELSE HelloInterval)
    \/ /\ polled /\ AckPending /\ gw.helloAge = 0
       /\ gw.ackAge <= IF m = 0 THEN HelloInterval ELSE 2 * HelloInterval

AckOnTime ==
    outages = 0 /\ mishaps <= 1 /\ gw.connected => AckFollowsHello(mishaps)

Kept == Safe /\ NoOutage /\ AckOnTime

-----------------------------------------------------------------------------
(* What the parts of a pass make of the variables of gateway_task() *)

Sessions ==
    [fixed : BOOLEAN, server : Hosts \union {NoHost}, known : BOOLEAN, connected : BOOLEAN,
     discoverAge : 0..DiscoverInterval, helloAge : 0..HelloInterval, ackAge : 0..AckTimeout]

\* A selected server has an address, and only a selected server is connected.
Selected(g) == (g.known => g.server # NoHost) /\ (g.connected => g.known)

LEMMA Intervals ==
    /\ DiscoverInterval \in Nat /\ HelloInterval \in Nat /\ AckTimeout \in Nat
    /\ HelloInterval >= 1 /\ DiscoverInterval >= 1 /\ AckTimeout > HelloInterval
    /\ 0 \in 0..DiscoverInterval /\ 0 \in 0..HelloInterval /\ 0 \in 0..AckTimeout
BY IntervalsAssumption

LEMMA ResolvedFacts ==
    ASSUME NEW g \in Sessions, dns \in Hosts \union {NoHost}, NEW r, r = Resolved(g)
    PROVE  /\ r \in Sessions /\ r.fixed = g.fixed /\ r.connected = g.connected
           /\ r.discoverAge = g.discoverAge /\ r.helloAge = g.helloAge /\ r.ackAge = g.ackAge
           /\ r.server = dns /\ r.known = (dns # NoHost)
<1> DEFINE known == dns # NoHost
<1>1. r = [g EXCEPT !.server = dns, !.known = known] /\ known \in BOOLEAN
    BY DEF Resolved
<1> HIDE DEF known
<1>2. /\ r \in Sessions /\ r.fixed = g.fixed /\ r.connected = g.connected
      /\ r.discoverAge = g.discoverAge /\ r.helloAge = g.helloAge /\ r.ackAge = g.ackAge
      /\ r.server = dns /\ r.known = known
    BY <1>1 DEF Sessions
<1> QED
    BY <1>2 DEF known

LEMMA ReceivedFacts ==
    ASSUME NEW g \in Sessions, Selected(g), NEW m \in Replies, NEW r, r = Received(g, m)
    PROVE  /\ r \in Sessions /\ Selected(r) /\ r.fixed = g.fixed
           /\ r.discoverAge = g.discoverAge /\ r.helloAge = g.helloAge
           /\ m.kind = "OFFER" =>
                r.server = m.host /\ r.known /\ r.connected = g.connected /\ r.ackAge = g.ackAge
           /\ Accepts(g, m) => r.server = g.server /\ r.connected /\ r.ackAge = 0
           /\ m.kind # "OFFER" /\ ~Accepts(g, m) => r = g
<1>1. m.kind \in {"OFFER", "ACK"} /\ m.host \in Hosts /\ m.host # NoHost
    BY HostsAssumption DEF Replies
<1>2. CASE m.kind = "OFFER"
    <2> DEFINE After(yes) == [g EXCEPT !.server = m.host, !.known = yes]
    <2>1. \A yes \in BOOLEAN :
            /\ After(yes) \in Sessions /\ After(yes).fixed = g.fixed
            /\ After(yes).discoverAge = g.discoverAge /\ After(yes).helloAge = g.helloAge
            /\ After(yes).server = m.host /\ After(yes).known = yes
            /\ After(yes).connected = g.connected /\ After(yes).ackAge = g.ackAge
        BY <1>1 DEF Sessions
    <2>2. r = After(TRUE) /\ ~Accepts(g, m)
        BY <1>2 DEF Received, Accepts
    <2> HIDE DEF After
    <2>3. /\ r \in Sessions /\ r.fixed = g.fixed
          /\ r.discoverAge = g.discoverAge /\ r.helloAge = g.helloAge
          /\ r.server = m.host /\ r.known = TRUE
          /\ r.connected = g.connected /\ r.ackAge = g.ackAge
        BY <2>1, <2>2
    <2> QED
        BY <1>1, <1>2, <2>2, <2>3 DEF Selected
<1>3. CASE Accepts(g, m)
    <2> DEFINE After(yes, age) == [g EXCEPT !.ackAge = age, !.connected = yes]
    <2>1. \A yes \in BOOLEAN, age \in 0..AckTimeout :
            /\ After(yes, age) \in Sessions /\ After(yes, age).fixed = g.fixed
            /\ After(yes, age).discoverAge = g.discoverAge
            /\ After(yes, age).helloAge = g.helloAge
            /\ After(yes, age).server = g.server /\ After(yes, age).known = g.known
            /\ After(yes, age).connected = yes /\ After(yes, age).ackAge = age
        BY DEF Sessions
    <2>2. r = After(TRUE, 0) /\ m.kind # "OFFER" /\ g.known
        BY <1>3 DEF Received, Accepts
    <2> HIDE DEF After
    <2>3. /\ r \in Sessions /\ r.fixed = g.fixed
          /\ r.discoverAge = g.discoverAge /\ r.helloAge = g.helloAge
          /\ r.server = g.server /\ r.known = g.known
          /\ r.connected = TRUE /\ r.ackAge = 0
        <3>1. 0 \in 0..AckTimeout
            BY Intervals
        <3> DEFINE a == After(TRUE, 0)
        <3>2. /\ a \in Sessions /\ a.fixed = g.fixed
              /\ a.discoverAge = g.discoverAge /\ a.helloAge = g.helloAge
              /\ a.server = g.server /\ a.known = g.known
              /\ a.connected = TRUE /\ a.ackAge = 0
            BY <2>1, <3>1
        <3>3. r = a
            BY <2>2
        <3> HIDE DEF a
        <3> QED
            BY <3>2, <3>3
    <2> QED
        BY <1>3, <2>2, <2>3 DEF Selected
<1>4. CASE m.kind # "OFFER" /\ ~Accepts(g, m)
    <2>1. r = g
        BY <1>4 DEF Received
    <2> QED
        BY <1>4, <2>1
<1> QED
    BY <1>2, <1>3, <1>4

\* A search leaves the connection and a selection alone.
LEMMA SearchedFacts ==
    ASSUME NEW g \in Sessions, Selected(g), dns \in Hosts \union {NoHost},
           NEW r, r = Searched(g)
    PROVE  /\ r \in Sessions /\ Selected(r) /\ r.fixed = g.fixed
           /\ r.connected = g.connected /\ r.helloAge = g.helloAge /\ r.ackAge = g.ackAge
           /\ g.known => r.known /\ r.server = g.server
           /\ ~g.fixed => r.known = g.known
<1>1. CASE ~SearchDue(g)
    BY <1>1 DEF Searched
<1>2. CASE SearchDue(g)
    <2> DEFINE s == IF g.fixed THEN Resolved(g) ELSE g
    <2>1. ~g.known /\ ~g.connected
        BY <1>2 DEF SearchDue, Selected
    <2>2. /\ s \in Sessions /\ s.fixed = g.fixed /\ s.connected = g.connected
          /\ s.helloAge = g.helloAge /\ s.ackAge = g.ackAge
          /\ s.known => s.server # NoHost
          /\ ~g.fixed => s.known = g.known
        <3>1. CASE g.fixed
            BY <3>1, ResolvedFacts
        <3>2. CASE ~g.fixed
            BY <3>2 DEF Selected
        <3> QED
            BY <3>1, <3>2
    <2>3. r = [s EXCEPT !.discoverAge = 0]
        BY <1>2 DEF Searched
    <2> HIDE DEF s
    <2>4. /\ r \in Sessions /\ r.fixed = s.fixed /\ r.connected = s.connected
          /\ r.helloAge = s.helloAge /\ r.ackAge = s.ackAge
          /\ r.known = s.known /\ r.server = s.server
        BY <2>2, <2>3, Intervals DEF Sessions
    <2> QED
        BY <2>1, <2>2, <2>4 DEF Selected
<1> QED
    BY <1>1, <1>2

LEMMA GreetedFacts ==
    ASSUME NEW g \in Sessions, NEW r, r = Greeted(g)
    PROVE  /\ r \in Sessions /\ r.fixed = g.fixed /\ r.server = g.server /\ r.known = g.known
           /\ r.connected = g.connected /\ r.ackAge = g.ackAge
           /\ HelloDue(g) => r.helloAge = 0
           /\ ~HelloDue(g) => r.helloAge = g.helloAge
           /\ g.known => r.helloAge < HelloInterval
<1>1. CASE HelloDue(g)
    <2>1. r = [g EXCEPT !.helloAge = 0]
        BY <1>1 DEF Greeted
    <2>2. /\ r \in Sessions /\ r.fixed = g.fixed /\ r.server = g.server /\ r.known = g.known
          /\ r.connected = g.connected /\ r.ackAge = g.ackAge /\ r.helloAge = 0
        BY <2>1, Intervals DEF Sessions
    <2> QED
        BY <1>1, <2>2, Intervals
<1>2. CASE ~HelloDue(g)
    BY <1>2, Intervals DEF Greeted, HelloDue, Sessions
<1> QED
    BY <1>1, <1>2

\* The time limit disconnects; the selection of a discovered server goes with it.
LEMMA TimedOutFacts ==
    ASSUME NEW g \in Sessions, Selected(g), NEW r, r = TimedOut(g)
    PROVE  /\ r \in Sessions /\ Selected(r) /\ r.fixed = g.fixed /\ r.server = g.server
           /\ r.helloAge = g.helloAge /\ r.ackAge = g.ackAge
           /\ r.connected => g.connected /\ r.ackAge < AckTimeout
           /\ g.connected /\ g.ackAge < AckTimeout => r.connected /\ r.known = g.known
           /\ r.known => g.known
           /\ r.known /\ ~r.fixed => r.connected = g.connected
<1>1. CASE Expired(g)
    <2> DEFINE known == g.known /\ g.fixed
               After(no) == [g EXCEPT !.connected = no, !.known = known]
    <2>1. known \in BOOLEAN
        BY DEF Sessions
    <2>2. r = After(FALSE)
        BY <1>1 DEF TimedOut, Sessions
    <2> HIDE DEF known
    <2>3. \A no \in BOOLEAN :
            /\ After(no) \in Sessions /\ After(no).fixed = g.fixed
            /\ After(no).server = g.server /\ After(no).helloAge = g.helloAge
            /\ After(no).ackAge = g.ackAge
            /\ After(no).connected = no /\ After(no).known = known
        BY <2>1 DEF Sessions
    <2> HIDE DEF After
    <2>4. /\ r \in Sessions /\ r.fixed = g.fixed /\ r.server = g.server
          /\ r.helloAge = g.helloAge /\ r.ackAge = g.ackAge
          /\ r.connected = FALSE /\ r.known = known
        BY <2>2, <2>3
    <2>5. g.ackAge \in Nat /\ g.connected /\ ~(g.ackAge < AckTimeout)
        BY <1>1, Intervals DEF Expired, Sessions
    <2> QED
        BY <2>4, <2>5 DEF known, Selected
<1>2. CASE ~Expired(g)
    <2>1. r = g
        BY <1>2 DEF TimedOut
    <2>2. g.ackAge \in Nat /\ (g.connected => g.ackAge < AckTimeout)
        BY <1>2, Intervals DEF Expired, Sessions
    <2> QED
        BY <2>1, <2>2
<1> QED
    BY <1>1, <1>2

-----------------------------------------------------------------------------
(* A pass of the loop *)

LEMMA TypedState ==
    TypeOK /\ Session <=>
        /\ wifi \in BOOLEAN /\ open \in BOOLEAN /\ polled \in BOOLEAN
        /\ gw \in Sessions /\ Selected(gw)
        /\ requests \subseteq Requests /\ replies \subseteq Replies /\ bridges \subseteq Hosts
        /\ dns \in Hosts \union {NoHost}
        /\ mishaps \in 0..MaxMishaps /\ outages \in 0..MaxOutages
        /\ unanswered \in 0..(AckTimeout + 1) /\ answered \in BOOLEAN
        /\ open /\ polled /\ gw.connected => gw.ackAge < AckTimeout
        /\ open /\ polled /\ gw.known => gw.helloAge < HelloInterval
BY DEF TypeOK, Session, Sessions, Selected

LEMMA PassFacts ==
    ASSUME TypeOK, NEW g \in Sessions, Selected(g), NEW early \in SUBSET Requests,
           NEW reports \in BOOLEAN, FinishPass(g, early, reports)
    PROVE  /\ gw' \in Sessions /\ Selected(gw') /\ gw'.fixed = g.fixed
           /\ gw'.ackAge = g.ackAge
           /\ gw'.connected => g.connected /\ g.ackAge < AckTimeout
           /\ g.connected /\ g.ackAge < AckTimeout => gw'.connected /\ gw'.known
           /\ gw'.known /\ ~g.fixed => g.known /\ gw'.connected = g.connected
           /\ gw'.known => gw'.helloAge < HelloInterval
           /\ g.known => gw'.server = g.server
           /\ g.known /\ g.helloAge < HelloInterval => gw'.helloAge = g.helloAge
           /\ g.known /\ ~(g.helloAge < HelloInterval) =>
                gw'.helloAge = 0 /\ Hello(g.server) \in requests'
           /\ polled' = TRUE
           /\ requests \union early \subseteq requests' /\ requests' \subseteq Requests
           /\ unanswered' = IF ~gw.known \/ g.server # gw.server \/ g.ackAge < gw.ackAge
                            THEN 0 ELSE unanswered
           /\ answered' \in BOOLEAN
           /\ answered' => gw'.known /\ (answered \/ g.ackAge < gw.ackAge)
<1> DEFINE s == Searched(g)
           h == Greeted(s)
           f == TimedOut(h)
<1>1. /\ gw' = f
      /\ requests' = requests \union early
            \union (IF SearchDue(g) /\ ~g.fixed THEN Discover ELSE {})
            \union (IF HelloDue(s) THEN {Hello(s.server)} ELSE {})
            \union (IF f.connected /\ reports THEN {Batch(f.server)} ELSE {})
      /\ polled' = TRUE
      /\ unanswered' = IF ~gw.known \/ g.server # gw.server \/ g.ackAge < gw.ackAge
                       THEN 0 ELSE unanswered
      /\ answered' = (f.known /\ (answered \/ g.ackAge < gw.ackAge))
    BY DEF FinishPass
<1>2. dns \in Hosts \union {NoHost} /\ requests \subseteq Requests
    BY DEF TypeOK
<1>3. /\ s \in Sessions /\ Selected(s) /\ s.fixed = g.fixed
      /\ s.connected = g.connected /\ s.helloAge = g.helloAge /\ s.ackAge = g.ackAge
      /\ g.known => s.known /\ s.server = g.server
      /\ ~g.fixed => s.known = g.known
    BY <1>2, SearchedFacts
<1> HIDE DEF s
<1>4. /\ h \in Sessions /\ h.fixed = s.fixed /\ h.server = s.server /\ h.known = s.known
      /\ h.connected = s.connected /\ h.ackAge = s.ackAge
      /\ HelloDue(s) => h.helloAge = 0
      /\ ~HelloDue(s) => h.helloAge = s.helloAge
      /\ s.known => h.helloAge < HelloInterval
    BY <1>3, GreetedFacts
<1> HIDE DEF h
<1>5. Selected(h)
    BY <1>3, <1>4 DEF Selected
<1>6. /\ f \in Sessions /\ Selected(f) /\ f.fixed = h.fixed /\ f.server = h.server
      /\ f.helloAge = h.helloAge /\ f.ackAge = h.ackAge
      /\ f.connected => h.connected /\ f.ackAge < AckTimeout
      /\ h.connected /\ h.ackAge < AckTimeout => f.connected /\ f.known = h.known
      /\ f.known => h.known
      /\ f.known /\ ~f.fixed => f.connected = h.connected
    BY <1>4, <1>5, TimedOutFacts
<1> HIDE DEF f
<1>7. requests \union early \subseteq requests'
    BY <1>1
<1>8. requests' \subseteq Requests
    <2>1. Discover \subseteq Requests
        BY DEF Discover, Requests
    <2>2. \A x \in Hosts : Hello(x) \in Requests /\ Batch(x) \in Requests
        BY DEF Hello, Batch, Requests
    <2>3. HelloDue(s) => s.server \in Hosts
        BY <1>3 DEF HelloDue, Selected, Sessions
    <2>4. f.connected => f.server \in Hosts
        BY <1>6 DEF Selected, Sessions
    <2> QED
        BY <1>1, <1>2, <2>1, <2>2, <2>3, <2>4
<1>9. g.known => (HelloDue(s) <=> ~(g.helloAge < HelloInterval))
    BY <1>3, Intervals DEF HelloDue, Sessions
<1>10. g.known /\ ~(g.helloAge < HelloInterval) =>
            gw'.helloAge = 0 /\ Hello(g.server) \in requests'
    BY <1>1, <1>3, <1>4, <1>6, <1>9
<1>11. g.known /\ g.helloAge < HelloInterval => gw'.helloAge = g.helloAge
    BY <1>1, <1>3, <1>4, <1>6, <1>9
<1>12. g.connected /\ g.ackAge < AckTimeout => gw'.connected /\ gw'.known
    BY <1>1, <1>3, <1>4, <1>6, <1>5 DEF Selected
<1>13. /\ gw' \in Sessions /\ Selected(gw') /\ gw'.fixed = g.fixed
       /\ gw'.ackAge = g.ackAge
       /\ gw'.connected => g.connected /\ g.ackAge < AckTimeout
       /\ gw'.known /\ ~g.fixed => g.known /\ gw'.connected = g.connected
       /\ gw'.known => gw'.helloAge < HelloInterval
       /\ g.known => gw'.server = g.server
    BY <1>1, <1>3, <1>4, <1>6
<1>14. /\ answered' \in BOOLEAN
       /\ answered' => gw'.known /\ (answered \/ g.ackAge < gw.ackAge)
    BY <1>1
<1> QED
    BY <1>1, <1>7, <1>8, <1>10, <1>11, <1>12, <1>13, <1>14

-----------------------------------------------------------------------------
(* The steps keep Safe *)

LEMMA InitSafe == Init => Safe
<1> SUFFICES ASSUME Init
             PROVE  Safe
    OBVIOUS
<1>1. TypeOK
    <2>1. gw \in Sessions /\ gw.known = FALSE
        <3>1. /\ DiscoverInterval \in 0..DiscoverInterval /\ HelloInterval \in 0..HelloInterval
              /\ AckTimeout \in 0..AckTimeout
            BY Intervals
        <3> QED
            BY <3>1 DEF Init, Sessions
    <2>2. mishaps \in 0..MaxMishaps /\ outages \in 0..MaxOutages /\ unanswered \in 0..(AckTimeout + 1)
        BY Intervals, DiscoveryBoundsAssumption DEF Init
    <2> QED
        BY <2>1, <2>2 DEF Init, TypeOK, Sessions
<1>2. Session /\ AnswerIsFresh
    BY DEF Init, Session, AnswerIsFresh
<1> QED
    BY <1>1, <1>2 DEF Safe

\* The rest of a pass with what receive_control() made of the variables.
LEMMA FinishPassSafe ==
    ASSUME Safe, open, NEW g \in Sessions, Selected(g), NEW early \in SUBSET Requests,
           NEW reports \in BOOLEAN, FinishPass(g, early, reports),
           g.fixed = gw.fixed, g.ackAge <= gw.ackAge,
           g.ackAge < gw.ackAge => g.connected, gw.connected => g.connected,
           UNCHANGED <<envVars, open, mishaps, outages>>, replies' \subseteq replies
    PROVE  Safe'
<1>1. /\ gw' \in Sessions /\ Selected(gw') /\ gw'.fixed = g.fixed
      /\ gw'.ackAge = g.ackAge
      /\ gw'.connected => g.connected /\ g.ackAge < AckTimeout
      /\ gw'.known /\ ~g.fixed => g.known /\ gw'.connected = g.connected
      /\ gw'.known => gw'.helloAge < HelloInterval
      /\ polled' = TRUE /\ requests' \subseteq Requests
      /\ unanswered' = IF ~gw.known \/ g.server # gw.server \/ g.ackAge < gw.ackAge
                       THEN 0 ELSE unanswered
      /\ answered' \in BOOLEAN
      /\ answered' => gw'.known /\ (answered \/ g.ackAge < gw.ackAge)
    BY PassFacts DEF Safe
<1>2. TypeOK /\ Session /\ AnswerIsFresh
    BY DEF Safe
<1>3. /\ gw \in Sessions /\ gw.ackAge \in Nat /\ g.ackAge \in Nat
      /\ unanswered \in 0..(AckTimeout + 1) /\ AckTimeout \in Nat
    BY <1>2, TypedState, Intervals DEF Sessions
<1>4. unanswered' \in 0..(AckTimeout + 1) /\ (unanswered' = unanswered \/ unanswered' = 0)
    BY <1>1, <1>3
<1>5. answered' \in BOOLEAN
    BY <1>1
<1>6. TypeOK' /\ Session'
    <2>1. /\ wifi' \in BOOLEAN /\ open' \in BOOLEAN /\ replies' \subseteq Replies
          /\ bridges' \subseteq Hosts /\ dns' \in Hosts \union {NoHost}
          /\ mishaps' \in 0..MaxMishaps /\ outages' \in 0..MaxOutages
        BY <1>2 DEF TypeOK, envVars
    <2>2. TypeOK'
        BY <1>1, <1>4, <1>5, <2>1 DEF TypeOK, Sessions, Selected
    <2>3. Session'
        BY <1>1 DEF Session, Selected
    <2> QED
        BY <2>2, <2>3
<1>7. AnswerIsFresh'
    <2> SUFFICES ASSUME ~gw'.fixed, answered'
                 PROVE  gw'.connected /\ unanswered' <= gw'.ackAge
        BY DEF AnswerIsFresh
    <2>1. gw'.known /\ gw'.connected = g.connected /\ ~gw.fixed
        BY <1>1
    <2>2. CASE g.ackAge < gw.ackAge
        BY <1>1, <1>3, <2>1, <2>2
    <2>3. CASE ~(g.ackAge < gw.ackAge)
        <3>1. answered /\ g.ackAge = gw.ackAge
            BY <1>1, <1>3, <2>3
        <3>2. gw.connected /\ unanswered <= gw.ackAge
            BY <1>2, <2>1, <3>1 DEF AnswerIsFresh
        <3> QED
            BY <1>1, <1>3, <1>4, <2>1, <3>1, <3>2
    <2> QED
        BY <2>2, <2>3
<1> QED
    BY <1>6, <1>7 DEF Safe

LEMMA ReceivedPass ==
    ASSUME Safe, NEW m \in replies, NEW g, g = Received(gw, m)
    PROVE  /\ gw \in Sessions /\ Selected(gw) /\ m \in Replies
           /\ g \in Sessions /\ Selected(g) /\ g.fixed = gw.fixed
           /\ g.ackAge <= gw.ackAge /\ (g.ackAge < gw.ackAge => g.connected)
           /\ gw.connected => g.connected
           /\ (IF m.kind = "OFFER" THEN {Hello(m.host)} ELSE {}) \in SUBSET Requests
<1>1. gw \in Sessions /\ Selected(gw) /\ m \in Replies
    BY TypedState DEF Safe
<1>2. /\ g \in Sessions /\ Selected(g) /\ g.fixed = gw.fixed
      /\ m.kind = "OFFER" => g.connected = gw.connected /\ g.ackAge = gw.ackAge
      /\ Accepts(gw, m) => g.connected /\ g.ackAge = 0
      /\ m.kind # "OFFER" /\ ~Accepts(gw, m) => g = gw
    BY <1>1, ReceivedFacts
<1>3. g.ackAge \in Nat /\ gw.ackAge \in Nat
    BY <1>1, <1>2, Intervals DEF Sessions
<1>4. /\ g.ackAge <= gw.ackAge /\ (g.ackAge < gw.ackAge => g.connected)
      /\ gw.connected => g.connected
    BY <1>2, <1>3
<1>5. Hello(m.host) \in Requests
    BY <1>1 DEF Hello, Requests, Replies
<1> QED
    BY <1>1, <1>2, <1>4, <1>5

LEMMA PassSafe ==
    ASSUME Safe, Pass
    PROVE  Safe'
<1>1. PICK reports \in BOOLEAN :
            PassIdle(reports) \/ \E m \in replies : PassReceive(m, reports)
    BY DEF Pass
<1>2. CASE PassIdle(reports)
    <2>1. /\ open /\ FinishPass(gw, {}, reports)
          /\ UNCHANGED <<envVars, open, replies, mishaps, outages>>
        BY <1>2 DEF PassIdle
    <2>2. gw \in Sessions /\ Selected(gw) /\ gw.ackAge \in Nat
        BY TypedState, Intervals DEF Safe, Sessions
    <2> QED
        BY <2>1, <2>2, FinishPassSafe
<1>3. CASE \E m \in replies : PassReceive(m, reports)
    <2>1. PICK m \in replies : PassReceive(m, reports)
        BY <1>3
    <2> DEFINE g == Received(gw, m)
               early == IF m.kind = "OFFER" THEN {Hello(m.host)} ELSE {}
    <2>2. /\ open /\ replies' = replies \ {m}
          /\ FinishPass(g, early, reports)
          /\ UNCHANGED <<envVars, open, mishaps, outages>>
        BY <2>1 DEF PassReceive
    <2>3. /\ g \in Sessions /\ Selected(g) /\ g.fixed = gw.fixed
          /\ g.ackAge <= gw.ackAge /\ (g.ackAge < gw.ackAge => g.connected)
          /\ gw.connected => g.connected
          /\ early \in SUBSET Requests
        BY ReceivedPass
    <2> HIDE DEF g, early
    <2> QED
        BY <2>2, <2>3, FinishPassSafe
<1> QED
    BY <1>1, <1>2, <1>3

\* The ages after a tick.
LEMMA TickFacts ==
    ASSUME Safe, Tick
    PROVE  /\ gw' \in Sessions /\ Selected(gw') /\ gw'.fixed = gw.fixed
           /\ gw'.server = gw.server /\ gw'.known = gw.known /\ gw'.connected = gw.connected
           /\ gw'.helloAge = Later(gw.helloAge, HelloInterval)
           /\ gw'.ackAge = Later(gw.ackAge, AckTimeout)
<1>1. gw \in Sessions /\ Selected(gw)
    BY TypedState DEF Safe
<1> DEFINE a == Later(gw.discoverAge, DiscoverInterval)
           b == Later(gw.helloAge, HelloInterval)
           c == Later(gw.ackAge, AckTimeout)
<1>2. gw' = [gw EXCEPT !.discoverAge = a, !.helloAge = b, !.ackAge = c]
    BY DEF Tick
<1>3. a \in 0..DiscoverInterval /\ b \in 0..HelloInterval /\ c \in 0..AckTimeout
    BY <1>1, Intervals DEF Later, Sessions
<1> HIDE DEF a, b, c
<1>4. /\ gw' \in Sessions /\ gw'.fixed = gw.fixed /\ gw'.server = gw.server
      /\ gw'.known = gw.known /\ gw'.connected = gw.connected
      /\ gw'.helloAge = b /\ gw'.ackAge = c
    BY <1>1, <1>2, <1>3 DEF Sessions
<1> QED
    BY <1>1, <1>4 DEF b, c, Selected

LEMMA TickSafe ==
    ASSUME Safe, Tick
    PROVE  Safe'
<1>1. /\ open /\ wifi /\ polled /\ polled' = FALSE
      /\ unanswered' = Later(unanswered, AckTimeout + 1)
      /\ UNCHANGED <<wifi, bridges, dns, open, requests, replies, outages, answered>>
    BY DEF Tick, envVars
<1>2. /\ gw' \in Sessions /\ Selected(gw') /\ gw'.fixed = gw.fixed
      /\ gw'.connected = gw.connected /\ gw'.ackAge = Later(gw.ackAge, AckTimeout)
    BY TickFacts
<1>3. mishaps' \in 0..MaxMishaps
    BY DiscoveryBoundsAssumption DEF Tick, Safe, TypeOK
<1>4. unanswered' \in 0..(AckTimeout + 1)
    BY <1>1, Intervals DEF Later, Safe, TypeOK
<1>5. TypeOK'
    BY <1>1, <1>2, <1>3, <1>4 DEF Safe, TypeOK, Sessions, Selected
<1>6. Session'
    BY <1>1, <1>2 DEF Session, Selected
<1>7. AnswerIsFresh'
    <2> SUFFICES ASSUME ~gw'.fixed, answered'
                 PROVE  gw'.connected /\ unanswered' <= gw'.ackAge
        BY DEF AnswerIsFresh
    <2>1. gw.connected /\ unanswered <= gw.ackAge
        BY <1>1, <1>2 DEF Safe, AnswerIsFresh
    <2>2. gw.ackAge < AckTimeout /\ gw.ackAge \in Nat /\ unanswered \in Nat
        BY <1>1, <2>1, TypedState, Intervals DEF Safe, Session, Sessions
    <2> QED
        BY <1>1, <1>2, <2>1, <2>2, Intervals DEF Later
<1> QED
    BY <1>5, <1>6, <1>7 DEF Safe

\* A session starts with nothing selected, or with what the name resolves to.
LEMMA OpenSessionSafe ==
    ASSUME Safe, OpenSession
    PROVE  Safe' /\ gw' \in Sessions /\ gw'.connected = FALSE
<1>1. /\ open' = TRUE /\ gw' = NewSession(gw.fixed) /\ polled' = FALSE
      /\ unanswered' = 0 /\ answered' = FALSE
      /\ UNCHANGED <<wifi, bridges, dns, requests, replies, mishaps, outages>>
    BY DEF OpenSession, envVars
<1>2. gw.fixed \in BOOLEAN /\ dns \in Hosts \union {NoHost}
    BY TypedState DEF Safe, Sessions
<1>3. gw' \in Sessions /\ Selected(gw') /\ gw'.connected = FALSE
    <2> DEFINE fresh == [fixed |-> gw.fixed, server |-> NoHost, known |-> FALSE,
                         connected |-> FALSE, discoverAge |-> DiscoverInterval,
                         helloAge |-> HelloInterval, ackAge |-> AckTimeout]
    <2>1. fresh \in Sessions /\ fresh.known = FALSE /\ fresh.connected = FALSE
        BY <1>2, Intervals DEF Sessions
    <2>2. gw' = IF gw.fixed THEN Resolved(fresh) ELSE fresh
        BY <1>1 DEF NewSession
    <2> HIDE DEF fresh
    <2>3. CASE gw.fixed
        <3>1. /\ gw' \in Sessions /\ gw'.connected = FALSE
              /\ gw'.server = dns /\ gw'.known = (dns # NoHost)
            BY <1>2, <2>1, <2>2, <2>3, ResolvedFacts
        <3> QED
            BY <3>1 DEF Selected
    <2>4. CASE ~gw.fixed
        BY <2>1, <2>2, <2>4 DEF Selected
    <2> QED
        BY <2>3, <2>4
<1>4. TypeOK'
    <2>1. answered' \in BOOLEAN /\ open' \in BOOLEAN /\ polled' \in BOOLEAN
        BY <1>1
    <2>2. /\ wifi' \in BOOLEAN /\ requests' \subseteq Requests /\ replies' \subseteq Replies
          /\ bridges' \subseteq Hosts /\ dns' \in Hosts \union {NoHost}
          /\ mishaps' \in 0..MaxMishaps /\ outages' \in 0..MaxOutages
        BY <1>1 DEF Safe, TypeOK
    <2>3. unanswered' \in 0..(AckTimeout + 1)
        <3>1. 0 \in 0..(AckTimeout + 1)
            BY Intervals
        <3> QED
            BY <1>1, <3>1
    <2> QED
        BY <1>3, <2>1, <2>2, <2>3 DEF TypeOK, Sessions, Selected
<1>5. Session' /\ AnswerIsFresh'
    BY <1>1, <1>3 DEF Session, AnswerIsFresh, Selected
<1> QED
    BY <1>3, <1>4, <1>5 DEF Safe

\* The Bridges, the network and the station leave the variables of gateway_task() alone.
LEMMA EnvironmentSafe ==
    ASSUME Safe, UNCHANGED <<gw, polled, ghosts>>,
           open' \in {open, FALSE}, wifi' \in BOOLEAN, bridges' \subseteq Hosts,
           dns' \in Hosts \union {NoHost}, requests' \subseteq Requests, replies' \subseteq Replies,
           mishaps' \in 0..MaxMishaps, outages' \in 0..MaxOutages
    PROVE  Safe'
<1>1. open' = open \/ open' = FALSE
    OBVIOUS
<1>2. TypeOK'
    BY DEF Safe, TypeOK, ghosts
<1>3. Session' /\ AnswerIsFresh'
    BY <1>1 DEF Safe, Session, AnswerIsFresh, ghosts
<1> QED
    BY <1>2, <1>3 DEF Safe

LEMMA ReplyType ==
    ASSUME NEW m \in Requests
    PROVE  /\ Reply(m) \in Replies /\ Reply(m).host = m.host
           /\ m.kind # "DISCOVER" => Reply(m).kind = "ACK"
BY DEF Reply, Requests, Replies

LEMMA AnswerFacts ==
    ASSUME Safe, NEW m \in requests, Answer(m) \/ Unheard(m)
    PROVE  /\ UNCHANGED <<envVars, open, gw, polled, mishaps, outages, ghosts>>
           /\ requests' = requests \ {m} /\ m \in Requests
           /\ \/ m.host \in bridges /\ replies' = replies \union {Reply(m)}
              \/ m.host \notin bridges /\ replies' = replies
           /\ Safe'
<1>1. /\ UNCHANGED <<envVars, open, gw, polled, mishaps, outages, ghosts>>
      /\ requests' = requests \ {m}
      /\ \/ m.host \in bridges /\ replies' = replies \union {Reply(m)}
         \/ m.host \notin bridges /\ replies' = replies
    BY DEF Answer, Unheard
<1>2. m \in Requests
    BY DEF Safe, TypeOK
<1>3. requests' \subseteq Requests /\ replies' \subseteq Replies
    BY <1>1, <1>2, ReplyType DEF Safe, TypeOK
<1>4. Safe'
    BY <1>1, <1>3, EnvironmentSafe DEF Safe, TypeOK, envVars
<1> QED
    BY <1>1, <1>2, <1>4

LEMMA LoseFacts ==
    ASSUME Safe, Lose
    PROVE  /\ UNCHANGED <<envVars, open, gw, polled, outages, ghosts>>
           /\ requests' \subseteq requests /\ replies' \subseteq replies
           /\ mishaps' = Later(mishaps, MaxMishaps)
           /\ Safe'
<1>1. /\ UNCHANGED <<envVars, open, gw, polled, outages, ghosts>>
      /\ requests' \subseteq requests /\ replies' \subseteq replies
      /\ mishaps' = Later(mishaps, MaxMishaps)
    BY DEF Lose
<1>2. mishaps' \in 0..MaxMishaps
    BY <1>1, DiscoveryBoundsAssumption DEF Later, Safe, TypeOK
<1>3. Safe'
    BY <1>1, <1>2, EnvironmentSafe DEF Safe, TypeOK, envVars
<1> QED
    BY <1>1, <1>3

\* The other actions: the session closes, a Bridge starts or stops, the name moves, the
\* station joins or drops.
Outside ==
    \/ CloseSession
    \/ \E h \in Hosts : StartBridge(h) \/ StopBridge(h)
    \/ MoveName \/ WifiJoins \/ WifiDrops
    \/ UNCHANGED vars

LEMMA OutsideFacts ==
    ASSUME Safe, Outside
    PROVE  /\ UNCHANGED <<gw, polled, mishaps, ghosts>>
           /\ outages' = outages \/ outages' = outages + 1
           /\ outages' = outages =>
                /\ bridges \subseteq bridges' /\ UNCHANGED <<requests, replies>>
                /\ \/ open' = open /\ (wifi => wifi')
                   \/ ~wifi /\ open /\ open' = FALSE
           /\ Safe'
<1>1. bridges \subseteq Hosts /\ outages \in 0..MaxOutages /\ outages \in Nat
    BY DiscoveryBoundsAssumption DEF Safe, TypeOK
<1>2. /\ UNCHANGED <<gw, polled, mishaps, ghosts>>
      /\ open' \in {open, FALSE} /\ wifi' \in {wifi, TRUE, FALSE}
      /\ bridges' \subseteq Hosts /\ dns' \in Hosts \union {NoHost, dns}
      /\ requests' \subseteq requests /\ replies' \subseteq replies
    BY <1>1 DEF Outside, CloseSession, StartBridge, StopBridge, MoveName, WifiJoins, WifiDrops,
                vars, envVars
<1>3. /\ outages' = outages \/ outages' = outages + 1
      /\ outages' \in 0..MaxOutages
    BY <1>1, DiscoveryBoundsAssumption
       DEF Outside, CloseSession, StartBridge, StopBridge, MoveName, WifiJoins, WifiDrops, Outage,
           vars
<1>4. Safe'
    BY <1>2, <1>3, EnvironmentSafe DEF Safe, TypeOK
<1>5. outages' = outages =>
        /\ bridges \subseteq bridges' /\ UNCHANGED <<requests, replies>>
        /\ \/ open' = open /\ (wifi => wifi')
           \/ ~wifi /\ open /\ open' = FALSE
    BY <1>1 DEF Outside, CloseSession, StartBridge, StopBridge, MoveName, WifiJoins, WifiDrops,
                Outage, vars, envVars
<1> QED
    BY <1>2, <1>3, <1>4, <1>5

LEMMA NextActions ==
    ASSUME [Next]_vars
    PROVE  \/ Pass \/ Tick \/ OpenSession \/ Lose \/ Outside
           \/ \E m \in requests : Answer(m) \/ Unheard(m)
BY DEF Next, Outside

LEMMA NextSafe == Safe /\ [Next]_vars => Safe'
BY NextActions, PassSafe, TickSafe, OpenSessionSafe, LoseFacts, OutsideFacts, AnswerFacts

\* The invariant of every reachable state of the gateway, the Bridges and the network.
LEMMA SafeAlways == Spec => []Safe
BY InitSafe, NextSafe, PTL DEF Spec

\* The session of the gateway and every datagram in flight stay well formed: a HELLO or a
\* BATCH is only ever addressed to a host.
THEOREM DiscoveryTypes == Spec => []TypeOK
<1>1. Safe => TypeOK
    BY DEF Safe
<1> QED
    BY <1>1, SafeAlways, PTL

\* A discovered Bridge that has answered and then says nothing is not selected for longer
\* than the ACK time limit.
THEOREM SilentServerIsForgotten == Spec => []SilentServerForgotten
<1>1. Safe => SilentServerForgotten
    <2> SUFFICES ASSUME Safe, open, ~gw.fixed, answered
                 PROVE  unanswered <= AckTimeout
        BY DEF SilentServerForgotten
    <2>1. unanswered <= gw.ackAge
        BY DEF Safe, AnswerIsFresh
    <2>2. gw.ackAge \in 0..AckTimeout /\ unanswered \in Nat
        BY TypedState, Intervals DEF Safe, Sessions
    <2> QED
        BY <2>1, <2>2, Intervals
<1> QED
    BY <1>1, SafeAlways, PTL

-----------------------------------------------------------------------------
(* One lost or late message does not disconnect *)

Pending(server, rq, rp) ==
    \/ \E m \in rq : m.kind # "DISCOVER" /\ m.host = server
    \/ \E m \in rp : m.kind = "ACK" /\ m.host = server

\* The ACK time limit spans two intervals, and the count of mishaps reaches two.
Tolerant == AckTimeout > 2 * HelloInterval /\ MaxMishaps >= 2

\* The arithmetic of AckFollowsHello, for a state without an outage and with one mishap at
\* most.
LEMMA AgeBound ==
    ASSUME Kept, Tolerant, outages = 0, mishaps <= 1, gw.connected
    PROVE  /\ mishaps \in {0, 1} /\ AckFollowsHello(mishaps)
           /\ gw.ackAge \in Nat /\ gw.helloAge \in Nat /\ gw.helloAge <= HelloInterval
           /\ gw.ackAge < AckTimeout
<1>1. mishaps \in {0, 1}
    BY DiscoveryBoundsAssumption DEF Kept, Safe, TypeOK
<1>2. AckFollowsHello(mishaps)
    BY DEF Kept, AckOnTime
<1>3. gw.ackAge \in Nat /\ gw.helloAge \in Nat /\ gw.helloAge <= HelloInterval
    BY TypedState, Intervals DEF Kept, Safe, Sessions
<1>4. gw.ackAge < AckTimeout
    BY <1>1, <1>2, <1>3, Intervals DEF AckFollowsHello, Tolerant
<1> QED
    BY <1>1, <1>2, <1>3, <1>4

LEMMA FinishPassKept ==
    ASSUME Kept, Safe', Tolerant, open, wifi, NEW g \in Sessions, Selected(g),
           NEW early \in SUBSET Requests, NEW reports \in BOOLEAN, FinishPass(g, early, reports),
           UNCHANGED <<envVars, open, mishaps, outages>>, replies' \subseteq replies,
           g.helloAge = gw.helloAge, gw.connected => g.connected,
           outages = 0 /\ g.connected => g.server \in bridges,
           \/ g.ackAge = 0
           \/ /\ g.ackAge = gw.ackAge /\ (g.connected => gw.connected)
              /\ g.connected /\ AckPending => Pending(g.server, requests \union early, replies')
    PROVE  /\ Kept'
           /\ gw.connected /\ ~gw'.connected => mishaps > 1 \/ outages > 0
<1>1. /\ gw' \in Sessions /\ gw'.ackAge = g.ackAge
      /\ gw'.connected => g.connected /\ g.ackAge < AckTimeout
      /\ g.connected /\ g.ackAge < AckTimeout => gw'.connected /\ gw'.known
      /\ g.known => gw'.server = g.server
      /\ g.known /\ g.helloAge < HelloInterval => gw'.helloAge = g.helloAge
      /\ g.known /\ ~(g.helloAge < HelloInterval) =>
            gw'.helloAge = 0 /\ Hello(g.server) \in requests'
      /\ polled' = TRUE
      /\ requests \union early \subseteq requests'
    BY PassFacts DEF Kept, Safe
<1>2. UNCHANGED <<wifi, bridges, dns, open, mishaps, outages>>
    BY DEF envVars
<1>3. g.connected => g.known
    BY DEF Selected
<1>4. NoOutage'
    BY <1>1, <1>2, <1>3 DEF Kept, NoOutage
<1>5. \A server : Pending(server, requests \union early, replies') =>
                    Pending(server, requests', replies')
    BY <1>1 DEF Pending
<1>6. g.known /\ ~(g.helloAge < HelloInterval) => Pending(g.server, requests', replies')
    BY <1>1 DEF Pending, Hello
<1>7. AckPending' <=> Pending(gw'.server, requests', replies')
    BY DEF AckPending, Pending
<1>8. outages \in Nat /\ mishaps \in Nat
    BY DiscoveryBoundsAssumption DEF Kept, Safe, TypeOK
<1>9. AckOnTime'
    <2> SUFFICES ASSUME outages = 0, mishaps <= 1, gw'.connected
                 PROVE  AckFollowsHello(mishaps)'
        BY <1>2 DEF AckOnTime
    <2>1. g.connected /\ g.known /\ gw'.server = g.server
        BY <1>1, <1>3
    <2>2. gw'.helloAge \in Nat
        BY <1>1, Intervals DEF Sessions
    <2>3. CASE g.ackAge = 0
        BY <1>1, <1>2, <1>8, <2>2, <2>3, Intervals DEF AckFollowsHello
    <2>4. CASE ~(g.ackAge = 0)
        <3>1. g.ackAge = gw.ackAge /\ gw.connected
            BY <2>1, <2>4
        <3>2. AckPending => AckPending'
            BY <1>5, <1>7, <2>1, <2>4
        <3>3. /\ mishaps \in {0, 1} /\ AckFollowsHello(mishaps)
              /\ gw.ackAge \in Nat /\ gw.helloAge \in Nat /\ gw.helloAge <= HelloInterval
            BY <3>1, AgeBound
        <3>4. CASE gw.helloAge < HelloInterval
            <4>1. gw'.helloAge = gw.helloAge
                BY <1>1, <2>1, <3>4
            <4> QED
                BY <1>1, <1>2, <3>1, <3>2, <3>3, <4>1 DEF AckFollowsHello
        <3>5. CASE ~(gw.helloAge < HelloInterval)
            <4>1. gw'.helloAge = 0 /\ AckPending'
                BY <1>1, <1>6, <1>7, <2>1, <3>5
            <4>2. gw.helloAge = HelloInterval /\ HelloInterval \in Nat /\ HelloInterval >= 1
                BY <3>3, <3>5, Intervals
            <4> QED
                BY <1>1, <1>2, <3>1, <3>3, <4>1, <4>2 DEF AckFollowsHello
        <3> QED
            BY <3>4, <3>5
    <2> QED
        BY <2>3, <2>4
<1>10. gw.connected /\ ~gw'.connected => mishaps > 1 \/ outages > 0
    <2> SUFFICES ASSUME gw.connected, ~(mishaps > 1), ~(outages > 0)
                 PROVE  gw'.connected
        OBVIOUS
    <2>1. gw.ackAge < AckTimeout
        BY <1>8, AgeBound
    <2>2. g.connected /\ g.ackAge < AckTimeout
        BY <2>1, Intervals
    <2> QED
        BY <1>1, <2>2
<1> QED
    BY <1>4, <1>9, <1>10 DEF Kept

LEMMA PassKept ==
    ASSUME Kept, Safe', Tolerant, Pass
    PROVE  /\ Kept'
           /\ gw.connected /\ ~gw'.connected => mishaps > 1 \/ outages > 0
<1>1. PICK reports \in BOOLEAN :
            PassIdle(reports) \/ \E m \in replies : PassReceive(m, reports)
    BY DEF Pass
<1>2. Safe /\ gw \in Sessions /\ Selected(gw)
    BY TypedState DEF Kept, Safe
<1>3. CASE PassIdle(reports)
    <2>1. /\ open /\ wifi /\ FinishPass(gw, {}, reports)
          /\ UNCHANGED <<envVars, open, replies, mishaps, outages>>
        BY <1>3 DEF PassIdle
    <2>2. outages = 0 /\ gw.connected => gw.server \in bridges
        BY DEF Kept, NoOutage
    <2>3. AckPending => Pending(gw.server, requests \union {}, replies')
        BY <2>1 DEF AckPending, Pending
    <2> QED
        BY <1>2, <2>1, <2>2, <2>3, FinishPassKept
<1>4. CASE \E m \in replies : PassReceive(m, reports)
    <2>1. PICK m \in replies : PassReceive(m, reports)
        BY <1>4
    <2> DEFINE g == Received(gw, m)
               early == IF m.kind = "OFFER" THEN {Hello(m.host)} ELSE {}
    <2>2. /\ open /\ wifi /\ replies' = replies \ {m}
          /\ FinishPass(g, early, reports)
          /\ UNCHANGED <<envVars, open, mishaps, outages>>
        BY <2>1 DEF PassReceive
    <2>3. /\ m \in Replies /\ g \in Sessions /\ Selected(g)
          /\ gw.connected => g.connected
          /\ early \in SUBSET Requests
        BY <1>2, ReceivedPass
    <2>4. /\ g.helloAge = gw.helloAge
          /\ m.kind = "OFFER" =>
                g.server = m.host /\ g.connected = gw.connected /\ g.ackAge = gw.ackAge
          /\ Accepts(gw, m) => g.server = gw.server /\ g.ackAge = 0
          /\ m.kind # "OFFER" /\ ~Accepts(gw, m) => g = gw
        BY <1>2, <2>3, ReceivedFacts
    <2>5. outages = 0 /\ g.connected => g.server \in bridges
        <3> SUFFICES ASSUME outages = 0, g.connected
                     PROVE  g.server \in bridges
            OBVIOUS
        <3>1. m.host \in bridges /\ (gw.connected => gw.server \in bridges)
            BY DEF Kept, NoOutage
        <3>2. Accepts(gw, m) => m.host = gw.server
            BY DEF Accepts
        <3> HIDE DEF g
        <3> QED
            BY <2>4, <3>1, <3>2
    \* An OFFER is answered with a HELLO to the new server, and the ACK of the selected
    \* server is accepted.
    <2>6. \/ g.ackAge = 0
          \/ /\ g.ackAge = gw.ackAge /\ (g.connected => gw.connected)
             /\ g.connected /\ AckPending => Pending(g.server, requests \union early, replies')
        <3>1. CASE m.kind = "OFFER"
            <4>1. Hello(m.host) \in early /\ Hello(m.host).kind # "DISCOVER"
                  /\ Hello(m.host).host = m.host
                BY <3>1 DEF Hello
            <4> HIDE DEF g, early
            <4>2. Pending(g.server, requests \union early, replies')
                BY <2>4, <3>1, <4>1 DEF Pending
            <4> QED
                BY <2>4, <3>1, <4>2
        <3>2. CASE Accepts(gw, m)
            BY <2>4, <3>2
        <3>3. CASE m.kind # "OFFER" /\ ~Accepts(gw, m)
            <4>1. g = gw
                BY <2>4, <3>3
            <4>2. gw.connected => ~(m.kind = "ACK" /\ m.host = gw.server)
                BY <1>2, <3>3 DEF Accepts, Selected
            <4> HIDE DEF g, early
            <4>3. gw.connected /\ AckPending =>
                        Pending(gw.server, requests \union early, replies')
                BY <2>2, <4>2 DEF AckPending, Pending
            <4> QED
                BY <4>1, <4>3
        <3> QED
            BY <3>1, <3>2, <3>3
    <2> HIDE DEF g, early
    <2>7. replies' \subseteq replies
        BY <2>2
    <2> QED
        BY <2>2, <2>3, <2>4, <2>5, <2>6, <2>7, FinishPassKept
<1> QED
    BY <1>1, <1>3, <1>4

LEMMA TickKept ==
    ASSUME Kept, Safe', Tolerant, Tick
    PROVE  Kept' /\ gw'.connected = gw.connected
<1>1. /\ open /\ wifi /\ polled
      /\ LET inFlight == requests \union replies # {} IN
            mishaps' = IF inFlight THEN mishaps + 1 ELSE mishaps
      /\ UNCHANGED <<wifi, bridges, dns, open, requests, replies, outages>>
    BY DEF Tick, envVars
<1>2. /\ gw'.server = gw.server /\ gw'.known = gw.known /\ gw'.connected = gw.connected
      /\ gw'.helloAge = Later(gw.helloAge, HelloInterval)
      /\ gw'.ackAge = Later(gw.ackAge, AckTimeout)
    BY TickFacts DEF Kept
<1>3. NoOutage'
    BY <1>1, <1>2 DEF Kept, NoOutage
<1>4. AckOnTime'
    <2> SUFFICES ASSUME outages = 0, mishaps' <= 1, gw.connected
                 PROVE  AckFollowsHello(mishaps)'
        BY <1>1, <1>2 DEF AckOnTime
    <2>1. mishaps \in Nat /\ mishaps <= mishaps' /\ mishaps <= 1
        BY <1>1, DiscoveryBoundsAssumption DEF Kept, Safe, TypeOK
    <2>2. /\ mishaps \in {0, 1} /\ AckFollowsHello(mishaps)
          /\ gw.ackAge \in Nat /\ gw.helloAge \in Nat /\ gw.ackAge < AckTimeout
        BY <2>1, AgeBound
    <2>3. gw.helloAge < HelloInterval
        BY <1>1 DEF Kept, Safe, Session
    <2>4. gw'.helloAge = gw.helloAge + 1 /\ gw'.ackAge = gw.ackAge + 1
        BY <1>2, <2>2, <2>3 DEF Later
    <2>5. AckPending => mishaps = 0 /\ mishaps' = 1
        BY <1>1, <2>1, <2>2 DEF AckPending
    <2>6. gw'.ackAge <= gw'.helloAge + (IF mishaps' = 0 THEN 0 ELSE HelloInterval)
        BY <1>1, <2>2, <2>4, <2>5, Intervals DEF AckFollowsHello
    <2> QED
        BY <2>6 DEF AckFollowsHello
<1> QED
    BY <1>2, <1>3, <1>4 DEF Kept

LEMMA AnswerKept ==
    ASSUME Kept, Safe', Tolerant, NEW m \in requests, Answer(m) \/ Unheard(m)
    PROVE  Kept' /\ gw' = gw
<1>1. /\ UNCHANGED <<wifi, bridges, dns, open, gw, polled, mishaps, outages>>
      /\ requests' = requests \ {m} /\ m \in Requests
      /\ \/ m.host \in bridges /\ replies' = replies \union {Reply(m)}
         \/ m.host \notin bridges /\ replies' = replies
    BY AnswerFacts DEF Kept, envVars
<1>2. /\ Reply(m).host = m.host
      /\ m.kind # "DISCOVER" => Reply(m).kind = "ACK"
    BY <1>1, ReplyType
<1>3. NoOutage'
    BY <1>1, <1>2 DEF Kept, NoOutage
<1>4. gw.server \in bridges /\ AckPending => AckPending'
    <2> SUFFICES ASSUME gw.server \in bridges, AckPending
                 PROVE  AckPending'
        OBVIOUS
    <2>1. CASE \E x \in replies : x.kind = "ACK" /\ x.host = gw.server
        BY <1>1, <2>1 DEF AckPending
    <2>2. CASE \E x \in requests : x.kind # "DISCOVER" /\ x.host = gw.server
        <3>1. PICK x \in requests : x.kind # "DISCOVER" /\ x.host = gw.server
            BY <2>2
        <3>2. CASE x = m
            BY <1>1, <1>2, <3>1, <3>2 DEF AckPending
        <3>3. CASE x # m
            BY <1>1, <3>1, <3>3 DEF AckPending
        <3> QED
            BY <3>2, <3>3
    <2> QED
        BY <2>1, <2>2 DEF AckPending
<1>5. AckOnTime'
    <2> SUFFICES ASSUME outages = 0, mishaps <= 1, gw.connected
                 PROVE  AckFollowsHello(mishaps)'
        BY <1>1 DEF AckOnTime
    <2>1. gw.server \in bridges /\ AckFollowsHello(mishaps)
        BY DEF Kept, NoOutage, AckOnTime
    <2> QED
        BY <1>1, <1>4, <2>1 DEF AckFollowsHello
<1> QED
    BY <1>1, <1>3, <1>5 DEF Kept

LEMMA LoseKept ==
    ASSUME Kept, Safe', Tolerant, Lose
    PROVE  Kept' /\ gw' = gw
<1>1. /\ UNCHANGED <<wifi, bridges, dns, open, gw, polled, outages>>
      /\ requests' \subseteq requests /\ replies' \subseteq replies
      /\ mishaps' = Later(mishaps, MaxMishaps)
    BY LoseFacts DEF Kept, envVars
<1>2. NoOutage'
    BY <1>1 DEF Kept, NoOutage
<1>3. AckOnTime'
    <2> SUFFICES ASSUME outages = 0, mishaps' <= 1, gw.connected
                 PROVE  AckFollowsHello(mishaps)'
        BY <1>1 DEF AckOnTime
    <2>1. mishaps \in Nat /\ mishaps = 0 /\ mishaps' = 1
        BY <1>1, DiscoveryBoundsAssumption DEF Later, Tolerant, Kept, Safe, TypeOK
    <2>2. AckFollowsHello(mishaps)
        BY <2>1, AgeBound
    <2>3. gw.helloAge \in Nat /\ gw.ackAge \in Nat
        BY TypedState, Intervals DEF Kept, Safe, Sessions
    <2>4. gw.ackAge <= gw.helloAge + HelloInterval
        BY <2>1, <2>2, <2>3, Intervals DEF AckFollowsHello
    <2> QED
        BY <1>1, <2>1, <2>4 DEF AckFollowsHello
<1> QED
    BY <1>1, <1>2, <1>3 DEF Kept

LEMMA OutsideKept ==
    ASSUME Kept, Safe', Tolerant, Outside
    PROVE  Kept' /\ gw' = gw
<1>1. /\ UNCHANGED <<gw, polled, mishaps>>
      /\ outages' = outages \/ outages' = outages + 1
      /\ outages' = outages =>
            /\ bridges \subseteq bridges' /\ UNCHANGED <<requests, replies>>
            /\ \/ open' = open /\ (wifi => wifi')
               \/ ~wifi /\ open /\ open' = FALSE
    BY OutsideFacts DEF Kept
<1>2. outages' = 0 => outages = 0 /\ outages' = outages
    BY <1>1, DiscoveryBoundsAssumption DEF Kept, Safe, TypeOK
<1>3. NoOutage'
    BY <1>1, <1>2 DEF Kept, NoOutage
<1>4. AckOnTime'
    BY <1>1, <1>2 DEF Kept, AckOnTime, AckFollowsHello, AckPending
<1> QED
    BY <1>1, <1>3, <1>4 DEF Kept

LEMMA OpenSessionKept ==
    ASSUME Kept, Safe', Tolerant, OpenSession
    PROVE  /\ Kept'
           /\ gw.connected /\ ~gw'.connected => outages > 0
<1>1. /\ ~open /\ open' = TRUE /\ wifi
      /\ UNCHANGED <<wifi, bridges, dns, requests, replies, mishaps, outages>>
    BY DEF OpenSession, envVars
<1>2. gw'.connected = FALSE
    BY OpenSessionSafe DEF Kept
<1>3. NoOutage' /\ AckOnTime'
    BY <1>1, <1>2 DEF Kept, NoOutage, AckOnTime
<1>4. gw.connected => outages > 0
    BY <1>1, DiscoveryBoundsAssumption DEF Kept, NoOutage, Safe, TypeOK
<1> QED
    BY <1>3, <1>4 DEF Kept

LEMMA InitKept == Init => Kept
<1>1. Init => NoOutage /\ AckOnTime
    BY DEF Init, NoOutage, AckOnTime
<1> QED
    BY <1>1, InitSafe DEF Kept

LEMMA NextKept ==
    ASSUME Kept, Tolerant, [Next]_vars
    PROVE  /\ Kept'
           /\ gw.connected /\ ~gw'.connected => mishaps > 1 \/ outages > 0
<1>1. Safe'
    BY NextSafe DEF Kept
<1> QED
    BY <1>1, NextActions, PassKept, TickKept, OpenSessionKept, LoseKept, OutsideKept, AnswerKept

\* A gateway keeps its connection over one lost or late message if the ACK time limit is
\* longer than two HELLO intervals, as it is in gateway_udp.c (3 s and 1 s).
THEOREM ConnectionIsKept ==
    ASSUME AckTimeout > 2 * HelloInterval, MaxMishaps >= 2
    PROVE  Spec => KeepsConnection
<1>1. Tolerant
    BY DEF Tolerant
<1>2. Kept /\ [Next]_vars =>
        Kept' /\ [gw.connected /\ ~gw'.connected => mishaps > 1 \/ outages > 0]_vars
    BY <1>1, NextKept
<1> QED
    BY <1>2, InitKept, PTL DEF Spec, KeepsConnection
=============================================================================
