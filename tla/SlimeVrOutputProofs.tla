------------------------ MODULE SlimeVrOutputProofs ------------------------
(***************************************************************************)
(* The safety of SlimeVrOutput for every set of statuses and every bound:  *)
(* its types, that a press is one tap at most, and that a silent tracker   *)
(* goes.                                                                   *)
(*                                                                         *)
(* What process() and tick() send is described by the set its packets are  *)
(* taken from: the parts of a sequence of packets are in Seq(S), hence the *)
(* sequence is, and what the Server can make of it follows from S.         *)
(***************************************************************************)
EXTENDS SlimeVrOutput, FiniteSetTheorems, SequenceTheorems, TLAPS

Connected == conn # NoConnection

\* The Server as ServerHears() sees it, with no bound on the taps.
Servers ==
    [up : BOOLEAN, known : BOOLEAN, peer : BOOLEAN, heardAge : 0 .. ServerMemory,
     shown : 0 .. 2, taps : Nat]

\* A connection and what waits for it exist only in a Bridge that runs.
ConnectionOfBridge ==
    /\ Connected => running
    /\ "hello" \in inbox => Connected

\* A button that is down has been counted; unless the connection has seen it, there is
\* a press without a tap.
PressesCounted ==
    /\ tracker.held => presses >= 1
    /\ server.taps <= presses
    /\ tracker.held /\ ~(Connected /\ conn.button) => server.taps < presses

\* An input that has stopped for InputTimeout seconds keeps its connection active, and an
\* answer to its handshake waiting, only until the loop has acted in that second.
StopsInTime ==
    /\ Connected /\ conn.active /\ silence >= InputTimeout =>
            silence = InputTimeout /\ "loop" \in due
    /\ "hello" \in inbox /\ silence >= InputTimeout =>
            silence = InputTimeout /\ "loop" \in due

\* Once the input has stopped, the Server hears nothing: its age grows with the silence.
AgesTogether ==
    server.known =>
        /\ server.heardAge < ServerMemory
        /\ server.shown # 0 => silence <= server.heardAge + InputTimeout

Safe == TypeOK /\ ConnectionOfBridge /\ PressesCounted /\ StopsInTime /\ AgesTogether

-----------------------------------------------------------------------------
(* Sequences of packets, by the set they are taken from *)

LEMMA IfSeq ==
    ASSUME NEW S, NEW c \in BOOLEAN, NEW p \in Seq(S)
    PROVE  If(c, p) \in Seq(S) /\ Len(If(c, p)) <= Len(p)
BY EmptySeq, LenProperties DEF If

LEMMA IfOne ==
    ASSUME NEW S, NEW c \in BOOLEAN, NEW x, c => x \in S
    PROVE  If(c, <<x>>) \in Seq(S) /\ Len(If(c, <<x>>)) <= 1
<1>1. CASE c
    BY <1>1 DEF If
<1>2. CASE ~c
    BY <1>2, EmptySeq DEF If
<1> QED
    BY <1>1, <1>2

LEMMA SentBound ==
    ASSUME NEW S, NEW p \in Seq(S), NEW failAt \in Nat
    PROVE  /\ Sent(p, failAt) \in 0 .. Len(p)
BY LenProperties DEF Sent

\* What is sent is the beginning of the packets.
LEMMA SentPackets ==
    ASSUME NEW S, NEW p \in Seq(S), NEW n \in 0 .. Len(p)
    PROVE  /\ SubSeq(p, 1, n) \in Seq(S) /\ DOMAIN SubSeq(p, 1, n) = 1 .. n
           /\ Len(SubSeq(p, 1, n)) = n
           /\ \A i \in 1 .. n : SubSeq(p, 1, n)[i] = p[i] /\ p[i] \in S
<1>1. Len(p) \in Nat
    BY LenProperties
<1>2. /\ SubSeq(p, 1, n) \in Seq(S) /\ DOMAIN SubSeq(p, 1, n) = 1 .. n
      /\ Len(SubSeq(p, 1, n)) = n
    BY <1>1, SubSeqProperties, LenProperties
<1>3. \A i \in 1 .. n : SubSeq(p, 1, n)[i] = p[i] /\ p[i] \in S
    BY <1>1, SubSeqProperties, ElementOfSeq
<1> QED
    BY <1>2, <1>3

\* One tap at most in a sequence with one packet that may be a tap.
LEMMA OneTap ==
    ASSUME NEW S, \A x \in S : x.kind # "tap", NEW T, S \subseteq T,
           NEW p \in Seq(S), NEW q \in Seq(T), NEW r \in Seq(S), Len(q) <= 1,
           NEW i \in 1 .. Len((p \o q) \o r), ((p \o q) \o r)[i].kind = "tap"
    PROVE  i = Len(p) + 1
<1> DEFINE pq == p \o q
<1>1. /\ pq \in Seq(T) /\ Len(pq) = Len(p) + Len(q)
      /\ \A k \in 1 .. Len(pq) : pq[k] = IF k <= Len(p) THEN p[k] ELSE q[k - Len(p)]
    <2>1. p \in Seq(T)
        BY SeqMonotonic
    <2> QED
        BY <2>1, ConcatProperties
<1>2. /\ Len(pq \o r) = Len(pq) + Len(r)
      /\ \A k \in 1 .. Len(pq) + Len(r) :
            (pq \o r)[k] = IF k <= Len(pq) THEN pq[k] ELSE r[k - Len(pq)]
    <2>1. r \in Seq(T)
        BY SeqMonotonic
    <2> QED
        BY <1>1, <2>1, ConcatProperties
<1>3. /\ \A k \in 1 .. Len(p) : p[k].kind # "tap"
      /\ \A k \in 1 .. Len(r) : r[k].kind # "tap"
    BY ElementOfSeq
<1>4. Len(p) \in Nat /\ Len(q) \in Nat /\ Len(r) \in Nat
    BY LenProperties
<1> HIDE DEF pq
<1>5. CASE i <= Len(p)
    BY <1>1, <1>2, <1>3, <1>4, <1>5 DEF pq
<1>6. CASE i > Len(pq)
    BY <1>1, <1>2, <1>3, <1>4, <1>6 DEF pq
<1> QED
    BY <1>1, <1>4, <1>5, <1>6

-----------------------------------------------------------------------------
(* What process() sends and leaves *)

LEMMA StatusRange == \A status \in Statuses : map_hid_status(status) \in 0 .. 2
<1>1. \A status \in Nat : map_hid_status(status) \in 0 .. 2
    BY DEF map_hid_status
<1>2. Statuses \subseteq Nat
    BY StatusesAssumption
<1> QED
    BY <1>1, <1>2

LEMMA SensorInfoOf ==
    ASSUME NEW status \in 0 .. 2
    PROVE  SensorInfo(status) \in [kind : {"sensor"}, status : 0 .. 2]
BY DEF SensorInfo

LEMMA PacketOf ==
    ASSUME NEW K, NEW kind \in K
    PROVE  Packet(kind) \in [kind : K] /\ Packet(kind).kind = kind
BY DEF Packet

LEMMA OutcomeOf ==
    ASSUME NEW c \in Connections, NEW S, NEW p \in Seq(S), NEW n \in 0 .. Len(p),
           NEW w, w = Outcome(c, p, n)
    PROVE  /\ w.conn \in Connections
           /\ w.conn.active = c.active /\ w.conn.button = c.button
           /\ w.sent = SubSeq(p, 1, n)
           /\ w.failed <=> n < Len(p)
           /\ w.failed \in BOOLEAN
<1> DEFINE hs == {i \in 1 .. n : p[i] = Packet("handshake")}
           q == c.quiet /\ hs = 1 .. n
           h == c.handshakeDue /\ hs = {}
<1>1. /\ w.conn = [c EXCEPT !.quiet = q, !.handshakeDue = h]
      /\ w.sent = SubSeq(p, 1, n)
      /\ w.failed = (n < Len(p))
    BY DEF Outcome, Connections
<1>2. q \in BOOLEAN /\ h \in BOOLEAN
    BY DEF Connections
<1> HIDE DEF q, h
<1>3. /\ w.conn \in Connections
      /\ w.conn.active = c.active /\ w.conn.button = c.button
    BY <1>1, <1>2 DEF Connections
<1>4. w.failed \in BOOLEAN
    BY <1>1
<1> QED
    BY <1>1, <1>3, <1>4

\* What a record may have sent that is no tap.
Untapped == [kind : {"sensor"}, status : 0 .. 2] \cup [kind : {"motion", "aux", "handshake"}]
Taps == [kind : {"tap"}]

LEMMA UntappedKinds ==
    /\ \A x \in Untapped : x.kind # "tap" /\ (x.kind = "sensor" => x.status \in 0 .. 2)
    /\ \A status \in 0 .. 2 : SensorInfo(status) \in Untapped
    /\ \A kind \in {"motion", "aux", "handshake"} : Packet(kind) \in Untapped
    /\ Packet("tap") \in Taps
<1>1. ASSUME NEW x \in Untapped
      PROVE  x.kind # "tap" /\ (x.kind = "sensor" => x.status \in 0 .. 2)
    <2>1. CASE x \in [kind : {"sensor"}, status : 0 .. 2]
        BY <2>1
    <2>2. CASE x \in [kind : {"motion", "aux", "handshake"}]
        BY <2>2
    <2> QED
        BY <1>1, <2>1, <2>2 DEF Untapped
<1>2. \A status \in 0 .. 2 : SensorInfo(status) \in Untapped
    BY SensorInfoOf DEF Untapped
<1>3. \A kind \in {"motion", "aux", "handshake"} : Packet(kind) \in Untapped
    BY PacketOf DEF Untapped
<1>4. Packet("tap") \in Taps
    BY PacketOf DEF Taps
<1> QED
    BY <1>1, <1>2, <1>3, <1>4

\* A record sends one tap at most, and only for a button that is down and that the
\* connection has not seen; the connection has then seen it, whichever send failed.
Processed(old, w) ==
    /\ w.conn \in Connections /\ w.conn.active = TRUE
    /\ w.failed \in BOOLEAN /\ w.sent \in Seq(Untapped \cup Taps)
    /\ w.conn.button \in {old.button, tracker.held}
    /\ \A i, j \in DOMAIN w.sent :
            w.sent[i].kind = "tap" /\ w.sent[j].kind = "tap" => i = j
    /\ \A i \in DOMAIN w.sent :
            w.sent[i].kind = "tap" => tracker.held /\ ~old.button /\ w.conn.button

LEMMA ProcessFacts ==
    ASSUME TypeOK, NEW old \in Connections, NEW type \in RecordTypes, NEW aux \in BOOLEAN,
           NEW failAt \in Nat, NEW w, w = process(old, type, aux, failAt)
    PROVE  Processed(old, w)
<1> DEFINE resumed == ~old.active
           status == CASE type = "status" -> map_hid_status(tracker.status)
                       [] resumed /\ type # "status" -> 1
                       [] OTHER -> old.status
           c == [old EXCEPT !.active = TRUE, !.info = @ \/ type = "info", !.status = status]
           d1 == If(resumed /\ c.info, <<SensorInfo(status)>>)
           d2 == If(type \in {"info", "status"} /\ c.info, <<SensorInfo(status)>>)
           d3 == If(type \in {"motion", "motion_button"}, <<Packet("motion")>>)
           data == d1 \o d2 \o d3
           buttons == type \in {"button", "motion_button"}
           tap == If(buttons, Tap(c, tracker.held))
           last == If(aux \/ type = "info", <<Packet("aux")>>)
           packets == IF ~c.confirmed THEN Handshake(c) ELSE data \o tap \o last
           count == Sent(packets, failAt)
           pressed == c.confirmed /\ buttons /\ count >= Len(data)
           b == IF pressed THEN tracker.held ELSE c.button
           cb == [c EXCEPT !.button = b]
<1>1. w = Outcome(cb, packets, count)
    BY DEF process
<1>2. status \in 0 .. 2
    <2>1. map_hid_status(tracker.status) \in 0 .. 2
        <3>1. tracker.status \in Statuses
            BY DEF TypeOK
        <3> QED
            BY <3>1, StatusRange
    <2> QED
        BY <2>1 DEF Connections
<1>3. /\ c \in Connections /\ c.active = TRUE /\ c.confirmed = old.confirmed
      /\ c.button = old.button
    BY <1>2 DEF Connections
<1>4. tracker.held \in BOOLEAN
    BY DEF TypeOK
<1>5. b \in BOOLEAN /\ (b = old.button \/ b = tracker.held)
    BY <1>3, <1>4 DEF Connections
<1> HIDE DEF status, c
<1>6. data \in Seq(Untapped)
    <2>1. d1 \in Seq(Untapped) /\ d2 \in Seq(Untapped)
        BY <1>2, <1>3, UntappedKinds, IfOne DEF Connections
    <2>2. d3 \in Seq(Untapped)
        <3>1. Packet("motion") \in Untapped
            BY UntappedKinds
        <3>2. (type \in {"motion", "motion_button"}) \in BOOLEAN
            OBVIOUS
        <3> QED
            BY <3>1, <3>2, IfOne
    <2> HIDE DEF d1, d2, d3
    <2> QED
        BY <2>1, <2>2, ConcatProperties
<1>7. last \in Seq(Untapped)
    BY UntappedKinds, IfOne
<1>8. /\ tap \in Seq(Taps) /\ Len(tap) <= 1
      /\ tap # <<>> => buttons /\ tracker.held /\ ~old.button
    <2>1. Tap(c, tracker.held) \in Seq(Taps) /\ Len(Tap(c, tracker.held)) <= 1
        BY <1>3, <1>4, UntappedKinds, IfOne DEF Tap, Connections
    <2>2. tap # <<>> => buttons /\ tracker.held /\ ~old.button
        BY <1>3, <1>4 DEF Tap, If
    <2>3. buttons \in BOOLEAN
        OBVIOUS
    <2>4. tap \in Seq(Taps) /\ Len(tap) <= Len(Tap(c, tracker.held))
        BY <2>1, <2>3, IfSeq
    <2>5. Len(tap) <= 1
        BY <2>1, <2>4, LenProperties
    <2> QED
        BY <2>2, <2>4, <2>5
<1>9. Handshake(c) \in Seq(Untapped)
    BY <1>3, UntappedKinds, IfOne DEF Handshake, Connections
<1> HIDE DEF data, tap, last
<1>10. tap \in Seq(Untapped \cup Taps)
    BY <1>8, SeqMonotonic
<1>11. packets \in Seq(Untapped \cup Taps)
    <2>1. /\ data \in Seq(Untapped \cup Taps) /\ last \in Seq(Untapped \cup Taps)
          /\ Handshake(c) \in Seq(Untapped \cup Taps)
        BY <1>6, <1>7, <1>9, SeqMonotonic
    <2>2. (data \o tap) \o last \in Seq(Untapped \cup Taps)
        BY <2>1, <1>10, ConcatProperties
    <2> QED
        BY <2>1, <2>2
<1>12. count \in 0 .. Len(packets)
    BY <1>11, SentBound
\* A packet that is a tap comes just after the data.
<1>13. ASSUME NEW i \in 1 .. Len(packets), packets[i].kind = "tap"
       PROVE  /\ c.confirmed /\ i = Len(data) + 1
              /\ buttons /\ tracker.held /\ ~old.button
    <2>1. c.confirmed
        <3>1. CASE ~c.confirmed
            BY <1>9, <1>13, <3>1, UntappedKinds, ElementOfSeq
        <3> QED
            BY <3>1
    <2>2. packets = (data \o tap) \o last
        BY <2>1
    <2>3. i = Len(data) + 1
        BY <1>6, <1>7, <1>8, <1>10, <1>13, <2>2, OneTap, UntappedKinds
    <2>4. tap # <<>>
        <3>1. CASE tap = <<>>
            <4>1. data \o tap = data
                BY <1>6, <3>1, ConcatEmptySeq
            <4>2. packets \in Seq(Untapped)
                BY <1>6, <1>7, <2>2, <4>1, ConcatProperties
            <4> QED
                BY <1>13, <4>2, UntappedKinds, ElementOfSeq
        <3> QED
            BY <3>1
    <2> QED
        BY <1>8, <2>1, <2>3, <2>4
<1> HIDE DEF packets, count
<1>14. cb \in Connections /\ cb.active = TRUE /\ cb.button = b
    BY <1>3, <1>5 DEF Connections
<1> HIDE DEF cb
<1>15. /\ w.conn \in Connections /\ w.conn.active = TRUE /\ w.conn.button = b
       /\ w.sent = SubSeq(packets, 1, count)
       /\ (w.failed <=> count < Len(packets)) /\ w.failed \in BOOLEAN
    BY <1>1, <1>11, <1>12, <1>14, OutcomeOf
<1>16. /\ w.sent \in Seq(Untapped \cup Taps) /\ DOMAIN w.sent = 1 .. count
       /\ \A i \in 1 .. count : w.sent[i] = packets[i]
    BY <1>11, <1>12, <1>15, SentPackets
<1>17. Len(packets) \in Nat /\ Len(data) \in Nat
    BY <1>6, <1>11, LenProperties
<1>18. \A i, j \in DOMAIN w.sent :
            w.sent[i].kind = "tap" /\ w.sent[j].kind = "tap" => i = j
    BY <1>12, <1>13, <1>16, <1>17
<1>19. ASSUME NEW i \in DOMAIN w.sent, w.sent[i].kind = "tap"
       PROVE  tracker.held /\ ~old.button /\ w.conn.button
    <2>1. i \in 1 .. Len(packets) /\ i <= count /\ packets[i].kind = "tap"
        BY <1>12, <1>16, <1>17, <1>19
    <2>2. c.confirmed /\ buttons /\ tracker.held /\ ~old.button /\ i = Len(data) + 1
        BY <1>13, <2>1
    <2>3. count >= Len(data)
        BY <1>12, <1>17, <2>1, <2>2
    <2>4. b
        BY <2>2, <2>3
    <2> QED
        BY <1>15, <2>2, <2>4
<1> QED
    BY <1>5, <1>15, <1>16, <1>18, <1>19 DEF Processed

-----------------------------------------------------------------------------
(* What tick() sends and leaves *)

LEMMA StoppedConnection ==
    ASSUME NEW c \in Connections, NEW d, d = [c EXCEPT !.active = FALSE, !.status = 0]
    PROVE  d \in Connections /\ d.button = c.button /\ d.active = FALSE
<1>1. \A active \in BOOLEAN, status \in 0 .. 2 :
        LET e == [c EXCEPT !.active = active, !.status = status]
        IN  e \in Connections /\ e.button = c.button /\ e.active = active
    BY DEF Connections
<1>2. 0 \in 0 .. 2
    OBVIOUS
<1> QED
    BY <1>1, <1>2

\* The packets a tick may send of the connection are in S.
TickSends(old, S) ==
    /\ "hello" \in inbox => SensorInfo(old.status) \in S /\ Packet("aux") \in S
    /\ old.active =>
            SensorInfo(0) \in S /\ Packet("pong") \in S /\ Packet("heartbeat") \in S
    /\ old.active /\ silence < InputTimeout => Packet("handshake") \in S

Ticked(old, S, w) ==
    /\ w.conn \in Connections /\ w.conn.button = old.button
    /\ w.failed \in BOOLEAN /\ w.sent \in Seq(S)
    /\ w.conn.active => old.active
    /\ ~w.failed /\ silence >= InputTimeout => ~w.conn.active

\* A tick that is not cut short stops a silent input.
LEMMA TickFacts ==
    ASSUME TypeOK, NEW old \in Connections, NEW failAt \in Nat, NEW S, TickSends(old, S),
           NEW w, w = tick(old, failAt)
    PROVE  Ticked(old, S, w)
<1>0. /\ "hello" \in inbox => SensorInfo(old.status) \in S /\ Packet("aux") \in S
      /\ old.active =>
            SensorInfo(0) \in S /\ Packet("pong") \in S /\ Packet("heartbeat") \in S
      /\ old.active /\ silence < InputTimeout => Packet("handshake") \in S
    BY DEF TickSends
<1> DEFINE greeted == "hello" \in inbox /\ ~old.confirmed
           c == [old EXCEPT !.confirmed = @ \/ "hello" \in inbox,
                            !.serverAge = IF inbox = {} THEN @ ELSE 0]
           p1 == If(greeted, <<SensorInfo(c.status), Packet("aux")>>)
           poll == p1 \o Pong(c)
           stops == c.active /\ silence >= InputTimeout
           stopped == IF stops THEN [c EXCEPT !.active = FALSE, !.status = 0] ELSE c
           p3 == If(stops /\ c.confirmed, <<SensorInfo(0)>>)
           goodbye == poll \o p3
           forgotten == IF c.confirmed /\ ServerSilent(c.serverAge)
                        THEN [stopped EXCEPT !.confirmed = FALSE, !.handshakeDue = TRUE]
                        ELSE stopped
           hs == Handshake(forgotten)
           beats == forgotten.confirmed /\ forgotten.active /\ c.quiet /\ goodbye = <<>>
           p5 == If(beats, <<Packet("heartbeat")>>)
           packets == goodbye \o hs \o p5
           count == Sent(packets, failAt)
           left == CASE count < Len(poll) -> c
                     [] count \in Len(poll) .. Len(goodbye) - 1 -> stopped
                     [] OTHER -> forgotten
<1>1. w = Outcome(left, packets, count)
    BY DEF tick
<1>2. /\ c \in Connections /\ c.active = old.active /\ c.button = old.button
      /\ c.status = old.status
    <2> DEFINE confirmed == old.confirmed \/ "hello" \in inbox
               age == IF inbox = {} THEN old.serverAge ELSE 0
    <2>1. c = [old EXCEPT !.confirmed = confirmed, !.serverAge = age]
        BY DEF Connections
    <2>2. confirmed \in BOOLEAN /\ age \in 0 .. ServerTimeout
        BY DEF Connections, ServerTimeout
    <2> HIDE DEF confirmed, age, c
    <2> QED
        BY <2>1, <2>2 DEF Connections
<1>3. silence \in Nat
    BY DEF TypeOK
<1> HIDE DEF c
<1>4. stops \in BOOLEAN /\ c.confirmed \in BOOLEAN /\ c.quiet \in BOOLEAN
      /\ greeted \in BOOLEAN /\ (stops => old.active)
    BY <1>2, <1>3 DEF Connections
<1>5. /\ stopped \in Connections /\ stopped.button = old.button
      /\ stopped.active => old.active /\ silence < InputTimeout
    <2>1. CASE stops
        <3>1. stopped = [c EXCEPT !.active = FALSE, !.status = 0]
            BY <2>1
        <3> HIDE DEF stopped
        <3> QED
            BY <1>2, <3>1, StoppedConnection
    <2>2. CASE ~stops
        BY <1>2, <1>3, <2>2 DEF InputTimeout
    <2> QED
        BY <2>1, <2>2
<1> HIDE DEF stopped
<1>6. /\ forgotten \in Connections /\ forgotten.button = old.button
      /\ forgotten.active => old.active /\ silence < InputTimeout
    BY <1>5 DEF Connections
<1> HIDE DEF forgotten
<1>7. poll \in Seq(S)
    <2>1. Pong(c) \in Seq(S)
        <3>1. ("ping" \in inbox /\ c.active) \in BOOLEAN
            OBVIOUS
        <3>2. c.active => Packet("pong") \in S
            BY <1>0, <1>2
        <3> QED
            BY <3>1, <3>2, IfOne DEF Pong
    <2>2. p1 \in Seq(S)
        <3>1. CASE ~greeted
            BY <3>1, EmptySeq DEF If
        <3>2. CASE greeted
            <4>1. SensorInfo(c.status) \in S /\ Packet("aux") \in S
                BY <1>0, <1>2, <3>2
            <4>2. <<SensorInfo(c.status), Packet("aux")>> \in Seq(S)
                BY <4>1
            <4> QED
                BY <3>2, <4>2 DEF If
        <3> QED
            BY <3>1, <3>2
    <2> HIDE DEF p1
    <2> QED
        BY <2>1, <2>2, ConcatProperties
<1>8. p3 \in Seq(S)
    BY <1>0, <1>2, <1>4, IfOne
<1>9. hs \in Seq(S)
    <2>1. forgotten.active => Packet("handshake") \in S
        BY <1>0, <1>6
    <2>2. (~forgotten.confirmed /\ forgotten.active /\ forgotten.info
           /\ forgotten.handshakeDue) \in BOOLEAN
        OBVIOUS
    <2> QED
        BY <2>1, <2>2, IfOne DEF Handshake
<1>10. p5 \in Seq(S)
    <2>1. beats \in BOOLEAN /\ (beats => Packet("heartbeat") \in S)
        BY <1>0, <1>6
    <2> HIDE DEF beats
    <2> QED
        BY <2>1, IfOne
<1> HIDE DEF p3, p5, hs, poll
<1>11. goodbye \in Seq(S) /\ Len(goodbye) = Len(poll) + Len(p3)
    BY <1>7, <1>8, ConcatProperties
<1> HIDE DEF goodbye
<1>12. packets \in Seq(S) /\ Len(packets) = Len(goodbye) + Len(hs) + Len(p5)
    <2>1. goodbye \o hs \in Seq(S) /\ Len(goodbye \o hs) = Len(goodbye) + Len(hs)
        BY <1>9, <1>11, ConcatProperties
    <2> QED
        BY <1>10, <2>1, ConcatProperties
<1> HIDE DEF packets
<1>13. count \in 0 .. Len(packets)
    BY <1>12, SentBound
<1> HIDE DEF count
<1>14. left \in {c, stopped, forgotten}
    OBVIOUS
<1>15. Len(poll) \in Nat /\ Len(goodbye) \in Nat /\ Len(hs) \in Nat /\ Len(p5) \in Nat
       /\ Len(p3) \in Nat
    BY <1>7, <1>8, <1>9, <1>10, <1>11, LenProperties
<1>16. count = Len(packets) => left = forgotten
    BY <1>11, <1>12, <1>15
<1> HIDE DEF left
<1>17. /\ left \in Connections /\ left.button = old.button /\ (left.active => old.active)
    BY <1>2, <1>5, <1>6, <1>14
<1>18. /\ w.conn \in Connections /\ w.conn.active = left.active /\ w.conn.button = left.button
       /\ w.sent = SubSeq(packets, 1, count)
       /\ (w.failed <=> count < Len(packets)) /\ w.failed \in BOOLEAN
    BY <1>1, <1>12, <1>13, <1>17, OutcomeOf
<1>19. w.sent \in Seq(S)
    BY <1>12, <1>13, <1>18, SentPackets
<1>20. ~w.failed => left = forgotten
    BY <1>12, <1>13, <1>15, <1>16, <1>18
<1>21. silence >= InputTimeout => ~forgotten.active
    BY <1>3, <1>6 DEF InputTimeout
<1> QED
    BY <1>17, <1>18, <1>19, <1>20, <1>21 DEF Ticked

-----------------------------------------------------------------------------
(* What the Server hears *)

LEMMA HearFacts ==
    ASSUME server \in Servers, NEW S, \A x \in S : x.kind = "sensor" => x.status \in 0 .. 2,
           NEW sent \in Seq(S), NEW arrived \in SUBSET DOMAIN sent,
           NEW s \in ServerHears(sent, arrived)
    PROVE  /\ s \in Servers /\ s.up = server.up
           /\ s.heardAge \in {0, server.heardAge}
           /\ s.known => server.known \/ s.heardAge = 0
           /\ s.heardAge = server.heardAge => s = server \/ s.heardAge = 0
           /\ sent = <<>> => s = server
           /\ (\A i \in DOMAIN sent : sent[i].kind # "tap") => s.taps = server.taps
           /\ (\A i, j \in DOMAIN sent : sent[i].kind = "tap" /\ sent[j].kind = "tap" => i = j)
                => s.taps <= server.taps + 1
<1> DEFINE Kind(kind) == {i \in arrived : sent[i].kind = kind}
           heard == IF server.known /\ server.peer THEN arrived
                    ELSE {i \in arrived : \E j \in Kind("handshake") : j <= i}
           told == heard \cap Kind("sensor")
           last == {i \in told : \A j \in told : j <= i}
           shown == IF told = {} THEN {server.shown} ELSE {sent[i].status : i \in last}
           tapped == heard \cap Kind("tap")
           t == server.taps + Cardinality(tapped)
<1>1. PICK status \in shown :
        s = [server EXCEPT !.known = @ \/ heard # {}, !.peer = @ \/ heard # {},
                           !.heardAge = IF heard = {} THEN @ ELSE 0,
                           !.shown = status, !.taps = t]
    BY DEF ServerHears
<1>2. heard \subseteq arrived /\ told \subseteq arrived /\ tapped \subseteq arrived
    OBVIOUS
<1>3. \A i \in DOMAIN sent : sent[i] \in S
    BY ElementOfSeq, LenProperties
<1>4. status \in 0 .. 2 /\ (told = {} => status = server.shown)
    <2>1. \A i \in told : sent[i].status \in 0 .. 2
        BY <1>2, <1>3
    <2>2. CASE told = {}
        BY <2>2 DEF Servers
    <2>3. CASE told # {}
        BY <2>1, <2>3
    <2> QED
        BY <2>2, <2>3
<1>5. IsFiniteSet(tapped)
    <2>1. IsFiniteSet(1 .. Len(sent))
        BY LenProperties, FS_Interval
    <2> QED
        BY <1>2, <2>1, FS_Subset, LenProperties
<1>6. Cardinality(tapped) \in Nat
    BY <1>5, FS_CardinalityType
<1>7. tapped = {} => Cardinality(tapped) = 0
    BY FS_EmptySet
<1>8. (\A i, j \in DOMAIN sent : sent[i].kind = "tap" /\ sent[j].kind = "tap" => i = j)
        => Cardinality(tapped) <= 1
    <2> SUFFICES ASSUME \A i, j \in DOMAIN sent :
                            sent[i].kind = "tap" /\ sent[j].kind = "tap" => i = j,
                        tapped # {}
                 PROVE  Cardinality(tapped) <= 1
        BY <1>7
    <2>1. PICK k : k \in tapped
        OBVIOUS
    <2>2. tapped = {k}
        BY <1>2, <2>1
    <2>3. Cardinality({k}) = 1
        BY FS_Singleton
    <2> HIDE DEF tapped
    <2> QED
        BY <2>2, <2>3
<1>9. (\A i \in DOMAIN sent : sent[i].kind # "tap") => tapped = {}
    BY <1>2
<1>10. sent = <<>> => heard = {}
    BY <1>2
<1>11. heard = {} => told = {} /\ tapped = {}
    OBVIOUS
<1> HIDE DEF heard, told, tapped, shown
<1>12. /\ s \in Servers /\ s.up = server.up
       /\ s.heardAge = (IF heard = {} THEN server.heardAge ELSE 0)
       /\ s.known = (server.known \/ heard # {})
       /\ s.taps = server.taps + Cardinality(tapped)
    <2> DEFINE known == server.known \/ heard # {}
               peer == server.peer \/ heard # {}
               age == IF heard = {} THEN server.heardAge ELSE 0
    <2>1. s = [server EXCEPT !.known = known, !.peer = peer, !.heardAge = age,
                             !.shown = status, !.taps = t]
        BY <1>1 DEF Servers
    <2>2. /\ known \in BOOLEAN /\ peer \in BOOLEAN /\ age \in 0 .. ServerMemory
          /\ t \in Nat
        BY <1>6 DEF Servers, ServerMemory
    <2> HIDE DEF known, peer, age, t
    <2>3. /\ s \in Servers /\ s.up = server.up /\ s.heardAge = age
          /\ s.known = known /\ s.taps = t
        BY <1>4, <2>1, <2>2 DEF Servers
    <2> QED
        BY <2>3 DEF age, known, t
<1>13. heard = {} => s = server
    <2> SUFFICES ASSUME heard = {}
                 PROVE  s = server
        OBVIOUS
    <2>1. t = server.taps /\ status = server.shown
        BY <1>4, <1>7, <1>11 DEF Servers
    <2> HIDE DEF t
    <2> QED
        BY <1>1, <2>1 DEF Servers
<1>14. server.taps \in Nat
    BY DEF Servers
<1> QED
    BY <1>6, <1>7, <1>8, <1>9, <1>10, <1>12, <1>13, <1>14

LEMMA DeliverFacts ==
    ASSUME TypeOK, NEW S, \A x \in S : x.kind = "sensor" => x.status \in 0 .. 2,
           NEW w, w.sent \in Seq(S), NEW waiting \in SUBSET {"hello", "ping"},
           Deliver(w, waiting)
    PROVE  /\ server' \in Servers
           /\ server'.heardAge \in {0, server.heardAge}
           /\ server'.known => server.known \/ server'.heardAge = 0
           /\ server'.heardAge = server.heardAge => server' = server \/ server'.heardAge = 0
           /\ w.sent = <<>> => server' = server
           /\ (\A i \in DOMAIN w.sent : w.sent[i].kind # "tap") => server'.taps = server.taps
           /\ (\A i, j \in DOMAIN w.sent :
                    w.sent[i].kind = "tap" /\ w.sent[j].kind = "tap" => i = j)
                => server'.taps <= server.taps + 1
           /\ inbox' \in SUBSET {"hello", "ping"}
           /\ "hello" \in inbox' =>
                "hello" \in waiting \/ \E i \in DOMAIN w.sent : w.sent[i].kind = "handshake"
           /\ faults' \in 0 .. MaxFaults
<1>1. PICK lost \in SUBSET DOMAIN w.sent :
            /\ IF server.up THEN faults < MaxFaults \/ lost = {} ELSE lost = DOMAIN w.sent
            /\ faults' = IF server.up /\ lost # {} THEN faults + 1 ELSE faults
            /\ server' \in ServerHears(w.sent, DOMAIN w.sent \ lost)
            /\ inbox' = IF \E i \in DOMAIN w.sent \ lost : w.sent[i].kind = "handshake"
                        THEN waiting \cup {"hello"} ELSE waiting
    BY DEF Deliver
<1>2. server \in Servers
    BY OutputBoundsAssumption DEF TypeOK, Servers
<1>3. faults' \in 0 .. MaxFaults
    BY <1>1, OutputBoundsAssumption DEF TypeOK
<1>4. /\ inbox' \in SUBSET {"hello", "ping"}
      /\ "hello" \in inbox' =>
            "hello" \in waiting \/ \E i \in DOMAIN w.sent : w.sent[i].kind = "handshake"
    BY <1>1
<1>5. DOMAIN w.sent \ lost \in SUBSET DOMAIN w.sent
    OBVIOUS
<1> QED
    BY <1>1, <1>2, <1>3, <1>4, <1>5, HearFacts

LEMMA FailingSendsType == FailingSends \subseteq Nat
BY DEF FailingSends

LEMMA RefusalsType ==
    ASSUME TypeOK, NEW w
    PROVE  Refusals(w) \subseteq BOOLEAN
BY DEF Refusals, TypeOK

LEMMA Connecting ==
    /\ NewConnection \in Connections /\ ~NewConnection.button
    /\ NoConnection \notin Connections
<1>1. NewConnection \in Connections /\ ~NewConnection.button
    BY DEF NewConnection, Connections, ServerTimeout
<1>2. NoConnection \notin Connections
    BY DEF NoConnection, Connections
<1> QED
    BY <1>1, <1>2

-----------------------------------------------------------------------------
(* The steps *)

LEMMA InitSafe == Init => Safe
<1> SUFFICES ASSUME Init
             PROVE  Safe
    OBVIOUS
<1>1. TypeOK
    <2>1. (CHOOSE s \in Statuses : TRUE) \in Statuses
        BY StatusesAssumption
    <2> DEFINE status == CHOOSE s \in Statuses : TRUE
    <2>2. tracker = [on |-> TRUE, status |-> status, held |-> FALSE]
        BY DEF Init
    <2> HIDE DEF status
    <2>3. tracker \in [on : BOOLEAN, status : Statuses, held : BOOLEAN]
        BY <2>1, <2>2 DEF status
    <2>4. server \in [up : BOOLEAN, known : BOOLEAN, peer : BOOLEAN, heardAge : 0 .. ServerMemory,
                      shown : 0 .. 2, taps : 0 .. MaxPresses]
        BY OutputBoundsAssumption DEF Init, ServerMemory
    <2>5. /\ silence \in 0 .. SilenceLimit /\ due \subseteq Parties
          /\ presses \in 0 .. MaxPresses /\ faults \in 0 .. MaxFaults
        BY OutputBoundsAssumption DEF Init, SilenceLimit, InputTimeout, ServerMemory
    <2>6. /\ running \in BOOLEAN /\ conn \in Connections \cup {NoConnection}
          /\ inbox \subseteq {"hello", "ping"} /\ refused \in BOOLEAN
        BY DEF Init
    <2> QED
        BY <2>3, <2>4, <2>5, <2>6 DEF TypeOK
<1>2. ConnectionOfBridge /\ StopsInTime
    BY DEF Init, ConnectionOfBridge, StopsInTime, Connected
<1>3. PressesCounted /\ AgesTogether
    BY DEF Init, PressesCounted, AgesTogether
<1> QED
    BY <1>1, <1>2, <1>3 DEF Safe

\* The end of the Bridge; a button that is down is its first press.
LEMMA EndBridgeSafe ==
    ASSUME Safe, EndBridge, UNCHANGED tracker,
           silence' \in {0, silence}, due' \in SUBSET Parties, faults' \in 0 .. MaxFaults
    PROVE  Safe'
<1>1. /\ running' = FALSE /\ conn' = NoConnection /\ inbox' = {} /\ refused' = FALSE
      /\ presses' = IF tracker.held THEN 1 ELSE 0
      /\ server' = [server EXCEPT !.peer = FALSE, !.taps = 0]
    BY DEF EndBridge
<1>2. tracker.held \in BOOLEAN /\ (tracker.held => 1 <= MaxPresses)
    BY OutputBoundsAssumption DEF Safe, TypeOK, PressesCounted
<1>3. /\ server' \in [up : BOOLEAN, known : BOOLEAN, peer : BOOLEAN, heardAge : 0 .. ServerMemory,
                      shown : 0 .. 2, taps : 0 .. MaxPresses]
      /\ server'.taps = 0 /\ server'.known = server.known
      /\ server'.heardAge = server.heardAge /\ server'.shown = server.shown
    <2> DEFINE After(peer, taps) == [server EXCEPT !.peer = peer, !.taps = taps]
    <2>1. \A peer \in BOOLEAN, taps \in 0 .. MaxPresses :
            /\ After(peer, taps) \in
                    [up : BOOLEAN, known : BOOLEAN, peer : BOOLEAN, heardAge : 0 .. ServerMemory,
                     shown : 0 .. 2, taps : 0 .. MaxPresses]
            /\ After(peer, taps).taps = taps /\ After(peer, taps).known = server.known
            /\ After(peer, taps).heardAge = server.heardAge
            /\ After(peer, taps).shown = server.shown
        BY DEF Safe, TypeOK
    <2>2. server' = After(FALSE, 0)
        BY <1>1
    <2>3. 0 \in 0 .. MaxPresses
        BY OutputBoundsAssumption
    <2> HIDE DEF After
    <2> QED
        BY <2>1, <2>2, <2>3
<1>4. silence' \in 0 .. SilenceLimit
    BY DEF Safe, TypeOK, SilenceLimit, InputTimeout, ServerMemory
<1>5. TypeOK'
    <2>1. presses' \in 0 .. MaxPresses
        BY <1>1, <1>2, OutputBoundsAssumption
    <2>2. tracker' \in [on : BOOLEAN, status : Statuses, held : BOOLEAN]
        BY DEF Safe, TypeOK
    <2>3. running' \in BOOLEAN /\ inbox' \subseteq {"hello", "ping"} /\ refused' \in BOOLEAN
        BY <1>1
    <2> QED
        BY <1>1, <1>3, <1>4, <2>1, <2>2, <2>3 DEF TypeOK
<1>6. ConnectionOfBridge' /\ StopsInTime'
    BY <1>1 DEF ConnectionOfBridge, StopsInTime, Connected
<1>7. PressesCounted'
    BY <1>1, <1>2, <1>3 DEF PressesCounted
<1>8. AgesTogether'
    BY <1>3, <1>4 DEF Safe, TypeOK, AgesTogether, InputTimeout
<1> QED
    BY <1>5, <1>6, <1>7, <1>8 DEF Safe

LEMMA RecordSafe ==
    ASSUME Safe, NEW type \in RecordTypes, Record(type)
    PROVE  Safe'
<1> DEFINE old == IF conn = NoConnection THEN NewConnection ELSE conn
<1>1. /\ running /\ silence' = 0 /\ due' = due \ {"tracker"} /\ UNCHANGED tracker
    BY DEF Record
<1>2. PICK aux \in BOOLEAN : \E w \in {process(old, type, aux, failAt) : failAt \in FailingSends} :
        \/ w.failed /\ EndBridge /\ UNCHANGED faults
        \/ /\ conn' = w.conn /\ refused' \in Refusals(w) /\ Deliver(w, inbox)
           /\ UNCHANGED <<running, presses>>
    BY Zenon DEF Record
<1> PICK w \in {process(old, type, aux, failAt) : failAt \in FailingSends} :
        \/ w.failed /\ EndBridge /\ UNCHANGED faults
        \/ /\ conn' = w.conn /\ refused' \in Refusals(w) /\ Deliver(w, inbox)
           /\ UNCHANGED <<running, presses>>
    BY <1>2
<1> PICK failAt \in FailingSends : w = process(old, type, aux, failAt)
    OBVIOUS
<1>3. /\ old \in Connections
      /\ old.button <=> Connected /\ conn.button
    BY Connecting DEF Safe, TypeOK, Connected
<1>4. failAt \in Nat
    BY FailingSendsType
<1> HIDE DEF old
<1>5. CASE w.failed /\ EndBridge /\ UNCHANGED faults
    BY <1>1, <1>5, EndBridgeSafe DEF Safe, TypeOK
<1>6. CASE /\ conn' = w.conn /\ refused' \in Refusals(w) /\ Deliver(w, inbox)
           /\ UNCHANGED <<running, presses>>
    <2>1. /\ w.conn \in Connections /\ w.conn.active = TRUE
          /\ w.failed \in BOOLEAN
          /\ w.sent \in Seq(Untapped \cup Taps)
          /\ w.conn.button \in {old.button, tracker.held}
          /\ \A i, j \in DOMAIN w.sent :
                w.sent[i].kind = "tap" /\ w.sent[j].kind = "tap" => i = j
          /\ \A i \in DOMAIN w.sent :
                w.sent[i].kind = "tap" => tracker.held /\ ~old.button /\ w.conn.button
        <3>1. TypeOK
            BY DEF Safe
        <3>2. old \in Connections
            BY <1>3
        <3>3. Processed(old, w)
            BY <1>4, <3>1, <3>2, ProcessFacts, Zenon
        <3> QED
            BY <3>3 DEF Processed
    <2>2. \A x \in Untapped \cup Taps : x.kind = "sensor" => x.status \in 0 .. 2
        BY UntappedKinds DEF Taps
    <2>3. /\ server' \in Servers
          /\ server'.heardAge \in {0, server.heardAge}
          /\ server'.known => server.known \/ server'.heardAge = 0
          /\ (\A i \in DOMAIN w.sent : w.sent[i].kind # "tap") => server'.taps = server.taps
          /\ server'.taps <= server.taps + 1
          /\ inbox' \in SUBSET {"hello", "ping"}
          /\ faults' \in 0 .. MaxFaults
        <3>1. inbox \in SUBSET {"hello", "ping"} /\ TypeOK
            BY DEF Safe, TypeOK
        <3> QED
            BY <1>6, <2>1, <2>2, <3>1, DeliverFacts
    <2>4. refused' \in BOOLEAN
        BY <1>6, RefusalsType DEF Safe
    <2>5. conn' \in Connections /\ Connected'
        BY <1>6, <2>1, Connecting DEF Connected
    <2>6. server'.taps \in Nat /\ server.taps \in Nat /\ presses \in Nat
        BY <2>3, OutputBoundsAssumption DEF Servers, Safe, TypeOK
    <2>7. PressesCounted'
        <3>1. /\ presses' = presses /\ tracker' = tracker /\ conn'.button = w.conn.button
              /\ server.taps <= presses /\ (tracker.held => presses >= 1)
              /\ tracker.held /\ ~old.button => server.taps < presses
            BY <1>1, <1>3, <1>6 DEF Safe, PressesCounted
        <3>2. CASE \E i \in DOMAIN w.sent : w.sent[i].kind = "tap"
            <4>1. tracker.held /\ ~old.button /\ w.conn.button
                BY <2>1, <3>2
            <4>2. server.taps < presses
                BY <3>1, <4>1
            <4>3. server'.taps <= presses
                BY <2>3, <2>6, <4>2
            <4> QED
                BY <2>5, <3>1, <4>1, <4>3 DEF PressesCounted
        <3>3. CASE \A i \in DOMAIN w.sent : w.sent[i].kind # "tap"
            <4>1. server'.taps = server.taps
                BY <2>3, <3>3
            <4>2. tracker.held /\ ~w.conn.button => ~old.button
                BY <2>1
            <4> QED
                BY <2>5, <3>1, <4>1, <4>2 DEF PressesCounted
        <3> QED
            BY <3>2, <3>3
    <2>8. TypeOK'
        <3>1. silence' \in 0 .. SilenceLimit
            BY <1>1 DEF SilenceLimit, InputTimeout, ServerMemory
        <3>2. server' \in [up : BOOLEAN, known : BOOLEAN, peer : BOOLEAN,
                           heardAge : 0 .. ServerMemory, shown : 0 .. 2, taps : 0 .. MaxPresses]
            BY <1>6, <2>3, <2>6, <2>7, OutputBoundsAssumption
               DEF Servers, PressesCounted, Safe, TypeOK
        <3> QED
            BY <1>1, <1>6, <2>3, <2>4, <2>5, <3>1, <3>2 DEF Safe, TypeOK
    <2>9. ConnectionOfBridge' /\ StopsInTime'
        BY <1>1, <1>6, <2>5 DEF ConnectionOfBridge, StopsInTime, InputTimeout
    <2>10. AgesTogether'
        BY <1>1, <2>3 DEF AgesTogether, Safe, Servers, InputTimeout, ServerMemory
    <2> QED
        BY <2>7, <2>8, <2>9, <2>10 DEF Safe
<1> QED
    BY <1>5, <1>6

\* What a tick may have sent: no tap, and no handshake once the input is silent.
Answers == [kind : {"sensor"}, status : 0 .. 2] \cup [kind : {"aux", "pong", "heartbeat"}]
TickPackets == Answers \cup [kind : {"handshake"}]

LEMMA AnswerKinds ==
    /\ \A x \in TickPackets : x.kind # "tap" /\ (x.kind = "sensor" => x.status \in 0 .. 2)
    /\ \A x \in Answers : x.kind # "handshake"
    /\ \A status \in 0 .. 2 : SensorInfo(status) \in Answers
    /\ \A kind \in {"aux", "pong", "heartbeat"} : Packet(kind) \in Answers
    /\ Packet("handshake") \in TickPackets
<1>1. ASSUME NEW x \in TickPackets
      PROVE  /\ x.kind # "tap" /\ (x.kind = "sensor" => x.status \in 0 .. 2)
             /\ x \in Answers => x.kind # "handshake"
    <2>1. CASE x \in [kind : {"sensor"}, status : 0 .. 2]
        BY <2>1
    <2>2. CASE x \in [kind : {"aux", "pong", "heartbeat"}]
        BY <2>2
    <2>3. CASE x \in [kind : {"handshake"}]
        <3>1. x \notin [kind : {"sensor"}, status : 0 .. 2]
            BY <2>3
        <3>2. x \notin [kind : {"aux", "pong", "heartbeat"}]
            BY <2>3
        <3> QED
            BY <2>3, <3>1, <3>2 DEF Answers
    <2> QED
        BY <1>1, <2>1, <2>2, <2>3 DEF TickPackets, Answers
<1>2. \A status \in 0 .. 2 : SensorInfo(status) \in Answers
    BY SensorInfoOf DEF Answers
<1>3. \A kind \in {"aux", "pong", "heartbeat"} : Packet(kind) \in Answers
    BY PacketOf DEF Answers
<1>4. Packet("handshake") \in TickPackets
    BY PacketOf DEF TickPackets
<1> QED
    BY <1>1, <1>2, <1>3, <1>4 DEF TickPackets

\* A tick takes what it sends from TickPackets, from Answers once the input is silent, and
\* from nothing once it has stopped and no answer to its handshake waits.
LEMMA TickSendsOf ==
    ASSUME NEW old \in Connections
    PROVE  /\ TickSends(old, TickPackets)
           /\ silence \in Nat /\ silence >= InputTimeout => TickSends(old, Answers)
           /\ ~old.active /\ "hello" \notin inbox => TickSends(old, {})
<1>1. /\ SensorInfo(old.status) \in Answers /\ SensorInfo(0) \in Answers
      /\ Packet("aux") \in Answers /\ Packet("pong") \in Answers
      /\ Packet("heartbeat") \in Answers
    BY AnswerKinds DEF Connections
<1>2. Answers \subseteq TickPackets
    BY DEF TickPackets
<1>3. TickSends(old, TickPackets)
    BY <1>1, <1>2, AnswerKinds DEF TickSends
<1>4. silence \in Nat /\ silence >= InputTimeout => TickSends(old, Answers)
    BY <1>1 DEF TickSends, InputTimeout
<1>5. ~old.active /\ "hello" \notin inbox => TickSends(old, {})
    BY DEF TickSends
<1> QED
    BY <1>3, <1>4, <1>5

LEMMA TickSafe ==
    ASSUME Safe, Tick
    PROVE  Safe'
<1>1. /\ running /\ conn # NoConnection /\ ~refused
      /\ UNCHANGED <<running, silence, tracker, presses>>
    BY DEF Tick
<1>2. PICK w \in {tick(conn, failAt) : failAt \in FailingSends} :
        /\ conn' = w.conn
        /\ refused' \in Refusals(w)
        /\ due' = IF w.failed THEN due ELSE due \ {"loop"}
        /\ Deliver(w, IF w.failed THEN inbox \ {"hello"} ELSE {})
    BY Zenon DEF Tick
<1>3. PICK failAt \in FailingSends : w = tick(conn, failAt)
    BY <1>2
<1>4. TypeOK /\ conn \in Connections /\ failAt \in Nat /\ silence \in Nat
    BY <1>1, FailingSendsType DEF Safe, TypeOK
<1>5. Ticked(conn, TickPackets, w)
    BY <1>3, <1>4, TickSendsOf, TickFacts, Zenon
<1>6. silence >= InputTimeout => \A i \in DOMAIN w.sent : w.sent[i].kind # "handshake"
    <2> SUFFICES ASSUME silence >= InputTimeout
                 PROVE  \A i \in DOMAIN w.sent : w.sent[i].kind # "handshake"
        OBVIOUS
    <2>1. TickSends(conn, Answers)
        BY <1>4, TickSendsOf, Zenon
    <2>2. Ticked(conn, Answers, w)
        BY <1>3, <1>4, <2>1, TickFacts, Zenon
    <2>3. w.sent \in Seq(Answers)
        BY <2>2 DEF Ticked
    <2> QED
        BY <2>3, AnswerKinds, ElementOfSeq, LenProperties
<1>7. ~conn.active /\ "hello" \notin inbox => w.sent = <<>>
    <2> SUFFICES ASSUME ~conn.active /\ "hello" \notin inbox
                 PROVE  w.sent = <<>>
        OBVIOUS
    <2>1. TickSends(conn, {})
        BY <1>4, TickSendsOf, Zenon
    <2>2. Ticked(conn, {}, w)
        BY <1>3, <1>4, <2>1, TickFacts, Zenon
    <2>3. w.sent \in Seq({})
        BY <2>2 DEF Ticked
    <2> QED
        BY <2>3, EmptySeq, ElementOfSeq
<1>8. /\ w.conn \in Connections /\ w.conn.button = conn.button
      /\ w.failed \in BOOLEAN /\ w.sent \in Seq(TickPackets)
      /\ w.conn.active => conn.active
      /\ ~w.failed /\ silence >= InputTimeout => ~w.conn.active
    BY <1>5 DEF Ticked
<1> DEFINE waiting == IF w.failed THEN inbox \ {"hello"} ELSE {}
<1>9. waiting \in SUBSET {"hello", "ping"} /\ "hello" \notin waiting
    BY DEF Safe, TypeOK
<1>10. \A i \in DOMAIN w.sent : w.sent[i].kind # "tap"
    BY <1>8, AnswerKinds, ElementOfSeq, LenProperties
<1> HIDE DEF waiting
<1>11. Deliver(w, waiting)
    BY <1>2 DEF waiting
<1>12. \A x \in TickPackets : x.kind = "sensor" => x.status \in 0 .. 2
    BY AnswerKinds
<1>13. /\ server' \in Servers
       /\ server'.heardAge \in {0, server.heardAge}
       /\ server'.known => server.known \/ server'.heardAge = 0
       /\ server'.heardAge = server.heardAge => server' = server \/ server'.heardAge = 0
       /\ w.sent = <<>> => server' = server
       /\ (\A i \in DOMAIN w.sent : w.sent[i].kind # "tap") => server'.taps = server.taps
       /\ inbox' \in SUBSET {"hello", "ping"}
       /\ "hello" \in inbox' =>
            "hello" \in waiting \/ \E i \in DOMAIN w.sent : w.sent[i].kind = "handshake"
       /\ faults' \in 0 .. MaxFaults
    BY <1>4, <1>8, <1>9, <1>11, <1>12, DeliverFacts
<1>14. server'.taps = server.taps
    BY <1>10, <1>13
<1>15. "hello" \in inbox' => silence < InputTimeout
    BY <1>4, <1>6, <1>9, <1>13 DEF InputTimeout
<1>16. conn' \in Connections /\ Connected' /\ Connected
    BY <1>1, <1>2, <1>8, Connecting DEF Connected
<1>17. refused' \in BOOLEAN
    BY <1>2, <1>4, RefusalsType
<1>18. due' \subseteq Parties /\ (w.failed => due' = due)
    BY <1>2, <1>4 DEF TypeOK
<1>19. TypeOK'
    <2>1. server' \in [up : BOOLEAN, known : BOOLEAN, peer : BOOLEAN,
                       heardAge : 0 .. ServerMemory, shown : 0 .. 2, taps : 0 .. MaxPresses]
        BY <1>13, <1>14, <1>4 DEF Servers, TypeOK
    <2> QED
        BY <1>1, <1>4, <1>13, <1>16, <1>17, <1>18, <2>1 DEF TypeOK
<1>20. ConnectionOfBridge'
    BY <1>1, <1>16 DEF ConnectionOfBridge
<1>21. PressesCounted'
    BY <1>1, <1>2, <1>8, <1>14, <1>16 DEF Safe, PressesCounted
<1>22. StopsInTime'
    <2>1. ASSUME conn'.active, silence >= InputTimeout
          PROVE  silence = InputTimeout /\ "loop" \in due'
        <3>1. w.failed /\ conn.active
            BY <1>2, <1>8, <2>1
        <3> QED
            BY <1>16, <1>18, <2>1, <3>1 DEF Safe, StopsInTime
    <2>2. ASSUME "hello" \in inbox'
          PROVE  ~(silence >= InputTimeout)
        BY <1>4, <1>15, <2>2 DEF InputTimeout
    <2> QED
        BY <1>1, <2>1, <2>2 DEF StopsInTime
<1>23. AgesTogether'
    <2>1. CASE silence <= InputTimeout
        BY <1>1, <1>4, <1>13, <2>1
           DEF Safe, AgesTogether, Servers, InputTimeout, ServerMemory
    <2>2. CASE ~(silence <= InputTimeout)
        <3>1. ~conn.active /\ "hello" \notin inbox
            BY <1>4, <1>16, <2>2 DEF Safe, StopsInTime, InputTimeout
        <3>2. server' = server
            BY <1>7, <1>13, <3>1
        <3> QED
            BY <1>1, <3>2 DEF Safe, AgesTogether
    <2> QED
        BY <2>1, <2>2
<1> QED
    BY <1>19, <1>20, <1>21, <1>22, <1>23 DEF Safe

\* A second passes only when the loop of a Bridge with a connection has acted in it.
LEMMA PassSecondSafe ==
    ASSUME Safe, PassSecond
    PROVE  Safe'
<1>1. /\ due \cap MustAct = {} /\ due' = Parties
      /\ silence' = Older(silence, SilenceLimit)
      /\ conn' = IF conn = NoConnection THEN conn
                 ELSE [conn EXCEPT !.serverAge = Older(@, ServerTimeout),
                                   !.handshakeDue = TRUE, !.quiet = TRUE]
      /\ server' = IF server.known /\ server.heardAge + 1 >= ServerMemory
                   THEN [server EXCEPT !.known = FALSE, !.peer = FALSE, !.shown = 0,
                                       !.heardAge = 0]
                   ELSE [server EXCEPT !.heardAge = IF server.known THEN @ + 1 ELSE 0]
      /\ UNCHANGED <<running, inbox, refused, tracker, presses, faults>>
    BY DEF PassSecond
<1>2. silence \in 0 .. SilenceLimit /\ SilenceLimit = 6
    BY DEF Safe, TypeOK, SilenceLimit, InputTimeout, ServerMemory
<1>3. silence' \in 0 .. SilenceLimit /\ silence' <= silence + 1
    BY <1>1, <1>2 DEF Older
<1>4. Connected => "loop" \notin due
    BY <1>1 DEF Safe, ConnectionOfBridge, Connected, MustAct
<1>5. /\ Connected <=> Connected'
      /\ Connected => /\ conn \in Connections /\ conn' \in Connections
                      /\ conn'.active = conn.active /\ conn'.button = conn.button
      /\ conn' \in Connections \cup {NoConnection}
    <2>1. CASE conn = NoConnection
        BY <1>1, <2>1 DEF Connected
    <2>2. CASE conn # NoConnection
        <3> DEFINE age == Older(conn.serverAge, ServerTimeout)
                   After(due1, quiet) == [conn EXCEPT !.serverAge = age, !.handshakeDue = due1,
                                                      !.quiet = quiet]
        <3>1. conn \in Connections
            BY <2>2 DEF Safe, TypeOK
        <3>2. age \in 0 .. ServerTimeout
            BY <3>1 DEF Connections, Older, ServerTimeout
        <3>3. conn' = After(TRUE, TRUE)
            BY <1>1, <2>2
        <3> HIDE DEF age
        <3>4. \A due1, quiet \in BOOLEAN :
                /\ After(due1, quiet) \in Connections
                /\ After(due1, quiet).active = conn.active
                /\ After(due1, quiet).button = conn.button
            BY <3>1, <3>2 DEF Connections
        <3> HIDE DEF After
        <3>5. conn' \in Connections /\ conn'.active = conn.active /\ conn'.button = conn.button
            BY <3>3, <3>4
        <3> QED
            BY <2>2, <3>1, <3>5, Connecting DEF Connected
    <2> QED
        BY <2>1, <2>2
<1> DEFINE T == [up : BOOLEAN, known : BOOLEAN, peer : BOOLEAN, heardAge : 0 .. ServerMemory,
                 shown : 0 .. 2, taps : 0 .. MaxPresses]
<1>6. server \in T
    BY DEF Safe, TypeOK
<1>7. /\ server' \in T /\ server'.taps = server.taps
      /\ server'.known =>
            /\ server.known /\ server'.shown = server.shown
            /\ server'.heardAge = server.heardAge + 1 /\ server'.heardAge < ServerMemory
    <2>1. CASE server.known /\ server.heardAge + 1 >= ServerMemory
        <3> DEFINE After(no, none, age) == [server EXCEPT !.known = no, !.peer = no,
                                                          !.shown = none, !.heardAge = age]
        <3>1. \A no \in BOOLEAN, none \in 0 .. 2, age \in 0 .. ServerMemory :
                /\ After(no, none, age) \in T /\ After(no, none, age).taps = server.taps
                /\ After(no, none, age).known = no
            BY <1>6
        <3>2. server' = After(FALSE, 0, 0)
            BY <1>1, <2>1
        <3>3. 0 \in 0 .. 2 /\ 0 \in 0 .. ServerMemory
            BY DEF ServerMemory
        <3> HIDE DEF After, T
        <3>4. server' \in T /\ server'.taps = server.taps /\ server'.known = FALSE
            BY <3>1, <3>2, <3>3
        <3> QED
            BY <3>4
    <2>2. CASE ~(server.known /\ server.heardAge + 1 >= ServerMemory)
        <3> DEFINE age == IF server.known THEN server.heardAge + 1 ELSE 0
        <3>1. server' = [server EXCEPT !.heardAge = age]
            BY <1>1, <2>2
        <3>2. age \in 0 .. ServerMemory
            BY <1>6, <2>2 DEF ServerMemory
        <3> HIDE DEF age
        <3>3. /\ server' \in T /\ server'.taps = server.taps /\ server'.heardAge = age
              /\ server'.known = server.known /\ server'.shown = server.shown
            BY <1>6, <3>1, <3>2
        <3> QED
            BY <1>6, <2>2, <3>3 DEF age, ServerMemory
    <2> QED
        BY <2>1, <2>2
<1>8. TypeOK'
    <2>1. due' \subseteq Parties
        BY <1>1
    <2>2. /\ running' \in BOOLEAN /\ inbox' \subseteq {"hello", "ping"} /\ refused' \in BOOLEAN
          /\ tracker' \in [on : BOOLEAN, status : Statuses, held : BOOLEAN]
          /\ presses' \in 0 .. MaxPresses /\ faults' \in 0 .. MaxFaults
        BY <1>1 DEF Safe, TypeOK
    <2> QED
        BY <1>3, <1>5, <1>7, <2>1, <2>2 DEF TypeOK
<1>9. ConnectionOfBridge'
    BY <1>1, <1>5 DEF Safe, ConnectionOfBridge
<1>10. PressesCounted'
    BY <1>1, <1>5, <1>7 DEF Safe, PressesCounted
\* The loop has acted: a connection that is still active, or whose answer still waits, is
\* younger than InputTimeout.
<1>11. StopsInTime'
    <2>1. Connected /\ conn.active => silence < InputTimeout
        BY <1>2, <1>4 DEF Safe, StopsInTime, InputTimeout
    <2>2. "hello" \in inbox => silence < InputTimeout
        BY <1>2, <1>4 DEF Safe, StopsInTime, ConnectionOfBridge, InputTimeout
    <2>3. "loop" \in due'
        BY <1>1 DEF Parties
    <2>4. Connected' /\ conn'.active => silence < InputTimeout
        BY <1>5, <2>1
    <2> QED
        BY <1>1, <1>2, <1>3, <2>2, <2>3, <2>4 DEF StopsInTime, InputTimeout
<1>12. AgesTogether'
    BY <1>2, <1>3, <1>6, <1>7 DEF Safe, AgesTogether, InputTimeout, ServerMemory
<1> QED
    BY <1>8, <1>9, <1>10, <1>11, <1>12 DEF Safe

\* The actions of the network, the Server's host and the tracker.
LEMMA ServerPingsSafe == ASSUME Safe, ServerPings PROVE Safe'
<1>1. /\ inbox' = inbox \cup {"ping"} /\ due' = due \ {"server"}
      /\ UNCHANGED <<running, conn, refused, silence, tracker, server, presses, faults>>
    BY DEF ServerPings
<1>2. TypeOK'
    BY <1>1 DEF Safe, TypeOK
<1>3. ConnectionOfBridge' /\ StopsInTime'
    BY <1>1 DEF Safe, ConnectionOfBridge, StopsInTime, Connected
<1>4. PressesCounted' /\ AgesTogether'
    BY <1>1 DEF Safe, PressesCounted, AgesTogether, Connected
<1> QED
    BY <1>2, <1>3, <1>4 DEF Safe

LEMMA LoseAnswerSafe == ASSUME Safe, LoseAnswer PROVE Safe'
<1>1. /\ inbox' \subseteq inbox /\ faults < MaxFaults /\ faults' = faults + 1
      /\ UNCHANGED <<running, conn, refused, silence, tracker, server, due, presses>>
    BY DEF LoseAnswer
<1>2. faults' \in 0 .. MaxFaults
    BY <1>1, OutputBoundsAssumption DEF Safe, TypeOK
<1>3. TypeOK'
    BY <1>1, <1>2 DEF Safe, TypeOK
<1>4. ConnectionOfBridge' /\ StopsInTime'
    BY <1>1 DEF Safe, ConnectionOfBridge, StopsInTime, Connected
<1>5. PressesCounted' /\ AgesTogether'
    BY <1>1 DEF Safe, PressesCounted, AgesTogether, Connected
<1> QED
    BY <1>3, <1>4, <1>5 DEF Safe

\* Both changes of the Server's process leave what it has not forgotten as it was.
LEMMA ServerChangesSafe ==
    ASSUME Safe, ServerStops \/ ServerStarts
    PROVE  Safe'
<1> DEFINE T == [up : BOOLEAN, known : BOOLEAN, peer : BOOLEAN, heardAge : 0 .. ServerMemory,
                 shown : 0 .. 2, taps : 0 .. MaxPresses]
<1>1. UNCHANGED <<running, conn, inbox, refused, silence, tracker, due, presses>>
    BY DEF ServerStops, ServerStarts, bridgeVars
<1>2. server \in T
    BY DEF Safe, TypeOK
<1>3. /\ server' \in T /\ server'.taps = server.taps
      /\ server'.known => server.known /\ server'.heardAge = server.heardAge
                          /\ server'.shown = server.shown
    <2> DEFINE Stopped(no, none) == [server EXCEPT !.up = no, !.known = no, !.peer = no,
                                                   !.shown = none]
               Started(yes) == [server EXCEPT !.up = yes]
    <2>1. \A no \in BOOLEAN, none \in 0 .. 2 :
            /\ Stopped(no, none) \in T /\ Stopped(no, none).taps = server.taps
            /\ Stopped(no, none).known = no
        BY <1>2
    <2>2. \A yes \in BOOLEAN :
            /\ Started(yes) \in T /\ Started(yes).taps = server.taps
            /\ Started(yes).known = server.known /\ Started(yes).shown = server.shown
            /\ Started(yes).heardAge = server.heardAge
        BY <1>2
    <2>3. server' = Stopped(FALSE, 0) \/ server' = Started(TRUE)
        BY DEF ServerStops, ServerStarts
    <2>4. 0 \in 0 .. 2
        OBVIOUS
    <2> HIDE DEF Stopped, Started, T
    <2>5. CASE server' = Stopped(FALSE, 0)
        <3>1. server' \in T /\ server'.taps = server.taps /\ server'.known = FALSE
            BY <2>1, <2>4, <2>5
        <3> QED
            BY <3>1
    <2>6. CASE server' = Started(TRUE)
        BY <2>2, <2>6
    <2> QED
        BY <2>3, <2>5, <2>6
<1>4. faults' \in 0 .. MaxFaults
    BY OutputBoundsAssumption DEF Safe, TypeOK, ServerStops, ServerStarts
<1>5. TypeOK'
    BY <1>1, <1>3, <1>4 DEF Safe, TypeOK
<1>6. ConnectionOfBridge' /\ StopsInTime'
    BY <1>1 DEF Safe, ConnectionOfBridge, StopsInTime, Connected
<1>7. PressesCounted' /\ AgesTogether'
    BY <1>1, <1>3 DEF Safe, PressesCounted, AgesTogether, Connected
<1> QED
    BY <1>5, <1>6, <1>7 DEF Safe

\* The tracker's switch, status and button.
LEMMA TrackerSafe ==
    ASSUME Safe, TrackerChanges \/ Press \/ Release
    PROVE  Safe'
<1>1. UNCHANGED <<running, conn, inbox, refused, silence, server, due>>
    BY DEF TrackerChanges, Press, Release, bridgeVars
<1>2. tracker \in [on : BOOLEAN, status : Statuses, held : BOOLEAN]
    BY DEF Safe, TypeOK
<1>3. presses \in Nat /\ faults \in Nat /\ server.taps \in Nat
    BY OutputBoundsAssumption DEF Safe, TypeOK
<1>4. /\ tracker' \in [on : BOOLEAN, status : Statuses, held : BOOLEAN]
      /\ presses' \in 0 .. MaxPresses /\ faults' \in 0 .. MaxFaults
      /\ \/ tracker'.held = tracker.held /\ presses' = presses
         \/ presses' = presses + 1
         \/ ~tracker'.held /\ presses' = presses
    <2>1. CASE TrackerChanges
        <3>1. /\ tracker' \in [on : BOOLEAN, status : Statuses, held : BOOLEAN]
              /\ tracker'.held = tracker.held
            <4>1. CASE tracker' = [tracker EXCEPT !.on = ~@]
                BY <1>2, <4>1
            <4>2. CASE \E s \in Statuses \ {tracker.status} :
                            tracker' = [tracker EXCEPT !.status = s]
                BY <1>2, <4>2
            <4> QED
                BY <2>1, <4>1, <4>2 DEF TrackerChanges
        <3>2. presses' = presses /\ presses' \in 0 .. MaxPresses /\ faults' \in 0 .. MaxFaults
            BY <2>1, OutputBoundsAssumption DEF TrackerChanges, Safe, TypeOK
        <3> QED
            BY <3>1, <3>2
    <2>2. CASE Press
        <3>1. tracker' \in [on : BOOLEAN, status : Statuses, held : BOOLEAN]
            BY <1>2, <2>2 DEF Press
        <3>2. presses' = presses + 1 /\ presses' \in 0 .. MaxPresses /\ faults' \in 0 .. MaxFaults
            BY <2>2, OutputBoundsAssumption DEF Press, Safe, TypeOK
        <3> QED
            BY <3>1, <3>2
    <2>3. CASE Release
        <3>1. /\ tracker' \in [on : BOOLEAN, status : Statuses, held : BOOLEAN]
              /\ ~tracker'.held
            BY <1>2, <2>3 DEF Release
        <3>2. presses' = presses /\ presses' \in 0 .. MaxPresses /\ faults' \in 0 .. MaxFaults
            BY <2>3, OutputBoundsAssumption DEF Release, Safe, TypeOK
        <3> QED
            BY <3>1, <3>2
    <2> QED
        BY <2>1, <2>2, <2>3
<1>5. TypeOK'
    BY <1>1, <1>4 DEF Safe, TypeOK
<1>6. ConnectionOfBridge' /\ StopsInTime'
    BY <1>1 DEF Safe, ConnectionOfBridge, StopsInTime, Connected
<1>7. AgesTogether'
    BY <1>1 DEF Safe, AgesTogether
<1>8. PressesCounted'
    <2>1. /\ server.taps <= presses /\ (tracker.held => presses >= 1)
          /\ tracker.held /\ ~(Connected /\ conn.button) => server.taps < presses
          /\ server' = server /\ conn' = conn
        BY <1>1 DEF Safe, PressesCounted
    <2>2. CASE tracker'.held = tracker.held /\ presses' = presses
        BY <2>1, <2>2 DEF PressesCounted, Connected
    <2>3. CASE presses' = presses + 1
        BY <1>3, <2>1, <2>3 DEF PressesCounted
    <2>4. CASE ~tracker'.held /\ presses' = presses
        BY <2>1, <2>4 DEF PressesCounted
    <2> QED
        BY <1>4, <2>2, <2>3, <2>4
<1> QED
    BY <1>5, <1>6, <1>7, <1>8 DEF Safe

LEMMA OtherSafe ==
    ASSUME Safe, TickRefused \/ BridgeStarts \/ BridgeEnds \/ UNCHANGED vars
    PROVE  Safe'
<1>1. CASE BridgeEnds
    <2>1. EndBridge /\ UNCHANGED <<silence, tracker, due>> /\ faults < MaxFaults
          /\ faults' = faults + 1
        BY <1>1 DEF BridgeEnds
    <2>2. faults' \in 0 .. MaxFaults /\ due' \in SUBSET Parties
        BY <2>1, OutputBoundsAssumption DEF Safe, TypeOK
    <2> QED
        BY <2>1, <2>2, EndBridgeSafe
<1>2. CASE TickRefused \/ BridgeStarts \/ UNCHANGED vars
    <2>1. /\ UNCHANGED <<conn, inbox, silence, tracker, server, due, presses, faults>>
          /\ running' = TRUE \/ running' = running
          /\ refused' \in {refused, FALSE}
        BY <1>2 DEF TickRefused, BridgeStarts, vars, bridgeVars
    <2>2. TypeOK'
        BY <2>1 DEF Safe, TypeOK
    <2>3. ConnectionOfBridge' /\ StopsInTime'
        BY <2>1 DEF Safe, ConnectionOfBridge, StopsInTime, Connected
    <2>4. PressesCounted' /\ AgesTogether'
        BY <2>1 DEF Safe, PressesCounted, AgesTogether, Connected
    <2> QED
        BY <2>2, <2>3, <2>4 DEF Safe
<1> QED
    BY <1>1, <1>2

-----------------------------------------------------------------------------
(* The theorems *)

LEMMA NextSafe == Safe /\ [Next]_vars => Safe'
BY RecordSafe, TickSafe, PassSecondSafe, ServerPingsSafe, LoseAnswerSafe, ServerChangesSafe,
   TrackerSafe, OtherSafe DEF Next

\* The invariant of every reachable state of the Bridge, the Server and the tracker.
LEMMA SafeAlways == Spec => []Safe
BY InitSafe, NextSafe, PTL DEF Spec

\* The connection, what it has sent and what the Server makes of it stay well formed.
THEOREM OutputTypes == Spec => []TypeOK
<1>1. Safe => TypeOK
    BY DEF Safe
<1> QED
    BY <1>1, SafeAlways, PTL

\* The Server never counts more taps than presses, whatever is lost, repeated or sent half
\* way and whichever side restarts.
THEOREM NoTapInvented == Spec => []TapsArePresses
<1>1. Safe => TapsArePresses
    BY DEF Safe, PressesCounted, TapsArePresses
<1> QED
    BY <1>1, SafeAlways, PTL

\* The Server has no tracker to show InputTimeout + ServerMemory seconds after its last
\* record.
THEOREM SilentTrackerGoes == Spec => []SilentTrackerGone
<1>1. Safe => SilentTrackerGone
    <2>1. Safe => silence \in Nat /\ (server.known => server.heardAge \in Nat)
        BY DEF Safe, TypeOK
    <2> QED
        BY <2>1 DEF Safe, AgesTogether, SilentTrackerGone, InputTimeout, ServerMemory
<1> QED
    BY <1>1, SafeAlways, PTL
=============================================================================
