-------------------------- MODULE ConnectionProofs --------------------------
(***************************************************************************)
(* Theorems about Connection, for any number of retries, whoever connects  *)
(* and whatever the applications do: what a connected socket believes of   *)
(* the other end is so, the end of file follows the data, and a timer runs *)
(* for all that may be lost.                                               *)
(*                                                                         *)
(* Every handler is an operator from the socket before it to the one after *)
(* it.  Link(s, r) relates a socket in the middle of a handler to the      *)
(* other end, which stands still, and Later(s, t, r) says that what was    *)
(* sent to and from s is still true of t; one lemma for each operator.     *)
(***************************************************************************)
EXTENDS Connection, FiniteSetTheorems, TLAPS

Opening == {"LISTEN", "SYN_SENT", "SYN_RCVD"}

Written(s) == s.written # "nothing"

\* The handshake will never be completed, and nothing was ever written.  Such
\* a socket may still send a FIN (DoClose in SYN_RCVD), with any number.
Aborted(s) ==
    /\ ~s.connected /\ ~Written(s)
    /\ s.state \notin Opening
    /\ s.state = "CLOSED" => ~s.endPoint

\* A FIN that completes the handshake finds a connected socket in SYN_RCVD.
Open(s) ==
    \/ s.state \in {"ESTABLISHED", "CLOSE_WAIT"}
    \/ s.state = "SYN_RCVD" /\ s.connected

CanWrite(s) == s.endPoint /\ ~s.closed /\ Open(s)

\* All that a connected socket will ever send lies below m_highTxMark.
Final(s) == IF Written(s) THEN s.high = 2 ELSE s.high = 1 /\ ~CanWrite(s)

\* The marks of a socket that is not connected, if it will be,
Unconnected(s) ==
    /\ s.state \in Opening \cup {"CLOSED"}
    /\ s.head = 0 /\ s.next = 0 /\ s.high = 0
    /\ ~s.sendEvent /\ s.retxEvent \in {NoEvent, SYN, SynAck}
    /\ s.state \in Opening /\ Written(s) => s.size = 1

\* and of one that is: a FIN is sent at the end of all that was written.
Connected(s) ==
    /\ s.head >= 1 /\ s.high \in 1 .. 2 /\ s.next >= s.high /\ s.next >= s.head
    /\ s.size = 1 => s.head = 1 /\ s.next = s.high
    /\ Written(s) /\ s.size = 0 => s.head >= 2 /\ s.high = 2
    /\ ~Written(s) => s.high = 1
    /\ s.retxEvent \notin {SYN, SynAck}
    /\ s.state \in {"FIN_WAIT_1", "CLOSING", "LAST_ACK"} \/ s.retxEvent = FinAck
           => Final(s)

Numbered(s) ==
    /\ s.size = 1 => Written(s)
    /\ s.high <= s.head + s.size
    /\ ~s.connected /\ ~Aborted(s) => Unconnected(s)
    /\ s.connected => Connected(s)

\* What the state says of the peer's numbers, and the timers of a dead socket.
Stated(s) ==
    /\ s.state = "CLOSED" /\ s.endPoint =>
          /\ s.rxNext = 0 /\ ~s.gotFin /\ s.retxEvent = NoEvent
          /\ ~s.connected /\ ~Written(s)
    /\ s.state \in {"LISTEN", "SYN_SENT"} => s.rxNext = 0 /\ ~s.gotFin /\ ~s.connected
    /\ s.state = "SYN_RCVD" /\ ~s.connected => ~s.gotFin
    /\ s.state \notin {"LISTEN", "SYN_SENT", "CLOSED"} \/ s.connected => s.rxNext >= 1
    /\ s.retxEvent = FinAck => s.rxNext >= 1
    /\ s.state = "FIN_WAIT_2" => s.head >= s.high /\ s.size = 0
    /\ ~s.endPoint => s.retxEvent = NoEvent /\ ~s.sendEvent
                      /\ ~s.lastAckEvent /\ ~s.timewaitEvent

\* What s has received is what r has sent.
Heard(s, r) ==
    /\ ~Aborted(r) /\ ~r.connected => s.rxNext <= 1 /\ ~s.gotFin
    /\ ~Aborted(r) /\ ~s.connected /\ s.state = "SYN_RCVD" => s.rxNext <= 1
    /\ r.connected =>
          /\ s.rxNext >= 1
          /\ s.gotFin => /\ Final(r)
                         /\ s.finSeq >= r.high \/ (s.got = 1 /\ s.rxNext >= 2)
          /\ s.rxNext > r.high => Finished(s)
          /\ s.rxNext >= 2 /\ Written(r) => s.got = 1
          /\ r.next > r.high => r.next <= s.rxNext
          /\ r.state = "FIN_WAIT_2" => Finished(s)

\* The segment, which s has sent to r, is true of both.
Sent(seg, s, r) ==
    /\ seg \in Segment
    /\ "FIN" \in seg.flags => s.rxNext >= 1
    /\ "RST" \notin seg.flags /\ ~Aborted(r) => seg.ack <= s.rxNext
    /\ seg.len = 1 => s.connected /\ Written(s) /\ s.high = 2 /\ seg.seq = 1
    /\ "SYN" \in seg.flags => "RST" \notin seg.flags
    /\ "SYN" \in seg.flags /\ ~Aborted(s) => seg.seq = 0 /\ seg.len = 0
    /\ "FIN" \in seg.flags /\ ~Aborted(s) =>
          /\ s.connected /\ Final(s)
          /\ \/ seg.seq + seg.len = s.high
             \/ seg.len = 0 /\ seg.seq > s.high /\ seg.seq <= r.rxNext

Link(s, r) ==
    /\ s \in Socket /\ Numbered(s) /\ Stated(s)
    /\ r \in Socket /\ Numbered(r)
    /\ Heard(s, r) /\ Heard(r, s)
    /\ \A seg \in s.out : Sent(seg, s, r)

\* What was true of s, and of the segments to and from it, is true of t.
Later(s, t, r) ==
    /\ s.connected => t.connected
    /\ Written(s) => Written(t)
    /\ Aborted(s) => Aborted(t)
    /\ s.connected /\ s.high = 2 => t.high = 2
    /\ s.connected /\ Final(s) => Final(t) /\ t.high = s.high
    /\ s.rxNext >= 1 => t.rxNext >= 1
    /\ ~Aborted(r) => s.rxNext <= t.rxNext
    /\ s.size = 1 /\ t.size = 0 => r.got = 1

Step(s, t, r) == Link(t, r) /\ Later(s, t, r)

\* The timer of what may be lost (WaitingTimed), and why it is enough when an
\* application closes: there is none but for data in flight before that.
Timed(s) ==
    s.endPoint =>
      /\ s.state = "SYN_RCVD" /\ ~s.connected => s.retxEvent # NoEvent
      /\ s.state \in {"SYN_SENT", "FIN_WAIT_1", "CLOSING"} => s.retxEvent # NoEvent
      /\ Open(s) /\ s.head < s.high => s.retxEvent # NoEvent
      /\ Open(s) /\ ~s.closed
            => s.retxEvent = NoEvent \/ (s.retxEvent = Timeout /\ s.size = 1)
      /\ s.state = "LAST_ACK" =>
            \/ s.lastAckEvent \/ s.retxEvent = FinAck
            \/ s.retxEvent = Timeout /\ s.size = 1

\* No FIN before the application has asked for it.
Asked(s) ==
    /\ s.state \in {"FIN_WAIT_1", "FIN_WAIT_2"} \/ s.closeOnEmpty
           => s.closed \/ s.shutdownSend
    /\ Aborted(s) /\ s.endPoint => s.closed

Settled(s) == s.connected => s.state \notin Opening

IInv ==
    /\ sock \in [Peers -> Socket] /\ net \in [Peers -> SUBSET Segment]
    /\ \A p \in Peers :
          /\ sock[p].out = {}
          /\ Link(sock[p], sock[Other(p)])
          /\ Timed(sock[p]) /\ Asked(sock[p]) /\ Settled(sock[p])
          /\ \A seg \in net[p] : Sent(seg, sock[Other(p)], sock[p])

-----------------------------------------------------------------------------
(***************************************************************************)
(* Flags and fields                                                        *)
(***************************************************************************)
LEMMA Marks ==
  /\ NoEvent # SYN /\ NoEvent # SynAck /\ NoEvent # FinAck /\ NoEvent # Timeout
  /\ SYN # SynAck /\ SYN # FinAck /\ SYN # Timeout /\ SynAck # FinAck
  /\ SynAck # Timeout /\ FinAck # Timeout /\ ACK # FinAck /\ ACK # SYN
  /\ ACK # SynAck /\ RST # ACK /\ RST # FinAck
<1>1. /\ "SYN" \in SYN /\ "SYN" \in SynAck /\ "ACK" \in SynAck /\ "ACK" \in ACK
      /\ "FIN" \in FinAck /\ "ACK" \in FinAck /\ "ReTxTimeout" \in Timeout /\ "RST" \in RST
  BY DEF SYN, SynAck, ACK, FinAck, Timeout, RST
<1>2. /\ "ACK" \notin SYN /\ "FIN" \notin SYN /\ "FIN" \notin SynAck /\ "SYN" \notin FinAck
      /\ "SYN" \notin Timeout /\ "FIN" \notin Timeout /\ "FIN" \notin ACK /\ "SYN" \notin ACK
      /\ "RST" \notin ACK /\ "RST" \notin FinAck /\ \A x : x \notin NoEvent
  BY DEF SYN, SynAck, ACK, FinAck, Timeout, RST, NoEvent
<1> QED  BY <1>1, <1>2

\* Which flags are in which segments.
LEMMA FlagsOf ==
  /\ "SYN" \in SYN /\ "FIN" \notin SYN /\ "ACK" \notin SYN /\ "RST" \notin SYN
  /\ "SYN" \in SynAck /\ "FIN" \notin SynAck /\ "ACK" \in SynAck /\ "RST" \notin SynAck
  /\ "SYN" \notin ACK /\ "FIN" \notin ACK /\ "ACK" \in ACK /\ "RST" \notin ACK
  /\ "SYN" \notin FinAck /\ "FIN" \in FinAck /\ "ACK" \in FinAck /\ "RST" \notin FinAck
  /\ "SYN" \notin RST /\ "FIN" \notin RST /\ "ACK" \notin RST /\ "RST" \in RST
  /\ {"FIN"} \cup ACK = FinAck /\ FinAck \cup ACK = FinAck
  /\ SYN \in SUBSET Flags /\ SynAck \in SUBSET Flags /\ ACK \in SUBSET Flags
  /\ FinAck \in SUBSET Flags /\ RST \in SUBSET Flags
  /\ \A x : x \cap {"SYN", "FIN"} # {} <=> "SYN" \in x \/ "FIN" \in x
  BY DEF SYN, SynAck, ACK, FinAck, RST, Flags

\* The types of the fields.
LEMMA Fields ==
  ASSUME NEW s \in Socket
  PROVE  /\ s.state \in States /\ s.endPoint \in BOOLEAN /\ s.listener \in BOOLEAN
         /\ s.connected \in BOOLEAN /\ s.closeOnEmpty \in BOOLEAN
         /\ s.shutdownSend \in BOOLEAN /\ s.closeNotified \in BOOLEAN
         /\ s.synCount \in 0 .. SynRetries /\ s.dataRetrCount \in 0 .. DataRetries
         /\ s.retxEvent \in {NoEvent, SYN, SynAck, FinAck, Timeout}
         /\ s.sendEvent \in BOOLEAN /\ s.lastAckEvent \in BOOLEAN
         /\ s.timewaitEvent \in BOOLEAN /\ s.head \in Nat /\ s.size \in 0 .. 1
         /\ s.next \in Nat /\ s.high \in Nat /\ s.rxNext \in Nat /\ s.rxSize \in 0 .. 1
         /\ s.gotFin \in BOOLEAN /\ s.finSeq \in Nat
         /\ s.written \in {"nothing", "accepted", "refused"} /\ s.closed \in BOOLEAN
         /\ s.got \in 0 .. 1 /\ s.out \in SUBSET Segment
  BY DEF Socket, Seqs

-----------------------------------------------------------------------------
(***************************************************************************)
(* What only touches the state and the timers                              *)
(***************************************************************************)
SameOffer(s, t) ==
    /\ t.connected = s.connected /\ t.written = s.written
    /\ t.head = s.head /\ t.size = s.size /\ t.next = s.next /\ t.high = s.high

SameTaken(s, t) ==
    /\ t.rxNext = s.rxNext /\ t.gotFin = s.gotFin /\ t.finSeq = s.finSeq
    /\ t.got = s.got

\* Steps compose: a handler takes one after the other, its peer stands still.
LEMMA StepRefl ==
  ASSUME NEW s, NEW r, Link(s, r) PROVE Step(s, s, r)
  BY Fields DEF Step, Later, Link

\* What is said of a first step, and of a second, is said of both.
LEMMA StepTrans ==
  ASSUME NEW s, NEW t, NEW u, NEW r, s \in Socket, Step(s, t, r), Step(t, u, r)
  PROVE  Step(s, u, r)
<1>1. t \in Socket /\ u \in Socket
  BY DEF Step, Link
<1> QED  BY <1>1, Fields DEF Step, Later

\* What was sent to and from s is true of t.
LEMMA StillSent ==
  ASSUME NEW s \in Socket, NEW t \in Socket, NEW r \in Socket, Later(s, t, r), NEW seg
  PROVE  /\ Sent(seg, s, r) => Sent(seg, t, r)
         /\ Sent(seg, r, s) => Sent(seg, r, t)
<1>1. ASSUME Sent(seg, s, r) PROVE Sent(seg, t, r)
  <2>1. seg.ack \in Nat /\ seg.seq \in Nat /\ seg.len \in 0 .. 1
    BY <1>1 DEF Sent, Segment, Seqs
  <2> QED  BY <1>1, <2>1, Fields DEF Sent, Later
<1>2. ASSUME Sent(seg, r, s) PROVE Sent(seg, r, t)
  <2>1. seg.ack \in Nat /\ seg.seq \in Nat /\ seg.len \in 0 .. 1
    BY <1>2 DEF Sent, Segment, Seqs
  <2> QED  BY <1>2, <2>1, Fields DEF Sent, Later
<1> QED  BY <1>1, <1>2

\* A step that leaves the numbers alone.
LEMMA Kept ==
  ASSUME NEW s, NEW t, NEW r, Link(s, r), t \in Socket, SameOffer(s, t), SameTaken(s, t),
         Aborted(s) => Aborted(t), s.connected /\ Final(s) => Final(t),
         ~t.connected /\ t.state = "SYN_RCVD" => s.state = "SYN_RCVD",
         t.state = "FIN_WAIT_2" => s.state = "FIN_WAIT_2" \/ (s.connected => Finished(r)),
         Numbered(t), Stated(t), \A seg \in t.out : seg \in s.out \/ Sent(seg, t, r)
  PROVE  Step(s, t, r)
<1>1. s \in Socket /\ r \in Socket /\ Numbered(s) /\ Numbered(r)
  BY DEF Link
<1>2. Later(s, t, r)
  BY <1>1, Fields DEF Later, SameOffer, SameTaken, Written
<1>3. Heard(t, r)
  <2>1. Heard(s, r)
    BY DEF Link
  <2> QED  BY <1>1, <2>1, Fields DEF Heard, SameOffer, SameTaken, Finished
<1>4. Heard(r, t)
  <2>1. Heard(r, s)
    BY DEF Link
  <2> QED  BY <1>1, <2>1, Fields DEF Heard, SameOffer, SameTaken, Finished, Written
<1>5. \A seg \in t.out : Sent(seg, t, r)
  BY <1>1, <1>2, StillSent DEF Link
<1> QED  BY <1>1, <1>2, <1>3, <1>4, <1>5 DEF Step, Link

SameApp(s, t) ==
    /\ t.closed = s.closed /\ t.shutdownSend = s.shutdownSend
    /\ t.closeOnEmpty = s.closeOnEmpty

SameTimers(s, t) ==
    /\ t.retxEvent = s.retxEvent /\ t.sendEvent = s.sendEvent
    /\ t.lastAckEvent = s.lastAckEvent /\ t.timewaitEvent = s.timewaitEvent

Quiet(s) ==
    /\ s.retxEvent = NoEvent /\ ~s.sendEvent
    /\ ~s.lastAckEvent /\ ~s.timewaitEvent

\* The rest of what every handler has to keep.
End(s) == Timed(s) /\ Asked(s) /\ Settled(s)

\* A socket that has lost its endpoint is done, whatever its state.
LEMMA Gone ==
  ASSUME NEW s, NEW t, NEW r, Link(s, r), t \in Socket,
         SameOffer(s, t), SameTaken(s, t), SameApp(s, t), ~t.endPoint, Quiet(t),
         \/ t.state \in {s.state, "CLOSED"}
         \/ t.state = "CLOSE_WAIT" /\ s.state \notin Opening \cup {"CLOSED"}
         \/ t.state = "CLOSE_WAIT" /\ s.connected,
         \A seg \in t.out : seg \in s.out \/ Sent(seg, t, r)
  PROVE  Step(s, t, r) /\ Timed(t) /\ (Asked(s) => Asked(t)) /\ (Settled(s) => Settled(t))
<1>1. s \in Socket /\ r \in Socket /\ Numbered(s) /\ Stated(s)
  BY DEF Link
<1>2. Aborted(s) => Aborted(t)
  BY <1>1, Fields DEF Aborted, SameOffer, Written, Opening
<1>3. s.connected /\ Final(s) => Final(t)
  BY <1>1, Fields DEF Final, CanWrite, Open, SameOffer, Written
<1>4. Numbered(t)
  <2>1. ASSUME ~t.connected, ~Aborted(t) PROVE Unconnected(t)
    <3>1. ~s.connected /\ Unconnected(s)
      BY <1>1, <1>2, <2>1 DEF Numbered, SameOffer
    <3>2. t.state \in Opening \cup {"CLOSED"}
      BY <3>1 DEF Unconnected
    <3>3. t.state \in Opening => t.state = s.state
      BY DEF Opening
    <3> QED  BY <3>1, <3>2, <3>3 DEF Unconnected, SameOffer, Quiet, Written
  <2>2. ASSUME t.connected PROVE Connected(t)
    <3>1. s.connected /\ Connected(s)
      BY <1>1, <2>2 DEF Numbered, SameOffer
    <3>2. t.state \in {"FIN_WAIT_1", "CLOSING", "LAST_ACK"} => Final(t)
      BY <1>3, <3>1 DEF Connected
    <3> QED  BY <3>1, <3>2, Marks DEF Connected, SameOffer, Quiet, Written
  <2> QED  BY <1>1, <2>1, <2>2 DEF Numbered, SameOffer, Written
<1>5. Stated(t)
  <2>1. s.connected => s.rxNext >= 1
    BY <1>1 DEF Stated
  <2>2. t.state \notin {"LISTEN", "SYN_SENT", "CLOSED"} => s.rxNext >= 1
    BY <1>1 DEF Stated, Opening
  <2> QED  BY <1>1, <2>1, <2>2, Marks, Fields DEF Stated, SameOffer, SameTaken, Quiet
<1>6. Step(s, t, r)
  <2>1. ~t.connected /\ t.state = "SYN_RCVD" => s.state = "SYN_RCVD"
    OBVIOUS
  <2>2. t.state = "FIN_WAIT_2" => s.state = "FIN_WAIT_2"
    OBVIOUS
  <2> QED  BY <1>2, <1>3, <1>4, <1>5, <2>1, <2>2, Kept
<1>7. Timed(t)
  BY DEF Timed
<1>8. Asked(s) => Asked(t)
  BY <1>1, Fields DEF Asked, SameApp
<1>9. Settled(s) => Settled(t)
  BY DEF Settled, SameOffer, Opening
<1> QED  BY <1>6, <1>7, <1>8, <1>9

\* What DeallocateEndPoint leaves alone.
LEMMA Deallocated ==
  ASSUME NEW s \in Socket, ~s.endPoint => Quiet(s)
  PROVE  LET t == DeallocateEndPoint(s)
         IN  /\ t \in Socket /\ SameOffer(s, t) /\ SameTaken(s, t) /\ SameApp(s, t)
             /\ t.state = s.state /\ t.out = s.out /\ t.rxSize = s.rxSize
             /\ ~t.endPoint /\ Quiet(t)
<1> DEFINE t == DeallocateEndPoint(s)
<1>1. CASE ~s.endPoint
  BY <1>1, Fields DEF DeallocateEndPoint, SameOffer, SameTaken, SameApp
<1>2. CASE s.endPoint
  <2>1. t = [CancelAllTimers(s) EXCEPT !.endPoint = FALSE]
    BY <1>2 DEF DeallocateEndPoint
  <2>2. t \in Socket
    <3>1. CancelAllTimers(s) \in Socket
      BY DEF CancelAllTimers, Socket
    <3> QED  BY <2>1, <3>1 DEF Socket
  <2>3. SameOffer(s, t) /\ SameTaken(s, t)
    BY <2>1 DEF CancelAllTimers, Socket, SameOffer, SameTaken
  <2>4. SameApp(s, t) /\ t.state = s.state /\ t.out = s.out /\ t.rxSize = s.rxSize
    BY <2>1 DEF CancelAllTimers, Socket, SameApp
  <2>5. ~t.endPoint /\ Quiet(t)
    BY <2>1 DEF CancelAllTimers, Socket, Quiet
  <2> QED  BY <2>2, <2>3, <2>4, <2>5
<1> QED  BY <1>1, <1>2, Fields

\* What CloseAndNotify changes: state, endpoint and timers, nothing it sent.
LEMMA CloseAndNotified ==
  ASSUME NEW s \in Socket, ~s.endPoint => Quiet(s)
  PROVE  LET t == CloseAndNotify(s)
         IN  /\ t \in Socket /\ SameOffer(s, t) /\ SameTaken(s, t) /\ SameApp(s, t)
             /\ t.state = "CLOSED" /\ t.out = s.out /\ ~t.endPoint /\ Quiet(t)
<1> DEFINE u == [s EXCEPT !.state = "CLOSED", !.closeNotified = TRUE,
                          !.lastAckEvent = FALSE]
<1>1. u \in Socket
  BY DEF Socket, States
<1>2. SameOffer(s, u) /\ SameTaken(s, u) /\ SameApp(s, u)
  BY DEF Socket, SameOffer, SameTaken, SameApp
<1>3. u.state = "CLOSED" /\ u.out = s.out /\ (~u.endPoint => Quiet(u))
  BY DEF Socket, Quiet
<1>4. CloseAndNotify(s) = DeallocateEndPoint(u)
  BY DEF CloseAndNotify
<1> HIDE DEF u
<1> QED  BY <1>1, <1>2, <1>3, <1>4, Deallocated DEF SameOffer, SameTaken, SameApp

\* An ACK or a RST is sent, and nothing else happens.
LEMMA PlainPacket ==
  ASSUME NEW s \in Socket, NEW wanted \in {ACK, RST}
  PROVE  LET t == SendEmptyPacket(s, wanted)
         IN  /\ t \in Socket /\ SameOffer(s, t) /\ SameTaken(s, t) /\ SameApp(s, t)
             /\ SameTimers(s, t) /\ t.state = s.state /\ t.endPoint = s.endPoint
             /\ t.rxSize = s.rxSize /\ t.dataRetrCount = s.dataRetrCount
             /\ \A seg \in t.out : \/ seg \in s.out
                                   \/ /\ seg \in Segment /\ seg.flags = wanted
                                      /\ seg.len = 0 /\ seg.ack = s.rxNext
<1> DEFINE t == SendEmptyPacket(s, wanted)
<1>0. /\ "SYN" \notin wanted /\ "FIN" \notin wanted /\ wanted \in SUBSET Flags
      /\ wanted \cap {"SYN", "FIN"} = {}
  BY FlagsOf
<1>1. CASE ~s.endPoint
  <2>1. t = s
    BY <1>1 DEF SendEmptyPacket
  <2> QED  BY <2>1 DEF SameOffer, SameTaken, SameApp, SameTimers
<1>2. CASE s.endPoint
  <2> DEFINE seg == [flags |-> wanted, seq |-> EmptySeq(s, wanted),
                     ack |-> s.rxNext, len |-> 0]
  <2>1. t = EmptyPacket(s, wanted)
    BY <1>0, <1>2 DEF SendEmptyPacket
  <2>2. t = [s EXCEPT !.out = @ \cup {seg}, !.retxEvent = @, !.synCount = @]
    BY <1>0, <2>1 DEF EmptyPacket
  <2>3. seg \in Segment /\ seg.flags = wanted /\ seg.len = 0 /\ seg.ack = s.rxNext
    <3>1. EmptySeq(s, wanted) \in Nat
      BY Fields DEF EmptySeq
    <3> QED  BY <1>0, <3>1, Fields DEF Segment, Seqs
  <2> HIDE DEF seg
  <2>4. t.out = s.out \cup {seg}
    BY <2>2 DEF Socket
  <2>5. t \in Socket
    <3>1. s.out \cup {seg} \in SUBSET Segment
      BY <2>3, Fields
    <3>2. t = [s EXCEPT !.out = s.out \cup {seg}]
      BY <2>2 DEF Socket
    <3> QED  BY <3>1, <3>2 DEF Socket
  <2>6. SameOffer(s, t) /\ SameTaken(s, t)
    BY <2>2 DEF Socket, SameOffer, SameTaken
  <2>7. /\ SameApp(s, t) /\ SameTimers(s, t) /\ t.state = s.state
        /\ t.endPoint = s.endPoint /\ t.rxSize = s.rxSize
        /\ t.dataRetrCount = s.dataRetrCount
    BY <2>2 DEF Socket, SameApp, SameTimers
  <2> QED  BY <2>3, <2>4, <2>5, <2>6, <2>7
<1> QED  BY <1>1, <1>2, Fields

\* An ACK and a RST promise nothing but what has been received.
LEMMA PlainSent ==
  ASSUME NEW seg \in Segment, NEW s \in Socket, NEW r, seg.len = 0,
         seg.flags = RST \/ (seg.flags = ACK /\ seg.ack = s.rxNext)
  PROVE  Sent(seg, s, r)
<1>1. "SYN" \notin seg.flags /\ "FIN" \notin seg.flags
  BY FlagsOf
<1>2. "RST" \notin seg.flags => seg.ack <= s.rxNext
  <2>1. seg.flags = RST => "RST" \in seg.flags
    BY FlagsOf
  <2>2. s.rxNext \in Nat
    BY Fields
  <2> QED  BY <2>1, <2>2
<1> QED  BY <1>1, <1>2 DEF Sent

\* The parts of Link that nearly every lemma starts from.
LEMMA LinkTypes ==
  ASSUME NEW s, NEW r, Link(s, r)
  PROVE  /\ s \in Socket /\ r \in Socket /\ Numbered(s) /\ Stated(s) /\ Numbered(r)
         /\ ~s.endPoint => Quiet(s)
  BY DEF Link, Stated, Quiet

\* What SendRST leaves alone.
LEMMA ResetFields ==
  ASSUME NEW s \in Socket, ~s.endPoint => Quiet(s)
  PROVE  LET t == SendRST(s)
         IN  /\ t \in Socket /\ SameOffer(s, t) /\ SameTaken(s, t) /\ SameApp(s, t)
             /\ t.state = s.state /\ ~t.endPoint /\ Quiet(t)
             /\ \A seg \in t.out : \A r : seg \in s.out \/ Sent(seg, t, r)
<1> DEFINE u == SendEmptyPacket(s, RST)
           t == SendRST(s)
<1>1. /\ u \in Socket /\ SameOffer(s, u) /\ SameTaken(s, u) /\ SameApp(s, u)
      /\ SameTimers(s, u) /\ u.state = s.state /\ u.endPoint = s.endPoint
      /\ \A seg \in u.out : \/ seg \in s.out
                            \/ seg \in Segment /\ seg.flags = RST /\ seg.len = 0
  BY PlainPacket
<1>2. t = DeallocateEndPoint(u)
  BY DEF SendRST
<1>3. ~u.endPoint => Quiet(u)
  BY <1>1 DEF Quiet, SameTimers
<1> HIDE DEF u, t
<1>4. /\ t \in Socket /\ SameOffer(u, t) /\ SameTaken(u, t) /\ SameApp(u, t)
      /\ t.state = u.state /\ t.out = u.out /\ ~t.endPoint /\ Quiet(t)
  BY <1>1, <1>2, <1>3, Deallocated
<1>5. ASSUME NEW seg \in t.out, NEW r, seg \notin s.out PROVE Sent(seg, t, r)
  <2>1. seg \in Segment /\ seg.flags = RST /\ seg.len = 0
    BY <1>1, <1>4, <1>5
  <2> QED  BY <1>4, <2>1, PlainSent
<1>6. SameOffer(s, t) /\ SameTaken(s, t) /\ SameApp(s, t) /\ t.state = s.state
  BY <1>1, <1>4 DEF SameOffer, SameTaken, SameApp
<1> QED  BY <1>4, <1>5, <1>6 DEF t

\* DeallocateEndPoint: a socket without an endpoint has no timer.
LEMMA DeallocateStep ==
  ASSUME NEW s, NEW r, Link(s, r)
  PROVE  LET t == DeallocateEndPoint(s)
         IN  Step(s, t, r) /\ (End(s) => End(t)) /\ ~t.endPoint /\ t.state = s.state
<1> DEFINE t == DeallocateEndPoint(s)
<1>1. /\ t \in Socket /\ SameOffer(s, t) /\ SameTaken(s, t) /\ SameApp(s, t)
      /\ t.state = s.state /\ t.out = s.out /\ ~t.endPoint /\ Quiet(t)
  BY LinkTypes, Deallocated
<1> HIDE DEF t
<1>2. Step(s, t, r) /\ Timed(t) /\ (Asked(s) => Asked(t)) /\ (Settled(s) => Settled(t))
  BY <1>1, Gone
<1> QED  BY <1>1, <1>2 DEF End, t

\* CloseAndNotify, from any state.
LEMMA CloseAndNotifyStep ==
  ASSUME NEW s, NEW r, Link(s, r)
  PROVE  LET t == CloseAndNotify(s)
         IN  Step(s, t, r) /\ (End(s) => End(t)) /\ t.state = "CLOSED" /\ ~t.endPoint
<1> DEFINE t == CloseAndNotify(s)
<1>1. /\ t \in Socket /\ SameOffer(s, t) /\ SameTaken(s, t) /\ SameApp(s, t)
      /\ t.state = "CLOSED" /\ t.out = s.out /\ ~t.endPoint /\ Quiet(t)
  BY LinkTypes, CloseAndNotified
<1> HIDE DEF t
<1>2. Step(s, t, r) /\ Timed(t) /\ (Asked(s) => Asked(t)) /\ (Settled(s) => Settled(t))
  BY <1>1, Gone
<1> QED  BY <1>1, <1>2 DEF End, t

\* SendRST: the reset says nothing of the data, and the socket is gone.
LEMMA ResetStep ==
  ASSUME NEW s, NEW r, Link(s, r)
  PROVE  LET t == SendRST(s)
         IN  Step(s, t, r) /\ (End(s) => End(t)) /\ t.state = s.state /\ ~t.endPoint
<1> DEFINE t == SendRST(s)
<1>1. /\ t \in Socket /\ SameOffer(s, t) /\ SameTaken(s, t) /\ SameApp(s, t)
      /\ t.state = s.state /\ ~t.endPoint /\ Quiet(t)
      /\ \A seg \in t.out : seg \in s.out \/ Sent(seg, t, r)
  BY LinkTypes, ResetFields
<1> HIDE DEF t
<1>2. Step(s, t, r) /\ Timed(t) /\ (Asked(s) => Asked(t)) /\ (Settled(s) => Settled(t))
  BY <1>1, Gone
<1> QED  BY <1>1, <1>2 DEF End, t

\* A connection ends on a reset, or with one.
LEMMA TerminateStep ==
  ASSUME NEW s, NEW r, NEW seg, Link(s, r)
  PROVE  LET t == Terminate(s, seg) IN Step(s, t, r) /\ (End(s) => End(t))
<1>1. CASE seg.flags = RST
  <2>1. Terminate(s, seg) = CloseAndNotify(s)
    BY <1>1 DEF Terminate
  <2> QED  BY <2>1, CloseAndNotifyStep
<1>2. CASE seg.flags # RST
  <2> DEFINE u == SendRST(s)
  <2>1. Terminate(s, seg) = CloseAndNotify(u)
    BY <1>2 DEF Terminate
  <2>2. Step(s, u, r) /\ (End(s) => End(u)) /\ Link(u, r)
    BY ResetStep DEF Step
  <2> HIDE DEF u
  <2>3. Step(u, CloseAndNotify(u), r) /\ (End(u) => End(CloseAndNotify(u)))
    BY <2>2, CloseAndNotifyStep
  <2> QED  BY <2>1, <2>2, <2>3, StepTrans, LinkTypes
<1> QED  BY <1>1, <1>2

\* An ACK is sent.
LEMMA AckStep ==
  ASSUME NEW s, NEW r, Link(s, r)
  PROVE  LET t == SendEmptyPacket(s, ACK)
         IN  /\ Step(s, t, r) /\ (End(s) => End(t))
             /\ (Timed(s) => Timed(t)) /\ (Asked(s) => Asked(t))
             /\ SameOffer(s, t) /\ SameTaken(s, t) /\ SameApp(s, t)
             /\ t.state = s.state /\ t.endPoint = s.endPoint /\ t.rxSize = s.rxSize
<1> DEFINE t == SendEmptyPacket(s, ACK)
<1>0. s \in Socket /\ Numbered(s) /\ Stated(s)
  BY LinkTypes
<1>1. /\ t \in Socket /\ SameOffer(s, t) /\ SameTaken(s, t) /\ SameApp(s, t)
      /\ SameTimers(s, t) /\ t.state = s.state /\ t.endPoint = s.endPoint
      /\ t.rxSize = s.rxSize
      /\ \A seg \in t.out : \/ seg \in s.out
                            \/ /\ seg \in Segment /\ seg.flags = ACK
                               /\ seg.len = 0 /\ seg.ack = s.rxNext
  BY <1>0, PlainPacket
<1> HIDE DEF t
<1>2. (Aborted(s) <=> Aborted(t)) /\ (Final(s) <=> Final(t))
  BY <1>1 DEF Aborted, Final, CanWrite, Open, SameOffer, SameApp, Written
<1>3. Numbered(t)
  BY <1>0, <1>1, <1>2 DEF Numbered, Unconnected, Connected, SameOffer, SameTimers, Written
<1>4. Stated(t)
  BY <1>0, <1>1 DEF Stated, SameOffer, SameTaken, SameTimers, Written
<1>5. \A seg \in t.out : seg \in s.out \/ Sent(seg, t, r)
  BY <1>1, PlainSent DEF SameTaken
<1>6. Step(s, t, r)
  BY <1>1, <1>2, <1>3, <1>4, <1>5, Kept
<1>7. (Timed(s) => Timed(t)) /\ (Asked(s) => Asked(t)) /\ (Settled(s) => Settled(t))
  BY <1>1, <1>2 DEF Timed, Open, Asked, Settled, SameOffer, SameApp, SameTimers
<1> QED  BY <1>1, <1>6, <1>7 DEF End, t

-----------------------------------------------------------------------------
(***************************************************************************)
(* SYN and FIN                                                             *)
(***************************************************************************)
SameEvents(s, t) ==
    /\ t.sendEvent = s.sendEvent /\ t.lastAckEvent = s.lastAckEvent
    /\ t.timewaitEvent = s.timewaitEvent

\* t has sent a segment with some flags and no data, which may be repeated.
Packet(s, t, flags, again) ==
    /\ t \in Socket /\ SameOffer(s, t) /\ SameTaken(s, t) /\ SameApp(s, t)
    /\ SameEvents(s, t) /\ t.endPoint = s.endPoint
    /\ t.dataRetrCount = s.dataRetrCount
    /\ t.retxEvent = IF again /\ s.endPoint /\ s.retxEvent = NoEvent
                     THEN flags ELSE s.retxEvent
    /\ \A seg \in t.out :
          \/ seg \in s.out
          \/ /\ seg \in Segment /\ seg.flags = flags /\ seg.len = 0 /\ seg.ack = s.rxNext
             /\ "FIN" \in flags => seg.seq = s.next
             /\ s.state \notin {"FIN_WAIT_1", "LAST_ACK", "CLOSING"} => seg.seq = s.next

\* EmptyPacket, for the flags that SendEmptyPacket is called with.
LEMMA EmptyPacketFields ==
  ASSUME NEW s \in Socket, NEW wanted \in {SYN, SynAck, {"FIN"}, FinAck}, s.endPoint,
         "SYN" \in wanted => s.synCount > 0
  PROVE  LET t == EmptyPacket(s, wanted)
         IN  /\ Packet(s, t, IF "FIN" \in wanted THEN FinAck ELSE wanted, TRUE)
             /\ t.state = s.state
<1> DEFINE t == EmptyPacket(s, wanted)
           flags == IF "FIN" \in wanted THEN FinAck ELSE wanted
           seg == [flags |-> flags, seq |-> EmptySeq(s, wanted),
                   ack |-> s.rxNext, len |-> 0]
           retx == IF s.retxEvent = NoEvent THEN flags ELSE s.retxEvent
           left == IF "SYN" \in flags THEN s.synCount - 1 ELSE s.synCount
<1>1. /\ flags = IF "FIN" \in wanted THEN wanted \cup ACK ELSE wanted
      /\ flags \in {SYN, SynAck, FinAck} /\ flags \in SUBSET Flags
      /\ flags \cap {"SYN", "FIN"} # {}
      /\ "FIN" \in wanted <=> "FIN" \in flags
      /\ "SYN" \in wanted <=> "SYN" \in flags
  BY FlagsOf
<1>2. EmptySeq(s, wanted) \in Nat
  BY Fields DEF EmptySeq
<1>3. /\ "FIN" \in flags => EmptySeq(s, wanted) = s.next
      /\ s.state \notin {"FIN_WAIT_1", "LAST_ACK", "CLOSING"} => EmptySeq(s, wanted) = s.next
  BY <1>1 DEF EmptySeq
<1>4. seg \in Segment
  BY <1>1, <1>2, Fields DEF Segment, Seqs
<1>5. t = [s EXCEPT !.out = s.out \cup {seg}, !.retxEvent = retx, !.synCount = left]
  <2> HIDE DEF flags
  <2>1. t = [s EXCEPT !.out = @ \cup {seg},
                      !.retxEvent = IF s.retxEvent = NoEvent THEN flags ELSE @,
                      !.synCount = IF "SYN" \in flags THEN @ - 1 ELSE @]
    <3>1. (s.retxEvent = NoEvent /\ flags \cap {"SYN", "FIN"} # {}) = (s.retxEvent = NoEvent)
      BY <1>1
    <3> QED  BY <1>1, <3>1 DEF EmptyPacket
  <2> QED  BY <2>1 DEF Socket
<1>6. /\ retx \in {NoEvent, SYN, SynAck, FinAck, Timeout}
      /\ left \in 0 .. SynRetries /\ s.out \cup {seg} \in SUBSET Segment
  BY <1>1, <1>4, Fields, RetriesAssumption
<1> HIDE DEF flags, seg, retx, left
<1>7. t \in Socket
  <2>1. [s EXCEPT !.out = s.out \cup {seg}] \in Socket
    BY <1>6 DEF Socket
  <2>2. [s EXCEPT !.out = s.out \cup {seg}, !.retxEvent = retx] \in Socket
    BY <1>6, <2>1 DEF Socket
  <2> DEFINE u == [s EXCEPT !.out = s.out \cup {seg}, !.retxEvent = retx]
  <2>3. t = [u EXCEPT !.synCount = left]
    BY <1>5
  <2>4. u \in Socket
    BY <2>2
  <2> HIDE DEF u
  <2> QED  BY <1>6, <2>3, <2>4 DEF Socket
<1>8. SameOffer(s, t) /\ SameTaken(s, t)
  BY <1>5 DEF Socket, SameOffer, SameTaken
<1>9. /\ SameApp(s, t) /\ SameEvents(s, t) /\ t.state = s.state
      /\ t.endPoint = s.endPoint /\ t.dataRetrCount = s.dataRetrCount
  BY <1>5 DEF Socket, SameApp, SameEvents
<1>10. t.retxEvent = retx /\ t.out = s.out \cup {seg}
  BY <1>5 DEF Socket
<1>11. Packet(s, t, flags, TRUE)
  <2>1. \A x \in t.out : \/ x \in s.out
                         \/ /\ x \in Segment /\ x.flags = flags /\ x.len = 0 /\ x.ack = s.rxNext
                            /\ x.seq = EmptySeq(s, wanted)
    BY <1>4, <1>10 DEF seg
  <2>2. t.retxEvent = IF s.endPoint /\ s.retxEvent = NoEvent THEN flags ELSE s.retxEvent
    BY <1>10 DEF retx
  <2> QED  BY <1>3, <1>7, <1>8, <1>9, <2>1, <2>2 DEF Packet
<1> QED  BY <1>9, <1>11 DEF flags

\* A FIN that SendEmptyPacket sends carries an ACK, and leaves the state.
LEMMA FinFields ==
  ASSUME NEW s \in Socket, NEW wanted \in {{"FIN"}, FinAck}
  PROVE  LET t == SendEmptyPacket(s, wanted)
         IN  Packet(s, t, FinAck, TRUE) /\ t.state = s.state
<1> DEFINE t == SendEmptyPacket(s, wanted)
<1>0. "SYN" \notin wanted /\ "FIN" \in wanted
  BY FlagsOf
<1>1. CASE s.endPoint
  <2>1. t = EmptyPacket(s, wanted)
    BY <1>0, <1>1 DEF SendEmptyPacket
  <2>2. wanted \in {SYN, SynAck, {"FIN"}, FinAck}
    OBVIOUS
  <2>3. Packet(s, t, IF "FIN" \in wanted THEN FinAck ELSE wanted, TRUE) /\ t.state = s.state
    BY <1>0, <1>1, <2>1, <2>2, EmptyPacketFields
  <2> QED  BY <1>0, <2>3
<1>2. CASE ~s.endPoint
  <2>1. t = s
    BY <1>2 DEF SendEmptyPacket
  <2> QED  BY <1>2, <2>1 DEF Packet, SameOffer, SameTaken, SameApp, SameEvents
<1> QED  BY <1>1, <1>2, Fields

\* A SYN or SYN+ACK is sent, or the last one has been.
LEMMA SynFields ==
  ASSUME NEW s \in Socket, NEW wanted \in {SYN, SynAck}, ~s.endPoint => Quiet(s)
  PROVE  LET t == SendEmptyPacket(s, wanted)
         IN  \/ /\ Packet(s, t, wanted, TRUE) /\ t.state = s.state
                /\ s.endPoint => s.synCount > 0
             \/ /\ s.endPoint /\ s.synCount = 0
                /\ t \in Socket /\ SameOffer(s, t) /\ SameTaken(s, t) /\ SameApp(s, t)
                /\ t.state = "CLOSED" /\ t.out = s.out /\ ~t.endPoint /\ Quiet(t)
<1> DEFINE t == SendEmptyPacket(s, wanted)
<1>0. "SYN" \in wanted /\ "FIN" \notin wanted
  BY FlagsOf
<1>1. CASE s.endPoint /\ s.synCount > 0
  <2>1. t = EmptyPacket(s, wanted)
    BY <1>0, <1>1 DEF SendEmptyPacket
  <2>2. wanted \in {SYN, SynAck, {"FIN"}, FinAck}
    OBVIOUS
  <2>3. Packet(s, t, IF "FIN" \in wanted THEN FinAck ELSE wanted, TRUE) /\ t.state = s.state
    BY <1>0, <1>1, <2>1, <2>2, EmptyPacketFields
  <2> QED  BY <1>0, <1>1, <2>3
<1>2. CASE ~s.endPoint
  <2>1. t = s
    BY <1>2 DEF SendEmptyPacket
  <2> QED  BY <1>2, <2>1 DEF Packet, SameOffer, SameTaken, SameApp, SameEvents
<1>3. CASE s.endPoint /\ s.synCount = 0
  <2> DEFINE u == [s EXCEPT !.state = "CLOSED"]
  <2>1. t = DeallocateEndPoint(u)
    BY <1>0, <1>3 DEF SendEmptyPacket
  <2>2. /\ u \in Socket /\ SameOffer(s, u) /\ SameTaken(s, u) /\ SameApp(s, u)
        /\ u.state = "CLOSED" /\ u.out = s.out /\ u.endPoint
    BY <1>3 DEF Socket, States, SameOffer, SameTaken, SameApp
  <2> HIDE DEF u
  <2>3. /\ t \in Socket /\ SameOffer(u, t) /\ SameTaken(u, t) /\ SameApp(u, t)
        /\ t.state = u.state /\ t.out = u.out /\ ~t.endPoint /\ Quiet(t)
    BY <2>1, <2>2, Deallocated
  <2> QED  BY <1>3, <2>2, <2>3 DEF SameOffer, SameTaken, SameApp
<1>4. s.endPoint \in BOOLEAN /\ (s.synCount > 0 \/ s.synCount = 0)
  BY Fields, RetriesAssumption
<1> QED  BY <1>1, <1>2, <1>3, <1>4

\* A SYN or SYN+ACK of a socket that is not connected.
LEMMA SynStep ==
  ASSUME NEW s, NEW r, NEW wanted \in {SYN, SynAck}, Link(s, r),
         ~s.connected, s.state \in Opening \/ Aborted(s)
  PROVE  LET t == SendEmptyPacket(s, wanted)
         IN  /\ Step(s, t, r) /\ (Asked(s) => Asked(t)) /\ Settled(t)
             /\ Asked(s) /\ (s.state = "LAST_ACK" => s.lastAckEvent) => Timed(t)
<1> DEFINE t == SendEmptyPacket(s, wanted)
<1>0. s \in Socket /\ r \in Socket /\ Numbered(s) /\ Stated(s) /\ (~s.endPoint => Quiet(s))
  BY LinkTypes
<1>1. CASE Packet(s, t, wanted, TRUE) /\ t.state = s.state
  <2> HIDE DEF t
  <2>0. /\ t \in Socket /\ SameOffer(s, t) /\ SameTaken(s, t) /\ SameApp(s, t)
        /\ SameEvents(s, t) /\ t.endPoint = s.endPoint /\ t.state = s.state
        /\ t.retxEvent = IF s.endPoint /\ s.retxEvent = NoEvent
                         THEN wanted ELSE s.retxEvent
        /\ \A seg \in t.out :
              \/ seg \in s.out
              \/ /\ seg \in Segment /\ seg.flags = wanted /\ seg.len = 0 /\ seg.ack = s.rxNext
                 /\ s.state \notin {"FIN_WAIT_1", "LAST_ACK", "CLOSING"} => seg.seq = s.next
    BY <1>1 DEF Packet
  <2>1. (Aborted(s) <=> Aborted(t)) /\ (Final(s) <=> Final(t))
    BY <2>0 DEF Aborted, Final, CanWrite, Open, SameOffer, SameApp, Written
  <2>2. Numbered(t)
    BY <1>0, <2>0, <2>1 DEF Numbered, Unconnected, SameOffer, SameEvents, Written
  <2>3. Stated(t)
    BY <1>0, <2>0, Marks DEF Stated, SameOffer, SameTaken, SameEvents, Opening, Aborted
  <2>4. ASSUME NEW seg \in t.out, seg \notin s.out PROVE Sent(seg, t, r)
    <3>1. /\ seg \in Segment /\ seg.flags = wanted /\ seg.len = 0 /\ seg.ack = t.rxNext
          /\ s.state \in Opening => seg.seq = s.next
      BY <2>0, <2>4 DEF SameTaken, Opening
    <3>2. ~Aborted(t) => seg.seq = 0
      BY <1>0, <2>1, <3>1 DEF Numbered, Unconnected
    <3>3. "FIN" \notin seg.flags /\ "RST" \notin seg.flags /\ t.rxNext \in Nat
      BY <2>0, <3>1, FlagsOf, Fields
    <3> QED  BY <3>1, <3>2, <3>3 DEF Sent
  <2>5. Step(s, t, r)
    BY <2>0, <2>1, <2>2, <2>3, <2>4, Kept
  <2>6. Asked(s) => Asked(t)
    BY <2>0, <2>1 DEF Asked, SameApp
  <2>7. Settled(t)
    BY <2>0 DEF Settled, SameOffer
  <2>8. Asked(s) /\ (s.state = "LAST_ACK" => s.lastAckEvent) => Timed(t)
    BY <2>0, <2>1, <2>6, Marks DEF Asked, Timed, Open, SameOffer, SameApp, SameEvents, Opening
  <2> QED  BY <2>5, <2>6, <2>7, <2>8 DEF t
<1>2. CASE /\ t \in Socket /\ SameOffer(s, t) /\ SameTaken(s, t) /\ SameApp(s, t)
           /\ t.state = "CLOSED" /\ t.out = s.out /\ ~t.endPoint /\ Quiet(t)
  <2> HIDE DEF t
  <2>1. Step(s, t, r) /\ Timed(t) /\ (Asked(s) => Asked(t))
    BY <1>2, Gone
  <2>2. Settled(t)
    BY <1>2 DEF Settled, SameOffer
  <2> QED  BY <2>1, <2>2 DEF t
<1> QED  BY <1>0, <1>1, <1>2, SynFields

\* A FIN goes out at the end of all that was written, or never mind where.
LEMMA FinStep ==
  ASSUME NEW s, NEW t, NEW r, Link(s, r), Packet(s, t, FinAck, TRUE),
         t.state \in {s.state, "FIN_WAIT_1", "LAST_ACK"}, s.state # "CLOSED",
         s.rxNext >= 1, s.connected => Final(t), ~s.connected => Aborted(t),
         s.connected /\ Final(s) => Final(t)
  PROVE  Step(s, t, r)
<1>0. s \in Socket /\ r \in Socket /\ Numbered(s) /\ Stated(s) /\ (~s.endPoint => Quiet(s))
  BY LinkTypes
<1>1. /\ t \in Socket /\ SameOffer(s, t) /\ SameTaken(s, t) /\ SameApp(s, t)
      /\ SameEvents(s, t) /\ t.endPoint = s.endPoint
      /\ t.retxEvent = IF s.endPoint /\ s.retxEvent = NoEvent
                       THEN FinAck ELSE s.retxEvent
      /\ \A seg \in t.out :
            \/ seg \in s.out
            \/ /\ seg \in Segment /\ seg.flags = FinAck /\ seg.len = 0
               /\ seg.ack = s.rxNext /\ seg.seq = s.next
  BY FlagsOf DEF Packet
<1>2. Aborted(s) => Aborted(t)
  BY DEF Aborted
<1>3. Numbered(t)
  BY <1>0, <1>1, Marks DEF Numbered, Connected, SameOffer, SameEvents, Written
<1>4. Stated(t)
  <2>1. s.state \notin {"LISTEN", "SYN_SENT"}
    BY <1>0, Fields DEF Stated
  <2> QED  BY <1>0, <1>1, <2>1, Marks DEF Stated, SameOffer, SameTaken, SameEvents, Quiet
<1>5. ASSUME NEW seg \in t.out, seg \notin s.out PROVE Sent(seg, t, r)
  <2>1. /\ seg \in Segment /\ seg.flags = FinAck /\ seg.len = 0
        /\ seg.ack = t.rxNext /\ seg.seq = t.next
    BY <1>1, <1>5 DEF SameOffer, SameTaken
  <2>2. "SYN" \notin seg.flags /\ t.rxNext \in Nat /\ t.rxNext >= 1
    BY <1>0, <1>1, <2>1, FlagsOf, Fields DEF SameTaken
  <2>3. ASSUME ~Aborted(t) PROVE t.connected /\ Final(t)
    BY <1>1, <2>3 DEF SameOffer
  <2>4. ASSUME t.connected PROVE t.next = t.high \/ (t.next > t.high /\ t.next <= r.rxNext)
    <3>1. s.connected /\ Connected(s) /\ s.next = t.next /\ s.high = t.high
      BY <1>0, <1>1, <2>4 DEF SameOffer, Numbered
    <3>2. s.next > s.high => s.next <= r.rxNext
      BY <3>1 DEF Link, Heard
    <3> QED  BY <1>0, <3>1, <3>2, Fields DEF Connected
  <2>5. t.high \in Nat
    BY <1>1, Fields
  <2> QED  BY <2>1, <2>2, <2>3, <2>4, <2>5 DEF Sent
<1>6. ~t.connected /\ t.state = "SYN_RCVD" => s.state = "SYN_RCVD"
  OBVIOUS
<1>7. t.state = "FIN_WAIT_2" => s.state = "FIN_WAIT_2"
  OBVIOUS
<1> QED  BY <1>1, <1>2, <1>3, <1>4, <1>5, <1>6, <1>7, Kept

-----------------------------------------------------------------------------
(***************************************************************************)
(* Data                                                                    *)
(***************************************************************************)
\* Without a FIN nothing is timed that an application might close on top of.
OnlyData(s) ==
    s.endPoint /\ Open(s) /\ ~s.closed
        => s.retxEvent = NoEvent \/ (s.retxEvent = Timeout /\ s.size = 1)

\* What SendDataPacket changes: the marks of what is sent, and the timer.
LEMMA DataFields ==
  ASSUME NEW s \in Socket, s.connected
  PROVE  LET t == SendDataPacket(s)
         IN  /\ t \in Socket /\ SameTaken(s, t) /\ SameApp(s, t) /\ SameEvents(s, t)
             /\ t.connected = s.connected /\ t.written = s.written
             /\ t.head = s.head /\ t.size = s.size /\ t.next = s.head + 1
             /\ t.high = Larger(s.high, s.head + 1) /\ t.endPoint = s.endPoint
             /\ t.state = (IF s.closeOnEmpty THEN StateAfterFin(s.state) ELSE s.state)
             /\ t.retxEvent = (IF s.retxEvent = NoEvent THEN Timeout ELSE s.retxEvent)
             /\ \A seg \in t.out :
                   \/ seg \in s.out
                   \/ /\ seg \in Segment /\ seg.len = 1 /\ seg.seq = s.head
                      /\ seg.ack = s.rxNext
                      /\ "SYN" \notin seg.flags
<1> DEFINE t == SendDataPacket(s)
           seg == [flags |-> ACK \cup (IF s.closeOnEmpty THEN {"FIN"} ELSE {}),
                   seq |-> s.head, ack |-> s.rxNext, len |-> 1]
           state == IF s.closeOnEmpty THEN StateAfterFin(s.state) ELSE s.state
           retx == IF s.retxEvent = NoEvent THEN Timeout ELSE s.retxEvent
           high == Larger(s.high, s.head + 1)
<1>1. /\ seg \in Segment /\ seg.len = 1 /\ seg.seq = s.head /\ seg.ack = s.rxNext
      /\ "SYN" \notin seg.flags
  <2>1. ACK \cup (IF s.closeOnEmpty THEN {"FIN"} ELSE {}) \in SUBSET Flags
    BY DEF ACK, Flags
  <2>2. "SYN" \notin ACK \cup (IF s.closeOnEmpty THEN {"FIN"} ELSE {})
    BY FlagsOf
  <2> QED  BY <2>1, <2>2, Fields DEF Segment, Seqs
<1>2. /\ state \in States /\ retx \in {NoEvent, SYN, SynAck, FinAck, Timeout}
      /\ high \in Nat /\ s.head + 1 \in Nat /\ s.out \cup {seg} \in SUBSET Segment
  BY <1>1, Fields DEF StateAfterFin, States, Larger
<1>3. t = [s EXCEPT !.state = state, !.retxEvent = retx, !.next = s.head + 1,
                    !.high = high, !.out = s.out \cup {seg}]
  BY DEF SendDataPacket, Socket
<1> HIDE DEF t, seg, state, retx, high
<1>4. t \in Socket
  <2> DEFINE u == [s EXCEPT !.state = state, !.retxEvent = retx]
             v == [u EXCEPT !.next = s.head + 1, !.high = high]
  <2>1. t = [v EXCEPT !.out = s.out \cup {seg}]
    BY <1>3
  <2>2. u \in Socket
    BY <1>2 DEF Socket
  <2> HIDE DEF u
  <2>3. v \in Socket
    BY <1>2, <2>2 DEF Socket, Seqs
  <2> HIDE DEF v
  <2> QED  BY <1>2, <2>1, <2>3 DEF Socket
<1>5. SameTaken(s, t) /\ SameApp(s, t) /\ SameEvents(s, t)
  BY <1>3 DEF Socket, SameTaken, SameApp, SameEvents
<1>6. /\ t.connected = s.connected /\ t.written = s.written /\ t.head = s.head
      /\ t.size = s.size /\ t.next = s.head + 1 /\ t.high = high
      /\ t.endPoint = s.endPoint /\ t.state = state /\ t.retxEvent = retx
      /\ t.out = s.out \cup {seg}
  BY <1>3 DEF Socket
<1> QED  BY <1>1, <1>4, <1>5, <1>6 DEF t, seg, state, retx, high

\* The segment is sent, for the first time or again.
LEMMA DataStep ==
  ASSUME NEW s, NEW r, Link(s, r), s.connected, s.size = 1, s.endPoint
  PROVE  LET t == SendDataPacket(s)
         IN  /\ Step(s, t, r) /\ t.connected
             /\ Settled(s) => Settled(t)
             /\ Asked(s) => Asked(t)
             /\ OnlyData(s) => Timed(t)
<1> DEFINE t == SendDataPacket(s)
<1>0. /\ s \in Socket /\ r \in Socket /\ Stated(s) /\ Written(s)
      /\ s.head = 1 /\ s.high \in 1 .. 2 /\ Connected(s) /\ Numbered(s)
  BY LinkTypes DEF Numbered, Connected
<1>1. /\ t \in Socket /\ SameTaken(s, t) /\ SameApp(s, t) /\ SameEvents(s, t)
      /\ t.connected = s.connected /\ t.written = s.written
      /\ t.head = 1 /\ t.size = 1 /\ t.next = 2 /\ t.high = 2 /\ t.endPoint = s.endPoint
      /\ t.state = (IF s.closeOnEmpty THEN StateAfterFin(s.state) ELSE s.state)
      /\ t.retxEvent = (IF s.retxEvent = NoEvent THEN Timeout ELSE s.retxEvent)
      /\ \A seg \in t.out :
            \/ seg \in s.out
            \/ /\ seg \in Segment /\ seg.len = 1 /\ seg.seq = 1 /\ seg.ack = s.rxNext
               /\ "SYN" \notin seg.flags
  <2>1. Larger(s.high, s.head + 1) = 2 /\ s.head + 1 = 2
    BY <1>0 DEF Larger
  <2> QED  BY <1>0, <2>1, DataFields
<1> HIDE DEF t
<1>2. Written(t) /\ Final(t) /\ ~Aborted(s) /\ ~Aborted(t)
  BY <1>0, <1>1 DEF Written, Final, Aborted
<1>3. Numbered(t)
  BY <1>0, <1>1, <1>2, Marks DEF Numbered, Connected
<1>4. \/ t.state = s.state
      \/ s.closeOnEmpty /\ t.state \in {"FIN_WAIT_1", "LAST_ACK"}
  BY <1>1 DEF StateAfterFin
<1>5. Stated(t)
  BY <1>0, <1>1, <1>4, Marks DEF Stated, SameTaken, SameEvents
<1>6. Later(s, t, r)
  BY <1>0, <1>1, <1>2, Fields DEF Later, Final, SameTaken
<1>7. Heard(t, r)
  <2>1. Heard(s, r)
    BY DEF Link
  <2> QED  BY <1>0, <1>1, <2>1 DEF Heard, SameTaken, Finished
<1>8. Heard(r, t)
  <2>1. Heard(r, s)
    BY DEF Link
  <2>2. r.gotFin => s.high = 2
    BY <1>0, <2>1 DEF Heard, Final
  <2>3. r.rxNext > 2 => Finished(r)
    BY <1>0, <2>1, Fields DEF Heard
  <2>4. t.state = "FIN_WAIT_2" => s.state = "FIN_WAIT_2"
    BY <1>4
  <2> QED  BY <1>0, <1>1, <1>2, <2>1, <2>2, <2>3, <2>4, Fields DEF Heard, Written
<1>9. ASSUME NEW seg \in t.out PROVE Sent(seg, t, r)
  <2>1. CASE seg \in s.out
    BY <1>0, <1>1, <1>6, <2>1, StillSent DEF Link
  <2>2. CASE seg \notin s.out
    <3>1. /\ seg \in Segment /\ seg.len = 1 /\ seg.seq = 1 /\ seg.ack = t.rxNext
          /\ "SYN" \notin seg.flags
      BY <1>1, <2>2 DEF SameTaken
    <3>2. t.rxNext \in Nat /\ t.rxNext >= 1
      BY <1>0, <1>1, Fields DEF SameTaken, Stated
    <3>3. seg.seq + seg.len = t.high
      BY <1>1, <3>1
    <3> QED  BY <1>0, <1>1, <1>2, <3>1, <3>2, <3>3 DEF Sent
  <2> QED  BY <2>1, <2>2
<1>10. Step(s, t, r)
  BY <1>0, <1>1, <1>3, <1>5, <1>6, <1>7, <1>8, <1>9 DEF Step, Link
<1>11. Settled(s) => Settled(t)
  BY <1>0, <1>1, <1>4 DEF Settled, Opening
<1>12. Asked(s) => Asked(t)
  BY <1>1, <1>2, <1>4 DEF Asked, SameApp
<1>13. OnlyData(s) => Timed(t)
  <2>1. t.retxEvent # NoEvent
    BY <1>1, Marks
  <2>2. t.retxEvent \in {FinAck, Timeout}
    BY <1>0, <1>1, Fields, Marks DEF Connected
  <2>3. Open(t) => Open(s)
    BY <1>1, <1>4 DEF Open
  <2> QED  BY <1>1, <2>1, <2>2, <2>3, Marks DEF Timed, OnlyData, SameApp
<1> QED  BY <1>0, <1>1, <1>10, <1>11, <1>12, <1>13 DEF t

\* SendPendingData: new data, with the FIN if the application has closed.
LEMMA PendingStep ==
  ASSUME NEW s, NEW r, Link(s, r), s.connected \/ Aborted(s)
  PROVE  LET t == SendPendingData(s)
         IN  /\ Step(s, t, r) /\ (End(s) => End(t))
             /\ t.endPoint = s.endPoint /\ SameTaken(s, t)
             /\ t.state = s.state \/ s.endPoint
<1> DEFINE t == SendPendingData(s)
<1>1. CASE s.size > 0 /\ s.endPoint /\ Unsent(s)
  <2>1. s.size = 1 /\ s.connected
    BY <1>1, LinkTypes, Fields DEF Numbered, Aborted
  <2>2. t = SendDataPacket(s)
    BY <1>1 DEF SendPendingData
  <2>3. Timed(s) => OnlyData(s)
    BY DEF Timed, OnlyData
  <2>4. t.endPoint = s.endPoint /\ SameTaken(s, t)
    BY <2>1, <2>2, LinkTypes, DataFields
  <2> HIDE DEF t
  <2> QED  BY <1>1, <2>1, <2>2, <2>3, <2>4, DataStep DEF End, t
<1>2. CASE ~(s.size > 0 /\ s.endPoint /\ Unsent(s))
  <2>1. t = s
    BY <1>2 DEF SendPendingData
  <2> QED  BY <2>1, StepRefl DEF SameTaken
<1> QED  BY <1>1, <1>2

-----------------------------------------------------------------------------
(***************************************************************************)
(* Closing                                                                 *)
(***************************************************************************)
\* A FIN at a new state.
LEMMA FinToState ==
  ASSUME NEW s \in Socket, NEW wanted \in {{"FIN"}, FinAck}, NEW state \in States
  PROVE  LET t == [SendEmptyPacket(s, wanted) EXCEPT !.state = state]
         IN  Packet(s, t, FinAck, TRUE) /\ t.state = state
<1> DEFINE u == SendEmptyPacket(s, wanted)
           t == [u EXCEPT !.state = state]
<1>1. Packet(s, u, FinAck, TRUE) /\ u \in Socket
  BY FinFields DEF Packet
<1> HIDE DEF u
<1>2. t \in Socket
  BY <1>1 DEF Socket
<1>3. SameOffer(u, t) /\ SameTaken(u, t) /\ SameApp(u, t) /\ SameEvents(u, t)
  BY <1>1 DEF Socket, SameOffer, SameTaken, SameApp, SameEvents
<1>4. /\ t.endPoint = u.endPoint /\ t.retxEvent = u.retxEvent /\ t.out = u.out
      /\ t.dataRetrCount = u.dataRetrCount /\ t.state = state
  BY <1>1 DEF Socket
<1> HIDE DEF t
<1>5. /\ SameOffer(s, t) /\ SameTaken(s, t) /\ SameApp(s, t) /\ SameEvents(s, t)
  BY <1>1, <1>3 DEF Packet, SameOffer, SameTaken, SameApp, SameEvents
<1> QED  BY <1>1, <1>2, <1>4, <1>5 DEF Packet, t, u

\* Nothing is unsent: the socket has sent all of what was written, or nothing.
LEMMA AllSent ==
  ASSUME NEW s, NEW r, Link(s, r), ~Unsent(s), s.state \notin {"LISTEN", "SYN_SENT", "CLOSED"}
  PROVE  /\ s.connected /\ Written(s) => s.high = 2
         /\ ~s.connected => ~Written(s)
<1>1. s \in Socket /\ Numbered(s)
  BY LinkTypes
<1>2. ASSUME s.connected, Written(s) PROVE s.high = 2
  BY <1>1, <1>2, Fields DEF Numbered, Connected, Unsent
<1>3. ASSUME ~s.connected PROVE ~Written(s)
  BY <1>1, <1>3, Fields DEF Numbered, Unconnected, Unsent, Aborted, Opening
<1> QED  BY <1>2, <1>3

\* DoClose and ShutdownSend send a FIN when nothing is unsent.
LEMMA FinCloses ==
  ASSUME NEW s, NEW r, NEW t, Link(s, r), Packet(s, t, FinAck, TRUE), s.rxNext >= 1,
         s.state \in {"SYN_RCVD", "ESTABLISHED", "CLOSE_WAIT"},
         t.state \in {"FIN_WAIT_1", "LAST_ACK"},
         s.connected /\ Written(s) => s.high = 2, ~s.connected => ~Written(s)
  PROVE  /\ Step(s, t, r) /\ Settled(t)
         /\ t.state = "FIN_WAIT_1" \/ (OnlyData(s) /\ ~s.closed /\ Open(s)) => Timed(t)
<1>0. s \in Socket /\ r \in Socket /\ Numbered(s)
  BY LinkTypes
<1>1. /\ SameOffer(s, t) /\ SameApp(s, t) /\ t.endPoint = s.endPoint /\ t \in Socket
      /\ t.retxEvent = IF s.endPoint /\ s.retxEvent = NoEvent
                       THEN FinAck ELSE s.retxEvent
  BY DEF Packet
<1>2. s.connected => Final(t)
  <2>1. s.connected /\ ~Written(s) => s.high = 1
    BY <1>0 DEF Numbered, Connected
  <2> QED  BY <1>1, <2>1 DEF Final, CanWrite, Open, SameOffer, Written
<1>3. ~s.connected => Aborted(t)
  BY <1>1 DEF Aborted, SameOffer, Written, Opening
<1>4. Step(s, t, r)
  BY <1>2, <1>3, FinStep
<1>5. Settled(t)
  BY DEF Settled, Opening
<1>6. t.state = "FIN_WAIT_1" \/ (OnlyData(s) /\ ~s.closed /\ Open(s)) => Timed(t)
  BY <1>0, <1>1, Marks, Fields DEF Timed, OnlyData, Open, SameOffer
<1> QED  BY <1>4, <1>5, <1>6

\* DoClose sends a FIN only after all that was written was sent.
LEMMA DoCloseStep ==
  ASSUME NEW s, NEW r, Link(s, r), ~Unsent(s)
  PROVE  LET t == DoClose(s)
         IN  /\ Step(s, t, r) /\ SameApp(s, t)
             /\ Settled(s) => Settled(t)
             /\ Timed(s) => t.state = "LAST_ACK" \/ Timed(t)
             /\ Timed(s) /\ ~s.closed => Timed(t)
             /\ s.connected \/ Aborted(s) =>
                   /\ Asked(s) /\ s.shutdownSend => Asked(t)
                   /\ s.state = "CLOSE_WAIT" /\ s.endPoint => t.endPoint
<1> DEFINE t == DoClose(s)
<1>0. s \in Socket /\ r \in Socket /\ Stated(s) /\ Numbered(s)
  BY LinkTypes
<1>1. CASE s.state \in {"SYN_RCVD", "ESTABLISHED", "CLOSE_WAIT"}
  <2>1. Packet(s, t, FinAck, TRUE) /\ t.state \in {"FIN_WAIT_1", "LAST_ACK"}
                                   /\ (t.state = "LAST_ACK" => s.state = "CLOSE_WAIT")
    <3>1. CASE s.state \in {"SYN_RCVD", "ESTABLISHED"}
      <4>1. t = [SendEmptyPacket(s, {"FIN"}) EXCEPT !.state = "FIN_WAIT_1"]
        BY <3>1 DEF DoClose
      <4> HIDE DEF t
      <4> QED  BY <1>0, <4>1, FinToState DEF States
    <3>2. CASE s.state = "CLOSE_WAIT"
      <4>1. t = [SendEmptyPacket(s, FinAck) EXCEPT !.state = "LAST_ACK"]
        BY <3>2 DEF DoClose
      <4> HIDE DEF t
      <4> QED  BY <1>0, <3>2, <4>1, FinToState DEF States
    <3> QED  BY <1>1, <3>1, <3>2
  <2> HIDE DEF t
  <2>2. /\ s.connected /\ Written(s) => s.high = 2
        /\ ~s.connected => ~Written(s)
    BY <1>1, AllSent
  <2>3. s.rxNext >= 1
    BY <1>0, <1>1 DEF Stated
  <2>4. /\ Step(s, t, r) /\ Settled(t)
        /\ t.state = "FIN_WAIT_1" \/ (OnlyData(s) /\ ~s.closed /\ Open(s)) => Timed(t)
    BY <1>1, <2>1, <2>2, <2>3, FinCloses
  <2>5. SameApp(s, t) /\ SameOffer(s, t) /\ t.endPoint = s.endPoint
    BY <2>1 DEF Packet
  <2>6. Timed(s) => OnlyData(s)
    BY DEF Timed, OnlyData
  <2>7. t.state = "LAST_ACK" => Open(s)
    BY <2>1 DEF Open
  <2>8. (s.connected \/ Aborted(s)) /\ Asked(s) /\ s.shutdownSend => Asked(t)
    BY <2>5 DEF Asked, SameApp, SameOffer, Aborted
  <2> QED  BY <2>1, <2>4, <2>5, <2>6, <2>7, <2>8 DEF t
<1>2. CASE s.state \in {"SYN_SENT", "CLOSING"}
  <2> DEFINE u == SendRST(s)
  <2>1. t = CloseAndNotify(u)
    BY <1>2 DEF DoClose
  <2>2. /\ u \in Socket /\ SameOffer(s, u) /\ SameTaken(s, u) /\ SameApp(s, u)
        /\ ~u.endPoint /\ Quiet(u)
        /\ \A seg \in u.out : \A x : seg \in s.out \/ Sent(seg, u, x)
    BY ResetFields, LinkTypes
  <2>3. Step(s, u, r) /\ (Asked(s) => Asked(u)) /\ (Settled(s) => Settled(u))
    <3>1. u.state = s.state
      BY ResetFields, LinkTypes
    <3> QED  BY <2>2, <3>1, Gone
  <2> HIDE DEF u, t
  <2>4. Link(u, r)
    BY <2>3 DEF Step
  <2>5. /\ t \in Socket /\ SameOffer(u, t) /\ SameTaken(u, t) /\ SameApp(u, t)
        /\ t.state = "CLOSED" /\ t.out = u.out /\ ~t.endPoint /\ Quiet(t)
    BY <2>1, <2>2, CloseAndNotified
  <2>6. Step(u, t, r) /\ Timed(t) /\ (Asked(u) => Asked(t)) /\ (Settled(u) => Settled(t))
    BY <2>4, <2>5, Gone
  <2>7. Step(s, t, r)
    BY <1>0, <2>3, <2>6, StepTrans
  <2> QED  BY <1>2, <2>2, <2>3, <2>5, <2>6, <2>7 DEF SameApp, t
<1>3. CASE s.state = "LISTEN"
  <2>1. t = CloseAndNotify(s)
    BY <1>3 DEF DoClose
  <2>2. SameApp(s, t)
    BY <1>0, <2>1, CloseAndNotified, LinkTypes
  <2>3. Step(s, t, r) /\ ~t.endPoint
    BY <2>1, CloseAndNotifyStep
  <2>4. Timed(t) /\ (Asked(s) => Asked(t)) /\ (Settled(s) => Settled(t))
    <3>1. t \in Socket /\ SameOffer(s, t) /\ t.state = "CLOSED"
      BY <1>0, <2>1, CloseAndNotified, LinkTypes
    <3> HIDE DEF t
    <3> QED  BY <1>0, <2>2, <2>3, <3>1, Fields DEF Timed, Asked, Settled, SameApp, Opening
  <2> QED  BY <1>3, <2>2, <2>3, <2>4
<1>4. CASE s.state \notin {"SYN_RCVD", "ESTABLISHED", "CLOSE_WAIT", "SYN_SENT",
                           "CLOSING", "LISTEN"}
  <2>1. t = s
    BY <1>4 DEF DoClose
  <2> QED  BY <1>4, <2>1, StepRefl DEF SameApp
<1> QED  BY <1>1, <1>2, <1>3, <1>4

\* Close, called with data unsent or without.
LEMMA CloseSocketStep ==
  ASSUME NEW s, NEW r, Link(s, r)
  PROVE  LET t == DoCloseSocket(s)
         IN  /\ Step(s, t, r) /\ t.closed = s.closed /\ t.shutdownSend = s.shutdownSend
             /\ Settled(s) => Settled(t)
             /\ Timed(s) => t.state = "LAST_ACK" \/ Timed(t)
             /\ Timed(s) /\ ~s.closed => Timed(t)
             /\ s.connected \/ Aborted(s) =>
                   /\ Asked(s) /\ s.shutdownSend => Asked(t)
                   /\ s.state = "CLOSE_WAIT" /\ s.endPoint
                         => t.endPoint \/ t.state = "CLOSE_WAIT"
<1> DEFINE t == DoCloseSocket(s)
<1>0. s \in Socket /\ r \in Socket /\ Stated(s) /\ Numbered(s)
  BY LinkTypes
<1>1. CASE s.rxSize > 0
  <2>1. t = SendRST(s)
    BY <1>1 DEF DoCloseSocket
  <2>2. SameApp(s, t) /\ t.state = s.state
    BY <1>0, <2>1, ResetFields, LinkTypes
  <2>3. Step(s, t, r) /\ ~t.endPoint
    BY <2>1, ResetStep
  <2>4. Timed(t) /\ (Asked(s) => Asked(t)) /\ (Settled(s) => Settled(t))
    <3>1. t \in Socket /\ SameOffer(s, t)
      BY <1>0, <2>1, ResetFields, LinkTypes
    <3> HIDE DEF t
    <3> QED  BY <1>0, <2>2, <2>3, <3>1, Fields DEF Timed, Asked, Settled, SameApp, SameOffer
  <2> QED  BY <2>2, <2>3, <2>4 DEF SameApp
<1>2. CASE s.rxSize = 0 /\ Unsent(s)
  <2>1. t = [s EXCEPT !.closeOnEmpty = TRUE]
    BY <1>2 DEF DoCloseSocket
  <2>2. /\ t \in Socket /\ SameOffer(s, t) /\ SameTaken(s, t) /\ SameEvents(s, t)
        /\ t.retxEvent = s.retxEvent /\ t.state = s.state /\ t.endPoint = s.endPoint
        /\ t.out = s.out /\ t.closed = s.closed /\ t.shutdownSend = s.shutdownSend
    BY <1>0, <2>1 DEF Socket, SameOffer, SameTaken, SameEvents
  <2> HIDE DEF t
  <2>3. (Aborted(s) <=> Aborted(t)) /\ (Final(s) <=> Final(t))
    BY <2>2 DEF Aborted, Final, CanWrite, Open, SameOffer, Written
  <2>4. Numbered(t) /\ Stated(t)
    BY <1>0, <2>2, <2>3 DEF Numbered, Unconnected, Connected, Stated,
                            SameOffer, SameTaken, SameEvents, Written
  <2>5. Step(s, t, r)
    BY <2>2, <2>3, <2>4, Kept
  <2>6. (Settled(s) => Settled(t)) /\ (Timed(s) => Timed(t))
    BY <2>2 DEF Settled, Timed, Open, SameOffer, SameEvents
  <2>7. Asked(s) /\ s.shutdownSend => Asked(t)
    BY <2>2, <2>3 DEF Asked
  <2> QED  BY <2>2, <2>5, <2>6, <2>7 DEF t
<1>3. CASE s.rxSize = 0 /\ ~Unsent(s)
  <2>1. t = DoClose(s)
    BY <1>3 DEF DoCloseSocket
  <2> QED  BY <1>3, <2>1, DoCloseStep DEF SameApp
<1> QED  BY <1>0, <1>1, <1>2, <1>3, Fields

-----------------------------------------------------------------------------
(***************************************************************************)
(* Receiving                                                               *)
(***************************************************************************)
\* A socket that may receive data and a FIN.
Receiving(s) ==
    /\ s.connected \/ Aborted(s)
    /\ Open(s) \/ s.state \in {"FIN_WAIT_1", "FIN_WAIT_2"}

\* The types of a segment's fields.
LEMMA SegmentFields ==
  ASSUME NEW seg \in Segment
  PROVE  seg.seq \in Nat /\ seg.ack \in Nat /\ seg.len \in 0 .. 1
  BY DEF Segment, Seqs

\* The FIN is noted, unless its data is new; WaitFin takes the number of that.
LEMMA SetFinStep ==
  ASSUME NEW s, NEW r, NEW seg, NEW q, Link(s, r), Sent(seg, r, s), "FIN" \in seg.flags,
         s.connected \/ Aborted(s), s.state \notin {"LISTEN", "SYN_SENT", "CLOSED"},
         \/ q = seg.seq + seg.len
         \/ q = seg.seq /\ (seg.len = 1 => s.rxNext >= 2)
  PROVE  LET t == SetFinSequence(s, q)
         IN  /\ Step(s, t, r) /\ (End(s) => End(t))
             /\ (Timed(s) => Timed(t)) /\ (Asked(s) => Asked(t))
             /\ SameOffer(s, t) /\ SameApp(s, t) /\ SameEvents(s, t)
             /\ t.state = s.state /\ t.endPoint = s.endPoint
             /\ t.retxEvent = s.retxEvent /\ t.gotFin /\ t.finSeq = q
             /\ t.rxNext = IF s.rxNext = q THEN q + 1 ELSE s.rxNext
<1> DEFINE t == SetFinSequence(s, q)
           next == IF s.rxNext = q THEN q + 1 ELSE s.rxNext
<1>0. s \in Socket /\ r \in Socket /\ Stated(s) /\ Numbered(s) /\ Numbered(r)
  BY LinkTypes
<1>1. seg \in Segment /\ seg.seq \in Nat /\ seg.len \in 0 .. 1
  BY SegmentFields DEF Sent
<1>2. q \in Nat /\ s.rxNext \in Nat /\ s.finSeq \in Nat /\ next \in Nat /\ next >= s.rxNext
  BY <1>0, <1>1, Fields
<1>3. t = [s EXCEPT !.gotFin = TRUE, !.finSeq = q, !.rxNext = next]
  BY <1>0 DEF SetFinSequence, Socket
<1>4. /\ t \in Socket /\ SameOffer(s, t) /\ SameApp(s, t) /\ SameEvents(s, t)
      /\ t.state = s.state /\ t.endPoint = s.endPoint /\ t.retxEvent = s.retxEvent
      /\ t.gotFin /\ t.finSeq = q /\ t.rxNext = next /\ t.got = s.got /\ t.out = s.out
  <2>1. t \in Socket
    BY <1>0, <1>2, <1>3 DEF Socket, Seqs
  <2> QED  BY <1>0, <1>3, <2>1 DEF Socket, SameOffer, SameApp, SameEvents
<1> HIDE DEF t, next
<1>5. (Aborted(s) <=> Aborted(t)) /\ (Final(s) <=> Final(t))
  BY <1>4 DEF Aborted, Final, CanWrite, Open, SameOffer, SameApp, Written
<1>6. Numbered(t)
  BY <1>0, <1>4, <1>5 DEF Numbered, Unconnected, Connected, SameOffer, SameEvents, Written
<1>7. s.state \notin {"LISTEN", "SYN_SENT", "CLOSED"} /\ s.rxNext >= 1
      /\ (s.state = "SYN_RCVD" => s.connected)
  BY <1>0 DEF Aborted, Opening, Stated
<1>8. Stated(t)
  BY <1>0, <1>2, <1>4, <1>7 DEF Stated, SameOffer, SameEvents
<1>9. Later(s, t, r)
  BY <1>0, <1>2, <1>4, <1>5, Fields DEF Later, SameOffer, Written
<1>10. Heard(t, r)
  <2>0. Heard(s, r)
    BY DEF Link
  <2>1. CASE Aborted(r)
    BY <2>1 DEF Heard, Aborted
  <2>2. CASE ~Aborted(r)
    <3>1. /\ r.connected /\ Final(r) /\ r.high \in 1 .. 2 /\ r.next \in Nat
          /\ Written(r) => r.high = 2
          /\ seg.len = 1 => Written(r) /\ r.high = 2 /\ seg.seq = 1
          /\ \/ seg.seq + seg.len = r.high
             \/ seg.len = 0 /\ seg.seq > r.high /\ seg.seq <= s.rxNext
      BY <1>0, <2>2, Fields DEF Sent, Numbered, Connected, Final
    <3>2. \/ q = r.high
          \/ q > r.high /\ q <= s.rxNext
          \/ q = 1 /\ s.rxNext >= 2 /\ Written(r) /\ r.high = 2
      BY <1>1, <3>1
    <3>3. /\ s.rxNext > r.high => Finished(s)
          /\ s.rxNext >= 2 /\ Written(r) => s.got = 1
          /\ r.next > r.high => r.next <= s.rxNext
          /\ r.state = "FIN_WAIT_2" => Finished(s)
          /\ s.gotFin => s.finSeq >= r.high \/ (s.got = 1 /\ s.rxNext >= 2)
      BY <2>0, <3>1 DEF Heard
    <3>4. Finished(s) => s.rxNext >= r.high
      BY <1>2, <3>1, <3>3 DEF Finished
    <3>5. q <= s.rxNext => Finished(t)
      BY <1>2, <1>4 DEF Finished, next
    <3>6. Finished(s) => Finished(t)
      BY <1>2, <3>1, <3>2, <3>4, <3>5
    <3>7. t.rxNext > r.high => Finished(t)
      <4>1. t.rxNext > r.high => q <= s.rxNext
        BY <1>2, <1>4, <3>1, <3>2 DEF next
      <4> QED  BY <3>5, <4>1
    <3>8. t.rxNext >= 2 /\ Written(r) => t.got = 1
      BY <1>2, <1>4, <3>1, <3>2, <3>3 DEF next
    <3>9. t.finSeq >= r.high \/ (t.got = 1 /\ t.rxNext >= 2)
      BY <1>2, <1>4, <3>1, <3>2, <3>3
    <3>10. t.rxNext >= 1 /\ (r.next > r.high => r.next <= t.rxNext)
      BY <1>2, <1>4, <1>7, <3>1, <3>3
    <3> QED  BY <1>4, <1>7, <2>0, <2>2, <3>1, <3>3, <3>6, <3>7, <3>8, <3>9, <3>10
             DEF Heard, SameOffer
  <2> QED  BY <2>1, <2>2
<1>11. Heard(r, t)
  <2>1. Heard(r, s)
    BY DEF Link
  <2> QED  BY <1>4, <1>5, <2>1 DEF Heard, SameOffer, Written
<1>12. \A x \in t.out : Sent(x, t, r)
  BY <1>0, <1>4, <1>9, StillSent DEF Link
<1>13. Step(s, t, r)
  BY <1>0, <1>4, <1>6, <1>8, <1>9, <1>10, <1>11, <1>12 DEF Step, Link
<1>14. (Timed(s) => Timed(t)) /\ (Asked(s) => Asked(t)) /\ (Settled(s) => Settled(t))
  BY <1>4, <1>5 DEF Timed, Open, Asked, Settled, SameOffer, SameApp, SameEvents
<1> QED  BY <1>4, <1>13, <1>14 DEF End, t, next

\* The data is new.
LEMMA AddDataStep ==
  ASSUME NEW s, NEW r, NEW seg, Link(s, r), Sent(seg, r, s), seg.len = 1,
         seg.seq = s.rxNext, Receiving(s)
  PROVE  LET t == AddData(s, seg)
         IN  /\ Step(s, t, r) /\ (End(s) => End(t))
             /\ (Timed(s) => Timed(t)) /\ (Asked(s) => Asked(t))
             /\ SameOffer(s, t) /\ SameApp(s, t) /\ SameEvents(s, t)
             /\ t.state = s.state /\ t.endPoint = s.endPoint
             /\ t.retxEvent = s.retxEvent /\ t.rxSize = 1 /\ t.rxNext >= 2
             /\ t.gotFin = s.gotFin /\ t.finSeq = s.finSeq
             /\ s.gotFin /\ s.finSeq = seg.seq + 1 => Finished(t)
<1> DEFINE t == AddData(s, seg)
           next == IF s.gotFin /\ s.finSeq = 2 THEN 3 ELSE 2
<1>0. s \in Socket /\ r \in Socket /\ Stated(s) /\ Numbered(s) /\ Numbered(r)
  BY LinkTypes
<1>1. /\ r.connected /\ Written(r) /\ r.high = 2 /\ seg.seq = 1 /\ s.rxNext = 1
      /\ r.next \in Nat /\ s.finSeq \in Nat
  BY <1>0, Fields DEF Sent
<1>2. t = [s EXCEPT !.rxNext = next, !.rxSize = 1, !.got = 1]
  BY <1>0, <1>1 DEF AddData, Socket
<1>3. /\ t \in Socket /\ SameOffer(s, t) /\ SameApp(s, t) /\ SameEvents(s, t)
      /\ t.state = s.state /\ t.endPoint = s.endPoint /\ t.retxEvent = s.retxEvent
      /\ t.gotFin = s.gotFin /\ t.finSeq = s.finSeq /\ t.rxNext = next
      /\ t.got = 1 /\ t.rxSize = 1 /\ t.out = s.out
  <2>1. t \in Socket
    <3> DEFINE u == [s EXCEPT !.rxNext = next]
    <3>1. next \in Nat /\ t = [u EXCEPT !.rxSize = 1, !.got = 1]
      BY <1>2
    <3>2. u \in Socket
      BY <1>0, <3>1 DEF Socket, Seqs
    <3> HIDE DEF u
    <3>3. [u EXCEPT !.rxSize = 1] \in Socket
      BY <3>2 DEF Socket
    <3> DEFINE v == [u EXCEPT !.rxSize = 1]
    <3>4. t = [v EXCEPT !.got = 1] /\ v \in Socket
      BY <3>1, <3>3
    <3> HIDE DEF v, t
    <3> QED  BY <3>4 DEF Socket
  <2> QED  BY <1>0, <1>2, <2>1 DEF Socket, SameOffer, SameApp, SameEvents
<1>4. next \in 2 .. 3
  OBVIOUS
<1>5. Finished(t) <=> s.gotFin /\ s.finSeq < next
  BY <1>3 DEF Finished
<1>6. s.gotFin /\ s.finSeq = 2 => Finished(t)
  BY <1>5
<1>7. next > 2 => Finished(t)
  BY <1>6
<1> HIDE DEF t, next
<1>8. (Aborted(s) <=> Aborted(t)) /\ (Final(s) <=> Final(t))
  BY <1>3 DEF Aborted, Final, CanWrite, Open, SameOffer, SameApp, Written
<1>9. Numbered(t)
  BY <1>0, <1>3, <1>8 DEF Numbered, Unconnected, Connected, SameOffer, SameEvents, Written
<1>10. s.state \notin {"LISTEN", "SYN_SENT", "CLOSED"} /\ s.rxNext >= 1
      /\ (s.state = "SYN_RCVD" => s.connected)
  BY <1>0 DEF Receiving, Open, Aborted, Opening, Stated
<1>11. Stated(t)
  BY <1>0, <1>3, <1>4, <1>10 DEF Stated, SameOffer, SameEvents
<1>12. Later(s, t, r)
  BY <1>0, <1>1, <1>3, <1>4, <1>8, Fields DEF Later, SameOffer, Written
<1>13. Heard(t, r)
  <2>1. Heard(s, r)
    BY DEF Link
  <2>2. Finished(s) => Finished(t)
    BY <1>1, <1>4, <1>5 DEF Finished
  <2>3. r.next > r.high => r.next <= t.rxNext
    BY <1>1, <1>3, <1>4, <2>1 DEF Heard
  <2> QED  BY <1>1, <1>3, <1>4, <1>7, <1>10, <2>1, <2>2, <2>3 DEF Heard, SameOffer
<1>14. Heard(r, t)
  <2>1. Heard(r, s)
    BY DEF Link
  <2> QED  BY <1>3, <1>8, <2>1 DEF Heard, SameOffer, Written
<1>15. \A x \in t.out : Sent(x, t, r)
  BY <1>0, <1>3, <1>12, StillSent DEF Link
<1>16. Step(s, t, r)
  BY <1>0, <1>3, <1>9, <1>11, <1>12, <1>13, <1>14, <1>15 DEF Step, Link
<1>17. (Timed(s) => Timed(t)) /\ (Asked(s) => Asked(t)) /\ (Settled(s) => Settled(t))
  BY <1>3, <1>8 DEF Timed, Open, Asked, Settled, SameOffer, SameApp, SameEvents
<1> QED  BY <1>1, <1>3, <1>4, <1>6, <1>16, <1>17 DEF End, t

\* The FIN of the peer is in sequence.
LEMMA PeerCloseStep ==
  ASSUME NEW s, NEW r, Link(s, r), s.endPoint, Receiving(s), Asked(s),
         Open(s) \/ s.rxSize > 0
  PROVE  LET t == DoPeerClose(s)
         IN  /\ Step(s, t, r) /\ Asked(t) /\ Settled(t) /\ (Timed(s) => Timed(t))
             /\ t.endPoint \/ t.state = "CLOSE_WAIT"
<1> DEFINE t == DoPeerClose(s)
           w == [s EXCEPT !.state = "CLOSE_WAIT", !.closeNotified = TRUE]
           u == IF s.shutdownSend THEN DoCloseSocket(w) ELSE SendEmptyPacket(w, ACK)
           v == [u EXCEPT !.dataRetrCount = DataRetries, !.lastAckEvent = TRUE]
<1>0. /\ s \in Socket /\ r \in Socket /\ Stated(s) /\ Numbered(s)
      /\ s.connected \/ Aborted(s)
  BY LinkTypes DEF Receiving
<1>1. t = IF u.state = "LAST_ACK" THEN v ELSE u
  BY DEF DoPeerClose
<1>2. /\ w \in Socket /\ SameOffer(s, w) /\ SameTaken(s, w) /\ SameApp(s, w)
      /\ SameEvents(s, w) /\ w.retxEvent = s.retxEvent /\ w.endPoint
      /\ w.state = "CLOSE_WAIT" /\ w.out = s.out /\ w.rxSize = s.rxSize
  <2>1. w \in Socket
    BY <1>0 DEF Socket, States
  <2> QED  BY <1>0, <2>1 DEF Socket, SameOffer, SameTaken, SameApp, SameEvents
<1> HIDE DEF w
<1>3. s.state \notin {"LISTEN", "SYN_SENT", "CLOSED"} /\ s.rxNext >= 1
      /\ (s.state = "SYN_RCVD" => s.connected)
  BY <1>0 DEF Receiving, Open, Aborted, Opening, Stated
<1>4. ASSUME Open(s) \/ s.closed
      PROVE  Step(s, w, r) /\ Asked(w) /\ (Timed(s) => Timed(w)) /\ Link(w, r)
  <2>1. Aborted(s) => Aborted(w)
    BY <1>2 DEF Aborted, SameOffer, Written, Opening
  <2>2. Final(s) => Final(w)
    BY <1>2, <1>4 DEF Final, CanWrite, SameOffer, SameApp, Written
  <2>3. Numbered(w)
    BY <1>0, <1>2, <2>1, <2>2 DEF Numbered, Connected, SameOffer, SameEvents, Written
  <2>4. Stated(w)
    BY <1>0, <1>2, <1>3 DEF Stated, SameOffer, SameTaken, SameEvents
  <2>5. Step(s, w, r)
    BY <1>2, <2>1, <2>2, <2>3, <2>4, Kept
  <2>6. Asked(w)
    BY <1>0, <1>2 DEF Asked, SameApp, SameOffer, Aborted
  <2>7. Timed(s) => Timed(w)
    <3>1. s.head \in Nat /\ s.high \in Nat
      BY <1>0, Fields
    <3>2. Open(s) \/ s.state = "FIN_WAIT_1" \/ (s.state = "FIN_WAIT_2" /\ ~(s.head < s.high))
      BY <1>0, <3>1 DEF Stated, Receiving
    <3> QED  BY <1>2, <1>4, <3>2 DEF Timed, Open, SameOffer, SameApp
  <2> QED  BY <2>5, <2>6, <2>7 DEF Step
<1>5. CASE ~s.shutdownSend
  <2>1. Open(s) \/ s.closed
    BY <1>5 DEF Receiving, Asked
  <2>2. t = SendEmptyPacket(w, ACK) \/ u.state = "LAST_ACK"
    BY <1>1, <1>5
  <2>3. u = SendEmptyPacket(w, ACK)
    BY <1>5
  <2>4. Step(s, w, r) /\ Asked(w) /\ (Timed(s) => Timed(w)) /\ Link(w, r)
    BY <1>4, <2>1
  <2>5. /\ Step(w, u, r) /\ SameOffer(w, u) /\ SameApp(w, u)
        /\ u.state = "CLOSE_WAIT" /\ u.endPoint
    BY <1>2, <2>3, <2>4, AckStep
  <2>6. t = u
    BY <1>1, <2>5
  <2>7. Settled(w) /\ Settled(u)
    BY <1>2, <2>5 DEF Settled, Opening
  <2>8. Asked(u)
    BY <1>2, <2>4, <2>5 DEF Asked, SameApp, SameOffer, Aborted, Written
  <2>9. Timed(w) => Timed(u)
    BY <2>3, <2>4, <2>7, AckStep DEF End
  <2> QED  BY <1>0, <2>4, <2>5, <2>6, <2>7, <2>8, <2>9, StepTrans
<1>6. CASE s.shutdownSend /\ Open(s)
  <2>1. u = DoCloseSocket(w)
    BY <1>6
  <2>2. Step(s, w, r) /\ Asked(w) /\ (Timed(s) => Timed(w)) /\ Link(w, r)
    BY <1>4, <1>6
  <2>3. w.shutdownSend /\ (w.connected \/ Aborted(w)) /\ Settled(w)
    BY <1>0, <1>2, <1>6, <2>2 DEF Step, Later, SameApp, SameOffer, Settled, Opening
  <2>4. /\ Step(w, u, r) /\ Asked(u) /\ Settled(u)
        /\ Timed(w) => u.state = "LAST_ACK" \/ Timed(u)
        /\ u.endPoint \/ u.state = "CLOSE_WAIT"
    BY <1>2, <2>1, <2>2, <2>3, CloseSocketStep
  <2>5. Step(s, u, r) /\ u \in Socket
    BY <1>0, <2>2, <2>4, StepTrans DEF Step, Link
  <2>6. CASE u.state # "LAST_ACK"
    <3>1. t = u
      BY <1>1, <2>6
    <3> HIDE DEF u, v, t
    <3> QED  BY <2>2, <2>4, <2>5, <2>6, <3>1 DEF t
  <2>7. CASE u.state = "LAST_ACK"
    <3> HIDE DEF u
    <3>1. /\ v \in Socket /\ SameOffer(u, v) /\ SameTaken(u, v) /\ SameApp(u, v)
          /\ v.retxEvent = u.retxEvent /\ v.endPoint = u.endPoint /\ v.state = u.state
          /\ v.sendEvent = u.sendEvent /\ v.lastAckEvent /\ v.out = u.out
      <4>1. DataRetries \in 0 .. DataRetries
        BY RetriesAssumption
      <4>2. v \in Socket
        BY <2>5, <4>1 DEF Socket
      <4> QED  BY <2>5, <4>2 DEF Socket, SameOffer, SameTaken, SameApp
    <3>2. t = v /\ u.endPoint
      BY <1>1, <2>4, <2>7
    <3> HIDE DEF v, t
    <3>3. (Aborted(u) <=> Aborted(v)) /\ (Final(u) <=> Final(v))
      BY <3>1 DEF Aborted, Final, CanWrite, Open, SameOffer, SameApp, Written
    <3>4. Link(u, r) /\ Numbered(u) /\ Stated(u)
      BY <2>5 DEF Step, Link
    <3>5. Numbered(v)
      BY <3>1, <3>3, <3>4 DEF Numbered, Unconnected, Connected, SameOffer, Written
    <3>6. Stated(v)
      BY <2>7, <3>1, <3>2, <3>4 DEF Stated, SameOffer, SameTaken
    <3>7. Step(u, v, r)
      BY <3>1, <3>3, <3>4, <3>5, <3>6, Kept
    <3>8. Asked(v) /\ Settled(v) /\ Timed(v)
      BY <2>4, <2>7, <3>1, <3>2, <3>3 DEF Asked, Settled, Timed, Open, SameApp, SameOffer
    <3>9. Step(s, v, r)
      BY <1>0, <2>5, <3>7, StepTrans
    <3> QED  BY <3>1, <3>2, <3>8, <3>9 DEF t
  <2> QED  BY <2>6, <2>7
<1>7. CASE s.shutdownSend /\ ~Open(s)
  <2>1. u = SendRST(w)
    BY <1>2, <1>7 DEF DoCloseSocket
  <2>2. /\ u \in Socket /\ SameOffer(w, u) /\ SameTaken(w, u) /\ SameApp(w, u)
        /\ u.state = "CLOSE_WAIT" /\ ~u.endPoint /\ Quiet(u)
        /\ \A seg \in u.out : seg \in w.out \/ Sent(seg, u, r)
    BY <1>2, <2>1, ResetFields
  <2>3. t = u
    BY <1>1, <2>2
  <2> HIDE DEF u, t
  <2>4. /\ SameOffer(s, u) /\ SameTaken(s, u) /\ SameApp(s, u)
        /\ \A seg \in u.out : seg \in s.out \/ Sent(seg, u, r)
    BY <1>2, <2>2 DEF SameOffer, SameTaken, SameApp
  <2>5. s.state \notin Opening \cup {"CLOSED"}
    BY <1>7 DEF Receiving, Opening
  <2>6. Step(s, u, r) /\ Timed(u) /\ (Asked(s) => Asked(u))
    BY <2>2, <2>4, <2>5, Gone
  <2>7. Settled(u)
    BY <2>2 DEF Settled, Opening
  <2> QED  BY <2>2, <2>3, <2>6, <2>7 DEF t
<1> QED  BY <1>5, <1>6, <1>7

\* Data, new or not; with a FIN, it is PeerClose that goes on.
LEMMA ReceivedDataStep ==
  ASSUME NEW s, NEW r, NEW seg, Link(s, r), Sent(seg, r, s), seg.len = 1,
         Receiving(s), s.endPoint, End(s) \/ "FIN" \in seg.flags
  PROVE  LET t == ReceivedData(s, seg)
         IN  /\ Step(s, t, r) /\ (End(s) => End(t)) /\ t.rxNext >= 2
             /\ t.endPoint \/ t.state = "CLOSE_WAIT"
             /\ "FIN" \in seg.flags =>
                   /\ SameOffer(s, t) /\ SameApp(s, t) /\ t.state = s.state /\ t.endPoint
                   /\ t.gotFin = s.gotFin /\ t.finSeq = s.finSeq
                   /\ (Timed(s) => Timed(t)) /\ (Asked(s) => Asked(t))
                   /\ t.rxSize = s.rxSize \/ t.rxSize = 1
                   /\ s.gotFin /\ s.finSeq = s.rxNext + 1 /\ seg.seq = s.rxNext
                         => Finished(t)
<1> DEFINE t == ReceivedData(s, seg)
           u == AddData(s, seg)
<1>0. s \in Socket /\ r \in Socket /\ s.rxNext \in Nat /\ r.connected /\ ~Aborted(r)
  BY LinkTypes, Fields DEF Sent, Aborted
<1>1. seg.seq = 1 /\ s.rxNext >= 1
  BY <1>0 DEF Sent, Link, Heard
<1>2. CASE seg.seq # s.rxNext
  <2>1. t = SendEmptyPacket(s, ACK)
    BY <1>2 DEF ReceivedData
  <2>2. /\ Step(s, t, r) /\ (End(s) => End(t)) /\ SameOffer(s, t) /\ SameTaken(s, t)
        /\ SameApp(s, t) /\ t.state = s.state /\ t.endPoint = s.endPoint
        /\ t.rxSize = s.rxSize /\ (Timed(s) => Timed(t)) /\ (Asked(s) => Asked(t))
    BY <2>1, AckStep
  <2> HIDE DEF t
  <2>3. s.rxNext >= 2
    BY <1>0, <1>1, <1>2
  <2> QED  BY <1>2, <2>2, <2>3 DEF t, SameTaken
<1>3. CASE seg.seq = s.rxNext
  <2>1. /\ Step(s, u, r) /\ (End(s) => End(u)) /\ SameOffer(s, u) /\ SameApp(s, u)
        /\ (Timed(s) => Timed(u)) /\ (Asked(s) => Asked(u))
        /\ u.state = s.state /\ u.endPoint = s.endPoint /\ u.rxSize = 1 /\ u.rxNext >= 2
        /\ u.gotFin = s.gotFin /\ u.finSeq = s.finSeq
        /\ s.gotFin /\ s.finSeq = seg.seq + 1 => Finished(u)
    BY <1>3, AddDataStep
  <2>2. t = IF Finished(u) /\ "FIN" \notin seg.flags THEN DoPeerClose(u)
                                                   ELSE SendEmptyPacket(u, ACK)
    BY <1>3 DEF ReceivedData
  <2> HIDE DEF u, t
  <2>3. Link(u, r) /\ u \in Socket /\ u.rxNext \in Nat
    BY <2>1, LinkTypes, Fields DEF Step
  <2>4. CASE Finished(u) /\ "FIN" \notin seg.flags
    <3>1. Receiving(u)
      BY <2>1 DEF Receiving, Open, Step, Later, SameOffer
    <3>2. t = DoPeerClose(u) /\ Asked(u) /\ u.rxSize > 0 /\ u.endPoint /\ End(s)
      BY <2>1, <2>2, <2>4 DEF End
    <3>3. /\ Step(u, t, r) /\ Asked(t) /\ Settled(t) /\ (Timed(u) => Timed(t))
          /\ t.endPoint \/ t.state = "CLOSE_WAIT"
      BY <2>3, <3>1, <3>2, PeerCloseStep
    <3>4. t.rxNext >= 2
      <4>1. u.rxNext <= t.rxNext /\ t.rxNext \in Nat
        BY <1>0, <3>3, Fields DEF Step, Later, Link
      <4> QED  BY <2>1, <2>3, <4>1
    <3>5. Step(s, t, r)
      BY <1>0, <2>1, <3>3, StepTrans
    <3> QED  BY <2>1, <2>4, <3>2, <3>3, <3>4, <3>5 DEF End, t
  <2>5. CASE ~(Finished(u) /\ "FIN" \notin seg.flags)
    <3>1. t = SendEmptyPacket(u, ACK)
      BY <2>2, <2>5
    <3>2. /\ Step(u, t, r) /\ (End(u) => End(t)) /\ SameOffer(u, t) /\ SameTaken(u, t)
          /\ SameApp(u, t) /\ t.state = u.state /\ t.endPoint = u.endPoint
          /\ t.rxSize = u.rxSize /\ (Timed(u) => Timed(t)) /\ (Asked(u) => Asked(t))
      BY <2>3, <3>1, AckStep
    <3>3. Step(s, t, r)
      BY <1>0, <2>1, <3>2, StepTrans
    <3>4. Finished(u) => Finished(t)
      BY <3>2 DEF Finished, SameTaken
    <3>5. SameOffer(s, t) /\ SameApp(s, t)
      BY <2>1, <3>2 DEF SameOffer, SameApp
    <3> QED  BY <1>3, <2>1, <3>2, <3>3, <3>4, <3>5 DEF SameTaken, t
  <2> QED  BY <2>4, <2>5
<1> QED  BY <1>2, <1>3

\* DiscardUpTo and NewAck: data that is freed has arrived.
LEMMA AcknowledgedStep ==
  ASSUME NEW s, NEW r, NEW ack \in Nat, Link(s, r), ~Aborted(s) => ack <= r.rxNext,
         Receiving(s), End(s), s.endPoint
  PROVE  LET t == Acknowledged(s, ack)
         IN  /\ Step(s, t, r) /\ End(t) /\ SameTaken(s, t) /\ SameApp(s, t)
             /\ t.state = s.state /\ t.endPoint /\ t.rxSize = s.rxSize
             /\ t.connected = s.connected
<1> DEFINE t == Acknowledged(s, ack)
           keep == s.state \in {"FIN_WAIT_1", "CLOSING"}
           next == Larger(s.next, ack)
<1>0. /\ s \in Socket /\ r \in Socket /\ Stated(s) /\ Numbered(s)
      /\ s.head \in Nat /\ s.next \in Nat /\ s.high \in Nat /\ s.size \in 0 .. 1
      /\ r.rxNext \in Nat
      /\ s.connected \/ Aborted(s)
  BY LinkTypes, Fields DEF Receiving
<1>1. ASSUME s.connected
      PROVE  /\ Connected(s) /\ ack <= r.rxNext
             /\ s.size = 1 /\ ack > s.head => ack >= 2 /\ s.high = 2 /\ r.got = 1
  <2>1. Connected(s) /\ ack <= r.rxNext /\ Heard(r, s)
    BY <1>0, <1>1 DEF Numbered, Aborted, Link
  <2>2. ASSUME s.size = 1, ack > s.head
        PROVE  ack >= 2 /\ s.high = 2 /\ r.got = 1
    <3>1. s.head = 1 /\ s.high \in 1 .. 2 /\ Written(s) /\ r.rxNext >= 2
      BY <1>0, <2>1, <2>2 DEF Connected, Numbered
    <3>2. r.rxNext > s.high => Finished(r)
      BY <1>1, <2>1 DEF Heard
    <3>3. Finished(r) => s.high = 2
      BY <1>1, <2>1, <3>1 DEF Heard, Finished, Final
    <3>4. r.got = 1
      BY <1>1, <2>1, <3>1 DEF Heard
    <3> QED  BY <1>0, <2>2, <3>1, <3>2, <3>3, <3>4
  <2> QED  BY <2>1, <2>2
<1>2. s.state \notin {"LISTEN", "SYN_SENT", "CLOSED"} /\ s.rxNext >= 1
      /\ (s.state = "SYN_RCVD" => s.connected)
  BY <1>0 DEF Receiving, Open, Aborted, Opening, Stated
<1>3. CASE ack > s.head
  <2> DEFINE retx == IF keep THEN Timeout ELSE NoEvent
  <2>1. t = [s EXCEPT !.head = ack, !.size = 0, !.next = next,
                      !.dataRetrCount = DataRetries, !.retxEvent = retx]
    BY <1>0, <1>3 DEF Acknowledged, Socket
  <2>2. next \in Nat /\ next >= s.next /\ next >= ack /\ (next = s.next \/ next = ack)
    BY <1>0 DEF Larger
  <2> HIDE DEF next, retx, t
  <2>3. t \in Socket
    <3> DEFINE u == [s EXCEPT !.head = ack]
               v == [u EXCEPT !.size = 0]
               w == [v EXCEPT !.next = next]
               x == [w EXCEPT !.dataRetrCount = DataRetries]
    <3>1. t = [x EXCEPT !.retxEvent = retx]
      BY <2>1
    <3>2. u \in Socket
      BY <1>0 DEF Socket, Seqs
    <3> HIDE DEF u
    <3>3. v \in Socket
      BY <3>2 DEF Socket
    <3> HIDE DEF v
    <3>4. w \in Socket
      BY <2>2, <3>3 DEF Socket, Seqs
    <3> HIDE DEF w
    <3>5. DataRetries \in 0 .. DataRetries
      BY RetriesAssumption
    <3>6. x \in Socket
      BY <3>4, <3>5 DEF Socket
    <3> HIDE DEF x
    <3>7. retx \in {NoEvent, SYN, SynAck, FinAck, Timeout}
      BY DEF retx
    <3> QED  BY <3>1, <3>6, <3>7 DEF Socket
  <2>4. /\ SameTaken(s, t) /\ SameApp(s, t) /\ SameEvents(s, t)
        /\ t.state = s.state /\ t.endPoint = s.endPoint /\ t.rxSize = s.rxSize
        /\ t.connected = s.connected /\ t.written = s.written /\ t.high = s.high
        /\ t.head = ack /\ t.size = 0 /\ t.next = next /\ t.retxEvent = retx
        /\ t.out = s.out
    BY <1>0, <2>1 DEF Socket, SameTaken, SameApp, SameEvents
  <2>5. (Aborted(s) <=> Aborted(t)) /\ (Final(s) <=> Final(t))
    BY <2>4 DEF Aborted, Final, CanWrite, Open, SameApp, Written
  <2>6. s.high <= ack
    <3>1. s.size = 0 => s.high <= s.head
      BY <1>0 DEF Numbered
    <3>2. s.size = 1 => s.connected
      BY <1>0 DEF Numbered, Aborted
    <3> QED  BY <1>0, <1>1, <1>3, <3>1, <3>2
  <2>7. Numbered(t)
    <3>1. ASSUME s.connected PROVE Connected(t)
      <4>1. ack >= 1
        BY <1>0, <1>3
      <4>2. Written(s) => ack >= 2 /\ s.high = 2
        BY <1>0, <1>1, <1>3, <3>1 DEF Connected
      <4>3. retx \notin {SYN, SynAck, FinAck}
        BY Marks DEF retx
      <4> QED  BY <1>0, <1>1, <2>2, <2>4, <2>5, <3>1, <4>1, <4>2, <4>3
               DEF Connected, Written
    <3> QED  BY <1>0, <2>2, <2>4, <2>5, <2>6, <3>1 DEF Numbered
  <2>8. Stated(t)
    <3>1. t.retxEvent # FinAck
      BY <2>4, Marks DEF retx
    <3> QED  BY <1>0, <1>2, <2>4, <2>6, <3>1 DEF Stated, SameTaken, SameEvents
  <2>9. Later(s, t, r)
    <3>1. s.size = 1 => s.connected
      BY <1>0 DEF Numbered, Aborted
    <3> QED  BY <1>0, <1>1, <1>3, <2>4, <2>5, <3>1, Fields DEF Later, SameTaken, Written
  <2>10. Heard(t, r)
    <3>1. Heard(s, r)
      BY DEF Link
    <3> QED  BY <2>4, <3>1 DEF Heard, SameTaken, Finished
  <2>11. Heard(r, t)
    <3>1. Heard(r, s)
      BY DEF Link
    <3>2. s.connected /\ t.next > t.high => t.next <= r.rxNext
      BY <1>0, <1>1, <2>2, <2>4, <3>1 DEF Heard
    <3> QED  BY <2>4, <2>5, <3>1, <3>2 DEF Heard, Written
  <2>12. \A x \in t.out : Sent(x, t, r)
    BY <1>0, <2>3, <2>4, <2>9, StillSent DEF Link
  <2>13. Step(s, t, r)
    BY <1>0, <2>3, <2>7, <2>8, <2>9, <2>10, <2>11, <2>12 DEF Step, Link
  <2>14. Timed(t)
    BY <1>0, <1>2, <2>4, <2>6, Marks DEF Timed, Open, Receiving, retx
  <2>15. Asked(t) /\ Settled(t)
    BY <2>4, <2>5 DEF End, Asked, Settled, SameApp
  <2> QED  BY <2>4, <2>13, <2>14, <2>15 DEF End, t
<1>4. CASE ack = s.head /\ ack > s.high
  <2>1. t = [s EXCEPT !.next = ack]
    BY <1>0, <1>4 DEF Acknowledged
  <2>2. /\ t \in Socket /\ SameTaken(s, t) /\ SameApp(s, t) /\ SameEvents(s, t)
        /\ t.state = s.state /\ t.endPoint = s.endPoint /\ t.rxSize = s.rxSize
        /\ t.connected = s.connected /\ t.written = s.written /\ t.high = s.high
        /\ t.head = s.head /\ t.size = s.size /\ t.next = ack
        /\ t.retxEvent = s.retxEvent /\ t.out = s.out
    BY <1>0, <2>1 DEF Socket, Seqs, SameTaken, SameApp, SameEvents
  <2> HIDE DEF t
  <2>3. (Aborted(s) <=> Aborted(t)) /\ (Final(s) <=> Final(t))
    BY <2>2 DEF Aborted, Final, CanWrite, Open, SameApp, Written
  <2>4. Numbered(t)
    BY <1>0, <1>1, <1>4, <2>2, <2>3 DEF Numbered, Connected, Written
  <2>5. Stated(t)
    BY <1>0, <2>2 DEF Stated, SameTaken, SameEvents, Written
  <2>6. Later(s, t, r)
    BY <1>0, <2>2, <2>3, Fields DEF Later, SameTaken, Written
  <2>7. Heard(t, r)
    <3>1. Heard(s, r)
      BY DEF Link
    <3> QED  BY <2>2, <3>1 DEF Heard, SameTaken, Finished
  <2>8. Heard(r, t)
    <3>1. Heard(r, s)
      BY DEF Link
    <3> QED  BY <1>0, <1>1, <2>2, <2>3, <3>1 DEF Heard, Written
  <2>9. \A x \in t.out : Sent(x, t, r)
    BY <1>0, <2>2, <2>6, StillSent DEF Link
  <2>10. Step(s, t, r)
    BY <1>0, <2>2, <2>4, <2>5, <2>6, <2>7, <2>8, <2>9 DEF Step, Link
  <2>11. End(t)
    BY <2>2, <2>3 DEF End, Timed, Open, Asked, Settled, SameApp, SameEvents
  <2> QED  BY <2>2, <2>10, <2>11 DEF t
<1>5. CASE ~(ack > s.head) /\ ~(ack = s.head /\ ack > s.high)
  <2>1. t = s
    BY <1>5 DEF Acknowledged
  <2> QED  BY <2>1, StepRefl DEF SameTaken, SameApp
<1> QED  BY <1>3, <1>4, <1>5

\* ReceivedAck in all the states that call it.
LEMMA ReceivedAckStep ==
  ASSUME NEW s, NEW r, NEW seg, Link(s, r), Sent(seg, r, s), "RST" \notin seg.flags,
         Receiving(s), End(s), s.endPoint
  PROVE  LET t == ReceivedAck(s, seg)
         IN  /\ Step(s, t, r) /\ End(t) /\ (t.connected \/ Aborted(t))
             /\ t.endPoint \/ t.state = "CLOSE_WAIT"
             /\ seg.len = 1 => t.rxNext >= 2
             /\ "FIN" \in seg.flags => t.state \notin {"LISTEN", "SYN_SENT", "CLOSED"}
<1> DEFINE u == Acknowledged(s, seg.ack)
           v == IF seg.len > 0 THEN ReceivedData(u, seg) ELSE u
           t == SendPendingData(v)
<1>0. /\ s \in Socket /\ r \in Socket /\ (s.connected \/ Aborted(s))
      /\ seg.ack \in Nat /\ seg.len \in 0 .. 1
      /\ ~Aborted(s) => seg.ack <= r.rxNext
  BY LinkTypes, SegmentFields DEF Sent, Receiving
<1>1. /\ Step(s, u, r) /\ End(u) /\ SameTaken(s, u) /\ SameApp(s, u)
      /\ u.state = s.state /\ u.endPoint /\ u.rxSize = s.rxSize
      /\ u.connected = s.connected
  BY <1>0, AcknowledgedStep
<1>2. ReceivedAck(s, seg) = t
  BY DEF ReceivedAck
<1> HIDE DEF u
<1>3. /\ Link(u, r) /\ u \in Socket /\ Sent(seg, r, u) /\ Receiving(u)
  BY <1>0, <1>1, StillSent DEF Step, Link, Receiving, Open, Later
<1>4. /\ Step(u, v, r) /\ End(v) /\ (v.endPoint \/ v.state = "CLOSE_WAIT")
      /\ seg.len = 1 => v.rxNext >= 2
      /\ "FIN" \in seg.flags => v.state = s.state
  <2>1. CASE seg.len = 1
    <3>1. v = ReceivedData(u, seg)
      BY <2>1
    <3> HIDE DEF v
    <3> QED  BY <1>1, <1>3, <2>1, <3>1, ReceivedDataStep
  <2>2. CASE seg.len = 0
    <3>1. v = u
      BY <2>2
    <3> QED  BY <1>1, <1>3, <2>2, <3>1, StepRefl
  <2> QED  BY <1>0, <2>1, <2>2
<1> HIDE DEF v
<1>5. /\ Link(v, r) /\ v \in Socket /\ (v.connected \/ Aborted(v)) /\ Step(s, v, r)
  BY <1>0, <1>1, <1>3, <1>4, StepTrans DEF Step, Link, Later, Receiving
<1>6. /\ Step(v, t, r) /\ End(t) /\ t.endPoint = v.endPoint /\ SameTaken(v, t)
      /\ t.state = v.state \/ v.endPoint
  BY <1>4, <1>5, PendingStep
<1>7. t.state = v.state \/ t.state = StateAfterFin(v.state)
  <2>1. SendDataPacket(v).state \in {v.state, StateAfterFin(v.state)}
    BY <1>5 DEF SendDataPacket, Socket
  <2> QED  BY <2>1 DEF SendPendingData
<1> HIDE DEF t
<1>8. Step(s, t, r) /\ (t.connected \/ Aborted(t))
  BY <1>0, <1>5, <1>6, StepTrans DEF Step, Later
<1>9. t.endPoint \/ t.state = "CLOSE_WAIT"
  BY <1>4, <1>6
<1>10. seg.len = 1 => t.rxNext >= 2
  BY <1>4, <1>6 DEF SameTaken
<1>11. "FIN" \in seg.flags => t.state \notin {"LISTEN", "SYN_SENT", "CLOSED"}
  <2>1. s.state \notin {"LISTEN", "SYN_SENT", "CLOSED"}
    BY DEF Receiving, Open
  <2> QED  BY <1>4, <1>7, <2>1 DEF StateAfterFin
<1> QED  BY <1>2, <1>6, <1>8, <1>9, <1>10, <1>11

\* TimeWait cancels all timers, and TIME_WAIT needs none.
LEMMA TimeWaitStep ==
  ASSUME NEW s, NEW r, Link(s, r), s.state \in {"CLOSING", "FIN_WAIT_2"}, s.endPoint
  PROVE  LET t == TimeWait(s) IN Step(s, t, r) /\ (End(s) => End(t))
<1> DEFINE t == TimeWait(s)
           u == CancelAllTimers(s)
<1>0. s \in Socket /\ r \in Socket /\ Stated(s) /\ Numbered(s)
  BY LinkTypes
<1>1. /\ u \in Socket /\ SameOffer(s, u) /\ SameTaken(s, u) /\ SameApp(s, u)
      /\ u.endPoint /\ u.retxEvent = NoEvent /\ ~u.sendEvent /\ ~u.lastAckEvent
      /\ u.out = s.out
  <2>1. u \in Socket
    BY <1>0 DEF CancelAllTimers, Socket
  <2> QED  BY <1>0, <2>1 DEF CancelAllTimers, Socket, SameOffer, SameTaken, SameApp
<1>2. t = [u EXCEPT !.state = "TIME_WAIT", !.closeNotified = TRUE, !.timewaitEvent = TRUE]
  BY DEF TimeWait
<1> HIDE DEF u, t
<1>3. /\ t \in Socket /\ SameOffer(u, t) /\ SameTaken(u, t) /\ SameApp(u, t)
      /\ t.endPoint /\ t.retxEvent = NoEvent /\ ~t.sendEvent /\ t.state = "TIME_WAIT"
      /\ t.out = s.out
  <2>1. t \in Socket
    BY <1>1, <1>2 DEF Socket, States
  <2> QED  BY <1>1, <1>2, <2>1 DEF Socket, SameOffer, SameTaken, SameApp
<1>4. SameOffer(s, t) /\ SameTaken(s, t) /\ SameApp(s, t)
  BY <1>1, <1>3 DEF SameOffer, SameTaken, SameApp
<1>5. /\ Aborted(s) => Aborted(t)
      /\ ~s.connected => Aborted(t)
      /\ Final(s) => Final(t)
  BY <1>0, <1>3, <1>4 DEF Aborted, Final, CanWrite, Open, SameOffer, Written, Opening,
                          Numbered, Unconnected
<1>6. Numbered(t)
  BY <1>0, <1>3, <1>4, <1>5, Marks DEF Numbered, Connected, SameOffer, Written
<1>7. Stated(t)
  BY <1>0, <1>3, <1>4, Marks DEF Stated, SameOffer, SameTaken
<1>8. Step(s, t, r)
  BY <1>3, <1>4, <1>5, <1>6, <1>7, Kept
<1>9. End(s) => End(t)
  BY <1>0, <1>3, <1>4, Fields DEF End, Timed, Open, Asked, Settled, SameOffer, SameApp,
                                  Aborted, Opening, Written
<1> QED  BY <1>8, <1>9 DEF t

\* FIN_WAIT_1 is left for CLOSING, or for FIN_WAIT_2 when the FIN has arrived.
LEMMA FinWaitStep ==
  ASSUME NEW s, NEW r, NEW state \in {"CLOSING", "FIN_WAIT_2"}, Link(s, r),
         s.state = "FIN_WAIT_1",
         state = "FIN_WAIT_2" => s.size = 0 /\ (s.connected => Finished(r))
  PROVE  LET t == [s EXCEPT !.state = state]
         IN  /\ Step(s, t, r) /\ (End(s) => End(t)) /\ t.state = state
             /\ SameOffer(s, t) /\ SameTaken(s, t) /\ t.endPoint = s.endPoint
<1> DEFINE t == [s EXCEPT !.state = state]
<1>0. /\ s \in Socket /\ r \in Socket /\ Stated(s) /\ Numbered(s)
      /\ s.head \in Nat /\ s.high \in Nat
  BY LinkTypes, Fields
<1>1. /\ t \in Socket /\ SameOffer(s, t) /\ SameTaken(s, t) /\ SameApp(s, t)
      /\ SameEvents(s, t) /\ t.retxEvent = s.retxEvent /\ t.endPoint = s.endPoint
      /\ t.state = state /\ t.out = s.out
  BY <1>0 DEF Socket, States, SameOffer, SameTaken, SameApp, SameEvents
<1> HIDE DEF t
<1>2. /\ Aborted(s) => Aborted(t)
      /\ ~s.connected => Aborted(t)
      /\ Final(s) => Final(t)
      /\ s.connected => Final(s)
  BY <1>0, <1>1 DEF Aborted, Final, CanWrite, Open, SameOffer, Written, Opening,
                    Numbered, Unconnected, Connected
<1>3. Numbered(t)
  BY <1>0, <1>1, <1>2 DEF Numbered, Connected, SameOffer, SameEvents, Written
<1>4. Stated(t)
  <2>1. state = "FIN_WAIT_2" => s.head >= s.high /\ s.size = 0
    BY <1>0 DEF Numbered
  <2> QED  BY <1>0, <1>1, <2>1 DEF Stated, SameOffer, SameTaken, SameEvents
<1>5. Step(s, t, r)
  BY <1>1, <1>2, <1>3, <1>4, Kept
<1>6. End(s) => End(t)
  BY <1>0, <1>1, Fields DEF End, Timed, Open, Asked, Settled, SameOffer, SameApp,
                            Aborted, Opening, Written
<1> QED  BY <1>1, <1>5, <1>6 DEF t

\* An acknowledgment above m_highTxMark is that of the FIN.
LEMMA FinAcknowledged ==
  ASSUME NEW s, NEW r, NEW seg, Link(s, r), Sent(seg, r, s), "RST" \notin seg.flags,
         AcksFin(s, seg), s.connected
  PROVE  Finished(r)
<1>1. s \in Socket /\ r \in Socket /\ s.high \in Nat /\ r.rxNext \in Nat /\ seg.ack \in Nat
  BY LinkTypes, SegmentFields, Fields DEF Sent
<1>2. seg.ack <= r.rxNext /\ seg.ack = s.high + 1
  BY DEF Sent, Aborted, AcksFin
<1> QED  BY <1>1, <1>2 DEF Link, Heard

\* ProcessWait on an ACK, in FIN_WAIT_1, FIN_WAIT_2 and CLOSE_WAIT,
LEMMA WaitAckStep ==
  ASSUME NEW s, NEW r, NEW seg, Link(s, r), Sent(seg, r, s), "RST" \notin seg.flags,
         Receiving(s), End(s), s.endPoint
  PROVE  LET t == WaitAck(s, seg)
         IN  /\ Step(s, t, r) /\ End(t) /\ (t.connected \/ Aborted(t))
             /\ t.endPoint \/ t.state = "CLOSE_WAIT"
<1> DEFINE u == ReceivedAck(s, seg)
           v == [u EXCEPT !.state = "FIN_WAIT_2"]
           t == WaitAck(s, seg)
<1>0. s \in Socket /\ r \in Socket
  BY LinkTypes
<1>1. /\ Step(s, u, r) /\ End(u) /\ (u.connected \/ Aborted(u))
      /\ u.endPoint \/ u.state = "CLOSE_WAIT"
  BY ReceivedAckStep
<1>2. t = IF u.state = "FIN_WAIT_1" /\ AcksFin(u, seg) THEN v ELSE u
  BY DEF WaitAck
<1> HIDE DEF u
<1>3. Link(u, r) /\ u \in Socket /\ Sent(seg, r, u)
  BY <1>0, <1>1, StillSent DEF Step, Link
<1>4. CASE u.state = "FIN_WAIT_1" /\ AcksFin(u, seg)
  <2>1. u.size = 0 /\ (u.connected => Finished(r))
    BY <1>3, <1>4, FinAcknowledged DEF AcksFin
  <2>2. /\ Step(u, v, r) /\ (End(u) => End(v)) /\ v.state = "FIN_WAIT_2"
        /\ SameOffer(u, v) /\ v.endPoint = u.endPoint
    BY <1>3, <1>4, <2>1, FinWaitStep
  <2>3. t = v
    BY <1>2, <1>4
  <2> HIDE DEF v, t
  <2>4. Step(s, v, r)
    BY <1>0, <1>1, <2>2, StepTrans
  <2>5. v.connected \/ Aborted(v)
    BY <1>1, <2>2 DEF Step, Later
  <2> QED  BY <1>1, <1>4, <2>2, <2>3, <2>4, <2>5 DEF t
<1>5. CASE ~(u.state = "FIN_WAIT_1" /\ AcksFin(u, seg))
  <2>1. t = u
    BY <1>2, <1>5
  <2> QED  BY <1>1, <2>1
<1> QED  BY <1>4, <1>5

\* on a FIN, which may come before data it follows,
LEMMA WaitFinStep ==
  ASSUME NEW s, NEW r, NEW seg, Link(s, r), Sent(seg, r, s), seg.flags = FinAck,
         Receiving(s), End(s), s.endPoint
  PROVE  LET t == WaitFin(s, seg)
         IN  /\ Step(s, t, r) /\ End(t) /\ (t.connected \/ Aborted(t))
             /\ t.endPoint \/ t.state = "CLOSE_WAIT"
<1> DEFINE u == ReceivedAck(s, seg)
           t == SetFinSequence(u, seg.seq)
<1>0. s \in Socket /\ r \in Socket /\ "RST" \notin seg.flags /\ "FIN" \in seg.flags
  BY LinkTypes, FlagsOf
<1>1. /\ Step(s, u, r) /\ End(u) /\ (u.connected \/ Aborted(u))
      /\ u.endPoint \/ u.state = "CLOSE_WAIT"
      /\ seg.len = 1 => u.rxNext >= 2
      /\ u.state \notin {"LISTEN", "SYN_SENT", "CLOSED"}
  BY <1>0, ReceivedAckStep
<1>2. WaitFin(s, seg) = t
  BY DEF WaitFin
<1> HIDE DEF u
<1>3. Link(u, r) /\ u \in Socket /\ Sent(seg, r, u)
  BY <1>0, <1>1, StillSent DEF Step, Link
<1>4. /\ Step(u, t, r) /\ (End(u) => End(t)) /\ SameOffer(u, t)
      /\ t.state = u.state /\ t.endPoint = u.endPoint
  BY <1>0, <1>1, <1>3, SetFinStep
<1> HIDE DEF t
<1>5. Step(s, t, r) /\ (t.connected \/ Aborted(t))
  BY <1>0, <1>1, <1>4, StepTrans DEF Step, Later
<1> QED  BY <1>1, <1>2, <1>4, <1>5

\* and its end, which closes when the FIN of the peer is in sequence.
LEMMA BothClosedStep ==
  ASSUME NEW s, NEW r, NEW seg, Link(s, r), End(s), s.endPoint \/ s.state = "CLOSE_WAIT"
  PROVE  LET t == BothClosed(s, seg) IN Step(s, t, r) /\ End(t)
<1> DEFINE t == BothClosed(s, seg)
<1>0. s \in Socket /\ r \in Socket
  BY LinkTypes
<1>1. CASE s.state = "FIN_WAIT_1" /\ Finished(s)
  <2> DEFINE u == [s EXCEPT !.state = "CLOSING"]
             v == IF AcksFin(u, seg) THEN TimeWait(u) ELSE u
  <2>1. t = SendEmptyPacket(v, ACK)
    BY <1>1 DEF BothClosed
  <2>2. Step(s, u, r) /\ End(u) /\ u.state = "CLOSING" /\ u.endPoint
    BY <1>1, FinWaitStep
  <2> HIDE DEF u, t
  <2>3. Link(u, r)
    BY <2>2 DEF Step
  <2>4. Step(u, v, r) /\ End(v)
    BY <2>2, <2>3, TimeWaitStep, StepRefl
  <2> HIDE DEF v
  <2>5. Step(v, t, r) /\ End(t)
    BY <2>1, <2>4, AckStep DEF Step
  <2>6. Step(s, t, r)
    BY <1>0, <2>2, <2>3, <2>4, <2>5, StepTrans, LinkTypes
  <2> QED  BY <2>5, <2>6 DEF t
<1>2. CASE s.state = "FIN_WAIT_2" /\ Finished(s)
  <2> DEFINE v == TimeWait(s)
  <2>1. t = SendEmptyPacket(v, ACK)
    BY <1>2 DEF BothClosed
  <2>2. Step(s, v, r) /\ End(v)
    BY <1>2, TimeWaitStep
  <2> HIDE DEF v, t
  <2>3. Step(v, t, r) /\ End(t)
    BY <2>1, <2>2, AckStep DEF Step
  <2>4. Step(s, t, r)
    BY <1>0, <2>2, <2>3, StepTrans
  <2> QED  BY <2>3, <2>4 DEF t
<1>3. CASE ~(s.state = "FIN_WAIT_1" /\ Finished(s)) /\ ~(s.state = "FIN_WAIT_2" /\ Finished(s))
  <2>1. t = s
    BY <1>3 DEF BothClosed
  <2> QED  BY <2>1, StepRefl
<1> QED  BY <1>1, <1>2, <1>3

\* PeerClose, for a socket that has sent no FIN.
LEMMA PeerCloseSegmentStep ==
  ASSUME NEW s, NEW r, NEW seg, Link(s, r), Sent(seg, r, s), seg.flags = FinAck,
         s.connected \/ Aborted(s), Open(s), Timed(s), Asked(s), s.endPoint,
         Settled(s) \/ seg.seq = s.rxNext
  PROVE  LET t == PeerClose(s, seg) IN Step(s, t, r) /\ End(t)
<1> DEFINE q == seg.seq + seg.len
           v == SetFinSequence(s, q)
           u == IF seg.len > 0 THEN ReceivedData(v, seg) ELSE v
           t == PeerClose(s, seg)
<1>0. /\ s \in Socket /\ r \in Socket /\ "RST" \notin seg.flags /\ "FIN" \in seg.flags
      /\ seg.seq \in Nat /\ seg.len \in 0 .. 1 /\ s.rxNext \in Nat
  BY LinkTypes, FlagsOf, SegmentFields, Fields DEF Sent
<1>1. s.state \notin {"LISTEN", "SYN_SENT", "CLOSED"}
  BY DEF Open
<1> HIDE DEF q
<1>15. q = seg.seq + seg.len
  BY DEF q
<1>2. /\ Step(s, v, r) /\ (Timed(s) => Timed(v)) /\ (Asked(s) => Asked(v))
      /\ SameOffer(s, v) /\ SameApp(s, v) /\ v.state = s.state /\ v.endPoint
      /\ v.gotFin /\ v.finSeq = q /\ v.rxNext = IF s.rxNext = q THEN q + 1 ELSE s.rxNext
  BY <1>0, <1>1, <1>15, SetFinStep
<1>3. CASE seg.seq < s.rxNext
  <2>1. t = s
    BY <1>0, <1>3 DEF PeerClose
  <2>2. Settled(s)
    BY <1>0, <1>3
  <2> QED  BY <2>1, <2>2, StepRefl DEF End
<1>4. CASE seg.seq >= s.rxNext
  <2>1. t = CASE ~Finished(u) -> u
              [] Finished(u) /\ u.state = "FIN_WAIT_1" -> [u EXCEPT !.state = "CLOSING"]
              [] Finished(u) /\ u.state # "FIN_WAIT_1" -> DoPeerClose(u)
    BY <1>0, <1>4 DEF PeerClose, q
  <2> HIDE DEF v
  <2>2. /\ Link(v, r) /\ v \in Socket /\ Sent(seg, r, v) /\ Open(v)
        /\ v.connected \/ Aborted(v)
    BY <1>0, <1>2, StillSent DEF Step, Link, Later, Open, SameOffer
  <2>3. /\ Step(v, u, r) /\ Timed(u) /\ Asked(u)
        /\ SameOffer(v, u) /\ u.state = v.state /\ u.endPoint
        /\ seg.seq = s.rxNext => Finished(u)
    <3>1. CASE seg.len = 1
      <4>1. u = ReceivedData(v, seg) /\ Receiving(v)
        BY <2>2, <3>1 DEF Receiving
      <4> HIDE DEF u
      <4>2. seg.seq = s.rxNext => v.rxNext = s.rxNext /\ v.finSeq = v.rxNext + 1
        BY <1>0, <1>2, <3>1 DEF q
      <4> QED  BY <1>0, <1>2, <2>2, <3>1, <4>1, <4>2, ReceivedDataStep
    <3>2. CASE seg.len = 0
      <4>1. u = v
        BY <3>2
      <4>2. seg.seq = s.rxNext => v.rxNext = q + 1 /\ q \in Nat
        BY <1>0, <1>2, <3>2 DEF q
      <4>3. seg.seq = s.rxNext => Finished(v)
        BY <1>2, <4>2 DEF Finished
      <4> QED  BY <1>2, <2>2, <4>1, <4>3, StepRefl DEF SameOffer
    <3> QED  BY <1>0, <3>1, <3>2
  <2> HIDE DEF u
  <2>4. /\ Link(u, r) /\ Open(u) /\ Receiving(u) /\ Step(s, u, r)
        /\ u.state # "FIN_WAIT_1"
    BY <1>0, <1>2, <2>2, <2>3, StepTrans DEF Step, Later, Receiving, Open, SameOffer
  <2>5. CASE ~Finished(u)
    <3>1. t = u
      BY <2>1, <2>5
    <3>2. Settled(u)
      BY <1>2, <2>3, <2>5 DEF Settled, SameOffer
    <3> QED  BY <2>3, <2>4, <3>1, <3>2 DEF End
  <2>6. CASE Finished(u)
    <3>1. t = DoPeerClose(u)
      BY <2>1, <2>4, <2>6
    <3> HIDE DEF t
    <3>2. Step(u, t, r) /\ Asked(t) /\ Settled(t) /\ (Timed(u) => Timed(t))
      BY <2>3, <2>4, <3>1, PeerCloseStep
    <3>3. Step(s, t, r)
      BY <1>0, <2>4, <3>2, StepTrans
    <3> QED  BY <2>3, <3>2, <3>3 DEF End, t
  <2> QED  BY <2>5, <2>6
<1> QED  BY <1>0, <1>3, <1>4

-----------------------------------------------------------------------------
(***************************************************************************)
(* The handshake                                                           *)
(***************************************************************************)
\* A SYN arrives.
LEMMA HeardSynStep ==
  ASSUME NEW s, NEW r, NEW seg, NEW t, Link(s, r), Sent(seg, r, s), "SYN" \in seg.flags,
         s.state \in Opening, ~s.connected, t \in Socket, SameOffer(s, t), SameApp(s, t),
         SameTimers(s, t), t.state = "SYN_RCVD", t.endPoint = s.endPoint,
         t.rxNext = seg.seq + 1, t.gotFin = s.gotFin, t.finSeq = s.finSeq, t.got = s.got,
         t.out = s.out
  PROVE  /\ Step(s, t, r) /\ (Asked(s) => Asked(t)) /\ Settled(t) /\ ~t.connected
         /\ s.state # "LISTEN" /\ Timed(s) => Timed(t)
<1>0. /\ s \in Socket /\ r \in Socket /\ Stated(s) /\ Numbered(s) /\ Numbered(r)
      /\ seg.seq \in Nat /\ s.rxNext \in Nat /\ ~Aborted(s) /\ ~Aborted(t)
      /\ ~s.gotFin
  BY LinkTypes, SegmentFields, Fields DEF Sent, Aborted, Opening, Stated
<1>1. Heard(s, r) /\ Heard(r, s)
  BY DEF Link
<1>2. ~Aborted(r) => seg.seq = 0
  BY DEF Sent
<1>3. ~Aborted(r) => s.rxNext <= 1
  BY <1>0, <1>1 DEF Heard, Stated, Opening
<1>4. Numbered(t)
  BY <1>0 DEF Numbered, Unconnected, SameOffer, SameTimers, Written, Opening
<1>5. Stated(t)
  BY <1>0, Marks DEF Stated, SameOffer, SameTimers, Numbered, Unconnected
<1>6. Later(s, t, r)
  BY <1>0, <1>2, <1>3, Fields DEF Later, SameOffer, Written
<1>7. Heard(t, r)
  <2>1. CASE Aborted(r)
    BY <2>1 DEF Heard, Aborted
  <2>2. CASE ~Aborted(r)
    <3>1. t.rxNext = 1
      BY <1>2, <2>2
    <3>2. ASSUME r.connected PROVE s.rxNext = 1
      BY <1>0, <1>1, <1>3, <2>2, <3>2 DEF Heard
    <3> QED  BY <1>0, <1>1, <2>2, <3>1, <3>2 DEF Heard, Finished
  <2> QED  BY <2>1, <2>2
<1>8. Heard(r, t)
  BY <1>0, <1>1 DEF Heard, SameOffer, Finished
<1>9. \A x \in t.out : Sent(x, t, r)
  BY <1>0, <1>6, StillSent DEF Link
<1>10. Step(s, t, r)
  BY <1>0, <1>4, <1>5, <1>6, <1>7, <1>8, <1>9 DEF Step, Link
<1>11. (Asked(s) => Asked(t)) /\ Settled(t) /\ ~t.connected
  BY <1>0 DEF Asked, Settled, SameApp, SameOffer
<1>12. s.state # "LISTEN" /\ Timed(s) => Timed(t)
  BY DEF Timed, Open, SameOffer, SameTimers, Opening
<1> QED  BY <1>10, <1>11, <1>12

\* What Establish does, in the state ESTABLISHED or, on a FIN, not yet.
Establishes(s, t) ==
    /\ t \in Socket /\ SameApp(s, t) /\ SameEvents(s, t) /\ t.endPoint = s.endPoint
    /\ t.connected /\ t.written = s.written /\ t.size = s.size
    /\ t.head = s.next + 1 /\ t.next = s.next + 1 /\ t.high = s.next + 1
    /\ t.retxEvent = NoEvent /\ t.state \in {"ESTABLISHED", "SYN_RCVD"}
    /\ t.out = s.out

\* What Establish changes, for the two handlers that call it.
LEMMA EstablishFields ==
  ASSUME NEW s \in Socket
  PROVE  LET t == Establish(s)
         IN  /\ Establishes(s, t) /\ SameTaken(s, t) /\ t.state = "ESTABLISHED"
             /\ t.rxSize = s.rxSize
<1> DEFINE t == Establish(s)
           n == s.next + 1
           u == [s EXCEPT !.state = "ESTABLISHED", !.connected = TRUE,
                          !.retxEvent = NoEvent]
           v == [u EXCEPT !.next = n]
           w == [v EXCEPT !.high = n]
<1>1. t = [s EXCEPT !.state = "ESTABLISHED", !.connected = TRUE, !.retxEvent = NoEvent,
                    !.next = n, !.high = n, !.head = n]
  BY DEF Establish, Socket
<1>2. n \in Nat
  BY Fields
<1> HIDE DEF t, n
<1>3. t = [w EXCEPT !.head = n]
  BY <1>1
<1>4. u \in Socket
  BY DEF Socket, States
<1> HIDE DEF u
<1>5. v \in Socket
  BY <1>2, <1>4 DEF Socket, Seqs
<1> HIDE DEF v
<1>6. w \in Socket
  BY <1>2, <1>5 DEF Socket, Seqs
<1> HIDE DEF w
<1>7. t \in Socket
  BY <1>2, <1>3, <1>6 DEF Socket, Seqs
<1>8. SameApp(s, t) /\ SameEvents(s, t) /\ SameTaken(s, t)
  BY <1>1 DEF Socket, SameApp, SameEvents, SameTaken
<1>9. /\ t.endPoint = s.endPoint /\ t.connected /\ t.written = s.written
      /\ t.size = s.size /\ t.head = n /\ t.next = n /\ t.high = n
      /\ t.retxEvent = NoEvent /\ t.state = "ESTABLISHED" /\ t.out = s.out
      /\ t.rxSize = s.rxSize
  BY <1>1 DEF Socket
<1> QED  BY <1>7, <1>8, <1>9 DEF Establishes, t, n

\* The three-way handshake is done: the SYN has been acknowledged.
LEMMA EstablishStep ==
  ASSUME NEW s, NEW r, NEW t, Link(s, r), s.state = "SYN_RCVD", ~s.connected, s.endPoint,
         Establishes(s, t), SameTaken(s, t), r.rxNext >= 1
  PROVE  /\ Step(s, t, r) /\ Timed(t) /\ (Asked(s) => Asked(t)) /\ t.connected
         /\ t.state = "ESTABLISHED" => Settled(t)
<1>0. /\ s \in Socket /\ r \in Socket /\ Stated(s) /\ Numbered(s) /\ Numbered(r)
      /\ ~Aborted(s) /\ r.rxNext \in Nat /\ s.rxNext >= 1
  BY LinkTypes, Fields DEF Aborted, Opening, Stated
<1>1. Heard(s, r) /\ Heard(r, s) /\ Unconnected(s)
  BY <1>0 DEF Link, Numbered
<1>2. /\ t \in Socket /\ SameApp(s, t) /\ SameEvents(s, t) /\ t.endPoint = s.endPoint
      /\ t.connected /\ t.written = s.written /\ t.size = s.size
      /\ t.head = 1 /\ t.next = 1 /\ t.high = 1
      /\ t.retxEvent = NoEvent /\ t.state \in {"ESTABLISHED", "SYN_RCVD"}
      /\ t.out = s.out /\ ~Aborted(t)
  BY <1>1 DEF Establishes, Unconnected, Aborted
<1>3. s.size \in 0 .. 1 /\ (Written(s) => s.size = 1)
  BY <1>0, <1>1, Fields DEF Unconnected, Opening
<1>4. Numbered(t)
  BY <1>0, <1>2, <1>3, Marks DEF Numbered, Connected, Written
<1>5. Stated(t)
  BY <1>0, <1>2, Marks DEF Stated, SameTaken, SameEvents
<1>6. Later(s, t, r)
  BY <1>0, <1>2, Fields DEF Later, SameTaken, Written
<1>7. Heard(t, r)
  BY <1>1, <1>2 DEF Heard, SameTaken, Finished
<1>8. Heard(r, t)
  BY <1>0, <1>1, <1>2 DEF Heard
<1>9. \A x \in t.out : Sent(x, t, r)
  BY <1>0, <1>2, <1>6, StillSent DEF Link
<1>10. Step(s, t, r)
  BY <1>0, <1>2, <1>4, <1>5, <1>6, <1>7, <1>8, <1>9 DEF Step, Link
<1>11. Timed(t)
  BY <1>2 DEF Timed, Open
<1>12. Asked(s) => Asked(t)
  BY <1>2 DEF Asked, SameApp
<1>13. t.state = "ESTABLISHED" => Settled(t)
  BY DEF Settled, Opening
<1> QED  BY <1>2, <1>10, <1>11, <1>12, <1>13

\* A SYN is answered with a SYN+ACK.
LEMMA HeardSynAnswer ==
  ASSUME NEW s, NEW r, NEW seg, NEW w, Link(s, r), Sent(seg, r, s), "SYN" \in seg.flags,
         s.state \in Opening, ~s.connected, Asked(s),
         w \in Socket, SameOffer(s, w), SameApp(s, w),
         SameTimers(s, w), w.state = "SYN_RCVD", w.endPoint = s.endPoint,
         w.rxNext = seg.seq + 1, w.gotFin = s.gotFin, w.finSeq = s.finSeq, w.got = s.got,
         w.out = s.out
  PROVE  LET t == SendEmptyPacket(w, SynAck) IN Step(s, t, r) /\ End(t)
<1> DEFINE t == SendEmptyPacket(w, SynAck)
<1>1. Step(s, w, r) /\ Asked(w) /\ Settled(w) /\ ~w.connected
  BY HeardSynStep
<1>2. Link(w, r) /\ w.state \in Opening
  BY <1>1 DEF Step, Opening
<1>3. Step(w, t, r) /\ Asked(t) /\ Settled(t) /\ Timed(t)
  BY <1>1, <1>2, SynStep
<1> HIDE DEF t
<1>4. Step(s, t, r)
  BY <1>1, <1>3, LinkTypes, StepTrans
<1> QED  BY <1>3, <1>4 DEF End, t

\* ProcessListen, with the fork that takes the place of the listener.
LEMMA ListenStep ==
  ASSUME NEW s, NEW r, NEW seg, Link(s, r), Sent(seg, r, s), s.state = "LISTEN", End(s)
  PROVE  LET t == ProcessListen(s, seg) IN Step(s, t, r) /\ End(t)
<1>1. CASE seg.flags # SYN
  <2>1. ProcessListen(s, seg) = s
    BY <1>1 DEF ProcessListen
  <2> QED  BY <2>1, StepRefl
<1>2. CASE seg.flags = SYN
  <2> DEFINE w == [s EXCEPT !.state = "SYN_RCVD", !.listener = TRUE,
                            !.synCount = SynRetries, !.dataRetrCount = DataRetries,
                            !.rxNext = seg.seq + 1]
             u == [s EXCEPT !.state = "SYN_RCVD", !.listener = TRUE]
             v == [u EXCEPT !.synCount = SynRetries]
             x == [v EXCEPT !.dataRetrCount = DataRetries]
  <2>0. s \in Socket /\ Stated(s) /\ seg.seq \in Nat
    BY LinkTypes, SegmentFields DEF Sent
  <2>1. SynRetries \in 0 .. SynRetries /\ DataRetries \in 0 .. DataRetries
    BY RetriesAssumption
  <2>2. w = [x EXCEPT !.rxNext = seg.seq + 1]
    OBVIOUS
  <2>3. /\ SameOffer(s, w) /\ SameApp(s, w) /\ SameTimers(s, w)
        /\ w.state = "SYN_RCVD" /\ w.endPoint = s.endPoint
        /\ w.rxNext = seg.seq + 1 /\ w.gotFin = s.gotFin /\ w.finSeq = s.finSeq
        /\ w.got = s.got /\ w.out = s.out
    BY <2>0 DEF Socket, SameOffer, SameApp, SameTimers
  <2>4. ProcessListen(s, seg) = SendEmptyPacket(w, SynAck)
    BY <1>2 DEF ProcessListen
  <2> HIDE DEF w
  <2>5. u \in Socket
    BY <2>0 DEF Socket, States
  <2> HIDE DEF u
  <2>6. v \in Socket
    BY <2>1, <2>5 DEF Socket
  <2> HIDE DEF v
  <2>7. x \in Socket
    BY <2>1, <2>6 DEF Socket
  <2> HIDE DEF x
  <2>8. w \in Socket
    <3>1. seg.seq + 1 \in Nat
      BY <2>0
    <3> QED  BY <2>2, <2>7, <3>1 DEF Socket, Seqs
  <2>9. s.state \in Opening /\ ~s.connected /\ Asked(s) /\ "SYN" \in seg.flags
    BY <1>2, <2>0, FlagsOf DEF Opening, Stated, End
  <2> QED  BY <2>3, <2>4, <2>8, <2>9, HeardSynAnswer
<1> QED  BY <1>1, <1>2

\* The SYN of the peer, in the states SYN_SENT and SYN_RCVD.
LEMMA HeardSynFields ==
  ASSUME NEW s \in Socket, NEW q \in Nat
  PROVE  LET t == [s EXCEPT !.state = "SYN_RCVD", !.rxNext = q]
         IN  /\ t \in Socket /\ SameOffer(s, t) /\ SameApp(s, t)
             /\ SameTimers(s, t) /\ t.state = "SYN_RCVD" /\ t.endPoint = s.endPoint
             /\ t.rxNext = q /\ t.gotFin = s.gotFin /\ t.finSeq = s.finSeq /\ t.got = s.got
             /\ t.out = s.out
<1> DEFINE t == [s EXCEPT !.state = "SYN_RCVD", !.rxNext = q]
<1>1. t \in Socket
  BY DEF Socket, States, Seqs
<1> QED  BY <1>1 DEF Socket, SameOffer, SameApp, SameTimers

\* ProcessSynSent: SYN, SYN+ACK or anything else.
LEMMA SynSentStep ==
  ASSUME NEW s, NEW r, NEW seg, Link(s, r), Sent(seg, r, s), s.state = "SYN_SENT", End(s),
         s.endPoint
  PROVE  LET t == ProcessSynSent(s, seg) IN Step(s, t, r) /\ End(t)
<1> DEFINE t == ProcessSynSent(s, seg)
           q == seg.seq + 1
<1>0. /\ s \in Socket /\ r \in Socket /\ Stated(s) /\ Numbered(s) /\ ~s.connected
      /\ s.state \in Opening /\ ~Aborted(s) /\ Asked(s) /\ q \in Nat
  BY LinkTypes, SegmentFields DEF Sent, Stated, Opening, Aborted, End
<1>1. CASE "ACK" \in seg.flags /\ "SYN" \notin seg.flags
  <2>1. t = s
    BY <1>1, FlagsOf DEF ProcessSynSent
  <2> QED  BY <2>1, StepRefl
<1>2. CASE "SYN" \in seg.flags /\ "ACK" \notin seg.flags
  <2> DEFINE v == [s EXCEPT !.state = "SYN_RCVD", !.synCount = SynRetries,
                            !.rxNext = q]
             u == [s EXCEPT !.synCount = SynRetries]
  <2>1. t = SendEmptyPacket(v, SynAck)
    BY <1>2 DEF ProcessSynSent, SynAck
  <2>2. u \in Socket
    BY <1>0, RetriesAssumption DEF Socket
  <2>3. v = [u EXCEPT !.state = "SYN_RCVD", !.rxNext = q]
    BY <1>0 DEF Socket
  <2>4. /\ SameOffer(s, v) /\ SameApp(s, v) /\ SameTimers(s, v)
        /\ v.state = "SYN_RCVD" /\ v.endPoint = s.endPoint
        /\ v.rxNext = q /\ v.gotFin = s.gotFin /\ v.finSeq = s.finSeq
        /\ v.got = s.got /\ v.out = s.out
    BY <1>0 DEF Socket, SameOffer, SameApp, SameTimers
  <2> HIDE DEF u
  <2>5. v \in Socket
    BY <1>0, <2>2, <2>3, HeardSynFields
  <2> HIDE DEF v
  <2> QED  BY <1>0, <1>2, <2>1, <2>4, <2>5, HeardSynAnswer
<1>3. CASE SynAck \subseteq seg.flags /\ seg.ack = s.next + 1
  <2> DEFINE w == [s EXCEPT !.state = "SYN_RCVD", !.rxNext = q]
             u == Establish(s)
             v == [u EXCEPT !.rxNext = q]
             x == SendEmptyPacket(v, ACK)
  <2>1. "SYN" \in seg.flags /\ "ACK" \in seg.flags
    BY <1>3, FlagsOf
  <2>2. t = SendPendingData(x)
    BY <1>3, <2>1 DEF ProcessSynSent
  <2>3. /\ w \in Socket /\ SameOffer(s, w) /\ SameApp(s, w)
        /\ SameTimers(s, w) /\ w.state = "SYN_RCVD" /\ w.endPoint = s.endPoint
        /\ w.rxNext = q /\ w.gotFin = s.gotFin /\ w.finSeq = s.finSeq /\ w.got = s.got
        /\ w.out = s.out
    BY <1>0, HeardSynFields
  <2> HIDE DEF w, t
  <2>4. Step(s, w, r) /\ Asked(w) /\ ~w.connected
    BY <1>0, <2>1, <2>3, HeardSynStep
  <2>5. Establishes(s, u) /\ SameTaken(s, u) /\ u.state = "ESTABLISHED"
    BY <1>0, EstablishFields
  <2> HIDE DEF u
  <2>6. Establishes(w, v) /\ SameTaken(w, v) /\ v.state = "ESTABLISHED"
    <3>1. u \in Socket
      BY <2>5 DEF Establishes
    <3>2. v \in Socket
      BY <1>0, <3>1 DEF Socket, Seqs
    <3>3. SameApp(u, v) /\ SameEvents(u, v) /\ v.rxNext = q /\ v.gotFin = u.gotFin
          /\ v.finSeq = u.finSeq /\ v.got = u.got
      BY <3>1 DEF Socket, SameApp, SameEvents
    <3>4. /\ v.endPoint = u.endPoint /\ v.connected = u.connected /\ v.written = u.written
          /\ v.size = u.size /\ v.head = u.head /\ v.next = u.next /\ v.high = u.high
          /\ v.retxEvent = u.retxEvent /\ v.state = u.state /\ v.out = u.out
      BY <3>1 DEF Socket
    <3> HIDE DEF v
    <3> QED  BY <2>3, <2>5, <3>2, <3>3, <3>4
             DEF Establishes, SameTaken, SameApp, SameEvents, SameOffer, SameTimers
  <2> HIDE DEF v
  <2>7. r.rxNext >= 1
    <3>1. seg.ack <= r.rxNext
      BY <1>0, <2>1 DEF Sent
    <3>2. s.next = 0 /\ r.rxNext \in Nat
      BY <1>0, Fields DEF Numbered, Unconnected
    <3> QED  BY <1>3, <3>1, <3>2
  <2>8. Step(w, v, r) /\ End(v) /\ v.connected
    <3>1. Link(w, r) /\ w.endPoint
      BY <2>3, <2>4 DEF Step
    <3> QED  BY <2>3, <2>4, <2>6, <2>7, <3>1, EstablishStep DEF End
  <2>9. Step(v, x, r) /\ End(x) /\ x.connected
    BY <2>8, AckStep DEF Step, SameOffer
  <2> HIDE DEF x
  <2>10. Step(x, t, r) /\ End(t)
    BY <2>2, <2>9, PendingStep DEF Step
  <2>11. Step(s, t, r)
    <3>1. w \in Socket /\ v \in Socket /\ x \in Socket
      BY <2>3, <2>8, <2>9 DEF Step, Link
    <3>2. Step(s, v, r)
      BY <1>0, <2>4, <2>8, StepTrans
    <3>3. Step(s, x, r)
      BY <1>0, <2>9, <3>2, StepTrans
    <3> QED  BY <1>0, <2>10, <3>3, StepTrans
  <2> QED  BY <2>10, <2>11 DEF t
<1>4. CASE /\ "ACK" \in seg.flags => "SYN" \in seg.flags
           /\ "SYN" \in seg.flags => "ACK" \in seg.flags
           /\ ~(SynAck \subseteq seg.flags /\ seg.ack = s.next + 1)
  <2>1. t = Terminate(s, seg)
    BY <1>4 DEF ProcessSynSent
  <2> QED  BY <2>1, TerminateStep
<1> QED  BY <1>1, <1>2, <1>3, <1>4

\* ProcessSynRcvd, which takes an ACK, a SYN again or a FIN for the answer.
LEMMA SynRcvdStep ==
  ASSUME NEW s, NEW r, NEW seg, Link(s, r), Sent(seg, r, s), s.state = "SYN_RCVD", End(s),
         s.endPoint
  PROVE  LET t == ProcessSynRcvd(s, seg) IN Step(s, t, r) /\ End(t)
<1> DEFINE t == ProcessSynRcvd(s, seg)
           e == Establish(s)
<1>0. /\ s \in Socket /\ r \in Socket /\ Stated(s) /\ Numbered(s) /\ ~s.connected
      /\ s.state \in Opening /\ ~Aborted(s) /\ Asked(s) /\ seg.seq + 1 \in Nat
      /\ s.next = 0 /\ r.rxNext \in Nat /\ seg \in Segment
  <2>1. s.state \in Opening /\ ~s.connected
    BY DEF Opening, End, Settled
  <2>2. ~Aborted(s)
    BY <2>1 DEF Aborted
  <2> QED  BY <2>1, <2>2, LinkTypes, SegmentFields, Fields DEF Sent, End, Numbered, Unconnected
<1>1. Establishes(s, e) /\ SameTaken(s, e) /\ e.state = "ESTABLISHED"
  BY <1>0, EstablishFields
<1>2. CASE seg.flags = ACK /\ seg.ack = s.next + 1
  <2>1. t = ReceivedAck(e, seg)
    BY <1>2, Marks DEF ProcessSynRcvd
  <2>2. "RST" \notin seg.flags
    BY <1>2, FlagsOf
  <2>3. r.rxNext >= 1
    BY <1>0, <1>2, <2>2 DEF Sent
  <2> HIDE DEF e
  <2>4. Step(s, e, r) /\ End(e) /\ e.connected
    BY <1>0, <1>1, <2>3, EstablishStep DEF End
  <2>5. Link(e, r) /\ e \in Socket /\ Receiving(e) /\ e.endPoint
    BY <1>1, <2>4 DEF Step, Establishes, Receiving, Open
  <2>6. Sent(seg, r, e)
    BY <1>0, <2>4, <2>5, StillSent DEF Step
  <2> HIDE DEF t
  <2>7. Step(e, t, r) /\ End(t)
    BY <2>1, <2>2, <2>4, <2>5, <2>6, ReceivedAckStep
  <2>8. Step(s, t, r)
    BY <1>0, <2>4, <2>7, StepTrans
  <2> QED  BY <2>7, <2>8 DEF t
<1>3. CASE seg.flags = SYN
  <2> DEFINE v == [s EXCEPT !.rxNext = seg.seq + 1]
             w == [s EXCEPT !.state = "SYN_RCVD", !.rxNext = seg.seq + 1]
  <2>1. t = SendEmptyPacket(v, SynAck)
    BY <1>3, Marks DEF ProcessSynRcvd
  <2>2. v = w
    BY <1>0 DEF Socket
  <2>3. "SYN" \in seg.flags
    BY <1>3, FlagsOf
  <2> HIDE DEF v, w
  <2>4. /\ w \in Socket /\ SameOffer(s, w) /\ SameApp(s, w)
        /\ SameTimers(s, w) /\ w.state = "SYN_RCVD" /\ w.endPoint = s.endPoint
        /\ w.rxNext = seg.seq + 1 /\ w.gotFin = s.gotFin /\ w.finSeq = s.finSeq
        /\ w.got = s.got /\ w.out = s.out
    BY <1>0, HeardSynFields DEF w
  <2> QED  BY <1>0, <2>1, <2>2, <2>3, <2>4, HeardSynAnswer
<1>4. CASE seg.flags = FinAck /\ seg.seq = s.rxNext
  <2> DEFINE w == [e EXCEPT !.state = "SYN_RCVD"]
  <2>1. t = PeerClose(w, seg)
    BY <1>4, Marks DEF ProcessSynRcvd
  <2>2. r.rxNext >= 1
    BY <1>4, FlagsOf DEF Sent
  <2> HIDE DEF e
  <2>3. Establishes(s, w) /\ SameTaken(s, w) /\ w.state = "SYN_RCVD"
    <3>1. e \in Socket
      BY <1>1 DEF Establishes
    <3>2. w \in Socket
      BY <3>1 DEF Socket, States
    <3>3. SameApp(e, w) /\ SameEvents(e, w) /\ SameTaken(e, w)
      BY <3>1 DEF Socket, SameApp, SameEvents, SameTaken
    <3>4. /\ w.endPoint = e.endPoint /\ w.connected = e.connected /\ w.written = e.written
          /\ w.size = e.size /\ w.head = e.head /\ w.next = e.next /\ w.high = e.high
          /\ w.retxEvent = e.retxEvent /\ w.state = "SYN_RCVD" /\ w.out = e.out
      BY <3>1 DEF Socket
    <3> HIDE DEF w
    <3> QED  BY <1>1, <3>2, <3>3, <3>4 DEF Establishes, SameTaken, SameApp, SameEvents
  <2> HIDE DEF w, t
  <2>4. Step(s, w, r) /\ Timed(w) /\ Asked(w) /\ w.connected
    BY <1>0, <2>2, <2>3, EstablishStep
  <2>5. /\ Link(w, r) /\ w \in Socket /\ Open(w) /\ w.endPoint
        /\ seg.seq = w.rxNext
    BY <1>4, <2>3, <2>4 DEF Step, Establishes, Open, SameTaken
  <2>6. Sent(seg, r, w)
    BY <1>0, <2>4, <2>5, StillSent DEF Step
  <2>7. Step(w, t, r) /\ End(t)
    BY <1>4, <2>1, <2>4, <2>5, <2>6, PeerCloseSegmentStep
  <2>8. Step(s, t, r)
    BY <1>0, <2>4, <2>7, StepTrans
  <2> QED  BY <2>7, <2>8 DEF t
<1>5. CASE seg.flags = FinAck /\ seg.seq # s.rxNext
  <2>1. t = s
    BY <1>5, Marks DEF ProcessSynRcvd
  <2> QED  BY <2>1, StepRefl
<1>6. CASE ~(seg.flags = ACK /\ seg.ack = s.next + 1) /\ seg.flags \notin {SYN, FinAck}
  <2>1. t = Terminate(s, seg)
    BY <1>6 DEF ProcessSynRcvd
  <2> QED  BY <2>1, TerminateStep
<1> QED  BY <1>2, <1>3, <1>4, <1>5, <1>6

\* ProcessEstablished.
LEMMA EstablishedStep ==
  ASSUME NEW s, NEW r, NEW seg, Link(s, r), Sent(seg, r, s), s.state = "ESTABLISHED",
         End(s), s.endPoint
  PROVE  LET t == ProcessEstablished(s, seg) IN Step(s, t, r) /\ End(t)
<1> DEFINE t == ProcessEstablished(s, seg)
<1>0. /\ s \in Socket /\ s.head \in Nat /\ s.high \in Nat /\ seg.ack \in Nat
      /\ s.connected \/ Aborted(s)
      /\ Receiving(s) /\ Open(s)
  <2>1. s.connected \/ Aborted(s)
    BY LinkTypes DEF Numbered, Unconnected, Opening
  <2> QED  BY <2>1, LinkTypes, SegmentFields, Fields DEF Sent, Receiving, Open
<1>1. CASE seg.flags = ACK /\ seg.ack < s.head
  <2>1. t = s
    BY <1>0, <1>1, Marks DEF ProcessEstablished
  <2> QED  BY <2>1, StepRefl
<1>2. CASE seg.flags = ACK /\ ~(seg.ack < s.head) /\ seg.ack > s.high
  <2>1. t = SendEmptyPacket(s, ACK)
    BY <1>0, <1>2, Marks DEF ProcessEstablished
  <2> QED  BY <2>1, AckStep
<1>3. CASE seg.flags = ACK /\ seg.ack \in s.head .. s.high
  <2>1. t = ReceivedAck(s, seg)
    BY <1>0, <1>3, Marks DEF ProcessEstablished
  <2>2. "RST" \notin seg.flags
    BY <1>3, FlagsOf
  <2> HIDE DEF t
  <2>3. Step(s, t, r) /\ End(t)
    BY <1>0, <2>1, <2>2, ReceivedAckStep
  <2> QED  BY <2>3 DEF t
<1>4. CASE seg.flags \in {SYN, SynAck}
  <2>1. t = s
    BY <1>4, Marks DEF ProcessEstablished
  <2> QED  BY <2>1, StepRefl
<1>5. CASE seg.flags = FinAck
  <2>1. t = PeerClose(s, seg)
    BY <1>5, Marks DEF ProcessEstablished
  <2> HIDE DEF t
  <2>2. Step(s, t, r) /\ End(t)
    BY <1>0, <1>5, <2>1, PeerCloseSegmentStep DEF End
  <2> QED  BY <2>2 DEF t
<1>6. CASE seg.flags \notin {ACK, SYN, SynAck, FinAck}
  <2>1. t = Terminate(s, seg)
    BY <1>6 DEF ProcessEstablished
  <2> QED  BY <2>1, TerminateStep
<1> QED  BY <1>0, <1>1, <1>2, <1>3, <1>4, <1>5, <1>6

\* ProcessWait.
LEMMA WaitStep ==
  ASSUME NEW s, NEW r, NEW seg, Link(s, r), Sent(seg, r, s),
         s.state \in {"FIN_WAIT_1", "FIN_WAIT_2", "CLOSE_WAIT"}, End(s), s.endPoint
  PROVE  LET t == ProcessWait(s, seg) IN Step(s, t, r) /\ End(t)
<1> DEFINE t == ProcessWait(s, seg)
<1>0. s \in Socket /\ Receiving(s)
  <2>1. s.connected \/ Aborted(s)
    BY LinkTypes DEF Numbered, Unconnected, Opening
  <2> QED  BY <2>1, LinkTypes DEF Receiving, Open
<1>1. CASE seg.flags = ACK
  <2> DEFINE u == WaitAck(s, seg)
  <2>1. t = BothClosed(u, seg)
    BY <1>1, Marks DEF ProcessWait
  <2>2. "RST" \notin seg.flags
    BY <1>1, FlagsOf
  <2>3. Step(s, u, r) /\ End(u) /\ (u.endPoint \/ u.state = "CLOSE_WAIT")
    BY <1>0, <2>2, WaitAckStep
  <2> HIDE DEF u, t
  <2>4. Step(u, t, r) /\ End(t)
    BY <2>1, <2>3, BothClosedStep DEF Step
  <2> QED  BY <1>0, <2>3, <2>4, StepTrans DEF t
<1>2. CASE seg.flags = FinAck
  <2> DEFINE u == WaitFin(s, seg)
  <2>1. t = BothClosed(u, seg)
    BY <1>2, Marks DEF ProcessWait
  <2>2. Step(s, u, r) /\ End(u) /\ (u.endPoint \/ u.state = "CLOSE_WAIT")
    BY <1>0, <1>2, WaitFinStep
  <2> HIDE DEF u, t
  <2>3. Step(u, t, r) /\ End(t)
    BY <2>1, <2>2, BothClosedStep DEF Step
  <2> QED  BY <1>0, <2>2, <2>3, StepTrans DEF t
<1>3. CASE seg.flags \in {SYN, SynAck}
  <2>1. t = s
    BY <1>3, Marks DEF ProcessWait
  <2> QED  BY <2>1, StepRefl
<1>4. CASE seg.flags \notin {ACK, FinAck, SYN, SynAck}
  <2>1. t = Terminate(s, seg)
    BY <1>4 DEF ProcessWait
  <2> QED  BY <2>1, TerminateStep
<1> QED  BY <1>1, <1>2, <1>3, <1>4

\* ProcessClosing.
LEMMA ClosingStep ==
  ASSUME NEW s, NEW r, NEW seg, Link(s, r), s.state = "CLOSING", End(s), s.endPoint
  PROVE  LET t == ProcessClosing(s, seg) IN Step(s, t, r) /\ End(t)
<1> DEFINE t == ProcessClosing(s, seg)
<1>1. CASE seg.flags = ACK /\ seg.seq = s.rxNext
  <2>1. t = TimeWait(s)
    BY <1>1, Marks DEF ProcessClosing
  <2> QED  BY <2>1, TimeWaitStep
<1>2. CASE seg.flags = ACK /\ seg.seq # s.rxNext
  <2>1. t = s
    BY <1>2, Marks DEF ProcessClosing
  <2> QED  BY <2>1, StepRefl
<1>3. CASE seg.flags = FinAck
  <2> DEFINE u == SendEmptyPacket(s, ACK)
  <2>1. t = CloseAndNotify(u)
    BY <1>3, Marks DEF ProcessClosing
  <2>2. Step(s, u, r) /\ End(u)
    BY AckStep
  <2> HIDE DEF u, t
  <2>3. Step(u, t, r) /\ End(t)
    BY <2>1, <2>2, CloseAndNotifyStep DEF Step
  <2> QED  BY <2>2, <2>3, LinkTypes, StepTrans DEF t
<1>4. CASE seg.flags \notin {ACK, FinAck}
  <2>1. t = Terminate(s, seg)
    BY <1>4 DEF ProcessClosing
  <2> QED  BY <2>1, TerminateStep
<1> QED  BY <1>1, <1>2, <1>3, <1>4

\* ProcessLastAck.
LEMMA LastAckStep ==
  ASSUME NEW s, NEW r, NEW seg, Link(s, r), End(s)
  PROVE  LET t == ProcessLastAck(s, seg) IN Step(s, t, r) /\ End(t)
<1> DEFINE t == ProcessLastAck(s, seg)
<1>1. CASE (seg.flags = ACK /\ seg.seq = s.rxNext) \/ seg.flags = FinAck
  <2>1. t = CloseAndNotify(s)
    BY <1>1, Marks DEF ProcessLastAck
  <2> QED  BY <2>1, CloseAndNotifyStep
<1>2. CASE seg.flags = ACK /\ seg.seq # s.rxNext
  <2>1. t = s
    BY <1>2, Marks DEF ProcessLastAck
  <2> QED  BY <2>1, StepRefl
<1>3. CASE seg.flags \notin {ACK, FinAck}
  <2>1. t = Terminate(s, seg)
    BY <1>3 DEF ProcessLastAck
  <2> QED  BY <2>1, TerminateStep
<1> QED  BY <1>1, <1>2, <1>3

\* A reset that no state asks for.
LEMMA OutStep ==
  ASSUME NEW s, NEW r, NEW reset \in Segment, Link(s, r), reset.len = 0,
         "RST" \in reset.flags, "SYN" \notin reset.flags, "FIN" \notin reset.flags
  PROVE  LET t == [s EXCEPT !.out = @ \cup {reset}]
         IN  Step(s, t, r) /\ (End(s) => End(t))
<1> DEFINE t == [s EXCEPT !.out = s.out \cup {reset}]
<1>0. s \in Socket /\ Numbered(s) /\ Stated(s) /\ s.out \cup {reset} \in SUBSET Segment
  BY LinkTypes, Fields
<1>1. /\ t \in Socket /\ SameOffer(s, t) /\ SameTaken(s, t) /\ SameApp(s, t)
      /\ SameTimers(s, t) /\ t.state = s.state /\ t.endPoint = s.endPoint
      /\ t.out = s.out \cup {reset}
  <2>1. t \in Socket
    BY <1>0 DEF Socket
  <2> QED  BY <1>0, <2>1 DEF Socket, SameOffer, SameTaken, SameApp, SameTimers
<1>2. t = [s EXCEPT !.out = @ \cup {reset}]
  BY <1>0 DEF Socket
<1> HIDE DEF t
<1>3. (Aborted(s) <=> Aborted(t)) /\ (Final(s) <=> Final(t))
  BY <1>1 DEF Aborted, Final, CanWrite, Open, SameOffer, SameApp, Written
<1>4. Numbered(t)
  BY <1>0, <1>1, <1>3 DEF Numbered, Unconnected, Connected, SameOffer, SameTimers, Written
<1>5. Stated(t)
  BY <1>0, <1>1 DEF Stated, SameOffer, SameTaken, SameTimers, Written
<1>6. Sent(reset, t, r)
  BY DEF Sent
<1>7. Step(s, t, r)
  BY <1>1, <1>3, <1>4, <1>5, <1>6, Kept
<1>8. End(s) => End(t)
  BY <1>1, <1>3 DEF End, Timed, Open, Asked, Settled, SameOffer, SameApp, SameTimers
<1> QED  BY <1>2, <1>7, <1>8

\* ProcessClosed answers with a reset, which is not about any data.
LEMMA ClosedStep ==
  ASSUME NEW s, NEW r, NEW seg, Link(s, r), End(s)
  PROVE  LET t == ProcessClosed(s, seg) IN Step(s, t, r) /\ End(t)
<1> DEFINE reset == [flags |-> RST, seq |-> s.next, ack |-> s.rxNext, len |-> 0]
<1>1. CASE seg.flags = RST
  <2>1. ProcessClosed(s, seg) = s
    BY <1>1 DEF ProcessClosed
  <2> QED  BY <2>1, StepRefl
<1>2. CASE seg.flags # RST
  <2>1. ProcessClosed(s, seg) = [s EXCEPT !.out = @ \cup {reset}]
    BY <1>2 DEF ProcessClosed
  <2>2. reset \in Segment
    BY LinkTypes, Fields, FlagsOf DEF Segment, Seqs
  <2>3. /\ reset.len = 0 /\ "RST" \in reset.flags /\ "SYN" \notin reset.flags
        /\ "FIN" \notin reset.flags
    BY FlagsOf
  <2> HIDE DEF reset
  <2> QED  BY <2>1, <2>2, <2>3, OutStep
<1> QED  BY <1>1, <1>2

\* So does TcpL4Protocol, when the socket has no endpoint any more.
LEMMA NoEndPointStep ==
  ASSUME NEW s, NEW r, NEW seg \in Segment, Link(s, r), End(s)
  PROVE  LET t == NoEndPoint(s, seg) IN Step(s, t, r) /\ End(t)
<1> DEFINE flags == IF "ACK" \in seg.flags THEN RST ELSE {"RST", "ACK"}
           reset == [flags |-> flags, len |-> 0,
                     seq |-> IF flags = RST THEN seg.ack ELSE 0,
                     ack |-> IF flags = RST THEN 0 ELSE seg.seq + 1]
<1>1. CASE s.listener \/ "RST" \in seg.flags
  <2>1. NoEndPoint(s, seg) = s
    BY <1>1 DEF NoEndPoint
  <2> QED  BY <2>1, StepRefl
<1>2. CASE ~(s.listener \/ "RST" \in seg.flags)
  <2>1. NoEndPoint(s, seg) = [s EXCEPT !.out = @ \cup {reset}]
    BY <1>2 DEF NoEndPoint
  <2>2. /\ flags \in SUBSET Flags /\ "RST" \in flags /\ "SYN" \notin flags
        /\ "FIN" \notin flags
    BY DEF RST, Flags
  <2> HIDE DEF flags
  <2>3. reset \in Segment
    BY <2>2, SegmentFields DEF Segment, Seqs
  <2>4. reset.len = 0 /\ reset.flags = flags
    OBVIOUS
  <2> HIDE DEF reset
  <2> QED  BY <2>1, <2>2, <2>3, <2>4, OutStep
<1> QED  BY <1>1, <1>2

\* A segment that arrives: the range check and the switch of DoForwardUp.
LEMMA ForwardUpStep ==
  ASSUME NEW s, NEW r, NEW seg, Link(s, r), Sent(seg, r, s), End(s), s.endPoint
  PROVE  LET t == ForwardUp(s, seg) IN Step(s, t, r) /\ End(t)
<1>0. s.state \in States
  BY LinkTypes, Fields
<1>1. CASE ~IsValidTcpSegment(s, seg)
  <2>1. ForwardUp(s, seg) = SendEmptyPacket(s, ACK)
    BY <1>1 DEF ForwardUp
  <2> QED  BY <2>1, AckStep
<1>2. CASE IsValidTcpSegment(s, seg)
  <2>0. ForwardUp(s, seg) = DoForwardUp(s, seg)
    BY <1>2 DEF ForwardUp
  <2>1. CASE s.state = "CLOSED"
    <3>1. DoForwardUp(s, seg) = ProcessClosed(s, seg)
      BY <2>1 DEF DoForwardUp
    <3> QED  BY <2>0, <3>1, ClosedStep
  <2>2. CASE s.state = "LISTEN"
    <3>1. DoForwardUp(s, seg) = ProcessListen(s, seg)
      BY <2>2 DEF DoForwardUp
    <3> QED  BY <2>0, <2>2, <3>1, ListenStep
  <2>3. CASE s.state = "SYN_SENT"
    <3>1. DoForwardUp(s, seg) = ProcessSynSent(s, seg)
      BY <2>3 DEF DoForwardUp
    <3> QED  BY <2>0, <2>3, <3>1, SynSentStep
  <2>4. CASE s.state = "SYN_RCVD"
    <3>1. DoForwardUp(s, seg) = ProcessSynRcvd(s, seg)
      BY <2>4 DEF DoForwardUp
    <3> QED  BY <2>0, <2>4, <3>1, SynRcvdStep
  <2>5. CASE s.state = "ESTABLISHED"
    <3>1. DoForwardUp(s, seg) = ProcessEstablished(s, seg)
      BY <2>5 DEF DoForwardUp
    <3> QED  BY <2>0, <2>5, <3>1, EstablishedStep
  <2>6. CASE s.state \in {"FIN_WAIT_1", "FIN_WAIT_2", "CLOSE_WAIT"}
    <3>1. DoForwardUp(s, seg) = ProcessWait(s, seg)
      BY <2>6 DEF DoForwardUp
    <3> QED  BY <2>0, <2>6, <3>1, WaitStep
  <2>7. CASE s.state = "CLOSING"
    <3>1. DoForwardUp(s, seg) = ProcessClosing(s, seg)
      BY <2>7 DEF DoForwardUp
    <3> QED  BY <2>0, <2>7, <3>1, ClosingStep
  <2>8. CASE s.state = "LAST_ACK"
    <3>1. DoForwardUp(s, seg) = ProcessLastAck(s, seg)
      BY <2>8 DEF DoForwardUp
    <3> QED  BY <2>0, <3>1, LastAckStep
  <2>9. CASE s.state = "TIME_WAIT"
    <3>1. DoForwardUp(s, seg) = s
      BY <2>9 DEF DoForwardUp
    <3> QED  BY <2>0, <3>1, StepRefl
  <2> QED  BY <1>0, <2>1, <2>2, <2>3, <2>4, <2>5, <2>6, <2>7, <2>8, <2>9 DEF States
<1> QED  BY <1>1, <1>2

-----------------------------------------------------------------------------
(***************************************************************************)
(* Timers                                                                  *)
(***************************************************************************)
\* Events begin, end and are scheduled; the application closes.
LEMMA EventStep ==
  ASSUME NEW s, NEW t, NEW r, Link(s, r), t \in Socket, SameOffer(s, t), SameTaken(s, t),
         t.state = s.state, t.endPoint = s.endPoint, s.closed => t.closed,
         t.retxEvent \in {s.retxEvent, NoEvent}, t.sendEvent => s.sendEvent,
         t.lastAckEvent => s.lastAckEvent \/ s.endPoint, t.timewaitEvent => s.timewaitEvent,
         t.out = s.out
  PROVE  Step(s, t, r)
<1>0. s \in Socket /\ Numbered(s) /\ Stated(s)
  BY LinkTypes
<1>1. (Aborted(s) <=> Aborted(t)) /\ (Final(s) => Final(t))
  BY DEF Aborted, Final, CanWrite, Open, SameOffer, Written
<1>2. Numbered(t)
  BY <1>0, <1>1, Marks DEF Numbered, Unconnected, Connected, SameOffer, Written
<1>3. Stated(t)
  BY <1>0, Marks DEF Stated, SameOffer, SameTaken, Written
<1> QED  BY <1>1, <1>2, <1>3, Kept

\* m_retxEvent has expired.
LEMMA ExpiredStep ==
  ASSUME NEW s, NEW r, Link(s, r)
  PROVE  LET t == [s EXCEPT !.retxEvent = NoEvent]
         IN  /\ Step(s, t, r) /\ SameOffer(s, t) /\ SameTaken(s, t) /\ SameApp(s, t)
             /\ SameEvents(s, t) /\ t.state = s.state /\ t.endPoint = s.endPoint
             /\ t.retxEvent = NoEvent
<1> DEFINE t == [s EXCEPT !.retxEvent = NoEvent]
<1>0. s \in Socket
  BY LinkTypes
<1>1. /\ t \in Socket /\ SameOffer(s, t) /\ SameTaken(s, t) /\ SameApp(s, t)
      /\ SameEvents(s, t) /\ t.state = s.state /\ t.endPoint = s.endPoint
      /\ t.retxEvent = NoEvent /\ t.out = s.out
  <2>1. t \in Socket
    BY <1>0 DEF Socket
  <2> QED  BY <1>0, <2>1 DEF Socket, SameOffer, SameTaken, SameApp, SameEvents
<1> HIDE DEF t
<1>2. Step(s, t, r)
  BY <1>0, <1>1, Fields, EventStep DEF SameApp, SameEvents
<1> QED  BY <1>1, <1>2 DEF t

\* Which sockets a SYN is repeated for.
LEMMA RepeatedSyn ==
  ASSUME NEW s, NEW r, Link(s, r), s.endPoint, s.retxEvent \in {SYN, SynAck}
  PROVE  ~s.connected /\ (s.state \in Opening \/ Aborted(s))
<1>1. Numbered(s) /\ Stated(s) /\ s.retxEvent # NoEvent /\ s \in Socket
  BY LinkTypes, Marks
<1>2. ~s.connected
  BY <1>1, Fields DEF Numbered, Connected
<1> QED  BY <1>1, <1>2 DEF Numbered, Unconnected, Stated

\* A SYN or SYN+ACK is repeated, or the connection is given up.
LEMMA RepeatSynStep ==
  ASSUME NEW s, NEW r, NEW e \in {SYN, SynAck}, Link(s, r), End(s), s.retxEvent = e,
         s.endPoint
  PROVE  LET t == SendEmptyPacket([s EXCEPT !.retxEvent = NoEvent], e)
         IN  Step(s, t, r) /\ End(t)
<1> DEFINE u == [s EXCEPT !.retxEvent = NoEvent]
           t == SendEmptyPacket(u, e)
<1>1. ~s.connected /\ (s.state \in Opening \/ Aborted(s))
  BY RepeatedSyn
<1>2. /\ Step(s, u, r) /\ SameOffer(s, u) /\ SameTaken(s, u) /\ SameApp(s, u)
      /\ SameEvents(s, u) /\ u.state = s.state /\ u.endPoint = s.endPoint
  BY ExpiredStep
<1> HIDE DEF u
<1>3. /\ ~u.connected /\ (u.state \in Opening \/ Aborted(u)) /\ Link(u, r)
      /\ (Aborted(u) => Aborted(s))
  BY <1>1, <1>2 DEF SameOffer, Step, Later, Aborted, Written
<1>4. Asked(u)
  BY <1>2, <1>3 DEF End, Asked, SameApp
<1>5. u.state = "LAST_ACK" => u.lastAckEvent
  BY <1>2, Marks DEF End, Timed, SameEvents
<1>6. Step(u, t, r) /\ End(t)
  BY <1>3, <1>4, <1>5, SynStep DEF End
<1> HIDE DEF t
<1>7. Step(s, t, r)
  BY <1>2, <1>6, LinkTypes, StepTrans
<1> QED  BY <1>6, <1>7 DEF t, u

\* A FIN of FIN_WAIT_1, CLOSING or LAST_ACK, or of what was one of them.
LEMMA RepeatFinStep ==
  ASSUME NEW s, NEW r, NEW u, NEW wanted \in {{"FIN"}, FinAck}, Link(s, r), End(s), s.endPoint,
         Step(s, u, r), SameOffer(s, u), SameTaken(s, u), SameApp(s, u),
         u.sendEvent = s.sendEvent, u.state = s.state,
         u.endPoint, u.retxEvent \in {s.retxEvent, NoEvent},
         s.state \in {"FIN_WAIT_1", "CLOSING", "LAST_ACK"} \/ s.retxEvent = FinAck
  PROVE  LET t == SendEmptyPacket(u, wanted)
         IN  /\ Step(s, t, r) /\ t.state = s.state /\ t.endPoint
             /\ Asked(t) /\ Settled(t)
             /\ s.state # "LAST_ACK" \/ u.retxEvent = NoEvent => Timed(t)
<1> DEFINE t == SendEmptyPacket(u, wanted)
<1>0. /\ s \in Socket /\ Numbered(s) /\ Stated(s) /\ Link(u, r) /\ u \in Socket
      /\ Numbered(u) /\ Stated(u)
  BY LinkTypes DEF Step, Link
<1>1. Packet(u, t, FinAck, TRUE) /\ t.state = u.state
  BY <1>0, FinFields
<1> HIDE DEF t
<1>2. /\ SameOffer(u, t) /\ SameApp(u, t) /\ SameTaken(u, t) /\ t.endPoint
      /\ t.retxEvent = IF u.retxEvent = NoEvent THEN FinAck ELSE u.retxEvent
  BY <1>1 DEF Packet
<1>3. s.connected => Final(s)
  BY <1>0 DEF Numbered, Connected
<1>4. ~s.connected => Aborted(s)
  <2>1. ~s.connected /\ ~Aborted(s) => Unconnected(s)
    BY <1>0 DEF Numbered
  <2>2. Unconnected(s) => s.retxEvent # FinAck /\ s.state \in Opening \cup {"CLOSED"}
    BY Marks DEF Unconnected
  <2> QED  BY <2>1, <2>2 DEF Opening
<1>5. /\ t.connected => Final(t)
      /\ ~t.connected => Aborted(t)
      /\ Aborted(t) <=> Aborted(s)
  BY <1>1, <1>2, <1>3, <1>4 DEF Final, CanWrite, Open, SameOffer, SameApp, Written, Aborted
<1>6. u.rxNext >= 1 /\ u.state # "CLOSED"
  BY <1>0, Marks DEF Stated, SameTaken
<1>7. Step(u, t, r)
  <2>1. u.connected <=> t.connected
    BY <1>2 DEF SameOffer
  <2> QED  BY <1>0, <1>1, <1>5, <1>6, <2>1, FinStep
<1>8. Step(s, t, r)
  BY <1>0, <1>7, StepTrans
<1>9. Asked(t) /\ Settled(t)
  BY <1>1, <1>2, <1>5 DEF End, Asked, Settled, SameApp, SameOffer
<1>10. s.state # "LAST_ACK" \/ u.retxEvent = NoEvent => Timed(t)
  <2>1. t.retxEvent # NoEvent
    BY <1>2, Marks
  <2>2. ~(Open(s) /\ ~s.closed)
    BY Marks DEF End, Timed, Open
  <2> QED  BY <1>1, <1>2, <2>1, <2>2 DEF Timed, Open, SameApp, SameOffer
<1> QED  BY <1>1, <1>2, <1>8, <1>9, <1>10 DEF t

\* ReTxTimeout is scheduled for data, and goes on for a FIN.
LEMMA ReTxTimeoutStep ==
  ASSUME NEW s, NEW r, Link(s, r), End(s), s.retxEvent = Timeout, s.endPoint
  PROVE  LET t == ReTxTimeout([s EXCEPT !.retxEvent = NoEvent])
         IN  Step(s, t, r) /\ End(t)
<1> DEFINE u == [s EXCEPT !.retxEvent = NoEvent]
           t == ReTxTimeout(u)
<1>1. /\ Step(s, u, r) /\ SameOffer(s, u) /\ SameTaken(s, u) /\ SameApp(s, u)
      /\ SameEvents(s, u) /\ u.state = s.state /\ u.endPoint = s.endPoint
      /\ u.retxEvent = NoEvent
  BY ExpiredStep
<1>2. /\ s \in Socket /\ Numbered(s) /\ Stated(s) /\ Link(u, r) /\ u \in Socket
      /\ Numbered(u) /\ u.size \in 0 .. 1 /\ u.head \in Nat /\ u.high \in Nat
      /\ u.dataRetrCount \in 0 .. DataRetries
  BY <1>1, LinkTypes, Fields DEF Step, Link
<1>3. s.connected \/ Aborted(s)
  BY <1>2, Marks DEF Numbered, Unconnected
<1>4. s.state \notin {"SYN_SENT", "LISTEN"}
  BY <1>2, <1>3 DEF Stated, Aborted, Opening
<1>5. (Aborted(u) <=> Aborted(s)) /\ Asked(u) /\ Settled(u)
  <2>1. Aborted(u) <=> Aborted(s)
    BY <1>1 DEF Aborted, SameOffer, Written
  <2> QED  BY <1>1, <2>1 DEF End, Asked, Settled, SameApp, SameOffer
<1> HIDE DEF u
<1>6. CASE u.state \in {"CLOSED", "TIME_WAIT"}
  <2>1. t = u
    BY <1>6 DEF ReTxTimeout
  <2>2. Timed(u)
    BY <1>6 DEF Timed, Open
  <2> QED  BY <1>1, <1>5, <2>1, <2>2 DEF End, u
<1>7. CASE u.state \notin {"CLOSED", "TIME_WAIT"} /\ u.size = 0
  <2>1. CASE u.state \in {"FIN_WAIT_1", "CLOSING"}
    <3>1. t = SendEmptyPacket(u, {"FIN"})
      BY <1>1, <1>4, <1>7, <2>1 DEF ReTxTimeout
    <3> HIDE DEF t
    <3>2. /\ Step(s, t, r) /\ Asked(t) /\ Settled(t)
          /\ s.state # "LAST_ACK" \/ u.retxEvent = NoEvent => Timed(t)
      BY <1>1, <2>1, <3>1, RepeatFinStep DEF SameEvents
    <3> QED  BY <1>1, <3>2 DEF End, t, u
  <2>2. CASE u.state \notin {"FIN_WAIT_1", "CLOSING"}
    <3>1. t = u
      BY <1>1, <1>4, <1>7, <2>2 DEF ReTxTimeout
    <3>2. u.high <= u.head
      BY <1>2, <1>7 DEF Numbered
    <3>3. u.state = "SYN_RCVD" => u.connected
      BY <1>1, <1>3 DEF Aborted, Opening, SameOffer
    <3>4. u.state = "LAST_ACK" => u.lastAckEvent
      BY <1>1, <1>7, Marks DEF End, Timed, SameOffer, SameEvents
    <3>5. Timed(u)
      BY <1>1, <1>2, <1>4, <1>7, <2>2, <3>2, <3>3, <3>4 DEF Timed
    <3> QED  BY <1>1, <1>5, <3>1, <3>5 DEF End, u
  <2> QED  BY <2>1, <2>2
<1>8. CASE u.state \notin {"CLOSED", "TIME_WAIT"} /\ u.size > 0
  <2>1. CASE u.dataRetrCount = 0
    <3>1. t = DeallocateEndPoint(u)
      BY <1>1, <1>2, <1>4, <1>8, <2>1 DEF ReTxTimeout
    <3> HIDE DEF t
    <3>2. Step(u, t, r) /\ ~t.endPoint
      BY <1>2, <3>1, DeallocateStep
    <3>3. Step(s, t, r)
      BY <1>1, <1>2, <3>2, StepTrans
    <3>4. /\ SameOffer(u, t) /\ SameApp(u, t) /\ t.state = u.state
      BY <1>1, <1>2, <3>1, LinkTypes, Deallocated
    <3>5. End(t)
      BY <1>5, <3>2, <3>4 DEF End, Timed, Asked, Settled, SameApp, SameOffer, Aborted, Written
    <3> QED  BY <3>3, <3>5 DEF t, u
  <2>2. CASE u.dataRetrCount > 0
    <3> DEFINE n == u.dataRetrCount - 1
               v == [u EXCEPT !.dataRetrCount = n]
    <3>1. t = SendDataPacket(v)
      BY <1>1, <1>2, <1>4, <1>8, <2>2 DEF ReTxTimeout, Socket
    <3>2. n \in 0 .. DataRetries
      BY <1>2, <2>2, RetriesAssumption
    <3> HIDE DEF n
    <3>3. /\ v \in Socket /\ SameOffer(u, v) /\ SameTaken(u, v) /\ SameApp(u, v)
          /\ SameTimers(u, v) /\ v.state = u.state /\ v.endPoint = u.endPoint
          /\ v.out = u.out
      <4>1. v \in Socket
        BY <1>2, <3>2 DEF Socket
      <4> QED  BY <1>2, <4>1 DEF Socket, SameOffer, SameTaken, SameApp, SameTimers
    <3> HIDE DEF v, t
    <3>4. Step(u, v, r)
      BY <1>2, <3>3, Fields, EventStep DEF SameApp, SameTimers
    <3>5. Link(v, r) /\ v.connected /\ v.size = 1 /\ v.endPoint /\ OnlyData(v)
      <4>1. u.size = 1 /\ s.size = 1
        BY <1>1, <1>2, <1>8 DEF SameOffer
      <4>2. s.connected
        BY <1>2, <1>3, <4>1 DEF Numbered, Aborted
      <4> QED  BY <1>1, <3>3, <3>4, <4>1, <4>2 DEF Step, SameOffer, SameTimers, OnlyData
    <3>6. Asked(v) /\ Settled(v)
      BY <1>5, <3>3 DEF Asked, Settled, SameApp, SameOffer, Aborted, Written
    <3>7. Step(v, t, r) /\ End(t)
      BY <3>1, <3>5, <3>6, DataStep DEF End
    <3>8. Step(s, v, r)
      BY <1>1, <1>2, <3>3, <3>4, StepTrans
    <3>9. Step(s, t, r)
      BY <1>2, <3>3, <3>7, <3>8, StepTrans
    <3> QED  BY <3>7, <3>9 DEF t, u
  <2> QED  BY <1>2, <2>1, <2>2
<1> QED  BY <1>2, <1>6, <1>7, <1>8

\* LastAckTimeout repeats the FIN, or gives up the endpoint.
LEMMA DoLastAckTimeoutStep ==
  ASSUME NEW s, NEW r, Link(s, r), End(s), s.lastAckEvent
  PROVE  LET t == DoLastAckTimeout([s EXCEPT !.lastAckEvent = FALSE])
         IN  Step(s, t, r) /\ End(t)
<1> DEFINE u == [s EXCEPT !.lastAckEvent = FALSE]
           t == DoLastAckTimeout(u)
<1>0. /\ s \in Socket /\ Numbered(s) /\ Stated(s) /\ s.endPoint
      /\ s.dataRetrCount \in 0 .. DataRetries
  BY LinkTypes, Fields DEF Stated
<1>1. /\ u \in Socket /\ SameOffer(s, u) /\ SameTaken(s, u) /\ SameApp(s, u)
      /\ u.retxEvent = s.retxEvent /\ u.sendEvent = s.sendEvent /\ ~u.lastAckEvent
      /\ u.timewaitEvent = s.timewaitEvent
      /\ u.state = s.state /\ u.endPoint = s.endPoint /\ u.out = s.out
      /\ u.dataRetrCount = s.dataRetrCount
  <2>1. u \in Socket
    BY <1>0 DEF Socket
  <2> QED  BY <1>0, <2>1 DEF Socket, SameOffer, SameTaken, SameApp
<1> HIDE DEF u
<1>2. Step(s, u, r) /\ Link(u, r)
  <2>1. Step(s, u, r)
    BY <1>0, <1>1, EventStep DEF SameApp
  <2> QED  BY <2>1 DEF Step
<1>3. Asked(u) /\ Settled(u)
  BY <1>1 DEF End, Asked, Settled, SameApp, SameOffer, Aborted, Written
<1>4. CASE s.state # "LAST_ACK"
  <2>1. t = u
    BY <1>1, <1>4 DEF DoLastAckTimeout
  <2>2. Timed(u)
    BY <1>1, <1>4 DEF End, Timed, Open, SameOffer, SameApp
  <2> QED  BY <1>2, <1>3, <2>1, <2>2 DEF End, u
<1>5. CASE s.state = "LAST_ACK" /\ s.dataRetrCount = 0
  <2>1. t = DeallocateEndPoint(u)
    BY <1>1, <1>5 DEF DoLastAckTimeout
  <2>2. /\ t \in Socket /\ SameOffer(u, t) /\ SameApp(u, t) /\ t.state = u.state /\ ~t.endPoint
    BY <1>1, <1>2, <2>1, LinkTypes, Deallocated
  <2> HIDE DEF t
  <2>3. Step(u, t, r)
    BY <1>2, <2>1, DeallocateStep
  <2>4. Step(s, t, r)
    BY <1>0, <1>2, <2>3, StepTrans
  <2>5. End(t)
    BY <1>3, <2>2 DEF End, Timed, Asked, Settled, SameApp, SameOffer, Aborted, Written
  <2> QED  BY <2>4, <2>5 DEF t, u
<1>6. CASE s.state = "LAST_ACK" /\ s.dataRetrCount > 0
  <2> DEFINE n == u.dataRetrCount - 1
             v == [u EXCEPT !.dataRetrCount = n]
             w == SendEmptyPacket(v, FinAck)
             x == [w EXCEPT !.lastAckEvent = TRUE]
  <2>1. t = x
    BY <1>1, <1>6 DEF DoLastAckTimeout, Socket
  <2>2. n \in 0 .. DataRetries
    BY <1>0, <1>1, <1>6, RetriesAssumption
  <2> HIDE DEF n
  <2>3. /\ v \in Socket /\ SameOffer(u, v) /\ SameTaken(u, v) /\ SameApp(u, v)
        /\ SameTimers(u, v) /\ v.state = u.state /\ v.endPoint = u.endPoint
        /\ v.out = u.out
    <3>1. v \in Socket
      BY <1>1, <2>2 DEF Socket
    <3> QED  BY <1>1, <3>1 DEF Socket, SameOffer, SameTaken, SameApp, SameTimers
  <2> HIDE DEF v
  <2>4. Step(u, v, r)
    BY <1>1, <1>2, <2>3, Fields, EventStep DEF SameApp, SameTimers
  <2>5. Step(s, v, r) /\ SameOffer(s, v) /\ SameTaken(s, v) /\ SameApp(s, v)
    <3>1. Step(s, v, r)
      BY <1>0, <1>2, <2>4, StepTrans
    <3> QED  BY <1>1, <2>3, <3>1 DEF SameOffer, SameTaken, SameApp
  <2>6. Step(s, w, r) /\ w.state = s.state /\ w.endPoint /\ Asked(w) /\ Settled(w)
    <3>1. /\ v.sendEvent = s.sendEvent /\ v.state = s.state /\ v.endPoint
          /\ v.retxEvent \in {s.retxEvent, NoEvent}
      BY <1>0, <1>1, <2>3 DEF SameTimers
    <3>2. s.state \in {"FIN_WAIT_1", "CLOSING", "LAST_ACK"}
      BY <1>6
    <3> QED  BY <1>0, <2>5, <3>1, <3>2, RepeatFinStep
  <2> HIDE DEF w
  <2>7. Link(w, r) /\ w \in Socket
    BY <2>6 DEF Step, Link
  <2>8. /\ x \in Socket /\ SameOffer(w, x) /\ SameTaken(w, x) /\ SameApp(w, x)
        /\ x.retxEvent = w.retxEvent /\ x.sendEvent = w.sendEvent /\ x.lastAckEvent
        /\ x.timewaitEvent = w.timewaitEvent
        /\ x.state = w.state /\ x.endPoint = w.endPoint /\ x.out = w.out
    <3>1. x \in Socket
      BY <2>7 DEF Socket
    <3> QED  BY <2>7, <3>1 DEF Socket, SameOffer, SameTaken, SameApp
  <2> HIDE DEF x, t
  <2>9. Step(w, x, r)
    BY <2>6, <2>7, <2>8, Fields, EventStep DEF SameApp
  <2>10. Step(s, x, r)
    BY <1>0, <2>6, <2>7, <2>9, StepTrans
  <2>11. End(x)
    BY <1>6, <2>6, <2>8 DEF End, Timed, Open, Asked, Settled, SameApp, SameOffer, Aborted, Written
  <2> QED  BY <2>1, <2>10, <2>11 DEF t, u
<1> QED  BY <1>0, <1>4, <1>5, <1>6

-----------------------------------------------------------------------------
(***************************************************************************)
(* The application                                                         *)
(***************************************************************************)
LEMMA ConnectStep ==
  ASSUME NEW s, NEW r, Link(s, r), End(s), s.endPoint, s.state = "CLOSED"
  PROVE  LET u == [s EXCEPT !.synCount = SynRetries, !.dataRetrCount = DataRetries]
             t == DoConnect(u)
         IN  Step(s, t, r) /\ End(t)
<1> DEFINE x == [s EXCEPT !.synCount = SynRetries]
           u == [s EXCEPT !.synCount = SynRetries, !.dataRetrCount = DataRetries]
           w == SendEmptyPacket(u, SYN)
           t == DoConnect(u)
<1>0. /\ s \in Socket /\ r \in Socket /\ Numbered(s) /\ Stated(s) /\ ~Aborted(s)
      /\ s.rxNext = 0 /\ ~s.gotFin /\ s.retxEvent = NoEvent /\ ~s.connected /\ ~Written(s)
      /\ Unconnected(s)
  BY LinkTypes DEF Stated, Aborted, Numbered
<1>1. /\ u \in Socket /\ SameOffer(s, u) /\ SameTaken(s, u) /\ SameApp(s, u)
      /\ SameTimers(s, u) /\ u.endPoint /\ u.state = s.state /\ u.out = s.out
      /\ u.synCount > 0
  <2>1. x \in Socket
    BY <1>0, RetriesAssumption DEF Socket
  <2>2. u = [x EXCEPT !.dataRetrCount = DataRetries]
    OBVIOUS
  <2>3. /\ SameOffer(s, u) /\ SameTaken(s, u) /\ SameApp(s, u) /\ SameTimers(s, u)
        /\ u.endPoint /\ u.state = s.state /\ u.out = s.out /\ u.synCount > 0
    BY <1>0, RetriesAssumption DEF Socket, SameOffer, SameTaken, SameApp, SameTimers
  <2> HIDE DEF x, u
  <2>4. DataRetries \in 0 .. DataRetries
    BY RetriesAssumption
  <2>5. u \in Socket
    BY <2>1, <2>2, <2>4 DEF Socket
  <2> QED  BY <2>3, <2>5
<1> HIDE DEF u
<1>2. Packet(u, w, SYN, TRUE)
  <2>1. u.synCount # 0
    BY <1>1, Fields
  <2> QED  BY <1>1, <2>1, SynFields
<1>3. t = [w EXCEPT !.state = "SYN_SENT"]
  BY DEF DoConnect
<1> HIDE DEF w, t
<1>4. /\ t \in Socket /\ SameOffer(w, t) /\ SameTaken(w, t) /\ SameApp(w, t)
      /\ SameTimers(w, t) /\ t.endPoint = w.endPoint /\ t.state = "SYN_SENT"
      /\ t.out = w.out
  <2>1. w \in Socket
    BY <1>2 DEF Packet
  <2>2. t \in Socket
    BY <1>3, <2>1 DEF Socket, States
  <2> QED  BY <1>3, <2>1, <2>2 DEF Socket, SameOffer, SameTaken, SameApp, SameTimers
<1>5. /\ SameOffer(s, t) /\ SameTaken(s, t) /\ SameApp(s, t) /\ t.endPoint
      /\ t.sendEvent = s.sendEvent /\ t.retxEvent = SYN
  BY <1>0, <1>1, <1>2, <1>4
     DEF Packet, SameOffer, SameTaken, SameApp, SameTimers, SameEvents
<1>6. Numbered(t)
  BY <1>0, <1>4, <1>5 DEF Numbered, Unconnected, SameOffer, Written, Opening
<1>7. Stated(t)
  BY <1>0, <1>4, <1>5, Marks DEF Stated, SameOffer, SameTaken
<1>8. ASSUME NEW seg \in t.out, seg \notin s.out PROVE Sent(seg, t, r)
  <2>1. /\ seg \in Segment /\ seg.flags = SYN /\ seg.len = 0 /\ seg.ack = u.rxNext
        /\ seg.seq = u.next
    BY <1>1, <1>2, <1>4, <1>8 DEF Packet
  <2>2. seg.seq = 0 /\ seg.ack = t.rxNext
    BY <1>0, <1>1, <1>5, <2>1 DEF Unconnected, SameOffer, SameTaken
  <2>3. "FIN" \notin seg.flags /\ "RST" \notin seg.flags /\ t.rxNext \in Nat
    BY <1>4, <2>1, FlagsOf, Fields
  <2> QED  BY <2>1, <2>2, <2>3 DEF Sent
<1>9. Step(s, t, r)
  BY <1>0, <1>4, <1>5, <1>6, <1>7, <1>8, Kept
<1>10. End(t)
  BY <1>0, <1>4, <1>5, Marks
     DEF End, Timed, Open, Asked, Settled, SameApp, SameOffer, Aborted, Opening
<1> QED  BY <1>9, <1>10 DEF t, u

\* Listen.
LEMMA ListenCallStep ==
  ASSUME NEW s, NEW r, Link(s, r), End(s), s.endPoint, s.state = "CLOSED"
  PROVE  LET t == [s EXCEPT !.state = "LISTEN"] IN Step(s, t, r) /\ End(t)
<1> DEFINE t == [s EXCEPT !.state = "LISTEN"]
<1>0. /\ s \in Socket /\ Numbered(s) /\ Stated(s) /\ ~Aborted(s)
      /\ s.rxNext = 0 /\ ~s.gotFin /\ s.retxEvent = NoEvent /\ ~s.connected /\ ~Written(s)
      /\ Unconnected(s)
  BY LinkTypes DEF Stated, Aborted, Numbered
<1>1. /\ t \in Socket /\ SameOffer(s, t) /\ SameTaken(s, t) /\ SameApp(s, t)
      /\ SameTimers(s, t) /\ t.endPoint /\ t.state = "LISTEN" /\ t.out = s.out
  <2>1. t \in Socket
    BY <1>0 DEF Socket, States
  <2> QED  BY <1>0, <2>1 DEF Socket, SameOffer, SameTaken, SameApp, SameTimers
<1> HIDE DEF t
<1>2. Numbered(t)
  BY <1>0, <1>1 DEF Numbered, Unconnected, SameOffer, SameTimers, Written, Opening
<1>3. Stated(t)
  BY <1>0, <1>1, Marks DEF Stated, SameOffer, SameTaken, SameTimers
<1>4. Step(s, t, r)
  BY <1>0, <1>1, <1>2, <1>3, Kept
<1>5. End(t)
  BY <1>0, <1>1 DEF End, Timed, Open, Asked, Settled, SameApp, SameOffer, Aborted, Opening
<1> QED  BY <1>4, <1>5 DEF t

\* The application writes: what it has not said to be the last may still grow.
LEMMA SendStep ==
  ASSUME NEW s, NEW t, NEW r, Link(s, r), End(s), t \in Socket, SameTaken(s, t),
         SameApp(s, t), Held(s), s.written = "nothing",
         s.state \in {"ESTABLISHED", "SYN_SENT", "CLOSE_WAIT"},
         t.state = s.state, t.endPoint = s.endPoint, t.connected = s.connected,
         t.head = s.head, t.next = s.next, t.high = s.high, t.size = 1, Written(t),
         t.retxEvent = s.retxEvent, t.sendEvent => s.state # "SYN_SENT",
         t.lastAckEvent = s.lastAckEvent, t.timewaitEvent = s.timewaitEvent, t.out = s.out
  PROVE  Step(s, t, r) /\ End(t)
<1>0. /\ s \in Socket /\ r \in Socket /\ Numbered(s) /\ Stated(s) /\ Heard(s, r) /\ Heard(r, s)
      /\ s.endPoint /\ ~s.closed /\ ~Written(s) /\ s.size = 0
      /\ s.head \in Nat /\ s.next \in Nat /\ r.rxNext \in Nat
  <2>1. s \in Socket /\ Numbered(s) /\ ~Written(s)
    BY LinkTypes DEF Written
  <2>2. s.size = 0
    BY <2>1, Fields DEF Numbered
  <2> QED  BY <2>1, <2>2, LinkTypes, Fields DEF Link, Held
<1>1. ~Aborted(s) /\ ~Aborted(t)
  BY <1>0 DEF End, Asked, Aborted
<1>2. /\ s.state = "SYN_SENT" => ~s.connected /\ Unconnected(s)
      /\ s.state # "SYN_SENT" => s.connected /\ Connected(s) /\ Open(s)
  BY <1>0, <1>1 DEF Stated, Numbered, Unconnected, Opening, Open
<1>3. ASSUME s.state # "SYN_SENT"
      PROVE  /\ ~Final(s) /\ ~r.gotFin /\ r.rxNext <= 1
             /\ s.head = 1 /\ s.next = 1 /\ s.high = 1 /\ s.retxEvent = NoEvent
  <2>1. CanWrite(s) /\ s.connected /\ Connected(s) /\ Open(s)
    BY <1>0, <1>2, <1>3 DEF CanWrite
  <2>2. ~Final(s)
    BY <1>0, <2>1 DEF Final
  <2>3. ~r.gotFin
    BY <1>0, <2>1, <2>2 DEF Heard
  <2>4. s.high = 1 /\ r.rxNext <= 1
    BY <1>0, <2>1, <2>3 DEF Connected, Heard, Finished
  <2>5. s.next = 1 /\ s.head = 1
    BY <1>0, <2>1, <2>4 DEF Connected, Heard
  <2>6. s.retxEvent = NoEvent
    BY <1>0, <2>1 DEF End, Timed
  <2> QED  BY <2>2, <2>3, <2>4, <2>5, <2>6
<1>4. Numbered(t)
  BY <1>0, <1>1, <1>2, <1>3, Marks DEF Numbered, Unconnected, Connected
<1>5. Stated(t)
  BY <1>0 DEF Stated, SameTaken
<1>6. Later(s, t, r)
  BY <1>0, <1>1, <1>2, <1>3, Fields DEF Later, SameTaken
<1>7. Heard(t, r)
  BY <1>0 DEF Heard, SameTaken, Finished
<1>8. Heard(r, t)
  BY <1>0, <1>1, <1>2, <1>3 DEF Heard
<1>9. \A x \in t.out : Sent(x, t, r)
  BY <1>0, <1>6, StillSent DEF Link
<1>10. Step(s, t, r)
  BY <1>0, <1>4, <1>5, <1>6, <1>7, <1>8, <1>9 DEF Step, Link
<1>11. End(t)
  BY <1>0, <1>1, <1>2, <1>3 DEF End, Timed, Open, Asked, Settled, SameApp
<1> QED  BY <1>10, <1>11

\* Recv takes what is in the buffer; it was counted when it arrived.
LEMMA RecvStep ==
  ASSUME NEW s, NEW r, Link(s, r), End(s)
  PROVE  LET t == [s EXCEPT !.rxSize = 0] IN Step(s, t, r) /\ End(t)
<1> DEFINE t == [s EXCEPT !.rxSize = 0]
<1>0. s \in Socket
  BY LinkTypes
<1>1. /\ t \in Socket /\ SameOffer(s, t) /\ SameTaken(s, t) /\ SameApp(s, t)
      /\ SameTimers(s, t) /\ t.endPoint = s.endPoint /\ t.state = s.state /\ t.out = s.out
  <2>1. t \in Socket
    BY <1>0 DEF Socket
  <2> QED  BY <1>0, <2>1 DEF Socket, SameOffer, SameTaken, SameApp, SameTimers
<1> HIDE DEF t
<1>2. Step(s, t, r)
  BY <1>0, <1>1, Fields, EventStep DEF SameApp, SameTimers
<1>3. End(t)
  BY <1>1 DEF End, Timed, Open, Asked, Settled, SameApp, SameOffer, SameTimers, Aborted, Written
<1> QED  BY <1>2, <1>3 DEF t

\* Close.
LEMMA CloseStep ==
  ASSUME NEW s, NEW r, Link(s, r), End(s), Held(s)
  PROVE  LET t == [DoCloseSocket(s) EXCEPT !.closed = TRUE] IN Step(s, t, r) /\ End(t)
<1> DEFINE u == DoCloseSocket(s)
           t == [u EXCEPT !.closed = TRUE]
<1>1. Step(s, u, r) /\ Settled(u) /\ Timed(u)
  BY CloseSocketStep DEF End, Held
<1> HIDE DEF u
<1>2. s \in Socket /\ Link(u, r) /\ u \in Socket
  BY <1>1, LinkTypes DEF Step, Link
<1>3. /\ t \in Socket /\ SameOffer(u, t) /\ SameTaken(u, t)
      /\ SameTimers(u, t) /\ t.endPoint = u.endPoint /\ t.state = u.state /\ t.out = u.out
      /\ t.closed
  <2>1. t \in Socket
    BY <1>2 DEF Socket
  <2> QED  BY <1>2, <2>1 DEF Socket, SameOffer, SameTaken, SameTimers
<1> HIDE DEF t
<1>4. Step(u, t, r)
  BY <1>2, <1>3, Fields, EventStep DEF SameTimers
<1>5. Step(s, t, r)
  BY <1>1, <1>2, <1>4, StepTrans
<1>6. End(t)
  BY <1>1, <1>3 DEF End, Timed, Open, Asked, Settled, SameOffer, SameTimers
<1> QED  BY <1>5, <1>6 DEF t, u

\* ShutdownSend.
LEMMA ShutdownSendStep ==
  ASSUME NEW s, NEW r, Link(s, r), End(s), Held(s)
  PROVE  LET t == DoShutdownSend(s) IN Step(s, t, r) /\ End(t)
<1> DEFINE u == [s EXCEPT !.shutdownSend = TRUE, !.closeOnEmpty = TRUE]
           t == DoShutdownSend(s)
<1>0. s \in Socket /\ Numbered(s) /\ Stated(s) /\ s.endPoint /\ ~s.closed /\ ~Aborted(s)
  BY LinkTypes DEF Held, End, Asked
<1>1. /\ u \in Socket /\ SameOffer(s, u) /\ SameTaken(s, u) /\ SameTimers(s, u)
      /\ u.endPoint = s.endPoint /\ u.state = s.state /\ u.out = s.out
      /\ u.closed = s.closed /\ u.shutdownSend
  <2>1. u \in Socket
    BY <1>0 DEF Socket
  <2> QED  BY <1>0, <2>1 DEF Socket, SameOffer, SameTaken, SameTimers
<1>2. t = IF s.size = 0 /\ s.state \in {"ESTABLISHED", "CLOSE_WAIT"}
          THEN [SendEmptyPacket(u, {"FIN"}) EXCEPT !.state = StateAfterFin(@)]
          ELSE u
  BY DEF DoShutdownSend
<1> HIDE DEF u
<1>3. Step(s, u, r) /\ Link(u, r)
  <2>1. Step(s, u, r)
    BY <1>0, <1>1, Fields, EventStep DEF SameTimers
  <2> QED  BY <2>1 DEF Step
<1>4. ~Aborted(u) /\ End(u)
  BY <1>0, <1>1 DEF End, Timed, Open, Asked, Settled, SameOffer, SameTimers, Aborted, Written
<1>5. CASE s.size = 0 /\ s.state \in {"ESTABLISHED", "CLOSE_WAIT"}
  <2> DEFINE state == StateAfterFin(s.state)
             v == [SendEmptyPacket(u, {"FIN"}) EXCEPT !.state = state]
  <2>1. state \in {"FIN_WAIT_1", "LAST_ACK"}
    BY <1>5 DEF StateAfterFin
  <2>2. t = v
    <3> DEFINE w == SendEmptyPacket(u, {"FIN"})
    <3>1. w \in Socket /\ w.state = s.state
      BY <1>1, FinFields DEF Packet
    <3>2. t = [w EXCEPT !.state = StateAfterFin(@)]
      BY <1>2, <1>5
    <3> HIDE DEF w, t
    <3>3. t = [w EXCEPT !.state = state]
      BY <3>1, <3>2 DEF Socket
    <3> QED  BY <3>3 DEF w
  <2> HIDE DEF state, t
  <2>3. Packet(u, v, FinAck, TRUE) /\ v.state = state
    <3>1. state \in States
      BY <2>1 DEF States
    <3> QED  BY <1>1, <3>1, FinToState
  <2> HIDE DEF v
  <2>4. s.connected /\ Connected(s)
    BY <1>0, <1>5 DEF Numbered, Unconnected, Opening
  <2>5. u.connected /\ (Written(u) => u.high = 2) /\ u.rxNext >= 1
    BY <1>0, <1>1, <1>5, <2>4 DEF SameOffer, SameTaken, Connected, Stated, Written
  <2>6. OnlyData(u) /\ Open(u) /\ ~u.closed
    BY <1>0, <1>1, <1>4, <1>5 DEF End, Timed, OnlyData, Open
  <2>7. Step(u, v, r) /\ Settled(v) /\ Timed(v)
    BY <1>1, <1>3, <1>5, <2>1, <2>3, <2>5, <2>6, FinCloses
  <2>8. Asked(v)
    BY <1>1, <2>3, <2>5 DEF Asked, Packet, SameApp, SameOffer, Aborted
  <2>9. Step(s, v, r)
    BY <1>0, <1>3, <2>7, StepTrans
  <2> QED  BY <2>2, <2>7, <2>8, <2>9 DEF End, t
<1>6. CASE ~(s.size = 0 /\ s.state \in {"ESTABLISHED", "CLOSE_WAIT"})
  <2>1. t = u
    BY <1>2, <1>6
  <2> QED  BY <1>3, <1>4, <2>1
<1> QED  BY <1>5, <1>6

\* The event that Send has scheduled.
LEMMA SendPendingDataEventStep ==
  ASSUME NEW s, NEW r, Link(s, r), End(s), s.sendEvent
  PROVE  LET t == SendPendingData([s EXCEPT !.sendEvent = FALSE]) IN Step(s, t, r) /\ End(t)
<1> DEFINE u == [s EXCEPT !.sendEvent = FALSE]
           t == SendPendingData(u)
<1>0. s \in Socket /\ (s.connected \/ Aborted(s))
  BY LinkTypes DEF Numbered, Unconnected
<1>1. /\ u \in Socket /\ SameOffer(s, u) /\ SameTaken(s, u) /\ SameApp(s, u)
      /\ u.retxEvent = s.retxEvent /\ ~u.sendEvent /\ u.lastAckEvent = s.lastAckEvent
      /\ u.timewaitEvent = s.timewaitEvent /\ u.endPoint = s.endPoint
      /\ u.state = s.state /\ u.out = s.out
  <2>1. u \in Socket
    BY <1>0 DEF Socket
  <2> QED  BY <1>0, <2>1 DEF Socket, SameOffer, SameTaken, SameApp
<1> HIDE DEF u
<1>2. Step(s, u, r)
  BY <1>0, <1>1, Fields, EventStep DEF SameApp
<1>3. Link(u, r) /\ (u.connected \/ Aborted(u))
  BY <1>0, <1>2 DEF Step, Later
<1>4. End(u)
  BY <1>1 DEF End, Timed, Open, Asked, Settled, SameApp, SameOffer, Aborted, Written
<1>5. Step(u, t, r) /\ End(t)
  BY <1>3, <1>4, PendingStep
<1> HIDE DEF t
<1>6. Step(s, t, r)
  BY <1>0, <1>2, <1>5, StepTrans
<1> QED  BY <1>5, <1>6 DEF t, u

\* The end of TIME_WAIT.
LEMMA TimeWaitEventStep ==
  ASSUME NEW s, NEW r, Link(s, r), End(s), s.timewaitEvent
  PROVE  LET t == CloseAndNotify([s EXCEPT !.timewaitEvent = FALSE])
         IN  Step(s, t, r) /\ End(t)
<1> DEFINE u == [s EXCEPT !.timewaitEvent = FALSE]
           t == CloseAndNotify(u)
<1>0. s \in Socket
  BY LinkTypes
<1>1. /\ u \in Socket /\ SameOffer(s, u) /\ SameTaken(s, u) /\ SameApp(s, u)
      /\ u.retxEvent = s.retxEvent /\ u.sendEvent = s.sendEvent
      /\ u.lastAckEvent = s.lastAckEvent /\ ~u.timewaitEvent
      /\ u.endPoint = s.endPoint /\ u.state = s.state /\ u.out = s.out
  <2>1. u \in Socket
    BY <1>0 DEF Socket
  <2> QED  BY <1>0, <2>1 DEF Socket, SameOffer, SameTaken, SameApp
<1> HIDE DEF u
<1>2. Step(s, u, r)
  BY <1>0, <1>1, Fields, EventStep DEF SameApp
<1>3. Link(u, r)
  BY <1>2 DEF Step
<1>4. End(u)
  BY <1>1 DEF End, Timed, Open, Asked, Settled, SameApp, SameOffer, Aborted, Written
<1>5. Step(u, t, r) /\ End(t)
  BY <1>3, <1>4, CloseAndNotifyStep
<1> HIDE DEF t
<1>6. Step(s, t, r)
  BY <1>0, <1>2, <1>5, StepTrans
<1> QED  BY <1>5, <1>6 DEF t, u

-----------------------------------------------------------------------------
(***************************************************************************)
(* The two ends and the network                                            *)
(***************************************************************************)
LEMMA OtherEnd ==
  ASSUME NEW p \in Peers
  PROVE  /\ Other(p) \in Peers /\ Other(p) # p /\ Other(Other(p)) = p
         /\ \A q \in Peers : q = p \/ q = Other(p)
<1>1. PICK x : Peers \ {p} = {x}
  <2>1. IsFiniteSet(Peers \ {p}) /\ Cardinality(Peers \ {p}) = 1
    BY PeersAssumption, FS_RemoveElement
  <2> QED  BY <2>1, FS_Singleton
<1>2. x \in Peers /\ x # p /\ \A q \in Peers : q = p \/ q = x
  BY <1>1
<1>3. Other(p) = x
  BY <1>2 DEF Other
<1>4. Other(x) = p
  BY <1>2 DEF Other
<1> QED  BY <1>2, <1>3, <1>4

\* The socket of p goes on to a state that keeps its promises.
Advances(p) ==
    \E t, used : /\ Step(sock[p], t, sock[Other(p)]) /\ End(t)
                 /\ Handle(p, t, used)

\* A handler at one end: its segments get into the network, or none does.
LEMMA HandlePreserves ==
  ASSUME IInv, NEW p \in Peers, Advances(p)
  PROVE  /\ IInv'
         /\ sock[p].size = 1 /\ sock'[p].size = 0 => sock[Other(p)].got = 1
         /\ \A q \in Peers \ {p} : sock'[q] = sock[q]
<1> DEFINE q == Other(p)
           s == sock[p]
           r == sock[q]
<1>0. /\ q \in Peers /\ q # p /\ Other(q) = p /\ \A x \in Peers : x = p \/ x = q
  BY OtherEnd
<1> HIDE DEF q
<1>1. PICK t, used : Step(s, t, r) /\ End(t) /\ Handle(p, t, used)
  BY DEF Advances, q
<1> DEFINE u == [t EXCEPT !.out = {}]
<1>2. /\ s \in Socket /\ r \in Socket /\ t \in Socket /\ Link(t, r) /\ Later(s, t, r)
      /\ Link(r, s) /\ End(r)
      /\ r.out = {} /\ t.out \in SUBSET Segment
  BY <1>0, <1>1, Fields DEF IInv, Step, Link, End
<1>3. /\ u \in Socket /\ SameOffer(t, u) /\ SameTaken(t, u) /\ SameApp(t, u)
      /\ SameTimers(t, u) /\ u.endPoint = t.endPoint /\ u.state = t.state /\ u.out = {}
  <2>1. u \in Socket
    BY <1>2 DEF Socket
  <2> QED  BY <1>2, <2>1 DEF Socket, SameOffer, SameTaken, SameApp, SameTimers
<1> HIDE DEF u
<1>4. /\ sock' \in [Peers -> Socket] /\ sock'[p] = u /\ sock'[q] = r
  <2>1. sock' = [sock EXCEPT ![p] = u] /\ sock \in [Peers -> Socket]
    BY <1>1 DEF Handle, u, IInv
  <2> QED  BY <1>0, <1>3, <2>1
<1>5. /\ net' \in [Peers -> SUBSET Segment]
      /\ net'[p] \subseteq net[p] /\ net'[q] \subseteq net[q] \cup t.out
  <2> DEFINE queue == Enqueue(net[q], t.out)
  <2>1. net \in [Peers -> SUBSET Segment]
    BY DEF IInv
  <2>2. queue \subseteq net[q] \cup t.out
    BY DEF Enqueue
  <2>3. net' = [net EXCEPT ![p] = net[p] \ used, ![q] = queue]
    BY <1>0, <1>1, <2>1 DEF Handle, q
  <2> HIDE DEF queue
  <2>4. queue \in SUBSET Segment /\ net[p] \ used \in SUBSET Segment
    BY <1>0, <1>2, <2>1, <2>2
  <2> QED  BY <1>0, <2>1, <2>2, <2>3, <2>4
<1>6. (Aborted(t) <=> Aborted(u)) /\ (Final(t) <=> Final(u))
  BY <1>3 DEF Aborted, Final, CanWrite, Open, SameOffer, SameApp, Written
<1>7. Link(u, r) /\ Later(s, u, r)
  <2>1. Numbered(u)
    BY <1>2, <1>3, <1>6
       DEF Link, Numbered, Unconnected, Connected, SameOffer, SameTimers, Written
  <2>2. Stated(u)
    BY <1>2, <1>3 DEF Link, Stated, SameOffer, SameTaken, SameTimers, Written
  <2>3. Step(t, u, r)
    BY <1>2, <1>3, <1>6, <2>1, <2>2, Kept
  <2> QED  BY <1>1, <1>2, <2>3, StepTrans DEF Step
<1>8. Link(r, u)
  BY <1>2, <1>7 DEF Link
<1>9. Timed(u) /\ Asked(u) /\ Settled(u)
  BY <1>1, <1>3, <1>6
     DEF End, Timed, Open, Asked, Settled, SameApp, SameOffer, SameTimers
<1>10. \A seg \in net'[p] : Sent(seg, r, u)
  <2>1. \A seg \in net[p] : Sent(seg, r, s)
    BY <1>0 DEF IInv, q
  <2> QED  BY <1>2, <1>3, <1>5, <1>7, <2>1, StillSent
<1>11. \A seg \in net'[q] : Sent(seg, u, r)
  <2>1. \A seg \in net[q] : Sent(seg, s, r)
    BY <1>0 DEF IInv
  <2>2. \A seg \in t.out : Sent(seg, t, r)
    BY <1>2 DEF Link
  <2>3. Later(t, u, r)
    BY <1>3, <1>2, <1>6, Fields DEF Later, SameOffer, SameTaken, Written
  <2> QED  BY <1>2, <1>3, <1>5, <1>7, <2>1, <2>2, <2>3, StillSent
<1>12. ASSUME NEW x \in Peers
       PROVE  /\ sock'[x].out = {}
              /\ Link(sock'[x], sock'[Other(x)])
              /\ Timed(sock'[x]) /\ Asked(sock'[x]) /\ Settled(sock'[x])
              /\ \A seg \in net'[x] : Sent(seg, sock'[Other(x)], sock'[x])
  <2>1. CASE x = p
    BY <1>3, <1>4, <1>7, <1>9, <1>10, <2>1 DEF q
  <2>2. CASE x = q
    BY <1>0, <1>2, <1>4, <1>8, <1>11, <2>2 DEF End
  <2> QED  BY <1>0, <2>1, <2>2
<1>13. IInv'
  BY <1>4, <1>5, <1>12 DEF IInv
<1>14. s.size = 1 /\ u.size = 0 => r.got = 1
  BY <1>7 DEF Later
<1>15. \A x \in Peers \ {p} : sock'[x] = sock[x]
  BY <1>0, <1>4
<1> QED  BY <1>4, <1>13, <1>14, <1>15 DEF q

\* A segment is lost.
LEMMA LosePreserves ==
  ASSUME IInv, NEW p \in Peers, Lose(p)
  PROVE  IInv' /\ sock' = sock
<1>1. PICK seg \in net[p] : net' = [net EXCEPT ![p] = @ \ {seg}] /\ UNCHANGED sock
  BY DEF Lose
<1>2. net \in [Peers -> SUBSET Segment]
  BY DEF IInv
<1>3. net' \in [Peers -> SUBSET Segment] /\ \A x \in Peers : net'[x] \subseteq net[x]
  BY <1>1, <1>2
<1> QED  BY <1>1, <1>3 DEF IInv

-----------------------------------------------------------------------------
(***************************************************************************)
(* Every action                                                            *)
(***************************************************************************)
LEMMA ApplicationAdvances ==
  ASSUME IInv, NEW p \in Peers, Application(p) PROVE Advances(p)
<1> DEFINE s == sock[p]
           r == sock[Other(p)]
<1>0. Link(s, r) /\ End(s) /\ s \in Socket
  BY LinkTypes DEF IInv, End
<1>1. CASE Connect(p)
  <2> DEFINE t == DoConnect([s EXCEPT !.synCount = SynRetries,
                                      !.dataRetrCount = DataRetries])
  <2>1. Handle(p, t, {}) /\ s.endPoint /\ s.state = "CLOSED"
    BY <1>1 DEF Connect
  <2>2. Step(s, t, r) /\ End(t)
    BY <1>0, <2>1, ConnectStep
  <2> QED  BY <2>1, <2>2 DEF Advances
<1>2. CASE Listen(p)
  <2> DEFINE t == [s EXCEPT !.state = "LISTEN"]
  <2>1. Handle(p, t, {}) /\ s.endPoint /\ s.state = "CLOSED"
    BY <1>2 DEF Listen
  <2>2. Step(s, t, r) /\ End(t)
    BY <1>0, <2>1, ListenCallStep
  <2> QED  BY <2>1, <2>2 DEF Advances
<1>3. CASE Send(p)
  <2> DEFINE accepted == ~s.shutdownSend
             wrote == IF accepted THEN "accepted" ELSE "refused"
             event == accepted /\ s.state # "SYN_SENT"
             t == [s EXCEPT !.size = 1, !.written = wrote, !.sendEvent = event]
  <2>1. /\ Held(s) /\ s.written = "nothing"
        /\ s.state \in {"ESTABLISHED", "SYN_SENT", "CLOSE_WAIT"}
        /\ Handle(p, t, {})
    BY <1>3 DEF Send
  <2>2. /\ wrote \in {"nothing", "accepted", "refused"} /\ wrote # "nothing"
        /\ event \in BOOLEAN /\ (event => s.state # "SYN_SENT")
    OBVIOUS
  <2> HIDE DEF wrote, event
  <2>3. /\ t \in Socket /\ SameTaken(s, t) /\ SameApp(s, t)
        /\ t.state = s.state /\ t.endPoint = s.endPoint /\ t.connected = s.connected
        /\ t.head = s.head /\ t.next = s.next /\ t.high = s.high /\ t.size = 1
        /\ t.written = wrote /\ t.sendEvent = event
        /\ t.retxEvent = s.retxEvent /\ t.lastAckEvent = s.lastAckEvent
        /\ t.timewaitEvent = s.timewaitEvent /\ t.out = s.out
    <3> DEFINE u == [s EXCEPT !.size = 1]
               v == [u EXCEPT !.written = wrote]
    <3>1. t = [v EXCEPT !.sendEvent = event]
      OBVIOUS
    <3>2. u \in Socket
      BY <1>0 DEF Socket
    <3> HIDE DEF u
    <3>3. v \in Socket
      BY <2>2, <3>2 DEF Socket
    <3> HIDE DEF v, t
    <3>4. t \in Socket
      BY <2>2, <3>1, <3>3 DEF Socket
    <3> QED  BY <1>0, <3>4 DEF Socket, SameTaken, SameApp, t
  <2> HIDE DEF t
  <2>4. Written(t)
    BY <2>2, <2>3 DEF Written
  <2>5. Step(s, t, r) /\ End(t)
    BY <1>0, <2>1, <2>2, <2>3, <2>4, SendStep
  <2> QED  BY <2>1, <2>5 DEF Advances
<1>4. CASE Recv(p)
  <2> DEFINE t == [s EXCEPT !.rxSize = 0]
  <2>1. Handle(p, t, {})
    BY <1>4 DEF Recv
  <2>2. Step(s, t, r) /\ End(t)
    BY <1>0, RecvStep
  <2> QED  BY <2>1, <2>2 DEF Advances
<1>5. CASE Close(p)
  <2> DEFINE t == [DoCloseSocket(s) EXCEPT !.closed = TRUE]
  <2>1. Handle(p, t, {}) /\ Held(s)
    BY <1>5 DEF Close
  <2>2. Step(s, t, r) /\ End(t)
    BY <1>0, <2>1, CloseStep
  <2> QED  BY <2>1, <2>2 DEF Advances
<1>6. CASE ShutdownSend(p)
  <2> DEFINE t == DoShutdownSend(s)
  <2>1. Handle(p, t, {}) /\ Held(s)
    BY <1>6 DEF ShutdownSend
  <2>2. Step(s, t, r) /\ End(t)
    BY <1>0, <2>1, ShutdownSendStep
  <2> QED  BY <2>1, <2>2 DEF Advances
<1> QED  BY <1>1, <1>2, <1>3, <1>4, <1>5, <1>6 DEF Application

\* Every event that is scheduled advances its socket,
LEMMA EventAdvances ==
  ASSUME IInv, NEW p \in Peers, Event(p) PROVE Advances(p)
<1> DEFINE s == sock[p]
           r == sock[Other(p)]
<1>0. Link(s, r) /\ End(s) /\ s \in Socket /\ Stated(s)
  BY LinkTypes DEF IInv, End
<1>1. CASE SendPendingDataEvent(p)
  <2> DEFINE t == SendPendingData([s EXCEPT !.sendEvent = FALSE])
  <2>1. Handle(p, t, {}) /\ s.sendEvent
    BY <1>1 DEF SendPendingDataEvent
  <2>2. Step(s, t, r) /\ End(t)
    BY <1>0, <2>1, SendPendingDataEventStep
  <2> QED  BY <2>1, <2>2 DEF Advances
<1>2. CASE RetxEvent(p)
  <2> DEFINE u == [s EXCEPT !.retxEvent = NoEvent]
             e == s.retxEvent
             t == IF e = Timeout THEN ReTxTimeout(u) ELSE SendEmptyPacket(u, e)
  <2>1. Handle(p, t, {}) /\ e # NoEvent
    BY <1>2 DEF RetxEvent
  <2>2. s.endPoint /\ e \in {SYN, SynAck, FinAck, Timeout}
    BY <1>0, <2>1, Fields DEF Stated
  <2>3. Step(s, t, r) /\ End(t)
    <3>1. CASE e = Timeout
      <4>1. t = ReTxTimeout(u)
        BY <3>1
      <4> HIDE DEF t
      <4> QED  BY <1>0, <2>2, <3>1, <4>1, ReTxTimeoutStep
    <3>2. CASE e \in {SYN, SynAck}
      <4>1. t = SendEmptyPacket(u, e)
        BY <3>2, Marks
      <4> HIDE DEF t
      <4> QED  BY <1>0, <2>2, <3>2, <4>1, RepeatSynStep
    <3>3. CASE e = FinAck
      <4>1. t = SendEmptyPacket(u, FinAck)
        BY <3>3, Marks
      <4> HIDE DEF t
      <4>2. /\ Step(s, u, r) /\ SameOffer(s, u) /\ SameTaken(s, u) /\ SameApp(s, u)
            /\ u.sendEvent = s.sendEvent /\ u.state = s.state /\ u.endPoint
            /\ u.retxEvent = NoEvent
        BY <1>0, <2>2, ExpiredStep DEF SameEvents
      <4> HIDE DEF u
      <4>3. Step(s, t, r) /\ Asked(t) /\ Settled(t) /\ Timed(t)
        BY <1>0, <2>2, <3>3, <4>1, <4>2, RepeatFinStep
      <4> QED  BY <4>3 DEF End
    <3> QED  BY <2>2, <3>1, <3>2, <3>3
  <2> QED  BY <2>1, <2>3 DEF Advances
<1>3. CASE LastAckTimeout(p)
  <2> DEFINE t == DoLastAckTimeout([s EXCEPT !.lastAckEvent = FALSE])
  <2>1. Handle(p, t, {}) /\ s.lastAckEvent
    BY <1>3 DEF LastAckTimeout
  <2>2. Step(s, t, r) /\ End(t)
    BY <1>0, <2>1, DoLastAckTimeoutStep
  <2> QED  BY <2>1, <2>2 DEF Advances
<1>4. CASE TimeWaitEvent(p)
  <2> DEFINE t == CloseAndNotify([s EXCEPT !.timewaitEvent = FALSE])
  <2>1. Handle(p, t, {}) /\ s.timewaitEvent
    BY <1>4 DEF TimeWaitEvent
  <2>2. Step(s, t, r) /\ End(t)
    BY <1>0, <2>1, TimeWaitEventStep
  <2> QED  BY <2>1, <2>2 DEF Advances
<1> QED  BY <1>1, <1>2, <1>3, <1>4 DEF Event

\* as does every segment that arrives.
LEMMA ReceiveAdvances ==
  ASSUME IInv, NEW p \in Peers, Receive(p) PROVE Advances(p)
<1> DEFINE s == sock[p]
           r == sock[Other(p)]
<1>0. Link(s, r) /\ End(s) /\ s \in Socket
  BY LinkTypes DEF IInv, End
<1>1. PICK seg \in net[p] :
         Handle(p, IF s.endPoint THEN ForwardUp(s, seg) ELSE NoEndPoint(s, seg), {seg})
  BY DEF Receive
<1>2. Sent(seg, r, s) /\ seg \in Segment
  BY DEF IInv, Sent
<1>3. CASE s.endPoint
  <2> DEFINE t == ForwardUp(s, seg)
  <2>1. Handle(p, t, {seg})
    BY <1>1, <1>3
  <2>2. Step(s, t, r) /\ End(t)
    BY <1>0, <1>2, <1>3, ForwardUpStep
  <2> QED  BY <2>1, <2>2 DEF Advances
<1>4. CASE ~s.endPoint
  <2> DEFINE t == NoEndPoint(s, seg)
  <2>1. Handle(p, t, {seg})
    BY <1>1, <1>4
  <2>2. Step(s, t, r) /\ End(t)
    BY <1>0, <1>2, NoEndPointStep
  <2> QED  BY <2>1, <2>2 DEF Advances
<1> QED  BY <1>3, <1>4

\* The invariant is inductive, and data freed has been received.
LEMMA NextPreserves ==
  ASSUME IInv, [Next]_vars
  PROVE  /\ IInv'
         /\ \A p \in Peers : sock[p].size = 1 /\ sock'[p].size = 0
                                => sock[Other(p)].got = 1
<1>1. CASE UNCHANGED vars
  BY <1>1 DEF vars, IInv
<1>2. CASE Next
  <2>1. PICK p \in Peers : Application(p) \/ Event(p) \/ Receive(p) \/ Lose(p)
    BY <1>2 DEF Next
  <2>2. CASE Lose(p)
    <3>1. IInv' /\ sock' = sock
      BY <2>2, LosePreserves
    <3> QED  BY <3>1
  <2>3. CASE Application(p) \/ Event(p) \/ Receive(p)
    <3>1. Advances(p)
      BY <2>3, ApplicationAdvances, EventAdvances, ReceiveAdvances
    <3>2. /\ IInv'
          /\ sock[p].size = 1 /\ sock'[p].size = 0 => sock[Other(p)].got = 1
          /\ \A q \in Peers \ {p} : sock'[q] = sock[q]
      BY <3>1, HandlePreserves
    <3>3. \A q \in Peers : sock[q].size = 1 /\ sock'[q].size = 0 => sock[Other(q)].got = 1
      BY <3>2
    <3> QED  BY <3>2, <3>3
  <2> QED  BY <2>1, <2>2, <2>3
<1> QED  BY <1>1, <1>2

\* Two new sockets.
LEMMA InitHolds == Init => IInv
<1> SUFFICES ASSUME Init PROVE IInv
  OBVIOUS
<1> DEFINE s0 == [ state |-> "CLOSED", endPoint |-> TRUE, listener |-> FALSE,
           connected |-> FALSE, closeOnEmpty |-> FALSE, shutdownSend |-> FALSE,
           closeNotified |-> FALSE, synCount |-> SynRetries,
           dataRetrCount |-> DataRetries, retxEvent |-> NoEvent,
           sendEvent |-> FALSE, lastAckEvent |-> FALSE,
           timewaitEvent |-> FALSE, head |-> 0, size |-> 0, next |-> 0,
           high |-> 0, rxNext |-> 0, rxSize |-> 0, gotFin |-> FALSE,
           finSeq |-> 0, written |-> "nothing",
           closed |-> FALSE, got |-> 0, out |-> {} ]
<1>1. sock = [p \in Peers |-> s0] /\ net = [p \in Peers |-> {}]
  BY DEF Init
<1>2. s0 \in Socket
  BY RetriesAssumption DEF Socket, States, Seqs
<1>3. /\ s0.state = "CLOSED" /\ s0.endPoint /\ ~s0.connected /\ s0.retxEvent = NoEvent
      /\ ~s0.sendEvent /\ s0.head = 0 /\ s0.next = 0 /\ s0.high = 0 /\ s0.size = 0
      /\ s0.rxNext = 0 /\ ~s0.gotFin /\ s0.written = "nothing" /\ s0.out = {}
      /\ ~s0.closeOnEmpty
  OBVIOUS
<1> HIDE DEF s0
<1>4. ~Aborted(s0) /\ ~Written(s0)
  BY <1>3 DEF Aborted, Written
<1>5. Numbered(s0) /\ Stated(s0)
  BY <1>3, <1>4, Marks DEF Numbered, Unconnected, Stated, Opening
<1>6. Heard(s0, s0)
  BY <1>3, <1>4 DEF Heard
<1>7. Timed(s0) /\ Asked(s0) /\ Settled(s0)
  BY <1>3, <1>4 DEF Timed, Open, Asked, Settled
<1>8. Link(s0, s0)
  BY <1>2, <1>3, <1>5, <1>6 DEF Link
<1>9. \A p \in Peers : sock[p] = s0 /\ sock[Other(p)] = s0 /\ net[p] = {}
  BY <1>1, OtherEnd
<1> QED  BY <1>1, <1>2, <1>3, <1>7, <1>8, <1>9 DEF IInv

-----------------------------------------------------------------------------
(***************************************************************************)
(* The theorems                                                            *)
(***************************************************************************)
\* The invariant that all of the rest follows from.
THEOREM Inductive == Spec => []IInv
<1>1. IInv /\ [Next]_vars => IInv'
  BY NextPreserves
<1> QED  BY InitHolds, <1>1, PTL DEF Spec

\* Sockets and segments have their types: the counters of retries stay within
\* their bounds whatever is lost and whoever connects to whom.
THEOREM TypeCorrect == Spec => []TypeOK
<1>1. IInv => TypeOK
  BY DEF IInv, TypeOK
<1> QED  BY Inductive, <1>1, PTL

\* A connected socket knows that its SYN has arrived.
THEOREM Agreed == Spec => []HandshakeAgreed
<1>1. IInv => HandshakeAgreed
  <2> SUFFICES ASSUME IInv, NEW p \in Peers, sock[p].connected
               PROVE  sock[Other(p)].rxNext >= 1
    BY DEF HandshakeAgreed
  <2>1. Heard(sock[Other(p)], sock[p])
    BY DEF IInv, Link
  <2> QED  BY <2>1 DEF Heard
<1> QED  BY Inductive, <1>1, PTL

\* The end of file follows all of the data.
THEOREM DataBeforeEof == Spec => []EofAfterData
<1>1. IInv => EofAfterData
  <2> SUFFICES ASSUME IInv, NEW p \in Peers, Finished(sock[p]),
                      sock[Other(p)].written = "accepted"
               PROVE  sock[p].got = 1
    BY DEF EofAfterData
  <2> DEFINE s == sock[p]
             r == sock[Other(p)]
  <2>1. Heard(s, r) /\ Numbered(r) /\ s \in Socket
    BY DEF IInv, Link
  <2>2. Written(r) /\ ~Aborted(r) /\ s.gotFin /\ s.finSeq < s.rxNext
    BY DEF Written, Aborted, Finished
  <2>3. r.connected
    BY <2>1, <2>2 DEF Heard
  <2>4. s.finSeq >= 2 \/ (s.got = 1 /\ s.rxNext >= 2)
    BY <2>1, <2>2, <2>3 DEF Heard, Final
  <2>5. s.rxNext >= 2
    BY <2>1, <2>2, <2>4, Fields
  <2> QED  BY <2>1, <2>2, <2>3, <2>5 DEF Heard
<1> QED  BY Inductive, <1>1, PTL

\* A socket in FIN_WAIT_2 was right to take the ACK for that of its FIN.
THEOREM FinTaken == Spec => []FinArrived
<1>1. IInv => FinArrived
  <2> SUFFICES ASSUME IInv, NEW p \in Peers, sock[p].state = "FIN_WAIT_2", sock[p].connected
               PROVE  Finished(sock[Other(p)])
    BY DEF FinArrived
  <2>1. Heard(sock[Other(p)], sock[p])
    BY DEF IInv, Link
  <2> QED  BY <2>1 DEF Heard
<1> QED  BY Inductive, <1>1, PTL

\* A timer runs for all that may be lost.
THEOREM AlwaysTimed == Spec => []WaitingTimed
<1>1. IInv => WaitingTimed
  <2> SUFFICES ASSUME IInv, NEW p \in Peers, sock[p].endPoint,
                      \/ sock[p].state \in {"SYN_SENT", "SYN_RCVD", "FIN_WAIT_1",
                                            "CLOSING", "LAST_ACK"}
                      \/ /\ sock[p].state \in {"ESTABLISHED", "CLOSE_WAIT"}
                         /\ sock[p].head < sock[p].high
               PROVE  sock[p].retxEvent # NoEvent \/ sock[p].lastAckEvent
    BY DEF WaitingTimed
  <2>1. Timed(sock[p]) /\ Settled(sock[p]) /\ sock[p] \in Socket
    BY DEF IInv
  <2> QED  BY <2>1, Marks, Fields DEF Timed, Settled, Open, Opening
<1> QED  BY Inductive, <1>1, PTL

\* Data leaves the transmission buffer only when the other end has it.
THEOREM FreedOnceReceived == Spec => FreedWhenReceived
<1>1. IInv /\ [Next]_vars
        => [\A p \in Peers :
               sock[p].size = 1 /\ sock'[p].size = 0 => sock[Other(p)].got = 1]_vars
  BY NextPreserves
<1> QED  BY Inductive, <1>1, PTL DEF Spec, FreedWhenReceived
=============================================================================
