-------------------------- MODULE FlowControlProofs --------------------------
(***************************************************************************)
(* Theorems about FlowControl, for every amount of data, every size of a   *)
(* segment, of a buffer, of a window and of what is written and read.      *)
(*                                                                         *)
(* What the sender believes of the window stays below what the receiver    *)
(* has room for, because every ACK on its way does: the receiver never     *)
(* takes room back.  The timers are harder.  The sender loses its          *)
(* retransmission timer in one way that matters: a timeout after which     *)
(* nothing can be sent.  Then everything is marked lost, and stays so      *)
(* until an ACK of new data comes or something is sent, which both start   *)
(* the timer again; and nothing is sent only for want of a window.         *)
(***************************************************************************)
EXTENDS FlowControl, Arithmetic

\* The order of the sender's marks in the sequence space.
OrderedMarks(s) ==
    /\ s.head <= s.resent /\ s.resent <= s.lost /\ s.lost <= s.sent
    /\ s.sent <= s.highTxMark /\ s.highTxMark <= s.tail
    /\ s.head <= s.nextTx /\ s.nextTx <= s.highTxMark
    /\ s.head <= s.highRxAckMark
    /\ ~s.heard => s.highRxAckMark = 0

\* The sender within what the receiver has in order (n) and has room for (m).
Within(s, n, m) ==
    /\ s.highRxAckMark <= n
    /\ s.highRxAckMark + s.rWnd <= m
    /\ s.sent <= m

\* A segment ends at what is sent and has room; a probe may end one byte later.
SegmentFits(d, high, m) ==
    /\ d.seq + d.len <= NumBytes
    /\ d.seq + d.len <= IF d.ack THEN Smaller(high, m) ELSE high + 1

\* An ACK never promises more than there is room for.  That of an empty buffer opens
\* the window: an ACK closes it only if it acknowledges something.
AckFits(a, n, m) ==
    /\ a.ack <= n
    /\ a.ack + a.wnd * 2 ^ WindShift <= m
    /\ a.ack = 0 => a.wnd >= 1

ReceiverFits(r, high) ==
    /\ r.read <= r.next /\ r.next <= MaxRxSequence(r)
    /\ r.next <= high + 1
    /\ \A x \in r.held : x < NumBytes /\ x <= high /\ x < MaxRxSequence(r)

PersistIffClosed(s) == s.endPoint => (s.rWnd = 0 <=> s.persistEvent)

\* What a timeout leaves, but for what it resends, and the byte of a probe.
AllLost(s) ==
    /\ s.lost = s.sent /\ s.guessed = 0 /\ s.inLoss
    /\ \/ s.resent = s.head
       \/ s.resent = s.head + 1 /\ s.nextTx = s.head /\ s.sent < s.tail

Untimed(s) ==
    /\ NoDelay /\ s.endPoint /\ s.head < s.highTxMark
    /\ ~s.retxEvent /\ s.highRxAckMark <= s.highTxMark

\* The timer is missing only where nothing could be sent.
Timed(s) ==
    Untimed(s) => AllLost(s) /\ AvailableWindow(s) < SegSize

\* What every step of the sender's handlers keeps.
Sound(s, n, m) ==
    /\ s \in SenderState
    /\ OrderedMarks(s) /\ Within(s, n, m)
    /\ \A d \in s.out : SegmentFits(d, s.highTxMark, m)

\* Each handler starts and ends healthy.
Healthy(s, n, m) == Sound(s, n, m) /\ PersistIffClosed(s) /\ Timed(s)

IInv ==
    /\ TypeOK
    /\ snd.out = {} /\ Healthy(snd, rcv.next, MaxRxSequence(rcv))
    /\ \A d \in data : SegmentFits(d, snd.highTxMark, MaxRxSequence(rcv))
    /\ \A a \in acks : AckFits(a, rcv.next, MaxRxSequence(rcv))
    /\ ReceiverFits(rcv, snd.highTxMark)

-----------------------------------------------------------------------------
(***************************************************************************)
(* Windows                                                                 *)
(***************************************************************************)
LEMMA SmallestOf ==
  ASSUME NEW S, S \subseteq Nat, S # {}
  PROVE  Smallest(S) \in S /\ \A n \in S : Smallest(S) <= n
<1>1. \E m \in S : \A n \in S : m <= n
  BY Least
<1> QED  BY <1>1 DEF Smallest

\* The scale is a factor by which every buffer has room for at least one.
LEMMA Scale ==
  /\ WindShift \in 0 .. 14
  /\ 2 ^ WindShift \in Nat /\ 1 <= 2 ^ WindShift /\ 2 ^ WindShift <= 2 ^ 14
  /\ \A b \in BufSizes : b \in Nat /\ 2 ^ WindShift <= b
<1> DEFINE buf == Smallest(BufSizes)
           fits == {k \in 0 .. 14 : buf \div 2 ^ k <= MaxWinSize} \cup {14}
<1>1. buf \in Nat \ {0} /\ \A b \in BufSizes : b \in Nat /\ buf <= b
  BY SmallestOf, SizeAssumption
<1>2. WindShift = Smallest(fits)
  BY DEF WindShift, CalculateWScale
<1>3. WindShift \in fits /\ \A k \in fits : WindShift <= k
  BY <1>2, SmallestOf
<1> HIDE DEF buf
<1>4. WindShift \in 0 .. 14
  BY <1>3
<1>5. 2 ^ WindShift \in Nat /\ 1 <= 2 ^ WindShift /\ 2 ^ WindShift <= 2 ^ 14
  BY <1>4, WindowScales
<1>6. 2 ^ WindShift <= buf
  <2>1. CASE WindShift = 0
    <3>1. 2 ^ WindShift = 1
      BY <2>1, PowersOfTwo
    <3> QED  BY <3>1, <1>1
  <2>2. CASE WindShift # 0
    <3> DEFINE k == WindShift - 1
    <3>1. k \in 0 .. 13 /\ k + 1 = WindShift /\ k \notin fits
      BY <2>2, <1>3, <1>4
    <3>2. 2 ^ k \in Nat \ {0} /\ 2 ^ WindShift = 2 * 2 ^ k
      <4> HIDE DEF k
      <4>1. k \in 0 .. 14 /\ 2 ^ (k + 1) = 2 ^ WindShift
        BY <3>1
      <4>2. 2 ^ k \in Nat /\ 1 <= 2 ^ k
        BY <4>1, WindowScales
      <4>3. 2 ^ (k + 1) = 2 * 2 ^ k
        BY <3>1, WindowScales
      <4> QED  BY <4>1, <4>2, <4>3
    <3>3. buf \div 2 ^ k > MaxWinSize
      BY <3>1, <3>2, <1>1, SizeAssumption, Quotient
    <3>4. buf \div 2 ^ k \in Nat /\ (buf \div 2 ^ k) * 2 ^ k <= buf
      BY <3>2, <1>1, Quotient
    <3>5. \A q, d, b \in Nat : q >= 2 /\ q * d <= b => 2 * d <= b
      <4> SUFFICES ASSUME NEW q \in Nat, NEW d \in Nat, NEW b \in Nat,
                          q >= 2, q * d <= b
                   PROVE  2 * d <= b
        OBVIOUS
      <4>1. q * d = 2 * d + (q - 2) * d /\ (q - 2) * d >= 0
        OBVIOUS
      <4> QED  BY <4>1
    <3> QED  BY <3>2, <3>3, <3>4, <3>5, <1>1, SizeAssumption
  <2> QED  BY <2>1, <2>2
<1> QED  BY <1>1, <1>4, <1>5, <1>6

\* An ACK of the receiver promises what it has room for.
LEMMA Advertised ==
  ASSUME NEW r \in ReceiverState, r.read <= r.next, r.next <= MaxRxSequence(r)
  PROVE  AckOf(r) \in Ack /\ AckFits(AckOf(r), r.next, MaxRxSequence(r))
<1> DEFINE f == 2 ^ WindShift
           room == MaxRxSequence(r) - r.next
<1>1. f \in Nat \ {0} /\ r.buf \in Nat /\ f <= r.buf
  BY Scale DEF ReceiverState
<1>2. r.next \in Seqs /\ r.next \in Nat /\ r.read \in Nat /\ MaxRxSequence(r) \in Nat
  BY <1>1, SizeAssumption DEF ReceiverState, Seqs, MaxRxSequence
<1>3. room \in Nat /\ (r.next = 0 => f <= room)
  BY <1>1, <1>2 DEF MaxRxSequence
<1> HIDE DEF f
<1>4. room \div f \in Nat /\ (room \div f) * f <= room /\ room < (room \div f) * f + f
  BY <1>1, <1>3, Quotient
<1>5. AdvertisedWindowSize(r) = Smaller(room \div f, MaxWinSize)
  BY DEF AdvertisedWindowSize, f
<1>6. AdvertisedWindowSize(r) \in 0 .. MaxWinSize
      /\ AdvertisedWindowSize(r) <= room \div f
  BY <1>4, <1>5, SizeAssumption DEF Smaller
<1>7. AdvertisedWindowSize(r) * f <= room
  <2>1. \A w, q, d \in Nat : w <= q => w * d <= q * d
    OBVIOUS
  <2>2. AdvertisedWindowSize(r) * f <= (room \div f) * f
    BY <2>1, <1>1, <1>4, <1>6, SizeAssumption
  <2> QED  BY <2>2, <1>1, <1>3, <1>4, <1>6, SizeAssumption
<1>8. r.next = 0 => AdvertisedWindowSize(r) >= 1
  <2>1. \A q, d, b \in Nat : d <= b /\ b < q * d + d => q # 0
    OBVIOUS
  <2>2. f <= room => room \div f # 0
    BY <2>1, <1>1, <1>3, <1>4
  <2> QED  BY <2>2, <1>3, <1>4, <1>5, SizeAssumption DEF Smaller
<1>9. AckOf(r).ack = r.next /\ AckOf(r).wnd = AdvertisedWindowSize(r)
  BY DEF AckOf
<1>10. AckOf(r) \in Ack
  BY <1>2, <1>6 DEF AckOf, Ack
<1> QED  BY <1>1, <1>2, <1>6, <1>7, <1>8, <1>9, <1>10, SizeAssumption DEF AckFits, f

-----------------------------------------------------------------------------
(***************************************************************************)
(* The sender's handlers                                                   *)
(***************************************************************************)
\* The fields of a sender as numbers.
LEMMA Numbers ==
  ASSUME NEW s \in SenderState
  PROVE  /\ s.head \in Nat /\ s.tail \in Nat /\ s.sent \in Nat /\ s.highTxMark \in Nat
         /\ s.nextTx \in Nat /\ s.resent \in Nat /\ s.lost \in Nat /\ s.guessed \in Nat
         /\ s.rWnd \in Nat /\ s.highRxAckMark \in Nat /\ s.cWnd \in Nat
         /\ s.tail <= NumBytes /\ SegSize \in Nat /\ SegSize >= 1 /\ NumBytes \in Nat
         /\ s.retxEvent \in BOOLEAN /\ s.persistEvent \in BOOLEAN
         /\ s.endPoint \in BOOLEAN /\ s.heard \in BOOLEAN /\ s.inLoss \in BOOLEAN
<1>1. NumBytes \in Nat /\ SegSize \in Nat /\ SegSize >= 1 /\ MaxWinSize \in Nat
  BY SizeAssumption
<1>2. Windows \subseteq Nat /\ Cwnds \subseteq Nat
  BY <1>1, SenderAssumption DEF Windows
<1>3. /\ s.head \in Seqs /\ s.tail \in Seqs /\ s.sent \in Seqs /\ s.highTxMark \in Seqs
      /\ s.nextTx \in Seqs /\ s.resent \in Seqs /\ s.lost \in Seqs /\ s.guessed \in Seqs
      /\ s.rWnd \in Windows /\ s.highRxAckMark \in Seqs /\ s.cWnd \in Cwnds
  BY DEF SenderState
<1>4. /\ s.retxEvent \in BOOLEAN /\ s.persistEvent \in BOOLEAN
      /\ s.endPoint \in BOOLEAN /\ s.heard \in BOOLEAN /\ s.inLoss \in BOOLEAN
  BY DEF SenderState
<1>5. Seqs \subseteq Nat /\ \A x \in Seqs : x <= NumBytes
  BY <1>1 DEF Seqs
<1> QED  BY <1>1, <1>2, <1>3, <1>4, <1>5

\* The window left is that of the smaller of both windows.
LEMMA Available ==
  ASSUME NEW s \in SenderState, OrderedMarks(s)
  PROVE  /\ AvailableWindow(s) \in Nat
         /\ BytesInFlight(s) \in Nat
         /\ AvailableWindow(s) > 0 => BytesInFlight(s) + AvailableWindow(s) <= s.rWnd
<1>1. BytesInFlight(s) \in Nat
  BY Numbers DEF BytesInFlight, Less, OrderedMarks
<1> QED  BY <1>1, Numbers DEF AvailableWindow, Less, Smaller

\* The loop of SendPendingData stays within the window, and goes on while there is
\* room for a full segment.
LEMMA Sending ==
  ASSUME NEW s \in SenderState, NEW from \in Nat, NEW to \in Nat, NEW window \in Nat,
         from <= to
  PROVE  LET end == SentUpTo(s, from, to, window)
         IN  /\ end \in Nat /\ from <= end /\ end <= to /\ end - from <= window
             /\ NoDelay /\ window >= SegSize /\ from < to => from < end
<1> DEFINE room  == Smaller(window, to - from)
           next  == from + (room - (room % SegSize))
           left  == window - (next - from)
           silly == left < SegSize /\ s.tail - next > left
           nagle == /\ ~NoDelay
                    /\ Larger(s.highTxMark, next) > s.head
                    /\ s.tail - next < SegSize
<1>1. room \in Nat /\ room <= window /\ room <= to - from
      /\ (room = window \/ room = to - from)
  BY DEF Smaller
<1>2. SegSize \in Nat \ {0}
  BY SizeAssumption
<1>3. room % SegSize \in Nat /\ room % SegSize <= room /\ room % SegSize < SegSize
  BY <1>1, <1>2, Remainder
<1>4. SentUpTo(s, from, to, window)
        = IF silly \/ nagle THEN next ELSE next + Smaller(left, to - next)
  BY DEF SentUpTo
<1> HIDE DEF room
<1>5. next \in Nat /\ from <= next /\ next <= to /\ left \in Nat
      /\ next - from <= window
  BY <1>1, <1>3
<1>6. Smaller(left, to - next) \in Nat /\ Smaller(left, to - next) <= to - next
      /\ Smaller(left, to - next) <= left
      /\ (Smaller(left, to - next) = left \/ Smaller(left, to - next) = to - next)
  BY <1>5 DEF Smaller
<1>7. SentUpTo(s, from, to, window) = next
      \/ SentUpTo(s, from, to, window) = next + Smaller(left, to - next)
  BY <1>4
<1>8. ASSUME NoDelay, window >= SegSize, from < to
      PROVE  \/ from < next
             \/ /\ SentUpTo(s, from, to, window) = next + Smaller(left, to - next)
                /\ Smaller(left, to - next) > 0 /\ next = from
  <2>1. from < next \/ (next = from /\ left = window)
    BY <1>1, <1>3, <1>8
  <2>2. ASSUME next = from, left = window
        PROVE  ~(silly \/ nagle) /\ Smaller(left, to - next) > 0
    BY <1>2, <1>5, <1>6, <1>8, <2>2
  <2> QED  BY <1>4, <2>1, <2>2
<1> DEFINE end == SentUpTo(s, from, to, window)
           more == Smaller(left, to - next)
<1>9. /\ more \in Nat /\ more <= to - next /\ more <= left
      /\ end = next \/ end = next + more
      /\ left = window - (next - from)
  BY <1>6, <1>7
<1> HIDE DEF next, left, end, more
<1>10. end \in Nat /\ from <= end /\ end <= to /\ end - from <= window
  BY <1>5, <1>9
<1>11. NoDelay /\ window >= SegSize /\ from < to => from < end
  BY <1>5, <1>8, <1>9 DEF end, more
<1> QED  BY <1>10, <1>11 DEF end

\* The segments of a range are in it, and are there unless it is empty.
LEMMA Segments ==
  ASSUME NEW from \in Nat, NEW to \in Nat, from <= to, to <= NumBytes
  PROVE  /\ SegmentsOf(from, to) \subseteq Segment
         /\ \A d \in SegmentsOf(from, to) : d.ack /\ d.seq + d.len <= to
         /\ SegmentsOf(from, to) = {} <=> from = to
<1>1. SegSize \in Nat \ {0} /\ NumBytes \in Nat
  BY SizeAssumption
<1>2. ASSUME NEW d \in SegmentsOf(from, to)
      PROVE  d \in Segment /\ d.ack /\ d.seq + d.len <= to
  <2>1. PICK x \in from .. to - 1 :
           d = [seq |-> x, len |-> Smaller(SegSize, to - x), ack |-> TRUE]
    BY DEF SegmentsOf
  <2>2. Smaller(SegSize, to - x) \in 0 .. SegSize /\ x + Smaller(SegSize, to - x) <= to
    BY <1>1 DEF Smaller
  <2>3. x \in Seqs
    BY <1>1 DEF Seqs
  <2> QED  BY <2>1, <2>2, <2>3 DEF Segment
<1>3. from < to => SegmentsOf(from, to) # {}
  <2> SUFFICES ASSUME from < to PROVE SegmentsOf(from, to) # {}
    OBVIOUS
  <2>1. from \in from .. to - 1 /\ from - from = 0
    OBVIOUS
  <2>2. 0 % SegSize = 0
    BY <1>1, Remainder
  <2>3. from \in {y \in from .. to - 1 : (y - from) % SegSize = 0}
    BY <2>1, <2>2
  <2> QED  BY <2>3 DEF SegmentsOf
<1>4. from = to => SegmentsOf(from, to) = {}
  BY DEF SegmentsOf
<1> QED  BY <1>2, <1>3, <1>4

\* A segment that fits still does when more is sent and there is more room.
LEMMA FitsLater ==
  ASSUME NEW d \in Segment, NEW high \in Nat, NEW later \in Nat,
         NEW m \in Nat, NEW more \in Nat, high <= later, m <= more,
         SegmentFits(d, high, m)
  PROVE  SegmentFits(d, later, more)
<1>1. d.seq + d.len \in Nat
  BY SizeAssumption DEF Segment, Seqs
<1> QED  BY <1>1 DEF SegmentFits, Smaller

\* What SendPendingData leaves alone.
Kept(s, r) ==
    /\ r.head = s.head /\ r.tail = s.tail /\ r.rWnd = s.rWnd /\ r.endPoint = s.endPoint
    /\ r.highRxAckMark = s.highRxAckMark /\ r.persistEvent = s.persistEvent

\* SendPendingData keeps the marks in order and within the window, and starts the
\* timer with whatever it sends.
LEMMA Pending ==
  ASSUME NEW s, NEW n \in Nat, NEW m \in Nat, Sound(s, n, m)
  PROVE  /\ Sound(SendPendingData(s), n, m)
         /\ Kept(s, SendPendingData(s))
         /\ s.highTxMark <= SendPendingData(s).highTxMark
         /\ SendPendingData(s).retxEvent \/ SendPendingData(s) = s
         /\ NoDelay /\ s.endPoint /\ s.head < s.highTxMark /\ AllLost(s)
               /\ AvailableWindow(s) >= SegSize
              => SendPendingData(s).retxEvent
<1> DEFINE r      == SendPendingData(s)
           window == AvailableWindow(s)
           again  == SentUpTo(s, s.resent, s.lost, window)
           limit  == NewDataLimit(s)
           fresh  == SentUpTo(s, s.sent, limit, window - (again - s.resent))
           new    == IF again < s.lost THEN s.sent ELSE fresh
           out    == SegmentsOf(s.resent, again) \cup SegmentsOf(s.sent, new)
           sends  == [s EXCEPT !.resent = again,
                               !.sent = new,
                               !.highTxMark = Larger(@, new),
                               !.nextTx = IF new > s.sent THEN new
                                          ELSE IF again > s.resent THEN again ELSE @,
                               !.retxEvent = @ \/ out # {},
                               !.out = @ \cup out]
<1>1. s \in SenderState /\ OrderedMarks(s) /\ Within(s, n, m)
      /\ \A d \in s.out : SegmentFits(d, s.highTxMark, m)
  BY DEF Sound
<1>2. window \in Nat
  BY <1>1, Available
<1>3. /\ again \in Nat /\ s.resent <= again /\ again <= s.lost /\ again - s.resent <= window
      /\ NoDelay /\ window >= SegSize /\ s.resent < s.lost => s.resent < again
  BY <1>1, <1>2, Sending, Numbers DEF OrderedMarks
<1>4. /\ limit \in Nat /\ s.sent <= limit /\ limit <= m /\ limit <= s.tail
      /\ limit = s.sent \/ limit = s.tail \/ limit = s.head + s.rWnd
      /\ limit >= s.tail \/ limit >= s.head + s.rWnd
  BY <1>1, Numbers DEF OrderedMarks, Within, NewDataLimit, Larger, Smaller
<1> HIDE DEF window, again, limit
<1>5. /\ fresh \in Nat /\ s.sent <= fresh /\ fresh <= limit
      /\ NoDelay /\ window - (again - s.resent) >= SegSize /\ s.sent < limit
           => s.sent < fresh
  <2>1. window - (again - s.resent) \in Nat
    BY <1>1, <1>2, <1>3, Numbers
  <2> QED  BY <2>1, <1>1, <1>4, Sending, Numbers
<1>6. new \in Nat /\ s.sent <= new /\ new <= limit
  BY <1>1, <1>4, <1>5, Numbers
<1>7. /\ SegmentsOf(s.resent, again) \subseteq Segment
      /\ \A d \in SegmentsOf(s.resent, again) : d.ack /\ d.seq + d.len <= again
      /\ SegmentsOf(s.resent, again) = {} <=> s.resent = again
  BY <1>1, <1>3, Segments, Numbers DEF OrderedMarks
<1>8. /\ SegmentsOf(s.sent, new) \subseteq Segment
      /\ \A d \in SegmentsOf(s.sent, new) : d.ack /\ d.seq + d.len <= new
      /\ SegmentsOf(s.sent, new) = {} <=> s.sent = new
  BY <1>1, <1>4, <1>6, Segments, Numbers
<1>9. out \subseteq Segment /\ (out = {} <=> s.resent = again /\ s.sent = new)
      /\ \A d \in out : d.ack /\ (d.seq + d.len <= again \/ d.seq + d.len <= new)
  BY <1>7, <1>8
<1>10. r = IF ~s.endPoint \/ s.head = s.tail THEN s ELSE sends
  BY DEF SendPendingData, window, again, limit
<1> HIDE DEF fresh, new, out
<1>11. /\ sends \in SenderState /\ OrderedMarks(sends) /\ Within(sends, n, m)
       /\ s.highTxMark <= sends.highTxMark
       /\ Kept(s, sends)
       /\ sends.retxEvent <=> s.retxEvent \/ out # {}
       /\ again <= sends.highTxMark /\ new <= sends.highTxMark
  <2>1. sends \in SenderState
    <3>1. again \in Seqs /\ new \in Seqs
      BY <1>1, <1>3, <1>4, <1>6, Numbers DEF Seqs, OrderedMarks
    <3>2. Larger(s.highTxMark, new) \in Seqs /\ s.nextTx \in Seqs
      BY <1>1, <3>1 DEF Larger, SenderState
    <3>3. (s.retxEvent \/ out # {}) \in BOOLEAN
      OBVIOUS
    <3>4. s.out \cup out \in SUBSET Segment
      BY <1>1, <1>9 DEF SenderState
    <3> QED  BY <1>1, <3>1, <3>2, <3>3, <3>4 DEF SenderState
  <2>2. /\ sends.resent = again /\ sends.sent = new
        /\ sends.highTxMark = Larger(s.highTxMark, new)
        /\ sends.nextTx = IF new > s.sent THEN new
                          ELSE IF again > s.resent THEN again ELSE s.nextTx
        /\ sends.head = s.head /\ sends.tail = s.tail /\ sends.lost = s.lost
        /\ sends.rWnd = s.rWnd /\ sends.highRxAckMark = s.highRxAckMark
        /\ sends.heard = s.heard /\ sends.persistEvent = s.persistEvent
        /\ sends.endPoint = s.endPoint
        /\ sends.retxEvent = (s.retxEvent \/ out # {})
    BY <1>1 DEF SenderState
  <2> HIDE DEF sends
  <2>3. OrderedMarks(sends)
    BY <1>1, <1>3, <1>4, <1>6, <2>2, Numbers DEF OrderedMarks, Larger
  <2>4. Within(sends, n, m)
    BY <1>1, <1>4, <1>6, <2>2, Numbers DEF Within
  <2>5. s.highTxMark <= sends.highTxMark /\ Kept(s, sends)
        /\ again <= sends.highTxMark /\ new <= sends.highTxMark
    BY <1>1, <1>3, <1>6, <2>2, Numbers DEF Larger, Kept, OrderedMarks
  <2> QED  BY <2>1, <2>2, <2>3, <2>4, <2>5
<1>12. \A d \in sends.out : SegmentFits(d, sends.highTxMark, m)
  <2>1. sends.out = s.out \cup out
    BY <1>1 DEF SenderState
  <2> HIDE DEF sends
  <2>2. ASSUME NEW d \in s.out PROVE SegmentFits(d, sends.highTxMark, m)
    <3>1. d \in Segment /\ SegmentFits(d, s.highTxMark, m)
      BY <1>1 DEF SenderState
    <3>2. /\ s.highTxMark \in Nat /\ sends.highTxMark \in Nat
          /\ s.highTxMark <= sends.highTxMark /\ m <= m
      BY <1>1, <1>11, Numbers
    <3> QED  BY <3>1, <3>2, FitsLater
  <2>3. ASSUME NEW d \in out PROVE SegmentFits(d, sends.highTxMark, m)
    <3>1. again <= m /\ new <= m /\ again <= NumBytes /\ new <= NumBytes
      BY <1>1, <1>3, <1>4, <1>6, Numbers DEF OrderedMarks, Within
    <3>2. d.seq + d.len \in Nat /\ d.ack
      BY <1>9, SizeAssumption DEF Segment, Seqs
    <3> QED
      BY <1>1, <1>3, <1>6, <1>9, <1>11, <3>1, <3>2, Numbers DEF SegmentFits, Smaller
  <2> QED  BY <2>1, <2>2, <2>3
<1>13. Sound(sends, n, m)
  BY <1>11, <1>12 DEF Sound
<1>14. sends.retxEvent \/ sends = s
  <2> SUFFICES ASSUME ~s.retxEvent, out = {} PROVE sends = s
    BY <1>11
  <2>1. /\ again = s.resent /\ new = s.sent /\ Larger(s.highTxMark, new) = s.highTxMark
        /\ (IF new > s.sent THEN new ELSE IF again > s.resent THEN again ELSE s.nextTx)
              = s.nextTx
        /\ (s.retxEvent \/ out # {}) = s.retxEvent /\ s.out \cup out = s.out
    BY <1>1, <1>9, Numbers DEF OrderedMarks, Larger
  <2>2. sends = [s EXCEPT !.resent = s.resent, !.sent = s.sent,
                          !.highTxMark = s.highTxMark, !.nextTx = s.nextTx,
                          !.retxEvent = s.retxEvent, !.out = s.out]
    BY <2>1
  <2> HIDE DEF sends
  <2> QED  BY <2>2, <1>1 DEF SenderState
<1>15. ASSUME NoDelay, s.endPoint, s.head < s.highTxMark, AllLost(s), window >= SegSize
       PROVE  out # {} /\ s.head # s.tail
  <2>1. BytesInFlight(s) = s.resent - s.head /\ window + (s.resent - s.head) <= s.rWnd
    BY <1>1, <1>15, Available, Numbers
    DEF AllLost, BytesInFlight, Less, OrderedMarks, window
  <2>2. CASE s.resent < s.lost
    BY <2>2, <1>1, <1>3, <1>9, <1>15, Numbers DEF OrderedMarks
  <2>3. CASE s.resent = s.lost
    <3>1. again = s.lost /\ new = fresh
      BY <2>3, <1>1, <1>3, Numbers DEF new
    <3>2. s.sent < s.tail /\ s.sent < s.head + s.rWnd
      BY <2>1, <2>3, <1>1, <1>2, <1>15, Numbers DEF AllLost, OrderedMarks
    <3>3. s.sent < limit
      BY <3>2, <1>1, <1>4, Numbers
    <3> QED  BY <3>1, <3>3, <2>3, <1>1, <1>2, <1>5, <1>9, <1>15, Numbers DEF OrderedMarks
  <2> QED  BY <2>2, <2>3, <1>1, Numbers DEF OrderedMarks
<1> QED
  <2> HIDE DEF sends, r
  <2>1. CASE r = s
    <3>1. s.endPoint /\ s.head # s.tail => sends = s
      BY <2>1, <1>10
    <3> QED  BY <2>1, <3>1, <1>1, <1>10, <1>11, <1>15, Numbers DEF r, Kept, Sound, window
  <2>2. CASE r = sends
    BY <2>2, <1>11, <1>13, <1>14, <1>15 DEF r, window
  <2> QED  BY <2>1, <2>2, <1>10

\* All but the window that was heard of.
SameData(s, u) ==
    /\ u.head = s.head /\ u.tail = s.tail /\ u.sent = s.sent /\ u.nextTx = s.nextTx
    /\ u.highTxMark = s.highTxMark /\ u.resent = s.resent /\ u.lost = s.lost
    /\ u.guessed = s.guessed /\ u.inLoss = s.inLoss /\ u.cWnd = s.cWnd
    /\ u.endPoint = s.endPoint /\ u.retxEvent = s.retxEvent
    /\ u.persistEvent = s.persistEvent

\* An ACK sets the window to what the receiver has room for, and closes it only if it
\* acknowledges more than any before; an ACK below the head sets nothing.
LEMMA WindowUpdate ==
  ASSUME NEW s, NEW n \in Nat, NEW m \in Nat, Sound(s, n, m),
         NEW a \in Ack, AckFits(a, n, m)
  PROVE  LET u == UpdateWindowSize(s, a)
         IN  /\ Sound(u, n, m)
             /\ SameData(s, u)
             /\ s.highRxAckMark <= u.highRxAckMark /\ a.ack <= u.highRxAckMark
             /\ u.rWnd = 0 /\ s.rWnd # 0 => a.ack > s.highRxAckMark
             /\ a.ack < s.head => u.rWnd = s.rWnd /\ u.highRxAckMark = s.highRxAckMark
<1> DEFINE u      == UpdateWindowSize(s, a)
           window == a.wnd * 2 ^ WindShift
           update == \/ a.ack = s.highRxAckMark /\ window > s.rWnd
                     \/ a.ack > s.highRxAckMark
                     \/ ~s.heard
           rWnd   == IF update THEN window ELSE s.rWnd
           mark   == Larger(s.highRxAckMark, a.ack)
<1>1. s \in SenderState /\ OrderedMarks(s) /\ Within(s, n, m)
      /\ \A d \in s.out : SegmentFits(d, s.highTxMark, m)
  BY DEF Sound
<1>2. /\ a.ack \in Seqs /\ a.ack \in Nat /\ a.ack <= n
      /\ a.wnd \in Nat /\ a.wnd <= MaxWinSize /\ MaxWinSize \in Nat
  BY SizeAssumption DEF Ack, Seqs, AckFits
<1>3. window \in Windows /\ window \in Nat /\ (a.wnd >= 1 => window >= 1)
  <2>1. \A w, v, f, g \in Nat : w <= v /\ f <= g => w * f \in Nat /\ w * f <= v * g
    <3> SUFFICES ASSUME NEW w \in Nat, NEW v \in Nat, NEW f \in Nat, NEW g \in Nat,
                        w <= v, f <= g
                 PROVE  w * f \in Nat /\ w * f <= v * g
      OBVIOUS
    <3>1. v * g = w * f + (v - w) * f + v * (g - f)
      OBVIOUS
    <3>2. w * f \in Nat /\ (v - w) * f \in Nat /\ v * (g - f) \in Nat
      OBVIOUS
    <3> QED  BY <3>1, <3>2
  <2>2. 2 ^ WindShift \in Nat /\ 1 <= 2 ^ WindShift /\ 2 ^ WindShift <= 2 ^ 14
        /\ 2 ^ 14 \in Nat
    BY Scale
  <2>3. window \in Nat /\ window <= MaxWinSize * 2 ^ 14
    BY <1>2, <2>1, <2>2
  <2>4. a.wnd >= 1 => window >= 1
    <3>1. \A w, f \in Nat : w >= 1 /\ f >= 1 => w * f >= 1
      OBVIOUS
    <3> QED  BY <3>1, <1>2, <2>2
  <2> QED  BY <2>3, <2>4, SizeAssumption DEF Windows
<1>4. a.ack + window <= m /\ (a.ack = 0 => window >= 1)
  BY <1>3 DEF AckFits
<1> HIDE DEF window
<1>5. /\ mark \in Seqs /\ mark \in Nat /\ s.highRxAckMark <= mark /\ a.ack <= mark
      /\ mark <= n
  BY <1>1, <1>2, Numbers DEF Larger, Within, SenderState
<1>6. /\ rWnd \in Windows /\ mark + rWnd <= m
      /\ rWnd = 0 /\ s.rWnd # 0 => a.ack > s.highRxAckMark
      /\ a.ack < s.head => rWnd = s.rWnd /\ mark = s.highRxAckMark
  <2>1. rWnd \in Windows
    BY <1>1, <1>3 DEF SenderState
  <2>2. ~s.heard => s.highRxAckMark = 0 /\ s.head = 0
    BY <1>1, Numbers DEF OrderedMarks
  <2>3. s.head <= s.highRxAckMark /\ s.highRxAckMark + s.rWnd <= m
    BY <1>1 DEF OrderedMarks, Within
  <2>4. mark + rWnd <= m
    BY <1>1, <1>2, <1>3, <1>4, <2>2, <2>3, Numbers DEF Larger
  <2>5. rWnd = 0 /\ s.rWnd # 0 => a.ack > s.highRxAckMark
    BY <1>1, <1>2, <1>3, <1>4, <2>2, Numbers
  <2>6. a.ack < s.head => rWnd = s.rWnd /\ mark = s.highRxAckMark
    BY <1>1, <1>2, <2>2, <2>3, Numbers DEF Larger
  <2> QED  BY <2>1, <2>4, <2>5, <2>6
<1>7. u = [s EXCEPT !.rWnd = rWnd, !.highRxAckMark = mark, !.heard = TRUE]
  BY DEF UpdateWindowSize, window
<1> HIDE DEF rWnd, mark, u
<1>8. u \in SenderState
  BY <1>1, <1>5, <1>6, <1>7 DEF SenderState
<1>9. /\ u.rWnd = rWnd /\ u.highRxAckMark = mark /\ u.heard = TRUE
      /\ u.head = s.head /\ u.tail = s.tail /\ u.sent = s.sent /\ u.lost = s.lost
      /\ u.resent = s.resent /\ u.highTxMark = s.highTxMark /\ u.nextTx = s.nextTx
      /\ u.out = s.out
  BY <1>1, <1>7 DEF SenderState
<1>10. Sound(u, n, m)
  <2>1. OrderedMarks(u)
    BY <1>1, <1>5, <1>9, Numbers DEF OrderedMarks
  <2>2. Within(u, n, m)
    BY <1>1, <1>5, <1>6, <1>9 DEF Within
  <2> QED  BY <1>1, <1>8, <1>9, <2>1, <2>2 DEF Sound
<1>11. SameData(s, u)
  BY <1>1, <1>7 DEF SameData, SenderState
<1> QED  BY <1>5, <1>6, <1>9, <1>10, <1>11 DEF u

\* A duplicate ACK counts bytes only.
LEMMA Duplicate ==
  ASSUME NEW s, NEW n \in Nat, NEW m \in Nat, Sound(s, n, m)
  PROVE  /\ Sound(DupAck(s), n, m)
         /\ DupAck(s) = [s EXCEPT !.guessed = DupAck(s).guessed]
         /\ s.inLoss => DupAck(s) = s
<1> DEFINE guessed == Smaller(s.guessed + SegSize, Less(s.sent, s.head + SegSize))
           d == [s EXCEPT !.guessed = guessed]
<1>1. s \in SenderState
  BY DEF Sound
<1>2. guessed \in Seqs
  BY <1>1, Numbers DEF Smaller, Less, Seqs, SenderState
<1>3. s = [s EXCEPT !.guessed = s.guessed]
  BY <1>1 DEF SenderState
<1>4. DupAck(s) = s \/ DupAck(s) = d
  BY DEF DupAck
<1> HIDE DEF guessed
<1>5. d \in SenderState
  BY <1>1, <1>2 DEF SenderState
<1>6. /\ d.guessed = guessed /\ d.rWnd = s.rWnd /\ d.highRxAckMark = s.highRxAckMark
      /\ d.heard = s.heard
      /\ d.head = s.head /\ d.tail = s.tail /\ d.sent = s.sent /\ d.lost = s.lost
      /\ d.resent = s.resent /\ d.highTxMark = s.highTxMark /\ d.nextTx = s.nextTx
      /\ d.out = s.out
  BY <1>1 DEF SenderState
<1>7. Sound(d, n, m)
  <2> HIDE DEF d
  <2> QED  BY <1>5, <1>6 DEF Sound, OrderedMarks, Within
<1>8. s.inLoss => DupAck(s) = s
  BY DEF DupAck
<1> QED  BY <1>3, <1>4, <1>6, <1>7, <1>8

\* The same data and windows.
Alike(s, r) ==
    /\ r.head = s.head /\ r.tail = s.tail /\ r.sent = s.sent /\ r.nextTx = s.nextTx
    /\ r.highTxMark = s.highTxMark /\ r.resent = s.resent /\ r.lost = s.lost
    /\ r.guessed = s.guessed /\ r.inLoss = s.inLoss /\ r.rWnd = s.rWnd /\ r.cWnd = s.cWnd

LEMMA AlikeData ==
  ASSUME NEW s, NEW r, Alike(s, r)
  PROVE  AvailableWindow(r) = AvailableWindow(s) /\ (AllLost(s) => AllLost(r))
BY DEF Alike, AvailableWindow, BytesInFlight, AllLost

\* Only the timers and what was heard of the peer tell these apart.
LEMMA AlikeSound ==
  ASSUME NEW s, NEW r \in SenderState, NEW n \in Nat, NEW m \in Nat, Sound(s, n, m),
         Alike(s, r), r.highRxAckMark = s.highRxAckMark, r.heard = s.heard,
         r.out \subseteq s.out
  PROVE  Sound(r, n, m)
BY DEF Sound, Alike, OrderedMarks, Within

\* A closed window has probes, and they replace the timer.
LEMMA Entering ==
  ASSUME NEW s, NEW n \in Nat, NEW m \in Nat, Sound(s, n, m)
  PROVE  LET e == EnterPersist(s)
         IN  /\ Sound(e, n, m) /\ Alike(s, e)
             /\ e.endPoint = s.endPoint /\ e.highRxAckMark = s.highRxAckMark
             /\ e.rWnd = 0 => e.persistEvent
             /\ s.rWnd # 0 \/ s.persistEvent => e = s
<1> DEFINE e == [s EXCEPT !.retxEvent = FALSE, !.persistEvent = TRUE]
<1>1. s \in SenderState
  BY DEF Sound
<1>2. e \in SenderState /\ Alike(s, e) /\ e.highRxAckMark = s.highRxAckMark
      /\ e.heard = s.heard /\ e.out = s.out /\ e.endPoint = s.endPoint
      /\ e.persistEvent = TRUE
  BY <1>1 DEF SenderState, Alike
<1> HIDE DEF e
<1>3. Sound(e, n, m)
  BY <1>2, AlikeSound
<1>4. EnterPersist(s) = IF s.rWnd = 0 /\ ~s.persistEvent THEN e ELSE s
  BY DEF EnterPersist, e
<1>5. Alike(s, s)
  BY DEF Alike
<1>6. s.rWnd # 0 \/ s.persistEvent => EnterPersist(s) = s
  BY <1>4
<1>7. EnterPersist(s) = e \/ (EnterPersist(s) = s /\ (s.rWnd = 0 => s.persistEvent))
  BY <1>4
<1> QED  BY <1>2, <1>3, <1>5, <1>6, <1>7

\* A window that is open has no probes, and data is sent if there were.
LEMMA Leaving ==
  ASSUME NEW s, NEW n \in Nat, NEW m \in Nat, Sound(s, n, m)
  PROVE  LET r == LeavePersist(s)
         IN  /\ Sound(r, n, m)
             /\ r.endPoint = s.endPoint /\ r.rWnd = s.rWnd
             /\ r.highRxAckMark = s.highRxAckMark /\ s.highTxMark <= r.highTxMark
             /\ r.persistEvent <=> s.persistEvent /\ s.rWnd = 0
             /\ \/ r.retxEvent
                \/ Alike(s, r) /\ r.retxEvent = s.retxEvent
<1> DEFINE l == [s EXCEPT !.persistEvent = FALSE]
<1>1. s \in SenderState
  BY DEF Sound
<1>2. l \in SenderState /\ Alike(s, l) /\ l.highRxAckMark = s.highRxAckMark
      /\ l.heard = s.heard /\ l.out = s.out /\ l.endPoint = s.endPoint
      /\ l.rWnd = s.rWnd /\ l.persistEvent = FALSE /\ l.retxEvent = s.retxEvent
  BY <1>1 DEF SenderState, Alike
<1> HIDE DEF l
<1>3. Sound(l, n, m)
  BY <1>2, AlikeSound
<1>4. LeavePersist(s)
        = IF s.rWnd # 0 /\ s.persistEvent THEN SendPendingData(l) ELSE s
  BY DEF LeavePersist, l
<1>5. CASE s.rWnd # 0 /\ s.persistEvent
  <2>1. LeavePersist(s) = SendPendingData(l)
    BY <1>4, <1>5
  <2>2. /\ Sound(SendPendingData(l), n, m) /\ Kept(l, SendPendingData(l))
        /\ SendPendingData(l).retxEvent \/ SendPendingData(l) = l
        /\ l.highTxMark <= SendPendingData(l).highTxMark
    BY <1>3, Pending
  <2> QED  BY <1>2, <1>5, <2>1, <2>2 DEF Kept, Alike
<1>6. CASE ~(s.rWnd # 0 /\ s.persistEvent)
  <2>1. LeavePersist(s) = s /\ Alike(s, s) /\ s.highTxMark <= s.highTxMark
    BY <1>1, <1>4, <1>6, Numbers DEF Alike
  <2> QED  BY <1>6, <2>1
<1> QED  BY <1>5, <1>6

\* An ACK of new data moves the head, and the timer runs unless that was all.
LEMMA Acknowledging ==
  ASSUME NEW s, NEW n \in Nat, NEW m \in Nat, Sound(s, n, m),
         NEW ack \in Nat, s.head < ack, ack <= s.highTxMark, ack <= s.highRxAckMark,
         NEW cWnd \in Cwnds
  PROVE  LET r == NewAck(s, ack, cWnd)
         IN  /\ Sound(r, n, m)
             /\ r.head = ack /\ r.tail = s.tail /\ r.rWnd = s.rWnd
             /\ r.endPoint = s.endPoint /\ r.persistEvent = s.persistEvent
             /\ r.highRxAckMark = s.highRxAckMark /\ r.highTxMark = s.highTxMark
             /\ r.retxEvent <=> ack < s.tail
<1> DEFINE r       == NewAck(s, ack, cWnd)
           above   == Larger(ack, s.head + SegSize)
           guessed == Smaller(Less(s.head + SegSize + s.guessed, above),
                              Less(s.sent, ack + SegSize))
<1>1. s \in SenderState /\ OrderedMarks(s) /\ Within(s, n, m)
      /\ \A d \in s.out : SegmentFits(d, s.highTxMark, m)
  BY DEF Sound
<1>2. ack \in Seqs
  BY <1>1, Numbers DEF OrderedMarks, Seqs
<1>3. guessed \in Seqs
  <2>1. Less(s.sent, ack + SegSize) \in 0 .. NumBytes
    BY <1>1, Numbers DEF Less, OrderedMarks
  <2>2. above \in Nat
    BY <1>1, Numbers DEF Larger
  <2>3. Less(s.head + SegSize + s.guessed, above) \in Nat
    BY <2>2, <1>1, Numbers DEF Less
  <2> HIDE DEF above
  <2> QED  BY <2>1, <2>3, SizeAssumption DEF Smaller, Seqs
<1>4. /\ r.head = ack /\ r.tail = s.tail /\ r.rWnd = s.rWnd
      /\ r.endPoint = s.endPoint /\ r.persistEvent = s.persistEvent
      /\ r.highRxAckMark = s.highRxAckMark /\ r.highTxMark = s.highTxMark
      /\ r.heard = s.heard /\ r.out = s.out
      /\ r.retxEvent = (ack < s.tail)
      /\ r.resent = Larger(s.resent, ack) /\ r.lost = Larger(s.lost, ack)
      /\ r.sent = Larger(s.sent, ack) /\ r.nextTx = Larger(s.nextTx, ack)
  BY <1>1 DEF NewAck, SenderState
<1>5. r \in SenderState
  <2> DEFINE resent == Larger(s.resent, ack)
             lost   == Larger(s.lost, ack)
             sent   == Larger(s.sent, ack)
             nextTx == Larger(s.nextTx, ack)
             inLoss == s.inLoss /\ ack < s.lost
             timer  == ack < s.tail
  <2>1. resent \in Seqs /\ lost \in Seqs /\ sent \in Seqs /\ nextTx \in Seqs
    BY <1>1, <1>2 DEF Larger, SenderState
  <2>2. timer \in BOOLEAN /\ inLoss \in BOOLEAN /\ DataRetries \in 0 .. DataRetries
    BY SenderAssumption
  <2>3. r = [s EXCEPT !.head = ack, !.resent = resent, !.lost = lost,
                      !.guessed = guessed, !.sent = sent, !.nextTx = nextTx,
                      !.inLoss = inLoss, !.cWnd = cWnd,
                      !.dataRetrCount = DataRetries, !.retxEvent = timer]
    BY DEF NewAck
  <2> HIDE DEF r, guessed, resent, lost, sent, nextTx, inLoss, timer
  <2> QED  BY <1>1, <1>2, <1>3, <2>1, <2>2, <2>3 DEF SenderState
<1> HIDE DEF r
<1>6. OrderedMarks(r)
  BY <1>1, <1>4, Numbers DEF OrderedMarks, Larger
<1>7. Within(r, n, m)
  BY <1>1, <1>4, Numbers DEF Within, Larger
<1>8. Sound(r, n, m)
  BY <1>1, <1>4, <1>5, <1>6, <1>7 DEF Sound
<1> QED  BY <1>4, <1>8 DEF r

\* SendPendingData leaves a sender without a timer only if all is lost and nothing can
\* be sent.
LEMMA PendingHealthy ==
  ASSUME NEW s, NEW n \in Nat, NEW m \in Nat, Sound(s, n, m), PersistIffClosed(s),
         Untimed(s) => AllLost(s)
  PROVE  Healthy(SendPendingData(s), n, m)
<1> DEFINE r == SendPendingData(s)
<1>1. /\ Sound(r, n, m) /\ Kept(s, r)
      /\ r.retxEvent \/ r = s
      /\ NoDelay /\ s.endPoint /\ s.head < s.highTxMark /\ AllLost(s)
            /\ AvailableWindow(s) >= SegSize => r.retxEvent
  BY Pending
<1>2. AvailableWindow(s) \in Nat /\ SegSize \in Nat
  BY Available, SizeAssumption DEF Sound
<1> HIDE DEF r
<1>3. PersistIffClosed(r)
  BY <1>1 DEF PersistIffClosed, Kept
<1>4. ASSUME Untimed(r) PROVE AllLost(r) /\ AvailableWindow(r) < SegSize
  <2>1. r = s /\ ~r.retxEvent
    BY <1>1, <1>4 DEF Untimed
  <2>2. AllLost(s) /\ NoDelay /\ s.endPoint /\ s.head < s.highTxMark
    BY <2>1, <1>4 DEF Untimed
  <2>3. ~(AvailableWindow(s) >= SegSize)
    BY <2>1, <2>2, <1>1
  <2> QED  BY <1>2, <2>1, <2>2, <2>3
<1> QED  BY <1>1, <1>3, <1>4 DEF Healthy, Timed, r

\* ProcessEstablished by the place of the ACK.
LEMMA Established ==
  ASSUME NEW s, NEW n \in Nat, NEW m \in Nat, Sound(s, n, m),
         NEW ack \in Nat, ack <= s.highRxAckMark, NEW cWnd \in Cwnds
  PROVE  LET p == ProcessEstablished(s, ack, cWnd)
         IN  /\ Sound(p, n, m) /\ s.highTxMark <= p.highTxMark
             /\ p.rWnd = s.rWnd /\ p.endPoint = s.endPoint
             /\ p.persistEvent = s.persistEvent /\ p.highRxAckMark = s.highRxAckMark
             /\ ack < s.head \/ ack > s.highTxMark => p = s
             /\ s.head < ack /\ ack <= s.highTxMark
                  => p.retxEvent \/ p.head = p.tail
             /\ ack = s.head
                  => \/ p.retxEvent
                     \/ /\ p.head = s.head /\ p.highTxMark = s.highTxMark
                        /\ p.retxEvent = s.retxEvent
                        /\ NoDelay /\ s.endPoint /\ s.head < s.highTxMark /\ AllLost(s)
                             => AllLost(p) /\ AvailableWindow(p) < SegSize
<1> DEFINE p == ProcessEstablished(s, ack, cWnd)
           d == DupAck(s)
           a == NewAck(s, ack, cWnd)
<1>1. s \in SenderState /\ OrderedMarks(s)
  BY DEF Sound
<1>2. CASE ack < s.head \/ ack > s.highTxMark
  <2>1. p = s
    BY <1>2 DEF ProcessEstablished
  <2>2. ~(s.head < ack /\ ack <= s.highTxMark) /\ ack # s.head
    BY <1>1, <1>2, Numbers DEF OrderedMarks
  <2> HIDE DEF p
  <2> QED  BY <1>1, <2>1, <2>2, Numbers DEF p
<1>3. CASE s.head < ack /\ ack <= s.highTxMark
  <2>1. p = SendPendingData(a)
    BY <1>1, <1>3, Numbers DEF ProcessEstablished
  <2>2. /\ Sound(a, n, m)
        /\ a.head = ack /\ a.tail = s.tail /\ a.rWnd = s.rWnd
        /\ a.endPoint = s.endPoint /\ a.persistEvent = s.persistEvent
        /\ a.highRxAckMark = s.highRxAckMark /\ a.highTxMark = s.highTxMark
        /\ a.retxEvent <=> ack < s.tail
    BY <1>3, Acknowledging
  <2> HIDE DEF a
  <2>3. /\ Sound(SendPendingData(a), n, m) /\ Kept(a, SendPendingData(a))
        /\ a.highTxMark <= SendPendingData(a).highTxMark
        /\ SendPendingData(a).retxEvent \/ SendPendingData(a) = a
    BY <2>2, Pending
  <2>4. p.retxEvent \/ p.head = p.tail
    BY <1>1, <1>3, <2>1, <2>2, <2>3, Numbers DEF OrderedMarks
  <2>5. ~(ack < s.head \/ ack > s.highTxMark) /\ ack # s.head
    BY <1>1, <1>3, Numbers
  <2> HIDE DEF p
  <2> QED  BY <2>1, <2>2, <2>3, <2>4, <2>5 DEF Kept, p
<1>4. CASE ack = s.head
  <2>1. p = SendPendingData(d)
    BY <1>1, <1>4, Numbers DEF ProcessEstablished, OrderedMarks
  <2>2. /\ Sound(d, n, m) /\ d = [s EXCEPT !.guessed = d.guessed]
        /\ s.inLoss => d = s
    BY Duplicate
  <2> HIDE DEF d
  <2>3. /\ d.rWnd = s.rWnd /\ d.endPoint = s.endPoint /\ d.head = s.head
        /\ d.persistEvent = s.persistEvent /\ d.highRxAckMark = s.highRxAckMark
        /\ d.highTxMark = s.highTxMark /\ d.retxEvent = s.retxEvent
    BY <1>1, <2>2 DEF SenderState
  <2>4. /\ Sound(SendPendingData(d), n, m) /\ Kept(d, SendPendingData(d))
        /\ d.highTxMark <= SendPendingData(d).highTxMark
        /\ SendPendingData(d).retxEvent \/ SendPendingData(d) = d
        /\ NoDelay /\ d.endPoint /\ d.head < d.highTxMark /\ AllLost(d)
              /\ AvailableWindow(d) >= SegSize => SendPendingData(d).retxEvent
    BY <2>2, Pending
  <2>5. AvailableWindow(d) \in Nat /\ SegSize \in Nat
    BY <2>2, Available, SizeAssumption DEF Sound
  <2>6. AllLost(s) => d = s
    BY <2>2 DEF AllLost
  <2>7. ~(ack < s.head \/ ack > s.highTxMark) /\ ~(s.head < ack)
    BY <1>1, <1>4, Numbers DEF OrderedMarks
  <2> HIDE DEF p
  <2>8. \/ p.retxEvent
        \/ /\ p.head = s.head /\ p.highTxMark = s.highTxMark
           /\ p.retxEvent = s.retxEvent
           /\ NoDelay /\ s.endPoint /\ s.head < s.highTxMark /\ AllLost(s)
                => AllLost(p) /\ AvailableWindow(p) < SegSize
    BY <2>1, <2>3, <2>4, <2>5, <2>6
  <2> QED  BY <2>1, <2>3, <2>4, <2>7, <2>8 DEF Kept, p
<1> QED  BY <1>1, <1>2, <1>3, <1>4, Numbers

\* An ACK of what is outstanding or below.
LEMMA AckHealthy ==
  ASSUME NEW s, NEW n \in Nat, NEW m \in Nat, Healthy(s, n, m), s.endPoint,
         NEW a \in Ack, AckFits(a, n, m), NEW cWnd \in Cwnds
  PROVE  Healthy(DoForwardUp(s, a, cWnd), n, m)
         /\ DoForwardUp(s, a, cWnd).highTxMark >= s.highTxMark
<1> DEFINE u == UpdateWindowSize(s, a)
           e == EnterPersist(u)
           p == ProcessEstablished(e, a.ack, cWnd)
           r == LeavePersist(p)
<1>1. Sound(s, n, m) /\ s \in SenderState /\ OrderedMarks(s)
      /\ PersistIffClosed(s) /\ Timed(s)
  BY DEF Healthy, Sound
<1>2. a.ack \in Nat
  BY SizeAssumption DEF Ack, Seqs
<1>3. /\ Sound(u, n, m)
      /\ SameData(s, u)
      /\ s.highRxAckMark <= u.highRxAckMark /\ a.ack <= u.highRxAckMark
      /\ u.rWnd = 0 /\ s.rWnd # 0 => a.ack > s.highRxAckMark
      /\ a.ack < s.head => u.rWnd = s.rWnd /\ u.highRxAckMark = s.highRxAckMark
  BY <1>1, WindowUpdate
<1> HIDE DEF u
<1>4. /\ u.head = s.head /\ u.highTxMark = s.highTxMark /\ u.endPoint = s.endPoint
      /\ u.retxEvent = s.retxEvent /\ u.persistEvent = s.persistEvent
      /\ u.inLoss = s.inLoss /\ (AllLost(s) => AllLost(u))
      /\ u.rWnd = s.rWnd => Alike(s, u)
  BY <1>3 DEF SameData, AllLost, Alike
<1>5. /\ Sound(e, n, m) /\ Alike(u, e)
      /\ e.endPoint = u.endPoint /\ e.highRxAckMark = u.highRxAckMark
      /\ e.rWnd = 0 => e.persistEvent
      /\ u.rWnd # 0 \/ u.persistEvent => e = u
  BY <1>3, Entering
<1>6. e.head = s.head /\ e.highTxMark = s.highTxMark /\ e.rWnd = u.rWnd
  BY <1>4, <1>5 DEF Alike
<1>7. a.ack <= s.highRxAckMark => e = u
  BY <1>1, <1>2, <1>3, <1>4, <1>5, Numbers DEF PersistIffClosed
<1> HIDE DEF e
<1>8. /\ Sound(p, n, m) /\ e.highTxMark <= p.highTxMark
      /\ p.rWnd = e.rWnd /\ p.endPoint = e.endPoint
      /\ p.persistEvent = e.persistEvent /\ p.highRxAckMark = e.highRxAckMark
      /\ a.ack < e.head \/ a.ack > e.highTxMark => p = e
      /\ e.head < a.ack /\ a.ack <= e.highTxMark
           => p.retxEvent \/ p.head = p.tail
      /\ a.ack = e.head
           => \/ p.retxEvent
              \/ /\ p.head = e.head /\ p.highTxMark = e.highTxMark
                 /\ p.retxEvent = e.retxEvent
                 /\ NoDelay /\ e.endPoint /\ e.head < e.highTxMark /\ AllLost(e)
                      => AllLost(p) /\ AvailableWindow(p) < SegSize
  <2>1. a.ack <= e.highRxAckMark
    BY <1>3, <1>5
  <2> QED  BY <1>2, <1>5, <2>1, Established
<1> HIDE DEF p
<1>9. /\ Sound(r, n, m)
      /\ r.endPoint = p.endPoint /\ r.rWnd = p.rWnd
      /\ r.highRxAckMark = p.highRxAckMark /\ p.highTxMark <= r.highTxMark
      /\ r.persistEvent <=> p.persistEvent /\ p.rWnd = 0
      /\ r.retxEvent \/ (Alike(p, r) /\ r.retxEvent = p.retxEvent)
  BY <1>8, Leaving
<1>10. DoForwardUp(s, a, cWnd) = r
  BY DEF DoForwardUp, r, p, e, u
<1> HIDE DEF r
<1>11. PersistIffClosed(r)
  BY <1>5, <1>8, <1>9 DEF PersistIffClosed
<1>12. ASSUME Untimed(r) PROVE AllLost(r) /\ AvailableWindow(r) < SegSize
  <2>1. /\ NoDelay /\ ~r.retxEvent /\ r.head < r.highTxMark
        /\ r.highRxAckMark <= r.highTxMark
        /\ Alike(p, r) /\ ~p.retxEvent
    BY <1>9, <1>12 DEF Untimed
  <2>2. /\ p.head < p.highTxMark /\ u.highRxAckMark <= p.highTxMark
        /\ AvailableWindow(r) = AvailableWindow(p) /\ (AllLost(p) => AllLost(r))
    BY <1>5, <1>8, <1>9, <2>1, AlikeData DEF Alike
  <2>3. CASE a.ack < s.head
    <3>1. e = u /\ p = u /\ Alike(s, u) /\ u.highRxAckMark = s.highRxAckMark
      BY <1>1, <1>2, <1>3, <1>4, <1>6, <1>7, <1>8, <2>3, Numbers DEF OrderedMarks
    <3>2. Untimed(s)
      BY <1>4, <2>1, <2>2, <3>1 DEF Untimed
    <3>3. AllLost(u) /\ AvailableWindow(u) < SegSize
      BY <1>1, <3>1, <3>2, AlikeData DEF Timed
    <3> QED  BY <2>2, <3>1, <3>3
  <2>4. CASE a.ack > s.highTxMark
    BY <1>1, <1>2, <1>3, <1>5, <1>6, <1>8, <2>2, <2>4, Numbers DEF Sound
  <2>5. CASE s.head < a.ack /\ a.ack <= s.highTxMark
    <3>1. p.head = p.tail
      BY <1>6, <1>8, <2>1, <2>5
    <3> QED  BY <1>8, <2>2, <3>1, Numbers DEF Sound, OrderedMarks
  <2>6. CASE a.ack = s.head
    <3>1. e = u
      BY <1>1, <1>7, <2>6 DEF OrderedMarks
    <3>2. /\ p.head = s.head /\ p.highTxMark = s.highTxMark /\ ~s.retxEvent
          /\ s.head < s.highTxMark /\ s.highRxAckMark <= s.highTxMark
      BY <1>1, <1>3, <1>4, <1>6, <1>8, <2>1, <2>2, <2>6, <3>1, Numbers DEF Sound
    <3>3. Untimed(s) /\ AllLost(e)
      BY <1>1, <1>4, <2>1, <3>1, <3>2 DEF Untimed, Timed
    <3>4. AllLost(p) /\ AvailableWindow(p) < SegSize
      BY <1>4, <1>6, <1>8, <2>1, <2>6, <3>1, <3>2, <3>3
    <3> QED  BY <2>2, <3>4
  <2> QED  BY <1>1, <1>2, <2>3, <2>4, <2>5, <2>6, Numbers
<1>13. r.highTxMark >= s.highTxMark
  BY <1>1, <1>6, <1>8, <1>9, Numbers DEF Sound
<1> QED  BY <1>9, <1>10, <1>11, <1>12, <1>13 DEF Healthy, Timed

\* A timeout marks all as lost, and sends what the window has room for.
LEMMA TimeoutHealthy ==
  ASSUME NEW s, NEW n \in Nat, NEW m \in Nat, Sound(s, n, m), PersistIffClosed(s),
         s.dataRetrCount # 0
  PROVE  LET p == SendPendingData(RetransmissionTimeout(s))
         IN  Healthy(p, n, m) /\ s.highTxMark <= p.highTxMark
<1> DEFINE t == RetransmissionTimeout(s)
<1>1. s \in SenderState /\ OrderedMarks(s) /\ Within(s, n, m)
      /\ PersistIffClosed(s)
      /\ \A d \in s.out : SegmentFits(d, s.highTxMark, m)
  BY DEF Sound
<1>2. t \in SenderState
  <2>1. s.dataRetrCount \in 0 .. DataRetries /\ s.dataRetrCount - 1 \in 0 .. DataRetries
    BY <1>1, SenderAssumption DEF SenderState
  <2>2. 0 \in Seqs /\ SegSize \in Cwnds
    BY SizeAssumption, SenderAssumption DEF Seqs
  <2> QED  BY <1>1, <2>1, <2>2 DEF RetransmissionTimeout, SenderState
<1>3. /\ t.head = s.head /\ t.tail = s.tail /\ t.sent = s.sent /\ t.nextTx = s.nextTx
      /\ t.highTxMark = s.highTxMark /\ t.resent = s.head /\ t.lost = s.sent
      /\ t.guessed = 0 /\ t.inLoss = TRUE /\ t.rWnd = s.rWnd
      /\ t.highRxAckMark = s.highRxAckMark /\ t.heard = s.heard /\ t.out = s.out
      /\ t.persistEvent = s.persistEvent /\ t.endPoint = s.endPoint
  BY <1>1 DEF RetransmissionTimeout, SenderState
<1> HIDE DEF t
<1>4. OrderedMarks(t)
  BY <1>1, <1>3, Numbers DEF OrderedMarks
<1>5. Sound(t, n, m) /\ PersistIffClosed(t) /\ AllLost(t)
  <2>1. Sound(t, n, m)
    BY <1>1, <1>2, <1>3, <1>4 DEF Sound, Within
  <2>2. PersistIffClosed(t)
    BY <1>1, <1>3 DEF PersistIffClosed
  <2>3. AllLost(t)
    BY <1>3 DEF AllLost
  <2> QED  BY <2>1, <2>2, <2>3
<1>6. Healthy(SendPendingData(t), n, m) /\ t.highTxMark <= SendPendingData(t).highTxMark
  BY <1>5, PendingHealthy, Pending
<1> QED  BY <1>3, <1>6 DEF t

\* A probe moves no mark out of order.
LEMMA ProbeHealthy ==
  ASSUME NEW s, NEW n \in Nat, NEW m \in Nat, Healthy(s, n, m),
         s.persistEvent, NEW end \in LastStarts(s)
  PROVE  LET probe == [seq |-> s.nextTx, len |-> Smaller(1, s.tail - s.nextTx),
                       ack |-> FALSE]
             r == [ResetTo(CopyProbe(s), end) EXCEPT !.out = {probe}]
         IN  Healthy(r, n, m) /\ r.highTxMark = s.highTxMark
<1> DEFINE probe == [seq |-> s.nextTx, len |-> Smaller(1, s.tail - s.nextTx),
                     ack |-> FALSE]
           c == CopyProbe(s)
           t == ResetTo(c, end)
           r == [t EXCEPT !.out = {probe}]
           guessed == Smaller(s.guessed, Less(end, s.head + SegSize))
<1>1. s \in SenderState /\ OrderedMarks(s) /\ Within(s, n, m)
      /\ PersistIffClosed(s) /\ Timed(s)
  BY DEF Healthy, Sound
<1>2. /\ end \in Nat /\ s.head <= end /\ end <= s.sent
      /\ s.nextTx < s.sent => end < s.sent
      /\ end < s.sent => s.nextTx # s.sent \/ s.nextTx = s.tail
  BY <1>1, Numbers DEF LastStarts, OrderedMarks
<1>3. probe \in Segment /\ SegmentFits(probe, s.highTxMark, m)
  BY <1>1, Numbers DEF Segment, SegmentFits, Smaller, OrderedMarks, Seqs
<1> HIDE DEF probe
<1>4. c = IF s.nextTx < s.sent
          THEN [s EXCEPT !.resent = IF s.resent = s.nextTx /\ s.resent < s.lost
                                    THEN s.resent + 1 ELSE s.resent]
          ELSE [s EXCEPT !.sent = Smaller(s.nextTx + 1, s.tail)]
  BY DEF CopyProbe
<1>5. /\ c.resent = IF s.nextTx < s.sent /\ s.resent = s.nextTx /\ s.resent < s.lost
                    THEN s.resent + 1 ELSE s.resent
      /\ c.head = s.head /\ c.tail = s.tail /\ c.nextTx = s.nextTx
      /\ c.highTxMark = s.highTxMark /\ c.lost = s.lost
      /\ c.guessed = s.guessed /\ c.inLoss = s.inLoss /\ c.rWnd = s.rWnd
      /\ c.cWnd = s.cWnd
      /\ c.highRxAckMark = s.highRxAckMark /\ c.heard = s.heard
      /\ c.persistEvent = s.persistEvent /\ c.endPoint = s.endPoint
      /\ c.retxEvent = s.retxEvent
  BY <1>1, <1>4 DEF SenderState
<1>6. c \in SenderState
  <2>1. s.nextTx < s.sent => c.resent \in Seqs
    BY <1>1, <1>5, Numbers DEF Seqs, OrderedMarks
  <2>2. Smaller(s.nextTx + 1, s.tail) \in Seqs
    BY <1>1, Numbers DEF Smaller, Seqs
  <2>3. s.nextTx < s.sent => c = [s EXCEPT !.resent = c.resent]
    BY <1>1, <1>4, <1>5
  <2> QED  BY <1>1, <1>4, <2>1, <2>2, <2>3 DEF SenderState
<1>7. c.resent \in Nat /\ s.head <= c.resent /\ c.resent <= s.lost
  BY <1>1, <1>5, Numbers DEF OrderedMarks
<1> HIDE DEF c
<1>8. t = [c EXCEPT !.sent = end, !.lost = Smaller(s.lost, end),
                    !.resent = Smaller(c.resent, end), !.guessed = guessed]
  BY <1>5 DEF ResetTo
<1>9. /\ end \in Seqs /\ Smaller(s.lost, end) \in Seqs /\ Smaller(c.resent, end) \in Seqs
      /\ guessed \in Seqs
  BY <1>1, <1>2, <1>7, Numbers DEF Smaller, Less, Seqs, OrderedMarks
<1> HIDE DEF t, guessed
<1>10. t \in SenderState
  BY <1>6, <1>8, <1>9 DEF SenderState
<1>11. /\ t.sent = end /\ t.lost = Smaller(s.lost, end) /\ t.guessed = guessed
       /\ t.resent = Smaller(c.resent, end)
       /\ t.head = s.head /\ t.tail = s.tail /\ t.nextTx = s.nextTx
       /\ t.highTxMark = s.highTxMark /\ t.inLoss = s.inLoss /\ t.rWnd = s.rWnd
       /\ t.cWnd = s.cWnd
       /\ t.highRxAckMark = s.highRxAckMark /\ t.heard = s.heard
       /\ t.persistEvent = s.persistEvent /\ t.endPoint = s.endPoint
       /\ t.retxEvent = s.retxEvent
  BY <1>5, <1>6, <1>8 DEF SenderState
<1>12. r \in SenderState /\ r.out = {probe} /\ SameData(t, r) /\ r.rWnd = t.rWnd
       /\ r.highRxAckMark = t.highRxAckMark /\ r.heard = t.heard
  BY <1>3, <1>10 DEF SenderState, SameData
<1> HIDE DEF r
<1>13. OrderedMarks(r)
  BY <1>1, <1>2, <1>7, <1>11, <1>12, Numbers DEF OrderedMarks, SameData, Smaller
<1>14. Within(r, n, m)
  BY <1>1, <1>2, <1>11, <1>12, Numbers DEF Within, SameData
<1>15. Sound(r, n, m) /\ PersistIffClosed(r)
  BY <1>1, <1>3, <1>11, <1>12, <1>13, <1>14 DEF Sound, PersistIffClosed, SameData
<1>16. ASSUME Untimed(r) PROVE AllLost(r) /\ AvailableWindow(r) < SegSize
  <2>1. Untimed(s) /\ AllLost(s)
    BY <1>1, <1>11, <1>12, <1>16 DEF Untimed, Timed, SameData
  <2>2. r.rWnd = 0
    BY <1>1, <1>11, <1>12, <2>1 DEF PersistIffClosed, Untimed
  <2>3. AvailableWindow(r) < SegSize
    BY <1>12, <1>13, <2>2, Available, Numbers
  <2>4. r.guessed = 0 /\ r.inLoss /\ r.lost = r.sent /\ r.sent = end
    BY <1>1, <1>2, <1>11, <1>12, <2>1, Numbers
    DEF guessed, Smaller, Less, SameData, AllLost
  <2>5. \/ r.resent = r.head
        \/ r.resent = r.head + 1 /\ r.nextTx = r.head /\ r.sent < r.tail
    BY <1>1, <1>2, <1>5, <1>7, <1>11, <1>12, <2>1, <2>4, Numbers
    DEF Smaller, SameData, AllLost, OrderedMarks
  <2> QED  BY <2>3, <2>4, <2>5 DEF AllLost
<1>17. Healthy(r, n, m) /\ r.highTxMark = s.highTxMark
  BY <1>11, <1>12, <1>15, <1>16 DEF Healthy, Timed, SameData
<1> QED  BY <1>17 DEF r, t, c, probe

-----------------------------------------------------------------------------
(***************************************************************************)
(* The receiver                                                            *)
(***************************************************************************)
LEMMA ReceiverNumbers ==
  ASSUME NEW r \in ReceiverState
  PROVE  /\ r.next \in Nat /\ r.next <= NumBytes /\ r.read \in Nat /\ r.buf \in Nat
         /\ MaxRxSequence(r) \in Nat /\ NumBytes \in Nat
<1>1. r.next \in Seqs /\ r.read \in Seqs /\ r.buf \in BufSizes
  BY DEF ReceiverState
<1>2. BufSizes \subseteq Nat /\ NumBytes \in Nat
  BY SizeAssumption
<1>3. r.buf \in Nat
  BY <1>1, <1>2
<1>4. r.next \in Nat /\ r.next <= NumBytes /\ r.read \in Nat
  BY <1>1, <1>2 DEF Seqs
<1> QED  BY <1>2, <1>3, <1>4 DEF MaxRxSequence

\* What is added ends where it fits and was sent, and no byte is out of place.
LEMMA Adding ==
  ASSUME NEW r \in ReceiverState, NEW high \in Nat, ReceiverFits(r, high),
         NEW d \in Segment, SegmentFits(d, high, MaxRxSequence(r))
  PROVE  LET added == AddToBuffer(r, Fresh(r, d))
         IN  /\ added \in ReceiverState /\ ReceiverFits(added, high)
             /\ r.next <= added.next /\ added.read = r.read /\ added.buf = r.buf
             /\ added.delAckCount = r.delAckCount
<1> DEFINE max   == MaxRxSequence(r)
           held  == r.held \cup Fresh(r, d)
           free  == (r.next .. NumBytes) \ held
           next  == Smallest(free)
           kept  == {x \in held : x >= next}
           added == AddToBuffer(r, Fresh(r, d))
<1>1. /\ r.next \in Nat /\ r.next <= NumBytes /\ r.read \in Nat /\ r.buf \in Nat
      /\ max \in Nat /\ NumBytes \in Nat
  BY ReceiverNumbers
<1>2. d.seq \in Nat /\ d.len \in Nat /\ d.seq + d.len <= NumBytes
      /\ d.seq + d.len <= high + 1
  <2>1. d.seq \in Seqs /\ d.len \in 0 .. SegSize
    BY DEF Segment
  <2>2. d.seq \in Nat /\ d.len \in Nat
    BY <2>1, SizeAssumption DEF Seqs
  <2> QED  BY <1>1, <2>2 DEF SegmentFits, Smaller
<1>3. \A x \in held : x \in Nat /\ x < NumBytes /\ x <= high /\ x < max
  <2>1. ASSUME NEW x \in r.held PROVE x \in Nat /\ x < NumBytes /\ x <= high /\ x < max
    BY SizeAssumption DEF ReceiverFits, ReceiverState, Seqs
  <2>2. ASSUME NEW x \in Fresh(r, d)
        PROVE  x \in Nat /\ x < NumBytes /\ x <= high /\ x < max
    BY <1>1, <1>2 DEF Fresh
  <2> QED  BY <2>1, <2>2
<1>4. r.read <= r.next /\ r.next <= max /\ r.next <= high + 1
  BY DEF ReceiverFits
<1> HIDE DEF held, max
<1>5. next \in free /\ \A x \in free : next <= x
  <2>1. NumBytes \in free /\ free \subseteq Nat
    BY <1>1, <1>3
  <2> HIDE DEF free
  <2> QED  BY <2>1, SmallestOf
<1> HIDE DEF next
<1>6. next \in Nat /\ r.next <= next /\ next <= NumBytes /\ next <= high + 1 /\ next <= max
  <2>1. next \in Nat /\ r.next <= next /\ next <= NumBytes
    BY <1>1, <1>5
  <2>2. CASE next = r.next
    BY <1>1, <1>4, <2>1, <2>2
  <2>3. CASE next # r.next
    <3>1. next - 1 \in r.next .. NumBytes /\ next - 1 \notin free
      BY <1>1, <1>5, <2>1, <2>3
    <3>2. next - 1 \in held
      BY <3>1
    <3>3. next - 1 <= high /\ next - 1 < max
      BY <1>3, <3>2
    <3> QED  BY <1>1, <2>1, <3>3
  <2> QED  BY <2>2, <2>3
<1>7. added = [r EXCEPT !.next = next, !.held = kept]
  BY DEF AddToBuffer, held, next
<1>8. kept \subseteq Seqs /\ next \in Seqs
  BY <1>1, <1>3, <1>6 DEF Seqs
<1> HIDE DEF added, kept
<1>9. added \in ReceiverState
  BY <1>7, <1>8 DEF ReceiverState
<1>10. /\ added.next = next /\ added.held = kept /\ added.read = r.read
       /\ added.buf = r.buf /\ added.delAckCount = r.delAckCount
  BY <1>7 DEF ReceiverState
<1>11. MaxRxSequence(added) = max
  BY <1>10 DEF MaxRxSequence, max
<1>12. ReceiverFits(added, high)
  BY <1>1, <1>3, <1>4, <1>6, <1>10, <1>11 DEF ReceiverFits, kept
<1> QED  BY <1>6, <1>9, <1>10, <1>12 DEF added

\* Reading makes room.
LEMMA Reading ==
  ASSUME NEW r \in ReceiverState, NEW high \in Nat, ReceiverFits(r, high), NEW k \in Nat
  PROVE  LET read == ReadUpTo(r, k)
         IN  /\ read \in ReceiverState /\ ReceiverFits(read, high)
             /\ read.next = r.next /\ MaxRxSequence(r) <= MaxRxSequence(read)
             /\ read.delAckCount = r.delAckCount
<1> DEFINE read == ReadUpTo(r, k)
           to   == Smaller(r.read + k, r.next)
<1>1. /\ r.next \in Nat /\ r.next <= NumBytes /\ r.read \in Nat /\ r.buf \in Nat
      /\ NumBytes \in Nat
  BY ReceiverNumbers
<1>2. to \in Seqs /\ to \in Nat /\ r.read <= to /\ to <= r.next
  BY <1>1 DEF Smaller, ReceiverFits, Seqs
<1>3. read = [r EXCEPT !.read = to]
  BY DEF ReadUpTo
<1> HIDE DEF to, read
<1>4. read \in ReceiverState
  BY <1>2, <1>3 DEF ReceiverState
<1>5. /\ read.next = r.next /\ read.held = r.held /\ read.read = to
      /\ read.buf = r.buf /\ read.delAckCount = r.delAckCount
  BY <1>3 DEF ReceiverState
<1>6. MaxRxSequence(r) \in Nat /\ MaxRxSequence(read) \in Nat
      /\ MaxRxSequence(r) <= MaxRxSequence(read)
  BY <1>1, <1>2, <1>5 DEF MaxRxSequence
<1>7. ReceiverFits(read, high)
  <2>1. ASSUME NEW x \in r.held PROVE x < NumBytes /\ x <= high /\ x < MaxRxSequence(read)
    <3>1. x \in Nat /\ x < MaxRxSequence(r)
      BY SizeAssumption DEF ReceiverFits, ReceiverState, Seqs
    <3> QED  BY <1>6, <3>1 DEF ReceiverFits
  <2> QED
    BY <1>1, <1>2, <1>5, <1>6, <2>1 DEF ReceiverFits
<1> QED  BY <1>4, <1>5, <1>6, <1>7 DEF read

-----------------------------------------------------------------------------
(***************************************************************************)
(* Every step keeps the invariant                                          *)
(***************************************************************************)
LEMMA Queue ==
  ASSUME NEW Q, NEW S, NEW max
  PROVE  Enqueue(Q, S, max) \subseteq Q \cup S
BY DEF Enqueue

\* A handler of the sender ends.
LEMMA SenderStep ==
  ASSUME IInv, NEW s, Healthy(s, rcv.next, MaxRxSequence(rcv)),
         snd.highTxMark <= s.highTxMark,
         Finish(s), rcv' = rcv, acks' \subseteq acks
  PROVE  IInv'
<1> DEFINE t == [s EXCEPT !.out = {}]
           n == rcv.next
           m == MaxRxSequence(rcv)
<1>1. /\ snd \in SenderState /\ rcv \in ReceiverState
      /\ data \subseteq Segment /\ acks \subseteq Ack
      /\ \A d \in data : SegmentFits(d, snd.highTxMark, m)
      /\ \A a \in acks : AckFits(a, n, m)
      /\ ReceiverFits(rcv, snd.highTxMark)
  BY DEF IInv, TypeOK
<1>2. n \in Nat /\ m \in Nat
  BY <1>1, ReceiverNumbers
<1>3. /\ s \in SenderState /\ Sound(s, n, m) /\ PersistIffClosed(s) /\ Timed(s)
      /\ s.out \subseteq Segment
      /\ \A d \in s.out : SegmentFits(d, s.highTxMark, m)
  BY DEF Healthy, Sound, SenderState
<1>4. t \in SenderState /\ t.out = {} /\ SameData(s, t) /\ t.rWnd = s.rWnd
      /\ t.highRxAckMark = s.highRxAckMark /\ t.heard = s.heard
  BY <1>3 DEF SenderState, SameData
<1>5. snd' = t /\ data' \subseteq data \cup s.out
  BY Queue DEF Finish
<1> HIDE DEF t, n, m
<1>6. Alike(s, t)
  BY <1>4 DEF Alike, SameData
<1>7. Sound(t, n, m)
  BY <1>2, <1>3, <1>4, <1>6, AlikeSound
<1>8. Healthy(t, n, m)
  BY <1>3, <1>4, <1>6, <1>7, AlikeData DEF Healthy, PersistIffClosed, Timed, Untimed, SameData
<1>9. /\ t.highTxMark = s.highTxMark /\ snd.highTxMark \in Nat /\ s.highTxMark \in Nat
  BY <1>1, <1>3, <1>4, Numbers DEF SameData
<1>10. ASSUME NEW d \in data' PROVE d \in Segment /\ SegmentFits(d, t.highTxMark, m)
  <2>1. CASE d \in data
    <3>1. d \in Segment /\ SegmentFits(d, snd.highTxMark, m) /\ m <= m
      BY <1>1, <1>2, <2>1
    <3> QED  BY <1>2, <1>9, <3>1, FitsLater
  <2>2. CASE d \in s.out
    BY <1>3, <1>9, <2>2
  <2> QED  BY <1>5, <2>1, <2>2
<1>11. ReceiverFits(rcv, t.highTxMark)
  <2>1. rcv.next \in Nat /\ \A x \in rcv.held : x \in Nat
    BY <1>1, SizeAssumption DEF ReceiverState, Seqs
  <2> QED  BY <1>1, <1>9, <2>1 DEF ReceiverFits
<1>12. TypeOK'
  BY <1>1, <1>4, <1>5, <1>10 DEF TypeOK
<1> QED
  BY <1>1, <1>4, <1>5, <1>8, <1>10, <1>11, <1>12 DEF IInv, n, m

\* A handler of the receiver ends.
LEMMA ReceiverStep ==
  ASSUME IInv, NEW r \in ReceiverState, ReceiverFits(r, snd.highTxMark),
         rcv.next <= r.next, MaxRxSequence(rcv) <= MaxRxSequence(r),
         NEW sends \in BOOLEAN, FinishAck(r, sends), snd' = snd, data' \subseteq data
  PROVE  IInv'
<1> DEFINE n == r.next
           m == MaxRxSequence(r)
           k == Acknowledged(r)
<1>1. /\ snd \in SenderState /\ rcv \in ReceiverState
      /\ data \subseteq Segment /\ acks \subseteq Ack
      /\ \A d \in data : SegmentFits(d, snd.highTxMark, MaxRxSequence(rcv))
      /\ \A a \in acks : AckFits(a, rcv.next, MaxRxSequence(rcv))
      /\ snd.out = {} /\ Healthy(snd, rcv.next, MaxRxSequence(rcv))
  BY DEF IInv, TypeOK
<1>2. /\ n \in Nat /\ m \in Nat /\ rcv.next \in Nat /\ MaxRxSequence(rcv) \in Nat
      /\ snd.highTxMark \in Nat
  BY <1>1, ReceiverNumbers, Numbers
<1>3. AckOf(r) \in Ack /\ AckFits(AckOf(r), n, m)
  BY Advertised DEF ReceiverFits
<1>4. acks' \subseteq acks \cup {AckOf(r)}
  BY Queue DEF FinishAck
<1>5. k \in ReceiverState /\ k.next = r.next /\ MaxRxSequence(k) = MaxRxSequence(r)
      /\ k.held = r.held /\ k.read = r.read
  <2>1. 0 \in 0 .. DelAckMax - 1
    BY OptionAssumption
  <2> QED  BY <2>1 DEF ReceiverState, Acknowledged, MaxRxSequence
<1>6. rcv' \in ReceiverState /\ rcv'.next = n /\ MaxRxSequence(rcv') = m
      /\ rcv'.held = r.held /\ rcv'.read = r.read
  BY <1>5 DEF FinishAck
<1> HIDE DEF n, m, k
<1>7. ReceiverFits(rcv', snd.highTxMark)
  BY <1>6 DEF ReceiverFits, n, m
<1>8. Healthy(snd, n, m)
  <2>1. Within(snd, n, m)
    BY <1>1, <1>2, Numbers DEF Healthy, Sound, Within, n, m
  <2>2. Sound(snd, n, m)
    BY <1>1, <2>1 DEF Healthy, Sound
  <2> QED  BY <1>1, <2>2 DEF Healthy
<1>9. \A d \in data' : SegmentFits(d, snd.highTxMark, m)
  <2> SUFFICES ASSUME NEW d \in data' PROVE SegmentFits(d, snd.highTxMark, m)
    OBVIOUS
  <2>1. /\ d \in Segment /\ SegmentFits(d, snd.highTxMark, MaxRxSequence(rcv))
        /\ snd.highTxMark <= snd.highTxMark /\ MaxRxSequence(rcv) <= m
    BY <1>1, <1>2 DEF m
  <2> QED  BY <1>2, <2>1, FitsLater
<1>10. ASSUME NEW a \in acks' PROVE a \in Ack /\ AckFits(a, n, m)
  <2>1. CASE a = AckOf(r)
    BY <1>3, <2>1
  <2>2. CASE a \in acks
    <3>1. a \in Ack /\ AckFits(a, rcv.next, MaxRxSequence(rcv))
      BY <1>1, <2>2
    <3>2. a.ack \in Nat /\ a.wnd \in Nat /\ 2 ^ WindShift \in Nat
      BY <3>1, Scale, SizeAssumption DEF Ack, Seqs
    <3>3. a.wnd * 2 ^ WindShift \in Nat
      BY <3>2
    <3> QED  BY <1>2, <3>1, <3>2, <3>3 DEF AckFits, n, m
  <2> QED  BY <1>4, <2>1, <2>2
<1>11. TypeOK'
  BY <1>1, <1>6, <1>10 DEF TypeOK
<1> QED
  BY <1>1, <1>6, <1>7, <1>8, <1>9, <1>10, <1>11 DEF IInv

LEMMA InitInvariant ==
  ASSUME Init
  PROVE  IInv
<1> DEFINE buf == Smallest(BufSizes)
<1>1. buf \in BufSizes /\ buf \in Nat \ {0}
  BY SmallestOf, SizeAssumption
<1>2. /\ NumBytes \in Nat /\ SegSize \in Nat \ {0} /\ MaxWinSize \in Nat \ {0}
      /\ SegSize \in Cwnds /\ DataRetries \in 0 .. DataRetries
      /\ 0 \in 0 .. DelAckMax - 1 /\ 0 \in Seqs
  BY SizeAssumption, OptionAssumption, SenderAssumption DEF Seqs
<1> HIDE DEF buf
<1>3. Smaller(buf, MaxWinSize) \in Nat \ {0} /\ Smaller(buf, MaxWinSize) <= buf
      /\ Smaller(buf, MaxWinSize) <= MaxWinSize
  BY <1>1, <1>2 DEF Smaller
<1>4. Smaller(buf, MaxWinSize) \in Windows
  <2>1. 2 ^ 14 = 16384
    OBVIOUS
  <2> QED  BY <1>2, <1>3, <2>1 DEF Windows
<1>5. /\ snd.head = 0 /\ snd.tail = 0 /\ snd.sent = 0 /\ snd.highTxMark = 0
      /\ snd.nextTx = 0 /\ snd.resent = 0 /\ snd.lost = 0
      /\ snd.rWnd = Smaller(buf, MaxWinSize) /\ snd.highRxAckMark = 0
      /\ snd.persistEvent = FALSE /\ snd.out = {}
      /\ rcv.next = 0 /\ rcv.held = {} /\ rcv.read = 0 /\ rcv.buf = buf
      /\ data = {} /\ acks = {}
  BY DEF Init, buf
<1>6. snd \in SenderState
  BY <1>2, <1>4 DEF Init, buf, SenderState
<1>7. rcv \in ReceiverState
  BY <1>1, <1>2 DEF Init, buf, ReceiverState
<1>8. MaxRxSequence(rcv) = buf
  BY <1>1, <1>5 DEF MaxRxSequence
<1>9. Sound(snd, rcv.next, MaxRxSequence(rcv))
  BY <1>1, <1>3, <1>5, <1>6, <1>8 DEF Sound, OrderedMarks, Within
<1>10. Healthy(snd, rcv.next, MaxRxSequence(rcv))
  BY <1>3, <1>5, <1>9 DEF Healthy, PersistIffClosed, Timed, Untimed
<1>11. ReceiverFits(rcv, snd.highTxMark)
  BY <1>1, <1>5, <1>8 DEF ReceiverFits
<1> QED  BY <1>5, <1>6, <1>7, <1>10, <1>11 DEF IInv, TypeOK

LEMMA NextInvariant ==
  ASSUME IInv, [Next]_vars
  PROVE  IInv'
<1> DEFINE n == rcv.next
           m == MaxRxSequence(rcv)
           high == snd.highTxMark
<1>1. /\ snd \in SenderState /\ rcv \in ReceiverState
      /\ data \subseteq Segment /\ acks \subseteq Ack
      /\ \A d \in data : SegmentFits(d, high, m)
      /\ \A a \in acks : AckFits(a, n, m)
      /\ ReceiverFits(rcv, high)
      /\ snd.out = {} /\ Healthy(snd, n, m) /\ Sound(snd, n, m)
      /\ OrderedMarks(snd) /\ PersistIffClosed(snd) /\ Timed(snd)
  BY DEF IInv, TypeOK, Healthy, Sound
<1>2. n \in Nat /\ m \in Nat /\ high \in Nat /\ n <= n /\ m <= m /\ high <= high
  BY <1>1, ReceiverNumbers, Numbers
<1>3. CASE UNCHANGED vars
  BY <1>3 DEF vars, IInv, TypeOK
<1>4. CASE Send
  <2>1. PICK k \in Writes :
           /\ snd.tail + k <= NumBytes
           /\ LET s == [snd EXCEPT !.tail = @ + k]
              IN  snd' = [s EXCEPT !.sendEvent = @ \/ AvailableWindow(s) > 0]
    BY <1>4 DEF Send
  <2> DEFINE s == [snd EXCEPT !.tail = snd.tail + k]
             event == snd.sendEvent \/ AvailableWindow(s) > 0
  <2>2. rcv' = rcv /\ data' = data /\ acks' = acks
    BY <1>4 DEF Send
  <2>3. k \in Nat /\ snd.tail + k \in Seqs /\ event \in BOOLEAN
    BY <1>1, <2>1, Numbers, SizeAssumption DEF Seqs
  <2>4. snd' = [snd EXCEPT !.tail = snd.tail + k, !.sendEvent = event]
    BY <1>1, <2>1 DEF SenderState
  <2> HIDE DEF event
  <2>5. snd' \in SenderState
    BY <1>1, <2>3, <2>4 DEF SenderState
  <2>6. /\ snd'.tail = snd.tail + k
        /\ snd'.head = snd.head /\ snd'.sent = snd.sent /\ snd'.nextTx = snd.nextTx
        /\ snd'.highTxMark = high /\ snd'.resent = snd.resent /\ snd'.lost = snd.lost
        /\ snd'.guessed = snd.guessed /\ snd'.inLoss = snd.inLoss
        /\ snd'.rWnd = snd.rWnd /\ snd'.cWnd = snd.cWnd
        /\ snd'.highRxAckMark = snd.highRxAckMark /\ snd'.heard = snd.heard
        /\ snd'.out = {} /\ snd'.persistEvent = snd.persistEvent
        /\ snd'.endPoint = snd.endPoint /\ snd'.retxEvent = snd.retxEvent
    BY <1>1, <2>4 DEF SenderState
  <2>7. OrderedMarks(snd')
    BY <1>1, <2>3, <2>6, Numbers DEF OrderedMarks
  <2>8. Sound(snd', n, m)
    BY <1>1, <2>5, <2>6, <2>7 DEF Sound, Within
  <2>9. Untimed(snd') => AllLost(snd') /\ AvailableWindow(snd') < SegSize
    <3>1. AvailableWindow(snd') = AvailableWindow(snd)
      BY <2>6 DEF AvailableWindow, BytesInFlight
    <3>2. AllLost(snd) => AllLost(snd')
      BY <1>1, <2>3, <2>6, Numbers DEF AllLost
    <3>3. Untimed(snd') => Untimed(snd)
      BY <2>6 DEF Untimed
    <3> QED  BY <1>1, <3>1, <3>2, <3>3 DEF Timed
  <2>10. Healthy(snd', n, m)
    BY <1>1, <2>6, <2>8, <2>9 DEF Healthy, PersistIffClosed, Timed
  <2>11. TypeOK'
    BY <1>1, <2>2, <2>5 DEF TypeOK
  <2> QED  BY <1>1, <2>2, <2>6, <2>10, <2>11 DEF IInv
<1>5. CASE SendPendingDataEvent
  <2> DEFINE s == [snd EXCEPT !.sendEvent = FALSE]
  <2>1. /\ s \in SenderState /\ Alike(snd, s) /\ s.highRxAckMark = snd.highRxAckMark
        /\ s.heard = snd.heard /\ s.out = snd.out /\ s.persistEvent = snd.persistEvent
        /\ s.endPoint = snd.endPoint /\ s.retxEvent = snd.retxEvent
        /\ s.highTxMark = high
    BY <1>1 DEF SenderState, Alike
  <2>2. Finish(SendPendingData(s)) /\ rcv' = rcv /\ acks' = acks
    BY <1>5 DEF SendPendingDataEvent
  <2> HIDE DEF s
  <2>3. Sound(s, n, m)
    BY <1>1, <1>2, <2>1, AlikeSound
  <2>4. PersistIffClosed(s) /\ (Untimed(s) => AllLost(s))
    BY <1>1, <2>1, AlikeData DEF PersistIffClosed, Alike, Untimed, Timed
  <2>5. Healthy(SendPendingData(s), n, m) /\ high <= SendPendingData(s).highTxMark
    BY <1>2, <2>1, <2>3, <2>4, PendingHealthy, Pending
  <2> QED  BY <2>2, <2>5, SenderStep
<1>6. CASE ReceiveAck
  <2>1. PICK a \in acks, cWnd \in Cwnds :
           /\ acks' = acks \ {a}
           /\ IF snd.endPoint
              THEN Finish(DoForwardUp(snd, a, cWnd))
              ELSE UNCHANGED <<snd, data>>
           /\ rcv' = rcv
    BY <1>6 DEF ReceiveAck
  <2>2. a \in Ack /\ AckFits(a, n, m)
    BY <1>1
  <2>3. CASE snd.endPoint
    <3>1. /\ Healthy(DoForwardUp(snd, a, cWnd), n, m)
          /\ high <= DoForwardUp(snd, a, cWnd).highTxMark
      BY <1>1, <1>2, <2>2, <2>3, AckHealthy
    <3> QED  BY <2>1, <2>3, <3>1, SenderStep
  <2>4. CASE ~snd.endPoint
    <3>1. snd' = snd /\ data' = data
      BY <2>1, <2>4
    <3> QED  BY <1>1, <2>1, <3>1 DEF IInv, TypeOK
  <2> QED  BY <2>3, <2>4
<1>7. CASE ReTxTimeout
  <2> DEFINE s == [snd EXCEPT !.retxEvent = FALSE]
             t == [s EXCEPT !.endPoint = FALSE, !.persistEvent = FALSE,
                            !.sendEvent = FALSE]
             p == SendPendingData(RetransmissionTimeout(s))
  <2>1. /\ rcv' = rcv /\ acks' = acks
        /\ IF s.head = s.tail THEN Finish(s)
           ELSE IF s.dataRetrCount = 0 THEN Finish(t)
           ELSE Finish(p)
    BY <1>7 DEF ReTxTimeout
  <2>2. /\ s \in SenderState /\ Alike(snd, s) /\ s.highRxAckMark = snd.highRxAckMark
        /\ s.heard = snd.heard /\ s.out = snd.out /\ s.persistEvent = snd.persistEvent
        /\ s.endPoint = snd.endPoint /\ s.retxEvent = FALSE
        /\ s.highTxMark = high
    BY <1>1 DEF SenderState, Alike
  <2> HIDE DEF s
  <2>3. Sound(s, n, m) /\ PersistIffClosed(s)
    BY <1>1, <1>2, <2>2, AlikeSound DEF PersistIffClosed, Alike
  <2>4. CASE s.head = s.tail
    <3>1. ~Untimed(s)
      BY <2>2, <2>3, <2>4, Numbers DEF Untimed, Sound, OrderedMarks
    <3>2. Healthy(s, n, m)
      BY <2>3, <3>1 DEF Healthy, Timed
    <3> QED  BY <1>2, <2>1, <2>2, <2>4, <3>2, SenderStep
  <2>5. CASE s.head # s.tail /\ s.dataRetrCount = 0
    <3>1. /\ t \in SenderState /\ Alike(s, t) /\ t.highRxAckMark = s.highRxAckMark
          /\ t.heard = s.heard /\ t.out = s.out /\ t.endPoint = FALSE
          /\ t.highTxMark = s.highTxMark
      BY <2>2 DEF SenderState, Alike
    <3> HIDE DEF t
    <3>2. Sound(t, n, m)
      BY <1>2, <2>3, <3>1, AlikeSound
    <3>3. Healthy(t, n, m)
      BY <3>1, <3>2 DEF Healthy, PersistIffClosed, Timed, Untimed
    <3> QED  BY <1>2, <2>1, <2>2, <2>5, <3>1, <3>3, SenderStep
  <2>6. CASE s.head # s.tail /\ s.dataRetrCount # 0
    <3>1. Healthy(p, n, m) /\ s.highTxMark <= p.highTxMark
      BY <1>2, <2>2, <2>3, <2>6, TimeoutHealthy
    <3> HIDE DEF p
    <3> QED  BY <1>2, <2>1, <2>2, <2>6, <3>1, SenderStep
  <2> QED  BY <2>4, <2>5, <2>6
<1>8. CASE PersistTimeout
  <2>1. PICK end \in LastStarts(snd) :
           LET probe == [seq |-> snd.nextTx,
                         len |-> Smaller(1, snd.tail - snd.nextTx), ack |-> FALSE]
           IN  Finish([ResetTo(CopyProbe(snd), end) EXCEPT !.out = {probe}])
    BY <1>8 DEF PersistTimeout
  <2>2. rcv' = rcv /\ acks' = acks /\ snd.persistEvent
    BY <1>8 DEF PersistTimeout
  <2> DEFINE probe == [seq |-> snd.nextTx,
                       len |-> Smaller(1, snd.tail - snd.nextTx), ack |-> FALSE]
             r == [ResetTo(CopyProbe(snd), end) EXCEPT !.out = {probe}]
  <2>3. Healthy(r, n, m) /\ r.highTxMark = high
    BY <1>1, <1>2, <2>2, ProbeHealthy
  <2>4. Finish(r)
    BY <2>1
  <2> HIDE DEF r
  <2> QED  BY <1>2, <2>2, <2>3, <2>4, SenderStep
<1>9. CASE ReceiveData
  <2>1. PICK d \in data :
           LET fresh == Fresh(rcv, d)
               added == AddToBuffer(rcv, fresh)
           IN  /\ data' = data \ {d}
               /\ IF Prompt(rcv, d, fresh)
                  THEN \E k \in {0} \cup Reads :
                          /\ k > 0 => added.next > rcv.next
                          /\ FinishAck(ReadUpTo(added, k), TRUE)
                  ELSE \E k \in {0} \cup Reads :
                          FinishAck(Delayed(ReadUpTo(added, k)), FALSE)
               /\ snd' = snd
    BY <1>9 DEF ReceiveData
  <2> DEFINE added == AddToBuffer(rcv, Fresh(rcv, d))
  <2>2. /\ added \in ReceiverState /\ ReceiverFits(added, high)
        /\ rcv.next <= added.next /\ added.read = rcv.read /\ added.buf = rcv.buf
        /\ added.delAckCount = rcv.delAckCount
    BY <1>1, <1>2, Adding
  <2>3. snd' = snd /\ data' \subseteq data
    BY <2>1
  <2>4. ~Prompt(rcv, d, Fresh(rcv, d)) => ~(rcv.delAckCount + 1 >= DelAckMax)
    BY DEF Prompt
  <2>5. \E k \in {0} \cup Reads :
           \/ FinishAck(ReadUpTo(added, k), TRUE)
           \/ /\ FinishAck(Delayed(ReadUpTo(added, k)), FALSE)
              /\ ~(rcv.delAckCount + 1 >= DelAckMax)
    BY <2>1, <2>4
  <2> HIDE DEF added
  <2>6. PICK k \in {0} \cup Reads :
           \/ FinishAck(ReadUpTo(added, k), TRUE)
           \/ /\ FinishAck(Delayed(ReadUpTo(added, k)), FALSE)
              /\ ~(rcv.delAckCount + 1 >= DelAckMax)
    BY <2>5
  <2> DEFINE r == ReadUpTo(added, k)
             e == Delayed(r)
  <2>7. k \in Nat
    BY SizeAssumption
  <2>8. /\ r \in ReceiverState /\ ReceiverFits(r, high)
        /\ r.next = added.next /\ MaxRxSequence(added) <= MaxRxSequence(r)
        /\ r.delAckCount = added.delAckCount
    BY <1>2, <2>2, <2>7, Reading
  <2>9. rcv.next <= r.next /\ MaxRxSequence(rcv) <= MaxRxSequence(r)
    BY <2>2, <2>8 DEF MaxRxSequence
  <2> HIDE DEF r
  <2>10. CASE FinishAck(r, TRUE)
    BY <2>3, <2>8, <2>9, <2>10, ReceiverStep
  <2>11. CASE FinishAck(e, FALSE) /\ ~(rcv.delAckCount + 1 >= DelAckMax)
    <3>1. r.delAckCount + 1 \in 0 .. DelAckMax - 1
      BY <1>1, <2>2, <2>8, <2>11, OptionAssumption DEF ReceiverState
    <3>2. /\ e \in ReceiverState /\ e.next = r.next /\ e.held = r.held
          /\ e.read = r.read /\ e.buf = r.buf
      BY <2>8, <3>1 DEF ReceiverState, Delayed
    <3> HIDE DEF e
    <3>3. MaxRxSequence(e) = MaxRxSequence(r) /\ ReceiverFits(e, high)
      BY <2>8, <3>2 DEF MaxRxSequence, ReceiverFits
    <3> QED  BY <2>3, <2>9, <2>11, <3>2, <3>3, ReceiverStep
  <2> QED  BY <2>6, <2>10, <2>11 DEF r, e
<1>10. CASE DelAckTimeout
  <2>1. FinishAck(rcv, TRUE) /\ snd' = snd /\ data' \subseteq data
    BY <1>10 DEF DelAckTimeout
  <2> QED  BY <1>1, <1>2, <2>1, ReceiverStep
<1>11. CASE Recv
  <2>1. PICK k \in Reads : FinishAck(ReadUpTo(rcv, k), FALSE)
    BY <1>11 DEF Recv
  <2>2. k \in Nat /\ snd' = snd /\ data' \subseteq data
    BY <1>11, SizeAssumption DEF Recv
  <2>3. /\ ReadUpTo(rcv, k) \in ReceiverState /\ ReceiverFits(ReadUpTo(rcv, k), high)
        /\ ReadUpTo(rcv, k).next = rcv.next
        /\ MaxRxSequence(rcv) <= MaxRxSequence(ReadUpTo(rcv, k))
    BY <1>1, <1>2, <2>2, Reading
  <2> QED  BY <1>2, <2>1, <2>2, <2>3, ReceiverStep
<1>12. CASE SetRcvBufSize
  <2>1. PICK size \in BufSizes :
           size > rcv.buf /\ FinishAck([rcv EXCEPT !.buf = size], TRUE)
    BY <1>12 DEF SetRcvBufSize
  <2> DEFINE r == [rcv EXCEPT !.buf = size]
  <2>2. snd' = snd /\ data' \subseteq data /\ size \in Nat
    BY <1>12, SizeAssumption DEF SetRcvBufSize
  <2>3. /\ r \in ReceiverState /\ r.next = rcv.next /\ r.held = rcv.held
        /\ r.read = rcv.read /\ r.buf = size
    BY <1>1 DEF ReceiverState
  <2>4. FinishAck(r, TRUE)
    BY <2>1
  <2> HIDE DEF r
  <2>5. MaxRxSequence(r) \in Nat /\ m <= MaxRxSequence(r)
    BY <1>1, <2>1, <2>2, <2>3, ReceiverNumbers DEF MaxRxSequence
  <2>6. ReceiverFits(r, high)
    <3>1. \A x \in rcv.held : x \in Nat /\ x < m /\ x < NumBytes /\ x <= high
      BY <1>1, SizeAssumption DEF ReceiverFits, ReceiverState, Seqs
    <3>2. rcv.read <= rcv.next /\ rcv.next <= m /\ rcv.next <= high + 1
      BY <1>1 DEF ReceiverFits
    <3> HIDE DEF m
    <3> QED  BY <1>2, <2>3, <2>5, <3>1, <3>2 DEF ReceiverFits
  <2> QED  BY <1>2, <2>2, <2>3, <2>4, <2>5, <2>6, ReceiverStep
<1>13. CASE Lose
  <2>1. snd' = snd /\ rcv' = rcv /\ data' \subseteq data /\ acks' \subseteq acks
    BY <1>13 DEF Lose
  <2> QED  BY <1>1, <2>1 DEF IInv, TypeOK
<1> QED
  BY <1>3, <1>4, <1>5, <1>6, <1>7, <1>8, <1>9, <1>10, <1>11, <1>12, <1>13 DEF Next

LEMMA FlowInvariant == Spec => []IInv
<1>1. Init => IInv
  BY InitInvariant
<1>2. IInv /\ [Next]_vars => IInv'
  BY NextInvariant
<1> QED  BY <1>1, <1>2, PTL DEF Spec

-----------------------------------------------------------------------------
(***************************************************************************)
(* Theorems                                                                *)
(***************************************************************************)
\* Every mark of the sender and the receiver stays within the data, and the window and
\* the counters within their ranges.
THEOREM TypeCorrect == Spec => []TypeOK
<1>1. IInv => TypeOK
  BY DEF IInv
<1> QED  BY <1>1, FlowInvariant, PTL

\* UpdateWindowSize takes ACKs in any order and never one that promises more than the
\* receiver has room for by then.
THEOREM EdgeIsHonest == Spec => []EdgeHonest
<1>1. IInv => EdgeHonest
  BY DEF IInv, Healthy, Sound, Within, EdgeHonest
<1> QED  BY <1>1, FlowInvariant, PTL

\* SendPendingData sends nothing that the receive buffer has no room for.
THEOREM BufferNotOverrun == Spec => []NoOverrun
<1>1. ASSUME IInv, NEW d \in data, d.ack
      PROVE  d.seq + d.len <= MaxRxSequence(rcv)
  <2>1. SegmentFits(d, snd.highTxMark, MaxRxSequence(rcv)) /\ snd \in SenderState
        /\ rcv \in ReceiverState /\ d \in Segment
    BY <1>1 DEF IInv, TypeOK
  <2>2. d.seq + d.len \in Nat
    BY <2>1, SizeAssumption DEF Segment, Seqs
  <2> QED  BY <1>1, <2>1, <2>2, Numbers, ReceiverNumbers DEF SegmentFits, Smaller
<1>2. IInv => NoOverrun
  BY <1>1 DEF NoOverrun
<1> QED  BY <1>2, FlowInvariant, PTL

\* The sender discards what has arrived, and a probe is one byte ahead at most.
THEOREM ProbeIsOneAhead == Spec => []AheadByProbe
<1>1. ASSUME IInv PROVE AheadByProbe
  <2>1. /\ snd \in SenderState /\ rcv \in ReceiverState
        /\ OrderedMarks(snd) /\ Within(snd, rcv.next, MaxRxSequence(rcv))
        /\ ReceiverFits(rcv, snd.highTxMark)
    BY <1>1 DEF IInv, TypeOK, Healthy, Sound
  <2> QED
    BY <2>1, Numbers, ReceiverNumbers
    DEF OrderedMarks, Within, ReceiverFits, AheadByProbe
<1> QED  BY <1>1, FlowInvariant, PTL

\* What is outstanding waits with a timer, but for the two cases that the code does not
\* time.
THEOREM OutstandingIsTimed == Spec => []OutstandingTimed
<1>1. ASSUME IInv PROVE OutstandingTimed
  <2>1. /\ snd \in SenderState /\ OrderedMarks(snd)
        /\ PersistIffClosed(snd) /\ Timed(snd)
    BY <1>1 DEF IInv, TypeOK, Healthy, Sound
  <2> SUFFICES ASSUME Untimed(snd), ~snd.persistEvent
               PROVE  /\ snd.rWnd # 0 /\ BytesInFlight(snd) <= 1
                      /\ AvailableWindow(snd) < SegSize
    BY <2>1, Numbers DEF OutstandingTimed, Untimed
  <2>2. AllLost(snd) /\ AvailableWindow(snd) < SegSize
    BY <2>1 DEF Timed
  <2>3. BytesInFlight(snd) = snd.resent - snd.head
    BY <2>1, <2>2, Numbers DEF AllLost, BytesInFlight, Less, OrderedMarks
  <2>4. BytesInFlight(snd) <= 1
    BY <2>1, <2>2, <2>3, Numbers DEF AllLost
  <2> QED  BY <2>1, <2>2, <2>4 DEF PersistIffClosed, Untimed
<1> QED  BY <1>1, FlowInvariant, PTL
=============================================================================
