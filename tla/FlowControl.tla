----------------------------- MODULE FlowControl ----------------------------
(***************************************************************************)
(* The receive window of a TcpSocketBase connection: a receiver with a     *)
(* bounded buffer and an application that reads when it likes, the window  *)
(* it advertises, and a sender that must neither overrun the buffer nor    *)
(* wait for a window that has opened.                                      *)
(*                                                                         *)
(* SwiftSender counts segments and never meets a full receiver; here data  *)
(* is counted in bytes, because windows and probes cut segments.  SACK is  *)
(* off and m_retxThresh above every number of duplicate ACKs, so that the  *)
(* scoreboard is a few marks in the sequence space: what a timeout marked  *)
(* as lost is a range, and what it has resent of it a prefix.              *)
(***************************************************************************)
EXTENDS Naturals, FiniteSets

CONSTANTS
    SegSize,     \* tcb->m_segmentSize
    NumBytes,    \* bytes the application has to send
    Writes,      \* sizes of the packets it sends
    Reads,       \* sizes of the reads of the receiving application
    BufSizes,    \* values of m_maxBufferSize of the receive buffer
    MaxWinSize,  \* m_maxWinSize, the largest value of the window field
    DelAckMax,   \* m_delAckMaxCount of the receiver
    DataRetries, \* m_dataRetries
    NoDelay,     \* m_noDelay: Nagle's algorithm is off
    Cwnds,       \* values of tcb->m_cWnd
    MaxData,     \* bound: data segments in the network
    MaxAcks      \* bound: ACKs in the network

ASSUME SizeAssumption ==
    /\ SegSize \in Nat \ {0} /\ NumBytes \in Nat /\ MaxWinSize \in Nat \ {0}
    /\ Writes \subseteq Nat \ {0} /\ Reads \subseteq Nat \ {0}
    /\ BufSizes \subseteq Nat \ {0} /\ BufSizes # {}
ASSUME OptionAssumption == DelAckMax \in Nat \ {0} /\ NoDelay \in BOOLEAN
ASSUME SenderAssumption ==
    DataRetries \in Nat /\ SegSize \in Cwnds /\ Cwnds \subseteq Nat
ASSUME BoundAssumption == MaxData \in Nat /\ MaxAcks \in Nat

VARIABLES
    snd,    \* the sender
    rcv,    \* the receiver
    data,   \* data segments in the network
    acks    \* ACKs in the network

vars == <<snd, rcv, data, acks>>

Smaller(m, n) == IF m < n THEN m ELSE n
Larger(m, n) == IF m > n THEN m ELSE n
Less(m, n) == IF m > n THEN m - n ELSE 0
Smallest(S) == CHOOSE m \in S : \A n \in S : m <= n

Seqs == 0 .. NumBytes
Windows == 0 .. NumBytes + MaxWinSize * 2 ^ 14

\* A probe of PersistTimeout is a segment without the ACK flag.
Segment == [seq : Seqs, len : 0 .. SegSize, ack : BOOLEAN]
Ack == [ack : Seqs, wnd : 0 .. MaxWinSize]

SenderState ==
    [ head : Seqs,            \* m_txBuffer->HeadSequence ()
      tail : Seqs,            \* end of the data in m_txBuffer
      sent : Seqs,            \* end of the sent list of m_txBuffer
      highTxMark : Seqs,      \* tcb->m_highTxMark
      nextTx : Seqs,          \* tcb->m_nextTxSequence
      resent : Seqs,          \* what the last timeout marked lost ends at
      lost : Seqs,            \* lost, and is resent up to resent
      guessed : Seqs,         \* bytes a duplicate ACK counted as SACKed
      inLoss : BOOLEAN,       \* m_congState is CA_LOSS
      rWnd : Windows,         \* m_rWnd
      highRxAckMark : Seqs,   \* m_highRxAckMark
      heard : BOOLEAN,        \* m_highRxMark is that of the peer
      cWnd : Cwnds,           \* tcb->m_cWnd
      retxEvent : BOOLEAN,    \* m_retxEvent is running
      persistEvent : BOOLEAN, \* m_persistEvent is running
      sendEvent : BOOLEAN,    \* m_sendPendingDataEvent is running
      dataRetrCount : 0 .. DataRetries,  \* m_dataRetrCount
      endPoint : BOOLEAN,     \* m_endPoint # nullptr
      out : SUBSET Segment ]  \* segments this handler sends

ReceiverState ==
    [ next : Seqs,            \* m_rxBuffer->NextRxSequence ()
      held : SUBSET Seqs,     \* bytes behind a gap
      read : Seqs,            \* bytes the application has read
      buf : BufSizes,         \* m_rxBuffer->MaxBufferSize ()
      delAckCount : 0 .. DelAckMax - 1,  \* m_delAckCount
      delAckEvent : BOOLEAN ] \* m_delAckEvent is running

TypeOK ==
    /\ snd \in SenderState
    /\ rcv \in ReceiverState
    /\ data \subseteq Segment
    /\ acks \subseteq Ack

-----------------------------------------------------------------------------
(***************************************************************************)
(* The advertised window                                                   *)
(***************************************************************************)
\* The shift that brings the buffer below the largest value of the field.
CalculateWScale(buf) ==
    Smallest({k \in 0 .. 14 : buf \div 2 ^ k <= MaxWinSize} \cup {14})

\* The buffer at the time of the SYN decides; it may grow later.
WindShift == CalculateWScale(Smallest(BufSizes))

\* m_rxBuffer->MaxRxSequence (): no room beyond the first byte not read yet.
MaxRxSequence(r) == r.read + r.buf

\* Mutant: the window counts from what was read, not from what was received.
AdvertisedFromRead(r) ==
    Smaller((MaxRxSequence(r) - r.read) \div 2 ^ WindShift, MaxWinSize)

AdvertisedWindowSize(r) ==
    Smaller((MaxRxSequence(r) - r.next) \div 2 ^ WindShift, MaxWinSize)

AckOf(r) == [ack |-> r.next, wnd |-> AdvertisedWindowSize(r)]

\* Mutant: an ACK that comes late sets the window.
UpdateWindowSizeAlways(s, a) ==
    [s EXCEPT !.rWnd = a.wnd * 2 ^ WindShift,
              !.highRxAckMark = Larger(@, a.ack),
              !.heard = TRUE]

\* A larger window for the highest ACK, a higher ACK, or the first segment.
UpdateWindowSize(s, a) ==
    LET window == a.wnd * 2 ^ WindShift
        update == \/ a.ack = s.highRxAckMark /\ window > s.rWnd
                  \/ a.ack > s.highRxAckMark
                  \/ ~s.heard
    IN  [s EXCEPT !.rWnd = IF update THEN window ELSE @,
                  !.highRxAckMark = Larger(@, a.ack),
                  !.heard = TRUE]

-----------------------------------------------------------------------------
(***************************************************************************)
(* Sending                                                                 *)
(***************************************************************************)
BytesInFlight(s) ==
    Less((s.sent - s.lost) + (s.resent - s.head), s.guessed)

AvailableWindow(s) == Less(Smaller(s.rWnd, s.cWnd), BytesInFlight(s))

\* How far the loop of SendPendingData comes from one sequence number towards
\* another with so many bytes of window: full segments, then one that is
\* smaller unless the window is too small for the data (silly window) or
\* something is unacknowledged (Nagle).
SentUpTo(s, from, to, window) ==
    LET room  == Smaller(window, to - from)
        next  == from + (room - (room % SegSize))
        left  == window - (next - from)
        silly == left < SegSize /\ s.tail - next > left
        nagle == /\ ~NoDelay
                 /\ Larger(s.highTxMark, next) > s.head
                 /\ s.tail - next < SegSize
    IN  IF silly \/ nagle THEN next ELSE next + Smaller(left, to - next)

SegmentsOf(from, to) ==
    {[seq |-> x, len |-> Smaller(SegSize, to - x), ack |-> TRUE] :
        x \in {y \in from .. to - 1 : (y - from) % SegSize = 0}}

\* Mutant: new data is bounded by what is in flight only.
NewDataLimitUnchecked(s) == s.tail

\* NextSeg: new data stays within the window of the receiver (GetRWnd).
NewDataLimit(s) == Larger(s.sent, Smaller(s.tail, s.head + s.rWnd))

\* First what is lost and not resent, then new data.
SendPendingData(s) ==
    LET window == AvailableWindow(s)
        again  == SentUpTo(s, s.resent, s.lost, window)
        new    == IF again < s.lost
                  THEN s.sent
                  ELSE SentUpTo(s, s.sent, NewDataLimit(s),
                                window - (again - s.resent))
        out    == SegmentsOf(s.resent, again) \cup SegmentsOf(s.sent, new)
    IN  IF ~s.endPoint \/ s.head = s.tail
        THEN s
        ELSE [s EXCEPT !.resent = again,
                       !.sent = new,
                       !.highTxMark = Larger(@, new),
                       !.nextTx = IF new > s.sent THEN new
                                  ELSE IF again > s.resent THEN again ELSE @,
                       !.retxEvent = @ \/ out # {},
                       !.out = @ \cup out]

\* Mutant: an acknowledgment of a part of a segment discards all of it.
NewAckWhole(s, ack, cWnd) ==
    LET end == Larger(ack, Smaller(s.head + SegSize, s.tail))
    IN  [s EXCEPT !.head = end, !.resent = Larger(@, end), !.lost = Larger(@, end),
                  !.guessed = 0, !.sent = Larger(@, end), !.nextTx = Larger(@, end),
                  !.highTxMark = Larger(@, end), !.cWnd = cWnd,
                  !.dataRetrCount = DataRetries, !.retxEvent = end < s.tail]

\* NewAck with DiscardUpTo: bytes that were guessed to be SACKed are acknowledged
\* first, and the head never counts as SACKed.
NewAck(s, ack, cWnd) ==
    LET above == Larger(ack, s.head + SegSize)
    IN  [s EXCEPT !.head = ack,
                  !.resent = Larger(@, ack),
                  !.lost = Larger(@, ack),
                  !.guessed = Smaller(Less(s.head + SegSize + @, above),
                                      Less(s.sent, ack + SegSize)),
                  !.sent = Larger(@, ack),
                  !.nextTx = Larger(@, ack),
                  !.inLoss = @ /\ ack < s.lost,
                  !.cWnd = cWnd,
                  !.dataRetrCount = DataRetries,
                  !.retxEvent = ack < s.tail]

\* A duplicate outside Loss stands for a segment that left the network.
DupAck(s) ==
    IF s.inLoss \/ s.head = s.sent
    THEN s
    ELSE [s EXCEPT !.guessed =
                       Smaller(@ + SegSize, Less(s.sent, s.head + SegSize))]

\* ProcessEstablished for an ACK: one below the head or of what was never sent (the
\* byte of a probe) changes nothing; nor does the ACK in answer to the latter, at a
\* peer that sends no data.
ProcessEstablished(s, ack, cWnd) ==
    IF ack < s.head \/ ack > s.highTxMark
    THEN s
    ELSE SendPendingData(IF ack = s.head THEN DupAck(s) ELSE NewAck(s, ack, cWnd))

\* A zero window replaces the retransmission timer by probes.
EnterPersist(s) ==
    IF s.rWnd = 0 /\ ~s.persistEvent
    THEN [s EXCEPT !.retxEvent = FALSE, !.persistEvent = TRUE]
    ELSE s

LeavePersist(s) ==
    IF s.rWnd # 0 /\ s.persistEvent
    THEN SendPendingData([s EXCEPT !.persistEvent = FALSE])
    ELSE s

DoForwardUp(s, a, cWnd) ==
    LET updated == EnterPersist(UpdateWindowSize(s, a))
    IN  LeavePersist(ProcessEstablished(updated, a.ack, cWnd))

\* SetSentListLost and a window of one segment.
RetransmissionTimeout(s) ==
    [s EXCEPT !.lost = s.sent, !.resent = s.head, !.guessed = 0,
              !.inLoss = TRUE, !.cWnd = SegSize, !.dataRetrCount = @ - 1]

-----------------------------------------------------------------------------
(***************************************************************************)
(* Receiving                                                               *)
(***************************************************************************)
\* The bytes of a segment that are new and fit into the buffer.
Fresh(r, d) ==
    {x \in d.seq .. d.seq + d.len - 1 :
        x >= r.next /\ x < MaxRxSequence(r) /\ x \notin r.held}

\* m_rxBuffer->Add
AddToBuffer(r, fresh) ==
    LET held == r.held \cup fresh
        next == Smallest((r.next .. NumBytes) \ held)
    IN  [r EXCEPT !.next = next, !.held = {x \in held : x >= next}]

\* Recv, also from within NotifyDataRecv: up to n bytes that are in order.
ReadUpTo(r, n) == [r EXCEPT !.read = Smaller(@ + n, r.next)]

\* The ACK is sent at once for what is not taken, above a gap, when a gap is
\* filled, and every DelAckMax segments.
Prompt(r, d, fresh) ==
    LET added == AddToBuffer(r, fresh)
    IN  \/ fresh = {}
        \/ added.held # {}
        \/ added.next > r.next + d.len
        \/ r.delAckCount + 1 >= DelAckMax

Acknowledged(r) == [r EXCEPT !.delAckCount = 0, !.delAckEvent = FALSE]
Delayed(r) == [r EXCEPT !.delAckCount = @ + 1, !.delAckEvent = TRUE]

-----------------------------------------------------------------------------
(***************************************************************************)
(* Actions                                                                 *)
(***************************************************************************)
\* The connection is ESTABLISHED; the window of a SYN is not scaled.
Init ==
    LET buf == Smallest(BufSizes)
    IN  /\ snd = [ head |-> 0, tail |-> 0, sent |-> 0, highTxMark |-> 0,
                   nextTx |-> 0, resent |-> 0, lost |-> 0, guessed |-> 0, inLoss |-> FALSE,
                   rWnd |-> Smaller(buf, MaxWinSize), highRxAckMark |-> 0,
                   heard |-> FALSE, cWnd |-> SegSize, retxEvent |-> FALSE,
                   persistEvent |-> FALSE, sendEvent |-> FALSE,
                   dataRetrCount |-> DataRetries, endPoint |-> TRUE,
                   out |-> {} ]
        /\ rcv = [ next |-> 0, held |-> {}, read |-> 0, buf |-> buf,
                   delAckCount |-> 0, delAckEvent |-> FALSE ]
        /\ data = {}
        /\ acks = {}

\* A full queue drops what does not fit.
Enqueue(Q, S, max) ==
    IF Cardinality(Q \cup S) <= max THEN Q \cup S ELSE Q

\* The sender's handler ends: its segments go to the network.
Finish(s) ==
    /\ snd' = [s EXCEPT !.out = {}]
    /\ data' = Enqueue(data, s.out, MaxData)

\* The receiver's handler ends in r, with an ACK if it sends one.
FinishAck(r, sends) ==
    /\ rcv' = IF sends THEN Acknowledged(r) ELSE r
    /\ acks' = IF sends THEN Enqueue(acks, {AckOf(r)}, MaxAcks) ELSE acks

Send ==
    \E n \in Writes :
       /\ snd.tail + n <= NumBytes
       /\ LET s == [snd EXCEPT !.tail = @ + n]
          IN  snd' = [s EXCEPT !.sendEvent = @ \/ AvailableWindow(s) > 0]
       /\ UNCHANGED <<rcv, data, acks>>

SendPendingDataEvent ==
    /\ snd.sendEvent
    /\ Finish(SendPendingData([snd EXCEPT !.sendEvent = FALSE]))
    /\ UNCHANGED <<rcv, acks>>

ReceiveAck ==
    \E a \in acks, cWnd \in Cwnds :
       /\ acks' = acks \ {a}
       /\ IF snd.endPoint
          THEN Finish(DoForwardUp(snd, a, cWnd))
          ELSE UNCHANGED <<snd, data>>
       /\ UNCHANGED rcv

\* Mutant: retries are not counted down to the end.
ReTxTimeoutForever ==
    /\ snd.retxEvent
    /\ LET s == [snd EXCEPT !.retxEvent = FALSE]
       IN  Finish(IF s.head = s.tail THEN s
                  ELSE SendPendingData(RetransmissionTimeout(s)))
    /\ UNCHANGED <<rcv, acks>>

\* Mutant: the losses are marked, and left to the next ACK to resend.
ReTxTimeoutSilent ==
    /\ snd.retxEvent
    /\ LET s == [snd EXCEPT !.retxEvent = FALSE]
       IN  IF s.head = s.tail \/ s.dataRetrCount = 0
           THEN Finish(s)
           ELSE Finish(RetransmissionTimeout(s))
    /\ UNCHANGED <<rcv, acks>>

ReTxTimeout ==
    /\ snd.retxEvent
    /\ LET s == [snd EXCEPT !.retxEvent = FALSE]
       IN  IF s.head = s.tail
           THEN Finish(s)
           ELSE IF s.dataRetrCount = 0
           THEN Finish([s EXCEPT !.endPoint = FALSE, !.persistEvent = FALSE,
                                 !.sendEvent = FALSE])
           ELSE Finish(SendPendingData(RetransmissionTimeout(s)))
    /\ UNCHANGED <<rcv, acks>>

\* CopyFromSequence for the byte of a probe: a byte that is sent already counts as
\* resent, one that is new is the last segment that was sent.
CopyProbe(s) ==
    IF s.nextTx < s.sent
    THEN [s EXCEPT !.resent = IF @ = s.nextTx /\ @ < s.lost THEN @ + 1 ELSE @]
    ELSE [s EXCEPT !.sent = Smaller(s.nextTx + 1, s.tail)]

\* ResetLastSegmentSent: the last segment, whatever it is, is unsent again.
ResetTo(s, end) ==
    [s EXCEPT !.sent = end, !.lost = Smaller(@, end), !.resent = Smaller(@, end),
              !.guessed = Smaller(@, Less(end, s.head + SegSize))]

\* Where the last segment may start: it is the byte of the probe if that is new.
LastStarts(s) ==
    IF s.nextTx = s.sent /\ s.nextTx < s.tail THEN {s.sent}
    ELSE IF s.head = s.sent THEN {s.sent}
    ELSE {x \in s.head .. s.sent - 1 : x + SegSize >= s.sent}

\* One byte from the next sequence number, which is meant to stay unsent.
PersistTimeout ==
    /\ snd.persistEvent
    /\ \E end \in LastStarts(snd) :
          LET probe == [seq |-> snd.nextTx,
                        len |-> Smaller(1, snd.tail - snd.nextTx), ack |-> FALSE]
          IN  Finish([ResetTo(CopyProbe(snd), end) EXCEPT !.out = {probe}])
    /\ UNCHANGED <<rcv, acks>>

\* A segment reaches the receiver; its application may read in the callback.
ReceiveData ==
    \E d \in data :
       LET fresh == Fresh(rcv, d)
           added == AddToBuffer(rcv, fresh)
       IN  /\ data' = data \ {d}
           /\ IF Prompt(rcv, d, fresh)
              THEN \E n \in {0} \cup Reads :
                      /\ n > 0 => added.next > rcv.next
                      /\ FinishAck(ReadUpTo(added, n), TRUE)
              ELSE \E n \in {0} \cup Reads :
                      FinishAck(Delayed(ReadUpTo(added, n)), FALSE)
           /\ UNCHANGED snd

DelAckTimeout ==
    /\ rcv.delAckEvent
    /\ FinishAck(rcv, TRUE)
    /\ UNCHANGED <<snd, data>>

\* Recv sends nothing, however much room it makes.
Recv ==
    /\ rcv.read < rcv.next
    /\ \E n \in Reads : FinishAck(ReadUpTo(rcv, n), FALSE)
    /\ UNCHANGED <<snd, data>>

\* A larger buffer is announced at once.
SetRcvBufSize ==
    /\ \E size \in BufSizes :
          /\ size > rcv.buf
          /\ FinishAck([rcv EXCEPT !.buf = size], TRUE)
    /\ UNCHANGED <<snd, data>>

Lose ==
    \/ /\ \E d \in data : data' = data \ {d}
       /\ UNCHANGED <<snd, rcv, acks>>
    \/ /\ \E a \in acks : acks' = acks \ {a}
       /\ UNCHANGED <<snd, rcv, data>>

Next ==
    \/ Send \/ SendPendingDataEvent \/ ReceiveAck \/ ReTxTimeout
    \/ PersistTimeout \/ ReceiveData \/ DelAckTimeout \/ Recv
    \/ SetRcvBufSize \/ Lose

Spec == Init /\ [][Next]_vars

-----------------------------------------------------------------------------
(***************************************************************************)
(* Properties                                                              *)
(***************************************************************************)
\* The right edge of the window, as the sender sees it, is never beyond what the
\* receiver has room for, whatever became of the ACKs in between.
EdgeHonest == snd.highRxAckMark + snd.rWnd <= MaxRxSequence(rcv)

\* "TCP sender should not send data out of the window advertised by the peer"
\* (2962): nothing but a probe is on its way that the buffer has no room for,
\* although retransmissions and guessed SACKs make AvailableWindow larger than
\* what is left of the window.
NoOverrun ==
    \A d \in data : d.ack => d.seq + d.len <= MaxRxSequence(rcv)

\* "No retransmit timer if no data to retransmit" (3529), and one if there is: what is
\* sent and not acknowledged does not wait without a timer, while Nagle's algorithm is
\* off.  There are two exceptions, in which nothing but an ACK, which may be lost, goes
\* on.  A timeout resends nothing if the window has no room for a full segment and there
\* is more to send (3176), beside the byte that a probe may have resent: the probes are
\* for a window of zero only (1383).  And an ACK of a probe's byte is ignored but for
\* its window, which may replace the timer (1496).
OutstandingTimed ==
    NoDelay /\ snd.endPoint /\ snd.head < snd.highTxMark
        => \/ snd.retxEvent \/ snd.persistEvent
           \/ snd.rWnd # 0 /\ BytesInFlight(snd) <= 1 /\ AvailableWindow(snd) < SegSize
           \/ snd.highRxAckMark > snd.highTxMark

\* The two ends agree but for the byte of a probe: what the sender has discarded
\* has arrived, and the receiver has at most one byte that the sender does not count
\* as sent (3714) and whose acknowledgment it therefore ignores (1496).
AheadByProbe == snd.head <= rcv.next /\ rcv.next <= snd.highTxMark + 1
=============================================================================
