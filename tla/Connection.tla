----------------------------- MODULE Connection -----------------------------
(***************************************************************************)
(* A TCP connection from Connect and Listen to CLOSED: two TcpSocketBase,  *)
(* their applications, and a network that loses, reorders and (as the      *)
(* sockets retransmit) repeats what they send.                             *)
(*                                                                         *)
(* A socket is a record; each method of tcp-socket-base.cc is an operator  *)
(* from the record before the call to the record after it, and what a      *)
(* handler sends gathers in its field out.  SwiftSender models how data is *)
(* sent; here an application writes at most one segment, enough for a FIN  *)
(* to travel with data, behind it or past it.  So sequence number 0 is the *)
(* SYN, 1 the data if any, and the FIN comes last.                         *)
(***************************************************************************)
EXTENDS Naturals, FiniteSets

CONSTANTS
    Peers,         \* the two ends
    Clients,       \* those whose application connects; the others listen
    SynRetries,    \* m_synRetries
    DataRetries,   \* m_dataRetries
    MaxWrites,     \* bound: applications that write their segment
    MaxInNet       \* bound: segments the network holds in one direction

ASSUME PeersAssumption == IsFiniteSet(Peers) /\ Cardinality(Peers) = 2
ASSUME RetriesAssumption == SynRetries \in Nat \ {0} /\ DataRetries \in Nat
ASSUME ClientsAssumption == Clients \subseteq Peers
ASSUME BoundAssumption == MaxInNet \in Nat /\ MaxWrites \in Nat

VARIABLES
    sock,   \* the socket at each end
    net     \* the segments on their way to each end

vars == <<sock, net>>

Other(p) == CHOOSE q \in Peers : q # p

States == {"CLOSED", "LISTEN", "SYN_SENT", "SYN_RCVD", "ESTABLISHED",
           "CLOSE_WAIT", "LAST_ACK", "FIN_WAIT_1", "FIN_WAIT_2", "CLOSING",
           "TIME_WAIT"}

Flags == {"SYN", "ACK", "FIN", "RST"}

\* A FIN that is repeated past an acknowledged one takes the next number.
Seqs == Nat

Segment == [flags : SUBSET Flags, seq : Seqs, ack : Seqs, len : 0 .. 1]

SYN == {"SYN"}
ACK == {"ACK"}
RST == {"RST"}
SynAck == {"SYN", "ACK"}
FinAck == {"FIN", "ACK"}

\* What m_retxEvent will call: SendEmptyPacket with some flags, or ReTxTimeout.
Timeout == {"ReTxTimeout"}
NoEvent == {}

Socket ==
    [ state : States,              \* m_state
      endPoint : BOOLEAN,          \* m_endPoint # nullptr
      listener : BOOLEAN,          \* a fork: the listening socket lives on
      connected : BOOLEAN,         \* m_connected
      closeOnEmpty : BOOLEAN,      \* m_closeOnEmpty
      shutdownSend : BOOLEAN,      \* m_shutdownSend
      closeNotified : BOOLEAN,     \* m_closeNotified
      synCount : 0 .. SynRetries,  \* m_synCount
      dataRetrCount : 0 .. DataRetries,  \* m_dataRetrCount
      retxEvent : {NoEvent, SYN, SynAck, FinAck, Timeout},  \* m_retxEvent
      sendEvent : BOOLEAN,         \* m_sendPendingDataEvent is running
      lastAckEvent : BOOLEAN,      \* m_lastAckEvent is running
      timewaitEvent : BOOLEAN,     \* m_timewaitEvent is running
      head : Seqs,                 \* m_txBuffer->HeadSequence ()
      size : 0 .. 1,               \* m_txBuffer->Size ()
      next : Seqs,                 \* tcb->m_nextTxSequence
      high : Seqs,                 \* tcb->m_highTxMark
      rxNext : Seqs,               \* m_rxBuffer->NextRxSequence ()
      rxSize : 0 .. 1,             \* m_rxBuffer->Size ()
      gotFin : BOOLEAN,            \* m_rxBuffer->GotFin ()
      finSeq : Seqs,               \* the sequence number of that FIN
      written : {"nothing", "accepted", "refused"},  \* what became of Send
      closed : BOOLEAN,            \* the application has called Close
      got : 0 .. 1,                \* segments received in order
      out : SUBSET Segment ]       \* what this handler sends

TypeOK ==
    /\ sock \in [Peers -> Socket]
    /\ net \in [Peers -> SUBSET Segment]

\* Both applications have created and bound their sockets.
Init ==
    /\ sock = [p \in Peers |->
         [ state |-> "CLOSED", endPoint |-> TRUE, listener |-> FALSE,
           connected |-> FALSE, closeOnEmpty |-> FALSE, shutdownSend |-> FALSE,
           closeNotified |-> FALSE, synCount |-> SynRetries,
           dataRetrCount |-> DataRetries, retxEvent |-> NoEvent,
           sendEvent |-> FALSE, lastAckEvent |-> FALSE,
           timewaitEvent |-> FALSE, head |-> 0, size |-> 0, next |-> 0,
           high |-> 0, rxNext |-> 0, rxSize |-> 0, gotFin |-> FALSE,
           finSeq |-> 0, written |-> "nothing",
           closed |-> FALSE, got |-> 0, out |-> {} ]]
    /\ net = [p \in Peers |-> {}]

Larger(m, n) == IF m > n THEN m ELSE n

-----------------------------------------------------------------------------
(***************************************************************************)
(* Leaving: what every handler may end in                                  *)
(***************************************************************************)
CancelAllTimers(s) ==
    [s EXCEPT !.retxEvent = NoEvent, !.sendEvent = FALSE,
              !.lastAckEvent = FALSE, !.timewaitEvent = FALSE]

DeallocateEndPoint(s) ==
    IF s.endPoint THEN [CancelAllTimers(s) EXCEPT !.endPoint = FALSE] ELSE s

CloseAndNotify(s) ==
    DeallocateEndPoint([s EXCEPT !.state = "CLOSED", !.closeNotified = TRUE,
                                 !.lastAckEvent = FALSE])

TimeWait(s) ==
    [CancelAllTimers(s) EXCEPT !.state = "TIME_WAIT", !.closeNotified = TRUE,
                               !.timewaitEvent = TRUE]

-----------------------------------------------------------------------------
(***************************************************************************)
(* Sending                                                                 *)
(***************************************************************************)
\* Past the FIN sent, unless this is the FIN itself.
EmptySeq(s, flags) ==
    IF "FIN" \notin flags /\ s.state \in {"FIN_WAIT_1", "LAST_ACK", "CLOSING"}
    THEN s.next + 1
    ELSE s.next

\* SYN and FIN, with or without ACK, are repeated by m_retxEvent.
EmptyPacket(s, wanted) ==
    LET flags == IF "FIN" \in wanted THEN wanted \cup ACK ELSE wanted
        seg   == [flags |-> flags, seq |-> EmptySeq(s, wanted),
                  ack |-> s.rxNext, len |-> 0]
        again == s.retxEvent = NoEvent /\ flags \cap {"SYN", "FIN"} # {}
    IN  [s EXCEPT !.out = @ \cup {seg},
                  !.retxEvent = IF again THEN flags ELSE @,
                  !.synCount = IF "SYN" \in flags THEN @ - 1 ELSE @]

\* Mutant: the limit of m_synCount is not looked at.
SendEmptyPacketUnlimited(s, wanted) == IF s.endPoint THEN EmptyPacket(s, wanted) ELSE s

\* Mutant: the last SYN is the last thing that happens.
SendEmptyPacketSilent(s, wanted) ==
    IF s.endPoint /\ ("SYN" \in wanted => s.synCount > 0)
    THEN EmptyPacket(s, wanted)
    ELSE s

\* A SYN is sent as long as m_synCount lasts, a FIN for ever.
SendEmptyPacket(s, wanted) ==
    CASE ~s.endPoint -> s
      [] s.endPoint /\ "SYN" \in wanted /\ s.synCount = 0 ->
             DeallocateEndPoint([s EXCEPT !.state = "CLOSED"])
      [] s.endPoint /\ ("SYN" \in wanted => s.synCount > 0) ->
             EmptyPacket(s, wanted)

SendRST(s) == DeallocateEndPoint(SendEmptyPacket(s, RST))

\* The only segment is the last one: a close that waited for it goes with it.
StateAfterFin(state) ==
    CASE state = "ESTABLISHED" -> "FIN_WAIT_1"
      [] state = "CLOSE_WAIT" -> "LAST_ACK"
      [] OTHER -> state

SendDataPacket(s) ==
    LET fin == IF s.closeOnEmpty THEN {"FIN"} ELSE {}
        ack == IF s.connected THEN ACK ELSE {}
        seg == [flags |-> ack \cup fin, seq |-> s.head, ack |-> s.rxNext, len |-> 1]
    IN  [s EXCEPT !.state = IF s.closeOnEmpty THEN StateAfterFin(@) ELSE @,
                  !.retxEvent = IF @ = NoEvent THEN Timeout ELSE @,
                  !.next = s.head + 1,
                  !.high = Larger(@, s.head + 1),
                  !.out = @ \cup {seg}]

\* m_txBuffer->SizeFromSequence (m_tcb->m_nextTxSequence) > 0
Unsent(s) == s.head + s.size > s.next

SendPendingData(s) ==
    IF s.size > 0 /\ s.endPoint /\ Unsent(s) THEN SendDataPacket(s) ELSE s

-----------------------------------------------------------------------------
(***************************************************************************)
(* Closing                                                                 *)
(***************************************************************************)
DoClose(s) ==
    CASE s.state \in {"SYN_RCVD", "ESTABLISHED"} ->
             [SendEmptyPacket(s, {"FIN"}) EXCEPT !.state = "FIN_WAIT_1"]
      [] s.state = "CLOSE_WAIT" ->
             [SendEmptyPacket(s, FinAck) EXCEPT !.state = "LAST_ACK"]
      [] s.state \in {"SYN_SENT", "CLOSING"} -> CloseAndNotify(SendRST(s))
      [] s.state = "LISTEN" -> CloseAndNotify(s)
      [] OTHER -> s

DoCloseSocket(s) ==
    CASE s.rxSize > 0 -> SendRST(s)
      [] s.rxSize = 0 /\ Unsent(s) -> [s EXCEPT !.closeOnEmpty = TRUE]
      [] s.rxSize = 0 /\ ~Unsent(s) -> DoClose(s)

DoShutdownSend(s) ==
    LET t == [s EXCEPT !.shutdownSend = TRUE, !.closeOnEmpty = TRUE]
    IN  IF s.size = 0 /\ s.state \in {"ESTABLISHED", "CLOSE_WAIT"}
        THEN [SendEmptyPacket(t, {"FIN"}) EXCEPT !.state = StateAfterFin(@)]
        ELSE t

\* Mutant: a FIN that overtook data counts as the end of the stream.
FinishedEarly(s) == s.gotFin

\* m_rxBuffer->SetFinSequence, and m_rxBuffer->Finished
SetFinSequence(s, seq) ==
    [s EXCEPT !.gotFin = TRUE, !.finSeq = seq,
              !.rxNext = IF @ = seq THEN @ + 1 ELSE @]

Finished(s) == s.gotFin /\ s.finSeq < s.rxNext

\* An in-sequence FIN.  The socket that has shut down answers with its own.
DoPeerClose(s) ==
    LET t == [s EXCEPT !.state = "CLOSE_WAIT", !.closeNotified = TRUE]
        u == IF s.shutdownSend THEN DoCloseSocket(t) ELSE SendEmptyPacket(t, ACK)
    IN  IF u.state = "LAST_ACK"
        THEN [u EXCEPT !.dataRetrCount = DataRetries, !.lastAckEvent = TRUE]
        ELSE u

-----------------------------------------------------------------------------
(***************************************************************************)
(* Receiving                                                               *)
(***************************************************************************)
\* m_rxBuffer->Add: the data is new, and fills the gap in front of a FIN.
AddData(s, seg) ==
    LET end == seg.seq + 1
    IN  [s EXCEPT !.rxNext = IF s.gotFin /\ s.finSeq = end THEN end + 1 ELSE end,
                  !.rxSize = 1, !.got = 1]

\* m_delAckMaxCount is one: every segment is acknowledged at once.
ReceivedData(s, seg) ==
    IF seg.seq # s.rxNext
    THEN SendEmptyPacket(s, ACK)
    ELSE LET t == AddData(s, seg)
         IN  IF Finished(t) /\ "FIN" \notin seg.flags
             THEN DoPeerClose(t)
             ELSE SendEmptyPacket(t, ACK)

\* Mutant: the timer stops with the last of the data, FIN or not.
AcknowledgedStopsTimer(s, ack) ==
    IF ack > s.head
    THEN [s EXCEPT !.head = ack, !.size = 0, !.next = Larger(@, ack),
                   !.dataRetrCount = DataRetries, !.retxEvent = NoEvent]
    ELSE s

\* Mutant: an ACK of the head itself frees it.
AcknowledgedEarly(s, ack) ==
    IF ack >= s.head
    THEN [s EXCEPT !.head = ack, !.size = 0, !.next = Larger(@, ack),
                   !.dataRetrCount = DataRetries, !.retxEvent = NoEvent]
    ELSE s

\* ReceivedAck up to the piggybacked data: DiscardUpTo, ProcessAck and NewAck.
\* The timer outlives the data only where a FIN may still be unacknowledged.
Acknowledged(s, ack) ==
    LET left == IF ack > s.head THEN 0 ELSE s.size
        keep == left > 0 \/ s.state \in {"FIN_WAIT_1", "CLOSING"}
    IN  CASE ack > s.head ->
                 [s EXCEPT !.head = ack, !.size = left, !.next = Larger(@, ack),
                           !.dataRetrCount = DataRetries,
                           !.retxEvent = IF keep THEN Timeout ELSE NoEvent]
          [] ack = s.head /\ ack > s.high -> [s EXCEPT !.next = ack]
          [] OTHER -> s

ReceivedAck(s, seg) ==
    LET t == Acknowledged(s, seg.ack)
    IN  SendPendingData(IF seg.len > 0 THEN ReceivedData(t, seg) ELSE t)

\* A FIN below what has been received is dropped without an answer.
PeerClose(s, seg) ==
    LET t == SetFinSequence(s, seg.seq + seg.len)
        u == IF seg.len > 0 THEN ReceivedData(t, seg) ELSE t
    IN  CASE seg.seq < s.rxNext -> s
          [] seg.seq >= s.rxNext /\ ~Finished(u) -> u
          [] seg.seq >= s.rxNext /\ Finished(u) /\ u.state = "FIN_WAIT_1" ->
                 [u EXCEPT !.state = "CLOSING"]
          [] seg.seq >= s.rxNext /\ Finished(u) /\ u.state # "FIN_WAIT_1" ->
                 DoPeerClose(u)

\* A reset, or flags that the state does not expect.
Terminate(s, seg) == CloseAndNotify(IF seg.flags = RST THEN s ELSE SendRST(s))

-----------------------------------------------------------------------------
(***************************************************************************)
(* The states (the Process functions and the switch of DoForwardUp)        *)
(***************************************************************************)
ProcessClosed(s, seg) ==
    LET reset == [flags |-> RST, seq |-> s.next, ack |-> s.rxNext, len |-> 0]
    IN  IF seg.flags = RST THEN s ELSE [s EXCEPT !.out = @ \cup {reset}]

\* The fork replaces the listener in this model, which will accept no other.
ProcessListen(s, seg) ==
    IF seg.flags # SYN
    THEN s
    ELSE SendEmptyPacket(
           [s EXCEPT !.state = "SYN_RCVD", !.listener = TRUE,
                     !.synCount = SynRetries, !.dataRetrCount = DataRetries,
                     !.rxNext = seg.seq + 1], SynAck)

\* m_state = ESTABLISHED and what goes with it
Establish(s) ==
    [s EXCEPT !.state = "ESTABLISHED", !.connected = TRUE, !.retxEvent = NoEvent,
              !.next = @ + 1, !.high = s.next + 1, !.head = s.next + 1]

\* Mutant: any SYN+ACK establishes, the one of an earlier attempt, too.
ProcessSynSentUnchecked(s, seg) ==
    CASE "ACK" \in seg.flags /\ "SYN" \notin seg.flags -> s
      [] "SYN" \in seg.flags ->
             SendPendingData(SendEmptyPacket(
                 [Establish(s) EXCEPT !.rxNext = seg.seq + 1], ACK))
      [] OTHER -> Terminate(s, seg)

ProcessSynSent(s, seg) ==
    CASE "ACK" \in seg.flags /\ "SYN" \notin seg.flags -> s
      [] "SYN" \in seg.flags /\ "ACK" \notin seg.flags ->
             SendEmptyPacket([s EXCEPT !.state = "SYN_RCVD",
                                       !.synCount = SynRetries,
                                       !.rxNext = seg.seq + 1], SynAck)
      [] SynAck \subseteq seg.flags /\ seg.ack = s.next + 1 ->
             SendPendingData(SendEmptyPacket(
                 [Establish(s) EXCEPT !.rxNext = seg.seq + 1], ACK))
      [] OTHER -> Terminate(s, seg)

\* A FIN that completes the handshake goes to PeerClose with SYN_RCVD.
ProcessSynRcvd(s, seg) ==
    CASE seg.flags = ACK /\ seg.ack = s.next + 1 -> ReceivedAck(Establish(s), seg)
      [] seg.flags = SYN ->
             SendEmptyPacket([s EXCEPT !.rxNext = seg.seq + 1], SynAck)
      [] seg.flags = FinAck /\ seg.seq = s.rxNext ->
             PeerClose([Establish(s) EXCEPT !.state = "SYN_RCVD"], seg)
      [] seg.flags = FinAck /\ seg.seq # s.rxNext -> s
      [] OTHER -> Terminate(s, seg)

ProcessEstablished(s, seg) ==
    CASE seg.flags = ACK /\ seg.ack < s.head -> s
      [] seg.flags = ACK /\ seg.ack >= s.head /\ seg.ack > s.high ->
             SendEmptyPacket(s, ACK)
      [] seg.flags = ACK /\ seg.ack \in s.head .. s.high -> ReceivedAck(s, seg)
      [] seg.flags \in {SYN, SynAck} -> s
      [] seg.flags = FinAck -> PeerClose(s, seg)
      [] OTHER -> Terminate(s, seg)

\* Mutant: the FIN itself is not counted.
AcksFinOffByOne(s, seg) == s.size = 0 /\ seg.ack = s.high

AcksFin(s, seg) == s.size = 0 /\ seg.ack = s.high + 1

\* FIN_WAIT_1, FIN_WAIT_2 and CLOSE_WAIT, before the FIN of the peer is looked at
WaitAck(s, seg) ==
    LET t == ReceivedAck(s, seg)
    IN  IF t.state = "FIN_WAIT_1" /\ AcksFin(t, seg)
        THEN [t EXCEPT !.state = "FIN_WAIT_2"]
        ELSE t

WaitFin(s, seg) == SetFinSequence(ReceivedAck(s, seg), seg.seq)

\* The FIN of the peer is in sequence.
BothClosed(s, seg) ==
    CASE s.state = "FIN_WAIT_1" /\ Finished(s) ->
             LET t == [s EXCEPT !.state = "CLOSING"]
             IN  SendEmptyPacket(IF AcksFin(t, seg) THEN TimeWait(t) ELSE t, ACK)
      [] s.state = "FIN_WAIT_2" /\ Finished(s) -> SendEmptyPacket(TimeWait(s), ACK)
      [] OTHER -> s

ProcessWait(s, seg) ==
    CASE seg.flags = ACK -> BothClosed(WaitAck(s, seg), seg)
      [] seg.flags = FinAck -> BothClosed(WaitFin(s, seg), seg)
      [] seg.flags \in {SYN, SynAck} -> s
      [] OTHER -> Terminate(s, seg)

ProcessClosing(s, seg) ==
    CASE seg.flags = ACK /\ seg.seq = s.rxNext -> TimeWait(s)
      [] seg.flags = ACK /\ seg.seq # s.rxNext -> s
      [] seg.flags = FinAck -> CloseAndNotify(SendEmptyPacket(s, ACK))
      [] OTHER -> Terminate(s, seg)

ProcessLastAck(s, seg) ==
    CASE seg.flags = ACK /\ seg.seq = s.rxNext -> CloseAndNotify(s)
      [] seg.flags = ACK /\ seg.seq # s.rxNext -> s
      [] seg.flags = FinAck -> CloseAndNotify(s)
      [] OTHER -> Terminate(s, seg)

OutOfRange(s, seg) ==
    CASE s.state \in {"LISTEN", "SYN_SENT", "SYN_RCVD"} -> FALSE
      [] s.state \in {"LAST_ACK", "CLOSING", "CLOSE_WAIT"} -> seg.seq # s.rxNext
      [] OTHER -> seg.seq + seg.len < s.rxNext

\* Data out of range is acknowledged and dropped.
IsValidTcpSegment(s, seg) == seg.len > 0 => ~OutOfRange(s, seg)

DoForwardUp(s, seg) ==
    CASE s.state = "CLOSED" -> ProcessClosed(s, seg)
      [] s.state = "LISTEN" -> ProcessListen(s, seg)
      [] s.state = "SYN_SENT" -> ProcessSynSent(s, seg)
      [] s.state = "SYN_RCVD" -> ProcessSynRcvd(s, seg)
      [] s.state = "ESTABLISHED" -> ProcessEstablished(s, seg)
      [] s.state \in {"FIN_WAIT_1", "FIN_WAIT_2", "CLOSE_WAIT"} -> ProcessWait(s, seg)
      [] s.state = "CLOSING" -> ProcessClosing(s, seg)
      [] s.state = "LAST_ACK" -> ProcessLastAck(s, seg)
      [] s.state = "TIME_WAIT" -> s

ForwardUp(s, seg) ==
    IF IsValidTcpSegment(s, seg) THEN DoForwardUp(s, seg) ELSE SendEmptyPacket(s, ACK)

\* TcpL4Protocol, when the endpoint is gone: the listening socket, if there is
\* one, ignores what is no SYN and refuses another; else a reset is the answer.
NoEndPoint(s, seg) ==
    LET flags == IF "ACK" \in seg.flags THEN RST ELSE {"RST", "ACK"}
        reset == [flags |-> flags, len |-> 0,
                  seq |-> IF flags = RST THEN seg.ack ELSE 0,
                  ack |-> IF flags = RST THEN 0 ELSE seg.seq + 1]
    IN  IF s.listener \/ "RST" \in seg.flags
        THEN s
        ELSE [s EXCEPT !.out = @ \cup {reset}]

-----------------------------------------------------------------------------
(***************************************************************************)
(* Timers                                                                  *)
(***************************************************************************)
\* A socket that has used up its retries loses its endpoint, not its state.
ReTxTimeout(s) ==
    CASE s.state \in {"CLOSED", "TIME_WAIT"} -> s
      [] s.state = "SYN_SENT" -> SendEmptyPacket(s, SYN)
      [] s.state \notin {"CLOSED", "TIME_WAIT", "SYN_SENT"} /\ s.size = 0 ->
             IF s.state \in {"FIN_WAIT_1", "CLOSING"}
             THEN SendEmptyPacket(s, {"FIN"})
             ELSE s
      [] s.state \notin {"CLOSED", "TIME_WAIT", "SYN_SENT"} /\ s.size > 0 ->
             IF s.dataRetrCount = 0
             THEN DeallocateEndPoint(s)
             ELSE SendDataPacket([s EXCEPT !.dataRetrCount = @ - 1])

\* Mutant: retries of the last FIN are not counted down.
DoLastAckTimeoutForever(s) ==
    IF s.state = "LAST_ACK"
    THEN [SendEmptyPacket(s, FinAck) EXCEPT !.lastAckEvent = TRUE]
    ELSE s

DoLastAckTimeout(s) ==
    CASE s.state # "LAST_ACK" -> s
      [] s.state = "LAST_ACK" /\ s.dataRetrCount = 0 -> DeallocateEndPoint(s)
      [] s.state = "LAST_ACK" /\ s.dataRetrCount > 0 ->
             [SendEmptyPacket([s EXCEPT !.dataRetrCount = @ - 1], FinAck)
                 EXCEPT !.lastAckEvent = TRUE]

-----------------------------------------------------------------------------
(***************************************************************************)
(* Actions                                                                 *)
(***************************************************************************)
\* A full queue drops what is sent.
Enqueue(queue, segs) ==
    IF Cardinality(queue \cup segs) <= MaxInNet THEN queue \cup segs ELSE queue

\* The socket of p becomes t, the segments in used leave the network.
Handle(p, t, used) ==
    /\ sock' = [sock EXCEPT ![p] = [t EXCEPT !.out = {}]]
    /\ net' = [net EXCEPT ![p] = @ \ used,
                          ![Other(p)] = Enqueue(@, t.out)]

\* The application has the socket: a fork is handed over when it is connected.
\* It makes no call after Close, nor on a socket that has lost its endpoint.
Held(s) == s.endPoint /\ ~s.closed /\ (s.listener => s.connected)

\* A socket that is CLOSED sends its first SYN.
DoConnect(s) == [SendEmptyPacket(s, SYN) EXCEPT !.state = "SYN_SENT"]

Connect(p) ==
    /\ p \in Clients /\ sock[p].endPoint /\ sock[p].state = "CLOSED"
    /\ Handle(p, DoConnect([sock[p] EXCEPT !.synCount = SynRetries,
                                           !.dataRetrCount = DataRetries]), {})

Listen(p) ==
    /\ p \notin Clients /\ sock[p].endPoint /\ sock[p].state = "CLOSED"
    /\ Handle(p, [sock[p] EXCEPT !.state = "LISTEN"], {})

Wrote == {p \in Peers : sock[p].written # "nothing"}

\* The data is stored before m_shutdownSend is looked at.
Send(p) ==
    LET s == sock[p]
        accepted == ~s.shutdownSend
    IN  /\ Held(s) /\ s.written = "nothing" /\ Cardinality(Wrote) < MaxWrites
        /\ s.state \in {"ESTABLISHED", "SYN_SENT", "CLOSE_WAIT"}
        /\ Handle(p, [s EXCEPT !.size = 1,
                               !.written = IF accepted THEN "accepted" ELSE "refused",
                               !.sendEvent = accepted /\ s.state # "SYN_SENT"], {})

Recv(p) ==
    /\ sock[p].rxSize > 0
    /\ Handle(p, [sock[p] EXCEPT !.rxSize = 0], {})

Close(p) ==
    /\ Held(sock[p])
    /\ Handle(p, [DoCloseSocket(sock[p]) EXCEPT !.closed = TRUE], {})

ShutdownSend(p) ==
    /\ Held(sock[p])
    /\ Handle(p, DoShutdownSend(sock[p]), {})

SendPendingDataEvent(p) ==
    /\ sock[p].sendEvent
    /\ Handle(p, SendPendingData([sock[p] EXCEPT !.sendEvent = FALSE]), {})

Receive(p) ==
    \E seg \in net[p] :
        Handle(p, IF sock[p].endPoint THEN ForwardUp(sock[p], seg)
                                      ELSE NoEndPoint(sock[p], seg), {seg})

RetxEvent(p) ==
    LET s == [sock[p] EXCEPT !.retxEvent = NoEvent]
        e == sock[p].retxEvent
    IN  /\ e # NoEvent
        /\ Handle(p, IF e = Timeout THEN ReTxTimeout(s) ELSE SendEmptyPacket(s, e), {})

LastAckTimeout(p) ==
    /\ sock[p].lastAckEvent
    /\ Handle(p, DoLastAckTimeout([sock[p] EXCEPT !.lastAckEvent = FALSE]), {})

TimeWaitEvent(p) ==
    /\ sock[p].timewaitEvent
    /\ Handle(p, CloseAndNotify([sock[p] EXCEPT !.timewaitEvent = FALSE]), {})

Lose(p) ==
    \E seg \in net[p] :
        /\ net' = [net EXCEPT ![p] = @ \ {seg}]
        /\ UNCHANGED sock

Event(p) ==
    SendPendingDataEvent(p) \/ RetxEvent(p) \/ LastAckTimeout(p) \/ TimeWaitEvent(p)

Application(p) ==
    Connect(p) \/ Listen(p) \/ Send(p) \/ Recv(p) \/ Close(p) \/ ShutdownSend(p)

Next == \E p \in Peers : Application(p) \/ Event(p) \/ Receive(p) \/ Lose(p)

Spec == Init /\ [][Next]_vars

\* The simulator runs the events that are scheduled, whatever the network and
\* the applications do.
FairSpec == Spec /\ \A p \in Peers : WF_vars(RetxEvent(p)) /\ WF_vars(LastAckTimeout(p))

-----------------------------------------------------------------------------
(***************************************************************************)
(* Properties                                                              *)
(***************************************************************************)
\* What a three-way handshake promises: a connected socket knows that its SYN
\* has arrived at the other end (ProcessSynSent and ProcessSynRcvd look at the
\* acknowledgment number), across repeated SYNs and a simultaneous open.
HandshakeAgreed ==
    \A p \in Peers : sock[p].connected => sock[Other(p)].rxNext >= 1

\* A FIN is taken only after all of the data: when the receive buffer is
\* finished (SetFinSequence, Add), nothing the peer wrote is missing, even if
\* the FIN overtook the data or came with a repeated segment.
EofAfterData ==
    \A p \in Peers :
        Finished(sock[p]) /\ sock[Other(p)].written = "accepted" => sock[p].got = 1

\* A socket that went from FIN_WAIT_1 to FIN_WAIT_2 was right to take the ACK
\* for that of its FIN (ProcessWait compares it with m_highTxMark + 1).
FinArrived ==
    \A p \in Peers :
        sock[p].state = "FIN_WAIT_2" /\ sock[p].connected
            => Finished(sock[Other(p)])

\* As long as something sent may be lost, a timer runs: SYN and SYN+ACK, data in
\* flight, and the FIN in the states that wait for its ACK (SendEmptyPacket,
\* SendDataPacket, NewAck, DoPeerClose all start or stop it).  Of a socket that has
\* sent its FIN and comes to CLOSE_WAIT from FIN_WAIT_1 (3381) it says nothing.
WaitingTimed ==
    \A p \in Peers :
        LET s == sock[p]
        IN  s.endPoint /\ ( \/ s.state \in {"SYN_SENT", "SYN_RCVD", "FIN_WAIT_1",
                                            "CLOSING", "LAST_ACK"}
                            \/ /\ s.state \in {"ESTABLISHED", "CLOSE_WAIT"}
                               /\ s.head < s.high )
                => s.retxEvent # NoEvent \/ s.lastAckEvent

\* Data leaves the transmission buffer only when the other end has it.
FreedWhenReceived ==
    [][\A p \in Peers :
          sock[p].size = 1 /\ sock'[p].size = 0 => sock[Other(p)].got = 1]_vars

\* Connecting comes to an end: m_synCount bounds the SYNs and SYN+ACKs, also
\* those that repeated SYNs ask for.
ConnectEnds ==
    \A p \in Peers : sock[p].state \in {"SYN_SENT", "SYN_RCVD"}
                        ~> sock[p].state \notin {"SYN_SENT", "SYN_RCVD"}

\* DoPeerClose: "prevent endless FINs" (tcp-socket-base.cc:2534).  A socket
\* that LastAckTimeout watches gives up.
LastAckEnds ==
    \A p \in Peers : sock[p].lastAckEvent ~> ~sock[p].lastAckEvent
                                             /\ ~sock[p].endPoint

-----------------------------------------------------------------------------
(***************************************************************************)
(* What the comments say and the code does not do                          *)
(***************************************************************************)
\* ShutdownSend: "if buffer is already empty, send a fin now. otherwise fin
\* will go when buffer empties." (tcp-socket-base.cc:765).  The buffer also
\* holds what is in flight; when its ACK empties it, nothing sends the FIN.
FinGoesWhenEmpty ==
    \A p \in Peers :
        LET s == sock[p]
        IN  s.shutdownSend /\ s.written = "accepted"
                /\ s.state \in {"ESTABLISHED", "CLOSE_WAIT"} => s.size > 0

\* ProcessLastAck: "This ACK corresponds to the FIN sent. This socket closed
\* peacefully." (tcp-socket-base.cc:2444, and 2409 in ProcessClosing).  Only
\* the sequence number of the ACK is looked at.
FinAckCloses ==
    [][\A p \in Peers : \A seg \in net[p] \ net'[p] :
          /\ seg.flags = ACK
          /\ sock[p].state \in {"LAST_ACK", "CLOSING"}
          /\ sock'[p].state \in {"CLOSED", "TIME_WAIT"}
          => seg.ack = sock[p].high + 1]_vars
=============================================================================
