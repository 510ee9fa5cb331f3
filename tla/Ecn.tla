--------------------------------- MODULE Ecn ---------------------------------
(***************************************************************************)
(* Explicit congestion notification between two connected TcpSocketBase    *)
(* sockets that both use it: a router marks a data segment, the receiver   *)
(* echoes the mark with ECE in its ACKs until the sender answers with CWR  *)
(* in a data segment, for which it reduces its window.                     *)
(*                                                                         *)
(* Each socket has one m_ecnState for both of its roles.  How much the     *)
(* windows let a handler send, and which segment is sent again, is free;   *)
(* a data segment is one sequence number.  Paths keep the order (a link    *)
(* and a queue), drop what does not fit, and lose anything.                *)
(***************************************************************************)
EXTENDS Naturals, SequencesExt

CONSTANTS
    Peers,      \* the two ends
    NumSegs,    \* how many data segments each of them sends, from 1
    DelAckMax,  \* m_delAckMaxCount
    MaxBurst,   \* bound: new segments a handler sends
    MaxInNet    \* bound: segments on the path to each of them

ASSUME PeerAssumption ==
    /\ \E p, q \in Peers : p # q /\ Peers = {p, q}
    /\ NumSegs \in [Peers -> Nat]
ASSUME SizeAssumption ==
    DelAckMax \in Nat \ {0} /\ MaxBurst \in Nat /\ MaxInNet \in [Peers -> Nat]

VARIABLES
    sock,   \* the sockets
    net     \* the path to each of them

vars == <<sock, net>>

Other(p) == CHOOSE q \in Peers : q # p

Seqs == 0 .. Max({NumSegs[p] : p \in Peers}) + 1

EcnStates == {"IDLE", "CE_RCVD", "SENDING_ECE", "ECE_RCVD", "CWR_SENT"}

Segment == [seq : Seqs, len : 0 .. 1, ack : Seqs, ece : BOOLEAN, cwr : BOOLEAN]

Socket ==
    [ head : Seqs,                    \* m_txBuffer->HeadSequence ()
      highTxMark : Seqs,              \* tcb->m_highTxMark
      next : Seqs,                    \* m_rxBuffer->NextRxSequence ()
      held : SUBSET Seqs,             \* segments behind a gap
      delAckCount : 0 .. DelAckMax,   \* m_delAckCount
      delAckEvent : BOOLEAN,          \* m_delAckEvent is running
      ecnState : EcnStates,           \* tcb->m_ecnState
      ecnCESeq : Seqs,                \* m_ecnCESeq
      ecnEchoSeq : Seqs,              \* m_ecnEchoSeq
      ecnCWRSeq : Seqs,               \* m_ecnCWRSeq
      out : Seq(Segment) ]            \* segments this handler sends

TypeOK ==
    /\ sock \in [Peers -> Socket]
    /\ net \in [Peers -> Seq(Segment)]
    /\ \A p \in Peers : /\ Len(net[p]) <= MaxInNet[p]
                        /\ \A q \in Peers \ {p} :
                              sock[p].next <= sock[q].highTxMark

-----------------------------------------------------------------------------
(***************************************************************************)
(* Sending                                                                 *)
(***************************************************************************)
SegmentOf(s, seq, len, ece, cwr) ==
    [seq |-> seq, len |-> len, ack |-> s.next, ece |-> ece, cwr |-> cwr]

\* SendEmptyPacket (ACK), with or without ECE.
SendEmptyPacket(s, ece) ==
    [s EXCEPT !.out = Append(@, SegmentOf(s, s.highTxMark, 0, ece, FALSE)),
              !.delAckCount = 0, !.delAckEvent = FALSE]

Echoes(s) == s.ecnState \in {"CE_RCVD", "SENDING_ECE"}

\* The ACK of the receiver: with ECE when a mark is not answered yet.
SendAck(s) ==
    [SendEmptyPacket(s, Echoes(s))
        EXCEPT !.ecnState = IF Echoes(s) THEN "SENDING_ECE" ELSE @]

\* Mutant: an echo is answered however recent the last answer is.
ReducesAlways(s) == s.ecnState = "ECE_RCVD"

\* The window is reduced once for the echoes up to the ACK of the last CWR.
Reduces(s) == s.ecnState = "ECE_RCVD" /\ s.ecnEchoSeq > s.ecnCWRSeq

\* SendDataPacket for n segments from seq on, new or again: only new data answers, and
\* its first segment does, after which there is nothing to answer.
SendDataPacket(s, seq, n, again) ==
    LET cwr == ~again /\ Reduces(s)
        sent == [i \in 1 .. n |-> SegmentOf(s, seq + i - 1, 1, FALSE, cwr /\ i = 1)]
    IN  [s EXCEPT !.out = @ \o sent,
                  !.highTxMark = IF again THEN @ ELSE seq + n,
                  !.ecnCWRSeq = IF cwr THEN seq ELSE @,
                  !.ecnState = IF cwr THEN "CWR_SENT" ELSE @,
                  !.delAckCount = 0, !.delAckEvent = FALSE]

\* A segment that is taken for lost is sent again, unless an ACK covers it; for 0 none.
Retransmit(s, seq) ==
    IF seq \in s.head .. s.highTxMark - 1 THEN SendDataPacket(s, seq, 1, TRUE) ELSE s

\* SendPendingData, when the window has room for one that is lost and n new segments.
SendPendingData(s, lost, n) ==
    LET r == Retransmit(s, lost)
    IN  IF n = 0 THEN r ELSE SendDataPacket(r, r.highTxMark, n, FALSE)

-----------------------------------------------------------------------------
(***************************************************************************)
(* Receiving                                                               *)
(***************************************************************************)
\* ForwardUp: a mark on a segment above the last one that was marked counts.
ReceivedMark(s, d, ce) ==
    IF ce /\ s.ecnCESeq < d.seq
    THEN [s EXCEPT !.ecnCESeq = d.seq, !.ecnState = "CE_RCVD"]
    ELSE s

\* Mutant: CWR ends the echo of a mark on the same segment, too.
ReceivedCwrAlways(s, d) ==
    IF d.cwr THEN [s EXCEPT !.ecnState = "IDLE"] ELSE s

\* DoForwardUp: the sender has answered.
ReceivedCwr(s, d) ==
    IF d.cwr /\ s.ecnState # "CE_RCVD" THEN [s EXCEPT !.ecnState = "IDLE"] ELSE s

\* ReceivedAck: an echo counts if it comes with an ACK of new data.
ReceivedEcho(s, d) ==
    IF d.ack > s.head /\ d.ece
    THEN IF s.ecnEchoSeq < d.ack
         THEN [s EXCEPT !.ecnEchoSeq = d.ack, !.ecnState = "ECE_RCVD"]
         ELSE s
    ELSE IF s.ecnState = "ECE_RCVD" /\ ~d.ece
    THEN [s EXCEPT !.ecnState = "IDLE"]
    ELSE s

\* m_rxBuffer->Add
AddToBuffer(s, seq) ==
    LET held == s.held \cup {seq}
        next == CHOOSE x \in Seqs \ {0} :
                   /\ x >= s.next /\ x \notin held
                   /\ \A y \in s.next .. x - 1 : y \in held
    IN  [s EXCEPT !.next = next, !.held = {x \in held : x > next}]

\* Mutant: every segment in order is delayed.
ReceivedDataDelayed(s, d) ==
    LET added == AddToBuffer(s, d.seq)
    IN  IF d.seq < s.next \/ d.seq \in s.held \/ added.held # {}
        THEN SendAck(s)
        ELSE [added EXCEPT !.delAckCount = @ + 1, !.delAckEvent = TRUE]

\* ReceivedData: an ACK at once for what is known, above a gap or when a gap is
\* filled, and every DelAckMax segments.
ReceivedData(s, d) ==
    LET added == AddToBuffer(s, d.seq)
    IN  IF d.seq < s.next \/ d.seq \in s.held
        THEN SendAck(s)
        ELSE IF \/ added.held # {}
                \/ added.next > s.next + 1
                \/ s.delAckCount + 1 >= DelAckMax
        THEN SendAck(added)
        ELSE [added EXCEPT !.delAckCount = @ + 1, !.delAckEvent = TRUE]

\* ReceivedAck with ProcessAck, which may call DoRetransmit, and at last SendPendingData.
ReceivedAck(s, d, again, lost, n) ==
    LET echoed    == ReceivedEcho(s, d)
        processed == Retransmit([echoed EXCEPT !.head = d.ack], again)
        received  == IF d.len > 0 THEN ReceivedData(processed, d) ELSE processed
    IN  SendPendingData(received, lost, n)

\* IsValidTcpSegment: data that is known completely gets an ACK without ECE.
IsValid(s, d) == d.len = 0 \/ d.seq + d.len >= s.next

-----------------------------------------------------------------------------
(***************************************************************************)
(* Actions                                                                 *)
(***************************************************************************)
\* The first data segment is acknowledged at once.
Init ==
    /\ sock = [p \in Peers |->
                 [ head |-> 1, highTxMark |-> 1, next |-> 1, held |-> {},
                   delAckCount |-> DelAckMax, delAckEvent |-> FALSE,
                   ecnState |-> "IDLE", ecnCESeq |-> 0, ecnEchoSeq |-> 0,
                   ecnCWRSeq |-> 0, out |-> << >> ]]
    /\ net = [p \in Peers |-> << >>]

\* A queue drops what does not fit.
Enqueue(p, out) == SubSeq(net[p] \o out, 1, Min({Len(net[p] \o out), MaxInNet[p]}))

\* The handler of p ends in s, with rest left on the path to p.
Finish(p, s, rest) ==
    /\ sock' = [sock EXCEPT ![p] = [s EXCEPT !.out = << >>]]
    /\ net' = [q \in Peers |-> IF q = p THEN rest ELSE Enqueue(q, s.out)]

\* New segments that the application of p has and a handler may send.
Bursts(p) ==
    {n \in 0 .. MaxBurst : sock[p].highTxMark + n <= NumSegs[p] + 1}

\* A segment of p that may be taken for lost, or none.
Lost(p) == {0} \cup (sock[p].head .. sock[p].highTxMark - 1)

\* Data of the application, sent by the event that Send schedules.
Send(p) ==
    \E lost \in Lost(p), n \in Bursts(p) :
       Finish(p, SendPendingData(sock[p], lost, n), net[p])

\* A segment arrives, and if it is data, with a mark or without.
Receive(p) ==
    /\ net[p] # << >>
    /\ LET d == Head(net[p])
           s == sock[p]
       IN  IF ~IsValid(s, d)
           THEN Finish(p, SendEmptyPacket(s, FALSE), Tail(net[p]))
           ELSE \E ce \in {d.len = 1, FALSE}, again, lost \in Lost(p), n \in Bursts(p) :
                   LET seen == ReceivedCwr(ReceivedMark(s, d, ce), d)
                   IN  Finish(p, IF d.ack < s.head THEN seen
                                 ELSE ReceivedAck(seen, d, again, lost, n),
                              Tail(net[p]))

\* After a timeout all is lost, and there is room for the head.
ReTxTimeout(p) ==
    /\ sock[p].head < sock[p].highTxMark
    /\ Finish(p, SendPendingData(sock[p], sock[p].head, 0), net[p])

DelAckTimeout(p) ==
    /\ sock[p].delAckEvent
    /\ Finish(p, SendAck(sock[p]), net[p])

\* A larger receive buffer is announced.
SetRcvBufSize(p) == Finish(p, SendAck(sock[p]), net[p])

Lose ==
    /\ \E p \in Peers : \E i \in DOMAIN net[p] :
          net' = [net EXCEPT ![p] = RemoveAt(@, i)]
    /\ UNCHANGED sock

Next ==
    \/ \E p \in Peers :
          Send(p) \/ Receive(p) \/ ReTxTimeout(p) \/ DelAckTimeout(p) \/ SetRcvBufSize(p)
    \/ Lose

Spec == Init /\ [][Next]_vars

-----------------------------------------------------------------------------
(***************************************************************************)
(* Properties                                                              *)
(***************************************************************************)
\* "Receiver sets ECE flags when it receives a packet with CE bit on or sender hasn't
\* responded to ECN echo sent by receiver" (1487): as long as the sender has not
\* reduced its window for a segment above the marked one, the mark is being echoed,
\* also when ECE or CWR are lost.  The exception is a socket that has received an echo
\* itself: it replaces, in m_ecnState, the mark that is still to be answered.
MarkEchoed ==
    \A p \in Peers :
       sock[p].ecnCESeq # 0 /\ sock[p].ecnCESeq >= sock[Other(p)].ecnCWRSeq
           => Echoes(sock[p]) \/ sock[p].ecnEchoSeq # 0

\* "only once per window" (2986): the window is not reduced again before the segment
\* that told of the last reduction is acknowledged, however many ACKs echo a mark.
OncePerWindow ==
    [][ \A p \in Peers :
           sock'[p].ecnCWRSeq # sock[p].ecnCWRSeq /\ sock[p].ecnCWRSeq # 0
               => sock'[p].head > sock[p].ecnCWRSeq ]_vars
=============================================================================
