----------------------------- MODULE RttHistory -----------------------------
(***************************************************************************)
(* The round-trip time measurements of a TcpSocketBase client and its      *)
(* retransmission timeout: m_history, from which an ACK takes a sample,    *)
(* and m_rto, which timeouts double.                                       *)
(*                                                                         *)
(* Sequence number 0 is the SYN and data starts at 1.  TcpTxBuffer keeps   *)
(* what was sent in items.  Any of them may be sent again, in any order    *)
(* and any number of times: the next one that is lost, the head once more  *)
(* because of a partial ACK, or as the fallback of DoRetransmit.  Only     *)
(* what a timeout marked as lost is sent again from the head upwards.      *)
(* Every retransmission asks for a full segment, so it sends its item      *)
(* whole, alone or merged with what follows.  Which ACKs arrive is free.   *)
(* Times are multiples of the timeout that the estimate of m_rtt gives,    *)
(* which stays the same: what matters is which segments are measured.      *)
(***************************************************************************)
EXTENDS Naturals, Sequences

CONSTANTS
    NumBytes,    \* bytes of data
    SegSize,     \* tcb->m_segmentSize
    SynRetries,  \* m_synRetries
    CnTimeout,   \* m_cnTimeout
    DataRetries, \* m_dataRetries
    MaxRto,      \* the 60 seconds that bound m_rto
    TwoWay       \* the peer sends data, too, which is acknowledged

ASSUME DataAssumption == NumBytes \in Nat \ {0} /\ SegSize \in Nat \ {0}
ASSUME RetryAssumption == SynRetries \in Nat \ {0} /\ DataRetries \in Nat
ASSUME TimeAssumption == CnTimeout \in Nat \ {0} /\ MaxRto \in Nat \ {0}
ASSUME TwoWayAssumption == TwoWay \in BOOLEAN

VARIABLES
    state,         \* m_state: CLOSED, SYN_SENT or ESTABLISHED
    synCount,      \* m_synCount
    dataRetrCount, \* m_dataRetrCount
    history,       \* m_history without the times
    head,          \* m_txBuffer->HeadSequence ()
    highTxMark,    \* tcb->m_highTxMark
    highRxt,       \* below recover: end of what was sent again since the last timeout
    recover,       \* m_recover: what a timeout marked as lost ends here
    cuts,          \* where the items of m_txBuffer end that were sent
    rto,           \* m_rto
    retxEvent,     \* the delay with which m_retxEvent was scheduled, 0 if it is not
    sends,         \* how often each sequence number was sent: once, or more often
    sample         \* the last sequence number of the measurement of this step

vars == <<state, synCount, dataRetrCount, history, head, highTxMark, highRxt, recover,
          cuts, rto, retxEvent, sends, sample>>

Seqs == 0 .. NumBytes
NoSample == NumBytes + 1
Estimate == 1  \* m_rtt->GetEstimate () and its variation, at least m_minRto

Smaller(m, n) == IF m < n THEN m ELSE n
Larger(m, n) == IF m > n THEN m ELSE n

Entry == [seq : Nat, count : Nat, retx : BOOLEAN]
End(h) == h.seq + h.count
LastOf(h) == IF h.count = 0 THEN h.seq ELSE End(h) - 1

\* The waits are typed where they are bounded, by DataWaitBounded.
TypeOK ==
    /\ history \in Seq(Entry)
    /\ synCount \in 0 .. SynRetries
    /\ sends \in [Seqs -> 0 .. 2]
    /\ highTxMark \in 0 .. NumBytes + 1 /\ highRxt \in 0 .. highTxMark
    /\ head \in 0 .. highTxMark /\ recover \in 0 .. highTxMark
    /\ cuts \subseteq Nat
    /\ state \in {"CLOSED", "SYN_SENT", "ESTABLISHED"}

-----------------------------------------------------------------------------
(***************************************************************************)
(* The history                                                             *)
(***************************************************************************)
\* The entries of h that have the first byte of a segment; there may be none.
Matching(h, seq) ==
    {i \in DOMAIN h : seq >= h[i].seq /\ seq < End(h[i])}

FirstOf(indices) == CHOOSE i \in indices : \A j \in indices : i <= j

\* Mutant: the mark is set, and the end of the entry stays.
UpdateRttHistoryMarks(h, seq, sz, isRetransmission) ==
    IF ~isRetransmission
    THEN Append(h, [seq |-> seq, count |-> sz, retx |-> FALSE])
    ELSE IF Matching(h, seq) = {}
    THEN h
    ELSE [h EXCEPT ![FirstOf(Matching(h, seq))].retx = TRUE]

\* A new segment is logged; of one that is sent again the first entry that has its
\* first byte is marked, and ends where the segment ends.
UpdateRttHistory(h, seq, sz, isRetransmission) ==
    IF ~isRetransmission
    THEN Append(h, [seq |-> seq, count |-> sz, retx |-> FALSE])
    ELSE IF Matching(h, seq) = {}
    THEN h
    ELSE [h EXCEPT ![FirstOf(Matching(h, seq))] =
             [seq |-> @.seq, retx |-> TRUE, count |-> seq + sz - @.seq]]

\* Is the entry in front good for a sample?
Measured(ack) ==
    history # << >> /\ ~Head(history).retx /\ ack >= End(Head(history))

\* EstimateRtt: the sample, and the entries in front that the ACK covers go.
EstimateRtt(ack) ==
    LET kept == {i \in DOMAIN history : End(history[i]) > ack}
        from == IF kept = {} THEN Len(history) + 1 ELSE FirstOf(kept)
    IN  /\ history' = SubSeq(history, from, Len(history))
        /\ sample' = IF Measured(ack) THEN LastOf(Head(history)) ELSE NoSample

\* Where the items of m_txBuffer start that were sent and are unacknowledged.
Items == {x \in {head} \cup cuts : head <= x /\ x < highTxMark}

\* The sizes of a segment that is sent again from the start of an item: the item, or
\* more, up to the end of another one if it is no full segment.
AgainSizes(seq) ==
    {sz \in 1 .. SegSize :
        /\ seq + sz <= highTxMark
        /\ \E c \in cuts : seq < c /\ c <= seq + sz
        /\ sz = SegSize \/ seq + sz \in cuts}

Count(seq, sz) ==
    sends' = [x \in Seqs |-> IF x \in seq .. seq + sz - 1
                             THEN Smaller(sends[x] + 1, 2) ELSE sends[x]]

\* The bytes from seq are on the wire once more, and are one item now.
Sent(seq, sz) ==
    /\ cuts' = {c \in cuts : c <= seq \/ c >= seq + sz} \cup {seq + sz}
    /\ Count(seq, sz)

-----------------------------------------------------------------------------
(***************************************************************************)
(* The handshake                                                           *)
(***************************************************************************)
\* SendEmptyPacket for a SYN, the first or one more; the count of its entry is
\* zero, so that no retransmission matches it.
SendSyn ==
    IF synCount = 0
    THEN /\ state' = "CLOSED"
         /\ retxEvent' = 0
         /\ rto' = Estimate
         /\ UNCHANGED <<synCount, history, cuts, sends>>
    ELSE /\ synCount' = synCount - 1
         /\ rto' = CnTimeout * 2 ^ (SynRetries - synCount)
         /\ retxEvent' = rto'
         /\ history' = UpdateRttHistory(history, 0, 0, synCount # SynRetries)
         /\ Count(0, 1)
         /\ state' = "SYN_SENT"
         /\ UNCHANGED cuts

Init ==
    /\ state = "CLOSED" /\ synCount = SynRetries /\ dataRetrCount = DataRetries
    /\ history = << >> /\ head = 0 /\ highTxMark = 0 /\ highRxt = 0
    /\ recover = 0 /\ cuts = {}
    /\ rto = Estimate /\ retxEvent = 0
    /\ sends = [x \in Seqs |-> 0] /\ sample = NoSample

Connect ==
    /\ state = "CLOSED" /\ synCount = SynRetries
    /\ SendSyn
    /\ sample' = NoSample
    /\ UNCHANGED <<dataRetrCount, head, highTxMark, highRxt, recover>>

SynTimeout ==
    /\ state = "SYN_SENT" /\ retxEvent > 0
    /\ SendSyn
    /\ sample' = NoSample
    /\ UNCHANGED <<dataRetrCount, head, highTxMark, highRxt, recover>>

\* Mutant: the backoff of the handshake is not forgotten.
ReceiveSynAckKeepsRto ==
    /\ state = "SYN_SENT"
    /\ EstimateRtt(1)
    /\ state' = "ESTABLISHED"
    /\ head' = 1 /\ highTxMark' = 1 /\ highRxt' = 1
    /\ retxEvent' = 0
    /\ UNCHANGED <<synCount, dataRetrCount, recover, cuts, rto, sends>>

\* The SYN+ACK: DoForwardUp takes the sample, ProcessSynSent sends the ACK.
ReceiveSynAck ==
    /\ state = "SYN_SENT"
    /\ EstimateRtt(1)
    /\ state' = "ESTABLISHED"
    /\ head' = 1 /\ highTxMark' = 1 /\ highRxt' = 1
    /\ rto' = Estimate /\ retxEvent' = 0
    /\ UNCHANGED <<synCount, dataRetrCount, recover, cuts, sends>>

-----------------------------------------------------------------------------
(***************************************************************************)
(* Data                                                                    *)
(***************************************************************************)
\* SendDataPacket starts the timer with m_rto if it is not running.
Arm == retxEvent' = IF retxEvent = 0 THEN rto ELSE retxEvent

\* New data is sent when nothing is left that a timeout marked as lost.
SendNew ==
    /\ state = "ESTABLISHED"
    /\ \E sz \in 1 .. SegSize :
          /\ highTxMark + sz <= NumBytes + 1
          /\ history' = UpdateRttHistory(history, highTxMark, sz, FALSE)
          /\ Sent(highTxMark, sz)
          /\ highTxMark' = highTxMark + sz
    /\ highRxt' = Larger(highRxt, recover)
    /\ Arm
    /\ sample' = NoSample
    /\ UNCHANGED <<state, synCount, dataRetrCount, head, recover, rto>>

\* SendPendingData or DoRetransmit sends an item again.  NextSeg goes upwards through
\* what a timeout marked; above that any item may be the next, also one below those
\* that were sent again before, and one that was sent again itself.
SendAgain ==
    /\ state = "ESTABLISHED"
    /\ \E seq \in Items : \E sz \in AgainSizes(seq) :
          /\ seq >= recover \/ seq >= highRxt
          /\ history' = UpdateRttHistory(history, seq, sz, TRUE)
          /\ Sent(seq, sz)
          /\ highRxt' = IF seq < recover THEN seq + sz ELSE highRxt
    /\ Arm
    /\ sample' = NoSample
    /\ UNCHANGED <<state, synCount, dataRetrCount, head, highTxMark, recover, rto>>

\* A later partial ACK of fast recovery, which is below what was sent, leaves m_rto and
\* the timer alone; the timer stops only if the application has written no more.
NewAck(ack) ==
    /\ head' = ack
    /\ cuts' = {c \in cuts : c > ack}
    /\ dataRetrCount' = DataRetries
    /\ \E resetRTO, empty \in BOOLEAN :
          /\ ack = highTxMark => resetRTO
          /\ IF empty THEN ack = highTxMark ELSE ack <= NumBytes
          /\ rto' = IF resetRTO \/ sample' # NoSample THEN Estimate ELSE rto
          /\ retxEvent' = IF empty THEN 0 ELSE IF resetRTO THEN rto' ELSE retxEvent

\* EstimateRtt for every ACK, NewAck for one that is new.
ReceiveAck ==
    /\ state = "ESTABLISHED"
    /\ \E ack \in 1 .. highTxMark :
          /\ EstimateRtt(ack)
          /\ IF ack > head
             THEN NewAck(ack)
             ELSE /\ rto' = IF sample' = NoSample THEN rto ELSE Estimate
                  /\ UNCHANGED <<head, cuts, dataRetrCount, retxEvent>>
    /\ UNCHANGED <<state, synCount, highTxMark, highRxt, recover, sends>>

Backoff == Smaller(2 * rto, MaxRto)

\* Mutant: the history is kept.
KeptHistory == history

\* m_history.clear ()
ClearedHistory == << >>

\* After a timeout the head is sent again or, if all that was sent is acknowledged,
\* what was written since then is sent.
SendHead ==
    \E sz \in 1 .. SegSize :
       /\ IF head < highTxMark
          THEN sz \in AgainSizes(head) /\ highTxMark' = highTxMark /\ highRxt' = head + sz
          ELSE head + sz <= NumBytes + 1 /\ highTxMark' = head + sz /\ highRxt' = head
       /\ history' = UpdateRttHistory(ClearedHistory, head, sz, head < highTxMark)
       /\ Sent(head, sz)

\* The history was cleared before the head is sent again: no entry is marked, and
\* nothing that was sent before is measured any more.
ReTxTimeout ==
    /\ state = "ESTABLISHED" /\ retxEvent > 0
    /\ IF dataRetrCount = 0
       THEN /\ state' = "CLOSED"
            /\ retxEvent' = 0
            /\ UNCHANGED <<dataRetrCount, history, highTxMark, highRxt, recover, cuts,
                           rto, sends>>
       ELSE /\ dataRetrCount' = dataRetrCount - 1
            /\ rto' = Backoff
            /\ recover' = highTxMark
            /\ retxEvent' = rto'
            /\ SendHead
            /\ UNCHANGED state
    /\ sample' = NoSample
    /\ UNCHANGED <<synCount, head>>

\* SendEmptyPacket computes m_rto anew for whatever it sends.
SendAck ==
    /\ TwoWay /\ state = "ESTABLISHED"
    /\ rto' = Estimate
    /\ sample' = NoSample
    /\ UNCHANGED <<state, synCount, dataRetrCount, history, head, highTxMark, highRxt,
                   recover, cuts, retxEvent, sends>>

Next ==
    \/ Connect \/ SynTimeout \/ ReceiveSynAck
    \/ SendNew \/ SendAgain \/ ReceiveAck \/ ReTxTimeout \/ SendAck

Spec == Init /\ [][Next]_vars

-----------------------------------------------------------------------------
(***************************************************************************)
(* Properties                                                              *)
(***************************************************************************)
\* A data segment is measured only if its last byte was sent once: the ACK cannot
\* be for another transmission (Karn), however retransmissions merge the segments and
\* set the ends of their entries in the history, and in whichever order they go.
SamplesUnambiguous == sample \in 1 .. NumBytes => sends[sample] = 1

\* A sample is younger than the last timeout: a segment that was on its way when the
\* timer fired is not measured, be it sent again or not (3629).
SamplesFresh == sample \in 1 .. NumBytes => sample >= recover

\* Data is repeated after a minute at the latest (3625), also after a handshake whose
\* backoff, in the same m_rto, has no such bound (2646).
DataWaitBounded == state = "ESTABLISHED" => retxEvent <= MaxRto /\ rto <= MaxRto
=============================================================================
