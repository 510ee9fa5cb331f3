----------------------------- MODULE SwiftSender ----------------------------
(***************************************************************************)
(* The sending half of an established TcpSocketBase that runs TcpSwift,    *)
(* its peer's receiving half, and the network between them.                *)
(*                                                                         *)
(* The sender is the record snd; every method of tcp-socket-base.cc that   *)
(* processes an ACK, a timeout or pending data is an operator from the     *)
(* record before the call to the record after it, and an action applies    *)
(* the handler an event starts, with all the calls it makes.  The segments *)
(* a handler sends are collected in snd.out and handed to the network at   *)
(* the end of the action.                                                  *)
(*                                                                         *)
(* Sequence numbers count segments of SegSize bytes, 0 .. NumSegs - 1; the *)
(* window is in bytes.  The receive window is never the smaller one here.  *)
(* The scoreboard of TcpTxBuffer, TcpRxBuffer and the recovery algorithm   *)
(* are not in the repository: they are modelled from their use.            *)
(***************************************************************************)
EXTENDS TcpSwift, FiniteSetsExt, Bags

CONSTANTS
    NumSegs,       \* segments the application has to send
    RetxThresh,    \* m_retxThresh
    SackModes,     \* values of m_sackEnabled that a handshake may leave
    LimitedTx,     \* m_limitedTx
    Pacing,        \* m_tcb->m_pacing
    DataRetries,   \* m_dataRetries
    DelAckMax,     \* m_delAckMaxCount of the receiver
    Rtts,          \* values of tcb->m_lastRtt
    Ttls,          \* TTLs of arriving ACKs
    Lossy,         \* whether the network loses packets
    MaxCopies,     \* bound: copies of one segment or ACK a queue holds
    MaxPeerData,   \* bound: data segments the peer sends
    MaxSynAcks,    \* bound: repetitions of the SYN+ACK still in the network
    MaxCwnd        \* bound: a flow with a larger window gets no more ACKs

ASSUME NumSegsAssumption == NumSegs \in Nat
ASSUME RetxThreshAssumption == RetxThresh \in Nat /\ RetxThresh > 0
ASSUME OptionAssumption ==
    /\ SackModes \subseteq BOOLEAN /\ LimitedTx \in BOOLEAN
    /\ Pacing \in BOOLEAN /\ Lossy \in BOOLEAN
ASSUME RetriesAssumption == DataRetries \in Nat
ASSUME DelAckAssumption == DelAckMax \in Nat /\ DelAckMax > 0
ASSUME SampleAssumption ==
    Rtts \subseteq 0 .. TimeMax - 1 /\ Ttls \subseteq 0 .. 255
ASSUME NetworkAssumption ==
    MaxCopies \in Nat /\ MaxPeerData \in Nat /\ MaxSynAcks \in Nat
\* No window that one ACK can produce from MaxCwnd wraps around.
ASSUME BoundAssumption ==
    /\ MaxCwnd \in Nat /\ MaxCwnd >= 2 * SegSize
    /\ MaxCwnd + (5 * Alpha + 2) * SegSize + SegSize * SegSize < UintMod

VARIABLES
    snd,       \* the sender
    rcv,       \* the receiver
    data,      \* data segments in the network, a bag of sequence numbers
    acks,      \* ACKs in the network, a bag of records [ack, sack]
    synAcks,   \* repetitions of the SYN+ACK in the network
    peerData   \* data segments the peer has sent

vars == <<snd, rcv, data, acks, synAcks, peerData>>

Seqs == 0 .. NumSegs
Segments == 0 .. NumSegs - 1
CongStates == {"OPEN", "DISORDER", "RECOVERY", "LOSS"}
Acks == [ack : Seqs, sack : SUBSET Segments]

SenderState ==
    [ sackEnabled : SackModes,     \* m_sackEnabled
      head : Seqs,                 \* m_txBuffer->HeadSequence (), SND.UNA
      tail : Seqs,                 \* end of the data in m_txBuffer
      highTxMark : Seqs,           \* tcb->m_highTxMark
      nextTxSequence : Seqs,       \* tcb->m_nextTxSequence
      highRxAckMark : Seqs,        \* m_highRxAckMark
      sacked : SUBSET Segments,    \* flags of the items of the sent list
      lost : SUBSET Segments,
      retrans : SUBSET Segments,
      congState : CongStates,      \* tcb->m_congState
      dupAckCount : Nat,           \* m_dupAckCount
      recover : Seqs,              \* m_recover
      recoverActive : BOOLEAN,     \* m_recoverActive
      isFirstPartialAck : BOOLEAN, \* m_isFirstPartialAck
      dataRetrCount : 0 .. DataRetries,  \* m_dataRetrCount
      retxEvent : BOOLEAN,         \* m_retxEvent is running
      pacingTimer : BOOLEAN,       \* m_pacingTimer is running
      sendEvent : BOOLEAN,         \* m_sendPendingDataEvent is running
      endPoint : BOOLEAN,          \* m_endPoint # nullptr
      cc : SwiftState,             \* m_congestionControl and the window
      out : SUBSET Segments ]      \* segments this handler sends

ReceiverState ==
    [ sackEnabled : SackModes,     \* m_sackEnabled
      next : Seqs,                 \* m_rxBuffer->NextRxSequence ()
      held : SUBSET Segments,      \* out-of-order segments of m_rxBuffer
      delAckCount : 0 .. DelAckMax - 1,  \* m_delAckCount
      delAckEvent : BOOLEAN ]      \* m_delAckEvent is running

TypeOK ==
    /\ snd \in SenderState
    /\ rcv \in ReceiverState
    /\ BagToSet(data) \subseteq Segments
    /\ BagToSet(acks) \subseteq Acks
    /\ synAcks \in 0 .. MaxSynAcks
    /\ peerData \in 0 .. MaxPeerData

\* Both ends are ESTABLISHED and nothing has been sent yet.
Init ==
    /\ \E sack \in SackModes :
          /\ snd = [ sackEnabled |-> sack, head |-> 0, tail |-> 0, highTxMark |-> 0,
                     nextTxSequence |-> 0, highRxAckMark |-> 0,
                     sacked |-> {}, lost |-> {}, retrans |-> {},
                     congState |-> "OPEN", dupAckCount |-> 0, recover |-> 0,
                     recoverActive |-> FALSE, isFirstPartialAck |-> TRUE,
                     dataRetrCount |-> DataRetries, retxEvent |-> FALSE,
                     pacingTimer |-> FALSE, sendEvent |-> FALSE, endPoint |-> TRUE,
                     cc |-> NewSwift, out |-> {} ]
          /\ rcv = [ sackEnabled |-> sack, next |-> 0, held |-> {},
                     delAckCount |-> 0, delAckEvent |-> FALSE ]
    /\ data = EmptyBag
    /\ acks = EmptyBag
    /\ synAcks = MaxSynAcks
    /\ peerData = 0

-----------------------------------------------------------------------------
(***************************************************************************)
(* The scoreboard (TcpTxBuffer)                                            *)
(***************************************************************************)
SentList(s) == s.head .. s.highTxMark - 1

\* Sent, neither SACKed nor lost, and once more for every retransmission.
BytesInFlight(s) ==
    SegSize * (Cardinality(SentList(s) \ (s.sacked \cup s.lost))
               + Cardinality(s.retrans))

\* Segments with RetxThresh SACKed segments above them.
Overtaken(sent, sacked) ==
    {x \in sent \ sacked : Cardinality({y \in sacked : y > x}) >= RetxThresh}

\* SACK blocks: a SACKed segment is no longer lost nor in flight.
Update(s, blocks) ==
    LET fresh  == (blocks \cap SentList(s)) \ s.sacked
        sacked == s.sacked \cup fresh
    IN  IF fresh = {}
        THEN s
        ELSE [s EXCEPT !.sacked = sacked,
                       !.lost = (@ \ fresh) \cup Overtaken(SentList(s), sacked),
                       !.retrans = @ \ fresh]

\* Without SACK a duplicate ACK counts as the SACK of the first segment after
\* the head that is not marked yet.
AddRenoSack(s) ==
    LET open == (s.head + 1 .. s.highTxMark - 1) \ s.sacked
    IN  IF open = {}
        THEN s
        ELSE [s EXCEPT !.sacked = @ \cup {Min(open)},
                       !.lost = @ \ {Min(open)},
                       !.retrans = @ \ {Min(open)}]

\* The cumulative ACK; a head that was only guessed to be SACKed is not.
DiscardUpTo(s, ack) ==
    LET keep == ack .. NumSegs - 1
        d == [s EXCEPT !.head = ack,
                       !.sacked = @ \cap keep,
                       !.lost = @ \cap keep,
                       !.retrans = @ \cap keep]
    IN  IF ack <= s.head
        THEN s
        ELSE IF ~s.sackEnabled /\ ack \in d.sacked
             THEN AddRenoSack([d EXCEPT !.sacked = @ \ {ack}])
             ELSE d

MarkHeadAsLost(s) ==
    [s EXCEPT !.sacked = @ \ {s.head},
              !.lost = @ \cup {s.head},
              !.retrans = @ \ {s.head}]

DeleteRetransmittedFlagFromHead(s) == [s EXCEPT !.retrans = @ \ {s.head}]

SetSentListLost(s) ==
    LET sacked == IF s.sackEnabled THEN s.sacked ELSE {}
    IN  [s EXCEPT !.sacked = sacked,
                  !.lost = SentList(s) \ sacked,
                  !.retrans = {}]

-----------------------------------------------------------------------------
(***************************************************************************)
(* Transmission                                                            *)
(***************************************************************************)
\* Mutant: a retransmission does not start the timer again.
SendDataPacketsUntimed(s, segs) ==
    IF segs = {}
    THEN s
    ELSE [s EXCEPT !.out = @ \cup segs,
                   !.retrans = @ \cup (segs \cap SentList(s)),
                   !.highTxMark = Larger(@, Max(segs) + 1),
                   !.retxEvent = @ \/ Max(segs) >= s.highTxMark,
                   !.pacingTimer = @ \/ Pacing]

\* SendDataPacket for each segment of a set: retransmissions are marked, the
\* timers start unless they run.
SendDataPackets(s, segs) ==
    IF segs = {}
    THEN s
    ELSE [s EXCEPT !.out = @ \cup segs,
                   !.retrans = @ \cup (segs \cap SentList(s)),
                   !.highTxMark = Larger(@, Max(segs) + 1),
                   !.retxEvent = TRUE,
                   !.pacingTimer = @ \/ Pacing]

\* NextSeg, rule 1: lost and not retransmitted.
LostToSend(s) == s.lost \ s.retrans

\* DoRetransmit: the first segment by NextSeg, else the head again.
DoRetransmit(s) ==
    LET seq == IF LostToSend(s) # {} THEN Min(LostToSend(s))
               ELSE IF s.highTxMark < s.tail THEN s.highTxMark
               ELSE s.head
    IN  SendDataPackets([s EXCEPT !.nextTxSequence = seq], {seq})

FirstOf(S, n) == {x \in S : Cardinality({y \in S : y < x}) < n}

\* Mutant: what is in flight is not subtracted.
RoomOfWindow(s) == s.cc.cWnd \div SegSize

\* Segments that fit: a part of one is held back against silly windows.
Room(s) ==
    LET window == s.cc.cWnd - BytesInFlight(s)
    IN  IF window <= 0 THEN 0 ELSE window \div SegSize

\* Mutant: a running pacing timer does not stop the loop.
BudgetUnpaced(s) ==
    IF ~s.endPoint \/ s.head = s.tail THEN 0 ELSE Room(s)

\* The segments the loop of SendPendingData may send before it stops.
Budget(s) ==
    IF ~s.endPoint \/ s.head = s.tail \/ s.pacingTimer
    THEN 0
    ELSE IF Pacing THEN Smaller(1, Room(s)) ELSE Room(s)

\* The loop of SendPendingData: by NextSeg first what is lost, then new data,
\* then, in fast recovery with SACK, what is neither SACKed nor retransmitted.
SendPendingData(s) ==
    LET budget  == Budget(s)
        again   == FirstOf(LostToSend(s), budget)
        left    == budget - Cardinality(again)
        high    == Smaller(s.tail, s.highTxMark + left)
        new     == s.highTxMark .. high - 1
        rule3   == IF s.sackEnabled /\ s.congState = "RECOVERY"
                   THEN (s.head .. high - 1) \ (s.sacked \cup s.retrans \cup again)
                   ELSE {}
        extra   == FirstOf(rule3, left - Cardinality(new))
        last    == IF extra # {} THEN extra ELSE IF new # {} THEN new ELSE again
        sent    == SendDataPackets(SendDataPackets(s, again \cup new), extra)
    IN  IF last = {} THEN s ELSE [sent EXCEPT !.nextTxSequence = Max(last) + 1]

\* Mutant: a partial ACK that must not restart the timer cancels it.
NewAckCancels(s, ack, resetRTO) ==
    [s EXCEPT !.dataRetrCount = DataRetries,
              !.retxEvent = s.head < s.tail /\ resetRTO,
              !.nextTxSequence = Larger(@, ack)]

\* NewAck: the ACK restarts the timer, unless a later partial ACK must not.
NewAck(s, ack, resetRTO) ==
    [s EXCEPT !.dataRetrCount = DataRetries,
              !.retxEvent = s.head < s.tail /\ (resetRTO \/ @),
              !.nextTxSequence = Larger(@, ack)]

-----------------------------------------------------------------------------
(***************************************************************************)
(* Acknowledgments                                                         *)
(***************************************************************************)
\* Mutant: the socket changes its state without telling the congestion control.
SetCongStateSilently(s, st) == [s EXCEPT !.congState = st]

SetCongState(s, st) ==
    [s EXCEPT !.cc = CongestionStateSet(@, st, s.nextTxSequence),
              !.congState = st]

Measured(s, rtt) == [s EXCEPT !.cc = PktsAcked(@, rtt)]

Increased(s, segs, ack, ttl) ==
    [s EXCEPT !.cc = IncreaseWindow(@, segs, ack, s.nextTxSequence, ttl)]

\* EnterRecovery; the recovery algorithm sets the window to the threshold.
EnterRecovery(s) ==
    LET marked == IF ~s.sackEnabled THEN MarkHeadAsLost(AddRenoSack(s))
                  ELSE IF s.head \in s.lost THEN s
                  ELSE MarkHeadAsLost(s)
        inRecovery == SetCongState([marked EXCEPT !.recover = s.highTxMark,
                                                  !.recoverActive = TRUE],
                                   "RECOVERY")
        thresh == GetSsThresh(inRecovery.cc)
    IN  DoRetransmit([inRecovery EXCEPT !.cc.ssThresh = thresh,
                                        !.cc.cWnd = thresh])

\* Mutant: limited transmit guesses a SACK beside the real ones.
DupAckInDisorderGuesses(s) ==
    IF \/ /\ s.dupAckCount = RetxThresh
          /\ (s.highRxAckMark >= s.recover \/ ~s.recoverActive)
       \/ s.highRxAckMark + 1 \in s.lost
    THEN EnterRecovery(s)
    ELSE IF LimitedTx THEN AddRenoSack(s) ELSE s

\* DupAck in Disorder, the duplicate counted already.
DupAckInDisorder(s) ==
    IF \/ /\ s.dupAckCount = RetxThresh
          /\ (s.highRxAckMark >= s.recover \/ ~s.recoverActive)
       \/ s.highRxAckMark + 1 \in s.lost
    THEN EnterRecovery(s)
    ELSE IF ~s.sackEnabled /\ LimitedTx THEN AddRenoSack(s) ELSE s

\* Mutant: duplicates are taken for segments that left the network in Loss too.
DupAckInLoss(s) ==
    CASE s.congState \in {"LOSS", "RECOVERY"} ->
            IF s.sackEnabled THEN s ELSE AddRenoSack(s)
      [] s.congState = "DISORDER" ->
            DupAckInDisorder([s EXCEPT !.dupAckCount = @ + 1])
      [] s.congState = "OPEN"     ->
            DupAckInDisorder(
                SetCongState([s EXCEPT !.dupAckCount = @ + 1], "DISORDER"))

DupAck(s) ==
    CASE s.congState = "LOSS"     -> s
      [] s.congState = "RECOVERY" -> IF s.sackEnabled THEN s ELSE AddRenoSack(s)
      [] s.congState = "DISORDER" ->
            DupAckInDisorder([s EXCEPT !.dupAckCount = @ + 1])
      [] s.congState = "OPEN"     ->
            DupAckInDisorder(
                SetCongState([s EXCEPT !.dupAckCount = @ + 1], "DISORDER"))

\* An ACK below the recovery point in fast recovery: the next hole is filled.
PartialAck(s, ack, rtt) ==
    LET hole == IF s.sackEnabled THEN DeleteRetransmittedFlagFromHead(s)
                ELSE MarkHeadAsLost(s)
        acked == NewAck(Measured(DoRetransmit(hole), rtt), ack,
                        s.isFirstPartialAck)
    IN  [acked EXCEPT !.isFirstPartialAck = FALSE]

\* An ACK below the recovery point after a timeout.
LossAck(s, ack, segs, rtt, ttl) ==
    NewAck(Increased(Measured(s, rtt), segs, ack, ttl), ack, TRUE)

\* Mutant: the ACK that reaches the recovery point leaves it active.
PassRecoverLate(s, ack) == [s EXCEPT !.recoverActive = @ /\ ack <= s.recover]

PassRecover(s, ack) == [s EXCEPT !.recoverActive = @ /\ ack < s.recover]

\* New data acknowledged in Disorder: duplicates that were counted have stood
\* for segments before, and an ACK that is no duplicate itself ends Disorder.
DisorderAck(s, segs, oldDupAckCount, isDupack, rtt) ==
    LET m == IF segs >= oldDupAckCount THEN Measured(s, rtt) ELSE s
    IN  IF isDupack THEN m ELSE SetCongState(m, "OPEN")

\* Mutant: leaving Recovery keeps the count of duplicates.
LeaveRecoveryKeepsCount(s, rtt) ==
    [SetCongState(Measured(s, rtt), "OPEN") EXCEPT !.isFirstPartialAck = TRUE]

LeaveRecovery(s, rtt) ==
    [SetCongState(Measured(s, rtt), "OPEN")
        EXCEPT !.isFirstPartialAck = TRUE, !.dupAckCount = 0]

LeaveLoss(s, rtt) ==
    [SetCongState(Measured(s, rtt), "OPEN") EXCEPT !.isFirstPartialAck = TRUE]

\* Every other ACK of new data, by congestion state.
FullAck(s, ack, segs, oldDupAckCount, isDupack, rtt, ttl) ==
    LET passed == PassRecover(s, ack)
        grow(g, n) == NewAck(Increased(g, n, ack, ttl), ack, TRUE)
    IN  CASE s.congState = "OPEN" -> grow(Measured(passed, rtt), segs)
          [] s.congState = "DISORDER" ->
               grow(DisorderAck(passed, segs, oldDupAckCount, isDupack, rtt), segs)
          [] s.congState = "RECOVERY" ->
               NewAck(LeaveRecovery(passed, rtt), ack, TRUE)
          [] s.congState = "LOSS" -> grow(LeaveLoss(passed, rtt), ack - s.recover)

\* ProcessAck, after the scoreboard took in the SACK blocks and the ACK.
ProcessAck(s, ack, scoreboardUpdated, oldHead, rtt, ttl) ==
    LET isDupack == IF s.sackEnabled THEN scoreboardUpdated
                    ELSE ack = oldHead /\ ack < s.highTxMark
        d == IF isDupack THEN DupAck(s) ELSE s
        a == IF isDupack THEN d ELSE [d EXCEPT !.dupAckCount = 0]
    IN  IF ack = oldHead /\ ack = s.highTxMark THEN d
        ELSE IF ack = oldHead THEN Measured(d, rtt)
        ELSE IF ack < a.recover /\ a.congState = "RECOVERY"
             THEN PartialAck(a, ack, rtt)
        ELSE IF ack < a.recover /\ a.congState = "LOSS"
             THEN LossAck(a, ack, ack - oldHead, rtt, ttl)
        ELSE FullAck(a, ack, ack - oldHead, s.dupAckCount, isDupack, rtt, ttl)

\* ReceivedAck up to SendPendingData.
ReceivedAck(s, a, rtt, ttl) ==
    LET updated   == IF s.sackEnabled THEN Update(s, a.sack) ELSE s
        discarded == DiscardUpTo(updated, a.ack)
    IN  ProcessAck(discarded, a.ack, updated.sacked # s.sacked, s.head, rtt, ttl)

CollapseWindow(s) == [s EXCEPT !.cc.cWnd = SegSize, !.pacingTimer = FALSE]

\* ReTxTimeout with data in the buffer and a retry left, up to SendPendingData.
RetransmissionTimeout(s) ==
    LET marked == [SetSentListLost(s) EXCEPT !.dataRetrCount = @ - 1,
                                             !.dupAckCount = 0,
                                             !.recover = s.highTxMark,
                                             !.recoverActive = TRUE]
        reduced == IF s.congState # "LOSS" \/ marked.head \notin marked.retrans
                   THEN [marked EXCEPT !.cc.ssThresh = GetSsThresh(s.cc)]
                   ELSE marked
        inLoss == SetCongState(reduced, "LOSS")
    IN  CollapseWindow(inLoss)

-----------------------------------------------------------------------------
(***************************************************************************)
(* Actions                                                                 *)
(***************************************************************************)
\* A queue that holds MaxCopies of a packet drops the next one.
Enqueue(B, S) ==
    B (+) SetToBag({x \in S : BagIn(x, B) => B[x] < MaxCopies})

\* The handler ends in one of the states S: its segments go to the network.
Finish(S) ==
    \E s \in S :
       /\ snd' = [s EXCEPT !.out = {}]
       /\ data' = Enqueue(data, s.out)

\* Its last call is SendPendingData.
FinishSending(S) == Finish({SendPendingData(s) : s \in S})

\* Send: the application adds n segments; the socket sends a moment later.
Send ==
    \E n \in 1 .. NumSegs - snd.tail :
       /\ snd' = [snd EXCEPT !.tail = @ + n,
                             !.sendEvent = @ \/ snd.cc.cWnd > BytesInFlight(snd)]
       /\ UNCHANGED <<rcv, data, acks, synAcks, peerData>>

SendPendingDataEvent ==
    /\ snd.sendEvent
    /\ FinishSending({[snd EXCEPT !.sendEvent = FALSE]})
    /\ UNCHANGED <<rcv, acks, synAcks, peerData>>

\* NotifyPacingPerformed
PacingTimerExpires ==
    /\ snd.pacingTimer
    /\ FinishSending({[snd EXCEPT !.pacingTimer = FALSE]})
    /\ UNCHANGED <<rcv, acks, synAcks, peerData>>

\* An ACK reaches the sender: DoForwardUp updates the window, and
\* ProcessEstablished ignores an ACK below the head.
ReceiveAck ==
    \E a \in BagToSet(acks) :
       /\ acks' = acks (-) SetToBag({a})
       /\ \/ /\ snd.endPoint /\ snd.cc.cWnd <= MaxCwnd
             /\ LET s == [snd EXCEPT !.highRxAckMark = Larger(@, a.ack)]
                IN  IF a.ack < s.head \/ a.ack > s.highTxMark
                    THEN Finish({s})
                    ELSE \E rtt \in Rtts, ttl \in Ttls :
                            FinishSending({ReceivedAck(s, a, rtt, ttl)})
          \/ /\ ~snd.endPoint
             /\ UNCHANGED <<snd, data>>
       /\ UNCHANGED <<rcv, synAcks, peerData>>

\* A repetition of the peer's SYN+ACK: DoForwardUp initialises the window and
\* the highest ACK, and ProcessEstablished has no action for it.
ReceiveSynAck ==
    /\ synAcks > 0
    /\ synAcks' = synAcks - 1
    /\ snd' = IF snd.endPoint
              THEN [snd EXCEPT !.cc.cWnd = InitialCwnd * SegSize,
                               !.cc.ssThresh = InitialSsThresh,
                               !.highRxAckMark = 0]
              ELSE snd
    /\ UNCHANGED <<rcv, data, acks, peerData>>

\* Mutant: retries are never used up.
ReTxTimeoutForever ==
    /\ snd.retxEvent
    /\ LET s == [snd EXCEPT !.retxEvent = FALSE]
       IN  IF s.head = s.tail
           THEN Finish({s})
           ELSE FinishSending({RetransmissionTimeout(s)})
    /\ UNCHANGED <<rcv, acks, synAcks, peerData>>

\* ReTxTimeout: nothing to send, no retry left, or back to the first hole.
ReTxTimeout ==
    /\ snd.retxEvent
    /\ LET s == [snd EXCEPT !.retxEvent = FALSE]
       IN  IF s.head = s.tail
           THEN Finish({s})
           ELSE IF s.dataRetrCount = 0
           THEN Finish({[s EXCEPT !.endPoint = FALSE, !.pacingTimer = FALSE,
                                  !.sendEvent = FALSE]})
           ELSE FinishSending({RetransmissionTimeout(s)})
    /\ UNCHANGED <<rcv, acks, synAcks, peerData>>

\* m_rxBuffer->NextRxSequence () once the segments of held are in the buffer.
NextRx(next, held) == Min((next .. NumSegs) \ held)

\* Mutant: the ACK covers a hole.
AckOfHighest(r) ==
    [ack |-> Max(r.held \cup {r.next - 1}) + 1,
     sack |-> IF r.sackEnabled THEN r.held ELSE {}]

\* The ACK number and the SACK blocks of an ACK (SendEmptyPacket).
AckOf(r) == [ack |-> r.next, sack |-> IF r.sackEnabled THEN r.held ELSE {}]

\* ReceivedData at the peer: at once an ACK for a duplicate, above a hole or
\* when a hole is filled, else every DelAckMax segments or when the timer ends.
ReceiveData ==
    \E seq \in BagToSet(data) :
       LET known == seq < rcv.next \/ seq \in rcv.held
           held  == rcv.held \cup {seq}
           next  == NextRx(rcv.next, held)
           above == {x \in held : x >= next}
           prompt == \/ known
                     \/ above # {}
                     \/ next > seq + 1
                     \/ rcv.delAckCount + 1 >= DelAckMax
       IN  /\ data' = data (-) SetToBag({seq})
           /\ rcv' = [rcv EXCEPT !.next = next, !.held = above,
                                  !.delAckCount = IF prompt THEN 0 ELSE @ + 1,
                                  !.delAckEvent = ~prompt]
           /\ acks' = IF prompt
                      THEN Enqueue(acks, {AckOf(rcv')})
                      ELSE acks
           /\ UNCHANGED <<snd, synAcks, peerData>>

\* DelAckTimeout
DelAckTimeout ==
    /\ rcv.delAckEvent
    /\ rcv' = [rcv EXCEPT !.delAckCount = 0, !.delAckEvent = FALSE]
    /\ acks' = Enqueue(acks, {AckOf(rcv)})
    /\ UNCHANGED <<snd, data, synAcks, peerData>>

\* A data segment of the peer carries its ACK number, but no SACK block.
PeerSendsData ==
    /\ peerData < MaxPeerData
    /\ peerData' = peerData + 1
    /\ rcv' = [rcv EXCEPT !.delAckCount = 0, !.delAckEvent = FALSE]
    /\ acks' = Enqueue(acks, {[ack |-> rcv.next, sack |-> {}]})
    /\ UNCHANGED <<snd, data, synAcks>>

\* The network loses a packet.
Lose ==
    /\ Lossy
    /\ \/ /\ \E seq \in BagToSet(data) : data' = data (-) SetToBag({seq})
          /\ UNCHANGED <<acks, synAcks>>
       \/ /\ \E a \in BagToSet(acks) : acks' = acks (-) SetToBag({a})
          /\ UNCHANGED <<data, synAcks>>
       \/ /\ synAcks > 0
          /\ synAcks' = synAcks - 1
          /\ UNCHANGED <<data, acks>>
    /\ UNCHANGED <<snd, rcv, peerData>>

\* All is acknowledged, or given up, and nothing is on its way.
Done ==
    /\ (snd.tail = NumSegs /\ snd.head = NumSegs) \/ ~snd.endPoint
    /\ UNCHANGED vars

Next ==
    \/ Send \/ SendPendingDataEvent \/ PacingTimerExpires
    \/ ReceiveAck \/ ReceiveSynAck \/ ReTxTimeout
    \/ ReceiveData \/ DelAckTimeout \/ PeerSendsData \/ Lose
    \/ Done

Spec == Init /\ [][Next]_vars

\* The events the sender has scheduled.
SocketEvent == SendPendingDataEvent \/ PacingTimerExpires \/ ReTxTimeout

\* The simulator runs on while events are scheduled: some event of the socket
\* happens in the end.  Nothing is assumed of the network or the applications.
FairSpec == Spec /\ WF_vars(SocketEvent)

-----------------------------------------------------------------------------
(***************************************************************************)
(* Properties                                                              *)
(***************************************************************************)
\* The counters always fit the congestion state: no duplicates in Open, where DupAck
\* asserts that the next one is the first (1664), and fewer than m_retxThresh in
\* Disorder, where it asserts that there are no more (1697), though the count is reset
\* in six places and an ACK of new data may itself be a duplicate; and a new recovery
\* finds m_isFirstPartialAck set, also when a timeout broke off the one before, so
\* that its first partial ACK restarts the retransmission timer.
CountersFit ==
    /\ snd.congState = "OPEN" => snd.dupAckCount = 0
    /\ snd.congState = "DISORDER" => snd.dupAckCount \in 1 .. RetxThresh - 1
    /\ snd.congState \in {"OPEN", "DISORDER"} => snd.isFirstPartialAck

\* The recovery point is active in exactly Recovery and Loss, and then lies in
\* what was sent and not acknowledged, so that "ackNumber - m_recover" (2006,
\* 2036), computed unsigned, never wraps.
RecoveryPoint ==
    /\ snd.recoverActive <=> snd.congState \in {"RECOVERY", "LOSS"}
    /\ snd.recoverActive => snd.recover \in snd.head .. snd.highTxMark

\* What the sender holds for SACKed has reached the receiver, through losses,
\* reordered ACKs and timeouts that keep the scoreboard: a segment is never
\* passed over that the receiver still needs.
SackedReceived ==
    snd.sackEnabled => \A x \in snd.sacked : x < rcv.next \/ x \in rcv.held

\* "Some segment got dup-acked in CA_LOSS state" (1983): without SACK nothing is
\* guessed to be SACKed while the socket recovers from a timeout.
RenoGuessEnds == ~snd.sackEnabled /\ snd.congState = "LOSS" => snd.sacked = {}

\* While something sent is unacknowledged, the retransmission timer runs: a
\* lost segment or ACK can always be made good.
TimerRunning == snd.endPoint /\ snd.head < snd.highTxMark => snd.retxEvent

\* Outside fast recovery, whose first retransmission ignores the window, a step
\* that puts more into flight stays within the window it leaves, and so does a
\* timeout, which has marked everything lost: lost, SACKed and retransmitted
\* segments add up ("there is more than one segment", 3661).
FlightWithinWindow ==
    [][ \/ BytesInFlight(snd') > BytesInFlight(snd)
        \/ snd'.dataRetrCount < snd.dataRetrCount
        => BytesInFlight(snd') <= snd'.cc.cWnd \/ snd'.congState = "RECOVERY"
      ]_vars

\* While the pacing timer runs nothing is sent but fast retransmissions, and
\* what ends the wait (its expiry, or a timeout) sends one segment.
Sending == BagCardinality(data') > BagCardinality(data)
PacedSending ==
    [][ Pacing /\ Sending /\ snd'.congState # "RECOVERY"
        => /\ snd.pacingTimer => PacingTimerExpires \/ ReTxTimeout
           /\ BagCardinality(data') = BagCardinality(data) + 1 ]_vars

\* The calls the socket makes to its congestion control are those of SwiftFlow,
\* in an order that SwiftFlow allows.
Flow == INSTANCE SwiftFlow WITH
    cc <- snd.cc, congState <- snd.congState, Segs <- Seqs
FlowSpec == Flow!Spec

\* The two sockets and the network are a ReliableStream.
Stream == INSTANCE ReliableStream WITH
    written <- snd.tail, delivered <- rcv.next, acked <- snd.head,
    aborted <- ~snd.endPoint
StreamSpec == Stream!Spec

\* Whatever the network does, data that is written is acknowledged in the end and the
\* recovery or timeout it took is left, or the connection is given up: some event that
\* will send what is missing is always pending.
Progress ==
    snd.head < snd.tail \/ snd.recoverActive
        ~> (snd.head = snd.tail /\ snd.congState = "OPEN") \/ ~snd.endPoint
=============================================================================
