------------------------------ MODULE SwiftFlow -----------------------------
(***************************************************************************)
(* What a socket owes its congestion control: the order in which           *)
(* TcpSocketBase calls the methods of TcpSwift while it moves through the  *)
(* congestion states.  Each action is everything one event of the socket   *)
(* (an ACK, a timeout, a repeated SYN+ACK) does to the congestion control; *)
(* which sequence numbers and delays come with it is left open.            *)
(* SwiftSender, with the scoreboard, the timers and the network, is checked *)
(* to implement this specification, so what holds of every behaviour here  *)
(* holds there.                                                            *)
(***************************************************************************)
EXTENDS TcpSwift

CONSTANTS
    Rtts,        \* smoothed delays tcb->m_lastRtt takes; 0 before the first
    Ttls,        \* TTLs of arriving packets (m_rcvTtl)
    Segs,        \* segments acknowledged by one ACK
    Seqs,        \* sequence numbers
    MaxCwnd      \* bound: a flow with a larger window gets no more ACKs

ASSUME RttAssumption == Rtts \subseteq 0 .. TimeMax - 1
ASSUME SeqAssumption == Seqs \subseteq Nat /\ Segs \subseteq Nat /\ 0 \in Segs
ASSUME TtlAssumption == Ttls \subseteq 0 .. 255
\* No window that one ACK can produce from MaxCwnd wraps around.
ASSUME BoundAssumption ==
    /\ MaxCwnd \in Nat /\ MaxCwnd >= 2 * SegSize
    /\ MaxCwnd + (5 * Alpha + 2) * SegSize + SegSize * SegSize < UintMod

VARIABLES
    cc,          \* the congestion control and the window
    congState    \* tcb->m_congState

vars == <<cc, congState>>

CongStates == {"OPEN", "DISORDER", "RECOVERY", "LOSS"}

TypeOK == cc \in SwiftState /\ congState \in CongStates

Init == cc = NewSwift /\ congState = "OPEN"

\* m_recoveryOps->EnterRecovery (outside the repository): cWnd = ssThresh,
\* after ssThresh = GetSsThresh.
FastRecovery(c, nextTx) ==
    LET disabled == CongestionStateSet(c, "RECOVERY", nextTx)
        thresh   == GetSsThresh(disabled)
    IN  [disabled EXCEPT !.ssThresh = thresh, !.cWnd = thresh]

\* DupAck: the states it may leave the socket in, with the calls made on the
\* way; without a duplicate nothing is called.
DupAck(c, st, st2, nextTx) ==
    IF st2 = st THEN c
    ELSE IF st2 = "RECOVERY" THEN FastRecovery(c, nextTx)
    ELSE CongestionStateSet(c, "DISORDER", nextTx)

DupAckTargets(st) ==
    CASE st = "OPEN"     -> {"OPEN", "DISORDER", "RECOVERY"}
      [] st = "DISORDER" -> {"DISORDER", "RECOVERY"}
      [] OTHER           -> {st}

-----------------------------------------------------------------------------
\* An ACK that leaves the congestion control alone, or only a delay measured:
\* it repeats the head of the sent list, or it is partial in fast recovery.
AckWithoutAdvance(rtt, nextTx) ==
    \E st \in DupAckTargets(congState) :
       /\ congState' = st
       /\ \/ cc' = DupAck(cc, congState, st, nextTx)
          \/ cc' = PktsAcked(DupAck(cc, congState, st, nextTx), rtt)

\* New data acknowledged while the window may grow and the state remains.
AckAdvances(rtt, segs, ack, nextTx, ttl) ==
    \E st \in DupAckTargets(congState) \ {"RECOVERY"} :
       /\ congState' = st
       /\ LET c == DupAck(cc, congState, st, nextTx)
          IN  \/ cc' = IncreaseWindow(PktsAcked(c, rtt), segs, ack, nextTx, ttl)
              \/ /\ st = "DISORDER"
                 /\ cc' = IncreaseWindow(c, segs, ack, nextTx, ttl)

\* New data acknowledged without a duplicate in Disorder: back to Open.
DisorderResolved(rtt, segs, ack, nextTx, ttl) ==
    /\ congState = "DISORDER"
    /\ congState' = "OPEN"
    /\ \/ cc' = IncreaseWindow(
                  CongestionStateSet(PktsAcked(cc, rtt), "OPEN", nextTx),
                  segs, ack, nextTx, ttl)
       \/ cc' = IncreaseWindow(CongestionStateSet(cc, "OPEN", nextTx),
                  segs, ack, nextTx, ttl)

\* The recovery point is acknowledged in fast recovery: the window is kept.
RecoveryEnds(rtt, nextTx) ==
    /\ congState = "RECOVERY"
    /\ congState' = "OPEN"
    /\ cc' = CongestionStateSet(PktsAcked(cc, rtt), "OPEN", nextTx)

\* The recovery point is acknowledged after a timeout.
LossEnds(rtt, segs, ack, nextTx, ttl) ==
    /\ congState = "LOSS"
    /\ congState' = "OPEN"
    /\ cc' = IncreaseWindow(
               CongestionStateSet(PktsAcked(cc, rtt), "OPEN", nextTx),
               segs, ack, nextTx, ttl)

\* Mutant: the timeout leaves the delay-based control running.
TimeoutKeepsSwift ==
    /\ congState' = "LOSS"
    /\ cc' = [cc EXCEPT !.ssThresh = GetSsThresh(cc), !.cWnd = SegSize]

\* ReTxTimeout; the window is one segment, the control is off.
Timeout ==
    /\ congState' = "LOSS"
    /\ cc' = [CongestionStateSet([cc EXCEPT !.ssThresh = GetSsThresh(cc)],
                                 "LOSS", 0) EXCEPT !.cWnd = SegSize]

\* A SYN+ACK that repeats the handshake (DoForwardUp, in every state).
RepeatedSynAck ==
    /\ cc' = [cc EXCEPT !.cWnd = InitialCwnd * SegSize,
                        !.ssThresh = InitialSsThresh]
    /\ UNCHANGED congState

Ack ==
    /\ cc.cWnd <= MaxCwnd
    /\ \E rtt \in Rtts, segs \in Segs, ack \in Seqs, nextTx \in Seqs, ttl \in Ttls :
          \/ AckWithoutAdvance(rtt, nextTx)
          \/ AckAdvances(rtt, segs, ack, nextTx, ttl)
          \/ DisorderResolved(rtt, segs, ack, nextTx, ttl)
          \/ RecoveryEnds(rtt, nextTx)
          \/ LossEnds(rtt, segs, ack, nextTx, ttl)

Next == Ack \/ Timeout \/ RepeatedSynAck

Spec == Init /\ [][Next]_vars

-----------------------------------------------------------------------------
(***************************************************************************)
(* Properties                                                              *)
(***************************************************************************)
\* The delay-based control runs in exactly the normal congestion state: a
\* cycle left running in Disorder, Recovery or Loss would count the delays of
\* retransmissions and move a window that loss recovery owns.
DoingIffOpen == cc.doing <=> congState = "OPEN"

\* A cycle that has counted a delay holds one: m_lastRtt is neither the
\* sentinel Time::Max () nor zero, and not below the base.  The AIMD step
\* divides by it when m_cntRtt exceeds 2; a count that outlived the reset of
\* m_lastRtt would make it divide by the sentinel.
MeasuredBeforeUse ==
    cc.cntRtt > 0 => /\ cc.lastRtt \in 1 .. TimeMax - 1
                     /\ cc.baseRtt \in 1 .. cc.lastRtt

\* The window never reaches zero, from which no ACK can come to open it again
\* and by which TcpNewReno::CongestionAvoidance would divide.
WindowAlive == cc.cWnd >= 1

\* In the normal state an ACK lowers the window only when Swift is entitled to:
\* more than two delays were counted in the cycle, the last one is not below
\* the target for some TTL, and at least a tenth of the window is left.
CutOnlyOnDelay ==
    [][ congState = "OPEN" /\ congState' = "OPEN" /\ cc'.cWnd < cc.cWnd
        => \/ RepeatedSynAck
           \/ /\ cc.cntRtt >= 2
              /\ \E ttl \in Ttls : cc'.lastRtt >= TargetDelay(cc', ttl)
              /\ cc'.cWnd >= cc.cWnd \div 10 ]_vars

\* Growth is capped while the window holds a segment: one ACK adds at most five
\* times Alpha segments ("SAFETY CAP: Prevent massive bursts"), or the two of
\* slow start and congestion avoidance.
GrowthCapped ==
    [][ cc.cWnd >= SegSize /\ ~RepeatedSynAck
        => cc'.cWnd <= cc.cWnd + Larger(2, 5 * Alpha) * SegSize
           \/ congState' = "RECOVERY" ]_vars

\* A loss never raises the threshold above the two segments that are its floor,
\* also when the window is below a segment and "cWnd - segmentSize" wraps round.
LossNeverRaisesThreshold ==
    [][ congState' \in {"RECOVERY", "LOSS"} /\ congState' # congState
        => cc'.ssThresh <= Larger(cc.ssThresh, 2 * SegSize) ]_vars
=============================================================================
