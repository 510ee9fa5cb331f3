------------------------------ MODULE TcpSwift ------------------------------
(***************************************************************************)
(* The congestion control TcpSwift (tcp-swift.cc) as operators on a record *)
(* cc: the TcpSwift object together with the fields of TcpSocketState it   *)
(* reads and writes.  Every method of the class is one operator that maps  *)
(* the record before the call to the record after it; the socket modules   *)
(* compose them in the order in which the socket calls them.               *)
(*                                                                         *)
(* Time is counted in ticks and the window in bytes.  The code computes in *)
(* doubles; here the same quotients are taken exactly and floored where    *)
(* the code casts to uint32_t.  The fields that are written and never read *)
(* (m_minRtt, retransmit_count) and m_canDecrease, which is TRUE whenever  *)
(* it is read, are left out.                                               *)
(***************************************************************************)
EXTENDS Integers

CONSTANTS
    SegSize,          \* m_segmentSize, bytes
    Alpha,            \* m_alpha, the additive increase in segments
    Beta,             \* m_beta, the decrease in tenths
    InitialCwnd,      \* m_initialCWnd, segments
    InitialSsThresh,  \* m_initialSsThresh, bytes
    UintMod,          \* 2^32: windows are uint32_t
    MicroSecond,      \* ticks in a microsecond
    Second,           \* ticks in a second
    TimeMax           \* Time::Max (): "no measurement yet"

ASSUME SegSizeAssumption == SegSize \in Nat /\ SegSize > 0
ASSUME AlphaBetaAssumption == Alpha \in Nat /\ Beta \in Nat
ASSUME InitialWindowAssumption ==
    /\ InitialCwnd \in Nat /\ InitialCwnd > 0
    /\ InitialSsThresh \in Nat
ASSUME UintAssumption ==
    /\ UintMod \in Nat
    /\ InitialSsThresh < UintMod
    /\ InitialCwnd * SegSize < UintMod
    /\ 2 * SegSize < UintMod
ASSUME ClockAssumption ==
    /\ MicroSecond \in Nat /\ MicroSecond > 0
    /\ Second \in Nat /\ 20 * MicroSecond < Second
    /\ TimeMax \in Nat /\ Second < TimeMax

Larger(a, b) == IF a >= b THEN a ELSE b
Smaller(a, b) == IF a <= b THEN a ELSE b

\* m_cntRtt is compared with 2 and nothing else: it saturates one above.
CntRttCap == 3

Windows == 0 .. UintMod - 1
Times == 0 .. TimeMax

\* m_maxPacingRate is told apart only as far as it matters: the configured
\* maximum, a rate that Swift computed, or a computed rate that is zero.
PacingRates == {"configured", "computed", "zero"}

SwiftState ==
    [ cWnd      : Windows,         \* tcb->m_cWnd
      ssThresh  : Windows,         \* tcb->m_ssThresh
      rate      : PacingRates,     \* tcb->m_maxPacingRate
      baseRtt   : Times,           \* m_baseRtt
      lastRtt   : Times,           \* m_lastRtt
      cntRtt    : 0 .. CntRttCap,  \* m_cntRtt
      doing     : BOOLEAN,         \* m_doingSwiftNow
      begSndNxt : Nat ]            \* m_begSndNxt

\* The constructor, and the window that DoForwardUp gives a socket whose SYN
\* is answered.
NewSwift ==
    [ cWnd      |-> InitialCwnd * SegSize,
      ssThresh  |-> InitialSsThresh,
      rate      |-> "configured",
      baseRtt   |-> TimeMax,
      lastRtt   |-> TimeMax,
      cntRtt    |-> 0,
      doing     |-> TRUE,
      begSndNxt |-> 0 ]

-----------------------------------------------------------------------------
(***************************************************************************)
(* Measurements and the cycle                                              *)
(***************************************************************************)
PktsAcked(cc, rtt) ==
    IF rtt = 0
    THEN cc
    ELSE [cc EXCEPT !.lastRtt = rtt,
                    !.baseRtt = Smaller(@, rtt),
                    !.cntRtt = Smaller(@ + 1, CntRttCap)]

\* Mutant: the new cycle keeps the count of the cycle that was abandoned.
EnableSwiftKeepsCount(cc, nextTx) ==
    [cc EXCEPT !.doing = TRUE, !.begSndNxt = nextTx, !.lastRtt = TimeMax]

EnableSwift(cc, nextTx) ==
    [cc EXCEPT !.doing = TRUE,
               !.begSndNxt = nextTx,
               !.cntRtt = 0,
               !.lastRtt = TimeMax]

DisableSwift(cc) == [cc EXCEPT !.doing = FALSE]

CongestionStateSet(cc, newState, nextTx) ==
    IF newState = "OPEN" THEN EnableSwift(cc, nextTx) ELSE DisableSwift(cc)

-----------------------------------------------------------------------------
(***************************************************************************)
(* The parent class TcpNewReno (outside the repository): one segment per   *)
(* acknowledgment in slow start, SegSize^2 / cWnd bytes after it.          *)
(***************************************************************************)
SlowStart(cc, segs) ==
    IF segs >= 1 THEN [cc EXCEPT !.cWnd = (@ + SegSize) % UintMod] ELSE cc

CongestionAvoidance(cc, segs) ==
    IF segs > 0
    THEN [cc EXCEPT !.cWnd =
             (@ + Larger(1, (SegSize * SegSize) \div @)) % UintMod]
    ELSE cc

NewRenoIncreaseWindow(cc, segs) ==
    LET slow == cc.cWnd < cc.ssThresh
        ss   == IF slow THEN SlowStart(cc, segs) ELSE cc
        left == IF slow THEN Larger(0, segs - 1) ELSE segs
    IN  IF ss.cWnd >= ss.ssThresh THEN CongestionAvoidance(ss, left) ELSE ss

-----------------------------------------------------------------------------
(***************************************************************************)
(* Target delay and the AIMD step                                          *)
(***************************************************************************)
HopCount(ttl) ==
    LET hops == 64 - (IF ttl = 0 THEN 64 ELSE ttl)
    IN  IF hops < 1 \/ hops > 64 THEN 1 ELSE hops

TargetDelay(cc, ttl) ==
    IF cc.baseRtt >= Second \/ cc.baseRtt <= 0
    THEN 20 * MicroSecond
    ELSE cc.baseRtt + HopCount(ttl) * 5 * MicroSecond

\* Mutant: the safety cap is gone.
DynamicAlphaUncapped(rtt, base) ==
    Larger(1, (Alpha * (rtt \div MicroSecond))
                  \div Larger(1, base \div MicroSecond))

\* dynamic_alpha: Alpha scaled by lastRtt / baseRtt, at most 5 times, at least
\* one segment.
DynamicAlpha(rtt, base) ==
    Larger(1, Smaller(5 * Alpha,
                      (Alpha * (rtt \div MicroSecond))
                          \div Larger(1, base \div MicroSecond)))

\* new_cwnd: cWnd times max(0.1, 1 - Beta/10 * (delay - target) / delay).
Reduced(cWnd, delay, target) ==
    Larger((cWnd * (10 * delay - Beta * (delay - target))) \div (10 * delay),
           cWnd \div 10)

\* Mutant: the cut may round down to a window of nothing.
AimdToZero(cc, ttl) ==
    LET target == TargetDelay(cc, ttl)
    IN  IF cc.lastRtt < target
        THEN [cc EXCEPT !.cWnd =
                 (@ + DynamicAlpha(cc.lastRtt, cc.baseRtt) * SegSize) % UintMod]
        ELSE [cc EXCEPT !.cWnd = Reduced(@, cc.lastRtt, target)]

\* Mutant: the decrease is a number of segments and nothing holds it at zero.
AimdSubtracts(cc, ttl) ==
    LET target == TargetDelay(cc, ttl)
    IN  IF cc.lastRtt < target
        THEN [cc EXCEPT !.cWnd =
                 (@ + DynamicAlpha(cc.lastRtt, cc.baseRtt) * SegSize) % UintMod]
        ELSE [cc EXCEPT !.cWnd = @ - Beta * SegSize]

Aimd(cc, ttl) ==
    LET target == TargetDelay(cc, ttl)
    IN  IF cc.lastRtt < target
        THEN [cc EXCEPT !.cWnd =
                 (@ + DynamicAlpha(cc.lastRtt, cc.baseRtt) * SegSize) % UintMod]
        ELSE [cc EXCEPT !.cWnd = Larger(1, Reduced(@, cc.lastRtt, target))]

\* The window at the end of a cycle in which more than two delays were measured.
AdjustWindow(cc, segs, ttl) ==
    LET adjusted == IF cc.cWnd < cc.ssThresh
                    THEN SlowStart(cc, segs) ELSE Aimd(cc, ttl)
    IN  [adjusted EXCEPT !.ssThresh =
            Larger(@, ((3 * adjusted.cWnd) % UintMod) \div 4)]

\* The "sub-one-packet pacing engine": cWnd * 8 / RTT in bits per second, cut
\* to an integer by DataRate.
SetPacingRate(cc) ==
    IF cc.lastRtt > 0
    THEN [cc EXCEPT !.rate = IF cc.cWnd * 8 * Second >= cc.lastRtt
                             THEN "computed" ELSE "zero"]
    ELSE cc

\* Mutant: two measurements are enough.
EndCycleEarly(cc, segs, nextTx, ttl) ==
    LET adjusted == IF cc.cntRtt <= 1
                    THEN NewRenoIncreaseWindow(cc, segs)
                    ELSE AdjustWindow(cc, segs, ttl)
    IN  [SetPacingRate(adjusted) EXCEPT !.begSndNxt = nextTx, !.cntRtt = 0]

EndCycle(cc, segs, nextTx, ttl) ==
    LET adjusted == IF cc.cntRtt <= 2
                    THEN NewRenoIncreaseWindow(cc, segs)
                    ELSE AdjustWindow(cc, segs, ttl)
    IN  [SetPacingRate(adjusted) EXCEPT !.begSndNxt = nextTx, !.cntRtt = 0]

IncreaseWindow(cc, segs, lastAckedSeq, nextTx, ttl) ==
    IF ~cc.doing
    THEN NewRenoIncreaseWindow(cc, segs)
    ELSE IF lastAckedSeq >= cc.begSndNxt
         THEN EndCycle(cc, segs, nextTx, ttl)
         ELSE IF cc.cWnd < cc.ssThresh THEN SlowStart(cc, segs) ELSE cc

\* Mutant: the larger of threshold and window is kept.
GetSsThreshLarger(cc) ==
    Larger(Larger(cc.ssThresh, (cc.cWnd - SegSize) % UintMod), 2 * SegSize)

\* The subtraction is in uint32_t: below one segment it wraps.
GetSsThresh(cc) ==
    Larger(Smaller(cc.ssThresh, (cc.cWnd - SegSize) % UintMod), 2 * SegSize)
=============================================================================
