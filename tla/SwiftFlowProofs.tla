-------------------------- MODULE SwiftFlowProofs ---------------------------
(***************************************************************************)
(* Proofs about SwiftFlow, for every value of its constants.               *)
(*                                                                         *)
(* The type invariant is not inductive: an AIMD step is typed only because *)
(* the delay it divides by was measured, and the base delay it compares    *)
(* with is never zero.  IInv joins what is needed.  Each method of TcpSwift *)
(* has a lemma: it preserves Sound and moves the window by no more than it *)
(* may; the step of the invariant cites them in the order of the calls.    *)
(***************************************************************************)
EXTENDS SwiftFlow, TLAPS

\* What holds of the congestion control between any two calls of its methods.
Sound(c) ==
    /\ c \in SwiftState
    /\ c.cWnd >= 1
    /\ c.baseRtt >= 1
    /\ c.cntRtt > 0 => /\ c.lastRtt \in 1 .. TimeMax - 1
                       /\ c.baseRtt <= c.lastRtt

\* c fits the congestion state st.
Consistent(c, st) ==
    /\ c \in SwiftState /\ Sound(c)
    /\ st \in CongStates
    /\ c.doing <=> st = "OPEN"

\* The inductive invariant.
IInv == Consistent(cc, congState)

-----------------------------------------------------------------------------
(***************************************************************************)
(* Arithmetic                                                              *)
(***************************************************************************)
\* A quotient of naturals is a natural not above the dividend.
LEMMA DivisionBound ==
    \A a \in Nat, b \in Nat : b > 0 => a \div b \in 0 .. a
  OBVIOUS

\* What \div is for any integer and a positive divisor.
LEMMA Division ==
    \A a \in Int, b \in Nat :
       b > 0 => /\ a \div b \in Int
                /\ b * (a \div b) <= a
                /\ a < b * (a \div b) + b
  OBVIOUS

\* Taking a share of at most the whole of a window does not raise it.
LEMMA ShareBound ==
    ASSUME NEW w \in Nat, NEW n \in Int, NEW d \in Nat, d > 0, n <= d
    PROVE  (w * n) \div d \in Int /\ (w * n) \div d <= w
  <1>1. w * n \in Int /\ w * n <= w * d
    OBVIOUS
  <1> DEFINE q == (w * n) \div d
  <1>2. q \in Int /\ d * q <= w * n
    BY <1>1, Division
  <1>3. d * q <= d * w
    BY <1>1, <1>2
  <1>4. q <= w
    <2> SUFFICES ASSUME q > w PROVE FALSE
      BY <1>2
    <2>1. d * (q - w) > 0
      BY <1>2
    <2>2. d * (q - w) = d * q - d * w
      BY <1>2
    <2> QED
      BY <2>1, <2>2, <1>2, <1>3
  <1> QED
    BY <1>2, <1>4

\* Every sum or difference cut to uint32_t is a window.
LEMMA ModuloType == \A x \in Int : x % UintMod \in Windows
  BY UintAssumption, SegSizeAssumption DEF Windows

\* A window that fits uint32_t is not changed by the cut.
LEMMA ModuloSame == \A x \in Windows : x % UintMod = x
  BY UintAssumption DEF Windows

-----------------------------------------------------------------------------
(***************************************************************************)
(* The methods of TcpSwift                                                 *)
(***************************************************************************)
\* The constructor and the first window give a sound, running control.
LEMMA NewSwiftSound == Sound(NewSwift) /\ NewSwift.doing
  <1>1. InitialCwnd * SegSize \in Nat /\ InitialCwnd * SegSize >= 1
    BY InitialWindowAssumption, SegSizeAssumption
  <1> QED
    BY <1>1, InitialWindowAssumption, UintAssumption, ClockAssumption
    DEF NewSwift, Sound, SwiftState, Windows, Times, PacingRates, CntRttCap

\* PktsAcked keeps a record sound: a positive count comes with a delay.
LEMMA PktsAckedSound ==
    ASSUME NEW c \in SwiftState, Sound(c), NEW rtt \in 0 .. TimeMax - 1
    PROVE  /\ Sound(PktsAcked(c, rtt))
           /\ PktsAcked(c, rtt).doing = c.doing
           /\ PktsAcked(c, rtt).cWnd = c.cWnd
           /\ PktsAcked(c, rtt).ssThresh = c.ssThresh
  <1>1. CASE rtt = 0
    BY <1>1 DEF PktsAcked
  <1>2. CASE rtt # 0
    <2> DEFINE b == Smaller(c.baseRtt, rtt)
               n == Smaller(c.cntRtt + 1, CntRttCap)
               d == [c EXCEPT !.lastRtt = rtt, !.baseRtt = b, !.cntRtt = n]
    <2>1. c.baseRtt \in Times /\ c.cntRtt \in 0 .. CntRttCap
      BY DEF SwiftState
    <2>2. /\ rtt \in Times /\ b \in Times /\ n \in 0 .. CntRttCap
          /\ rtt >= 1 /\ rtt <= TimeMax - 1 /\ b >= 1 /\ b <= rtt
      BY <1>2, <2>1, ClockAssumption DEF Times, Smaller, CntRttCap, Sound
    <2> HIDE DEF b, n
    <2>3. /\ d \in SwiftState
          /\ d.lastRtt = rtt /\ d.baseRtt = b /\ d.cntRtt = n
          /\ d.doing = c.doing /\ d.cWnd = c.cWnd /\ d.ssThresh = c.ssThresh
      BY <2>2, Zenon DEF SwiftState
    <2>4. PktsAcked(c, rtt) = d
      BY <1>2, Zenon DEF PktsAcked, b, n
    <2> HIDE DEF d
    <2>5. Sound(d)
      BY <2>2, <2>3, ClockAssumption DEF Sound
    <2> QED
      BY <2>3, <2>4, <2>5
  <1> QED
    BY <1>1, <1>2

\* The fields EnableSwift leaves; the count falls with the delay.
LEMMA EnabledFields ==
    ASSUME NEW c \in SwiftState, NEW m \in Nat
    PROVE  LET d == EnableSwift(c, m)
           IN  /\ d \in SwiftState
               /\ d.doing = TRUE /\ d.cntRtt = 0 /\ d.baseRtt = c.baseRtt
               /\ d.cWnd = c.cWnd /\ d.ssThresh = c.ssThresh
  <1>1. TimeMax \in Times /\ 0 \in 0 .. CntRttCap
    BY ClockAssumption DEF Times, CntRttCap
  <1> QED
    BY <1>1, Zenon DEF EnableSwift, SwiftState

\* CongestionStateSet runs the control in Open only and keeps the window.
LEMMA CongestionStateSetSound ==
    ASSUME NEW c \in SwiftState, Sound(c), NEW st, NEW nextTx \in Nat
    PROVE  /\ Sound(CongestionStateSet(c, st, nextTx))
           /\ CongestionStateSet(c, st, nextTx).doing <=> st = "OPEN"
           /\ CongestionStateSet(c, st, nextTx).cWnd = c.cWnd
           /\ CongestionStateSet(c, st, nextTx).ssThresh = c.ssThresh
  <1>1. CASE st = "OPEN"
    <2> DEFINE d == EnableSwift(c, nextTx)
    <2>1. /\ d \in SwiftState
          /\ d.doing = TRUE /\ d.cntRtt = 0 /\ d.baseRtt = c.baseRtt
          /\ d.cWnd = c.cWnd /\ d.ssThresh = c.ssThresh
      BY EnabledFields
    <2>2. CongestionStateSet(c, st, nextTx) = d
      BY <1>1 DEF CongestionStateSet
    <2> HIDE DEF d
    <2>3. Sound(d)
      BY <2>1 DEF Sound
    <2> QED
      BY <1>1, <2>1, <2>2, <2>3
  <1>2. CASE st # "OPEN"
    <2> DEFINE d == [c EXCEPT !.doing = FALSE]
    <2>1. /\ d \in SwiftState /\ d.doing = FALSE
          /\ d.cWnd = c.cWnd /\ d.ssThresh = c.ssThresh
          /\ d.baseRtt = c.baseRtt /\ d.lastRtt = c.lastRtt
          /\ d.cntRtt = c.cntRtt
      BY Zenon DEF SwiftState
    <2>2. CongestionStateSet(c, st, nextTx) = d
      BY <1>2 DEF CongestionStateSet, DisableSwift
    <2> HIDE DEF d
    <2>3. Sound(d)
      BY <2>1 DEF Sound
    <2> QED
      BY <1>2, <2>1, <2>2, <2>3
  <1> QED
    BY <1>1, <1>2

\* The fields a change of the window leaves alone.
SameFlow(c, d) ==
    /\ d.baseRtt = c.baseRtt /\ d.lastRtt = c.lastRtt
    /\ d.cntRtt = c.cntRtt /\ d.doing = c.doing

\* c becomes d with the window w; NewThreshold is the same for ssThresh.
NewWindow(c, d, w) ==
    /\ d \in SwiftState /\ Sound(d) /\ SameFlow(c, d)
    /\ d.cWnd = w /\ d.ssThresh = c.ssThresh

\* Any positive window keeps a record sound.
LEMMA NewWindowSound ==
    ASSUME NEW c \in SwiftState, Sound(c), NEW w \in Windows, w >= 1
    PROVE  NewWindow(c, [c EXCEPT !.cWnd = w], w)
  <1> DEFINE d == [c EXCEPT !.cWnd = w]
  <1>1. d \in SwiftState /\ SameFlow(c, d) /\ d.cWnd = w /\ d.ssThresh = c.ssThresh
    BY Zenon DEF SwiftState, SameFlow
  <1> HIDE DEF d
  <1>2. Sound(d)
    BY <1>1 DEF Sound, SameFlow
  <1>3. NewWindow(c, d, w)
    BY <1>1, <1>2 DEF NewWindow
  <1> QED
    BY <1>3 DEF d

\* Any threshold keeps a record sound.
LEMMA NewThresholdSound ==
    ASSUME NEW c \in SwiftState, Sound(c), NEW t \in Windows
    PROVE  LET d == [c EXCEPT !.ssThresh = t]
           IN  /\ d \in SwiftState /\ Sound(d) /\ SameFlow(c, d)
               /\ d.cWnd = c.cWnd /\ d.ssThresh = t
  <1> DEFINE d == [c EXCEPT !.ssThresh = t]
  <1>1. d \in SwiftState /\ SameFlow(c, d) /\ d.cWnd = c.cWnd /\ d.ssThresh = t
    BY Zenon DEF SwiftState, SameFlow
  <1> HIDE DEF d
  <1>2. Sound(d)
    BY <1>1 DEF Sound, SameFlow
  <1> QED
    BY <1>1, <1>2 DEF d

\* c becomes d: the window grows by at most k and nothing else changes.
Grown(c, d, k) ==
    /\ d \in SwiftState /\ Sound(d) /\ SameFlow(c, d)
    /\ d.ssThresh = c.ssThresh
    /\ d.cWnd \in c.cWnd .. c.cWnd + k

\* Growth that does not wrap around.
LEMMA GrownByAdding ==
    ASSUME NEW c \in SwiftState, Sound(c), NEW n \in Nat, NEW k \in Nat,
           n <= k, c.cWnd + n < UintMod
    PROVE  Grown(c, [c EXCEPT !.cWnd = (@ + n) % UintMod], k)
  <1> DEFINE w == (c.cWnd + n) % UintMod
             d == [c EXCEPT !.cWnd = w]
  <1>1. c.cWnd \in Windows /\ c.cWnd \in Nat /\ c.cWnd >= 1
    BY UintAssumption DEF SwiftState, Windows, Sound
  <1>2. c.cWnd + n \in Windows
    BY <1>1, UintAssumption DEF Windows
  <1>3. w = c.cWnd + n
    BY <1>2, ModuloSame
  <1>4. w \in Windows /\ w >= 1
    BY <1>1, <1>2, <1>3
  <1> HIDE DEF w
  <1>5. NewWindow(c, d, w)
    BY <1>4, NewWindowSound
  <1> HIDE DEF d
  <1>6. Grown(c, d, k)
    BY <1>1, <1>3, <1>5 DEF NewWindow, Grown
  <1> QED
    BY <1>6 DEF d, w

\* What one segment or SegSize^2 adds to a window of MaxCwnd still fits.
LEMMA SegmentRoom ==
    /\ SegSize \in Nat /\ SegSize >= 1
    /\ SegSize * SegSize \in Nat /\ SegSize <= SegSize * SegSize
    /\ MaxCwnd \in Nat
    /\ MaxCwnd + SegSize < UintMod
    /\ MaxCwnd + SegSize + SegSize * SegSize < UintMod
  <1>1. SegSize \in Nat /\ SegSize >= 1 /\ Alpha \in Nat
    BY SegSizeAssumption, AlphaBetaAssumption
  <1>2. SegSize * SegSize \in Nat /\ SegSize <= SegSize * SegSize
    BY <1>1
  <1>3. (5 * Alpha + 2) * SegSize \in Nat /\ (5 * Alpha + 2) * SegSize >= SegSize
    BY <1>1
  <1> QED
    BY <1>1, <1>2, <1>3, BoundAssumption, UintAssumption

\* SlowStart adds at most one segment.
LEMMA SlowStartSound ==
    ASSUME NEW c \in SwiftState, Sound(c), c.cWnd <= MaxCwnd, NEW segs \in Nat
    PROVE  Grown(c, SlowStart(c, segs), SegSize)
  <1>1. c.cWnd \in Nat
    BY UintAssumption DEF SwiftState, Windows
  <1>2. CASE segs >= 1
    <2>1. c.cWnd + SegSize < UintMod
      BY <1>1, SegmentRoom, UintAssumption
    <2>2. Grown(c, [c EXCEPT !.cWnd = (@ + SegSize) % UintMod], SegSize)
      BY <2>1, SegmentRoom, GrownByAdding
    <2> QED
      BY <1>2, <2>2 DEF SlowStart
  <1>3. CASE ~(segs >= 1)
    BY <1>1, <1>3, SegmentRoom DEF SlowStart, Grown, SameFlow
  <1> QED
    BY <1>2, <1>3

\* CongestionAvoidance adds at most SegSize^2 bytes, at a window of one.
LEMMA CongestionAvoidanceSound ==
    ASSUME NEW c \in SwiftState, Sound(c), c.cWnd <= MaxCwnd + SegSize,
           NEW segs \in Nat
    PROVE  Grown(c, CongestionAvoidance(c, segs), SegSize * SegSize)
  <1> DEFINE n == Larger(1, (SegSize * SegSize) \div c.cWnd)
  <1>1. c.cWnd \in Nat /\ c.cWnd > 0
    BY UintAssumption DEF SwiftState, Windows, Sound
  <1>2. n \in Nat /\ n <= SegSize * SegSize
    BY <1>1, SegmentRoom, DivisionBound DEF Larger
  <1>3. CASE segs > 0
    <2>1. c.cWnd + n < UintMod
      BY <1>1, <1>2, SegmentRoom, UintAssumption
    <2> HIDE DEF n
    <2>2. Grown(c, [c EXCEPT !.cWnd = (@ + n) % UintMod], SegSize * SegSize)
      BY <1>2, <2>1, SegmentRoom, GrownByAdding
    <2> QED
      BY <1>3, <2>2 DEF CongestionAvoidance, n
  <1>4. CASE ~(segs > 0)
    BY <1>1, <1>4, SegmentRoom DEF CongestionAvoidance, Grown, SameFlow
  <1> QED
    BY <1>3, <1>4

\* The increase of the parent class is one of each.
LEMMA NewRenoSound ==
    ASSUME NEW c \in SwiftState, Sound(c), c.cWnd <= MaxCwnd, NEW segs \in Nat
    PROVE  Grown(c, NewRenoIncreaseWindow(c, segs), SegSize + SegSize * SegSize)
  <1> DEFINE slow == c.cWnd < c.ssThresh
             ss   == IF slow THEN SlowStart(c, segs) ELSE c
             left == IF slow THEN Larger(0, segs - 1) ELSE segs
             ca   == CongestionAvoidance(ss, left)
  <1>1. c.cWnd \in Nat
    BY UintAssumption DEF SwiftState, Windows
  <1>2. Grown(c, ss, SegSize)
    BY <1>1, SlowStartSound, SegmentRoom DEF Grown, SameFlow
  <1>3. left \in Nat
    BY DEF Larger
  <1>4. NewRenoIncreaseWindow(c, segs) = IF ss.cWnd >= ss.ssThresh THEN ca ELSE ss
    BY DEF NewRenoIncreaseWindow
  <1> HIDE DEF ss, left
  <1>5. /\ ss \in SwiftState /\ Sound(ss) /\ ss.cWnd \in Nat
        /\ ss.cWnd <= MaxCwnd + SegSize
    BY <1>1, <1>2, SegmentRoom DEF Grown
  <1>6. Grown(ss, ca, SegSize * SegSize)
    BY <1>3, <1>5, CongestionAvoidanceSound
  <1> HIDE DEF ca
  <1>7. Grown(c, ca, SegSize + SegSize * SegSize)
    BY <1>1, <1>2, <1>5, <1>6, SegmentRoom DEF Grown, SameFlow
  <1>8. Grown(c, ss, SegSize + SegSize * SegSize)
    BY <1>1, <1>2, <1>5, SegmentRoom DEF Grown
  <1> QED
    BY <1>4, <1>7, <1>8

\* TargetDelay is a number of ticks.
LEMMA TargetDelayType ==
    ASSUME NEW c \in SwiftState, NEW ttl \in 0 .. 255
    PROVE  TargetDelay(c, ttl) \in Int
  <1>1. c.baseRtt \in Int /\ MicroSecond \in Int
    BY ClockAssumption DEF SwiftState, Times
  <1>2. HopCount(ttl) \in Int
    BY DEF HopCount
  <1> QED
    BY <1>1, <1>2 DEF TargetDelay

\* The safety cap: at most five times Alpha, or one segment.
LEMMA DynamicAlphaBound ==
    ASSUME NEW rtt \in Nat, NEW base \in Nat
    PROVE  /\ DynamicAlpha(rtt, base) \in Nat
           /\ DynamicAlpha(rtt, base) <= 5 * Alpha + 1
  <1> DEFINE r == rtt \div MicroSecond
             b == Larger(1, base \div MicroSecond)
             q == (Alpha * r) \div b
  <1>1. r \in Nat /\ b \in Nat /\ b > 0
    BY ClockAssumption, DivisionBound DEF Larger
  <1>2. Alpha * r \in Nat
    BY <1>1, AlphaBetaAssumption
  <1> HIDE DEF r, b
  <1>3. q \in Nat
    BY <1>1, <1>2, DivisionBound
  <1> HIDE DEF q
  <1>4. DynamicAlpha(rtt, base) = Larger(1, Smaller(5 * Alpha, q))
    BY DEF DynamicAlpha, q, r, b
  <1> QED
    BY <1>3, <1>4, AlphaBetaAssumption DEF Larger, Smaller

\* A cut at a delay that is not below the target leaves no more than there was.
LEMMA ReducedBound ==
    ASSUME NEW w \in Nat, NEW delay \in Nat, delay >= 1, NEW target \in Int,
           delay >= target
    PROVE  Reduced(w, delay, target) \in Int /\ Reduced(w, delay, target) <= w
  <1> DEFINE n == 10 * delay - Beta * (delay - target)
             d == 10 * delay
  <1>1. Beta * (delay - target) \in Nat
    BY AlphaBetaAssumption
  <1>2. n \in Int /\ d \in Nat /\ d > 0 /\ n <= d
    BY <1>1
  <1> HIDE DEF n, d
  <1>3. (w * n) \div d \in Int /\ (w * n) \div d <= w
    BY <1>2, ShareBound
  <1>4. w \div 10 \in 0 .. w
    BY DivisionBound
  <1>5. Reduced(w, delay, target) = Larger((w * n) \div d, w \div 10)
    BY DEF Reduced, n, d
  <1> QED
    BY <1>3, <1>4, <1>5 DEF Larger

\* The AIMD step may divide: it is taken after more than two measurements.
LEMMA AimdSound ==
    ASSUME NEW c \in SwiftState, Sound(c), c.cWnd <= MaxCwnd, c.cntRtt > 0,
           NEW ttl \in 0 .. 255
    PROVE  NewWindow(c, Aimd(c, ttl), Aimd(c, ttl).cWnd)
  <1> DEFINE target == TargetDelay(c, ttl)
             da     == DynamicAlpha(c.lastRtt, c.baseRtt)
             more   == da * SegSize
             less   == Larger(1, Reduced(c.cWnd, c.lastRtt, target))
  <1>1. /\ c.cWnd \in Nat /\ c.cWnd >= 1 /\ c.cWnd < UintMod
        /\ c.lastRtt \in Nat /\ c.lastRtt >= 1 /\ c.baseRtt \in Nat
    BY UintAssumption, ClockAssumption DEF SwiftState, Windows, Times, Sound
  <1>2. target \in Int
    BY TargetDelayType
  <1> HIDE DEF target
  <1>3. CASE c.lastRtt < target
    <2>1. da \in Nat /\ da <= 5 * Alpha + 1
      BY <1>1, DynamicAlphaBound
    <2> HIDE DEF da
    <2>2. more \in Nat /\ more <= (5 * Alpha + 2) * SegSize
      BY <2>1, AlphaBetaAssumption, SegSizeAssumption
    <2> HIDE DEF more
    <2>3. c.cWnd + more < UintMod
      <3>1. (5 * Alpha + 2) * SegSize \in Nat /\ SegSize * SegSize \in Nat
        BY AlphaBetaAssumption, SegSizeAssumption
      <3> QED
        BY <1>1, <2>2, <3>1, BoundAssumption, UintAssumption
    <2> DEFINE d == [c EXCEPT !.cWnd = (@ + more) % UintMod]
    <2>4. Grown(c, d, more)
      BY <2>2, <2>3, GrownByAdding
    <2>5. Aimd(c, ttl) = d
      BY <1>3, Zenon DEF Aimd, more, da, target
    <2> HIDE DEF d
    <2> QED
      BY <2>4, <2>5 DEF Grown, NewWindow
  <1>4. CASE ~(c.lastRtt < target)
    <2> DEFINE r == Reduced(c.cWnd, c.lastRtt, target)
    <2>0. r \in Int /\ r <= c.cWnd
      <3>1. c.lastRtt >= target
        BY <1>1, <1>2, <1>4
      <3> QED
        BY <1>1, <1>2, <3>1, ReducedBound
    <2>1. less \in Windows /\ less >= 1
      <3> HIDE DEF r
      <3>1. less = Larger(1, r)
        BY DEF r
      <3> QED
        BY <1>1, <2>0, <3>1, UintAssumption DEF Larger, Windows
    <2> HIDE DEF less
    <2> DEFINE d == [c EXCEPT !.cWnd = less]
    <2>2. NewWindow(c, d, less)
      BY <2>1, NewWindowSound
    <2>3. Aimd(c, ttl) = d
      BY <1>4, Zenon DEF Aimd, less, target
    <2> HIDE DEF d
    <2> QED
      BY <2>2, <2>3 DEF NewWindow
  <1> QED
    BY <1>3, <1>4

\* What a method owes its caller: a sound record and the same m_doingSwiftNow.
Keeps(c, d) == d \in SwiftState /\ Sound(d) /\ d.doing = c.doing

\* The step at the end of a measured cycle keeps a record sound.
LEMMA AdjustWindowSound ==
    ASSUME NEW c \in SwiftState, Sound(c), c.cWnd <= MaxCwnd, c.cntRtt > 0,
           NEW segs \in Nat, NEW ttl \in 0 .. 255
    PROVE  Keeps(c, AdjustWindow(c, segs, ttl))
  <1> DEFINE a == IF c.cWnd < c.ssThresh THEN SlowStart(c, segs) ELSE Aimd(c, ttl)
             t == Larger(a.ssThresh, ((3 * a.cWnd) % UintMod) \div 4)
             d == [a EXCEPT !.ssThresh = t]
  <1>1. Keeps(c, a)
    BY SlowStartSound, AimdSound DEF Grown, NewWindow, SameFlow, Keeps
  <1>2. AdjustWindow(c, segs, ttl) = d
    BY Zenon DEF AdjustWindow
  <1> HIDE DEF a
  <1>3. a \in SwiftState /\ Sound(a) /\ a.cWnd \in Nat /\ a.ssThresh \in Windows
    BY <1>1, UintAssumption DEF Keeps, SwiftState, Windows
  <1>4. t \in Windows
    <2>1. (3 * a.cWnd) % UintMod \in Windows
      BY <1>3, ModuloType
    <2>2. ((3 * a.cWnd) % UintMod) \div 4 \in Windows
      BY <2>1, DivisionBound, UintAssumption DEF Windows
    <2> QED
      BY <1>3, <2>2 DEF Larger
  <1> HIDE DEF t
  <1>5. d \in SwiftState /\ Sound(d) /\ SameFlow(a, d)
    BY <1>3, <1>4, NewThresholdSound
  <1> HIDE DEF d
  <1> QED
    BY <1>1, <1>2, <1>5 DEF Keeps, SameFlow

\* The pacing rate is of no account to the window.
LEMMA SetPacingRateSound ==
    ASSUME NEW c \in SwiftState, Sound(c)
    PROVE  Keeps(c, SetPacingRate(c))
  <1>1. CASE c.lastRtt > 0
    <2> DEFINE r == IF c.cWnd * 8 * Second >= c.lastRtt
                    THEN "computed" ELSE "zero"
               d == [c EXCEPT !.rate = r]
    <2>1. r \in PacingRates
      BY DEF PacingRates
    <2> HIDE DEF r
    <2>2. /\ d \in SwiftState /\ d.doing = c.doing /\ d.cWnd = c.cWnd
          /\ d.baseRtt = c.baseRtt /\ d.lastRtt = c.lastRtt
          /\ d.cntRtt = c.cntRtt
      BY <2>1, Zenon DEF SwiftState
    <2>3. SetPacingRate(c) = d
      BY <1>1 DEF SetPacingRate, r
    <2> HIDE DEF d
    <2> QED
      BY <2>2, <2>3 DEF Keeps, Sound
  <1>2. CASE ~(c.lastRtt > 0)
    BY <1>2 DEF SetPacingRate, Keeps
  <1> QED
    BY <1>1, <1>2

\* The end of a cycle, measured or not, keeps a record sound.
LEMMA EndCycleSound ==
    ASSUME NEW c \in SwiftState, Sound(c), c.cWnd <= MaxCwnd,
           NEW segs \in Nat, NEW nextTx \in Nat, NEW ttl \in 0 .. 255
    PROVE  Keeps(c, EndCycle(c, segs, nextTx, ttl))
  <1> DEFINE a == IF c.cntRtt <= 2 THEN NewRenoIncreaseWindow(c, segs)
                                   ELSE AdjustWindow(c, segs, ttl)
             p == SetPacingRate(a)
             d == [p EXCEPT !.begSndNxt = nextTx, !.cntRtt = 0]
  <1>1. Keeps(c, a)
    <2>1. CASE c.cntRtt <= 2
      BY <2>1, NewRenoSound DEF Grown, SameFlow, Keeps
    <2>2. CASE ~(c.cntRtt <= 2)
      <3>1. c.cntRtt > 0
        BY <2>2 DEF SwiftState, CntRttCap
      <3> QED
        BY <2>2, <3>1, AdjustWindowSound
    <2> QED
      BY <2>1, <2>2
  <1>2. EndCycle(c, segs, nextTx, ttl) = d
    BY Zenon DEF EndCycle
  <1> HIDE DEF a
  <1>3. p \in SwiftState /\ Sound(p) /\ p.doing = c.doing
    BY <1>1, SetPacingRateSound DEF Keeps
  <1> HIDE DEF p
  <1>4. 0 \in 0 .. CntRttCap
    BY DEF CntRttCap
  <1>5. /\ d \in SwiftState /\ d.doing = p.doing /\ d.cWnd = p.cWnd
        /\ d.baseRtt = p.baseRtt /\ d.cntRtt = 0
    BY <1>3, <1>4, Zenon DEF SwiftState
  <1> HIDE DEF d
  <1>6. Sound(d)
    BY <1>3, <1>5 DEF Sound
  <1> QED
    BY <1>2, <1>3, <1>5, <1>6 DEF Keeps

\* IncreaseWindow keeps a record sound, whichever of its branches it takes.
LEMMA IncreaseWindowSound ==
    ASSUME NEW c \in SwiftState, Sound(c), c.cWnd <= MaxCwnd,
           NEW segs \in Nat, NEW ack \in Nat, NEW nextTx \in Nat,
           NEW ttl \in 0 .. 255
    PROVE  Keeps(c, IncreaseWindow(c, segs, ack, nextTx, ttl))
  <1>1. Keeps(c, NewRenoIncreaseWindow(c, segs))
    BY NewRenoSound DEF Grown, SameFlow, Keeps
  <1>2. Keeps(c, EndCycle(c, segs, nextTx, ttl))
    BY EndCycleSound
  <1>3. Keeps(c, SlowStart(c, segs))
    BY SlowStartSound DEF Grown, SameFlow, Keeps
  <1>4. Keeps(c, c)
    BY DEF Keeps
  <1> QED
    BY <1>1, <1>2, <1>3, <1>4 DEF IncreaseWindow

\* GetSsThresh is a window of two segments at least.
LEMMA GetSsThreshType ==
    ASSUME NEW c \in SwiftState
    PROVE  GetSsThresh(c) \in Windows /\ GetSsThresh(c) >= 2 * SegSize
  <1>1. c.cWnd \in Int /\ c.ssThresh \in Windows /\ SegSize \in Nat
    BY SegSizeAssumption, UintAssumption DEF SwiftState, Windows
  <1> DEFINE m == (c.cWnd - SegSize) % UintMod
  <1>2. m \in Windows
    BY <1>1, ModuloType
  <1> HIDE DEF m
  <1>3. GetSsThresh(c) = Larger(Smaller(c.ssThresh, m), 2 * SegSize)
    BY DEF GetSsThresh, m
  <1>4. 2 * SegSize \in Windows
    BY <1>1, UintAssumption DEF Windows
  <1> QED
    BY <1>1, <1>2, <1>3, <1>4, UintAssumption DEF Larger, Smaller, Windows

\* GetSsThresh does not exceed the old threshold or two segments.
LEMMA GetSsThreshBound ==
    ASSUME NEW c \in SwiftState
    PROVE  GetSsThresh(c) <= Larger(c.ssThresh, 2 * SegSize)
  <1>1. c.cWnd \in Int /\ c.ssThresh \in Int /\ SegSize \in Nat
    BY SegSizeAssumption, UintAssumption DEF SwiftState, Windows
  <1> DEFINE m == (c.cWnd - SegSize) % UintMod
  <1>2. m \in Int
    BY <1>1, ModuloType, UintAssumption DEF Windows
  <1> HIDE DEF m
  <1>3. GetSsThresh(c) = Larger(Smaller(c.ssThresh, m), 2 * SegSize)
    BY DEF GetSsThresh, m
  <1> QED
    BY <1>1, <1>2, <1>3 DEF Larger, Smaller

-----------------------------------------------------------------------------
(***************************************************************************)
(* The calls of the socket                                                 *)
(***************************************************************************)
\* PktsAcked keeps the record fitting the congestion state.
LEMMA MeasuredConsistent ==
    ASSUME NEW c, NEW st, Consistent(c, st), NEW rtt \in Rtts
    PROVE  /\ Consistent(PktsAcked(c, rtt), st)
           /\ PktsAcked(c, rtt).cWnd = c.cWnd
           /\ PktsAcked(c, rtt).ssThresh = c.ssThresh
  <1>1. c \in SwiftState /\ Sound(c) /\ rtt \in 0 .. TimeMax - 1
    BY RttAssumption DEF Consistent
  <1> DEFINE d == PktsAcked(c, rtt)
  <1>2. Sound(d) /\ d.doing = c.doing /\ d.cWnd = c.cWnd /\ d.ssThresh = c.ssThresh
    BY <1>1, PktsAckedSound
  <1> HIDE DEF d
  <1>3. Consistent(d, st)
    BY <1>2 DEF Consistent, Sound
  <1> QED
    BY <1>2, <1>3 DEF d

\* After CongestionStateSet the record fits the new congestion state.
LEMMA StateSetConsistent ==
    ASSUME NEW c \in SwiftState, Sound(c), NEW st \in CongStates,
           NEW nextTx \in Nat
    PROVE  /\ Consistent(CongestionStateSet(c, st, nextTx), st)
           /\ CongestionStateSet(c, st, nextTx).cWnd = c.cWnd
           /\ CongestionStateSet(c, st, nextTx).ssThresh = c.ssThresh
  <1> DEFINE d == CongestionStateSet(c, st, nextTx)
  <1>1. /\ Sound(d) /\ (d.doing <=> st = "OPEN")
        /\ d.cWnd = c.cWnd /\ d.ssThresh = c.ssThresh
    BY CongestionStateSetSound
  <1> HIDE DEF d
  <1>2. Consistent(d, st)
    BY <1>1 DEF Consistent, Sound
  <1> QED
    BY <1>1, <1>2 DEF d

\* IncreaseWindow keeps the record fitting the congestion state.
LEMMA IncreaseConsistent ==
    ASSUME NEW c, NEW st, Consistent(c, st), c.cWnd <= MaxCwnd,
           NEW segs \in Segs, NEW ack \in Seqs, NEW nextTx \in Seqs, NEW ttl \in Ttls
    PROVE  Consistent(IncreaseWindow(c, segs, ack, nextTx, ttl), st)
  <1>1. /\ c \in SwiftState /\ Sound(c) /\ segs \in Nat /\ ack \in Nat
        /\ nextTx \in Nat /\ ttl \in 0 .. 255
    BY SeqAssumption, TtlAssumption DEF Consistent
  <1> DEFINE d == IncreaseWindow(c, segs, ack, nextTx, ttl)
  <1>2. Keeps(c, d)
    BY <1>1, IncreaseWindowSound DEF Consistent
  <1> HIDE DEF d
  <1>3. Consistent(d, st)
    BY <1>2 DEF Consistent, Keeps
  <1> QED
    BY <1>3 DEF d

\* A record with the threshold of a loss, and a window of at least one byte.
LossWindow(c, t, w) == [c EXCEPT !.ssThresh = t, !.cWnd = w]

\* Setting threshold and window together keeps the record fitting.
LEMMA LossWindowConsistent ==
    ASSUME NEW c, NEW st, Consistent(c, st),
           NEW t \in Windows, NEW w \in Windows, w >= 1
    PROVE  /\ Consistent(LossWindow(c, t, w), st)
           /\ LossWindow(c, t, w).ssThresh = t
           /\ LossWindow(c, t, w).cWnd = w
  <1> DEFINE d == LossWindow(c, t, w)
  <1>1. c \in SwiftState
    BY DEF Consistent
  <1>2. /\ d \in SwiftState /\ d.ssThresh = t /\ d.cWnd = w
        /\ d.baseRtt = c.baseRtt /\ d.lastRtt = c.lastRtt
        /\ d.cntRtt = c.cntRtt /\ d.doing = c.doing
    BY <1>1, Zenon DEF SwiftState, LossWindow
  <1> HIDE DEF d
  <1>3. Consistent(d, st)
    BY <1>2 DEF Consistent, Sound
  <1> QED
    BY <1>2, <1>3 DEF d

\* The calls of EnterRecovery leave a record that fits Recovery.
LEMMA FastRecoveryConsistent ==
    ASSUME NEW c \in SwiftState, Sound(c), NEW nextTx \in Nat
    PROVE  /\ Consistent(FastRecovery(c, nextTx), "RECOVERY")
           /\ FastRecovery(c, nextTx).ssThresh <= Larger(c.ssThresh, 2 * SegSize)
  <1> DEFINE e == CongestionStateSet(c, "RECOVERY", nextTx)
             t == GetSsThresh(e)
             d == LossWindow(e, t, t)
  <1>1. Consistent(e, "RECOVERY") /\ e.ssThresh = c.ssThresh
    <2>1. "RECOVERY" \in CongStates
      BY DEF CongStates
    <2> QED
      BY <2>1, StateSetConsistent
  <1>2. FastRecovery(c, nextTx) = d
    BY DEF FastRecovery, LossWindow
  <1> HIDE DEF e
  <1>3. e \in SwiftState
    BY <1>1 DEF Consistent
  <1>4. t \in Windows /\ t >= 1 /\ t <= Larger(e.ssThresh, 2 * SegSize)
    <2>1. t \in Windows /\ t >= 2 * SegSize
      BY <1>3, GetSsThreshType
    <2>2. t <= Larger(e.ssThresh, 2 * SegSize)
      BY <1>3, GetSsThreshBound
    <2> QED
      BY <2>1, <2>2, SegSizeAssumption, UintAssumption DEF Windows
  <1> HIDE DEF t
  <1>5. Consistent(d, "RECOVERY") /\ d.ssThresh = t
    BY <1>1, <1>4, LossWindowConsistent
  <1> QED
    BY <1>1, <1>2, <1>4, <1>5

\* DupAck takes c to a state that fits st2, and leaves the window alone unless
\* it enters Recovery; the threshold does not rise above its floor.
LEMMA DupAckConsistent ==
    ASSUME NEW c, NEW st, Consistent(c, st), NEW st2 \in DupAckTargets(st),
           NEW nextTx \in Nat
    PROVE  /\ Consistent(DupAck(c, st, st2, nextTx), st2)
           /\ st2 # "RECOVERY" => DupAck(c, st, st2, nextTx).cWnd = c.cWnd
           /\ DupAck(c, st, st2, nextTx).ssThresh <= Larger(c.ssThresh, 2 * SegSize)
  <1> DEFINE d == DupAck(c, st, st2, nextTx)
  <1>1. /\ c \in SwiftState /\ Sound(c) /\ st \in CongStates
        /\ c.ssThresh \in Int /\ 2 * SegSize \in Int
    BY SegSizeAssumption, UintAssumption DEF Consistent, SwiftState, Windows
  <1>2. c.ssThresh <= Larger(c.ssThresh, 2 * SegSize)
    BY <1>1 DEF Larger
  <1>3. CASE st2 = st
    <2>1. d = c
      BY <1>3 DEF DupAck
    <2> HIDE DEF d
    <2> QED
      BY <1>2, <1>3, <2>1 DEF d
  <1>4. CASE st2 # st /\ st2 = "DISORDER"
    <2>1. d = CongestionStateSet(c, "DISORDER", nextTx) /\ st2 \in CongStates
      BY <1>4 DEF DupAck, CongStates
    <2> HIDE DEF d
    <2>2. Consistent(d, st2) /\ d.cWnd = c.cWnd /\ d.ssThresh = c.ssThresh
      BY <1>1, <1>4, <2>1, StateSetConsistent
    <2> QED
      BY <1>2, <2>2 DEF d
  <1>5. CASE st2 # st /\ st2 = "RECOVERY"
    <2>1. d = FastRecovery(c, nextTx)
      BY <1>5 DEF DupAck
    <2> HIDE DEF d
    <2> QED
      BY <1>1, <1>5, <2>1, FastRecoveryConsistent DEF d
  <1>6. st2 = st \/ st2 = "DISORDER" \/ st2 = "RECOVERY"
    BY <1>1 DEF DupAckTargets, CongStates
  <1> QED
    BY <1>3, <1>4, <1>5, <1>6

-----------------------------------------------------------------------------
(***************************************************************************)
(* The invariant                                                           *)
(***************************************************************************)
\* The invariant holds when the socket is established.
LEMMA InvInit == Init => IInv
  <1> SUFFICES ASSUME Init PROVE IInv
    OBVIOUS
  <1>1. cc = NewSwift /\ congState = "OPEN"
    BY DEF Init
  <1>2. Sound(NewSwift) /\ NewSwift.doing /\ NewSwift \in SwiftState
    BY NewSwiftSound DEF Sound
  <1> QED
    BY <1>1, <1>2 DEF IInv, Consistent, CongStates

\* The parameters of an ACK, named.
AckStep(rtt, segs, ack, nextTx, ttl) ==
    \/ AckWithoutAdvance(rtt, nextTx)
    \/ AckAdvances(rtt, segs, ack, nextTx, ttl)
    \/ DisorderResolved(rtt, segs, ack, nextTx, ttl)
    \/ RecoveryEnds(rtt, nextTx)
    \/ LossEnds(rtt, segs, ack, nextTx, ttl)

\* Every ACK, in every congestion state, preserves the invariant.
LEMMA AckInv ==
    ASSUME IInv, cc.cWnd <= MaxCwnd,
           NEW rtt \in Rtts, NEW segs \in Segs, NEW ack \in Seqs,
           NEW nextTx \in Seqs, NEW ttl \in Ttls,
           AckStep(rtt, segs, ack, nextTx, ttl)
    PROVE  IInv'
  <1>1. Consistent(cc, congState) /\ nextTx \in Nat
    BY SeqAssumption DEF IInv
  <1>2. cc \in SwiftState /\ Sound(cc) /\ congState \in CongStates
    BY <1>1 DEF Consistent
  <1>3. CASE AckWithoutAdvance(rtt, nextTx)
    <2>1. PICK st \in DupAckTargets(congState) :
             /\ congState' = st
             /\ \/ cc' = DupAck(cc, congState, st, nextTx)
                \/ cc' = PktsAcked(DupAck(cc, congState, st, nextTx), rtt)
      BY <1>3 DEF AckWithoutAdvance
    <2>2. Consistent(DupAck(cc, congState, st, nextTx), st)
      BY <1>1, DupAckConsistent
    <2>3. Consistent(PktsAcked(DupAck(cc, congState, st, nextTx), rtt), st)
      BY <2>2, MeasuredConsistent
    <2> QED
      BY <2>1, <2>2, <2>3 DEF IInv
  <1>4. CASE AckAdvances(rtt, segs, ack, nextTx, ttl)
    <2>1. PICK st \in DupAckTargets(congState) \ {"RECOVERY"} :
             /\ congState' = st
             /\ LET c == DupAck(cc, congState, st, nextTx)
                IN  \/ cc' = IncreaseWindow(PktsAcked(c, rtt), segs, ack, nextTx, ttl)
                    \/ cc' = IncreaseWindow(c, segs, ack, nextTx, ttl)
      BY <1>4 DEF AckAdvances
    <2> DEFINE c == DupAck(cc, congState, st, nextTx)
               m == PktsAcked(c, rtt)
    <2>2. Consistent(c, st) /\ c.cWnd = cc.cWnd
      BY <1>1, DupAckConsistent
    <2> HIDE DEF c
    <2>3. Consistent(m, st) /\ m.cWnd = cc.cWnd
      BY <2>2, MeasuredConsistent
    <2>4. Consistent(IncreaseWindow(c, segs, ack, nextTx, ttl), st)
      BY <2>2, IncreaseConsistent
    <2> HIDE DEF m
    <2>5. Consistent(IncreaseWindow(m, segs, ack, nextTx, ttl), st)
      BY <2>3, IncreaseConsistent
    <2> QED
      BY <2>1, <2>4, <2>5 DEF IInv, c, m
  <1>5. ASSUME NEW c, Consistent(c, congState), c.cWnd = cc.cWnd
        PROVE  /\ Consistent(CongestionStateSet(c, "OPEN", nextTx), "OPEN")
               /\ Consistent(IncreaseWindow(CongestionStateSet(c, "OPEN", nextTx),
                                            segs, ack, nextTx, ttl), "OPEN")
    <2> DEFINE e == CongestionStateSet(c, "OPEN", nextTx)
    <2>1. c \in SwiftState /\ Sound(c) /\ "OPEN" \in CongStates
      BY <1>5 DEF Consistent, CongStates
    <2>2. Consistent(e, "OPEN") /\ e.cWnd = cc.cWnd
      BY <1>1, <1>5, <2>1, StateSetConsistent
    <2> HIDE DEF e
    <2>3. Consistent(IncreaseWindow(e, segs, ack, nextTx, ttl), "OPEN")
      BY <2>2, IncreaseConsistent
    <2> QED
      BY <2>2, <2>3 DEF e
  <1> DEFINE m == PktsAcked(cc, rtt)
  <1>6. Consistent(m, congState) /\ m.cWnd = cc.cWnd
    BY <1>1, MeasuredConsistent
  <1>7. CASE DisorderResolved(rtt, segs, ack, nextTx, ttl)
    <2> HIDE DEF m
    <2> QED
      BY <1>1, <1>5, <1>6, <1>7 DEF DisorderResolved, IInv, m
  <1>8. CASE RecoveryEnds(rtt, nextTx)
    BY <1>5, <1>6, <1>8 DEF RecoveryEnds, IInv
  <1>9. CASE LossEnds(rtt, segs, ack, nextTx, ttl)
    BY <1>5, <1>6, <1>9 DEF LossEnds, IInv
  <1> QED
    BY <1>3, <1>4, <1>7, <1>8, <1>9 DEF AckStep

\* A timeout preserves the invariant and does not raise the threshold.
LEMMA TimeoutInv ==
    ASSUME IInv, Timeout
    PROVE  IInv' /\ cc'.ssThresh <= Larger(cc.ssThresh, 2 * SegSize)
  <1> DEFINE t == GetSsThresh(cc)
             a == [cc EXCEPT !.ssThresh = t]
             b == CongestionStateSet(a, "LOSS", 0)
             d == [b EXCEPT !.cWnd = SegSize]
  <1>1. cc \in SwiftState /\ Sound(cc)
    BY DEF IInv, Consistent
  <1>2. t \in Windows /\ t <= Larger(cc.ssThresh, 2 * SegSize)
    BY <1>1, GetSsThreshType, GetSsThreshBound
  <1>3. cc' = d /\ congState' = "LOSS"
    BY DEF Timeout
  <1> HIDE DEF t
  <1>4. a \in SwiftState /\ Sound(a) /\ a.ssThresh = t
    BY <1>1, <1>2, NewThresholdSound
  <1> HIDE DEF a
  <1>5. "LOSS" \in CongStates /\ 0 \in Nat
    BY DEF CongStates
  <1>6. Consistent(b, "LOSS") /\ b.ssThresh = t
    BY <1>4, <1>5, StateSetConsistent
  <1> HIDE DEF b
  <1>7. b \in SwiftState /\ Sound(b) /\ ~b.doing
    BY <1>6 DEF Consistent
  <1>8. SegSize \in Windows /\ SegSize >= 1
    BY SegSizeAssumption, UintAssumption DEF Windows
  <1>9. NewWindow(b, d, SegSize)
    BY <1>7, <1>8, NewWindowSound
  <1> HIDE DEF d
  <1>10. Consistent(d, "LOSS") /\ d.ssThresh = t
    BY <1>5, <1>6, <1>7, <1>9 DEF NewWindow, SameFlow, Consistent
  <1> QED
    BY <1>2, <1>3, <1>10 DEF IInv

\* A repeated SYN+ACK preserves the invariant.
LEMMA RepeatedSynAckInv ==
    ASSUME IInv, RepeatedSynAck
    PROVE  IInv'
  <1> DEFINE w == InitialCwnd * SegSize
             d == [cc EXCEPT !.cWnd = w, !.ssThresh = InitialSsThresh]
  <1>1. w \in Nat /\ w >= 1
    BY InitialWindowAssumption, SegSizeAssumption
  <1>2. w \in Windows /\ w >= 1 /\ InitialSsThresh \in Windows
    BY <1>1, InitialWindowAssumption, UintAssumption DEF Windows
  <1>3. cc' = d /\ congState' = congState
    BY DEF RepeatedSynAck
  <1>4. cc \in SwiftState
    BY DEF IInv, Consistent
  <1> HIDE DEF w
  <1>5. /\ d \in SwiftState /\ d.cWnd = w
        /\ d.baseRtt = cc.baseRtt /\ d.lastRtt = cc.lastRtt
        /\ d.cntRtt = cc.cntRtt /\ d.doing = cc.doing
    BY <1>2, <1>4, Zenon DEF SwiftState
  <1> HIDE DEF d
  <1>6. Consistent(d, congState)
    BY <1>2, <1>5 DEF IInv, Consistent, Sound
  <1> QED
    BY <1>3, <1>6 DEF IInv

\* Every step preserves the invariant.
LEMMA InvStep == IInv /\ [Next]_vars => IInv'
  <1> SUFFICES ASSUME IInv, [Next]_vars PROVE IInv'
    OBVIOUS
  <1>1. CASE Ack
    <2>1. PICK rtt \in Rtts, segs \in Segs, ack \in Seqs, nextTx \in Seqs,
               ttl \in Ttls : AckStep(rtt, segs, ack, nextTx, ttl)
      BY <1>1 DEF Ack, AckStep
    <2>2. cc.cWnd <= MaxCwnd
      BY <1>1 DEF Ack
    <2> QED
      BY <2>1, <2>2, AckInv
  <1>2. CASE Timeout
    BY <1>2, TimeoutInv
  <1>3. CASE RepeatedSynAck
    BY <1>3, RepeatedSynAckInv
  <1>4. CASE UNCHANGED vars
    BY <1>4 DEF vars, IInv
  <1> QED
    BY <1>1, <1>2, <1>3, <1>4 DEF Next

\* IInv holds throughout: every method of TcpSwift is called on a sound record,
\* and m_doingSwiftNow agrees with m_congState between any two events.
THEOREM Invariance == Spec => []IInv
  <1>1. Init => IInv
    BY InvInit
  <1>2. IInv /\ [Next]_vars => IInv'
    BY InvStep
  <1> QED
    BY <1>1, <1>2, PTL DEF Spec

-----------------------------------------------------------------------------
(***************************************************************************)
(* What the invariant gives                                                *)
(***************************************************************************)
\* Type correctness: windows stay in uint32_t, counts and delays in range, for
\* every segment size, Alpha, Beta and set of delays.
THEOREM TypeCorrect == Spec => []TypeOK
  <1>1. IInv => TypeOK
    BY DEF IInv, Consistent, TypeOK
  <1> QED
    BY <1>1, Invariance, PTL

\* m_doingSwiftNow is set in exactly the state Open: DoingIffOpen.
THEOREM SwiftRunsInOpen == Spec => []DoingIffOpen
  <1>1. IInv => DoingIffOpen
    BY DEF IInv, Consistent, DoingIffOpen
  <1> QED
    BY <1>1, Invariance, PTL

\* A cycle with a positive count holds a measured delay: MeasuredBeforeUse.  The
\* AIMD step never divides by zero or by the sentinel Time::Max ().
THEOREM DelayMeasured == Spec => []MeasuredBeforeUse
  <1>1. IInv => MeasuredBeforeUse
    <2> SUFFICES ASSUME IInv, cc.cntRtt > 0
                 PROVE  /\ cc.lastRtt \in 1 .. TimeMax - 1
                        /\ cc.baseRtt \in 1 .. cc.lastRtt
      BY DEF MeasuredBeforeUse
    <2>1. cc \in SwiftState /\ Sound(cc)
      BY DEF IInv, Consistent
    <2> QED
      BY <2>1, ClockAssumption DEF SwiftState, Times, Sound
  <1> QED
    BY <1>1, Invariance, PTL

\* No cut, timeout or wrap-around leaves a window of zero: WindowAlive.
THEOREM WindowStaysOpen == Spec => []WindowAlive
  <1>1. IInv => WindowAlive
    BY DEF IInv, Consistent, Sound, WindowAlive
  <1> QED
    BY <1>1, Invariance, PTL

\* An ACK that starts fast recovery sets a threshold that GetSsThresh allows.
LEMMA AckThreshold ==
    ASSUME IInv, Ack,
           congState' \in {"RECOVERY", "LOSS"}, congState' # congState
    PROVE  cc'.ssThresh <= Larger(cc.ssThresh, 2 * SegSize)
  <1>1. PICK rtt \in Rtts, segs \in Segs, ack \in Seqs, nextTx \in Seqs,
             ttl \in Ttls : AckStep(rtt, segs, ack, nextTx, ttl)
    BY DEF Ack, AckStep
  <1>2. Consistent(cc, congState) /\ nextTx \in Nat
    BY SeqAssumption DEF IInv
  <1>3. congState \in CongStates
    BY <1>2 DEF Consistent
  <1>4. CASE AckWithoutAdvance(rtt, nextTx)
    <2>1. PICK st \in DupAckTargets(congState) :
             \/ cc' = DupAck(cc, congState, st, nextTx)
             \/ cc' = PktsAcked(DupAck(cc, congState, st, nextTx), rtt)
      BY <1>4 DEF AckWithoutAdvance
    <2> DEFINE d == DupAck(cc, congState, st, nextTx)
    <2>2. Consistent(d, st) /\ d.ssThresh <= Larger(cc.ssThresh, 2 * SegSize)
      BY <1>2, DupAckConsistent
    <2> HIDE DEF d
    <2>3. PktsAcked(d, rtt).ssThresh = d.ssThresh
      BY <2>2, MeasuredConsistent
    <2> QED
      BY <2>1, <2>2, <2>3 DEF d
  <1>5. CASE AckAdvances(rtt, segs, ack, nextTx, ttl)
    <2>1. congState' \in DupAckTargets(congState) \ {"RECOVERY"}
      BY <1>5 DEF AckAdvances
    <2> QED
      BY <1>3, <2>1 DEF DupAckTargets, CongStates
  <1>6. CASE congState' = "OPEN"
    BY <1>6
  <1> QED
    BY <1>1, <1>4, <1>5, <1>6
    DEF AckStep, DisorderResolved, RecoveryEnds, LossEnds

\* Entering Recovery or Loss never raises the threshold above the floor of two
\* segments, whatever the unsigned subtraction gives: LossNeverRaisesThreshold.
THEOREM ThresholdFallsOnLoss == Spec => LossNeverRaisesThreshold
  <1> DEFINE A == congState' \in {"RECOVERY", "LOSS"} /\ congState' # congState
                  => cc'.ssThresh <= Larger(cc.ssThresh, 2 * SegSize)
  <1>1. IInv /\ [Next]_vars => [A]_vars
    <2> SUFFICES ASSUME IInv, Next,
                        congState' \in {"RECOVERY", "LOSS"}, congState' # congState
                 PROVE  cc'.ssThresh <= Larger(cc.ssThresh, 2 * SegSize)
      OBVIOUS
    <2>1. CASE Ack
      BY <2>1, AckThreshold
    <2>2. CASE Timeout
      BY <2>2, TimeoutInv
    <2>3. CASE RepeatedSynAck
      BY <2>3 DEF RepeatedSynAck
    <2> QED
      BY <2>1, <2>2, <2>3 DEF Next
  <1> QED
    BY <1>1, Invariance, PTL DEF Spec, LossNeverRaisesThreshold

-----------------------------------------------------------------------------
(***************************************************************************)
(* How far one ACK moves the window                                        *)
(***************************************************************************)
\* At a window of a segment or more, congestion avoidance adds at most a segment.
LEMMA AvoidanceGrowth ==
    ASSUME NEW c \in SwiftState, Sound(c), c.cWnd <= MaxCwnd + SegSize,
           c.cWnd >= SegSize, NEW segs \in Nat
    PROVE  Grown(c, CongestionAvoidance(c, segs), SegSize)
  <1> DEFINE n == Larger(1, (SegSize * SegSize) \div c.cWnd)
  <1>1. c.cWnd \in Nat /\ c.cWnd > 0
    BY UintAssumption DEF SwiftState, Windows, Sound
  <1>2. n \in Nat /\ n <= SegSize
    <2> DEFINE q == (SegSize * SegSize) \div c.cWnd
    <2>1. q \in Nat /\ c.cWnd * q <= SegSize * SegSize
      BY <1>1, SegmentRoom, DivisionBound, Division
    <2> HIDE DEF q
    <2>2. SegSize * q <= SegSize * SegSize
      <3>1. SegSize * q <= c.cWnd * q
        BY <1>1, <2>1, SegmentRoom
      <3> QED
        BY <1>1, <2>1, <3>1, SegmentRoom
    <2>3. q <= SegSize
      <3> SUFFICES ASSUME q > SegSize PROVE FALSE
        BY <2>1, SegmentRoom
      <3>1. SegSize * (q - SegSize) > 0
        BY <2>1, SegmentRoom
      <3>2. SegSize * (q - SegSize) = SegSize * q - SegSize * SegSize
        BY <2>1, SegmentRoom
      <3> QED
        BY <2>1, <2>2, <3>1, <3>2, SegmentRoom
    <2>4. n = Larger(1, q)
      BY DEF q
    <2> QED
      BY <2>1, <2>3, <2>4, SegmentRoom DEF Larger
  <1>3. CASE segs > 0
    <2> HIDE DEF n
    <2>1. n <= SegSize * SegSize
      BY <1>2, SegmentRoom
    <2>2. c.cWnd + n < UintMod
      BY <1>1, <1>2, <2>1, SegmentRoom, UintAssumption
    <2>3. Grown(c, [c EXCEPT !.cWnd = (@ + n) % UintMod], SegSize)
      BY <1>2, <2>2, SegmentRoom, GrownByAdding
    <2> QED
      BY <1>3, <2>3 DEF CongestionAvoidance, n
  <1>4. CASE ~(segs > 0)
    BY <1>1, <1>4, SegmentRoom DEF CongestionAvoidance, Grown, SameFlow
  <1> QED
    BY <1>3, <1>4

\* The parent class never lowers the window, and adds at most two segments to a window
\* of one or more.
LEMMA NewRenoGrowth ==
    ASSUME NEW c \in SwiftState, Sound(c), c.cWnd <= MaxCwnd, NEW segs \in Nat
    PROVE  LET d == NewRenoIncreaseWindow(c, segs)
           IN  /\ d.cWnd \in Nat /\ d.cWnd >= c.cWnd
               /\ c.cWnd >= SegSize => d.cWnd <= c.cWnd + 2 * SegSize
  <1> DEFINE slow == c.cWnd < c.ssThresh
             ss   == IF slow THEN SlowStart(c, segs) ELSE c
             left == IF slow THEN Larger(0, segs - 1) ELSE segs
             ca   == CongestionAvoidance(ss, left)
             d    == NewRenoIncreaseWindow(c, segs)
  <1>1. c.cWnd \in Nat
    BY UintAssumption DEF SwiftState, Windows
  <1>2. Grown(c, ss, SegSize)
    BY <1>1, SlowStartSound, SegmentRoom DEF Grown, SameFlow
  <1>3. left \in Nat
    BY DEF Larger
  <1>4. d = IF ss.cWnd >= ss.ssThresh THEN ca ELSE ss
    BY DEF NewRenoIncreaseWindow
  <1>5. Grown(c, d, SegSize + SegSize * SegSize)
    BY NewRenoSound
  <1> HIDE DEF ss, left, d
  <1>6. /\ ss \in SwiftState /\ Sound(ss) /\ ss.cWnd \in Nat
        /\ ss.cWnd >= c.cWnd /\ ss.cWnd <= c.cWnd + SegSize
        /\ ss.cWnd <= MaxCwnd + SegSize
    BY <1>1, <1>2, SegmentRoom DEF Grown
  <1>7. ASSUME c.cWnd >= SegSize PROVE d.cWnd <= c.cWnd + 2 * SegSize
    <2>1. Grown(ss, ca, SegSize)
      BY <1>1, <1>3, <1>6, <1>7, AvoidanceGrowth, SegmentRoom
    <2> HIDE DEF ca
    <2> QED
      BY <1>1, <1>4, <1>6, <2>1, SegmentRoom DEF Grown
  <1>8. d.cWnd \in Nat /\ d.cWnd >= c.cWnd
    BY <1>1, <1>5, SegmentRoom DEF Grown
  <1> QED
    BY <1>7, <1>8 DEF d

\* What one ACK may add to a window of a segment or more.
Cap == Larger(2, 5 * Alpha) * SegSize

\* Two segments, and five times Alpha, are within the cap.
LEMMA CapBound ==
    /\ Cap \in Nat /\ 2 * SegSize <= Cap
    /\ \A a \in Nat : a <= Larger(1, 5 * Alpha) => a * SegSize <= Cap
  <1> DEFINE m == Larger(2, 5 * Alpha)
  <1>1. m \in Nat /\ m >= 2 /\ m >= Larger(1, 5 * Alpha) /\ Larger(1, 5 * Alpha) \in Nat
    BY AlphaBetaAssumption DEF Larger
  <1>2. Cap = m * SegSize
    BY DEF Cap
  <1> HIDE DEF m
  <1> QED
    BY <1>1, <1>2, SegSizeAssumption

\* The AIMD step moves the window up by no more than the cap while the delay is below
\* the target, and down to no less than a tenth while it is not.
LEMMA AimdMoves ==
    ASSUME NEW c \in SwiftState, Sound(c), c.cWnd <= MaxCwnd, c.cntRtt > 0,
           NEW ttl \in 0 .. 255
    PROVE  LET d == Aimd(c, ttl)
           IN  \/ d.cWnd \in c.cWnd .. c.cWnd + Cap
               \/ /\ c.lastRtt >= TargetDelay(c, ttl)
                  /\ d.cWnd \in c.cWnd \div 10 .. c.cWnd
  <1> DEFINE target == TargetDelay(c, ttl)
             da     == DynamicAlpha(c.lastRtt, c.baseRtt)
             d      == Aimd(c, ttl)
  <1>1. /\ c.cWnd \in Nat /\ c.cWnd >= 1 /\ c.cWnd < UintMod
        /\ c.lastRtt \in Nat /\ c.lastRtt >= 1 /\ c.baseRtt \in Nat
    BY UintAssumption, ClockAssumption DEF SwiftState, Windows, Times, Sound
  <1>2. target \in Int
    BY TargetDelayType
  <1>3. CASE c.lastRtt < target
    <2>1. da \in Nat /\ da <= Larger(1, 5 * Alpha) /\ da <= 5 * Alpha + 1
      <3> DEFINE r == c.lastRtt \div MicroSecond
                 b == Larger(1, c.baseRtt \div MicroSecond)
                 q == (Alpha * r) \div b
      <3>1. da = Larger(1, Smaller(5 * Alpha, q))
        BY DEF DynamicAlpha
      <3>2. da \in Nat /\ da <= 5 * Alpha + 1
        BY <1>1, DynamicAlphaBound
      <3>3. q \in Int
        <4>1. r \in Nat /\ b \in Nat /\ b > 0
          BY <1>1, ClockAssumption, DivisionBound DEF Larger
        <4> HIDE DEF r, b
        <4>2. Alpha * r \in Nat
          BY <4>1, AlphaBetaAssumption
        <4> QED
          BY <4>1, <4>2, DivisionBound
      <3> HIDE DEF q, r, b
      <3> QED
        BY <3>1, <3>2, <3>3, AlphaBetaAssumption DEF Larger, Smaller
    <2> HIDE DEF da
    <2>2. da * SegSize \in Nat /\ da * SegSize <= Cap
      BY <2>1, CapBound, SegSizeAssumption
    <2>3. c.cWnd + da * SegSize < UintMod
      <3>1. /\ (5 * Alpha + 2) * SegSize \in Nat /\ SegSize * SegSize \in Nat
            /\ da * SegSize <= (5 * Alpha + 2) * SegSize
        BY <2>1, AlphaBetaAssumption, SegSizeAssumption
      <3> QED
        BY <1>1, <2>2, <3>1, BoundAssumption, UintAssumption
    <2> DEFINE e == [c EXCEPT !.cWnd = (@ + da * SegSize) % UintMod]
    <2>4. Grown(c, e, Cap)
      BY <2>2, <2>3, CapBound, GrownByAdding
    <2>5. d = e
      BY <1>3, Zenon DEF Aimd, da, target
    <2> HIDE DEF e, d
    <2> QED
      BY <2>4, <2>5 DEF Grown, d
  <1>4. CASE ~(c.lastRtt < target)
    <2> DEFINE r    == Reduced(c.cWnd, c.lastRtt, target)
               less == Larger(1, r)
    <2>1. c.lastRtt >= target
      BY <1>1, <1>2, <1>4
    <2>2. r \in Int /\ r <= c.cWnd
      <3> HIDE DEF target
      <3> QED
        BY <1>1, <1>2, <2>1, ReducedBound
    <2>3. r >= c.cWnd \div 10 /\ c.cWnd \div 10 \in Nat
      <3> DEFINE x == (c.cWnd * (10 * c.lastRtt - Beta * (c.lastRtt - target)))
                          \div (10 * c.lastRtt)
      <3>1. r = Larger(x, c.cWnd \div 10)
        BY DEF Reduced
      <3>2. x \in Int
        <4>1. c.cWnd * (10 * c.lastRtt - Beta * (c.lastRtt - target)) \in Int
              /\ 10 * c.lastRtt \in Nat /\ 10 * c.lastRtt > 0
          <5> HIDE DEF target
          <5>1. Beta * (c.lastRtt - target) \in Int
            BY <1>1, <1>2, AlphaBetaAssumption
          <5> QED
            BY <1>1, <5>1
        <4> QED
          BY <4>1, Division
      <3>3. c.cWnd \div 10 \in Nat
        BY <1>1, DivisionBound
      <3> HIDE DEF x, r
      <3> QED
        BY <3>1, <3>2, <3>3 DEF Larger
    <2> HIDE DEF r
    <2>4. less \in c.cWnd \div 10 .. c.cWnd /\ less \in Windows /\ less >= 1
      BY <1>1, <2>2, <2>3, UintAssumption DEF Larger, Windows
    <2>5. NewWindow(c, [c EXCEPT !.cWnd = less], less)
      <3> HIDE DEF less
      <3> QED
        BY <2>4, NewWindowSound
    <2>6. d = [c EXCEPT !.cWnd = less]
      BY <1>4, Zenon DEF Aimd, less, target, r
    <2> HIDE DEF d, less, target
    <2>7. d.cWnd = less
      BY <2>5, <2>6 DEF NewWindow
    <2> QED
      BY <2>1, <2>4, <2>7 DEF d, target
  <1> QED
    BY <1>3, <1>4

\* What an ACK of the running cycle may do: raise the window, by no more than the cap if
\* it holds a segment, or lower it for a delay that was measured more than twice.
Moves(c, d, ttl) ==
    \/ /\ d.cWnd \in Nat /\ d.cWnd >= c.cWnd
       /\ c.cWnd >= SegSize => d.cWnd <= c.cWnd + Cap
    \/ /\ c.cntRtt > 2
       /\ d.lastRtt = c.lastRtt /\ d.baseRtt = c.baseRtt
       /\ c.lastRtt >= TargetDelay(c, ttl)
       /\ d.cWnd \in c.cWnd \div 10 .. c.cWnd

\* TargetDelay looks at the base delay only.
LEMMA SameTarget ==
    ASSUME NEW c, NEW d, c.baseRtt = d.baseRtt, NEW ttl
    PROVE  TargetDelay(c, ttl) = TargetDelay(d, ttl)
  BY DEF TargetDelay

\* IncreaseWindow moves the window as far as it may, at the end of a cycle or in it.
LEMMA IncreaseMoves ==
    ASSUME NEW c \in SwiftState, Sound(c), c.cWnd <= MaxCwnd,
           NEW segs \in Nat, NEW ack \in Nat, NEW nextTx \in Nat,
           NEW ttl \in 0 .. 255
    PROVE  Moves(c, IncreaseWindow(c, segs, ack, nextTx, ttl), ttl)
  <1>1. c.cWnd \in Nat
    BY UintAssumption DEF SwiftState, Windows
  <1>2. Moves(c, NewRenoIncreaseWindow(c, segs), ttl)
    BY <1>1, NewRenoGrowth, CapBound, SegSizeAssumption DEF Moves
  <1>3. Moves(c, SlowStart(c, segs), ttl)
    <2> DEFINE d == SlowStart(c, segs)
    <2>1. Grown(c, d, SegSize)
      BY SlowStartSound
    <2> HIDE DEF d
    <2>2. Moves(c, d, ttl)
      BY <1>1, <2>1, CapBound, SegSizeAssumption DEF Grown, Moves
    <2> QED
      BY <2>2 DEF d
  <1>4. Moves(c, EndCycle(c, segs, nextTx, ttl), ttl)
    <2> DEFINE a == IF c.cntRtt <= 2 THEN NewRenoIncreaseWindow(c, segs)
                                     ELSE AdjustWindow(c, segs, ttl)
               p == SetPacingRate(a)
               d == [p EXCEPT !.begSndNxt = nextTx, !.cntRtt = 0]
    <2>1. a \in SwiftState /\ Sound(a) /\ Moves(c, a, ttl)
      <3>1. CASE c.cntRtt <= 2
        <4>1. a = NewRenoIncreaseWindow(c, segs)
          BY <3>1
        <4> HIDE DEF a
        <4> QED
          BY <1>2, <4>1, NewRenoSound DEF Grown
      <3>2. CASE ~(c.cntRtt <= 2)
        <4> DEFINE b == IF c.cWnd < c.ssThresh THEN SlowStart(c, segs) ELSE Aimd(c, ttl)
                   t == Larger(b.ssThresh, ((3 * b.cWnd) % UintMod) \div 4)
        <4>1. c.cntRtt > 2 /\ c.cntRtt > 0
          BY <3>2 DEF SwiftState, CntRttCap
        <4>2. Keeps(c, AdjustWindow(c, segs, ttl))
          BY <4>1, AdjustWindowSound
        <4>3. b \in SwiftState /\ Moves(c, b, ttl)
          <5>1. CASE c.cWnd < c.ssThresh
            BY <1>3, <5>1, SlowStartSound DEF Grown
          <5>2. CASE ~(c.cWnd < c.ssThresh)
            <6> DEFINE e == Aimd(c, ttl)
            <6>1. NewWindow(c, e, e.cWnd)
              BY <4>1, AimdSound
            <6>2. \/ e.cWnd \in c.cWnd .. c.cWnd + Cap
                  \/ /\ c.lastRtt >= TargetDelay(c, ttl)
                     /\ e.cWnd \in c.cWnd \div 10 .. c.cWnd
              BY <4>1, AimdMoves
            <6> HIDE DEF e
            <6>3. e \in SwiftState /\ Moves(c, e, ttl)
              BY <1>1, <4>1, <6>1, <6>2, CapBound DEF NewWindow, SameFlow, Moves
            <6> QED
              BY <5>2, <6>3 DEF e
          <5> QED
            BY <5>1, <5>2
        <4>4. AdjustWindow(c, segs, ttl) = [b EXCEPT !.ssThresh = t]
          BY Zenon DEF AdjustWindow
        <4>5. a = AdjustWindow(c, segs, ttl)
          BY <3>2
        <4> HIDE DEF a, b, t
        <4>6. a.cWnd = b.cWnd /\ a.lastRtt = b.lastRtt /\ a.baseRtt = b.baseRtt
          BY <4>3, <4>4, <4>5 DEF SwiftState
        <4> QED
          BY <4>2, <4>3, <4>5, <4>6 DEF Moves, Keeps
      <3> QED
        BY <3>1, <3>2
    <2>2. EndCycle(c, segs, nextTx, ttl) = d
      BY Zenon DEF EndCycle
    <2> HIDE DEF a
    <2>3. /\ p \in SwiftState
          /\ p.cWnd = a.cWnd /\ p.lastRtt = a.lastRtt /\ p.baseRtt = a.baseRtt
      BY <2>1, SetPacingRateSound DEF SetPacingRate, SwiftState, Keeps
    <2> HIDE DEF p
    <2>4. d.cWnd = p.cWnd /\ d.lastRtt = p.lastRtt /\ d.baseRtt = p.baseRtt
      BY <2>3 DEF SwiftState
    <2> HIDE DEF d
    <2>5. Moves(c, d, ttl)
      BY <2>1, <2>3, <2>4 DEF Moves
    <2> QED
      BY <2>2, <2>5
  <1>5. Moves(c, c, ttl)
    BY <1>1, CapBound DEF Moves
  <1> QED
    BY <1>2, <1>3, <1>4, <1>5 DEF IncreaseWindow

\* The window is lowered for a delay above the target, counted in at least two ACKs.
Entitled(ttl) ==
    /\ cc.cntRtt >= 2
    /\ cc'.lastRtt >= TargetDelay(cc', ttl)
    /\ cc'.cWnd >= cc.cWnd \div 10

\* What an ACK does to the window, unless it starts fast recovery.
LEMMA AckMoves ==
    ASSUME IInv, Ack, congState' # "RECOVERY"
    PROVE  /\ cc.cWnd >= SegSize => cc'.cWnd <= cc.cWnd + Cap
           /\ congState = "OPEN" /\ congState' = "OPEN" /\ cc'.cWnd < cc.cWnd
                 => \E ttl \in Ttls : Entitled(ttl)
  <1>1. PICK rtt \in Rtts, segs \in Segs, ack \in Seqs, nextTx \in Seqs,
             ttl \in Ttls : AckStep(rtt, segs, ack, nextTx, ttl)
    BY DEF Ack, AckStep
  <1>2. /\ Consistent(cc, congState) /\ nextTx \in Nat /\ cc.cWnd <= MaxCwnd
        /\ cc \in SwiftState /\ cc.cWnd \in Nat /\ congState \in CongStates
    BY SeqAssumption, UintAssumption DEF IInv, Ack, Consistent, SwiftState, Windows
  <1> DEFINE Grows == cc'.cWnd >= cc.cWnd
                      /\ (cc.cWnd >= SegSize => cc'.cWnd <= cc.cWnd + Cap)
             m == PktsAcked(cc, rtt)
  <1>3. ASSUME cc'.cWnd = cc.cWnd PROVE Grows
    BY <1>2, <1>3, CapBound
  \* A record that leaves the window to IncreaseWindow.
  <1>4. ASSUME NEW c, NEW st, Consistent(c, st), c.cWnd = cc.cWnd
        PROVE  LET d == IncreaseWindow(c, segs, ack, nextTx, ttl)
               IN  /\ Moves(c, d, ttl) /\ d.cWnd \in Nat
                   /\ cc.cWnd >= SegSize => d.cWnd <= cc.cWnd + Cap
    <2> DEFINE d == IncreaseWindow(c, segs, ack, nextTx, ttl)
    <2>1. /\ c \in SwiftState /\ Sound(c) /\ segs \in Nat /\ ack \in Nat
          /\ ttl \in 0 .. 255
      BY <1>4, SeqAssumption, TtlAssumption DEF Consistent
    <2>2. Moves(c, d, ttl)
      BY <1>2, <1>4, <2>1, IncreaseMoves
    <2>3. Consistent(d, st)
      BY <1>2, <1>4, IncreaseConsistent
    <2> HIDE DEF d
    <2>4. d.cWnd \in Nat
      BY <2>3, UintAssumption DEF Consistent, SwiftState, Windows
    <2>5. cc.cWnd >= SegSize => d.cWnd <= cc.cWnd + Cap
      BY <1>2, <1>4, <2>2, <2>4, CapBound DEF Moves
    <2> QED
      BY <2>2, <2>4, <2>5 DEF d
  <1>5. Consistent(m, congState) /\ m.cWnd = cc.cWnd
    BY <1>2, MeasuredConsistent
  <1>6. ASSUME NEW c, Consistent(c, congState), c.cWnd = cc.cWnd
        PROVE  LET e == CongestionStateSet(c, "OPEN", nextTx)
               IN  Consistent(e, "OPEN") /\ e.cWnd = cc.cWnd
    <2>1. c \in SwiftState /\ Sound(c) /\ "OPEN" \in CongStates
      BY <1>6 DEF Consistent, CongStates
    <2> QED
      BY <1>2, <1>6, <2>1, StateSetConsistent
  <1>7. CASE AckWithoutAdvance(rtt, nextTx)
    <2>1. PICK st \in DupAckTargets(congState) :
             /\ congState' = st
             /\ \/ cc' = DupAck(cc, congState, st, nextTx)
                \/ cc' = PktsAcked(DupAck(cc, congState, st, nextTx), rtt)
      BY <1>7 DEF AckWithoutAdvance
    <2> DEFINE d == DupAck(cc, congState, st, nextTx)
    <2>2. Consistent(d, st) /\ d.cWnd = cc.cWnd
      BY <1>2, <2>1, DupAckConsistent
    <2> HIDE DEF d
    <2>3. PktsAcked(d, rtt).cWnd = d.cWnd
      BY <2>2, MeasuredConsistent
    <2>4. cc'.cWnd = cc.cWnd
      BY <2>1, <2>2, <2>3 DEF d
    <2> QED
      BY <1>2, <1>3, <2>4
  <1>8. CASE AckAdvances(rtt, segs, ack, nextTx, ttl)
    <2>1. PICK st \in DupAckTargets(congState) \ {"RECOVERY"} :
             /\ congState' = st
             /\ LET c == DupAck(cc, congState, st, nextTx)
                IN  \/ cc' = IncreaseWindow(PktsAcked(c, rtt), segs, ack, nextTx, ttl)
                    \/ /\ st = "DISORDER"
                       /\ cc' = IncreaseWindow(c, segs, ack, nextTx, ttl)
      BY <1>8 DEF AckAdvances
    <2> DEFINE c == DupAck(cc, congState, st, nextTx)
    <2>2. Consistent(c, st) /\ c.cWnd = cc.cWnd
      BY <1>2, <2>1, DupAckConsistent
    <2>3. Consistent(PktsAcked(c, rtt), st) /\ PktsAcked(c, rtt).cWnd = cc.cWnd
      <3> HIDE DEF c
      <3> QED
        BY <2>2, MeasuredConsistent
    <2>4. cc.cWnd >= SegSize => cc'.cWnd <= cc.cWnd + Cap
      <3> HIDE DEF c
      <3>1. cc.cWnd >= SegSize
              => IncreaseWindow(c, segs, ack, nextTx, ttl).cWnd <= cc.cWnd + Cap
        BY <1>4, <2>2
      <3>2. cc.cWnd >= SegSize
              => IncreaseWindow(PktsAcked(c, rtt), segs, ack, nextTx, ttl).cWnd
                    <= cc.cWnd + Cap
        BY <1>4, <2>3
      <3> QED
        BY <2>1, <3>1, <3>2 DEF c
    <2>5. ASSUME congState = "OPEN", congState' = "OPEN", cc'.cWnd < cc.cWnd
          PROVE  Entitled(ttl)
      <3>1. st = "OPEN" /\ c = cc
        BY <2>1, <2>5 DEF DupAck
      <3>2. cc' = IncreaseWindow(m, segs, ack, nextTx, ttl)
        BY <2>1, <3>1
      <3>3. Moves(m, cc', ttl) /\ cc'.cWnd \in Nat
        <4> HIDE DEF m
        <4> QED
          BY <1>4, <1>5, <3>2
      <3>4. m.cntRtt > 2 => cc.cntRtt >= 2
        BY <1>2 DEF PktsAcked, Smaller, CntRttCap, SwiftState
      <3>5. TargetDelay(cc', ttl) = TargetDelay(m, ttl) \/ cc'.baseRtt # m.baseRtt
        BY SameTarget
      <3> HIDE DEF m
      <3> QED
        BY <1>2, <1>5, <2>5, <3>3, <3>4, <3>5 DEF Moves, Entitled
    <2> QED
      BY <2>4, <2>5
  <1>9. CASE DisorderResolved(rtt, segs, ack, nextTx, ttl)
    <2> HIDE DEF m
    <2> QED
      BY <1>2, <1>4, <1>5, <1>6, <1>9 DEF DisorderResolved, m
  <1>10. CASE RecoveryEnds(rtt, nextTx)
    <2>1. cc'.cWnd = cc.cWnd
      BY <1>5, <1>6, <1>10 DEF RecoveryEnds
    <2> QED
      BY <1>2, <1>3, <2>1
  <1>11. CASE LossEnds(rtt, segs, ack, nextTx, ttl)
    <2> HIDE DEF m
    <2> QED
      BY <1>4, <1>5, <1>6, <1>11 DEF LossEnds, m
  <1> QED
    BY <1>1, <1>7, <1>8, <1>9, <1>10, <1>11 DEF AckStep

\* In the normal state an ACK lowers the window only for a delay that is not below the
\* target and was counted, and leaves at least a tenth: CutOnlyOnDelay.
THEOREM CutsAreEntitled == Spec => CutOnlyOnDelay
  <1> DEFINE A == congState = "OPEN" /\ congState' = "OPEN" /\ cc'.cWnd < cc.cWnd
                  => \/ RepeatedSynAck
                     \/ /\ cc.cntRtt >= 2
                        /\ \E ttl \in Ttls : cc'.lastRtt >= TargetDelay(cc', ttl)
                        /\ cc'.cWnd >= cc.cWnd \div 10
  <1>1. IInv /\ [Next]_vars => [A]_vars
    <2> SUFFICES ASSUME IInv, Next PROVE A
      OBVIOUS
    <2>1. CASE Ack
      BY <2>1, AckMoves DEF Entitled
    <2>2. CASE Timeout
      BY <2>2 DEF Timeout
    <2> QED
      BY <2>1, <2>2 DEF Next
  <1> QED
    BY <1>1, Invariance, PTL DEF Spec, CutOnlyOnDelay

\* One ACK adds no more than the safety cap to a window of a segment or more, in slow
\* start, congestion avoidance and the AIMD step: GrowthCapped.
THEOREM GrowthIsCapped == Spec => GrowthCapped
  <1> DEFINE A == cc.cWnd >= SegSize /\ ~RepeatedSynAck
                  => cc'.cWnd <= cc.cWnd + Larger(2, 5 * Alpha) * SegSize
                     \/ congState' = "RECOVERY"
  <1>1. IInv /\ [Next]_vars => [A]_vars
    <2> SUFFICES ASSUME IInv, Next PROVE A
      OBVIOUS
    <2>1. CASE Ack
      BY <2>1, AckMoves DEF Cap
    <2>2. CASE Timeout
      <3> DEFINE b == CongestionStateSet([cc EXCEPT !.ssThresh = GetSsThresh(cc)], "LOSS", 0)
      <3>1. cc' = [b EXCEPT !.cWnd = SegSize]
        BY <2>2 DEF Timeout
      <3>2. cc'.cWnd = SegSize
        <4>1. "cWnd" \in DOMAIN cc
          BY DEF IInv, Consistent, SwiftState
        <4>2. "cWnd" \in DOMAIN b
          BY <4>1 DEF CongestionStateSet, DisableSwift
        <4> HIDE DEF b
        <4> QED
          BY <3>1, <4>2
      <3>3. cc.cWnd \in Nat
        BY UintAssumption DEF IInv, Consistent, SwiftState, Windows
      <3> QED
        BY <3>2, <3>3, CapBound, SegSizeAssumption DEF Cap
    <2> QED
      BY <2>1, <2>2 DEF Next
  <1> QED
    BY <1>1, Invariance, PTL DEF Spec, GrowthCapped
=============================================================================
