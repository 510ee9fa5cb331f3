------------------------- MODULE SwiftSenderProofs --------------------------
(***************************************************************************)
(* Proofs about SwiftSender, for every value of its constants: what is     *)
(* taken for received has been, the counters and the recovery point fit    *)
(* the congestion state, the retransmission timer runs while anything is   *)
(* unacknowledged, and the sender implements SwiftFlow and ReliableStream. *)
(***************************************************************************)
EXTENDS SwiftSender, FiniteSetTheorems, Arithmetic, TLAPS

\* What is proved of the congestion control under the calls SwiftFlow allows.
FlowProofs == INSTANCE SwiftFlowProofs WITH
    cc <- snd.cc, congState <- snd.congState, Segs <- Seqs

\* A sender whose congestion control is c, whatever that is.
Sender(c) ==
    [ sackEnabled : SackModes, head : Seqs, tail : Seqs, highTxMark : Seqs,
      nextTxSequence : Seqs, highRxAckMark : Seqs, sacked : SUBSET Segments,
      lost : SUBSET Segments, retrans : SUBSET Segments, congState : CongStates,
      dupAckCount : Nat, recover : Seqs, recoverActive : BOOLEAN,
      isFirstPartialAck : BOOLEAN, dataRetrCount : 0 .. DataRetries,
      retxEvent : BOOLEAN, pacingTimer : BOOLEAN, sendEvent : BOOLEAN,
      endPoint : BOOLEAN, cc : {c}, out : SUBSET Segments ]

\* The scoreboard lies in what was sent, and the head is not SACKed.
Board(s) ==
    /\ s \in Sender(s.cc)
    /\ s.head <= s.highTxMark /\ s.highTxMark <= s.tail
    /\ s.sacked \subseteq s.head + 1 .. s.highTxMark - 1
    /\ s.lost \subseteq SentList(s)
    /\ s.retrans \subseteq SentList(s)
    /\ s.out \subseteq 0 .. s.highTxMark - 1

\* The counters fit the congestion state (CountersFit, RenoGuessEnds); after a
\* timeout none is counted, also when the ACK that ends Loss is a duplicate.
Counters(s) ==
    /\ s.congState \in {"OPEN", "LOSS"} => s.dupAckCount = 0
    /\ s.congState = "DISORDER" => s.dupAckCount \in 1 .. RetxThresh - 1
    /\ s.congState \in {"OPEN", "DISORDER"} => s.isFirstPartialAck
    /\ s.recoverActive <=> s.congState \in {"RECOVERY", "LOSS"}
    /\ ~s.sackEnabled /\ s.congState = "LOSS" => s.sacked = {}

\* And the recovery point lies in what was sent (RecoveryPoint).
Counted(s) ==
    /\ Counters(s)
    /\ s.recoverActive => s.recover \in s.head .. s.highTxMark

Timed(s) == s.head < s.highTxMark => s.retxEvent

\* The receiver has the segment.
Has(r, x) == x < r.next \/ x \in r.held

\* An ACK of r speaks of what r has, and its blocks are above its number.
AckFits(a, r) ==
    /\ a \in Acks /\ a.ack <= r.next
    /\ \A x \in a.sack : x > a.ack /\ Has(r, x)

\* The receiver has what was sent, in order up to a hole, and above it.
Received(r, high) ==
    /\ r \in ReceiverState
    /\ r.next <= high
    /\ r.held \subseteq r.next + 1 .. high - 1

\* No number that an ACK has is SACKed, by that ACK or another.
NoHole(s, as) ==
    /\ \A a, b \in as : a.ack \notin b.sack
    /\ s.sackEnabled => \A a \in as : a.ack \notin s.sacked

IInv ==
    /\ Board(snd) /\ snd.out = {}
    /\ FlowProofs!IInv
    /\ Counted(snd)
    /\ snd.endPoint => Timed(snd)
    /\ Received(rcv, snd.highTxMark) /\ snd.head <= rcv.next
    /\ BagToSet(data) \subseteq 0 .. snd.highTxMark - 1
    /\ \A a \in BagToSet(acks) : AckFits(a, rcv)
    /\ NoHole(snd, BagToSet(acks))
    /\ snd.sackEnabled => \A x \in snd.sacked : Has(rcv, x)
    /\ synAcks \in 0 .. MaxSynAcks
    /\ peerData \in 0 .. MaxPeerData

-----------------------------------------------------------------------------
(***************************************************************************)
(* Sets of segments                                                        *)
(***************************************************************************)
LEMMA Numbers ==
  /\ NumSegs \in Nat /\ Segments \subseteq Nat /\ Seqs \subseteq Nat
  /\ \A x \in Segments : x \in Seqs /\ x + 1 \in Seqs /\ x < NumSegs
  /\ \A x \in Seqs : x <= NumSegs
  /\ \A x \in Nat : (x < NumSegs => x \in Segments) /\ (x <= NumSegs => x \in Seqs)
  BY NumSegsAssumption DEF Segments, Seqs

\* A set of segments is finite.
LEMMA Finite ==
  ASSUME NEW S \in SUBSET Segments
  PROVE  IsFiniteSet(S) /\ Cardinality(S) \in Nat
<1>1. IsFiniteSet(Segments)
  BY FS_Interval, NumSegsAssumption DEF Segments
<1> QED  BY <1>1, FS_Subset, FS_CardinalityType

\* A set of segments that is not empty has a least member,
LEMMA MinOf ==
  ASSUME NEW S \in SUBSET Segments, S # {}
  PROVE  Min(S) \in S /\ \A y \in S : Min(S) <= y
<1>1. \E x \in S : \A y \in S : x <= y
  BY Least, Numbers
<1> QED  BY <1>1 DEF Min

\* and a greatest one.
LEMMA MaxOf ==
  ASSUME NEW S \in SUBSET Segments, S # {}
  PROVE  Max(S) \in S /\ \A y \in S : y <= Max(S)
<1> DEFINE T == {NumSegs - y : y \in S}
<1>0. \A y \in S : y \in Nat /\ y < NumSegs /\ NumSegs \in Nat
  BY Numbers
<1>1. T \subseteq Nat /\ T # {}
  BY <1>0
<1>2. PICK m \in T : \A n \in T : m <= n
  <2> HIDE DEF T
  <2> QED  BY <1>1, Least
<1>3. PICK x \in S : m = NumSegs - x
  OBVIOUS
<1>4. \A y \in S : NumSegs - x <= NumSegs - y
  BY <1>2, <1>3
<1>5. \A y \in S : x >= y
  BY <1>4, Numbers
<1>6. \E z \in S : \A y \in S : z >= y
  BY <1>5
<1>7. Max(S) \in S /\ \A y \in S : Max(S) >= y
  BY <1>6 DEF Max
<1>8. \A y \in S : y \in Nat
  BY Numbers
<1> QED  BY <1>7, <1>8

\* The first n of a set; the least one is the first.
LEMMA FirstMembers == \A S, n : FirstOf(S, n) \subseteq S
  BY DEF FirstOf

\* The first member of a set that is not empty exists.
LEMMA FirstOne ==
  ASSUME NEW S \in SUBSET Segments, S # {}
  PROVE  FirstOf(S, 1) # {}
<1>1. Min(S) \in S /\ \A y \in S : Min(S) <= y
  BY MinOf
<1>2. {y \in S : y < Min(S)} = {}
  <2>1. \A y \in S : y \in Nat
    BY Numbers
  <2> QED  BY <1>1, <2>1
<1>3. Cardinality({y \in S : y < Min(S)}) < 1
  BY <1>2, FS_EmptySet
<1> QED  BY <1>1, <1>3 DEF FirstOf

\* Larger and Smaller choose one of their arguments and bound both.
LEMMA TwoNumbers ==
  \A a, b \in Int : /\ Larger(a, b) \in {a, b} /\ a <= Larger(a, b) /\ b <= Larger(a, b)
                    /\ Smaller(a, b) \in {a, b}
                    /\ Smaller(a, b) <= a /\ Smaller(a, b) <= b
  BY DEF Larger, Smaller

-----------------------------------------------------------------------------
(***************************************************************************)
(* The scoreboard                                                          *)
(***************************************************************************)
\* t is s but for the scoreboard, the marks and timers of sending.
Same(s, t) ==
    /\ t.sackEnabled = s.sackEnabled /\ t.tail = s.tail
    /\ t.highRxAckMark = s.highRxAckMark /\ t.congState = s.congState
    /\ t.dupAckCount = s.dupAckCount /\ t.recover = s.recover
    /\ t.recoverActive = s.recoverActive
    /\ t.isFirstPartialAck = s.isFirstPartialAck
    /\ t.dataRetrCount = s.dataRetrCount /\ t.sendEvent = s.sendEvent
    /\ t.endPoint = s.endPoint /\ t.cc = s.cc

\* t is s but for the flags of the segments.
Remarked(s, t) ==
    /\ Same(s, t) /\ t.head = s.head /\ t.highTxMark = s.highTxMark
    /\ t.nextTxSequence = s.nextTxSequence /\ t.retxEvent = s.retxEvent
    /\ t.pacingTimer = s.pacingTimer /\ t.out = s.out

\* The types of the fields of a sender, and the order of its sequence numbers.
LEMMA BoardTypes ==
  ASSUME NEW s, Board(s)
  PROVE  /\ s.head \in Nat /\ s.tail \in Nat /\ s.highTxMark \in Nat
         /\ s.head <= s.highTxMark /\ s.highTxMark <= s.tail /\ s.tail <= NumSegs
         /\ s.head \in Seqs /\ s.tail \in Seqs /\ s.highTxMark \in Seqs
         /\ s.nextTxSequence \in Seqs /\ s.highRxAckMark \in Seqs /\ s.recover \in Seqs
         /\ s.sacked \in SUBSET Segments /\ s.lost \in SUBSET Segments
         /\ s.retrans \in SUBSET Segments /\ s.out \in SUBSET Segments
         /\ SentList(s) \in SUBSET Segments
         /\ s.sackEnabled \in BOOLEAN /\ s.congState \in CongStates
         /\ s.dupAckCount \in Nat /\ s.recoverActive \in BOOLEAN
         /\ s.isFirstPartialAck \in BOOLEAN /\ s.retxEvent \in BOOLEAN
         /\ s.pacingTimer \in BOOLEAN /\ s.sendEvent \in BOOLEAN
         /\ s.endPoint \in BOOLEAN /\ s.dataRetrCount \in 0 .. DataRetries
<1>1. s \in Sender(s.cc) /\ s.head <= s.highTxMark /\ s.highTxMark <= s.tail
  BY DEF Board
<1>2. /\ s.head \in Seqs /\ s.tail \in Seqs /\ s.highTxMark \in Seqs
      /\ s.nextTxSequence \in Seqs /\ s.highRxAckMark \in Seqs /\ s.recover \in Seqs
      /\ s.sacked \in SUBSET Segments /\ s.lost \in SUBSET Segments
      /\ s.retrans \in SUBSET Segments /\ s.out \in SUBSET Segments
  BY <1>1 DEF Sender
<1>3. /\ s.sackEnabled \in BOOLEAN /\ s.congState \in CongStates
      /\ s.dupAckCount \in Nat /\ s.recoverActive \in BOOLEAN
      /\ s.isFirstPartialAck \in BOOLEAN /\ s.retxEvent \in BOOLEAN
      /\ s.pacingTimer \in BOOLEAN /\ s.sendEvent \in BOOLEAN
      /\ s.endPoint \in BOOLEAN /\ s.dataRetrCount \in 0 .. DataRetries
  BY <1>1, OptionAssumption DEF Sender
<1>4. /\ s.head \in Nat /\ s.tail \in Nat /\ s.highTxMark \in Nat /\ s.tail <= NumSegs
  BY <1>2, Numbers
<1>5. SentList(s) \in SUBSET Segments
  BY <1>1, <1>4, Numbers DEF SentList, Segments
<1> QED  BY <1>1, <1>2, <1>3, <1>4, <1>5

\* The three flags of the sent list change together.
LEMMA NewFlags ==
  ASSUME NEW s, Board(s), NEW sacked, NEW lost, NEW retrans
  PROVE  LET t == [s EXCEPT !.sacked = sacked, !.lost = lost, !.retrans = retrans]
         IN  t.sacked = sacked /\ t.lost = lost /\ t.retrans = retrans
  BY DEF Board, Sender

\* New flags within what was sent.
LEMMA Remark ==
  ASSUME NEW s, Board(s),
         NEW sacked, sacked \subseteq s.head + 1 .. s.highTxMark - 1,
         NEW lost, lost \subseteq SentList(s),
         NEW retrans, retrans \subseteq SentList(s)
  PROVE  LET t == [s EXCEPT !.sacked = sacked, !.lost = lost, !.retrans = retrans]
         IN  Board(t) /\ Remarked(s, t)
<1> DEFINE t == [s EXCEPT !.sacked = sacked, !.lost = lost, !.retrans = retrans]
<1>1. sacked \in SUBSET Segments /\ lost \in SUBSET Segments
      /\ retrans \in SUBSET Segments
  <2>1. s.head + 1 .. s.highTxMark - 1 \subseteq SentList(s)
    BY BoardTypes DEF SentList
  <2> QED  BY <2>1, BoardTypes
<1>2. s \in Sender(s.cc)
  BY DEF Board
<1>3. t \in Sender(s.cc) /\ Remarked(s, t)
      /\ t.sacked = sacked /\ t.lost = lost /\ t.retrans = retrans
  BY <1>1, <1>2 DEF Sender, Remarked, Same
<1> HIDE DEF t
<1>4. SentList(t) = SentList(s)
  BY <1>3 DEF Remarked, SentList
<1>5. Board(t)
  BY <1>3, <1>4 DEF Board, Remarked, Same
<1> QED  BY <1>3, <1>5 DEF t

\* Remarked holds of two changes in a row.
LEMMA RemarkedTrans ==
  ASSUME NEW s, NEW t, NEW u, Remarked(s, t), Remarked(t, u)
  PROVE  Remarked(s, u)
  BY DEF Remarked, Same

\* Same holds of two changes in a row.
LEMMA SameTrans ==
  ASSUME NEW s, NEW t, NEW u, Same(s, t), Same(t, u)
  PROVE  Same(s, u)
  BY DEF Same

\* The SACK blocks of an ACK are all that is SACKed anew.
LEMMA UpdateBoard ==
  ASSUME NEW s, Board(s), NEW blocks, \A x \in blocks : x > s.head
  PROVE  LET t == Update(s, blocks)
         IN  /\ Board(t) /\ Remarked(s, t)
             /\ t.sacked = s.sacked \cup (blocks \cap SentList(s))
<1> DEFINE fresh  == (blocks \cap SentList(s)) \ s.sacked
           sacked == s.sacked \cup fresh
           lost   == (s.lost \ fresh) \cup Overtaken(SentList(s), sacked)
           retrans == s.retrans \ fresh
           t == [s EXCEPT !.sacked = sacked, !.lost = lost, !.retrans = retrans]
<1>1. CASE fresh = {}
  <2>1. Update(s, blocks) = s
    BY <1>1 DEF Update
  <2> QED  BY <2>1, <1>1 DEF Remarked, Same
<1>2. CASE fresh # {}
  <2>1. Update(s, blocks) = t
    BY <1>2 DEF Update
  <2>2. /\ s.sacked \subseteq s.head + 1 .. s.highTxMark - 1 /\ s.lost \subseteq SentList(s)
        /\ s.retrans \subseteq SentList(s)
        /\ SentList(s) = s.head .. s.highTxMark - 1
        /\ s.head \in Nat /\ s.highTxMark \in Nat
    BY BoardTypes DEF Board, SentList
  <2>3. fresh \subseteq s.head + 1 .. s.highTxMark - 1
    BY <2>2
  <2>4. sacked \subseteq s.head + 1 .. s.highTxMark - 1
    BY <2>2, <2>3
  <2>5. lost \subseteq SentList(s) /\ retrans \subseteq SentList(s)
    BY <2>2 DEF Overtaken
  <2>6. sacked = s.sacked \cup (blocks \cap SentList(s))
    OBVIOUS
  <2> HIDE DEF sacked, lost, retrans
  <2>7. Board(t) /\ Remarked(s, t)
    BY <2>4, <2>5, Remark
  <2>8. t.sacked = sacked
    BY NewFlags
  <2> QED  BY <2>1, <2>6, <2>7, <2>8
<1> QED  BY <1>1, <1>2

\* AddRenoSack keeps the flags within what was sent and the head not SACKed.
LEMMA AddRenoSackBoard ==
  ASSUME NEW s, Board(s)
  PROVE  Board(AddRenoSack(s)) /\ Remarked(s, AddRenoSack(s))
<1> DEFINE open == (s.head + 1 .. s.highTxMark - 1) \ s.sacked
           m == Min(open)
           sacked == s.sacked \cup {m}
           lost == s.lost \ {m}
           retrans == s.retrans \ {m}
           t == [s EXCEPT !.sacked = sacked, !.lost = lost, !.retrans = retrans]
<1>1. CASE open = {}
  BY <1>1 DEF AddRenoSack, Remarked, Same
<1>2. CASE open # {}
  <2>1. AddRenoSack(s) = t
    BY <1>2 DEF AddRenoSack
  <2>2. open \in SUBSET Segments
    <3>1. open \subseteq SentList(s)
      BY BoardTypes DEF SentList
    <3> QED  BY <3>1, BoardTypes
  <2>3. m \in open
    <3> HIDE DEF open
    <3> QED  BY <2>2, <1>2, MinOf
  <2>4. sacked \subseteq s.head + 1 .. s.highTxMark - 1
        /\ lost \subseteq SentList(s) /\ retrans \subseteq SentList(s)
    <3> HIDE DEF m
    <3> QED  BY <2>3 DEF Board
  <2> HIDE DEF sacked, lost, retrans
  <2>5. Board(t) /\ Remarked(s, t)
    BY <2>4, Remark
  <2> QED  BY <2>1, <2>5
<1> QED  BY <1>1, <1>2

\* MarkHeadAsLost keeps the flags within what was sent.
LEMMA MarkHeadBoard ==
  ASSUME NEW s, Board(s), s.head < s.highTxMark
  PROVE  LET t == MarkHeadAsLost(s)
         IN  Board(t) /\ Remarked(s, t) /\ t.sacked \subseteq s.sacked
<1> DEFINE sacked == s.sacked \ {s.head}
           lost == s.lost \cup {s.head}
           retrans == s.retrans \ {s.head}
           t == [s EXCEPT !.sacked = sacked, !.lost = lost, !.retrans = retrans]
<1>1. MarkHeadAsLost(s) = t
  BY DEF MarkHeadAsLost
<1>2. s.head \in SentList(s)
  BY BoardTypes DEF SentList
<1>3. sacked \subseteq s.head + 1 .. s.highTxMark - 1 /\ sacked \subseteq s.sacked
      /\ lost \subseteq SentList(s) /\ retrans \subseteq SentList(s)
  BY <1>2 DEF Board
<1> HIDE DEF sacked, lost, retrans
<1>4. Board(t) /\ Remarked(s, t)
  BY <1>3, Remark
<1>5. t.sacked = sacked
  BY NewFlags
<1> QED  BY <1>1, <1>3, <1>4, <1>5

\* DeleteRetransmittedFlagFromHead does as well.
LEMMA DeleteFlagBoard ==
  ASSUME NEW s, Board(s)
  PROVE  LET t == DeleteRetransmittedFlagFromHead(s)
         IN  Board(t) /\ Remarked(s, t) /\ t.sacked = s.sacked
<1> DEFINE retrans == s.retrans \ {s.head}
           t == [s EXCEPT !.sacked = s.sacked, !.lost = s.lost, !.retrans = retrans]
<1>1. DeleteRetransmittedFlagFromHead(s) = t
  BY DEF DeleteRetransmittedFlagFromHead, Board, Sender
<1>2. s.sacked \subseteq s.head + 1 .. s.highTxMark - 1
      /\ s.lost \subseteq SentList(s) /\ retrans \subseteq SentList(s)
  BY DEF Board
<1> HIDE DEF retrans
<1>3. Board(t) /\ Remarked(s, t)
  BY <1>2, Remark
<1>4. t.sacked = s.sacked
  BY NewFlags
<1> QED  BY <1>1, <1>3, <1>4

\* After a timeout everything is lost that is not known to have arrived.
LEMMA SentListLostBoard ==
  ASSUME NEW s, Board(s)
  PROVE  LET t == SetSentListLost(s)
         IN  /\ Board(t) /\ Remarked(s, t)
             /\ t.sacked = IF s.sackEnabled THEN s.sacked ELSE {}
             /\ t.lost = SentList(s) \ t.sacked /\ t.retrans = {}
<1> DEFINE sacked == IF s.sackEnabled THEN s.sacked ELSE {}
           lost == SentList(s) \ sacked
           t == [s EXCEPT !.sacked = sacked, !.lost = lost, !.retrans = {}]
<1>1. SetSentListLost(s) = t
  BY DEF SetSentListLost
<1>2. sacked \subseteq s.head + 1 .. s.highTxMark - 1 /\ lost \subseteq SentList(s)
  BY DEF Board
<1> HIDE DEF lost
<1>3. Board(t) /\ Remarked(s, t)
  <2> HIDE DEF sacked
  <2> QED  BY <1>2, Remark
<1>4. t.sacked = sacked /\ t.lost = lost /\ t.retrans = {}
  <2> HIDE DEF sacked
  <2> QED  BY NewFlags
<1> QED  BY <1>1, <1>3, <1>4 DEF lost

\* The cumulative ACK moves the head, which is SACKed no more.
LEMMA DiscardBoard ==
  ASSUME NEW s, Board(s), NEW ack \in s.head .. s.highTxMark,
         s.sackEnabled => ack \notin s.sacked
  PROVE  LET t == DiscardUpTo(s, ack)
         IN  /\ Board(t) /\ Same(s, t) /\ t.head = ack /\ t.highTxMark = s.highTxMark
             /\ t.nextTxSequence = s.nextTxSequence /\ t.retxEvent = s.retxEvent
             /\ t.pacingTimer = s.pacingTimer /\ t.out = s.out
             /\ s.sackEnabled => t.sacked \subseteq s.sacked
             /\ s.sacked = {} => t.sacked = {}
<1> DEFINE keep == ack .. NumSegs - 1
           d == [s EXCEPT !.head = ack, !.sacked = @ \cap keep,
                          !.lost = @ \cap keep, !.retrans = @ \cap keep]
           e == [d EXCEPT !.sacked = @ \ {ack}]
           moved(t) == /\ t \in Sender(s.cc) /\ Same(s, t) /\ t.head = ack
                       /\ t.highTxMark = s.highTxMark
                       /\ t.nextTxSequence = s.nextTxSequence
                       /\ t.retxEvent = s.retxEvent
                       /\ t.pacingTimer = s.pacingTimer /\ t.out = s.out
                       /\ t.lost = s.lost \cap keep /\ t.retrans = s.retrans \cap keep
<1>0. s \in Sender(s.cc)
  BY DEF Board
<1>1. CASE ack <= s.head
  <2>1. ack = s.head /\ DiscardUpTo(s, ack) = s
    BY <1>1, BoardTypes DEF DiscardUpTo
  <2> QED  BY <2>1 DEF Same
<1>2. CASE ~(ack <= s.head)
  <2>0. ack \in Nat /\ ack > s.head /\ ack <= s.highTxMark /\ ack \in Seqs
    BY <1>2, BoardTypes, Numbers DEF Seqs
  <2>1. moved(d) /\ d.sacked = s.sacked \cap keep
    <3> HIDE DEF keep
    <3> QED  BY <1>0, <2>0 DEF Sender, Same
  <2>2. moved(e) /\ e.sacked = (s.sacked \cap keep) \ {ack}
    <3> HIDE DEF keep, d
    <3> QED  BY <1>0, <2>1 DEF Sender, Same
  <2>3. \A t : moved(t) /\ ack \notin t.sacked /\ t.sacked \subseteq s.sacked \cap keep
                 => Board(t)
    <3> SUFFICES ASSUME NEW t, moved(t), ack \notin t.sacked,
                        t.sacked \subseteq s.sacked \cap keep
                 PROVE  Board(t)
      OBVIOUS
    <3>1. SentList(t) = ack .. s.highTxMark - 1
      BY DEF SentList
    <3>2. t.lost \subseteq SentList(t) /\ t.retrans \subseteq SentList(t)
      <4>1. s.lost \subseteq s.head .. s.highTxMark - 1
            /\ s.retrans \subseteq s.head .. s.highTxMark - 1
        BY DEF Board, SentList
      <4> QED  BY <3>1, <4>1, <2>0, BoardTypes
    <3>3. t.sacked \subseteq ack + 1 .. s.highTxMark - 1
      <4>1. s.sacked \subseteq s.head + 1 .. s.highTxMark - 1
        BY DEF Board
      <4> QED  BY <4>1, <2>0, BoardTypes
    <3> QED  BY <3>2, <3>3, <2>0 DEF Board, Same
  <2>4. CASE ~s.sackEnabled /\ ack \in d.sacked
    <3>1. DiscardUpTo(s, ack) = AddRenoSack(e)
      BY <1>2, <2>4 DEF DiscardUpTo
    <3> HIDE DEF e, d
    <3>2. Board(e)
      BY <2>2, <2>3
    <3>3. Board(AddRenoSack(e)) /\ Remarked(e, AddRenoSack(e))
      BY <3>2, AddRenoSackBoard
    <3>4. s.sacked # {}
      BY <2>4, <2>1
    <3> QED  BY <3>1, <3>3, <3>4, <2>2, <2>4 DEF Remarked, Same
  <2>5. CASE ~(~s.sackEnabled /\ ack \in d.sacked)
    <3>1. DiscardUpTo(s, ack) = d
      BY <1>2, <2>5 DEF DiscardUpTo
    <3> HIDE DEF e, d
    <3>2. Board(d)
      BY <2>1, <2>3, <2>5, BoardTypes
    <3> QED  BY <3>1, <3>2, <2>1
  <2> QED  BY <2>4, <2>5
<1> QED  BY <1>1, <1>2

-----------------------------------------------------------------------------
(***************************************************************************)
(* Transmission                                                            *)
(***************************************************************************)
\* t is s after segments were sent: what was not sent before has the timer.
Sent(s, t) ==
    /\ Same(s, t) /\ t.head = s.head /\ t.sacked = s.sacked /\ t.lost = s.lost
    /\ s.highTxMark <= t.highTxMark
    /\ t.retxEvent \/ (t.retxEvent = s.retxEvent /\ t.highTxMark = s.highTxMark)

\* Two calls that send are one.
LEMMA SentTrans ==
  ASSUME NEW s, Board(s), NEW t, Board(t), NEW u, Board(u), Sent(s, t), Sent(t, u)
  PROVE  Sent(s, u)
<1>1. s.highTxMark \in Nat /\ t.highTxMark \in Nat /\ u.highTxMark \in Nat
  BY BoardTypes
<1> QED  BY <1>1 DEF Sent, Same

\* The next number to send moves freely.
LEMMA NextMoves ==
  ASSUME NEW s, Board(s), NEW n \in Seqs
  PROVE  LET t == [s EXCEPT !.nextTxSequence = n]
         IN  /\ Board(t) /\ Sent(s, t) /\ t.retxEvent = s.retxEvent
             /\ t.highTxMark = s.highTxMark /\ t.retrans = s.retrans
             /\ t.out = s.out /\ t.nextTxSequence = n
<1> DEFINE t == [s EXCEPT !.nextTxSequence = n]
<1>1. /\ t \in Sender(s.cc) /\ Same(s, t) /\ t.head = s.head /\ t.sacked = s.sacked
      /\ t.lost = s.lost /\ t.retrans = s.retrans /\ t.highTxMark = s.highTxMark
      /\ t.retxEvent = s.retxEvent /\ t.out = s.out /\ t.nextTxSequence = n
  BY DEF Board, Sender, Same
<1> HIDE DEF t
<1>2. SentList(t) = SentList(s) /\ t.cc = s.cc /\ s.highTxMark \in Nat
  BY <1>1, BoardTypes DEF SentList, Same
<1>3. Board(t)
  BY <1>1, <1>2 DEF Board, Same
<1>4. Sent(s, t)
  BY <1>1, <1>2 DEF Sent
<1> QED  BY <1>1, <1>3, <1>4 DEF t

\* SendDataPackets: what it sends is in the sent list after it, and the timer runs.
LEMMA SendPacketsBoard ==
  ASSUME NEW s, Board(s), NEW segs \in SUBSET Segments, \A x \in segs : x < s.tail
  PROVE  LET t == SendDataPackets(s, segs)
         IN  /\ Board(t) /\ Sent(s, t) /\ t.nextTxSequence = s.nextTxSequence
             /\ segs # {} => t.retxEvent
<1>1. CASE segs = {}
  <2>1. SendDataPackets(s, segs) = s
    BY <1>1 DEF SendDataPackets
  <2>2. s.highTxMark \in Nat
    BY BoardTypes
  <2> QED  BY <2>1, <2>2, <1>1 DEF Sent, Same
<1>2. CASE segs # {}
  <2> DEFINE high == Larger(s.highTxMark, Max(segs) + 1)
             retrans == s.retrans \cup (segs \cap SentList(s))
             out == s.out \cup segs
             pacing == s.pacingTimer \/ Pacing
             t == [s EXCEPT !.out = out, !.retrans = retrans, !.highTxMark = high,
                            !.retxEvent = TRUE, !.pacingTimer = pacing]
  <2>1. SendDataPackets(s, segs) = t
    BY <1>2 DEF SendDataPackets, Board, Sender
  <2>2. Max(segs) \in segs /\ \A x \in segs : x <= Max(segs)
    BY <1>2, MaxOf
  <2>3. Max(segs) \in Nat /\ Max(segs) < s.tail /\ \A x \in segs : x \in Nat
    BY <2>2, Numbers
  <2>4. high \in Nat /\ s.highTxMark <= high /\ high <= s.tail
        /\ \A x \in segs : x < high
    <3>1. high \in {s.highTxMark, Max(segs) + 1} /\ s.highTxMark <= high
          /\ Max(segs) + 1 <= high
      BY <2>3, TwoNumbers, BoardTypes
    <3> HIDE DEF high
    <3> QED  BY <3>1, <2>2, <2>3, BoardTypes
  <2>5. high \in Seqs /\ pacing \in BOOLEAN
    <3>1. pacing \in BOOLEAN
      OBVIOUS
    <3>2. high <= NumSegs
      <4> HIDE DEF high
      <4> QED  BY <2>4, BoardTypes, Numbers
    <3> HIDE DEF high, pacing
    <3> QED  BY <2>4, <3>1, <3>2, Numbers
  <2>6. retrans \in SUBSET Segments /\ out \in SUBSET Segments
    BY BoardTypes
  <2>7. /\ t \in Sender(s.cc) /\ Same(s, t) /\ t.head = s.head /\ t.sacked = s.sacked
        /\ t.lost = s.lost /\ t.nextTxSequence = s.nextTxSequence
        /\ t.out = out /\ t.retrans = retrans /\ t.highTxMark = high /\ t.retxEvent = TRUE
    <3> HIDE DEF high, retrans, out, pacing
    <3> QED  BY <2>5, <2>6 DEF Board, Sender, Same
  <2>8. /\ SentList(s) \subseteq s.head .. high - 1
        /\ s.head + 1 .. s.highTxMark - 1 \subseteq s.head + 1 .. high - 1
        /\ 0 .. s.highTxMark - 1 \subseteq 0 .. high - 1
        /\ segs \subseteq 0 .. high - 1
    <3> HIDE DEF high
    <3>1. SentList(s) \subseteq s.head .. high - 1
      BY <2>4, BoardTypes DEF SentList
    <3>2. segs \subseteq 0 .. high - 1
      BY <2>3, <2>4
    <3> QED  BY <3>1, <3>2, <2>4, BoardTypes
  <2>9. /\ s.sacked \subseteq s.head + 1 .. high - 1
        /\ s.lost \subseteq s.head .. high - 1 /\ retrans \subseteq s.head .. high - 1
        /\ out \subseteq 0 .. high - 1
    <3> HIDE DEF high
    <3> QED  BY <2>8 DEF Board
  <2> HIDE DEF high, retrans, out, t
  <2>10. SentList(t) = s.head .. high - 1
    BY <2>7 DEF SentList
  <2>11. Board(t)
    BY <2>4, <2>7, <2>9, <2>10, BoardTypes DEF Board, Same
  <2>12. Sent(s, t)
    BY <2>4, <2>7 DEF Sent
  <2> QED  BY <2>1, <2>7, <2>11, <2>12
<1> QED  BY <1>1, <1>2

\* DoRetransmit sends one segment and starts the timer.
LEMMA DoRetransmitBoard ==
  ASSUME NEW s, Board(s), s.head < s.highTxMark
  PROVE  LET t == DoRetransmit(s)
         IN  Board(t) /\ Sent(s, t) /\ t.retxEvent
<1> DEFINE seq == IF LostToSend(s) # {} THEN Min(LostToSend(s))
                  ELSE IF s.highTxMark < s.tail THEN s.highTxMark
                  ELSE s.head
           u == [s EXCEPT !.nextTxSequence = seq]
           t == SendDataPackets(u, {seq})
<1>1. DoRetransmit(s) = t
  BY DEF DoRetransmit
<1>2. seq \in Segments /\ seq < s.tail
  <2>1. CASE LostToSend(s) # {}
    <3>1. LostToSend(s) \in SUBSET SentList(s)
      BY DEF LostToSend, Board
    <3>2. seq \in SentList(s)
      BY <2>1, <3>1, MinOf, BoardTypes
    <3> HIDE DEF seq
    <3> QED  BY <3>2, BoardTypes DEF SentList
  <2>2. CASE LostToSend(s) = {}
    <3>1. seq \in {s.head, s.highTxMark} /\ seq < s.tail
      BY <2>2, BoardTypes
    <3> HIDE DEF seq
    <3>2. seq \in Nat /\ seq < NumSegs
      BY <3>1, BoardTypes, Numbers
    <3> QED  BY <3>1, <3>2, Numbers
  <2> QED  BY <2>1, <2>2
<1> HIDE DEF seq
<1>3. Board(u) /\ Sent(s, u)
  BY <1>2, NextMoves, Numbers
<1> HIDE DEF u
<1>4. {seq} \in SUBSET Segments /\ \A x \in {seq} : x < u.tail
  BY <1>2, <1>3 DEF Sent, Same
<1>5. Board(t) /\ Sent(u, t) /\ t.retxEvent
  BY <1>3, <1>4, SendPacketsBoard
<1>6. Sent(s, t)
  BY <1>3, <1>5, SentTrans
<1> QED  BY <1>1, <1>5, <1>6

\* The bytes in flight are a number,
LEMMA FlightType ==
  ASSUME NEW s, Board(s)
  PROVE  BytesInFlight(s) \in Nat
<1>1. Cardinality(SentList(s) \ (s.sacked \cup s.lost)) \in Nat
      /\ Cardinality(s.retrans) \in Nat
  <2>1. SentList(s) \ (s.sacked \cup s.lost) \in SUBSET Segments
    BY BoardTypes
  <2> QED  BY <2>1, BoardTypes, Finite
<1> QED  BY <1>1, SegSizeAssumption DEF BytesInFlight

\* and so is the room the window leaves.
LEMMA RoomType ==
  ASSUME NEW s, Board(s), s.cc.cWnd \in Nat
  PROVE  Room(s) \in Nat /\ Budget(s) \in Nat
<1>1. Room(s) \in Nat
  <2> DEFINE window == s.cc.cWnd - BytesInFlight(s)
  <2>1. window \in Int
    BY FlightType
  <2>2. Room(s) = IF window <= 0 THEN 0 ELSE window \div SegSize
    BY DEF Room
  <2>3. SegSize \in Nat \ {0}
    BY SegSizeAssumption
  <2> HIDE DEF window
  <2>4. window > 0 => window \in Nat
    BY <2>1
  <2> QED  BY <2>1, <2>2, <2>3, <2>4, Quotient
<1>2. Smaller(1, Room(s)) \in Nat
  BY <1>1, TwoNumbers
<1> QED  BY <1>1, <1>2 DEF Budget

\* SendPendingData keeps the scoreboard, and runs the timer if it sent.
LEMMA SendPendingBoard ==
  ASSUME NEW s, Board(s), s.cc.cWnd \in Nat
  PROVE  LET t == SendPendingData(s)
         IN  /\ Board(t) /\ Sent(s, t)
             /\ FirstOf(LostToSend(s), Budget(s)) # {} => t.retxEvent
<1> DEFINE budget  == Budget(s)
           again   == FirstOf(LostToSend(s), budget)
           left    == budget - Cardinality(again)
           high    == Smaller(s.tail, s.highTxMark + left)
           new     == s.highTxMark .. high - 1
           rule3   == IF s.sackEnabled /\ s.congState = "RECOVERY"
                      THEN (s.head .. high - 1) \ (s.sacked \cup s.retrans \cup again)
                      ELSE {}
           extra   == FirstOf(rule3, left - Cardinality(new))
           last    == IF extra # {} THEN extra ELSE IF new # {} THEN new ELSE again
           first   == SendDataPackets(s, again \cup new)
           sent    == SendDataPackets(first, extra)
           t       == [sent EXCEPT !.nextTxSequence = Max(last) + 1]
<1>1. SendPendingData(s) = IF last = {} THEN s ELSE t
  BY DEF SendPendingData
<1>2. again \in SUBSET Segments /\ \A x \in again : x < s.tail
  <2>1. again \subseteq LostToSend(s) /\ LostToSend(s) \subseteq SentList(s)
    BY FirstMembers DEF LostToSend, Board
  <2> HIDE DEF again
  <2>2. again \in SUBSET Segments
    BY <2>1, BoardTypes
  <2> QED  BY <2>1, <2>2, BoardTypes DEF SentList
<1>3. left \in Int
  <2>1. budget \in Nat
    BY RoomType
  <2> HIDE DEF again
  <2> QED  BY <2>1, <1>2, Finite
<1>4. high \in Int /\ high <= s.tail
  <2>1. s.highTxMark + left \in Int
    <3> HIDE DEF left
    <3> QED  BY <1>3, BoardTypes
  <2> HIDE DEF left
  <2> QED  BY <2>1, TwoNumbers, BoardTypes
<1>5. /\ \A x \in new : x \in Nat /\ x < s.tail
      /\ \A x \in s.head .. high - 1 : x \in Nat /\ x < s.tail
  <2> HIDE DEF high
  <2> QED  BY <1>4, BoardTypes
<1>6. new \in SUBSET Segments /\ s.head .. high - 1 \in SUBSET Segments
  <2>1. \A x \in Nat : x < s.tail => x \in Segments
    <3>1. s.tail \in Nat /\ s.tail <= NumSegs /\ NumSegs \in Nat
      BY BoardTypes, Numbers
    <3> QED  BY <3>1, Numbers
  <2> HIDE DEF high
  <2> QED  BY <1>5, <2>1
<1>7. extra \in SUBSET Segments /\ \A x \in extra : x < s.tail
  <2>1. rule3 \subseteq s.head .. high - 1
    <3> HIDE DEF high, again
    <3> QED  OBVIOUS
  <2>2. extra \subseteq rule3
    <3> HIDE DEF rule3, left, new
    <3> QED  BY FirstMembers
  <2> HIDE DEF rule3, extra, high
  <2> QED  BY <2>1, <2>2, <1>5, <1>6
<1>8. last \in SUBSET Segments /\ (again # {} => last # {})
  <2> HIDE DEF again, new, extra
  <2> QED  BY <1>2, <1>6, <1>7
<1>9. Board(first) /\ Sent(s, first) /\ (again \cup new # {} => first.retxEvent)
  <2>1. again \cup new \in SUBSET Segments /\ \A x \in again \cup new : x < s.tail
    <3> HIDE DEF again, new
    <3> QED  BY <1>2, <1>5, <1>6
  <2> DEFINE all == again \cup new
  <2> HIDE DEF all
  <2>2. /\ Board(SendDataPackets(s, all)) /\ Sent(s, SendDataPackets(s, all))
        /\ (all # {} => SendDataPackets(s, all).retxEvent)
    BY <2>1, SendPacketsBoard DEF all
  <2> QED  BY <2>2 DEF all
<1> HIDE DEF first, again, new, extra
<1>10. Board(sent) /\ Sent(first, sent)
  <2>1. first.tail = s.tail
    BY <1>9 DEF Sent, Same
  <2> QED  BY <2>1, <1>7, <1>9, SendPacketsBoard
<1>11. Sent(s, sent) /\ (again # {} => sent.retxEvent)
  <2>1. Sent(s, sent)
    BY <1>9, <1>10, SentTrans
  <2>2. again # {} => first.retxEvent
    BY <1>9
  <2> QED  BY <2>1, <2>2, <1>10 DEF Sent
<1> HIDE DEF sent, last
<1>12. CASE last = {}
  <2>1. s.highTxMark <= s.highTxMark
    BY BoardTypes
  <2>2. Sent(s, s)
    BY <2>1 DEF Sent, Same
  <2>3. again = {} /\ SendPendingData(s) = s
    BY <1>1, <1>8, <1>12
  <2> QED  BY <2>2, <2>3 DEF again
<1>13. CASE last # {}
  <2>1. Max(last) + 1 \in Seqs
    BY <1>8, <1>13, MaxOf, Numbers
  <2>2. Board(t) /\ Sent(sent, t) /\ t.retxEvent = sent.retxEvent
    <3> DEFINE n == Max(last) + 1
    <3> HIDE DEF n
    <3>1. LET u == [sent EXCEPT !.nextTxSequence = n]
          IN  Board(u) /\ Sent(sent, u) /\ u.retxEvent = sent.retxEvent
      BY <2>1, <1>10, NextMoves DEF n
    <3> QED  BY <3>1 DEF n
  <2> HIDE DEF t
  <2>3. Sent(s, t)
    BY <2>2, <1>10, <1>11, SentTrans
  <2>4. SendPendingData(s) = t /\ (again # {} => t.retxEvent)
    BY <1>1, <1>11, <1>13, <2>2
  <2> QED  BY <2>2, <2>3, <2>4 DEF again
<1> QED  BY <1>12, <1>13

-----------------------------------------------------------------------------
(***************************************************************************)
(* The congestion control                                                  *)
(***************************************************************************)
\* SwiftFlow and its proofs speak of the methods that SwiftSender calls.
LEMMA SameMethods ==
  \A c, rtt, st, segs, ack, next, ttl :
     /\ Flow!PktsAcked(c, rtt) = PktsAcked(c, rtt)
     /\ Flow!CongestionStateSet(c, st, next) = CongestionStateSet(c, st, next)
     /\ Flow!GetSsThresh(c) = GetSsThresh(c)
     /\ Flow!IncreaseWindow(c, segs, ack, next, ttl)
           = IncreaseWindow(c, segs, ack, next, ttl)
     /\ FlowProofs!PktsAcked(c, rtt) = PktsAcked(c, rtt)
     /\ FlowProofs!CongestionStateSet(c, st, next) = CongestionStateSet(c, st, next)
     /\ FlowProofs!GetSsThresh(c) = GetSsThresh(c)
     /\ FlowProofs!IncreaseWindow(c, segs, ack, next, ttl)
           = IncreaseWindow(c, segs, ack, next, ttl)
<1>1. \A a, b :
         /\ Flow!Larger(a, b) = Larger(a, b)
         /\ FlowProofs!Larger(a, b) = Larger(a, b)
    BY DEF Larger, Flow!Larger, FlowProofs!Larger
<1>2. \A a, b :
         /\ Flow!Smaller(a, b) = Smaller(a, b)
         /\ FlowProofs!Smaller(a, b) = Smaller(a, b)
    BY DEF Smaller, Flow!Smaller, FlowProofs!Smaller
<1>3. Flow!CntRttCap = CntRttCap /\ FlowProofs!CntRttCap = CntRttCap
    BY DEF CntRttCap, Flow!CntRttCap, FlowProofs!CntRttCap
<1>4. \A c, rtt :
         /\ Flow!PktsAcked(c, rtt) = PktsAcked(c, rtt)
         /\ FlowProofs!PktsAcked(c, rtt) = PktsAcked(c, rtt)
    BY <1>1, <1>2, <1>3 DEF PktsAcked, Flow!PktsAcked, FlowProofs!PktsAcked
<1>5. \A c, st, next :
         /\ Flow!CongestionStateSet(c, st, next) = CongestionStateSet(c, st, next)
         /\ FlowProofs!CongestionStateSet(c, st, next) = CongestionStateSet(c, st, next)
    BY DEF CongestionStateSet, Flow!CongestionStateSet, FlowProofs!CongestionStateSet,
         EnableSwift, Flow!EnableSwift, FlowProofs!EnableSwift, DisableSwift,
         Flow!DisableSwift, FlowProofs!DisableSwift
<1>6. \A c :
         /\ Flow!GetSsThresh(c) = GetSsThresh(c)
         /\ FlowProofs!GetSsThresh(c) = GetSsThresh(c)
    BY <1>1, <1>2 DEF GetSsThresh, Flow!GetSsThresh, FlowProofs!GetSsThresh
<1>7. \A c, segs :
         /\ Flow!SlowStart(c, segs) = SlowStart(c, segs)
         /\ FlowProofs!SlowStart(c, segs) = SlowStart(c, segs)
    BY DEF SlowStart, Flow!SlowStart, FlowProofs!SlowStart
<1>8. \A c, segs :
         /\ Flow!CongestionAvoidance(c, segs) = CongestionAvoidance(c, segs)
         /\ FlowProofs!CongestionAvoidance(c, segs) = CongestionAvoidance(c, segs)
    BY <1>1 DEF CongestionAvoidance, Flow!CongestionAvoidance,
         FlowProofs!CongestionAvoidance
<1>9. \A c, segs :
         /\ Flow!NewRenoIncreaseWindow(c, segs) = NewRenoIncreaseWindow(c, segs)
         /\ FlowProofs!NewRenoIncreaseWindow(c, segs) = NewRenoIncreaseWindow(c, segs)
    BY <1>1, <1>7, <1>8 DEF NewRenoIncreaseWindow, Flow!NewRenoIncreaseWindow,
         FlowProofs!NewRenoIncreaseWindow
<1>10. \A c, ttl :
         /\ Flow!TargetDelay(c, ttl) = TargetDelay(c, ttl)
         /\ FlowProofs!TargetDelay(c, ttl) = TargetDelay(c, ttl)
    BY DEF TargetDelay, Flow!TargetDelay, FlowProofs!TargetDelay, HopCount,
         Flow!HopCount, FlowProofs!HopCount
<1>11. \A a, b :
         /\ Flow!DynamicAlpha(a, b) = DynamicAlpha(a, b)
         /\ FlowProofs!DynamicAlpha(a, b) = DynamicAlpha(a, b)
    BY <1>1, <1>2 DEF DynamicAlpha, Flow!DynamicAlpha, FlowProofs!DynamicAlpha
<1>12. \A a, b, c :
         /\ Flow!Reduced(a, b, c) = Reduced(a, b, c)
         /\ FlowProofs!Reduced(a, b, c) = Reduced(a, b, c)
    BY <1>1 DEF Reduced, Flow!Reduced, FlowProofs!Reduced
<1>13. \A c, ttl :
         /\ Flow!Aimd(c, ttl) = Aimd(c, ttl)
         /\ FlowProofs!Aimd(c, ttl) = Aimd(c, ttl)
    BY <1>1, <1>10, <1>11, <1>12 DEF Aimd, Flow!Aimd, FlowProofs!Aimd
<1>14. \A c, segs, ttl :
         /\ Flow!AdjustWindow(c, segs, ttl) = AdjustWindow(c, segs, ttl)
         /\ FlowProofs!AdjustWindow(c, segs, ttl) = AdjustWindow(c, segs, ttl)
    BY <1>1, <1>7, <1>13 DEF AdjustWindow, Flow!AdjustWindow, FlowProofs!AdjustWindow
<1>15. \A c :
         /\ Flow!SetPacingRate(c) = SetPacingRate(c)
         /\ FlowProofs!SetPacingRate(c) = SetPacingRate(c)
    BY DEF SetPacingRate, Flow!SetPacingRate, FlowProofs!SetPacingRate
<1>16. \A c, segs, next, ttl :
         /\ Flow!EndCycle(c, segs, next, ttl) = EndCycle(c, segs, next, ttl)
         /\ FlowProofs!EndCycle(c, segs, next, ttl) = EndCycle(c, segs, next, ttl)
    BY <1>9, <1>14, <1>15 DEF EndCycle, Flow!EndCycle, FlowProofs!EndCycle
<1>17. \A c, segs, ack, next, ttl :
         /\ Flow!IncreaseWindow(c, segs, ack, next, ttl) = IncreaseWindow(c, segs, ack, next, ttl)
         /\ FlowProofs!IncreaseWindow(c, segs, ack, next, ttl) =
              IncreaseWindow(c, segs, ack, next, ttl)
    BY <1>7, <1>9, <1>16 DEF IncreaseWindow, Flow!IncreaseWindow,
         FlowProofs!IncreaseWindow
<1> QED  BY <1>4, <1>5, <1>6, <1>17

\* The two instances of SwiftFlow have the same steps.
LEMMA SameSteps ==
  /\ FlowProofs!Init <=> Flow!Init
  /\ FlowProofs!Next <=> Flow!Next
  /\ FlowProofs!vars = Flow!vars
<1>1. FlowProofs!Init <=> Flow!Init
  BY DEF FlowProofs!Init, Flow!Init, FlowProofs!NewSwift, Flow!NewSwift
<1>2. FlowProofs!vars = Flow!vars
  BY DEF FlowProofs!vars, Flow!vars
<1>3. \A c, n : FlowProofs!FastRecovery(c, n) = Flow!FastRecovery(c, n)
  <2> TAKE c, n
  <2> DEFINE d == CongestionStateSet(c, "RECOVERY", n)
             thresh == GetSsThresh(d)
             u == [d EXCEPT !.ssThresh = thresh, !.cWnd = thresh]
  <2>1. FlowProofs!CongestionStateSet(c, "RECOVERY", n) = d
        /\ Flow!CongestionStateSet(c, "RECOVERY", n) = d
    BY SameMethods, Zenon
  <2> HIDE DEF d
  <2>2. FlowProofs!GetSsThresh(d) = thresh /\ Flow!GetSsThresh(d) = thresh
    BY SameMethods, Zenon
  <2> HIDE DEF thresh
  <2>3. FlowProofs!FastRecovery(c, n) = u
    BY <2>1, <2>2 DEF FlowProofs!FastRecovery
  <2>4. Flow!FastRecovery(c, n) = u
    BY <2>1, <2>2 DEF Flow!FastRecovery
  <2> QED  BY <2>3, <2>4
<1>4. \A c, a, b, n : FlowProofs!DupAck(c, a, b, n) = Flow!DupAck(c, a, b, n)
  BY <1>3, SameMethods DEF FlowProofs!DupAck, Flow!DupAck
<1>5. \A a : FlowProofs!DupAckTargets(a) = Flow!DupAckTargets(a)
  BY DEF FlowProofs!DupAckTargets, Flow!DupAckTargets
<1>6. \A rtt, segs, ack, next, ttl :
         /\ FlowProofs!AckWithoutAdvance(rtt, next) <=> Flow!AckWithoutAdvance(rtt, next)
         /\ FlowProofs!AckAdvances(rtt, segs, ack, next, ttl)
               <=> Flow!AckAdvances(rtt, segs, ack, next, ttl)
  BY <1>4, <1>5, SameMethods
  DEF FlowProofs!AckWithoutAdvance, Flow!AckWithoutAdvance, FlowProofs!AckAdvances,
      Flow!AckAdvances
<1>7. \A rtt, segs, ack, next, ttl :
         /\ FlowProofs!DisorderResolved(rtt, segs, ack, next, ttl)
               <=> Flow!DisorderResolved(rtt, segs, ack, next, ttl)
         /\ FlowProofs!RecoveryEnds(rtt, next) <=> Flow!RecoveryEnds(rtt, next)
         /\ FlowProofs!LossEnds(rtt, segs, ack, next, ttl)
               <=> Flow!LossEnds(rtt, segs, ack, next, ttl)
  BY SameMethods
  DEF FlowProofs!DisorderResolved, Flow!DisorderResolved, FlowProofs!RecoveryEnds,
      Flow!RecoveryEnds, FlowProofs!LossEnds, Flow!LossEnds
<1>8. FlowProofs!Ack <=> Flow!Ack
  BY <1>6, <1>7 DEF FlowProofs!Ack, Flow!Ack
<1>9. FlowProofs!Timeout <=> Flow!Timeout
  BY SameMethods DEF FlowProofs!Timeout, Flow!Timeout
<1>10. FlowProofs!RepeatedSynAck <=> Flow!RepeatedSynAck
  BY DEF FlowProofs!RepeatedSynAck, Flow!RepeatedSynAck
<1>11. FlowProofs!Next <=> Flow!Next
  BY <1>8, <1>9, <1>10 DEF FlowProofs!Next, Flow!Next
<1> QED  BY <1>1, <1>2, <1>11

\* The assumptions of SwiftFlow hold of the sender's constants.
LEMMA FlowAssumptions ==
  /\ FlowProofs!SegSizeAssumption /\ FlowProofs!AlphaBetaAssumption
  /\ FlowProofs!InitialWindowAssumption /\ FlowProofs!UintAssumption
  /\ FlowProofs!ClockAssumption /\ FlowProofs!RttAssumption /\ FlowProofs!SeqAssumption
  /\ FlowProofs!TtlAssumption /\ FlowProofs!BoundAssumption
<1>1. FlowProofs!RttAssumption /\ FlowProofs!SeqAssumption /\ FlowProofs!TtlAssumption
      /\ FlowProofs!BoundAssumption
  BY SampleAssumption, NumSegsAssumption, BoundAssumption
  DEF FlowProofs!RttAssumption, FlowProofs!SeqAssumption, FlowProofs!TtlAssumption, Seqs,
      FlowProofs!BoundAssumption
<1>2. /\ FlowProofs!SegSizeAssumption /\ FlowProofs!AlphaBetaAssumption
      /\ FlowProofs!InitialWindowAssumption /\ FlowProofs!UintAssumption
      /\ FlowProofs!ClockAssumption
  BY SegSizeAssumption, AlphaBetaAssumption, InitialWindowAssumption, UintAssumption,
     ClockAssumption
  DEF FlowProofs!SegSizeAssumption, FlowProofs!AlphaBetaAssumption,
      FlowProofs!InitialWindowAssumption, FlowProofs!UintAssumption,
      FlowProofs!ClockAssumption
<1> QED  BY <1>1, <1>2

\* What SwiftFlow's invariant says holds of the congestion control of the sender.
LEMMA FlowInit == Flow!Init => FlowProofs!IInv
<1>1. FlowProofs!Init => FlowProofs!IInv
  BY FlowProofs!InvInit, FlowAssumptions, Zenon
<1> QED  BY <1>1, SameSteps

\* And so it does after a step that SwiftFlow allows.
LEMMA FlowStep == FlowProofs!IInv /\ [Flow!Next]_(Flow!vars) => FlowProofs!IInv'
<1>1. FlowProofs!IInv /\ [FlowProofs!Next]_(FlowProofs!vars) => FlowProofs!IInv'
  BY FlowProofs!InvStep, FlowAssumptions, Zenon
<1>2. FlowProofs!vars = Flow!vars /\ FlowProofs!vars' = Flow!vars'
  BY DEF FlowProofs!vars, Flow!vars
<1> QED  BY <1>1, <1>2, SameSteps

\* It gives the congestion control of the sender its type.
LEMMA FlowTypes ==
  FlowProofs!IInv => /\ snd.cc \in SwiftState /\ snd.congState \in CongStates
                     /\ snd.cc.cWnd \in Nat
<1>1. FlowProofs!SwiftState = SwiftState
  BY DEF FlowProofs!SwiftState, SwiftState, FlowProofs!Windows, Windows,
         FlowProofs!PacingRates, PacingRates, FlowProofs!Times, Times,
         FlowProofs!CntRttCap, CntRttCap
<1>2. FlowProofs!CongStates = CongStates
  BY DEF FlowProofs!CongStates, CongStates
<1>3. FlowProofs!IInv => snd.cc \in SwiftState /\ snd.congState \in CongStates
  BY <1>1, <1>2 DEF FlowProofs!IInv, FlowProofs!Consistent
<1>4. \A c \in SwiftState : c.cWnd \in Nat
  BY UintAssumption DEF SwiftState, Windows
<1> QED  BY <1>3, <1>4

-----------------------------------------------------------------------------
(***************************************************************************)
(* Counters and calls to the congestion control                            *)
(***************************************************************************)
\* t has the scoreboard of s.
Body(s, t) ==
    /\ t \in Sender(t.cc)
    /\ t.sackEnabled = s.sackEnabled /\ t.head = s.head /\ t.tail = s.tail
    /\ t.highTxMark = s.highTxMark /\ t.sacked = s.sacked /\ t.lost = s.lost
    /\ t.retrans = s.retrans /\ t.out = s.out /\ t.endPoint = s.endPoint

\* And its counters, and the timer and the next number to send.
Kept(s, t) ==
    /\ Body(s, t)
    /\ t.nextTxSequence = s.nextTxSequence /\ t.retxEvent = s.retxEvent
    /\ t.dupAckCount = s.dupAckCount /\ t.recover = s.recover
    /\ t.recoverActive = s.recoverActive
    /\ t.isFirstPartialAck = s.isFirstPartialAck

\* A scoreboard that is left alone stays in order.
LEMMA BodyBoard ==
  ASSUME NEW s, Board(s), NEW t, Body(s, t)
  PROVE  Board(t)
<1>1. SentList(t) = SentList(s)
  BY DEF Body, SentList
<1> QED  BY <1>1 DEF Board, Body

\* A new congestion state is told to the congestion control.
LEMMA SetCongStateBoard ==
  ASSUME NEW s, Board(s), NEW st \in CongStates
  PROVE  LET t == SetCongState(s, st)
         IN  /\ Board(t) /\ Kept(s, t) /\ t.congState = st
             /\ t.cc = CongestionStateSet(s.cc, st, s.nextTxSequence)
<1> DEFINE c == CongestionStateSet(s.cc, st, s.nextTxSequence)
           t == [s EXCEPT !.cc = c, !.congState = st]
<1>1. SetCongState(s, st) = t
  BY DEF SetCongState
<1> HIDE DEF c
<1>2. Kept(s, t) /\ t.congState = st /\ t.cc = c
  BY DEF Board, Sender, Kept, Body
<1>3. Board(t)
  <2> HIDE DEF t
  <2> QED  BY <1>2, BodyBoard DEF Kept
<1> QED  BY <1>1, <1>2, <1>3 DEF c

\* A new congestion control leaves the rest of the sender alone;
LEMMA NewControl ==
  ASSUME NEW s, Board(s), NEW c
  PROVE  LET t == [s EXCEPT !.cc = c]
         IN  Board(t) /\ Kept(s, t) /\ t.congState = s.congState /\ t.cc = c
<1> DEFINE t == [s EXCEPT !.cc = c]
<1>1. Kept(s, t) /\ t.congState = s.congState /\ t.cc = c
  BY DEF Board, Sender, Kept, Body
<1> HIDE DEF t
<1>2. Board(t)
  BY <1>1, BodyBoard DEF Kept
<1> QED  BY <1>1, <1>2 DEF t

\* so does PktsAcked,
LEMMA MeasuredBoard ==
  ASSUME NEW s, Board(s), NEW rtt
  PROVE  LET t == Measured(s, rtt)
         IN  /\ Board(t) /\ Kept(s, t) /\ t.congState = s.congState
             /\ t.cc = PktsAcked(s.cc, rtt)
<1> DEFINE c == PktsAcked(s.cc, rtt)
<1>1. Measured(s, rtt) = [s EXCEPT !.cc = c]
  BY DEF Measured
<1> HIDE DEF c
<1> QED  BY <1>1, NewControl DEF c

\* and IncreaseWindow.
LEMMA IncreasedBoard ==
  ASSUME NEW s, Board(s), NEW segs, NEW ack, NEW ttl
  PROVE  LET t == Increased(s, segs, ack, ttl)
         IN  /\ Board(t) /\ Kept(s, t) /\ t.congState = s.congState
             /\ t.cc = IncreaseWindow(s.cc, segs, ack, s.nextTxSequence, ttl)
<1> DEFINE c == IncreaseWindow(s.cc, segs, ack, s.nextTxSequence, ttl)
<1>1. Increased(s, segs, ack, ttl) = [s EXCEPT !.cc = c]
  BY DEF Increased
<1> HIDE DEF c
<1> QED  BY <1>1, NewControl DEF c

\* The ACK of new data leaves the timer running if anything is left to wait for.
LEMMA NewAckBoard ==
  ASSUME NEW s, Board(s), NEW ack \in Seqs, NEW reset \in BOOLEAN, reset \/ s.retxEvent
  PROVE  LET t == NewAck(s, ack, reset)
         IN  /\ Board(t) /\ Body(s, t) /\ Timed(t)
             /\ t.congState = s.congState /\ t.cc = s.cc
             /\ t.dupAckCount = s.dupAckCount /\ t.recover = s.recover
             /\ t.recoverActive = s.recoverActive
             /\ t.isFirstPartialAck = s.isFirstPartialAck
<1> DEFINE runs == s.head < s.tail /\ (reset \/ s.retxEvent)
           next == Larger(s.nextTxSequence, ack)
           t == [s EXCEPT !.dataRetrCount = DataRetries, !.retxEvent = runs,
                          !.nextTxSequence = next]
<1>1. NewAck(s, ack, reset) = t
  BY DEF NewAck, Board, Sender
<1>2. next \in Seqs
  <2>1. s.nextTxSequence \in Seqs /\ s.nextTxSequence \in Nat /\ ack \in Nat
    BY BoardTypes, Numbers
  <2>2. next \in {s.nextTxSequence, ack}
    BY <2>1, TwoNumbers
  <2> QED  BY <2>1, <2>2
<1>3. runs \in BOOLEAN /\ DataRetries \in 0 .. DataRetries
  BY RetriesAssumption
<1>4. s.head < s.highTxMark => runs
  BY BoardTypes
<1> HIDE DEF runs, next
<1>5. /\ Body(s, t) /\ t.congState = s.congState /\ t.cc = s.cc
      /\ t.dupAckCount = s.dupAckCount /\ t.recover = s.recover
      /\ t.recoverActive = s.recoverActive
      /\ t.isFirstPartialAck = s.isFirstPartialAck /\ t.retxEvent = runs
  BY <1>2, <1>3 DEF Board, Sender, Body
<1> HIDE DEF t
<1>6. Board(t)
  BY <1>5, BodyBoard
<1>7. Timed(t)
  BY <1>4, <1>5 DEF Timed, Body
<1> QED  BY <1>1, <1>5, <1>6, <1>7

-----------------------------------------------------------------------------
(***************************************************************************)
(* Duplicate ACKs                                                          *)
(***************************************************************************)
\* t follows s in one handler: segments were sent, and none was SACKed.
Ahead(s, t) ==
    /\ Board(t) /\ t.head = s.head /\ t.tail = s.tail
    /\ t.sackEnabled = s.sackEnabled /\ t.endPoint = s.endPoint
    /\ s.highTxMark <= t.highTxMark
    /\ s.sackEnabled => t.sacked \subseteq s.sacked

\* And the timer that ran runs.
Onward(s, t) ==
    /\ Ahead(s, t)
    /\ Timed(s) => Timed(t)
    /\ s.retxEvent => t.retxEvent

\* Ahead holds of two changes in a row.
LEMMA AheadTrans ==
  ASSUME NEW s, Board(s), NEW t, NEW u, Ahead(s, t), Ahead(t, u)
  PROVE  Ahead(s, u)
<1>1. s.highTxMark \in Nat /\ t.highTxMark \in Nat /\ u.highTxMark \in Nat
  BY BoardTypes DEF Ahead
<1> QED  BY <1>1 DEF Ahead

\* What leaves the scoreboard alone is Ahead.
LEMMA AheadBody ==
  ASSUME NEW s, Board(s), NEW t, Board(t), Body(s, t)
  PROVE  Ahead(s, t)
<1>1. s.highTxMark <= t.highTxMark
  BY BoardTypes DEF Body
<1> QED  BY <1>1 DEF Ahead, Body

\* Onward holds of two changes in a row,
LEMMA OnwardTrans ==
  ASSUME NEW s, Board(s), NEW t, NEW u, Onward(s, t), Onward(t, u)
  PROVE  Onward(s, u)
  BY AheadTrans DEF Onward

\* of changes of the flags that SACK nothing,
LEMMA OnwardRemarked ==
  ASSUME NEW s, Board(s), NEW t, Board(t), Remarked(s, t),
         s.sackEnabled => t.sacked \subseteq s.sacked
  PROVE  Onward(s, t)
<1>1. s.highTxMark <= t.highTxMark
  BY BoardTypes DEF Remarked
<1> QED  BY <1>1 DEF Onward, Ahead, Remarked, Same, Timed

\* of sending,
LEMMA OnwardSent ==
  ASSUME NEW s, Board(s), NEW t, Board(t), Sent(s, t)
  PROVE  Onward(s, t)
<1>1. s.retxEvent \in BOOLEAN /\ t.retxEvent \in BOOLEAN
  BY BoardTypes
<1> QED  BY <1>1 DEF Onward, Ahead, Sent, Same, Timed

\* and of what leaves the scoreboard alone and stops no timer.
LEMMA OnwardBody ==
  ASSUME NEW s, Board(s), NEW t, Board(t), Body(s, t),
         s.retxEvent => t.retxEvent
  PROVE  Onward(s, t)
<1>1. s.highTxMark <= t.highTxMark
  BY BoardTypes DEF Body
<1> QED  BY <1>1 DEF Onward, Ahead, Body, Timed

\* The congestion control after fast recovery began.
Recovered(c) ==
    LET thresh == GetSsThresh(DisableSwift(c))
    IN  [DisableSwift(c) EXCEPT !.ssThresh = thresh, !.cWnd = thresh]

\* What DupAck calls on the way from congestion state st to st2.
DupCalls(c, st, c2, st2) ==
    \/ st2 = st /\ c2 = c
    \/ st = "OPEN" /\ st2 = "DISORDER" /\ c2 = DisableSwift(c)
    \/ st \in {"OPEN", "DISORDER"} /\ st2 = "RECOVERY" /\ c2 = Recovered(c)

\* Switching Swift off twice is switching it off.
LEMMA DisabledOnce ==
  ASSUME NEW c \in SwiftState
  PROVE  DisableSwift(DisableSwift(c)) = DisableSwift(c)
  BY DEF DisableSwift, SwiftState

\* EnterRecovery keeps the scoreboard, sends the head and leaves the timer running.
LEMMA EnterRecoveryBoard ==
  ASSUME NEW s, Board(s), s.head < s.highTxMark
  PROVE  LET t == EnterRecovery(s)
         IN  /\ Onward(s, t) /\ t.retxEvent
             /\ t.congState = "RECOVERY" /\ t.cc = Recovered(s.cc)
             /\ t.recoverActive /\ t.recover = s.highTxMark
<1> DEFINE guessed == AddRenoSack(s)
           m == IF ~s.sackEnabled THEN MarkHeadAsLost(guessed)
                ELSE IF s.head \in s.lost THEN s
                ELSE MarkHeadAsLost(s)
           u == [m EXCEPT !.recover = s.highTxMark, !.recoverActive = TRUE]
           v == SetCongState(u, "RECOVERY")
           thresh == GetSsThresh(v.cc)
           w == [v EXCEPT !.cc.ssThresh = thresh, !.cc.cWnd = thresh]
           c == [v.cc EXCEPT !.ssThresh = thresh, !.cWnd = thresh]
           t == DoRetransmit(w)
<1>1. EnterRecovery(s) = t
  BY DEF EnterRecovery
<1>2. Board(m) /\ Remarked(s, m) /\ (s.sackEnabled => m.sacked \subseteq s.sacked)
  <2>1. CASE ~s.sackEnabled
    <3>1. Board(guessed) /\ Remarked(s, guessed)
      BY AddRenoSackBoard
    <3> HIDE DEF guessed
    <3>2. guessed.head < guessed.highTxMark
      BY <3>1 DEF Remarked
    <3>3. Board(MarkHeadAsLost(guessed)) /\ Remarked(guessed, MarkHeadAsLost(guessed))
      BY <3>1, <3>2, MarkHeadBoard
    <3> QED  BY <2>1, <3>1, <3>3, RemarkedTrans
  <2>2. CASE s.sackEnabled /\ s.head \in s.lost
    BY <2>2 DEF Remarked, Same
  <2>3. CASE s.sackEnabled /\ s.head \notin s.lost
    BY <2>3, MarkHeadBoard
  <2> QED  BY <2>1, <2>2, <2>3
<1> HIDE DEF m
<1>3. Onward(s, m) /\ m.highTxMark = s.highTxMark /\ m.head = s.head /\ m.cc = s.cc
  BY <1>2, OnwardRemarked DEF Remarked, Same
<1>4. /\ Board(u) /\ Body(m, u) /\ u.retxEvent = m.retxEvent /\ u.cc = m.cc
      /\ u.recover = s.highTxMark /\ u.recoverActive = TRUE
  <2>1. s.highTxMark \in Seqs
    BY BoardTypes
  <2>2. /\ Body(m, u) /\ u.retxEvent = m.retxEvent /\ u.cc = m.cc
        /\ u.recover = s.highTxMark /\ u.recoverActive = TRUE
    BY <1>2, <2>1 DEF Board, Sender, Body
  <2> HIDE DEF u
  <2> QED  BY <1>2, <2>2, BodyBoard
<1> HIDE DEF u
<1>5. Onward(m, u)
  BY <1>2, <1>4, OnwardBody
<1>6. /\ Board(v) /\ Kept(u, v) /\ v.congState = "RECOVERY"
      /\ v.cc = DisableSwift(s.cc)
  <2>1. /\ Board(v) /\ Kept(u, v) /\ v.congState = "RECOVERY"
        /\ v.cc = CongestionStateSet(u.cc, "RECOVERY", u.nextTxSequence)
    BY <1>4, SetCongStateBoard DEF CongStates
  <2> HIDE DEF v
  <2> QED  BY <2>1, <1>3, <1>4 DEF CongestionStateSet
<1> HIDE DEF v
<1>7. Onward(u, v)
  BY <1>4, <1>6, OnwardBody DEF Kept
<1>8. c = Recovered(s.cc)
  BY <1>6 DEF Recovered
<1>9. Board(w) /\ Kept(v, w) /\ w.congState = "RECOVERY" /\ w.cc = c
  <2>1. w = [v EXCEPT !.cc = c]
    <3> HIDE DEF thresh
    <3> QED  BY <1>6 DEF Board, Sender
  <2> HIDE DEF c, w
  <2> QED  BY <2>1, <1>6, NewControl
<1> HIDE DEF w, c
<1>10. Onward(v, w)
  BY <1>6, <1>9, OnwardBody DEF Kept
<1>11. w.head < w.highTxMark
  BY <1>3, <1>4, <1>6, <1>9 DEF Kept, Body
<1>12. Board(t) /\ Sent(w, t) /\ t.retxEvent
  BY <1>9, <1>11, DoRetransmitBoard
<1> HIDE DEF t
<1>13. Onward(w, t)
  BY <1>9, <1>12, OnwardSent
<1>14. Onward(s, t)
  <2>1. Onward(s, u)
    BY <1>3, <1>5, OnwardTrans
  <2>2. Onward(s, v)
    BY <2>1, <1>7, OnwardTrans
  <2>3. Onward(s, w)
    BY <2>2, <1>10, OnwardTrans
  <2> QED  BY <2>3, <1>13, OnwardTrans
<1>15. /\ t.congState = "RECOVERY" /\ t.cc = Recovered(s.cc)
       /\ t.recoverActive /\ t.recover = s.highTxMark
  <2>1. /\ t.congState = w.congState /\ t.cc = w.cc
        /\ t.recoverActive = w.recoverActive /\ t.recover = w.recover
    BY <1>12 DEF Sent, Same
  <2>2. w.recoverActive = TRUE /\ w.recover = s.highTxMark
    BY <1>4, <1>6, <1>9 DEF Kept
  <2> QED  BY <2>1, <2>2, <1>8, <1>9
<1> QED  BY <1>1, <1>12, <1>14, <1>15

\* The count reaches the threshold in Disorder only together with fast recovery.
LEMMA DisorderBoard ==
  ASSUME NEW s, Board(s), s.head < s.highTxMark, s.congState = "DISORDER",
         s.dupAckCount \in 1 .. RetxThresh, s.isFirstPartialAck, ~s.recoverActive
  PROVE  LET t == DupAckInDisorder(s)
         IN  /\ Onward(s, t)
             /\ \/ /\ t.congState = "RECOVERY" /\ t.cc = Recovered(s.cc)
                   /\ t.recoverActive /\ t.recover = s.highTxMark
                \/ /\ t.congState = "DISORDER" /\ t.cc = s.cc /\ ~t.recoverActive
                   /\ t.dupAckCount \in 1 .. RetxThresh - 1
                   /\ t.isFirstPartialAck /\ t.recover = s.recover
<1> DEFINE enters == \/ /\ s.dupAckCount = RetxThresh
                        /\ (s.highRxAckMark >= s.recover \/ ~s.recoverActive)
                     \/ s.highRxAckMark + 1 \in s.lost
           t == IF ~s.sackEnabled /\ LimitedTx THEN AddRenoSack(s) ELSE s
<1>1. CASE enters
  <2>1. DupAckInDisorder(s) = EnterRecovery(s)
    BY <1>1 DEF DupAckInDisorder
  <2> QED  BY <2>1, EnterRecoveryBoard
<1>2. CASE ~enters
  <2>1. DupAckInDisorder(s) = t
    BY <1>2 DEF DupAckInDisorder
  <2>2. s.dupAckCount \in 1 .. RetxThresh - 1
    <3>1. s.dupAckCount # RetxThresh
      BY <1>2
    <3> QED  BY <3>1, RetxThreshAssumption
  <2>3. Board(t) /\ Remarked(s, t) /\ (s.sackEnabled => t.sacked \subseteq s.sacked)
    <3>1. CASE ~s.sackEnabled /\ LimitedTx
      BY <3>1, AddRenoSackBoard
    <3>2. CASE ~(~s.sackEnabled /\ LimitedTx)
      BY <3>2 DEF Remarked, Same
    <3> QED  BY <3>1, <3>2
  <2> HIDE DEF t, enters
  <2>4. Onward(s, t)
    BY <2>3, OnwardRemarked
  <2>5. /\ t.congState = "DISORDER" /\ t.cc = s.cc /\ ~t.recoverActive
        /\ t.dupAckCount \in 1 .. RetxThresh - 1
        /\ t.isFirstPartialAck /\ t.recover = s.recover
    BY <2>2, <2>3 DEF Remarked, Same
  <2> QED  BY <2>1, <2>4, <2>5
<1> QED  BY <1>1, <1>2

\* DupAck, in every congestion state.
LEMMA DupAckBoard ==
  ASSUME NEW s, Board(s), s.head < s.highTxMark, Counters(s), s.cc \in SwiftState
  PROVE  LET t == DupAck(s)
         IN  /\ Onward(s, t) /\ Counters(t)
             /\ DupCalls(s.cc, s.congState, t.cc, t.congState)
             /\ t.recover = IF t.congState = "RECOVERY" /\ s.congState # "RECOVERY"
                            THEN s.highTxMark ELSE s.recover
             /\ t.congState # "OPEN"
<1> DEFINE t == DupAck(s)
           u == [s EXCEPT !.dupAckCount = s.dupAckCount + 1]
           v == SetCongState(u, "DISORDER")
           fits(d) == \/ /\ d.congState = "RECOVERY" /\ d.recoverActive
                         /\ d.recover = s.highTxMark
                      \/ /\ d.congState = "DISORDER" /\ ~d.recoverActive
                         /\ d.dupAckCount \in 1 .. RetxThresh - 1
                         /\ d.isFirstPartialAck /\ d.recover = s.recover
<1>0. /\ s.congState \in CongStates /\ s.dupAckCount \in Nat
      /\ s.isFirstPartialAck \in BOOLEAN /\ s.recover \in Seqs
      /\ s.recoverActive \in BOOLEAN /\ s.highTxMark \in Nat
  BY BoardTypes
<1>1. /\ Board(u) /\ Body(s, u) /\ u.retxEvent = s.retxEvent
      /\ u.congState = s.congState /\ u.cc = s.cc /\ u.dupAckCount = s.dupAckCount + 1
      /\ u.isFirstPartialAck = s.isFirstPartialAck /\ u.recover = s.recover
      /\ u.recoverActive = s.recoverActive
  <2>1. s.dupAckCount + 1 \in Nat
    BY <1>0
  <2>2. /\ Body(s, u) /\ u.retxEvent = s.retxEvent
        /\ u.congState = s.congState /\ u.cc = s.cc
        /\ u.dupAckCount = s.dupAckCount + 1
        /\ u.isFirstPartialAck = s.isFirstPartialAck /\ u.recover = s.recover
        /\ u.recoverActive = s.recoverActive
    BY <2>1 DEF Board, Sender, Body
  <2> HIDE DEF u
  <2> QED  BY <2>2, BodyBoard
<1>2. Onward(s, u) /\ u.head < u.highTxMark
  <2> HIDE DEF u
  <2> QED  BY <1>1, OnwardBody DEF Body
<1>3. \A d : fits(d) => Counters(d)
  BY DEF Counters
<1>4. CASE s.congState = "LOSS" \/ (s.congState = "RECOVERY" /\ s.sackEnabled)
  <2>1. t = s
    BY <1>4 DEF DupAck
  <2>2. Onward(s, s)
    BY <1>0, <1>4 DEF Onward, Ahead
  <2> QED  BY <2>1, <2>2, <1>4 DEF DupCalls
<1>5. CASE s.congState = "RECOVERY" /\ ~s.sackEnabled
  <2>1. t = AddRenoSack(s)
    BY <1>5 DEF DupAck
  <2>2. Board(t) /\ Remarked(s, t)
    BY <2>1, AddRenoSackBoard
  <2> HIDE DEF t
  <2>3. Onward(s, t)
    BY <2>2, <1>5, OnwardRemarked
  <2>4. Counters(t)
    BY <2>2, <1>5 DEF Counters, Remarked, Same
  <2>5. DupCalls(s.cc, s.congState, t.cc, t.congState) /\ t.recover = s.recover
        /\ t.congState = s.congState
    BY <2>2 DEF DupCalls, Remarked, Same
  <2> QED  BY <2>3, <2>4, <2>5, <1>5 DEF t
<1>6. CASE s.congState = "DISORDER"
  <2>1. t = DupAckInDisorder(u)
    BY <1>6 DEF DupAck
  <2>2. u.dupAckCount \in 1 .. RetxThresh /\ u.isFirstPartialAck /\ ~u.recoverActive
    <3>1. /\ s.dupAckCount \in 1 .. RetxThresh - 1 /\ s.isFirstPartialAck
          /\ ~s.recoverActive
      BY <1>6 DEF Counters
    <3> HIDE DEF u
    <3> QED  BY <3>1, <1>1, RetxThreshAssumption
  <2> HIDE DEF u
  <2>3. /\ Onward(u, t) /\ fits(t)
        /\ \/ t.congState = "RECOVERY" /\ t.cc = Recovered(u.cc)
           \/ t.congState = "DISORDER" /\ t.cc = u.cc
    <3>1. u.highTxMark = s.highTxMark
      BY <1>1 DEF Body
    <3> QED  BY <2>1, <2>2, <3>1, <1>1, <1>2, <1>6, DisorderBoard
  <2> HIDE DEF t
  <2>4. Onward(s, t)
    BY <1>2, <2>3, OnwardTrans
  <2>5. DupCalls(s.cc, s.congState, t.cc, t.congState)
    BY <2>3, <1>1, <1>6 DEF DupCalls
  <2>6. Counters(t)
    <3> HIDE DEF fits
    <3> QED  BY <2>3, <1>3
  <2> QED  BY <2>3, <2>4, <2>5, <2>6, <1>6 DEF t
<1>7. CASE s.congState = "OPEN"
  <2>1. t = DupAckInDisorder(v)
    BY <1>7 DEF DupAck
  <2> HIDE DEF u
  <2>2. /\ Board(v) /\ Kept(u, v) /\ v.congState = "DISORDER"
        /\ v.cc = DisableSwift(s.cc)
    <3>1. /\ Board(v) /\ Kept(u, v) /\ v.congState = "DISORDER"
          /\ v.cc = CongestionStateSet(u.cc, "DISORDER", u.nextTxSequence)
      BY <1>1, SetCongStateBoard DEF CongStates
    <3> HIDE DEF v
    <3> QED  BY <3>1, <1>1 DEF CongestionStateSet
  <2> HIDE DEF v
  <2>3. Onward(u, v)
    BY <1>1, <2>2, OnwardBody DEF Kept
  <2>4. /\ v.dupAckCount \in 1 .. RetxThresh /\ v.isFirstPartialAck /\ ~v.recoverActive
        /\ v.head < v.highTxMark /\ v.highTxMark = s.highTxMark /\ v.recover = s.recover
    <3>1. s.dupAckCount = 0 /\ s.isFirstPartialAck /\ ~s.recoverActive
      BY <1>7 DEF Counters
    <3>2. /\ v.dupAckCount = u.dupAckCount /\ v.isFirstPartialAck = u.isFirstPartialAck
          /\ v.recoverActive = u.recoverActive /\ v.recover = u.recover
          /\ v.head = u.head /\ v.highTxMark = u.highTxMark
          /\ u.highTxMark = s.highTxMark
      BY <2>2, <1>1 DEF Kept, Body
    <3> QED  BY <3>1, <3>2, <1>1, <1>2, RetxThreshAssumption
  <2>5. /\ Onward(v, t) /\ fits(t)
        /\ \/ t.congState = "RECOVERY" /\ t.cc = Recovered(v.cc)
           \/ t.congState = "DISORDER" /\ t.cc = v.cc
    BY <2>1, <2>2, <2>4, DisorderBoard
  <2> HIDE DEF t
  <2>6. Onward(s, t)
    <3>1. Onward(s, v)
      BY <1>2, <2>3, OnwardTrans
    <3> QED  BY <3>1, <2>5, OnwardTrans
  <2>7. Recovered(v.cc) = Recovered(s.cc)
    BY <2>2, DisabledOnce DEF Recovered
  <2>8. DupCalls(s.cc, s.congState, t.cc, t.congState)
    BY <2>2, <2>5, <2>7, <1>7 DEF DupCalls
  <2>9. Counters(t)
    <3> HIDE DEF fits
    <3> QED  BY <2>5, <1>3
  <2> QED  BY <2>5, <2>6, <2>8, <2>9, <1>7 DEF t
<1> QED  BY <1>0, <1>4, <1>5, <1>6, <1>7 DEF CongStates

-----------------------------------------------------------------------------
(***************************************************************************)
(* ACKs of new data                                                        *)
(***************************************************************************)
LEMMA PassBoard ==
  ASSUME NEW s, Board(s), NEW ack
  PROVE  LET t == PassRecover(s, ack)
         IN  /\ Board(t) /\ Body(s, t) /\ t.retxEvent = s.retxEvent
             /\ t.nextTxSequence = s.nextTxSequence /\ t.congState = s.congState
             /\ t.cc = s.cc /\ t.dupAckCount = s.dupAckCount
             /\ t.isFirstPartialAck = s.isFirstPartialAck /\ t.recover = s.recover
             /\ t.recoverActive <=> s.recoverActive /\ ack < s.recover
<1> DEFINE active == s.recoverActive /\ ack < s.recover
           t == [s EXCEPT !.recoverActive = active]
<1>1. PassRecover(s, ack) = t
  BY DEF PassRecover, Board, Sender
<1>2. active \in BOOLEAN
  OBVIOUS
<1> HIDE DEF active
<1>3. /\ Body(s, t) /\ t.retxEvent = s.retxEvent
      /\ t.nextTxSequence = s.nextTxSequence /\ t.congState = s.congState
      /\ t.cc = s.cc /\ t.dupAckCount = s.dupAckCount
      /\ t.isFirstPartialAck = s.isFirstPartialAck /\ t.recover = s.recover
      /\ t.recoverActive = active
  BY <1>2 DEF Board, Sender, Body
<1> HIDE DEF t
<1> QED  BY <1>1, <1>3, BodyBoard DEF active

\* The window grows and the timer restarts.
LEMMA GrowBoard ==
  ASSUME NEW s, Board(s), NEW segs, NEW ack \in Seqs, NEW ttl,
         NEW reset \in BOOLEAN, reset \/ s.retxEvent
  PROVE  LET t == NewAck(Increased(s, segs, ack, ttl), ack, reset)
         IN  /\ Ahead(s, t) /\ Timed(t) /\ t.congState = s.congState
             /\ t.cc = IncreaseWindow(s.cc, segs, ack, s.nextTxSequence, ttl)
             /\ t.dupAckCount = s.dupAckCount /\ t.recover = s.recover
             /\ t.recoverActive = s.recoverActive
             /\ t.isFirstPartialAck = s.isFirstPartialAck
             /\ t.sacked = s.sacked
<1> DEFINE u == Increased(s, segs, ack, ttl)
           t == NewAck(u, ack, reset)
<1>1. /\ Board(u) /\ Kept(s, u) /\ u.congState = s.congState
      /\ u.cc = IncreaseWindow(s.cc, segs, ack, s.nextTxSequence, ttl)
  BY IncreasedBoard
<1> HIDE DEF u
<1>2. /\ Board(t) /\ Body(u, t) /\ Timed(t) /\ t.congState = u.congState
      /\ t.cc = u.cc /\ t.dupAckCount = u.dupAckCount /\ t.recover = u.recover
      /\ t.recoverActive = u.recoverActive
      /\ t.isFirstPartialAck = u.isFirstPartialAck
  <2>1. reset \/ u.retxEvent
    BY <1>1 DEF Kept
  <2> QED  BY <2>1, <1>1, NewAckBoard
<1> HIDE DEF t
<1>3. Body(s, t)
  BY <1>1, <1>2 DEF Body, Kept
<1>4. Ahead(s, t)
  BY <1>2, <1>3, AheadBody
<1> QED  BY <1>1, <1>2, <1>3, <1>4 DEF Kept, Body, t, u

\* PartialAck fills the next hole and keeps the recovery point.
LEMMA PartialAckBoard ==
  ASSUME NEW s, Board(s), Counted(s), s.congState = "RECOVERY", s.head < s.recover,
         NEW ack \in Seqs, NEW rtt
  PROVE  LET t == PartialAck(s, ack, rtt)
         IN  /\ Ahead(s, t) /\ Counted(t) /\ Timed(t) /\ t.congState = "RECOVERY"
             /\ t.cc = PktsAcked(s.cc, rtt)
<1> DEFINE hole == IF s.sackEnabled THEN DeleteRetransmittedFlagFromHead(s)
                   ELSE MarkHeadAsLost(s)
           sent == DoRetransmit(hole)
           m == Measured(sent, rtt)
           n == NewAck(m, ack, s.isFirstPartialAck)
           t == [n EXCEPT !.isFirstPartialAck = FALSE]
<1>1. PartialAck(s, ack, rtt) = t
  BY DEF PartialAck
<1>2. /\ s.recover \in s.head .. s.highTxMark /\ s.recoverActive
      /\ s.head < s.highTxMark
  <2>1. s.recover \in s.head .. s.highTxMark /\ s.recoverActive
    BY DEF Counted, Counters
  <2> QED  BY <2>1, BoardTypes
<1>3. Board(hole) /\ Remarked(s, hole) /\ hole.sacked \subseteq s.sacked
  <2>1. CASE s.sackEnabled
    BY <2>1, DeleteFlagBoard
  <2>2. CASE ~s.sackEnabled
    BY <2>2, <1>2, MarkHeadBoard
  <2> QED  BY <2>1, <2>2
<1> HIDE DEF hole
<1>4. Board(sent) /\ Sent(hole, sent) /\ sent.retxEvent
  <2>1. hole.head < hole.highTxMark
    BY <1>2, <1>3 DEF Remarked
  <2> QED  BY <1>3, <2>1, DoRetransmitBoard
<1> HIDE DEF sent
<1>5. /\ Board(m) /\ Kept(sent, m) /\ m.congState = sent.congState
      /\ m.cc = PktsAcked(sent.cc, rtt)
  BY <1>4, MeasuredBoard
<1> HIDE DEF m
<1>6. /\ Board(n) /\ Body(m, n) /\ Timed(n) /\ n.congState = m.congState /\ n.cc = m.cc
      /\ n.recover = m.recover /\ n.recoverActive = m.recoverActive
  <2>1. s.isFirstPartialAck \in BOOLEAN
    BY BoardTypes
  <2>2. m.retxEvent
    BY <1>4, <1>5 DEF Kept
  <2> DEFINE first == s.isFirstPartialAck
  <2> HIDE DEF first
  <2>3. LET x == NewAck(m, ack, first)
        IN  /\ Board(x) /\ Body(m, x) /\ Timed(x) /\ x.congState = m.congState
            /\ x.cc = m.cc /\ x.recover = m.recover /\ x.recoverActive = m.recoverActive
    BY <1>5, <2>1, <2>2, NewAckBoard DEF first
  <2> QED  BY <2>3 DEF first
<1> HIDE DEF n
<1>7. /\ Body(n, t) /\ t.congState = n.congState /\ t.cc = n.cc
      /\ t.recover = n.recover /\ t.recoverActive = n.recoverActive
      /\ t.retxEvent = n.retxEvent
  BY <1>6 DEF Board, Sender, Body
<1> HIDE DEF t
<1>8. Board(t)
  BY <1>6, <1>7, BodyBoard
<1>9. Ahead(s, t)
  <2>1. Ahead(s, hole)
    BY <1>3, OnwardRemarked DEF Onward
  <2>2. Ahead(hole, sent)
    BY <1>3, <1>4, OnwardSent DEF Onward
  <2>3. Ahead(sent, m) /\ Ahead(m, n) /\ Ahead(n, t)
    BY <1>4, <1>5, <1>6, <1>7, <1>8, AheadBody DEF Kept
  <2>4. Ahead(s, sent)
    BY <2>1, <2>2, AheadTrans
  <2>5. Ahead(s, m)
    BY <2>3, <2>4, AheadTrans
  <2>6. Ahead(s, n)
    BY <2>3, <2>5, AheadTrans
  <2> QED  BY <2>3, <2>6, AheadTrans
<1>10. /\ t.congState = "RECOVERY" /\ t.cc = PktsAcked(s.cc, rtt)
       /\ t.recover = s.recover /\ t.recoverActive
  <2>1. hole.cc = s.cc /\ hole.congState = s.congState /\ hole.recover = s.recover
        /\ hole.recoverActive = s.recoverActive
    BY <1>3 DEF Remarked, Same
  <2>2. sent.cc = s.cc /\ sent.congState = s.congState /\ sent.recover = s.recover
        /\ sent.recoverActive = s.recoverActive
    BY <1>4, <2>1 DEF Sent, Same
  <2>3. m.recover = s.recover /\ m.recoverActive = s.recoverActive
    BY <1>5, <2>2 DEF Kept
  <2> QED  BY <1>2, <1>5, <1>6, <1>7, <2>2, <2>3
<1>11. Timed(t)
  BY <1>6, <1>7 DEF Timed, Body
<1>12. Counted(t)
  <2>1. t.head = s.head /\ s.highTxMark <= t.highTxMark
    BY <1>9 DEF Ahead
  <2>2. s.head \in Nat /\ s.highTxMark \in Nat /\ t.highTxMark \in Nat
    BY <1>8, BoardTypes
  <2>3. t.recover \in t.head .. t.highTxMark
    BY <1>2, <1>10, <2>1, <2>2
  <2> QED  BY <1>10, <2>3 DEF Counted, Counters
<1> QED  BY <1>1, <1>9, <1>10, <1>11, <1>12

\* LossAck lets the window grow and keeps the recovery point.
LEMMA LossAckBoard ==
  ASSUME NEW s, Board(s), Counted(s), s.congState = "LOSS",
         NEW ack \in Seqs, NEW segs, NEW rtt, NEW ttl
  PROVE  LET t == LossAck(s, ack, segs, rtt, ttl)
         IN  /\ Ahead(s, t) /\ Counted(t) /\ Timed(t) /\ t.congState = "LOSS"
             /\ t.cc = IncreaseWindow(PktsAcked(s.cc, rtt), segs, ack,
                                      s.nextTxSequence, ttl)
<1> DEFINE m == Measured(s, rtt)
           t == NewAck(Increased(m, segs, ack, ttl), ack, TRUE)
<1>1. LossAck(s, ack, segs, rtt, ttl) = t
  BY DEF LossAck
<1>2. /\ Board(m) /\ Kept(s, m) /\ m.congState = s.congState
      /\ m.cc = PktsAcked(s.cc, rtt)
  BY MeasuredBoard
<1> HIDE DEF m
<1>3. /\ Ahead(m, t) /\ Timed(t) /\ t.congState = m.congState
      /\ t.cc = IncreaseWindow(m.cc, segs, ack, m.nextTxSequence, ttl)
      /\ t.dupAckCount = m.dupAckCount /\ t.recover = m.recover
      /\ t.recoverActive = m.recoverActive
      /\ t.isFirstPartialAck = m.isFirstPartialAck /\ t.sacked = m.sacked
  <2> DEFINE yes == TRUE
             u == NewAck(Increased(m, segs, ack, ttl), ack, yes)
  <2>1. t = u /\ yes \in BOOLEAN /\ (yes \/ m.retxEvent)
    OBVIOUS
  <2> HIDE DEF yes, t
  <2>2. /\ Ahead(m, u) /\ Timed(u) /\ u.congState = m.congState
        /\ u.cc = IncreaseWindow(m.cc, segs, ack, m.nextTxSequence, ttl)
        /\ u.dupAckCount = m.dupAckCount /\ u.recover = m.recover
        /\ u.recoverActive = m.recoverActive
        /\ u.isFirstPartialAck = m.isFirstPartialAck /\ u.sacked = m.sacked
    BY <1>2, <2>1, GrowBoard
  <2> HIDE DEF u
  <2> QED  BY <2>1, <2>2
<1> HIDE DEF t
<1>4. Ahead(s, m)
  BY <1>2, AheadBody DEF Kept
<1>5. Ahead(s, t)
  BY <1>3, <1>4, AheadTrans
<1>6. Counted(t)
  <2>1. /\ t.head = s.head /\ s.highTxMark <= t.highTxMark
        /\ t.sackEnabled = s.sackEnabled
    BY <1>5 DEF Ahead
  <2>2. s.head \in Nat /\ s.highTxMark \in Nat /\ t.highTxMark \in Nat
    BY <1>5, BoardTypes DEF Ahead
  <2>3. s.recover \in s.head .. s.highTxMark
    BY DEF Counted, Counters
  <2>4. t.recover \in t.head .. t.highTxMark
    BY <1>2, <1>3, <2>1, <2>2, <2>3 DEF Kept
  <2>5. Counters(t)
    BY <1>2, <1>3, <2>1 DEF Counted, Counters, Kept, Body
  <2> QED  BY <2>4, <2>5 DEF Counted
<1> QED  BY <1>1, <1>2, <1>3, <1>5, <1>6 DEF Kept

\* What FullAck calls on the way from congestion state st to st2.
FullCalls(c, st, c2, st2, isDupack, rtt, segs, ack, n, ttl) ==
    \/ /\ st = "OPEN" /\ st2 = "OPEN"
       /\ c2 = IncreaseWindow(PktsAcked(c, rtt), segs, ack, n, ttl)
    \/ /\ st = "DISORDER" /\ isDupack /\ st2 = "DISORDER"
       /\ c2 \in {IncreaseWindow(PktsAcked(c, rtt), segs, ack, n, ttl),
                  IncreaseWindow(c, segs, ack, n, ttl)}
    \/ /\ st = "DISORDER" /\ ~isDupack /\ st2 = "OPEN"
       /\ c2 \in {IncreaseWindow(CongestionStateSet(PktsAcked(c, rtt), "OPEN", n),
                                 segs, ack, n, ttl),
                  IncreaseWindow(CongestionStateSet(c, "OPEN", n), segs, ack, n, ttl)}
    \/ /\ st = "RECOVERY" /\ st2 = "OPEN"
       /\ c2 = CongestionStateSet(PktsAcked(c, rtt), "OPEN", n)
    \/ /\ st = "LOSS" /\ st2 = "OPEN"
       /\ c2 = IncreaseWindow(CongestionStateSet(PktsAcked(c, rtt), "OPEN", n),
                              segs, ack, n, ttl)

\* The counters when FullAck is called.
Reached(s, ack, isDupack) ==
    /\ s.congState \in {"OPEN", "DISORDER"} => s.isFirstPartialAck /\ ~s.recoverActive
    /\ s.congState \in {"RECOVERY", "LOSS"} => ~(ack < s.recover)
    /\ s.congState = "OPEN" => ~isDupack
    /\ ~isDupack \/ s.congState = "LOSS" => s.dupAckCount = 0
    /\ s.congState = "DISORDER" /\ isDupack => s.dupAckCount \in 1 .. RetxThresh - 1

\* FullAck, in every congestion state, for an ACK at or beyond the recovery point.
LEMMA FullAckBoard ==
  ASSUME NEW s, Board(s), NEW ack \in Seqs, NEW isDupack \in BOOLEAN,
         Reached(s, ack, isDupack), NEW segs, NEW old, NEW rtt, NEW ttl
  PROVE  LET t == FullAck(s, ack, segs, old, isDupack, rtt, ttl)
         IN  /\ Ahead(s, t) /\ Counted(t) /\ Timed(t)
             /\ FullCalls(s.cc, s.congState, t.cc, t.congState, isDupack, rtt,
                          IF s.congState = "LOSS" THEN ack - s.recover ELSE segs,
                          ack, s.nextTxSequence, ttl)
<1> DEFINE p == PassRecover(s, ack)
           m == Measured(p, rtt)
           t == FullAck(s, ack, segs, old, isDupack, rtt, ttl)
           grown(g, n) == NewAck(Increased(g, n, ack, ttl), ack, TRUE)
<1>0. s.congState \in CongStates
  BY BoardTypes
<1>1. /\ Board(p) /\ Body(s, p) /\ p.retxEvent = s.retxEvent
      /\ p.nextTxSequence = s.nextTxSequence /\ p.congState = s.congState
      /\ p.cc = s.cc /\ p.dupAckCount = s.dupAckCount
      /\ p.isFirstPartialAck = s.isFirstPartialAck /\ p.recover = s.recover
      /\ (p.recoverActive <=> s.recoverActive /\ ack < s.recover)
  BY PassBoard
<1>2. t = CASE s.congState = "OPEN" -> grown(m, segs)
            [] s.congState = "DISORDER" ->
                 grown(DisorderAck(p, segs, old, isDupack, rtt), segs)
            [] s.congState = "RECOVERY" -> NewAck(LeaveRecovery(p, rtt), ack, TRUE)
            [] s.congState = "LOSS" -> grown(LeaveLoss(p, rtt), ack - s.recover)
  BY DEF FullAck
<1> HIDE DEF p, t
<1>3. Board(m) /\ Kept(p, m) /\ m.congState = p.congState /\ m.cc = PktsAcked(p.cc, rtt)
  BY <1>1, MeasuredBoard
<1> HIDE DEF m
<1>4. ~p.recoverActive
  BY <1>0, <1>1 DEF Reached, CongStates
<1>5. Body(s, m) /\ m.nextTxSequence = s.nextTxSequence /\ m.dupAckCount = s.dupAckCount
      /\ m.isFirstPartialAck = s.isFirstPartialAck /\ ~m.recoverActive
  BY <1>1, <1>3, <1>4 DEF Body, Kept
\* What follows a scoreboard that is still that of s.
<1>6. ASSUME NEW g, Board(g), Body(s, g), NEW n
      PROVE  /\ Ahead(s, grown(g, n)) /\ Timed(grown(g, n))
             /\ grown(g, n).congState = g.congState
             /\ grown(g, n).cc = IncreaseWindow(g.cc, n, ack, g.nextTxSequence, ttl)
             /\ grown(g, n).dupAckCount = g.dupAckCount
             /\ grown(g, n).recoverActive = g.recoverActive
             /\ grown(g, n).isFirstPartialAck = g.isFirstPartialAck
  <2> DEFINE yes == TRUE
             u == NewAck(Increased(g, n, ack, ttl), ack, yes)
  <2>1. grown(g, n) = u /\ yes \in BOOLEAN /\ (yes \/ g.retxEvent)
    OBVIOUS
  <2> HIDE DEF yes
  <2>3. /\ Ahead(g, u) /\ Timed(u) /\ u.congState = g.congState
        /\ u.cc = IncreaseWindow(g.cc, n, ack, g.nextTxSequence, ttl)
        /\ u.dupAckCount = g.dupAckCount /\ u.recoverActive = g.recoverActive
        /\ u.isFirstPartialAck = g.isFirstPartialAck
    BY <1>6, <2>1, GrowBoard
  <2> HIDE DEF u
  <2> HIDE DEF grown
  <2>2. Ahead(s, g)
    BY <1>6, AheadBody
  <2> QED  BY <2>1, <2>2, <2>3, AheadTrans
<1> HIDE DEF grown
<1>7. ASSUME ~t.recoverActive, t.congState \in {"OPEN", "DISORDER"}, t.isFirstPartialAck,
             t.congState = "OPEN" => t.dupAckCount = 0,
             t.congState = "DISORDER" => t.dupAckCount \in 1 .. RetxThresh - 1
      PROVE  Counted(t)
  BY <1>7 DEF Counted, Counters
<1>8. CASE s.congState = "OPEN"
  <2>1. t = grown(m, segs)
    BY <1>2, <1>8
  <2>2. /\ Ahead(s, t) /\ Timed(t) /\ t.congState = m.congState
        /\ t.cc = IncreaseWindow(m.cc, segs, ack, m.nextTxSequence, ttl)
        /\ t.dupAckCount = m.dupAckCount /\ t.recoverActive = m.recoverActive
        /\ t.isFirstPartialAck = m.isFirstPartialAck
    BY <2>1, <1>3, <1>5, <1>6
  <2>3. t.congState = "OPEN" /\ t.cc = IncreaseWindow(PktsAcked(s.cc, rtt), segs, ack,
                                                      s.nextTxSequence, ttl)
    BY <2>2, <1>1, <1>3, <1>5, <1>8
  <2>4. Counted(t)
    BY <2>2, <2>3, <1>5, <1>7, <1>8 DEF Reached
  <2> QED  BY <2>2, <2>3, <2>4, <1>8 DEF FullCalls, t
<1>9. CASE s.congState = "DISORDER"
  <2> DEFINE x == IF segs >= old THEN m ELSE p
             y == SetCongState(x, "OPEN")
             d == DisorderAck(p, segs, old, isDupack, rtt)
  <2>1. d = IF isDupack THEN x ELSE y
    BY DEF DisorderAck, m
  <2>2. t = grown(d, segs)
    BY <1>2, <1>9
  <2>3. /\ Board(x) /\ Body(s, x) /\ x.nextTxSequence = s.nextTxSequence
        /\ x.dupAckCount = s.dupAckCount /\ x.isFirstPartialAck = s.isFirstPartialAck
        /\ ~x.recoverActive /\ x.congState = s.congState
        /\ x.cc \in {PktsAcked(s.cc, rtt), s.cc}
    BY <1>1, <1>3, <1>4, <1>5
  <2> HIDE DEF d, x
  <2>4. CASE isDupack
    <3>1. t = grown(x, segs)
      BY <2>1, <2>2, <2>4
    <3>2. /\ Ahead(s, t) /\ Timed(t) /\ t.congState = x.congState
          /\ t.cc = IncreaseWindow(x.cc, segs, ack, x.nextTxSequence, ttl)
          /\ t.dupAckCount = x.dupAckCount /\ t.recoverActive = x.recoverActive
          /\ t.isFirstPartialAck = x.isFirstPartialAck
      BY <3>1, <2>3, <1>6
    <3>3. Counted(t)
      BY <3>2, <2>3, <2>4, <1>7, <1>9 DEF Reached
    <3>4. t.cc \in {IncreaseWindow(PktsAcked(s.cc, rtt), segs, ack, s.nextTxSequence, ttl),
                    IncreaseWindow(s.cc, segs, ack, s.nextTxSequence, ttl)}
      BY <3>2, <2>3
    <3> QED  BY <3>2, <3>3, <3>4, <2>3, <2>4, <1>9 DEF FullCalls, t
  <2>5. CASE ~isDupack
    <3>0. t = grown(y, segs)
      BY <2>1, <2>2, <2>5
    <3>1. /\ Board(y) /\ Kept(x, y) /\ y.congState = "OPEN"
          /\ y.cc = CongestionStateSet(x.cc, "OPEN", x.nextTxSequence)
      BY <2>3, SetCongStateBoard DEF CongStates
    <3> HIDE DEF y
    <3>2. Body(s, y)
      BY <3>1, <2>3 DEF Kept, Body
    <3>3. /\ Ahead(s, t) /\ Timed(t) /\ t.congState = y.congState
          /\ t.cc = IncreaseWindow(y.cc, segs, ack, y.nextTxSequence, ttl)
          /\ t.dupAckCount = y.dupAckCount /\ t.recoverActive = y.recoverActive
          /\ t.isFirstPartialAck = y.isFirstPartialAck
      BY <3>0, <3>1, <3>2, <1>6
    <3>4. Counted(t)
      BY <3>1, <3>3, <2>3, <2>5, <1>7, <1>9 DEF Reached, Kept
    <3>5. y.nextTxSequence = s.nextTxSequence
          /\ y.cc = CongestionStateSet(x.cc, "OPEN", s.nextTxSequence)
      BY <3>1, <2>3 DEF Kept
    <3>6. t.cc \in {IncreaseWindow(CongestionStateSet(PktsAcked(s.cc, rtt), "OPEN",
                                                      s.nextTxSequence),
                                   segs, ack, s.nextTxSequence, ttl),
                    IncreaseWindow(CongestionStateSet(s.cc, "OPEN", s.nextTxSequence),
                                   segs, ack, s.nextTxSequence, ttl)}
      BY <3>3, <3>5, <2>3
    <3> QED  BY <3>1, <3>3, <3>4, <3>6, <2>5, <1>9 DEF FullCalls, t
  <2> QED  BY <2>4, <2>5
<1> DEFINE z == SetCongState(m, "OPEN")
<1>10. /\ Board(z) /\ Body(s, z) /\ z.nextTxSequence = s.nextTxSequence
       /\ z.dupAckCount = s.dupAckCount /\ ~z.recoverActive /\ z.congState = "OPEN"
       /\ z.cc = CongestionStateSet(PktsAcked(s.cc, rtt), "OPEN", s.nextTxSequence)
  <2>1. /\ Board(z) /\ Kept(m, z) /\ z.congState = "OPEN"
        /\ z.cc = CongestionStateSet(m.cc, "OPEN", m.nextTxSequence)
    BY <1>3, SetCongStateBoard DEF CongStates
  <2> HIDE DEF z
  <2> QED  BY <2>1, <1>1, <1>3, <1>5 DEF Kept, Body
<1>11. CASE s.congState = "RECOVERY"
  <2> DEFINE g == LeaveRecovery(p, rtt)
  <2>1. g = [z EXCEPT !.isFirstPartialAck = TRUE, !.dupAckCount = 0]
    BY DEF LeaveRecovery, m
  <2>2. t = NewAck(g, ack, TRUE)
    BY <1>2, <1>11
  <2> HIDE DEF g, z
  <2>3. /\ Body(z, g) /\ g.dupAckCount = 0 /\ g.isFirstPartialAck
        /\ g.recoverActive = z.recoverActive /\ g.congState = z.congState /\ g.cc = z.cc
    BY <2>1, <1>10 DEF Board, Sender, Body
  <2>4. Board(g) /\ Body(s, g)
    BY <2>3, <1>10, BodyBoard DEF Body
  <2>5. /\ Board(t) /\ Body(g, t) /\ Timed(t) /\ t.congState = g.congState /\ t.cc = g.cc
        /\ t.dupAckCount = g.dupAckCount /\ t.recoverActive = g.recoverActive
        /\ t.isFirstPartialAck = g.isFirstPartialAck
    BY <2>2, <2>4, NewAckBoard
  <2>6. Body(s, t)
    BY <2>4, <2>5 DEF Body
  <2>7. Ahead(s, t)
    BY <2>5, <2>6, AheadBody
  <2>8. Counted(t)
    BY <2>3, <2>5, <1>7, <1>10
  <2> QED  BY <2>3, <2>5, <2>7, <2>8, <1>10, <1>11 DEF FullCalls, t
<1>12. CASE s.congState = "LOSS"
  <2> DEFINE g == LeaveLoss(p, rtt)
             n == ack - s.recover
  <2>1. g = [z EXCEPT !.isFirstPartialAck = TRUE]
    BY DEF LeaveLoss, m
  <2>2. t = grown(g, n)
    BY <1>2, <1>12
  <2> HIDE DEF g, z, n
  <2>3. /\ Body(z, g) /\ g.dupAckCount = z.dupAckCount /\ g.isFirstPartialAck
        /\ g.recoverActive = z.recoverActive /\ g.congState = z.congState /\ g.cc = z.cc
        /\ g.nextTxSequence = z.nextTxSequence
    BY <2>1, <1>10 DEF Board, Sender, Body
  <2>4. Board(g) /\ Body(s, g)
    BY <2>3, <1>10, BodyBoard DEF Body
  <2>5. /\ Ahead(s, t) /\ Timed(t) /\ t.congState = g.congState
        /\ t.cc = IncreaseWindow(g.cc, n, ack, g.nextTxSequence, ttl)
        /\ t.dupAckCount = g.dupAckCount /\ t.recoverActive = g.recoverActive
        /\ t.isFirstPartialAck = g.isFirstPartialAck
    BY <2>2, <2>4, <1>6
  <2>6. Counted(t)
    BY <2>3, <2>5, <1>7, <1>10, <1>12 DEF Reached
  <2>7. FullCalls(s.cc, s.congState, t.cc, t.congState, isDupack, rtt, n,
                  ack, s.nextTxSequence, ttl)
    BY <2>3, <2>5, <1>10, <1>12 DEF FullCalls
  <2> QED  BY <2>5, <2>6, <2>7, <1>12 DEF n, t
<1> QED  BY <1>0, <1>8, <1>9, <1>11, <1>12 DEF CongStates

\* What an ACK calls on the way from congestion state st to st2.
AckCalls(c, st, c2, st2, rtt, segs, ack, n, ttl) ==
    \/ \E d : /\ DupCalls(c, st, d, st2)
              /\ \/ c2 \in {d, PktsAcked(d, rtt)}
                 \/ /\ st2 # "RECOVERY"
                    /\ c2 = IncreaseWindow(PktsAcked(d, rtt), segs, ack, n, ttl)
                 \/ /\ st2 = "DISORDER"
                    /\ c2 = IncreaseWindow(d, segs, ack, n, ttl)
    \/ /\ st # "OPEN" /\ st2 = "OPEN"
       /\ FullCalls(c, st, c2, st2, FALSE, rtt, segs, ack, n, ttl)

\* DupAck and then FullAck make the calls of one ACK.
LEMMA DupThenFull ==
  ASSUME NEW c, NEW st, NEW d, NEW sd, DupCalls(c, st, d, sd), NEW c2, NEW st2,
         NEW isDupack \in BOOLEAN, NEW rtt, NEW segs, NEW ack, NEW n, NEW ttl,
         FullCalls(d, sd, c2, st2, isDupack, rtt, segs, ack, n, ttl),
         ~isDupack \/ sd # "DISORDER" => d = c /\ sd = st
  PROVE  AckCalls(c, st, c2, st2, rtt, segs, ack, n, ttl)
<1>1. CASE sd = "OPEN" \/ (sd = "DISORDER" /\ isDupack)
  <2>1. /\ st2 = sd /\ st2 # "RECOVERY"
        /\ \/ c2 = IncreaseWindow(PktsAcked(d, rtt), segs, ack, n, ttl)
           \/ st2 = "DISORDER" /\ c2 = IncreaseWindow(d, segs, ack, n, ttl)
    BY <1>1 DEF FullCalls
  <2> QED  BY <2>1 DEF AckCalls
<1>2. CASE ~(sd = "OPEN" \/ (sd = "DISORDER" /\ isDupack))
  <2>1. d = c /\ sd = st /\ st # "OPEN"
    BY <1>2
  <2>2. st2 = "OPEN" /\ FullCalls(c, st, c2, st2, FALSE, rtt, segs, ack, n, ttl)
    BY <1>2, <2>1 DEF FullCalls
  <2> QED  BY <2>1, <2>2 DEF AckCalls
<1> QED  BY <1>1, <1>2

\* ProcessAck, with the scoreboard already up to date.
LEMMA ProcessAckBoard ==
  ASSUME NEW p, Board(p), p.cc \in SwiftState, NEW ack, ack = p.head,
         NEW old \in Seqs, old <= ack, Counters(p), Timed(p),
         p.recoverActive => p.recover \in old .. p.highTxMark,
         old < ack => p.retxEvent,
         NEW updated \in BOOLEAN, p.sackEnabled /\ updated => ack < p.highTxMark,
         NEW rtt, NEW ttl
  PROVE  LET t == ProcessAck(p, ack, updated, old, rtt, ttl)
         IN  /\ Ahead(p, t) /\ Counted(t) /\ Timed(t)
             /\ \E n, segs \in Seqs : AckCalls(p.cc, p.congState, t.cc, t.congState,
                                               rtt, segs, ack, n, ttl)
<1> DEFINE isDupack == IF p.sackEnabled THEN updated ELSE ack = old /\ ack < p.highTxMark
           d == IF isDupack THEN DupAck(p) ELSE p
           a == IF isDupack THEN d ELSE [d EXCEPT !.dupAckCount = 0]
           t == ProcessAck(p, ack, updated, old, rtt, ttl)
           calls(x, n, segs) == AckCalls(p.cc, p.congState, x.cc, x.congState,
                                         rtt, segs, ack, n, ttl)
<1>1. t = IF ack = old /\ ack = p.highTxMark THEN d
          ELSE IF ack = old THEN Measured(d, rtt)
          ELSE IF ack < a.recover /\ a.congState = "RECOVERY" THEN PartialAck(a, ack, rtt)
          ELSE IF ack < a.recover /\ a.congState = "LOSS"
               THEN LossAck(a, ack, ack - old, rtt, ttl)
          ELSE FullAck(a, ack, ack - old, p.dupAckCount, isDupack, rtt, ttl)
  BY DEF ProcessAck
<1>2. isDupack \in BOOLEAN /\ (isDupack => p.head < p.highTxMark)
  OBVIOUS
<1>3. /\ ack \in Nat /\ ack \in Seqs /\ old \in Nat /\ p.highTxMark \in Nat
      /\ ack - old \in Seqs /\ 0 \in Seqs
  <2>1. ack \in Nat /\ ack \in Seqs /\ old \in Nat /\ p.highTxMark \in Nat
    BY BoardTypes, Numbers
  <2>2. ack - old \in Nat /\ ack - old <= NumSegs /\ 0 <= NumSegs
    BY <2>1, Numbers
  <2> QED  BY <2>1, <2>2, Numbers
<1> HIDE DEF isDupack, t
<1>4. /\ Onward(p, d) /\ Counters(d)
      /\ DupCalls(p.cc, p.congState, d.cc, d.congState)
      /\ \/ d.recover = p.recover /\ (d.congState = "RECOVERY" => p.congState = "RECOVERY")
         \/ d.recover = p.highTxMark /\ isDupack
      /\ ~isDupack => d = p
      /\ isDupack => d.congState # "OPEN"
  <2>1. CASE isDupack
    <3>1. d = DupAck(p) /\ p.head < p.highTxMark
      BY <2>1, <1>2
    <3> HIDE DEF d
    <3> QED  BY <2>1, <3>1, DupAckBoard
  <2>2. CASE ~isDupack
    <3>1. d = p
      BY <2>2
    <3>2. Onward(p, p)
      BY <1>3 DEF Onward, Ahead
    <3> QED  BY <2>2, <3>1, <3>2 DEF DupCalls
  <2> QED  BY <2>1, <2>2
<1>5. /\ Board(d) /\ d.head = ack /\ p.highTxMark <= d.highTxMark /\ d.highTxMark \in Nat
      /\ d.congState \in CongStates /\ d.nextTxSequence \in Seqs
  <2> HIDE DEF d
  <2> QED  BY <1>4, BoardTypes DEF Onward, Ahead
<1> HIDE DEF d
<1>6. d.recoverActive => d.recover \in old .. d.highTxMark
  <2>1. ASSUME d.recoverActive, d.recover = p.recover,
               d.congState = "RECOVERY" => p.congState = "RECOVERY"
        PROVE  d.recover \in old .. d.highTxMark
    <3>1. d.congState \in {"RECOVERY", "LOSS"}
      BY <2>1, <1>4 DEF Counters
    <3>2. p.congState \in {"RECOVERY", "LOSS"}
      BY <2>1, <3>1, <1>4 DEF DupCalls
    <3>3. p.recover \in old .. p.highTxMark
      BY <3>2 DEF Counters
    <3> QED  BY <2>1, <3>3, <1>3, <1>5
  <2>2. ASSUME d.recover = p.highTxMark
        PROVE  d.recover \in old .. d.highTxMark
    <3>1. old <= p.highTxMark
      BY <1>3, BoardTypes
    <3> QED  BY <2>2, <3>1, <1>3, <1>5
  <2> QED  BY <2>1, <2>2, <1>4
<1>7. CASE ack = old
  <2>0. Ahead(p, d) /\ Timed(d) /\ Counted(d)
    BY <1>4, <1>5, <1>6, <1>7 DEF Onward, Counted
  <2>1. CASE ack = p.highTxMark
    <3>1. t = d
      BY <1>1, <1>7, <2>1
    <3>2. calls(t, 0, 0)
      BY <3>1, <1>4 DEF AckCalls
    <3> QED  BY <2>0, <3>1, <3>2, <1>3 DEF t
  <2>2. CASE ack # p.highTxMark
    <3>1. t = Measured(d, rtt)
      BY <1>1, <1>7, <2>2
    <3>2. Board(t) /\ Kept(d, t) /\ t.congState = d.congState /\ t.cc = PktsAcked(d.cc, rtt)
      BY <3>1, <1>5, MeasuredBoard
    <3>3. Ahead(d, t)
      BY <1>5, <3>2, AheadBody DEF Kept
    <3>4. Ahead(p, t)
      BY <2>0, <3>3, AheadTrans
    <3>5. Timed(t) /\ Counted(t)
      BY <2>0, <3>2 DEF Timed, Counted, Counters, Kept, Body
    <3>6. calls(t, 0, 0)
      BY <3>2, <1>4 DEF AckCalls
    <3> QED  BY <3>4, <3>5, <3>6, <1>3 DEF t
  <2> QED  BY <2>1, <2>2
<1>8. CASE ack # old
  <2>0. old < ack /\ p.retxEvent /\ d.retxEvent
    BY <1>3, <1>4, <1>8 DEF Onward
  <2>1. /\ Board(a) /\ Body(d, a) /\ a.congState = d.congState /\ a.cc = d.cc
        /\ a.recover = d.recover /\ a.recoverActive = d.recoverActive
        /\ a.isFirstPartialAck = d.isFirstPartialAck
        /\ a.nextTxSequence = d.nextTxSequence
        /\ a.dupAckCount = IF isDupack THEN d.dupAckCount ELSE 0
    <3>1. CASE isDupack
      <4>1. Body(d, d)
        BY <1>5 DEF Body, Board
      <4> QED  BY <3>1, <4>1, <1>5
    <3>2. CASE ~isDupack
      <4> DEFINE x == [d EXCEPT !.dupAckCount = 0]
      <4>1. /\ Body(d, x) /\ x.congState = d.congState /\ x.cc = d.cc
            /\ x.recover = d.recover /\ x.recoverActive = d.recoverActive
            /\ x.isFirstPartialAck = d.isFirstPartialAck
            /\ x.nextTxSequence = d.nextTxSequence /\ x.dupAckCount = 0
        BY <1>5 DEF Board, Sender, Body
      <4>2. a = x
        BY <3>2
      <4> HIDE DEF x, a
      <4>3. Board(x)
        BY <4>1, <1>5, BodyBoard
      <4> QED  BY <3>2, <4>1, <4>2, <4>3
    <3> QED  BY <3>1, <3>2
  <2> HIDE DEF a
  <2>2. Ahead(p, a) /\ a.head = ack /\ a.highTxMark = d.highTxMark
    <3>1. Ahead(d, a)
      BY <2>1, <1>5, AheadBody
    <3>2. Ahead(p, d)
      BY <1>4 DEF Onward
    <3>3. Ahead(p, a)
      BY <3>1, <3>2, AheadTrans
    <3> QED  BY <3>3, <2>1, <1>5 DEF Body
  <2>3. DupCalls(p.cc, p.congState, a.cc, a.congState)
    BY <2>1, <1>4
  <2>4. ASSUME NEW x, Ahead(a, x)
        PROVE  Ahead(p, x)
    BY <2>2, <2>4, AheadTrans
  <2>5. ASSUME a.congState \in {"RECOVERY", "LOSS"}, ack < a.recover
        PROVE  Counted(a)
    <3>1. a.recover \in ack .. a.highTxMark
      <4>1. d.recoverActive
        BY <2>5, <2>1, <1>4 DEF Counters
      <4>2. a.recover \in old .. d.highTxMark /\ ack < a.recover
        BY <4>1, <2>1, <2>5, <1>6
      <4> QED  BY <4>2, <2>2, <1>3, <1>5
    <3>2. a.dupAckCount \in {0, d.dupAckCount}
      BY <2>1
    <3>3. a.sackEnabled = d.sackEnabled /\ a.sacked = d.sacked
      BY <2>1 DEF Body
    <3>4. Counters(a)
      BY <2>5, <3>2, <3>3, <2>1, <1>4 DEF Counters
    <3> QED  BY <3>1, <3>4, <2>2 DEF Counted
  <2>6. CASE ack < a.recover /\ a.congState = "RECOVERY"
    <3>1. t = PartialAck(a, ack, rtt)
      BY <1>1, <1>8, <2>6
    <3>2. /\ Ahead(a, t) /\ Counted(t) /\ Timed(t) /\ t.congState = "RECOVERY"
          /\ t.cc = PktsAcked(a.cc, rtt)
      BY <3>1, <2>1, <2>2, <2>5, <2>6, <1>3, PartialAckBoard
    <3>3. calls(t, 0, 0)
      BY <3>2, <2>3, <2>6 DEF AckCalls
    <3> QED  BY <3>2, <3>3, <2>4, <1>3 DEF t
  <2>7. CASE ack < a.recover /\ a.congState = "LOSS"
    <3> DEFINE segs == ack - old
    <3>1. t = LossAck(a, ack, segs, rtt, ttl)
      BY <1>1, <1>8, <2>7
    <3>0. segs \in Seqs
      BY <1>3
    <3> HIDE DEF segs
    <3>2. /\ Ahead(a, t) /\ Counted(t) /\ Timed(t) /\ t.congState = "LOSS"
          /\ t.cc = IncreaseWindow(PktsAcked(a.cc, rtt), segs, ack, a.nextTxSequence, ttl)
      BY <3>1, <2>1, <2>5, <2>7, <1>3, LossAckBoard
    <3>3. calls(t, a.nextTxSequence, segs)
      BY <3>2, <2>3, <2>7 DEF AckCalls
    <3> QED  BY <3>0, <3>2, <3>3, <2>1, <2>4, <1>5 DEF t
  <2>8. CASE /\ ~(ack < a.recover /\ a.congState = "RECOVERY")
             /\ ~(ack < a.recover /\ a.congState = "LOSS")
    <3> DEFINE segs == ack - old
               dups == p.dupAckCount
               m == IF a.congState = "LOSS" THEN ack - a.recover ELSE segs
    <3>1. t = FullAck(a, ack, segs, dups, isDupack, rtt, ttl)
      BY <1>1, <1>8, <2>8
    <3>2. Reached(a, ack, isDupack)
      <4>1. /\ a.congState \in {"OPEN", "DISORDER"}
                 => a.isFirstPartialAck /\ ~a.recoverActive
            /\ a.congState = "OPEN" => a.dupAckCount = 0
            /\ a.congState = "LOSS" => a.dupAckCount = 0
            /\ a.congState = "DISORDER" /\ isDupack
                 => a.dupAckCount \in 1 .. RetxThresh - 1
        BY <2>1, <1>4 DEF Counters
      <4>2. a.congState = "OPEN" => ~isDupack
        BY <2>1, <1>4
      <4> QED  BY <4>1, <4>2, <2>1, <2>8 DEF Reached
    <3>3. m \in Seqs
      <4>1. CASE a.congState = "LOSS"
        <5>1. a.recover \in old .. a.highTxMark
          BY <4>1, <2>1, <2>2, <1>4, <1>6 DEF Counters
        <5>2. a.recover \in Nat
          BY <5>1, <1>3
        <5>3. ack - a.recover \in Nat /\ ack - a.recover <= NumSegs
          BY <5>2, <4>1, <2>8, <1>3, Numbers
        <5> QED  BY <4>1, <5>3, Numbers
      <4>2. CASE a.congState # "LOSS"
        BY <4>2, <1>3
      <4> QED  BY <4>1, <4>2
    <3> HIDE DEF segs, dups
    <3>4. /\ Ahead(a, t) /\ Counted(t) /\ Timed(t)
          /\ FullCalls(a.cc, a.congState, t.cc, t.congState, isDupack, rtt, m, ack,
                       a.nextTxSequence, ttl)
      BY <3>1, <3>2, <2>1, <1>2, <1>3, FullAckBoard
    <3>5. ~isDupack \/ a.congState # "DISORDER"
            => a.cc = p.cc /\ a.congState = p.congState
      <4>1. CASE ~isDupack
        BY <4>1, <2>1, <1>4
      <4>2. CASE a.congState # "DISORDER"
        <5>1. a.congState = "RECOVERY" => p.congState = "RECOVERY"
          <6>1. ASSUME a.congState = "RECOVERY", d.recover = p.highTxMark, isDupack
                PROVE  FALSE
            <7>1. ack < p.highTxMark
              BY <6>1, <1>2
            <7> QED  BY <6>1, <7>1, <2>1, <2>8
          <6> QED  BY <6>1, <2>1, <1>4
        <5> QED  BY <4>2, <5>1, <2>3 DEF DupCalls
      <4> QED  BY <4>1, <4>2
    <3> HIDE DEF m
    <3>6. calls(t, a.nextTxSequence, m)
      BY <3>4, <3>5, <2>3, <1>2, DupThenFull
    <3> QED  BY <3>3, <3>4, <3>6, <2>1, <2>4, <1>5 DEF t
  <2> QED  BY <2>6, <2>7, <2>8
<1> QED  BY <1>7, <1>8

\* ReceivedAck, for an ACK of something that was sent and not taken for SACKed.
LEMMA ReceivedAckBoard ==
  ASSUME NEW s, Board(s), Counted(s), Timed(s), s.cc \in SwiftState,
         NEW a, a.ack \in s.head .. s.highTxMark, a.sack \in SUBSET Segments,
         \A x \in a.sack : x > a.ack,
         s.sackEnabled => a.ack \notin s.sacked,
         NEW rtt, NEW ttl
  PROVE  LET t == ReceivedAck(s, a, rtt, ttl)
         IN  /\ Board(t) /\ t.head = a.ack /\ t.tail = s.tail
             /\ t.sackEnabled = s.sackEnabled /\ t.endPoint = s.endPoint
             /\ s.highTxMark <= t.highTxMark /\ Counted(t) /\ Timed(t)
             /\ s.sackEnabled => t.sacked \subseteq s.sacked \cup a.sack
             /\ \E n, segs \in Seqs : AckCalls(s.cc, s.congState, t.cc, t.congState,
                                               rtt, segs, a.ack, n, ttl)
<1> DEFINE u == IF s.sackEnabled THEN Update(s, a.sack) ELSE s
           ack == a.ack
           old == s.head
           updated == u.sacked # s.sacked
           d == DiscardUpTo(u, ack)
           t == ProcessAck(d, ack, updated, old, rtt, ttl)
<1>1. ReceivedAck(s, a, rtt, ttl) = t
  BY DEF ReceivedAck
<1>2. /\ old \in Nat /\ s.highTxMark \in Nat /\ ack \in Nat /\ old <= ack
      /\ ack <= s.highTxMark /\ old \in Seqs /\ ack \in Seqs
  <2>1. old \in Nat /\ s.highTxMark \in Nat /\ old \in Seqs /\ s.highTxMark <= NumSegs
    BY BoardTypes, Numbers
  <2>2. ack \in Nat /\ old <= ack /\ ack <= s.highTxMark
    BY <2>1
  <2> QED  BY <2>1, <2>2, Numbers
<1>3. /\ Board(u) /\ Remarked(s, u)
      /\ IF s.sackEnabled THEN u.sacked = s.sacked \cup (a.sack \cap SentList(s))
         ELSE u.sacked = s.sacked
  <2>1. CASE s.sackEnabled
    <3> DEFINE blocks == a.sack
    <3>1. \A x \in blocks : x > s.head
      <4>1. \A x \in blocks : x \in Nat /\ x > ack
        BY Numbers
      <4> HIDE DEF blocks, old, ack
      <4> QED  BY <4>1, <1>2 DEF old
    <3> HIDE DEF blocks
    <3>2. LET v == Update(s, blocks)
          IN  /\ Board(v) /\ Remarked(s, v)
              /\ v.sacked = s.sacked \cup (blocks \cap SentList(s))
      BY <3>1, UpdateBoard
    <3> QED  BY <2>1, <3>2 DEF blocks
  <2>2. CASE ~s.sackEnabled
    BY <2>2 DEF Remarked, Same
  <2> QED  BY <2>1, <2>2
<1>4. updated \in BOOLEAN /\ (s.sackEnabled /\ updated => ack < s.highTxMark)
  <2>1. ASSUME s.sackEnabled, updated
        PROVE  ack < s.highTxMark
    <3>1. PICK x \in a.sack \cap SentList(s) : TRUE
      BY <2>1, <1>3
    <3>2. x \in Nat /\ x < s.highTxMark /\ x > ack
      BY <3>1, <1>2 DEF SentList
    <3> QED  BY <3>2, <1>2
  <2> QED  BY <2>1
<1>5. u.sackEnabled => ack \notin u.sacked
  <2>1. u.sackEnabled = s.sackEnabled
    BY <1>3 DEF Remarked, Same
  <2>2. ack \notin a.sack
    BY <1>2
  <2> QED  BY <2>1, <2>2, <1>3
<1> HIDE DEF u, updated
<1>6. /\ Board(d) /\ Same(u, d) /\ d.head = ack /\ d.highTxMark = u.highTxMark
      /\ d.retxEvent = u.retxEvent /\ (u.sackEnabled => d.sacked \subseteq u.sacked)
      /\ (u.sacked = {} => d.sacked = {})
  <2>1. ack \in u.head .. u.highTxMark
    BY <1>2, <1>3 DEF Remarked
  <2> HIDE DEF ack
  <2> QED  BY <2>1, <1>3, <1>5, DiscardBoard
<1> HIDE DEF d
<1>7. /\ Same(s, d) /\ d.highTxMark = s.highTxMark /\ d.retxEvent = s.retxEvent
      /\ d.cc = s.cc /\ d.congState = s.congState /\ d.sackEnabled = s.sackEnabled
      /\ d.recoverActive = s.recoverActive /\ d.recover = s.recover
      /\ d.tail = s.tail /\ d.endPoint = s.endPoint
  BY <1>3, <1>6 DEF Remarked, Same
<1>8. Counters(d)
  <2>1. ~s.sackEnabled /\ s.congState = "LOSS" => d.sacked = {}
    BY <1>3, <1>6 DEF Counted, Counters
  <2> QED  BY <2>1, <1>7 DEF Counted, Counters, Same
<1>9. d.recoverActive => d.recover \in old .. d.highTxMark
  BY <1>7 DEF Counted
<1>10. Timed(d) /\ (old < ack => d.retxEvent)
  <2>1. old < s.highTxMark => s.retxEvent
    BY DEF Timed
  <2> HIDE DEF old, ack
  <2>2. (old < ack \/ ack < s.highTxMark) => old < s.highTxMark
    BY <1>2
  <2> QED  BY <2>1, <2>2, <1>6, <1>7 DEF Timed
<1>11. /\ Ahead(d, t) /\ Counted(t) /\ Timed(t)
       /\ \E n, segs \in Seqs : AckCalls(d.cc, d.congState, t.cc, t.congState,
                                         rtt, segs, ack, n, ttl)
  <2>1. /\ d.cc \in SwiftState /\ ack = d.head
        /\ (d.sackEnabled /\ updated => ack < d.highTxMark)
    BY <1>4, <1>6, <1>7
  <2> HIDE DEF old, ack
  <2> QED  BY <2>1, <1>2, <1>4, <1>6, <1>8, <1>9, <1>10, ProcessAckBoard
<1> HIDE DEF t
<1>12. s.sackEnabled => t.sacked \subseteq s.sacked \cup a.sack
  BY <1>3, <1>6, <1>7, <1>11 DEF Ahead, Remarked, Same
<1> QED  BY <1>1, <1>6, <1>7, <1>11, <1>12 DEF Ahead

-----------------------------------------------------------------------------
(***************************************************************************)
(* The retransmission timeout                                              *)
(***************************************************************************)
\* The congestion control after a timeout.
Collapsed(c) ==
    [DisableSwift([c EXCEPT !.ssThresh = GetSsThresh(c)]) EXCEPT !.cWnd = SegSize]

\* RetransmissionTimeout marks all that was sent lost and collapses the window.
LEMMA TimeoutBoard ==
  ASSUME NEW s, Board(s), s.dataRetrCount # 0
  PROVE  LET t == RetransmissionTimeout(s)
         IN  /\ Board(t) /\ t.head = s.head /\ t.tail = s.tail
             /\ t.highTxMark = s.highTxMark /\ t.sackEnabled = s.sackEnabled
             /\ t.endPoint = s.endPoint /\ t.out = s.out
             /\ t.sacked = IF s.sackEnabled THEN s.sacked ELSE {}
             /\ t.lost = SentList(s) \ t.sacked /\ t.retrans = {}
             /\ t.congState = "LOSS" /\ t.cc = Collapsed(s.cc)
             /\ t.pacingTimer = FALSE /\ Counted(t)
<1> DEFINE l == SetSentListLost(s)
           m == [l EXCEPT !.dataRetrCount = @ - 1, !.dupAckCount = 0,
                          !.recover = s.highTxMark, !.recoverActive = TRUE]
           thresh == GetSsThresh(s.cc)
           r == [m EXCEPT !.cc.ssThresh = thresh]
           i == SetCongState(r, "LOSS")
           t == CollapseWindow(i)
<1>1. /\ Board(l) /\ Remarked(s, l) /\ l.sacked = IF s.sackEnabled THEN s.sacked ELSE {}
      /\ l.lost = SentList(s) \ l.sacked /\ l.retrans = {}
  BY SentListLostBoard
<1> HIDE DEF l
<1>2. /\ l.head = s.head /\ l.tail = s.tail /\ l.highTxMark = s.highTxMark
      /\ l.sackEnabled = s.sackEnabled /\ l.endPoint = s.endPoint /\ l.out = s.out
      /\ l.cc = s.cc /\ l.dataRetrCount = s.dataRetrCount
  BY <1>1 DEF Remarked, Same
<1>3. /\ Body(l, m) /\ m.dupAckCount = 0 /\ m.recover = s.highTxMark
      /\ m.recoverActive = TRUE /\ m.cc = l.cc
  <2>1. l.dataRetrCount - 1 \in 0 .. DataRetries
    BY <1>2, BoardTypes, RetriesAssumption
  <2>2. s.highTxMark \in Seqs
    BY BoardTypes
  <2> QED  BY <2>1, <2>2, <1>1 DEF Board, Sender, Body
<1>4. RetransmissionTimeout(s) = t
  <2>1. m.head \notin m.retrans
    BY <1>1, <1>3 DEF Body
  <2>2. RetransmissionTimeout(s) =
          CollapseWindow(SetCongState(
            IF s.congState # "LOSS" \/ m.head \notin m.retrans THEN r ELSE m, "LOSS"))
    BY DEF RetransmissionTimeout, l
  <2> HIDE DEF m
  <2> QED  BY <2>1, <2>2
<1> HIDE DEF m
<1>5. Board(m)
  BY <1>1, <1>3, BodyBoard
<1>6. /\ Board(r) /\ Kept(m, r) /\ r.cc = [s.cc EXCEPT !.ssThresh = thresh]
  <2> DEFINE c == [s.cc EXCEPT !.ssThresh = thresh]
  <2>1. r = [m EXCEPT !.cc = c]
    <3> HIDE DEF thresh
    <3> QED  BY <1>2, <1>3, <1>5 DEF Board, Sender
  <2> HIDE DEF c, r
  <2>2. Board(r) /\ Kept(m, r) /\ r.cc = c
    BY <2>1, <1>5, NewControl
  <2> QED  BY <2>2 DEF c
<1> HIDE DEF r
<1>7. /\ Board(i) /\ Kept(r, i) /\ i.congState = "LOSS" /\ i.cc = DisableSwift(r.cc)
  <2>1. /\ Board(i) /\ Kept(r, i) /\ i.congState = "LOSS"
        /\ i.cc = CongestionStateSet(r.cc, "LOSS", r.nextTxSequence)
    BY <1>6, SetCongStateBoard DEF CongStates
  <2> HIDE DEF i
  <2> QED  BY <2>1 DEF CongestionStateSet
<1> HIDE DEF i
<1>8. /\ Body(i, t) /\ t.congState = i.congState /\ t.dupAckCount = i.dupAckCount
      /\ t.recover = i.recover /\ t.recoverActive = i.recoverActive
      /\ t.pacingTimer = FALSE /\ t.cc = [i.cc EXCEPT !.cWnd = SegSize]
  BY <1>7 DEF CollapseWindow, Board, Sender, Body
<1> HIDE DEF t
<1>9. Board(t)
  BY <1>7, <1>8, BodyBoard
<1>10. Body(l, t)
  BY <1>3, <1>6, <1>7, <1>8 DEF Body, Kept
<1>11. /\ t.head = s.head /\ t.tail = s.tail
       /\ t.highTxMark = s.highTxMark /\ t.sackEnabled = s.sackEnabled
       /\ t.endPoint = s.endPoint /\ t.out = s.out
       /\ t.sacked = l.sacked /\ t.lost = SentList(s) \ t.sacked /\ t.retrans = {}
  BY <1>1, <1>2, <1>10 DEF Body
<1>12. t.cc = Collapsed(s.cc)
  BY <1>6, <1>7, <1>8 DEF Collapsed
<1>13. Counted(t)
  <2>1. /\ t.congState = "LOSS" /\ t.dupAckCount = 0 /\ t.recover = s.highTxMark
        /\ t.recoverActive
    BY <1>3, <1>6, <1>7, <1>8 DEF Kept
  <2>2. s.highTxMark \in s.head .. s.highTxMark
    BY BoardTypes
  <2> QED  BY <2>1, <2>2, <1>1, <1>11 DEF Counted, Counters
<1> QED  BY <1>1, <1>4, <1>7, <1>8, <1>9, <1>11, <1>12, <1>13

\* The collapsed window has room for one segment, and everything is lost, so the
\* head is sent again and the timer starts.
LEMMA TimeoutSends ==
  ASSUME NEW s, Board(s), s.endPoint, s.head < s.highTxMark,
         s.pacingTimer = FALSE, s.cc.cWnd = SegSize, s.retrans = {},
         s.lost = SentList(s) \ s.sacked
  PROVE  FirstOf(LostToSend(s), Budget(s)) # {}
<1>1. BytesInFlight(s) = 0
  <2>1. SentList(s) \ (s.sacked \cup s.lost) = {}
    OBVIOUS
  <2>2. Cardinality(SentList(s) \ (s.sacked \cup s.lost)) = 0 /\ Cardinality(s.retrans) = 0
    BY <2>1, FS_EmptySet
  <2> QED  BY <2>2, SegSizeAssumption DEF BytesInFlight
<1>2. Room(s) = 1
  <2>1. s.cc.cWnd - BytesInFlight(s) = SegSize /\ ~(SegSize <= 0)
    BY <1>1, SegSizeAssumption
  <2>2. SegSize \div SegSize = 1
    BY SegSizeAssumption, Quotient
  <2> QED  BY <2>1, <2>2 DEF Room
<1>3. Budget(s) = 1
  <2>1. s.head # s.tail
    BY BoardTypes
  <2>2. Smaller(1, Room(s)) = 1
    BY <1>2 DEF Smaller
  <2> QED  BY <2>1, <2>2, <1>2 DEF Budget
<1>4. s.head \in LostToSend(s) /\ LostToSend(s) \in SUBSET Segments
  <2>1. s.head \in SentList(s)
    BY BoardTypes DEF SentList
  <2>2. s.head \notin s.sacked
    <3>1. s.sacked \subseteq s.head + 1 .. s.highTxMark - 1
      BY DEF Board
    <3> QED  BY <3>1, BoardTypes
  <2>3. LostToSend(s) = s.lost
    BY DEF LostToSend
  <2> QED  BY <2>1, <2>2, <2>3, BoardTypes
<1>5. FirstOf(LostToSend(s), 1) # {}
  <2> DEFINE S == LostToSend(s)
  <2> HIDE DEF S
  <2>1. S \in SUBSET Segments /\ S # {}
    BY <1>4 DEF S
  <2>2. FirstOf(S, 1) # {}
    BY <2>1, FirstOne
  <2> QED  BY <2>2 DEF S
<1> QED  BY <1>3, <1>5

-----------------------------------------------------------------------------
(***************************************************************************)
(* Steps of SwiftFlow                                                      *)
(***************************************************************************)
LEMMA FlowAck ==
  ASSUME snd.cc.cWnd <= MaxCwnd, NEW rtt \in Rtts, NEW ttl \in Ttls,
         NEW ack \in Seqs, NEW n \in Seqs, NEW segs \in Seqs,
         AckCalls(snd.cc, snd.congState, snd'.cc, snd'.congState,
                  rtt, segs, ack, n, ttl)
  PROVE  Flow!Ack
<1> DEFINE c == snd.cc
           st == snd.congState
           c2 == snd'.cc
           st2 == snd'.congState
<1>1. ASSUME NEW d, DupCalls(c, st, d, st2)
      PROVE  d = Flow!DupAck(c, st, st2, n) /\ st2 \in Flow!DupAckTargets(st)
  <2>1. Flow!FastRecovery(c, n) = Recovered(c)
    <3> DEFINE off == DisableSwift(c)
               thresh == GetSsThresh(off)
               u == [off EXCEPT !.ssThresh = thresh, !.cWnd = thresh]
    <3>1. Flow!CongestionStateSet(c, "RECOVERY", n) = off
      <4>1. Flow!CongestionStateSet(c, "RECOVERY", n) = CongestionStateSet(c, "RECOVERY", n)
        BY SameMethods, Zenon
      <4> QED  BY <4>1 DEF CongestionStateSet
    <3> HIDE DEF off
    <3>2. Flow!GetSsThresh(off) = thresh
      BY SameMethods, Zenon
    <3> HIDE DEF thresh
    <3>3. Flow!FastRecovery(c, n) = u
      BY <3>1, <3>2 DEF Flow!FastRecovery
    <3> QED  BY <3>3 DEF Recovered, u, thresh, off
  <2>2. Flow!CongestionStateSet(c, "DISORDER", n) = DisableSwift(c)
    <3>1. Flow!CongestionStateSet(c, "DISORDER", n) = CongestionStateSet(c, "DISORDER", n)
      BY SameMethods, Zenon
    <3> QED  BY <3>1 DEF CongestionStateSet
  <2> HIDE DEF c, st, st2
  <2> QED  BY <1>1, <2>1, <2>2 DEF DupCalls, Flow!DupAck, Flow!DupAckTargets
<1>2. \A x : Flow!PktsAcked(x, rtt) = PktsAcked(x, rtt)
  BY SameMethods
<1>3. \A x : Flow!IncreaseWindow(x, segs, ack, n, ttl) = IncreaseWindow(x, segs, ack, n, ttl)
  BY SameMethods
<1>4. \A x : Flow!CongestionStateSet(x, "OPEN", n) = CongestionStateSet(x, "OPEN", n)
  BY SameMethods
<1> DEFINE grown(d) == IncreaseWindow(d, segs, ack, n, ttl)
           opened(d) == CongestionStateSet(d, "OPEN", n)
           timed(d) == PktsAcked(d, rtt)
<1>5. CASE \E d : /\ DupCalls(c, st, d, st2)
                  /\ \/ c2 \in {d, timed(d)}
                     \/ st2 # "RECOVERY" /\ c2 = grown(timed(d))
                     \/ st2 = "DISORDER" /\ c2 = grown(d)
  <2>1. PICK d : /\ DupCalls(c, st, d, st2)
                 /\ \/ c2 \in {d, timed(d)}
                    \/ st2 # "RECOVERY" /\ c2 = grown(timed(d))
                    \/ st2 = "DISORDER" /\ c2 = grown(d)
    BY <1>5
  <2>2. d = Flow!DupAck(c, st, st2, n) /\ st2 \in Flow!DupAckTargets(st)
    BY <2>1, <1>1
  <2>3. CASE c2 \in {d, timed(d)}
    <3>1. Flow!AckWithoutAdvance(rtt, n)
      BY <2>2, <2>3, <1>2 DEF Flow!AckWithoutAdvance
    <3> QED  BY <3>1 DEF Flow!Ack
  <2>4. CASE \/ st2 # "RECOVERY" /\ c2 = grown(timed(d))
             \/ st2 = "DISORDER" /\ c2 = grown(d)
    <3>1. Flow!AckAdvances(rtt, segs, ack, n, ttl)
      BY <2>2, <2>4, <1>2, <1>3 DEF Flow!AckAdvances
    <3> QED  BY <3>1 DEF Flow!Ack
  <2> QED  BY <2>1, <2>3, <2>4
<1>6. CASE /\ st # "OPEN" /\ st2 = "OPEN"
           /\ FullCalls(c, st, c2, st2, FALSE, rtt, segs, ack, n, ttl)
  <2>1. \/ st = "DISORDER" /\ c2 \in {grown(opened(timed(c))), grown(opened(c))}
        \/ st = "RECOVERY" /\ c2 = opened(timed(c))
        \/ st = "LOSS" /\ c2 = grown(opened(timed(c)))
    <3> HIDE DEF st2
    <3> QED  BY <1>6 DEF FullCalls
  <2>2. CASE st = "DISORDER" /\ c2 \in {grown(opened(timed(c))), grown(opened(c))}
    <3>1. Flow!DisorderResolved(rtt, segs, ack, n, ttl)
      BY <2>2, <1>6, <1>2, <1>3, <1>4 DEF Flow!DisorderResolved
    <3> QED  BY <3>1 DEF Flow!Ack
  <2>3. CASE st = "RECOVERY" /\ c2 = opened(timed(c))
    <3>1. Flow!RecoveryEnds(rtt, n)
      BY <2>3, <1>6, <1>2, <1>4 DEF Flow!RecoveryEnds
    <3> QED  BY <3>1 DEF Flow!Ack
  <2>4. CASE st = "LOSS" /\ c2 = grown(opened(timed(c)))
    <3>1. Flow!LossEnds(rtt, segs, ack, n, ttl)
      BY <2>4, <1>6, <1>2, <1>3, <1>4 DEF Flow!LossEnds
    <3> QED  BY <3>1 DEF Flow!Ack
  <2> QED  BY <2>1, <2>2, <2>3, <2>4
<1> QED  BY <1>5, <1>6 DEF AckCalls

\* A timeout is the one of SwiftFlow.
LEMMA FlowTimeout ==
  ASSUME snd'.congState = "LOSS", snd'.cc = Collapsed(snd.cc)
  PROVE  Flow!Timeout
<1> DEFINE thresh == GetSsThresh(snd.cc)
           c == [snd.cc EXCEPT !.ssThresh = thresh]
<1>1. Flow!GetSsThresh(snd.cc) = thresh
  BY SameMethods, Zenon
<1> HIDE DEF c
<1>2. Flow!CongestionStateSet(c, "LOSS", 0) = DisableSwift(c)
  <2>1. Flow!CongestionStateSet(c, "LOSS", 0) = CongestionStateSet(c, "LOSS", 0)
    BY SameMethods, Zenon
  <2> QED  BY <2>1 DEF CongestionStateSet
<1>3. snd'.cc = [DisableSwift(c) EXCEPT !.cWnd = SegSize]
  BY DEF Collapsed, c
<1>4. snd'.cc = [Flow!CongestionStateSet(c, "LOSS", 0) EXCEPT !.cWnd = SegSize]
  BY <1>2, <1>3
<1> QED  BY <1>1, <1>4 DEF Flow!Timeout, c

\* FlowTypes after a step.
LEMMA FlowTypesNext ==
  FlowProofs!IInv' => /\ snd'.cc \in SwiftState /\ snd'.congState \in CongStates
                      /\ snd'.cc.cWnd \in Nat
<1>1. FlowProofs!SwiftState = SwiftState
  BY DEF FlowProofs!SwiftState, SwiftState, FlowProofs!Windows, Windows,
         FlowProofs!PacingRates, PacingRates, FlowProofs!Times, Times,
         FlowProofs!CntRttCap, CntRttCap
<1>2. FlowProofs!CongStates = CongStates
  BY DEF FlowProofs!CongStates, CongStates
<1>3. FlowProofs!IInv' => snd'.cc \in SwiftState /\ snd'.congState \in CongStates
  BY <1>1, <1>2 DEF FlowProofs!IInv, FlowProofs!Consistent
<1>4. \A c \in SwiftState : c.cWnd \in Nat
  BY UintAssumption DEF SwiftState, Windows
<1> QED  BY <1>3, <1>4

\* Sending is no matter of the congestion control.
LEMMA ControlKept ==
  ASSUME NEW s, Board(s)
  PROVE  SendPendingData(s).cc = s.cc /\ SendPendingData(s).congState = s.congState
<1> DEFINE keeps(t) == /\ {"cc", "congState"} \subseteq DOMAIN t
                       /\ t.cc = s.cc /\ t.congState = s.congState
<1>1. keeps(s)
  BY DEF Board, Sender
<1>2. ASSUME NEW t, keeps(t), NEW segs
      PROVE  keeps(SendDataPackets(t, segs))
  BY <1>2 DEF SendDataPackets
<1>3. ASSUME NEW t, keeps(t), NEW n
      PROVE  keeps([t EXCEPT !.nextTxSequence = n])
  BY <1>3
<1> DEFINE budget  == Budget(s)
           again   == FirstOf(LostToSend(s), budget)
           left    == budget - Cardinality(again)
           high    == Smaller(s.tail, s.highTxMark + left)
           new     == s.highTxMark .. high - 1
           rule3   == IF s.sackEnabled /\ s.congState = "RECOVERY"
                      THEN (s.head .. high - 1) \ (s.sacked \cup s.retrans \cup again)
                      ELSE {}
           extra   == FirstOf(rule3, left - Cardinality(new))
           last    == IF extra # {} THEN extra ELSE IF new # {} THEN new ELSE again
           all     == again \cup new
           first   == SendDataPackets(s, all)
           sent    == SendDataPackets(first, extra)
           n       == Max(last) + 1
           t       == [sent EXCEPT !.nextTxSequence = n]
<1>4. SendPendingData(s) = IF last = {} THEN s ELSE t
  BY DEF SendPendingData
<1> HIDE DEF n, last, extra, all, keeps
<1>5. keeps(first)
  BY <1>1, <1>2
<1> HIDE DEF first
<1>6. keeps(sent)
  BY <1>2, <1>5
<1> HIDE DEF sent
<1>7. keeps(t)
  BY <1>3, <1>6
<1> HIDE DEF t
<1>8. keeps(SendPendingData(s))
  BY <1>1, <1>4, <1>7
<1> QED  BY <1>8 DEF keeps

-----------------------------------------------------------------------------
(***************************************************************************)
(* Steps of the sender                                                     *)
(***************************************************************************)
LEMMA Dequeued ==
  \A B, S : BagToSet(B (-) S) \subseteq BagToSet(B)
  BY DEF BagToSet, (-)

\* A queue holds what it held or what was sent.
LEMMA Enqueued ==
  \A B, S : BagToSet(Enqueue(B, S)) \subseteq BagToSet(B) \cup S
  BY DEF BagToSet, Enqueue, (+), SetToBag

\* Sending leaves the counters alone.
LEMMA SentCounted ==
  ASSUME NEW s, Board(s), NEW t, Board(t), Sent(s, t), Counted(s)
  PROVE  Counted(t)
<1>1. s.head \in Nat /\ s.highTxMark \in Nat /\ t.highTxMark \in Nat
  BY BoardTypes
<1>2. Counters(t)
  BY DEF Counted, Counters, Sent, Same
<1>3. t.recoverActive => t.recover \in t.head .. t.highTxMark
  <2>1. t.recoverActive = s.recoverActive /\ t.recover = s.recover /\ t.head = s.head
        /\ s.highTxMark <= t.highTxMark
    BY DEF Sent, Same
  <2>2. t.recoverActive => s.recover \in s.head .. s.highTxMark
    BY <2>1 DEF Counted
  <2> QED  BY <1>1, <2>1, <2>2
<1> QED  BY <1>2, <1>3 DEF Counted

\* The segments of the handler go to the network.
LEMMA Finished ==
  ASSUME NEW t, Board(t), snd' = [t EXCEPT !.out = {}], data' = Enqueue(data, t.out),
         snd.highTxMark \in Nat, snd.highTxMark <= t.highTxMark,
         BagToSet(data) \subseteq 0 .. snd.highTxMark - 1
  PROVE  /\ Board(snd') /\ snd'.out = {} /\ snd'.head = t.head /\ snd'.tail = t.tail
         /\ snd'.highTxMark = t.highTxMark /\ snd'.sackEnabled = t.sackEnabled
         /\ snd'.sacked = t.sacked /\ snd'.endPoint = t.endPoint
         /\ snd'.cc = t.cc /\ snd'.congState = t.congState
         /\ Counted(t) => Counted(snd')
         /\ Timed(t) => Timed(snd')
         /\ BagToSet(data') \subseteq 0 .. snd'.highTxMark - 1
<1> DEFINE u == [t EXCEPT !.out = {}]
<1>1. /\ u \in Sender(t.cc) /\ Same(t, u) /\ u.out = {} /\ u.head = t.head
      /\ u.highTxMark = t.highTxMark /\ u.sacked = t.sacked /\ u.lost = t.lost
      /\ u.retrans = t.retrans /\ u.retxEvent = t.retxEvent
  BY DEF Board, Sender, Same
<1> HIDE DEF u
<1>2. snd' = u
  BY DEF u
<1>3. SentList(u) = SentList(t)
  BY <1>1 DEF SentList
<1>4. Board(u)
  BY <1>1, <1>3 DEF Board, Same
<1>5. Counted(t) => Counted(u)
  BY <1>1 DEF Counted, Counters, Same
<1>6. Timed(t) => Timed(u)
  BY <1>1 DEF Timed
<1>7. BagToSet(data') \subseteq 0 .. t.highTxMark - 1
  <2>1. BagToSet(data') \subseteq BagToSet(data) \cup t.out
    BY Enqueued
  <2>2. t.out \subseteq 0 .. t.highTxMark - 1
    BY DEF Board
  <2>3. 0 .. snd.highTxMark - 1 \subseteq 0 .. t.highTxMark - 1
    BY BoardTypes
  <2> QED  BY <2>1, <2>2, <2>3
<1> QED  BY <1>1, <1>2, <1>4, <1>5, <1>6, <1>7 DEF Same

\* What a step of the sender must keep.
LEMMA SenderInv ==
  ASSUME IInv, Board(snd'), snd'.out = {}, Counted(snd'), snd'.endPoint => Timed(snd'),
         snd'.sackEnabled = snd.sackEnabled, snd.highTxMark <= snd'.highTxMark,
         snd'.head <= rcv.next,
         snd.sackEnabled => \A x \in snd'.sacked :
             Has(rcv, x) /\ \A b \in BagToSet(acks) : b.ack # x,
         BagToSet(data') \subseteq 0 .. snd'.highTxMark - 1,
         BagToSet(acks') \subseteq BagToSet(acks),
         synAcks' \in 0 .. MaxSynAcks, rcv' = rcv, peerData' = peerData,
         [Flow!Next]_(Flow!vars)
  PROVE  IInv'
<1>1. FlowProofs!IInv'
  BY FlowStep DEF IInv
<1>2. Received(rcv, snd'.highTxMark)
  <2>1. snd.highTxMark \in Nat /\ snd'.highTxMark \in Nat
    BY BoardTypes DEF IInv
  <2>2. Received(rcv, snd.highTxMark) /\ rcv.next \in Nat
    BY Numbers DEF IInv, Received, ReceiverState
  <2>3. rcv.next + 1 .. snd.highTxMark - 1 \subseteq rcv.next + 1 .. snd'.highTxMark - 1
    BY <2>1, <2>2
  <2>4. rcv.next <= snd'.highTxMark
    BY <2>1, <2>2 DEF Received
  <2> QED  BY <2>2, <2>3, <2>4 DEF Received
<1>3. NoHole(snd', BagToSet(acks'))
  BY DEF IInv, NoHole
<1>4. /\ \A a \in BagToSet(acks') : AckFits(a, rcv)
      /\ snd'.sackEnabled => \A x \in snd'.sacked : Has(rcv, x)
  BY DEF IInv
<1> QED  BY <1>1, <1>2, <1>3, <1>4 DEF IInv

\* A step of the system is a step of SwiftFlow and of ReliableStream, or none.
Refines == [Flow!Next]_(Flow!vars) /\ [Stream!Next]_(Stream!vars)

\* What the invariant says of the numbers.
LEMMA InvFacts ==
  ASSUME IInv
  PROVE  /\ Board(snd) /\ snd.cc \in SwiftState /\ snd.cc.cWnd \in Nat
         /\ snd.head \in Nat /\ snd.tail \in Nat /\ snd.highTxMark \in Nat
         /\ rcv.next \in Nat /\ snd.head <= rcv.next /\ rcv.next <= snd.highTxMark
         /\ snd.highTxMark <= snd.tail /\ snd.tail <= NumSegs
         /\ snd.endPoint \in BOOLEAN
<1>1. Board(snd) /\ snd.cc \in SwiftState /\ snd.cc.cWnd \in Nat
  BY FlowTypes DEF IInv
<1>2. rcv.next \in Nat /\ snd.head <= rcv.next /\ rcv.next <= snd.highTxMark
  BY Numbers DEF IInv, Received, ReceiverState
<1> QED  BY <1>1, <1>2, BoardTypes

\* Nothing of what SwiftFlow and ReliableStream speak of changes.
LEMMA Stutters ==
  ASSUME snd'.cc = snd.cc, snd'.congState = snd.congState, snd'.tail = snd.tail,
         snd'.head = snd.head, snd'.endPoint = snd.endPoint, rcv'.next = rcv.next
  PROVE  Refines
<1>1. Flow!vars' = Flow!vars
  BY DEF Flow!vars
<1>2. Stream!vars' = Stream!vars
  BY DEF Stream!vars
<1> QED  BY <1>1, <1>2 DEF Refines

\* Send gives the buffer data.
LEMMA SendInv ==
  ASSUME IInv, Send
  PROVE  IInv' /\ Refines
<1>1. PICK n \in 1 .. NumSegs - snd.tail :
         snd' = [snd EXCEPT !.tail = @ + n,
                            !.sendEvent = @ \/ snd.cc.cWnd > BytesInFlight(snd)]
  BY DEF Send
<1>2. rcv' = rcv /\ data' = data /\ acks' = acks /\ synAcks' = synAcks
      /\ peerData' = peerData
  BY DEF Send
<1> DEFINE tail == snd.tail + n
           event == snd.sendEvent \/ snd.cc.cWnd > BytesInFlight(snd)
           u == [snd EXCEPT !.tail = tail, !.sendEvent = event]
<1>3. tail \in Seqs /\ snd.tail < tail /\ tail <= NumSegs /\ tail \in Nat
  BY InvFacts, Numbers
<1>4. event \in BOOLEAN
  OBVIOUS
<1>5. snd' = u
  BY <1>1, InvFacts DEF Board, Sender
<1> HIDE DEF tail, event
<1>6. /\ u \in Sender(snd.cc) /\ u.sackEnabled = snd.sackEnabled /\ u.head = snd.head
      /\ u.tail = tail /\ u.highTxMark = snd.highTxMark /\ u.sacked = snd.sacked
      /\ u.lost = snd.lost /\ u.retrans = snd.retrans /\ u.out = snd.out
      /\ u.endPoint = snd.endPoint /\ u.congState = snd.congState /\ u.cc = snd.cc
      /\ u.dupAckCount = snd.dupAckCount /\ u.recover = snd.recover
      /\ u.recoverActive = snd.recoverActive
      /\ u.isFirstPartialAck = snd.isFirstPartialAck /\ u.retxEvent = snd.retxEvent
  BY <1>3, <1>4, InvFacts DEF Board, Sender
<1> HIDE DEF u
<1>7. Board(u)
  <2>1. SentList(u) = SentList(snd)
    BY <1>6 DEF SentList
  <2>2. u.highTxMark <= u.tail
    BY <1>3, <1>6, InvFacts
  <2> QED  BY <1>6, <2>1, <2>2, InvFacts DEF Board
<1>8. Counted(u) /\ (u.endPoint => Timed(u))
  BY <1>6 DEF IInv, Counted, Counters, Timed
<1>9. Flow!vars' = Flow!vars
  BY <1>5, <1>6 DEF Flow!vars
<1>10. snd.highTxMark <= u.highTxMark /\ u.head <= rcv.next /\ u.out = {}
  BY <1>6, InvFacts DEF IInv
<1>11. snd.sackEnabled => \A x \in u.sacked :
           Has(rcv, x) /\ \A b \in BagToSet(acks) : b.ack # x
  BY <1>6 DEF IInv, NoHole
<1>12. BagToSet(data') \subseteq 0 .. u.highTxMark - 1 /\ synAcks' \in 0 .. MaxSynAcks
  BY <1>2, <1>6 DEF IInv
<1>13. IInv'
  BY <1>2, <1>5, <1>6, <1>7, <1>8, <1>9, <1>10, <1>11, <1>12, SenderInv
<1>14. Stream!Write
  <2>1. snd'.tail \in snd.tail + 1 .. NumSegs
    <3>1. tail \in snd.tail + 1 .. NumSegs
      BY <1>3, InvFacts, Numbers
    <3> QED  BY <3>1, <1>5, <1>6
  <2> QED  BY <2>1, <1>2, <1>5, <1>6 DEF Stream!Write
<1> QED  BY <1>9, <1>13, <1>14 DEF Refines, Stream!Next

\* A handler that does no more than send what is pending.
LEMMA PendingInv ==
  ASSUME IInv, NEW s, Board(s), Kept(snd, s), s.cc = snd.cc, s.congState = snd.congState,
         FinishSending({s}), UNCHANGED <<rcv, acks, synAcks, peerData>>
  PROVE  IInv' /\ Refines
<1> DEFINE t == SendPendingData(s)
<1>1. snd' = [t EXCEPT !.out = {}] /\ data' = Enqueue(data, t.out)
  BY DEF FinishSending, Finish
<1>2. Board(t) /\ Sent(s, t)
  BY InvFacts, SendPendingBoard
<1> HIDE DEF t
<1>3. Counted(t)
  <2>1. Counted(s)
    BY DEF IInv, Counted, Counters, Kept, Body
  <2> QED  BY <1>2, <2>1, SentCounted
<1>4. t.endPoint => Timed(t)
  <2>1. s.endPoint => Timed(s)
    BY DEF IInv, Timed, Kept, Body
  <2> QED  BY <1>2, <2>1, OnwardSent DEF Onward, Ahead
<1>5. /\ t.head = snd.head /\ t.tail = snd.tail /\ t.sackEnabled = snd.sackEnabled
      /\ t.sacked = snd.sacked /\ t.endPoint = snd.endPoint
      /\ snd.highTxMark <= t.highTxMark /\ t.cc = snd.cc /\ t.congState = snd.congState
  BY <1>2 DEF Sent, Same, Kept, Body
<1>6. /\ Board(snd') /\ snd'.out = {} /\ snd'.head = t.head /\ snd'.tail = t.tail
      /\ snd'.highTxMark = t.highTxMark /\ snd'.sackEnabled = t.sackEnabled
      /\ snd'.sacked = t.sacked /\ snd'.endPoint = t.endPoint
      /\ snd'.cc = t.cc /\ snd'.congState = t.congState
      /\ (Counted(t) => Counted(snd')) /\ (Timed(t) => Timed(snd'))
      /\ BagToSet(data') \subseteq 0 .. snd'.highTxMark - 1
  BY <1>1, <1>2, <1>5, InvFacts, Finished DEF IInv
<1>7. Refines
  BY <1>5, <1>6, Stutters
<1>8. snd.sackEnabled => \A x \in snd'.sacked :
          Has(rcv, x) /\ \A b \in BagToSet(acks) : b.ack # x
  BY <1>5, <1>6 DEF IInv, NoHole
<1>9. snd'.head <= rcv.next /\ synAcks' \in 0 .. MaxSynAcks
  BY <1>5, <1>6, InvFacts DEF IInv
<1>10. IInv'
  BY <1>3, <1>4, <1>5, <1>6, <1>7, <1>8, <1>9, SenderInv DEF Refines
<1> QED  BY <1>7, <1>10

\* SendPendingDataEvent and
LEMMA SendPendingDataEventInv ==
  ASSUME IInv, SendPendingDataEvent
  PROVE  IInv' /\ Refines
<1> DEFINE s == [snd EXCEPT !.sendEvent = FALSE]
<1>1. Kept(snd, s) /\ s.cc = snd.cc /\ s.congState = snd.congState
  BY InvFacts DEF Board, Sender, Kept, Body
<1>2. FinishSending({s}) /\ UNCHANGED <<rcv, acks, synAcks, peerData>>
  BY DEF SendPendingDataEvent
<1> HIDE DEF s
<1>3. Board(s)
  BY <1>1, InvFacts, BodyBoard DEF Kept
<1> QED  BY <1>1, <1>2, <1>3, PendingInv

\* PacingTimerExpires end a wait and send.
LEMMA PacingTimerExpiresInv ==
  ASSUME IInv, PacingTimerExpires
  PROVE  IInv' /\ Refines
<1> DEFINE s == [snd EXCEPT !.pacingTimer = FALSE]
<1>1. Kept(snd, s) /\ s.cc = snd.cc /\ s.congState = snd.congState
  BY InvFacts DEF Board, Sender, Kept, Body
<1>2. FinishSending({s}) /\ UNCHANGED <<rcv, acks, synAcks, peerData>>
  BY DEF PacingTimerExpires
<1> HIDE DEF s
<1>3. Board(s)
  BY <1>1, InvFacts, BodyBoard DEF Kept
<1> QED  BY <1>1, <1>2, <1>3, PendingInv

\* A handler that sends nothing and leaves all but marks, timers and the end point.
LEMMA QuietInv ==
  ASSUME IInv, NEW s, Board(s), Finish({s}), s.cc = snd.cc, s.congState = snd.congState,
         Counted(s), s.endPoint => Timed(s), s.head = snd.head, s.tail = snd.tail,
         s.highTxMark = snd.highTxMark, s.sackEnabled = snd.sackEnabled,
         s.sacked = snd.sacked,
         BagToSet(acks') \subseteq BagToSet(acks), UNCHANGED <<rcv, synAcks, peerData>>
  PROVE  IInv' /\ snd'.endPoint = s.endPoint
         /\ snd'.cc = snd.cc /\ snd'.congState = snd.congState
         /\ snd'.head = snd.head /\ snd'.tail = snd.tail
<1>1. snd' = [s EXCEPT !.out = {}] /\ data' = Enqueue(data, s.out)
  BY DEF Finish
<1>2. snd.highTxMark <= s.highTxMark
  BY InvFacts
<1>3. /\ Board(snd') /\ snd'.out = {} /\ snd'.head = s.head /\ snd'.tail = s.tail
      /\ snd'.highTxMark = s.highTxMark /\ snd'.sackEnabled = s.sackEnabled
      /\ snd'.sacked = s.sacked /\ snd'.endPoint = s.endPoint
      /\ snd'.cc = s.cc /\ snd'.congState = s.congState
      /\ (Counted(s) => Counted(snd')) /\ (Timed(s) => Timed(snd'))
      /\ BagToSet(data') \subseteq 0 .. snd'.highTxMark - 1
  BY <1>1, <1>2, InvFacts, Finished DEF IInv
<1>4. Flow!vars' = Flow!vars
  BY <1>3 DEF Flow!vars
<1>5. snd.sackEnabled => \A x \in snd'.sacked :
          Has(rcv, x) /\ \A b \in BagToSet(acks) : b.ack # x
  BY <1>3 DEF IInv, NoHole
<1>6. snd'.head <= rcv.next /\ synAcks' \in 0 .. MaxSynAcks
  BY <1>3, InvFacts DEF IInv
<1>7. IInv'
  BY <1>2, <1>3, <1>4, <1>5, <1>6, SenderInv
<1> QED  BY <1>3, <1>7

-----------------------------------------------------------------------------
(***************************************************************************)
(* Steps that process an ACK, a SYN+ACK or a timeout                       *)
(***************************************************************************)
\* An ACK of what was sent, in the window.
LEMMA ReceivedAckInv ==
  ASSUME IInv, NEW a \in BagToSet(acks), snd.endPoint, snd.cc.cWnd <= MaxCwnd,
         NEW s, Board(s), Kept(snd, s), s.cc = snd.cc, s.congState = snd.congState,
         a.ack >= s.head, a.ack <= s.highTxMark,
         NEW rtt \in Rtts, NEW ttl \in Ttls,
         FinishSending({ReceivedAck(s, a, rtt, ttl)}),
         BagToSet(acks') \subseteq BagToSet(acks), UNCHANGED <<rcv, synAcks, peerData>>
  PROVE  IInv' /\ Refines
<1> DEFINE r == ReceivedAck(s, a, rtt, ttl)
           t == SendPendingData(r)
<1>1. snd' = [t EXCEPT !.out = {}] /\ data' = Enqueue(data, t.out)
  BY DEF FinishSending, Finish
<1>2. /\ s.head = snd.head /\ s.tail = snd.tail /\ s.highTxMark = snd.highTxMark
      /\ s.sackEnabled = snd.sackEnabled /\ s.sacked = snd.sacked
      /\ s.endPoint = snd.endPoint
  BY DEF Kept, Body
<1>3. /\ a \in Acks /\ a.ack \in Nat /\ a.ack \in Seqs /\ a.ack <= rcv.next
      /\ a.sack \in SUBSET Segments
      /\ \A x \in a.sack : x > a.ack /\ Has(rcv, x)
  <2>1. AckFits(a, rcv)
    BY DEF IInv
  <2>2. a.ack \in Seqs /\ a.sack \in SUBSET Segments
    BY <2>1 DEF AckFits, Acks
  <2> QED  BY <2>1, <2>2, Numbers DEF AckFits
<1>4. Counted(s) /\ Timed(s)
  BY DEF IInv, Counted, Counters, Timed, Kept, Body
<1>5. a.ack \in s.head .. s.highTxMark
  BY <1>3, BoardTypes
<1>6. s.sackEnabled => a.ack \notin s.sacked
  BY <1>2 DEF IInv, NoHole
<1>7. /\ Board(r) /\ r.head = a.ack /\ r.tail = s.tail
      /\ r.sackEnabled = s.sackEnabled /\ r.endPoint = s.endPoint
      /\ s.highTxMark <= r.highTxMark /\ Counted(r) /\ Timed(r)
      /\ (s.sackEnabled => r.sacked \subseteq s.sacked \cup a.sack)
      /\ \E n, segs \in Seqs : AckCalls(s.cc, s.congState, r.cc, r.congState,
                                        rtt, segs, a.ack, n, ttl)
  <2>1. s.cc \in SwiftState
    BY InvFacts
  <2> QED  BY <1>3, <1>4, <1>5, <1>6, <2>1, ReceivedAckBoard
<1> HIDE DEF r
<1>8. t.cc = r.cc /\ t.congState = r.congState
  BY <1>7, ControlKept
<1>9. snd'.cc = r.cc /\ snd'.congState = r.congState
  <2> DEFINE keeps(u) == {"cc", "congState"} \subseteq DOMAIN u
  <2>1. snd'.cc = t.cc /\ snd'.congState = t.congState
    BY <1>1
  <2> QED  BY <1>8, <2>1
<1>10. Flow!Ack
  <2>1. PICK n, segs \in Seqs : AckCalls(s.cc, s.congState, r.cc, r.congState,
                                         rtt, segs, a.ack, n, ttl)
    BY <1>7
  <2>2. AckCalls(snd.cc, snd.congState, snd'.cc, snd'.congState, rtt, segs, a.ack, n, ttl)
    BY <1>9, <2>1
  <2> DEFINE ack == a.ack
  <2> HIDE DEF ack
  <2>3. ack \in Seqs /\ AckCalls(snd.cc, snd.congState, snd'.cc, snd'.congState,
                                 rtt, segs, ack, n, ttl)
    BY <1>3, <2>2 DEF ack
  <2> QED  BY <2>3, FlowAck
<1>11. [Flow!Next]_(Flow!vars)
  BY <1>10 DEF Flow!Next
<1>12. r.cc.cWnd \in Nat
  BY <1>9, <1>11, FlowStep, FlowTypesNext DEF IInv
<1>13. Board(t) /\ Sent(r, t)
  BY <1>7, <1>12, SendPendingBoard
<1> HIDE DEF t
<1>14. Counted(t) /\ Timed(t)
  BY <1>7, <1>13, SentCounted, OnwardSent DEF Onward
<1>15. /\ t.head = a.ack /\ t.tail = snd.tail /\ t.sackEnabled = snd.sackEnabled
       /\ t.sacked = r.sacked /\ t.endPoint = snd.endPoint
       /\ snd.highTxMark <= t.highTxMark
  <2>1. t.head = r.head /\ t.tail = r.tail /\ t.sackEnabled = r.sackEnabled
        /\ t.sacked = r.sacked /\ t.endPoint = r.endPoint
        /\ r.highTxMark <= t.highTxMark
    BY <1>13 DEF Sent, Same
  <2>2. snd.highTxMark <= t.highTxMark
    BY <1>2, <1>7, <1>13, <2>1, BoardTypes
  <2> QED  BY <1>2, <1>7, <2>1, <2>2
<1>16. /\ Board(snd') /\ snd'.out = {} /\ snd'.head = t.head /\ snd'.tail = t.tail
       /\ snd'.highTxMark = t.highTxMark /\ snd'.sackEnabled = t.sackEnabled
       /\ snd'.sacked = t.sacked /\ snd'.endPoint = t.endPoint
       /\ (Counted(t) => Counted(snd')) /\ (Timed(t) => Timed(snd'))
       /\ BagToSet(data') \subseteq 0 .. snd'.highTxMark - 1
  BY <1>1, <1>13, <1>15, InvFacts, Finished DEF IInv
<1>17. snd.sackEnabled => \A x \in snd'.sacked :
           Has(rcv, x) /\ \A b \in BagToSet(acks) : b.ack # x
  <2>1. ASSUME snd.sackEnabled, NEW x \in snd'.sacked
        PROVE  Has(rcv, x) /\ \A b \in BagToSet(acks) : b.ack # x
    <3>1. x \in snd.sacked \cup a.sack
      BY <2>1, <1>2, <1>7, <1>15, <1>16
    <3>2. CASE x \in snd.sacked
      BY <2>1, <3>2 DEF IInv, NoHole
    <3>3. CASE x \in a.sack
      BY <1>3, <3>3 DEF IInv, NoHole
    <3> QED  BY <3>1, <3>2, <3>3
  <2> QED  BY <2>1
<1>18. snd'.head <= rcv.next /\ synAcks' \in 0 .. MaxSynAcks
       /\ rcv' = rcv /\ peerData' = peerData /\ snd.highTxMark <= snd'.highTxMark
       /\ snd'.sackEnabled = snd.sackEnabled
  BY <1>3, <1>15, <1>16 DEF IInv
<1>19. IInv'
  BY <1>11, <1>14, <1>16, <1>17, <1>18, SenderInv
<1>20. [Stream!Next]_(Stream!vars)
  <2>1. snd'.tail = snd.tail /\ snd'.head = a.ack /\ snd'.endPoint = snd.endPoint
        /\ rcv'.next = rcv.next
    BY <1>15, <1>16, <1>18
  <2>2. CASE a.ack = snd.head
    <3>1. Stream!vars' = Stream!vars
      BY <2>1, <2>2 DEF Stream!vars
    <3> QED  BY <3>1
  <2>3. CASE a.ack # snd.head
    <3>1. a.ack \in snd.head + 1 .. rcv.next
      BY <1>2, <1>3, <2>3, InvFacts
    <3>2. Stream!Acknowledge
      BY <2>1, <3>1 DEF Stream!Acknowledge
    <3> QED  BY <3>2 DEF Stream!Next
  <2> QED  BY <2>2, <2>3
<1> QED  BY <1>11, <1>19, <1>20 DEF Refines

\* ReceiveAck: the end point gone, an ACK outside what was sent, or within.
LEMMA ReceiveAckInv ==
  ASSUME IInv, ReceiveAck
  PROVE  IInv' /\ Refines
<1> DEFINE marked(a) == [snd EXCEPT !.highRxAckMark = Larger(snd.highRxAckMark, a.ack)]
<1>1. PICK a \in BagToSet(acks) :
        /\ acks' = acks (-) SetToBag({a})
        /\ \/ /\ snd.endPoint /\ snd.cc.cWnd <= MaxCwnd
              /\ IF a.ack < marked(a).head \/ a.ack > marked(a).highTxMark
                 THEN Finish({marked(a)})
                 ELSE \E rtt \in Rtts, ttl \in Ttls :
                         FinishSending({ReceivedAck(marked(a), a, rtt, ttl)})
           \/ ~snd.endPoint /\ UNCHANGED <<snd, data>>
        /\ UNCHANGED <<rcv, synAcks, peerData>>
  BY Zenon DEF ReceiveAck
<1> DEFINE s == marked(a)
<1>2. BagToSet(acks') \subseteq BagToSet(acks)
  BY <1>1, Dequeued
<1>3. Larger(snd.highRxAckMark, a.ack) \in Seqs
  <2>1. AckFits(a, rcv)
    BY DEF IInv
  <2>2. snd.highRxAckMark \in Seqs
    BY InvFacts, BoardTypes
  <2> QED  BY <2>1, <2>2 DEF AckFits, Acks, Larger
<1>5. Kept(snd, s) /\ s.cc = snd.cc /\ s.congState = snd.congState
  BY <1>3, InvFacts DEF Board, Sender, Kept, Body
<1> HIDE DEF marked, s
<1>6. Board(s)
  BY <1>5, InvFacts, BodyBoard DEF Kept
<1>7. Counted(s) /\ (s.endPoint => Timed(s))
  BY <1>5 DEF IInv, Counted, Counters, Timed, Kept, Body
<1>8. CASE ~snd.endPoint /\ UNCHANGED <<snd, data>>
  <2>1. Refines
    BY <1>1, <1>8, Stutters
  <2>2. IInv'
    <3>1. snd' = snd /\ data' = data /\ rcv' = rcv /\ synAcks' = synAcks
          /\ peerData' = peerData
      BY <1>1, <1>8
    <3>2. snd'.highTxMark >= snd.highTxMark /\ snd'.head <= rcv.next
      BY <3>1, InvFacts
    <3>3. snd.sackEnabled => \A x \in snd'.sacked :
              Has(rcv, x) /\ \A b \in BagToSet(acks) : b.ack # x
      BY <3>1 DEF IInv, NoHole
    <3>4. /\ Board(snd') /\ snd'.out = {} /\ Counted(snd')
          /\ (snd'.endPoint => Timed(snd')) /\ snd'.sackEnabled = snd.sackEnabled
          /\ BagToSet(data') \subseteq 0 .. snd'.highTxMark - 1
          /\ synAcks' \in 0 .. MaxSynAcks
      BY <3>1 DEF IInv
    <3> QED  BY <1>2, <2>1, <3>1, <3>2, <3>3, <3>4, SenderInv DEF Refines
  <2> QED  BY <2>1, <2>2
<1>9. CASE /\ snd.endPoint /\ snd.cc.cWnd <= MaxCwnd
           /\ IF a.ack < s.head \/ a.ack > s.highTxMark
              THEN Finish({s})
              ELSE \E rtt \in Rtts, ttl \in Ttls :
                      FinishSending({ReceivedAck(s, a, rtt, ttl)})
  <2>1. CASE a.ack < s.head \/ a.ack > s.highTxMark
    <3>1. Finish({s})
      BY <1>9, <2>1
    <3>2. /\ s.head = snd.head /\ s.tail = snd.tail /\ s.highTxMark = snd.highTxMark
          /\ s.sackEnabled = snd.sackEnabled /\ s.sacked = snd.sacked
          /\ s.endPoint = snd.endPoint
      BY <1>5 DEF Kept, Body
    <3>3. /\ IInv' /\ snd'.endPoint = s.endPoint
          /\ snd'.cc = snd.cc /\ snd'.congState = snd.congState
          /\ snd'.head = snd.head /\ snd'.tail = snd.tail
      BY <1>1, <1>2, <1>5, <1>6, <1>7, <3>1, <3>2, QuietInv
    <3>4. Refines
      BY <1>1, <3>2, <3>3, Stutters
    <3> QED  BY <3>3, <3>4
  <2>2. CASE ~(a.ack < s.head \/ a.ack > s.highTxMark)
    <3>2. PICK rtt \in Rtts, ttl \in Ttls : FinishSending({ReceivedAck(s, a, rtt, ttl)})
      BY <1>9, <2>2
    <3>3. a.ack >= s.head /\ a.ack <= s.highTxMark
      <4>1. AckFits(a, rcv)
        BY DEF IInv
      <4>2. a.ack \in Nat
        BY <4>1, Numbers DEF AckFits, Acks
      <4> QED  BY <1>6, <2>2, <4>2, BoardTypes
    <3> QED  BY <1>1, <1>2, <1>5, <1>6, <1>9, <3>2, <3>3, ReceivedAckInv
  <2> QED  BY <2>1, <2>2
<1> QED  BY <1>1, <1>8, <1>9 DEF s

\* ReceiveSynAck resets the window and the highest ACK only.
LEMMA ReceiveSynAckInv ==
  ASSUME IInv, ReceiveSynAck
  PROVE  IInv' /\ Refines
<1>1. /\ synAcks > 0 /\ synAcks' = synAcks - 1
      /\ rcv' = rcv /\ data' = data /\ acks' = acks /\ peerData' = peerData
  BY DEF ReceiveSynAck
<1>2. synAcks' \in 0 .. MaxSynAcks
  BY <1>1, NetworkAssumption DEF IInv
<1> DEFINE c == [snd.cc EXCEPT !.cWnd = InitialCwnd * SegSize,
                               !.ssThresh = InitialSsThresh]
           u == [snd EXCEPT !.cc = c, !.highRxAckMark = 0]
<1>3. snd' = IF snd.endPoint THEN u ELSE snd
  <2>1. [snd EXCEPT !.cc.cWnd = InitialCwnd * SegSize, !.cc.ssThresh = InitialSsThresh,
                    !.highRxAckMark = 0] = u
    BY InvFacts DEF Board, Sender
  <2> QED  BY <2>1 DEF ReceiveSynAck
<1>4. u.cc = c /\ u.congState = snd.congState /\ Kept(snd, u)
  <2>1. 0 \in Seqs
    BY NumSegsAssumption DEF Seqs
  <2> HIDE DEF c
  <2> QED  BY <2>1, InvFacts DEF Board, Sender, Kept, Body
<1> HIDE DEF u
<1>5. Board(u)
  BY <1>4, InvFacts, BodyBoard DEF Kept
<1>6. Kept(snd, snd')
  <2>1. Kept(snd, snd)
    BY InvFacts DEF Board, Kept, Body
  <2> QED  BY <1>3, <1>4, <2>1
<1>7. /\ Board(snd') /\ snd'.congState = snd.congState
      /\ snd'.endPoint => snd'.cc = c
  <2>1. u.endPoint = snd.endPoint
    BY <1>4 DEF Kept, Body
  <2> QED  BY <1>3, <1>4, <1>5, <2>1, InvFacts
<1>8. [Flow!Next]_(Flow!vars)
  <2>1. CASE snd.endPoint
    <3>1. Flow!RepeatedSynAck
      BY <2>1, <1>3, <1>4 DEF Flow!RepeatedSynAck
    <3> QED  BY <3>1 DEF Flow!Next
  <2>2. CASE ~snd.endPoint
    <3>1. Flow!vars' = Flow!vars
      BY <2>2, <1>3 DEF Flow!vars
    <3> QED  BY <3>1
  <2> QED  BY <2>1, <2>2
<1>9. /\ snd'.head = snd.head /\ snd'.tail = snd.tail /\ snd'.highTxMark = snd.highTxMark
      /\ snd'.sackEnabled = snd.sackEnabled /\ snd'.sacked = snd.sacked
      /\ snd'.endPoint = snd.endPoint /\ snd'.out = snd.out
  BY <1>6 DEF Kept, Body
<1>10. Counted(snd') /\ (snd'.endPoint => Timed(snd'))
  BY <1>6, <1>7, <1>9 DEF IInv, Counted, Counters, Timed, Kept, Body
<1>11. snd.sackEnabled => \A x \in snd'.sacked :
           Has(rcv, x) /\ \A b \in BagToSet(acks) : b.ack # x
  BY <1>9 DEF IInv, NoHole
<1>12. /\ snd.highTxMark <= snd'.highTxMark /\ snd'.head <= rcv.next
       /\ snd'.out = {} /\ BagToSet(data') \subseteq 0 .. snd'.highTxMark - 1
  BY <1>1, <1>9, InvFacts DEF IInv
<1>13. IInv'
  BY <1>1, <1>2, <1>7, <1>8, <1>9, <1>10, <1>11, <1>12, SenderInv
<1>14. Stream!vars' = Stream!vars
  BY <1>1, <1>9 DEF Stream!vars
<1> QED  BY <1>8, <1>13, <1>14 DEF Refines

\* A timeout with data in the buffer and a retry left.
LEMMA RetransmissionInv ==
  ASSUME IInv, NEW s, Board(s), Body(snd, s), s.cc = snd.cc, s.dataRetrCount # 0,
         FinishSending({RetransmissionTimeout(s)}),
         UNCHANGED <<rcv, acks, synAcks, peerData>>
  PROVE  IInv' /\ Refines
<1> DEFINE r == RetransmissionTimeout(s)
           t == SendPendingData(r)
<1>1. snd' = [t EXCEPT !.out = {}] /\ data' = Enqueue(data, t.out)
  BY DEF FinishSending, Finish
<1>2. /\ Board(r) /\ r.head = s.head /\ r.tail = s.tail
      /\ r.highTxMark = s.highTxMark /\ r.sackEnabled = s.sackEnabled
      /\ r.endPoint = s.endPoint
      /\ r.sacked = (IF s.sackEnabled THEN s.sacked ELSE {})
      /\ r.lost = SentList(s) \ r.sacked /\ r.retrans = {}
      /\ r.congState = "LOSS" /\ r.cc = Collapsed(s.cc)
      /\ r.pacingTimer = FALSE /\ Counted(r)
  BY TimeoutBoard
<1> HIDE DEF r
<1>3. t.cc = r.cc /\ t.congState = r.congState
  BY <1>2, ControlKept
<1>4. snd'.cc = r.cc /\ snd'.congState = r.congState
  BY <1>1, <1>3
<1>5. [Flow!Next]_(Flow!vars)
  <2>1. snd'.congState = "LOSS" /\ snd'.cc = Collapsed(snd.cc)
    BY <1>2, <1>4
  <2>2. Flow!Timeout
    BY <2>1, FlowTimeout
  <2> QED  BY <2>2 DEF Flow!Next
<1>6. r.cc.cWnd = SegSize
  <2>1. snd.cc \in SwiftState
    BY InvFacts
  <2> QED  BY <1>2, <2>1 DEF Collapsed, DisableSwift, SwiftState
<1>7. Board(t) /\ Sent(r, t) /\ (FirstOf(LostToSend(r), Budget(r)) # {} => t.retxEvent)
  <2>1. r.cc.cWnd \in Nat
    BY <1>6, SegSizeAssumption
  <2> QED  BY <1>2, <2>1, SendPendingBoard
<1> HIDE DEF t
<1>8. Counted(t)
  BY <1>2, <1>7, SentCounted
<1>9. /\ s.head = snd.head /\ s.tail = snd.tail /\ s.highTxMark = snd.highTxMark
      /\ s.sackEnabled = snd.sackEnabled /\ s.sacked = snd.sacked
      /\ s.endPoint = snd.endPoint
  BY DEF Body
<1>10. /\ t.head = snd.head /\ t.tail = snd.tail /\ t.sackEnabled = snd.sackEnabled
       /\ t.sacked = r.sacked /\ t.endPoint = snd.endPoint
       /\ snd.highTxMark <= t.highTxMark
       /\ (t.retxEvent \/ t.highTxMark = snd.highTxMark)
  BY <1>2, <1>7, <1>9 DEF Sent, Same
<1>11. t.endPoint => Timed(t)
  <2>1. ASSUME t.endPoint, t.head < t.highTxMark, ~t.retxEvent
        PROVE  FALSE
    <3>1. r.endPoint /\ r.head < r.highTxMark
      BY <1>2, <1>9, <1>10, <2>1
    <3>2. SentList(r) = SentList(s)
      BY <1>2 DEF SentList
    <3>3. FirstOf(LostToSend(r), Budget(r)) # {}
      BY <1>2, <1>6, <3>1, <3>2, TimeoutSends
    <3> QED  BY <1>7, <2>1, <3>3
  <2> QED  BY <2>1, <1>7, BoardTypes DEF Timed
<1>12. /\ Board(snd') /\ snd'.out = {} /\ snd'.head = t.head /\ snd'.tail = t.tail
       /\ snd'.highTxMark = t.highTxMark /\ snd'.sackEnabled = t.sackEnabled
       /\ snd'.sacked = t.sacked /\ snd'.endPoint = t.endPoint
       /\ (Counted(t) => Counted(snd')) /\ (Timed(t) => Timed(snd'))
       /\ BagToSet(data') \subseteq 0 .. snd'.highTxMark - 1
  BY <1>1, <1>7, <1>10, InvFacts, Finished DEF IInv
<1>13. snd.sackEnabled => \A x \in snd'.sacked :
           Has(rcv, x) /\ \A b \in BagToSet(acks) : b.ack # x
  BY <1>2, <1>9, <1>10, <1>12 DEF IInv, NoHole
<1>14. snd'.head <= rcv.next /\ synAcks' \in 0 .. MaxSynAcks
       /\ snd.highTxMark <= snd'.highTxMark /\ snd'.sackEnabled = snd.sackEnabled
       /\ BagToSet(acks') \subseteq BagToSet(acks) /\ rcv' = rcv /\ peerData' = peerData
  BY <1>10, <1>12, InvFacts DEF IInv
<1>15. IInv'
  BY <1>5, <1>8, <1>11, <1>12, <1>13, <1>14, SenderInv
<1>16. Stream!vars' = Stream!vars
  BY <1>10, <1>12, <1>14 DEF Stream!vars
<1> QED  BY <1>5, <1>15, <1>16 DEF Refines

\* ReTxTimeout: nothing to send, no retry left, or all is sent again.
LEMMA ReTxTimeoutInv ==
  ASSUME IInv, ReTxTimeout
  PROVE  IInv' /\ Refines
<1> DEFINE s == [snd EXCEPT !.retxEvent = FALSE]
           u == [s EXCEPT !.endPoint = FALSE, !.pacingTimer = FALSE, !.sendEvent = FALSE]
<1>1. /\ IF s.head = s.tail THEN Finish({s})
         ELSE IF s.dataRetrCount = 0 THEN Finish({u})
         ELSE FinishSending({RetransmissionTimeout(s)})
      /\ UNCHANGED <<rcv, acks, synAcks, peerData>>
  BY DEF ReTxTimeout
<1>2. /\ Body(snd, s) /\ s.cc = snd.cc /\ s.congState = snd.congState
      /\ s.dupAckCount = snd.dupAckCount /\ s.recover = snd.recover
      /\ s.recoverActive = snd.recoverActive
      /\ s.isFirstPartialAck = snd.isFirstPartialAck
  BY InvFacts DEF Board, Sender, Body
<1>3. Board(s)
  BY <1>2, InvFacts, BodyBoard
<1>4. s \in Sender(s.cc)
  BY <1>2 DEF Body
<1> HIDE DEF s
<1>5. Counted(s)
  BY <1>2 DEF IInv, Counted, Counters, Body
<1>6. CASE s.head = s.tail
  <2>1. Timed(s)
    BY <1>3, <1>6, BoardTypes DEF Timed
  <2>2. Finish({s})
    BY <1>1, <1>6
  <2>3. /\ s.head = snd.head /\ s.tail = snd.tail /\ s.highTxMark = snd.highTxMark
        /\ s.sackEnabled = snd.sackEnabled /\ s.sacked = snd.sacked
        /\ s.endPoint = snd.endPoint
    BY <1>2 DEF Body
  <2>4. /\ IInv' /\ snd'.endPoint = s.endPoint
        /\ snd'.cc = snd.cc /\ snd'.congState = snd.congState
        /\ snd'.head = snd.head /\ snd'.tail = snd.tail
    BY <1>1, <1>2, <1>3, <1>5, <2>1, <2>2, <2>3, QuietInv
  <2>5. Refines
    BY <1>1, <2>3, <2>4, Stutters
  <2> QED  BY <2>4, <2>5
<1>7. CASE s.head # s.tail /\ s.dataRetrCount = 0
  <2>1. /\ u \in Sender(u.cc) /\ u.endPoint = FALSE /\ u.cc = s.cc
        /\ u.congState = s.congState /\ u.dupAckCount = s.dupAckCount
        /\ u.recover = s.recover /\ u.recoverActive = s.recoverActive
        /\ u.isFirstPartialAck = s.isFirstPartialAck
        /\ u.sackEnabled = s.sackEnabled /\ u.head = s.head /\ u.tail = s.tail
        /\ u.highTxMark = s.highTxMark /\ u.sacked = s.sacked /\ u.lost = s.lost
        /\ u.retrans = s.retrans /\ u.out = s.out
    BY <1>4 DEF Sender
  <2>2. Finish({u})
    BY <1>1, <1>7
  <2> HIDE DEF u
  <2>3. SentList(u) = SentList(s)
    BY <2>1 DEF SentList
  <2>4. Board(u) /\ Counted(u)
    BY <1>3, <1>5, <2>1, <2>3 DEF Board, Counted, Counters
  <2>5. /\ u.head = snd.head /\ u.tail = snd.tail /\ u.highTxMark = snd.highTxMark
        /\ u.sackEnabled = snd.sackEnabled /\ u.sacked = snd.sacked
        /\ u.cc = snd.cc /\ u.congState = snd.congState
    BY <1>2, <2>1 DEF Body
  <2>6. /\ IInv' /\ snd'.endPoint = FALSE
        /\ snd'.cc = snd.cc /\ snd'.congState = snd.congState
        /\ snd'.head = snd.head /\ snd'.tail = snd.tail
    BY <1>1, <2>1, <2>2, <2>4, <2>5, QuietInv
  <2>7. CASE snd.endPoint
    <3>1. snd.head < snd.tail
      BY <1>2, <1>7, InvFacts DEF Body
    <3>2. Stream!Abort
      BY <1>1, <2>6, <2>7, <3>1 DEF Stream!Abort
    <3>3. Flow!vars' = Flow!vars
      BY <2>6 DEF Flow!vars
    <3> QED  BY <2>6, <3>2, <3>3 DEF Refines, Stream!Next
  <2>8. CASE ~snd.endPoint
    <3>1. snd'.endPoint = snd.endPoint
      BY <2>6, <2>8, InvFacts
    <3>2. Refines
      BY <1>1, <2>6, <3>1, Stutters
    <3> QED  BY <2>6, <3>2
  <2> QED  BY <2>7, <2>8
<1>8. CASE s.head # s.tail /\ s.dataRetrCount # 0
  <2>1. FinishSending({RetransmissionTimeout(s)})
    BY <1>1, <1>8
  <2> QED  BY <1>1, <1>2, <1>3, <1>8, <2>1, RetransmissionInv
<1> QED  BY <1>6, <1>7, <1>8

-----------------------------------------------------------------------------
(***************************************************************************)
(* Steps of the receiver and of the network                                *)
(***************************************************************************)
\* What the receiver does not have is no number of a SACK block.
LEMMA NextMissing ==
  ASSUME NEW r, NEW high, Received(r, high), NEW x, Has(r, x), x \in Nat
  PROVE  x # r.next /\ (r.next <= x => x \in r.held)
<1>1. r.next \in Nat
  BY Numbers DEF Received, ReceiverState
<1>2. x < r.next \/ x \in r.next + 1 .. high - 1
  BY DEF Received, Has
<1> QED  BY <1>1, <1>2 DEF Has

\* The sender does nothing; the receiver gets on and may send the ACK a.
LEMMA ReceiverInv ==
  ASSUME IInv, snd' = snd, Received(rcv', snd.highTxMark), rcv.next <= rcv'.next,
         \A x \in Segments : Has(rcv, x) => Has(rcv', x),
         BagToSet(data') \subseteq BagToSet(data),
         NEW a, a \in Acks, a.ack = rcv'.next, a.sack \subseteq rcv'.held,
         BagToSet(acks') \subseteq BagToSet(acks) \cup {a},
         synAcks' \in 0 .. MaxSynAcks, peerData' \in 0 .. MaxPeerData
  PROVE  IInv' /\ Refines
<1>1. /\ rcv'.next \in Nat /\ rcv'.next <= snd.highTxMark
      /\ rcv'.held \subseteq rcv'.next + 1 .. snd.highTxMark - 1
  BY Numbers DEF Received, ReceiverState
<1>2. a.ack \in Nat /\ a.sack \in SUBSET Segments
  BY <1>1 DEF Acks
<1>3. AckFits(a, rcv')
  <2>1. \A x \in a.sack : x > a.ack /\ Has(rcv', x)
    BY <1>1 DEF Has
  <2> QED  BY <1>1, <2>1 DEF AckFits
<1>4. ASSUME NEW b \in BagToSet(acks)
      PROVE  /\ AckFits(b, rcv') /\ b.ack \in Nat /\ b.ack <= rcv.next
             /\ b.sack \in SUBSET Segments /\ \A x \in b.sack : Has(rcv, x)
  <2>1. AckFits(b, rcv)
    BY DEF IInv
  <2>2. b \in Acks /\ b.ack <= rcv.next /\ \A x \in b.sack : x > b.ack /\ Has(rcv, x)
    BY <2>1 DEF AckFits
  <2>3. b.ack \in Nat /\ b.sack \in SUBSET Segments
    BY <2>2, Numbers DEF Acks
  <2>4. b.ack <= rcv'.next
    BY <1>1, <2>2, <2>3, InvFacts
  <2> QED  BY <2>2, <2>3, <2>4 DEF AckFits
<1>5. \A b \in BagToSet(acks') : AckFits(b, rcv')
  BY <1>3, <1>4
<1>6. ASSUME NEW x \in Segments, Has(rcv, x)
      PROVE  x # a.ack
  <2>1. x \in Nat /\ Has(rcv', x)
    BY <1>6, Numbers
  <2> QED  BY <2>1, NextMissing
<1>7. NoHole(snd, BagToSet(acks'))
  <2>1. ASSUME NEW b \in BagToSet(acks'), NEW c \in BagToSet(acks')
        PROVE  b.ack \notin c.sack
    <3>1. CASE c = a
      <4>1. b.ack \in Nat /\ b.ack <= rcv'.next
        BY <1>1, <1>2, <1>4, InvFacts
      <4> QED  BY <1>1, <3>1, <4>1
    <3>2. CASE c # a /\ b = a
      <4>1. c.sack \in SUBSET Segments /\ \A x \in c.sack : Has(rcv, x)
        BY <1>4, <3>2
      <4> QED  BY <1>6, <3>2, <4>1
    <3>3. CASE c # a /\ b # a
      BY <3>3 DEF IInv, NoHole
    <3> QED  BY <3>1, <3>2, <3>3
  <2>2. ASSUME snd.sackEnabled, NEW b \in BagToSet(acks')
        PROVE  b.ack \notin snd.sacked
    <3>1. snd.sacked \in SUBSET Segments /\ \A x \in snd.sacked : Has(rcv, x)
      BY <2>2, InvFacts, BoardTypes DEF IInv
    <3>2. CASE b = a
      BY <1>6, <3>1, <3>2
    <3>3. CASE b # a
      BY <2>2, <3>3 DEF IInv, NoHole
    <3> QED  BY <3>2, <3>3
  <2> QED  BY <2>1, <2>2 DEF NoHole
<1>8. snd.sackEnabled => \A x \in snd.sacked : Has(rcv', x)
  BY InvFacts, BoardTypes DEF IInv
<1>9. snd.head <= rcv'.next
  BY <1>1, InvFacts
<1>10. [Flow!Next]_(Flow!vars)
  BY DEF Flow!vars
<1>11. FlowProofs!IInv'
  BY <1>10, FlowStep DEF IInv
<1>12. BagToSet(data') \subseteq 0 .. snd.highTxMark - 1
  BY DEF IInv
<1>13. IInv'
  BY <1>5, <1>7, <1>8, <1>9, <1>11, <1>12 DEF IInv
<1>14. [Stream!Next]_(Stream!vars)
  <2>1. CASE rcv'.next = rcv.next
    BY <2>1 DEF Stream!vars
  <2>2. CASE rcv'.next # rcv.next
    <3>1. rcv'.next \in rcv.next + 1 .. snd.tail
      BY <1>1, <2>2, InvFacts
    <3>2. Stream!Deliver
      BY <3>1 DEF Stream!Deliver
    <3> QED  BY <3>2 DEF Stream!Next
  <2> QED  BY <2>1, <2>2
<1> QED  BY <1>10, <1>13, <1>14 DEF Refines

\* The next number after the segments held, up to a hole.
LEMMA NextRxFits ==
  ASSUME NEW n \in Nat, NEW high \in Nat, n <= high, high <= NumSegs,
         NEW held, held \subseteq 0 .. high - 1
  PROVE  LET m == NextRx(n, held)
         IN  m \in Nat /\ n <= m /\ m <= high /\ m \notin held
<1> DEFINE S == (n .. NumSegs) \ held
<1>1. S \subseteq Nat /\ high \in S
  BY NumSegsAssumption
<1>2. \A x \in S : n <= x
  OBVIOUS
<1>3. S \cap held = {}
  OBVIOUS
<1>4. NextRx(n, held) = Min(S)
  BY DEF NextRx
<1> HIDE DEF S
<1>5. \E x \in S : \A y \in S : x <= y
  BY <1>1, Least
<1>6. Min(S) \in S /\ \A y \in S : Min(S) <= y
  BY <1>5 DEF Min
<1> QED  BY <1>1, <1>2, <1>3, <1>4, <1>6

\* The ACK of a receiver speaks of that receiver.
LEMMA AckOfFits ==
  ASSUME NEW r, r \in ReceiverState
  PROVE  LET a == AckOf(r)
         IN  a \in Acks /\ a.ack = r.next /\ a.sack \subseteq r.held
  BY DEF AckOf, Acks, ReceiverState

\* ReceiveData: the numbers advance to the next hole.
LEMMA ReceiveDataInv ==
  ASSUME IInv, ReceiveData
  PROVE  IInv' /\ Refines
<1> DEFINE held(seq) == rcv.held \cup {seq}
           next(seq) == NextRx(rcv.next, held(seq))
           above(seq) == {x \in held(seq) : x >= next(seq)}
           prompt(seq) == \/ seq < rcv.next \/ seq \in rcv.held
                          \/ above(seq) # {}
                          \/ next(seq) > seq + 1
                          \/ rcv.delAckCount + 1 >= DelAckMax
<1>1. PICK seq \in BagToSet(data) :
        /\ data' = data (-) SetToBag({seq})
        /\ rcv' = [rcv EXCEPT !.next = next(seq), !.held = above(seq),
                              !.delAckCount = IF prompt(seq) THEN 0 ELSE @ + 1,
                              !.delAckEvent = ~prompt(seq)]
        /\ acks' = IF prompt(seq) THEN Enqueue(acks, {AckOf(rcv')}) ELSE acks
        /\ UNCHANGED <<snd, synAcks, peerData>>
  BY DEF ReceiveData
<1> DEFINE h == held(seq)
           n == next(seq)
           ab == above(seq)
           pr == prompt(seq)
           count == IF pr THEN 0 ELSE rcv.delAckCount + 1
<1>2. /\ rcv \in ReceiverState /\ rcv.held \subseteq rcv.next + 1 .. snd.highTxMark - 1
      /\ seq \in 0 .. snd.highTxMark - 1
  BY DEF IInv, Received
<1>3. h \subseteq 0 .. snd.highTxMark - 1
  <2>1. rcv.next + 1 .. snd.highTxMark - 1 \subseteq 0 .. snd.highTxMark - 1
    BY InvFacts
  <2> QED  BY <1>2, <2>1
<1>4. n \in Nat /\ rcv.next <= n /\ n <= snd.highTxMark /\ n \notin h
  <2> HIDE DEF held
  <2>1. n = NextRx(rcv.next, h)
    OBVIOUS
  <2> HIDE DEF next, h, n
  <2>2. snd.highTxMark <= NumSegs
    BY InvFacts, Numbers
  <2> QED  BY <1>3, <2>1, <2>2, InvFacts, NextRxFits DEF h
<1>5. ab \subseteq n + 1 .. snd.highTxMark - 1 /\ ab = {x \in h : x >= n}
  <2>1. ab = {x \in h : x >= n}
    OBVIOUS
  <2> HIDE DEF ab, h, n
  <2>2. \A x \in h : x \in Nat /\ x <= snd.highTxMark - 1
    BY <1>3
  <2> QED  BY <1>4, <2>1, <2>2, InvFacts
<1>6. count \in 0 .. DelAckMax - 1 /\ pr \in BOOLEAN
  <2>1. rcv.delAckCount \in Nat
    BY <1>2 DEF ReceiverState
  <2>2. pr \in BOOLEAN /\ (~pr => ~(rcv.delAckCount + 1 >= DelAckMax))
    OBVIOUS
  <2> HIDE DEF pr
  <2> QED  BY <2>1, <2>2, DelAckAssumption
<1>7. rcv' = [rcv EXCEPT !.next = n, !.held = ab, !.delAckCount = count,
                         !.delAckEvent = ~pr]
  <2>1. rcv' = [rcv EXCEPT !.next = next(seq), !.held = above(seq),
                           !.delAckCount = IF prompt(seq) THEN 0 ELSE @ + 1,
                           !.delAckEvent = ~prompt(seq)]
    BY <1>1
  <2> HIDE DEF next, above, prompt
  <2> QED  BY <1>2, <2>1 DEF ReceiverState
<1>8. acks' = IF pr THEN Enqueue(acks, {AckOf(rcv')}) ELSE acks
  BY <1>1
<1>9. \A x \in Segments : Has(rcv, x) => x < n \/ x \in ab
  <2>1. \A x \in Segments : Has(rcv, x) => x < rcv.next \/ x \in h
    BY DEF Has
  <2> HIDE DEF ab, h, n
  <2> QED  BY <1>4, <1>5, <2>1, Numbers, InvFacts
<1> HIDE DEF held, next, above, prompt, h, n, ab, pr, count
<1>10. n \in Seqs /\ ab \in SUBSET Segments
  BY <1>4, <1>5, InvFacts, Numbers
<1>11. rcv' \in ReceiverState /\ rcv'.next = n /\ rcv'.held = ab
  BY <1>2, <1>6, <1>7, <1>10 DEF ReceiverState
<1>12. Received(rcv', snd.highTxMark)
  BY <1>4, <1>5, <1>11 DEF Received
<1>13. \A x \in Segments : Has(rcv, x) => Has(rcv', x)
  BY <1>9, <1>11 DEF Has
<1> DEFINE a == AckOf(rcv')
<1>14. a \in Acks /\ a.ack = rcv'.next /\ a.sack \subseteq rcv'.held
  BY <1>11, AckOfFits
<1>15. BagToSet(acks') \subseteq BagToSet(acks) \cup {a}
  BY <1>8, Enqueued
<1>16. BagToSet(data') \subseteq BagToSet(data)
  BY <1>1, Dequeued
<1> HIDE DEF a
<1>17. /\ snd' = snd /\ synAcks' \in 0 .. MaxSynAcks /\ peerData' \in 0 .. MaxPeerData
       /\ rcv.next <= rcv'.next
  BY <1>1, <1>4, <1>11 DEF IInv
<1> QED  BY <1>12, <1>13, <1>14, <1>15, <1>16, <1>17, ReceiverInv

\* The delayed-ACK timer is off, and an ACK that fits may be on its way.
LEMMA AckSentInv ==
  ASSUME IInv, rcv' = [rcv EXCEPT !.delAckCount = 0, !.delAckEvent = FALSE],
         NEW a, a \in Acks, a.ack = rcv.next, a.sack \subseteq rcv.held,
         acks' = Enqueue(acks, {a}), UNCHANGED <<snd, data>>,
         synAcks' \in 0 .. MaxSynAcks, peerData' \in 0 .. MaxPeerData
  PROVE  IInv' /\ Refines
<1>1. rcv \in ReceiverState
  BY DEF IInv, Received
<1>2. rcv' \in ReceiverState /\ rcv'.next = rcv.next /\ rcv'.held = rcv.held
  <2>1. 0 \in 0 .. DelAckMax - 1
    BY DelAckAssumption
  <2> QED  BY <1>1, <2>1 DEF ReceiverState
<1>3. Received(rcv', snd.highTxMark) /\ (\A x \in Segments : Has(rcv, x) => Has(rcv', x))
  BY <1>2 DEF IInv, Received, Has
<1>4. BagToSet(acks') \subseteq BagToSet(acks) \cup {a}
  BY Enqueued
<1>5. rcv.next <= rcv'.next
  BY <1>2, InvFacts
<1>6. snd' = snd /\ BagToSet(data') \subseteq BagToSet(data)
  OBVIOUS
<1> QED  BY <1>2, <1>3, <1>4, <1>5, <1>6, ReceiverInv

\* DelAckTimeout sends the ACK that was held back.
LEMMA DelAckTimeoutInv ==
  ASSUME IInv, DelAckTimeout
  PROVE  IInv' /\ Refines
<1> DEFINE a == AckOf(rcv)
<1>1. a \in Acks /\ a.ack = rcv.next /\ a.sack \subseteq rcv.held
  BY AckOfFits DEF IInv, Received
<1>2. /\ rcv' = [rcv EXCEPT !.delAckCount = 0, !.delAckEvent = FALSE]
      /\ acks' = Enqueue(acks, {a}) /\ UNCHANGED <<snd, data>>
      /\ synAcks' \in 0 .. MaxSynAcks /\ peerData' \in 0 .. MaxPeerData
  BY DEF DelAckTimeout, IInv
<1> HIDE DEF a
<1> QED  BY <1>1, <1>2, AckSentInv

\* PeerSendsData sends it with data, without SACK blocks.
LEMMA PeerSendsDataInv ==
  ASSUME IInv, PeerSendsData
  PROVE  IInv' /\ Refines
<1> DEFINE a == [ack |-> rcv.next, sack |-> {}]
<1>1. a \in Acks /\ a.ack = rcv.next /\ a.sack \subseteq rcv.held
  BY DEF IInv, Received, ReceiverState, Acks
<1>2. peerData' \in 0 .. MaxPeerData
  <2>1. peerData \in 0 .. MaxPeerData /\ peerData < MaxPeerData /\ peerData' = peerData + 1
    BY DEF IInv, PeerSendsData
  <2> QED  BY <2>1, NetworkAssumption
<1>3. /\ rcv' = [rcv EXCEPT !.delAckCount = 0, !.delAckEvent = FALSE]
      /\ acks' = Enqueue(acks, {a}) /\ UNCHANGED <<snd, data>>
      /\ synAcks' \in 0 .. MaxSynAcks
  BY DEF PeerSendsData, IInv
<1> HIDE DEF a
<1> QED  BY <1>1, <1>2, <1>3, AckSentInv

\* Packets leave the network, or nothing happens.
LEMMA NetworkInv ==
  ASSUME IInv, UNCHANGED <<snd, rcv, peerData>>,
         BagToSet(data') \subseteq BagToSet(data),
         BagToSet(acks') \subseteq BagToSet(acks), synAcks' \in 0 .. MaxSynAcks
  PROVE  IInv' /\ Refines
<1> DEFINE a == AckOf(rcv)
<1>1. a \in Acks /\ a.ack = rcv'.next /\ a.sack \subseteq rcv'.held
  BY AckOfFits DEF IInv, Received
<1>2. BagToSet(acks') \subseteq BagToSet(acks) \cup {a}
  OBVIOUS
<1> HIDE DEF a
<1>3. Received(rcv', snd.highTxMark) /\ (\A x \in Segments : Has(rcv, x) => Has(rcv', x))
      /\ peerData' \in 0 .. MaxPeerData
  BY DEF IInv
<1>4. rcv.next <= rcv'.next
  BY InvFacts
<1> QED  BY <1>1, <1>2, <1>3, <1>4, ReceiverInv

\* Lose takes a packet from the network.
LEMMA LoseInv ==
  ASSUME IInv, Lose
  PROVE  IInv' /\ Refines
<1>1. UNCHANGED <<snd, rcv, peerData>>
  BY DEF Lose
<1>2. CASE /\ \E seq \in BagToSet(data) : data' = data (-) SetToBag({seq})
           /\ UNCHANGED <<acks, synAcks>>
  <2>1. BagToSet(data') \subseteq BagToSet(data)
    BY <1>2, Dequeued
  <2>2. BagToSet(acks') \subseteq BagToSet(acks) /\ synAcks' \in 0 .. MaxSynAcks
    BY <1>2 DEF IInv
  <2> QED  BY <1>1, <2>1, <2>2, NetworkInv
<1>3. CASE /\ \E a \in BagToSet(acks) : acks' = acks (-) SetToBag({a})
           /\ UNCHANGED <<data, synAcks>>
  <2>1. BagToSet(acks') \subseteq BagToSet(acks)
    BY <1>3, Dequeued
  <2>2. BagToSet(data') \subseteq BagToSet(data) /\ synAcks' \in 0 .. MaxSynAcks
    BY <1>3 DEF IInv
  <2> QED  BY <1>1, <2>1, <2>2, NetworkInv
<1>4. CASE synAcks > 0 /\ synAcks' = synAcks - 1 /\ UNCHANGED <<data, acks>>
  <2>1. BagToSet(data') \subseteq BagToSet(data) /\ BagToSet(acks') \subseteq BagToSet(acks)
    BY <1>4
  <2>2. synAcks' \in 0 .. MaxSynAcks
    BY <1>4, NetworkAssumption DEF IInv
  <2> QED  BY <1>1, <2>1, <2>2, NetworkInv
<1> QED  BY <1>2, <1>3, <1>4 DEF Lose

-----------------------------------------------------------------------------
(***************************************************************************)
(* The inductive invariant and the refinements                             *)
(***************************************************************************)
LEMMA InvInit ==
  ASSUME Init
  PROVE  IInv /\ Flow!Init /\ Stream!Init
<1>1. PICK sack \in SackModes :
          /\ snd = [ sackEnabled |-> sack, head |-> 0, tail |-> 0, highTxMark |-> 0,
                     nextTxSequence |-> 0, highRxAckMark |-> 0,
                     sacked |-> {}, lost |-> {}, retrans |-> {},
                     congState |-> "OPEN", dupAckCount |-> 0, recover |-> 0,
                     recoverActive |-> FALSE, isFirstPartialAck |-> TRUE,
                     dataRetrCount |-> DataRetries, retxEvent |-> FALSE,
                     pacingTimer |-> FALSE, sendEvent |-> FALSE, endPoint |-> TRUE,
                     cc |-> NewSwift, out |-> {} ]
          /\ rcv = [ sackEnabled |-> sack, next |-> 0, held |-> {},
                     delAckCount |-> 0, delAckEvent |-> FALSE ]
  BY DEF Init
<1>2. 0 \in Seqs /\ DataRetries \in 0 .. DataRetries /\ 0 \in 0 .. DelAckMax - 1
      /\ "OPEN" \in CongStates /\ 0 \in Nat
  BY NumSegsAssumption, RetriesAssumption, DelAckAssumption DEF Seqs, CongStates
<1>3. /\ snd \in Sender(snd.cc) /\ snd.head = 0 /\ snd.tail = 0 /\ snd.highTxMark = 0
      /\ snd.sacked = {} /\ snd.lost = {} /\ snd.retrans = {} /\ snd.out = {}
      /\ snd.congState = "OPEN" /\ snd.dupAckCount = 0 /\ snd.recoverActive = FALSE
      /\ snd.isFirstPartialAck = TRUE /\ snd.endPoint = TRUE /\ snd.cc = NewSwift
  <2> HIDE DEF NewSwift
  <2> QED  BY <1>1, <1>2 DEF Sender
<1>4. Board(snd)
  BY <1>3 DEF Board
<1>5. Counted(snd) /\ Timed(snd)
  BY <1>3 DEF Counted, Counters, Timed
<1>6. rcv \in ReceiverState /\ rcv.next = 0 /\ rcv.held = {}
  BY <1>1, <1>2 DEF ReceiverState
<1>7. Received(rcv, snd.highTxMark) /\ snd.head <= rcv.next
  BY <1>3, <1>6 DEF Received
<1>8. BagToSet(data) = {} /\ BagToSet(acks) = {}
  BY DEF Init, EmptyBag, SetToBag, BagToSet
<1>9. NoHole(snd, BagToSet(acks))
  BY <1>8 DEF NoHole
<1>10. Flow!Init
  <2>1. Flow!NewSwift = NewSwift
    BY DEF Flow!NewSwift, NewSwift
  <2> QED  BY <1>3, <2>1 DEF Flow!Init
<1>11. FlowProofs!IInv
  BY <1>10, FlowInit
<1>12. synAcks \in 0 .. MaxSynAcks /\ peerData \in 0 .. MaxPeerData
  BY NetworkAssumption DEF Init
<1>13. IInv
  BY <1>3, <1>4, <1>5, <1>7, <1>8, <1>9, <1>11, <1>12 DEF IInv
<1>14. Stream!Init
  BY <1>3, <1>6 DEF Stream!Init
<1> QED  BY <1>10, <1>13, <1>14

\* Every action keeps the invariant and is a step of both refinements.
LEMMA InvStep ==
  ASSUME IInv, [Next]_vars
  PROVE  IInv' /\ Refines
<1>1. CASE Send
  BY <1>1, SendInv
<1>2. CASE SendPendingDataEvent
  BY <1>2, SendPendingDataEventInv
<1>3. CASE PacingTimerExpires
  BY <1>3, PacingTimerExpiresInv
<1>4. CASE ReceiveAck
  BY <1>4, ReceiveAckInv
<1>5. CASE ReceiveSynAck
  BY <1>5, ReceiveSynAckInv
<1>6. CASE ReTxTimeout
  BY <1>6, ReTxTimeoutInv
<1>7. CASE ReceiveData
  BY <1>7, ReceiveDataInv
<1>8. CASE DelAckTimeout
  BY <1>8, DelAckTimeoutInv
<1>9. CASE PeerSendsData
  BY <1>9, PeerSendsDataInv
<1>10. CASE Lose
  BY <1>10, LoseInv
<1>11. CASE Done \/ UNCHANGED vars
  <2>1. UNCHANGED <<snd, rcv, data, acks, synAcks, peerData>>
    BY <1>11 DEF Done, vars
  <2>2. /\ BagToSet(data') \subseteq BagToSet(data)
        /\ BagToSet(acks') \subseteq BagToSet(acks) /\ synAcks' \in 0 .. MaxSynAcks
    BY <2>1 DEF IInv
  <2> QED  BY <2>1, <2>2, NetworkInv
<1> QED  BY <1>1, <1>2, <1>3, <1>4, <1>5, <1>6, <1>7, <1>8, <1>9, <1>10, <1>11 DEF Next

-----------------------------------------------------------------------------
(***************************************************************************)
(* Theorems                                                                *)
(***************************************************************************)
\* The inductive invariant: the scoreboard lies in what was sent, the receiver
\* has what is taken for SACKed, the counters, the recovery point and the timer
\* fit the state, and no number that an ACK has is in a SACK block.
THEOREM Invariance == Spec => []IInv
<1>1. Init => IInv
  BY InvInit
<1>2. IInv /\ [Next]_vars => IInv'
  BY InvStep
<1> QED  BY <1>1, <1>2, PTL DEF Spec

\* Every field of the two sockets keeps its type, whatever the handlers do.
THEOREM TypeCorrect == Spec => []TypeOK
<1>1. IInv => TypeOK
  <2> SUFFICES ASSUME IInv PROVE TypeOK
    OBVIOUS
  <2>1. snd \in SenderState
    <3>1. snd \in Sender(snd.cc) /\ snd.cc \in SwiftState
      BY InvFacts DEF Board
    <3> QED  BY <3>1 DEF Sender, SenderState
  <2>2. BagToSet(data) \subseteq Segments
    <3>1. 0 .. snd.highTxMark - 1 \subseteq Segments
      BY InvFacts, Numbers
    <3> QED  BY <3>1 DEF IInv
  <2>3. BagToSet(acks) \subseteq Acks
    BY DEF IInv, AckFits
  <2> QED  BY <2>1, <2>2, <2>3 DEF TypeOK, IInv, Received
<1> QED  BY <1>1, Invariance, PTL

\* DupAck finds no duplicate counted in Open and fewer than m_retxThresh in
\* Disorder, as it asserts, and a recovery finds its first partial ACK ahead.
THEOREM CountersAlwaysFit == Spec => []CountersFit
<1>1. IInv => CountersFit
  BY DEF IInv, Counted, Counters, CountersFit
<1> QED  BY <1>1, Invariance, PTL

\* The recovery point is active in Recovery and Loss alone and lies in what was
\* sent and not acknowledged: "ackNumber - m_recover" of FullAck never wraps.
THEOREM RecoveryPointFits == Spec => []RecoveryPoint
<1>1. IInv => RecoveryPoint
  BY DEF IInv, Counted, Counters, RecoveryPoint
<1> QED  BY <1>1, Invariance, PTL

\* Without SACK nothing is guessed to be SACKed while a timeout is recovered.
THEOREM GuessesEnd == Spec => []RenoGuessEnds
<1>1. IInv => RenoGuessEnds
  BY DEF IInv, Counted, Counters, RenoGuessEnds
<1> QED  BY <1>1, Invariance, PTL

\* The receiver has whatever the sender's scoreboard takes for SACKed, though
\* ACKs are lost, late and out of order and a timeout keeps the scoreboard.
THEOREM SackedHeld == Spec => []SackedReceived
<1>1. IInv => SackedReceived
  BY DEF IInv, Has, SackedReceived
<1> QED  BY <1>1, Invariance, PTL

\* The retransmission timer runs while anything sent is not acknowledged, unless
\* the connection was given up: every handler that sends or acknowledges sees to it.
THEOREM AlwaysTimed == Spec => []TimerRunning
<1>1. IInv => TimerRunning
  BY DEF IInv, Timed, TimerRunning
<1> QED  BY <1>1, Invariance, PTL

\* The handlers of tcp-socket-base.cc call the congestion control in an order that
\* SwiftFlow allows, so all that is proved of SwiftFlow holds of the sender.
THEOREM ImplementsFlow == Spec => FlowSpec
<1>1. Init => Flow!Init
  BY InvInit
<1>2. IInv /\ [Next]_vars => [Flow!Next]_(Flow!vars)
  BY InvStep DEF Refines
<1> QED  BY <1>1, <1>2, Invariance, PTL DEF Spec, FlowSpec, Flow!Spec

\* The sockets and the network are a reliable stream: data is delivered in order
\* and without a gap, and freed by the sender only when the receiver has it.
THEOREM ImplementsStream == Spec => StreamSpec
<1>1. Init => Stream!Init
  BY InvInit
<1>2. IInv /\ [Next]_vars => [Stream!Next]_(Stream!vars)
  BY InvStep DEF Refines
<1> QED  BY <1>1, <1>2, Invariance, PTL DEF Spec, StreamSpec, Stream!Spec
=============================================================================
