------------------------------ MODULE EcnProofs ------------------------------
(***************************************************************************)
(* Theorems about Ecn, for any number of segments, any length of the paths *)
(* and any number of segments that a handler sends.                        *)
(*                                                                         *)
(* A CWR ends the echo of every mark before it.  That it never ends that   *)
(* of a mark the sender has not answered rests on the order of the path: a *)
(* CWR comes with new data, so that every data segment in front of it, and *)
(* every mark seen so far, is below it.  That the window is reduced once   *)
(* rests on the ACK with the echo, which is above the last CWR.            *)
(***************************************************************************)
EXTENDS Ecn, SequenceTheorems, Arithmetic

\* A path of data below high, whose answers are not above cwr, but above the mark ce
\* and above all the data in front of them.
PathFits(path, ce, high, cwr) ==
    /\ \A i \in DOMAIN path :
          /\ path[i].len = 1 => path[i].seq < high
          /\ path[i].cwr => path[i].len = 1 /\ ce < path[i].seq /\ path[i].seq <= cwr
    /\ \A i, j \in DOMAIN path :
          i < j /\ path[i].len = 1 /\ path[j].cwr => path[i].seq < path[j].seq

\* A mark that the other end, whose last answer is cwr, has not answered is echoed.
Echoing(s, cwr) ==
    s.ecnCESeq # 0 /\ s.ecnCESeq >= cwr => Echoes(s) \/ s.ecnEchoSeq # 0

\* What every step of a handler of p keeps.
Sound(p, s) ==
    /\ s \in Socket
    /\ 1 <= sock[p].highTxMark /\ sock[p].highTxMark <= s.highTxMark
    /\ s.highTxMark <= NumSegs[p] + 1
    /\ 1 <= s.next /\ s.next <= sock[Other(p)].highTxMark
    /\ \A x \in s.held : x < sock[Other(p)].highTxMark
    /\ s.ecnCESeq < sock[Other(p)].highTxMark
    /\ sock[p].ecnCWRSeq <= s.ecnCWRSeq /\ s.ecnCWRSeq < s.highTxMark
    /\ s.ecnEchoSeq <= s.head
    /\ s.ecnCWRSeq # sock[p].ecnCWRSeq => s.head > sock[p].ecnCWRSeq
    /\ Echoing(s, sock[Other(p)].ecnCWRSeq)
    /\ PathFits(s.out, sock[p].highTxMark - 1, s.highTxMark, s.ecnCWRSeq)

IInv ==
    /\ sock \in [Peers -> Socket]
    /\ net \in [Peers -> Seq(Segment)]
    /\ \A p \in Peers :
          /\ Sound(p, sock[p]) /\ sock[p].out = << >>
          /\ Len(net[p]) <= MaxInNet[p]
          /\ PathFits(net[p], sock[p].ecnCESeq, sock[Other(p)].highTxMark,
                      sock[Other(p)].ecnCWRSeq)

-----------------------------------------------------------------------------
(***************************************************************************)
(* The two ends and the numbers                                            *)
(***************************************************************************)
LEMMA GreatestOfTwo ==
  ASSUME NEW a \in Nat, NEW b \in Nat
  PROVE  Max({a, b}) \in {a, b} /\ a <= Max({a, b}) /\ b <= Max({a, b})
<1>1. \E x \in {a, b} : \A y \in {a, b} : x >= y
  OBVIOUS
<1> QED  BY <1>1 DEF Max

LEMMA LeastOfTwo ==
  ASSUME NEW a \in Nat, NEW b \in Nat
  PROVE  Min({a, b}) \in {a, b} /\ Min({a, b}) <= a /\ Min({a, b}) <= b
<1>1. \E x \in {a, b} : \A y \in {a, b} : x <= y
  OBVIOUS
<1> QED  BY <1>1 DEF Min

LEMMA OtherEnd ==
  ASSUME NEW p \in Peers
  PROVE  /\ Other(p) \in Peers /\ Other(p) # p /\ Other(Other(p)) = p
         /\ \A q \in Peers : q = p \/ q = Other(p)
<1>1. PICK a \in Peers, b \in Peers : a # b /\ Peers = {a, b}
  BY PeerAssumption
<1>2. Other(a) = b /\ Other(b) = a
  BY <1>1 DEF Other
<1> QED  BY <1>1, <1>2

\* Sequence numbers reach from zero to behind the last segment of either end.
LEMMA Numbers ==
  /\ Seqs \subseteq Nat /\ 0 \in Seqs
  /\ \A p \in Peers : NumSegs[p] \in Nat /\ \A x \in Nat : x <= NumSegs[p] + 1 => x \in Seqs
  /\ \A x, y \in Nat : x <= y /\ y \in Seqs => x \in Seqs
<1>1. PICK a \in Peers, b \in Peers : a # b /\ Peers = {a, b}
  BY PeerAssumption
<1>2. NumSegs[a] \in Nat /\ NumSegs[b] \in Nat
  BY PeerAssumption
<1>3. {NumSegs[p] : p \in Peers} = {NumSegs[a], NumSegs[b]}
  BY <1>1
<1>4. Seqs = 0 .. Max({NumSegs[a], NumSegs[b]}) + 1
  BY <1>3 DEF Seqs
<1>5. /\ Max({NumSegs[a], NumSegs[b]}) \in Nat
      /\ NumSegs[a] <= Max({NumSegs[a], NumSegs[b]})
      /\ NumSegs[b] <= Max({NumSegs[a], NumSegs[b]})
  BY <1>2, GreatestOfTwo
<1> DEFINE last == Max({NumSegs[a], NumSegs[b]})
<1> HIDE DEF last
<1>6. /\ last \in Nat /\ NumSegs[a] <= last /\ NumSegs[b] <= last
      /\ Seqs = 0 .. last + 1
  BY <1>4, <1>5 DEF last
<1>7. \A p \in Peers : NumSegs[p] \in Nat /\ NumSegs[p] <= last
  BY <1>1, <1>2, <1>6
<1> QED  BY <1>6, <1>7

LEMMA SocketNumbers ==
  ASSUME NEW s \in Socket
  PROVE  /\ s.head \in Nat /\ s.highTxMark \in Nat /\ s.next \in Nat
         /\ s.ecnCESeq \in Nat /\ s.ecnEchoSeq \in Nat /\ s.ecnCWRSeq \in Nat
         /\ s.out \in Seq(Segment) /\ s.held \subseteq Nat
BY Numbers DEF Socket

LEMMA SegmentNumbers ==
  ASSUME NEW a \in Seq(Segment), NEW i \in DOMAIN a
  PROVE  a[i] \in Segment /\ a[i].seq \in Nat /\ a[i].ack \in Nat
<1>1. a[i] \in Segment
  OBVIOUS
<1>2. \A d \in Segment : d.seq \in Seqs /\ d.ack \in Seqs
  BY DEF Segment
<1> QED  BY <1>1, <1>2, Numbers

-----------------------------------------------------------------------------
(***************************************************************************)
(* Paths                                                                   *)
(***************************************************************************)
\* What comes behind a path may answer what is above all of its data.
LEMMA JoinedFits ==
  ASSUME NEW a \in Seq(Segment), NEW b \in Seq(Segment),
         NEW ce \in Int, NEW high \in Nat, NEW later \in Nat,
         NEW cwr \in Nat, NEW next \in Nat,
         ce < high, high <= later, cwr <= next,
         PathFits(a, ce, high, cwr), PathFits(b, high - 1, later, next)
  PROVE  a \o b \in Seq(Segment) /\ PathFits(a \o b, ce, later, next)
<1> DEFINE c == a \o b
<1>1. /\ c \in Seq(Segment) /\ Len(c) = Len(a) + Len(b)
      /\ Len(a) \in Nat /\ Len(b) \in Nat
      /\ DOMAIN a = 1 .. Len(a) /\ DOMAIN b = 1 .. Len(b) /\ DOMAIN c = 1 .. Len(c)
      /\ \A i \in 1 .. Len(c) : c[i] = IF i <= Len(a) THEN a[i] ELSE b[i - Len(a)]
  OBVIOUS
<1>2. \A i \in DOMAIN a : a[i].seq \in Nat
  BY SegmentNumbers
<1>3. \A i \in DOMAIN b : b[i].seq \in Nat
  BY SegmentNumbers
<1> HIDE DEF c
<1>4. ASSUME NEW i \in DOMAIN c
      PROVE  /\ c[i].len = 1 => c[i].seq < later
             /\ c[i].cwr => c[i].len = 1 /\ ce < c[i].seq /\ c[i].seq <= next
  <2>1. CASE i <= Len(a)
    <3>1. i \in DOMAIN a /\ c[i] = a[i]
      BY <1>1, <2>1
    <3> QED  BY <1>2, <3>1 DEF PathFits
  <2>2. CASE ~(i <= Len(a))
    <3>1. i - Len(a) \in DOMAIN b /\ c[i] = b[i - Len(a)]
      BY <1>1, <2>2
    <3> QED  BY <1>3, <3>1 DEF PathFits
  <2> QED  BY <2>1, <2>2
<1>5. ASSUME NEW i \in DOMAIN c, NEW j \in DOMAIN c, i < j, c[i].len = 1, c[j].cwr
      PROVE  c[i].seq < c[j].seq
  <2>1. CASE i <= Len(a) /\ j <= Len(a)
    <3>1. i \in DOMAIN a /\ c[i] = a[i] /\ j \in DOMAIN a /\ c[j] = a[j]
      BY <1>1, <2>1
    <3> QED  BY <1>5, <3>1 DEF PathFits
  <2>2. CASE i <= Len(a) /\ ~(j <= Len(a))
    <3>1. /\ i \in DOMAIN a /\ c[i] = a[i]
          /\ j - Len(a) \in DOMAIN b /\ c[j] = b[j - Len(a)]
      BY <1>1, <2>2
    <3> QED  BY <1>2, <1>3, <1>5, <3>1 DEF PathFits
  <2>3. CASE ~(i <= Len(a)) /\ ~(j <= Len(a))
    <3>1. /\ i - Len(a) \in DOMAIN b /\ c[i] = b[i - Len(a)]
          /\ j - Len(a) \in DOMAIN b /\ c[j] = b[j - Len(a)]
          /\ i - Len(a) < j - Len(a)
      BY <1>1, <1>5, <2>3
    <3> QED  BY <1>5, <3>1 DEF PathFits
  <2> QED  BY <1>1, <1>5, <2>1, <2>2, <2>3
<1> QED  BY <1>1, <1>4, <1>5 DEF PathFits, c

\* A queue that drops what does not fit keeps a beginning.
LEMMA PrefixFits ==
  ASSUME NEW a \in Seq(Segment), NEW ce, NEW high, NEW cwr, PathFits(a, ce, high, cwr),
         NEW k \in Nat, k <= Len(a)
  PROVE  /\ SubSeq(a, 1, k) \in Seq(Segment) /\ Len(SubSeq(a, 1, k)) = k
         /\ PathFits(SubSeq(a, 1, k), ce, high, cwr)
<1>1. /\ SubSeq(a, 1, k) \in Seq(Segment) /\ Len(SubSeq(a, 1, k)) = k
      /\ \A i \in 1 .. k : SubSeq(a, 1, k)[i] = a[i] /\ i \in DOMAIN a
      /\ DOMAIN SubSeq(a, 1, k) = 1 .. k
  OBVIOUS
<1> QED  BY <1>1 DEF PathFits

\* Losing one keeps the order.
LEMMA RemovedFits ==
  ASSUME NEW a \in Seq(Segment), NEW ce, NEW high, NEW cwr, PathFits(a, ce, high, cwr),
         NEW k \in DOMAIN a
  PROVE  /\ RemoveAt(a, k) \in Seq(Segment) /\ Len(RemoveAt(a, k)) <= Len(a)
         /\ PathFits(RemoveAt(a, k), ce, high, cwr)
<1> DEFINE r == RemoveAt(a, k)
           at(i) == IF i < k THEN i ELSE i + 1
<1>1. k \in 1 .. Len(a) /\ Len(a) \in Nat /\ DOMAIN a = 1 .. Len(a)
  OBVIOUS
<1>2. /\ SubSeq(a, 1, k - 1) \in Seq(Segment) /\ Len(SubSeq(a, 1, k - 1)) = k - 1
      /\ \A i \in 1 .. k - 1 : SubSeq(a, 1, k - 1)[i] = a[i]
  BY <1>1
<1>3. /\ SubSeq(a, k + 1, Len(a)) \in Seq(Segment)
      /\ Len(SubSeq(a, k + 1, Len(a))) = Len(a) - k
      /\ \A i \in 1 .. Len(a) - k : SubSeq(a, k + 1, Len(a))[i] = a[i + k]
  BY <1>1
<1>4. r = SubSeq(a, 1, k - 1) \o SubSeq(a, k + 1, Len(a))
  BY DEF RemoveAt
<1>5. /\ r \in Seq(Segment) /\ Len(r) = Len(a) - 1
      /\ \A i \in 1 .. Len(r) : r[i] = a[at(i)]
  <2> DEFINE b == SubSeq(a, 1, k - 1)
             c == SubSeq(a, k + 1, Len(a))
  <2>1. /\ b \in Seq(Segment) /\ Len(b) = k - 1 /\ \A i \in 1 .. k - 1 : b[i] = a[i]
        /\ c \in Seq(Segment) /\ Len(c) = Len(a) - k
        /\ \A i \in 1 .. Len(a) - k : c[i] = a[i + k]
        /\ r = b \o c
    BY <1>2, <1>3, <1>4
  <2> HIDE DEF b, c, r
  <2>2. /\ r \in Seq(Segment) /\ Len(r) = Len(a) - 1
        /\ \A i \in 1 .. Len(r) :
              r[i] = IF i <= Len(b) THEN b[i] ELSE c[i - Len(b)]
    <3>1. /\ b \o c \in Seq(Segment) /\ Len(b \o c) = Len(b) + Len(c)
          /\ \A i \in 1 .. Len(b) + Len(c) :
                (b \o c)[i] = IF i <= Len(b) THEN b[i] ELSE c[i - Len(b)]
      <4>1. b \in Seq(Segment) /\ c \in Seq(Segment)
        BY <2>1
      <4> QED  BY <4>1, ConcatProperties, Zenon
    <3>2. Len(b) + Len(c) = Len(a) - 1
      BY <1>1, <2>1
    <3>3. Len(r) = Len(b) + Len(c)
      BY <2>1, <3>1
    <3> QED  BY <2>1, <3>1, <3>2, <3>3, Zenon
  <2>3. ASSUME NEW i \in 1 .. Len(r) PROVE r[i] = a[at(i)]
    <3>1. CASE i < k
      BY <1>1, <2>1, <2>2, <3>1
    <3>2. CASE ~(i < k)
      <4>1. i - (k - 1) \in 1 .. Len(a) - k /\ (i - (k - 1)) + k = i + 1
        BY <1>1, <2>2, <3>2
      <4>2. r[i] = c[i - (k - 1)]
        BY <1>1, <2>1, <2>2, <3>2
      <4>3. c[i - (k - 1)] = a[i + 1]
        BY <2>1, <4>1
      <4> QED  BY <3>2, <4>2, <4>3
    <3> QED  BY <3>1, <3>2
  <2> QED  BY <2>2, <2>3
<1>6. DOMAIN r = 1 .. Len(r)
  BY <1>5
<1>7. \A i \in DOMAIN r : r[i] = a[at(i)] /\ at(i) \in DOMAIN a
  BY <1>1, <1>5, <1>6
<1>8. \A i, j \in DOMAIN r : i < j => at(i) < at(j)
  BY <1>1, <1>5, <1>6
<1> HIDE DEF r, at
<1>9. PathFits(r, ce, high, cwr)
  BY <1>7, <1>8 DEF PathFits
<1> QED  BY <1>1, <1>5, <1>9 DEF r

\* Behind the first segment, answers are above it, and above its mark.
LEMMA TailFits ==
  ASSUME NEW a \in Seq(Segment), NEW ce \in Nat, NEW high \in Nat, NEW cwr \in Nat,
         PathFits(a, ce, high, cwr), a # << >>
  PROVE  /\ Head(a) \in Segment
         /\ Tail(a) \in Seq(Segment) /\ Len(Tail(a)) <= Len(a)
         /\ PathFits(Tail(a), ce, high, cwr)
         /\ Head(a).len = 1
              => /\ Head(a).seq < high
                 /\ PathFits(Tail(a), Head(a).seq, high, cwr)
         /\ Head(a).cwr
              => Head(a).len = 1 /\ ce < Head(a).seq /\ Head(a).seq <= cwr
<1> DEFINE r == Tail(a)
<1>1. /\ r \in Seq(Segment) /\ Len(r) = Len(a) - 1 /\ Len(a) \in Nat /\ Len(a) >= 1
      /\ DOMAIN r = 1 .. Len(r) /\ DOMAIN a = 1 .. Len(a)
      /\ \A i \in 1 .. Len(r) : r[i] = a[i + 1]
      /\ Head(a) = a[1]
  OBVIOUS
<1>2. /\ \A i \in DOMAIN r : r[i] = a[i + 1] /\ i + 1 \in DOMAIN a /\ 1 < i + 1
      /\ \A i, j \in DOMAIN r : i < j => i + 1 < j + 1
      /\ 1 \in DOMAIN a
  BY <1>1
<1> HIDE DEF r
<1>3. PathFits(r, ce, high, cwr)
  BY <1>2 DEF PathFits
<1>4. Head(a).len = 1 => Head(a).seq < high /\ PathFits(r, Head(a).seq, high, cwr)
  BY <1>1, <1>2 DEF PathFits
<1>5. Head(a).cwr => Head(a).len = 1 /\ ce < Head(a).seq /\ Head(a).seq <= cwr
  BY <1>1, <1>2 DEF PathFits
<1>6. Head(a) \in Segment
  BY <1>1, <1>2
<1> QED  BY <1>1, <1>3, <1>4, <1>5, <1>6 DEF r

-----------------------------------------------------------------------------
(***************************************************************************)
(* What a handler does to its socket                                       *)
(***************************************************************************)
\* What a handler of p knows of the sockets as it starts.
LEMMA Ends ==
  ASSUME IInv, NEW p \in Peers
  PROVE  /\ sock[p].highTxMark \in Nat /\ sock[p].ecnCWRSeq \in Nat
         /\ sock[p].head \in Nat /\ sock[p].ecnCESeq \in Nat
         /\ sock[Other(p)].highTxMark \in Nat /\ 1 <= sock[Other(p)].highTxMark
         /\ sock[Other(p)].highTxMark <= NumSegs[Other(p)] + 1
         /\ NumSegs[Other(p)] \in Nat /\ NumSegs[p] \in Nat
         /\ sock[Other(p)].ecnCWRSeq \in Nat
         /\ sock[Other(p)].ecnCWRSeq < sock[Other(p)].highTxMark
         /\ sock[p] \in Socket /\ sock[Other(p)] \in Socket
         /\ Sound(p, sock[p]) /\ Sound(Other(p), sock[Other(p)])
<1>1. Other(p) \in Peers
  BY OtherEnd
<1>2. Sound(p, sock[p]) /\ Sound(Other(p), sock[Other(p)])
  BY <1>1 DEF IInv
<1>3. sock[p] \in Socket /\ sock[Other(p)] \in Socket
  BY <1>2 DEF Sound
<1> QED  BY <1>1, <1>2, <1>3, SocketNumbers, Numbers DEF Sound

\* One more segment at the end of what a handler sends, that answers nothing.
LEMMA OneMoreFits ==
  ASSUME NEW a \in Seq(Segment), NEW e \in Segment, e.cwr = FALSE,
         NEW ce \in Int, NEW high \in Nat, NEW cwr \in Nat,
         ce < high, PathFits(a, ce, high, cwr), e.len = 1 => e.seq < high
  PROVE  a \o <<e>> \in Seq(Segment) /\ PathFits(a \o <<e>>, ce, high, cwr)
<1>1. <<e>> \in Seq(Segment) /\ DOMAIN <<e>> = {1} /\ <<e>>[1] = e
  OBVIOUS
<1> DEFINE b == <<e>>
<1>2. PathFits(b, high - 1, high, cwr)
  BY <1>1 DEF PathFits
<1> HIDE DEF b
<1>3. b \in Seq(Segment) /\ high <= high /\ cwr <= cwr
  BY <1>1 DEF b
<1>4. a \o b \in Seq(Segment) /\ PathFits(a \o b, ce, high, cwr)
  BY <1>2, <1>3, JoinedFits
<1> QED  BY <1>4 DEF b

LEMMA SendEmptyPacketSound ==
  ASSUME IInv, NEW p \in Peers, NEW s, Sound(p, s), NEW ece \in BOOLEAN
  PROVE  LET t == SendEmptyPacket(s, ece)
         IN  /\ Sound(p, t) /\ t.highTxMark = s.highTxMark /\ t.ecnCESeq = s.ecnCESeq
             /\ t.ecnState = s.ecnState
<1> DEFINE e == SegmentOf(s, s.highTxMark, 0, ece, FALSE)
           t == SendEmptyPacket(s, ece)
<1>1. s \in Socket
  BY DEF Sound
<1>2. e \in Segment /\ e.cwr = FALSE /\ e.len = 0
  BY <1>1 DEF Socket, Segment, SegmentOf
<1>3. /\ t = [s EXCEPT !.out = Append(@, e), !.delAckCount = 0, !.delAckEvent = FALSE]
      /\ s.out \in Seq(Segment)
  BY <1>1 DEF SendEmptyPacket, Socket
<1> HIDE DEF e, t
<1>4. Append(s.out, e) = s.out \o <<e>>
  BY <1>2, <1>3, AppendIsConcat
<1>5. /\ Append(s.out, e) \in Seq(Segment)
      /\ PathFits(Append(s.out, e), sock[p].highTxMark - 1, s.highTxMark, s.ecnCWRSeq)
  <2>1. /\ sock[p].highTxMark - 1 \in Int /\ s.highTxMark \in Nat /\ s.ecnCWRSeq \in Nat
        /\ sock[p].highTxMark - 1 < s.highTxMark
        /\ PathFits(s.out, sock[p].highTxMark - 1, s.highTxMark, s.ecnCWRSeq)
    BY <1>1, SocketNumbers, Ends DEF Sound
  <2>2. e.len = 1 => e.seq < s.highTxMark
    BY <1>2
  <2> QED  BY <1>2, <1>3, <1>4, <2>1, <2>2, OneMoreFits
<1>6. /\ t.head = s.head /\ t.highTxMark = s.highTxMark /\ t.next = s.next
      /\ t.held = s.held /\ t.ecnState = s.ecnState /\ t.ecnCESeq = s.ecnCESeq
      /\ t.ecnEchoSeq = s.ecnEchoSeq /\ t.ecnCWRSeq = s.ecnCWRSeq
      /\ t.out = Append(s.out, e)
  BY <1>1, <1>3 DEF Socket
<1>7. t \in Socket
  <2>1. 0 \in 0 .. DelAckMax
    BY SizeAssumption
  <2> QED  BY <1>1, <1>3, <1>5, <2>1 DEF Socket
<1>8. Sound(p, t)
  BY <1>5, <1>6, <1>7 DEF Sound, Echoing, Echoes
<1> QED  BY <1>6, <1>8 DEF t

LEMMA SendAckSound ==
  ASSUME IInv, NEW p \in Peers, NEW s, Sound(p, s)
  PROVE  LET t == SendAck(s)
         IN  Sound(p, t) /\ t.highTxMark = s.highTxMark /\ t.ecnCESeq = s.ecnCESeq
<1> DEFINE t == SendEmptyPacket(s, Echoes(s))
           u == SendAck(s)
<1>1. Echoes(s) \in BOOLEAN
  BY DEF Echoes
<1>2. /\ Sound(p, t) /\ t.highTxMark = s.highTxMark /\ t.ecnCESeq = s.ecnCESeq
      /\ t.ecnState = s.ecnState
  BY <1>1, SendEmptyPacketSound
<1>3. u = [t EXCEPT !.ecnState = IF Echoes(s) THEN "SENDING_ECE" ELSE @]
  BY DEF SendAck
<1> HIDE DEF t, u
<1>4. t \in Socket
  BY <1>2 DEF Sound
<1>5. /\ u.head = t.head /\ u.highTxMark = t.highTxMark /\ u.next = t.next
      /\ u.held = t.held /\ u.ecnCESeq = t.ecnCESeq /\ u.ecnEchoSeq = t.ecnEchoSeq
      /\ u.ecnCWRSeq = t.ecnCWRSeq /\ u.out = t.out
      /\ u.ecnState = IF Echoes(s) THEN "SENDING_ECE" ELSE t.ecnState
  BY <1>3, <1>4 DEF Socket
<1>6. u \in Socket
  BY <1>3, <1>4 DEF Socket, EcnStates
<1>7. Echoes(s) = Echoes(t) /\ Echoes(u) = Echoes(s)
  BY <1>2, <1>5 DEF Echoes
<1>8. Sound(p, u)
  BY <1>2, <1>5, <1>6, <1>7 DEF Sound, Echoing
<1> QED  BY <1>2, <1>5, <1>8 DEF u

\* New data may answer, for the first time since the last answer was acknowledged;
\* data that is sent again does not.
LEMMA SendDataPacketSound ==
  ASSUME IInv, NEW p \in Peers, NEW s, Sound(p, s), NEW n \in Nat \ {0},
         NEW again \in BOOLEAN, NEW seq \in Nat,
         again => seq + n <= s.highTxMark,
         ~again => seq = s.highTxMark /\ seq + n <= NumSegs[p] + 1
  PROVE  LET t == SendDataPacket(s, seq, n, again)
         IN  /\ Sound(p, t) /\ t.ecnCESeq = s.ecnCESeq
             /\ again => t.highTxMark = s.highTxMark
<1> DEFINE cwr == ~again /\ Reduces(s)
           sent == [i \in 1 .. n |-> SegmentOf(s, seq + i - 1, 1, FALSE, cwr /\ i = 1)]
           t == SendDataPacket(s, seq, n, again)
           high == IF again THEN s.highTxMark ELSE seq + n
           last == IF cwr THEN seq ELSE s.ecnCWRSeq
<1>1. s \in Socket
  BY DEF Sound
<1>2. /\ s.highTxMark \in Nat /\ s.ecnCWRSeq \in Nat /\ s.ecnEchoSeq \in Nat
      /\ s.head \in Nat /\ s.out \in Seq(Segment) /\ sock[p].highTxMark \in Nat
      /\ sock[p].ecnCWRSeq \in Nat /\ NumSegs[p] \in Nat
  BY <1>1, SocketNumbers, Ends
<1>3. /\ sock[p].highTxMark - 1 < s.highTxMark /\ s.ecnCWRSeq < s.highTxMark
      /\ s.highTxMark <= NumSegs[p] + 1
      /\ sock[p].ecnCWRSeq <= s.ecnCWRSeq /\ s.ecnEchoSeq <= s.head
      /\ PathFits(s.out, sock[p].highTxMark - 1, s.highTxMark, s.ecnCWRSeq)
  BY <1>2 DEF Sound
<1>4. /\ high \in Nat /\ s.highTxMark <= high /\ seq + n <= high
      /\ high <= NumSegs[p] + 1 /\ high \in Seqs
      /\ last \in Nat /\ s.ecnCWRSeq <= last /\ last < high /\ last \in Seqs
      /\ cwr => last = seq /\ seq = s.highTxMark
  <2>1. /\ high \in Nat /\ s.highTxMark <= high /\ seq + n <= high
        /\ high <= NumSegs[p] + 1
        /\ last \in Nat /\ s.ecnCWRSeq <= last /\ last < high
        /\ cwr => last = seq /\ seq = s.highTxMark
    BY <1>2, <1>3
  <2> HIDE DEF high, last
  <2> QED  BY <1>2, <2>1, Numbers
<1>5. t = [s EXCEPT !.out = @ \o sent, !.highTxMark = high, !.ecnCWRSeq = last,
                    !.ecnState = IF cwr THEN "CWR_SENT" ELSE @,
                    !.delAckCount = 0, !.delAckEvent = FALSE]
  <2>1. t = [s EXCEPT !.out = @ \o sent,
                  !.highTxMark = IF again THEN @ ELSE seq + n,
                  !.ecnCWRSeq = IF cwr THEN seq ELSE @,
                  !.ecnState = IF cwr THEN "CWR_SENT" ELSE @,
                  !.delAckCount = 0, !.delAckEvent = FALSE]
    BY DEF SendDataPacket
  <2> HIDE DEF t, cwr, sent
  <2> QED  BY <1>1, <2>1 DEF Socket
<1>6. cwr => /\ s.head > s.ecnCWRSeq /\ s.ecnEchoSeq # 0
             /\ ~Echoes(s)
  BY <1>2, <1>3 DEF Reduces, Echoes
<1>7. /\ \A i \in 1 .. n : sent[i] = SegmentOf(s, seq + i - 1, 1, FALSE, cwr /\ i = 1)
      /\ DOMAIN sent = 1 .. n /\ sent = [i \in 1 .. n |-> sent[i]]
  OBVIOUS
<1>8. \A i \in 1 .. n : /\ sent[i] \in Segment /\ sent[i].len = 1
                        /\ sent[i].seq = seq + i - 1
                        /\ sent[i].cwr = (cwr /\ i = 1)
  <2> SUFFICES ASSUME NEW i \in 1 .. n
               PROVE  /\ sent[i] \in Segment /\ sent[i].len = 1
                      /\ sent[i].seq = seq + i - 1
                      /\ sent[i].cwr = (cwr /\ i = 1)
    OBVIOUS
  <2>1. seq + i - 1 \in Nat /\ seq + i - 1 <= NumSegs[p] + 1
    <3> HIDE DEF high
    <3> QED  BY <1>2, <1>4
  <2>2. seq + i - 1 \in Seqs /\ s.next \in Seqs
    BY <1>1, <2>1, Numbers DEF Socket
  <2>3. sent[i] = [seq |-> seq + i - 1, len |-> 1, ack |-> s.next, ece |-> FALSE,
                   cwr |-> (cwr /\ i = 1)]
    BY <1>7 DEF SegmentOf
  <2>4. (cwr /\ i = 1) \in BOOLEAN
    OBVIOUS
  <2> HIDE DEF sent, cwr
  <2> QED  BY <2>2, <2>3, <2>4 DEF Segment
<1>9. sent \in Seq(Segment)
  <2>1. sent \in [1 .. n -> Segment]
    BY <1>7, <1>8
  <2>2. \A f \in [1 .. n -> Segment] : f \in Seq(Segment)
    OBVIOUS
  <2> QED  BY <2>1, <2>2
<1> HIDE DEF cwr, sent, t, high, last
<1>10. PathFits(sent, s.highTxMark - 1, high, last)
  <2>1. \A i \in DOMAIN sent : /\ sent[i].seq = seq + i - 1 /\ i \in 1 .. n
                               /\ sent[i].cwr => cwr /\ i = 1
    BY <1>7, <1>8
  <2>2. ASSUME NEW i \in DOMAIN sent
        PROVE  /\ sent[i].len = 1 => sent[i].seq < high
               /\ sent[i].cwr => /\ sent[i].len = 1 /\ s.highTxMark - 1 < sent[i].seq
                                 /\ sent[i].seq <= last
    <3>1. i \in 1 .. n /\ sent[i].seq = seq + i - 1 /\ sent[i].len = 1
      BY <1>7, <1>8, <2>1
    <3>2. sent[i].seq < high
      BY <1>2, <1>4, <3>1
    <3>3. sent[i].cwr => sent[i].seq = last /\ seq = s.highTxMark /\ sent[i].seq = seq
      BY <1>4, <2>1, <3>1
    <3> QED  BY <1>2, <1>4, <3>1, <3>2, <3>3
  <2>3. ASSUME NEW i \in DOMAIN sent, NEW j \in DOMAIN sent, i < j, sent[j].cwr
        PROVE  FALSE
    <3>1. j = 1
      BY <2>1, <2>3
    <3>2. i \in 1 .. n
      BY <2>1
    <3> QED  BY <2>3, <3>1, <3>2
  <2> QED  BY <2>2, <2>3 DEF PathFits
<1>11. /\ s.out \o sent \in Seq(Segment)
       /\ PathFits(s.out \o sent, sock[p].highTxMark - 1, high, last)
  <2>1. sock[p].highTxMark - 1 \in Int
    BY <1>2
  <2> QED  BY <1>2, <1>3, <1>4, <1>9, <1>10, <2>1, JoinedFits
<1>12. /\ t.head = s.head /\ t.highTxMark = high /\ t.next = s.next /\ t.held = s.held
       /\ t.ecnCESeq = s.ecnCESeq /\ t.ecnEchoSeq = s.ecnEchoSeq /\ t.ecnCWRSeq = last
       /\ t.ecnState = (IF cwr THEN "CWR_SENT" ELSE s.ecnState)
       /\ t.out = s.out \o sent
  BY <1>1, <1>5 DEF Socket
<1>13. t \in Socket
  <2>1. 0 \in 0 .. DelAckMax
    BY SizeAssumption
  <2> QED  BY <1>1, <1>4, <1>5, <1>11, <2>1 DEF Socket, EcnStates
<1>14. Echoing(t, sock[Other(p)].ecnCWRSeq)
  BY <1>6, <1>12 DEF Sound, Echoing, Echoes
<1>15. t.ecnCWRSeq # sock[p].ecnCWRSeq => t.head > sock[p].ecnCWRSeq
  <2>1. CASE cwr
    BY <1>2, <1>3, <1>6, <1>12, <2>1
  <2>2. CASE ~cwr
    BY <1>12, <2>2 DEF Sound, last
  <2> QED  BY <2>1, <2>2
<1>16. /\ sock[p].highTxMark <= t.highTxMark /\ t.highTxMark <= NumSegs[p] + 1
       /\ sock[p].ecnCWRSeq <= t.ecnCWRSeq /\ t.ecnCWRSeq < t.highTxMark
  <2>1. t.highTxMark = high /\ t.ecnCWRSeq = last
    BY <1>12
  <2> QED  BY <1>2, <1>3, <1>4, <2>1
<1>17. Sound(p, t)
  BY <1>11, <1>12, <1>13, <1>14, <1>15, <1>16 DEF Sound
<1>18. again => high = s.highTxMark
  BY DEF high
<1> QED  BY <1>12, <1>17, <1>18 DEF t

LEMMA RetransmitSound ==
  ASSUME IInv, NEW p \in Peers, NEW s, Sound(p, s), NEW seq \in Nat
  PROVE  LET t == Retransmit(s, seq)
         IN  Sound(p, t) /\ t.highTxMark = s.highTxMark /\ t.ecnCESeq = s.ecnCESeq
<1>1. CASE seq \in s.head .. s.highTxMark - 1
  <2>1. s.highTxMark \in Nat /\ s.head \in Nat
    BY SocketNumbers DEF Sound
  <2>2. /\ 1 \in Nat \ {0} /\ seq + 1 <= s.highTxMark
        /\ Retransmit(s, seq) = SendDataPacket(s, seq, 1, TRUE)
    BY <1>1, <2>1 DEF Retransmit
  <2>3. \A x \in Nat, n \in Nat \ {0} :
           x + n <= s.highTxMark
              => LET t == SendDataPacket(s, x, n, TRUE)
                 IN  Sound(p, t) /\ t.ecnCESeq = s.ecnCESeq /\ t.highTxMark = s.highTxMark
    BY SendDataPacketSound, Zenon
  <2> QED  BY <2>2, <2>3
<1>2. CASE ~(seq \in s.head .. s.highTxMark - 1)
  BY <1>2 DEF Retransmit
<1> QED  BY <1>1, <1>2

LEMMA SendPendingDataSound ==
  ASSUME IInv, NEW p \in Peers, NEW s, Sound(p, s), NEW lost \in Nat, NEW n \in Nat,
         s.highTxMark + n <= NumSegs[p] + 1
  PROVE  LET t == SendPendingData(s, lost, n)
         IN  Sound(p, t) /\ t.ecnCESeq = s.ecnCESeq
<1> DEFINE r == Retransmit(s, lost)
<1>1. Sound(p, r) /\ r.highTxMark = s.highTxMark /\ r.ecnCESeq = s.ecnCESeq
  BY RetransmitSound
<1>2. SendPendingData(s, lost, n)
         = IF n = 0 THEN r ELSE SendDataPacket(r, r.highTxMark, n, FALSE)
  BY DEF SendPendingData
<1> HIDE DEF r
<1>3. CASE n = 0
  BY <1>1, <1>2, <1>3
<1>4. CASE n # 0
  <2>1. n \in Nat \ {0} /\ r.highTxMark \in Nat /\ r.highTxMark + n <= NumSegs[p] + 1
    BY <1>1, <1>4, SocketNumbers DEF Sound
  <2>2. LET t == SendDataPacket(r, r.highTxMark, n, FALSE)
        IN  Sound(p, t) /\ t.ecnCESeq = r.ecnCESeq
    BY <1>1, <2>1, SendDataPacketSound
  <2>3. SendPendingData(s, lost, n) = SendDataPacket(r, r.highTxMark, n, FALSE)
    BY <1>2, <1>4
  <2> QED  BY <1>1, <2>2, <2>3
<1> QED  BY <1>3, <1>4

-----------------------------------------------------------------------------
(***************************************************************************)
(* What a segment does to the socket that receives it                      *)
(***************************************************************************)
\* The first segment on the path to p.
Arriving(p, d) ==
    /\ d \in Segment
    /\ d.len = 1 => d.seq < sock[Other(p)].highTxMark
    /\ d.cwr => /\ d.len = 1 /\ sock[p].ecnCESeq < d.seq
                /\ d.seq <= sock[Other(p)].ecnCWRSeq

\* A mark is echoed from now on; an answer ends the echo of marks below it only.
LEMMA SeenSound ==
  ASSUME IInv, NEW p \in Peers, NEW d, Arriving(p, d), NEW ce \in BOOLEAN,
         ce => d.len = 1
  PROVE  LET t == ReceivedCwr(ReceivedMark(sock[p], d, ce), d)
         IN  /\ Sound(p, t) /\ t.highTxMark = sock[p].highTxMark /\ t.head = sock[p].head
             /\ t.ecnCESeq # sock[p].ecnCESeq => ce /\ t.ecnCESeq = d.seq
<1> DEFINE s == sock[p]
           m == ReceivedMark(s, d, ce)
           t == ReceivedCwr(m, d)
           high == sock[Other(p)].highTxMark
           cwr == sock[Other(p)].ecnCWRSeq
<1>1. s \in Socket /\ Sound(p, s) /\ s.ecnCESeq \in Nat /\ high \in Nat /\ cwr \in Nat
  BY Ends
<1>2. d.seq \in Nat /\ d.seq \in Seqs
  BY Numbers DEF Arriving, Segment
<1> HIDE DEF s
<1>3. CASE ce /\ s.ecnCESeq < d.seq
  <2> DEFINE r == [s EXCEPT !.ecnCESeq = d.seq, !.ecnState = "CE_RCVD"]
  <2>1. m = r
    BY <1>3 DEF ReceivedMark
  <2>2. /\ r.head = s.head /\ r.highTxMark = s.highTxMark /\ r.next = s.next
        /\ r.held = s.held /\ r.ecnEchoSeq = s.ecnEchoSeq /\ r.ecnCWRSeq = s.ecnCWRSeq
        /\ r.out = s.out /\ r.ecnCESeq = d.seq /\ r.ecnState = "CE_RCVD"
    BY <1>1 DEF Socket
  <2>3. r \in Socket
    BY <1>1, <1>2 DEF Socket, EcnStates
  <2> HIDE DEF r
  <2>4. t = r
    BY <2>1, <2>2 DEF ReceivedCwr
  <2>5. Echoing(r, cwr)
    BY <2>2 DEF Echoing, Echoes
  <2>6. r.ecnCESeq < high
    BY <1>3, <2>2 DEF Arriving
  <2>7. Sound(p, r)
    BY <1>1, <2>2, <2>3, <2>5, <2>6 DEF Sound
  <2> HIDE DEF t
  <2>8. Sound(p, t) /\ t.highTxMark = s.highTxMark /\ t.head = s.head /\ t.ecnCESeq = d.seq
    BY <2>2, <2>4, <2>7
  <2> QED  BY <1>3, <2>8 DEF s, t
<1>4. CASE ~(ce /\ s.ecnCESeq < d.seq)
  <2>1. m = s
    BY <1>4 DEF ReceivedMark
  <2>2. CASE d.cwr /\ s.ecnState # "CE_RCVD"
    <3> DEFINE r == [s EXCEPT !.ecnState = "IDLE"]
    <3>1. t = r
      BY <2>1, <2>2 DEF ReceivedCwr
    <3>2. /\ r.head = s.head /\ r.highTxMark = s.highTxMark /\ r.next = s.next
          /\ r.held = s.held /\ r.ecnEchoSeq = s.ecnEchoSeq /\ r.ecnCWRSeq = s.ecnCWRSeq
          /\ r.out = s.out /\ r.ecnCESeq = s.ecnCESeq
      BY <1>1 DEF Socket
    <3>3. r \in Socket
      BY <1>1 DEF Socket, EcnStates
    <3> HIDE DEF r
    <3>4. Echoing(r, cwr)
      <4>1. s.ecnCESeq < d.seq /\ d.seq <= cwr
        BY <2>2 DEF Arriving, s
      <4> HIDE DEF cwr
      <4> QED  BY <1>1, <1>2, <3>2, <4>1 DEF Echoing
    <3>5. Sound(p, r)
      BY <1>1, <3>2, <3>3, <3>4 DEF Sound
    <3> HIDE DEF t
    <3>6. /\ Sound(p, t) /\ t.highTxMark = s.highTxMark /\ t.head = s.head
          /\ t.ecnCESeq = s.ecnCESeq
      BY <3>1, <3>2, <3>5
    <3> QED  BY <3>6 DEF s, t
  <2>3. CASE ~(d.cwr /\ s.ecnState # "CE_RCVD")
    <3>1. t = s
      BY <2>1, <2>3 DEF ReceivedCwr
    <3> QED  BY <1>1, <3>1 DEF s
  <2> QED  BY <2>2, <2>3
<1> QED  BY <1>3, <1>4

\* An echo that counts comes with an ACK, which is above all answers before.
LEMMA AckedSound ==
  ASSUME IInv, NEW p \in Peers, NEW s, Sound(p, s), NEW d, Arriving(p, d),
         ~(d.ack < s.head)
  PROVE  LET t == [ReceivedEcho(s, d) EXCEPT !.head = d.ack]
         IN  Sound(p, t) /\ t.highTxMark = s.highTxMark /\ t.ecnCESeq = s.ecnCESeq
<1> DEFINE e == ReceivedEcho(s, d)
           t == [e EXCEPT !.head = d.ack]
<1>1. /\ s \in Socket /\ s.head \in Nat /\ s.ecnEchoSeq \in Nat /\ s.ecnEchoSeq <= s.head
      /\ sock[p].ecnCWRSeq \in Nat
      /\ s.ecnCWRSeq # sock[p].ecnCWRSeq => s.head > sock[p].ecnCWRSeq
      /\ Echoing(s, sock[Other(p)].ecnCWRSeq)
  BY SocketNumbers, Ends DEF Sound
<1>2. d.ack \in Seqs /\ d.ack \in Nat /\ s.head <= d.ack
  <2>1. d.ack \in Seqs
    BY DEF Arriving, Segment
  <2>2. d.ack \in Nat
    BY <2>1, Numbers
  <2> QED  BY <1>1, <2>1, <2>2
<1>3. /\ e \in Socket
      /\ e.highTxMark = s.highTxMark /\ e.next = s.next
      /\ e.held = s.held /\ e.ecnCWRSeq = s.ecnCWRSeq
      /\ e.out = s.out /\ e.ecnCESeq = s.ecnCESeq
      /\ e.ecnEchoSeq \in Nat /\ e.ecnEchoSeq <= d.ack
      /\ Echoing(e, sock[Other(p)].ecnCWRSeq)
  <2>1. CASE d.ack > s.head /\ d.ece /\ s.ecnEchoSeq < d.ack
    <3>1. e = [s EXCEPT !.ecnEchoSeq = d.ack, !.ecnState = "ECE_RCVD"]
      BY <2>1 DEF ReceivedEcho
    <3> HIDE DEF e
    <3>2. e \in Socket
      BY <1>1, <1>2, <3>1 DEF Socket, EcnStates
    <3>3. /\ e.highTxMark = s.highTxMark /\ e.next = s.next
          /\ e.held = s.held /\ e.ecnCWRSeq = s.ecnCWRSeq
          /\ e.out = s.out /\ e.ecnCESeq = s.ecnCESeq /\ e.ecnEchoSeq = d.ack
      BY <1>1, <3>1 DEF Socket
    <3>4. e.ecnEchoSeq # 0
      BY <1>1, <1>2, <2>1, <3>3
    <3> QED  BY <1>2, <3>2, <3>3, <3>4 DEF Echoing
  <2>2. CASE e = [s EXCEPT !.ecnState = "IDLE"] /\ s.ecnState = "ECE_RCVD"
    <3> HIDE DEF e
    <3>1. e \in Socket
      BY <1>1, <2>2 DEF Socket, EcnStates
    <3>2. /\ e.highTxMark = s.highTxMark /\ e.next = s.next
          /\ e.held = s.held /\ e.ecnCWRSeq = s.ecnCWRSeq
          /\ e.out = s.out /\ e.ecnCESeq = s.ecnCESeq /\ e.ecnEchoSeq = s.ecnEchoSeq
      BY <1>1, <2>2 DEF Socket
    <3>3. e.ecnEchoSeq \in Nat /\ e.ecnEchoSeq <= d.ack
      BY <1>1, <1>2, <3>2
    <3>4. Echoing(e, sock[Other(p)].ecnCWRSeq)
      BY <1>1, <2>2, <3>2 DEF Echoing, Echoes
    <3> QED  BY <3>1, <3>2, <3>3, <3>4
  <2>3. CASE e = s
    <3> HIDE DEF e
    <3>1. s.ecnEchoSeq <= d.ack
      BY <1>1, <1>2
    <3> QED  BY <1>1, <2>3, <3>1
  <2> QED  BY <2>1, <2>2, <2>3 DEF ReceivedEcho
<1> HIDE DEF e
<1>4. /\ t.head = d.ack /\ t.highTxMark = e.highTxMark /\ t.next = e.next
      /\ t.held = e.held /\ t.ecnState = e.ecnState /\ t.ecnEchoSeq = e.ecnEchoSeq
      /\ t.ecnCWRSeq = e.ecnCWRSeq /\ t.out = e.out /\ t.ecnCESeq = e.ecnCESeq
  BY <1>3 DEF Socket
<1>5. t \in Socket
  BY <1>2, <1>3 DEF Socket
<1> HIDE DEF t
<1>6. t.ecnCWRSeq # sock[p].ecnCWRSeq => t.head > sock[p].ecnCWRSeq
  BY <1>1, <1>2, <1>3, <1>4
<1>7. t.ecnEchoSeq <= t.head
  BY <1>3, <1>4
<1>8. Echoing(t, sock[Other(p)].ecnCWRSeq)
  BY <1>3, <1>4 DEF Echoing, Echoes
<1>9. Sound(p, t)
  BY <1>3, <1>4, <1>5, <1>6, <1>7, <1>8 DEF Sound
<1> QED  BY <1>3, <1>4, <1>9 DEF t, e

\* There is a first number at or above next that is not held.
LEMMA FirstGap ==
  ASSUME NEW held, NEW next \in Nat, 1 <= next, NEW high \in Seqs,
         next <= high, \A x \in held : x \in Nat /\ x < high
  PROVE  \E x \in Seqs \ {0} :
            x >= next /\ x \notin held /\ \A y \in next .. x - 1 : y \in held
<1> DEFINE gaps == {x \in Nat : x >= next /\ x \notin held}
<1>1. high \in Nat
  BY Numbers
<1>2. high \in gaps
  BY <1>1
<1>3. PICK x \in gaps : \A y \in gaps : x <= y
  BY <1>2, Least
<1>4. x \in Nat /\ x >= next /\ x \notin held /\ x <= high
  BY <1>2, <1>3
<1>5. x \in Seqs \ {0}
  <2>1. \A a, b \in Nat : a <= b /\ b \in Seqs => a \in Seqs
    BY Numbers
  <2> QED  BY <1>1, <1>4, <2>1
<1>6. \A y \in next .. x - 1 : y \in held
  BY <1>3, <1>4
<1> QED  BY <1>4, <1>5, <1>6

LEMMA AddToBufferSound ==
  ASSUME IInv, NEW p \in Peers, NEW s, Sound(p, s),
         NEW seq \in Nat, seq < sock[Other(p)].highTxMark
  PROVE  LET t == AddToBuffer(s, seq)
         IN  /\ Sound(p, t) /\ t.highTxMark = s.highTxMark /\ t.ecnCESeq = s.ecnCESeq
             /\ t.delAckCount = s.delAckCount
<1> DEFINE held == s.held \cup {seq}
           next == CHOOSE x \in Seqs \ {0} :
                      x >= s.next /\ x \notin held /\ \A y \in s.next .. x - 1 : y \in held
           left == {x \in held : x > next}
           high == sock[Other(p)].highTxMark
           t == AddToBuffer(s, seq)
<1>1. /\ s \in Socket /\ s.next \in Nat /\ 1 <= s.next /\ s.next <= high /\ high \in Nat
      /\ s.held \subseteq Nat /\ \A x \in s.held : x < high
  BY SocketNumbers, Ends DEF Sound
<1>2. high \in Seqs /\ seq \in Seqs
  BY <1>1, Ends, OtherEnd, Numbers DEF Socket
<1>3. \A x \in held : x \in Nat /\ x < high
  BY <1>1
<1>4. t = [s EXCEPT !.next = next, !.held = left]
  BY DEF AddToBuffer
<1>5. s.held \subseteq Seqs
  BY <1>1 DEF Socket
<1>6. held \subseteq Seqs
  BY <1>2, <1>5
<1> HIDE DEF held
<1>7. /\ next \in Seqs \ {0} /\ next >= s.next /\ next \notin held
      /\ \A y \in s.next .. next - 1 : y \in held
  <2>1. \E x \in Seqs \ {0} :
           x >= s.next /\ x \notin held /\ \A y \in s.next .. x - 1 : y \in held
    BY <1>1, <1>2, <1>3, FirstGap
  <2> QED  BY <2>1
<1> HIDE DEF next
<1>8. next \in Nat
  BY <1>7, Numbers
<1>9. next <= high /\ 1 <= next
  <2>1. ~(next > high)
    <3> SUFFICES ASSUME next > high PROVE FALSE
      OBVIOUS
    <3>1. high \in s.next .. next - 1
      BY <1>1, <1>8
    <3> HIDE DEF high
    <3> QED  BY <1>1, <1>3, <1>7, <3>1
  <2> QED  BY <1>1, <1>7, <1>8, <2>1
<1>10. left \subseteq Seqs /\ \A x \in left : x < high
  BY <1>3, <1>6
<1> HIDE DEF left, t
<1>11. /\ t.head = s.head /\ t.highTxMark = s.highTxMark /\ t.ecnCESeq = s.ecnCESeq
       /\ t.ecnState = s.ecnState /\ t.ecnEchoSeq = s.ecnEchoSeq
       /\ t.ecnCWRSeq = s.ecnCWRSeq /\ t.out = s.out /\ t.delAckCount = s.delAckCount
       /\ t.next = next /\ t.held = left
  BY <1>1, <1>4 DEF Socket
<1>12. t \in Socket
  BY <1>1, <1>4, <1>7, <1>10 DEF Socket
<1>13. Echoing(t, sock[Other(p)].ecnCWRSeq)
  BY <1>11 DEF Sound, Echoing, Echoes
<1>14. Sound(p, t)
  BY <1>9, <1>10, <1>11, <1>12, <1>13 DEF Sound
<1> QED  BY <1>11, <1>14 DEF t

LEMMA ReceivedDataSound ==
  ASSUME IInv, NEW p \in Peers, NEW s, Sound(p, s), NEW d,
         d.seq \in Nat, d.seq < sock[Other(p)].highTxMark
  PROVE  LET t == ReceivedData(s, d)
         IN  Sound(p, t) /\ t.highTxMark = s.highTxMark /\ t.ecnCESeq = s.ecnCESeq
<1> DEFINE added == AddToBuffer(s, d.seq)
           t == [added EXCEPT !.delAckCount = @ + 1, !.delAckEvent = TRUE]
<1>1. /\ Sound(p, added) /\ added.highTxMark = s.highTxMark
      /\ added.ecnCESeq = s.ecnCESeq /\ added.delAckCount = s.delAckCount
  BY AddToBufferSound
<1>2. CASE ReceivedData(s, d) = SendAck(s)
  BY <1>2, SendAckSound
<1>3. CASE ReceivedData(s, d) = SendAck(added)
  <2> HIDE DEF added
  <2> QED  BY <1>1, <1>3, SendAckSound
<1>4. CASE ReceivedData(s, d) = t /\ ~(s.delAckCount + 1 >= DelAckMax)
  <2> HIDE DEF added
  <2>1. added \in Socket
    BY <1>1 DEF Sound
  <2>2. s.delAckCount + 1 \in 0 .. DelAckMax
    <3>1. s.delAckCount \in 0 .. DelAckMax
      BY DEF Sound, Socket
    <3> QED  BY <1>4, <3>1, SizeAssumption
  <2>3. t \in Socket
    BY <1>1, <2>1, <2>2 DEF Socket
  <2>4. /\ t.head = added.head /\ t.highTxMark = added.highTxMark /\ t.next = added.next
        /\ t.held = added.held /\ t.ecnState = added.ecnState
        /\ t.ecnCESeq = added.ecnCESeq /\ t.ecnEchoSeq = added.ecnEchoSeq
        /\ t.ecnCWRSeq = added.ecnCWRSeq /\ t.out = added.out
    BY <2>1 DEF Socket
  <2> HIDE DEF t
  <2>5. Sound(p, t)
    BY <1>1, <2>3, <2>4 DEF Sound, Echoing, Echoes
  <2> QED  BY <1>1, <1>4, <2>4, <2>5
<1> QED  BY <1>2, <1>3, <1>4 DEF ReceivedData

LEMMA ReceivedAckSound ==
  ASSUME IInv, NEW p \in Peers, NEW s, Sound(p, s), NEW d, Arriving(p, d),
         ~(d.ack < s.head), NEW again \in Nat, NEW lost \in Nat, NEW n \in Nat,
         s.highTxMark + n <= NumSegs[p] + 1
  PROVE  LET t == ReceivedAck(s, d, again, lost, n)
         IN  Sound(p, t) /\ t.ecnCESeq = s.ecnCESeq
<1> DEFINE acked == [ReceivedEcho(s, d) EXCEPT !.head = d.ack]
           processed == Retransmit(acked, again)
           received == IF d.len > 0 THEN ReceivedData(processed, d) ELSE processed
<1>1. ReceivedAck(s, d, again, lost, n) = SendPendingData(received, lost, n)
  BY DEF ReceivedAck
<1>2. Sound(p, acked) /\ acked.highTxMark = s.highTxMark /\ acked.ecnCESeq = s.ecnCESeq
  BY AckedSound
<1> HIDE DEF acked
<1>3. /\ Sound(p, processed) /\ processed.highTxMark = s.highTxMark
      /\ processed.ecnCESeq = s.ecnCESeq
  BY <1>2, RetransmitSound
<1> HIDE DEF processed
<1>4. d.len \in 0 .. 1 /\ d.seq \in Nat /\ (d.len = 1 => d.seq < sock[Other(p)].highTxMark)
  BY Numbers DEF Arriving, Segment
<1>5. /\ Sound(p, received) /\ received.highTxMark = s.highTxMark
      /\ received.ecnCESeq = s.ecnCESeq
  <2>1. CASE d.len > 0
    <3>1. d.len = 1
      BY <1>4, <2>1
    <3>2. LET t == ReceivedData(processed, d)
          IN  /\ Sound(p, t) /\ t.highTxMark = processed.highTxMark
              /\ t.ecnCESeq = processed.ecnCESeq
      BY <1>3, <1>4, <3>1, ReceivedDataSound
    <3> QED  BY <1>3, <2>1, <3>2
  <2>2. CASE ~(d.len > 0)
    BY <1>3, <2>2
  <2> QED  BY <2>1, <2>2
<1> HIDE DEF received
<1>6. received.highTxMark + n <= NumSegs[p] + 1
  BY <1>5
<1> QED  BY <1>1, <1>5, <1>6, SendPendingDataSound

-----------------------------------------------------------------------------
(***************************************************************************)
(* The steps                                                               *)
(***************************************************************************)
\* What a handler sends joins what is on the path already.
LEMMA EnqueueFits ==
  ASSUME IInv, NEW p \in Peers, NEW s, Sound(p, s)
  PROVE  /\ Enqueue(Other(p), s.out) \in Seq(Segment)
         /\ Len(Enqueue(Other(p), s.out)) <= MaxInNet[Other(p)]
         /\ PathFits(Enqueue(Other(p), s.out), sock[Other(p)].ecnCESeq, s.highTxMark,
                     s.ecnCWRSeq)
<1> DEFINE q == Other(p)
           a == net[q]
           b == s.out
           c == a \o b
           k == Min({Len(c), MaxInNet[q]})
           ce == sock[q].ecnCESeq
           high == sock[p].highTxMark
           later == s.highTxMark
           cwr == sock[p].ecnCWRSeq
           next == s.ecnCWRSeq
<1>1. q \in Peers /\ Other(q) = p
  BY OtherEnd
<1>2. /\ a \in Seq(Segment) /\ PathFits(a, ce, high, cwr) /\ b \in Seq(Segment)
      /\ PathFits(b, high - 1, later, next) /\ cwr <= next /\ high <= later
  <2>1. s \in Socket
    BY DEF Sound
  <2> QED  BY <1>1, <2>1, SocketNumbers DEF IInv, Sound
<1>3. ce \in Nat /\ high \in Nat /\ later \in Nat /\ cwr \in Nat /\ next \in Nat /\ ce < high
  <2>1. s \in Socket
    BY DEF Sound
  <2>2. ce < high /\ ce \in Nat
    BY <1>1, Ends DEF Sound
  <2> QED  BY <2>1, <2>2, SocketNumbers, Ends
<1>4. MaxInNet[q] \in Nat
  BY <1>1, SizeAssumption
<1>5. Enqueue(q, s.out) = SubSeq(c, 1, k)
  BY DEF Enqueue
<1> HIDE DEF q, a, b, ce, high, later, cwr, next
<1>6. c \in Seq(Segment) /\ PathFits(c, ce, later, next)
  <2>1. ce \in Int
    BY <1>3
  <2> QED  BY <1>2, <1>3, <2>1, JoinedFits
<1> HIDE DEF c
<1>7. k \in Nat /\ k <= Len(c) /\ k <= MaxInNet[q]
  <2>1. Len(c) \in Nat
    BY <1>6
  <2> QED  BY <1>4, <2>1, LeastOfTwo
<1> HIDE DEF k
<1>8. /\ SubSeq(c, 1, k) \in Seq(Segment) /\ Len(SubSeq(c, 1, k)) = k
      /\ PathFits(SubSeq(c, 1, k), ce, later, next)
  BY <1>6, <1>7, PrefixFits
<1> QED  BY <1>5, <1>7, <1>8 DEF q, ce, later, next

\* What a handler leaves is sound, and it has answered only what follows an ACK of its
\* last answer.
LEMMA FinishSound ==
  ASSUME IInv, NEW p \in Peers, NEW s, Sound(p, s), NEW rest \in Seq(Segment),
         Len(rest) <= MaxInNet[p],
         PathFits(rest, s.ecnCESeq, sock[Other(p)].highTxMark, sock[Other(p)].ecnCWRSeq),
         Finish(p, s, rest)
  PROVE  /\ IInv'
         /\ \A q \in Peers : sock'[q].ecnCWRSeq # sock[q].ecnCWRSeq
                                => sock'[q].head > sock[q].ecnCWRSeq
<1> DEFINE q == Other(p)
           t == [s EXCEPT !.out = << >>]
<1>1. q \in Peers /\ q # p /\ Other(q) = p /\ \A x \in Peers : x = p \/ x = q
  BY OtherEnd
<1>2. s \in Socket /\ sock \in [Peers -> Socket]
  BY DEF Sound, IInv
<1>3. << >> \in Seq(Segment) /\ DOMAIN << >> = {}
  OBVIOUS
<1>4. /\ t.head = s.head /\ t.highTxMark = s.highTxMark /\ t.next = s.next
      /\ t.held = s.held /\ t.ecnState = s.ecnState /\ t.ecnCESeq = s.ecnCESeq
      /\ t.ecnEchoSeq = s.ecnEchoSeq /\ t.ecnCWRSeq = s.ecnCWRSeq /\ t.out = << >>
      /\ t \in Socket
  BY <1>2, <1>3 DEF Socket
<1>5. /\ sock'[p] = t /\ sock'[q] = sock[q] /\ sock' \in [Peers -> Socket]
      /\ net' \in [Peers -> Seq(Segment)] /\ net'[p] = rest
      /\ net'[q] = Enqueue(q, s.out)
  <2>1. sock' = [sock EXCEPT ![p] = t]
    BY DEF Finish
  <2> HIDE DEF t
  <2>2. sock'[p] = t /\ sock'[q] = sock[q] /\ sock' \in [Peers -> Socket]
    BY <1>1, <1>2, <1>4, <2>1
  <2>3. net' = [x \in Peers |-> IF x = p THEN rest ELSE Enqueue(x, s.out)]
    BY DEF Finish
  <2>4. Enqueue(q, s.out) \in Seq(Segment)
    BY EnqueueFits
  <2>5. net'[p] = rest /\ net'[q] = Enqueue(q, s.out)
    BY <1>1, <2>3
  <2>6. net' \in [Peers -> Seq(Segment)]
    BY <1>1, <2>3, <2>4
  <2> QED  BY <2>2, <2>5, <2>6
<1>6. /\ sock[p].highTxMark \in Nat /\ sock[p].ecnCWRSeq \in Nat
      /\ sock[q].highTxMark \in Nat /\ sock[q].ecnCWRSeq \in Nat
      /\ s.highTxMark \in Nat /\ s.ecnCWRSeq \in Nat
      /\ 1 <= sock[p].highTxMark /\ sock[p].highTxMark <= s.highTxMark
      /\ sock[p].ecnCWRSeq <= s.ecnCWRSeq
      /\ Sound(q, sock[q]) /\ sock[q].out = << >>
  BY <1>1, <1>2, SocketNumbers, Ends DEF IInv, Sound
<1> HIDE DEF t, q
<1>7. PathFits(<< >>, t.highTxMark - 1, t.highTxMark, t.ecnCWRSeq)
  BY <1>3 DEF PathFits
<1>8. Sound(p, sock[p])' /\ sock'[p].out = << >>
  <2>1. 1 <= t.highTxMark /\ t.highTxMark <= t.highTxMark /\ t.ecnCWRSeq <= t.ecnCWRSeq
    BY <1>4, <1>6
  <2>2. /\ t.highTxMark <= NumSegs[p] + 1
        /\ 1 <= t.next /\ t.next <= sock[q].highTxMark
        /\ \A x \in t.held : x < sock[q].highTxMark
        /\ t.ecnCESeq < sock[q].highTxMark /\ t.ecnCWRSeq < t.highTxMark
        /\ t.ecnEchoSeq <= t.head /\ Echoing(t, sock[q].ecnCWRSeq)
    BY <1>4 DEF Sound, Echoing, Echoes, q
  <2> QED  BY <1>1, <1>4, <1>5, <1>7, <2>1, <2>2 DEF Sound, q
<1>9. Sound(q, sock[q])' /\ sock'[q].out = << >>
  <2> DEFINE w == sock[q]
  <2>1. /\ w \in Socket /\ 1 <= w.highTxMark /\ w.highTxMark <= w.highTxMark
        /\ w.highTxMark <= NumSegs[q] + 1
        /\ w.ecnCWRSeq <= w.ecnCWRSeq /\ w.ecnCWRSeq < w.highTxMark
        /\ w.ecnEchoSeq <= w.head
        /\ PathFits(w.out, w.highTxMark - 1, w.highTxMark, w.ecnCWRSeq)
        /\ 1 <= w.next /\ w.next <= sock[p].highTxMark
        /\ \A x \in w.held : x < sock[p].highTxMark
        /\ w.ecnCESeq < sock[p].highTxMark /\ Echoing(w, sock[p].ecnCWRSeq)
    BY <1>1, <1>6 DEF Sound
  <2> HIDE DEF w
  <2>2. w.next \in Nat /\ w.ecnCESeq \in Nat /\ w.held \subseteq Nat
    BY <2>1, SocketNumbers
  <2>3. /\ w.next <= t.highTxMark /\ \A x \in w.held : x < t.highTxMark
        /\ w.ecnCESeq < t.highTxMark
    BY <1>4, <1>6, <2>1, <2>2
  <2>4. Echoing(w, t.ecnCWRSeq)
    BY <1>4, <1>6, <2>1, <2>2 DEF Echoing
  <2> QED  BY <1>1, <1>5, <1>6, <2>1, <2>3, <2>4 DEF Sound, w
<1>10. /\ Len(net'[p]) <= MaxInNet[p]
       /\ PathFits(net'[p], sock'[p].ecnCESeq, sock'[q].highTxMark, sock'[q].ecnCWRSeq)
  BY <1>4, <1>5 DEF q
<1>11. /\ Len(net'[q]) <= MaxInNet[q]
       /\ PathFits(net'[q], sock'[q].ecnCESeq, sock'[p].highTxMark, sock'[p].ecnCWRSeq)
  BY <1>4, <1>5, EnqueueFits DEF q
<1>12. IInv'
  <2>1. \A x \in Peers :
           /\ Sound(x, sock[x])' /\ sock'[x].out = << >>
           /\ Len(net'[x]) <= MaxInNet[x]
           /\ PathFits(net'[x], sock'[x].ecnCESeq, sock'[Other(x)].highTxMark,
                       sock'[Other(x)].ecnCWRSeq)
    BY <1>1, <1>8, <1>9, <1>10, <1>11 DEF q
  <2> QED  BY <1>5, <2>1 DEF IInv
<1>13. \A x \in Peers : sock'[x].ecnCWRSeq # sock[x].ecnCWRSeq
                          => sock'[x].head > sock[x].ecnCWRSeq
  <2>1. s.ecnCWRSeq # sock[p].ecnCWRSeq => s.head > sock[p].ecnCWRSeq
    BY DEF Sound
  <2> QED  BY <1>1, <1>4, <1>5, <2>1
<1> QED  BY <1>12, <1>13

\* A handler that starts, with the path to p as it is.
LEMMA Starts ==
  ASSUME IInv, NEW p \in Peers
  PROVE  /\ Sound(p, sock[p]) /\ net[p] \in Seq(Segment) /\ Len(net[p]) <= MaxInNet[p]
         /\ PathFits(net[p], sock[p].ecnCESeq, sock[Other(p)].highTxMark,
                     sock[Other(p)].ecnCWRSeq)
         /\ \A n \in Bursts(p) : n \in Nat /\ sock[p].highTxMark + n <= NumSegs[p] + 1
         /\ Lost(p) \subseteq Nat /\ sock[p].head \in Nat
<1>1. MaxBurst \in Nat
  BY SizeAssumption
<1>2. sock[p].head \in Nat /\ sock[p].highTxMark \in Nat
  BY Ends
<1>3. Lost(p) \subseteq Nat
  BY <1>2 DEF Lost
<1> QED  BY <1>1, <1>2, <1>3 DEF IInv, Bursts

\* A window is reduced again only behind an ACK of the last answer.
Once ==
    \A p \in Peers : sock'[p].ecnCWRSeq # sock[p].ecnCWRSeq
                        => sock'[p].head > sock[p].ecnCWRSeq

LEMMA SendStep ==
  ASSUME IInv, NEW p \in Peers, Send(p)
  PROVE  IInv' /\ Once
<1>1. PICK lost \in Lost(p), n \in Bursts(p) :
         Finish(p, SendPendingData(sock[p], lost, n), net[p])
  BY DEF Send
<1> DEFINE t == SendPendingData(sock[p], lost, n)
<1>2. Sound(p, t) /\ t.ecnCESeq = sock[p].ecnCESeq
  BY <1>1, Starts, SendPendingDataSound
<1> HIDE DEF t
<1>3. Finish(p, t, net[p])
  BY <1>1 DEF t
<1> QED  BY <1>2, <1>3, Starts, FinishSound DEF Once

LEMMA ReceiveStep ==
  ASSUME IInv, NEW p \in Peers, Receive(p)
  PROVE  IInv' /\ Once
<1> DEFINE d == Head(net[p])
           s == sock[p]
           rest == Tail(net[p])
           high == sock[Other(p)].highTxMark
           cwr == sock[Other(p)].ecnCWRSeq
<1>1. /\ Sound(p, s) /\ net[p] \in Seq(Segment) /\ net[p] # << >>
      /\ Len(net[p]) <= MaxInNet[p]
      /\ PathFits(net[p], s.ecnCESeq, high, cwr)
  BY Starts DEF Receive
<1>2. s.ecnCESeq \in Nat /\ high \in Nat /\ cwr \in Nat /\ MaxInNet[p] \in Nat
  BY Ends, SizeAssumption
<1>3. /\ d \in Segment /\ rest \in Seq(Segment) /\ Len(rest) <= Len(net[p])
      /\ PathFits(rest, s.ecnCESeq, high, cwr)
      /\ d.len = 1 => d.seq < high /\ PathFits(rest, d.seq, high, cwr)
      /\ d.cwr => d.len = 1 /\ s.ecnCESeq < d.seq /\ d.seq <= cwr
  BY <1>1, <1>2, TailFits
<1>4. Len(rest) <= MaxInNet[p]
  <2>1. Len(rest) \in Nat /\ Len(net[p]) \in Nat
    BY <1>1, <1>3
  <2> QED  BY <1>1, <1>2, <1>3, <2>1
<1>5. Arriving(p, d)
  BY <1>3 DEF Arriving
<1>6. CASE Finish(p, SendEmptyPacket(s, FALSE), rest)
  <2> DEFINE t == SendEmptyPacket(s, FALSE)
  <2>1. Sound(p, t) /\ t.ecnCESeq = s.ecnCESeq
    BY <1>1, SendEmptyPacketSound
  <2> HIDE DEF t, s, d, rest
  <2>2. Finish(p, t, rest)
    BY <1>6 DEF t
  <2> QED  BY <1>3, <1>4, <2>1, <2>2, FinishSound DEF Once
<1>7. ASSUME NEW ce \in {d.len = 1, FALSE}, NEW again \in Lost(p), NEW lost \in Lost(p),
             NEW n \in Bursts(p),
             Finish(p, IF d.ack < ReceivedCwr(ReceivedMark(s, d, ce), d).head
                       THEN ReceivedCwr(ReceivedMark(s, d, ce), d)
                       ELSE ReceivedAck(ReceivedCwr(ReceivedMark(s, d, ce), d), d, again,
                                        lost, n),
                    rest)
      PROVE  IInv' /\ Once
  <2> DEFINE seen == ReceivedCwr(ReceivedMark(s, d, ce), d)
             t == IF d.ack < seen.head THEN seen ELSE ReceivedAck(seen, d, again, lost, n)
  <2>1. ce \in BOOLEAN /\ (ce => d.len = 1)
    OBVIOUS
  <2>2. /\ Sound(p, seen) /\ seen.highTxMark = s.highTxMark
        /\ seen.ecnCESeq # s.ecnCESeq => ce /\ seen.ecnCESeq = d.seq
    BY <1>5, <2>1, SeenSound
  <2>3. PathFits(rest, seen.ecnCESeq, high, cwr)
    BY <1>3, <2>1, <2>2
  <2>4. Finish(p, t, rest)
    BY <1>7
  <2> HIDE DEF seen, s, d, rest
  <2>5. /\ n \in Nat /\ seen.highTxMark + n <= NumSegs[p] + 1
        /\ again \in Nat /\ lost \in Nat
    BY <1>7, <2>2, Starts DEF s
  <2>6. Sound(p, t) /\ t.ecnCESeq = seen.ecnCESeq
    <3>1. CASE d.ack < seen.head
      BY <2>2, <3>1
    <3>2. CASE ~(d.ack < seen.head)
      <4>1. LET u == ReceivedAck(seen, d, again, lost, n)
            IN  Sound(p, u) /\ u.ecnCESeq = seen.ecnCESeq
        BY <1>5, <2>2, <2>5, <3>2, ReceivedAckSound
      <4> QED  BY <3>2, <4>1
    <3> QED  BY <3>1, <3>2
  <2> HIDE DEF t
  <2> QED  BY <1>3, <1>4, <2>3, <2>4, <2>6, FinishSound DEF Once
<1>8. ASSUME NEW ce \in {d.len = 1, FALSE}
      PROVE  ReceivedCwr(ReceivedMark(s, d, ce), d).head = s.head
  <2>1. ce \in BOOLEAN /\ (ce => d.len = 1)
    OBVIOUS
  <2> QED  BY <1>5, <2>1, SeenSound
<1> HIDE DEF s, d, rest
<1> QED  BY <1>6, <1>7, <1>8 DEF Receive, s, d, rest

LEMMA ReTxTimeoutStep ==
  ASSUME IInv, NEW p \in Peers, ReTxTimeout(p)
  PROVE  IInv' /\ Once
<1> DEFINE t == SendPendingData(sock[p], sock[p].head, 0)
<1>1. Sound(p, t) /\ t.ecnCESeq = sock[p].ecnCESeq
  <2>1. 0 \in Nat /\ sock[p].head \in Nat /\ sock[p].highTxMark + 0 <= NumSegs[p] + 1
    BY Ends DEF Sound
  <2> QED  BY <2>1, Starts, SendPendingDataSound
<1>2. Finish(p, t, net[p])
  BY DEF ReTxTimeout
<1> HIDE DEF t
<1> QED  BY <1>1, <1>2, Starts, FinishSound DEF Once

LEMMA SendAckStep ==
  ASSUME IInv, NEW p \in Peers, DelAckTimeout(p) \/ SetRcvBufSize(p)
  PROVE  IInv' /\ Once
<1> DEFINE t == SendAck(sock[p])
<1>1. Sound(p, t) /\ t.ecnCESeq = sock[p].ecnCESeq
  BY Starts, SendAckSound
<1>2. Finish(p, t, net[p])
  BY DEF DelAckTimeout, SetRcvBufSize
<1> HIDE DEF t
<1> QED  BY <1>1, <1>2, Starts, FinishSound DEF Once

LEMMA LoseStep ==
  ASSUME IInv, Lose
  PROVE  IInv' /\ Once
<1>1. PICK p \in Peers : \E i \in DOMAIN net[p] :
         net' = [net EXCEPT ![p] = RemoveAt(@, i)]
  BY DEF Lose
<1>2. PICK i \in DOMAIN net[p] : net' = [net EXCEPT ![p] = RemoveAt(@, i)]
  BY <1>1
<1>3. sock' = sock
  BY DEF Lose
<1> DEFINE r == RemoveAt(net[p], i)
<1>4. /\ r \in Seq(Segment) /\ Len(r) <= Len(net[p])
      /\ PathFits(r, sock[p].ecnCESeq, sock[Other(p)].highTxMark, sock[Other(p)].ecnCWRSeq)
  BY <1>2, Starts, RemovedFits
<1>5. net \in [Peers -> Seq(Segment)] /\ MaxInNet[p] \in Nat
  BY SizeAssumption DEF IInv
<1>6. net' = [net EXCEPT ![p] = r]
  BY <1>2
<1>7. Len(r) <= MaxInNet[p]
  <2>1. Len(r) \in Nat /\ Len(net[p]) \in Nat
    BY <1>4, <1>5
  <2> QED  BY <1>4, <1>5, <2>1, Starts
<1> HIDE DEF r
<1>8. /\ net' \in [Peers -> Seq(Segment)] /\ net'[p] = r
      /\ \A x \in Peers : x # p => net'[x] = net[x]
  BY <1>4, <1>5, <1>6
<1>9. ASSUME NEW x \in Peers
      PROVE  /\ Sound(x, sock[x])' /\ sock'[x].out = << >>
             /\ Len(net'[x]) <= MaxInNet[x]
             /\ PathFits(net'[x], sock'[x].ecnCESeq, sock'[Other(x)].highTxMark,
                         sock'[Other(x)].ecnCWRSeq)
  <2>1. Sound(x, sock[x])' /\ sock'[x].out = << >>
    BY <1>3 DEF IInv, Sound
  <2>2. CASE x = p
    BY <1>3, <1>4, <1>7, <1>8, <2>1, <2>2
  <2>3. CASE x # p
    BY <1>3, <1>8, <2>1, <2>3, Starts
  <2> QED  BY <2>2, <2>3
<1>10. IInv'
  BY <1>3, <1>8, <1>9 DEF IInv
<1> QED  BY <1>3, <1>10 DEF Once

LEMMA InitSound == Init => IInv
<1> SUFFICES ASSUME Init PROVE IInv
  OBVIOUS
<1> DEFINE s == [ head |-> 1, highTxMark |-> 1, next |-> 1, held |-> {},
                  delAckCount |-> DelAckMax, delAckEvent |-> FALSE,
                  ecnState |-> "IDLE", ecnCESeq |-> 0, ecnEchoSeq |-> 0,
                  ecnCWRSeq |-> 0, out |-> << >> ]
<1>1. /\ \A p \in Peers : sock[p] = s /\ net[p] = << >>
      /\ sock = [p \in Peers |-> s] /\ net = [p \in Peers |-> << >>]
  BY DEF Init
<1>2. ASSUME NEW p \in Peers
      PROVE  0 \in Seqs /\ 1 \in Seqs /\ NumSegs[p] \in Nat
  BY Numbers
<1>3. << >> \in Seq(Segment) /\ DOMAIN << >> = {} /\ Len(<< >>) = 0
  OBVIOUS
<1>4. ASSUME NEW p \in Peers PROVE s \in Socket
  <2>1. DelAckMax \in 0 .. DelAckMax
    BY SizeAssumption
  <2> QED  BY <1>2, <1>3, <2>1 DEF Socket, EcnStates
<1>5. /\ s.head = 1 /\ s.highTxMark = 1 /\ s.next = 1 /\ s.held = {} /\ s.ecnCESeq = 0
      /\ s.ecnEchoSeq = 0 /\ s.ecnCWRSeq = 0 /\ s.out = << >>
  OBVIOUS
<1> HIDE DEF s
<1>6. \A ce, high, cwr : PathFits(<< >>, ce, high, cwr)
  BY <1>3 DEF PathFits
<1>7. Echoing(s, 0)
  BY <1>5 DEF Echoing
<1>8. ASSUME NEW p \in Peers
      PROVE  /\ Sound(p, sock[p]) /\ sock[p].out = << >>
             /\ Len(net[p]) <= MaxInNet[p]
             /\ PathFits(net[p], sock[p].ecnCESeq, sock[Other(p)].highTxMark,
                         sock[Other(p)].ecnCWRSeq)
  <2>1. sock[p] = s /\ sock[Other(p)] = s /\ net[p] = << >>
    BY <1>1, OtherEnd
  <2>2. MaxInNet[p] \in Nat
    BY SizeAssumption
  <2> QED  BY <1>2, <1>3, <1>4, <1>5, <1>6, <1>7, <2>1, <2>2 DEF Sound
<1>9. sock \in [Peers -> Socket] /\ net \in [Peers -> Seq(Segment)]
  BY <1>1, <1>3, <1>4
<1> QED  BY <1>8, <1>9 DEF IInv

LEMMA NextSound ==
  ASSUME IInv, [Next]_vars
  PROVE  IInv' /\ Once
<1>1. CASE Next
  BY <1>1, SendStep, ReceiveStep, ReTxTimeoutStep, SendAckStep, LoseStep DEF Next
<1>2. CASE UNCHANGED vars
  BY <1>2 DEF vars, IInv, Sound, Once, Echoing
<1> QED  BY <1>1, <1>2

\* IInv holds in every state.
THEOREM Inductive == Spec => []IInv
<1>1. IInv /\ [Next]_vars => IInv'
  BY NextSound
<1> QED  BY InitSound, <1>1, PTL DEF Spec

-----------------------------------------------------------------------------
(***************************************************************************)
(* The properties                                                          *)
(***************************************************************************)
\* The sockets and the paths have their types, no path holds more than fits on it, and
\* neither end has received what the other has not sent.
THEOREM TypeCorrect == Spec => []TypeOK
<1>1. IInv => TypeOK
  <2> SUFFICES ASSUME IInv PROVE TypeOK
    OBVIOUS
  <2>1. ASSUME NEW p \in Peers, NEW q \in Peers \ {p}
        PROVE  sock[p].next <= sock[q].highTxMark
    <3>1. q = Other(p) /\ Sound(p, sock[p])
      BY OtherEnd, Ends
    <3> QED  BY <3>1 DEF Sound
  <2> QED  BY <2>1 DEF IInv, TypeOK
<1> QED  BY Inductive, <1>1, PTL

\* A mark that the sender has not answered for is being echoed, whatever is lost,
\* unless the receiver has had an echo for its own data.
THEOREM MarksEchoed == Spec => []MarkEchoed
<1>1. IInv => MarkEchoed
  BY DEF IInv, Sound, Echoing, MarkEchoed
<1> QED  BY Inductive, <1>1, PTL

\* The window is reduced again only when the segment that told of the last reduction
\* is acknowledged.
THEOREM ReducedOnce == Spec => OncePerWindow
<1>1. IInv /\ [Next]_vars
        => [ \A p \in Peers :
                sock'[p].ecnCWRSeq # sock[p].ecnCWRSeq /\ sock[p].ecnCWRSeq # 0
                   => sock'[p].head > sock[p].ecnCWRSeq ]_vars
  BY NextSound DEF Once
<1> QED  BY Inductive, <1>1, PTL DEF Spec, OncePerWindow
=============================================================================
