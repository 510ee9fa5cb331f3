-------------------------- MODULE RttHistoryProofs --------------------------
(***************************************************************************)
(* Theorems about RttHistory, for every amount of data, every size of a    *)
(* segment and any number of retries.                                      *)
(*                                                                         *)
(* That only unambiguous samples are taken is not inductive: an entry that *)
(* is not marked may have been sent again, if a segment that was sent      *)
(* again swallowed it.  Then an earlier entry is marked and ends behind    *)
(* it, so that every ACK that covers the one in front covers both, and     *)
(* none is measured.  An entry that was marked must not shrink again and   *)
(* uncover the others, in whichever order segments are sent again.  It     *)
(* does not, because the first entry that has a byte ends where an item    *)
(* of the transmission buffer ends, or before: what is sent again is an    *)
(* item, or more.                                                          *)
(***************************************************************************)
EXTENDS RttHistory, SequenceTheorems, Arithmetic

\* The three calls of UpdateRttHistory for data.
Logs(seq, sz) == history' = UpdateRttHistory(history, seq, sz, FALSE)
Marks(seq, sz) == history' = UpdateRttHistory(history, seq, sz, TRUE)
Restarts(sz) == history' = UpdateRttHistory(ClearedHistory, head, sz, head < highTxMark)

\* Before the SYN+ACK there are only entries that measure nothing.
Opening ==
    /\ \A i \in DOMAIN history : history[i].seq = 0 /\ history[i].count = 0
    /\ \A x \in Seqs : x > 0 => sends[x] = 0
    /\ cuts = {}
    /\ recover = 0

\* What is logged is data that was sent since the last timeout.
Logged ==
    \A i \in DOMAIN history :
       /\ history[i].seq >= 1 /\ history[i].count >= 1
       /\ history[i].seq >= recover
       /\ End(history[i]) <= highTxMark

\* Nothing new is sent before what the last timeout marked was sent again.
Late == highRxt < recover => highTxMark = recover

\* Entries are in order, and overlap only where one was extended.
Ordered ==
    \A i, k \in DOMAIN history : i < k =>
       /\ history[i].seq < history[k].seq
       /\ ~history[i].retx => End(history[i]) <= history[k].seq

\* What was sent first since the last timeout is logged, and the first entry that has
\* a byte ends where the item of the byte ends, or before.
Matched ==
    \A x \in head .. highTxMark - 1 : x >= recover =>
       \E i \in DOMAIN history :
          /\ history[i].seq <= x /\ x < End(history[i])
          /\ \A j \in 1 .. i - 1 : End(history[j]) <= x
          /\ \A c \in cuts : c > x => c >= End(history[i])

\* An entry that is not marked was sent once, or hides behind one that is.
Guarded ==
    \A i \in DOMAIN history :
       \/ history[i].retx
       \/ sends[End(history[i]) - 1] = 1
       \/ \E j \in DOMAIN history :
             j < i /\ history[j].retx /\ End(history[i]) <= End(history[j])

Unsent == \A x \in Seqs : x >= highTxMark => sends[x] = 0

Transfer ==
    /\ synCount < SynRetries
    /\ head >= 1
    /\ Logged /\ Late /\ Ordered /\ Matched /\ Guarded /\ Unsent

IInv ==
    /\ TypeOK
    /\ state = "CLOSED" /\ synCount = SynRetries => history = << >> /\ Opening
    /\ state = "SYN_SENT" => synCount < SynRetries /\ Opening
    /\ state = "ESTABLISHED" => Transfer
    /\ SamplesUnambiguous
    /\ SamplesFresh
-----------------------------------------------------------------------------
(***************************************************************************)
(* Lemmas                                                                  *)
(***************************************************************************)
\* EstimateRtt removes a prefix: all that the ACK covers, up to the first entry that
\* it does not cover.
LEMMA EstimatePops ==
  ASSUME TypeOK, NEW ack \in Nat, EstimateRtt(ack)
  PROVE  /\ history' \in Seq(Entry)
         /\ \E from \in 1 .. Len(history) + 1 :
               /\ Len(history') = Len(history) + 1 - from
               /\ \A i \in 1 .. Len(history') : history'[i] = history[from + i - 1]
               /\ \A i \in 1 .. from - 1 : End(history[i]) <= ack
               /\ from <= Len(history) => End(history[from]) > ack
<1> DEFINE kept == {i \in DOMAIN history : End(history[i]) > ack}
           from == IF kept = {} THEN Len(history) + 1
                   ELSE FirstOf(kept)
<1>1. history \in Seq(Entry) /\ DOMAIN history = 1 .. Len(history) /\ Len(history) \in Nat
  BY DEF TypeOK
<1>2. history' = SubSeq(history, from, Len(history))
  BY DEF EstimateRtt
<1>3. from \in 1 .. Len(history) + 1
      /\ (from <= Len(history) => from \in kept)
      /\ \A j \in kept : from <= j
  <2>1. CASE kept = {}
    BY <1>1, <2>1
  <2>2. CASE kept # {}
    <3>1. kept \subseteq Nat
      BY <1>1
    <3>2. \E i \in kept : \A j \in kept : i <= j
      <4> HIDE DEF kept
      <4> QED  BY <3>1, <2>2, Least
    <3>3. from \in kept /\ \A j \in kept : from <= j
      <4>1. from = CHOOSE i \in kept : \A j \in kept : i <= j
        BY <2>2 DEF FirstOf
      <4> HIDE DEF from, kept
      <4> QED  BY <3>2, <4>1
    <3> QED  BY <3>3, <1>1
  <2> QED  BY <2>1, <2>2
<1>4. \A i \in 1 .. from - 1 : End(history[i]) <= ack
  <2> SUFFICES ASSUME NEW i \in 1 .. from - 1 PROVE End(history[i]) <= ack
    OBVIOUS
  <2>1. i \in DOMAIN history /\ i \notin kept
    <3> HIDE DEF from, kept
    <3> QED  BY <1>1, <1>3
  <2>2. End(history[i]) \in Nat
    <3>1. history[i] \in Entry
      <4> HIDE DEF from, kept
      <4> QED  BY <2>1, <1>1
    <3> QED  BY <3>1 DEF End, Entry
  <2> QED  BY <2>1, <2>2
<1>5. /\ history' \in Seq(Entry)
      /\ Len(history') = Len(history) + 1 - from
      /\ \A i \in 1 .. Len(history') : history'[i] = history[from + i - 1]
  <2> HIDE DEF from
  <2>1. \A i \in from .. Len(history) : history[i] \in Entry
    BY <1>1, <1>3
  <2>2. Len(history) \in Int /\ from \in Int
    BY <1>1, <1>3
  <2> QED  BY <1>1, <1>2, <1>3, <2>1, <2>2, SubSeqProperties
<1>6. from <= Len(history) => End(history[from]) > ack
  BY <1>3
<1> HIDE DEF from
<1> QED  BY <1>3, <1>4, <1>5, <1>6

\* What an entry is, spelled out for the provers.
LEMMA EntryTypes ==
  ASSUME TypeOK
  PROVE  /\ DOMAIN history = 1 .. Len(history) /\ Len(history) \in Nat
         /\ \A i \in 1 .. Len(history) :
               /\ history[i] \in Entry
               /\ history[i].seq \in Nat /\ history[i].count \in Nat
               /\ history[i].retx \in BOOLEAN
               /\ End(history[i]) = history[i].seq + history[i].count
               /\ End(history[i]) \in Nat
<1>1. DOMAIN history = 1 .. Len(history) /\ Len(history) \in Nat
  BY DEF TypeOK
<1>2. \A i \in 1 .. Len(history) : history[i] \in Entry
  BY <1>1 DEF TypeOK
<1> QED  BY <1>1, <1>2 DEF Entry, End

\* What an ACK leaves of the history keeps what holds of the whole: above all, an
\* entry that hides behind a marked one loses it only to one that hides it as well.
LEMMA EstimateKeeps ==
  ASSUME TypeOK, Transfer, TypeOK', NEW ack \in 1 .. highTxMark, EstimateRtt(ack),
         head' = Larger(head, ack), cuts' \subseteq cuts,
         UNCHANGED <<synCount, highTxMark, highRxt, recover, sends>>
  PROVE  Transfer'
<1> DEFINE n == Len(history)
<1>1. /\ DOMAIN history = 1 .. n /\ n \in Nat
      /\ \A i \in 1 .. n :
            /\ history[i].seq \in Nat /\ history[i].count \in Nat
            /\ history[i].retx \in BOOLEAN
            /\ End(history[i]) = history[i].seq + history[i].count
            /\ End(history[i]) \in Nat
  BY EntryTypes
<1>2. PICK from \in 1 .. n + 1 :
        /\ Len(history') = n + 1 - from
        /\ \A i \in 1 .. Len(history') : history'[i] = history[from + i - 1]
        /\ \A i \in 1 .. from - 1 : End(history[i]) <= ack
        /\ from <= n => End(history[from]) > ack
  <2>1. ack \in Nat
    BY DEF TypeOK
  <2> QED  BY <2>1, EstimatePops
<1>3. DOMAIN history' = 1 .. n + 1 - from
  BY <1>2 DEF TypeOK
<1>4. \A i \in DOMAIN history' :
         /\ from + i - 1 \in 1 .. n
         /\ history'[i] = history[from + i - 1]
  <2> SUFFICES ASSUME NEW i \in 1 .. n + 1 - from
               PROVE  /\ from + i - 1 \in 1 .. n
                      /\ history'[i] = history[from + i - 1]
    BY <1>3
  <2>1. from + i - 1 \in 1 .. n
    BY <1>1
  <2>2. history'[i] = history[from + i - 1]
    BY <1>2
  <2> QED  BY <2>1, <2>2
<1>5. \A k \in from .. n : k - from + 1 \in DOMAIN history'
                           /\ history'[k - from + 1] = history[k]
  <2> SUFFICES ASSUME NEW k \in from .. n
               PROVE  /\ k - from + 1 \in DOMAIN history'
                      /\ history'[k - from + 1] = history[k]
    OBVIOUS
  <2>1. k - from + 1 \in 1 .. n + 1 - from /\ from + (k - from + 1) - 1 = k
    BY <1>1
  <2> QED  BY <1>2, <1>3, <2>1
<1>6. head \in Nat /\ head' \in Nat /\ highTxMark \in Nat /\ ack \in Nat
      /\ head <= head' /\ ack <= head' /\ head' >= 1
  BY DEF TypeOK, Transfer, Larger
<1>7. Logged'
  <2> SUFFICES ASSUME NEW i \in DOMAIN history'
               PROVE  /\ history'[i].seq >= 1 /\ history'[i].count >= 1
                      /\ history'[i].seq >= recover
                      /\ End(history'[i]) <= highTxMark
    BY DEF Logged
  <2> QED  BY <1>1, <1>4 DEF Transfer, Logged
<1>8. Ordered'
  BY <1>1, <1>3, <1>4 DEF Transfer, Ordered
<1>9. Late'
  BY DEF Transfer, Late
<1>10. Matched'
  <2> SUFFICES ASSUME NEW x \in head' .. highTxMark - 1, x >= recover
               PROVE  \E i \in DOMAIN history' :
                         /\ history'[i].seq <= x /\ x < End(history'[i])
                         /\ \A j \in 1 .. i - 1 : End(history'[j]) <= x
                         /\ \A c \in cuts' : c > x => c >= End(history'[i])
    BY DEF Matched
  <2>1. x \in head .. highTxMark - 1 /\ x \in Nat /\ ack <= x
    BY <1>6
  <2>2. PICK k \in 1 .. n :
           /\ history[k].seq <= x /\ x < End(history[k])
           /\ \A j \in 1 .. k - 1 : End(history[j]) <= x
           /\ \A c \in cuts : c > x => c >= End(history[k])
    BY <1>1, <2>1 DEF Transfer, Matched
  <2>3. k >= from
    <3>1. ~(End(history[k]) <= ack)
      BY <1>1, <1>6, <2>1, <2>2
    <3> QED  BY <1>1, <1>2, <3>1
  <2> DEFINE i == k - from + 1
  <2>4. i \in DOMAIN history' /\ history'[i] = history[k]
    BY <1>5, <2>3
  <2>5. \A j \in 1 .. i - 1 : End(history'[j]) <= x
    <3> SUFFICES ASSUME NEW j \in 1 .. i - 1 PROVE End(history'[j]) <= x
      OBVIOUS
    <3>1. j \in DOMAIN history' /\ from + j - 1 \in 1 .. k - 1
      BY <1>1, <1>3, <2>3
    <3>2. history'[j] = history[from + j - 1]
      BY <1>4, <3>1
    <3> QED  BY <2>2, <3>1, <3>2
  <2> HIDE DEF i
  <2> QED  BY <2>2, <2>4, <2>5
<1>11. Guarded'
  <2> SUFFICES ASSUME NEW i \in DOMAIN history', ~history'[i].retx,
                      sends[End(history'[i]) - 1] # 1
               PROVE  \E j \in DOMAIN history' :
                         /\ j < i /\ history'[j].retx
                         /\ End(history'[i]) <= End(history'[j])
    BY DEF Guarded
  <2> DEFINE k == from + i - 1
  <2>1. k \in 1 .. n /\ history'[i] = history[k] /\ k >= from /\ i = k - from + 1
    BY <1>3, <1>4
  <2>2. PICK j \in 1 .. n :
           j < k /\ history[j].retx /\ End(history[k]) <= End(history[j])
    BY <1>1, <2>1 DEF Transfer, Guarded
  <2>3. CASE j >= from
    <3>1. j - from + 1 \in DOMAIN history' /\ history'[j - from + 1] = history[j]
      BY <1>5, <2>3
    <3>2. j - from + 1 < i
      BY <2>1, <2>2
    <3> QED  BY <2>1, <2>2, <3>1, <3>2
  <2>4. CASE j < from
    <3>1. End(history[k]) <= ack /\ from # k /\ from < k /\ from \in 1 .. n
      BY <1>1, <1>2, <2>1, <2>2, <2>4
    <3>2. End(history[from]) > ack
      BY <1>2, <3>1
    <3>3. history[from].retx
      <4> SUFFICES ASSUME ~history[from].retx PROVE FALSE
        OBVIOUS
      <4>1. End(history[from]) <= history[k].seq
        BY <1>1, <2>1, <3>1 DEF Transfer, Ordered
      <4>2. \A m \in 1 .. n : history[m].seq <= End(history[m])
        BY <1>1
      <4> QED  BY <1>1, <2>1, <3>1, <3>2, <4>1, <4>2
    <3>4. 1 \in DOMAIN history' /\ history'[1] = history[from] /\ 1 < i
      BY <1>1, <1>5, <2>1, <3>1
    <3> QED  BY <1>1, <2>1, <3>1, <3>2, <3>3, <3>4
  <2> QED  BY <2>3, <2>4
<1>12. Unsent'
  BY DEF Transfer, Unsent
<1> QED  BY <1>6, <1>7, <1>8, <1>9, <1>10, <1>11, <1>12 DEF Transfer

\* The entry in front hides behind none: a sample of it is one of data that was sent
\* once, and since the last timeout.
LEMMA SampleSound ==
  ASSUME TypeOK, Transfer, NEW ack \in Nat, EstimateRtt(ack), sample' \in 1 .. NumBytes
  PROVE  sends[sample'] = 1 /\ sample' >= recover
<1>1. history # << >> /\ ~Head(history).retx /\ sample' = LastOf(Head(history))
  BY DataAssumption DEF EstimateRtt, Measured, NoSample
<1>2. 1 \in 1 .. Len(history) /\ Head(history) = history[1]
  BY <1>1 DEF TypeOK
<1>3. sample' = End(history[1]) - 1 /\ history[1].seq >= recover
      /\ history[1].count >= 1
  BY <1>1, <1>2, EntryTypes DEF Transfer, Logged, LastOf
<1>4. ~\E j \in DOMAIN history : j < 1
  BY EntryTypes
<1> QED  BY <1>1, <1>2, <1>3, <1>4, EntryTypes DEF Transfer, Guarded, TypeOK

\* New data is logged behind all that is there, and was never sent before.
LEMMA NewKeeps ==
  ASSUME TypeOK, Transfer, TypeOK', NEW sz \in 1 .. SegSize,
         highTxMark + sz <= NumBytes + 1,
         Logs(highTxMark, sz), Sent(highTxMark, sz),
         highTxMark' = highTxMark + sz, highRxt' = Larger(highRxt, recover),
         UNCHANGED <<synCount, head, recover>>
  PROVE  Transfer'
<1> DEFINE n == Len(history)
           new == [seq |-> highTxMark, count |-> sz, retx |-> FALSE]
<1>1. /\ DOMAIN history = 1 .. n /\ n \in Nat
      /\ \A i \in 1 .. n :
            /\ history[i].seq \in Nat /\ history[i].count \in Nat
            /\ history[i].retx \in BOOLEAN
            /\ End(history[i]) = history[i].seq + history[i].count
            /\ End(history[i]) \in Nat
  BY EntryTypes
<1>2. /\ sz \in Nat /\ sz >= 1 /\ highTxMark \in Nat /\ head \in Nat
      /\ head >= 1 /\ head <= highTxMark /\ recover <= highTxMark
      /\ highRxt \in Nat /\ recover \in Nat /\ highRxt' \in Nat /\ highTxMark' \in Nat
      /\ recover <= highRxt' /\ NumBytes \in Nat
  BY DataAssumption DEF TypeOK, Transfer, Larger
<1>3. /\ DOMAIN history' = 1 .. n + 1
      /\ history'[n + 1].seq = highTxMark /\ history'[n + 1].count = sz
      /\ ~history'[n + 1].retx
      /\ \A i \in 1 .. n : history'[i] = history[i]
  <2>1. history' = Append(history, new) /\ new \in Entry /\ history \in Seq(Entry)
    BY <1>2 DEF Logs, UpdateRttHistory, Entry, TypeOK
  <2>2. /\ DOMAIN history' = 1 .. n + 1 /\ history'[n + 1] = new
        /\ \A i \in 1 .. n : history'[i] = history[i]
    <3> HIDE DEF new
    <3> QED  BY <2>1, AppendProperties
  <2> QED  BY <2>2
<1>4. End(history'[n + 1]) = highTxMark + sz
  BY <1>3 DEF End
<1>5. \A i \in 1 .. n : history[i].seq >= 1 /\ history[i].count >= 1
                        /\ history[i].seq >= recover
                        /\ End(history[i]) <= highTxMark
                        /\ history[i].seq < highTxMark
  <2>1. \A i \in 1 .. n : history[i].seq >= 1 /\ history[i].count >= 1
                          /\ history[i].seq >= recover
                          /\ End(history[i]) <= highTxMark
    BY <1>1 DEF Transfer, Logged
  <2> QED  BY <1>1, <1>2, <2>1
<1>6. \A x \in Seqs : /\ x < highTxMark => sends'[x] = sends[x]
                      /\ x \in highTxMark .. highTxMark + sz - 1 => sends'[x] = 1
                      /\ x >= highTxMark + sz => sends'[x] = 0
  <2>1. \A x \in Seqs : sends'[x] = IF x \in highTxMark .. highTxMark + sz - 1
                                   THEN Smaller(sends[x] + 1, 2) ELSE sends[x]
    BY DEF Sent, Count
  <2>2. \A x \in Seqs : x \in Nat /\ (x >= highTxMark => sends[x] = 0)
    BY DEF Transfer, Unsent, Seqs
  <2> QED  BY <1>2, <2>1, <2>2 DEF Smaller
<1>7. \A c \in cuts' :
         \/ c = highTxMark + sz
         \/ c \in cuts /\ (c <= highTxMark \/ c >= highTxMark + sz)
  BY DEF Sent
<1>8. \A c \in cuts' : c \in Nat
  BY DEF TypeOK
<1> HIDE DEF n, new
<1>9. sends'[End(history'[n + 1]) - 1] = 1
  <2>1. highTxMark + sz - 1 \in Seqs
        /\ highTxMark + sz - 1 \in highTxMark .. highTxMark + sz - 1
    BY <1>2 DEF Seqs
  <2>2. sends'[highTxMark + sz - 1] = 1
    BY <1>6, <2>1
  <2> QED  BY <1>2, <1>4, <2>2
<1>10. \A i \in 1 .. n : sends'[End(history[i]) - 1] = sends[End(history[i]) - 1]
  <2> SUFFICES ASSUME NEW i \in 1 .. n
               PROVE  sends'[End(history[i]) - 1] = sends[End(history[i]) - 1]
    OBVIOUS
  <2>a. /\ history[i].seq \in Nat /\ history[i].count \in Nat /\ history[i].count >= 1
        /\ End(history[i]) = history[i].seq + history[i].count
        /\ End(history[i]) <= highTxMark
    BY <1>1, <1>5
  <2>1. End(history[i]) \in Nat /\ End(history[i]) >= 1 /\ End(history[i]) <= highTxMark
    BY <2>a
  <2>2. End(history[i]) - 1 \in Seqs /\ End(history[i]) - 1 < highTxMark
    BY <1>2, <2>1 DEF Seqs
  <2> QED  BY <1>6, <2>2
<1>11. Logged'
  <2> SUFFICES ASSUME NEW i \in DOMAIN history'
               PROVE  /\ history'[i].seq >= 1 /\ history'[i].count >= 1
                      /\ history'[i].seq >= recover
                      /\ End(history'[i]) <= highTxMark'
    BY DEF Logged
  <2>1. CASE i = n + 1
    BY <1>2, <1>3, <1>4, <2>1
  <2>2. CASE i \in 1 .. n
    BY <1>1, <1>2, <1>3, <1>5, <2>2
  <2> QED  BY <1>1, <1>3, <2>1, <2>2
<1>12. Ordered'
  <2> SUFFICES ASSUME NEW i \in DOMAIN history', NEW k \in DOMAIN history', i < k
               PROVE  /\ history'[i].seq < history'[k].seq
                      /\ ~history'[i].retx => End(history'[i]) <= history'[k].seq
    BY DEF Ordered
  <2>1. i \in 1 .. n /\ history'[i] = history[i]
    BY <1>1, <1>3
  <2>2. CASE k = n + 1
    BY <1>3, <1>5, <2>1, <2>2
  <2>3. CASE k \in 1 .. n
    BY <1>1, <1>3, <2>1, <2>3 DEF Transfer, Ordered
  <2> QED  BY <1>1, <1>3, <2>2, <2>3
<1>13. Late'
  BY <1>2 DEF Late
<1>14. Matched'
  <2> SUFFICES ASSUME NEW x \in head .. highTxMark' - 1, x >= recover
               PROVE  \E i \in 1 .. n + 1 :
                         /\ history'[i].seq <= x /\ x < End(history'[i])
                         /\ \A j \in 1 .. i - 1 : End(history'[j]) <= x
                         /\ \A c \in cuts' : c > x => c >= End(history'[i])
    BY <1>3 DEF Matched
  <2>1. CASE x < highTxMark
    <3>1. x \in head .. highTxMark - 1
      BY <1>2, <2>1
    <3>2. PICK i \in 1 .. n :
             /\ history[i].seq <= x /\ x < End(history[i])
             /\ \A j \in 1 .. i - 1 : End(history[j]) <= x
             /\ \A c \in cuts : c > x => c >= End(history[i])
      BY <1>1, <3>1 DEF Transfer, Matched
    <3>3. \A j \in 1 .. i : j \in 1 .. n /\ history'[j] = history[j]
      BY <1>1, <1>3
    <3>4. \A c \in cuts' : c > x => c >= End(history[i])
      <4> SUFFICES ASSUME NEW c \in cuts', c > x PROVE c >= End(history[i])
        OBVIOUS
      <4>1. CASE c = highTxMark + sz
        BY <1>1, <1>2, <1>5, <4>1
      <4>2. CASE c \in cuts
        BY <3>2, <4>2
      <4> QED  BY <1>7, <4>1, <4>2
    <3>5. i \in 1 .. n + 1 /\ i \in 1 .. i
      BY <1>1
    <3>6. \A j \in 1 .. i - 1 : j \in 1 .. i
      BY <1>1
    <3> QED  BY <3>2, <3>3, <3>4, <3>5, <3>6
  <2>2. CASE x >= highTxMark
    <3>1. history'[n + 1].seq <= x /\ x < End(history'[n + 1])
      BY <1>2, <1>3, <1>4, <2>2
    <3>2. \A j \in 1 .. (n + 1) - 1 : End(history'[j]) <= x
      <4> SUFFICES ASSUME NEW j \in 1 .. n PROVE End(history'[j]) <= x
        BY <1>1
      <4> QED  BY <1>1, <1>2, <1>3, <1>5, <2>2
    <3>3. \A c \in cuts' : c > x => c >= End(history'[n + 1])
      BY <1>2, <1>4, <1>7, <1>8, <2>2
    <3>4. n + 1 \in 1 .. n + 1
      BY <1>1
    <3> QED  BY <3>1, <3>2, <3>3, <3>4
  <2> QED  BY <1>2, <2>1, <2>2
<1>15. Guarded'
  <2> SUFFICES ASSUME NEW i \in DOMAIN history', ~history'[i].retx,
                      sends'[End(history'[i]) - 1] # 1
               PROVE  \E j \in DOMAIN history' :
                         /\ j < i /\ history'[j].retx
                         /\ End(history'[i]) <= End(history'[j])
    BY DEF Guarded
  <2>1. i # n + 1
    BY <1>9
  <2>2. i \in 1 .. n /\ history'[i] = history[i]
    BY <1>1, <1>3, <2>1
  <2>3. sends[End(history[i]) - 1] # 1
    BY <1>10, <2>2
  <2>4. PICK j \in 1 .. n :
           j < i /\ history[j].retx /\ End(history[i]) <= End(history[j])
    BY <1>1, <2>2, <2>3 DEF Transfer, Guarded
  <2>5. j \in DOMAIN history' /\ history'[j] = history[j]
    BY <1>1, <1>3
  <2> QED  BY <2>2, <2>4, <2>5
<1>16. Unsent'
  <2> SUFFICES ASSUME NEW x \in Seqs, x >= highTxMark' PROVE sends'[x] = 0
    BY DEF Unsent, Seqs
  <2> QED  BY <1>6
<1> QED  BY <1>2, <1>11, <1>12, <1>13, <1>14, <1>15, <1>16 DEF Transfer

\* A retransmission marks the first entry that has its first byte, if there is one, and
\* that entry then ends where the retransmission ends.
LEMMA UpdateMarks ==
  ASSUME TypeOK, NEW seq \in Nat, NEW sz \in Nat, Marks(seq, sz)
  PROVE  \/ Matching(history, seq) = {} /\ history' = history
         \/ \E j \in Matching(history, seq) :
               /\ \A k \in Matching(history, seq) : j <= k
               /\ history' \in Seq(Entry) /\ Len(history') = Len(history)
               /\ history'[j].seq = history[j].seq
               /\ history'[j].count = seq + sz - history[j].seq
               /\ history'[j].retx
               /\ End(history'[j]) = seq + sz
               /\ \A i \in DOMAIN history : i # j => history'[i] = history[i]
<1>1. CASE Matching(history, seq) = {}
  BY <1>1 DEF Marks, UpdateRttHistory
<1>2. CASE Matching(history, seq) # {}
  <2> DEFINE first == FirstOf(Matching(history, seq))
  <2>1. \E i \in Matching(history, seq) : \A j \in Matching(history, seq) : i <= j
    <3>1. Matching(history, seq) \subseteq Nat
      BY EntryTypes DEF Matching
    <3> QED  BY <1>2, <3>1, Least
  <2>2. first \in Matching(history, seq) /\ \A k \in Matching(history, seq) : first <= k
    BY <2>1 DEF FirstOf
  <2>3. history' = [history EXCEPT ![first] =
                      [seq |-> history[first].seq, retx |-> TRUE,
                       count |-> seq + sz - history[first].seq]]
    BY <1>2 DEF Marks, UpdateRttHistory
  <2> HIDE DEF first
  <2>4. /\ first \in 1 .. Len(history) /\ DOMAIN history = 1 .. Len(history)
        /\ history[first].seq \in Nat /\ history[first].seq <= seq
        /\ history \in Seq(Entry)
    BY <2>2, EntryTypes DEF Matching, TypeOK
  <2>5. [seq |-> history[first].seq, retx |-> TRUE,
         count |-> seq + sz - history[first].seq] \in Entry
    BY <2>4 DEF Entry
  <2>6. history' \in Seq(Entry) /\ Len(history') = Len(history)
    BY <2>3, <2>4, <2>5, ExceptSeq
  <2>7. /\ history'[first].seq = history[first].seq
        /\ history'[first].count = seq + sz - history[first].seq
        /\ history'[first].retx
        /\ \A i \in DOMAIN history : i # first => history'[i] = history[i]
    BY <2>3, <2>4
  <2>8. End(history'[first]) = seq + sz
    BY <2>4, <2>7 DEF End
  <2> QED  BY <2>2, <2>6, <2>7, <2>8
<1> QED  BY <1>1, <1>2

\* What a timeout marked is sent again before anything is logged: there is no entry.
LEMMA BelowRecover ==
  ASSUME TypeOK, Transfer, highRxt < recover
  PROVE  DOMAIN history = {} /\ highTxMark = recover
<1>1. highTxMark = recover
  BY DEF Transfer, Late
<1> SUFFICES ASSUME NEW i \in DOMAIN history PROVE FALSE
  BY <1>1
<1>2. /\ i \in 1 .. Len(history)
      /\ history[i].seq >= recover /\ history[i].count >= 1
      /\ End(history[i]) <= highTxMark
  BY EntryTypes DEF Transfer, Logged
<1> QED  BY <1>1, <1>2, EntryTypes DEF TypeOK

\* Of an item that was first sent since the last timeout, the first entry that has its
\* first byte ends within what is sent again: it grows, and so hides all that is sent
\* twice behind it.
LEMMA MarkedGrows ==
  ASSUME TypeOK, Transfer, NEW seq \in Items, seq >= recover, NEW sz \in AgainSizes(seq),
         Marks(seq, sz)
  PROVE  \E i \in 1 .. Len(history) :
            /\ history[i].seq <= seq /\ seq < End(history[i])
            /\ End(history[i]) <= seq + sz
            /\ \A j \in 1 .. i - 1 : End(history[j]) <= seq
            /\ DOMAIN history' = 1 .. Len(history)
            /\ history'[i].seq = history[i].seq /\ history'[i].retx
            /\ history'[i].count = seq + sz - history[i].seq
            /\ End(history'[i]) = seq + sz
            /\ \A k \in 1 .. Len(history) : k # i => history'[k] = history[k]
<1> DEFINE n == Len(history)
<1>1. /\ DOMAIN history = 1 .. n /\ n \in Nat
      /\ \A i \in 1 .. n : history[i].seq \in Nat /\ End(history[i]) \in Nat
  BY EntryTypes
<1>2. /\ seq \in Nat /\ sz \in Nat /\ seq \in head .. highTxMark - 1
      /\ \E c \in cuts : c \in Nat /\ seq < c /\ c <= seq + sz
  BY DataAssumption DEF TypeOK, Items, AgainSizes
<1>3. PICK i \in 1 .. n :
        /\ history[i].seq <= seq /\ seq < End(history[i])
        /\ \A j \in 1 .. i - 1 : End(history[j]) <= seq
        /\ \A c \in cuts : c > seq => c >= End(history[i])
  BY <1>1, <1>2 DEF Transfer, Matched
<1>4. End(history[i]) <= seq + sz
  BY <1>1, <1>2, <1>3
<1>5. i \in Matching(history, seq)
  BY <1>1, <1>2, <1>3 DEF Matching
<1>6. PICK j \in Matching(history, seq) :
        /\ \A k \in Matching(history, seq) : j <= k
        /\ history' \in Seq(Entry) /\ Len(history') = Len(history)
        /\ history'[j].seq = history[j].seq
        /\ history'[j].count = seq + sz - history[j].seq
        /\ history'[j].retx
        /\ End(history'[j]) = seq + sz
        /\ \A k \in DOMAIN history : k # j => history'[k] = history[k]
  BY <1>2, <1>5, UpdateMarks
<1>7. j = i
  <2>1. j \in 1 .. n /\ j <= i /\ seq < End(history[j])
    BY <1>1, <1>5, <1>6 DEF Matching
  <2>2. ~(End(history[j]) <= seq)
    BY <1>1, <1>2, <2>1
  <2>3. j \notin 1 .. i - 1
    BY <1>3, <2>2
  <2> QED  BY <1>1, <2>1, <2>3
<1>8. DOMAIN history' = 1 .. n
  BY <1>6
<1>9. \A k \in 1 .. n : k # i => history'[k] = history[k]
  BY <1>1, <1>6, <1>7
<1> QED  BY <1>3, <1>4, <1>6, <1>7, <1>8, <1>9

\* What is sent again below the last recovery point meets an empty history.
LEMMA AgainBelow ==
  ASSUME TypeOK, Transfer, NEW seq \in Items, seq < recover, seq >= highRxt,
         NEW sz \in AgainSizes(seq),
         Marks(seq, sz), Sent(seq, sz),
         UNCHANGED <<synCount, head, highTxMark, recover>>
  PROVE  Transfer'
<1>1. /\ seq \in Nat /\ sz \in Nat /\ head \in Nat /\ highTxMark \in Nat
      /\ recover \in Nat /\ highRxt \in Nat /\ seq + sz <= highTxMark
  BY DataAssumption DEF TypeOK, Items, AgainSizes
<1>2. DOMAIN history = {} /\ highTxMark = recover
  BY <1>1, BelowRecover
<1>3. history' = history
  BY <1>2 DEF Marks, UpdateRttHistory, Matching
<1>4. DOMAIN history' = {}
  BY <1>2, <1>3
<1>5. Logged' /\ Ordered' /\ Guarded'
  BY <1>4 DEF Logged, Ordered, Guarded
<1>6. Late'
  BY <1>2 DEF Late
<1>7. Matched'
  <2>1. \A x \in head' .. highTxMark' - 1 : ~(x >= recover')
    BY <1>1, <1>2
  <2> QED  BY <2>1 DEF Matched
<1>8. Unsent'
  <2> SUFFICES ASSUME NEW x \in Seqs, x >= highTxMark PROVE sends'[x] = 0
    BY DEF Unsent, Seqs
  <2>1. x \notin seq .. seq + sz - 1
    BY <1>1 DEF Seqs
  <2> QED  BY <2>1 DEF Sent, Count, Transfer, Unsent
<1> QED  BY <1>5, <1>6, <1>7, <1>8 DEF Transfer

\* A segment that is sent again, in whatever order: what it covers is marked, or hides
\* behind the entry that is.
LEMMA AgainKeeps ==
  ASSUME TypeOK, Transfer, TypeOK', NEW seq \in Items, seq >= recover,
         NEW sz \in AgainSizes(seq),
         Marks(seq, sz), Sent(seq, sz),
         UNCHANGED <<synCount, head, highTxMark, highRxt, recover>>
  PROVE  Transfer'
<1> DEFINE n == Len(history)
<1>1. /\ DOMAIN history = 1 .. n /\ n \in Nat
      /\ \A i \in 1 .. n :
            /\ history[i].seq \in Nat /\ history[i].count \in Nat
            /\ history[i].retx \in BOOLEAN
            /\ End(history[i]) = history[i].seq + history[i].count
            /\ End(history[i]) \in Nat
  BY EntryTypes
<1>2. /\ seq \in Nat /\ sz \in Nat /\ sz >= 1 /\ recover \in Nat
      /\ head \in Nat /\ highTxMark \in Nat
      /\ seq + sz <= highTxMark /\ head <= seq
      /\ seq = head \/ seq \in cuts
  BY DataAssumption DEF TypeOK, AgainSizes, Items
<1>3. \A i \in 1 .. n : /\ history[i].seq >= 1 /\ history[i].count >= 1
                        /\ history[i].seq >= recover
                        /\ End(history[i]) <= highTxMark
  BY <1>1 DEF Transfer, Logged
<1>4. PICK m \in 1 .. n :
         /\ history[m].seq <= seq /\ seq < End(history[m])
         /\ End(history[m]) <= seq + sz
         /\ \A j \in 1 .. m - 1 : End(history[j]) <= seq
         /\ DOMAIN history' = 1 .. n
         /\ history'[m].seq = history[m].seq /\ history'[m].retx
         /\ history'[m].count = seq + sz - history[m].seq
         /\ End(history'[m]) = seq + sz
         /\ \A k \in 1 .. n : k # m => history'[k] = history[k]
  BY MarkedGrows
<1>5. \A c \in cuts' : \/ c = seq + sz
                       \/ c \in cuts /\ (c <= seq \/ c >= seq + sz)
  BY DEF Sent
<1>6. \A c \in cuts' : c \in Nat
  BY DEF TypeOK
<1> HIDE DEF n
<1>7. Logged'
  <2> SUFFICES ASSUME NEW i \in 1 .. n
               PROVE  /\ history'[i].seq >= 1 /\ history'[i].count >= 1
                      /\ history'[i].seq >= recover
                      /\ End(history'[i]) <= highTxMark
    BY <1>4 DEF Logged
  <2>1. CASE i # m
    BY <1>3, <1>4, <2>1
  <2>2. CASE i = m
    BY <1>1, <1>2, <1>3, <1>4, <2>2
  <2> QED  BY <2>1, <2>2
<1>8. Ordered'
  <2> SUFFICES ASSUME NEW i \in 1 .. n, NEW k \in 1 .. n, i < k
               PROVE  /\ history'[i].seq < history'[k].seq
                      /\ ~history'[i].retx => End(history'[i]) <= history'[k].seq
    BY <1>4 DEF Ordered
  <2>1. /\ history[i].seq < history[k].seq
        /\ ~history[i].retx => End(history[i]) <= history[k].seq
    BY <1>1 DEF Transfer, Ordered
  <2>2. history'[k].seq = history[k].seq /\ history'[i].seq = history[i].seq
    BY <1>4
  <2>3. CASE i = m
    BY <1>4, <2>1, <2>2, <2>3
  <2>4. CASE i # m
    BY <1>4, <2>1, <2>2, <2>4
  <2> QED  BY <2>3, <2>4
<1>9. Late'
  BY DEF Transfer, Late
<1>10. Matched'
  <2> SUFFICES ASSUME NEW x \in head .. highTxMark - 1, x >= recover
               PROVE  \E i \in 1 .. n :
                         /\ history'[i].seq <= x /\ x < End(history'[i])
                         /\ \A j \in 1 .. i - 1 : End(history'[j]) <= x
                         /\ \A c \in cuts' : c > x => c >= End(history'[i])
    BY <1>4 DEF Matched
  <2>1. x \in Nat /\ x >= head
    BY <1>2
  <2>2. CASE x \in seq .. seq + sz - 1
    <3>1. history'[m].seq <= x /\ x < End(history'[m])
      BY <1>1, <1>2, <1>4, <2>1, <2>2
    <3>2. \A j \in 1 .. m - 1 : End(history'[j]) <= x
      <4> SUFFICES ASSUME NEW j \in 1 .. m - 1 PROVE End(history'[j]) <= x
        OBVIOUS
      <4>1. j \in 1 .. n /\ j # m
        BY <1>1
      <4>2. history'[j] = history[j]
        BY <1>4, <4>1
      <4> QED  BY <1>1, <1>2, <1>4, <2>1, <2>2, <4>1, <4>2
    <3>3. \A c \in cuts' : c > x => c >= End(history'[m])
      BY <1>2, <1>4, <1>5, <1>6, <2>1, <2>2
    <3> QED  BY <3>1, <3>2, <3>3
  <2>3. CASE x \notin seq .. seq + sz - 1
    <3>1. PICK i \in 1 .. n :
             /\ history[i].seq <= x /\ x < End(history[i])
             /\ \A j \in 1 .. i - 1 : End(history[j]) <= x
             /\ \A c \in cuts : c > x => c >= End(history[i])
      BY <1>1 DEF Transfer, Matched
    <3>2. CASE x < seq
      <4>1. seq \in cuts /\ seq > x
        BY <1>2, <2>1, <3>2
      <4>2. End(history[i]) <= seq
        BY <1>1, <1>2, <3>1, <4>1
      <4>3. i # m /\ ~(m < i)
        <5>1. ~(End(history[m]) <= x) /\ ~(End(history[m]) <= seq)
          BY <1>1, <1>2, <1>4, <2>1, <3>2
        <5>2. m \notin 1 .. i - 1
          BY <3>1, <5>1
        <5> QED  BY <1>1, <4>2, <5>1, <5>2
      <4>4. history'[i] = history[i]
        BY <1>4, <4>3
      <4>5. \A j \in 1 .. i - 1 : End(history'[j]) <= x
        <5> SUFFICES ASSUME NEW j \in 1 .. i - 1 PROVE End(history'[j]) <= x
          OBVIOUS
        <5>1. j \in 1 .. n /\ j # m
          BY <1>1, <4>3
        <5> QED  BY <1>4, <3>1, <5>1
      <4>6. \A c \in cuts' : c > x => c >= End(history[i])
        <5> SUFFICES ASSUME NEW c \in cuts', c > x PROVE c >= End(history[i])
          OBVIOUS
        <5>1. CASE c = seq + sz
          BY <1>1, <1>2, <4>2, <5>1
        <5>2. CASE c \in cuts
          BY <3>1, <5>2
        <5> QED  BY <1>5, <5>1, <5>2
      <4> QED  BY <3>1, <4>4, <4>5, <4>6
    <3>3. CASE x >= seq + sz
      <4>1. i # m
        BY <1>1, <1>2, <1>4, <2>1, <3>1, <3>3
      <4>2. history'[i] = history[i]
        BY <1>4, <4>1
      <4>3. \A j \in 1 .. i - 1 : End(history'[j]) <= x
        <5> SUFFICES ASSUME NEW j \in 1 .. i - 1 PROVE End(history'[j]) <= x
          OBVIOUS
        <5>1. j \in 1 .. n
          BY <1>1
        <5>2. CASE j = m
          BY <1>2, <1>4, <3>3, <5>2
        <5>3. CASE j # m
          BY <1>4, <3>1, <5>1, <5>3
        <5> QED  BY <5>2, <5>3
      <4>4. \A c \in cuts' : c > x => c >= End(history[i])
        <5> SUFFICES ASSUME NEW c \in cuts', c > x PROVE c >= End(history[i])
          OBVIOUS
        <5>1. c \in cuts
          BY <1>2, <1>5, <1>6, <2>1, <3>3
        <5> QED  BY <3>1, <5>1
      <4> QED  BY <3>1, <4>2, <4>3, <4>4
    <3> QED  BY <1>2, <2>1, <2>3, <3>2, <3>3
  <2> QED  BY <2>2, <2>3
<1>11. Guarded'
  <2> SUFFICES ASSUME NEW i \in 1 .. n, ~history'[i].retx
               PROVE  \/ sends'[End(history'[i]) - 1] = 1
                      \/ \E j \in 1 .. n : /\ j < i /\ history'[j].retx
                                           /\ End(history'[i]) <= End(history'[j])
    BY <1>4 DEF Guarded
  <2>1. history'[i] = history[i] /\ ~history[i].retx /\ i # m
    BY <1>4
  <2>2. CASE \E j \in 1 .. n : j < i /\ history[j].retx /\ End(history[i]) <= End(history[j])
    <3>1. PICK j \in 1 .. n : j < i /\ history[j].retx /\ End(history[i]) <= End(history[j])
      BY <2>2
    <3>2. CASE j = m
      <4>1. End(history[i]) <= seq + sz
        BY <1>1, <1>2, <1>4, <3>1, <3>2
      <4> QED  BY <1>4, <2>1, <3>1, <3>2, <4>1
    <3>3. CASE j # m
      BY <1>4, <2>1, <3>1, <3>3
    <3> QED  BY <3>2, <3>3
  <2>3. CASE sends[End(history[i]) - 1] = 1
    <3> DEFINE last == End(history[i]) - 1
    <3>a. /\ history[i].seq \in Nat /\ history[i].count \in Nat /\ history[i].count >= 1
          /\ End(history[i]) = history[i].seq + history[i].count
          /\ End(history[i]) <= highTxMark
      BY <1>1, <1>3
    <3>1. End(history[i]) \in Nat /\ End(history[i]) >= 1 /\ End(history[i]) <= highTxMark
      BY <3>a
    <3>2. last \in Seqs /\ last \in Nat
      BY <1>2, <3>1, DataAssumption DEF Seqs, TypeOK
    <3>3. CASE last \notin seq .. seq + sz - 1
      <4>1. sends'[last] = sends[last]
        BY <3>2, <3>3 DEF Sent, Count
      <4> QED  BY <2>1, <2>3, <4>1
    <3>4. CASE last \in seq .. seq + sz - 1
      <4>1. seq < End(history[i]) /\ End(history[i]) <= seq + sz
        BY <1>1, <1>2, <3>2, <3>4
      <4>2. i \notin 1 .. m - 1
        BY <1>2, <1>4, <3>1, <4>1
      <4>3. m < i
        BY <1>1, <2>1, <4>2
      <4> QED  BY <1>4, <2>1, <4>1, <4>3
    <3> QED  BY <3>3, <3>4
  <2> QED  BY <1>1, <2>1, <2>2, <2>3 DEF Transfer, Guarded
<1>12. Unsent'
  <2> SUFFICES ASSUME NEW x \in Seqs, x >= highTxMark PROVE sends'[x] = 0
    BY DEF Unsent, Seqs
  <2>1. x \notin seq .. seq + sz - 1
    BY <1>2 DEF Seqs
  <2> QED  BY <2>1 DEF Sent, Count, Transfer, Unsent
<1> QED  BY <1>7, <1>8, <1>9, <1>10, <1>11, <1>12 DEF Transfer

\* What is put on the wire ends an item, and counts up to two.
LEMMA CountTypes ==
  ASSUME TypeOK, NEW seq \in Nat, NEW sz \in Nat, Count(seq, sz)
  PROVE  sends' \in [Seqs -> 0 .. 2]
<1>1. \A x \in Seqs : Smaller(sends[x] + 1, 2) \in 0 .. 2 /\ sends[x] \in 0 .. 2
  BY DEF Smaller, TypeOK
<1> QED  BY <1>1 DEF Count

LEMMA SentTypes ==
  ASSUME TypeOK, NEW seq \in Nat, NEW sz \in Nat, Sent(seq, sz)
  PROVE  cuts' \subseteq Nat /\ sends' \in [Seqs -> 0 .. 2]
<1>1. cuts' \subseteq Nat
  <2>1. cuts' \subseteq cuts \cup {seq + sz}
    BY DEF Sent
  <2>2. cuts \subseteq Nat /\ seq + sz \in Nat
    BY DEF TypeOK
  <2> QED  BY <2>1, <2>2
<1> QED  BY <1>1, CountTypes DEF Sent
-----------------------------------------------------------------------------
(***************************************************************************)
(* The invariant                                                           *)
(***************************************************************************)
\* A step that measures nothing measures nothing wrong.
LEMMA NothingMeasured ==
  ASSUME sample' \notin 1 .. NumBytes
  PROVE  SamplesUnambiguous' /\ SamplesFresh'
BY DEF SamplesUnambiguous, SamplesFresh

\* The value of sample in a step that measures nothing is no sequence number of data.
LEMMA NoSampleIsNone == NoSample \notin 1 .. NumBytes
BY DataAssumption DEF NoSample

\* A socket that was just created satisfies the invariant.
LEMMA InitIInv == Init => IInv
<1> SUFFICES ASSUME Init PROVE IInv
  OBVIOUS
<1>1. TypeOK
  <2>1. << >> \in Seq(Entry)
    OBVIOUS
  <2> QED  BY <2>1, DataAssumption, RetryAssumption DEF Init, TypeOK
<1>2. history = << >> /\ Opening
  BY DEF Init, Opening
<1>3. SamplesUnambiguous /\ SamplesFresh
  BY NoSampleIsNone DEF Init, SamplesUnambiguous, SamplesFresh
<1> QED  BY <1>1, <1>2, <1>3 DEF Init, IInv

\* The first SYN and its repetitions log one entry that measures nothing.
LEMMA SynKeeps ==
  ASSUME IInv, Connect \/ SynTimeout
  PROVE  IInv'
<1>1. TypeOK /\ Opening /\ SendSyn /\ synCount \in 0 .. SynRetries
  BY DEF IInv, Connect, SynTimeout, TypeOK
<1>2. SamplesUnambiguous' /\ SamplesFresh'
  BY NoSampleIsNone, NothingMeasured DEF Connect, SynTimeout
<1>3. UNCHANGED <<head, highTxMark, highRxt, recover>>
  BY DEF Connect, SynTimeout
<1>4. CASE synCount = 0
  <2>1. state' = "CLOSED" /\ synCount' # SynRetries
        /\ UNCHANGED <<history, cuts, sends, synCount>>
    BY <1>1, <1>4, RetryAssumption DEF SendSyn
  <2>2. TypeOK'
    BY <1>1, <1>3, <2>1 DEF TypeOK
  <2> QED  BY <1>2, <2>1, <2>2 DEF IInv
<1>5. CASE synCount # 0
  <2>1. /\ state' = "SYN_SENT" /\ synCount' \in 0 .. SynRetries /\ synCount' < SynRetries
        /\ history' = UpdateRttHistory(history, 0, 0, synCount # SynRetries)
        /\ Count(0, 1) /\ cuts' = cuts
    BY <1>1, <1>5, RetryAssumption DEF SendSyn
  <2>2. history' \in Seq(Entry)
        /\ \A i \in DOMAIN history' : history'[i].seq = 0 /\ history'[i].count = 0
    <3>1. CASE state = "CLOSED"
      <4>1. history = << >> /\ synCount = SynRetries
        BY <3>1 DEF IInv, Connect, SynTimeout
      <4>2. history' = << [seq |-> 0, count |-> 0, retx |-> FALSE] >>
        BY <2>1, <4>1 DEF UpdateRttHistory
      <4> QED  BY <4>2 DEF Entry
    <3>2. CASE state = "SYN_SENT"
      <4>1. synCount # SynRetries
        BY <1>1, <3>2 DEF IInv
      <4>2. Matching(history, 0) = {}
        BY <1>1 DEF Matching, Opening, End
      <4>3. history' = history
        BY <2>1, <4>1, <4>2 DEF UpdateRttHistory
      <4> QED  BY <1>1, <4>3 DEF TypeOK, Opening
    <3> QED  BY <3>1, <3>2 DEF Connect, SynTimeout
  <2>3. cuts' = {} /\ \A x \in Seqs : x > 0 => sends'[x] = 0
    BY <1>1, <2>1, DataAssumption DEF Count, Opening, Seqs
  <2>4. Opening'
    BY <1>1, <1>3, <2>2, <2>3 DEF Opening, Seqs
  <2>5. TypeOK'
    <3>1. sends' \in [Seqs -> 0 .. 2]
      BY <1>1, <2>1, CountTypes
    <3> QED  BY <1>1, <1>3, <2>1, <2>2, <3>1 DEF TypeOK, Seqs
  <2> QED  BY <1>2, <2>1, <2>4, <2>5 DEF IInv
<1> QED  BY <1>4, <1>5

\* The SYN+ACK empties the history: data starts from nothing.
LEMMA SynAckKeeps ==
  ASSUME IInv, ReceiveSynAck
  PROVE  IInv'
<1>1. TypeOK /\ Opening /\ synCount < SynRetries
  BY DEF IInv, ReceiveSynAck
<1>2. /\ EstimateRtt(1) /\ state' = "ESTABLISHED"
      /\ head' = 1 /\ highTxMark' = 1 /\ highRxt' = 1
      /\ UNCHANGED <<synCount, recover, cuts, sends>>
  BY DEF ReceiveSynAck
<1>3. \A i \in 1 .. Len(history) : End(history[i]) = 0
  BY <1>1, EntryTypes DEF Opening, End
<1>4. history' = << >> /\ history' \in Seq(Entry)
  <2>1. PICK from \in 1 .. Len(history) + 1 :
           /\ Len(history') = Len(history) + 1 - from
           /\ from <= Len(history) => End(history[from]) > 1
    BY <1>1, <1>2, EstimatePops
  <2>2. Len(history') = 0 /\ history' \in Seq(Entry)
    BY <1>1, <1>2, <1>3, <2>1, EntryTypes, EstimatePops
  <2> QED  BY <2>2
<1>5. SamplesUnambiguous' /\ SamplesFresh'
  <2>1. sample' = 0 \/ sample' = NoSample
    <3>1. CASE Measured(1)
      <4>1. 1 \in DOMAIN history /\ Head(history) = history[1]
        BY <1>1, <3>1 DEF TypeOK, Measured
      <4>2. LastOf(Head(history)) = 0
        BY <1>1, <4>1 DEF Opening, LastOf
      <4> QED  BY <1>2, <3>1, <4>2 DEF EstimateRtt
    <3>2. CASE ~Measured(1)
      BY <1>2, <3>2 DEF EstimateRtt
    <3> QED  BY <3>1, <3>2
  <2> QED  BY <2>1, NoSampleIsNone, NothingMeasured
<1>6. TypeOK'
  BY <1>1, <1>2, <1>4, DataAssumption DEF TypeOK, Opening, Seqs
<1>7. Transfer'
  <2>1. DOMAIN history' = {}
    BY <1>4
  <2>2. Logged' /\ Ordered' /\ Guarded'
    BY <2>1 DEF Logged, Ordered, Guarded
  <2>3. Late'
    BY <1>1, <1>2 DEF Late, Opening
  <2>4. Matched'
    BY <1>2 DEF Matched
  <2>5. Unsent'
    BY <1>1, <1>2 DEF Unsent, Opening, Seqs
  <2> QED  BY <1>1, <1>2, <2>2, <2>3, <2>4, <2>5 DEF Transfer
<1> QED  BY <1>2, <1>5, <1>6, <1>7 DEF IInv

\* New data is sent.
LEMMA SendNewKeeps ==
  ASSUME IInv, SendNew
  PROVE  IInv'
<1>1. TypeOK /\ Transfer /\ state' = "ESTABLISHED" /\ UNCHANGED <<synCount, head, recover>>
  BY DEF IInv, SendNew
<1>2. PICK sz \in 1 .. SegSize :
        /\ highTxMark + sz <= NumBytes + 1
        /\ Logs(highTxMark, sz)
        /\ Sent(highTxMark, sz)
        /\ highTxMark' = highTxMark + sz /\ highRxt' = Larger(highRxt, recover)
  BY DEF SendNew, Logs
<1>3. sz \in Nat /\ sz >= 1 /\ highTxMark \in Nat
  BY <1>1, DataAssumption DEF TypeOK
<1>4. TypeOK'
  <2>1. cuts' \subseteq Nat /\ sends' \in [Seqs -> 0 .. 2]
    BY <1>1, <1>2, <1>3, SentTypes
  <2>2. [seq |-> highTxMark, count |-> sz, retx |-> FALSE] \in Entry
    BY <1>3 DEF Entry
  <2>3. history' \in Seq(Entry)
    BY <1>1, <1>2, <2>2 DEF Logs, UpdateRttHistory, TypeOK
  <2>4. highTxMark' \in 0 .. NumBytes + 1 /\ highRxt' \in 0 .. highTxMark'
        /\ recover' \in 0 .. highTxMark' /\ head' \in 0 .. highTxMark'
    <3>1. highRxt \in 0 .. highTxMark /\ recover \in 0 .. highTxMark
          /\ head \in 0 .. highTxMark /\ NumBytes \in Nat
      BY <1>1, DataAssumption DEF TypeOK
    <3>2. Larger(highRxt, recover) \in 0 .. highTxMark
      BY <1>3, <3>1 DEF Larger
    <3> QED  BY <1>1, <1>2, <1>3, <3>1, <3>2
  <2> QED  BY <1>1, <2>1, <2>3, <2>4 DEF TypeOK, Seqs
<1>5. Transfer'
  BY <1>1, <1>2, <1>4, NewKeeps
<1>6. SamplesUnambiguous' /\ SamplesFresh'
  BY NoSampleIsNone, NothingMeasured DEF SendNew
<1> QED  BY <1>1, <1>4, <1>5, <1>6 DEF IInv

\* An item is sent again.
LEMMA SendAgainKeeps ==
  ASSUME IInv, SendAgain
  PROVE  IInv'
<1>1. TypeOK /\ Transfer /\ state' = "ESTABLISHED"
      /\ UNCHANGED <<synCount, head, highTxMark, recover>>
  BY DEF IInv, SendAgain
<1> DEFINE Again(seq, sz) ==
             /\ seq >= recover \/ seq >= highRxt
             /\ Marks(seq, sz)
             /\ Sent(seq, sz)
             /\ highRxt' = IF seq < recover THEN seq + sz ELSE highRxt
<1>0. PICK seq \in Items : \E sz \in AgainSizes(seq) : Again(seq, sz)
  BY DEF SendAgain, Marks
<1>2. PICK sz \in AgainSizes(seq) : Again(seq, sz)
  BY <1>0
<1>3. seq \in Nat /\ sz \in Nat /\ seq + sz <= highTxMark /\ recover \in Nat
  BY <1>1, DataAssumption DEF TypeOK, Items, AgainSizes
<1>4. TypeOK'
  <2>1. cuts' \subseteq Nat /\ sends' \in [Seqs -> 0 .. 2]
    BY <1>1, <1>2, <1>3, SentTypes
  <2>2. history' \in Seq(Entry)
    BY <1>1, <1>2, <1>3, UpdateMarks DEF TypeOK
  <2>3. highRxt' \in 0 .. highTxMark'
    BY <1>1, <1>2, <1>3 DEF TypeOK
  <2> QED  BY <1>1, <2>1, <2>2, <2>3 DEF TypeOK, Seqs
<1>5. Transfer'
  <2>1. CASE seq >= recover
    <3>1. highRxt' = highRxt
      BY <1>2, <1>3, <2>1
    <3> QED  BY <1>1, <1>2, <1>4, <2>1, <3>1, AgainKeeps
  <2>2. CASE seq < recover
    <3>1. seq >= highRxt
      BY <1>2, <1>3, <2>2
    <3> QED  BY <1>1, <1>2, <2>2, <3>1, AgainBelow
  <2> QED  BY <1>3, <2>1, <2>2
<1>6. SamplesUnambiguous' /\ SamplesFresh'
  BY NoSampleIsNone, NothingMeasured DEF SendAgain
<1> QED  BY <1>1, <1>4, <1>5, <1>6 DEF IInv

\* The one step that measures.
LEMMA ReceiveAckKeeps ==
  ASSUME IInv, ReceiveAck
  PROVE  IInv'
<1>1. TypeOK /\ Transfer /\ state' = "ESTABLISHED"
      /\ UNCHANGED <<synCount, highTxMark, highRxt, recover, sends>>
  BY DEF IInv, ReceiveAck
<1>2. PICK ack \in 1 .. highTxMark :
        /\ EstimateRtt(ack)
        /\ IF ack > head THEN NewAck(ack) ELSE UNCHANGED <<head, cuts>>
  BY DEF ReceiveAck
<1>3. ack \in Nat /\ ack <= highTxMark /\ head \in Nat
  BY <1>1 DEF TypeOK
<1>4. head' = Larger(head, ack) /\ cuts' \subseteq cuts
  BY <1>2, <1>3 DEF NewAck, Larger
<1>5. TypeOK'
  <2>1. history' \in Seq(Entry)
    BY <1>1, <1>2, <1>3, EstimatePops
  <2>2. head' \in 0 .. highTxMark'
    BY <1>1, <1>3, <1>4 DEF TypeOK, Larger
  <2> QED  BY <1>1, <1>4, <2>1, <2>2 DEF TypeOK, Seqs
<1>6. Transfer'
  BY <1>1, <1>2, <1>4, <1>5, EstimateKeeps
<1>7. sample' \in 1 .. NumBytes => sends[sample'] = 1 /\ sample' >= recover
  BY <1>1, <1>2, <1>3, SampleSound
<1>8. SamplesUnambiguous' /\ SamplesFresh'
  BY <1>1, <1>7 DEF SamplesUnambiguous, SamplesFresh
<1> QED  BY <1>1, <1>5, <1>6, <1>8 DEF IInv

\* After a timeout the history is empty, or has what was sent for the first time.
LEMMA HeadKeeps ==
  ASSUME TypeOK, Transfer, NEW sz \in 1 .. SegSize, Sent(head, sz), recover' = highTxMark,
         Restarts(sz),
         IF head < highTxMark
         THEN sz \in AgainSizes(head) /\ highTxMark' = highTxMark /\ highRxt' = head + sz
         ELSE head + sz <= NumBytes + 1 /\ highTxMark' = head + sz /\ highRxt' = head,
         UNCHANGED <<synCount, head>>
  PROVE  history' \in Seq(Entry) /\ highTxMark' \in 0 .. NumBytes + 1
         /\ highRxt' \in 0 .. highTxMark' /\ recover' \in 0 .. highTxMark'
         /\ head' \in 0 .. highTxMark' /\ Transfer'
<1>1. /\ head \in Nat /\ head >= 1 /\ head <= highTxMark /\ highTxMark \in Nat
      /\ sz \in Nat /\ sz >= 1 /\ NumBytes \in Nat /\ highTxMark <= NumBytes + 1
  BY DataAssumption DEF TypeOK, Transfer
<1>2. \A x \in Seqs : /\ x \in Nat
                      /\ x >= highTxMark => sends[x] = 0
                      /\ x \notin head .. head + sz - 1 => sends'[x] = sends[x]
                      /\ x \in head .. head + sz - 1 => sends'[x] = Smaller(sends[x] + 1, 2)
  BY DEF Transfer, Unsent, Seqs, Sent, Count
<1>3. CASE head < highTxMark
  <2>1. /\ highTxMark' = highTxMark /\ highRxt' = head + sz
        /\ head + sz <= highTxMark
    BY <1>3 DEF AgainSizes
  <2>2. history' = << >> /\ DOMAIN history' = {}
    BY <1>3 DEF Restarts, UpdateRttHistory, ClearedHistory, Matching
  <2>3. history' \in Seq(Entry)
    BY <2>2
  <2>4. Logged' /\ Ordered' /\ Guarded'
    BY <2>2 DEF Logged, Ordered, Guarded
  <2>5. Late'
    BY <2>1 DEF Late
  <2>6. Matched'
    <3>1. \A x \in head' .. highTxMark' - 1 : ~(x >= recover')
      BY <1>1, <2>1
    <3> QED  BY <3>1 DEF Matched
  <2>7. Unsent'
    <3> SUFFICES ASSUME NEW x \in Seqs, x >= highTxMark PROVE sends'[x] = 0
      BY <2>1 DEF Unsent, Seqs
    <3>1. x \notin head .. head + sz - 1
      BY <1>1, <1>2, <2>1
    <3> QED  BY <1>2, <3>1
  <2>8. Transfer'
    BY <2>4, <2>5, <2>6, <2>7 DEF Transfer
  <2> QED  BY <1>1, <2>1, <2>3, <2>8
<1>4. CASE head = highTxMark
  <2>1. /\ head + sz <= NumBytes + 1 /\ highTxMark' = head + sz /\ highRxt' = head
        /\ recover' = head
    BY <1>1, <1>4
  <2> DEFINE new == [seq |-> head, count |-> sz, retx |-> FALSE]
  <2>2. history' = << new >>
    <3>1. ~(head < highTxMark)
      BY <1>1, <1>4
    <3>2. history' = Append(<< >>, new)
      BY <3>1 DEF Restarts, UpdateRttHistory, ClearedHistory
    <3> HIDE DEF new
    <3> QED  BY <3>2
  <2>3. new \in Entry
    BY <1>1 DEF Entry
  <2>4. history' \in Seq(Entry) /\ DOMAIN history' = {1} /\ history'[1] = new
    <3> HIDE DEF new
    <3> QED  BY <2>2, <2>3
  <2>5. history'[1].seq = head /\ history'[1].count = sz /\ End(history'[1]) = head + sz
    <3>1. new.seq = head /\ new.count = sz
      OBVIOUS
    <3> HIDE DEF new
    <3> QED  BY <2>4, <3>1 DEF End
  <2> HIDE DEF new
  <2>a. 1 \in DOMAIN history' /\ \A i \in DOMAIN history' : i = 1
    BY <2>4
  <2>6. Logged' /\ Ordered'
    <3>1. Logged'
      <4> SUFFICES ASSUME NEW i \in DOMAIN history'
                   PROVE  /\ history'[i].seq >= 1 /\ history'[i].count >= 1
                          /\ history'[i].seq >= recover'
                          /\ End(history'[i]) <= highTxMark'
        BY DEF Logged
      <4>1. i = 1
        BY <2>a
      <4> QED  BY <1>1, <2>1, <2>5, <4>1
    <3>2. Ordered'
      <4> SUFFICES ASSUME NEW i \in DOMAIN history', NEW k \in DOMAIN history', i < k
                   PROVE  FALSE
        BY DEF Ordered
      <4>1. i = 1 /\ k = 1
        BY <2>a
      <4> QED  BY <4>1
    <3> QED  BY <3>1, <3>2
  <2>7. Late'
    BY <1>1, <2>1 DEF Late
  <2>8. Matched'
    <3> SUFFICES ASSUME NEW x \in head' .. highTxMark' - 1
                 PROVE  \E i \in DOMAIN history' :
                           /\ history'[i].seq <= x /\ x < End(history'[i])
                           /\ \A j \in 1 .. i - 1 : End(history'[j]) <= x
                           /\ \A c \in cuts' : c > x => c >= End(history'[i])
      BY DEF Matched
    <3>1. \A c \in cuts' : c \in Nat /\ (c = head + sz \/ c <= head \/ c >= head + sz)
      <4>1. cuts' \subseteq cuts \cup {head + sz} /\ cuts \subseteq Nat /\ head + sz \in Nat
        BY <1>1 DEF Sent, TypeOK
      <4>2. \A c \in cuts' : c = head + sz \/ c <= head \/ c >= head + sz
        BY DEF Sent
      <4> QED  BY <4>1, <4>2
    <3>2. x \in head .. head + sz - 1
      BY <1>1, <2>1
    <3>3. history'[1].seq <= x /\ x < End(history'[1])
      BY <1>1, <2>5, <3>2
    <3>4. \A j \in 1 .. 1 - 1 : End(history'[j]) <= x
      OBVIOUS
    <3>5. \A c \in cuts' : c > x => c >= End(history'[1])
      BY <1>1, <2>5, <3>1, <3>2
    <3> QED  BY <2>a, <3>3, <3>4, <3>5
  <2>9. Guarded'
    <3>1. head + sz - 1 \in Seqs /\ head + sz - 1 \in head .. head + sz - 1
      BY <1>1, <2>1 DEF Seqs
    <3>2. sends'[head + sz - 1] = 1
      <4>1. head + sz - 1 >= highTxMark
        BY <1>1, <1>4
      <4>2. sends[head + sz - 1] = 0
        BY <1>2, <3>1, <4>1
      <4>3. sends'[head + sz - 1] = Smaller(0 + 1, 2)
        BY <1>2, <3>1, <4>2
      <4> QED  BY <4>3 DEF Smaller
    <3>3. sends'[End(history'[1]) - 1] = 1
      <4>1. End(history'[1]) - 1 = head + sz - 1
        BY <1>1, <2>5
      <4> QED  BY <3>2, <4>1
    <3> SUFFICES ASSUME NEW i \in DOMAIN history' PROVE sends'[End(history'[i]) - 1] = 1
      BY DEF Guarded
    <3>4. i = 1
      BY <2>a
    <3> QED  BY <3>3, <3>4
  <2>10. Unsent'
    <3> SUFFICES ASSUME NEW x \in Seqs, x >= head + sz PROVE sends'[x] = 0
      BY <2>1 DEF Unsent, Seqs
    <3>1. x \notin head .. head + sz - 1 /\ x >= highTxMark
      BY <1>1, <1>2, <1>4
    <3> QED  BY <1>2, <3>1
  <2>11. Transfer'
    BY <2>6, <2>7, <2>8, <2>9, <2>10 DEF Transfer
  <2> QED  BY <1>1, <2>1, <2>4, <2>11
<1> QED  BY <1>1, <1>3, <1>4

\* A timeout starts the history anew, or ends the connection.
LEMMA TimeoutKeeps ==
  ASSUME IInv, ReTxTimeout
  PROVE  IInv'
<1>1. TypeOK /\ Transfer /\ UNCHANGED <<synCount, head>>
  BY DEF IInv, ReTxTimeout
<1>2. SamplesUnambiguous' /\ SamplesFresh'
  BY NoSampleIsNone, NothingMeasured DEF ReTxTimeout
<1>3. CASE dataRetrCount = 0
  <2>1. state' = "CLOSED"
        /\ UNCHANGED <<history, highTxMark, highRxt, recover, cuts, sends>>
    BY <1>3 DEF ReTxTimeout
  <2>2. synCount' # SynRetries
    BY <1>1, RetryAssumption DEF TypeOK, Transfer
  <2>3. TypeOK'
    BY <1>1, <2>1 DEF TypeOK, Seqs
  <2> QED  BY <1>2, <2>1, <2>2, <2>3 DEF IInv
<1>4. CASE dataRetrCount # 0
  <2>1. state' = "ESTABLISHED" /\ recover' = highTxMark /\ SendHead
    BY <1>4 DEF ReTxTimeout, IInv
  <2>2. PICK sz \in 1 .. SegSize :
           /\ IF head < highTxMark
              THEN sz \in AgainSizes(head) /\ highTxMark' = highTxMark /\ highRxt' = head + sz
              ELSE head + sz <= NumBytes + 1 /\ highTxMark' = head + sz /\ highRxt' = head
           /\ Restarts(sz)
           /\ Sent(head, sz)
    BY <2>1 DEF SendHead, Restarts
  <2>3. head \in Nat /\ sz \in Nat
    BY <1>1, DataAssumption DEF TypeOK
  <2>4. cuts' \subseteq Nat /\ sends' \in [Seqs -> 0 .. 2]
    BY <1>1, <2>2, <2>3, SentTypes
  <2>5. history' \in Seq(Entry) /\ highTxMark' \in 0 .. NumBytes + 1
        /\ highRxt' \in 0 .. highTxMark' /\ recover' \in 0 .. highTxMark'
        /\ head' \in 0 .. highTxMark' /\ Transfer'
    BY <1>1, <2>1, <2>2, HeadKeeps
  <2>6. TypeOK'
    BY <1>1, <2>1, <2>4, <2>5 DEF TypeOK, Seqs
  <2> QED  BY <1>2, <2>1, <2>5, <2>6 DEF IInv
<1> QED  BY <1>3, <1>4

\* An ACK of the peer's data, and a step of something else, leave the history alone.
LEMMA StillKeeps ==
  ASSUME IInv, SendAck \/ UNCHANGED vars
  PROVE  IInv'
<1>1. /\ UNCHANGED <<state, synCount, history, head, highTxMark, highRxt, recover, cuts, sends>>
      /\ sample' = NoSample \/ sample' = sample
  BY DEF SendAck, vars
<1>2. SamplesUnambiguous' /\ SamplesFresh'
  BY <1>1, NoSampleIsNone DEF IInv, SamplesUnambiguous, SamplesFresh
<1>3. TypeOK => TypeOK'
  BY <1>1 DEF TypeOK, Seqs
<1>4. Opening => Opening'
  BY <1>1 DEF Opening, Seqs
<1>5. Transfer => Transfer'
  BY <1>1 DEF Transfer, Logged, Late, Ordered, Matched, Guarded, Unsent, Seqs, End
<1> QED  BY <1>1, <1>2, <1>3, <1>4, <1>5 DEF IInv

\* Every step keeps the invariant.
LEMMA NextIInv == IInv /\ [Next]_vars => IInv'
BY SynKeeps, SynAckKeeps, SendNewKeeps, SendAgainKeeps, ReceiveAckKeeps, TimeoutKeeps,
   StillKeeps DEF Next
-----------------------------------------------------------------------------
(***************************************************************************)
(* The theorems                                                            *)
(***************************************************************************)
\* The fields of the socket keep their types: numbers stay in the stream, what is
\* marked for sending again within what was sent, and SYNs within their retries.
THEOREM TypeCorrect == Spec => []TypeOK
<1>1. IInv => TypeOK
  BY DEF IInv
<1> QED  BY <1>1, InitIInv, NextIInv, PTL DEF Spec

\* EstimateRtt never measures a data segment whose last byte was sent twice, in
\* whichever order segments are sent again, whatever TcpTxBuffer merges or splits and
\* whatever is acknowledged (Karn).
THEOREM SampledOnce == Spec => []SamplesUnambiguous
<1>1. IInv => SamplesUnambiguous
  BY DEF IInv
<1> QED  BY <1>1, InitIInv, NextIInv, PTL DEF Spec

\* EstimateRtt never measures a segment that was on its way when m_retxEvent expired.
THEOREM SampledFresh == Spec => []SamplesFresh
<1>1. IInv => SamplesFresh
  BY DEF IInv
<1> QED  BY <1>1, InitIInv, NextIInv, PTL DEF Spec

\* The bound on the waits with the types that it needs.
WaitInv ==
    state = "ESTABLISHED" => /\ rto \in Nat /\ retxEvent \in Nat
                             /\ DataWaitBounded

\* m_rto and m_retxEvent stay within a minute as long as data is sent, however often
\* the timer expires, whatever the handshake left behind.
THEOREM DataWait == Spec => []DataWaitBounded
<1>1. Init => WaitInv
  BY DEF Init, WaitInv
<1>2. WaitInv /\ [Next]_vars => WaitInv'
  <2> SUFFICES ASSUME WaitInv, [Next]_vars, state' = "ESTABLISHED"
               PROVE  rto' \in Nat /\ retxEvent' \in Nat /\ rto' <= MaxRto
                      /\ retxEvent' <= MaxRto
    BY DEF WaitInv, DataWaitBounded
  <2>1. CASE ReceiveSynAck
    BY <2>1, TimeAssumption DEF ReceiveSynAck, Estimate
  <2>2. CASE SendNew
    BY <2>2, TimeAssumption DEF SendNew, Arm, WaitInv, DataWaitBounded
  <2>3. CASE SendAgain
    BY <2>3, TimeAssumption DEF SendAgain, Arm, WaitInv, DataWaitBounded
  <2>4. CASE ReceiveAck
    BY <2>4, TimeAssumption DEF ReceiveAck, NewAck, Estimate, WaitInv, DataWaitBounded
  <2>5. CASE ReTxTimeout
    BY <2>5, TimeAssumption DEF ReTxTimeout, Backoff, Smaller, WaitInv, DataWaitBounded
  <2>6. CASE SendAck
    BY <2>6, TimeAssumption DEF SendAck, Estimate, WaitInv, DataWaitBounded
  <2>7. CASE UNCHANGED vars
    BY <2>7 DEF vars, WaitInv, DataWaitBounded
  <2>8. ~(Connect \/ SynTimeout)
    BY DEF Connect, SynTimeout, SendSyn
  <2> QED  BY <2>1, <2>2, <2>3, <2>4, <2>5, <2>6, <2>7, <2>8 DEF Next
<1>3. WaitInv => DataWaitBounded
  BY DEF WaitInv, DataWaitBounded
<1> QED  BY <1>1, <1>2, <1>3, PTL DEF Spec
=============================================================================
