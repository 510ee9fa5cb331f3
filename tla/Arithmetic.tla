----------------------------- MODULE Arithmetic -----------------------------
(***************************************************************************)
(* Facts about natural numbers that the proofs of this directory share:    *)
(* the least number of a set, quotients, and the powers of two by which    *)
(* windows are scaled.                                                     *)
(***************************************************************************)
EXTENDS Integers, FiniteSetTheorems, WellFoundedInduction, TLAPS

\* A set of natural numbers has a least member.
LEMMA Least ==
  ASSUME NEW S, S \subseteq Nat, S # {}
  PROVE  \E n \in S : \A m \in S : n <= m
<1> DEFINE upTo == {0 .. n : n \in S}
<1>1. upTo \subseteq FiniteSubsetsOf(Nat) /\ upTo # {}
  <2>1. \A n \in S : 0 .. n \in SUBSET Nat /\ IsFiniteSet(0 .. n)
    BY FS_Interval
  <2> QED  BY <2>1 DEF FiniteSubsetsOf
<1>2. PICK T \in upTo : \A U \in upTo : ~(<<U, T>> \in StrictSubsetOrdering(Nat))
  <2> HIDE DEF upTo
  <2> QED  BY <1>1, FS_StrictSubsetOrderingWellFounded, WFMin
<1>3. PICK n \in S : T = 0 .. n
  OBVIOUS
<1>4. \A m \in S : n <= m
  <2> SUFFICES ASSUME NEW m \in S, m < n PROVE FALSE
    OBVIOUS
  <2>1. 0 .. m \in upTo /\ 0 .. m \subseteq 0 .. n /\ 0 .. m # 0 .. n
    <3>1. n \in 0 .. n /\ n \notin 0 .. m
      OBVIOUS
    <3> QED  BY <3>1
  <2>2. <<0 .. m, 0 .. n>> \in StrictSubsetOrdering(Nat)
    BY <2>1 DEF StrictSubsetOrdering
  <2> QED  BY <1>2, <1>3, <2>1, <2>2
<1> QED  BY <1>4

\* A quotient, times the divisor, is the dividend rounded down.
LEMMA Quotient ==
  \A a \in Nat, d \in Nat \ {0} :
     a \div d \in Nat /\ (a \div d) * d <= a /\ a < (a \div d) * d + d
  OBVIOUS

\* What is left over is less than the divisor, and nothing of zero.
LEMMA Remainder ==
  \A a \in Nat, d \in Nat \ {0} :
     a % d \in Nat /\ a % d <= a /\ a % d < d /\ 0 % d = 0
  OBVIOUS

\* The powers of two up to the largest window scale of RFC 7323.
LEMMA PowersOfTwo ==
  \A k :
     /\ (k = 0 => 2 ^ k = 1) /\ (k = 1 => 2 ^ k = 2) /\ (k = 2 => 2 ^ k = 4)
     /\ (k = 3 => 2 ^ k = 8) /\ (k = 4 => 2 ^ k = 16) /\ (k = 5 => 2 ^ k = 32)
     /\ (k = 6 => 2 ^ k = 64) /\ (k = 7 => 2 ^ k = 128) /\ (k = 8 => 2 ^ k = 256)
     /\ (k = 9 => 2 ^ k = 512) /\ (k = 10 => 2 ^ k = 1024) /\ (k = 11 => 2 ^ k = 2048)
     /\ (k = 12 => 2 ^ k = 4096) /\ (k = 13 => 2 ^ k = 8192) /\ (k = 14 => 2 ^ k = 16384)
<1>1. \A k :
      /\ (k = 0 => 2 ^ k = 2 ^ 0) /\ (k = 1 => 2 ^ k = 2 ^ 1) /\ (k = 2 => 2 ^ k = 2 ^ 2)
      /\ (k = 3 => 2 ^ k = 2 ^ 3) /\ (k = 4 => 2 ^ k = 2 ^ 4) /\ (k = 5 => 2 ^ k = 2 ^ 5)
      /\ (k = 6 => 2 ^ k = 2 ^ 6) /\ (k = 7 => 2 ^ k = 2 ^ 7) /\ (k = 8 => 2 ^ k = 2 ^ 8)
      /\ (k = 9 => 2 ^ k = 2 ^ 9) /\ (k = 10 => 2 ^ k = 2 ^ 10) /\ (k = 11 => 2 ^ k = 2 ^ 11)
      /\ (k = 12 => 2 ^ k = 2 ^ 12) /\ (k = 13 => 2 ^ k = 2 ^ 13) /\ (k = 14 => 2 ^ k = 2 ^ 14)
  BY Zenon
<1> QED  BY <1>1

\* A window scale is a factor of at least one, and each doubles the one before.
LEMMA WindowScales ==
  /\ \A k \in 0 .. 14 : 2 ^ k \in Nat /\ 1 <= 2 ^ k /\ 2 ^ k <= 2 ^ 14
  /\ \A k \in 0 .. 13 : 2 ^ (k + 1) = 2 * 2 ^ k
<1>1. \A k \in 0 .. 14 : k = 0 \/ k = 1 \/ k = 2 \/ k = 3 \/ k = 4 \/ k = 5 \/ k = 6
        \/ k = 7 \/ k = 8 \/ k = 9 \/ k = 10 \/ k = 11 \/ k = 12 \/ k = 13 \/ k = 14
  OBVIOUS
<1>2. \A k \in 0 .. 14 : 2 ^ k \in Nat /\ 1 <= 2 ^ k /\ 2 ^ k <= 2 ^ 14
  BY <1>1, PowersOfTwo
<1>3. \A k \in 0 .. 13 : 2 ^ (k + 1) = 2 * 2 ^ k
  <2> SUFFICES ASSUME NEW k \in 0 .. 13 PROVE 2 ^ (k + 1) = 2 * 2 ^ k
    OBVIOUS
  <2> QED  BY <1>1, PowersOfTwo
<1> QED  BY <1>2, <1>3
=============================================================================
