-------------------------------- MODULE Lemmas --------------------------------
(***************************************************************************)
(* What the proofs about the modules need of numbers and sequences: the    *)
(* arithmetic of rings and of counters that go round, least elements and   *)
(* induction, and a few facts about sequences.                             *)
(***************************************************************************)
EXTENDS Integers, Sequences, WellFoundedInduction, TLAPS

-----------------------------------------------------------------------------
(* One addition of two slot distances wraps at most once. *)
LEMMA WrapAdd ==
  ASSUME NEW M \in Nat \ {0}, NEW a \in 0 .. M - 1, NEW b \in 0 .. M - 1
  PROVE  (a + b) % M = IF a + b < M THEN a + b ELSE a + b - M
OBVIOUS

LEMMA WrapInc ==
  ASSUME NEW M \in Nat \ {0}, NEW a \in 0 .. M - 1
  PROVE  (a + 1) % M = IF a + 1 = M THEN 0 ELSE a + 1
<1>1. CASE a + 1 = M
  BY <1>1
<1>2. CASE a + 1 < M
  BY <1>2
<1> QED
  BY <1>1, <1>2

LEMMA WrapDec ==
  ASSUME NEW M \in Nat \ {0}, NEW a \in 1 .. M - 1
  PROVE  (a + M - 1) % M = a - 1
<1>1. (a + M - 1) \div M = 1 /\ (a - 1) + M * 1 = a + M - 1
  OBVIOUS
<1> QED
  BY <1>1

(* Counting down from zero ends at the largest value. *)
LEMMA WrapUnder ==
  ASSUME NEW M \in Nat \ {0}
  PROVE  (0 + M - 1) % M = M - 1
OBVIOUS

(* The slot x places on, for a distance that goes round at most once. *)
LEMMA WrapFar ==
  ASSUME NEW M \in Nat \ {0}, NEW a \in 0 .. M - 1, NEW x \in 0 .. M
  PROVE  (a + x) % M = IF a + x < M THEN a + x ELSE a + x - M
<1>1. CASE x = M
  BY <1>1
<1>2. CASE x \in 0 .. M - 1
  BY <1>2, WrapAdd
<1> QED
  BY <1>1, <1>2

(* Numbers that share a slot of the ring. *)
LEMMA Division ==
  ASSUME NEW M \in Nat \ {0}, NEW a \in Nat
  PROVE  /\ a % M \in 0 .. M - 1 /\ a \div M \in Nat
         /\ a = M * (a \div M) + (a % M)
OBVIOUS

LEMMA Remainder ==
  ASSUME NEW M \in Nat \ {0}, NEW q \in Nat, NEW r \in 0 .. M - 1
  PROVE  (M * q + r) % M = r
OBVIOUS

LEMMA WrapSucc ==
  ASSUME NEW M \in Nat \ {0}, NEW a \in Nat
  PROVE  ((a % M) + 1) % M = (a + 1) % M
<1> DEFINE q == a \div M
           r == a % M
<1>1. r \in 0 .. M - 1 /\ q \in Nat /\ a = M * q + r
  BY Division
<1> HIDE DEF q, r
<1>2. CASE r + 1 = M
  <2>1. a + 1 = M * (q + 1) + 0 /\ q + 1 \in Nat /\ 0 \in 0 .. M - 1
    BY <1>1, <1>2
  <2>2. (a + 1) % M = 0
    BY <2>1, Remainder
  <2>3. (r + 1) % M = 0
    BY <1>1, <1>2, WrapInc
  <2> QED
    BY <2>2, <2>3 DEF r
<1>3. CASE r + 1 \in 0 .. M - 1
  <2>1. a + 1 = M * q + (r + 1)
    BY <1>1
  <2>2. (a + 1) % M = r + 1
    BY <1>1, <1>3, <2>1, Remainder
  <2>3. (r + 1) % M = r + 1
    BY <1>1, <1>3, WrapInc
  <2> QED
    BY <2>2, <2>3 DEF r
<1> QED
  BY <1>1, <1>2, <1>3

(* One place on from where an earlier number is. *)
LEMMA WrapNext ==
  ASSUME NEW M \in Nat \ {0}, NEW a \in Nat \ {0}
  PROVE  /\ (((a - 1) % M) + 1) % M = a % M
         /\ a % M \in 0 .. M - 1
<1>1. PICK b \in Nat : b = a - 1 /\ b + 1 = a
  OBVIOUS
<1>2. ((b % M) + 1) % M = (b + 1) % M
  BY WrapSucc
<1> QED
  BY <1>1, <1>2

(* Two of them are at least one round apart. *)
LEMMA RoundApart ==
  ASSUME NEW M \in Nat \ {0}, NEW a \in Nat, NEW b \in Nat, a < b, a % M = b % M
  PROVE  b - a >= M
<1>1. PICK q \in Nat, r \in 0 .. M - 1 : a = M * q + r /\ r = a % M
  <2>1. /\ a \div M \in Nat /\ a % M \in 0 .. M - 1
        /\ a = M * (a \div M) + (a % M)
    BY Division
  <2> QED
    BY <2>1, Zenon
<1>2. PICK p \in Nat : b = M * p + r
  BY <1>1, Division
<1>3. p > q
  <2> SUFFICES ASSUME p <= q PROVE FALSE
    OBVIOUS
  <2>1. M * p <= M * q
    OBVIOUS
  <2> QED
    BY <1>1, <1>2, <2>1
<1>4. PICK d \in Nat : p = q + 1 + d
  BY <1>3
<1>5. M * p = M * q + M + M * d /\ M * d >= 0
  BY <1>4
<1> QED
  BY <1>1, <1>2, <1>5

-----------------------------------------------------------------------------
(* A counter of M values shows s after it has been taken up and down to n. *)
Shows(M, s, n) == \E rounds \in Nat : n = s + M * rounds

LEMMA CountUp ==
  ASSUME NEW M \in Nat \ {0}, NEW s \in 0 .. M - 1, NEW n \in Nat, Shows(M, s, n)
  PROVE  Shows(M, (s + 1) % M, n + 1)
<1>1. PICK rounds \in Nat : n = s + M * rounds
  BY DEF Shows
<1>2. (s + 1) % M = IF s + 1 = M THEN 0 ELSE s + 1
  BY WrapInc
<1>3. CASE s + 1 = M
  <2>1. n + 1 = ((s + 1) % M) + M * (rounds + 1) /\ rounds + 1 \in Nat
    BY <1>1, <1>2, <1>3
  <2> QED
    BY <2>1 DEF Shows
<1>4. CASE s + 1 # M
  <2>1. n + 1 = ((s + 1) % M) + M * rounds
    BY <1>1, <1>2, <1>4
  <2> QED
    BY <2>1 DEF Shows
<1> QED
  BY <1>3, <1>4

LEMMA CountDown ==
  ASSUME NEW M \in Nat \ {0}, NEW s \in 0 .. M - 1, NEW n \in Nat \ {0}, Shows(M, s, n)
  PROVE  Shows(M, (s + M - 1) % M, n - 1)
<1>1. PICK rounds \in Nat : n = s + M * rounds
  BY DEF Shows
<1>2. CASE s = 0
  <2>1. rounds # 0
    BY <1>1, <1>2
  <2>2. (s + M - 1) % M = M - 1
    BY <1>2, WrapUnder
  <2>3. n - 1 = ((s + M - 1) % M) + M * (rounds - 1) /\ rounds - 1 \in Nat
    BY <1>1, <1>2, <2>1, <2>2
  <2> QED
    BY <2>3 DEF Shows
<1>3. CASE s \in 1 .. M - 1
  <2>1. (s + M - 1) % M = s - 1
    BY <1>3, WrapDec
  <2>2. n - 1 = ((s + M - 1) % M) + M * rounds
    BY <1>1, <1>3, <2>1
  <2> QED
    BY <2>2 DEF Shows
<1> QED
  BY <1>2, <1>3

(* A counter that has not gone round is exact, and one that is not zero    *)
(* has something to count in any case.                                     *)
LEMMA CountExact ==
  ASSUME NEW M \in Nat \ {0}, NEW s \in 0 .. M - 1, NEW n \in Nat, Shows(M, s, n)
  PROVE  /\ n < M => s = n
         /\ s # 0 => n > 0
<1>1. PICK rounds \in Nat : n = s + M * rounds
  BY DEF Shows
<1>2. rounds # 0 => M * rounds >= M
  OBVIOUS
<1>3. rounds = 0 => M * rounds = 0
  OBVIOUS
<1> QED
  BY <1>1, <1>2, <1>3

-----------------------------------------------------------------------------
(* Least elements, and induction with a set for the predicate: the theorem *)
(* that < is well founded on Nat, without an operator for a parameter.     *)

LEMMA LeastNatural ==
  ASSUME NEW T \in SUBSET Nat, T # {}
  PROVE  \E x \in T : \A y \in T : x <= y
<1>1. PICK R : R = OpToRel(<, Nat)
  BY Zenon
<1>2. IsWellFoundedOn(R, Nat)
  BY <1>1, NatLessThanWellFounded, Zenon
<1>3. PICK x \in T : \A y \in T : ~ (<<y, x>> \in R)
  BY <1>2, WFMin
<1>4. \A a, b \in Nat : b < a => <<b, a>> \in R
  BY <1>1, Zenon DEF OpToRel
<1>5. \A y \in T : ~ (y < x)
  BY <1>3, <1>4
<1> QED
  BY <1>5

LEMMA SetInduction ==
  ASSUME NEW T \in SUBSET Nat, 0 \in T, \A n \in T : n + 1 \in T
  PROVE  T = Nat
<1> SUFFICES ASSUME Nat \ T # {} PROVE FALSE
  OBVIOUS
<1>1. PICK x \in Nat \ T : \A y \in Nat \ T : x <= y
  BY LeastNatural
<1>2. x - 1 \in Nat /\ x - 1 \notin Nat \ T
  BY <1>1
<1> QED
  BY <1>1, <1>2

-----------------------------------------------------------------------------
(* Sequences. *)

LEMMA EmptyLen == \A r : r = <<>> => Len(r) = 0
OBVIOUS

=============================================================================
