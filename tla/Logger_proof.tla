----------------------------- MODULE Logger_proof -----------------------------
(***************************************************************************)
(* Proofs about Logger: for every ring size, every number of words per     *)
(* element, every width of the counter and every number of elements.  And  *)
(* about the calls of log() that push them (LogFormat): for every format   *)
(* and every list of values.                                               *)
(***************************************************************************)
EXTENDS Logger, LogFormat, SequenceTheorems, FiniteSetTheorems, Lemmas

-----------------------------------------------------------------------------
(* One call of log(). *)

(* What FlattenSeq computes, as a function of how far it has come. *)
FlatBody(e, g, k) == IF k = 1 THEN e[k] ELSE g[k - 1] \o e[k]

Flat(e) == CHOOSE g : g = [k \in 1 .. Len(e) |-> FlatBody(e, g, k)]

(* One more sequence is put behind the ones before it. *)
LEMMA FlatNext ==
  \A e, g, j, k : j # 1 /\ j - 1 = k => FlatBody(e, g, j) = g[k] \o e[j]
BY Zenon DEF FlatBody

(* FlattenSeq is the last value of that function... *)
LEMMA FlattenIs == \A e : FlattenSeq(e) = IF Len(e) = 0 THEN e ELSE Flat(e)[Len(e)]
BY Zenon DEF FlattenSeq, Flat, FlatBody

(* ...which exists: by induction along the sequence. *)
LEMMA FlatExists ==
  ASSUME NEW e, Len(e) \in Nat
  PROVE  \E g : g = [k \in 1 .. Len(e) |-> FlatBody(e, g, k)]
<1> DEFINE L == Len(e)
           Right(g, m) == \A k \in 1 .. L : k <= m => g[k] = FlatBody(e, g, k)
           T == {m \in Nat : \E g : g = [k \in 1 .. L |-> g[k]] /\ Right(g, m)}
<1> HIDE DEF L
<1>0. L \in Nat
  BY DEF L
<1>1. 0 \in T
  <2> DEFINE g == [k \in 1 .. L |-> <<>>]
  <2>1. Right(g, 0)
    BY <1>0
  <2> QED
    BY <2>1
<1>2. ASSUME NEW m \in T PROVE m + 1 \in T
  <2>0. m \in Nat /\ m + 1 \in Nat
    OBVIOUS
  <2>1. PICK g : g = [k \in 1 .. L |-> g[k]] /\ Right(g, m)
    OBVIOUS
  <2> DEFINE more == [k \in 1 .. L |-> IF k = m + 1 THEN FlatBody(e, g, m + 1) ELSE g[k]]
  <2>2. ASSUME NEW k \in 1 .. L, k <= m + 1
        PROVE  FlatBody(e, more, k) = FlatBody(e, g, k)
    <3>1. k = 1 \/ more[k - 1] = g[k - 1]
      <4>1. k # 1 => k - 1 \in 1 .. L /\ k - 1 # m + 1
        BY ONLY <1>0, <2>0, k \in 1 .. L, k <= m + 1
      <4> QED
        BY <4>1
    <3> HIDE DEF more
    <3> QED
      BY <3>1 DEF FlatBody
  <2>3. Right(more, m + 1)
    <3> SUFFICES ASSUME NEW k \in 1 .. L, k <= m + 1
                 PROVE  more[k] = FlatBody(e, more, k)
      OBVIOUS
    <3>1. FlatBody(e, more, k) = FlatBody(e, g, k)
      BY <2>2
    <3>2. CASE k = m + 1
      BY <3>1, <3>2
    <3>3. CASE k # m + 1
      <4>1. k <= m
        BY <1>0, <2>0, <3>3
      <4> QED
        BY <2>1, <3>1, <3>3, <4>1
    <3> QED
      BY <3>2, <3>3
  <2>4. more = [k \in 1 .. L |-> more[k]]
    OBVIOUS
  <2> HIDE DEF more
  <2>5. \E h : h = [k \in 1 .. L |-> h[k]] /\ Right(h, m + 1)
    BY <2>3, <2>4, Zenon
  <2> QED
    BY <2>0, <2>5
<1>3. L \in T
  <2> HIDE DEF T
  <2>1. T \subseteq Nat
    BY DEF T
  <2> QED
    BY <1>0, <1>1, <1>2, <2>1, SetInduction
<1>4. PICK g : g = [k \in 1 .. L |-> g[k]] /\ Right(g, L)
  BY <1>3
<1>5. g = [k \in 1 .. L |-> FlatBody(e, g, k)]
  BY <1>0, <1>4
<1> QED
  BY <1>5 DEF L

(* The first k of the sequences of e, one behind the other. *)
First(e, k) == IF k = 0 THEN <<>> ELSE Flat(e)[k]

(* FlattenSeq(e) is First(e, Len(e)), and First(e, k) grows by one element *)
(* at a time.                                                              *)
LEMMA FirstIs ==
  ASSUME NEW T, NEW e, Len(e) \in Nat
  PROVE  /\ FlattenSeq(e) = IF Len(e) = 0 THEN e ELSE First(e, Len(e))
         /\ \A k \in 0 .. Len(e) - 1 :
              First(e, k) \in Seq(T) /\ e[k + 1] \in Seq(T) => First(e, k + 1) = First(e, k) \o e[k + 1]
<1> DEFINE g == Flat(e)
<1>1. g = [k \in 1 .. Len(e) |-> FlatBody(e, g, k)]
  BY FlatExists DEF Flat
<1>2. FlattenSeq(e) = IF Len(e) = 0 THEN e ELSE g[Len(e)]
  BY FlattenIs
<1> HIDE DEF g
<1>3. ASSUME NEW k \in 0 .. Len(e) - 1, First(e, k) \in Seq(T), e[k + 1] \in Seq(T)
      PROVE  First(e, k + 1) = First(e, k) \o e[k + 1]
  <2>1. k + 1 \in 1 .. Len(e) /\ k + 1 # 0 /\ k + 1 - 1 = k /\ (k # 0 <=> k + 1 # 1)
    OBVIOUS
  <2>2. g[k + 1] = FlatBody(e, g, k + 1)
    BY <1>1, <2>1
  <2>3. First(e, k + 1) = g[k + 1]
    BY <2>1, Zenon DEF First, g
  <2>4. CASE k = 0
    <3>1. g[k + 1] = e[k + 1]
      BY <2>1, <2>2, <2>4, Zenon DEF FlatBody
    <3>2. First(e, k) = <<>>
      BY <2>4, Zenon DEF First
    <3>3. <<>> \o e[k + 1] = e[k + 1]
      BY <1>3, ConcatEmptySeq, Zenon
    <3> QED
      BY ONLY <2>3, <3>1, <3>2, <3>3
  <2>5. CASE k # 0
    <3>1. FlatBody(e, g, k + 1) = g[k] \o e[k + 1]
      <4>1. k + 1 # 1 /\ k + 1 - 1 = k
        BY ONLY <2>1, <2>5, Zenon
      <4>2. PICK j : j = k + 1
        OBVIOUS
      <4>3. j # 1 /\ j - 1 = k
        BY ONLY <4>1, <4>2
      <4>4. FlatBody(e, g, j) = g[k] \o e[j]
        BY ONLY <4>3, FlatNext, Zenon
      <4> QED
        BY ONLY <4>2, <4>4
    <3>2. First(e, k) = g[k]
      BY <2>5, Zenon DEF First, g
    <3> QED
      BY ONLY <2>2, <2>3, <3>1, <3>2
  <2> QED
    BY <2>4, <2>5
<1>4. Len(e) # 0 => First(e, Len(e)) = g[Len(e)]
  BY DEF First, g
<1> QED
  BY <1>2, <1>3, <1>4

-----------------------------------------------------------------------------
(* What is left of a sequence behind its first k elements. *)
Rest(x, k) == SubSeq(x, k + 1, Len(x))

(* Its length, its elements and its head and tail. *)
LEMMA Suffix ==
  ASSUME NEW S, NEW x \in Seq(S), NEW k \in 0 .. Len(x)
  PROVE  /\ Rest(x, k) \in Seq(S) /\ Len(Rest(x, k)) = Len(x) - k
         /\ \A j \in 1 .. Len(x) - k : Rest(x, k)[j] = x[k + j]
         /\ Rest(x, k) = <<>> <=> k = Len(x)
         /\ Rest(x, k) # <<>> => Tail(Rest(x, k)) = Rest(x, k + 1) /\ Head(Rest(x, k)) = x[k + 1]
         /\ Rest(x, 0) = x
<1>0. PICK r : r = SubSeq(x, k + 1, Len(x)) /\ r = Rest(x, k)
  BY DEF Rest
<1>1. Len(x) \in Nat /\ \A j \in 1 .. Len(x) : x[j] \in S
  OBVIOUS
<1>2. /\ r \in Seq(S) /\ Len(r) = (IF k + 1 <= Len(x) THEN Len(x) - (k + 1) + 1 ELSE 0)
      /\ \A j \in 1 .. Len(x) - (k + 1) + 1 : r[j] = x[k + 1 + j - 1]
  <2>1. k + 1 \in Int /\ Len(x) \in Int /\ \A j \in k + 1 .. Len(x) : x[j] \in S
    BY <1>1
  <2> QED
    BY ONLY <2>1, <1>0, SubSeqProperties, SMTT(30)
<1>3. PICK n \in Nat : n = Len(x) /\ k \in 0 .. n
  BY <1>1
<1>4. Len(r) = n - k /\ \A j \in 1 .. n - k : r[j] = x[k + j]
  <2>1. (IF k + 1 <= n THEN n - (k + 1) + 1 ELSE 0) = n - k /\ n - (k + 1) + 1 = n - k
        /\ \A j \in 1 .. n - k : k + 1 + j - 1 = k + j
    BY ONLY <1>3
  <2> QED
    BY ONLY <1>2, <1>3, <2>1
<1>5. r = <<>> <=> k = n
  <2>1. ASSUME r = <<>> PROVE k = n
    <3>1. Len(r) = 0
      BY <2>1, EmptyLen
    <3> QED
      BY ONLY <1>3, <1>4, <3>1
  <2>2. ASSUME k = n PROVE r = <<>>
    <3>1. n < k + 1 /\ k + 1 \in Int /\ n \in Int
      BY <1>3, <2>2
    <3> QED
      BY ONLY <1>3, <3>1, <1>0, SubSeqEmpty, Zenon
  <2> QED
    BY <2>1, <2>2
<1>6. ASSUME r # <<>> PROVE Tail(r) = SubSeq(x, k + 2, Len(x)) /\ Head(r) = x[k + 1]
  <2>1. k + 1 \in 1 .. Len(x) /\ Len(x) \in k + 1 .. Len(x) /\ k + 1 + 1 = k + 2
    BY <1>3, <1>5, <1>6
  <2>2. Head(SubSeq(x, k + 1, Len(x))) = x[k + 1]
        /\ Tail(SubSeq(x, k + 1, Len(x))) = SubSeq(x, k + 1 + 1, Len(x))
    BY ONLY <2>1, x \in Seq(S), HeadTailOfSubSeq, Zenon
  <2> QED
    BY <1>0, <2>1, <2>2
<1>7. SubSeq(x, k + 2, Len(x)) = Rest(x, k + 1)
  <2>1. k + 1 + 1 = k + 2
    OBVIOUS
  <2> QED
    BY ONLY <2>1 DEF Rest
<1>8. Rest(x, 0) = x
  <2>1. SubSeq(x, 1, Len(x)) = x
    BY SubSeqFull
  <2>2. 0 + 1 = 1
    OBVIOUS
  <2> QED
    BY ONLY <2>1, <2>2 DEF Rest
<1> QED
  BY ONLY <1>0, <1>2, <1>3, <1>4, <1>5, <1>6, <1>7, <1>8

-----------------------------------------------------------------------------
(* A run of % characters grows by one % and ends at any other character.   *)
LEMMA Runs ==
  ASSUME NEW C, NEW f \in Seq(C)
  PROVE  \A k \in 0 .. Len(f) :
           /\ RunLength(f, k) \in Nat
           /\ k + 1 \in 1 .. Len(f) =>
                RunLength(f, k + 1) =
                  IF f[k + 1] = Percent THEN RunLength(f, k) + 1 ELSE 0
<1> DEFINE R(k) == {q \in 1 .. k : \A r \in q .. k : f[r] = Percent}
<1>0. Len(f) \in Nat
  OBVIOUS
<1>1. ASSUME NEW k \in 0 .. Len(f)
      PROVE  /\ RunLength(f, k) = Cardinality(R(k))
             /\ IsFiniteSet(R(k)) /\ Cardinality(R(k)) \in Nat
             /\ k + 1 \notin R(k)
  <2>1. RunLength(f, k) = Cardinality(R(k))
    BY DEF RunLength
  <2>2. IsFiniteSet(1 .. k)
    BY <1>0, FS_Interval
  <2>3. IsFiniteSet(R(k)) /\ Cardinality(R(k)) \in Nat
    <3>1. R(k) \in SUBSET (1 .. k)
      OBVIOUS
    <3>2. IsFiniteSet(R(k))
      BY ONLY <2>2, <3>1, FS_Subset, Zenon
    <3> QED
      BY ONLY <3>2, FS_CardinalityType, Zenon
  <2>4. k + 1 \notin R(k)
    BY <1>0
  <2> QED
    BY ONLY <2>1, <2>3, <2>4
<1>2. ASSUME NEW k \in 0 .. Len(f), k + 1 \in 1 .. Len(f)
      PROVE  RunLength(f, k + 1) = IF f[k + 1] = Percent THEN RunLength(f, k) + 1 ELSE 0
  <2>1. k \in 0 .. Len(f) /\ k + 1 \in 0 .. Len(f)
    BY <1>0, <1>2
  <2>2. RunLength(f, k) = Cardinality(R(k)) /\ RunLength(f, k + 1) = Cardinality(R(k + 1))
        /\ IsFiniteSet(R(k)) /\ k + 1 \notin R(k)
    <3> HIDE DEF R
    <3> QED
      BY ONLY <1>1, <2>1, Zenon
  <2>3. CASE f[k + 1] = Percent
    <3>1. R(k + 1) = R(k) \cup {k + 1}
      BY <1>0, <2>1, <2>3
    <3>2. Cardinality(R(k) \cup {k + 1}) = Cardinality(R(k)) + 1
      <4> HIDE DEF R
      <4> QED
        BY ONLY <2>2, FS_AddElement, Zenon
    <3> QED
      BY ONLY <2>2, <2>3, <3>1, <3>2
  <2>4. CASE f[k + 1] # Percent
    <3>1. R(k + 1) = {}
      BY <1>0, <2>1, <2>4
    <3> QED
      BY ONLY <2>2, <2>4, <3>1, FS_EmptySet
  <2> QED
    BY <2>3, <2>4
<1> QED
  BY <1>1, <1>2

(* The placeholders among the first k characters, one more for each of     *)
(* them.                                                                   *)
LEMMA Placed ==
  ASSUME NEW C, NEW f \in Seq(C)
  PROVE  /\ Cardinality(Places(f)) \in Nat
         /\ PlacesUpTo(f, 0) = 0
         /\ PlacesUpTo(f, Len(f)) = Cardinality(Places(f))
         /\ \A k \in 0 .. Len(f) :
              /\ PlacesUpTo(f, k) \in Nat
              /\ PlacesUpTo(f, k) <= Cardinality(Places(f))
              /\ k + 1 \in 1 .. Len(f) =>
                   PlacesUpTo(f, k + 1) =
                     IF k + 1 \in Places(f) THEN PlacesUpTo(f, k) + 1
                     ELSE PlacesUpTo(f, k)
<1> DEFINE P == Places(f)
           U(k) == {q \in P : q <= k}
<1>0. Len(f) \in Nat /\ P \subseteq 1 .. Len(f)
  BY DEF Places
<1>1. IsFiniteSet(P) /\ Cardinality(P) \in Nat
  <2>1. IsFiniteSet(1 .. Len(f))
    BY <1>0, FS_Interval
  <2>2. P \in SUBSET (1 .. Len(f))
    BY <1>0
  <2>3. IsFiniteSet(P)
    BY ONLY <2>1, <2>2, FS_Subset, Zenon
  <2> QED
    BY ONLY <2>3, FS_CardinalityType, Zenon
<1>2. \A k : PlacesUpTo(f, k) = Cardinality(U(k))
  BY DEF PlacesUpTo
<1> HIDE DEF P
<1>3. ASSUME NEW k
      PROVE  IsFiniteSet(U(k)) /\ Cardinality(U(k)) \in Nat /\ Cardinality(U(k)) <= Cardinality(P)
  <2>1. U(k) \in SUBSET P
    OBVIOUS
  <2>2. IsFiniteSet(U(k)) /\ Cardinality(U(k)) <= Cardinality(P)
    BY ONLY <1>1, <2>1, FS_Subset, Zenon
  <2>3. Cardinality(U(k)) \in Nat
    BY ONLY <2>2, FS_CardinalityType, Zenon
  <2> QED
    BY ONLY <2>2, <2>3
<1>7. /\ Len(f) \in Nat
      /\ \A q \in P : q \in Nat /\ 1 <= q /\ q <= Len(f)
  BY <1>0
<1>4. U(0) = {} /\ U(Len(f)) = P
  <2>1. \A q \in P : ~(q <= 0) /\ q <= Len(f)
    BY <1>7
  <2> QED
    BY ONLY <2>1
<1>5. ASSUME NEW k \in 0 .. Len(f), k + 1 \in 1 .. Len(f)
      PROVE  Cardinality(U(k + 1)) = IF k + 1 \in P THEN Cardinality(U(k)) + 1 ELSE Cardinality(U(k))
  <2>1. CASE k + 1 \in P
    <3>1. U(k + 1) = U(k) \cup {k + 1} /\ k + 1 \notin U(k)
      <4>1. ~(k + 1 <= k) /\ k + 1 <= k + 1 /\ \A q \in P : q <= k + 1 <=> q <= k \/ q = k + 1
        BY <1>7
      <4> QED
        BY ONLY <2>1, <4>1
    <3>2. Cardinality(U(k) \cup {k + 1}) = Cardinality(U(k)) + 1
      <4> HIDE DEF U
      <4> QED
        BY ONLY <1>3, <3>1, FS_AddElement, Zenon
    <3> QED
      BY ONLY <2>1, <3>1, <3>2
  <2>2. CASE k + 1 \notin P
    <3>1. U(k + 1) = U(k)
      <4>1. \A q \in P : q <= k + 1 <=> q <= k
        BY <1>7, <2>2
      <4> QED
        BY ONLY <4>1
    <3> QED
      BY ONLY <2>2, <3>1
  <2> QED
    BY <2>1, <2>2
<1>6. Cardinality({}) = 0
  BY FS_EmptySet
<1> HIDE DEF U
<1>8. /\ Cardinality(P) \in Nat /\ PlacesUpTo(f, 0) = 0
      /\ PlacesUpTo(f, Len(f)) = Cardinality(P)
  BY ONLY <1>1, <1>2, <1>4, <1>6
<1>9. ASSUME NEW k \in 0 .. Len(f)
      PROVE  /\ PlacesUpTo(f, k) \in Nat /\ PlacesUpTo(f, k) <= Cardinality(P)
             /\ k + 1 \in 1 .. Len(f) =>
                  PlacesUpTo(f, k + 1) =
                    IF k + 1 \in P THEN PlacesUpTo(f, k) + 1 ELSE PlacesUpTo(f, k)
  BY ONLY <1>2, <1>3, <1>5, k \in 0 .. Len(f)
<1> QED
  BY ONLY <1>8, <1>9, Zenon DEF P

-----------------------------------------------------------------------------
(* What each character of a format contributes to the text. *)
Parts(f, v) == [p \in DOMAIN f |-> ElementsAt(f, v, p)]

(* No % follows the one at p. *)
OpenEnd(f, p) == p + 1 \in DOMAIN f => f[p + 1] # Percent

(* What the next character of a format is to log(), as CallAsWritten has   *)
(* it.                                                                     *)
LEMMA AnyPart ==
  ASSUME NEW C, NEW f \in Seq(C), NEW v, NEW k \in 0 .. Len(f), k + 1 \in 1 .. Len(f)
  PROVE  /\ RunLength(f, k) \in Nat
         /\ RunLength(f, k + 1) = IF f[k + 1] = Percent THEN RunLength(f, k) + 1 ELSE 0
         /\ PlacesUpTo(f, k + 1) = IF k + 1 \in Places(f) THEN PlacesUpTo(f, k) + 1
                                        ELSE PlacesUpTo(f, k)
         /\ k + 1 \in Places(f) <=> RunLength(f, k + 1) % 2 = 1 /\ OpenEnd(f, k + 1)
         /\ Parts(f, v)[k + 1] = IF k + 1 \in Places(f) THEN v[PlacesUpTo(f, k + 1)]
                                 ELSE IF RunLength(f, k + 1) % 2 = 1 THEN <<>>
                                 ELSE <<f[k + 1]>>
<1>1. Len(f) \in Nat /\ DOMAIN f = 1 .. Len(f)
  OBVIOUS
<1>2. /\ RunLength(f, k) \in Nat
      /\ RunLength(f, k + 1) = IF f[k + 1] = Percent THEN RunLength(f, k) + 1 ELSE 0
  BY Runs
<1>3. PlacesUpTo(f, k + 1) = IF k + 1 \in Places(f) THEN PlacesUpTo(f, k) + 1
                                  ELSE PlacesUpTo(f, k)
  BY Placed
<1>4. k + 1 \in Places(f) <=> RunLength(f, k + 1) % 2 = 1 /\ OpenEnd(f, k + 1)
  <2>1. \A j \in 1 .. Len(f) :
          j \in Places(f) <=> RunLength(f, j) % 2 = 1 /\ OpenEnd(f, j)
    BY <1>1 DEF Places, OpenEnd
  <2> QED
    BY ONLY <2>1, k + 1 \in 1 .. Len(f)
<1>5. Parts(f, v)[k + 1] = IF k + 1 \in Places(f) THEN v[PlacesUpTo(f, k + 1)]
                           ELSE IF RunLength(f, k + 1) % 2 = 1 THEN <<>>
                           ELSE <<f[k + 1]>>
  BY <1>1 DEF Parts, ElementsAt
<1> QED
  BY ONLY <1>2, <1>3, <1>4, <1>5, Zenon

(* Any other character stands for itself. *)
LEMMA LiteralPart ==
  ASSUME NEW C, NEW f \in Seq(C), NEW v, NEW k \in 0 .. Len(f), k + 1 \in 1 .. Len(f),
         f[k + 1] # Percent
  PROVE  /\ PlacesUpTo(f, k + 1) = PlacesUpTo(f, k)
         /\ Parts(f, v)[k + 1] = <<f[k + 1]>>
         /\ RunLength(f, k + 1) % 2 = 0
<1>1. RunLength(f, k + 1) % 2 = 0 /\ RunLength(f, k + 1) % 2 # 1
  <2>1. RunLength(f, k + 1) = 0
    BY AnyPart
  <2> QED
    BY <2>1
<1>2. k + 1 \notin Places(f)
  BY <1>1, AnyPart
<1>3. PlacesUpTo(f, k + 1) = PlacesUpTo(f, k)
  BY <1>2, AnyPart
<1>4. Parts(f, v)[k + 1] = <<f[k + 1]>>
  BY <1>1, <1>2, AnyPart
<1> QED
  BY ONLY <1>1, <1>3, <1>4

(* A % behind an even number of others makes their number odd. *)
LEMMA OddPart ==
  ASSUME NEW C, NEW f \in Seq(C), NEW k \in 0 .. Len(f), k + 1 \in 1 .. Len(f),
         f[k + 1] = Percent, RunLength(f, k) % 2 = 0
  PROVE  RunLength(f, k + 1) % 2 = 1
<1>1. RunLength(f, k) \in Nat
  BY AnyPart
<1>2. RunLength(f, k + 1) = RunLength(f, k) + 1
  BY AnyPart
<1> QED
  BY <1>1, <1>2

(* The last % of a run of odd length takes the next value. *)
LEMMA PlaceholderPart ==
  ASSUME NEW C, NEW f \in Seq(C), NEW v, NEW k \in 0 .. Len(f), k + 1 \in 1 .. Len(f),
         f[k + 1] = Percent, RunLength(f, k) % 2 = 0,
         OpenEnd(f, k + 1)
  PROVE  /\ PlacesUpTo(f, k + 1) = PlacesUpTo(f, k) + 1
         /\ Parts(f, v)[k + 1] = v[PlacesUpTo(f, k) + 1]
<1>1. k + 1 \in Places(f)
  BY OddPart, AnyPart
<1>2. PlacesUpTo(f, k + 1) = PlacesUpTo(f, k) + 1
  BY <1>1, AnyPart
<1>3. Parts(f, v)[k + 1] = v[PlacesUpTo(f, k + 1)]
  BY <1>1, AnyPart
<1> QED
  BY ONLY <1>2, <1>3

(* The first % of a pair stands for nothing and takes no value... *)
LEMMA FirstOfPair ==
  ASSUME NEW C, NEW f \in Seq(C), NEW v, NEW k \in 0 .. Len(f), k + 1 \in 1 .. Len(f),
         f[k + 1] = Percent, RunLength(f, k) % 2 = 0,
         ~OpenEnd(f, k + 1)
  PROVE  /\ PlacesUpTo(f, k + 1) = PlacesUpTo(f, k)
         /\ Parts(f, v)[k + 1] = <<>>
         /\ RunLength(f, k + 1) % 2 = 1
<1>1. RunLength(f, k + 1) % 2 = 1
  BY OddPart
<1>2. k + 1 \notin Places(f)
  BY AnyPart
<1>3. PlacesUpTo(f, k + 1) = PlacesUpTo(f, k)
  BY <1>2, AnyPart
<1>4. Parts(f, v)[k + 1] = <<>>
  BY <1>1, <1>2, AnyPart
<1> QED
  BY ONLY <1>1, <1>3, <1>4

(* ...and the second stands for itself. *)
LEMMA SecondOfPair ==
  ASSUME NEW C, NEW f \in Seq(C), NEW v, NEW k \in 0 .. Len(f), k + 1 \in 1 .. Len(f),
         f[k + 1] = Percent, RunLength(f, k) % 2 = 1
  PROVE  /\ PlacesUpTo(f, k + 1) = PlacesUpTo(f, k)
         /\ Parts(f, v)[k + 1] = <<f[k + 1]>>
         /\ RunLength(f, k + 1) % 2 = 0
<1>1. RunLength(f, k + 1) % 2 = 0 /\ RunLength(f, k + 1) % 2 # 1
  <2>1. RunLength(f, k) \in Nat
    BY AnyPart
  <2>2. RunLength(f, k + 1) = RunLength(f, k) + 1
    BY AnyPart
  <2> QED
    BY <2>1, <2>2
<1>2. k + 1 \notin Places(f)
  BY <1>1, AnyPart
<1>3. PlacesUpTo(f, k + 1) = PlacesUpTo(f, k)
  BY <1>2, AnyPart
<1>4. Parts(f, v)[k + 1] = <<f[k + 1]>>
  BY <1>1, <1>2, AnyPart
<1> QED
  BY ONLY <1>1, <1>3, <1>4

-----------------------------------------------------------------------------
(* Whatever log() may push. *)
Symbols == Char \cup {Percent} \cup Element

(* log() has reached the place behind k characters of the format f, given  *)
(* the values v: it has pushed what those characters stand for and taken   *)
(* the values of their placeholders, and k is not within a pair of %.      *)
At(f, v, k) ==
  /\ s = Rest(f, k)
  /\ k + 1 \in 1 .. Len(f) /\ f[k + 1] = Percent => RunLength(f, k) % 2 = 0
  /\ PlacesUpTo(f, k) <= Len(v)
  /\ args = Rest(v, PlacesUpTo(f, k))
  /\ pushed \in Seq(Symbols)
  /\ pushed = First(Parts(f, v), k)

(* The inductive invariant. *)
CallInv ==
  /\ format \in Formats /\ values \in ArgLists
  /\ \E k \in 0 .. Len(format) : At(format, values, k)
  /\ CallAsWritten

(* What is left of the format and of the values at that place. *)
LEMMA WhatIsLeft ==
  ASSUME NEW f \in Seq(Char \cup {Percent}), NEW v \in Seq(Seq(Element)),
         NEW k \in 0 .. Len(f), At(f, v, k)
  PROVE  /\ Len(f) \in Nat /\ Len(v) \in Nat /\ PlacesUpTo(f, k) \in 0 .. Len(v)
         /\ Len(s) = Len(f) - k /\ \A j \in 1 .. Len(f) - k : s[j] = f[k + j]
         /\ s = <<>> <=> k = Len(f)
         /\ s # <<>> => Tail(s) = Rest(f, k + 1)
         /\ args = <<>> <=> PlacesUpTo(f, k) = Len(v)
         /\ args # <<>> => /\ Tail(args) = Rest(v, PlacesUpTo(f, k) + 1)
                           /\ Head(args) = v[PlacesUpTo(f, k) + 1]
                           /\ PlacesUpTo(f, k) + 1 \in 1 .. Len(v)
                           /\ Head(args) \in Seq(Symbols)
<1>1. Len(f) \in Nat /\ Len(v) \in Nat
  OBVIOUS
<1>2. PICK n \in 0 .. Len(v) : n = PlacesUpTo(f, k)
  <2>1. PlacesUpTo(f, k) \in Nat
    BY Placed
  <2> QED
    BY <1>1, <2>1 DEF At
<1>3. s = Rest(f, k) /\ args = Rest(v, n)
  BY <1>2 DEF At
<1>4. /\ Len(s) = Len(f) - k /\ \A j \in 1 .. Len(f) - k : s[j] = f[k + j]
      /\ s = <<>> <=> k = Len(f)
      /\ s # <<>> => Tail(s) = Rest(f, k + 1)
  <2>1. Len(Rest(f, k)) = Len(f) - k
    BY Suffix
  <2>2. \A j \in 1 .. Len(f) - k : Rest(f, k)[j] = f[k + j]
    BY Suffix
  <2>3. Rest(f, k) = <<>> <=> k = Len(f)
    BY Suffix
  <2>4. Rest(f, k) # <<>> => Tail(Rest(f, k)) = Rest(f, k + 1)
    BY Suffix
  <2> QED
    BY <1>3, <2>1, <2>2, <2>3, <2>4
<1>5. /\ args = <<>> <=> n = Len(v)
      /\ args # <<>> => Tail(args) = Rest(v, n + 1) /\ Head(args) = v[n + 1]
  <2>1. Rest(v, n) = <<>> <=> n = Len(v)
    BY Suffix
  <2>2. Rest(v, n) # <<>> => Tail(Rest(v, n)) = Rest(v, n + 1) /\ Head(Rest(v, n)) = v[n + 1]
    BY Suffix
  <2> QED
    BY <1>3, <2>1, <2>2
<1>6. ASSUME args # <<>> PROVE n + 1 \in 1 .. Len(v) /\ v[n + 1] \in Seq(Symbols)
  <2>1. n + 1 \in 1 .. Len(v)
    BY <1>1, <1>5, <1>6
  <2>2. v[n + 1] \in Seq(Element)
    BY <2>1
  <2>3. Seq(Element) \subseteq Seq(Symbols)
    BY DEF Symbols
  <2> QED
    BY <2>1, <2>2, <2>3
<1> QED
  BY <1>1, <1>2, <1>4, <1>5, <1>6

(* What has been pushed at the next place. *)
LEMMA PushedNext ==
  ASSUME NEW f \in Seq(Char \cup {Percent}), NEW v, NEW k \in 0 .. Len(f), k + 1 \in 1 .. Len(f),
         First(Parts(f, v), k) \in Seq(Symbols), Parts(f, v)[k + 1] \in Seq(Symbols)
  PROVE  /\ First(Parts(f, v), k + 1) = First(Parts(f, v), k) \o Parts(f, v)[k + 1]
         /\ First(Parts(f, v), k + 1) \in Seq(Symbols)
<1>1. Len(Parts(f, v)) = Len(f) /\ Len(f) \in Nat
  BY DEF Parts
<1>2. k \in 0 .. Len(Parts(f, v)) - 1 /\ Len(Parts(f, v)) \in Nat
  BY <1>1
<1>3. First(Parts(f, v), k + 1) = First(Parts(f, v), k) \o Parts(f, v)[k + 1]
  BY ONLY <1>2, First(Parts(f, v), k) \in Seq(Symbols), Parts(f, v)[k + 1] \in Seq(Symbols),
     FirstIs, Zenon
<1>4. First(Parts(f, v), k) \o Parts(f, v)[k + 1] \in Seq(Symbols)
  BY ONLY First(Parts(f, v), k) \in Seq(Symbols), Parts(f, v)[k + 1] \in Seq(Symbols), ConcatProperties, Zenon
<1> QED
  BY ONLY <1>3, <1>4

(* A call starts at the first place. *)
LEMMA CallStarts ==
  ASSUME CallInit
  PROVE  CallInv
<1>1. /\ format \in Formats /\ format \in Seq(Char \cup {Percent})
      /\ values \in ArgLists /\ values \in Seq(Seq(Element))
      /\ s = format /\ args = values /\ pushed = <<>>
  BY FormatsAssumption, ArgListsAssumption DEF CallInit
<1>2. Len(format) \in Nat /\ Len(values) \in Nat
  BY <1>1
<1>3. PlacesUpTo(format, 0) = 0
  BY <1>1, Placed
<1>4. RunLength(format, 0) = 0
  <2>1. {q \in 1 .. 0 : \A r \in q .. 0 : format[r] = Percent} = {}
    OBVIOUS
  <2> QED
    BY ONLY <2>1, FS_EmptySet DEF RunLength
<1>5. Rest(format, 0) = format /\ Rest(values, 0) = values
  BY <1>1, <1>2, Suffix
<1>6. At(format, values, 0)
  BY <1>1, <1>2, <1>3, <1>4, <1>5 DEF At, First
<1>7. CallAsWritten
  BY DEF CallInit, CallAsWritten
<1> QED
  BY <1>1, <1>2, <1>6, <1>7 DEF CallInv

(* A step of the loops leads from one place to a later one. *)
LEMMA CallStep ==
  ASSUME NEW f \in Seq(Char \cup {Percent}), NEW v \in Seq(Seq(Element)),
         NEW k \in 0 .. Len(f), At(f, v, k),
         Escape \/ Literal \/ Substitute
  PROVE  \E j \in 0 .. Len(f) : At(f, v, j)'
<1>1. /\ Len(f) \in Nat /\ Len(v) \in Nat /\ k \in Nat
      /\ Len(s) = Len(f) - k /\ \A j \in 1 .. Len(f) - k : s[j] = f[k + j]
      /\ s = <<>> <=> k = Len(f)
  BY WhatIsLeft
<1>2. s # <<>> => Tail(s) = Rest(f, k + 1)
  BY WhatIsLeft
<1>3. /\ pushed \in Seq(Symbols) /\ pushed = First(Parts(f, v), k)
      /\ PlacesUpTo(f, k) <= Len(v) /\ args = Rest(v, PlacesUpTo(f, k))
      /\ k + 1 \in 1 .. Len(f) /\ f[k + 1] = Percent => RunLength(f, k) % 2 = 0
  BY DEF At
<1>4. \A j \in 1 .. Len(f) : f[j] \in Symbols /\ <<f[j]>> \in Seq(Symbols)
  BY DEF Symbols
<1>5. pushed \o <<>> = pushed /\ <<>> \in Seq(Symbols)
  BY <1>3
<1>6. ASSUME s # <<>> PROVE k + 1 \in 1 .. Len(f) /\ s[1] = f[k + 1]
  <2>1. 1 \in 1 .. Len(f) - k /\ k + 1 \in 1 .. Len(f)
    BY ONLY <1>1, <1>6, k \in 0 .. Len(f)
  <2> QED
    BY ONLY <1>1, <2>1
<1>7. CASE Literal
  <2>1. /\ s # <<>> /\ s[1] # Percent /\ pushed' = pushed \o <<s[1]>>
        /\ s' = Tail(s) /\ args' = args
    BY <1>7 DEF Literal, Push
  <2>2. k + 1 \in 1 .. Len(f) /\ s[1] = f[k + 1] /\ f[k + 1] # Percent
    BY ONLY <1>6, <2>1
  <2>3. /\ PlacesUpTo(f, k + 1) = PlacesUpTo(f, k)
        /\ Parts(f, v)[k + 1] = <<f[k + 1]>>
        /\ RunLength(f, k + 1) % 2 = 0
    BY <2>2, LiteralPart
  <2>4. pushed' = First(Parts(f, v), k + 1) /\ pushed' \in Seq(Symbols)
    BY <1>3, <1>4, <2>1, <2>2, <2>3, PushedNext
  <2>5. At(f, v, k + 1)'
    BY ONLY <1>2, <1>3, <2>1, <2>3, <2>4 DEF At
  <2>6. k + 1 \in 0 .. Len(f)
    BY ONLY <1>1, <2>2
  <2> QED
    BY <2>5, <2>6
<1>8. CASE Substitute
  <2>1. /\ s # <<>> /\ s[1] = Percent /\ ~(Len(s) > 1 /\ s[2] = Percent)
        /\ args # <<>> /\ pushed' = pushed \o Head(args)
        /\ s' = Tail(s) /\ args' = Tail(args)
    BY <1>8 DEF Substitute, Placeholder, Push, Pop
  <2>2. k + 1 \in 1 .. Len(f) /\ s[1] = f[k + 1] /\ f[k + 1] = Percent
    BY ONLY <1>6, <2>1
  <2>3. OpenEnd(f, k + 1)
    <3> SUFFICES ASSUME k + 2 \in 1 .. Len(f) PROVE f[k + 2] # Percent
      <4>1. k + 1 + 1 = k + 2 /\ DOMAIN f = 1 .. Len(f)
        BY <1>1
      <4> QED
        BY <4>1 DEF OpenEnd
    <3>1. Len(s) > 1 /\ 2 \in 1 .. Len(f) - k
      BY ONLY <1>1, k + 2 \in 1 .. Len(f)
    <3> QED
      BY ONLY <1>1, <2>1, <3>1
  <2>4. /\ PlacesUpTo(f, k + 1) = PlacesUpTo(f, k) + 1
        /\ Parts(f, v)[k + 1] = v[PlacesUpTo(f, k) + 1]
    BY <1>3, <2>2, <2>3, PlaceholderPart
  <2>5. /\ Tail(args) = Rest(v, PlacesUpTo(f, k) + 1)
        /\ Head(args) = v[PlacesUpTo(f, k) + 1]
        /\ PlacesUpTo(f, k) + 1 \in 1 .. Len(v)
        /\ Head(args) \in Seq(Symbols)
    BY <2>1, WhatIsLeft
  <2>6. pushed' = First(Parts(f, v), k + 1) /\ pushed' \in Seq(Symbols)
    <3>1. /\ First(Parts(f, v), k) \in Seq(Symbols) /\ Parts(f, v)[k + 1] \in Seq(Symbols)
          /\ pushed' = First(Parts(f, v), k) \o Parts(f, v)[k + 1]
      BY ONLY <1>3, <2>1, <2>4, <2>5
    <3>2. /\ First(Parts(f, v), k + 1) = First(Parts(f, v), k) \o Parts(f, v)[k + 1]
          /\ First(Parts(f, v), k + 1) \in Seq(Symbols)
      BY <2>2, <3>1, PushedNext
    <3> QED
      BY ONLY <3>1, <3>2
  <2>7. /\ k + 1 + 1 \in 1 .. Len(f) => f[k + 1 + 1] # Percent
        /\ PlacesUpTo(f, k + 1) <= Len(v)
    <3>1. DOMAIN f = 1 .. Len(f)
      OBVIOUS
    <3> QED
      BY ONLY <1>1, <2>3, <2>4, <2>5, <3>1 DEF OpenEnd
  <2>8. At(f, v, k + 1)'
    BY ONLY <1>2, <2>1, <2>4, <2>5, <2>6, <2>7 DEF At
  <2>9. k + 1 \in 0 .. Len(f)
    BY ONLY <1>1, <2>2
  <2> QED
    BY <2>8, <2>9
<1>9. CASE Escape
  <2>1. /\ Len(s) > 1 /\ s[1] = Percent /\ s[2] = Percent /\ pushed' = pushed \o <<s[2]>>
        /\ s' = Tail(Tail(s)) /\ args' = args
    BY <1>9 DEF Escape, AfterEscape, Push
  <2>2. s # <<>> /\ k + 1 \in 1 .. Len(f) /\ k + 2 \in 1 .. Len(f) /\ k + 1 # Len(f)
    BY ONLY <1>1, <2>1, k \in 0 .. Len(f)
  <2>3. f[k + 1] = Percent /\ f[k + 2] = Percent /\ s[2] = f[k + 2]
    <3>1. 2 \in 1 .. Len(f) - k
      BY ONLY <1>1, <2>2
    <3> QED
      BY ONLY <1>1, <1>6, <2>1, <2>2, <3>1
  <2>4. PICK n \in 0 .. Len(f) : n = k + 1 /\ n + 1 = k + 2
    BY ONLY <1>1, <2>2
  <2>5. /\ PlacesUpTo(f, n) = PlacesUpTo(f, k)
        /\ First(Parts(f, v), n) = pushed
        /\ RunLength(f, n) % 2 = 1
    <3>1. RunLength(f, k) % 2 = 0
      BY ONLY <1>3, <2>2, <2>3
    <3>2. /\ PlacesUpTo(f, k + 1) = PlacesUpTo(f, k)
          /\ Parts(f, v)[k + 1] = <<>>
          /\ RunLength(f, k + 1) % 2 = 1
      <4>1. k + 1 + 1 = k + 2 /\ DOMAIN f = 1 .. Len(f)
        BY <1>1
      <4>2. ~OpenEnd(f, k + 1)
        BY <2>2, <2>3, <4>1 DEF OpenEnd
      <4> QED
        BY <2>2, <2>3, <3>1, <4>2, FirstOfPair
    <3>3. First(Parts(f, v), k + 1) = First(Parts(f, v), k) \o Parts(f, v)[k + 1]
      BY <1>3, <1>5, <2>2, <3>2, PushedNext
    <3> QED
      BY ONLY <1>3, <1>5, <2>4, <3>2, <3>3
  <2>6. /\ PlacesUpTo(f, n + 1) = PlacesUpTo(f, k)
        /\ First(Parts(f, v), n + 1) = pushed \o <<f[n + 1]>>
        /\ First(Parts(f, v), n + 1) \in Seq(Symbols)
        /\ RunLength(f, n + 1) % 2 = 0
    <3>1. n + 1 \in 1 .. Len(f) /\ f[n + 1] = Percent
      BY ONLY <2>2, <2>3, <2>4
    <3>2. /\ PlacesUpTo(f, n + 1) = PlacesUpTo(f, n)
          /\ Parts(f, v)[n + 1] = <<f[n + 1]>>
          /\ RunLength(f, n + 1) % 2 = 0
      BY <2>5, <3>1, SecondOfPair
    <3>3. First(Parts(f, v), n) \in Seq(Symbols) /\ Parts(f, v)[n + 1] \in Seq(Symbols)
      BY ONLY <1>3, <1>4, <2>5, <3>1, <3>2
    <3>4. /\ First(Parts(f, v), n + 1) = First(Parts(f, v), n) \o Parts(f, v)[n + 1]
          /\ First(Parts(f, v), n + 1) \in Seq(Symbols)
      BY <3>1, <3>3, PushedNext
    <3> QED
      BY ONLY <2>5, <3>2, <3>4
  <2>7. s' = Rest(f, n + 1)
    <3>1. Rest(f, n) # <<>>
      <4>1. Rest(f, n) = <<>> <=> n = Len(f)
        BY Suffix
      <4> QED
        BY ONLY <2>2, <2>4, <4>1
    <3>2. Tail(Rest(f, n)) = Rest(f, n + 1)
      BY <3>1, Suffix
    <3> QED
      BY ONLY <1>2, <2>1, <2>2, <2>4, <3>2
  <2>8. At(f, v, n + 1)'
    BY ONLY <1>3, <2>1, <2>3, <2>4, <2>6, <2>7 DEF At
  <2>9. n + 1 \in 0 .. Len(f)
    BY ONLY <1>1, <2>2, <2>4
  <2> QED
    BY <2>8, <2>9
<1> QED
  BY <1>7, <1>8, <1>9

(* The end of a call, at the end of the format or at a placeholder without *)
(* a value.                                                                *)
LEMMA CallEnds ==
  ASSUME NEW f \in Seq(Char \cup {Percent}), NEW v \in Seq(Seq(Element)),
         NEW k \in 0 .. Len(f), At(f, v, k)
  PROVE  /\ s = <<>> /\ args = <<>> =>
              Cardinality(Places(f)) = Len(v) /\ pushed = Text(f, v)
         /\ s = <<>> /\ args # <<>> => Cardinality(Places(f)) < Len(v)
         /\ Placeholder /\ args = <<>> => Cardinality(Places(f)) > Len(v)
<1>1. /\ Len(f) \in Nat /\ Len(v) \in Nat /\ PlacesUpTo(f, k) \in 0 .. Len(v)
      /\ Len(s) = Len(f) - k /\ \A j \in 1 .. Len(f) - k : s[j] = f[k + j]
      /\ s = <<>> <=> k = Len(f)
  BY WhatIsLeft
<1>2. args = <<>> <=> PlacesUpTo(f, k) = Len(v)
  BY WhatIsLeft
<1>3. /\ Cardinality(Places(f)) \in Nat
      /\ PlacesUpTo(f, Len(f)) = Cardinality(Places(f))
  BY Placed
<1>4. ASSUME s = <<>>, args # <<>> PROVE Cardinality(Places(f)) < Len(v)
  BY ONLY <1>1, <1>2, <1>3, <1>4
<1>5. ASSUME s = <<>>, args = <<>> PROVE Cardinality(Places(f)) = Len(v) /\ pushed = Text(f, v)
  <2>1. Cardinality(Places(f)) = Len(v) /\ k = Len(f)
    BY ONLY <1>1, <1>2, <1>3, <1>5
  <2>2. pushed = First(Parts(f, v), Len(f))
    BY <2>1 DEF At
  <2>3. Len(Parts(f, v)) = Len(f)
    BY <1>1 DEF Parts
  <2>4. Text(f, v) = FlattenSeq(Parts(f, v))
    BY DEF Text, Parts
  <2>5. FlattenSeq(Parts(f, v)) =
          IF Len(Parts(f, v)) = 0 THEN Parts(f, v) ELSE First(Parts(f, v), Len(Parts(f, v)))
    <3>1. Len(Parts(f, v)) \in Nat
      BY <1>1, <2>3
    <3> QED
      BY <3>1, FirstIs, Zenon
  <2>6. Len(f) = 0 => Parts(f, v) = <<>> /\ First(Parts(f, v), Len(f)) = <<>>
    <3>1. ASSUME Len(f) = 0 PROVE Parts(f, v) = <<>>
      BY <3>1 DEF Parts
    <3> QED
      BY <3>1 DEF First
  <2> QED
    BY ONLY <2>1, <2>2, <2>3, <2>4, <2>5, <2>6
<1>6. ASSUME Placeholder, args = <<>> PROVE Cardinality(Places(f)) > Len(v)
  <2>1. s # <<>> /\ s[1] = Percent /\ ~(Len(s) > 1 /\ s[2] = Percent)
    BY <1>6 DEF Placeholder
  <2>2. 1 \in 1 .. Len(f) - k /\ k + 1 \in 1 .. Len(f)
    BY ONLY <1>1, <2>1, k \in 0 .. Len(f)
  <2>3. f[k + 1] = Percent
    BY ONLY <1>1, <2>1, <2>2
  <2>4. OpenEnd(f, k + 1)
    <3> SUFFICES ASSUME k + 2 \in 1 .. Len(f) PROVE f[k + 2] # Percent
      <4>1. k + 1 + 1 = k + 2 /\ DOMAIN f = 1 .. Len(f)
        BY <1>1
      <4> QED
        BY <4>1 DEF OpenEnd
    <3>1. Len(s) > 1 /\ 2 \in 1 .. Len(f) - k
      BY ONLY <1>1, k + 2 \in 1 .. Len(f), k \in 0 .. Len(f)
    <3> QED
      BY ONLY <1>1, <2>1, <3>1
  <2>5. RunLength(f, k) % 2 = 0
    BY <2>2, <2>3 DEF At
  <2>6. PlacesUpTo(f, k + 1) = PlacesUpTo(f, k) + 1
    BY <2>2, <2>3, <2>4, <2>5, PlaceholderPart
  <2>7. PlacesUpTo(f, k + 1) <= Cardinality(Places(f))
    <3>1. k + 1 \in 0 .. Len(f)
      BY ONLY <1>1, <2>2
    <3> QED
      BY <3>1, Placed
  <2> QED
    BY ONLY <1>1, <1>2, <1>3, <1>6, <2>6, <2>7
<1> QED
  BY <1>4, <1>5, <1>6

(* A call returns if and only if there are as many values as placeholders, *)
(* having pushed the text they stand for, and dies of the complaint that   *)
(* is true: for every format, of whatever characters and length, and every *)
(* list of values, of whatever elements.                                   *)
THEOREM CallsAsWritten == CallSpec => []CallAsWritten
<1>1. CallInit => CallInv
  BY CallStarts
<1>2. CallInv /\ [CallNext]_callVars => CallInv'
  <2> SUFFICES ASSUME CallInv, [CallNext]_callVars PROVE CallInv'
    OBVIOUS
  <2>1. /\ format \in Formats /\ format \in Seq(Char \cup {Percent})
        /\ values \in ArgLists /\ values \in Seq(Seq(Element))
    BY FormatsAssumption, ArgListsAssumption DEF CallInv
  <2>2. PICK k \in 0 .. Len(format) : At(format, values, k)
    BY DEF CallInv
  <2>3. CASE Escape \/ Literal \/ Substitute
    <3>1. format' = format /\ values' = values /\ pc = "log" /\ pc' = pc
      BY <2>3 DEF Escape, Literal, Substitute
    <3>2. PICK f, v : f = format /\ v = values
      OBVIOUS
    <3>3. \E j \in 0 .. Len(f) : At(f, v, j)'
      BY ONLY <2>1, <2>2, <2>3, <3>2, CallStep
    <3>4. \E j \in 0 .. Len(format)' : At(format, values, j)'
      BY <3>1, <3>2, <3>3 DEF At
    <3>5. CallAsWritten'
      BY <3>1 DEF CallAsWritten
    <3> QED
      BY <2>1, <3>1, <3>4, <3>5 DEF CallInv
  <2>4. CASE Missing \/ EndOfFormat
    <3>1. /\ format' = format /\ values' = values /\ s' = s /\ args' = args /\ pushed' = pushed
          /\ \/ Placeholder /\ args = <<>> /\ pc' = "missing"
             \/ s = <<>> /\ args = <<>> /\ pc' = "returned"
             \/ s = <<>> /\ args # <<>> /\ pc' = "extra"
      BY <2>4 DEF Missing, EndOfFormat, End
    <3>2. \E j \in 0 .. Len(format)' : At(format, values, j)'
      BY <2>2, <3>1 DEF At
    <3>3. /\ s = <<>> /\ args = <<>> =>
               Cardinality(Places(format)) = Len(values) /\ pushed = Text(format, values)
          /\ s = <<>> /\ args # <<>> => Cardinality(Places(format)) < Len(values)
          /\ Placeholder /\ args = <<>> => Cardinality(Places(format)) > Len(values)
      BY ONLY <2>1, <2>2, CallEnds
    <3>4. CallAsWritten'
      BY <3>1, <3>3 DEF CallAsWritten
    <3> QED
      BY <2>1, <3>1, <3>2, <3>4 DEF CallInv
  <2>5. CASE UNCHANGED callVars
    <3>1. /\ format' = format /\ values' = values /\ s' = s /\ args' = args /\ pushed' = pushed
          /\ pc' = pc
      BY <2>5 DEF callVars
    <3>2. \E j \in 0 .. Len(format)' : At(format, values, j)'
      BY <2>2, <3>1 DEF At
    <3>3. CallAsWritten'
      BY <3>1 DEF CallInv, CallAsWritten
    <3> QED
      BY <2>1, <3>1, <3>2, <3>3 DEF CallInv
  <2> QED
    BY <2>3, <2>4, <2>5 DEF CallNext
<1>3. CallInv => CallAsWritten
  BY DEF CallInv
<1> QED
  BY <1>1, <1>2, <1>3, PTL DEF CallSpec

-----------------------------------------------------------------------------
(* The logger and its two threads. *)
USE CapacityAssumption, SizeModAssumption, BlankAssumption,
    MaxPushesAssumption

-----------------------------------------------------------------------------
(* The inductive invariant.  Its first three parts hold however far the    *)
(* main thread gets ahead, the last two until it laps the logger thread.   *)

(* The thread is stopped by the destructor and by nobody else, and it is   *)
(* gone before the file is closed.                                         *)
Threads ==
  /\ mpc \in {"fill", "count"} => i < MaxPushes
  /\ running <=> mpc \notin {"join", "closed"}
  /\ fpc = "done" => ~running
  /\ mpc = "closed" => fpc = "done" /\ stream = <<>>
  /\ fpc = "abort" => overran /\ MaxPushes >= SizeMod

(* The counter has counted n in and not out, and may have gone round. *)
Counts(n) == Shows(SizeMod, store_size, n)

(* An element released and still counted in. *)
Uncounted == IF fpc \in {"check", "uncount", "abort"} THEN 1 ELSE 0

(* The counter has counted every element in and out; it may have gone      *)
(* round.  The logger thread takes only what it was told of.               *)
Counter ==
  /\ released <= i
  /\ fpc \in {"write", "release"} => released < i
  /\ fpc \in {"check", "uncount"} => released > 0
  /\ Counts(i - released + Uncounted)

(* Elements the logger thread has written. *)
Written == released + (IF fpc = "release" THEN 1 ELSE 0)

(* One element is written for each one released, from the slot the read    *)
(* index is at.                                                            *)
Writing ==
  /\ Len(disk) + Len(stream) = Written
  /\ fpc = "test" => next \in {NullPtr, next_read_index}
  /\ fpc \in {"write", "release"} => next = next_read_index

(* The slot x places on, for a distance that wraps at most once. *)
Wrap(x) == IF x < Capacity THEN x ELSE x - Capacity

(* Elements published and not yet released. *)
Waiting == Published - released

(* While the ring has held them all, the slots between the indices hold    *)
(* the waiting elements in order, and the next slot the words stored so    *)
(* far of the one being pushed.                                            *)
Ring ==
  /\ Waiting < Capacity
  /\ next_write_index = Wrap(next_read_index + Waiting)
  /\ \A k \in 0 .. Waiting - 1 :
       store[Wrap(next_read_index + k)] = Whole(released + k)
  /\ mpc = "fill" => \A w \in Word \ wleft : store[next_write_index][w] = i

(* What the logger thread has in its hands and in the file is right, and   *)
(* the destructor has waited for all of it.                                *)
Output ==
  /\ fpc = "write" => \A w \in Word \ cleft : got[w] = released
  /\ InOrder(disk \o stream)
  /\ mpc \in {"stop", "join", "closed"} =>
       released = i /\ fpc \notin {"write", "release", "check", "uncount"}

LogInv ==
  /\ TypeOK
  /\ Threads
  /\ Counter
  /\ Writing
  /\ ~overran => Ring /\ Output

USE DEF Slot

LEMMA Advance ==
  ASSUME NEW a \in Slot
  PROVE  (a + 1) % Capacity = Wrap(a + 1)
BY WrapInc DEF Wrap

LEMMA LogInit == Init => LogInv
<1> SUFFICES ASSUME Init PROVE LogInv
  OBVIOUS
<1> USE DEF Init, QueueInit
<1>1. TypeOK
  BY DEF TypeOK, QueueTypeOK, NullPtr, Whole, Elem
<1>2. /\ i = 0 /\ store_size = 0 /\ released = 0 /\ ~overran
      /\ mpc = "ready" /\ fpc = "loop" /\ running = TRUE
      /\ next_read_index = 0 /\ next_write_index = 0
  OBVIOUS
<1>3. Len(disk) = 0 /\ Len(stream) = 0 /\ Len(disk \o stream) = 0
  <2>1. disk = <<>> /\ stream = <<>> /\ disk \o stream = <<>>
    BY ConcatEmptySeq, EmptySeq
  <2> QED
    BY ONLY EmptyLen, <2>1, Zenon
<1> HIDE DEF Init, QueueInit
<1>4. Threads /\ Counter
  BY <1>2 DEF Threads, Counter, Counts, Shows, Uncounted
<1>5. Writing
  BY <1>2, <1>3 DEF Writing, Written
<1>6. Ring /\ Output
  BY <1>2, <1>3 DEF Ring, Output, Waiting, Published, Wrap, InOrder
<1> QED
  BY <1>1, <1>4, <1>5, <1>6 DEF LogInv

-----------------------------------------------------------------------------
(* What a step that is not about a part of the invariant leaves alone. *)

LEMMA CounterKept ==
  ASSUME Counter, UNCHANGED <<store_size, released, i>>, Uncounted' = Uncounted,
         (fpc \in {"write", "release"})' => released < i,
         (fpc \in {"check", "uncount"})' => released > 0
  PROVE  Counter'
BY DEF Counter, Counts, Shows

LEMMA RingKept ==
  ASSUME Ring, UNCHANGED <<queueVars, released, i, wleft>>, Published' = Published,
         mpc' = "fill" => mpc = "fill"
  PROVE  Ring'
<1>1. Waiting' = Waiting
  BY DEF Waiting
<1> QED
  BY <1>1 DEF Ring, queueVars, Wrap, Whole

LEMMA WritingKept ==
  ASSUME Writing, UNCHANGED <<fileVars, threadVars, released, next_read_index>>
  PROVE  Writing'
BY DEF Writing, Written, fileVars, threadVars

LEMMA OutputKept ==
  ASSUME Output, UNCHANGED <<fileVars, threadVars, released>>, i' = i,
         mpc' \in {"stop", "join", "closed"} => mpc \in {"stop", "join", "closed"}
  PROVE  Output'
BY DEF Output, fileVars, threadVars, InOrder, Whole

(* The counter is never above what waits, and has not gone round while the *)
(* ring holds every element.                                               *)
LEMMA CounterTrue ==
  ASSUME LogInv
  PROVE  /\ i - released + Uncounted \in Nat
         /\ store_size # 0 => i - released + Uncounted > 0
         /\ ~overran => store_size = i - released + Uncounted
         /\ MaxPushes < SizeMod /\ fpc = "check" => store_size # 0
<1>1. /\ i \in Nat /\ released \in Nat /\ Uncounted \in {0, 1} /\ released <= i
      /\ store_size \in 0 .. SizeMod - 1
  BY DEF LogInv, TypeOK, QueueTypeOK, Uncounted, Counter
<1>2. i - released + Uncounted \in Nat /\ Counts(i - released + Uncounted)
  BY <1>1 DEF LogInv, Counter
<1>3. /\ i - released + Uncounted < SizeMod => store_size = i - released + Uncounted
      /\ store_size # 0 => i - released + Uncounted > 0
  BY <1>1, <1>2, CountExact DEF Counts
<1>4. ~overran => i - released + Uncounted < SizeMod
  BY <1>1 DEF LogInv, Ring, Waiting, Published
<1>5. MaxPushes < SizeMod /\ fpc = "check" => i - released + Uncounted \in 1 .. SizeMod - 1
  BY <1>1 DEF LogInv, TypeOK, Uncounted, Counter
<1> QED
  BY <1>1, <1>2, <1>3, <1>4, <1>5

(* Handing the buffer to the file changes neither what was written nor how *)
(* much it is.                                                             *)
LEMMA FlushKeeps ==
  ASSUME disk \in Seq(Elem), stream \in Seq(Elem),
         disk' = disk \o stream, stream' = <<>>
  PROVE  /\ Len(disk') + Len(stream') = Len(disk) + Len(stream)
         /\ disk' \o stream' = disk \o stream
<1>1. disk \o stream \in Seq(Elem) /\ Len(disk \o stream) = Len(disk) + Len(stream)
  BY ConcatProperties
<1>2. (disk \o stream) \o <<>> = disk \o stream
  BY <1>1, ConcatEmptySeq
<1>3. Len(stream') = 0
  BY EmptyLen
<1>4. Len(disk) \in Nat /\ Len(stream) \in Nat
  BY LenProperties
<1> QED
  BY <1>1, <1>2, <1>3, <1>4

-----------------------------------------------------------------------------
(* The main thread. *)

LEMMA TypeMain == LogInv /\ Main => TypeOK'
<1> SUFFICES ASSUME LogInv, Main PROVE TypeOK'
  OBVIOUS
<1> USE DEF LogInv, TypeOK, QueueTypeOK, Elem, queueVars, threadVars, fileVars, history
<1>1. CASE PushValue
  BY <1>1 DEF PushValue
<1>6. CASE Fatal \/ Destroy
  BY <1>6 DEF Fatal, Destroy
<1>7. CASE QueueDrained
  BY <1>7 DEF QueueDrained
<1>8. CASE StopThread
  BY <1>8 DEF StopThread
<1>2. ASSUME NEW w \in Word, CopyWord(w)
      PROVE  TypeOK'
  BY <1>2 DEF CopyWord, StoreWord, GetNextToWriteTo
<1>3. CASE Publish
  BY <1>3 DEF Publish, AdvanceWriteIndex
<1>4. CASE Count
  BY <1>4 DEF Count, IncrementSize, Threads
<1>5. CASE JoinAndClose
  BY <1>5, ConcatProperties, EmptySeq DEF JoinAndClose
<1> QED
  BY <1>1, <1>2, <1>3, <1>4, <1>5, <1>6, <1>7, <1>8 DEF Main, InsideCall

(* The steps that only move the main thread on. *)
LEMMA InvMove ==
  ASSUME LogInv, PushValue \/ Fatal \/ Destroy \/ StopThread
  PROVE  LogInv'
<1> USE DEF LogInv, PushValue, Fatal, Destroy, StopThread, queueVars, history
<1>1. TypeOK'
  BY TypeMain DEF Main, InsideCall
<1>2. Threads'
  BY DEF Threads, threadVars, fileVars, Alive
<1>3. Counter'
  BY CounterKept DEF Counter, Uncounted, threadVars
<1>4. Writing'
  BY WritingKept
<1>5. ~overran' => Ring'
  <2> SUFFICES ASSUME ~overran PROVE Ring'
    OBVIOUS
  <2>1. CASE PushValue
    BY <2>1 DEF Ring, Waiting, Published, Wrap, Whole
  <2>2. CASE ~PushValue
    BY <2>2, RingKept DEF Published
  <2> QED
    BY <2>1, <2>2
<1>6. ~overran' => Output'
  BY OutputKept
<1> QED
  BY <1>1, <1>2, <1>3, <1>4, <1>5, <1>6

(* A word lands in the slot past the waiting elements. *)
LEMMA InvCopy ==
  ASSUME LogInv, NEW w \in Word, CopyWord(w)
  PROVE  LogInv'
<1> USE DEF LogInv, CopyWord, StoreWord, history
<1>1. TypeOK'
  BY TypeMain DEF Main, InsideCall
<1>2. Threads'
  BY DEF Threads, threadVars, fileVars, Alive
<1>3. Counter'
  BY CounterKept DEF Counter, Uncounted, threadVars
<1>4. Writing'
  BY WritingKept
<1>5. ASSUME ~overran PROVE Ring'
  <2>1. /\ Waiting' = Waiting /\ Waiting \in Int /\ Waiting >= 0
        /\ next_read_index \in Slot /\ next_write_index \in Slot
        /\ store \in [Slot -> [Word -> Nat \cup {Blank}]]
    BY DEF TypeOK, QueueTypeOK, Waiting, Published, Counter
  <2>2. /\ \A x \in Slot : x # next_write_index => store'[x] = store[x]
        /\ store'[next_write_index] = [store[next_write_index] EXCEPT ![w] = i]
    BY <2>1 DEF GetNextToWriteTo
  <2>3. ASSUME NEW k \in 0 .. Waiting - 1
        PROVE  store'[Wrap(next_read_index + k)] = Whole(released + k)
    <3>1. /\ Wrap(next_read_index + k) \in Slot
          /\ Wrap(next_read_index + k) # next_write_index
      BY <1>5, <2>1 DEF Ring, Wrap
    <3>2. store'[Wrap(next_read_index + k)] = store[Wrap(next_read_index + k)]
      BY <2>2, <3>1
    <3> QED
      BY <1>5, <3>2 DEF Ring
  <2>4. \A v \in Word \ wleft' : store'[next_write_index][v] = i
    BY <1>5, <2>1, <2>2 DEF Ring
  <2> QED
    BY <1>5, <2>1, <2>3, <2>4 DEF Ring, Wrap, Whole
<1>6. ~overran' => Output'
  BY OutputKept
<1> QED
  BY <1>1, <1>2, <1>3, <1>4, <1>5, <1>6

(* The element is whole when the write index moves over it, and overran    *)
(* notices when that fills the ring.                                       *)
LEMMA InvPublish == LogInv /\ Publish => LogInv'
<1> SUFFICES ASSUME LogInv, Publish PROVE LogInv'
  OBVIOUS
<1> USE DEF LogInv, Publish, AdvanceWriteIndex
<1>1. TypeOK'
  BY TypeMain DEF Main, InsideCall
<1>2. Threads'
  BY DEF Threads, threadVars, fileVars, Alive
<1>3. Counter'
  BY CounterKept DEF Counter, Uncounted, threadVars
<1>4. Writing'
  BY WritingKept
<1>5. ASSUME ~overran' PROVE Ring'
  <2>1. /\ Waiting' = Waiting + 1 /\ Waiting = i - released /\ Waiting >= 0
        /\ i \in Nat /\ released \in Nat
        /\ next_read_index \in Slot /\ next_write_index \in Slot
        /\ store \in [Slot -> [Word -> Nat \cup {Blank}]]
    BY DEF TypeOK, QueueTypeOK, Waiting, Published, Counter
  <2>2. Ring /\ Waiting + 1 < Capacity
    <3>1. ~overran /\ ~(i + 1 - released >= Capacity)
      BY ONLY <1>5, Publish, Zenon DEF Publish
    <3> QED
      BY <2>1, <3>1
  <2>3. next_write_index' = Wrap(next_write_index + 1)
    BY <2>1, Advance
  <2>4. next_write_index' = Wrap(next_read_index + (Waiting + 1))
    <3>1. next_write_index = Wrap(next_read_index + Waiting)
      BY <2>2 DEF Ring
    <3> QED
      BY ONLY <2>1, <2>2, <2>3, <3>1, CapacityAssumption DEF Wrap
  <2>5. store[next_write_index] = Whole(i)
    BY <2>1, <2>2 DEF Copied, Ring, Whole
  <2>6. ASSUME NEW k \in 0 .. Waiting
        PROVE  store[Wrap(next_read_index + k)] = Whole(released + k)
    <3>1. CASE k = Waiting
      BY <2>1, <2>2, <2>5, <3>1 DEF Ring
    <3>2. CASE k # Waiting
      BY <2>1, <2>2, <3>2 DEF Ring
    <3> QED
      BY <3>1, <3>2
  <2>7. \A k \in 0 .. Waiting' - 1 : store[Wrap(next_read_index + k)] = Whole(released + k)
    BY <2>1, <2>6
  <2>8. \A k : /\ (Wrap(next_read_index + k))' = Wrap(next_read_index + k)
               /\ (Whole(released + k))' = Whole(released + k)
    BY DEF Wrap, Whole
  <2>9. Waiting' < Capacity /\ next_write_index' = (Wrap(next_read_index + Waiting))'
    BY <2>1, <2>2, <2>4, <2>8
  <2>10. mpc' = "count" /\ store' = store
    OBVIOUS
  <2> QED
    BY ONLY <2>7, <2>8, <2>9, <2>10 DEF Ring
<1>6. ~overran' => Output'
  BY OutputKept
<1> QED
  BY <1>1, <1>2, <1>3, <1>4, <1>5, <1>6

LEMMA InvCount == LogInv /\ Count => LogInv'
<1> SUFFICES ASSUME LogInv, Count PROVE LogInv'
  OBVIOUS
<1> USE DEF LogInv, Count, IncrementSize, history
<1>1. TypeOK'
  BY TypeMain DEF Main, InsideCall
<1>2. Threads'
  BY DEF Threads, threadVars, fileVars, Alive
<1>3. Counter'
  <2>1. /\ i - released + Uncounted \in Nat /\ i \in Nat /\ released \in Nat
        /\ Uncounted' = Uncounted /\ Uncounted \in {0, 1}
        /\ store_size \in 0 .. SizeMod - 1
    BY CounterTrue DEF TypeOK, QueueTypeOK, Uncounted, threadVars
  <2>2. PICK n \in Nat : n = i - released + Uncounted
    BY <2>1
  <2>3. Counts(n + 1)'
    <3>1. Counts(n)
      BY <2>2 DEF Counter
    <3>2. Shows(SizeMod, (store_size + 1) % SizeMod, n + 1)
      BY <2>1, <2>2, <3>1, CountUp DEF Counts
    <3> QED
      BY <3>2 DEF Counts
  <2>4. i' - released' + Uncounted' = n + 1
    BY <2>1, <2>2
  <2>5. Counts(i - released + Uncounted)'
    BY ONLY <2>3, <2>4 DEF Counts
  <2> QED
    BY <2>1, <2>5 DEF Counter, threadVars
<1>4. Writing'
  BY WritingKept
<1>5. ASSUME ~overran PROVE Ring'
  <2>1. Waiting' = Waiting
    BY DEF Waiting, Published, TypeOK
  <2> QED
    BY <1>5, <2>1 DEF Ring, Wrap, Whole
<1>6. ~overran' => Output'
  BY DEF Output, threadVars, fileVars, InOrder, Whole
<1> QED
  BY <1>1, <1>2, <1>3, <1>4, <1>5, <1>6

(* size() is zero: nothing waits and nothing is in the thread's hands. *)
LEMMA InvDrained == LogInv /\ QueueDrained => LogInv'
<1> SUFFICES ASSUME LogInv, QueueDrained PROVE LogInv'
  OBVIOUS
<1> USE DEF LogInv, QueueDrained, history
<1>1. TypeOK'
  BY TypeMain DEF Main, InsideCall
<1>2. Threads'
  BY DEF Threads, threadVars, fileVars, Alive
<1>3. Counter'
  BY CounterKept DEF Counter, Uncounted, threadVars, queueVars
<1>4. Writing'
  BY WritingKept DEF queueVars
<1>5. ~overran' => Ring'
  BY RingKept DEF Published
<1>6. ASSUME ~overran PROVE Output'
  <2>1. i - released + Uncounted = 0 /\ released <= i /\ i \in Nat /\ released \in Nat
    BY <1>6, CounterTrue DEF Drained, Size, Counter, TypeOK
  <2>2. released = i /\ Uncounted = 0
    BY <2>1 DEF Uncounted
  <2>3. fpc \notin {"write", "release", "check", "uncount"}
    BY <2>1, <2>2 DEF Uncounted, Counter
  <2> QED
    BY <1>6, <2>2, <2>3 DEF Output, threadVars, fileVars, InOrder, Whole
<1> QED
  BY <1>1, <1>2, <1>3, <1>4, <1>5, <1>6

(* The file is closed with all that was written in it. *)
LEMMA InvClose == LogInv /\ JoinAndClose => LogInv'
<1> SUFFICES ASSUME LogInv, JoinAndClose PROVE LogInv'
  OBVIOUS
<1> USE DEF LogInv, JoinAndClose, history
<1>1. TypeOK'
  BY TypeMain DEF Main, InsideCall
<1>2. Threads'
  BY DEF Threads, threadVars
<1>3. Counter'
  BY CounterKept DEF Counter, Uncounted, threadVars, queueVars
<1>4. Writing' /\ disk' \o stream' = disk \o stream
  BY FlushKeeps DEF Writing, Written, threadVars, TypeOK, queueVars
<1>5. ~overran' => Ring'
  BY RingKept DEF Published
<1>6. ~overran' => Output'
  BY <1>4 DEF Output, threadVars, InOrder, Whole
<1> QED
  BY <1>1, <1>2, <1>3, <1>4, <1>5, <1>6

LEMMA InvMain == LogInv /\ Main => LogInv'
BY InvMove, InvCopy, InvPublish, InvCount, InvDrained, InvClose DEF Main, InsideCall

-----------------------------------------------------------------------------
(* The logger thread. *)

LEMMA TypeThread == LogInv /\ LoggerThread => TypeOK'
<1> SUFFICES ASSUME LogInv, LoggerThread PROVE TypeOK'
  OBVIOUS
<1> USE DEF LogInv, TypeOK, QueueTypeOK, Elem, queueVars, mainVars, fileVars, history
<1>1. CASE TestRunning
  BY <1>1 DEF TestRunning
<1>2. CASE Peek
  BY <1>2 DEF Peek, GetNextToRead
<1>3. CASE TestNext
  BY <1>3 DEF TestNext, Whole
<1>4. ASSUME NEW w \in Word, ReadWord(w)
      PROVE  TypeOK'
  <2>1. next \in Slot
    BY <1>4 DEF ReadWord, Writing
  <2> QED
    BY <1>4, <2>1 DEF ReadWord
<1>5. CASE WriteOut
  <2>1. disk \o stream \in Seq(Elem)
    BY ConcatProperties
  <2>2. /\ Append(disk \o stream, got) \in Seq(Elem)
        /\ Append(stream, got) \in Seq(Elem)
        /\ <<>> \in Seq(Elem)
    BY <2>1, EmptySeq, AppendProperties
  <2>3. stream' \in Seq(Elem) /\ disk' \in Seq(Elem)
    BY <1>5, <2>2 DEF WriteOut
  <2> QED
    BY <1>5, <2>3 DEF WriteOut
<1>6. CASE Release
  BY <1>6 DEF Release, AdvanceReadIndex, Counter
<1>7. CASE CheckSize
  BY <1>7 DEF CheckSize
<1>8. CASE Uncount
  BY <1>8 DEF Uncount, DecrementSize
<1>9. CASE Flush
  BY <1>9, ConcatProperties, EmptySeq DEF Flush, FlushBuffer
<1> QED
  BY <1>1, <1>2, <1>3, <1>4, <1>5, <1>6, <1>7, <1>8, <1>9 DEF LoggerThread

LEMMA InvTestRunning == LogInv /\ TestRunning => LogInv'
<1> SUFFICES ASSUME LogInv, TestRunning PROVE LogInv'
  OBVIOUS
<1> USE DEF LogInv, TestRunning, history, queueVars, mainVars, fileVars
<1>1. TypeOK'
  BY TypeThread DEF LoggerThread
<1>2. Threads'
  BY DEF Threads
<1>3. Counter'
  BY CounterKept DEF Uncounted
<1>4. Writing'
  BY DEF Writing, Written
<1>5. ~overran' => Ring'
  BY RingKept DEF Published
<1>6. ~overran' => Output'
  BY DEF Output, InOrder, Whole
<1> QED
  BY <1>1, <1>2, <1>3, <1>4, <1>5, <1>6

LEMMA InvPeek == LogInv /\ Peek => LogInv'
<1> SUFFICES ASSUME LogInv, Peek PROVE LogInv'
  OBVIOUS
<1> USE DEF LogInv, Peek, GetNextToRead, history, queueVars, mainVars, fileVars
<1>1. TypeOK'
  BY TypeThread DEF LoggerThread
<1>2. Threads'
  BY DEF Threads
<1>3. Counter'
  BY CounterKept DEF Uncounted
<1>4. Writing'
  BY DEF Writing, Written
<1>5. ~overran' => Ring'
  BY RingKept DEF Published
<1>6. ~overran' => Output'
  BY DEF Output, InOrder, Whole
<1> QED
  BY <1>1, <1>2, <1>3, <1>4, <1>5, <1>6

(* The counter is not zero: an element waits that is counted in, and no    *)
(* destructor has seen the queue drained.                                  *)
LEMMA InvTestNext == LogInv /\ TestNext => LogInv'
<1> SUFFICES ASSUME LogInv, TestNext PROVE LogInv'
  OBVIOUS
<1> USE DEF LogInv, TestNext, More, Size, history, queueVars, mainVars, fileVars
<1>1. TypeOK'
  BY TypeThread DEF LoggerThread
<1>2. Threads'
  BY DEF Threads
<1>3. Uncounted = 0 /\ (fpc' = "write" => released < i)
  BY CounterTrue DEF Uncounted, Counter, TypeOK
<1>4. Counter'
  BY <1>3, CounterKept DEF Uncounted
<1>5. Writing'
  BY DEF Writing, Written
<1>6. ~overran' => Ring'
  BY RingKept DEF Published
<1>7. ~overran' => Output'
  BY <1>3 DEF Output, InOrder, Whole, TypeOK
<1> QED
  BY <1>1, <1>2, <1>4, <1>5, <1>6, <1>7

(* A word read from the slot of the oldest waiting element. *)
LEMMA InvRead ==
  ASSUME LogInv, NEW w \in Word, ReadWord(w)
  PROVE  LogInv'
<1> USE DEF LogInv, ReadWord, history, queueVars, mainVars, fileVars
<1>1. TypeOK'
  BY TypeThread DEF LoggerThread
<1>2. Threads'
  BY DEF Threads
<1>3. Counter'
  BY CounterKept DEF Uncounted, Counter
<1>4. Writing'
  BY DEF Writing, Written
<1>5. ~overran' => Ring'
  BY RingKept DEF Published
<1>6. ASSUME ~overran PROVE Output'
  <2>1. /\ next = next_read_index /\ next_read_index \in Slot
        /\ released \in Nat /\ i \in Nat /\ released < i
        /\ got \in [Word -> Nat \cup {Blank}]
    BY DEF TypeOK, QueueTypeOK, Counter, Writing, Elem
  <2>2. Waiting \in Nat /\ Waiting > 0
    BY <2>1 DEF Waiting, Published
  <2>3. store[Wrap(next_read_index + 0)] = Whole(released + 0)
    BY <1>6, <2>2 DEF Ring
  <2>4. store[next][w] = released
    BY <2>1, <2>3 DEF Wrap, Whole
  <2> QED
    BY <1>6, <2>1, <2>4 DEF Output, InOrder, Whole
<1> QED
  BY <1>1, <1>2, <1>3, <1>4, <1>5, <1>6

(* The element written is the next one, whole, whichever buffer it is in.  *)
LEMMA WriteAppends ==
  ASSUME LogInv, WriteOut
  PROVE  /\ Len(disk') + Len(stream') = Len(disk) + Len(stream) + 1
         /\ Len(disk \o stream) = Len(disk) + Len(stream)
         /\ disk' \o stream' = Append(disk \o stream, got)
<1> USE DEF LogInv, WriteOut
<1>1. /\ disk \in Seq(Elem) /\ stream \in Seq(Elem) /\ got \in Elem
      /\ Len(disk) \in Nat /\ Len(stream) \in Nat
  BY LenProperties DEF TypeOK
<1>2. /\ disk \o stream \in Seq(Elem)
      /\ Len(disk \o stream) = Len(disk) + Len(stream)
  BY <1>1, ConcatProperties
<1>3. CASE stream' = Append(stream, got) /\ UNCHANGED disk
  <2>1. Len(Append(stream, got)) = Len(stream) + 1
    BY <1>1, AppendProperties
  <2>2. /\ Append(stream, got) = stream \o <<got>>
        /\ Append(disk \o stream, got) = (disk \o stream) \o <<got>>
    BY <1>1, <1>2, AppendIsConcat
  <2>3. <<got>> \in Seq(Elem)
    BY <1>1
  <2>4. (disk \o stream) \o <<got>> = disk \o (stream \o <<got>>)
    BY <1>1, <2>3, ConcatAssociative
  <2> QED
    BY <1>1, <1>2, <1>3, <2>1, <2>2, <2>4
<1>4. CASE disk' = Append(disk \o stream, got) /\ stream' = <<>>
  <2>1. /\ Append(disk \o stream, got) \in Seq(Elem)
        /\ Len(Append(disk \o stream, got)) = Len(disk \o stream) + 1
    BY <1>1, <1>2, AppendProperties
  <2>2. Append(disk \o stream, got) \o <<>> = Append(disk \o stream, got)
    BY <2>1, ConcatEmptySeq
  <2>3. Len(stream') = 0
    BY <1>4, EmptyLen
  <2> QED
    BY <1>1, <1>2, <1>4, <2>1, <2>2, <2>3
<1> QED
  BY <1>3, <1>4

LEMMA InvWriteOut == LogInv /\ WriteOut => LogInv'
<1> SUFFICES ASSUME LogInv, WriteOut PROVE LogInv'
  OBVIOUS
<1> USE DEF LogInv, WriteOut, history, queueVars, mainVars
<1>1. TypeOK'
  BY TypeThread DEF LoggerThread
<1>2. Threads'
  BY DEF Threads
<1>3. Counter'
  BY CounterKept DEF Uncounted, Counter
<1>4. Writing'
  BY WriteAppends DEF Writing, Written, TypeOK
<1>5. ~overran' => Ring'
  BY RingKept DEF Published
<1>6. ASSUME ~overran PROVE Output'
  <2>1. InOrder(disk \o stream) /\ got = Whole(released)
    BY <1>6 DEF Output, TypeOK, Elem, Whole
  <2>2. Len(disk \o stream) = released /\ released \in Nat
    BY WriteAppends DEF Writing, Written, TypeOK
  <2>3. disk \o stream \in Seq(Elem) /\ got \in Elem
    BY ConcatProperties DEF TypeOK
  <2>4. InOrder(Append(disk \o stream, got))
    BY <2>1, <2>2, <2>3, AppendProperties DEF InOrder
  <2>5. InOrder(disk \o stream)'
    BY <2>4, WriteAppends DEF InOrder, Whole
  <2> QED
    BY <1>6, <2>5 DEF Output, Counter, TypeOK
<1> QED
  BY <1>1, <1>2, <1>3, <1>4, <1>5, <1>6

(* The read index moves over the element that has been written. *)
LEMMA InvRelease == LogInv /\ Release => LogInv'
<1> SUFFICES ASSUME LogInv, Release PROVE LogInv'
  OBVIOUS
<1> USE DEF LogInv, Release, AdvanceReadIndex, mainVars, fileVars
<1>1. TypeOK'
  BY TypeThread DEF LoggerThread
<1>2. Threads'
  BY DEF Threads
<1>3. Counter'
  <2>1. /\ i' - released' + Uncounted' = i - released + Uncounted
        /\ released' <= i' /\ released' > 0
    BY DEF TypeOK, Counter, Uncounted
  <2> QED
    BY <2>1 DEF Counter, Counts, Shows
<1>4. Writing'
  BY DEF Writing, Written, TypeOK
<1>5. ASSUME ~overran PROVE Ring'
  <2>1. /\ Waiting' = Waiting - 1 /\ Waiting \in Nat /\ Waiting > 0
        /\ released \in Nat /\ next_read_index \in Slot
    BY DEF TypeOK, QueueTypeOK, Counter, Waiting, Published
  <2>2. next_read_index' = Wrap(next_read_index + 1)
    BY <2>1, Advance
  <2>3. Waiting < Capacity /\ next_write_index = Wrap(next_read_index + Waiting)
    BY <1>5 DEF Ring
  <2>4. next_write_index = Wrap(next_read_index' + (Waiting - 1))
    BY <2>1, <2>2, <2>3 DEF Wrap
  <2>5. ASSUME NEW k \in 0 .. Waiting - 2
        PROVE  store[Wrap(next_read_index' + k)] = Whole(released + 1 + k)
    <3>1. Wrap(next_read_index' + k) = Wrap(next_read_index + (k + 1))
      BY <2>1, <2>2, <2>3 DEF Wrap
    <3>2. k + 1 \in 0 .. Waiting - 1
      BY <2>1
    <3>3. store[Wrap(next_read_index + (k + 1))] = Whole(released + (k + 1))
      BY <1>5, <3>2 DEF Ring
    <3>4. released + (k + 1) = released + 1 + k
      BY <2>1
    <3> QED
      BY <3>1, <3>3, <3>4
  <2>6. \A k : /\ (Wrap(next_read_index + k))' = Wrap(next_read_index' + k)
               /\ (Whole(released + k))' = Whole(released + 1 + k)
    BY DEF Wrap, Whole
  <2>7. /\ Waiting' < Capacity /\ Waiting' - 1 = Waiting - 2
        /\ next_write_index' = (Wrap(next_read_index + Waiting))'
    BY <2>1, <2>3, <2>4, <2>6
  <2>8. mpc = "fill" => \A w \in Word \ wleft : store[next_write_index][w] = i
    BY <1>5 DEF Ring
  <2>9. /\ store' = store /\ mpc' = mpc /\ wleft' = wleft /\ i' = i
        /\ next_write_index' = next_write_index
    OBVIOUS
  <2> QED
    BY ONLY <2>5, <2>6, <2>7, <2>8, <2>9 DEF Ring
<1>6. ~overran' => Output'
  BY DEF Output, InOrder, Whole, TypeOK, Counter
<1> QED
  BY <1>1, <1>2, <1>3, <1>4, <1>5, <1>6

(* The ASSERT can only fail on a counter that has gone round. *)
LEMMA InvCheck == LogInv /\ CheckSize => LogInv'
<1> SUFFICES ASSUME LogInv, CheckSize PROVE LogInv'
  OBVIOUS
<1> USE DEF LogInv, CheckSize, SizeAssertHolds, history, queueVars, mainVars, fileVars
<1>1. TypeOK'
  BY TypeThread DEF LoggerThread
<1>2. Threads'
  BY CounterTrue DEF Threads, Uncounted, Counter, TypeOK
<1>3. Counter'
  BY CounterKept DEF Uncounted, Counter
<1>4. Writing'
  BY DEF Writing, Written
<1>5. ~overran' => Ring'
  BY RingKept DEF Published
<1>6. ~overran' => Output'
  BY DEF Output, InOrder, Whole
<1> QED
  BY <1>1, <1>2, <1>3, <1>4, <1>5, <1>6

LEMMA InvUncount == LogInv /\ Uncount => LogInv'
<1> SUFFICES ASSUME LogInv, Uncount PROVE LogInv'
  OBVIOUS
<1> USE DEF LogInv, Uncount, history, mainVars, fileVars
<1>1. TypeOK'
  BY TypeThread DEF LoggerThread
<1>2. Threads'
  BY DEF Threads
<1>3. Counter'
  <2>1. /\ i - released + Uncounted \in Nat \ {0} /\ Uncounted = 1 /\ Uncounted' = 0
        /\ i \in Nat /\ released \in Nat /\ released <= i
        /\ i' = i /\ released' = released
        /\ store_size \in 0 .. SizeMod - 1
    BY DEF TypeOK, QueueTypeOK, Uncounted, Counter
  <2>2. PICK n \in Nat \ {0} : n = i - released + Uncounted
    BY <2>1
  <2>3. Counts(n - 1)'
    <3>1. Counts(n)
      BY <2>2 DEF Counter
    <3>2. Shows(SizeMod, (store_size + SizeMod - 1) % SizeMod, n - 1)
      BY <2>1, <2>2, <3>1, CountDown DEF Counts
    <3> QED
      BY <3>2 DEF Counts, DecrementSize
  <2>4. i' - released' + Uncounted' = n - 1
    BY <2>1, <2>2
  <2>5. Counts(i - released + Uncounted)'
    BY ONLY <2>3, <2>4 DEF Counts
  <2> QED
    BY <2>1, <2>5 DEF Counter
<1>4. Writing'
  BY DEF Writing, Written, DecrementSize
<1>5. ~overran' => Ring'
  <2> SUFFICES ASSUME ~overran PROVE Ring'
    OBVIOUS
  <2>1. Waiting' = Waiting
    BY DEF Waiting, Published
  <2> QED
    BY <2>1 DEF Ring, Wrap, Whole, DecrementSize
<1>6. ~overran' => Output'
  BY DEF Output, InOrder, Whole
<1> QED
  BY <1>1, <1>2, <1>3, <1>4, <1>5, <1>6

LEMMA InvFlush == LogInv /\ Flush => LogInv'
<1> SUFFICES ASSUME LogInv, Flush PROVE LogInv'
  OBVIOUS
<1> USE DEF LogInv, Flush, FlushBuffer, history, queueVars, mainVars
<1>1. TypeOK'
  BY TypeThread DEF LoggerThread
<1>2. Threads'
  BY DEF Threads
<1>3. Counter'
  BY CounterKept DEF Uncounted
<1>4. Writing' /\ disk' \o stream' = disk \o stream
  BY FlushKeeps DEF Writing, Written, TypeOK
<1>5. ~overran' => Ring'
  BY RingKept DEF Published
<1>6. ~overran' => Output'
  BY <1>4 DEF Output, InOrder, Whole
<1> QED
  BY <1>1, <1>2, <1>3, <1>4, <1>5, <1>6

LEMMA InvThread == LogInv /\ LoggerThread => LogInv'
BY InvTestRunning, InvPeek, InvTestNext, InvRead, InvWriteOut, InvRelease,
   InvCheck, InvUncount, InvFlush DEF LoggerThread

-----------------------------------------------------------------------------
LEMMA LogStep == LogInv /\ [Next]_vars => LogInv'
<1> SUFFICES ASSUME LogInv, UNCHANGED vars PROVE LogInv'
  BY InvMain, InvThread DEF Next
<1> USE DEF LogInv, vars, queueVars, mainVars, threadVars, fileVars, history
<1>1. TypeOK' /\ Threads'
  BY DEF TypeOK, QueueTypeOK, Threads
<1>2. Counter'
  BY CounterKept DEF Uncounted, Counter
<1>3. Writing' /\ (~overran' => Output')
  BY WritingKept, OutputKept
<1>4. ~overran' => Ring'
  BY RingKept DEF Published
<1> QED
  BY <1>1, <1>2, <1>3, <1>4

LEMMA Invariance == Spec => []LogInv
BY LogInit, LogStep, PTL DEF Spec

(* Every variable keeps its type, lapped or not.                           *)
THEOREM TypeCorrect == Spec => []TypeOK
<1>1. LogInv => TypeOK
  BY DEF LogInv
<1> QED
  BY <1>1, Invariance, PTL

(* A logger that has kept up writes whole elements in the order log()      *)
(* pushed them, and none it was not given.                                 *)
THEOREM PrefixWritten == Spec => []WritesPrefix
<1>1. LogInv => WritesPrefix
  <2> SUFFICES ASSUME LogInv, ~overran PROVE WritesPrefix
    BY DEF WritesPrefix
  <2>1. InOrder(disk \o stream) /\ Len(disk \o stream) = Written
    BY ConcatProperties DEF LogInv, TypeOK, Output, Writing
  <2>2. Written <= Published
    BY DEF LogInv, TypeOK, Counter, Written, Published
  <2> QED
    BY <2>1, <2>2 DEF WritesPrefix
<1> QED
  BY <1>1, Invariance, PTL

(* ~Logger() loses nothing: when the file is closed, it holds every element *)
(* pushed, provided the main thread never lapped the logger thread.         *)
THEOREM DestructorComplete == Spec => []ClosedComplete
<1>1. LogInv => ClosedComplete
  <2> SUFFICES ASSUME LogInv, mpc = "closed", ~overran
               PROVE  Len(disk) = i /\ InOrder(disk)
    BY DEF ClosedComplete
  <2>1. stream = <<>> /\ disk \in Seq(Elem) /\ disk \o stream = disk
    BY ConcatEmptySeq DEF LogInv, Threads, TypeOK
  <2>2. Len(stream) = 0
    BY <2>1, EmptyLen
  <2>3. InOrder(disk \o stream) /\ released = i /\ fpc = "done"
    BY DEF LogInv, Output, Threads
  <2> QED
    BY <2>1, <2>2, <2>3, LenProperties DEF LogInv, Writing, Written, TypeOK
<1> QED
  BY <1>1, Invariance, PTL

(* updateReadIndex()'s ASSERT never fires, whether or not the queue is     *)
(* overrun, unless the program can push as many elements as size_t has     *)
(* values.                                                                 *)
THEOREM AssertHolds ==
  ASSUME MaxPushes < SizeMod
  PROVE  Spec => []AssertNeverFails
<1>1. LogInv => AssertNeverFails
  BY DEF LogInv, Threads, AssertNeverFails
<1> QED
  BY <1>1, Invariance, PTL

(* And not even then while the queue has never been overrun.               *)
THEOREM AssertHoldsInTime == Spec => [](~overran => AssertNeverFails)
<1>1. LogInv => (~overran => AssertNeverFails)
  BY DEF LogInv, Threads, AssertNeverFails
<1> QED
  BY <1>1, Invariance, PTL

(* A destructor that waits on a counter nobody will ever bring to zero     *)
(* waits for good: neither thread has a step that changes anything of it.  *)
THEOREM StuckForGood == Spec => StuckStays
<1>1. LogInv /\ [Next]_vars => [Stuck => Stuck']_vars
  <2> SUFFICES ASSUME LogInv, Next, Stuck PROVE Stuck'
    BY DEF vars
  <2> USE DEF Stuck, queueVars, mainVars, threadVars, Size
  <2>1. mpc = "drain" /\ running
    BY DEF LogInv, Threads
  <2>2. CASE Main
    BY <2>1, <2>2 DEF Main, InsideCall, PushValue, Fatal, Destroy, CopyWord, Publish,
                      Count, QueueDrained, Drained, StopThread, JoinAndClose
  <2>3. CASE LoggerThread
    <3>1. CASE TestRunning \/ Peek \/ TestNext \/ Flush
      BY <2>1, <3>1 DEF TestRunning, Peek, GetNextToRead, TestNext, More, Flush
    <3>2. CASE ~(TestRunning \/ Peek \/ TestNext \/ Flush)
      BY <2>3, <3>2 DEF LoggerThread, ReadWord, WriteOut, Release, CheckSize, Uncount
    <3> QED
      BY <3>1, <3>2
  <2> QED
    BY <2>2, <2>3 DEF Next
<1> QED
  BY <1>1, Invariance, PTL DEF Spec, StuckStays

=============================================================================
