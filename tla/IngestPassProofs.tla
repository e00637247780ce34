---------------------------- MODULE IngestPassProofs ----------------------------
(***************************************************************************)
(* Theorems about the ingest pass for any worlds, boards, page size,       *)
(* limits, faults and interleaving with sweeps, triggers, periodic jobs    *)
(* and restarts: a board that stays as it was is fetched whole and in      *)
(* order, a listing that was shown and stored stays active, the filters of *)
(* the feed and the alerts agree on every row, and a row states only pay   *)
(* that a posting states where the sources print figures with all digits.  *)
(*                                                                         *)
(* The first two parts are about the page loop: the postings that a source *)
(* keeps of two pages are those it keeps of the two together, so a fetch   *)
(* has always kept the postings of a prefix of its board.                  *)
(***************************************************************************)
EXTENDS IngestPass, FiniteSetTheorems, SequenceTheorems, WellFoundedInduction, TLAPS

-----------------------------------------------------------------------------
(* Positions in a sequence *)

Rank(I, i) == Cardinality(I \cap 1..i)

\* Positions in a sequence are finitely many.
LEMMA PositionsAreFinite ==
  ASSUME NEW L \in Nat, NEW I, I \subseteq 1..L
  PROVE  IsFiniteSet(I) /\ Cardinality(I) \in Nat
<1>1. IsFiniteSet(1..L)
  BY FS_Interval
<1>2. IsFiniteSet(I)
  BY <1>1, FS_Subset
<1> QED BY <1>2, FS_CardinalityType

\* The rank grows by one at every position of the set and nowhere else.
LEMMA RankSteps ==
  ASSUME NEW I, NEW i \in Nat
  PROVE  /\ Rank(I, i) \in Nat /\ Rank(I, 0) = 0
         /\ i + 1 \in I => Rank(I, i + 1) = Rank(I, i) + 1
         /\ i + 1 \notin I => Rank(I, i + 1) = Rank(I, i)
<1>2. IsFiniteSet(I \cap 1..i) /\ Cardinality(I \cap 1..i) \in Nat
  BY PositionsAreFinite
<1>3. Rank(I, i) \in Nat
  BY <1>2 DEF Rank
<1>4. I \cap 1..0 = {}
  OBVIOUS
<1>5. Rank(I, 0) = 0
  BY <1>4, FS_EmptySet DEF Rank
<1>6. ASSUME i + 1 \in I PROVE Rank(I, i + 1) = Rank(I, i) + 1
  <2>1. I \cap 1..(i + 1) = (I \cap 1..i) \cup {i + 1} /\ i + 1 \notin I \cap 1..i
    BY <1>6
  <2> QED BY <2>1, <1>2, FS_AddElement DEF Rank
<1>7. ASSUME i + 1 \notin I PROVE Rank(I, i + 1) = Rank(I, i)
  <2>1. I \cap 1..(i + 1) = I \cap 1..i
    BY <1>7
  <2> QED BY <2>1 DEF Rank
<1> QED BY <1>3, <1>5, <1>6, <1>7

\* Every nonempty set of naturals has a smallest element.
LEMMA SmallestIsThere ==
  ASSUME NEW T, T \subseteq Nat, T # {}
  PROVE  \E x \in T : \A y \in T : x <= y
<1>1. \E x \in T : \A y \in T : ~(<<y, x>> \in OpToRel(<, Nat))
  BY NatLessThanWellFounded, WFMin
<1>2. PICK x \in T : \A y \in T : ~(<<y, x>> \in OpToRel(<, Nat))
  BY <1>1
<1>3. ASSUME NEW y \in T PROVE x <= y
  <2>1. ~(y < x)
    BY <1>2 DEF OpToRel
  <2> QED BY <2>1
<1> QED BY <1>2, <1>3

\* A later position has no smaller rank.
LEMMA RankGrows ==
  ASSUME NEW I, NEW i \in Nat, NEW j \in Nat, i <= j
  PROVE  Rank(I, i) <= Rank(I, j)
<1>1. I \cap 1..i \subseteq I \cap 1..j
  OBVIOUS
<1>2. IsFiniteSet(I \cap 1..j)
  BY PositionsAreFinite
<1> QED BY <1>1, <1>2, FS_Subset DEF Rank

\* The n-th position of a set of positions is its only one of rank n.
LEMMA PositionIsUnique ==
  ASSUME NEW I, I \subseteq Nat \ {0}, NEW n, NEW i \in I, NEW j \in I,
         Rank(I, i) = n, Rank(I, j) = n
  PROVE  i = j
<1>1. ASSUME NEW x \in I, NEW y \in I, x < y PROVE Rank(I, x) < Rank(I, y)
  <2>1. x \in Nat /\ y - 1 \in Nat /\ x <= y - 1 /\ (y - 1) + 1 = y
    BY <1>1
  <2>2. Rank(I, x) <= Rank(I, y - 1)
    BY <2>1, RankGrows
  <2>3. Rank(I, y) = Rank(I, y - 1) + 1 /\ Rank(I, y - 1) \in Nat /\ Rank(I, x) \in Nat
    BY <2>1, RankSteps
  <2> QED BY <2>2, <2>3
<1>2. i \in Nat /\ j \in Nat /\ Rank(I, i) \in Nat
  BY RankSteps
<1> QED BY <1>1, <1>2

\* Every rank up to the number of positions has a position.
LEMMA PositionIsThere ==
  ASSUME NEW L \in Nat, NEW I, I \subseteq 1..L, NEW n \in 1..Cardinality(I)
  PROVE  Position(I, n) \in I /\ Rank(I, Position(I, n)) = n
<1> DEFINE T == {i \in Nat : Rank(I, i) >= n}
<1>0. Cardinality(I) \in Nat
  BY PositionsAreFinite
<1>1. Rank(I, L) = Cardinality(I)
  <2>1. I \cap 1..L = I
    OBVIOUS
  <2> QED BY <2>1 DEF Rank
<1>2. L \in T
  BY <1>0, <1>1
<1>3. PICK x \in T : \A y \in T : x <= y
  BY <1>2, SmallestIsThere
<1>4. x # 0 /\ x - 1 \in Nat /\ (x - 1) + 1 = x
  BY <1>3, RankSteps
<1>5. Rank(I, x - 1) \in Nat /\ ~(Rank(I, x - 1) >= n)
  BY <1>3, <1>4, RankSteps
<1>6. x \in I /\ Rank(I, x) = n
  BY <1>3, <1>4, <1>5, RankSteps
<1> QED BY <1>6 DEF Position, Rank

\* The n-th position is the one of rank n.
LEMMA PositionIs ==
  ASSUME NEW L \in Nat, NEW I, I \subseteq 1..L, NEW n \in 1..Cardinality(I), NEW i \in I,
         Rank(I, i) = n
  PROVE  Position(I, n) = i
<1>1. Position(I, n) \in I /\ Rank(I, Position(I, n)) = n
  BY PositionIsThere
<1>2. I \subseteq Nat \ {0}
  OBVIOUS
<1> QED BY <1>1, <1>2, PositionIsUnique

Shift(L, K) == {L + j : j \in K}
\* The positions I of a sequence of length L and the positions K of the next one.
Joined(L, I, K) == I \cup Shift(L, K)

\* Shifted positions are as many.
LEMMA ShiftCount ==
  ASSUME NEW L \in Nat, NEW M \in Nat, NEW K, K \subseteq 1..M
  PROVE  IsFiniteSet(Shift(L, K)) /\ Cardinality(Shift(L, K)) = Cardinality(K)
<1> DEFINE f == [j \in K |-> L + j]
<1>0. K \subseteq Nat
  OBVIOUS
<1>1. \A j, k \in K : f[j] = f[k] => j = k
  BY <1>0
<1>2. f \in [K -> Shift(L, K)] /\ \A x \in Shift(L, K) : \E j \in K : f[j] = x
  BY DEF Shift
<1>5. f \in Bijection(K, Shift(L, K))
  <2> HIDE DEF f
  <2> QED BY <1>1, <1>2 DEF Bijection, Injection, Surjection, IsInjective
<1>3. ExistsBijection(K, Shift(L, K))
  BY <1>5 DEF ExistsBijection
<1> QED BY <1>3, PositionsAreFinite, FS_Bijection

\* Which positions are shifted ones.
LEMMA InShift ==
  ASSUME NEW L \in Nat, NEW M \in Nat, NEW K, K \subseteq 1..M
  PROVE  \A x : x \in Shift(L, K) <=> x \in (L + 1)..(L + M) /\ x - L \in K
<1>1. ASSUME NEW x, x \in Shift(L, K) PROVE x \in (L + 1)..(L + M) /\ x - L \in K
  <2>1. PICK j \in K : x = L + j
    BY <1>1 DEF Shift
  <2>2. j \in 1..M /\ x - L = j
    BY <2>1
  <2> QED BY <2>1, <2>2
<1>2. ASSUME NEW x, x \in (L + 1)..(L + M), x - L \in K PROVE x \in Shift(L, K)
  <2>1. x = L + (x - L)
    BY <1>2
  <2> QED BY <1>2, <2>1 DEF Shift
<1> QED BY <1>1, <1>2

\* The positions of a concatenation, and their ranks.
LEMMA InSum ==
  ASSUME NEW L \in Nat, NEW M \in Nat, NEW I, I \subseteq 1..L, NEW K, K \subseteq 1..M
  PROVE  /\ \A y : y \in I \cup Shift(L, K) <=>
                  (y \in 1..L /\ y \in I) \/ (y \in (L + 1)..(L + M) /\ y - L \in K)
         /\ I \cap Shift(L, K) = {}
<1>1. \A y : y \in Shift(L, K) <=> y \in (L + 1)..(L + M) /\ y - L \in K
  BY InShift
<1>2. \A y \in I : y \in 1..L
  OBVIOUS
<1>3. I \cap Shift(L, K) = {}
  <2> SUFFICES ASSUME NEW y \in I, y \in Shift(L, K) PROVE FALSE
    OBVIOUS
  <2> QED BY <1>1, <1>2
<1> QED BY <1>1, <1>2, <1>3

\* The ranks in two pages: those of the first page, then those of the second.
LEMMA RankOfSum ==
  ASSUME NEW L \in Nat, NEW M \in Nat, NEW I, I \subseteq 1..L, NEW K, K \subseteq 1..M,
         NEW J, J = Joined(L, I, K)
  PROVE  /\ \A i \in 0..L : Rank(J, i) = Rank(I, i)
         /\ \A x \in 0..M : Rank(J, L + x) = Cardinality(I) + Rank(K, x)
         /\ Cardinality(J) = Cardinality(I) + Cardinality(K)
         /\ J \subseteq 1..(L + M)
<1>0. \A y : y \in J <=> (y \in 1..L /\ y \in I) \/ (y \in (L + 1)..(L + M) /\ y - L \in K)
  BY InSum DEF Joined
<1>1. ASSUME NEW i \in 0..L PROVE Rank(J, i) = Rank(I, i)
  <2>1. \A y : y \in J \cap 1..i <=> y \in I \cap 1..i
    BY <1>0
  <2>2. J \cap 1..i = I \cap 1..i
    BY <2>1
  <2> QED BY <2>2 DEF Rank
<1>2. ASSUME NEW x \in 0..M PROVE Rank(J, L + x) = Cardinality(I) + Rank(K, x)
  <2> DEFINE P == K \cap 1..x
  <2>0. P \subseteq 1..M /\ \A z : z \in P <=> z \in K /\ z \in 1..x
    OBVIOUS
  <2> HIDE DEF P
  <2>1. /\ \A y : y \in I \cup Shift(L, P) <=>
                  (y \in 1..L /\ y \in I) \/ (y \in (L + 1)..(L + M) /\ y - L \in P)
        /\ I \cap Shift(L, P) = {}
    BY <2>0, InSum
  <2>2. \A y : y \in J \cap 1..(L + x) <=> y \in I \cup Shift(L, P)
    <3>1. ASSUME NEW y \in J, y \in 1..(L + x) PROVE y \in I \cup Shift(L, P)
      <4>1. CASE y \in 1..L /\ y \in I
        BY <4>1
      <4>2. CASE y \in (L + 1)..(L + M) /\ y - L \in K
        <5>1. y - L \in P
          BY <2>0, <3>1, <4>2
        <5> QED BY <2>1, <4>2, <5>1
      <4> QED BY <1>0, <3>1, <4>1, <4>2
    <3>2. ASSUME NEW y \in I \cup Shift(L, P) PROVE y \in J /\ y \in 1..(L + x)
      <4>1. CASE y \in 1..L /\ y \in I
        BY <1>0, <4>1
      <4>2. CASE y \in (L + 1)..(L + M) /\ y - L \in P
        BY <1>0, <2>0, <4>2
      <4> QED BY <2>1, <3>2, <4>1, <4>2
    <3> QED BY <3>1, <3>2
  <2>3. J \cap 1..(L + x) = I \cup Shift(L, P)
    BY <2>2
  <2>4. IsFiniteSet(Shift(L, P)) /\ Cardinality(Shift(L, P)) = Cardinality(P)
        /\ Cardinality(P) \in Nat
    BY <2>0, ShiftCount, PositionsAreFinite
  <2>5. IsFiniteSet(I) /\ Cardinality(I) \in Nat
    BY PositionsAreFinite
  <2>6. Cardinality(I \cup Shift(L, P)) = Cardinality(I) + Cardinality(P)
    <3>1. Cardinality(I \cup Shift(L, P))
            = Cardinality(I) + Cardinality(Shift(L, P)) - Cardinality(I \cap Shift(L, P))
      BY <2>4, <2>5, FS_Union
    <3>2. Cardinality(I \cap Shift(L, P)) = 0
      BY <2>1, FS_EmptySet
    <3> QED BY <2>4, <2>5, <3>1, <3>2
  <2> QED BY <2>3, <2>6 DEF Rank, P
<1>3. J \subseteq 1..(L + M) /\ J \cap 1..(L + M) = J /\ K \cap 1..M = K
  <2>1. \A y \in J : y \in 1..(L + M)
    BY <1>0
  <2> QED BY <2>1
<1>4. Rank(J, L + M) = Cardinality(J) /\ Rank(K, M) = Cardinality(K)
  BY <1>3 DEF Rank
<1>5. Cardinality(J) = Cardinality(I) + Cardinality(K)
  BY <1>2, <1>4
<1> QED BY <1>1, <1>2, <1>3, <1>5

\* The positions of two pages: those of the first, then those of the second, shifted.
LEMMA PositionInSum ==
  ASSUME NEW L \in Nat, NEW M \in Nat, NEW I, I \subseteq 1..L, NEW K, K \subseteq 1..M
  PROVE  /\ \A n \in 1..Cardinality(I) : Position(Joined(L, I, K), n) = Position(I, n)
         /\ \A n \in 1..Cardinality(K) :
              Position(Joined(L, I, K), Cardinality(I) + n) = L + Position(K, n)
<1> DEFINE J == Joined(L, I, K)
<1> HIDE DEF J
<1>1. /\ \A i \in 0..L : Rank(J, i) = Rank(I, i)
      /\ \A x \in 0..M : Rank(J, L + x) = Cardinality(I) + Rank(K, x)
      /\ Cardinality(J) = Cardinality(I) + Cardinality(K)
      /\ J \subseteq 1..(L + M)
  BY RankOfSum DEF J
<1>5. J = I \cup Shift(L, K)
  BY DEF J, Joined
<1>6. L + M \in Nat
  OBVIOUS
<1>2. Cardinality(I) \in Nat /\ Cardinality(K) \in Nat
  BY PositionsAreFinite
<1>3. ASSUME NEW n \in 1..Cardinality(I) PROVE Position(J, n) = Position(I, n)
  <2> DEFINE i == Position(I, n)
  <2>1. i \in I /\ Rank(I, i) = n
    BY PositionIsThere
  <2>2. i \in J /\ i \in 0..L
    <3> HIDE DEF i
    <3> QED BY <1>5, <2>1
  <2>3. Rank(J, i) = n
    BY <1>1, <2>1, <2>2
  <2>4. n \in 1..Cardinality(J)
    BY <1>1, <1>2
  <2> HIDE DEF i
  <2>5. Position(J, n) = i
    BY <1>1, <1>6, <2>2, <2>3, <2>4, PositionIs
  <2> QED BY <2>5 DEF i
<1>4. ASSUME NEW n \in 1..Cardinality(K)
      PROVE  Position(J, Cardinality(I) + n) = L + Position(K, n)
  <2> DEFINE i == Position(K, n)
  <2>1. i \in K /\ Rank(K, i) = n
    BY PositionIsThere
  <2> HIDE DEF i
  <2>2. L + i \in J /\ i \in 0..M
    BY <1>5, <2>1 DEF Shift
  <2>3. Rank(J, L + i) = Cardinality(I) + n
    BY <1>1, <2>1, <2>2
  <2>4. Cardinality(I) + n \in 1..Cardinality(J)
    BY <1>1, <1>2
  <2>5. Position(J, Cardinality(I) + n) = L + i
    BY <1>1, <1>6, <2>2, <2>3, <2>4, PositionIs
  <2> QED BY <2>5 DEF i
<1> QED BY <1>3, <1>4 DEF J

-----------------------------------------------------------------------------
(* The postings that a source keeps *)

Indices(src, s) == {i \in DOMAIN s : Named(src, s[i])}
At(s, I) == [n \in 1..Cardinality(I) |-> s[Position(I, n)]]

\* When every position counts, the n-th is n.
LEMMA AllPositions ==
  ASSUME NEW S, NEW s \in Seq(S)
  PROVE  At(s, DOMAIN s) = s
<1> DEFINE I == 1..Len(s)
<1>1. Len(s) \in Nat /\ DOMAIN s = I /\ s = [n \in 1..Len(s) |-> s[n]]
  BY LenProperties
<1>2. Cardinality(I) = Len(s)
  BY <1>1, FS_Interval
<1>3. ASSUME NEW n \in I PROVE Position(I, n) = n
  <2>1. I \cap 1..n = 1..n
    BY <1>1
  <2>0. n \in Nat /\ n >= 1
    BY <1>1
  <2>2. Cardinality(1..n) = n
    BY <2>0, FS_Interval
  <2>3. Rank(I, n) = n
    BY <2>1, <2>2 DEF Rank
  <2> QED BY <1>1, <1>2, <2>3, PositionIs
<1> QED BY <1>1, <1>2, <1>3 DEF At

\* The named postings of a sequence are those at the positions that count.
LEMMA NamedIs ==
  ASSUME NEW src, NEW S, NEW s \in Seq(S)
  PROVE  /\ NamedOf(src, s) = At(s, Indices(src, s))
         /\ NamedOf(src, s) \in Seq(S)
         /\ Len(NamedOf(src, s)) = Cardinality(Indices(src, s))
         /\ Indices(src, s) \subseteq 1..Len(s) /\ Len(s) \in Nat
<1> DEFINE I == Indices(src, s)
<1>1. Len(s) \in Nat /\ I \subseteq 1..Len(s) /\ DOMAIN s = 1..Len(s)
  BY LenProperties DEF Indices
<1>2. NamedOf(src, s) = At(s, I)
  <2>1. NamedOf(src, s) = IF I = DOMAIN s THEN s ELSE At(s, I)
    BY DEF NamedOf, At, Indices
  <2> HIDE DEF I
  <2> QED BY <2>1, AllPositions
<1>3. Cardinality(I) \in Nat
  BY <1>1, PositionsAreFinite
<1>4. ASSUME NEW n \in 1..Cardinality(I) PROVE s[Position(I, n)] \in S
  <2>1. Position(I, n) \in I
    BY <1>1, PositionIsThere
  <2> QED BY <1>1, <2>1, ElementOfSeq
<1>5. At(s, I) \in Seq(S) /\ Len(At(s, I)) = Cardinality(I)
  <2> HIDE DEF I
  <2> QED BY <1>3, <1>4 DEF At
<1> QED BY <1>1, <1>2, <1>5

\* The named postings of two pages are those of the first and then those of the second.
LEMMA NamedOfSum ==
  ASSUME NEW src, NEW S, NEW s \in Seq(S), NEW t \in Seq(S)
  PROVE  NamedOf(src, s \o t) = NamedOf(src, s) \o NamedOf(src, t)
<1> DEFINE I == Indices(src, s)
           K == Indices(src, t)
           J == Indices(src, s \o t)
<1>1. /\ s \o t \in Seq(S) /\ Len(s \o t) = Len(s) + Len(t)
      /\ \A i \in 1..Len(s) + Len(t) : (s \o t)[i] = IF i <= Len(s) THEN s[i] ELSE t[i - Len(s)]
  BY ConcatProperties
<1>2. /\ Len(s) \in Nat /\ Len(t) \in Nat /\ I \subseteq 1..Len(s) /\ K \subseteq 1..Len(t)
      /\ DOMAIN s = 1..Len(s) /\ DOMAIN t = 1..Len(t) /\ DOMAIN (s \o t) = 1..Len(s) + Len(t)
  BY <1>1, LenProperties DEF Indices
<1>3. J = Joined(Len(s), I, K)
  <2>1. ASSUME NEW i \in J PROVE i \in I \cup Shift(Len(s), K)
    <3>1. i \in 1..Len(s) + Len(t) /\ Named(src, (s \o t)[i])
      BY <1>2 DEF Indices
    <3>2. CASE i <= Len(s)
      BY <1>1, <1>2, <3>1, <3>2 DEF Indices
    <3>3. CASE i > Len(s)
      <4>1. i - Len(s) \in 1..Len(t) /\ i = Len(s) + (i - Len(s)) /\ Named(src, t[i - Len(s)])
        BY <1>1, <1>2, <3>1, <3>3
      <4> QED BY <1>2, <4>1 DEF Indices, Shift
    <3> QED BY <1>2, <3>1, <3>2, <3>3
  <2>2. ASSUME NEW i \in I PROVE i \in J
    <3>1. i \in 1..Len(s) /\ Named(src, s[i])
      BY <1>2 DEF Indices
    <3>2. i \in 1..Len(s) + Len(t) /\ (s \o t)[i] = s[i]
      BY <1>1, <1>2, <3>1
    <3> QED BY <1>2, <3>1, <3>2 DEF Indices
  <2>3. ASSUME NEW j \in K PROVE Len(s) + j \in J
    <3>1. j \in 1..Len(t) /\ Named(src, t[j])
      BY <1>2 DEF Indices
    <3>2. Len(s) + j \in 1..Len(s) + Len(t) /\ (s \o t)[Len(s) + j] = t[j]
      BY <1>1, <1>2, <3>1
    <3> QED BY <1>2, <3>1, <3>2 DEF Indices
  <2> QED BY <2>1, <2>2, <2>3 DEF Joined, Shift
<1>4. /\ Cardinality(I) \in Nat /\ Cardinality(K) \in Nat
      /\ Cardinality(J) = Cardinality(I) + Cardinality(K)
  BY <1>2, <1>3, PositionsAreFinite, RankOfSum
<1>5. ASSUME NEW n \in 1..Cardinality(I) PROVE (s \o t)[Position(J, n)] = s[Position(I, n)]
  <2>1. Position(J, n) = Position(I, n) /\ Position(I, n) \in 1..Len(s)
    BY <1>2, <1>3, PositionInSum, PositionIsThere
  <2> QED BY <1>1, <1>2, <2>1
<1>6. ASSUME NEW n \in 1..Cardinality(K)
      PROVE  (s \o t)[Position(J, Cardinality(I) + n)] = t[Position(K, n)]
  <2>1. Position(J, Cardinality(I) + n) = Len(s) + Position(K, n)
        /\ Position(K, n) \in 1..Len(t)
    BY <1>2, <1>3, PositionInSum, PositionIsThere
  <2> QED BY <1>1, <1>2, <2>1
<1>7. /\ NamedOf(src, s \o t) = At(s \o t, J) /\ At(s \o t, J) \in Seq(S)
      /\ NamedOf(src, s) = At(s, I) /\ At(s, I) \in Seq(S)
      /\ NamedOf(src, t) = At(t, K) /\ At(t, K) \in Seq(S)
  BY <1>1, NamedIs
<1>8. Len(At(s, I)) = Cardinality(I) /\ Len(At(t, K)) = Cardinality(K)
      /\ Len(At(s \o t, J)) = Cardinality(J)
  BY <1>1, NamedIs
<1> HIDE DEF I, J, K
<1>9. ASSUME NEW n \in 1..Cardinality(I) + Cardinality(K)
      PROVE  At(s \o t, J)[n] = IF n <= Cardinality(I) THEN At(s, I)[n]
                               ELSE At(t, K)[n - Cardinality(I)]
  <2>0. At(s \o t, J)[n] = (s \o t)[Position(J, n)]
    BY <1>4 DEF At
  <2>1. CASE n <= Cardinality(I)
    <3>1. n \in 1..Cardinality(I)
      BY <1>4, <2>1
    <3>2. At(s, I)[n] = s[Position(I, n)]
      BY <3>1 DEF At
    <3>3. (s \o t)[Position(J, n)] = s[Position(I, n)]
      BY <1>5, <3>1
    <3> QED BY <2>0, <2>1, <3>2, <3>3
  <2>2. CASE ~(n <= Cardinality(I))
    <3>1. n - Cardinality(I) \in 1..Cardinality(K) /\ Cardinality(I) + (n - Cardinality(I)) = n
      BY <1>4, <2>2
    <3>2. At(s \o t, J)[n] = t[Position(K, n - Cardinality(I))]
      BY <1>6, <2>0, <3>1
    <3> QED BY <2>2, <3>1, <3>2 DEF At
  <2> QED BY <2>1, <2>2
<1> QED
  <2> DEFINE first == At(s, I)
             second == At(t, K)
             u == first \o second
  <2>1. first \in Seq(S) /\ second \in Seq(S) /\ Len(first) = Cardinality(I)
        /\ Len(second) = Cardinality(K)
    BY <1>7, <1>8
  <2> HIDE DEF first, second
  <2>2. /\ u \in Seq(S) /\ Len(u) = Len(first) + Len(second)
        /\ \A n \in 1..Len(first) + Len(second) :
             u[n] = IF n <= Len(first) THEN first[n] ELSE second[n - Len(first)]
    BY <2>1, ConcatProperties
  <2> HIDE DEF u
  <2>3. /\ u \in Seq(S) /\ Len(u) = Cardinality(I) + Cardinality(K)
        /\ \A n \in 1..Cardinality(I) + Cardinality(K) :
             u[n] = IF n <= Cardinality(I) THEN At(s, I)[n] ELSE At(t, K)[n - Cardinality(I)]
    BY <2>1, <2>2 DEF first, second
  <2>4. Len(At(s \o t, J)) = Len(u)
    BY <1>4, <1>8, <2>3
  <2>5. \A n \in 1..Len(At(s \o t, J)) : At(s \o t, J)[n] = u[n]
    BY <1>4, <1>8, <1>9, <2>3
  <2>6. At(s \o t, J) = u
    BY <1>7, <2>3, <2>4, <2>5, SeqEqual
  <2> QED BY <1>7, <2>6 DEF u, first, second

-----------------------------------------------------------------------------
(* One page *)

\* A slice is a part of its sequence.
LEMMA SliceIs ==
  ASSUME NEW S, NEW s \in Seq(S), NEW i \in Nat \ {0}, NEW j \in Int
  PROVE  /\ Slice(s, i, j) = SubSeq(s, i, Lesser(j, Len(s)))
         /\ Slice(s, i, j) \in Seq(S)
         /\ Len(Slice(s, i, j)) = IF i <= Lesser(j, Len(s)) THEN Lesser(j, Len(s)) - i + 1 ELSE 0
         /\ Lesser(j, Len(s)) \in Int
<1> DEFINE e == Lesser(j, Len(s))
<1>1. Len(s) \in Nat /\ DOMAIN s = 1..Len(s) /\ \A k \in 1..Len(s) : s[k] \in S
  BY LenProperties, ElementOfSeq
<1>2. e \in Int /\ e <= Len(s) /\ Slice(s, i, j) = SubSeq(s, i, e)
  BY <1>1 DEF Slice, Lesser
<1> HIDE DEF e
<1>3. \A k \in i..e : s[k] \in S
  BY <1>1, <1>2
<1>4. SubSeq(s, i, e) \in Seq(S) /\ Len(SubSeq(s, i, e)) = IF i <= e THEN e - i + 1 ELSE 0
  BY <1>2, <1>3, SubSeqProperties
<1> QED BY <1>2, <1>4 DEF e

\* The first postings of a sequence, up to a limit.
LEMMA FirstOnes ==
  ASSUME NEW S, NEW s \in Seq(S), NEW n \in Nat
  PROVE  Len(Slice(s, 1, n)) = Lesser(n, Len(s)) /\ Len(s) \in Nat
<1>1. Len(s) \in Nat
  BY LenProperties
<1>2. Len(Slice(s, 1, n)) = IF 1 <= Lesser(n, Len(s)) THEN Lesser(n, Len(s)) - 1 + 1 ELSE 0
  BY SliceIs
<1> QED BY <1>1, <1>2 DEF Lesser

\* A page of a board that is read on from one place to another; there is nothing
\* beyond its end.
LEMMA PageIs ==
  ASSUME NEW S, NEW board \in Seq(S), NEW at \in Nat, NEW size \in Nat
  PROVE  LET start == Lesser(at, Len(board))
             e == Lesser(at + size, Len(board)) IN
         /\ start \in 0..Len(board) /\ e \in start..Len(board)
         /\ PageAt(board, at, size) = SubSeq(board, start + 1, e)
         /\ Len(PageAt(board, at, size)) = e - start
<1> DEFINE start == Lesser(at, Len(board))
           e == Lesser(at + size, Len(board))
<1>1. Len(board) \in Nat
  BY LenProperties
<1>2. start \in 0..Len(board) /\ e \in start..Len(board)
  BY <1>1 DEF Lesser
<1>3. at + 1 \in Nat \ {0} /\ at + size \in Int
  BY <1>1
<1>4. /\ PageAt(board, at, size) = SubSeq(board, at + 1, e)
      /\ PageAt(board, at, size) \in Seq(S)
      /\ Len(PageAt(board, at, size)) = IF at + 1 <= e THEN e - (at + 1) + 1 ELSE 0
  BY <1>3, SliceIs DEF PageAt
<1>5. CASE at <= Len(board)
  <2>1. start = at
    BY <1>1, <1>5 DEF Lesser
  <2> HIDE DEF start, e
  <2>2. PageAt(board, at, size) = SubSeq(board, start + 1, e)
        /\ Len(PageAt(board, at, size)) = e - start
    BY <1>1, <1>2, <1>4, <2>1
  <2> QED BY <1>2, <2>2 DEF start, e
<1>6. CASE at > Len(board)
  <2>1. start = Len(board) /\ e = Len(board)
    BY <1>1, <1>6 DEF Lesser
  <2>2. Len(PageAt(board, at, size)) = 0
    BY <1>1, <1>4, <1>6, <2>1
  <2>3. PageAt(board, at, size) = <<>>
    BY <1>4, <2>2, EmptySeq
  <2>4. SubSeq(board, Len(board) + 1, Len(board)) = <<>>
    BY <1>1, SubSeqEmpty
  <2> QED BY <1>1, <1>2, <2>1, <2>2, <2>3, <2>4
<1> QED BY <1>1, <1>5, <1>6

\* The first postings of a concatenation whose first part has enough of them.
LEMMA SliceOfSum ==
  ASSUME NEW S, NEW s \in Seq(S), NEW t \in Seq(S), NEW n \in Nat, Len(s) >= n
  PROVE  Slice(s \o t, 1, n) = Slice(s, 1, n)
<1>1. /\ s \o t \in Seq(S) /\ Len(s \o t) = Len(s) + Len(t) /\ Len(s) \in Nat /\ Len(t) \in Nat
      /\ \A i \in 1..Len(s) + Len(t) : (s \o t)[i] = IF i <= Len(s) THEN s[i] ELSE t[i - Len(s)]
  BY ConcatProperties, LenProperties
<1>2. Slice(s \o t, 1, n) = SubSeq(s \o t, 1, n) /\ Slice(s, 1, n) = SubSeq(s, 1, n)
  <2>1. (IF n < Len(s \o t) THEN n ELSE Len(s \o t)) = n /\ (IF n < Len(s) THEN n ELSE Len(s)) = n
    BY <1>1
  <2> QED BY <2>1 DEF Slice
<1>3. \A i \in 1..n : s[i] \in S /\ (s \o t)[i] = s[i]
  BY <1>1, ElementOfSeq
<1>4. /\ SubSeq(s, 1, n) \in Seq(S) /\ Len(SubSeq(s, 1, n)) = n
      /\ \A i \in 1..n : SubSeq(s, 1, n)[i] = s[i]
  BY <1>3, SubSeqProperties
<1>5. /\ SubSeq(s \o t, 1, n) \in Seq(S) /\ Len(SubSeq(s \o t, 1, n)) = n
      /\ \A i \in 1..n : SubSeq(s \o t, 1, n)[i] = (s \o t)[i]
  BY <1>3, SubSeqProperties
<1>6. SubSeq(s \o t, 1, n) = SubSeq(s, 1, n)
  BY <1>3, <1>4, <1>5, SeqEqual
<1> QED BY <1>2, <1>6

\* All of a sequence that is not too long.
LEMMA SliceOfShort ==
  ASSUME NEW S, NEW s \in Seq(S), NEW n \in Nat, Len(s) <= n
  PROVE  Slice(s, 1, n) = s
<1>1. Len(s) \in Nat
  BY LenProperties
<1>2. (IF n < Len(s) THEN n ELSE Len(s)) = Len(s)
  BY <1>1
<1> QED BY <1>2, SubSeqFull DEF Slice

Prefix(board, at) == SubSeq(board, 1, at)
\* The sources that send their board in one answer.
OnePage == {"remotive", "jobicy", "remoteok"}
\* The sources that skip a page whether or not it is full, also beyond the end.
Skipping == {"workday", "smartrecruiters"}
\* How much of a board a fetch has read.
Reached(f, board) == Lesser(f.at, Len(board))
\* A fetch that has read its board up to an offset and does not have enough yet.
Reading(src, f, board) ==
  /\ f.at \in Nat /\ f.kept = NamedOf(src, Prefix(board, Reached(f, board)))
  /\ Len(f.kept) < src.limit
  /\ src.kind \in OnePage => f.at = 0
  /\ src.kind \notin Skipping => f.at <= Len(board)
\* A fetch that has what the board owes.
Complete(src, kept, board) == Owed(src, board) # Nil => kept = Owed(src, board)
\* The page ends where the board ends, or it is late enough for a source whose
\* postings all count.
Enough(src, board, e) ==
  e = Len(board) \/ (e >= src.limit /\ \A i \in DOMAIN board : Named(src, board[i]))

\* A board is a prefix of it and the rest.
LEMMA PrefixIs ==
  ASSUME NEW S, NEW board \in Seq(S), NEW e \in 0..Len(board)
  PROVE  /\ Prefix(board, e) \in Seq(S) /\ Len(Prefix(board, e)) = e
         /\ \A i \in 1..e : Prefix(board, e)[i] = board[i]
         /\ board = Prefix(board, e) \o SubSeq(board, e + 1, Len(board))
         /\ SubSeq(board, e + 1, Len(board)) \in Seq(S)
<1>1. Len(board) \in Nat /\ \A i \in 1..Len(board) : board[i] \in S
  BY LenProperties, ElementOfSeq
<1>2. e \in Nat /\ e <= Len(board)
  BY <1>1
<1>3. /\ Prefix(board, e) \in Seq(S) /\ Len(Prefix(board, e)) = e
      /\ \A i \in 1..e : Prefix(board, e)[i] = board[i]
  <2>1. \A i \in 1..e : board[i] \in S
    BY <1>1, <1>2
  <2>2. /\ SubSeq(board, 1, e) \in Seq(S)
        /\ Len(SubSeq(board, 1, e)) = IF 1 <= e THEN e - 1 + 1 ELSE 0
        /\ \A i \in 1..e - 1 + 1 : SubSeq(board, 1, e)[i] = board[1 + i - 1]
    BY <1>2, <2>1, SubSeqProperties
  <2> QED BY <1>2, <2>2 DEF Prefix
<1>4. SubSeq(board, e + 1, Len(board)) \in Seq(S)
  <2>1. \A i \in e + 1..Len(board) : board[i] \in S
    BY <1>1, <1>2
  <2> QED BY <1>1, <1>2, <2>1, SubSeqProperties
<1>5. Prefix(board, e) \o SubSeq(board, e + 1, Len(board)) = SubSeq(board, 1, Len(board))
  <2>1. 1 \in 1..Len(board) + 1 /\ e \in 1 - 1..Len(board) /\ Len(board) \in e..Len(board)
    BY <1>1, <1>2
  <2> QED BY <2>1, ConcatAdjacentSubSeq DEF Prefix
<1> QED BY <1>3, <1>4, <1>5, SubSeqFull

\* A source that names every posting keeps them all.
LEMMA AllNamed ==
  ASSUME NEW src, NEW S, NEW s \in Seq(S), \A i \in DOMAIN s : Named(src, s[i])
  PROVE  NamedOf(src, s) = s
<1>1. {i \in DOMAIN s : Named(src, s[i])} = DOMAIN s
  OBVIOUS
<1> QED BY <1>1 DEF NamedOf

\* A fetch that has read enough has the first limit postings.
LEMMA EnoughIsComplete ==
  ASSUME NEW src, src.limit \in Nat \ {0}, NEW S, NEW board \in Seq(S), NEW e \in 0..Len(board),
         NEW kept, kept = Slice(NamedOf(src, Prefix(board, e)), 1, src.limit),
         Len(kept) >= src.limit \/ Enough(src, board, e)
  PROVE  kept = Slice(NamedOf(src, board), 1, src.limit)
<1> DEFINE rest == SubSeq(board, e + 1, Len(board))
           named == NamedOf(src, Prefix(board, e))
<1>1. /\ Prefix(board, e) \in Seq(S) /\ Len(Prefix(board, e)) = e
      /\ \A i \in 1..e : Prefix(board, e)[i] = board[i]
      /\ rest \in Seq(S)
  BY PrefixIs
<1>2. Len(board) \in Nat /\ e \in Nat /\ DOMAIN board = 1..Len(board)
  BY LenProperties
<1>3. NamedOf(src, board) = named \o NamedOf(src, rest)
  <2> DEFINE read == Prefix(board, e)
  <2>1. read \in Seq(S) /\ rest \in Seq(S) /\ board = read \o rest
    BY PrefixIs
  <2> HIDE DEF read, rest
  <2>2. NamedOf(src, read \o rest) = NamedOf(src, read) \o NamedOf(src, rest)
    BY <2>1, NamedOfSum
  <2> QED BY <2>1, <2>2 DEF read
<1>4. named \in Seq(S) /\ NamedOf(src, rest) \in Seq(S) /\ Len(named) \in Nat
  BY <1>1, NamedIs, LenProperties
<1>5. ASSUME Len(named) >= src.limit PROVE kept = Slice(NamedOf(src, board), 1, src.limit)
  BY <1>3, <1>4, <1>5, SliceOfSum
<1>6. CASE Len(kept) >= src.limit
  <2>1. Len(kept) = Lesser(src.limit, Len(named))
    BY <1>4, FirstOnes
  <2>2. Len(named) >= src.limit
    BY <1>4, <1>6, <2>1 DEF Lesser
  <2> QED BY <1>5, <2>2
<1>7. CASE e = Len(board)
  <2>1. Prefix(board, e) = board
    BY <1>7, SubSeqFull DEF Prefix
  <2> QED BY <2>1
<1>8. CASE e >= src.limit /\ \A i \in DOMAIN board : Named(src, board[i])
  <2>1. DOMAIN Prefix(board, e) = 1..Len(Prefix(board, e))
    BY <1>1, LenProperties
  <2>2. \A i \in DOMAIN Prefix(board, e) : Named(src, Prefix(board, e)[i])
    BY <1>1, <1>2, <1>8, <2>1
  <2>3. named = Prefix(board, e)
    BY <1>1, <2>2, AllNamed
  <2> QED BY <1>1, <1>5, <1>8, <2>3
<1> QED BY <1>6, <1>7, <1>8 DEF Enough

\* One page of a source: the fetch is complete or has read on.
LEMMA StepIs ==
  ASSUME NEW src, src.limit \in Nat \ {0}, NEW S, NEW board \in Seq(S), NEW f,
         Reading(src, f, board), NEW e \in Reached(f, board)..Len(board),
         NEW page, page = SubSeq(board, Reached(f, board) + 1, e),
         NEW last \in BOOLEAN, last => Owed(src, board) = Nil \/ Enough(src, board, e),
         src.kind \in PageKinds \ {"remotive", "jobicy"}, src.kind \in OnePage => last,
         NEW r, r.kept = Taken(src, f, page), r.at \in Nat, Lesser(r.at, Len(board)) = e,
         r.done = (last \/ Len(Taken(src, f, page)) >= src.limit),
         src.kind \notin Skipping => r.at <= Len(board)
  PROVE  /\ r.done => Complete(src, r.kept, board)
         /\ ~r.done => Reading(src, r, board)
<1> DEFINE named == NamedOf(src, Prefix(board, e))
           start == Reached(f, board)
<1>1. Len(board) \in Nat /\ start \in 0..Len(board) /\ e \in Nat /\ e \in 0..Len(board)
      /\ start <= e
  <2>1. Len(board) \in Nat /\ f.at \in Nat
    BY LenProperties DEF Reading
  <2>2. start \in 0..Len(board)
    BY <2>1 DEF Reached, Lesser
  <2> HIDE DEF start
  <2> QED BY <2>1, <2>2 DEF start
<1>0. page = SubSeq(board, start + 1, e) /\ f.kept = NamedOf(src, Prefix(board, start))
  BY DEF Reading
<1> HIDE DEF start
<1>2. Prefix(board, e) = Prefix(board, start) \o page
  <2>1. 1 \in 1..Len(board) + 1 /\ start \in 1 - 1..Len(board) /\ e \in start..Len(board)
    BY <1>1
  <2>2. SubSeq(board, 1, start) \o SubSeq(board, start + 1, e) = SubSeq(board, 1, e)
    BY <2>1, ConcatAdjacentSubSeq
  <2> QED BY <1>0, <2>2 DEF Prefix
<1>3. Prefix(board, e) \in Seq(S) /\ Prefix(board, start) \in Seq(S) /\ page \in Seq(S)
  <2>1. Prefix(board, e) \in Seq(S) /\ Prefix(board, start) \in Seq(S)
    BY PrefixIs, <1>1
  <2>2. \A i \in start + 1..e : board[i] \in S
    BY <1>1, ElementOfSeq
  <2>3. SubSeq(board, start + 1, e) \in Seq(S)
    <3>1. start + 1 \in Int /\ e \in Int
      BY <1>1
    <3> QED BY <2>2, <3>1, SubSeqProperties
  <2> QED BY <1>0, <2>1, <2>3
<1>4. named = f.kept \o NamedOf(src, page)
  <2>1. NamedOf(src, Prefix(board, start) \o page)
          = NamedOf(src, Prefix(board, start)) \o NamedOf(src, page)
    BY <1>3, NamedOfSum
  <2> QED BY <1>0, <1>2, <2>1
<1>5. named \in Seq(S) /\ Len(named) \in Nat
  BY <1>3, NamedIs, LenProperties
<1>6. /\ r.kept = Slice(named, 1, src.limit)
      /\ r.done = (last \/ Len(r.kept) >= src.limit)
  <2> HIDE DEF named
  <2> QED BY <1>4 DEF Taken
<1>7. Reached(r, board) = e
  BY DEF Reached
<1>8. ASSUME r.done PROVE Complete(src, r.kept, board)
  <2>1. CASE Owed(src, board) = Nil
    BY <2>1 DEF Complete
  <2>2. CASE Owed(src, board) # Nil
    <3>1. Len(r.kept) >= src.limit \/ Enough(src, board, e)
      BY <1>6, <1>8, <2>2
    <3>2. r.kept = Slice(NamedOf(src, board), 1, src.limit)
      BY <1>1, <1>6, <3>1, EnoughIsComplete
    <3>3. Owed(src, board) = Slice(NamedOf(src, board), 1, src.limit)
      BY <2>2 DEF Owed, PageKinds, ATSKinds
    <3> QED BY <3>2, <3>3 DEF Complete
  <2> QED BY <2>1, <2>2
<1>9. ASSUME ~r.done PROVE Reading(src, r, board)
  <2>1. ~last /\ ~(Len(r.kept) >= src.limit) /\ src.kind \notin OnePage
    BY <1>6, <1>9
  <2>2. Len(r.kept) = Lesser(src.limit, Len(named))
    BY <1>5, <1>6, FirstOnes
  <2>3. Len(named) < src.limit
    BY <1>5, <2>1, <2>2 DEF Lesser
  <2>4. r.kept = named
    BY <1>5, <1>6, <2>3, SliceOfShort
  <2> QED BY <1>1, <1>7, <2>1, <2>3, <2>4 DEF Reading
<1> QED BY <1>8, <1>9

\* The kinds whose postings are all kept, or that owe nothing of a board with others.
LEMMA Counted ==
  ASSUME NEW src, NEW board, NEW e, e >= src.limit,
         src.kind \in {"jooble", "careerjet", "workday", "smartrecruiters"}
  PROVE  Owed(src, board) = Nil \/ Enough(src, board, e)
<1>1. CASE src.kind \in {"jooble", "careerjet"}
  BY <1>1 DEF Owed, Enough
<1>2. CASE src.kind \in {"workday", "smartrecruiters"}
  <2>1. \A p : Named(src, p)
    BY <1>2 DEF Named
  <2> QED BY <2>1 DEF Enough
<1> QED BY <1>1, <1>2

\* The fetch of a source that is asked once, for at most a page.
LEMMA OnePageIs ==
  ASSUME NEW src, src.limit \in Nat \ {0}, src.kind \in {"remotive", "jobicy"}, NEW S,
         NEW board \in Seq(S), NEW f, Reading(src, f, board), NEW count,
         NEW r, r = ReadPage(src, f, board, count)
  PROVE  r.done /\ Complete(src, r.kept, board)
<1> DEFINE size == Lesser(src.limit, PageSize)
           page == PageAt(board, 0, size)
<1>1. Len(board) \in Nat /\ PageSize \in Nat \ {0} /\ f.at = 0
  BY LenProperties, PageSizeAssumption DEF Reading, OnePage
<1>2. size \in Nat /\ size <= src.limit
  BY <1>1 DEF Lesser
<1> HIDE DEF size
<1>3. r.done /\ r.kept = Slice(f.kept \o NamedOf(src, page), 1, src.limit)
  <2>1. r = Step(src, f, page, TRUE)
    BY DEF ReadPage, RemotivePage, JobicyPage, size
  <2> HIDE DEF page
  <2>2. r.done = (TRUE \/ Len(Taken(src, f, page)) >= src.limit)
        /\ r.kept = Taken(src, f, page)
    BY <2>1 DEF Step
  <2> QED BY <2>2 DEF Taken
<1>4. page = Slice(board, 1, size) /\ page \in Seq(S) /\ Len(page) <= src.limit
  <2>1. page = Slice(board, 1, size)
    BY <1>2 DEF PageAt
  <2>2. page \in Seq(S)
    BY <1>2, <2>1, SliceIs
  <2>3. Len(page) = Lesser(size, Len(board))
    BY <1>2, <2>1, FirstOnes
  <2> HIDE DEF page
  <2> QED BY <1>1, <1>2, <2>1, <2>2, <2>3 DEF Lesser
<1>5. f.kept = <<>>
  <2>1. Reached(f, board) = 0
    BY <1>1 DEF Reached, Lesser
  <2>2. Prefix(board, 0) \in Seq(S) /\ Len(Prefix(board, 0)) = 0
    BY <1>1, PrefixIs
  <2>3. Prefix(board, 0) = <<>>
    BY <2>2, EmptySeq
  <2>4. NamedOf(src, <<>>) = <<>>
    <3>1. <<>> \in Seq(S) /\ \A i \in DOMAIN <<>> : Named(src, <<>>[i])
      OBVIOUS
    <3> QED BY <3>1, AllNamed
  <2> QED BY <2>1, <2>3, <2>4 DEF Reading
<1>6. ASSUME Owed(src, board) # Nil PROVE r.kept = Owed(src, board)
  <2>1. \A i \in DOMAIN board : Named(src, board[i])
    BY <1>6 DEF Owed
  <2>2. Owed(src, board) = Slice(board, 1, size)
    BY <1>6, <2>1 DEF Owed, ATSKinds, size
  <2>3. NamedOf(src, page) = page
    <3>1. /\ page = SubSeq(board, 1, Lesser(size, Len(board)))
          /\ Lesser(size, Len(board)) \in 0..Len(board)
      <4>1. Slice(board, 1, size) = SubSeq(board, 1, Lesser(size, Len(board)))
        <5>1. size \in Int /\ 1 \in Nat \ {0}
          BY <1>2
        <5> QED BY <5>1, SliceIs
      <4> QED BY <1>1, <1>2, <1>4, <4>1 DEF Lesser
    <3> DEFINE e == Lesser(size, Len(board))
    <3>2. page = Prefix(board, e)
      BY <3>1 DEF Prefix
    <3> HIDE DEF page, e
    <3>3. Len(page) = e /\ \A i \in 1..e : page[i] = board[i]
      BY <3>1, <3>2, PrefixIs DEF e
    <3>4. DOMAIN page = 1..Len(page) /\ DOMAIN board = 1..Len(board)
      BY <1>4, LenProperties DEF page
    <3>5. \A i \in DOMAIN page : Named(src, page[i])
      BY <1>1, <2>1, <3>1, <3>3, <3>4 DEF e
    <3>6. page \in Seq(S)
      BY <1>4 DEF page
    <3> QED BY <3>5, <3>6, AllNamed
  <2>4. r.kept = Slice(page, 1, src.limit)
    <3> HIDE DEF page
    <3>1. <<>> \o page = page
      BY <1>4, ConcatEmptySeq DEF page
    <3> QED BY <1>3, <1>5, <2>3, <3>1 DEF page
  <2>5. Slice(page, 1, src.limit) = page
    BY <1>4, SliceOfShort
  <2> QED BY <1>4, <2>2, <2>4, <2>5
<1> QED BY <1>3, <1>6 DEF Complete

\* What a fetch reads of an unchanged board is complete when it ends.
LEMMA PageIsRead ==
  ASSUME NEW src, src.limit \in Nat \ {0}, src.kind \in PageKinds, NEW S, NEW board \in Seq(S),
         NEW f, Reading(src, f, board), NEW count \in Nat, ~FallsShort(src, board, count),
         NEW r, r = ReadPage(src, f, board, count)
  PROVE  /\ r.done => Complete(src, r.kept, board)
         /\ ~r.done => Reading(src, r, board)
<1> DEFINE End(size) == Lesser(f.at + size, Len(board))
           Page(size) == PageAt(board, f.at, size)
           start == Reached(f, board)
<1>1. Len(board) \in Nat /\ f.at \in Nat /\ PageSize \in Nat \ {0} /\ Len(f.kept) < src.limit
      /\ (src.kind \notin Skipping => f.at <= Len(board))
  BY LenProperties, PageSizeAssumption DEF Reading
<1>2. Len(f.kept) \in Nat /\ start \in 0..Len(board)
  <2>1. start \in 0..Len(board)
    BY <1>1 DEF Reached, Lesser
  <2> QED BY <2>1, PrefixIs, NamedIs, LenProperties DEF Reading
<1>3. ASSUME NEW size \in Nat
      PROVE  /\ End(size) \in start..Len(board)
             /\ Page(size) = SubSeq(board, start + 1, End(size))
             /\ Len(Page(size)) = End(size) - start
             /\ src.kind \notin Skipping => f.at + Len(Page(size)) = End(size)
  <2>1. /\ End(size) \in start..Len(board)
        /\ Page(size) = SubSeq(board, start + 1, End(size))
        /\ Len(Page(size)) = End(size) - start
    BY <1>1, <1>3, PageIs DEF Reached
  <2>2. src.kind \notin Skipping => start = f.at
    BY <1>1 DEF Reached, Lesser
  <2> HIDE DEF End, Page, start
  <2> QED BY <1>1, <1>2, <2>1, <2>2
\* A short page, or a total that is reached, ends the board.
<1>4. ASSUME NEW size \in Nat,
             \/ Len(Page(size)) < size \/ f.at + Len(Page(size)) >= Len(board)
             \/ f.at + size >= Len(board)
      PROVE  End(size) = Len(board)
  <2>1. End(size) \in start..Len(board) /\ Len(Page(size)) = End(size) - start
    BY <1>3, <1>4
  <2>2. End(size) = IF f.at + size < Len(board) THEN f.at + size ELSE Len(board)
    BY DEF Lesser
  <2>3. start = IF f.at < Len(board) THEN f.at ELSE Len(board)
    BY DEF Reached, Lesser
  <2> HIDE DEF End, Page, start
  <2> QED BY <1>1, <1>4, <2>1, <2>2, <2>3
<1>5. ASSUME NEW size \in Nat, NEW last \in BOOLEAN,
             last => Owed(src, board) = Nil \/ Enough(src, board, End(size)),
             src.kind \in {"kalibrr", "jooble", "careerjet"},
             r = Step(src, f, Page(size), last)
      PROVE  /\ r.done => Complete(src, r.kept, board)
             /\ ~r.done => Reading(src, r, board)
  <2>1. src.kind \in PageKinds \ {"remotive", "jobicy"} /\ src.kind \notin OnePage
        /\ src.kind \notin Skipping
    BY <1>5 DEF PageKinds, OnePage, Skipping
  <2>2. /\ r.kept = Taken(src, f, Page(size)) /\ r.at = f.at + Len(Page(size))
        /\ r.done = (last \/ Len(Taken(src, f, Page(size))) >= src.limit)
    <3> HIDE DEF Page
    <3> QED BY <1>5 DEF Step
  <2>3. r.at = End(size) /\ End(size) \in start..Len(board)
        /\ Page(size) = SubSeq(board, start + 1, End(size))
    BY <1>3, <1>5, <2>1, <2>2
  <2> HIDE DEF End, Page
  <2>4. r.at \in Nat /\ r.at <= Len(board) /\ Lesser(r.at, Len(board)) = End(size)
    <3> HIDE DEF start
    <3> QED BY <1>1, <1>2, <2>3 DEF Lesser
  <2> QED BY <1>5, <2>1, <2>2, <2>3, <2>4, StepIs
\* These three look whether there is a total.
<1>12. ASSUME src.kind \in {"kalibrr", "jooble", "careerjet"}, count > 0 PROVE count >= Len(board)
  BY <1>1, <1>12 DEF FallsShort
<1>6. CASE src.kind = "kalibrr"
  <2> DEFINE size == Lesser(src.limit - Len(f.kept), PageSize)
             last == Len(Page(size)) < size \/ (count > 0 /\ f.at + Len(Page(size)) >= count)
  <2>1. size \in Nat
    BY <1>1, <1>2 DEF Lesser
  <2>2. r = Step(src, f, Page(size), last)
    BY <1>6 DEF ReadPage, KalibrrPage
  <2>3. last => Enough(src, board, End(size))
    <3>1. Len(Page(size)) = End(size) - start /\ End(size) \in start..Len(board)
      BY <1>3, <2>1
    <3> HIDE DEF size, Page, End, start
    <3>2. last => Len(Page(size)) < size \/ f.at + Len(Page(size)) >= Len(board)
      BY <1>1, <1>2, <1>6, <1>12, <3>1
    <3> QED BY <1>4, <2>1, <3>2 DEF Enough
  <2>4. last \in BOOLEAN
    OBVIOUS
  <2> HIDE DEF size, last, Page, End
  <2> QED BY <1>5, <1>6, <2>1, <2>2, <2>3, <2>4
<1>7. CASE src.kind = "jooble"
  <2> DEFINE seen == f.at + Len(Page(PageSize))
             last == Len(Page(PageSize)) < PageSize \/ (count > 0 /\ seen >= count)
                       \/ seen >= src.limit
  <2>1. PageSize \in Nat
    BY <1>1
  <2>2. r = Step(src, f, Page(PageSize), last)
    BY <1>7 DEF ReadPage, JooblePage
  <2>3. seen = End(PageSize) /\ End(PageSize) \in start..Len(board)
    BY <1>3, <1>7, <2>1 DEF Skipping
  <2>4. last => Owed(src, board) = Nil \/ Enough(src, board, End(PageSize))
    <3>1. seen >= src.limit => Owed(src, board) = Nil \/ Enough(src, board, End(PageSize))
      BY <1>7, <2>3, Counted
    <3> HIDE DEF Page, End, start
    <3>2. last => \/ Len(Page(PageSize)) < PageSize \/ f.at + Len(Page(PageSize)) >= Len(board)
                  \/ seen >= src.limit
      BY <1>1, <1>2, <1>7, <1>12, <2>3
    <3> QED BY <1>4, <2>1, <3>1, <3>2 DEF Enough
  <2>5. last \in BOOLEAN
    OBVIOUS
  <2> HIDE DEF seen, last, Page, End
  <2> QED BY <1>5, <1>7, <2>1, <2>2, <2>4, <2>5
<1>8. CASE src.kind = "careerjet"
  <2> DEFINE size == Lesser(src.limit, PageSize)
             seen == f.at + Len(Page(size))
             last == Len(Page(size)) < size \/ (count > 0 /\ seen >= count) \/ seen >= src.limit
  <2>1. size \in Nat
    BY <1>1 DEF Lesser
  <2>2. r = Step(src, f, Page(size), last)
    BY <1>8 DEF ReadPage, CareerjetPage
  <2>3. seen = End(size) /\ End(size) \in start..Len(board)
    <3> HIDE DEF size
    <3> QED BY <1>3, <1>8, <2>1 DEF Skipping
  <2>4. last => Owed(src, board) = Nil \/ Enough(src, board, End(size))
    <3>1. seen >= src.limit => Owed(src, board) = Nil \/ Enough(src, board, End(size))
      BY <1>8, <2>3, Counted
    <3> HIDE DEF size, Page, End, start
    <3>2. last => \/ Len(Page(size)) < size \/ f.at + Len(Page(size)) >= Len(board)
                  \/ seen >= src.limit
      BY <1>1, <1>2, <1>8, <1>12, <2>3
    <3> QED BY <1>4, <2>1, <3>1, <3>2 DEF Enough
  <2>5. last \in BOOLEAN
    OBVIOUS
  <2> HIDE DEF size, seen, last, Page, End
  <2> QED BY <1>5, <1>8, <2>1, <2>2, <2>4, <2>5
<1>9. CASE src.kind \in {"workday", "smartrecruiters"}
  <2> DEFINE end == f.at + PageSize
             last == Page(PageSize) = <<>> \/ end >= count \/ end >= src.limit
             step == Step(src, f, Page(PageSize), last)
  <2>1. PageSize \in Nat \ {0} /\ end \in Nat
    BY <1>1
  <2>2. /\ r.kept = Taken(src, f, Page(PageSize)) /\ r.at = end
        /\ r.done = (last \/ Len(Taken(src, f, Page(PageSize))) >= src.limit)
    <3>1. r = [step EXCEPT !.at = end]
      BY <1>9 DEF ReadPage, WorkdayPage, SmartRecruitersPage
    <3> HIDE DEF Page, end, last
    <3> QED BY <3>1 DEF Step
  <2>3. Page(PageSize) = <<>> => Len(Page(PageSize)) < PageSize
    BY <2>1
  <2>4. end >= src.limit => Owed(src, board) = Nil \/ Enough(src, board, End(PageSize))
    <3>1. CASE End(PageSize) >= src.limit
      BY <1>9, <3>1, Counted
    <3>2. CASE End(PageSize) = Len(board)
      BY <3>2 DEF Enough
    <3> QED BY <1>1, <3>1, <3>2 DEF Lesser
  <2>5. last => Owed(src, board) = Nil \/ Enough(src, board, End(PageSize))
    <3>1. count >= Len(board)
      BY <1>1, <1>9 DEF FallsShort
    <3> HIDE DEF Page, End
    <3>2. end >= count => f.at + PageSize >= Len(board)
      BY <1>1, <2>1, <3>1
    <3> QED BY <1>4, <2>1, <2>3, <2>4, <3>2 DEF Enough
  <2>6. last \in BOOLEAN /\ src.kind \notin OnePage /\ src.kind \in Skipping
        /\ src.kind \in PageKinds \ {"remotive", "jobicy"}
    BY <1>9 DEF OnePage, Skipping, PageKinds
  <2>7. End(PageSize) \in start..Len(board) /\ Lesser(end, Len(board)) = End(PageSize)
        /\ Page(PageSize) = SubSeq(board, start + 1, End(PageSize))
    BY <1>3, <2>1
  <2> HIDE DEF last, Page, End, end
  <2> QED BY <2>1, <2>2, <2>5, <2>6, <2>7, StepIs
<1>10. CASE src.kind \in {"remotive", "jobicy"}
  BY <1>10, OnePageIs
<1>11. CASE src.kind = "remoteok"
  <2>0. f.at = 0
    BY <1>11 DEF Reading, OnePage
  <2>1. r = Step(src, f, board, TRUE)
    BY <1>11 DEF ReadPage, RemoteOKPage
  <2>2. start = 0 /\ board = SubSeq(board, start + 1, Len(board))
        /\ Len(board) \in start..Len(board)
    <3>1. start = 0
      BY <1>1, <2>0 DEF Reached, Lesser
    <3>2. board = SubSeq(board, 1, Len(board))
      BY SubSeqFull
    <3> QED BY <1>1, <3>1, <3>2
  <2>3. /\ r.kept = Taken(src, f, board) /\ r.at = Len(board)
        /\ r.done = (TRUE \/ Len(Taken(src, f, board)) >= src.limit)
    BY <1>1, <2>0, <2>1 DEF Step
  <2>4. r.at \in Nat /\ r.at <= Len(board) /\ Lesser(r.at, Len(board)) = Len(board)
    BY <1>1, <2>3 DEF Lesser
  <2>5. src.kind \in PageKinds \ {"remotive", "jobicy"} /\ Enough(src, board, Len(board))
    BY <1>11 DEF PageKinds, Enough
  <2> QED BY <2>2, <2>3, <2>4, <2>5, StepIs
<1> QED BY <1>6, <1>7, <1>8, <1>9, <1>10, <1>11 DEF PageKinds

\* Whatever board it reads, a source keeps postings of it.
LEMMA PageType ==
  ASSUME NEW src, src.limit \in Nat \ {0}, src.kind \in PageKinds, NEW S, NEW board \in Seq(S),
         NEW f, f.kept \in Seq(S), f.at \in Nat, NEW count,
         NEW r, r = ReadPage(src, f, board, count)
  PROVE  /\ r.kept \in Seq(S) /\ r.at \in Nat
         /\ r = [kept |-> r.kept, at |-> r.at, done |-> r.done]
<1>1. Len(f.kept) \in Nat /\ PageSize \in Nat \ {0} /\ Len(board) \in Nat
  BY LenProperties, PageSizeAssumption
<1>2. ASSUME NEW at \in Nat, NEW size \in Int PROVE PageAt(board, at, size) \in Seq(S)
  <2>1. at + 1 \in Nat \ {0} /\ at + size \in Int
    BY <1>2
  <2> QED BY <2>1, SliceIs DEF PageAt
<1>3. ASSUME NEW page \in Seq(S), NEW last, r = Step(src, f, page, last)
      PROVE  /\ r.kept \in Seq(S) /\ r.at \in Nat
             /\ r = [kept |-> r.kept, at |-> r.at, done |-> r.done]
  <2>1. f.kept \o NamedOf(src, page) \in Seq(S)
    BY NamedIs, ConcatProperties
  <2>2. Taken(src, f, page) \in Seq(S)
    <3>1. src.limit \in Int /\ 1 \in Nat \ {0}
      OBVIOUS
    <3> QED BY <2>1, <3>1, SliceIs DEF Taken
  <2>3. Len(page) \in Nat
    BY LenProperties
  <2> QED BY <1>3, <2>2, <2>3 DEF Step
<1>4. ASSUME NEW at \in Nat, NEW size \in Int, NEW last,
             r = Step(src, f, PageAt(board, at, size), last)
      PROVE  /\ r.kept \in Seq(S) /\ r.at \in Nat
             /\ r = [kept |-> r.kept, at |-> r.at, done |-> r.done]
  BY <1>2, <1>3, <1>4
<1>5. Lesser(src.limit - Len(f.kept), PageSize) \in Int /\ Lesser(src.limit, PageSize) \in Int
      /\ PageSize \in Int /\ src.limit \in Int /\ 0 \in Nat
  BY <1>1 DEF Lesser
<1>6. CASE src.kind = "kalibrr"
  <2> DEFINE size == Lesser(src.limit - Len(f.kept), PageSize)
  <2>1. \E last : r = Step(src, f, PageAt(board, f.at, size), last)
    BY <1>6 DEF ReadPage, KalibrrPage
  <2> HIDE DEF size
  <2> QED BY <1>4, <1>5, <2>1 DEF size
<1>7. CASE src.kind = "jooble"
  <2>1. \E last : r = Step(src, f, PageAt(board, f.at, PageSize), last)
    BY <1>7 DEF ReadPage, JooblePage
  <2> QED BY <1>4, <1>5, <2>1
<1>8. CASE src.kind = "careerjet"
  <2> DEFINE size == Lesser(src.limit, PageSize)
  <2>1. \E last : r = Step(src, f, PageAt(board, f.at, size), last)
    BY <1>8 DEF ReadPage, CareerjetPage
  <2> HIDE DEF size
  <2> QED BY <1>4, <1>5, <2>1 DEF size
<1>9. CASE src.kind \in {"workday", "smartrecruiters"}
  <2> DEFINE page == PageAt(board, f.at, PageSize)
             end == f.at + PageSize
  <2>1. \E last : r = [Step(src, f, page, last) EXCEPT !.at = end]
    BY <1>9 DEF ReadPage, WorkdayPage, SmartRecruitersPage
  <2>2. page \in Seq(S) /\ end \in Nat
    <3>1. PageAt(board, f.at, PageSize) \in Seq(S)
      BY <1>2, <1>5
    <3> QED BY <1>1, <3>1
  <2> HIDE DEF page, end
  <2>3. Taken(src, f, page) \in Seq(S)
    <3>1. f.kept \o NamedOf(src, page) \in Seq(S)
      BY <2>2, NamedIs, ConcatProperties
    <3>2. src.limit \in Int /\ 1 \in Nat \ {0}
      OBVIOUS
    <3> QED BY <3>1, <3>2, SliceIs DEF Taken
  <2> QED BY <2>1, <2>2, <2>3 DEF Step
<1>10. CASE src.kind \in {"remotive", "jobicy"}
  <2> DEFINE size == Lesser(src.limit, PageSize)
  <2>1. r = Step(src, f, PageAt(board, 0, size), TRUE)
    BY <1>10 DEF ReadPage, RemotivePage, JobicyPage
  <2> HIDE DEF size
  <2> QED BY <1>4, <1>5, <2>1 DEF size
<1>11. CASE src.kind = "remoteok"
  <2>1. r = Step(src, f, board, TRUE)
    BY <1>11 DEF ReadPage, RemoteOKPage
  <2> QED BY <1>3, <2>1
<1> QED BY <1>6, <1>7, <1>8, <1>9, <1>10, <1>11 DEF PageKinds

-----------------------------------------------------------------------------
(* The inductive invariant *)

\* What the boards of the world show at the start.
Postings == UNION {{world.boards[id][j] : j \in DOMAIN world.boards[id]} : id \in Ids}

\* Each registered source has its board, which shows postings of the start.
WorldInv ==
  /\ "boards" \in DOMAIN world
  /\ \A i \in DOMAIN registry : /\ registry[i].limit \in Nat \ {0}
                                /\ registry[i].kind \in PageKinds \cup ATSKinds
  /\ \A p \in Postings : IsPosting(p)
  /\ \A id \in Ids : id \in DOMAIN boards /\ boards[id] \in Seq(Postings)
                      /\ world.boards[id] \in Seq(Postings)

PassFields == {"owner", "index", "age", "step", "fetch", "begun", "shown", "lost", "since",
               "persistErr"}
IsPass(p) ==
  /\ DOMAIN p = PassFields /\ p.owner # "none" /\ p.age \in Ages(Cooldown)
  /\ p.since \in Ages(Swept) /\ p.step \in {"fetch", "store"}
  /\ DOMAIN p.fetch = {"kept", "at", "done"}
  /\ p.fetch.kept \in Seq(Postings) /\ p.fetch.at \in Nat
  /\ p.begun # Nil => p.begun \in Seq(Postings)
PassInv == pass = Idle \/ IsPass(pass)

\* A swept row has not been seen for StaleAfter, and no row is older than its listing.
RowsInv ==
  /\ \A k \in DOMAIN rows : rows[k].stale => rows[k].age = Swept
  /\ \A k \in DOMAIN served : k \in DOMAIN rows /\ rows[k].age <= served[k]

\* A fetch of a board that has not changed since it began.
FetchInv == Fetching /\ pass.begun # Nil => Reading(b, pass.fetch, pass.begun)

\* What is still to be stored of a board: each listing that was shown and not lost is
\* waiting or was stored since.
StoreInv ==
  Storing => \A k \in pass.shown \ pass.lost :
    k \in Keys(b, pass.fetch.kept) \/ (k \in DOMAIN rows /\ rows[k].age <= pass.since)

\* The kept postings are the last ones that the board owes.
OwedInv ==
  Storing /\ pass.begun # Nil =>
    LET owed == Owed(b, pass.begun) IN
    owed # Nil =>
      /\ owed \in Seq(Postings)
      /\ Len(pass.fetch.kept) <= Len(owed)
      /\ pass.fetch.kept = SubSeq(owed, Len(owed) - Len(pass.fetch.kept) + 1, Len(owed))
      /\ pass.shown = Keys(b, owed)

\* The source whose postings are being stored is a registered one.
PlaceInv == Storing => pass.index \in DOMAIN registry

\* Where a row has figures, they are numbers.
Figures == {Nil} \cup Int
HasFigures(row) == {row.min, row.max, row.years, row.posted} \subseteq Figures
FiguresInv == \A k \in DOMAIN rows : HasFigures(rows[k])

IngestInv == /\ TypeOK /\ WorldInv /\ PassInv /\ PlaceInv /\ RowsInv /\ FiguresInv
             /\ FetchInv /\ StoreInv /\ OwedInv

\* The initial world shows a board for each source.
LEMMA WorldInit == Init => WorldInv
<1> SUFFICES ASSUME Init PROVE WorldInv
  OBVIOUS
<1>1. PICK w \in Worlds : world = w
  BY DEF Init
<1> DEFINE sources == BuildRegistry(w.cfg)
<1>2. /\ registry = sources /\ boards = w.boards
  BY <1>1 DEF Init
<1>3. /\ w = [cfg |-> w.cfg, boards |-> w.boards, down |-> w.down, faults |-> w.faults,
              changes |-> w.changes]
      /\ \A i \in DOMAIN sources :
           LET board == w.boards[sources[i].id] IN
           /\ sources[i].limit \in Nat \ {0}
           /\ sources[i].kind \in PageKinds \cup ATSKinds
           /\ sources[i].id \in DOMAIN w.boards /\ board \in Seq({board[j] : j \in DOMAIN board})
           /\ \A j \in DOMAIN board : IsPosting(board[j])
  BY WorldsAssumption
<1>4. "boards" \in DOMAIN w
  <2>1. DOMAIN [cfg |-> w.cfg, boards |-> w.boards, down |-> w.down, faults |-> w.faults,
                changes |-> w.changes] = {"cfg", "boards", "down", "faults", "changes"}
    OBVIOUS
  <2> QED BY <1>3, <2>1
<1> HIDE DEF sources
<1>5. ASSUME NEW id \in Ids
      PROVE  id \in DOMAIN w.boards /\ w.boards[id] \in Seq(Postings)
  <2>1. PICK i \in DOMAIN sources : sources[i].id = id
    BY <1>2 DEF Ids
  <2> DEFINE board == w.boards[id]
             own == {board[j] : j \in DOMAIN board}
  <2>2. id \in DOMAIN w.boards /\ board \in Seq(own)
    BY <1>3, <2>1
  <2>3. own \subseteq Postings
    BY <1>1 DEF Postings
  <2> HIDE DEF board, own
  <2>4. board \in Seq(Postings)
    BY <2>2, <2>3, SeqMonotonic
  <2> QED BY <2>2, <2>4 DEF board
<1>6. ASSUME NEW p \in Postings PROVE IsPosting(p)
  <2>1. PICK id \in Ids : \E j \in DOMAIN w.boards[id] : p = w.boards[id][j]
    BY <1>1 DEF Postings
  <2>2. PICK i \in DOMAIN sources : sources[i].id = id
    BY <1>2 DEF Ids
  <2> QED BY <1>3, <2>1, <2>2
<1> QED BY <1>1, <1>2, <1>3, <1>4, <1>5, <1>6 DEF WorldInv

\* A board without one of its postings is a board.
LEMMA RemovedIs ==
  ASSUME NEW S, NEW s \in Seq(S), NEW i \in DOMAIN s
  PROVE  RemoveAt(s, i) \in Seq(S)
<1>1. i \in 1..Len(s) /\ Len(s) \in Nat
  BY LenProperties
<1>2. SubSeq(s, 1, i - 1) \in Seq(S) /\ SubSeq(s, i + 1, Len(s)) \in Seq(S)
  BY <1>1
<1> QED BY <1>2, ConcatProperties DEF RemoveAt

\* No step changes which sources there are, nor what the boards showed at the start.
LEMMA WorldKept ==
  IngestInv /\ [Next]_vars
    => /\ WorldInv' /\ Ids' = Ids /\ Postings' = Postings /\ registry' = registry
       /\ world'.boards = world.boards
<1> SUFFICES ASSUME IngestInv, [Next]_vars
             PROVE  /\ WorldInv' /\ Ids' = Ids /\ Postings' = Postings /\ registry' = registry
                    /\ world'.boards = world.boards
  OBVIOUS
<1>1. WorldInv
  BY DEF IngestInv
<1>2. registry' = registry
  BY DEF Next, vars, SkipSource, FetchFails, FetchPage, FetchConditional, DropRaw, StoreRaw,
         SourceDone, PassEnds, BeginControllerPass, BeginQueuePass, Trigger, PeriodicIngest,
         WorkIngest, ContextEnds, Sweep, Restart, Withdraw, Republish, Tick
<1>3. world'.boards = world.boards /\ "boards" \in DOMAIN world'
  <2>1. \/ UNCHANGED world
        \/ world' = [world EXCEPT !.faults = @ - 1]
        \/ world' = [world EXCEPT !.changes = @ - 1]
    BY DEF Next, vars, SkipSource, FetchFails, FetchPage, FetchConditional, DropRaw, StoreRaw,
           SourceDone, PassEnds, BeginControllerPass, BeginQueuePass, Trigger, PeriodicIngest,
           WorkIngest, ContextEnds, Sweep, Restart, Withdraw, Republish, Tick, Spend
  <2> QED BY <1>1, <2>1 DEF WorldInv
<1>4. Ids' = Ids
  BY <1>2 DEF Ids
<1>5. Postings' = Postings
  BY <1>3, <1>4 DEF Postings
<1>6. ASSUME NEW id \in Ids PROVE id \in DOMAIN boards' /\ boards'[id] \in Seq(Postings)
  <2>0. id \in DOMAIN boards /\ boards[id] \in Seq(Postings) /\ world.boards[id] \in Seq(Postings)
    BY <1>1 DEF WorldInv
  <2>1. CASE UNCHANGED boards
    BY <2>0, <2>1
  <2>2. CASE Withdraw
    <3>1. PICK x \in Ids : \E i \in DOMAIN boards[x] :
            boards' = [boards EXCEPT ![x] = RemoveAt(boards[x], i)]
      BY <2>2 DEF Withdraw
    <3>0. PICK i \in DOMAIN boards[x] : boards' = [boards EXCEPT ![x] = RemoveAt(boards[x], i)]
      BY <3>1
    <3>2. boards[x] \in Seq(Postings)
      BY <1>1 DEF WorldInv
    <3>3. RemoveAt(boards[x], i) \in Seq(Postings)
      BY <3>2, RemovedIs
    <3> QED BY <2>0, <3>0, <3>3
  <2>3. CASE Republish
    BY <2>0, <2>3 DEF Republish
  <2>4. UNCHANGED boards \/ Withdraw \/ Republish
    BY DEF Next, vars, SkipSource, FetchFails, FetchPage, FetchConditional, DropRaw, StoreRaw,
           SourceDone, PassEnds, BeginControllerPass, BeginQueuePass, Trigger, PeriodicIngest,
           WorkIngest, ContextEnds, Sweep, Restart, Tick
  <2> QED BY <2>1, <2>2, <2>3, <2>4
<1>7. WorldInv'
  BY <1>1, <1>2, <1>3, <1>4, <1>5, <1>6 DEF WorldInv
<1> QED BY <1>2, <1>3, <1>4, <1>5, <1>7

\* The ages stay within their limits.
LEMMA AgesAre ==
  /\ \A limit \in Nat : /\ 0 \in Ages(limit) /\ limit \in Ages(limit)
                         /\ \A age \in Ages(limit) : Older(age, limit) \in Ages(limit)
  /\ Swept \in Nat /\ Cooldown \in Nat /\ MinGap \in Nat /\ MaxFailures \in Nat
  /\ StaleAfter \in Nat
BY IngestAssumption DEF Ages, Older, Swept

\* A visit of a source begins with an empty fetch.
LEMMA VisitIs ==
  ASSUME NEW owner, owner # "none", NEW index, NEW age \in Ages(Cooldown), NEW err
  PROVE  /\ IsPass(Visit(owner, index, age))
         /\ IsPass([Visit(owner, index, age) EXCEPT !.persistErr = err])
<1> DEFINE v == Visit(owner, index, age)
           w == [v EXCEPT !.persistErr = err]
<1>1. /\ DOMAIN v = PassFields /\ v.owner = owner /\ v.age = age /\ v.since = 0
      /\ v.step = "fetch" /\ v.fetch = StartOfFetch /\ v.begun = <<>>
  BY DEF Visit, PassFields
<1>2. /\ DOMAIN StartOfFetch = {"kept", "at", "done"} /\ StartOfFetch.kept = <<>>
      /\ StartOfFetch.at = 0
  BY DEF StartOfFetch
<1> HIDE DEF v
<1>3. /\ DOMAIN w = PassFields /\ w.owner = owner /\ w.age = age /\ w.since = 0
      /\ w.step = "fetch" /\ w.fetch = StartOfFetch /\ w.begun = <<>>
  BY <1>1 DEF PassFields
<1>4. 0 \in Ages(Swept) /\ <<>> \in Seq(Postings)
  BY AgesAre
<1> HIDE DEF w
<1>5. ASSUME NEW p, DOMAIN p = PassFields /\ p.owner = owner /\ p.age = age /\ p.since = 0
                     /\ p.step = "fetch" /\ p.fetch = StartOfFetch /\ p.begun = <<>>
      PROVE  IsPass(p)
  <2>1. p.fetch.kept \in Seq(Postings) /\ p.begun \in Seq(Postings) /\ p.since \in Ages(Swept)
    BY <1>2, <1>4, <1>5
  <2> QED BY <1>2, <1>5, <2>1 DEF IsPass
<1>6. IsPass(v) /\ IsPass(w)
  BY <1>1, <1>3, <1>5
<1> QED BY <1>6 DEF v, w

\* The source that is fetched is a registered one.
LEMMA FetchedSource ==
  ASSUME IngestInv, Fetching
  PROVE  /\ IsPass(pass) /\ b.id \in Ids /\ b.limit \in Nat \ {0} /\ pass.step = "fetch"
         /\ boards[b.id] \in Seq(Postings)
<1>1. IsPass(pass)
  BY DEF IngestInv, PassInv, Fetching, Idle
<1>2. b.id \in Ids /\ b.limit \in Nat \ {0}
  BY DEF IngestInv, WorldInv, Fetching, Ids, b
<1> QED BY <1>1, <1>2 DEF IngestInv, WorldInv, Fetching

\* A source whose postings are being stored belongs to a pass.
LEMMA StoredSource ==
  ASSUME IngestInv, Storing
  PROVE  IsPass(pass) /\ pass.step = "store"
BY DEF IngestInv, PassInv, Storing, Idle

\* The end of a fetch.
LEMMA FetchedIs ==
  ASSUME IsPass(pass), NEW kept \in Seq(Postings), NEW shown,
         NEW begun, begun # Nil => begun \in Seq(Postings), Fetched(kept, shown, begun)
  PROVE  /\ IsPass(pass') /\ pass'.owner = pass.owner /\ pass'.index = pass.index
         /\ pass'.step = "store" /\ pass'.fetch.kept = kept /\ pass'.shown = shown
         /\ pass'.begun = begun /\ pass'.since = 0 /\ pass'.lost = pass.lost
<1> DEFINE f == [StartOfFetch EXCEPT !.kept = kept]
<1>1. pass' = [pass EXCEPT !.step = "store", !.fetch = f, !.shown = shown, !.begun = begun,
                           !.since = 0]
  BY DEF Fetched
<1>2. DOMAIN f = {"kept", "at", "done"} /\ f.kept = kept /\ f.at = 0
  BY DEF StartOfFetch
<1> HIDE DEF f
<1>3. /\ DOMAIN pass' = PassFields /\ pass'.owner = pass.owner /\ pass'.index = pass.index
      /\ pass'.age = pass.age /\ pass'.lost = pass.lost
      /\ pass'.step = "store" /\ pass'.fetch = f
      /\ pass'.shown = shown /\ pass'.begun = begun /\ pass'.since = 0
  BY <1>1 DEF IsPass, PassFields
<1>4. 0 \in Ages(Swept)
  BY AgesAre
<1> QED BY <1>2, <1>3, <1>4 DEF IsPass

\* The board that a fetch is owed after a page with a total: the one that it began with,
\* if it is still shown and the total does not fall short.
BegunNow(count) ==
  IF ~FallsShort(b, boards[b.id], count) /\ (pass.fetch = StartOfFetch \/ pass.begun = boards[b.id])
  THEN boards[b.id] ELSE Nil
\* A page: the fetch ends or reads on.
PageEffect(count, begun) ==
  LET read == ReadPage(b, pass.fetch, boards[b.id], count) IN
  /\ Fetching /\ b.kind \in PageKinds /\ IsPass(pass) /\ IsPass(pass')
  /\ begun = BegunNow(count)
  /\ pass'.owner = pass.owner /\ pass'.index = pass.index /\ pass'.begun = begun
  /\ pass'.lost = pass.lost
  /\ \/ /\ read.done /\ pass'.step = "store" /\ pass'.fetch.kept = read.kept
        /\ pass'.shown = Keys(b, read.kept) /\ pass'.since = 0
        /\ breaker' = [breaker EXCEPT ![b.id] = Closed]
     \/ ~read.done /\ pass'.step = "fetch" /\ pass'.fetch = read /\ UNCHANGED breaker

\* What FetchPage does, whatever total the reply carries.
LEMMA FetchPageIs ==
  ASSUME IngestInv, FetchPage
  PROVE  \E count, begun : count \in Nat /\ PageEffect(count, begun)
<1>1. Fetching /\ b.kind \in PageKinds
  BY DEF FetchPage
<1>2. IsPass(pass) /\ b.limit \in Nat \ {0} /\ pass.step = "fetch" /\ boards[b.id] \in Seq(Postings)
  BY <1>1, FetchedSource
<1> DEFINE Begun(short) == IF ~short /\ (pass.fetch = StartOfFetch \/ pass.begun = boards[b.id])
                           THEN boards[b.id] ELSE Nil
           Read(count) == ReadPage(b, pass.fetch, boards[b.id], count)
           Short(count) == FallsShort(b, boards[b.id], count)
           Effect(read, begun) ==
             IF read.done THEN Fetched(read.kept, Keys(b, read.kept), begun)
             ELSE pass' = [pass EXCEPT !.fetch = read, !.begun = begun] /\ UNCHANGED breaker
<1>3. PICK count \in Nat : Effect(Read(count), Begun(Short(count)))
  <2>1. PICK answer \in {[read |-> Read(count), short |-> Short(count)] :
                          count \in 0 .. Len(boards[b.id]) + 1} :
          Effect(answer.read, Begun(answer.short))
    BY DEF FetchPage
  <2> HIDE DEF Read, Short, Effect, Begun
  <2>2. PICK count \in 0 .. Len(boards[b.id]) + 1 :
          answer = [read |-> Read(count), short |-> Short(count)]
    BY <2>1
  <2>3. count \in Nat /\ answer.read = Read(count) /\ answer.short = Short(count)
    BY <2>2
  <2> QED BY <2>1, <2>3
<1> DEFINE read == Read(count)
           begun == Begun(Short(count))
<1>4. begun # Nil => begun \in Seq(Postings)
  BY <1>2
<1>5. read.kept \in Seq(Postings) /\ read.at \in Nat
      /\ read = [kept |-> read.kept, at |-> read.at, done |-> read.done]
  <2>1. pass.fetch.kept \in Seq(Postings) /\ pass.fetch.at \in Nat
    BY <1>2 DEF IsPass
  <2> QED BY <1>1, <1>2, <2>1, PageType
<1> HIDE DEF begun, Begun, Short, Read
<1>6. CASE read.done
  <2>1. Fetched(read.kept, Keys(b, read.kept), begun)
    BY <1>3, <1>6 DEF begun
  <2>2. /\ IsPass(pass') /\ pass'.owner = pass.owner /\ pass'.index = pass.index
        /\ pass'.step = "store" /\ pass'.fetch.kept = read.kept
        /\ pass'.shown = Keys(b, read.kept)
        /\ pass'.begun = begun /\ pass'.since = 0 /\ pass'.lost = pass.lost
    BY <1>2, <1>4, <1>5, <2>1, FetchedIs
  <2>3. breaker' = [breaker EXCEPT ![b.id] = Closed]
    BY <2>1 DEF Fetched
  <2> QED BY <1>1, <1>2, <1>6, <2>2, <2>3 DEF begun, Begun, Short, BegunNow, Read, PageEffect
<1>7. CASE ~read.done
  <2>1. pass' = [pass EXCEPT !.fetch = read, !.begun = begun] /\ UNCHANGED breaker
    BY <1>3, <1>7 DEF begun
  <2>2. DOMAIN read = {"kept", "at", "done"}
    BY <1>5
  <2> HIDE DEF read
  <2>3. /\ DOMAIN pass' = PassFields /\ pass'.owner = pass.owner /\ pass'.index = pass.index
        /\ pass'.age = pass.age /\ pass'.lost = pass.lost /\ pass'.step = "fetch"
        /\ pass'.since = pass.since /\ pass'.fetch = read /\ pass'.begun = begun
    BY <1>2, <2>1 DEF IsPass, PassFields
  <2>4. IsPass(pass')
    BY <1>2, <1>4, <1>5, <2>2, <2>3 DEF IsPass
  <2> QED BY <1>1, <1>2, <1>7, <2>1, <2>3, <2>4
          DEF begun, Begun, Short, BegunNow, Read, read, PageEffect
<1> QED BY <1>6, <1>7

\* A conditional answer, new or unchanged: the fetch ends.
LEMMA FetchConditionalIs ==
  ASSUME IngestInv, FetchConditional
  PROVE  /\ Fetching /\ b.kind \in ATSKinds /\ IsPass(pass) /\ IsPass(pass')
         /\ pass'.owner = pass.owner /\ pass'.index = pass.index /\ pass'.step = "store"
         /\ pass'.lost = pass.lost
         /\ pass'.fetch.kept = NamedOf(b, boards[b.id]) /\ pass'.begun = boards[b.id]
         /\ pass'.shown = Keys(b, NamedOf(b, boards[b.id])) /\ pass'.since = 0
         /\ breaker' = [breaker EXCEPT ![b.id] = Closed]
<1>1. Fetching /\ b.kind \in ATSKinds
  BY DEF FetchConditional
<1>2. IsPass(pass) /\ boards[b.id] \in Seq(Postings)
  BY <1>1, FetchedSource
<1> DEFINE kept == NamedOf(b, boards[b.id])
<1>3. kept \in Seq(Postings)
  BY <1>2, NamedIs
<1>4. Fetched(kept, Keys(b, kept), boards[b.id])
  BY DEF FetchConditional, Replay
<1> HIDE DEF kept
<1>5. /\ IsPass(pass') /\ pass'.owner = pass.owner /\ pass'.index = pass.index
      /\ pass'.step = "store" /\ pass'.fetch.kept = kept /\ pass'.shown = Keys(b, kept)
      /\ pass'.begun = boards[b.id] /\ pass'.since = 0 /\ pass'.lost = pass.lost
  BY <1>2, <1>3, <1>4, FetchedIs
<1> QED BY <1>1, <1>2, <1>4, <1>5 DEF kept, Fetched

\* One posting is stored, dropped or lost.
LEMMA StoreIs ==
  ASSUME IngestInv, DropRaw \/ StoreRaw
  PROVE  /\ Storing /\ IsPass(pass) /\ IsPass(pass') /\ pass.fetch.kept # <<>>
         /\ pass'.owner = pass.owner /\ pass'.index = pass.index /\ pass'.step = "store"
         /\ pass'.fetch.kept = Tail(pass.fetch.kept) /\ pass'.begun = pass.begun
         /\ pass'.shown = pass.shown /\ pass'.since = pass.since
         /\ \/ NextRows = {} /\ UNCHANGED <<rows, served>> /\ pass'.lost = pass.lost
            \/ \E row \in NextRows : Upsert(row) /\ UNCHANGED served /\ pass'.lost = pass.lost
            \/ \E row \in NextRows : /\ UNCHANGED <<rows, served>>
                                     /\ pass'.lost = pass.lost \cup {row.key}
<1>1. Storing /\ pass.fetch.kept # <<>>
  BY DEF DropRaw, StoreRaw
<1>2. IsPass(pass) /\ pass.step = "store"
  BY <1>1, StoredSource
<1>3. Tail(pass.fetch.kept) \in Seq(Postings)
  BY <1>1, <1>2, HeadTailProperties DEF IsPass
<1>4. /\ DOMAIN Stored = PassFields /\ Stored.owner = pass.owner /\ Stored.index = pass.index
      /\ Stored.age = pass.age /\ Stored.step = "store" /\ Stored.begun = pass.begun
      /\ Stored.shown = pass.shown /\ Stored.lost = pass.lost /\ Stored.since = pass.since
      /\ DOMAIN Stored.fetch = {"kept", "at", "done"}
      /\ Stored.fetch.kept = Tail(pass.fetch.kept) /\ Stored.fetch.at = pass.fetch.at
  BY <1>2 DEF Stored, IsPass, PassFields
<1>5. IsPass(Stored)
  BY <1>2, <1>3, <1>4 DEF IsPass
<1>6. CASE DropRaw
  BY <1>1, <1>2, <1>4, <1>5, <1>6 DEF DropRaw
<1>7. CASE StoreRaw
  <2>1. PICK row \in NextRows :
          /\ UNCHANGED served
          /\ \/ Upsert(row) /\ pass' = Stored
             \/ /\ UNCHANGED rows
                /\ pass' = [Stored EXCEPT !.lost = Stored.lost \cup {row.key}, !.persistErr = TRUE]
    BY <1>7 DEF StoreRaw
  <2>2. CASE Upsert(row) /\ pass' = Stored
    BY <1>1, <1>2, <1>4, <1>5, <2>1, <2>2
  <2>3. CASE /\ UNCHANGED rows
             /\ pass' = [Stored EXCEPT !.lost = Stored.lost \cup {row.key}, !.persistErr = TRUE]
    <3>1. /\ DOMAIN pass' = PassFields /\ pass'.owner = pass.owner /\ pass'.index = pass.index
          /\ pass'.age = pass.age /\ pass'.step = "store" /\ pass'.begun = pass.begun
          /\ pass'.shown = pass.shown /\ pass'.lost = pass.lost \cup {row.key}
          /\ pass'.since = pass.since /\ pass'.fetch = Stored.fetch
      BY <1>4, <2>3 DEF PassFields
    <3>2. IsPass(pass')
      BY <1>2, <1>3, <1>4, <3>1 DEF IsPass
    <3> QED BY <1>1, <1>2, <1>4, <2>1, <2>3, <3>1, <3>2
  <2> QED BY <2>1, <2>2, <2>3
<1> QED BY <1>6, <1>7

\* A pass goes on to the next source, or begins.
LEMMA NextIs ==
  ASSUME IngestInv, SkipSource \/ FetchFails \/ SourceDone
  PROVE  /\ IsPass(pass) /\ IsPass(pass') /\ pass'.owner = pass.owner /\ pass'.step = "fetch"
         /\ pass'.fetch = StartOfFetch /\ pass'.begun = <<>>
<1>1. IsPass(pass)
  <2>1. Fetching \/ Storing
    BY DEF SkipSource, FetchFails, SourceDone
  <2> QED BY <2>1, FetchedSource, StoredSource
<1>2. pass' = [Visit(pass.owner, pass.index + 1, pass.age) EXCEPT !.persistErr = pass.persistErr]
  BY DEF SkipSource, FetchFails, SourceDone, AfterFailure, NextSource
<1>3. IsPass(pass')
  <2>1. pass.owner # "none" /\ pass.age \in Ages(Cooldown)
    BY <1>1 DEF IsPass
  <2> QED BY <1>2, <2>1, VisitIs
<1> QED BY <1>1, <1>2, <1>3 DEF Visit

\* A pass begins with an empty fetch and its owner.
LEMMA BeginIs ==
  ASSUME BeginControllerPass \/ BeginQueuePass
  PROVE  /\ pass = Idle /\ IsPass(pass') /\ pass'.step = "fetch"
         /\ BeginControllerPass => pass'.owner = "controller"
         /\ BeginQueuePass => pass'.owner = "queue"
         /\ pass'.fetch = StartOfFetch /\ pass'.begun = <<>>
<1>1. PICK owner \in {"controller", "queue"} :
        /\ pass = Idle /\ pass' = Visit(owner, 1, 0)
        /\ BeginControllerPass => owner = "controller"
        /\ BeginQueuePass => owner = "queue"
  BY DEF BeginControllerPass, BeginQueuePass, Visit
<1>2. owner # "none" /\ 0 \in Ages(Cooldown)
  BY AgesAre
<1>3. IsPass(pass')
  BY <1>1, <1>2, VisitIs
<1> QED BY <1>1, <1>3 DEF Visit

\* The time changes only the ages of a pass.
LEMMA TickIs ==
  ASSUME IngestInv, Tick
  PROVE  \/ pass = Idle /\ pass' = Idle
         \/ /\ IsPass(pass) /\ IsPass(pass') /\ pass'.owner = pass.owner
            /\ pass'.index = pass.index /\ pass'.step = pass.step /\ pass'.fetch = pass.fetch
            /\ pass'.begun = pass.begun /\ pass'.shown = pass.shown /\ pass'.lost = pass.lost
            /\ pass.step = "store" => pass'.since = Older(pass.since, Swept)
<1>1. CASE pass = Idle
  BY <1>1 DEF Tick
<1>2. CASE pass # Idle
  <2>1. IsPass(pass)
    BY <1>2 DEF IngestInv, PassInv
  <2>2. pass' = [pass EXCEPT !.age = Older(pass.age, Cooldown),
                             !.since = IF pass.step = "store" THEN Older(pass.since, Swept)
                                       ELSE pass.since]
    BY <1>2 DEF Tick
  <2>3. /\ DOMAIN pass' = PassFields /\ pass'.owner = pass.owner /\ pass'.index = pass.index
        /\ pass'.step = pass.step /\ pass'.fetch = pass.fetch /\ pass'.begun = pass.begun
        /\ pass'.shown = pass.shown /\ pass'.lost = pass.lost
        /\ pass'.age = Older(pass.age, Cooldown)
        /\ pass'.since = IF pass.step = "store" THEN Older(pass.since, Swept) ELSE pass.since
    BY <2>1, <2>2 DEF IsPass, PassFields
  <2>4. pass'.age \in Ages(Cooldown) /\ pass'.since \in Ages(Swept)
    BY <2>1, <2>3, AgesAre DEF IsPass
  <2> QED BY <2>1, <2>3, <2>4 DEF IsPass
<1> QED BY <1>1, <1>2

\* The other steps leave the pass alone or end it.
LEMMA Rest ==
  ASSUME [Next]_vars
  PROVE  \/ SkipSource \/ FetchFails \/ SourceDone \/ FetchPage \/ FetchConditional \/ DropRaw
         \/ StoreRaw \/ BeginControllerPass \/ BeginQueuePass \/ Tick
         \/ pass' = Idle \/ UNCHANGED pass
BY DEF Next, vars, PassEnds, Trigger, PeriodicIngest, WorkIngest, ContextEnds, Sweep, Restart,
       Withdraw, Republish

\* A pass keeps its shape.
LEMMA PassKept == IngestInv /\ [Next]_vars => PassInv'
<1> SUFFICES ASSUME IngestInv, [Next]_vars PROVE PassInv'
  OBVIOUS
<1>1. Postings' = Postings
  BY WorldKept
<1>2. IsPass(pass)' <=> IsPass(pass')
  BY <1>1 DEF IsPass, Ages, Swept, PassFields
<1>3. pass' = Idle \/ IsPass(pass')
  <2>1. CASE SkipSource \/ FetchFails \/ SourceDone
    BY <2>1, NextIs
  <2>2. CASE FetchPage
    BY <2>2, FetchPageIs DEF PageEffect
  <2>3. CASE FetchConditional
    BY <2>3, FetchConditionalIs
  <2>4. CASE DropRaw \/ StoreRaw
    BY <2>4, StoreIs
  <2>5. CASE BeginControllerPass \/ BeginQueuePass
    BY <2>5, BeginIs
  <2>6. CASE Tick
    BY <2>6, TickIs
  <2>7. CASE pass' = Idle
    BY <2>7
  <2>8. CASE UNCHANGED pass
    BY <2>8 DEF IngestInv, PassInv
  <2> QED BY Rest, <2>1, <2>2, <2>3, <2>4, <2>5, <2>6, <2>7, <2>8
<1> QED BY <1>2, <1>3 DEF PassInv, Idle

\* An empty fetch has read nothing of any board.
LEMMA EmptyFetch ==
  ASSUME NEW src, src.limit \in Nat \ {0}, NEW S, NEW board \in Seq(S)
  PROVE  Reading(src, StartOfFetch, board)
<1>1. StartOfFetch.at = 0 /\ StartOfFetch.kept = <<>> /\ Len(board) \in Nat
  BY LenProperties DEF StartOfFetch
<1>2. Prefix(board, 0) = <<>>
  BY SubSeqEmpty DEF Prefix
<1>3. <<>> \in Seq(S) /\ NamedOf(src, <<>>) = <<>>
  <2>1. \A i \in DOMAIN <<>> : Named(src, <<>>[i])
    OBVIOUS
  <2>2. <<>> \in Seq(S)
    OBVIOUS
  <2> QED BY <2>1, <2>2, AllNamed
<1>4. Reached(StartOfFetch, board) = 0
  BY <1>1 DEF Reached, Lesser
<1> QED BY <1>1, <1>2, <1>3, <1>4 DEF Reading

\* A page is read of the board of which the fetch has read the first part.
LEMMA ReadingNow ==
  ASSUME IngestInv, Fetching,
         NEW count, BegunNow(count) # Nil
  PROVE  /\ BegunNow(count) = boards[b.id] /\ Reading(b, pass.fetch, boards[b.id])
         /\ ~FallsShort(b, boards[b.id], count)
<1>1. b.limit \in Nat \ {0} /\ boards[b.id] \in Seq(Postings)
  BY FetchedSource
<1>2. /\ BegunNow(count) = boards[b.id] /\ ~FallsShort(b, boards[b.id], count)
      /\ pass.fetch = StartOfFetch \/ pass.begun = boards[b.id]
  BY DEF BegunNow
<1>3. CASE pass.fetch = StartOfFetch
  BY <1>1, <1>2, <1>3, EmptyFetch
<1>4. CASE pass.begun = boards[b.id]
  BY <1>2, <1>4 DEF IngestInv, FetchInv
<1> QED BY <1>2, <1>3, <1>4

\* The source stays the same as long as the index does.
LEMMA SourceKept == ASSUME registry' = registry, pass'.index = pass.index PROVE b' = b
BY DEF b

\* A fetch of an unchanged board has read a prefix of it.
LEMMA FetchKept == IngestInv /\ [Next]_vars => FetchInv'
<1> SUFFICES ASSUME IngestInv, [Next]_vars, Fetching', pass'.begun # Nil
             PROVE  Reading(b', pass'.fetch, pass'.begun)
  BY DEF FetchInv, Reading
<1>1. registry' = registry /\ WorldInv'
  BY WorldKept
<1>2. pass'.owner # "none" /\ pass'.index \in DOMAIN registry /\ pass'.step = "fetch"
  BY <1>1 DEF Fetching
<1>3. b'.limit \in Nat \ {0}
  BY <1>1, <1>2 DEF WorldInv, b
<1>4. CASE pass'.fetch = StartOfFetch /\ pass'.begun = <<>>
  <2>1. <<>> \in Seq(Postings)
    OBVIOUS
  <2> QED BY <1>3, <1>4, <2>1, EmptyFetch
<1>5. CASE FetchPage
  <2>0. PICK count, begun : count \in Nat /\ PageEffect(count, begun)
    BY <1>5, FetchPageIs
  <2>1. LET read == ReadPage(b, pass.fetch, boards[b.id], count) IN
    /\ Fetching /\ b.kind \in PageKinds
    /\ begun = BegunNow(count)
    /\ pass'.index = pass.index /\ pass'.begun = begun
    /\ pass'.step = "store" \/ (~read.done /\ pass'.fetch = read)
    BY <2>0 DEF PageEffect
  <2> DEFINE read == ReadPage(b, pass.fetch, boards[b.id], count)
  <2>2. ~read.done /\ pass'.fetch = read
    BY <1>2, <2>1
  <2>3. /\ begun = boards[b.id] /\ Reading(b, pass.fetch, begun)
        /\ ~FallsShort(b, boards[b.id], count)
    BY <2>1, ReadingNow
  <2>4. b.limit \in Nat \ {0} /\ boards[b.id] \in Seq(Postings)
    BY <2>1, FetchedSource
  <2>5. Reading(b, read, begun)
    BY <2>0, <2>1, <2>2, <2>3, <2>4, PageIsRead
  <2> QED BY <1>1, <2>1, <2>2, <2>5, SourceKept
<1>6. CASE UNCHANGED pass \/ Tick
  <2>1. /\ pass'.index = pass.index /\ pass'.fetch = pass.fetch /\ pass'.begun = pass.begun
        /\ pass'.owner = pass.owner /\ pass'.step = pass.step
    BY <1>2, <1>6, TickIs DEF Idle
  <2>2. Fetching /\ pass.begun # Nil
    BY <1>2, <2>1 DEF Fetching
  <2>3. Reading(b, pass.fetch, pass.begun)
    BY <2>2 DEF IngestInv, FetchInv
  <2> QED BY <1>1, <2>1, <2>3, SourceKept
<1>7. \/ pass'.fetch = StartOfFetch /\ pass'.begun = <<>>
      \/ FetchPage \/ UNCHANGED pass \/ Tick
  <2>1. pass' # Idle
    BY <1>2 DEF Idle
  <2>2. ~FetchConditional /\ ~(DropRaw \/ StoreRaw)
    BY <1>2, FetchConditionalIs, StoreIs
  <2> QED BY Rest, <2>1, <2>2, NextIs, BeginIs
<1> QED BY <1>4, <1>5, <1>6, <1>7

\* A complete fetch has what is owed, and its listings are those that are shown.
LEMMA OwedIsKept ==
  ASSUME NEW kept \in Seq(Postings), NEW owed, owed = kept
  PROVE  /\ owed \in Seq(Postings) /\ Len(kept) <= Len(owed)
         /\ kept = SubSeq(owed, Len(owed) - Len(kept) + 1, Len(owed))
<1>1. Len(kept) \in Nat /\ Len(owed) - Len(kept) + 1 = 1
  BY LenProperties
<1> QED BY <1>1, SubSeqFull

\* The last postings of what is owed, after one is stored.
LEMMA LastOnes ==
  ASSUME NEW owed \in Seq(Postings), NEW kept \in Seq(Postings), kept # <<>>,
         Len(kept) <= Len(owed), kept = SubSeq(owed, Len(owed) - Len(kept) + 1, Len(owed))
  PROVE  /\ Len(Tail(kept)) <= Len(owed)
         /\ Tail(kept) = SubSeq(owed, Len(owed) - Len(Tail(kept)) + 1, Len(owed))
<1>1. Len(kept) \in Nat \ {0} /\ Len(owed) \in Nat /\ Len(Tail(kept)) = Len(kept) - 1
  BY EmptySeq, HeadTailProperties, LenProperties
<1> DEFINE m == Len(owed) - Len(kept) + 1
<1>2. m \in 1..Len(owed) /\ Len(owed) \in m..Len(owed)
      /\ m + 1 = Len(owed) - Len(Tail(kept)) + 1
  BY <1>1
<1>3. Tail(SubSeq(owed, m, Len(owed))) = SubSeq(owed, m + 1, Len(owed))
  <2> HIDE DEF m
  <2> QED BY <1>2, HeadTailOfSubSeq
<1> QED BY <1>1, <1>2, <1>3

\* What is still to be stored are the last postings that the board owes.
LEMMA OwedKept == IngestInv /\ [Next]_vars => OwedInv'
<1> DEFINE LastOf(src, begun, kept, shown) ==
             LET owed == Owed(src, begun) IN
             owed # Nil =>
               /\ owed \in Seq(Postings) /\ Len(kept) <= Len(owed)
               /\ kept = SubSeq(owed, Len(owed) - Len(kept) + 1, Len(owed))
               /\ shown = Keys(src, owed)
<1> SUFFICES ASSUME IngestInv, [Next]_vars, Storing', pass'.begun # Nil
             PROVE  LastOf(b', pass'.begun, pass'.fetch.kept, pass'.shown)
  BY WorldKept DEF OwedInv
<1>1. registry' = registry
  BY WorldKept
<1>2. pass'.owner # "none" /\ pass'.step = "store"
  BY DEF Storing
<1>3. Storing /\ pass.begun # Nil => LastOf(b, pass.begun, pass.fetch.kept, pass.shown)
  BY DEF IngestInv, OwedInv
<1>4. ASSUME NEW kept \in Seq(Postings), NEW begun,
             Owed(b, begun) # Nil => kept = Owed(b, begun)
      PROVE  LastOf(b, begun, kept, Keys(b, kept))
  BY <1>4, OwedIsKept
<1> HIDE DEF LastOf
<1>5. CASE FetchPage
  <2>0. PICK count, begun : count \in Nat /\ PageEffect(count, begun)
    BY <1>5, FetchPageIs
  <2> DEFINE read == ReadPage(b, pass.fetch, boards[b.id], count)
  <2>1. /\ Fetching /\ b.kind \in PageKinds /\ IsPass(pass)
        /\ begun = BegunNow(count)
        /\ pass'.index = pass.index /\ pass'.begun = begun
    BY <2>0 DEF PageEffect
  <2>2. read.done /\ pass'.fetch.kept = read.kept /\ pass'.shown = Keys(b, read.kept)
    BY <1>2, <2>0, Zenon DEF PageEffect
  <2>3. /\ begun = boards[b.id] /\ Reading(b, pass.fetch, begun)
        /\ ~FallsShort(b, boards[b.id], count)
    BY <2>1, ReadingNow
  <2>4. b.limit \in Nat \ {0} /\ boards[b.id] \in Seq(Postings)
    BY <2>1, FetchedSource
  <2>5. Complete(b, read.kept, begun)
    BY <2>0, <2>1, <2>2, <2>3, <2>4, PageIsRead
  <2>6. read.kept \in Seq(Postings)
    <3>1. pass.fetch.kept \in Seq(Postings) /\ pass.fetch.at \in Nat
      BY <2>1 DEF IsPass
    <3> QED BY <2>1, <2>4, <3>1, PageType
  <2> HIDE DEF read
  <2>7. LastOf(b, begun, read.kept, Keys(b, read.kept))
    BY <1>4, <2>5, <2>6 DEF Complete
  <2> QED BY <1>1, <2>1, <2>2, <2>7, SourceKept
<1>6. CASE FetchConditional
  <2>1. /\ Fetching /\ b.kind \in ATSKinds /\ pass'.index = pass.index
        /\ pass'.fetch.kept = NamedOf(b, boards[b.id]) /\ pass'.begun = boards[b.id]
        /\ pass'.shown = Keys(b, NamedOf(b, boards[b.id]))
    BY <1>6, FetchConditionalIs
  <2>2. NamedOf(b, boards[b.id]) \in Seq(Postings)
    BY <2>1, FetchedSource, NamedIs
  <2>3. Owed(b, boards[b.id]) # Nil => NamedOf(b, boards[b.id]) = Owed(b, boards[b.id])
    BY <2>1 DEF Owed
  <2>4. LastOf(b, boards[b.id], NamedOf(b, boards[b.id]), Keys(b, NamedOf(b, boards[b.id])))
    BY <1>4, <2>2, <2>3
  <2> QED BY <1>1, <2>1, <2>4, SourceKept
<1>7. CASE DropRaw \/ StoreRaw
  <2>1. /\ Storing /\ IsPass(pass) /\ pass.fetch.kept # <<>> /\ pass'.index = pass.index
        /\ pass'.fetch.kept = Tail(pass.fetch.kept) /\ pass'.begun = pass.begun
        /\ pass'.shown = pass.shown
    BY <1>7, StoreIs
  <2>2. LastOf(b, pass.begun, pass.fetch.kept, pass.shown) /\ pass.fetch.kept \in Seq(Postings)
    BY <1>3, <2>1 DEF IsPass
  <2>3. LastOf(b, pass.begun, Tail(pass.fetch.kept), pass.shown)
    BY <2>1, <2>2, LastOnes DEF LastOf
  <2> QED BY <1>1, <2>1, <2>3, SourceKept
<1>8. CASE UNCHANGED pass \/ Tick
  <2>1. /\ pass'.index = pass.index /\ pass'.fetch = pass.fetch /\ pass'.begun = pass.begun
        /\ pass'.owner = pass.owner /\ pass'.step = pass.step /\ pass'.shown = pass.shown
    BY <1>2, <1>8, TickIs DEF Idle
  <2>2. Storing /\ pass.begun # Nil
    BY <1>2, <2>1 DEF Storing
  <2> QED BY <1>1, <1>3, <2>1, <2>2, SourceKept
<1>9. FetchPage \/ FetchConditional \/ DropRaw \/ StoreRaw \/ UNCHANGED pass \/ Tick
  <2>1. pass' # Idle
    BY <1>2 DEF Idle
  <2> QED BY Rest, <1>2, <2>1, NextIs, BeginIs
<1> QED BY <1>5, <1>6, <1>7, <1>8, <1>9

-----------------------------------------------------------------------------
(* The rows *)

\* A posting becomes one listing, whatever its employment type is read as.
LEMMA OneKey ==
  ASSUME NEW src, NEW p, NEW row \in LocalRows(src, p), NEW other \in LocalRows(src, p)
  PROVE  row.key = other.key
BY DEF LocalRows, Normalize

\* A listing of the kept postings is of the first or of the others.
LEMMA KeysOfTail ==
  ASSUME NEW src, NEW S, NEW s \in Seq(S), s # <<>>, NEW k \in Keys(src, s)
  PROVE  k \in Keys(src, Tail(s)) \/ \E row \in LocalRows(src, Head(s)) : row.key = k
<1>1. PICK i \in DOMAIN s : \E row \in LocalRows(src, s[i]) : row.key = k
  BY DEF Keys
<1>2. /\ Len(s) \in Nat /\ DOMAIN s = 1..Len(s) /\ Head(s) = s[1]
      /\ Tail(s) \in Seq(S) /\ Len(Tail(s)) = Len(s) - 1
      /\ \A j \in 1..Len(Tail(s)) : Tail(s)[j] = s[j + 1]
  BY LenProperties, HeadTailProperties
<1>3. DOMAIN Tail(s) = 1..Len(Tail(s))
  BY <1>2, LenProperties
<1>4. CASE i = 1
  BY <1>1, <1>2, <1>4
<1>5. CASE i # 1
  <2>1. i - 1 \in DOMAIN Tail(s) /\ Tail(s)[i - 1] = s[i]
    BY <1>2, <1>3, <1>5
  <2> QED BY <1>1, <2>1 DEF Keys
<1> QED BY <1>4, <1>5

\* No posting is no listing.
LEMMA NoKeys == ASSUME NEW src PROVE Keys(src, <<>>) = {}
BY DEF Keys

IsRow(row, k) ==
  /\ DOMAIN row = RowFields /\ row.key = k
  /\ row.age \in Ages(Swept) /\ row.stale \in BOOLEAN /\ (row.stale => row.age = Swept)

\* The rows and the listings that were shown, as the invariant has them.
LEMMA RowsAre ==
  ASSUME IngestInv
  PROVE  /\ \A k \in DOMAIN rows : IsRow(rows[k], k)
         /\ \A k \in DOMAIN served : /\ served[k] \in Ages(Swept)
                                     /\ k \in DOMAIN rows /\ rows[k].age <= served[k]
BY DEF IngestInv, TypeOK, RowsInv, IsRow

\* A row as it is stored.
LEMMA FreshIs ==
  ASSUME NEW row
  PROVE  IsRow(Fresh(row), row.key) /\ Fresh(row).age = 0
<1>1. 0 \in Ages(Swept)
  BY AgesAre
<1>2. /\ DOMAIN Fresh(row) = RowFields /\ Fresh(row).age = 0 /\ Fresh(row).stale = FALSE
      /\ Fresh(row).key = row.key
  BY DEF Fresh, RowFields
<1> QED BY <1>1, <1>2 DEF IsRow

\* What a step does to the job table: it stores a row, sweeps or lets the rows age.
LEMMA RowSteps ==
  ASSUME [Next]_vars
  PROVE  \/ UNCHANGED rows
         \/ StoreRaw /\ \E row : Upsert(row)
         \/ Sweep /\ rows' = SweepStale(rows) /\ UNCHANGED <<served, pass>>
         \/ Tick
BY DEF Next, vars, SkipSource, FetchFails, FetchPage, FetchConditional, DropRaw, StoreRaw,
       SourceDone, PassEnds, BeginControllerPass, BeginQueuePass, Trigger, PeriodicIngest,
       WorkIngest, ContextEnds, Sweep, Restart, Withdraw, Republish, Tick

\* A row is not lost, and only the time makes it older.
LEMMA RowsGrow ==
  ASSUME IngestInv, [Next]_vars
  PROVE  /\ \A k \in DOMAIN rows' : IsRow(rows'[k], k)
         /\ \A k \in DOMAIN rows :
              /\ k \in DOMAIN rows'
              /\ rows'[k].age <= IF Tick THEN Older(rows[k].age, Swept) ELSE rows[k].age
<1>1. \A k \in DOMAIN rows : /\ IsRow(rows[k], k) /\ rows[k].age \in Nat
                             /\ rows[k].age \in Ages(Swept)
                             /\ rows[k].age <= Older(rows[k].age, Swept)
  BY RowsAre, AgesAre DEF IsRow, Ages, Older
<1>2. CASE UNCHANGED rows
  BY <1>1, <1>2
<1>3. CASE \E row : Upsert(row)
  <2>1. PICK row : rows' = [k \in DOMAIN rows \cup {row.key} |->
                              IF k = row.key THEN Fresh(row) ELSE rows[k]]
    BY <1>3 DEF Upsert
  <2>2. IsRow(Fresh(row), row.key) /\ Fresh(row).age = 0
    BY FreshIs
  <2>3. \A k \in DOMAIN rows : 0 <= rows[k].age /\ 0 <= Older(rows[k].age, Swept)
    BY <1>1 DEF Older
  <2> QED BY <1>1, <2>1, <2>2, <2>3
<1>4. CASE rows' = SweepStale(rows)
  <2>1. ASSUME NEW k \in DOMAIN rows PROVE IsRow(rows'[k], k) /\ rows'[k].age = rows[k].age
    <3>1. rows'[k] = [rows[k] EXCEPT !.stale = rows[k].stale \/ rows[k].age > StaleAfter]
      BY <1>4 DEF SweepStale
    <3>2. /\ DOMAIN rows'[k] = RowFields /\ rows'[k].key = rows[k].key
          /\ rows'[k].age = rows[k].age
          /\ rows'[k].stale = (rows[k].stale \/ rows[k].age > StaleAfter)
      BY <1>1, <3>1 DEF IsRow, RowFields
    <3>3. rows[k].age > StaleAfter => rows[k].age = Swept
      BY <1>1, IngestAssumption DEF Ages, Swept
    <3> QED BY <1>1, <3>2, <3>3 DEF IsRow
  <2>2. DOMAIN rows' = DOMAIN rows
    BY <1>4 DEF SweepStale
  <2> QED BY <1>1, <2>1, <2>2
<1>5. CASE Tick
  <2>1. rows' = [k \in DOMAIN rows |-> [rows[k] EXCEPT !.age = Older(rows[k].age, Swept)]]
    BY <1>5 DEF Tick
  <2>2. ASSUME NEW k \in DOMAIN rows
        PROVE  IsRow(rows'[k], k) /\ rows'[k].age = Older(rows[k].age, Swept)
    <3>1. rows'[k] = [rows[k] EXCEPT !.age = Older(rows[k].age, Swept)]
      BY <2>1
    <3>2. /\ DOMAIN rows'[k] = RowFields /\ rows'[k].key = rows[k].key
          /\ rows'[k].age = Older(rows[k].age, Swept) /\ rows'[k].stale = rows[k].stale
      BY <1>1, <3>1 DEF IsRow, RowFields
    <3>3. Older(rows[k].age, Swept) \in Ages(Swept)
      BY <1>1, AgesAre
    <3>4. Older(Swept, Swept) = Swept
      BY AgesAre DEF Older
    <3> QED BY <1>1, <3>2, <3>3, <3>4 DEF IsRow
  <2>3. \A k \in DOMAIN rows : Older(rows[k].age, Swept) \in Nat
    BY <1>1 DEF Older
  <2>4. DOMAIN rows' = DOMAIN rows
    BY <2>1
  <2>5. ASSUME NEW k \in DOMAIN rows PROVE rows'[k].age <= Older(rows[k].age, Swept)
    BY <2>2, <2>3
  <2> QED BY <1>5, <2>2, <2>4, <2>5
<1> QED BY RowSteps, <1>2, <1>3, <1>4, <1>5

\* The steps that change served: a source is done, or the time passes.
LEMMA ServedSteps ==
  ASSUME [Next]_vars
  PROVE  UNCHANGED served \/ SourceDone \/ Tick
BY DEF Next, vars, SkipSource, FetchFails, FetchPage, FetchConditional, DropRaw, StoreRaw,
       PassEnds, BeginControllerPass, BeginQueuePass, Trigger, PeriodicIngest,
       WorkIngest, ContextEnds, Sweep, Restart, Withdraw, Republish

\* The time keeps the order of two ages.
LEMMA OlderGrows ==
  ASSUME NEW limit \in Nat, NEW x \in Ages(limit), NEW y \in Ages(limit), x <= y
  PROVE  Older(x, limit) <= Older(y, limit) /\ x <= Older(y, limit)
BY DEF Older, Ages

\* What was shown and not lost has been stored by the time the source is done.
LEMMA DoneIsStored ==
  ASSUME IngestInv, SourceDone
  PROVE  /\ pass.since \in Ages(Swept)
         /\ \A k \in pass.shown \ pass.lost : k \in DOMAIN rows /\ rows[k].age <= pass.since
<1>1. Storing /\ pass.fetch.kept = <<>>
  BY DEF SourceDone
<1>2. IsPass(pass)
  BY <1>1, StoredSource
<1>3. Keys(b, pass.fetch.kept) = {}
  BY <1>1, NoKeys
<1> QED BY <1>1, <1>2, <1>3 DEF IngestInv, StoreInv, IsPass

\* The rows and the listings that were shown keep their types and their ages.
LEMMA RowsKept ==
  ASSUME IngestInv, [Next]_vars
  PROVE  /\ \A k \in DOMAIN rows' : IsRow(rows'[k], k)
         /\ \A k \in DOMAIN served' : /\ served'[k] \in Ages(Swept)
                                      /\ k \in DOMAIN rows' /\ rows'[k].age <= served'[k]
<1>1. /\ \A k \in DOMAIN rows : /\ k \in DOMAIN rows' /\ rows[k].age \in Ages(Swept)
                                /\ rows'[k].age \in Ages(Swept)
      /\ \A k \in DOMAIN rows' : IsRow(rows'[k], k)
  BY RowsAre, RowsGrow DEF IsRow
<1>2. \A k \in DOMAIN served : /\ served[k] \in Ages(Swept)
                               /\ k \in DOMAIN rows /\ rows[k].age <= served[k]
  BY RowsAre
<1>3. Ages(Swept) \subseteq Nat
  BY DEF Ages
<1>4. CASE ~Tick
  <2>1. \A k \in DOMAIN rows : rows'[k].age <= rows[k].age
    BY <1>4, RowsGrow
  <2>2. CASE UNCHANGED served
    <3>1. ASSUME NEW k \in DOMAIN served PROVE rows'[k].age <= served[k]
      BY <1>1, <1>2, <1>3, <2>1
    <3> QED BY <1>1, <1>2, <2>2, <3>1
  <2>3. CASE SourceDone
    <3>1. UNCHANGED rows
      BY <2>3 DEF SourceDone
    <3>2. /\ DOMAIN served' = DOMAIN served \cup (pass.shown \ pass.lost)
          /\ \A k \in DOMAIN served' :
               served'[k] = IF k \in pass.shown \ pass.lost THEN pass.since ELSE served[k]
      BY <2>3 DEF SourceDone
    <3> QED BY <1>1, <1>2, <2>3, <3>1, <3>2, DoneIsStored
  <2> QED BY <1>4, <2>2, <2>3, ServedSteps
<1>5. CASE Tick
  <2>1. served' = [k \in DOMAIN served |-> Older(served[k], Swept)]
    BY <1>5 DEF Tick
  <2>2. ASSUME NEW k \in DOMAIN served
        PROVE  /\ served'[k] \in Ages(Swept) /\ k \in DOMAIN rows' /\ rows'[k].age <= served'[k]
    <3>1. rows'[k].age <= Older(rows[k].age, Swept)
      BY <1>2, <1>5, RowsGrow
    <3>2. Older(rows[k].age, Swept) <= Older(served[k], Swept)
      BY <1>1, <1>2, AgesAre, OlderGrows
    <3>3. /\ Older(served[k], Swept) \in Ages(Swept) /\ Older(rows[k].age, Swept) \in Ages(Swept)
      BY <1>1, <1>2, AgesAre
    <3>4. served'[k] = Older(served[k], Swept)
      BY <2>1
    <3> QED BY <1>1, <1>2, <1>3, <3>1, <3>2, <3>3, <3>4
  <2> QED BY <1>1, <2>1, <2>2
<1> QED BY <1>4, <1>5

\* The storing of a source keeps the account of what was shown.
LEMMA StoreKept == IngestInv /\ [Next]_vars => StoreInv'
<1> DEFINE Waits(k, src, kept) == k \in Keys(src, kept)
           Since(k, table, since) == k \in DOMAIN table /\ table[k].age <= since
<1> SUFFICES ASSUME IngestInv, [Next]_vars, Storing', NEW k \in pass'.shown \ pass'.lost
             PROVE  Waits(k, b', pass'.fetch.kept) \/ Since(k, rows', pass'.since)
  BY DEF StoreInv
<1>1. pass'.owner # "none" /\ pass'.step = "store"
  BY DEF Storing
<1>2. registry' = registry
  BY WorldKept
<1>3. \A x \in DOMAIN rows : /\ x \in DOMAIN rows' /\ rows[x].age \in Ages(Swept)
                             /\ rows'[x].age \in Ages(Swept)
                             /\ rows'[x].age <= IF Tick THEN Older(rows[x].age, Swept)
                                                ELSE rows[x].age
  BY RowsAre, RowsGrow DEF IsRow
<1>4. Storing /\ k \in pass.shown \ pass.lost
        => Waits(k, b, pass.fetch.kept) \/ Since(k, rows, pass.since)
  BY DEF IngestInv, StoreInv
<1>5. Ages(Swept) \subseteq Nat
  BY DEF Ages
<1>6. CASE FetchPage
  <2>0. PICK count, begun : count \in Nat /\ PageEffect(count, begun)
    BY <1>6, FetchPageIs
  <2> DEFINE read == ReadPage(b, pass.fetch, boards[b.id], count)
  <2>1. pass'.index = pass.index
    BY <2>0 DEF PageEffect
  <2>2. pass'.fetch.kept = read.kept /\ pass'.shown = Keys(b, read.kept)
    BY <1>1, <2>0, Zenon DEF PageEffect
  <2> HIDE DEF read
  <2> QED BY <1>2, <2>1, <2>2, SourceKept
<1>7. CASE FetchConditional
  BY <1>2, <1>7, FetchConditionalIs, SourceKept
<1>8. CASE DropRaw \/ StoreRaw
  <2>1. /\ Storing /\ IsPass(pass) /\ pass.fetch.kept # <<>> /\ pass'.index = pass.index
        /\ pass'.fetch.kept = Tail(pass.fetch.kept) /\ pass'.shown = pass.shown
        /\ pass'.since = pass.since /\ pass.lost \subseteq pass'.lost
    BY <1>8, StoreIs
  <2>2. b' = b
    BY <1>2, <2>1, SourceKept
  <2>3. k \in pass.shown \ pass.lost
    BY <2>1
  <2>4. pass.fetch.kept \in Seq(Postings) /\ pass.since \in Nat
    BY <1>5, <2>1 DEF IsPass
  <2>5. \/ UNCHANGED rows
        \/ \E row \in NextRows : Upsert(row)
    BY <1>8, StoreIs
  <2>6. ASSUME NEW row, Upsert(row)
        PROVE  /\ DOMAIN rows' = DOMAIN rows \cup {row.key} /\ rows'[row.key].age = 0
               /\ \A x \in DOMAIN rows \ {row.key} : rows'[x] = rows[x]
    BY <2>6, FreshIs DEF Upsert
  <2>7. CASE Since(k, rows, pass.since)
    <3>1. CASE UNCHANGED rows
      BY <2>1, <2>7, <3>1
    <3>2. ASSUME NEW row \in NextRows, Upsert(row) PROVE Since(k, rows', pass'.since)
      <4>1. k \in DOMAIN rows' /\ (rows'[k] = rows[k] \/ rows'[k].age = 0)
        BY <2>6, <2>7, <3>2
      <4>2. rows'[k].age <= pass.since
        BY <2>4, <2>7, <4>1
      <4> QED BY <2>1, <4>1, <4>2
    <3> QED BY <2>5, <3>1, <3>2
  <2>8. CASE Waits(k, b, pass.fetch.kept) /\ ~Waits(k, b, Tail(pass.fetch.kept))
    <3>1. PICK row \in NextRows : row.key = k
      BY <2>1, <2>4, <2>8, KeysOfTail DEF NextRows
    <3>2. \A other \in NextRows : other.key = k
      BY <3>1, OneKey DEF NextRows
    <3>3. PICK other \in NextRows : Upsert(other)
      BY <1>8, <3>1, <3>2, StoreIs
    <3>4. k \in DOMAIN rows' /\ rows'[k].age = 0
      BY <2>6, <3>2, <3>3
    <3> QED BY <2>1, <2>4, <3>4
  <2> QED BY <1>4, <2>1, <2>2, <2>3, <2>7, <2>8
<1>9. CASE Tick
  <2>1. /\ pass'.index = pass.index /\ pass'.fetch = pass.fetch /\ pass'.owner = pass.owner
        /\ pass'.step = pass.step /\ pass'.shown = pass.shown /\ pass'.lost = pass.lost
        /\ IsPass(pass) /\ pass'.since = Older(pass.since, Swept)
    BY <1>1, <1>9, TickIs DEF Idle
  <2>2. Storing
    BY <1>1, <2>1 DEF Storing
  <2>3. b' = b
    BY <1>2, <2>1, SourceKept
  <2>4. CASE Since(k, rows, pass.since)
    <3>1. rows'[k].age <= Older(rows[k].age, Swept) /\ rows[k].age \in Ages(Swept)
      BY <1>3, <1>9, <2>4
    <3>2. Older(rows[k].age, Swept) <= Older(pass.since, Swept)
      BY <2>1, <2>4, <3>1, AgesAre, OlderGrows DEF IsPass
    <3>3. Older(rows[k].age, Swept) \in Ages(Swept) /\ Older(pass.since, Swept) \in Ages(Swept)
      BY <2>1, <3>1, AgesAre DEF IsPass
    <3> QED BY <1>3, <1>5, <2>1, <2>4, <3>1, <3>2, <3>3
  <2> QED BY <1>4, <2>1, <2>2, <2>3, <2>4
<1>10. CASE UNCHANGED pass /\ ~Tick
  <2>1. Storing /\ k \in pass.shown \ pass.lost
    BY <1>1, <1>10 DEF Storing
  <2>2. b' = b
    BY <1>2, <1>10, SourceKept
  <2>3. pass.since \in Nat
    BY <1>5, <2>1, StoredSource DEF IsPass
  <2>4. CASE Since(k, rows, pass.since)
    <3>1. rows'[k].age <= rows[k].age /\ rows[k].age \in Nat /\ rows'[k].age \in Nat
      BY <1>3, <1>5, <1>10, <2>4
    <3> QED BY <1>3, <1>10, <2>3, <2>4, <3>1
  <2> QED BY <1>4, <1>10, <2>1, <2>2, <2>4
<1>11. FetchPage \/ FetchConditional \/ DropRaw \/ StoreRaw \/ (UNCHANGED pass /\ ~Tick) \/ Tick
  <2>1. pass' # Idle
    BY <1>1 DEF Idle
  <2> QED BY Rest, <1>1, <2>1, NextIs, BeginIs
<1> QED BY <1>6, <1>7, <1>8, <1>9, <1>10, <1>11

-----------------------------------------------------------------------------
(* The drivers *)

\* A breaker counts up to its limit and opens at the age of the pass.
LEMMA BreakerKept ==
  ASSUME IngestInv, [Next]_vars
  PROVE  breaker' \in [Ids -> [failures : 0..MaxFailures, opened : Ages(Cooldown)]]
<1> DEFINE Breakers == [failures : 0..MaxFailures, opened : Ages(Cooldown)]
<1> SUFFICES breaker' \in [Ids -> Breakers]
  OBVIOUS
<1>1. breaker \in [Ids -> Breakers]
  BY DEF IngestInv, TypeOK
<1>2. Closed \in Breakers
  BY AgesAre DEF Closed
<1>3. ASSUME NEW x \in Breakers, NEW now \in Ages(Cooldown) PROVE OnFailure(x, now) \in Breakers
  BY AgesAre DEF OnFailure, Lesser
<1>4. ASSUME NEW x \in Breakers
      PROVE  [x EXCEPT !.opened = Older(x.opened, Cooldown)] \in Breakers
  BY AgesAre
<1> HIDE DEF Breakers
<1>5. CASE FetchFails
  <2>1. pass.age \in Ages(Cooldown) /\ b.id \in Ids
    BY <1>5, FetchedSource DEF FetchFails, IsPass
  <2>2. breaker' = [breaker EXCEPT ![b.id] = OnFailure(breaker[b.id], pass.age)]
    BY <1>5 DEF FetchFails
  <2> QED BY <1>1, <1>3, <2>1, <2>2
<1>6. CASE FetchPage
  BY <1>1, <1>2, <1>6, FetchPageIs, FetchedSource DEF PageEffect
<1>7. CASE FetchConditional
  BY <1>1, <1>2, <1>7, FetchConditionalIs, FetchedSource
<1>8. CASE Restart
  BY <1>2, <1>8 DEF Restart
<1>9. CASE Tick
  <2>1. breaker' = [id \in Ids |->
          IF breaker[id].failures < MaxFailures THEN breaker[id]
          ELSE [breaker[id] EXCEPT !.opened = Older(breaker[id].opened, Cooldown)]]
    BY <1>9 DEF Tick
  <2> QED BY <1>1, <1>4, <2>1
<1>10. CASE UNCHANGED breaker
  BY <1>1, <1>10
<1>11. FetchFails \/ FetchPage \/ FetchConditional \/ Restart \/ Tick \/ UNCHANGED breaker
  BY DEF Next, vars, SkipSource, DropRaw, StoreRaw, SourceDone, PassEnds, BeginControllerPass,
         BeginQueuePass, Trigger, PeriodicIngest, WorkIngest, ContextEnds, Sweep, Withdraw,
         Republish
<1> QED BY <1>5, <1>6, <1>7, <1>8, <1>9, <1>10, <1>11

\* The controller and the queue each know whether the pass that runs is theirs.
LEMMA OwnerKept ==
  ASSUME IngestInv, [Next]_vars
  PROVE  /\ ctl' \in [state : {"idle", "waiting", "running"}, since : Ages(MinGap)]
         /\ job' \in {"none", "due", "waiting", "running"} /\ alive' \in BOOLEAN
         /\ pass'.owner \in {"none", "controller", "queue"}
         /\ pass'.owner = "controller" <=> ctl'.state = "running"
         /\ pass'.owner = "queue" <=> job' = "running"
<1>1. /\ ctl \in [state : {"idle", "waiting", "running"}, since : Ages(MinGap)]
      /\ job \in {"none", "due", "waiting", "running"} /\ alive \in BOOLEAN
      /\ pass.owner \in {"none", "controller", "queue"}
      /\ pass.owner = "controller" <=> ctl.state = "running"
      /\ pass.owner = "queue" <=> job = "running"
  BY DEF IngestInv, TypeOK
<1>2. 0 \in Ages(MinGap) /\ MinGap \in Ages(MinGap) /\ Idle.owner = "none"
  BY AgesAre DEF Idle
\* A step of the pass leaves its owner and the drivers alone.
<1>3. CASE UNCHANGED <<ctl, job, alive>> /\ pass'.owner = pass.owner
  BY <1>1, <1>3
<1>4. CASE SkipSource \/ FetchFails \/ SourceDone \/ FetchPage \/ FetchConditional \/ DropRaw
             \/ StoreRaw
  <2>1. pass'.owner = pass.owner
    BY <1>4, NextIs, FetchPageIs, FetchConditionalIs, StoreIs DEF PageEffect
  <2>2. UNCHANGED <<ctl, job, alive>>
    BY <1>4 DEF SkipSource, FetchFails, SourceDone, FetchPage, FetchConditional, DropRaw, StoreRaw
  <2> QED BY <1>3, <2>1, <2>2
<1>5. CASE PassEnds
  <2>1. pass' = Idle /\ UNCHANGED alive /\ pass.owner # "none"
    BY <1>5 DEF PassEnds
  <2>2. CASE pass.owner = "queue"
    <3>1. job' \in {"due", "none"} /\ UNCHANGED ctl
      BY <1>5, <2>2 DEF PassEnds
    <3> QED BY <1>1, <1>2, <2>1, <2>2, <3>1
  <2>3. CASE pass.owner # "queue"
    <3>1. UNCHANGED job /\ ctl' = [ctl EXCEPT !.state = "idle"]
      BY <1>5, <2>3 DEF PassEnds, Released
    <3> QED BY <1>1, <1>2, <2>1, <2>3, <3>1
  <2> QED BY <2>2, <2>3
<1>6. CASE BeginControllerPass
  <2>1. pass'.owner = "controller" /\ pass.owner = "none" /\ UNCHANGED <<job, alive>>
        /\ ctl' = [ctl EXCEPT !.state = "running"]
    BY <1>2, <1>6, BeginIs DEF BeginControllerPass
  <2> QED BY <1>1, <2>1
<1>7. CASE BeginQueuePass
  <2>1. pass'.owner = "queue" /\ pass.owner = "none" /\ UNCHANGED <<ctl, alive>>
        /\ job' = "running"
    BY <1>2, <1>7, BeginIs DEF BeginQueuePass
  <2> QED BY <1>1, <2>1
<1>8. CASE Trigger
  BY <1>1, <1>2, <1>8 DEF Trigger
<1>9. CASE PeriodicIngest \/ WorkIngest \/ ContextEnds
  BY <1>1, <1>9 DEF PeriodicIngest, WorkIngest, ContextEnds
<1>10. CASE Restart
  <2>1. pass' = Idle /\ ctl' = StartBackfill /\ job' \in {"none", "due"} /\ UNCHANGED alive
    BY <1>10 DEF Restart
  <2>2. /\ ctl' \in [state : {"idle", "waiting"}, since : Ages(MinGap)]
    BY <1>2, <2>1 DEF StartBackfill
  <2> QED BY <1>1, <1>2, <2>1, <2>2
<1>11. CASE Tick
  <2>1. ctl' = [ctl EXCEPT !.since = Older(ctl.since, MinGap)] /\ UNCHANGED <<job, alive>>
    BY <1>11 DEF Tick
  <2>2. Older(ctl.since, MinGap) \in Ages(MinGap)
    BY <1>1, AgesAre
  <2>3. pass'.owner = pass.owner
    BY <1>11, TickIs
  <2> QED BY <1>1, <2>1, <2>2, <2>3
<1>12. CASE UNCHANGED <<ctl, job, alive, pass>>
  BY <1>3, <1>12
<1> QED BY <1>4, <1>5, <1>6, <1>7, <1>8, <1>9, <1>10, <1>11, <1>12
     DEF Next, vars, Sweep, Withdraw, Republish

-----------------------------------------------------------------------------
(* The figures of a row *)

\* The smallest of some numbers is one of them.
LEMMA SmallestIsOne ==
  ASSUME NEW T, T \subseteq Nat, T # {}
  PROVE  Smallest(T) \in T
BY SmallestIsThere DEF Smallest

\* The zeros of a number are at most nine.
LEMMA ZerosAre ==
  ASSUME NEW n
  PROVE  /\ TrailingZeros(n) \in Nat /\ Tens[TrailingZeros(n) + 1] \in Nat \ {0}
         /\ Digits(n) \in Nat
<1> DEFINE Z == {e \in 1..9 : n % Tens[e + 1] = 0}
           D == {e \in DOMAIN Tens : Tens[e] <= n}
<1>1. \A k \in Nat : IsFiniteSet(1..k) /\ Cardinality(1..k) = k
  BY FS_Interval
<1>2. Z \subseteq 1..9 /\ D \subseteq 1..10
  BY DEF Tens
<1> HIDE DEF Z, D
<1>3. Cardinality(Z) \in Nat /\ Cardinality(D) \in Nat
  BY <1>2, PositionsAreFinite
<1>4. Cardinality(Z) <= 9
  <2> DEFINE nine == 1..9
  <2>1. IsFiniteSet(nine) /\ Cardinality(nine) = 9 /\ Z \in SUBSET nine
    BY <1>1, <1>2
  <2> HIDE DEF nine
  <2>2. Cardinality(Z) <= Cardinality(nine)
    BY <2>1, FS_Subset
  <2> QED BY <2>1, <2>2
<1>5. \A e \in 0..9 : Tens[e + 1] \in Nat \ {0}
  BY DEF Tens
<1> QED BY <1>3, <1>4, <1>5 DEF Z, D, TrailingZeros, Digits

\* A printed number is read back as numbers.
LEMMA PrintedAre ==
  ASSUME NEW n \in Figures
  PROVE  PrintedD(n) \in Seq(Int) /\ PrintedG(n) \in Seq(Int)
<1>1. PrintedD(n) \in Seq(Int)
  <2>1. CASE n = Nil
    BY <2>1 DEF PrintedD
  <2>2. CASE n # Nil
    BY <2>2 DEF PrintedD, Figures
  <2> QED BY <2>1, <2>2
<1>2. CASE n = Nil \/ n < 1000000
  BY <1>1, <1>2 DEF PrintedG
<1>3. CASE ~(n = Nil \/ n < 1000000)
  <2> DEFINE ten == Tens[TrailingZeros(n) + 1]
             digits == Digits(n)
  <2>1. n \in Int /\ ten \in Nat \ {0} /\ digits \in Nat
    BY <1>3, ZerosAre DEF Figures
  <2>2. PrintedG(n) = <<n \div ten, digits - 1>>
    BY <1>3 DEF PrintedG
  <2> HIDE DEF ten, digits
  <2>3. n \div ten \in Int /\ digits - 1 \in Int
    BY <2>1
  <2> QED BY <1>1, <2>2, <2>3
<1> QED BY <1>2, <1>3

IsText(text) == text.nums \in Seq(Int)

\* The texts of pay hold numbers.
LEMMA RangeIsText ==
  ASSUME NEW x \in Seq(Int), NEW y \in Seq(Int)
  PROVE  IsText(RangeText(x, y))
<1>1. IsText(NoText)
  BY DEF IsText, NoText
<1>2. IsText(Rupiah(x \o y))
  BY ConcatProperties DEF IsText, Rupiah
<1> QED BY <1>1, <1>2 DEF RangeText

\* Whatever a source takes for the pay of a posting, its text holds numbers.
LEMMA PayIsText ==
  ASSUME NEW p, IsPosting(p)
  PROVE  /\ IsText(KalibrrSalaryText(p.pay)) /\ IsText(SalaryRangeText(p.pay))
         /\ IsText(CareerjetSalaryText(p.pay)) /\ IsText(JoobleSalaryText(p.pay.text))
         /\ IsText(TrustedSalaryText(p.pay.text)) /\ IsText(NoText)
<1> DEFINE min == p.pay.min
           max == p.pay.max
           text == p.pay.text
<1>1. min \in Figures /\ max \in Figures /\ IsText(text)
  BY DEF IsPosting, IsText, Figures
<1>2. IsText(NoText) /\ <<>> \in Seq(Int)
  BY DEF IsText, NoText
<1>3. IsText(TrustedSalaryText(text))
  BY <1>1, <1>2 DEF TrustedSalaryText
<1>4. IsText(JoobleSalaryText(text))
  BY <1>2, <1>3 DEF JoobleSalaryText
<1>5. IsText(SalaryRangeText(p.pay))
  BY <1>1, <1>2, PrintedAre, RangeIsText DEF SalaryRangeText
<1>6. IsText(CareerjetSalaryText(p.pay))
  BY <1>3, <1>5 DEF CareerjetSalaryText
<1>7. IsText(KalibrrSalaryText(p.pay))
  <2>1. \A n \in Figures : PrintedD(n) \in Seq(Int)
    BY PrintedAre
  <2>2. \A x, y \in Seq(Int) : IsText(RangeText(x, y))
    BY RangeIsText
  <2>3. /\ IsText(RangeText(PrintedD(min), PrintedD(max)))
        /\ IsText(RangeText(<<>>, PrintedD(max))) /\ IsText(RangeText(<<>>, PrintedD(min)))
    BY <1>1, <1>2, <2>1, <2>2
  <2> QED BY <1>2, <2>3 DEF KalibrrSalaryText
<1> QED BY <1>2, <1>3, <1>4, <1>5, <1>6, <1>7

\* The date of a posting, if it can be read, is a number.
LEMMA DatesAre ==
  ASSUME NEW p, IsPosting(p)
  PROVE  /\ KalibrrPostedAt(p.dates[1]) \in Figures /\ JoobleUpdatedAt(p.dates[1]) \in Figures
         /\ ParseSourceTime(p.dates[1]) \in Figures /\ FirstTime(p.dates) \in Figures
<1> DEFINE dates == p.dates
<1>1. ASSUME NEW i \in DOMAIN dates, NEW layouts PROVE ParsedTime(dates[i], layouts) \in Figures
  BY DEF IsPosting, ParsedTime, Figures
<1>2. DOMAIN dates = 1..Len(dates) /\ Len(dates) \in Nat /\ 1 \in DOMAIN dates
  BY LenProperties, EmptySeq DEF IsPosting
<1>3. FirstTime(dates) \in Figures
  <2> DEFINE read == {i \in DOMAIN dates : ParseSourceTime(dates[i]) # Nil}
  <2>1. read \subseteq Nat /\ read \subseteq DOMAIN dates
    BY <1>2
  <2>2. CASE read = {}
    BY <2>2 DEF FirstTime, Figures
  <2>3. CASE read # {}
    <3>1. Smallest(read) \in read
      BY <2>1, <2>3, SmallestIsOne
    <3>2. ParseSourceTime(dates[Smallest(read)]) \in Figures
      BY <1>1, <2>1, <3>1 DEF ParseSourceTime
    <3>3. FirstTime(dates) = ParseSourceTime(dates[Smallest(read)])
      BY <2>3 DEF FirstTime
    <3> QED BY <3>2, <3>3
  <2> QED BY <2>2, <2>3
<1> QED BY <1>1, <1>2, <1>3 DEF KalibrrPostedAt, JoobleUpdatedAt, ParseSourceTime

\* A raw job has the pay and the date of its posting.
LEMMA RawIs ==
  ASSUME NEW src, src.kind \in PageKinds \cup ATSKinds, NEW p, IsPosting(p)
  PROVE  IsText(RawJob(src, p).salary) /\ RawJob(src, p).posted \in Figures
<1> DEFINE Good(raw) == IsText(raw.salary) /\ raw.posted \in Figures
<1>1. Nil \in Figures
  BY DEF Figures
<1>2. CASE src.kind = "kalibrr"
  <2>1. Good(KalibrrRaw(src, p))
    BY PayIsText, DatesAre DEF KalibrrRaw, Listing
  <2> QED BY <1>2, <2>1 DEF RawJob
<1>3. CASE src.kind = "jooble"
  <2>1. Good(JoobleRaw(src, p))
    BY PayIsText, DatesAre DEF JoobleRaw, Listing
  <2> QED BY <1>3, <2>1 DEF RawJob
<1>4. CASE src.kind = "careerjet"
  <2>1. Good(CareerjetRaw(src, p))
    BY PayIsText, DatesAre DEF CareerjetRaw, Listing
  <2> QED BY <1>4, <2>1 DEF RawJob
<1>5. CASE src.kind = "workday"
  <2>1. Good(WorkdayRaw(src, p))
    BY <1>1, PayIsText DEF WorkdayRaw, Listing
  <2> QED BY <1>5, <2>1 DEF RawJob
<1>6. CASE src.kind = "smartrecruiters"
  <2>1. Good(SmartRecruitersRaw(src, p))
    BY PayIsText, DatesAre DEF SmartRecruitersRaw, Listing
  <2> QED BY <1>6, <2>1 DEF RawJob
<1>7. CASE src.kind = "remotive"
  <2>1. Good(RemotiveRaw(src, p))
    BY PayIsText, DatesAre DEF RemotiveRaw, Listing
  <2> QED BY <1>7, <2>1 DEF RawJob
<1>8. CASE src.kind = "jobicy"
  <2>1. Good(JobicyRaw(src, p))
    BY PayIsText, DatesAre DEF JobicyRaw, Listing, IdSalaryRangeText
  <2> QED BY <1>8, <2>1 DEF RawJob
<1>9. CASE src.kind = "remoteok"
  <2>1. Good(RemoteOKRaw(src, p))
    BY PayIsText, DatesAre DEF RemoteOKRaw, Listing
  <2> QED BY <1>9, <2>1 DEF RawJob
<1>10. CASE src.kind = "greenhouse"
  <2>1. Good(GreenhouseRaw(src, p))
    BY PayIsText, DatesAre DEF GreenhouseRaw, Listing
  <2> QED BY <1>10, <2>1 DEF RawJob
<1>11. CASE src.kind = "lever"
  <2>1. Good(LeverRaw(src, p))
    BY PayIsText, DatesAre DEF LeverRaw, Listing
  <2> QED BY <1>11, <2>1 DEF RawJob
<1>12. CASE src.kind = "workable"
  <2>1. Good(WorkableRaw(src, p))
    BY PayIsText, DatesAre DEF WorkableRaw, Listing
  <2> QED BY <1>12, <2>1 DEF RawJob
<1>13. CASE src.kind = "ashby"
  <2>1. Good(AshbyRaw(src, p))
    BY PayIsText, DatesAre DEF AshbyRaw, Listing
  <2> QED BY <1>13, <2>1 DEF RawJob
<1> QED BY <1>2, <1>3, <1>4, <1>5, <1>6, <1>7, <1>8, <1>9, <1>10, <1>11, <1>12, <1>13
     DEF PageKinds, ATSKinds

\* The pay that a text states is none, or two numbers in order.
LEMMA ReadInOrder ==
  ASSUME NEW text, IsText(text)
  PROVE  LET pay == ParseSalaryIDR(text) IN
         \/ pay = [min |-> Nil, max |-> Nil]
         \/ pay.min \in Int /\ pay.max \in Int /\ pay.min <= pay.max
<1> DEFINE unit == IF "juta" \in text.marks THEN 1000000 ELSE 1
           n == [i \in DOMAIN text.nums |-> text.nums[i] * unit]
           first == Head(n)
           last == n[Len(n)]
<1>1. unit \in Int
  OBVIOUS
<1> HIDE DEF unit
<1>2. n \in Seq(Int)
  <2>1. DOMAIN text.nums = 1..Len(text.nums) /\ Len(text.nums) \in Nat
        /\ \A i \in 1..Len(text.nums) : text.nums[i] \in Int
    BY LenProperties, ElementOfSeq DEF IsText
  <2>2. \A i \in 1..Len(text.nums) : text.nums[i] * unit \in Int
    BY <1>1, <2>1
  <2> QED BY <2>1, <2>2 DEF n
<1> HIDE DEF n
<1>3. n # <<>> => first \in Int /\ last \in Int
  BY <1>2, HeadTailProperties, LenProperties, ElementOfSeq, EmptySeq
<1>4. ParseSalaryIDR(text) =
        IF text.marks \cap {"vague", "foreign"} # {} \/ text.marks \cap {"rp", "juta"} = {}
             \/ n = <<>>
        THEN [min |-> Nil, max |-> Nil]
        ELSE [min |-> IF first < last THEN first ELSE last,
              max |-> IF first < last THEN last ELSE first]
  BY DEF ParseSalaryIDR, n, unit
<1> HIDE DEF first, last
<1> QED BY <1>3, <1>4

\* So it is figures.
LEMMA PayIs ==
  ASSUME NEW text, IsText(text)
  PROVE  ParseSalaryIDR(text).min \in Figures /\ ParseSalaryIDR(text).max \in Figures
BY ReadInOrder DEF Figures

\* The years of experience that texts ask for are a number.
LEMMA YearsAre == ASSUME NEW texts PROVE ParseYearsExperience(texts) \in Figures
<1> DEFINE stated == {Years[y] : y \in UNION {texts[i] \cap DOMAIN Years : i \in DOMAIN texts}}
<1>1. stated \subseteq Nat
  <2>1. \A y \in DOMAIN Years : Years[y] \in Nat
    BY DEF Years
  <2> QED BY <2>1
<1>2. CASE stated = {}
  BY <1>2 DEF ParseYearsExperience, Figures
<1>3. CASE stated # {}
  <2> HIDE DEF stated
  <2>1. Smallest(stated) \in Nat
    BY <1>1, <1>3, SmallestIsOne
  <2>2. ParseYearsExperience(texts) = Smallest(stated)
    BY <1>3 DEF ParseYearsExperience, stated
  <2> QED BY <2>1, <2>2 DEF Figures
<1> QED BY <1>2, <1>3

\* A row that is stored has numbers where it has figures.
LEMMA RowHasFigures ==
  ASSUME NEW src, src.kind \in PageKinds \cup ATSKinds, NEW p, IsPosting(p),
         NEW row \in LocalRows(src, p)
  PROVE  HasFigures(row)
<1> DEFINE raw == RawJob(src, p)
<1>1. IsText(raw.salary) /\ raw.posted \in Figures
  BY RawIs
<1> HIDE DEF raw
<1>2. row \in Normalize(raw)
  BY DEF LocalRows, raw
<1>3. PICK pay, texts :
        /\ pay = ParseSalaryIDR(raw.salary)
        /\ row.min = pay.min /\ row.max = pay.max /\ row.posted = raw.posted
        /\ row.years = ParseYearsExperience(texts)
  BY <1>2 DEF Normalize
<1> QED BY <1>1, <1>3, PayIs, YearsAre DEF HasFigures

\* The place is kept from the fetch to the end of the storing.
LEMMA PlaceKept == ASSUME IngestInv, [Next]_vars PROVE PlaceInv'
<1> SUFFICES ASSUME Storing' PROVE pass'.index \in DOMAIN registry'
  BY DEF PlaceInv
<1>1. registry' = registry
  BY WorldKept
<1>2. pass'.owner # "none" /\ pass'.step = "store"
  BY DEF Storing
<1>3. CASE FetchPage \/ FetchConditional
  <2>1. Fetching /\ pass'.index = pass.index
    BY <1>3, FetchPageIs, FetchConditionalIs DEF PageEffect
  <2> QED BY <1>1, <2>1 DEF Fetching
<1>4. CASE DropRaw \/ StoreRaw
  BY <1>1, <1>4, StoreIs DEF IngestInv, PlaceInv
<1>5. CASE UNCHANGED pass \/ Tick
  <2>1. pass'.index = pass.index /\ pass'.owner = pass.owner /\ pass'.step = pass.step
    BY <1>2, <1>5, TickIs DEF Idle
  <2> QED BY <1>1, <1>2, <2>1 DEF IngestInv, PlaceInv, Storing
<1>6. FetchPage \/ FetchConditional \/ DropRaw \/ StoreRaw \/ UNCHANGED pass \/ Tick
  <2>1. pass' # Idle
    BY <1>2 DEF Idle
  <2> QED BY Rest, <1>2, <2>1, NextIs, BeginIs
<1> QED BY <1>3, <1>4, <1>5, <1>6

\* The figures of a row stay as they were stored.
LEMMA FiguresKept == ASSUME IngestInv, [Next]_vars PROVE FiguresInv'
<1> SUFFICES \A k \in DOMAIN rows' : HasFigures(rows'[k])
  BY DEF FiguresInv
<1>1. \A k \in DOMAIN rows : HasFigures(rows[k]) /\ DOMAIN rows[k] = RowFields
  BY RowsAre DEF IngestInv, FiguresInv, IsRow
<1>2. ASSUME NEW x, NEW y, HasFigures(x), DOMAIN x = RowFields,
             \E v : y = [x EXCEPT !.age = v] \/ y = [x EXCEPT !.stale = v]
      PROVE  HasFigures(y)
  <2>1. y.min = x.min /\ y.max = x.max /\ y.years = x.years /\ y.posted = x.posted
    BY <1>2 DEF RowFields
  <2> QED BY <1>2, <2>1 DEF HasFigures
<1>3. CASE UNCHANGED rows
  BY <1>1, <1>3
<1>4. CASE StoreRaw
  <2>1. CASE UNCHANGED rows
    BY <1>1, <2>1
  <2>2. ASSUME NEW row \in NextRows, Upsert(row) PROVE \A k \in DOMAIN rows' : HasFigures(rows'[k])
    <3>1. Storing /\ IsPass(pass) /\ pass.fetch.kept # <<>>
      BY <1>4, StoreIs
    <3>2. Head(pass.fetch.kept) \in Postings
      BY <3>1, HeadTailProperties DEF IsPass
    <3>3. b.kind \in PageKinds \cup ATSKinds /\ IsPosting(Head(pass.fetch.kept))
      BY <3>1, <3>2 DEF IngestInv, WorldInv, PlaceInv, b
    <3>4. HasFigures(row)
      BY <2>2, <3>3, RowHasFigures DEF NextRows
    <3>5. Fresh(row).min = row.min /\ Fresh(row).max = row.max
          /\ Fresh(row).years = row.years /\ Fresh(row).posted = row.posted
      BY DEF Fresh, RowFields
    <3>6. HasFigures(Fresh(row))
      BY <3>4, <3>5 DEF HasFigures
    <3> QED BY <1>1, <2>2, <3>6 DEF Upsert
  <2> QED BY <1>4, <2>1, <2>2, StoreIs
<1>5. CASE rows' = SweepStale(rows)
  <2>1. ASSUME NEW k \in DOMAIN rows PROVE HasFigures(SweepStale(rows)[k])
    <3>1. SweepStale(rows)[k]
            = [rows[k] EXCEPT !.stale = rows[k].stale \/ rows[k].age > StaleAfter]
      BY DEF SweepStale
    <3> QED BY <1>1, <1>2, <3>1
  <2> QED BY <1>5, <2>1 DEF SweepStale
<1>6. CASE Tick
  <2>1. rows' = [k \in DOMAIN rows |-> [rows[k] EXCEPT !.age = Older(rows[k].age, Swept)]]
    BY <1>6 DEF Tick
  <2> QED BY <1>1, <1>2, <2>1
<1> QED BY RowSteps, <1>3, <1>4, <1>5, <1>6

-----------------------------------------------------------------------------
(* The theorems *)

\* The invariant holds at the start.
LEMMA IngestInit == Init => IngestInv
<1> SUFFICES ASSUME Init PROVE IngestInv
  OBVIOUS
<1>1. WorldInv
  BY WorldInit
<1>2. /\ rows = <<>> /\ served = <<>> /\ breaker = [id \in Ids |-> Closed] /\ pass = Idle
      /\ ctl = [state |-> "waiting", since |-> 0] /\ job = "none" /\ alive = TRUE
  BY DEF Init
<1>3. Idle.owner = "none"
  BY DEF Idle
<1>4. TypeOK
  <2>1. Closed \in [failures : 0..MaxFailures, opened : Ages(Cooldown)] /\ 0 \in Ages(MinGap)
    BY AgesAre DEF Closed
  <2>2. DOMAIN rows = {} /\ DOMAIN served = {}
    BY <1>2
  <2> QED BY <1>2, <1>3, <2>1, <2>2 DEF TypeOK
<1>5. RowsInv /\ FiguresInv
  <2>1. DOMAIN rows = {} /\ DOMAIN served = {}
    BY <1>2
  <2> QED BY <2>1 DEF RowsInv, FiguresInv
<1>6. PassInv /\ PlaceInv /\ FetchInv /\ StoreInv /\ OwedInv
  BY <1>2, <1>3 DEF PassInv, PlaceInv, FetchInv, StoreInv, OwedInv, Fetching, Storing
<1> QED BY <1>1, <1>4, <1>5, <1>6 DEF IngestInv

\* Every step keeps the invariant.
LEMMA IngestStep == IngestInv /\ [Next]_vars => IngestInv'
<1> SUFFICES ASSUME IngestInv, [Next]_vars PROVE IngestInv'
  OBVIOUS
<1>1. WorldInv' /\ Ids' = Ids
  BY WorldKept
<1>2. TypeOK'
  <2>1. \A k \in DOMAIN rows' : /\ DOMAIN rows'[k] = RowFields /\ rows'[k].key = k
                                /\ rows'[k].age \in Ages(Swept) /\ rows'[k].stale \in BOOLEAN
    BY RowsKept DEF IsRow
  <2>2. \A k \in DOMAIN served' : served'[k] \in Ages(Swept)
    BY RowsKept
  <2>3. breaker' \in [Ids -> [failures : 0..MaxFailures, opened : Ages(Cooldown)]]
    BY BreakerKept
  <2> QED BY <1>1, <2>1, <2>2, <2>3, OwnerKept DEF TypeOK, RowFields, Ages, Swept
<1>3. RowsInv'
  BY RowsKept DEF RowsInv, IsRow, Swept
<1> QED BY <1>1, <1>2, <1>3, PassKept, PlaceKept, FiguresKept, FetchKept, StoreKept, OwedKept
     DEF IngestInv

\* The inductive invariant: the pass and its owner, the prefix that a fetch has read,
\* the account of what was shown and is not stored yet, and the ages of the rows.
THEOREM IngestIsKept == Spec => []IngestInv
<1>1. IngestInv /\ [Next]_vars => IngestInv'
  BY IngestStep
<1> QED BY <1>1, IngestInit, PTL DEF Spec

\* Every variable keeps its type, whatever the sources, the boards and the faults.
THEOREM IngestIsTyped == Spec => []TypeOK
<1>1. IngestInv => TypeOK
  BY DEF IngestInv
<1> QED BY <1>1, IngestIsKept, PTL

\* A listing that was shown and stored is active for StaleAfter (SCR-4): no row is
\* older than the last time that its listing was shown, and a swept row is older than
\* StaleAfter.
THEOREM SeenStaysActive == Spec => []SeenIsActive
<1>1. IngestInv => SeenIsActive
  <2> SUFFICES ASSUME IngestInv, NEW k \in DOMAIN served, served[k] <= StaleAfter
               PROVE  Active(k)
    BY DEF SeenIsActive
  <2>1. /\ served[k] \in Ages(Swept) /\ k \in DOMAIN rows /\ rows[k].age <= served[k]
        /\ IsRow(rows[k], k)
    BY RowsAre
  <2>2. rows[k].age # Swept
    BY <2>1, AgesAre DEF Ages, Swept
  <2> QED BY <2>1, <2>2 DEF IsRow, Active
<1> QED BY <1>1, IngestIsKept, PTL

\* A fetch of a board that stays as it was returns what the source owes of it, once
\* and in order, for every page size, limit and board and whatever totals the replies
\* carry, as long as none falls short of the board: it has always read a prefix of the
\* board and kept the postings of that prefix.
THEOREM WholeBoardFetched == Spec => []WholeBoardIsFetched
<1>1. IngestInv => WholeBoardIsFetched
  BY DEF IngestInv, OwedInv, WholeBoardIsFetched
<1> QED BY <1>1, IngestIsKept, PTL

\* Both versions of the feed's filter and the filter of the alerts agree on every row
\* that a pass can store and every query the API accepts: each absent bound, salary, date
\* or number of years is treated alike by SQL, by Go and by the alerts.
THEOREM FiltersAgree == Spec => []SearchAgrees
<1>1. FiguresInv => SearchAgrees
  <2> SUFFICES ASSUME FiguresInv, NEW k \in DOMAIN rows, NEW q \in ValidQueries
               PROVE  /\ FeedWhere(rows[k], q) <=> FeedMatches(rows[k], q)
                      /\ FeedMatches(rows[k], q) => AlertMatches(rows[k], q)
    BY DEF SearchAgrees
  <2> DEFINE row == rows[k]
  <2>1. {row.min, row.max, row.years, row.posted} \subseteq Figures
    BY DEF FiguresInv, HasFigures
  <2>2. /\ DOMAIN q = {"search", "payMin", "payMax", "location", "remote", "employment", "source",
                       "maxYears", "after", "skills"}
        /\ {q.payMin, q.payMax, q.maxYears, q.after} \subseteq Figures
    BY QueriesAssumption DEF ValidQueries, Figures
  <2> HIDE DEF row
  <2>3. /\ q.payMin # Nil => (row.max # Nil /\ row.max >= q.payMin
                                <=> ~(row.max = Nil \/ row.max < q.payMin))
        /\ q.payMax # Nil => (row.min # Nil /\ row.min <= q.payMax
                                <=> ~(row.min = Nil \/ row.min > q.payMax))
        /\ q.maxYears # Nil => (row.years = Nil \/ row.years <= q.maxYears
                                  <=> ~(row.years # Nil /\ row.years > q.maxYears))
        /\ q.after # Nil => (row.posted # Nil /\ row.posted >= q.after
                               <=> ~(row.posted = Nil \/ row.posted < q.after))
    BY <2>1, <2>2 DEF Figures
  <2>4. FeedWhere(row, q) <=> FeedMatches(row, q)
    BY <2>3, Zenon DEF FeedWhere, FeedMatches
  <2>5. FeedMatches(row, q) => AlertMatches(row, q)
    <3> DEFINE open == [q EXCEPT !.skills = {}]
    <3>1. /\ open.search = q.search /\ open.payMin = q.payMin /\ open.payMax = q.payMax
          /\ open.location = q.location /\ open.remote = q.remote
          /\ open.employment = q.employment /\ open.source = q.source
          /\ open.maxYears = q.maxYears /\ open.after = q.after /\ open.skills = {}
      BY <2>2
    <3> HIDE DEF open
    <3>2. FeedMatches(row, q) => FeedMatches(row, open)
      BY <3>1 DEF FeedMatches
    <3> QED BY <3>2 DEF FeedMatches, AlertMatches, open
  <2> QED BY <2>4, <2>5 DEF row
<1>2. IngestInv => FiguresInv
  BY DEF IngestInv
<1> QED BY <1>1, <1>2, IngestIsKept, PTL

\* So the search of the in-memory store and that of the database give the same page and the
\* same total, for every row the passes store, valid query, page and order of the titles.
Table == {rows[k] : k \in DOMAIN rows}
SearchesAgree ==
  \A q \in ValidQueries : \A limit, offset, rank :
    Search(Table, q, limit, offset, rank) = SearchFeed(Table, q, limit, offset, rank)
THEOREM PagesAgree == Spec => []SearchesAgree
<1>1. SearchAgrees => SearchesAgree
  <2> SUFFICES ASSUME SearchAgrees, NEW q \in ValidQueries
               PROVE  {row \in Table : FeedMatches(row, q)} = {row \in Table : FeedWhere(row, q)}
    BY DEF SearchesAgree, Search, SearchFeed
  <2> QED BY DEF SearchAgrees, Table
<1> QED BY <1>1, FiltersAgree, PTL

-----------------------------------------------------------------------------
(* The pay of a row *)

\* What the board of a source showed at the start.
Own(id) == {world.boards[id][j] : j \in DOMAIN world.boards[id]}

\* The pay of what the boards show, and of what a pass has in hand, is legible to its source.
LegibleInv ==
  /\ \A i \in DOMAIN registry : \A p \in Own(registry[i].id) : Legible(registry[i], p)
  /\ \A id \in Ids : boards[id] \in Seq(Own(id))
  /\ pass # Idle /\ pass.index \in DOMAIN registry => pass.fetch.kept \in Seq(Own(b.id))

\* A text that is read as pay gives figures of p, in order.
Pays(text, p) ==
  LET pay == ParseSalaryIDR(text) IN
  pay.min # Nil \/ pay.max # Nil =>
    /\ pay.min <= pay.max /\ p.pay.currency = "IDR"
    /\ pay.min \in {p.pay.min, p.pay.max} /\ pay.max \in {p.pay.min, p.pay.max}
\* A stored row states pay of a posting, or has a level that pay can be estimated for.
IsPaid(row) ==
  /\ row.seniority \in {Nil} \cup DOMAIN EstimateBands
  /\ row.min # Nil \/ row.max # Nil =>
       row.min <= row.max /\ \E p \in Postings : p.title = row.title /\ StatedBy(p, row)
PaidInv == IngestInv /\ LegibleInv /\ \A k \in DOMAIN rows : IsPaid(rows[k])

\* A board of the start is made of its own postings.
LEMMA OwnIs ==
  ASSUME WorldInv, NEW id \in Ids
  PROVE  world.boards[id] \in Seq(Own(id)) /\ Own(id) \subseteq Postings
<1> DEFINE board == world.boards[id]
<1>1. board \in Seq(Postings)
  BY DEF WorldInv
<1>2. Own(id) = {board[j] : j \in DOMAIN board} /\ Own(id) \subseteq Postings
  BY DEF Own, Postings
<1> HIDE DEF board
<1>3. DOMAIN board = 1..Len(board) /\ Len(board) \in Nat /\ board = [j \in 1..Len(board) |-> board[j]]
  BY <1>1, LenProperties
<1>4. \A j \in 1..Len(board) : board[j] \in Own(id)
  BY <1>2, <1>3
<1>5. board \in Seq(Own(id))
  BY <1>3, <1>4
<1> QED BY <1>2, <1>5 DEF board

\* The pay of a world that is legible is so at the start.
LEMMA LegibleInit == Init /\ PayIsLegible(world) => LegibleInv
<1> SUFFICES ASSUME Init, PayIsLegible(world) PROVE LegibleInv
  OBVIOUS
<1>1. WorldInv
  BY WorldInit
<1>2. registry = BuildRegistry(world.cfg) /\ boards = world.boards /\ pass = Idle
  BY DEF Init
<1>3. \A i \in DOMAIN registry : \A p \in Own(registry[i].id) : Legible(registry[i], p)
  BY <1>2 DEF PayIsLegible, Own
<1>4. \A id \in Ids : boards[id] \in Seq(Own(id))
  BY <1>1, <1>2, OwnIs
<1> QED BY <1>2, <1>3, <1>4 DEF LegibleInv

\* A board shows what it showed at the start or less, and a pass reads its source's board.
LEMMA LegibleKept == ASSUME IngestInv, LegibleInv, [Next]_vars PROVE LegibleInv'
<1>0. WorldInv
  BY DEF IngestInv
<1>1. registry' = registry /\ Ids' = Ids /\ \A id : Own(id)' = Own(id)
  BY WorldKept DEF Own
<1>2. ASSUME NEW id \in Ids PROVE boards'[id] \in Seq(Own(id))
  <2>0. \A x \in Ids : x \in DOMAIN boards /\ boards[x] \in Seq(Own(x))
                       /\ world.boards[x] \in Seq(Own(x))
    BY <1>0, OwnIs DEF LegibleInv, WorldInv
  <2>1. CASE UNCHANGED boards
    BY <1>2, <2>0, <2>1
  <2>2. CASE Withdraw
    <3>1. PICK x \in Ids : \E i \in DOMAIN boards[x] :
            boards' = [boards EXCEPT ![x] = RemoveAt(boards[x], i)]
      BY <2>2 DEF Withdraw
    <3>2. PICK i \in DOMAIN boards[x] : boards' = [boards EXCEPT ![x] = RemoveAt(boards[x], i)]
      BY <3>1
    <3>3. RemoveAt(boards[x], i) \in Seq(Own(x))
      BY <2>0, RemovedIs
    <3> QED BY <1>2, <2>0, <3>2, <3>3
  <2>3. CASE Republish
    BY <1>2, <2>0, <2>3 DEF Republish
  <2>4. UNCHANGED boards \/ Withdraw \/ Republish
    BY DEF Next, vars, SkipSource, FetchFails, FetchPage, FetchConditional, DropRaw, StoreRaw,
           SourceDone, PassEnds, BeginControllerPass, BeginQueuePass, Trigger, PeriodicIngest,
           WorkIngest, ContextEnds, Sweep, Restart, Tick
  <2> QED BY <2>1, <2>2, <2>3, <2>4
<1>3. ASSUME pass' # Idle, pass'.index \in DOMAIN registry
      PROVE  pass'.fetch.kept \in Seq(Own(registry[pass'.index].id))
  <2> DEFINE own == Own(registry[pass'.index].id)
  <2>1. CASE SkipSource \/ FetchFails \/ SourceDone \/ BeginControllerPass \/ BeginQueuePass
    <3>1. pass'.fetch = StartOfFetch
      BY <2>1, NextIs, BeginIs
    <3>2. StartOfFetch.kept = <<>> /\ <<>> \in Seq(own)
      BY DEF StartOfFetch
    <3> QED BY <3>1, <3>2
  <2>2. ASSUME pass'.index = pass.index, Fetching
        PROVE  /\ own = Own(b.id) /\ boards[b.id] \in Seq(own) /\ pass.fetch.kept \in Seq(own)
               /\ b.limit \in Nat \ {0} /\ pass.fetch.at \in Nat
    <3>1. pass # Idle /\ pass.index \in DOMAIN registry /\ b.id \in Ids
      BY <2>2 DEF Fetching, Idle, Ids, b
    <3>2. b.limit \in Nat \ {0} /\ pass.fetch.at \in Nat
      BY <2>2, FetchedSource DEF IsPass
    <3> QED BY <2>2, <3>1, <3>2 DEF LegibleInv, b
  <2>3. CASE FetchPage
    <3>1. PICK count, begun : PageEffect(count, begun)
      BY <2>3, FetchPageIs
    <3> DEFINE read == ReadPage(b, pass.fetch, boards[b.id], count)
    <3>2. pass'.fetch.kept = read.kept
      BY <3>1 DEF PageEffect
    <3>3. Fetching /\ b.kind \in PageKinds /\ pass'.index = pass.index
      BY <3>1 DEF PageEffect
    <3>4. read.kept \in Seq(own)
      BY <2>2, <3>3, PageType
    <3> QED BY <3>2, <3>4
  <2>4. CASE FetchConditional
    <3>1. Fetching /\ pass'.index = pass.index /\ pass'.fetch.kept = NamedOf(b, boards[b.id])
      BY <2>4, FetchConditionalIs
    <3> QED BY <2>2, <3>1, NamedIs
  <2>5. CASE DropRaw \/ StoreRaw
    <3>1. /\ Storing /\ pass'.index = pass.index /\ pass.fetch.kept # <<>>
          /\ pass'.fetch.kept = Tail(pass.fetch.kept)
      BY <2>5, StoreIs
    <3>2. pass.fetch.kept \in Seq(own)
      BY <1>3, <3>1 DEF LegibleInv, Storing, Idle, b
    <3> QED BY <3>1, <3>2, HeadTailProperties
  <2>6. CASE Tick
    <3>1. pass # Idle /\ pass'.index = pass.index /\ pass'.fetch = pass.fetch
      BY <1>3, <2>6, TickIs DEF IsPass, Idle
    <3> QED BY <1>3, <3>1 DEF LegibleInv, b
  <2>7. CASE UNCHANGED pass
    BY <1>3, <2>7 DEF LegibleInv, b
  <2> QED BY Rest, <1>3, <2>1, <2>3, <2>4, <2>5, <2>6, <2>7
<1> QED BY <1>1, <1>2, <1>3 DEF LegibleInv, b, Idle

-----------------------------------------------------------------------------
(* The pay that a source states and an estimate gives *)

\* Figures printed with all their digits are read back as they were.
LEMMA RupiahIsRead ==
  ASSUME NEW x \in Int, NEW y \in Int
  PROVE  /\ ParseSalaryIDR(Rupiah(<<x>>)) = [min |-> x, max |-> x]
         /\ ParseSalaryIDR(Rupiah(<<x, y>>)) = [min |-> IF x < y THEN x ELSE y,
                                               max |-> IF x < y THEN y ELSE x]
<1>1. /\ "juta" \notin {"rp"} /\ {"rp"} \cap {"vague", "foreign"} = {}
      /\ {"rp"} \cap {"rp", "juta"} # {}
  OBVIOUS
<1>2. ASSUME NEW nums, nums = [i \in DOMAIN nums |-> nums[i] * 1], nums # <<>>
      PROVE  ParseSalaryIDR(Rupiah(nums)) =
               [min |-> IF Head(nums) < nums[Len(nums)] THEN Head(nums) ELSE nums[Len(nums)],
                max |-> IF Head(nums) < nums[Len(nums)] THEN nums[Len(nums)] ELSE Head(nums)]
  <2>1. Rupiah(nums).marks = {"rp"} /\ Rupiah(nums).nums = nums
    BY DEF Rupiah
  <2> QED BY <1>1, <1>2, <2>1 DEF ParseSalaryIDR
<1>3. <<x>> = [i \in DOMAIN <<x>> |-> <<x>>[i] * 1] /\ <<x>> # <<>>
  OBVIOUS
<1>4. <<x, y>> = [i \in DOMAIN <<x, y>> |-> <<x, y>>[i] * 1] /\ <<x, y>> # <<>>
  OBVIOUS
<1>5. Head(<<x>>) = x /\ <<x>>[Len(<<x>>)] = x
  OBVIOUS
<1>6. Head(<<x, y>>) = x /\ <<x, y>>[Len(<<x, y>>)] = y
  OBVIOUS
<1>7. ParseSalaryIDR(Rupiah(<<x>>)) = [min |-> x, max |-> x]
  BY <1>2, <1>3, <1>5
<1> QED BY <1>2, <1>4, <1>6, <1>7

\* No text states no pay.
LEMMA NoTextPays == ASSUME NEW p PROVE Pays(NoText, p)
<1>1. ParseSalaryIDR(NoText) = [min |-> Nil, max |-> Nil]
  BY DEF ParseSalaryIDR, NoText
<1> QED BY <1>1 DEF Pays

\* A text that is read as figures of a posting states pay of it.
LEMMA FiguresPay ==
  ASSUME NEW p, p.pay.currency = "IDR", NEW text, NEW x \in Int, NEW y \in Int, x <= y,
         x \in {p.pay.min, p.pay.max}, y \in {p.pay.min, p.pay.max},
         ParseSalaryIDR(text) = [min |-> x, max |-> y]
  PROVE  Pays(text, p)
BY DEF Pays

\* A range of two printed bounds, of which one may be missing, states these bounds.
LEMMA RangePays ==
  ASSUME NEW p, p.pay.currency = "IDR",
         NEW x \in {p.pay.min, p.pay.max}, NEW y \in {p.pay.min, p.pay.max},
         x # Nil => x \in Int, y # Nil => y \in Int
  PROVE  /\ Pays(RangeText(PrintedD(x), PrintedD(y)), p) /\ Pays(RangeText(<<>>, PrintedD(y)), p)
<1>1. Pays(RangeText(<<>>, <<>>), p)
  <2>1. <<>> \o <<>> = <<>>
    OBVIOUS
  <2> QED BY <2>1, NoTextPays DEF RangeText
<1>2. ASSUME NEW z \in {p.pay.min, p.pay.max}, z # Nil, z \in Int
      PROVE  Pays(RangeText(<<>>, <<z>>), p) /\ Pays(RangeText(<<z>>, <<>>), p)
  <2>1. <<>> \o <<z>> = <<z>> /\ <<z>> \o <<>> = <<z>> /\ <<z>> # <<>>
    OBVIOUS
  <2>2. RangeText(<<>>, <<z>>) = Rupiah(<<z>>) /\ RangeText(<<z>>, <<>>) = Rupiah(<<z>>)
    BY <2>1 DEF RangeText
  <2>3. ParseSalaryIDR(Rupiah(<<z>>)) = [min |-> z, max |-> z]
    BY <1>2, RupiahIsRead
  <2> QED BY <1>2, <2>2, <2>3, FiguresPay
<1>3. ASSUME x # Nil, y # Nil PROVE Pays(RangeText(<<x>>, <<y>>), p)
  <2>0. x \in Int /\ y \in Int
    BY <1>3
  <2>1. <<x>> \o <<y>> = <<x, y>> /\ <<x, y>> # <<>>
    <3> DEFINE s == <<x>>  t == <<y>>
    <3>1. s \in Seq(Int) /\ t \in Seq(Int) /\ Len(s) = 1 /\ Len(t) = 1 /\ s[1] = x /\ t[1] = y
      BY <2>0
    <3> HIDE DEF s, t
    <3> DEFINE st == s \o t
    <3>2. st \in Seq(Int) /\ Len(st) = Len(s) + Len(t)
          /\ \A i \in 1..Len(s) + Len(t) : st[i] = IF i <= Len(s) THEN s[i] ELSE t[i - Len(s)]
      BY <3>1, ConcatProperties
    <3> HIDE DEF st
    <3>3. Len(st) = 2 /\ st[1] = x /\ st[2] = y
      BY <3>1, <3>2
    <3>4. <<x, y>> \in Seq(Int) /\ Len(<<x, y>>) = 2 /\ <<x, y>>[1] = x /\ <<x, y>>[2] = y
      BY <2>0
    <3>5. \A i \in 1..Len(st) : st[i] = <<x, y>>[i]
      BY <3>3, <3>4
    <3>6. st = <<x, y>>
      BY <3>2, <3>3, <3>4, <3>5, SeqEqual
    <3> QED BY <3>6, <3>4, EmptySeq DEF s, t, st
  <2>2. RangeText(<<x>>, <<y>>) = Rupiah(<<x, y>>)
    BY <2>1 DEF RangeText
  <2>3. CASE x < y
    <3>1. ParseSalaryIDR(Rupiah(<<x, y>>)) = [min |-> x, max |-> y]
      BY <2>0, <2>3, RupiahIsRead
    <3> QED BY <2>0, <2>2, <2>3, <3>1, FiguresPay
  <2>4. CASE ~(x < y)
    <3>1. ParseSalaryIDR(Rupiah(<<x, y>>)) = [min |-> y, max |-> x]
      BY <2>0, <2>4, RupiahIsRead
    <3> QED BY <2>0, <2>2, <2>4, <3>1, FiguresPay
  <2> QED BY <2>3, <2>4
<1>4. \A z : PrintedD(z) = IF z = Nil THEN <<>> ELSE <<z>>
  BY DEF PrintedD
<1>5. CASE x = Nil
  BY <1>1, <1>2, <1>4, <1>5
<1>6. CASE x # Nil /\ y = Nil
  BY <1>1, <1>2, <1>4, <1>6
<1>7. CASE x # Nil /\ y # Nil
  BY <1>2, <1>3, <1>4, <1>7
<1> QED BY <1>5, <1>6, <1>7

\* The text that a source takes for the pay of a legible posting states pay of it.
LEMMA RawPays ==
  ASSUME NEW src, src.kind \in PageKinds \cup ATSKinds, NEW p, IsPosting(p), Legible(src, p)
  PROVE  Pays(RawJob(src, p).salary, p) /\ RawJob(src, p).title = p.title
<1> DEFINE Good(raw) == Pays(raw.salary, p) /\ raw.title = p.title
           text == p.pay.text
<1>0. /\ {p.pay.min, p.pay.max} \subseteq {Nil} \cup Int /\ IsText(text)
  BY DEF IsPosting, IsText
<1>1. Pays(NoText, p)
  BY NoTextPays
<1>2. ReadsPay(src) => Pays(TrustedSalaryText(text), p)
  <2>1. CASE ParseSalaryIDR(text).min = Nil
    BY <1>1, <2>1 DEF TrustedSalaryText
  <2>2. CASE ParseSalaryIDR(text).min # Nil /\ ReadsPay(src)
    <3>1. TrustedSalaryText(text) = text
      BY <2>2 DEF TrustedSalaryText
    <3>2. p.pay.currency = "IDR"
          /\ {ParseSalaryIDR(text).min, ParseSalaryIDR(text).max} \subseteq {p.pay.min, p.pay.max}
      BY <2>2 DEF Legible
    <3>3. ParseSalaryIDR(text).min <= ParseSalaryIDR(text).max
      BY <1>0, <2>2, ReadInOrder
    <3> QED BY <3>1, <3>2, <3>3 DEF Pays
  <2> QED BY <2>1, <2>2
<1>3. ReadsPay(src) => Pays(JoobleSalaryText(text), p)
  BY <1>1, <1>2 DEF JoobleSalaryText
<1>4. PrintsPay(src, p) => Pays(SalaryRangeText(p.pay), p)
  <2>1. CASE p.pay.currency # "IDR"
    BY <1>1, <2>1 DEF SalaryRangeText
  <2>2. CASE p.pay.currency = "IDR" /\ PrintsPay(src, p)
    <3>1. \A n \in {p.pay.min, p.pay.max} : n = Nil \/ n < 1000000
      BY <2>2 DEF Legible
    <3>2. PrintedG(p.pay.min) = PrintedD(p.pay.min) /\ PrintedG(p.pay.max) = PrintedD(p.pay.max)
      BY <3>1 DEF PrintedG
    <3>3. SalaryRangeText(p.pay) = RangeText(PrintedD(p.pay.min), PrintedD(p.pay.max))
      BY <2>2, <3>2 DEF SalaryRangeText
    <3> QED BY <1>0, <2>2, <3>3, RangePays
  <2> QED BY <2>1, <2>2
<1>5. Pays(KalibrrSalaryText(p.pay), p)
  <2>1. CASE ~p.pay.shown \/ p.pay.currency # "IDR"
    BY <1>1, <2>1 DEF KalibrrSalaryText
  <2>2. CASE p.pay.shown /\ p.pay.currency = "IDR"
    <3>1. /\ Pays(RangeText(PrintedD(p.pay.min), PrintedD(p.pay.max)), p)
          /\ Pays(RangeText(<<>>, PrintedD(p.pay.max)), p)
          /\ Pays(RangeText(<<>>, PrintedD(p.pay.min)), p)
      BY <1>0, <2>2, RangePays
    <3> QED BY <2>2, <3>1 DEF KalibrrSalaryText
  <2> QED BY <2>1, <2>2
<1>6. src.kind = "careerjet" => Pays(CareerjetSalaryText(p.pay), p)
  <2> SUFFICES ASSUME src.kind = "careerjet" PROVE Pays(CareerjetSalaryText(p.pay), p)
    OBVIOUS
  <2>1. CASE p.pay.currency # "IDR"
    BY <1>1, <2>1 DEF CareerjetSalaryText, SalaryRangeText
  <2>2. CASE p.pay.currency = "IDR" /\ text # NoText
    BY <1>2, <2>2 DEF CareerjetSalaryText, ReadsPay
  <2>3. CASE text = NoText
    BY <1>4, <2>3 DEF CareerjetSalaryText, PrintsPay
  <2> QED BY <2>1, <2>2, <2>3
<1> HIDE DEF text
<1>7. CASE src.kind = "kalibrr"
  <2>1. Good(KalibrrRaw(src, p))
    BY <1>5 DEF KalibrrRaw, Listing
  <2> QED BY <1>7, <2>1 DEF RawJob
<1>8. CASE src.kind = "jooble"
  <2>1. Good(JoobleRaw(src, p))
    BY <1>3, <1>8 DEF JoobleRaw, Listing, ReadsPay, text
  <2> QED BY <1>8, <2>1 DEF RawJob
<1>9. CASE src.kind = "careerjet"
  <2>1. Good(CareerjetRaw(src, p))
    BY <1>6, <1>9 DEF CareerjetRaw, Listing
  <2> QED BY <1>9, <2>1 DEF RawJob
<1>10. CASE src.kind = "workday"
  <2>1. Good(WorkdayRaw(src, p))
    BY <1>1 DEF WorkdayRaw, Listing
  <2> QED BY <1>10, <2>1 DEF RawJob
<1>11. CASE src.kind = "smartrecruiters"
  <2>1. Good(SmartRecruitersRaw(src, p))
    BY <1>1 DEF SmartRecruitersRaw, Listing
  <2> QED BY <1>11, <2>1 DEF RawJob
<1>12. CASE src.kind = "remotive"
  <2>1. Good(RemotiveRaw(src, p))
    BY <1>2, <1>12 DEF RemotiveRaw, Listing, ReadsPay, text
  <2> QED BY <1>12, <2>1 DEF RawJob
<1>13. CASE src.kind = "jobicy"
  <2>1. Good(JobicyRaw(src, p))
    BY <1>4, <1>13 DEF JobicyRaw, Listing, IdSalaryRangeText, PrintsPay
  <2> QED BY <1>13, <2>1 DEF RawJob
<1>14. CASE src.kind = "remoteok"
  <2>1. Good(RemoteOKRaw(src, p))
    BY <1>1 DEF RemoteOKRaw, Listing
  <2> QED BY <1>14, <2>1 DEF RawJob
<1>15. CASE src.kind = "greenhouse"
  <2>1. Good(GreenhouseRaw(src, p))
    BY <1>1 DEF GreenhouseRaw, Listing
  <2> QED BY <1>15, <2>1 DEF RawJob
<1>16. CASE src.kind = "lever"
  <2>1. Good(LeverRaw(src, p))
    BY <1>4, <1>16 DEF LeverRaw, Listing, PrintsPay
  <2> QED BY <1>16, <2>1 DEF RawJob
<1>17. CASE src.kind = "workable"
  <2>1. Good(WorkableRaw(src, p))
    BY <1>4, <1>17 DEF WorkableRaw, Listing, PrintsPay
  <2> QED BY <1>17, <2>1 DEF RawJob
<1>18. CASE src.kind = "ashby"
  <2>1. Good(AshbyRaw(src, p))
    BY <1>2, <1>18 DEF AshbyRaw, Listing, ReadsPay, text
  <2> QED BY <1>18, <2>1 DEF RawJob
<1> QED BY <1>7, <1>8, <1>9, <1>10, <1>11, <1>12, <1>13, <1>14, <1>15, <1>16, <1>17, <1>18
     DEF PageKinds, ATSKinds

\* A text names a level that pay can be estimated for, or none.
LEMMA SeniorityIs ==
  ASSUME NEW text
  PROVE  NormalizeSeniority(text) \in {Nil} \cup DOMAIN EstimateBands
<1> DEFINE named == {i \in DOMAIN SenioritySynonyms : SenioritySynonyms[i][1] \in text}
<1>1. DOMAIN SenioritySynonyms = 1..15
  BY DEF SenioritySynonyms
<1>2. \A i \in 1..15 : SenioritySynonyms[i][2] \in DOMAIN EstimateBands
  BY DEF SenioritySynonyms, EstimateBands
<1>3. named \subseteq Nat /\ named \subseteq 1..15
  BY <1>1
<1>4. NormalizeSeniority(text) = IF named = {} THEN Nil ELSE SenioritySynonyms[Smallest(named)][2]
  BY DEF NormalizeSeniority
<1> HIDE DEF named
<1> QED BY <1>2, <1>3, <1>4, SmallestIsOne

\* So do several texts.
LEMMA DerivedIs ==
  ASSUME NEW texts
  PROVE  DeriveSeniority(texts) \in {Nil} \cup DOMAIN EstimateBands
BY SeniorityIs DEF DeriveSeniority

\* And so does a title.
LEMMA LevelIs ==
  ASSUME NEW title
  PROVE  DeriveLevel(title) \in {Nil} \cup DOMAIN EstimateBands
<1> DEFINE named == {i \in DOMAIN Levels : Levels[i] \in title}
<1>1. DOMAIN Levels = 1..7 /\ \A i \in 1..7 : Levels[i] \in DOMAIN EstimateBands
  BY DEF Levels, EstimateBands
<1>2. named \subseteq Nat /\ named \subseteq 1..7
  BY <1>1
<1>3. DeriveLevel(title) = IF named = {} THEN Nil ELSE Levels[Smallest(named)]
  BY DEF DeriveLevel
<1> HIDE DEF named
<1> QED BY <1>1, <1>2, <1>3, SmallestIsOne

\* An estimate is a range.
LEMMA EstimateIs ==
  ASSUME NEW row, row.seniority \in {Nil} \cup DOMAIN EstimateBands, row.min = Nil, row.max = Nil
  PROVE  EstimateSalary(row).min <= EstimateSalary(row).max
<1> DEFINE level == IF row.seniority # Nil THEN row.seniority ELSE DeriveLevel(row.title)
           band == IF level = Nil THEN UnknownBand ELSE EstimateBands[level]
           percent == IF InLocation(row, "jakarta") THEN 115 ELSE IF row.remote THEN 105 ELSE 100
<1>1. level \in {Nil} \cup DOMAIN EstimateBands
  BY LevelIs
<1>2. \A l \in DOMAIN EstimateBands :
        EstimateBands[l][1] \in Nat /\ EstimateBands[l][2] \in Nat
        /\ EstimateBands[l][1] <= EstimateBands[l][2]
  BY DEF EstimateBands
<1>3. UnknownBand[1] \in Nat /\ UnknownBand[2] \in Nat /\ UnknownBand[1] <= UnknownBand[2]
  BY DEF UnknownBand
<1>4. percent \in {100, 105, 115}
  OBVIOUS
<1>5. /\ EstimateSalary(row).min = RoundSalary(band[1], percent)
      /\ EstimateSalary(row).max = RoundSalary(band[2], percent)
  BY DEF EstimateSalary
<1> HIDE DEF level
<1>6. band[1] \in Nat /\ band[2] \in Nat /\ band[1] <= band[2]
  BY <1>1, <1>2, <1>3
<1> HIDE DEF band, percent
<1>7. ASSUME NEW x \in Nat, NEW y \in Nat, x <= y PROVE RoundSalary(x, percent) <= RoundSalary(y, percent)
  <2>1. CASE percent = 100
    BY <1>7, <2>1 DEF RoundSalary
  <2>2. CASE percent = 105
    BY <1>7, <2>2 DEF RoundSalary
  <2>3. CASE percent = 115
    BY <1>7, <2>3 DEF RoundSalary
  <2> QED BY <1>4, <2>1, <2>2, <2>3
<1> QED BY <1>5, <1>6, <1>7

\* A row of a legible posting states pay of that posting or none.
LEMMA RowIsPaid ==
  ASSUME NEW src, src.kind \in PageKinds \cup ATSKinds, NEW p \in Postings, IsPosting(p),
         Legible(src, p), NEW row \in LocalRows(src, p)
  PROVE  IsPaid(row)
<1> DEFINE raw == RawJob(src, p)
<1>1. Pays(raw.salary, p) /\ raw.title = p.title
  BY RawPays
<1> HIDE DEF raw
<1>2. row \in Normalize(raw)
  BY DEF LocalRows, raw
<1>3. PICK pay, texts :
        /\ pay = ParseSalaryIDR(raw.salary)
        /\ row.min = pay.min /\ row.max = pay.max /\ row.title = raw.title
        /\ row.seniority = IF raw.seniority # {} THEN NormalizeSeniority(raw.seniority)
                           ELSE DeriveSeniority(texts)
  BY <1>2 DEF Normalize
<1>4. row.seniority \in {Nil} \cup DOMAIN EstimateBands
  BY <1>3, SeniorityIs, DerivedIs
<1>5. ASSUME row.min # Nil \/ row.max # Nil
      PROVE  row.min <= row.max /\ p.title = row.title /\ StatedBy(p, row)
  BY <1>1, <1>3, <1>5 DEF Pays, StatedBy
<1> QED BY <1>4, <1>5 DEF IsPaid

\* The pay of a row stays as it was stored.
LEMMA PaidKept == PaidInv /\ [Next]_vars => PaidInv'
<1> SUFFICES ASSUME PaidInv, [Next]_vars PROVE PaidInv'
  OBVIOUS
<1>0. IngestInv /\ LegibleInv
  BY DEF PaidInv
<1>1. IngestInv' /\ LegibleInv' /\ Postings' = Postings
  BY <1>0, IngestStep, LegibleKept, WorldKept
<1>2. \A k \in DOMAIN rows : IsPaid(rows[k]) /\ DOMAIN rows[k] = RowFields
  BY <1>0, RowsAre DEF PaidInv, IsRow
<1>3. ASSUME NEW x, NEW y, IsPaid(x), x.min = y.min, x.max = y.max, x.title = y.title,
             x.seniority = y.seniority
      PROVE  IsPaid(y)
  BY <1>3 DEF IsPaid, StatedBy
<1>4. ASSUME NEW x, NEW y, IsPaid(x), DOMAIN x = RowFields,
             \E v : y = [x EXCEPT !.age = v] \/ y = [x EXCEPT !.stale = v]
      PROVE  IsPaid(y)
  <2>1. y.min = x.min /\ y.max = x.max /\ y.title = x.title /\ y.seniority = x.seniority
    BY <1>4 DEF RowFields
  <2> QED BY <1>3, <1>4, <2>1
<1>5. \A k \in DOMAIN rows' : IsPaid(rows'[k])
  <2>1. CASE UNCHANGED rows
    BY <1>2, <2>1
  <2>2. CASE StoreRaw
    <3>1. CASE UNCHANGED rows
      BY <1>2, <3>1
    <3>2. ASSUME NEW row \in NextRows, Upsert(row) PROVE \A k \in DOMAIN rows' : IsPaid(rows'[k])
      <4>1. Storing /\ IsPass(pass) /\ pass.fetch.kept # <<>>
        BY <1>0, <2>2, StoreIs
      <4>2. pass # Idle /\ pass.index \in DOMAIN registry /\ b.id \in Ids
        BY <1>0, <4>1 DEF IngestInv, PlaceInv, Storing, Idle, Ids, b
      <4> DEFINE p == Head(pass.fetch.kept)
      <4>3. p \in Own(b.id)
        BY <1>0, <4>1, <4>2, HeadTailProperties DEF LegibleInv
      <4>4. p \in Postings /\ IsPosting(p) /\ b.kind \in PageKinds \cup ATSKinds
        BY <1>0, <4>2, <4>3, OwnIs DEF IngestInv, WorldInv, b
      <4>5. Legible(b, p)
        BY <1>0, <4>2, <4>3 DEF LegibleInv, b
      <4> HIDE DEF p
      <4>6. IsPaid(row)
        BY <3>2, <4>4, <4>5, RowIsPaid DEF NextRows, p
      <4>7. /\ row.min = Fresh(row).min /\ row.max = Fresh(row).max
            /\ row.title = Fresh(row).title /\ row.seniority = Fresh(row).seniority
        BY DEF Fresh, RowFields
      <4>8. IsPaid(Fresh(row))
        BY <1>3, <4>6, <4>7
      <4> QED BY <1>2, <3>2, <4>8 DEF Upsert
    <3> QED BY <1>0, <2>2, <3>1, <3>2, StoreIs
  <2>3. CASE rows' = SweepStale(rows)
    <3>1. ASSUME NEW k \in DOMAIN rows PROVE IsPaid(SweepStale(rows)[k])
      <4>1. SweepStale(rows)[k]
              = [rows[k] EXCEPT !.stale = rows[k].stale \/ rows[k].age > StaleAfter]
        BY DEF SweepStale
      <4> QED BY <1>2, <1>4, <4>1
    <3> QED BY <2>3, <3>1 DEF SweepStale
  <2>4. CASE Tick
    <3>1. rows' = [k \in DOMAIN rows |-> [rows[k] EXCEPT !.age = Older(rows[k].age, Swept)]]
      BY <2>4 DEF Tick
    <3> QED BY <1>2, <1>4, <3>1
  <2> QED BY RowSteps, <2>1, <2>2, <2>3, <2>4
<1>6. \A row : IsPaid(row)' <=> IsPaid(row)
  BY <1>1 DEF IsPaid, StatedBy
<1> QED BY <1>1, <1>5, <1>6 DEF PaidInv

\* Where the pay of the boards is legible, a row states only rupiah pay that a posting of its
\* job states, and an estimate is labelled as one, whatever board changes, faults, sweeps and
\* restarts come between: every other step from the posting to the card keeps its figures.
THEOREM PayIsStated == Spec /\ PayIsLegible(world) => []StatedPayOnly
<1>1. Init /\ PayIsLegible(world) => PaidInv
  <2> SUFFICES ASSUME Init, PayIsLegible(world) PROVE PaidInv
    OBVIOUS
  <2>1. DOMAIN rows = {}
    BY DEF Init
  <2> QED BY <2>1, IngestInit, LegibleInit DEF PaidInv
<1>2. PaidInv => StatedPayOnly
  <2> SUFFICES ASSUME PaidInv, NEW k \in DOMAIN rows
               PROVE  LET row == rows[k]  card == ToCard(row) IN
                      /\ card.stated =>
                           /\ row.min <= row.max /\ ~card.estimated
                           /\ \E id \in Ids : \E i \in DOMAIN world.boards[id] :
                                LET p == world.boards[id][i] IN p.title = row.title /\ StatedBy(p, row)
                      /\ card.estimated => card.label[1] = "estimated" /\ card.label[2] <= card.label[3]
    BY DEF StatedPayOnly
  <2> DEFINE row == rows[k]
             card == ToCard(row)
  <2>1. IsPaid(row)
    BY DEF PaidInv
  <2> HIDE DEF row
  <2>2. /\ card.stated = (row.min # Nil \/ row.max # Nil)
        /\ card.estimated = (~(row.min # Nil \/ row.max # Nil) /\ EstimateSalary(row) # Nil)
        /\ card.estimated =>
             card.label = <<"estimated", EstimateSalary(row).min, EstimateSalary(row).max>>
    BY DEF ToCard
  <2> HIDE DEF card
  <2>3. ASSUME card.stated
        PROVE  /\ row.min <= row.max /\ ~card.estimated
               /\ \E id \in Ids : \E i \in DOMAIN world.boards[id] :
                    LET p == world.boards[id][i] IN p.title = row.title /\ StatedBy(p, row)
    <3>1. row.min <= row.max /\ \E p \in Postings : p.title = row.title /\ StatedBy(p, row)
      BY <2>1, <2>2, <2>3 DEF IsPaid
    <3> QED BY <2>2, <2>3, <3>1 DEF Postings
  <2>4. ASSUME card.estimated PROVE card.label[1] = "estimated" /\ card.label[2] <= card.label[3]
    <3>1. EstimateSalary(row).min <= EstimateSalary(row).max
      BY <2>1, <2>2, <2>4, EstimateIs DEF IsPaid
    <3>2. card.label[1] = "estimated" /\ card.label[2] = EstimateSalary(row).min
          /\ card.label[3] = EstimateSalary(row).max
      BY <2>2, <2>4
    <3> QED BY <3>1, <3>2
  <2> QED BY <2>3, <2>4 DEF row, card
<1> QED BY <1>1, <1>2, PaidKept, PTL DEF Spec
=============================================================================
