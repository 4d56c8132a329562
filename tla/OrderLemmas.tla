---------------------------- MODULE OrderLemmas -----------------------------
(***************************************************************************)
(* Lemmas about natural numbers that the proofs of the components share:    *)
(* the order of a finite set, its least and greatest member, induction up   *)
(* to a number, and the recursive functions it justifies.                   *)
(***************************************************************************)
EXTENDS Orders, TLAPS, FiniteSetTheorems

-----------------------------------------------------------------------------
(* InOrder.  The rank of a number in a finite set is how many are not above   *)
(* it; ranks are different and within 1 .. Cardinality(S), so each is taken.  *)

Rank(S, n) == Cardinality({m \in S : m <= n})

\* A larger number has a higher rank.
LEMMA RankGrows ==
    ASSUME NEW S \in SUBSET Nat, IsFiniteSet(S), NEW n \in S, NEW p \in S, n < p
    PROVE  Rank(S, n) < Rank(S, p)
<1> DEFINE A == {m \in S : m <= n}
           B == {m \in S : m <= p}
<1>1. A \in SUBSET B /\ p \in B /\ p \notin A
  <2>1. \A m \in S : m \in Nat
    OBVIOUS
  <2>2. \A m \in S : m <= n => m <= p
    BY <2>1
  <2>3. p <= p /\ ~(p <= n)
    BY <2>1
  <2>4. A \subseteq B
    BY <2>2
  <2> QED  BY <2>3, <2>4
<1>2. IsFiniteSet(B)
  BY FS_Subset, B \in SUBSET S
<1>3. Cardinality(A) <= Cardinality(B) /\ Cardinality(A) # Cardinality(B)
  <2> HIDE DEF A, B
  <2> QED  BY <1>1, <1>2, FS_Subset
<1>4. Cardinality(A) \in Nat /\ Cardinality(B) \in Nat
  <2> HIDE DEF A, B
  <2> QED  BY <1>1, <1>2, FS_Subset, FS_CardinalityType
<1> QED  BY <1>3, <1>4 DEF Rank

\* Two numbers of one rank are the same.
LEMMA RankTells ==
    ASSUME NEW S \in SUBSET Nat, IsFiniteSet(S), NEW n \in S, NEW p \in S,
           Rank(S, n) = Rank(S, p), Rank(S, n) \in Nat
    PROVE  n = p
<1>1. n \in Nat /\ p \in Nat
  OBVIOUS
<1>2. n < p \/ p < n \/ n = p
  BY <1>1
<1>3. ~(Rank(S, n) < Rank(S, p)) /\ ~(Rank(S, p) < Rank(S, n))
  OBVIOUS
<1> QED  BY <1>2, <1>3, RankGrows

\* Ranks are within 1 .. Cardinality(S).
LEMMA RankRange ==
    ASSUME NEW S \in SUBSET Nat, IsFiniteSet(S), NEW n \in S
    PROVE  Rank(S, n) \in 1 .. Cardinality(S)
<1> DEFINE A == {m \in S : m <= n}
<1>1. A \in SUBSET S /\ n \in A
  OBVIOUS
<1> HIDE DEF A
<1>2. IsFiniteSet(A) /\ Cardinality(A) <= Cardinality(S) /\ Cardinality(A) \in Nat
      /\ Cardinality(S) \in Nat /\ Cardinality(A) # 0
  BY <1>1, FS_Subset, FS_CardinalityType, FS_EmptySet
<1> QED  BY <1>2 DEF Rank, A

\* Each of them is the rank of some number.
LEMMA RankTaken ==
    ASSUME NEW S \in SUBSET Nat, IsFiniteSet(S), NEW k \in 1 .. Cardinality(S)
    PROVE  \E n \in S : Rank(S, n) = k
<1> DEFINE T == 1 .. Cardinality(S)
           rank == [n \in S |-> Rank(S, n)]
<1>1. Cardinality(S) \in Nat /\ IsFiniteSet(T) /\ Cardinality(T) = Cardinality(S)
  BY FS_CardinalityType, FS_Interval
<1>2. rank \in [S -> T]
  BY RankRange
<1>3. \A a, b \in S : rank[a] = rank[b] => a = b
  BY RankTells, RankRange, <1>1
<1>4. rank \in Injection(S, T)
  BY <1>2, <1>3 DEF Injection, IsInjective
<1>5. rank \in Surjection(S, T)
  <2> HIDE DEF T, rank
  <2> QED  BY <1>1, <1>4, FS_Injection
<1> QED  BY <1>5 DEF Surjection

\* The k-th number is of the set and has rank k; a number of rank k is the k-th.
LEMMA OrderOf ==
    ASSUME NEW S \in SUBSET Nat, IsFiniteSet(S)
    PROVE  /\ Cardinality(S) \in Nat /\ DOMAIN InOrder(S) = 1 .. Cardinality(S)
           /\ \A k \in 1 .. Cardinality(S) :
                  InOrder(S)[k] \in S /\ Rank(S, InOrder(S)[k]) = k
<1>1. ASSUME NEW k \in 1 .. Cardinality(S)
      PROVE  InOrder(S)[k] \in S /\ Rank(S, InOrder(S)[k]) = k
  <2>1. InOrder(S)[k] = CHOOSE n \in S : Rank(S, n) = k
    BY DEF InOrder, Rank
  <2> QED  BY <2>1, RankTaken
<1> QED  BY <1>1, FS_CardinalityType DEF InOrder

\* A number is found at its rank.
LEMMA OrderAt ==
    ASSUME NEW S \in SUBSET Nat, IsFiniteSet(S), NEW n \in S
    PROVE  Rank(S, n) \in DOMAIN InOrder(S) /\ InOrder(S)[Rank(S, n)] = n
<1> DEFINE k == Rank(S, n)
           p == InOrder(S)[k]
<1>1. k \in 1 .. Cardinality(S) /\ DOMAIN InOrder(S) = 1 .. Cardinality(S)
      /\ Cardinality(S) \in Nat
  BY RankRange, OrderOf
<1>2. p \in S /\ Rank(S, p) = k
  BY <1>1, OrderOf
<1>3. p = n
  <2> HIDE DEF p
  <2> QED  BY <1>1, <1>2, RankTells
<1> QED  BY <1>1, <1>3

\* There are n numbers from 1 to n.
LEMMA Intervals ==
    ASSUME NEW n \in Nat
    PROVE  IsFiniteSet(1 .. n) /\ Cardinality(1 .. n) = n
<1>1. 1 \in Int /\ n \in Int /\ (IF 1 > n THEN 0 ELSE n - 1 + 1) = n
  OBVIOUS
<1>2. IsFiniteSet(1 .. n) /\ Cardinality(1 .. n) = IF 1 > n THEN 0 ELSE n - 1 + 1
  BY <1>1, FS_Interval
<1> QED  BY <1>1, <1>2

-----------------------------------------------------------------------------
(* Least and greatest members, and induction.                                *)

\* Some member of a nonempty set of numbers is the least.
LEMMA Least ==
    ASSUME NEW S \in SUBSET Nat, S # {}
    PROVE  \E c \in S : \A e \in S : c <= e
<1>1. PICK n \in S : TRUE
  OBVIOUS
<1> DEFINE T == S \cap (0 .. n)
<1>2. T \in SUBSET Nat /\ n \in T /\ IsFiniteSet(T)
  <2>1. n \in Nat /\ 0 \in Int /\ n \in Int
    OBVIOUS
  <2>2. IsFiniteSet(0 .. n)
    BY <2>1, FS_Interval
  <2> QED  BY <2>1, <2>2, FS_Subset
<1>3. 1 \in 1 .. Cardinality(T)
  <2> HIDE DEF T
  <2>1. Cardinality(T) \in Nat /\ Cardinality(T) # 0
    BY <1>2, FS_CardinalityType, FS_EmptySet
  <2> QED  BY <2>1
<1>4. PICK c \in T : Rank(T, c) = 1
  <2> HIDE DEF T
  <2> QED  BY <1>2, <1>3, RankTaken
<1>5. \A e \in T : c <= e
  <2> SUFFICES ASSUME NEW e \in T, ~(c <= e) PROVE FALSE
    OBVIOUS
  <2>1. c \in Nat /\ e \in Nat /\ e <= c /\ c <= c /\ e # c
    OBVIOUS
  <2> DEFINE L == {m \in T : m <= c}
  <2>2. IsFiniteSet(L) /\ Cardinality(L) = 1
    <3>1. L \in SUBSET T
      OBVIOUS
    <3> HIDE DEF T
    <3> QED  BY <1>2, <1>4, <3>1, FS_Subset DEF Rank
  <2>3. c \in L /\ e \in L
    BY <2>1
  <2> HIDE DEF L
  <2>4. \E x : L = {x}
    BY <2>2, FS_Singleton
  <2> QED  BY <2>1, <2>3, <2>4
<1>6. \A e \in S : c <= e
  <2> TAKE e \in S
  <2>1. e \in Nat /\ n \in Nat /\ c \in Nat /\ c <= n
    BY <1>2
  <2>2. CASE e <= n
    BY <1>5, <2>1, <2>2
  <2>3. CASE ~(e <= n)
    BY <2>1, <2>3
  <2> QED  BY <2>2, <2>3
<1> QED  BY <1>6

\* Some member of a nonempty finite set of numbers is the greatest.
LEMMA Greatest ==
    ASSUME NEW S \in SUBSET Nat, S # {}, IsFiniteSet(S)
    PROVE  \E c \in S : \A e \in S : e <= c
<1> DEFINE k == Cardinality(S)
<1>1. k \in Nat /\ k \in 1 .. k
  <2>1. k \in Nat /\ k # 0
    BY FS_CardinalityType, FS_EmptySet
  <2> HIDE DEF k
  <2> QED  BY <2>1
<1>2. PICK c \in S : Rank(S, c) = k
  BY <1>1, RankTaken
<1> DEFINE L == {m \in S : m <= c}
<1>3. L \in SUBSET S /\ Cardinality(L) = Cardinality(S)
  BY <1>2 DEF Rank
<1>4. L = S
  <2> HIDE DEF L
  <2> QED  BY <1>3, FS_Subset
<1> QED  BY <1>4

\* Induction up to n.
LEMMA UpTo ==
    ASSUME NEW n \in Nat, NEW P, 0 \in P, \A k \in 0 .. n - 1 : k \in P => k + 1 \in P
    PROVE  \A k \in 0 .. n : k \in P
<1> DEFINE Bad == {k \in 0 .. n : k \notin P}
<1> SUFFICES ASSUME Bad # {} PROVE FALSE
  OBVIOUS
<1>1. Bad \in SUBSET Nat
  OBVIOUS
<1>2. PICK c \in Bad : \A e \in Bad : c <= e
  <2> HIDE DEF Bad
  <2> QED  BY <1>1, Least
<1>3. c # 0 /\ c \in Nat /\ c - 1 \in 0 .. n - 1 /\ c - 1 + 1 = c
  OBVIOUS
<1>4. c - 1 \in P
  BY <1>2, <1>3
<1> QED  BY <1>3, <1>4

\* The recursive functions that start at start and take the i-th step by g[i].
Runs(n, S, start, g) ==
    {h \in [0 .. n -> S] : h[0] = start /\ \A i \in 1 .. n : h[i] = g[i][h[i - 1]]}

\* When the steps are functions on S, there is one.
LEMMA Iterated ==
    ASSUME NEW n \in Nat, NEW S, NEW start \in S, NEW g \in [1 .. n -> [S -> S]]
    PROVE  Runs(n, S, start, g) # {}
<1> DEFINE Good(k, h) == h[0] = start /\ \A i \in 1 .. k : h[i] = g[i][h[i - 1]]
           P == {k \in 0 .. n : \E h \in [0 .. k -> S] : Good(k, h)}
<1>1. 0 \in P
  <2> DEFINE h0 == [i \in 0 .. 0 |-> start]
  <2>1. h0 \in [0 .. 0 -> S] /\ h0[0] = start /\ 0 \in 0 .. n
    OBVIOUS
  <2>2. \A i \in 1 .. 0 : FALSE
    OBVIOUS
  <2> QED  BY <2>1, <2>2
<1>2. ASSUME NEW k \in 0 .. n - 1, k \in P PROVE k + 1 \in P
  <2>1. k \in Nat /\ k + 1 \in 0 .. n /\ k + 1 \in 1 .. n
    OBVIOUS
  <2>2. PICK h \in [0 .. k -> S] : Good(k, h)
    BY <1>2
  <2> DEFINE h1 == [i \in 0 .. k + 1 |-> IF i <= k THEN h[i] ELSE g[k + 1][h[k]]]
  <2>3. h[k] \in S /\ g[k + 1] \in [S -> S] /\ g[k + 1][h[k]] \in S
    BY <2>1
  <2>4. h1 \in [0 .. k + 1 -> S]
    BY <2>1, <2>3
  <2>5. h1[0] = start
    BY <2>1, <2>2
  <2>6. ASSUME NEW i \in 1 .. k + 1 PROVE h1[i] = g[i][h1[i - 1]]
    <3>1. i \in 0 .. k + 1 /\ i - 1 \in 0 .. k + 1 /\ i - 1 <= k /\ h1[i - 1] = h[i - 1]
      BY <2>1
    <3>2. CASE i <= k
      <4>1. i \in 1 .. k /\ h1[i] = h[i]
        BY <2>1, <3>1, <3>2
      <4> QED  BY <2>2, <3>1, <4>1
    <3>3. CASE ~(i <= k)
      <4>1. i = k + 1 /\ i - 1 = k /\ h1[i] = g[k + 1][h[k]]
        BY <2>1, <3>1, <3>3
      <4> QED  BY <3>1, <4>1
    <3> QED  BY <3>2, <3>3
  <2> HIDE DEF h1
  <2> QED  BY <2>1, <2>4, <2>5, <2>6
<1>3. \A k \in 0 .. n : k \in P
  <2> HIDE DEF P
  <2> QED  BY <1>1, <1>2, UpTo
<1>4. n \in P
  BY <1>3
<1> QED  BY <1>4 DEF Runs

=============================================================================
