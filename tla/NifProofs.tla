------------------------------ MODULE NifProofs ------------------------------
(***************************************************************************)
(* Proofs about the load of a NIF, for any files: skeletons fit the meshes  *)
(* that share them, the scene stays a tree, levels are hidden as the file   *)
(* says, and the tracks lead to the nodes and materials they were made for. *)
(***************************************************************************)
EXTENDS NifAnimation, OrderLemmas

-----------------------------------------------------------------------------
(* Sequences.                                                                *)

\* The elements of two sequences put together.
LEMMA Joined ==
    ASSUME NEW S, NEW a \in Seq(S), NEW b \in Seq(S)
    PROVE  /\ a \o b \in Seq(S) /\ Len(a \o b) = Len(a) + Len(b)
           /\ \A k \in 1 .. Len(a) : (a \o b)[k] = a[k]
           /\ \A k \in 1 .. Len(b) : (a \o b)[Len(a) + k] = b[k]
           /\ ToSet(a \o b) = ToSet(a) \cup ToSet(b)
<1>1. a \o b \in Seq(S) /\ Len(a \o b) = Len(a) + Len(b) /\ Len(a) \in Nat /\ Len(b) \in Nat
  OBVIOUS
<1>2. \A k \in 1 .. Len(a) : (a \o b)[k] = a[k]
  OBVIOUS
<1>3. ASSUME NEW k \in 1 .. Len(b)
      PROVE  (a \o b)[Len(a) + k] = b[k]
  <2>1. Len(a) + k \in 1 .. Len(a) + Len(b) /\ ~(Len(a) + k <= Len(a)) /\ (Len(a) + k) - Len(a) = k
    BY <1>1
  <2> QED
    BY <2>1
<1>4. DOMAIN a = 1 .. Len(a) /\ DOMAIN b = 1 .. Len(b) /\ DOMAIN (a \o b) = 1 .. Len(a) + Len(b)
  BY <1>1
<1>5. ASSUME NEW k \in 1 .. Len(a) + Len(b)
      PROVE  (a \o b)[k] \in ToSet(a) \cup ToSet(b)
  <2>1. CASE k <= Len(a)
    <3>1. k \in 1 .. Len(a)
      BY <1>1, <2>1
    <3> QED
      BY <1>2, <1>4, <3>1 DEF ToSet
  <2>2. CASE ~(k <= Len(a))
    <3>1. k - Len(a) \in 1 .. Len(b) /\ Len(a) + (k - Len(a)) = k
      BY <1>1, <2>2
    <3>2. (a \o b)[k] = b[k - Len(a)]
      BY <1>3, <3>1
    <3> QED
      BY <1>4, <3>1, <3>2 DEF ToSet
  <2> QED
    BY <2>1, <2>2
<1>6. \A k \in 1 .. Len(b) : Len(a) + k \in 1 .. Len(a) + Len(b)
  BY <1>1
<1>7. \A k \in 1 .. Len(a) : k \in 1 .. Len(a) + Len(b)
  BY <1>1
<1>8. ToSet(a \o b) \subseteq ToSet(a) \cup ToSet(b)
  BY <1>4, <1>5 DEF ToSet
<1>9. ToSet(a) \cup ToSet(b) \subseteq ToSet(a \o b)
  BY <1>2, <1>3, <1>4, <1>6, <1>7 DEF ToSet
<1> QED
  BY <1>1, <1>2, <1>3, <1>8, <1>9

\* One more element at the end.
LEMMA Appended ==
    ASSUME NEW S, NEW s \in Seq(S), NEW x \in S
    PROVE  /\ Append(s, x) \in Seq(S) /\ Len(Append(s, x)) = Len(s) + 1
           /\ \A k \in 1 .. Len(s) : Append(s, x)[k] = s[k]
           /\ Append(s, x)[Len(s) + 1] = x
           /\ ToSet(Append(s, x)) = ToSet(s) \cup {x}
           /\ IsInjective(s) /\ x \notin ToSet(s) => IsInjective(Append(s, x))
           /\ Append(s, x) # <<>> /\ Last(Append(s, x)) = x
<1>1. /\ Append(s, x) \in Seq(S) /\ Len(Append(s, x)) = Len(s) + 1 /\ Len(s) \in Nat
      /\ \A k \in 1 .. Len(s) : Append(s, x)[k] = s[k]
      /\ Append(s, x)[Len(s) + 1] = x
  OBVIOUS
<1>2. DOMAIN s = 1 .. Len(s) /\ DOMAIN Append(s, x) = 1 .. Len(s) + 1
  BY <1>1
<1>3. \A k \in 1 .. Len(s) + 1 : k \in 1 .. Len(s) \/ k = Len(s) + 1
  BY <1>1
<1>4. (1 .. Len(s)) \subseteq 1 .. Len(s) + 1 /\ Len(s) + 1 \in 1 .. Len(s) + 1
  BY <1>1
<1>5. ToSet(Append(s, x)) = ToSet(s) \cup {x}
  <2>1. ToSet(Append(s, x)) \subseteq ToSet(s) \cup {x}
    BY <1>1, <1>2, <1>3 DEF ToSet
  <2>2. ToSet(s) \subseteq ToSet(Append(s, x))
    BY <1>1, <1>2, <1>4 DEF ToSet
  <2>3. x \in ToSet(Append(s, x))
    BY <1>1, <1>2, <1>4 DEF ToSet
  <2> QED
    BY <2>1, <2>2, <2>3
<1>6. ASSUME IsInjective(s), x \notin ToSet(s)
      PROVE  IsInjective(Append(s, x))
  <2>1. \A k \in 1 .. Len(s) : s[k] # x
    BY <1>2, <1>6 DEF ToSet
  <2>2. \A k, l \in 1 .. Len(s) : s[k] = s[l] => k = l
    BY <1>2, <1>6 DEF IsInjective
  <2> QED
    BY <1>1, <1>2, <1>3, <2>1, <2>2 DEF IsInjective
<1>7. Append(s, x) # <<>> /\ Last(Append(s, x)) = x
  BY <1>1 DEF Last
<1> QED
  BY <1>1, <1>5, <1>6, <1>7

\* What removing the i-th element leaves, one by one.
LEMMA RemoveAtIs ==
    ASSUME NEW S, NEW s \in Seq(S), NEW i \in DOMAIN s
    PROVE  /\ RemoveAt(s, i) \in Seq(S) /\ Len(RemoveAt(s, i)) = Len(s) - 1
           /\ \A k \in 1 .. Len(s) - 1 :
                RemoveAt(s, i)[k] = IF k < i THEN s[k] ELSE s[k + 1]
<1> DEFINE a == SubSeq(s, 1, i - 1)
           b == SubSeq(s, i + 1, Len(s))
<1>1. i \in 1 .. Len(s) /\ Len(s) \in Nat
  OBVIOUS
<1>2. a \in Seq(S) /\ Len(a) = i - 1 /\ \A k \in 1 .. i - 1 : a[k] = s[k]
  BY <1>1
<1>3. b \in Seq(S) /\ Len(b) = Len(s) - i /\ \A k \in 1 .. Len(s) - i : b[k] = s[k + i]
  BY <1>1
<1> HIDE DEF a, b
<1>4. a \o b \in Seq(S) /\ Len(a \o b) = Len(s) - 1
  BY <1>1, <1>2, <1>3
<1>6. \A n \in 1 .. Len(b) : (a \o b)[Len(a) + n] = b[n]
  <2>1. a \in Seq(S) /\ b \in Seq(S)
    BY <1>2, <1>3
  <2> QED
    BY <2>1, Joined
<1>5. \A k \in 1 .. Len(s) - 1 : (a \o b)[k] = IF k < i THEN s[k] ELSE s[k + 1]
  <2> SUFFICES ASSUME NEW k \in 1 .. Len(s) - 1
               PROVE  (a \o b)[k] = IF k < i THEN s[k] ELSE s[k + 1]
    OBVIOUS
  <2>1. CASE k < i
    <3>1. k \in 1 .. Len(a) /\ k \in 1 .. i - 1
      BY <1>1, <1>2, <2>1
    <3>2. (a \o b)[k] = a[k]
      BY <1>2, <1>3, <3>1, Joined
    <3> QED
      BY <1>2, <2>1, <3>1, <3>2
  <2>2. CASE ~(k < i)
    <3> DEFINE j == k - (i - 1)
    <3>1. i \in Int /\ k \in Int /\ Len(s) \in Int /\ k <= Len(s) - 1 /\ k >= i
      BY <1>1, <2>2
    <3>2. j \in Int /\ j >= 1 /\ j <= Len(s) - i /\ j + i = k + 1
      BY <3>1
    <3>3. Len(a) = i - 1
      BY <1>2
    <3>4. Len(a) + j = k
      BY <3>1, <3>3
    <3> HIDE DEF j
    <3>5. j \in 1 .. Len(s) - i /\ j \in 1 .. Len(b)
      BY <1>3, <3>1, <3>2
    <3>6. (a \o b)[Len(a) + j] = b[j]
      BY <1>6, <3>5
    <3>7. b[j] = s[j + i]
      BY <1>3, <3>5
    <3>8. (a \o b)[k] = s[k + 1]
      BY <3>2, <3>4, <3>6, <3>7
    <3> QED
      BY <2>2, <3>8
  <2> QED
    BY <2>1, <2>2
<1> QED
  BY <1>4, <1>5 DEF RemoveAt, a, b

\* Taking an element out of a sequence of different ones.
LEMMA WithoutIs ==
    ASSUME NEW S, NEW s \in Seq(S), IsInjective(s), NEW x
    PROVE  /\ Without(s, x) \in Seq(S) /\ IsInjective(Without(s, x))
           /\ ToSet(Without(s, x)) = ToSet(s) \ {x}
           /\ x \notin ToSet(s) => Without(s, x) = s
           /\ s # <<>> /\ Last(s) # x =>
                Without(s, x) # <<>> /\ Last(Without(s, x)) = Last(s)
<1>1. CASE x \notin ToSet(s)
  BY <1>1 DEF Without
<1>2. CASE x \in ToSet(s)
  <2> DEFINE i == CHOOSE i \in DOMAIN s : s[i] = x
             t == RemoveAt(s, i)
             n == Len(s)
  <2>1. i \in DOMAIN s /\ s[i] = x
    BY <1>2 DEF ToSet
  <2>2. Without(s, x) = t
    BY <1>2 DEF Without
  <2> HIDE DEF i
  <2>3. t \in Seq(S) /\ Len(t) = n - 1
        /\ \A k \in 1 .. n - 1 : t[k] = IF k < i THEN s[k] ELSE s[k + 1]
    BY <2>1, RemoveAtIs
  <2> HIDE DEF t, n
  <2>4. n \in Nat /\ DOMAIN s = 1 .. n /\ DOMAIN t = 1 .. n - 1 /\ i \in 1 .. n
    BY <2>1, <2>3 DEF n
  <2>5. IsInjective(t)
    <3> DEFINE m(k) == IF k < i THEN k ELSE k + 1
    <3>1. \A k \in 1 .. n - 1 : t[k] = s[m(k)] /\ m(k) \in 1 .. n
      BY <2>3, <2>4
    <3>2. \A k, l \in 1 .. n - 1 : m(k) = m(l) => k = l
      BY <2>4
    <3> HIDE DEF m
    <3> QED
      BY <2>4, <3>1, <3>2 DEF IsInjective
  <2>6. ToSet(t) = ToSet(s) \ {x}
    <3>1. \A k \in 1 .. n - 1 : t[k] \in ToSet(s) \ {x}
      <4> SUFFICES ASSUME NEW k \in 1 .. n - 1
                   PROVE  t[k] \in ToSet(s) \ {x}
        OBVIOUS
      <4>1. PICK j \in 1 .. n : t[k] = s[j] /\ j # i
        BY <2>3, <2>4
      <4> QED
        BY <2>1, <2>4, <4>1 DEF IsInjective, ToSet
    <3>2. ASSUME NEW y \in ToSet(s) \ {x}
          PROVE  y \in ToSet(t)
      <4>1. PICK j \in 1 .. n : s[j] = y
        BY <2>4 DEF ToSet
      <4>2. j # i
        BY <2>1, <4>1
      <4>3. CASE j < i
        <5>1. j \in 1 .. n - 1 /\ t[j] = y
          BY <2>3, <2>4, <4>1, <4>3
        <5> QED
          BY <5>1, <2>4 DEF ToSet
      <4>4. CASE j > i
        <5>1. j - 1 \in 1 .. n - 1 /\ ~(j - 1 < i) /\ (j - 1) + 1 = j
          BY <2>4, <4>1, <4>4
        <5>2. t[j - 1] = y
          BY <5>1, <2>3, <4>1
        <5> QED
          BY <5>1, <5>2, <2>4 DEF ToSet
      <4> QED
        BY <2>4, <4>2, <4>3, <4>4
    <3> QED
      BY <3>1, <3>2, <2>4 DEF ToSet
  <2>7. s # <<>> /\ Last(s) # x => t # <<>> /\ Last(t) = Last(s)
    <3> SUFFICES ASSUME Last(s) # x
                 PROVE  t # <<>> /\ Last(t) = Last(s)
      OBVIOUS
    <3>1. i # n
      BY <2>1, <2>4 DEF Last, n
    <3>2. n - 1 \in 1 .. n - 1 /\ ~(n - 1 < i) /\ (n - 1) + 1 = n
      BY <2>4, <3>1
    <3>3. t[n - 1] = s[n]
      BY <2>3, <3>2
    <3> QED
      BY <2>3, <3>2, <3>3 DEF Last, n
  <2> QED
    BY <1>2, <2>2, <2>3, <2>5, <2>6, <2>7
<1> QED
  BY <1>1, <1>2

-----------------------------------------------------------------------------
(* The Godot nodes and what is under them.                                   *)

Trees == [GNodes -> Seq(GNodes)]
Closed(k, C) == \A y \in C : ToSet(k[y]) \subseteq C
Grow(k, D) == D \cup UNION {ToSet(k[y]) : y \in D}

\* The values of a function on a finite set are finitely many.
LEMMA ImageFinite ==
    ASSUME NEW S, IsFiniteSet(S), NEW f, DOMAIN f = S
    PROVE  IsFiniteSet({f[x] : x \in S})
<1> DEFINE T == {f[x] : x \in S}
           g == [x \in S |-> f[x]]
<1>1. g \in Surjection(S, T)
  BY DEF Surjection
<1> QED
  BY <1>1, FS_Surjection

LEMMA NodesFinite == IsFiniteSet(GNodes)
<1> DEFINE A == {AV(o) : o \in Obj}
           B == {Skeleton(r) : r \in Obj}
           C == {Debug(r) : r \in Obj}
           D == {Attachment(x[1], x[2]) : x \in Obj \X Obj}
<1>1. IsFiniteSet(Obj) /\ IsFiniteSet(Obj \X Obj)
  BY FilesAssumption, FS_Product
<1>2. IsFiniteSet(A) /\ IsFiniteSet(B) /\ IsFiniteSet(C) /\ IsFiniteSet(D)
  <2> DEFINE a == [o \in Obj |-> AV(o)]
             b == [o \in Obj |-> Skeleton(o)]
             c == [o \in Obj |-> Debug(o)]
             d == [x \in Obj \X Obj |-> Attachment(x[1], x[2])]
  <2>1. DOMAIN a = Obj /\ DOMAIN b = Obj /\ DOMAIN c = Obj /\ DOMAIN d = Obj \X Obj
    OBVIOUS
  <2>2. A = {a[o] : o \in Obj} /\ B = {b[o] : o \in Obj} /\ C = {c[o] : o \in Obj}
    OBVIOUS
  <2>3. D = {d[x] : x \in Obj \X Obj}
    OBVIOUS
  <2> HIDE DEF a, b, c, d, A, B, C, D
  <2>4. IsFiniteSet({a[o] : o \in Obj})
    BY <1>1, <2>1, ImageFinite
  <2>5. IsFiniteSet({b[o] : o \in Obj})
    BY <1>1, <2>1, ImageFinite
  <2>6. IsFiniteSet({c[o] : o \in Obj})
    BY <1>1, <2>1, ImageFinite
  <2>7. IsFiniteSet({d[x] : x \in Obj \X Obj})
    BY <1>1, <2>1, ImageFinite
  <2>8. IsFiniteSet(A)
    BY <2>2, <2>4
  <2>9. IsFiniteSet(B)
    BY <2>2, <2>5
  <2>10. IsFiniteSet(C)
    BY <2>2, <2>6
  <2>11. IsFiniteSet(D)
    BY <2>3, <2>7
  <2> QED
    BY <2>8, <2>9, <2>10, <2>11
<1>3. IsFiniteSet({Top, ScenePlayer, Player})
  <2>1. {Top, ScenePlayer, Player} = ({Top} \cup {ScenePlayer}) \cup {Player}
    OBVIOUS
  <2>2. IsFiniteSet({Top}) /\ IsFiniteSet({ScenePlayer}) /\ IsFiniteSet({Player})
    BY FS_Singleton
  <2>3. IsFiniteSet({Top} \cup {ScenePlayer})
    BY <2>2, FS_Union
  <2>4. IsFiniteSet(({Top} \cup {ScenePlayer}) \cup {Player})
    BY <2>2, <2>3, FS_Union
  <2> QED
    BY <2>1, <2>4
<1>4. {Attachment(r, c) : r \in Obj, c \in Obj} = D
  <2>1. ASSUME NEW r \in Obj, NEW c \in Obj
        PROVE  Attachment(r, c) \in D
    <3>1. <<r, c>> \in Obj \X Obj /\ Attachment(r, c) = Attachment(<<r, c>>[1], <<r, c>>[2])
      OBVIOUS
    <3> QED
      BY <3>1
  <2>2. ASSUME NEW y \in D
        PROVE  \E r, c \in Obj : y = Attachment(r, c)
    <3>1. PICK x \in Obj \X Obj : y = Attachment(x[1], x[2])
      OBVIOUS
    <3> QED
      BY <3>1
  <2> HIDE DEF D
  <2> QED
    BY <2>1, <2>2
<1>5. GNodes = {Top, ScenePlayer, Player} \cup A \cup B \cup C \cup D
  BY <1>4 DEF GNodes
<1> HIDE DEF A, B, C, D
<1> QED
  BY <1>2, <1>3, <1>5, FS_Union

\* What Under computes in one step after the other.
LEMMA UnderRuns ==
    ASSUME NEW k \in Trees, NEW g \in GNodes, NEW n,
           n = Cardinality({y \in GNodes : k[y] # <<>>})
    PROVE  /\ n \in Nat
           /\ \E down \in [0 .. n -> SUBSET GNodes] :
                /\ down[0] = {g} /\ \A i \in 1 .. n : down[i] = Grow(k, down[i - 1])
                /\ Under(k, g) = down[n]
<1> DEFINE S == SUBSET GNodes
           f == [i \in 1 .. n |-> [D \in S |-> Grow(k, D)]]
           d == CHOOSE d : d = [i \in 0 .. n |->
                    IF i = 0 THEN {g}
                    ELSE d[i - 1] \cup UNION {ToSet(k[y]) : y \in d[i - 1]}]
<1>1. n \in Nat
  <2>1. {y \in GNodes : k[y] # <<>>} \in SUBSET GNodes
    OBVIOUS
  <2> QED
    BY <2>1, NodesFinite, FS_Subset, FS_CardinalityType
<1>2. \A y \in GNodes : ToSet(k[y]) \subseteq GNodes
  <2> SUFFICES ASSUME NEW y \in GNodes
               PROVE  ToSet(k[y]) \subseteq GNodes
    OBVIOUS
  <2>1. k[y] \in Seq(GNodes)
    BY DEF Trees
  <2> QED
    BY <2>1 DEF ToSet
<1>3. \A D \in S : Grow(k, D) \in S
  BY <1>2 DEF Grow
<1>4. f \in [1 .. n -> [S -> S]]
  BY <1>3
<1>5. PICK h \in [0 .. n -> S] : h[0] = {g} /\ \A i \in 1 .. n : h[i] = f[i][h[i - 1]]
  <2>1. {g} \in S
    OBVIOUS
  <2> HIDE DEF S, f
  <2>2. Runs(n, S, {g}, f) # {}
    BY <1>1, <1>4, <2>1, Iterated
  <2> QED
    BY <2>2 DEF Runs
<1>6. \A i \in 1 .. n : h[i] = Grow(k, h[i - 1])
  <2> SUFFICES ASSUME NEW i \in 1 .. n
               PROVE  h[i] = Grow(k, h[i - 1])
    OBVIOUS
  <2>1. i - 1 \in 0 .. n /\ h[i - 1] \in S
    <3>1. i - 1 \in 0 .. n
      BY <1>1
    <3> HIDE DEF S
    <3> QED
      BY <1>5, <3>1
  <2>2. h[i] = f[i][h[i - 1]]
    BY <1>5
  <2> QED
    BY <2>1, <2>2
<1>7. \A i \in 0 .. n : h[i] = IF i = 0 THEN {g}
                               ELSE h[i - 1] \cup UNION {ToSet(k[y]) : y \in h[i - 1]}
  <2>1. \A i \in 0 .. n : i # 0 => i \in 1 .. n
    BY <1>1
  <2> HIDE DEF S
  <2> QED
    BY <1>5, <1>6, <2>1 DEF Grow
<1>8. h = [i \in 0 .. n |-> IF i = 0 THEN {g}
                            ELSE h[i - 1] \cup UNION {ToSet(k[y]) : y \in h[i - 1]}]
  <2> HIDE DEF S
  <2> QED
    BY <1>5, <1>7
<1>9. d = [i \in 0 .. n |-> IF i = 0 THEN {g}
                            ELSE d[i - 1] \cup UNION {ToSet(k[y]) : y \in d[i - 1]}]
  <2> HIDE DEF S
  <2> QED
    BY <1>8
<1>10. Under(k, g) = d[n]
  BY DEF Under
<1> HIDE DEF d
<1>11. d[0] = {g} /\ \A i \in 1 .. n : d[i] = Grow(k, d[i - 1])
  <2>1. 0 \in 0 .. n /\ \A i \in 1 .. n : i \in 0 .. n /\ i # 0
    BY <1>1
  <2> QED
    BY <1>9, <2>1 DEF Grow
<1>12. d \in [0 .. n -> S]
  <2> DEFINE P == {i \in 0 .. n : d[i] \in S}
  <2>1. 0 \in P
    BY <1>1, <1>11
  <2>2. ASSUME NEW i \in 0 .. n - 1, i \in P
        PROVE  i + 1 \in P
    <3>1. i + 1 \in 1 .. n /\ i + 1 \in 0 .. n /\ i + 1 - 1 = i
      BY <1>1
    <3>2. d[i + 1] = Grow(k, d[i])
      BY <1>11, <3>1
    <3> QED
      BY <1>3, <2>2, <3>1, <3>2
  <2>3. \A i \in 0 .. n : i \in P
    <3> HIDE DEF P
    <3> QED
      BY <1>1, <2>1, <2>2, UpTo
  <2>4. DOMAIN d = 0 .. n
    BY <1>9
  <2>5. d = [i \in 0 .. n |-> d[i]]
    BY <1>9
  <2> HIDE DEF S
  <2> QED
    BY <2>3, <2>5
<1> QED
  BY <1>1, <1>10, <1>11, <1>12

\* Under is the least closed set with the node.
LEMMA Below ==
    ASSUME NEW k \in Trees, NEW g \in GNodes
    PROVE  /\ Under(k, g) \in SUBSET GNodes /\ g \in Under(k, g)
           /\ Closed(k, Under(k, g))
           /\ \A C \in SUBSET GNodes : g \in C /\ Closed(k, C) => Under(k, g) \subseteq C
<1> DEFINE N == {y \in GNodes : k[y] # <<>>}
           n == Cardinality(N)
<1>1. n \in Nat
  BY UnderRuns
<1>2. PICK down \in [0 .. n -> SUBSET GNodes] :
        /\ down[0] = {g} /\ \A i \in 1 .. n : down[i] = Grow(k, down[i - 1])
        /\ Under(k, g) = down[n]
  BY UnderRuns
<1>3. IsFiniteSet(N) /\ N \in SUBSET GNodes
  <2>1. N \in SUBSET GNodes
    OBVIOUS
  <2> QED
    BY <2>1, NodesFinite, FS_Subset
<1>4. \A y \in GNodes \ N : ToSet(k[y]) = {}
  BY DEF ToSet
<1> HIDE DEF N
<1>5. \A i \in 0 .. n - 1 : i + 1 \in 1 .. n /\ i \in 0 .. n /\ i + 1 \in 0 .. n /\ i + 1 - 1 = i
  BY <1>1
<1>6. \A i \in 0 .. n - 1 : down[i + 1] = Grow(k, down[i])
  BY <1>2, <1>5
<1>7. \A i \in 0 .. n : down[i] \in SUBSET GNodes
  BY <1>2
<1>8. 0 \in 0 .. n /\ n \in 0 .. n
  BY <1>1
<1>9. ASSUME NEW C \in SUBSET GNodes, g \in C, Closed(k, C)
      PROVE  Under(k, g) \subseteq C
  <2> DEFINE P == {i \in 0 .. n : down[i] \subseteq C}
  <2>1. 0 \in P
    BY <1>2, <1>8, <1>9
  <2>2. ASSUME NEW i \in 0 .. n - 1, i \in P
        PROVE  i + 1 \in P
    BY <1>5, <1>6, <1>9, <2>2 DEF Grow, Closed
  <2>3. \A i \in 0 .. n : i \in P
    <3> HIDE DEF P, n
    <3> QED
      BY <1>1, <2>1, <2>2, UpTo
  <2> QED
    BY <1>2, <1>8, <2>3
<1>10. g \in Under(k, g)
  <2> DEFINE P == {i \in 0 .. n : g \in down[i]}
  <2>1. 0 \in P
    BY <1>2, <1>8
  <2>2. ASSUME NEW i \in 0 .. n - 1, i \in P
        PROVE  i + 1 \in P
    BY <1>5, <1>6, <2>2 DEF Grow
  <2>3. \A i \in 0 .. n : i \in P
    <3> HIDE DEF P, n
    <3> QED
      BY <1>1, <2>1, <2>2, UpTo
  <2> QED
    BY <1>2, <1>8, <2>3
<1>11. \A i \in 0 .. n : IsFiniteSet(N \cap down[i]) /\ Cardinality(N \cap down[i]) \in Nat
  BY <1>3, FS_Subset, FS_CardinalityType, FS_Intersection
<1>12. Closed(k, down[n])
  <2> DEFINE P == {i \in 0 .. n : Closed(k, down[i]) \/ Cardinality(N \cap down[i]) >= i + 1}
  <2>1. 0 \in P
    <3> SUFFICES ASSUME ~Closed(k, down[0])
                 PROVE  Cardinality(N \cap down[0]) >= 0 + 1
      BY <1>8
    <3>1. g \in N
      BY <1>2, <1>4 DEF Closed
    <3>2. N \cap down[0] # {}
      BY <1>2, <3>1
    <3>3. Cardinality(N \cap down[0]) # 0
      BY <1>8, <1>11, <3>2, FS_EmptySet
    <3> HIDE DEF n
    <3>4. Cardinality(N \cap down[0]) \in Nat
      BY <1>8, <1>11
    <3> QED
      BY <3>3, <3>4
  <2>2. ASSUME NEW i \in 0 .. n - 1, i \in P
        PROVE  i + 1 \in P
    <3> SUFFICES ASSUME ~Closed(k, down[i + 1])
                 PROVE  Cardinality(N \cap down[i + 1]) >= i + 1 + 1
      BY <1>5
    <3>1. down[i + 1] = Grow(k, down[i]) /\ down[i] \in SUBSET GNodes
      BY <1>5, <1>6, <1>7
    <3>2. ~Closed(k, down[i])
      BY <3>1 DEF Closed, Grow
    <3>3. Cardinality(N \cap down[i]) >= i + 1
      BY <2>2, <3>2
    <3>4. PICK y \in down[i + 1] : ~(ToSet(k[y]) \subseteq down[i + 1])
      BY DEF Closed
    <3>5. y \in GNodes
      BY <1>5, <1>7
    <3>6. y \in N /\ y \notin down[i]
      BY <1>4, <3>1, <3>4, <3>5 DEF Grow
    <3>7. N \cap down[i] \subseteq N \cap down[i + 1] /\ N \cap down[i] # N \cap down[i + 1]
      BY <3>1, <3>6 DEF Grow
    <3> DEFINE A == N \cap down[i]
               B == N \cap down[i + 1]
    <3>8. IsFiniteSet(B) /\ Cardinality(A) \in Nat /\ Cardinality(B) \in Nat
      BY <1>5, <1>11
    <3>9. Cardinality(A) <= Cardinality(B) /\ Cardinality(A) # Cardinality(B)
      <4> HIDE DEF A, B
      <4>1. A \in SUBSET B /\ A # B
        BY <3>7 DEF A, B
      <4> QED
        BY <3>8, <4>1, FS_Subset
    <3> HIDE DEF n
    <3> QED
      BY <3>3, <3>8, <3>9
  <2>3. \A i \in 0 .. n : i \in P
    <3> HIDE DEF P, n
    <3> QED
      BY <1>1, <2>1, <2>2, UpTo
  <2> SUFFICES ASSUME Cardinality(N \cap down[n]) >= n + 1
               PROVE  FALSE
    BY <1>8, <2>3
  <2>4. Cardinality(N \cap down[n]) <= n
    <3>1. N \cap down[n] \in SUBSET N
      OBVIOUS
    <3> QED
      BY <1>3, <3>1, FS_Subset
  <2> HIDE DEF n
  <2>5. Cardinality(N \cap down[n]) \in Nat
    BY <1>8, <1>11
  <2> QED
    BY <1>1, <2>4, <2>5
<1> QED
  BY <1>2, <1>7, <1>8, <1>9, <1>10, <1>12

\* The Godot nodes are different.
LEMMA Names ==
    /\ Top \in GNodes /\ ScenePlayer \in GNodes /\ Player \in GNodes
    /\ \A o \in Obj : AV(o) \in GNodes /\ Skeleton(o) \in GNodes /\ Debug(o) \in GNodes
    /\ \A r, c \in Obj : Attachment(r, c) \in GNodes
    /\ \A o, c : AV(o) = AV(c) => o = c
    /\ \A o, c : Skeleton(o) = Skeleton(c) => o = c
    /\ \A o, c : Debug(o) = Debug(c) => o = c
    /\ \A o, c, r, s : Attachment(r, c) = Attachment(s, o) => r = s /\ c = o
    /\ \A o, c : AV(o) # Skeleton(c) /\ AV(o) # Debug(c) /\ Skeleton(o) # Debug(c)
    /\ \A o, c, r : Attachment(r, c) # AV(o) /\ Attachment(r, c) # Skeleton(o)
                    /\ Attachment(r, c) # Debug(o)
    /\ \A g \in {Top, ScenePlayer, Player} :
        \A o, c : g # AV(o) /\ g # Skeleton(o) /\ g # Debug(o) /\ g # Attachment(o, c)
    /\ Top # ScenePlayer /\ Top # Player /\ ScenePlayer # Player
<1>1. /\ Top \in GNodes /\ ScenePlayer \in GNodes /\ Player \in GNodes
      /\ \A o \in Obj : AV(o) \in GNodes /\ Skeleton(o) \in GNodes /\ Debug(o) \in GNodes
  BY DEF GNodes
<1>2. \A r, c \in Obj : Attachment(r, c) \in GNodes
  BY DEF GNodes
<1>3. /\ \A o, c : AV(o) = AV(c) => o = c
      /\ \A o, c : Skeleton(o) = Skeleton(c) => o = c
      /\ \A o, c : Debug(o) = Debug(c) => o = c
      /\ \A o, c, r, s : Attachment(r, c) = Attachment(s, o) => r = s /\ c = o
  BY DEF AV, Skeleton, Debug, Attachment
<1>4. /\ "av" # "skeleton" /\ "av" # "debug" /\ "av" # "attachment" /\ "av" # "container"
      /\ "av" # "_SceneAnimPlayer" /\ "av" # "AnimationPlayer"
      /\ "skeleton" # "debug" /\ "skeleton" # "attachment" /\ "skeleton" # "container"
      /\ "skeleton" # "_SceneAnimPlayer" /\ "skeleton" # "AnimationPlayer"
      /\ "debug" # "attachment" /\ "debug" # "container"
      /\ "debug" # "_SceneAnimPlayer" /\ "debug" # "AnimationPlayer"
      /\ "attachment" # "container"
      /\ "attachment" # "_SceneAnimPlayer" /\ "attachment" # "AnimationPlayer"
      /\ "container" # "_SceneAnimPlayer" /\ "container" # "AnimationPlayer"
      /\ "_SceneAnimPlayer" # "AnimationPlayer"
  OBVIOUS
<1>5. /\ \A o : AV(o)[1] = "av" /\ Skeleton(o)[1] = "skeleton" /\ Debug(o)[1] = "debug"
      /\ \A o, c : Attachment(o, c)[1] = "attachment"
      /\ Top[1] = "container" /\ ScenePlayer[1] = "_SceneAnimPlayer"
      /\ Player[1] = "AnimationPlayer"
  BY DEF AV, Skeleton, Debug, Attachment, Top, ScenePlayer, Player
<1>6. \A o, c : AV(o) # Skeleton(c) /\ AV(o) # Debug(c) /\ Skeleton(o) # Debug(c)
  BY <1>4, <1>5
<1>7. \A o, c, r : Attachment(r, c) # AV(o) /\ Attachment(r, c) # Skeleton(o)
                   /\ Attachment(r, c) # Debug(o)
  BY <1>4, <1>5
<1>8. \A g \in {Top, ScenePlayer, Player} :
        \A o, c : g # AV(o) /\ g # Skeleton(o) /\ g # Debug(o) /\ g # Attachment(o, c)
  BY <1>4, <1>5
<1>9. Top # ScenePlayer /\ Top # Player /\ ScenePlayer # Player
  BY <1>4, <1>5
<1> QED
  BY <1>1, <1>2, <1>3, <1>6, <1>7, <1>8, <1>9

\* A child that is added is the last one of its parent.
LEMMA Adding ==
    ASSUME NEW k \in Trees, NEW p \in GNodes, NEW x \in GNodes
    PROVE  /\ AddChild(k, p, x) \in Trees
           /\ AddChild(k, p, x)[p] = Append(k[p], x)
           /\ \A g \in GNodes : g # p => AddChild(k, p, x)[g] = k[g]
           /\ \A g \in GNodes : ToSet(AddChild(k, p, x)[g])
                                = ToSet(k[g]) \cup (IF g = p THEN {x} ELSE {})
           /\ \A g \in GNodes : ToSet(k[g]) \subseteq GNodes
<1>1. \A g \in GNodes : k[g] \in Seq(GNodes)
  BY DEF Trees
<1>2. Append(k[p], x) \in Seq(GNodes) /\ ToSet(Append(k[p], x)) = ToSet(k[p]) \cup {x}
  BY <1>1, Appended
<1>3. AddChild(k, p, x) \in Trees /\ AddChild(k, p, x)[p] = Append(k[p], x)
      /\ \A g \in GNodes : g # p => AddChild(k, p, x)[g] = k[g]
  BY <1>1, <1>2 DEF AddChild, Trees
<1>4. \A g \in GNodes : ToSet(k[g]) \subseteq GNodes
  BY <1>1 DEF ToSet
<1> QED
  BY <1>2, <1>3, <1>4

-----------------------------------------------------------------------------
(* The scene: every node hangs in one place, and what has a place or a child  *)
(* hangs under the container.                                                *)

Placed(k, g) == \E p \in GNodes : g \in ToSet(k[p])
Once(k) ==
    /\ k \in Trees
    /\ \A p \in GNodes : IsInjective(k[p])
    /\ \A p, q \in GNodes : \A x : x \in ToSet(k[p]) /\ x \in ToSet(k[q]) => p = q
Rooted(k) ==
    /\ ~Placed(k, Top)
    /\ \A g \in GNodes : k[g] # <<>> \/ Placed(k, g) => g \in Under(k, Top)
Tree(k) == Once(k) /\ Rooted(k)

\* What is in a scene but the container has a place.
LEMMA InPlace ==
    ASSUME NEW k \in Trees, NEW g \in GNodes, NEW x \in Under(k, g)
    PROVE  x \in GNodes /\ (x = g \/ Placed(k, x))
<1> DEFINE C == {y \in GNodes : y = g \/ Placed(k, y)}
<1>1. \A y \in GNodes : ToSet(k[y]) \subseteq GNodes
  BY Adding
<1>2. Closed(k, C)
  BY <1>1 DEF Closed, Placed
<1>3. C \in SUBSET GNodes /\ g \in C
  OBVIOUS
<1>4. Under(k, g) \subseteq C
  <2> HIDE DEF C
  <2> QED
    BY <1>2, <1>3, Below
<1> QED
  BY <1>4

\* A new node is added to the scene.
TreeAdded(k, p, x, l) ==
    /\ Tree(l) /\ p \in GNodes /\ k[x] = <<>> /\ x \notin Under(k, Top)
    /\ \A y \in GNodes : Under(l, y) = Under(k, y) \cup (IF p \in Under(k, y) THEN {x} ELSE {})
    /\ \A y \in GNodes : y # x => GParents(l, y) = GParents(k, y)
    /\ GParents(l, x) = {p}
    /\ \A y : Placed(l, y) <=> Placed(k, y) \/ y = x

LEMMA AddedTree ==
    ASSUME NEW k, Tree(k), NEW p \in Under(k, Top), NEW x \in GNodes, x # Top, ~Placed(k, x)
    PROVE  TreeAdded(k, p, x, AddChild(k, p, x))
<1> DEFINE l == AddChild(k, p, x)
<1>1. k \in Trees /\ Top \in GNodes
  BY Names DEF Tree, Once
<1>2. p \in GNodes
  BY <1>1, Below
<1>3. l \in Trees /\ l[p] = Append(k[p], x) /\ \A g \in GNodes : g # p => l[g] = k[g]
  <2>1. l \in Trees
    BY <1>1, <1>2, Adding
  <2>2. l[p] = Append(k[p], x)
    BY <1>1, <1>2, Adding
  <2>3. \A g \in GNodes : g # p => l[g] = k[g]
    BY <1>1, <1>2, Adding
  <2> QED
    BY <2>1, <2>2, <2>3
<1>4. \A g \in GNodes : ToSet(l[g]) = ToSet(k[g]) \cup (IF g = p THEN {x} ELSE {})
  <2>1. k[p] \in Seq(GNodes)
    BY <1>1, <1>2 DEF Trees
  <2>2. ToSet(Append(k[p], x)) = ToSet(k[p]) \cup {x}
    BY <2>1, Appended
  <2> HIDE DEF l
  <2>3. ToSet(l[p]) = ToSet(k[p]) \cup {x}
    BY <1>3, <2>2
  <2> QED
    BY <1>3, <2>3
<1>5. x \notin Under(k, Top)
  BY <1>1, InPlace
<1>6. k[x] = <<>>
  BY <1>5 DEF Tree, Rooted
<1> HIDE DEF l
<1>7. ToSet(k[x]) = {} /\ x # p
  BY <1>5, <1>6 DEF ToSet
<1>8. \A y : Placed(l, y) <=> Placed(k, y) \/ y = x
  <2>1. ASSUME NEW y, Placed(l, y)
        PROVE  Placed(k, y) \/ y = x
    <3>1. PICK g \in GNodes : y \in ToSet(l[g])
      BY <2>1 DEF Placed
    <3>2. y \in ToSet(k[g]) \/ y = x
      BY <1>4, <3>1
    <3> QED
      BY <3>2 DEF Placed
  <2>2. ASSUME NEW y, Placed(k, y)
        PROVE  Placed(l, y)
    <3>1. PICK g \in GNodes : y \in ToSet(k[g])
      BY <2>2 DEF Placed
    <3>2. y \in ToSet(l[g])
      BY <1>4, <3>1
    <3> QED
      BY <3>2 DEF Placed
  <2>3. x \in ToSet(l[p])
    BY <1>2, <1>4
  <2>4. Placed(l, x)
    BY <1>2, <2>3 DEF Placed
  <2> QED
    BY <2>1, <2>2, <2>4
<1>9. \A y \in GNodes : y # x => GParents(l, y) = GParents(k, y)
  <2>1. \A g \in GNodes : \A y \in GNodes : y # x => (y \in ToSet(l[g]) <=> y \in ToSet(k[g]))
    BY <1>4
  <2> QED
    BY <2>1 DEF GParents
<1>10. GParents(l, x) = {p}
  <2>1. \A g \in GNodes : x \in ToSet(l[g]) <=> g = p
    BY <1>2, <1>4 DEF Placed
  <2> QED
    BY <1>2, <2>1 DEF GParents
<1>11. Once(l)
  <2>1. \A g \in GNodes : IsInjective(l[g])
    <3>1. IsInjective(Append(k[p], x))
      <4>1. k[p] \in Seq(GNodes) /\ IsInjective(k[p]) /\ x \notin ToSet(k[p])
        BY <1>1, <1>2 DEF Tree, Once, Trees, Placed
      <4> QED
        BY <4>1, Appended
    <3> QED
      BY <1>3, <3>1 DEF Tree, Once
  <2>2. \A a, b \in GNodes : \A y : y \in ToSet(l[a]) /\ y \in ToSet(l[b]) => a = b
    BY <1>4 DEF Tree, Once, Placed
  <2> QED
    BY <1>3, <2>1, <2>2 DEF Once
<1>12. ASSUME NEW y \in GNodes
       PROVE  Under(l, y) = Under(k, y) \cup (IF p \in Under(k, y) THEN {x} ELSE {})
  <2> DEFINE U == Under(k, y) \cup (IF p \in Under(k, y) THEN {x} ELSE {})
  <2>1. Under(k, y) \in SUBSET GNodes /\ y \in Under(k, y) /\ Closed(k, Under(k, y))
    BY <1>1, Below
  <2>2. Closed(l, U)
    BY <1>4, <1>7, <2>1 DEF Closed
  <2>3. U \in SUBSET GNodes /\ y \in U
    BY <2>1
  <2>4. Under(l, y) \subseteq U
    <3> HIDE DEF U
    <3> QED
      BY <1>3, <2>2, <2>3, Below
  <2>5. Under(l, y) \in SUBSET GNodes /\ y \in Under(l, y) /\ Closed(l, Under(l, y))
    BY <1>3, Below
  <2>6. Closed(k, Under(l, y))
    BY <1>4, <2>5 DEF Closed
  <2>7. Under(k, y) \subseteq Under(l, y)
    BY <1>1, <2>5, <2>6, Below
  <2>8. p \in Under(k, y) => x \in Under(l, y)
    BY <1>2, <1>4, <2>5, <2>7 DEF Closed
  <2> QED
    BY <2>4, <2>7, <2>8
<1>13. Rooted(l)
  <2>1. ~Placed(l, Top)
    BY <1>8 DEF Tree, Rooted
  <2>2. ASSUME NEW g \in GNodes, l[g] # <<>> \/ Placed(l, g)
        PROVE  g \in Under(l, Top)
    <3>1. Under(l, Top) = Under(k, Top) \cup {x}
      BY <1>1, <1>12
    <3>2. l[g] # <<>> => k[g] # <<>> \/ g = p
      BY <1>3
    <3> QED
      BY <1>8, <2>2, <3>1, <3>2 DEF Tree, Rooted
  <2> QED
    BY <2>1, <2>2 DEF Rooted
<1> QED
  BY <1>2, <1>5, <1>6, <1>8, <1>9, <1>10, <1>11, <1>12, <1>13 DEF l, Tree, TreeAdded

\* What k is when x has been moved to p.
Moved(k, p, x, m) ==
    /\ m \in Trees
    /\ \A g \in GNodes : IsInjective(m[g])
    /\ \A g \in GNodes : g # p => ToSet(m[g]) = ToSet(k[g]) \ {x}
    /\ ToSet(m[p]) = (ToSet(k[p]) \ {x}) \cup {x}
    /\ \A g \in GNodes : g # p /\ x \notin ToSet(k[g]) => m[g] = k[g]
    /\ \A g \in GNodes : g # p /\ k[g] # <<>> /\ Last(k[g]) # x
        => m[g] # <<>> /\ Last(m[g]) = Last(k[g])

\* A child that is moved is taken from its parent and the last one of another.
LEMMA Moving ==
    ASSUME NEW k, Once(k), NEW p \in GNodes, NEW x \in GNodes
    PROVE  Moved(k, p, x, Move(k, p, x))
<1> DEFINE r == RemoveChild(k, x)
           m == Move(k, p, x)
<1>1. \A g \in GNodes : k[g] \in Seq(GNodes) /\ IsInjective(k[g])
  BY DEF Once, Trees
<1>2. \A g \in GNodes : r[g] = Without(k[g], x)
  BY DEF RemoveChild
<1>3. DOMAIN r = GNodes
  BY DEF RemoveChild
<1>4. \A g \in GNodes : Without(k[g], x) \in Seq(GNodes) /\ IsInjective(Without(k[g], x))
  BY <1>1, WithoutIs
<1>5. \A g \in GNodes : ToSet(Without(k[g], x)) = ToSet(k[g]) \ {x}
  BY <1>1, WithoutIs
<1>6. \A g \in GNodes : x \notin ToSet(k[g]) => Without(k[g], x) = k[g]
  BY <1>1, WithoutIs
<1>7. \A g \in GNodes : k[g] # <<>> /\ Last(k[g]) # x
        => Without(k[g], x) # <<>> /\ Last(Without(k[g], x)) = Last(k[g])
  BY <1>1, WithoutIs
<1>8. r \in Trees
  <2>1. r = [g \in GNodes |-> Without(k[g], x)]
    BY DEF RemoveChild
  <2> QED
    BY <1>4, <2>1 DEF Trees
<1>9. m = AddChild(r, p, x)
  BY DEF Move
<1> HIDE DEF r, m
<1>10. m \in Trees
  BY <1>8, <1>9, Adding
<1>11. m[p] = Append(r[p], x)
  BY <1>8, <1>9, Adding
<1>12. \A g \in GNodes : g # p => m[g] = r[g]
  BY <1>9 DEF AddChild
<1>13. r[p] \in Seq(GNodes) /\ IsInjective(r[p]) /\ ToSet(r[p]) = ToSet(k[p]) \ {x}
  BY <1>2, <1>4, <1>5
<1>14. IsInjective(Append(r[p], x))
  BY <1>13, Appended
<1>15. ToSet(Append(r[p], x)) = ToSet(r[p]) \cup {x}
  BY <1>13, Appended
<1>16. \A g \in GNodes : IsInjective(m[g])
  BY <1>2, <1>4, <1>11, <1>12, <1>14
<1>17. \A g \in GNodes : g # p => ToSet(m[g]) = ToSet(k[g]) \ {x}
  BY <1>2, <1>5, <1>12
<1>18. ToSet(m[p]) = (ToSet(k[p]) \ {x}) \cup {x}
  BY <1>11, <1>13, <1>15
<1>19. \A g \in GNodes : g # p /\ x \notin ToSet(k[g]) => m[g] = k[g]
  BY <1>2, <1>6, <1>12
<1>20. \A g \in GNodes : g # p /\ k[g] # <<>> /\ Last(k[g]) # x
        => m[g] # <<>> /\ Last(m[g]) = Last(k[g])
  BY <1>2, <1>7, <1>12
<1>21. Moved(k, p, x, m)
  BY <1>10, <1>16, <1>17, <1>18, <1>19, <1>20 DEF Moved
<1> QED
  BY <1>21 DEF m

TreeMoved(k, p, x, m) ==
    /\ Tree(m) /\ p \in GNodes /\ x \in GNodes
    /\ Under(m, Top) = Under(k, Top)
    /\ \A y \in GNodes : \A z \in Under(k, y) : z \notin Under(k, x) => z \in Under(m, y)
    /\ \A y \in GNodes : y # x => GParents(m, y) = GParents(k, y)
    /\ GParents(m, x) = {p}
    /\ \A y : Placed(m, y) <=> Placed(k, y)

\* A node of the scene is moved to another, not to one below it.
LEMMA MovedTree ==
    ASSUME NEW k, Tree(k), NEW x \in Under(k, Top), x # Top,
           NEW p \in Under(k, Top), p \notin Under(k, x)
    PROVE  TreeMoved(k, p, x, Move(k, p, x))
<1> DEFINE m == Move(k, p, x)
           B == Under(k, x)
<1>1. k \in Trees /\ Top \in GNodes /\ Once(k)
  BY Names DEF Tree, Once
<1>2. p \in GNodes /\ x \in GNodes
  BY <1>1, Below
<1>3. Moved(k, p, x, m)
  BY <1>1, <1>2, Moving
<1> HIDE DEF m
<1>7. \A g \in GNodes : \A y : y # x => (y \in ToSet(m[g]) <=> y \in ToSet(k[g]))
  BY <1>3 DEF Moved
<1>8. \A g \in GNodes : x \in ToSet(m[g]) <=> g = p
  BY <1>3 DEF Moved
<1>9. PICK q \in GNodes : x \in ToSet(k[q])
  <2> DEFINE T == Top
  <2> HIDE DEF T
  <2>1. T \in GNodes /\ x \in Under(k, T)
    BY <1>1 DEF T
  <2>2. x = T \/ Placed(k, x)
    BY <1>1, <2>1, InPlace
  <2>3. Placed(k, x)
    BY <2>2 DEF T
  <2> QED
    BY <2>3 DEF Placed
<1>10. \A y : Placed(m, y) <=> Placed(k, y)
  <2>1. \A y : y # x => (Placed(m, y) <=> Placed(k, y))
    BY <1>7 DEF Placed
  <2>2. Placed(m, x) /\ Placed(k, x)
    BY <1>2, <1>8, <1>9 DEF Placed
  <2> QED
    BY <2>1, <2>2
<1>11. \A y \in GNodes : y # x => GParents(m, y) = GParents(k, y)
  BY <1>7 DEF GParents
<1>12. GParents(m, x) = {p}
  BY <1>2, <1>8 DEF GParents
<1>13. Once(m)
  <2>1. \A a, b \in GNodes : \A y : y \in ToSet(m[a]) /\ y \in ToSet(m[b]) => a = b
    BY <1>1, <1>7, <1>8 DEF Once
  <2> QED
    BY <1>3, <2>1 DEF Once, Moved
<1>14. B \in SUBSET GNodes /\ x \in B /\ Closed(k, B)
  BY <1>1, <1>2, Below
<1> HIDE DEF B
<1>15. ASSUME NEW y \in GNodes
       PROVE  /\ Under(m, y) \in SUBSET GNodes /\ y \in Under(m, y)
              /\ Closed(m, Under(m, y)) /\ Under(k, y) \subseteq Under(m, y) \cup B
  <2> DEFINE P == Under(m, y)
  <2>1. P \in SUBSET GNodes /\ y \in P /\ Closed(m, P)
    BY <1>3, Below DEF Moved
  <2> HIDE DEF P
  <2>2. Closed(k, P \cup B)
    BY <1>7, <1>14, <2>1 DEF Closed
  <2>3. P \cup B \in SUBSET GNodes /\ y \in P \cup B
    BY <1>14, <2>1
  <2>4. Under(k, y) \subseteq P \cup B
    BY <1>1, <2>2, <2>3, Below
  <2> QED
    BY <2>1, <2>4 DEF P
<1>16. Under(m, Top) = Under(k, Top)
  <2> DEFINE P == Under(m, Top)
             U == Under(k, Top)
  <2>1. P \in SUBSET GNodes /\ Closed(m, P) /\ U \subseteq P \cup B
    BY <1>1, <1>15
  <2>2. U \in SUBSET GNodes /\ Top \in U /\ Closed(k, U) /\ x \in U /\ p \in U
    BY <1>1, Below
  <2>3. P \subseteq U
    <3> HIDE DEF U
    <3>1. Closed(m, U)
      BY <1>7, <2>2 DEF Closed
    <3> QED
      BY <1>3, <2>2, <3>1, Below DEF Moved
  <2> HIDE DEF P, U
  <2>4. p \in P
    BY <2>1, <2>2 DEF B
  <2>5. x \in P
    BY <1>2, <1>8, <2>1, <2>4 DEF Closed
  <2>6. Closed(k, B \cap P)
    BY <1>7, <1>14, <2>1, <2>5 DEF Closed
  <2>7. B \cap P \in SUBSET GNodes /\ x \in B \cap P
    BY <1>14, <2>5
  <2>8. Under(k, x) \subseteq B \cap P
    BY <1>1, <1>2, <2>6, <2>7, Below
  <2>9. U \subseteq P
    BY <2>1, <2>8 DEF B
  <2> QED
    BY <2>3, <2>9 DEF P, U
<1>17. Rooted(m)
  <2>1. ~Placed(m, Top)
    BY <1>10 DEF Tree, Rooted
  <2>2. ASSUME NEW g \in GNodes, m[g] # <<>> \/ Placed(m, g)
        PROVE  g \in Under(k, Top)
    <3>1. CASE Placed(m, g)
      BY <1>10, <3>1 DEF Tree, Rooted
    <3>2. CASE m[g] # <<>> /\ g # p
      <4>1. m[g] \in Seq(GNodes) /\ k[g] \in Seq(GNodes)
        BY <1>1, <1>3 DEF Trees, Moved
      <4>2. 1 \in DOMAIN m[g]
        BY <3>2, <4>1
      <4>3. ToSet(m[g]) # {}
        BY <4>2 DEF ToSet
      <4>4. ToSet(k[g]) # {}
        BY <1>3, <3>2, <4>3 DEF Moved
      <4>5. k[g] # <<>>
        BY <4>4 DEF ToSet
      <4> QED
        BY <4>5 DEF Tree, Rooted
    <3> QED
      BY <2>2, <3>1, <3>2
  <2> QED
    BY <1>16, <2>1, <2>2 DEF Rooted
<1>18. \A y \in GNodes : \A z \in Under(k, y) : z \notin Under(k, x) => z \in Under(m, y)
  BY <1>15 DEF B
<1> QED
  BY <1>2, <1>10, <1>11, <1>12, <1>13, <1>16, <1>17, <1>18 DEF m, Tree, TreeMoved

-----------------------------------------------------------------------------
(* The tree of a file.                                                       *)

\* What is over an object is a chain of numbers, each with its own part of it.
LEMMA Chain ==
    ASSUME NEW f \in Files, NEW o \in Obj, NEW p \in f.over[o]
    PROVE  /\ p \in Obj /\ o \in f.over[o] /\ f.over[o] \in SUBSET Obj
           /\ f.over[p] \subseteq f.over[o] /\ p <= o /\ (p # o => p < o)
           /\ (p # o => f.kind[p] \in NodeKinds)
           /\ \A q \in f.over[o] : p \in f.over[q] \/ q \in f.over[p]
           /\ (o \in f.over[p] => p = o)
<1>1. p \in Obj /\ o \in f.over[o] /\ f.over[o] \in SUBSET Obj
  BY FilesAssumption
<1>2. \A q \in Obj : q \in Nat
  BY FilesAssumption
<1>3. \A q \in f.over[o] : f.over[q] = {w \in f.over[o] : w <= q}
  BY FilesAssumption
<1>4. f.over[o] = {w \in f.over[o] : w <= o}
  BY <1>1, <1>3
<1>5. p <= o /\ p \in Nat /\ o \in Nat
  BY <1>1, <1>2, <1>4
<1>6. \A q \in f.over[o] : q <= p \/ p <= q
  BY <1>1, <1>2
<1>7. o \in f.over[p] => p = o
  BY <1>1, <1>2, <1>3, <1>5
<1>8. p # o => f.kind[p] \in NodeKinds
  BY FilesAssumption
<1> QED
  BY <1>1, <1>3, <1>5, <1>6, <1>7, <1>8

\* An object and its parent.
LEMMA Parents ==
    ASSUME NEW f \in Files, NEW o \in Obj, o # Root
    PROVE  /\ f.up[o] \in Obj /\ f.up[o] \in f.over[o] /\ f.up[o] # o /\ o \notin f.over[f.up[o]]
           /\ f.over[o] = {o} \cup f.over[f.up[o]] /\ Above(f, o) = f.over[f.up[o]]
           /\ f.kind[f.up[o]] \in NodeKinds
<1>1. f.up[o] \in f.over[o] /\ f.over[o] = {o} \cup f.over[f.up[o]] /\ f.up[o] # o
  BY FilesAssumption
<1>2. f.up[o] \in Obj /\ f.kind[f.up[o]] \in NodeKinds /\ (o \in f.over[f.up[o]] => f.up[o] = o)
  BY <1>1, Chain
<1> QED
  BY <1>1, <1>2 DEF Above

\* The root is over all, and nothing is over it.
LEMMA Roots ==
    ASSUME NEW f \in Files
    PROVE  /\ Root \in Obj /\ 0 \notin Obj /\ f.up[Root] = 0 /\ f.kind[Root] \in NodeKinds
           /\ \A o \in Obj : Root \in f.over[o] /\ o \in f.over[o] /\ f.over[o] \in SUBSET Obj
           /\ \A o \in Obj : f.up[o] \in Obj \cup {0}
           /\ \A o \in Obj : o \in Nat
  BY FilesAssumption

\* The children of a node.
LEMMA ChildrenOf ==
    ASSUME NEW f \in Files, NEW n \in Obj
    PROVE  /\ Len(Children(f, n)) \in Nat
           /\ DOMAIN Children(f, n) = 1 .. Len(Children(f, n))
           /\ \A i \in DOMAIN Children(f, n) :
                /\ Children(f, n)[i] \in Obj /\ f.up[Children(f, n)[i]] = n
                /\ Children(f, n)[i] # Root
           /\ \A i, j \in DOMAIN Children(f, n) : Children(f, n)[i] = Children(f, n)[j] => i = j
           /\ \A c \in Obj : f.up[c] = n => \E i \in DOMAIN Children(f, n) : Children(f, n)[i] = c
<1> DEFINE S == {o \in Obj : f.up[o] = n}
           cs == InOrder(S)
<1>1. S \in SUBSET Nat /\ IsFiniteSet(S) /\ S \in SUBSET Obj
  <2>1. S \in SUBSET Obj /\ IsFiniteSet(Obj) /\ Obj \subseteq Nat
    BY FilesAssumption
  <2> HIDE DEF S
  <2>2. IsFiniteSet(S)
    BY <2>1, FS_Subset
  <2> QED
    BY <2>1, <2>2
<1> HIDE DEF S
<1>2. Cardinality(S) \in Nat /\ DOMAIN cs = 1 .. Cardinality(S)
  BY <1>1, OrderOf
<1>3. \A i \in DOMAIN cs : cs[i] \in S /\ Rank(S, cs[i]) = i
  <2>1. \A i \in 1 .. Cardinality(S) : cs[i] \in S /\ Rank(S, cs[i]) = i
    BY <1>1, OrderOf
  <2> HIDE DEF cs
  <2> QED
    BY <1>2, <2>1
<1>4. \A c \in S : Rank(S, c) \in DOMAIN cs /\ cs[Rank(S, c)] = c
  BY <1>1, OrderAt
<1>5. cs = [k \in 1 .. Cardinality(S) |-> cs[k]]
  BY SMTT(20) DEF InOrder
<1> HIDE DEF cs
<1>6. Len(cs) = Cardinality(S)
  BY <1>2, <1>5
<1>7. Children(f, n) = cs
  BY DEF Children, cs, S
<1>8. \A i \in DOMAIN cs : cs[i] \in Obj /\ f.up[cs[i]] = n
  BY <1>3 DEF S
<1>9. \A i \in DOMAIN cs : cs[i] # Root
  <2>1. f.up[Root] = 0 /\ 0 \notin Obj
    BY Roots
  <2> QED
    BY <1>8, <2>1
<1>10. \A i, j \in DOMAIN cs : cs[i] = cs[j] => i = j
  BY <1>3
<1>11. \A c \in Obj : f.up[c] = n => \E i \in DOMAIN cs : cs[i] = c
  BY <1>4 DEF S
<1> QED
  BY <1>2, <1>6, <1>7, <1>8, <1>9, <1>10, <1>11

\* The lowest of some objects over one another.
LEMMA LowestIs ==
    ASSUME NEW f \in Files, NEW o \in Obj, NEW S \in SUBSET f.over[o], S # {}
    PROVE  Lowest(f, S) \in S /\ S \subseteq f.over[Lowest(f, S)]
<1>1. S \in SUBSET Nat /\ IsFiniteSet(S)
  <2>1. f.over[o] \in SUBSET Obj /\ IsFiniteSet(Obj) /\ Obj \subseteq Nat
    BY FilesAssumption
  <2> QED
    BY <2>1, FS_Subset
<1>2. PICK c \in S : \A e \in S : e <= c
  BY <1>1, Greatest
<1>3. S \subseteq f.over[c]
  <2>1. f.over[c] = {q \in f.over[o] : q <= c}
    BY FilesAssumption
  <2> QED
    BY <1>2, <2>1
<1> QED
  BY <1>3 DEF Lowest

\* The nearest of some objects above another, if there is one.
LEMMA NearestIs ==
    ASSUME NEW f \in Files, NEW o \in Obj, NEW S
    PROVE  /\ Nearest(f, o, S) \in Above(f, o) \cup {0}
           /\ Nearest(f, o, S) \in Obj => Nearest(f, o, S) \in S
<1>1. Above(f, o) \in SUBSET Obj /\ 0 \notin Obj /\ Above(f, o) \in SUBSET f.over[o]
  BY Roots DEF Above
<1>2. CASE Met(f, o, S)
  <2> DEFINE T == S \cap Above(f, o)
  <2>1. T \in SUBSET f.over[o] /\ T # {}
    BY <1>1, <1>2 DEF Met
  <2> HIDE DEF T
  <2>2. Lowest(f, T) \in T
    BY <2>1, LowestIs
  <2>3. Nearest(f, o, S) = Lowest(f, T)
    BY <1>2 DEF Nearest, T
  <2> QED
    BY <2>2, <2>3 DEF T
<1>3. CASE ~Met(f, o, S)
  BY <1>1, <1>3 DEF Nearest
<1> QED
  BY <1>2, <1>3

\* The common ancestor of two objects is over both.
LEMMA Common ==
    ASSUME NEW f \in Files, NEW a \in Obj, NEW b \in Obj
    PROVE  /\ CommonAncestor(f, a, b) \in f.over[a] \cap f.over[b]
           /\ f.over[a] \cap f.over[b] \subseteq f.over[CommonAncestor(f, a, b)]
<1> DEFINE T == f.over[a] \cap f.over[b]
<1>1. T \in SUBSET f.over[a] /\ Root \in T
  BY Roots
<1> HIDE DEF T
<1>2. Lowest(f, T) \in T /\ T \subseteq f.over[Lowest(f, T)]
  BY <1>1, LowestIs
<1> QED
  BY <1>2 DEF CommonAncestor, T

-----------------------------------------------------------------------------
(* The types of the state, and the calls of the traversal.                   *)

Distinct == {s \in Seq(Obj) : IsInjective(s)}
Modes == {"node", "lod", "switch", "billboard"}
FrameType == [node : Obj, mode : Modes, next : Nat \ {0}]
SkelType(s) ==
    [host : Obj, bones : Seq(Obj), link : {s.link},
     binds : Nat, meshes : Nat, first : Nat, alike : BOOLEAN, mismatches : Nat,
     correction : Int, consistent : BOOLEAN]

\* The bones of s are a forest of the file, and its Skin binds them all.
Fits(s) ==
    /\ s.bones \in Distinct
    /\ s.link \in [ToSet(s.bones) -> Obj \cup {0}]
    /\ \A b \in ToSet(s.bones) : s.link[b] \in Above(file, b) \cup {0}
    /\ s.binds = Len(s.bones)

MeshType == [on : Obj \cup {0}, weights : SUBSET Nat, binds : Nat]

Early == {"walk", "attach", "done", "thrown"}
Types ==
    /\ file \in Files
    /\ phase \in Early
    /\ stack \in Seq(FrameType)
    /\ kids \in Trees
    /\ DOMAIN skel \subseteq Obj
    /\ \A r \in DOMAIN skel : skel[r] \in SkelType(skel[r]) /\ Fits(skel[r])
    /\ reparented \subseteq DOMAIN skel
    /\ attached \in Seq(Obj)
    /\ ToSet(attached) \subseteq DOMAIN skel
    /\ turned \subseteq DOMAIN skel
    /\ mesh \in [Obj -> MeshType]
    /\ \A o \in Obj : mesh[o].on \in DOMAIN skel \cup {0}

\* The child a call stands at.
LEMMA ChildIs ==
    ASSUME Types, stack # <<>>, Pending
    PROVE  /\ top \in FrameType /\ top = stack[1] /\ 1 \in DOMAIN stack
           /\ top.node \in Obj /\ top.next \in DOMAIN Children(file, top.node)
           /\ child = Children(file, top.node)[top.next]
           /\ child \in Obj /\ file.up[child] = top.node /\ child # Root
<1>1. stack \in Seq(FrameType) /\ file \in Files
  BY DEF Types
<1>2. top = stack[1] /\ 1 \in DOMAIN stack /\ stack[1] \in FrameType
  BY <1>1 DEF top
<1>3. top.node \in Obj /\ top.next \in Nat \ {0}
  BY <1>2 DEF FrameType
<1> DEFINE cs == Children(file, top.node)
           n == top.node
<1>4. Len(cs) \in Nat /\ DOMAIN cs = 1 .. Len(cs)
  BY <1>1, <1>3, ChildrenOf
<1>5. \A i \in DOMAIN cs : cs[i] \in Obj /\ file.up[cs[i]] = n /\ cs[i] # Root
  <2> HIDE DEF n
  <2> QED
    BY <1>1, <1>3, ChildrenOf DEF n
<1>6. top.next \in DOMAIN cs
  BY <1>3, <1>4 DEF Pending
<1>7. child = cs[top.next]
  BY DEF child
<1> HIDE DEF cs
<1>8. child \in Obj /\ file.up[child] = top.node /\ child # Root
  BY <1>5, <1>6, <1>7
<1> QED
  BY <1>2, <1>3, <1>6, <1>7, <1>8 DEF cs

-----------------------------------------------------------------------------
(* The bones of a skeleton.                                                  *)

\* Two sequences of different objects that share none.
LEMMA JoinedDistinct ==
    ASSUME NEW a \in Distinct, NEW b \in Distinct, ToSet(a) \cap ToSet(b) = {}
    PROVE  a \o b \in Distinct /\ ToSet(a \o b) = ToSet(a) \cup ToSet(b)
<1>1. a \in Seq(Obj) /\ b \in Seq(Obj) /\ IsInjective(a) /\ IsInjective(b)
  BY DEF Distinct
<1>2. a \o b \in Seq(Obj) /\ Len(a \o b) = Len(a) + Len(b) /\ Len(a) \in Nat /\ Len(b) \in Nat
  BY <1>1, Joined
<1>3. \A k \in 1 .. Len(a) : (a \o b)[k] = a[k]
  BY <1>1, Joined
<1>4. \A k \in 1 .. Len(b) : (a \o b)[Len(a) + k] = b[k]
  BY <1>1, Joined
<1>5. ToSet(a \o b) = ToSet(a) \cup ToSet(b)
  BY <1>1, Joined
<1>6. DOMAIN a = 1 .. Len(a) /\ DOMAIN b = 1 .. Len(b) /\ DOMAIN (a \o b) = 1 .. Len(a) + Len(b)
  BY <1>1, <1>2
<1> DEFINE c == a \o b
           m == Len(a)
           n == Len(b)
<1>7. \A k \in 1 .. m + n : \/ k \in 1 .. m /\ c[k] = a[k]
                            \/ k - m \in 1 .. n /\ c[k] = b[k - m]
  <2> SUFFICES ASSUME NEW k \in 1 .. m + n, k \notin 1 .. m
               PROVE  k - m \in 1 .. n /\ c[k] = b[k - m]
    BY <1>3
  <2> DEFINE j == k - m
  <2>1. j \in 1 .. n /\ m + j = k
    BY <1>2
  <2> HIDE DEF j
  <2>2. c[m + j] = b[j]
    BY <1>4, <2>1
  <2> QED
    BY <2>1, <2>2 DEF j
<1>8. \A k \in 1 .. m : \A l \in 1 .. n : a[k] # b[l]
  BY <1>6 DEF ToSet
<1> HIDE DEF c, m, n
<1>9. m \in Nat /\ n \in Nat
  BY <1>2 DEF m, n
<1>10. \A k, l \in 1 .. m : a[k] = a[l] => k = l
  BY <1>1, <1>6 DEF IsInjective, m
<1>11. \A k, l \in 1 .. n : b[k] = b[l] => k = l
  BY <1>1, <1>6 DEF IsInjective, n
<1>12. \A k, l \in 1 .. m + n : c[k] = c[l] => k = l
  <2> SUFFICES ASSUME NEW k \in 1 .. m + n, NEW l \in 1 .. m + n, c[k] = c[l]
               PROVE  k = l
    OBVIOUS
  <2>1. CASE k \in 1 .. m /\ c[k] = a[k]
    BY <1>7, <1>8, <1>10, <2>1
  <2>2. CASE k - m \in 1 .. n /\ c[k] = b[k - m]
    <3>1. l - m \in 1 .. n /\ c[l] = b[l - m]
      BY <1>7, <1>8, <2>2
    <3>2. k - m = l - m
      BY <1>11, <2>2, <3>1
    <3> QED
      BY <1>9, <3>2
  <2> QED
    BY <1>7, <2>1, <2>2
<1>13. IsInjective(c)
  BY <1>6, <1>12 DEF IsInjective, c, m, n
<1> QED
  BY <1>2, <1>5, <1>13 DEF Distinct, c

\* The same objects from the last to the first.
LEMMA Reversed ==
    ASSUME NEW s \in Distinct
    PROVE  Reverse(s) \in Distinct /\ ToSet(Reverse(s)) = ToSet(s)
<1> DEFINE n == Len(s)
           r == Reverse(s)
<1>1. s \in Seq(Obj) /\ IsInjective(s) /\ n \in Nat /\ DOMAIN s = 1 .. n
  BY DEF Distinct
<1>2. r = [i \in 1 .. n |-> s[(n - i) + 1]]
  BY DEF Reverse
<1> HIDE DEF n, r
<1>3. \A i \in 1 .. n : (n - i) + 1 \in 1 .. n /\ (n - ((n - i) + 1)) + 1 = i
  BY <1>1
<1>4. \A i \in 1 .. n : s[i] \in Obj
  BY <1>1
<1>5. \A i \in 1 .. n : s[(n - i) + 1] \in Obj
  <2> TAKE i \in 1 .. n
  <2> DEFINE j == (n - i) + 1
  <2>1. j \in 1 .. n
    BY <1>3
  <2> HIDE DEF j
  <2>2. s[j] \in Obj
    BY <1>4, <2>1
  <2> QED
    BY <2>2 DEF j
<1>6. r \in [1 .. n -> Obj]
  BY <1>2, <1>5
<1>7. r \in Seq(Obj)
  BY <1>1, <1>6
<1>8. IsInjective(r)
  <2>1. \A i, j \in 1 .. n : s[i] = s[j] => i = j
    BY <1>1 DEF IsInjective
  <2> SUFFICES ASSUME NEW i \in 1 .. n, NEW j \in 1 .. n, r[i] = r[j]
               PROVE  i = j
    BY <1>6 DEF IsInjective
  <2>2. (n - i) + 1 = (n - j) + 1
    BY <1>2, <1>3, <2>1
  <2> QED
    BY <1>1, <2>2
<1>9. ToSet(r) \subseteq ToSet(s)
  BY <1>1, <1>2, <1>3 DEF ToSet
<1>10. ToSet(s) \subseteq ToSet(r)
  <2> SUFFICES ASSUME NEW i \in 1 .. n
               PROVE  s[i] \in ToSet(r)
    BY <1>1 DEF ToSet
  <2> DEFINE j == (n - i) + 1
  <2>1. j \in 1 .. n /\ (n - j) + 1 = i
    BY <1>3
  <2> HIDE DEF j
  <2>2. r[j] = s[i]
    BY <1>2, <2>1
  <2> QED
    BY <1>2, <2>1, <2>2 DEF ToSet
<1> QED
  BY <1>7, <1>8, <1>9, <1>10 DEF Distinct, r

\* Objects in their order, and in the opposite one.
LEMMA Ordered ==
    ASSUME NEW S \in SUBSET Obj
    PROVE  /\ Downwards(S) \in Distinct /\ ToSet(Downwards(S)) = S
           /\ Upwards(S) \in Distinct /\ ToSet(Upwards(S)) = S
<1>1. S \in SUBSET Nat /\ IsFiniteSet(S)
  <2>1. IsFiniteSet(Obj) /\ Obj \subseteq Nat
    BY FilesAssumption
  <2> QED
    BY <2>1, FS_Subset
<1> DEFINE n == Cardinality(S)
           s == InOrder(S)
<1>2. n \in Nat /\ DOMAIN s = 1 .. n
  BY <1>1, OrderOf
<1>3. \A i \in 1 .. n : s[i] \in S /\ Rank(S, s[i]) = i
  BY <1>1, OrderOf
<1>4. \A c \in S : Rank(S, c) \in 1 .. n /\ s[Rank(S, c)] = c
  BY <1>1, <1>2, OrderAt
<1>5. s = [i \in 1 .. n |-> s[i]]
  <2> DEFINE e(k) == CHOOSE x \in S : Cardinality({m \in S : m <= x}) = k
  <2>1. s = [k \in 1 .. n |-> e(k)]
    BY DEF InOrder
  <2> HIDE DEF e, n, s
  <2> QED
    BY <2>1
<1> HIDE DEF n, s
<1>6. s \in [1 .. n -> Obj]
  <2>1. \A i \in 1 .. n : s[i] \in Obj
    BY <1>3
  <2> QED
    BY <1>5, <2>1
<1>7. s \in Seq(Obj)
  BY <1>2, <1>6
<1>8. IsInjective(s)
  BY <1>2, <1>3 DEF IsInjective
<1>9. ToSet(s) = S
  BY <1>2, <1>3, <1>4 DEF ToSet
<1>10. s \in Distinct
  BY <1>7, <1>8 DEF Distinct
<1> QED
  BY <1>9, <1>10, Reversed DEF Downwards, Upwards, s

\* The nodes passed on a walk up are no stops.
LEMMA WalkPasses ==
    ASSUME NEW f \in Files, NEW o \in Obj, NEW stops
    PROVE  Walk(f, o, stops) \in SUBSET Obj /\ Walk(f, o, stops) \cap stops = {}
<1>1. Above(f, o) \in SUBSET Obj
  BY Roots DEF Above
<1>2. \A w \in Above(f, o) : w \in f.over[w]
  BY <1>1, Roots
<1> QED
  BY <1>1, <1>2 DEF Walk

\* build_skeleton adds each node once, to the bones of the skin.
LEMMA BuiltIs ==
    ASSUME NEW f \in Files, NEW o \in Obj, f.skin[o] # NoSkin, NEW host
    PROVE  /\ BuiltBones(f, f.skin[o], host) \in Distinct
           /\ ToSet(f.skin[o].bones) \subseteq ToSet(BuiltBones(f, f.skin[o], host))
<1> DEFINE skin == f.skin[o]
           n == Len(skin.bones)
           more(i, s) == Upwards(Candidates(f, skin.bones[i], ToSet(s), skin.root, host))
           d == CHOOSE d : d = [i \in 0 .. n |->
                    IF i = 0 THEN skin.bones ELSE d[i - 1] \o more(i, d[i - 1])]
<1>1. skin.bones \in Distinct /\ n \in Nat /\ \A i \in 1 .. n : skin.bones[i] \in Obj
  <2>1. skin.bones \in Seq(Obj) /\ IsInjective(skin.bones)
    BY FilesAssumption
  <2> HIDE DEF skin
  <2> QED
    BY <2>1 DEF Distinct
<1>2. BuiltBones(f, skin, host) = d[n]
  BY DEF BuiltBones
<1> HIDE DEF skin
<1>3. ASSUME NEW i \in 1 .. n, NEW s \in Distinct
      PROVE  s \o more(i, s) \in Distinct /\ ToSet(s) \subseteq ToSet(s \o more(i, s))
  <2> DEFINE C == Candidates(f, skin.bones[i], ToSet(s), skin.root, host)
             stops == ToSet(s) \cup {skin.root, host}
  <2>1. Walk(f, skin.bones[i], stops) \in SUBSET Obj /\ Walk(f, skin.bones[i], stops) \cap stops = {}
    <3> HIDE DEF stops
    <3> QED
      BY <1>1, WalkPasses
  <2>2. C = {} \/ C = Walk(f, skin.bones[i], stops)
    BY DEF Candidates
  <2>3. C \in SUBSET Obj /\ C \cap ToSet(s) = {}
    BY <2>1, <2>2
  <2> HIDE DEF C
  <2>4. Upwards(C) \in Distinct /\ ToSet(Upwards(C)) = C
    BY <2>3, Ordered
  <2>5. s \o Upwards(C) \in Distinct /\ ToSet(s \o Upwards(C)) = ToSet(s) \cup ToSet(Upwards(C))
    BY <2>3, <2>4, JoinedDistinct
  <2> QED
    BY <2>5 DEF C
<1> DEFINE g == [i \in 1 .. n |-> [s \in Distinct |-> s \o more(i, s)]]
<1> HIDE DEF more
<1>4. g \in [1 .. n -> [Distinct -> Distinct]]
  BY <1>3
<1>5. PICK h \in [0 .. n -> Distinct] :
        h[0] = skin.bones /\ \A i \in 1 .. n : h[i] = g[i][h[i - 1]]
  <2> HIDE DEF g, n
  <2>1. Runs(n, Distinct, skin.bones, g) # {}
    BY <1>1, <1>4, Iterated
  <2> QED
    BY <2>1 DEF Runs
<1> HIDE DEF n
<1>6. \A i \in 1 .. n : i - 1 \in 0 .. n
  BY <1>1
<1>7. \A i \in 1 .. n : h[i] = h[i - 1] \o more(i, h[i - 1])
  BY <1>5, <1>6
<1>8. \A i \in 0 .. n : h[i] = IF i = 0 THEN skin.bones ELSE h[i - 1] \o more(i, h[i - 1])
  <2>1. \A i \in 0 .. n : i # 0 => i \in 1 .. n
    BY <1>1
  <2> QED
    BY <1>5, <1>7, <2>1
<1>9. h = [i \in 0 .. n |-> IF i = 0 THEN skin.bones ELSE h[i - 1] \o more(i, h[i - 1])]
  <2> HIDE DEF more
  <2> QED
    BY <1>5, <1>8
<1>10. d = [i \in 0 .. n |-> IF i = 0 THEN skin.bones ELSE d[i - 1] \o more(i, d[i - 1])]
  BY <1>9
<1> HIDE DEF d
<1>11. d[0] = skin.bones /\ \A i \in 1 .. n : d[i] = d[i - 1] \o more(i, d[i - 1])
  <2>1. 0 \in 0 .. n /\ \A i \in 1 .. n : i \in 0 .. n /\ i # 0
    BY <1>1
  <2> QED
    BY <1>10, <2>1
<1> DEFINE P == {i \in 0 .. n : d[i] \in Distinct /\ ToSet(skin.bones) \subseteq ToSet(d[i])}
<1>12. 0 \in P
  BY <1>1, <1>11
<1>13. ASSUME NEW i \in 0 .. n - 1, i \in P
       PROVE  i + 1 \in P
  <2> DEFINE s == d[i]
             j == i + 1
  <2>1. j \in 1 .. n /\ j \in 0 .. n /\ j - 1 = i
    BY <1>1
  <2>2. s \in Distinct /\ ToSet(skin.bones) \subseteq ToSet(s)
    BY <1>13
  <2> HIDE DEF j
  <2>3. d[j] = d[j - 1] \o more(j, d[j - 1])
    BY <1>11, <2>1
  <2>4. d[j] = s \o more(j, s)
    BY <2>1, <2>3
  <2> HIDE DEF s
  <2>5. s \o more(j, s) \in Distinct /\ ToSet(s) \subseteq ToSet(s \o more(j, s))
    BY <1>3, <2>1, <2>2
  <2>6. j \in P
    BY <2>1, <2>2, <2>4, <2>5
  <2> QED
    BY <2>6 DEF j
<1>14. \A i \in 0 .. n : i \in P
  <2> HIDE DEF P
  <2> QED
    BY <1>1, <1>12, <1>13, UpTo
<1>15. n \in 0 .. n
  BY <1>1
<1> QED
  BY <1>2, <1>14, <1>15 DEF skin

\* grow_skeleton adds bones that are not there, and all that the skin misses.
LEMMA GrownIs ==
    ASSUME NEW f \in Files, NEW o \in Obj, f.skin[o] # NoSkin, NEW host, NEW have
    PROVE  LET C == GrownBones(f, f.skin[o], host, have)
           IN  /\ C \in SUBSET Obj /\ C \cap have = {}
               /\ ToSet(f.skin[o].bones) \subseteq have \cup C
<1> DEFINE skin == f.skin[o]
           missing == ToSet(skin.bones) \ have
           stops == have \cup {skin.root, host}
           C == missing \cup UNION {Walk(f, b, stops) : b \in missing}
<1>1. missing \in SUBSET Obj
  <2>1. skin.bones \in Seq(Obj)
    BY FilesAssumption
  <2> QED
    BY <2>1 DEF ToSet
<1>2. \A b \in missing : Walk(f, b, stops) \in SUBSET Obj /\ Walk(f, b, stops) \cap stops = {}
  BY <1>1, WalkPasses
<1>3. C \in SUBSET Obj /\ C \cap have = {}
  BY <1>1, <1>2
<1>4. GrownBones(f, skin, host, have) = C
  BY DEF GrownBones
<1>5. ToSet(skin.bones) \subseteq have \cup C
  OBVIOUS
<1> HIDE DEF C, missing, stops
<1> QED
  BY <1>3, <1>4, <1>5

\* An order of adding them has each once.
LEMMA OrderIs ==
    ASSUME NEW f, NEW S \in SUBSET Obj, NEW root, NEW new \in DepthOrders(f, S, root)
    PROVE  new \in Distinct /\ ToSet(new) = S
<1>1. new \in [1 .. Cardinality(S) -> S] /\ IsInjective(new) /\ ToSet(new) = S
  BY DEF DepthOrders
<1>2. Cardinality(S) \in Nat
  <2>1. IsFiniteSet(S)
    BY FilesAssumption, FS_Subset
  <2> QED
    BY <2>1, FS_CardinalityType
<1> QED
  BY <1>1, <1>2 DEF Distinct

\* The links of the bones of a new skeleton.
LEMMA LinksAre ==
    ASSUME NEW f \in Files, NEW bones \in SUBSET Obj
    PROVE  /\ Links(f, bones) \in [bones -> Obj \cup {0}]
           /\ \A b \in bones : Links(f, bones)[b] \in Above(f, b) \cup {0}
<1>1. \A b \in bones : Nearest(f, b, bones) \in Above(f, b) \cup {0}
  BY NearestIs
<1>2. \A b \in bones : Above(f, b) \subseteq Obj
  BY Roots DEF Above
<1> QED
  BY <1>1, <1>2 DEF Links

\* The links of the bones that are added, in whatever order.
LEMMA AddedLinksAre ==
    ASSUME NEW f \in Files, NEW have, NEW new, ToSet(new) \in SUBSET Obj
    PROVE  /\ AddedLinks(f, have, new) \in [ToSet(new) -> Obj \cup {0}]
           /\ \A b \in ToSet(new) : AddedLinks(f, have, new)[b] \in Above(f, b) \cup {0}
<1> DEFINE before(b) == LET i == CHOOSE k \in DOMAIN new : new[k] = b
                        IN  have \cup {new[j] : j \in 1 .. i - 1}
<1>1. AddedLinks(f, have, new) = [b \in ToSet(new) |-> Nearest(f, b, before(b))]
  BY DEF AddedLinks
<1> HIDE DEF before
<1>2. \A b \in ToSet(new) : Nearest(f, b, before(b)) \in Above(f, b) \cup {0}
  BY NearestIs
<1>3. \A b \in ToSet(new) : Above(f, b) \subseteq Obj
  BY Roots DEF Above
<1> QED
  BY <1>1, <1>2, <1>3

\* A new skeleton.
LEMMA NewIs ==
    ASSUME file \in Files, NEW o \in Obj, file.skin[o] # NoSkin, NEW host \in Obj,
           NEW s, s = NewSkeleton(file.skin[o], host)
    PROVE  /\ s \in SkelType(s) /\ Fits(s) /\ s.host = host
           /\ ToSet(file.skin[o].bones) \subseteq ToSet(s.bones)
           /\ s.meshes = 0 /\ s.mismatches = 0
<1> DEFINE bones == BuiltBones(file, file.skin[o], host)
           link == Links(file, ToSet(bones))
<1>1. bones \in Distinct /\ ToSet(file.skin[o].bones) \subseteq ToSet(bones)
  BY BuiltIs
<1>2. s = [host |-> host, bones |-> bones, link |-> link, binds |-> Len(bones), meshes |-> 0,
           first |-> 0, alike |-> TRUE, mismatches |-> 0, correction |-> 0, consistent |-> TRUE]
  BY DEF NewSkeleton
<1> HIDE DEF bones
<1>3. bones \in Seq(Obj) /\ Len(bones) \in Nat /\ ToSet(bones) \in SUBSET Obj
  <2>1. bones \in Seq(Obj)
    BY <1>1 DEF Distinct
  <2> QED
    BY <2>1 DEF ToSet
<1>4. link \in [ToSet(bones) -> Obj \cup {0}]
      /\ \A b \in ToSet(bones) : link[b] \in Above(file, b) \cup {0}
  BY <1>3, LinksAre
<1> HIDE DEF link
<1>5. s \in SkelType(s)
  BY <1>2, <1>3 DEF SkelType
<1>6. Fits(s)
  BY <1>1, <1>2, <1>4 DEF Fits
<1> QED
  BY <1>1, <1>2, <1>5, <1>6

\* A skeleton that has grown has its old bones where they were.
GrownFrom(s, skin, t) ==
    /\ t \in SkelType(t) /\ Fits(t)
    /\ t.host = s.host /\ t.meshes = s.meshes /\ t.mismatches = s.mismatches
    /\ t.first = s.first /\ t.alike = s.alike
    /\ Len(s.bones) <= Len(t.bones)
    /\ \A i \in 1 .. Len(s.bones) : t.bones[i] = s.bones[i]
    /\ ToSet(skin.bones) \subseteq ToSet(t.bones)

LEMMA GrownSkeleton ==
    ASSUME file \in Files, NEW o \in Obj, file.skin[o] # NoSkin, NEW n, NEW root,
           NEW s, s \in SkelType(s), Fits(s),
           NEW new \in DepthOrders(file, GrownBones(file, file.skin[o], n, ToSet(s.bones)), root),
           NEW t, t = Grown(s, new)
    PROVE  GrownFrom(s, file.skin[o], t)
<1> DEFINE skin == file.skin[o]
           bones == s.bones \o new
           more == AddedLinks(file, ToSet(s.bones), new)
<1>1. s.bones \in Distinct /\ s.bones \in Seq(Obj) /\ Len(s.bones) \in Nat
  BY DEF Fits, Distinct
<1>2. t = [s EXCEPT !.bones = bones, !.binds = Len(bones), !.link = Extended(@, more)]
  BY DEF Grown, SkelType
<1>3. new \in Distinct /\ bones \in Distinct /\ ToSet(bones) = ToSet(s.bones) \cup ToSet(new)
      /\ ToSet(skin.bones) \subseteq ToSet(bones)
  <2> DEFINE have == ToSet(s.bones)
             C == GrownBones(file, file.skin[o], n, have)
  <2>1. C \in SUBSET Obj /\ C \cap have = {} /\ ToSet(skin.bones) \subseteq have \cup C
    BY GrownIs
  <2>2. new \in DepthOrders(file, C, root)
    OBVIOUS
  <2> HIDE DEF C
  <2>3. new \in Distinct /\ ToSet(new) = C
    BY <2>1, <2>2, OrderIs
  <2>4. s.bones \o new \in Distinct
        /\ ToSet(s.bones \o new) = ToSet(s.bones) \cup ToSet(new)
    BY <1>1, <2>1, <2>3, JoinedDistinct
  <2> QED
    BY <2>1, <2>3, <2>4
<1>4. bones \in Seq(Obj) /\ new \in Seq(Obj)
  BY <1>3 DEF Distinct
<1>5. Len(bones) = Len(s.bones) + Len(new) /\ Len(new) \in Nat
  BY <1>1, <1>4, Joined
<1>6. \A i \in 1 .. Len(s.bones) : bones[i] = s.bones[i]
  BY <1>1, <1>4, Joined
<1> HIDE DEF bones
<1>7. ToSet(new) \in SUBSET Obj
  BY <1>4 DEF ToSet
<1>8. more \in [ToSet(new) -> Obj \cup {0}]
      /\ \A b \in ToSet(new) : more[b] \in Above(file, b) \cup {0}
  BY <1>7, AddedLinksAre
<1> HIDE DEF more
<1> DEFINE link == Extended(s.link, more)
<1>9. link \in [ToSet(bones) -> Obj \cup {0}]
      /\ \A b \in ToSet(bones) : link[b] \in Above(file, b) \cup {0}
  BY <1>3, <1>8 DEF Fits, Extended
<1> HIDE DEF link
<1>10. t = [host |-> s.host, bones |-> bones, link |-> link, binds |-> Len(bones),
            meshes |-> s.meshes, first |-> s.first, alike |-> s.alike,
            mismatches |-> s.mismatches, correction |-> s.correction,
            consistent |-> s.consistent]
  BY <1>2 DEF SkelType, link
<1>11. t \in SkelType(t)
  BY <1>4, <1>5, <1>10 DEF SkelType
<1>12. Fits(t)
  BY <1>3, <1>9, <1>10 DEF Fits
<1>13. Len(s.bones) <= Len(bones)
  BY <1>1, <1>5
<1> QED
  BY <1>3, <1>6, <1>10, <1>11, <1>12, <1>13 DEF GrownFrom

\* A skeleton that may have moved differs in its host.
LEMMA RehostedIs ==
    ASSUME Types, NEW r \in DOMAIN skel, NEW n \in Obj, NEW s, s = Rehosted(r, n)
    PROVE  /\ s \in SkelType(s)
           /\ s = [skel[r] EXCEPT !.host = s.host]
           /\ s.host = (IF Moves(r, n) THEN CommonAncestor(file, n, skel[r].host) ELSE skel[r].host)
           /\ s.host \in file.over[n] \cap file.over[skel[r].host]
           /\ s.host \in Obj
<1>1. skel[r] \in SkelType(skel[r]) /\ file \in Files /\ skel[r].host \in Obj
  BY DEF Types, SkelType
<1> DEFINE c == CommonAncestor(file, n, skel[r].host)
           h == skel[r].host
<1>2. c \in file.over[n] \cap file.over[h]
  BY <1>1, Common
<1>3. h \in file.over[h] /\ file.over[n] \in SUBSET Obj
  BY <1>1, Roots
<1> HIDE DEF c
<1>4. CASE Moves(r, n)
  <2>1. s = [skel[r] EXCEPT !.host = c]
    BY <1>4 DEF Rehosted, c
  <2>2. s \in SkelType(s) /\ s.host = c
    BY <1>1, <1>2, <1>3, <2>1 DEF SkelType
  <2> QED
    BY <1>2, <1>3, <1>4, <2>1, <2>2 DEF c
<1>5. CASE ~Moves(r, n)
  <2>1. s = skel[r]
    BY <1>5 DEF Rehosted
  <2>2. h \in file.over[n]
    BY <1>5 DEF Moves, Descends
  <2>3. s = [skel[r] EXCEPT !.host = s.host]
    BY <1>1, <2>1 DEF SkelType
  <2> QED
    BY <1>1, <1>3, <1>5, <2>1, <2>2, <2>3
<1> QED
  BY <1>4, <1>5

\* A skeleton that one more mesh is built on.
LEMMA TrackedIs ==
    ASSUME file \in Files, NEW o \in Obj, o # Root, NEW s, s \in SkelType(s),
           NEW t, t = Track(s, o)
    PROVE  /\ t \in SkelType(t) /\ t.host = s.host /\ t.bones = s.bones
           /\ t.link = s.link /\ t.binds = s.binds
           /\ t.meshes > 0
           /\ t.first = IF s.meshes = 0 THEN Prefix(o) ELSE s.first
           /\ t.alike => s.alike /\ (s.meshes # 0 => ~Apart(s.first, Prefix(o)))
           /\ t.mismatches > 0 => s.mismatches > 0 \/ o \in file.mismatch
<1>1. Prefix(o) \in Nat /\ file.turn[o] \in Nat
  <2>1. file.up[o] \in Obj
    BY Parents
  <2>2. file.prefix \in [Obj -> Nat] /\ file.turn \in [Obj -> Nat]
    BY FilesAssumption
  <2> QED
    BY <2>1, <2>2 DEF Prefix
<1> DEFINE p == Prefix(o)
           c == Correction(o)
<1>2. c \in Int
  BY <1>1 DEF Correction
<1> HIDE DEF p, c
<1> DEFINE s1 == IF s.meshes = 0 THEN [s EXCEPT !.first = p]
                 ELSE IF Apart(s.first, p) THEN [s EXCEPT !.alike = FALSE] ELSE s
           s2 == IF ~Corrects(o) THEN s1
                 ELSE IF s.mismatches = 0 THEN [s1 EXCEPT !.correction = c]
                 ELSE IF Apart(s.correction, c) THEN [s1 EXCEPT !.consistent = FALSE]
                 ELSE s1
<1>3. t = [s2 EXCEPT !.meshes = @ + 1, !.mismatches = @ + (IF Corrects(o) THEN 1 ELSE 0)]
  BY DEF Track, p, c
<1>4. /\ s1 \in SkelType(s1) /\ s1.host = s.host /\ s1.bones = s.bones /\ s1.link = s.link
      /\ s1.binds = s.binds /\ s1.meshes = s.meshes /\ s1.mismatches = s.mismatches
      /\ s1.first = (IF s.meshes = 0 THEN p ELSE s.first)
      /\ s1.alike => s.alike /\ (s.meshes # 0 => ~Apart(s.first, p))
  <2>1. p \in Nat
    BY <1>1 DEF p
  <2>2. CASE s.meshes = 0
    BY <2>1, <2>2 DEF SkelType
  <2>3. CASE s.meshes # 0 /\ Apart(s.first, p)
    BY <2>1, <2>3 DEF SkelType
  <2>4. CASE s.meshes # 0 /\ ~Apart(s.first, p)
    BY <2>1, <2>4 DEF SkelType
  <2> QED
    BY <2>2, <2>3, <2>4
<1> HIDE DEF s1
<1>5. /\ s2 \in SkelType(s2) /\ s2.host = s.host /\ s2.bones = s.bones /\ s2.link = s.link
      /\ s2.binds = s.binds /\ s2.meshes = s.meshes /\ s2.mismatches = s.mismatches
      /\ s2.first = s1.first /\ s2.alike = s1.alike
  BY <1>2, <1>4 DEF SkelType
<1> HIDE DEF s2
<1>6. s.meshes \in Nat /\ s.mismatches \in Nat
  BY DEF SkelType
<1> DEFINE inc == IF Corrects(o) THEN 1 ELSE 0
           m1 == s2.meshes + 1
           m2 == s2.mismatches + inc
<1>7. /\ t \in SkelType(t) /\ t.host = s.host /\ t.bones = s.bones /\ t.link = s.link
      /\ t.binds = s.binds /\ t.meshes = s.meshes + 1 /\ t.first = s1.first
      /\ t.alike = s1.alike
      /\ t.mismatches = s.mismatches + inc
  <2>1. inc \in Nat
    OBVIOUS
  <2> HIDE DEF inc
  <2>2. m1 \in Nat /\ m2 \in Nat /\ m1 = s.meshes + 1 /\ m2 = s.mismatches + inc
    BY <1>5, <1>6, <2>1
  <2>3. t = [s2 EXCEPT !.meshes = m1, !.mismatches = m2]
    BY <1>3, <1>5 DEF inc, SkelType
  <2> HIDE DEF m1, m2
  <2> QED
    BY <1>5, <2>2, <2>3 DEF SkelType
<1>8. Corrects(o) => o \in file.mismatch
  BY DEF Corrects
<1> QED
  BY <1>4, <1>6, <1>7, <1>8 DEF p

-----------------------------------------------------------------------------
(* What the steps of the traversal do.                                       *)

Drawn(o) == file.skin[o].data /\ ~file.empty[o]

\* The skeleton of o becomes s, and t when the mesh is built on it.
PutOn(o, s, t) ==
    LET skin == file.skin[o]
        r == skin.root
    IN  /\ s \in SkelType(s) /\ Fits(s) /\ ToSet(skin.bones) \subseteq ToSet(s.bones)
        /\ t \in SkelType(t) /\ Fits(t) /\ t.host = s.host /\ t.bones = s.bones
        /\ ~Drawn(o) => t = s
        /\ Drawn(o) =>
            /\ t.meshes > 0
            /\ t.first = IF s.meshes = 0 THEN Prefix(o) ELSE s.first
            /\ t.alike => s.alike /\ (s.meshes # 0 => ~Apart(s.first, Prefix(o)))
            /\ t.mismatches > 0 => s.mismatches > 0 \/ o \in file.mismatch
        /\ skel' = With(skel, r, t)
        /\ mesh' = IF Drawn(o) THEN [mesh EXCEPT ![o] = MeshOn(s, skin)] ELSE mesh
        /\ stack' = Advance
        /\ UNCHANGED <<file, phase, hidden, attached, turned>>
Visited(o) ==
    /\ phase = "walk" /\ stack # <<>> /\ Pending /\ o = child /\ o \in Obj /\ o # Root
    /\ file.skin[o] # NoSkin /\ file.skin[o].root \in Obj /\ file.kind[o] = "shape"
    /\ file.up[o] = top.node /\ top.node \in Obj /\ top.mode = "node"
SharedOn(o, s) ==
    LET r == file.skin[o].root
        n == top.node
    IN  /\ r \in DOMAIN skel
        /\ s.host = (IF Moves(r, n) THEN CommonAncestor(file, n, skel[r].host) ELSE skel[r].host)
        /\ s.host \in file.over[n] \cap file.over[skel[r].host]
        /\ s.meshes = skel[r].meshes /\ s.mismatches = skel[r].mismatches
        /\ s.first = skel[r].first /\ s.alike = skel[r].alike
        /\ Len(skel[r].bones) <= Len(s.bones)
        /\ \A i \in 1 .. Len(skel[r].bones) : s.bones[i] = skel[r].bones[i]
        /\ kids' = Hung(IF Moves(r, n) THEN Move(kids, AV(s.host), Skeleton(r)) ELSE kids, r, o)
        /\ reparented' = IF Moves(r, n) THEN reparented \cup {r} ELSE reparented
FirstOn(o, s) ==
    LET r == file.skin[o].root
        n == top.node
    IN  /\ r \notin DOMAIN skel
        /\ s.host = n /\ s.meshes = 0 /\ s.mismatches = 0
        /\ kids' = Hung(AddChild(AddChild(kids, AV(n), Skeleton(r)), Skeleton(r), Debug(r)), r, o)
        /\ reparented' = reparented

LEMMA VisitedIs ==
    ASSUME Types, NEW o \in Obj, Visits(o)
    PROVE  Visited(o) /\ file.skin[o].root \in file.over[o]
<1>1. phase = "walk" /\ stack # <<>> /\ Pending /\ o = child /\ file.kind[o] = "shape"
      /\ file.skin[o] # NoSkin /\ top.mode = "node"
  BY DEF Visits, Skinned
<1>2. file.up[o] = top.node /\ top.node \in Obj /\ o # Root
  BY <1>1, ChildIs
<1>3. file \in Files
  BY DEF Types
<1>4. file.skin[o].root \in file.over[o]
  BY <1>1, <1>3, FilesAssumption
<1>5. file.skin[o].root \in Obj
  BY <1>3, <1>4, Roots
<1> QED
  BY <1>1, <1>2, <1>4, <1>5 DEF Visited

LEMMA PutIs ==
    ASSUME Types, NEW o, Visited(o), NEW s, s \in SkelType(s), Fits(s),
           ToSet(file.skin[o].bones) \subseteq ToSet(s.bones), PutMesh(s, o)
    PROVE  \E t : PutOn(o, s, t)
<1> DEFINE t == IF Drawn(o) THEN Track(s, o) ELSE s
<1>1. /\ skel' = With(skel, file.skin[o].root, t)
      /\ mesh' = (IF Drawn(o) THEN [mesh EXCEPT ![o] = MeshOn(s, file.skin[o])] ELSE mesh)
      /\ stack' = Advance
      /\ UNCHANGED <<file, phase, hidden, attached, turned>>
  BY DEF PutMesh, Drawn
<1>2. CASE Drawn(o)
  <2> DEFINE u == Track(s, o)
  <2>1. o \in Obj /\ o # Root /\ file \in Files
    BY DEF Visited, Types
  <2> HIDE DEF u
  <2>2. /\ u \in SkelType(u) /\ u.host = s.host /\ u.bones = s.bones
        /\ u.link = s.link /\ u.binds = s.binds
        /\ u.meshes > 0
        /\ u.first = IF s.meshes = 0 THEN Prefix(o) ELSE s.first
    BY <2>1, TrackedIs DEF u
  <2>3. u.alike => s.alike /\ (s.meshes # 0 => ~Apart(s.first, Prefix(o)))
    BY <2>1, TrackedIs DEF u
  <2>4. u.mismatches > 0 => s.mismatches > 0 \/ o \in file.mismatch
    BY <2>1, TrackedIs DEF u
  <2>5. Fits(u)
    BY <2>2 DEF Fits
  <2>6. t = u
    BY <1>2 DEF u
  <2>7. PutOn(o, s, u)
    BY <1>1, <1>2, <2>2, <2>3, <2>4, <2>5, <2>6 DEF PutOn
  <2> QED
    BY <2>7
<1>3. CASE ~Drawn(o)
  <2>1. t = s
    BY <1>3
  <2>2. PutOn(o, s, s)
    BY <1>1, <1>3, <2>1 DEF PutOn
  <2> QED
    BY <2>2
<1> QED
  BY <1>2, <1>3

LEMMA SharedIs ==
    ASSUME Types, SharedSkeleton
    PROVE  \E o \in Obj : \E s, t : Visited(o) /\ PutOn(o, s, t) /\ SharedOn(o, s)
<1>1. PICK o \in Obj :
        LET r == file.skin[o].root
            n == top.node
        IN  /\ Visits(o) /\ r \in DOMAIN skel
            /\ \E new \in Growth(r, file.skin[o], n) :
                 LET s == Grown(Rehosted(r, n), new)
                 IN  /\ kids' = Hung(IF Moves(r, n) THEN Move(kids, AV(s.host), Skeleton(r))
                                     ELSE kids, r, o)
                     /\ PutMesh(s, o)
            /\ reparented' = IF Moves(r, n) THEN reparented \cup {r} ELSE reparented
  BY DEF SharedSkeleton
<1> DEFINE r == file.skin[o].root
           h == Rehosted(file.skin[o].root, top.node)
<1>20. PICK new \in Growth(r, file.skin[o], top.node) :
        LET s == Grown(h, new)
        IN  /\ kids' = Hung(IF Moves(r, top.node) THEN Move(kids, AV(s.host), Skeleton(r))
                            ELSE kids, r, o)
            /\ PutMesh(s, o)
  BY <1>1
<1> DEFINE s == Grown(h, new)
<1>2. Visited(o) /\ r \in DOMAIN skel /\ top.node \in Obj /\ file.skin[o] # NoSkin
  BY <1>1, VisitedIs DEF Visited
<1>3. skel[r] \in SkelType(skel[r]) /\ Fits(skel[r]) /\ file \in Files
  BY <1>2 DEF Types
<1> DEFINE n == top.node
<1> HIDE DEF n, r
<1>4. h = Rehosted(r, n) /\ n \in Obj
  BY <1>2 DEF n, r
<1> HIDE DEF h
<1>5. h \in SkelType(h) /\ h = [skel[r] EXCEPT !.host = h.host]
  BY <1>2, <1>4, RehostedIs
<1>6. h.host = (IF Moves(r, n) THEN CommonAncestor(file, n, skel[r].host) ELSE skel[r].host)
  BY <1>2, <1>4, RehostedIs
<1>7. h.host \in file.over[n] \cap file.over[skel[r].host]
  BY <1>2, <1>4, RehostedIs
<1>8. /\ h.bones = skel[r].bones /\ h.link = skel[r].link /\ h.binds = skel[r].binds
      /\ h.meshes = skel[r].meshes /\ h.mismatches = skel[r].mismatches
      /\ h.first = skel[r].first /\ h.alike = skel[r].alike
  BY <1>3, <1>5 DEF SkelType
<1>9. Fits(h)
  BY <1>3, <1>8 DEF Fits
<1>10. s = Grown(h, new)
       /\ new \in DepthOrders(file, GrownBones(file, file.skin[o], n, ToSet(h.bones)),
                              file.skin[o].root)
  BY <1>8, <1>20 DEF n, r, Growth
<1>14. /\ kids' = Hung(IF Moves(r, n) THEN Move(kids, AV(s.host), Skeleton(r)) ELSE kids, r, o)
       /\ reparented' = (IF Moves(r, n) THEN reparented \cup {r} ELSE reparented)
       /\ PutMesh(s, o)
  BY <1>1, <1>20 DEF r, n, h
<1> HIDE DEF s
<1>11. GrownFrom(h, file.skin[o], s)
  BY <1>2, <1>3, <1>5, <1>9, <1>10, GrownSkeleton
<1>15. SharedOn(o, s)
  BY <1>2, <1>6, <1>7, <1>8, <1>11, <1>14 DEF SharedOn, GrownFrom, r, n
<1>16. PICK t : PutOn(o, s, t)
  BY <1>2, <1>11, <1>14, PutIs DEF GrownFrom
<1> QED
  BY <1>2, <1>15, <1>16

LEMMA FirstIs ==
    ASSUME Types, FirstSkeleton
    PROVE  \E o \in Obj : \E s, t : Visited(o) /\ PutOn(o, s, t) /\ FirstOn(o, s)
<1>1. PICK o \in Obj :
        LET skin == file.skin[o]
            r == skin.root
        IN  /\ Visits(o) /\ r \notin DOMAIN skel
            /\ kids' = Hung(AddChild(AddChild(kids, AV(top.node), Skeleton(r)),
                                     Skeleton(r), Debug(r)), r, o)
            /\ UNCHANGED reparented
            /\ PutMesh(NewSkeleton(skin, top.node), o)
  BY DEF FirstSkeleton
<1> DEFINE s == NewSkeleton(file.skin[o], top.node)
<1>2. Visited(o) /\ top.node \in Obj /\ file.skin[o] # NoSkin /\ file \in Files
  BY <1>1, VisitedIs DEF Visited, Types
<1> DEFINE n == top.node
<1> HIDE DEF n
<1>3. s = NewSkeleton(file.skin[o], n) /\ n \in Obj
  BY <1>2 DEF n
<1> HIDE DEF s
<1>4. /\ s \in SkelType(s) /\ Fits(s) /\ s.host = n
      /\ ToSet(file.skin[o].bones) \subseteq ToSet(s.bones)
      /\ s.meshes = 0 /\ s.mismatches = 0
  BY <1>2, <1>3, NewIs
<1>5. PutMesh(s, o)
  BY <1>1 DEF s
<1>6. FirstOn(o, s)
  BY <1>1, <1>4 DEF FirstOn, n
<1>7. PICK t : PutOn(o, s, t)
  BY <1>2, <1>4, <1>5, PutIs
<1> QED
  BY <1>2, <1>6, <1>7

\* Moves keep the children sequences of nodes.
LEMMA MoveTyped ==
    ASSUME NEW k \in Trees, NEW p \in GNodes, NEW x \in GNodes
    PROVE  AddChild(k, p, x) \in Trees /\ Move(k, p, x) \in Trees
<1>1. ASSUME NEW g \in GNodes
      PROVE  Without(k[g], x) \in Seq(GNodes)
  <2>1. k[g] \in Seq(GNodes)
    BY DEF Trees
  <2>2. CASE x \in ToSet(k[g])
    <3> DEFINE i == CHOOSE i \in DOMAIN k[g] : k[g][i] = x
    <3>1. i \in DOMAIN k[g]
      BY <2>2 DEF ToSet
    <3> HIDE DEF i
    <3>2. RemoveAt(k[g], i) \in Seq(GNodes)
      BY <2>1, <3>1, RemoveAtIs
    <3> QED
      BY <2>2, <3>2 DEF Without, i
  <2>3. CASE x \notin ToSet(k[g])
    BY <2>1, <2>3 DEF Without
  <2> QED
    BY <2>2, <2>3
<1>2. RemoveChild(k, x) \in Trees
  <2>1. RemoveChild(k, x) = [g \in GNodes |-> Without(k[g], x)]
    BY DEF RemoveChild
  <2> QED
    BY <1>1, <2>1 DEF Trees
<1>3. AddChild(k, p, x) \in Trees
  BY Adding
<1> DEFINE l == RemoveChild(k, x)
<1> HIDE DEF l
<1>4. AddChild(l, p, x) \in Trees
  BY <1>2, Adding DEF l
<1> QED
  BY <1>3, <1>4 DEF Move, l

\* The attachments of a skeleton are made one after another.
LEMMA AttachRuns ==
    ASSUME kids \in Trees, NEW r \in Obj, NEW order \in Seq(Obj)
    PROVE  /\ Len(order) \in Nat
           /\ \E run \in [0 .. Len(order) -> Trees] :
                /\ run[0] = kids /\ AttachAll(r, order) = run[Len(order)]
                /\ \A i \in 1 .. Len(order) : run[i] = AttachNode(run[i - 1], r, order[i])
<1> DEFINE n == Len(order)
           next(k, i) == AttachNode(k, r, order[i])
           d == CHOOSE d : d = [i \in 0 .. n |->
                    IF i = 0 THEN kids ELSE next(d[i - 1], i)]
           g == [i \in 1 .. n |-> [k \in Trees |-> next(k, i)]]
<1>1. n \in Nat /\ \A i \in 1 .. n : order[i] \in Obj
  OBVIOUS
<1>2. AttachAll(r, order) = d[n]
  BY DEF AttachAll
<1>3. ASSUME NEW k \in Trees, NEW i \in 1 .. n
      PROVE  next(k, i) \in Trees
  <2> DEFINE c == order[i]
             a == Attachment(r, c)
             l == AddChild(k, Skeleton(r), a)
  <2>1. c \in Obj
    BY <1>1
  <2> HIDE DEF c
  <2>2. Skeleton(r) \in GNodes /\ a \in GNodes /\ AV(c) \in GNodes
    BY <2>1, Names
  <2>3. l \in Trees
    BY <2>2, MoveTyped
  <2> HIDE DEF l
  <2>4. Move(l, a, AV(c)) \in Trees
    BY <2>2, <2>3, MoveTyped
  <2>5. AttachNode(k, r, c) \in Trees
    BY <2>4 DEF AttachNode, l
  <2> QED
    BY <2>5 DEF c
<1> HIDE DEF next, n
<1>4. g \in [1 .. n -> [Trees -> Trees]]
  BY <1>3
<1>5. PICK h \in [0 .. n -> Trees] : h[0] = kids /\ \A i \in 1 .. n : h[i] = g[i][h[i - 1]]
  <2> HIDE DEF g
  <2>1. Runs(n, Trees, kids, g) # {}
    BY <1>1, <1>4, Iterated
  <2> QED
    BY <2>1 DEF Runs
<1>6. \A i \in 1 .. n : i - 1 \in 0 .. n
  BY <1>1
<1>7. \A i \in 1 .. n : h[i] = next(h[i - 1], i)
  BY <1>5, <1>6
<1>8. \A i \in 0 .. n : h[i] = IF i = 0 THEN kids ELSE next(h[i - 1], i)
  <2>1. \A i \in 0 .. n : i # 0 => i \in 1 .. n
    BY <1>1
  <2> QED
    BY <1>5, <1>7, <2>1
<1>9. h = [i \in 0 .. n |-> IF i = 0 THEN kids ELSE next(h[i - 1], i)]
  BY <1>5, <1>8
<1>10. d = [i \in 0 .. n |-> IF i = 0 THEN kids ELSE next(d[i - 1], i)]
  BY <1>9
<1> HIDE DEF d
<1>11. d[0] = kids /\ \A i \in 1 .. n : d[i] = next(d[i - 1], i)
  <2>1. 0 \in 0 .. n /\ \A i \in 1 .. n : i \in 0 .. n /\ i # 0
    BY <1>1
  <2> QED
    BY <1>10, <2>1
<1> DEFINE P == {i \in 0 .. n : d[i] \in Trees}
<1>12. 0 \in P
  BY <1>1, <1>11
<1>13. ASSUME NEW i \in 0 .. n - 1, i \in P
       PROVE  i + 1 \in P
  <2> DEFINE k == d[i]
             j == i + 1
  <2>1. j \in 1 .. n /\ j \in 0 .. n /\ j - 1 = i
    BY <1>1
  <2>2. k \in Trees
    BY <1>13
  <2> HIDE DEF j
  <2>3. d[j] = next(d[j - 1], j)
    BY <1>11, <2>1
  <2>4. d[j] = next(k, j)
    BY <2>1, <2>3
  <2> HIDE DEF k
  <2>5. next(k, j) \in Trees
    BY <1>3, <2>1, <2>2
  <2>6. j \in P
    BY <2>1, <2>4, <2>5
  <2> QED
    BY <2>6 DEF j
<1>14. \A i \in 0 .. n : i \in P
  <2> HIDE DEF P
  <2> QED
    BY <1>1, <1>12, <1>13, UpTo
<1>15. d = [i \in 0 .. n |-> d[i]]
  BY <1>10
<1>16. d \in [0 .. n -> Trees]
  <2>1. \A i \in 0 .. n : d[i] \in Trees
    BY <1>14
  <2> HIDE DEF P
  <2> QED
    BY <1>15, <2>1
<1> QED
  BY <1>1, <1>2, <1>11, <1>16 DEF next, n

\* The order of a walk has each object once.
LEMMA WalkOrderIs ==
    ASSUME NEW S \in SUBSET Obj, NEW order \in WalkOrders(S)
    PROVE  /\ order \in Seq(Obj) /\ ToSet(order) = S
           /\ \A i, j \in DOMAIN order : i < j => Earlier(order[i], order[j])
           /\ DOMAIN order = 1 .. Len(order) /\ Len(order) \in Nat
<1>1. IsFiniteSet(S)
  BY FilesAssumption, FS_Subset
<1> DEFINE n == Cardinality(S)
<1>2. n \in Nat
  BY <1>1, FS_CardinalityType
<1>3. /\ order \in [1 .. n -> S] /\ \A c \in S : \E i \in DOMAIN order : order[i] = c
      /\ \A i, j \in DOMAIN order : i < j => Earlier(order[i], order[j])
  BY DEF WalkOrders
<1> HIDE DEF n
<1>4. order \in Seq(Obj) /\ DOMAIN order = 1 .. Len(order) /\ Len(order) \in Nat
  BY <1>2, <1>3
<1>5. ToSet(order) = S
  BY <1>3 DEF ToSet
<1> QED
  BY <1>3, <1>4, <1>5

\* A call goes on to its next child, and a call returns to the one below it.
LEMMA AdvanceIs ==
    ASSUME Types, stack # <<>>, Pending
    PROVE  /\ Advance \in Seq(FrameType) /\ Len(Advance) = Len(stack)
           /\ DOMAIN Advance = DOMAIN stack
           /\ \A j \in DOMAIN stack : j # 1 => Advance[j] = stack[j]
           /\ Advance[1].node = top.node /\ Advance[1].mode = top.mode
           /\ Advance[1].next = top.next + 1
<1>1. stack \in Seq(FrameType) /\ 1 \in DOMAIN stack /\ top = stack[1] /\ stack[1] \in FrameType
  BY ChildIs DEF Types
<1> DEFINE f == [stack[1] EXCEPT !.next = @ + 1]
<1>2. f \in FrameType /\ f.node = top.node /\ f.mode = top.mode /\ f.next = top.next + 1
  BY <1>1 DEF FrameType
<1>3. Advance = [stack EXCEPT ![1] = f]
  BY DEF Advance
<1> HIDE DEF f
<1> QED
  BY <1>1, <1>2, <1>3

LEMMA LeaveIs ==
    ASSUME Types, Leave
    PROVE  /\ stack' \in Seq(FrameType) /\ Len(stack) \in Nat /\ Len(stack') = Len(stack) - 1
           /\ \A j \in 1 .. Len(stack) - 1 :
                /\ j + 1 \in 1 .. Len(stack)
                /\ stack'[j].node = stack[j + 1].node /\ stack'[j].mode = stack[j + 1].mode
                /\ stack'[j].next = stack[j + 1].next + (IF j = 1 THEN 1 ELSE 0)
<1>1. stack \in Seq(FrameType) /\ stack # <<>> /\ Len(stack) \in Nat
      /\ stack' = (IF Tail(stack) = <<>> THEN <<>> ELSE [Tail(stack) EXCEPT ![1].next = @ + 1])
  BY DEF Types, Leave
<1> DEFINE rest == Tail(stack)
<1>2. rest \in Seq(FrameType) /\ Len(rest) = Len(stack) - 1
      /\ \A j \in 1 .. Len(stack) - 1 : rest[j] = stack[j + 1]
  BY <1>1
<1>3. stack' = (IF rest = <<>> THEN <<>> ELSE [rest EXCEPT ![1].next = @ + 1])
  BY <1>1
<1> HIDE DEF rest
<1>4. \A j \in 1 .. Len(stack) - 1 : j + 1 \in 1 .. Len(stack) /\ rest[j] \in FrameType
  BY <1>1, <1>2
<1>5. CASE rest = <<>>
  <2>1. Len(stack) - 1 = 0
    BY <1>2, <1>5
  <2> QED
    BY <1>1, <1>3, <1>5, <2>1
<1>6. CASE rest # <<>>
  <2> DEFINE f == [rest[1] EXCEPT !.next = @ + 1]
  <2>1. 1 \in DOMAIN rest /\ rest[1] \in FrameType /\ DOMAIN rest = 1 .. Len(stack) - 1
    BY <1>1, <1>2, <1>6
  <2>2. f \in FrameType /\ f.node = rest[1].node /\ f.mode = rest[1].mode
        /\ f.next = rest[1].next + 1
    BY <2>1 DEF FrameType
  <2>3. stack' = [rest EXCEPT ![1] = f]
    BY <1>3, <1>6
  <2> HIDE DEF f
  <2>4. stack' \in Seq(FrameType) /\ Len(stack') = Len(stack) - 1 /\ stack'[1] = f
        /\ \A j \in 1 .. Len(stack) - 1 : j # 1 => stack'[j] = rest[j]
    <3> DEFINE s == [rest EXCEPT ![1] = f]
    <3>1. s \in Seq(FrameType) /\ Len(s) = Len(rest) /\ s[1] = f
      BY <1>2, <2>1, <2>2
    <3>2. \A j \in DOMAIN rest : j # 1 => s[j] = rest[j]
      OBVIOUS
    <3>3. stack' = s
      BY <2>3
    <3> HIDE DEF s
    <3> QED
      BY <1>2, <2>1, <3>1, <3>2, <3>3
  <2>5. ASSUME NEW j \in 1 .. Len(stack) - 1
        PROVE  /\ stack'[j].node = stack[j + 1].node /\ stack'[j].mode = stack[j + 1].mode
               /\ stack'[j].next = stack[j + 1].next + (IF j = 1 THEN 1 ELSE 0)
    <3>1. CASE j = 1
      <4>1. stack'[j] = f /\ rest[1] = stack[j + 1]
        BY <1>2, <2>4, <3>1
      <4>2. f.node = stack[j + 1].node /\ f.mode = stack[j + 1].mode /\ f.next = stack[j + 1].next + 1
        BY <2>2, <4>1
      <4> HIDE DEF rest
      <4> QED
        BY <3>1, <4>1, <4>2
    <3>2. CASE j # 1
      <4>1. rest[j].next \in Nat
        BY <1>4 DEF FrameType
      <4>2. stack'[j] = rest[j]
        BY <2>4, <3>2
      <4>3. rest[j] = stack[j + 1]
        BY <1>2
      <4> HIDE DEF rest
      <4> QED
        BY <3>2, <4>1, <4>2, <4>3
    <3> QED
      BY <3>1, <3>2
  <2> QED
    BY <1>1, <1>4, <2>4, <2>5
<1> QED
  BY <1>5, <1>6

\* A call of a child on top of the others.
LEMMA EnterIs ==
    ASSUME Types, EnterNode
    PROVE  /\ stack' \in Seq(FrameType) /\ Len(stack) \in Nat /\ Len(stack') = Len(stack) + 1
           /\ stack'[1] = Frame(child, ModeOf(child)) /\ child \in Obj
           /\ \A j \in 1 .. Len(stack) : j + 1 \in 1 .. Len(stack) + 1 /\ stack'[j + 1] = stack[j]
<1>1. stack \in Seq(FrameType) /\ stack # <<>> /\ Pending /\ file.kind[child] \in NodeKinds
      /\ stack' = <<Frame(child, ModeOf(child))>> \o stack
  BY DEF Types, EnterNode
<1>2. child \in Obj
  BY <1>1, ChildIs
<1> DEFINE f == Frame(child, ModeOf(child))
<1>3. f \in FrameType
  BY <1>1, <1>2 DEF Frame, FrameType, ModeOf, Modes, NodeKinds
<1> HIDE DEF f
<1>4. <<f>> \in Seq(FrameType) /\ Len(<<f>>) = 1 /\ Len(stack) \in Nat
  BY <1>1, <1>3
<1> DEFINE a == <<f>>
<1> HIDE DEF a
<1>5. a \o stack \in Seq(FrameType) /\ Len(a \o stack) = Len(a) + Len(stack)
  BY <1>1, <1>4, Joined DEF a
<1>6. \A k \in 1 .. Len(a) : (a \o stack)[k] = a[k]
  BY <1>1, <1>4, Joined DEF a
<1>7. \A k \in 1 .. Len(stack) : (a \o stack)[Len(a) + k] = stack[k]
  BY <1>1, <1>4, Joined DEF a
<1>8. Len(a) = 1 /\ a[1] = f
  BY <1>4 DEF a
<1>9. \A j \in 1 .. Len(stack) : Len(a) + j = j + 1 /\ j + 1 \in 1 .. Len(stack) + 1
  BY <1>4, <1>8
<1>10. stack' = a \o stack
  BY <1>1 DEF a, f
<1>11. \A j \in 1 .. Len(stack) : stack'[j + 1] = stack[j]
  BY <1>7, <1>9, <1>10
<1>12. stack'[1] = f
  BY <1>6, <1>8, <1>10
<1>13. Len(stack') = Len(stack) + 1
  BY <1>4, <1>5, <1>8, <1>10
<1> QED
  BY <1>2, <1>4, <1>5, <1>9, <1>10, <1>11, <1>12, <1>13 DEF f

\* The initial state is of its type.
LEMMA TypesInit == Init => Types
<1> SUFFICES ASSUME Init
             PROVE  Types
  OBVIOUS
<1>1. file \in Files /\ phase = "walk" /\ stack = <<Frame(Root, "node")>>
      /\ kids = [g \in GNodes |-> IF g = Top THEN <<AV(Root)>> ELSE <<>>]
      /\ reparented = {} /\ attached = <<>> /\ turned = {}
      /\ skel = [r \in {} |-> 0] /\ mesh = [o \in Obj |-> NoMesh]
  BY DEF Init
<1>2. Root \in Obj /\ AV(Root) \in GNodes
  BY <1>1, Roots, Names
<1>3. stack \in Seq(FrameType)
  <2>1. Frame(Root, "node") \in FrameType
    BY <1>2 DEF Frame, FrameType, Modes
  <2> HIDE DEF Frame
  <2> QED
    BY <1>1, <2>1
<1>4. kids \in Trees
  <2>1. <<AV(Root)>> \in Seq(GNodes) /\ <<>> \in Seq(GNodes)
    BY <1>2
  <2> QED
    BY <1>1, <2>1 DEF Trees
<1>5. DOMAIN skel = {}
  BY <1>1
<1>6. mesh \in [Obj -> MeshType] /\ \A o \in Obj : mesh[o].on = 0
  BY <1>1 DEF MeshType, NoMesh
<1>7. attached \in Seq(Obj) /\ ToSet(attached) = {}
  BY <1>1 DEF ToSet
<1> QED
  BY <1>1, <1>3, <1>4, <1>5, <1>6, <1>7 DEF Types, Early

\* The indices of a skin's bones.
LEMMA MeshTyped ==
    ASSUME NEW s, s \in SkelType(s), NEW skin, skin.root \in Obj
    PROVE  MeshOn(s, skin) \in MeshType
<1>1. s.bones \in Seq(Obj) /\ s.binds \in Nat
  BY DEF SkelType
<1>2. Indices(s, skin) \in SUBSET Nat
  BY <1>1 DEF Indices
<1> QED
  BY <1>1, <1>2 DEF MeshOn, MeshType

\* Every step keeps the types.
LEMMA TypesPut ==
    ASSUME Types, NEW o, Visited(o), NEW s, NEW t, PutOn(o, s, t), kids' \in Trees,
           reparented' \subseteq DOMAIN skel'
    PROVE  Types'
<1> DEFINE r == file.skin[o].root
<1>1. /\ t \in SkelType(t) /\ Fits(t) /\ skel' = With(skel, r, t)
      /\ stack' = Advance /\ UNCHANGED <<file, phase, hidden, attached, turned>>
      /\ mesh' = (IF Drawn(o) THEN [mesh EXCEPT ![o] = MeshOn(s, file.skin[o])] ELSE mesh)
      /\ s \in SkelType(s)
  BY DEF PutOn
<1>2. r \in Obj /\ o \in Obj
  BY DEF Visited
<1>3. stack' \in Seq(FrameType)
  BY <1>1, AdvanceIs DEF Visited
<1>4. DOMAIN skel' = DOMAIN skel \cup {r}
  BY <1>1 DEF With
<1>5. \A q \in DOMAIN skel' : skel'[q] = IF q = r THEN t ELSE skel[q]
  BY <1>1 DEF With
<1>6. \A q \in DOMAIN skel' : skel'[q] \in SkelType(skel'[q]) /\ Fits(skel'[q])
  BY <1>1, <1>4, <1>5 DEF Types
<1>8. mesh' \in [Obj -> MeshType]
  <2>1. MeshOn(s, file.skin[o]) \in MeshType
    BY <1>1, <1>2, MeshTyped
  <2> QED
    BY <1>1, <1>2, <2>1 DEF Types
<1>9. \A p \in Obj : mesh'[p].on \in DOMAIN skel' \cup {0}
  <2>1. MeshOn(s, file.skin[o]).on = r
    BY DEF MeshOn
  <2> QED
    BY <1>1, <1>2, <1>4, <2>1 DEF Types
<1> HIDE DEF r
<1>10. \A q \in DOMAIN skel' : Fits(skel[q])' /\ skel'[q] \in SkelType(skel[q])'
  BY <1>1, <1>6 DEF Fits, SkelType
<1>11. /\ file' \in Files /\ phase' \in Early /\ attached' \in Seq(Obj)
       /\ ToSet(attached)' \subseteq DOMAIN skel' /\ turned' \subseteq DOMAIN skel'
       /\ DOMAIN skel' \subseteq Obj
  <2>1. attached' = attached /\ file' = file /\ phase' = phase /\ turned' = turned
    BY <1>1
  <2> QED
    BY <1>2, <1>4, <2>1 DEF Types
<1> QED
  BY <1>3, <1>8, <1>9, <1>10, <1>11 DEF Types

LEMMA HungTyped ==
    ASSUME NEW k \in Trees, NEW r \in Obj, NEW o \in Obj
    PROVE  Hung(k, r, o) \in Trees
<1>1. Skeleton(r) \in GNodes /\ AV(o) \in GNodes
  BY Names
<1>2. AddChild(k, Skeleton(r), AV(o)) \in Trees
  BY <1>1, MoveTyped
<1> QED
  BY <1>2 DEF Hung

LEMMA TypesStep == Types /\ [Next]_vars => Types'
<1> SUFFICES ASSUME Types, [Next]_vars
             PROVE  Types'
  OBVIOUS
<1> USE DEF Early
<1>1. kids \in Trees /\ file \in Files
  BY DEF Types
<1>2. CASE EnterNode
  <2>1. stack' \in Seq(FrameType) /\ child \in Obj
    BY <1>2, EnterIs
  <2>2. AV(top.node) \in GNodes /\ AV(child) \in GNodes
    BY <1>2, <2>1, ChildIs, Names DEF EnterNode
  <2>3. kids' \in Trees
    BY <1>1, <1>2, <2>2, MoveTyped DEF EnterNode
  <2> QED
    BY <1>2, <2>1, <2>3 DEF EnterNode, Types, Fits, SkelType
<1>3. CASE Leave
  <2>1. stack' \in Seq(FrameType)
    BY <1>3, LeaveIs
  <2> QED
    BY <1>3, <2>1 DEF Leave, Types, Fits, SkelType
<1>4. CASE Leaf
  <2>1. AV(top.node) \in GNodes /\ AV(child) \in GNodes
    BY <1>4, ChildIs, Names DEF Leaf
  <2>2. kids' \in Trees
    <3>1. AddChild(kids, AV(top.node), AV(child)) \in Trees
      BY <1>1, <2>1, MoveTyped
    <3> QED
      BY <1>1, <1>4, <3>1 DEF Leaf
  <2>3. stack' \in Seq(FrameType)
    BY <1>4, AdvanceIs DEF Leaf
  <2> QED
    BY <1>4, <2>2, <2>3 DEF Leaf, Types, Fits, SkelType
<1>5. CASE SharedSkeleton
  <2>1. PICK o, s, t : Visited(o) /\ PutOn(o, s, t) /\ SharedOn(o, s)
    BY <1>5, SharedIs
  <2> DEFINE r == file.skin[o].root
             n == top.node
  <2>2. /\ kids' = Hung(IF Moves(r, n) THEN Move(kids, AV(s.host), Skeleton(r)) ELSE kids, r, o)
        /\ reparented' = (IF Moves(r, n) THEN reparented \cup {r} ELSE reparented)
        /\ r \in DOMAIN skel
    BY <2>1 DEF SharedOn
  <2>3. o \in Obj /\ r \in Obj /\ s.host \in Obj
    BY <2>1 DEF Visited, PutOn, SkelType
  <2>4. AV(s.host) \in GNodes /\ Skeleton(r) \in GNodes
    BY <2>3, Names
  <2>5. Move(kids, AV(s.host), Skeleton(r)) \in Trees
    BY <1>1, <2>4, MoveTyped
  <2>6. kids' \in Trees
    BY <1>1, <2>2, <2>3, <2>5, HungTyped
  <2>7. reparented' \subseteq DOMAIN skel'
    BY <2>1, <2>2 DEF PutOn, With, Types
  <2> QED
    BY <2>1, <2>6, <2>7, TypesPut
<1>6. CASE FirstSkeleton
  <2>1. PICK o, s, t : Visited(o) /\ PutOn(o, s, t) /\ FirstOn(o, s)
    BY <1>6, FirstIs
  <2> DEFINE r == file.skin[o].root
             n == top.node
             k1 == AddChild(kids, AV(n), Skeleton(r))
             k2 == AddChild(k1, Skeleton(r), Debug(r))
  <2>2. kids' = Hung(k2, r, o) /\ reparented' = reparented
    BY <2>1 DEF FirstOn
  <2>3. o \in Obj /\ r \in Obj /\ n \in Obj
    BY <2>1 DEF Visited
  <2>4. AV(n) \in GNodes /\ Skeleton(r) \in GNodes /\ Debug(r) \in GNodes
    BY <2>3, Names
  <2> HIDE DEF n
  <2>5. k1 \in Trees
    BY <1>1, <2>4, MoveTyped
  <2> HIDE DEF k1
  <2>6. k2 \in Trees
    BY <2>4, <2>5, MoveTyped
  <2> HIDE DEF k2
  <2>7. kids' \in Trees
    BY <2>2, <2>3, <2>6, HungTyped
  <2>8. reparented' \subseteq DOMAIN skel'
    BY <2>1, <2>2 DEF PutOn, With, Types
  <2> QED
    BY <2>1, <2>7, <2>8, TypesPut
<1>7. CASE NoSkeleton
  <2>1. PICK o \in Obj : /\ Visits(o)
                         /\ kids' = (IF file.empty[o] THEN kids
                                     ELSE AddChild(kids, AV(top.node), AV(o)))
                         /\ stack' = Advance
                         /\ UNCHANGED <<file, phase, hidden, skel, reparented, mesh, attached, turned>>
    BY <1>7 DEF NoSkeleton
  <2>2. Visited(o)
    BY <2>1, VisitedIs
  <2>3. AV(top.node) \in GNodes /\ AV(o) \in GNodes
    BY <2>2, Names DEF Visited
  <2>4. kids' \in Trees
    <3>1. AddChild(kids, AV(top.node), AV(o)) \in Trees
      BY <1>1, <2>3, MoveTyped
    <3> QED
      BY <1>1, <2>1, <3>1
  <2>5. stack' \in Seq(FrameType)
    BY <2>1, <2>2, AdvanceIs DEF Visited
  <2> QED
    BY <2>1, <2>4, <2>5 DEF Types, Fits, SkelType
<1>8. CASE WalkDone
  BY <1>8 DEF WalkDone, Types, Fits, SkelType
<1>9. CASE \E r \in Obj : Attach(r)
  <2>1. PICK r \in Obj : Attach(r)
    BY <1>9
  <2> DEFINE S == {c \in Obj : IsAttachment(r, c)}
  <2>2. PICK order \in WalkOrders(S) : kids' = AttachAll(r, order)
    BY <2>1 DEF Attach
  <2>3. order \in Seq(Obj)
    <3>1. S \in SUBSET Obj
      OBVIOUS
    <3> HIDE DEF S
    <3> QED
      BY <3>1, WalkOrderIs
  <2>4. kids' \in Trees
    <3>1. PICK run \in [0 .. Len(order) -> Trees] : AttachAll(r, order) = run[Len(order)]
      BY <1>1, <2>3, AttachRuns
    <3>2. Len(order) \in 0 .. Len(order)
      BY <2>3
    <3> QED
      BY <2>2, <3>1, <3>2
  <2>5. attached' \in Seq(Obj) /\ ToSet(attached') \subseteq DOMAIN skel
    <3>1. attached \in Seq(Obj) /\ ToSet(attached) \subseteq DOMAIN skel
      BY DEF Types
    <3>2. attached' = Append(attached, r) /\ r \in DOMAIN skel
      BY <2>1 DEF Attach
    <3>3. ToSet(Append(attached, r)) = ToSet(attached) \cup {r}
      BY <3>1, Appended
    <3> QED
      BY <3>1, <3>2, <3>3
  <2>6. UNCHANGED <<file, phase, stack, hidden, skel, reparented, mesh, turned>>
    BY <2>1 DEF Attach
  <2> QED
    BY <2>4, <2>5, <2>6 DEF Types, Fits, SkelType
<1>10. CASE Correct
  BY <1>10 DEF Correct, Types, Fits, SkelType
<1>11. CASE Throw
  BY <1>11 DEF Throw, Types, Fits, SkelType
<1>12. CASE UNCHANGED vars
  BY <1>12 DEF vars, Types, Fits, SkelType
<1> QED
  BY <1>2, <1>3, <1>4, <1>5, <1>6, <1>7, <1>8, <1>9, <1>10, <1>11, <1>12 DEF Next

-----------------------------------------------------------------------------
(* The meshes and the skeletons they are on.                                 *)

\* What the mesh of o knows of the skeleton it is on.
WeighedOn(o) ==
    mesh[o].on # 0 =>
        LET s == skel[mesh[o].on] IN
        /\ o # Root /\ file.skin[o].root = mesh[o].on
        /\ mesh[o].weights \subseteq 1 .. mesh[o].binds /\ mesh[o].binds <= Len(s.bones)
        /\ {s.bones[i] : i \in mesh[o].weights} = ToSet(file.skin[o].bones)
        /\ s.host \in file.over[o]
        /\ s.meshes > 0
        /\ s.alike => ~Apart(s.first, Prefix(o))
\* What a skeleton owes to the shapes.
Owes(r) ==
    /\ skel[r].mismatches > 0 => \E o \in Obj : mesh[o].on = r /\ o \in file.mismatch
    /\ \E p \in Obj : /\ file.skin[p] # NoSkin /\ file.skin[p].root = r
                      /\ p # Root /\ skel[r].host \in file.over[file.up[p]]
Weighed ==
    /\ \A o \in Obj : WeighedOn(o) /\ (mesh[o] # NoMesh => mesh[o].on # 0)
    /\ \A r \in DOMAIN skel : Owes(r)
    /\ turned # {} => phase = "done"
    /\ \A r \in turned : Turns(r)

LEMMA WeighedInit == Init => Weighed
<1> SUFFICES ASSUME Init
             PROVE  Weighed
  OBVIOUS
<1>1. \A o \in Obj : mesh[o] = NoMesh /\ mesh[o].on = 0
  BY DEF Init, NoMesh
<1>2. DOMAIN skel = {} /\ turned = {}
  BY DEF Init
<1> QED
  BY <1>1, <1>2 DEF Weighed, WeighedOn

\* A mesh that is there stays fitting when its skeleton grows or moves.
LEMMA WeighedOld ==
    ASSUME Types, Weighed, NEW o, Visited(o), NEW s, NEW t, PutOn(o, s, t),
           SharedOn(o, s) \/ FirstOn(o, s), NEW p \in Obj, p # o \/ ~Drawn(o)
    PROVE  WeighedOn(p)'
<1> DEFINE r == file.skin[o].root
<1>1. mesh'[p] = mesh[p] /\ mesh[p] \in MeshType /\ file \in Files /\ file' = file
  BY DEF PutOn, Types, Visited
<1>2. \A q \in DOMAIN skel : q # r => q \in DOMAIN skel' /\ skel'[q] = skel[q]
  BY DEF PutOn, With
<1>3. skel'[r] = t /\ r \in DOMAIN skel'
  BY DEF PutOn, With
<1> DEFINE q == mesh[p].on
<1>4. CASE q = 0
  BY <1>1, <1>4 DEF WeighedOn
<1>5. CASE q # 0 /\ q # r
  <2>1. q \in DOMAIN skel
    BY <1>5 DEF Types
  <2>2. skel'[q] = skel[q]
    BY <1>2, <1>5, <2>1
  <2>3. Prefix(p)' = Prefix(p)
    BY <1>1 DEF Prefix
  <2>4. WeighedOn(p)
    BY DEF Weighed
  <2> QED
    BY <1>1, <1>5, <2>2, <2>3, <2>4 DEF WeighedOn
<1>6. CASE q # 0 /\ q = r
  <2>1. r \in DOMAIN skel /\ SharedOn(o, s)
    BY <1>6 DEF Types, FirstOn
  <2> DEFINE u == skel[r]
  <2>2. /\ p # Root /\ file.skin[p].root = r
        /\ mesh[p].weights \subseteq 1 .. mesh[p].binds /\ mesh[p].binds <= Len(u.bones)
        /\ {u.bones[i] : i \in mesh[p].weights} = ToSet(file.skin[p].bones)
        /\ u.host \in file.over[p] /\ u.meshes > 0
        /\ u.alike => ~Apart(u.first, Prefix(p))
    <3>1. WeighedOn(p)
      BY DEF Weighed
    <3> QED
      BY <1>6, <3>1 DEF WeighedOn
  <2>3. /\ s.host \in file.over[u.host] /\ s.meshes = u.meshes
        /\ s.first = u.first /\ s.alike = u.alike
        /\ Len(u.bones) <= Len(s.bones)
        /\ \A i \in 1 .. Len(u.bones) : s.bones[i] = u.bones[i]
    BY <2>1 DEF SharedOn
  <2>4. u \in SkelType(u) /\ s \in SkelType(s) /\ t.host = s.host /\ t.bones = s.bones
    BY <2>1 DEF Types, PutOn
  <2>5. t.meshes > 0 /\ t.first = u.first /\ (t.alike => u.alike)
    <3>1. u.meshes \in Nat
      BY <2>4 DEF SkelType
    <3>2. u.meshes # 0
      <4>1. u.meshes > 0
        BY <2>2
      <4> QED
        BY <3>1, <4>1
    <3>3. CASE Drawn(o)
      <4>1. /\ t.meshes > 0 /\ t.first = (IF s.meshes = 0 THEN Prefix(o) ELSE s.first)
            /\ (t.alike => s.alike)
        BY <3>3 DEF PutOn
      <4> QED
        BY <2>3, <3>2, <4>1
    <3>4. CASE ~Drawn(o)
      <4>1. t = s
        BY <3>4 DEF PutOn
      <4> QED
        BY <2>2, <2>3, <4>1
    <3> QED
      BY <3>3, <3>4
  <2>6. s.host \in file.over[p]
    <3>1. file.over[u.host] \subseteq file.over[p]
      <4>1. u.host \in file.over[p] /\ file \in Files
        BY <1>1, <2>2
      <4> HIDE DEF u
      <4> QED
        BY <4>1, Chain
    <3> QED
      BY <2>3, <3>1
  <2>7. Len(u.bones) \in Nat /\ Len(s.bones) \in Nat
    <3>1. u.bones \in Seq(Obj) /\ s.bones \in Seq(Obj)
      BY <2>4 DEF SkelType
    <3> HIDE DEF u
    <3> QED
      BY <3>1
  <2>14. mesh[p].binds \in Nat
    BY <1>1 DEF MeshType
  <2> DEFINE a == Len(u.bones)
             b == Len(s.bones)
             m == mesh[p].binds
  <2>15. a \in Nat /\ b \in Nat /\ m \in Nat /\ m <= a /\ a <= b
    BY <2>2, <2>3, <2>7, <2>14
  <2>8. m <= b /\ \A i \in 1 .. m : i \in 1 .. a
    <3> HIDE DEF a, b, m
    <3> QED
      BY <2>15
  <2>9. \A i \in mesh[p].weights : s.bones[i] = u.bones[i]
    BY <2>2, <2>3, <2>8
  <2>10. {s.bones[i] : i \in mesh[p].weights} = ToSet(file.skin[p].bones)
    BY <2>2, <2>9
  <2>11. Prefix(p)' = Prefix(p)
    BY <1>1 DEF Prefix
  <2>12. t.alike => ~Apart(t.first, Prefix(p))
    BY <2>2, <2>5
  <2> HIDE DEF u, r
  <2>13. mesh'[p].on = r /\ skel'[r] = t
    BY <1>1, <1>3, <1>6
  <2> QED
    BY <1>1, <2>2, <2>4, <2>5, <2>6, <2>8, <2>10, <2>11, <2>12, <2>13 DEF WeighedOn, Apart
<1> QED
  BY <1>4, <1>5, <1>6

\* A mesh that is built fits its skeleton.
LEMMA WeighedNew ==
    ASSUME Types, Weighed, NEW o, Visited(o), NEW s, NEW t, PutOn(o, s, t),
           SharedOn(o, s) \/ FirstOn(o, s), Drawn(o)
    PROVE  WeighedOn(o)' /\ mesh'[o].on = file.skin[o].root
<1> DEFINE r == file.skin[o].root
           skin == file.skin[o]
<1>1. /\ s \in SkelType(s) /\ Fits(s) /\ ToSet(skin.bones) \subseteq ToSet(s.bones)
      /\ t.host = s.host /\ t.bones = s.bones /\ t.meshes > 0
      /\ t.first = (IF s.meshes = 0 THEN Prefix(o) ELSE s.first)
      /\ t.alike => s.alike /\ (s.meshes # 0 => ~Apart(s.first, Prefix(o)))
      /\ file' = file
  BY DEF PutOn
<1>2. skel'[r] = t
  BY DEF PutOn, With
<1>3. mesh'[o] = MeshOn(s, skin)
  BY DEF PutOn, Types, Visited
<1>4. mesh'[o].on = r /\ mesh'[o].weights = Indices(s, skin) /\ mesh'[o].binds = s.binds
  BY <1>3 DEF MeshOn
<1>5. s.binds = Len(s.bones) /\ s.bones \in Seq(Obj)
  BY <1>1 DEF Fits, SkelType
<1>6. {s.bones[i] : i \in Indices(s, skin)} = ToSet(skin.bones)
  BY <1>1 DEF Indices, ToSet
<1>7. Indices(s, skin) \subseteq 1 .. s.binds
  BY <1>5 DEF Indices
<1>8. s.host \in file.over[o]
  <2>1. s.host \in file.over[top.node]
    <3>1. CASE SharedOn(o, s)
      BY <3>1 DEF SharedOn
    <3>2. CASE FirstOn(o, s)
      <4>1. s.host = top.node /\ top.node \in Obj /\ file \in Files
        BY <3>2 DEF FirstOn, Visited, Types
      <4> QED
        BY <4>1, Roots
    <3> QED
      BY <3>1, <3>2
  <2>2. o \in Obj /\ o # Root /\ file.up[o] = top.node /\ file \in Files
    BY DEF Visited, Types
  <2>3. file.over[o] = {o} \cup file.over[file.up[o]]
    BY <2>2, Parents
  <2> QED
    BY <2>1, <2>2, <2>3
<1>9. Prefix(o) \in Nat
  <2>1. o \in Obj /\ o # Root /\ file \in Files
    BY DEF Visited, Types
  <2>2. file.up[o] \in Obj
    BY <2>1, Parents
  <2>3. file.prefix \in [Obj -> Nat]
    BY <2>1, FilesAssumption
  <2> QED
    BY <2>2, <2>3 DEF Prefix
<1>10. t.alike => ~Apart(t.first, Prefix(o))
  <2>1. CASE s.meshes = 0
    BY <1>1, <1>9, <2>1 DEF Apart
  <2>2. CASE s.meshes # 0
    BY <1>1, <2>2
  <2> QED
    BY <2>1, <2>2
<1>11. Prefix(o)' = Prefix(o)
  BY <1>1 DEF Prefix
<1>12. Len(s.bones) <= Len(s.bones) /\ o # Root
  BY <1>5 DEF Visited
<1> HIDE DEF r
<1> QED
  BY <1>1, <1>2, <1>4, <1>5, <1>6, <1>7, <1>8, <1>10, <1>11, <1>12 DEF WeighedOn, Apart, r

LEMMA WeighedPut ==
    ASSUME Types, Types', Weighed, NEW o, Visited(o), NEW s, NEW t, PutOn(o, s, t),
           SharedOn(o, s) \/ FirstOn(o, s)
    PROVE  Weighed'
<1> DEFINE r == file.skin[o].root
<1>1. /\ o \in Obj /\ o # Root /\ file.skin[o] # NoSkin /\ r \in Obj /\ file.up[o] = top.node
      /\ phase = "walk" /\ file \in Files /\ top.node \in Obj
  BY DEF Visited, Types
<1>2. file' = file /\ turned' = turned /\ phase' = phase
  BY DEF PutOn
<1>3. \A p \in Obj : WeighedOn(p)'
  <2> SUFFICES ASSUME NEW p \in Obj
               PROVE  WeighedOn(p)'
    OBVIOUS
  <2>1. CASE p = o /\ Drawn(o)
    BY <2>1, WeighedNew
  <2>2. CASE p # o \/ ~Drawn(o)
    BY <2>2, WeighedOld
  <2> QED
    BY <2>1, <2>2
<1>4. \A p \in Obj : p # o \/ ~Drawn(o) => mesh'[p] = mesh[p]
  BY <1>1 DEF PutOn, Types
<1>5. Drawn(o) => mesh'[o].on = r
  BY WeighedNew
<1>6. ASSUME NEW p \in Obj
      PROVE  mesh'[p] # NoMesh => mesh'[p].on # 0
  <2>1. 0 \notin Obj
    BY <1>1, Roots
  <2> QED
    BY <1>1, <1>4, <1>5, <2>1 DEF Weighed
<1>7. \A q \in DOMAIN skel' : q # r => q \in DOMAIN skel /\ skel'[q] = skel[q]
  BY DEF PutOn, With
<1>8. skel'[r] = t
  BY DEF PutOn, With
<1>9. \A p \in Obj : mesh[p].on # 0 => mesh'[p].on = mesh[p].on
  <2>1. mesh[o].on # 0 => mesh[o].on = r
    BY <1>1 DEF Weighed, WeighedOn
  <2> QED
    BY <1>1, <1>4, <1>5, <2>1
<1>10. ASSUME NEW q \in DOMAIN skel'
       PROVE  Owes(q)'
  <2>1. CASE q # r
    <3>1. q \in DOMAIN skel /\ skel'[q] = skel[q] /\ q # 0
      <4>1. q \in DOMAIN skel /\ skel'[q] = skel[q]
        BY <1>7, <2>1
      <4>2. q \in Obj /\ 0 \notin Obj
        BY <1>1, <4>1, Roots DEF Types
      <4> QED
        BY <4>1, <4>2
    <3>2. Owes(q)
      BY <3>1 DEF Weighed
    <3>3. \A p \in Obj : mesh[p].on = q => mesh'[p].on = q
      BY <1>9, <3>1
    <3> QED
      BY <1>2, <3>1, <3>2, <3>3 DEF Owes
  <2>2. CASE q = r
    <3>1. t.mismatches > 0 => \E p \in Obj : mesh'[p].on = r /\ p \in file.mismatch
      <4> SUFFICES ASSUME t.mismatches > 0
                   PROVE  \E p \in Obj : mesh'[p].on = r /\ p \in file.mismatch
        OBVIOUS
      <4>1. CASE Drawn(o) /\ o \in file.mismatch
        BY <1>1, <1>5, <4>1
      <4>2. CASE ~(Drawn(o) /\ o \in file.mismatch)
        <5>1. s.mismatches > 0
          BY <4>2 DEF PutOn
        <5>2. SharedOn(o, s)
          BY <5>1 DEF FirstOn
        <5>3. r \in DOMAIN skel /\ skel[r].mismatches > 0
          BY <5>1, <5>2 DEF SharedOn
        <5>4. PICK p \in Obj : mesh[p].on = r /\ p \in file.mismatch
          BY <5>3 DEF Weighed, Owes
        <5>5. r # 0
          BY <1>1, Roots
        <5> QED
          BY <1>9, <5>4, <5>5
      <4> QED
        BY <4>1, <4>2
    <3>2. t.host \in file.over[file.up[o]]
      <4>1. t.host = s.host
        BY DEF PutOn
      <4>2. CASE SharedOn(o, s)
        BY <1>1, <4>1, <4>2 DEF SharedOn
      <4>3. CASE FirstOn(o, s)
        BY <1>1, <4>1, <4>3, Roots DEF FirstOn
      <4> QED
        BY <4>2, <4>3
    <3> HIDE DEF r
    <3>3. r = file.skin[o].root
      BY DEF r
    <3> QED
      BY <1>1, <1>2, <1>8, <2>2, <3>1, <3>2, <3>3 DEF Owes
  <2> QED
    BY <2>1, <2>2
<1>11. turned' = {}
  BY <1>1, <1>2 DEF Weighed
<1> QED
  BY <1>3, <1>6, <1>10, <1>11 DEF Weighed

\* What does not touch the meshes and the skeletons keeps them.
LEMMA WeighedKept ==
    ASSUME Weighed, UNCHANGED <<file, skel, mesh>>,
           turned' # {} => phase' = "done", \A r \in turned' : Turns(r)'
    PROVE  Weighed'
<1>1. \A o \in Obj : Prefix(o)' = Prefix(o)
  BY DEF Prefix
<1>2. \A o \in Obj : WeighedOn(o)'
  BY <1>1 DEF Weighed, WeighedOn
<1>3. \A r \in DOMAIN skel' : Owes(r)'
  BY DEF Weighed, Owes
<1> QED
  BY <1>2, <1>3 DEF Weighed

LEMMA WeighedStep == Types /\ Types' /\ Weighed /\ [Next]_vars => Weighed'
<1> SUFFICES ASSUME Types, Types', Weighed, [Next]_vars
             PROVE  Weighed'
  OBVIOUS
<1>1. phase # "done" => turned = {}
  BY DEF Weighed
<1>2. CASE EnterNode
  BY <1>1, <1>2, WeighedKept DEF EnterNode
<1>3. CASE Leave
  BY <1>1, <1>3, WeighedKept DEF Leave
<1>4. CASE Leaf
  BY <1>1, <1>4, WeighedKept DEF Leaf
<1>5. CASE SharedSkeleton
  BY <1>5, SharedIs, WeighedPut
<1>6. CASE FirstSkeleton
  BY <1>6, FirstIs, WeighedPut
<1>7. CASE NoSkeleton
  BY <1>1, <1>7, WeighedKept DEF NoSkeleton, Visits
<1>8. CASE WalkDone
  BY <1>1, <1>8, WeighedKept DEF WalkDone
<1>9. CASE \E r \in Obj : Attach(r)
  BY <1>1, <1>9, WeighedKept DEF Attach
<1>10. CASE Correct
  <2>1. \A r \in turned' : Turns(r)'
    BY <1>10 DEF Correct, Turns
  <2> QED
    BY <1>10, <2>1, WeighedKept DEF Correct
<1>11. CASE Throw
  BY <1>1, <1>11, WeighedKept DEF Throw
<1>12. CASE UNCHANGED vars
  <2>1. \A r \in turned' : Turns(r)'
    BY <1>12 DEF vars, Weighed, Turns
  <2> QED
    BY <1>12, <2>1, WeighedKept DEF vars, Weighed
<1> QED
  BY <1>2, <1>3, <1>4, <1>5, <1>6, <1>7, <1>8, <1>9, <1>10, <1>11, <1>12 DEF Next

\* Skeletons that are turned are safe to turn.
LEMMA TurnedIs == Types /\ Weighed => TurnedSafely
<1> SUFFICES ASSUME Types, Weighed, NEW r \in turned
             PROVE  /\ \E o \in Obj : mesh[o].on = r /\ o \in file.mismatch
                    /\ \A o, p \in Obj : mesh[o].on = r /\ mesh[p].on = r =>
                            Prefix(o) - Prefix(p) \in -30..30
                    /\ r \in reparented => \A o \in Obj : mesh[o].on = r => Prefix(o) <= 20
  BY DEF TurnedSafely
<1>1. r \in DOMAIN skel /\ r # 0 /\ file \in Files
  <2>1. r \in DOMAIN skel /\ r \in Obj /\ file \in Files
    BY DEF Types
  <2> QED
    BY <2>1, Roots
<1>2. Turns(r) /\ skel[r].mismatches > 0 /\ skel[r].alike
  BY DEF Weighed, Turns
<1>3. \E o \in Obj : mesh[o].on = r /\ o \in file.mismatch
  BY <1>1, <1>2 DEF Weighed, Owes
<1> DEFINE a == skel[r].first
<1>4. a \in Nat
  BY <1>1 DEF Types, SkelType
<1>5. \A o \in Obj : mesh[o].on = r => ~Apart(a, Prefix(o)) /\ o # Root
  BY <1>1, <1>2 DEF Weighed, WeighedOn
<1>6. \A o \in Obj : mesh[o].on = r => Prefix(o) \in Nat
  <2> SUFFICES ASSUME NEW o \in Obj, mesh[o].on = r
               PROVE  Prefix(o) \in Nat
    OBVIOUS
  <2>1. file.up[o] \in Obj
    BY <1>1, <1>5, Parents
  <2>2. file.prefix \in [Obj -> Nat]
    BY <1>1, FilesAssumption
  <2> QED
    BY <2>1, <2>2 DEF Prefix
<1>7. r \in reparented => a <= 5
  BY <1>2 DEF Turns
<1> HIDE DEF a
<1>8. ASSUME NEW o \in Obj, mesh[o].on = r, NEW p \in Obj, mesh[p].on = r
      PROVE  Prefix(o) - Prefix(p) \in -30..30
  <2> DEFINE x == Prefix(o)
             y == Prefix(p)
  <2>1. ~Apart(a, x) /\ ~Apart(a, y) /\ x \in Nat /\ y \in Nat
    BY <1>5, <1>6, <1>8
  <2> HIDE DEF x, y
  <2>2. x - y \in -30..30
    BY <1>4, <2>1 DEF Apart
  <2> QED
    BY <2>2 DEF x, y
<1>9. ASSUME NEW o \in Obj, mesh[o].on = r, r \in reparented
      PROVE  Prefix(o) <= 20
  <2> DEFINE x == Prefix(o)
  <2>1. ~Apart(a, x) /\ x \in Nat /\ a <= 5
    BY <1>5, <1>6, <1>7, <1>9
  <2> HIDE DEF x
  <2>2. x <= 20
    BY <1>4, <2>1 DEF Apart
  <2> QED
    BY <2>2 DEF x
<1> QED
  BY <1>3, <1>8, <1>9

-----------------------------------------------------------------------------
(* What the traversal has still before it.                                   *)

\* Two children of one node are not over the same object.
LEMMA Siblings ==
    ASSUME NEW f \in Files, NEW c \in Obj, NEW a \in f.over[c], NEW b \in f.over[c],
           f.up[a] = f.up[b], a # Root, b # Root
    PROVE  a = b
<1>1. a \in Obj /\ b \in Obj
  BY Chain
<1>2. a \in f.over[b] \/ b \in f.over[a]
  BY Chain
<1> DEFINE n == f.up[a]
<1>3. f.over[a] = {a} \cup f.over[n] /\ a \notin f.over[n]
  BY <1>1, Parents
<1>4. f.over[b] = {b} \cup f.over[n] /\ b \notin f.over[n]
  BY <1>1, Parents
<1> QED
  BY <1>2, <1>3, <1>4

\* From a node to an object below it there is a child of it on the way.
LEMMA Toward ==
    ASSUME NEW f \in Files, NEW c \in Obj, NEW p \in f.over[c], p # c
    PROVE  \E a \in f.over[c] : f.up[a] = p /\ a # Root
<1> DEFINE S == f.over[c] \ f.over[p]
<1>1. p \in Obj /\ f.over[c] \in SUBSET Obj /\ c \in f.over[c] /\ c \notin f.over[p]
  BY Chain
<1>2. S \in SUBSET Nat /\ S # {}
  <2>1. Obj \subseteq Nat
    BY FilesAssumption
  <2> QED
    BY <1>1, <2>1
<1> HIDE DEF S
<1>3. PICK a \in S : \A e \in S : a <= e
  BY <1>2, Least
<1>4. a \in f.over[c] /\ a \notin f.over[p] /\ a \in Obj
  BY <1>1, <1>3 DEF S
<1>5. a # Root
  BY <1>1, <1>4, Roots
<1> DEFINE q == f.up[a]
<1>6. q \in Obj /\ q \in f.over[a] /\ q # a /\ f.over[a] = {a} \cup f.over[q]
  BY <1>4, <1>5, Parents
<1> HIDE DEF q
<1>7. q < a /\ q \in f.over[c] /\ q \in Nat /\ a \in Nat
  <2>1. q < a
    BY <1>4, <1>6, Chain
  <2>2. q \in f.over[c]
    BY <1>4, <1>6, Chain
  <2> QED
    BY <1>4, <1>6, <2>1, <2>2, Roots
<1>8. q \in f.over[p]
  <2>1. ~(a <= q)
    BY <1>7
  <2>2. q \notin S
    BY <1>3, <2>1
  <2> QED
    BY <1>7, <2>2 DEF S
<1>9. p \in f.over[a]
  BY <1>4, Chain
<1>10. p # a
  BY <1>1, <1>4, Roots
<1>11. p \in f.over[q]
  BY <1>6, <1>9, <1>10
<1>12. p = q
  BY <1>1, <1>6, <1>8, <1>11, Chain
<1> QED
  BY <1>4, <1>5, <1>12 DEF q

\* The child a call stands at is being met, for all calls but the top one.
Waits(j, c) ==
    \E i \in DOMAIN Children(file, stack[j].node) :
        /\ Children(file, stack[j].node)[i] \in file.over[c]
        /\ i >= stack[j].next /\ (j # 1 => i # stack[j].next)
Unmet == {c \in Obj : \E j \in DOMAIN stack : Waits(j, c)}

Calls ==
    /\ \A j \in DOMAIN stack :
        /\ file.kind[stack[j].node] \in NodeKinds
        /\ file.kind[stack[j].node] = "node" => stack[j].mode = "node"
        /\ Handled(stack[j].node) => stack[j].mode = file.kind[stack[j].node]
        /\ stack[j].node = Root => stack[j].mode = "node"
    /\ \A j \in 1 .. Len(stack) - 1 :
        /\ stack[j + 1].next \in DOMAIN Children(file, stack[j + 1].node)
        /\ stack[j].node = Children(file, stack[j + 1].node)[stack[j + 1].next]
    /\ \A i, j \in DOMAIN stack : i <= j => stack[j].node \in file.over[stack[i].node]
    /\ phase \notin {"walk", "thrown"} => stack = <<>>

LEMMA CallsInit == Init => Calls
<1> SUFFICES ASSUME Init
             PROVE  Calls
  OBVIOUS
<1>1. file \in Files /\ phase = "walk" /\ stack = <<Frame(Root, "node")>>
  BY DEF Init
<1>2. Len(stack) = 1 /\ DOMAIN stack = {1} /\ stack[1].node = Root /\ stack[1].mode = "node"
  <2> DEFINE f == Frame(Root, "node")
  <2>1. f.node = Root /\ f.mode = "node"
    BY DEF Frame
  <2> HIDE DEF f
  <2>2. stack = <<f>>
    BY <1>1 DEF f
  <2> QED
    BY <2>1, <2>2
<1>3. \A j \in 1 .. Len(stack) - 1 : FALSE
  BY <1>2
<1>4. Root \in file.over[Root] /\ file.kind[Root] \in NodeKinds
  BY <1>1, Roots
<1> QED
  BY <1>1, <1>2, <1>3, <1>4 DEF Calls, Handled

\* The calls after one that has advanced.
LEMMA CallsAdvanced ==
    ASSUME Types, Calls, phase = "walk", stack # <<>>, Pending, stack' = Advance,
           file' = file, phase' = phase
    PROVE  Calls'
<1> DEFINE n == Len(stack)
           st == stack'
<1>1. stack \in Seq(FrameType) /\ n \in Nat /\ DOMAIN stack = 1 .. n /\ n > 0
  BY DEF Types
<1>2. Len(st) = n /\ DOMAIN st = 1 .. n /\ \A j \in 1 .. n : j # 1 => st[j] = stack[j]
  BY <1>1, AdvanceIs
<1>3. st[1].node = stack[1].node /\ st[1].mode = stack[1].mode
  BY AdvanceIs, ChildIs
<1> HIDE DEF n, st
<1>4. \A j \in 1 .. n : st[j].node = stack[j].node /\ st[j].mode = stack[j].mode
  BY <1>2, <1>3
<1>5. \A j \in 1 .. n - 1 : j + 1 \in 1 .. n /\ j + 1 # 1 /\ j \in 1 .. n
  BY <1>1
<1>6. \A j \in 1 .. n - 1 : st[j + 1] = stack[j + 1]
  BY <1>2, <1>5
<1>8. \A j \in DOMAIN st :
        /\ file.kind[st[j].node] \in NodeKinds
        /\ file.kind[st[j].node] = "node" => st[j].mode = "node"
        /\ Handled(st[j].node) => st[j].mode = file.kind[st[j].node]
        /\ st[j].node = Root => st[j].mode = "node"
  BY <1>1, <1>2, <1>4 DEF Calls
<1>9. \A j \in 1 .. n - 1 :
        /\ st[j + 1].next \in DOMAIN Children(file, st[j + 1].node)
        /\ st[j].node = Children(file, st[j + 1].node)[st[j + 1].next]
  BY <1>4, <1>5, <1>6 DEF Calls, n
<1>10. \A i, j \in DOMAIN st : i <= j => st[j].node \in file.over[st[i].node]
  BY <1>1, <1>2, <1>4 DEF Calls
<1> QED
  BY <1>2, <1>8, <1>9, <1>10 DEF Calls, Handled, st

LEMMA CallsEntered == Types /\ Calls /\ EnterNode => Calls'
<1> SUFFICES ASSUME Types, Calls, EnterNode
             PROVE  Calls'
  OBVIOUS
<1> DEFINE n == Len(stack)
           st == stack'
<1>1. /\ stack \in Seq(FrameType) /\ n \in Nat /\ DOMAIN stack = 1 .. n /\ file \in Files
      /\ stack # <<>> /\ Pending /\ file.kind[child] \in NodeKinds /\ phase = "walk"
      /\ file' = file /\ phase' = phase /\ 1 \in 1 .. n
  <2>1. stack \in Seq(FrameType) /\ stack # <<>> /\ file \in Files
    BY DEF Types, EnterNode
  <2> QED
    BY <2>1 DEF EnterNode
<1>2. /\ child \in Obj /\ file.up[child] = top.node /\ child # Root /\ top = stack[1]
      /\ top.node \in Obj /\ top.next \in DOMAIN Children(file, top.node)
      /\ child = Children(file, top.node)[top.next]
  BY <1>1, ChildIs
<1>3. /\ Len(st) = n + 1 /\ DOMAIN st = 1 .. n + 1
      /\ st[1] = Frame(child, ModeOf(child)) /\ \A j \in 1 .. n : st[j + 1] = stack[j]
  <2>1. st \in Seq(FrameType) /\ Len(st) = n + 1 /\ st[1] = Frame(child, ModeOf(child))
    BY EnterIs
  <2>2. \A j \in 1 .. n : st[j + 1] = stack[j]
    BY EnterIs
  <2> QED
    BY <2>1, <2>2
<1>4. st[1].node = child /\ st[1].mode = ModeOf(child)
  BY <1>3 DEF Frame
<1> HIDE DEF n, st
<1>5. \A j \in 1 .. n + 1 : j # 1 => j - 1 \in 1 .. n /\ j - 1 + 1 = j
  BY <1>1
<1>6. \A j \in 1 .. n + 1 : j # 1 => st[j] = stack[j - 1]
  <2> SUFFICES ASSUME NEW j \in 1 .. n + 1, j # 1
               PROVE  st[j] = stack[j - 1]
    OBVIOUS
  <2> DEFINE i == j - 1
  <2>1. i \in 1 .. n /\ i + 1 = j
    BY <1>5
  <2> HIDE DEF i
  <2>2. st[i + 1] = stack[i]
    BY <1>3, <2>1
  <2> QED
    BY <2>1, <2>2 DEF i
<1>7. ASSUME NEW j \in DOMAIN st
      PROVE  /\ file.kind[st[j].node] \in NodeKinds
             /\ file.kind[st[j].node] = "node" => st[j].mode = "node"
             /\ Handled(st[j].node) => st[j].mode = file.kind[st[j].node]
             /\ st[j].node = Root => st[j].mode = "node"
  <2>1. CASE j = 1
    <3>1. Handled(child) => top.mode = "node"
      BY <1>1, <1>2 DEF Handled, Calls
    <3> QED
      BY <1>1, <1>2, <1>4, <2>1, <3>1 DEF ModeOf, Handled
  <2>2. CASE j # 1
    <3> DEFINE i == j - 1
    <3>1. i \in DOMAIN stack /\ st[j] = stack[i]
      BY <1>1, <1>3, <1>5, <1>6, <2>2
    <3> HIDE DEF i
    <3> QED
      BY <3>1 DEF Calls
  <2> QED
    BY <2>1, <2>2
<1>8. ASSUME NEW j \in 1 .. n
      PROVE  /\ st[j + 1].next \in DOMAIN Children(file, st[j + 1].node)
             /\ st[j].node = Children(file, st[j + 1].node)[st[j + 1].next]
  <2>1. st[j + 1] = stack[j]
    BY <1>3
  <2>2. CASE j = 1
    BY <1>2, <1>4, <2>1, <2>2
  <2>3. CASE j # 1
    <3> DEFINE i == j - 1
    <3>1. i \in 1 .. n - 1 /\ i + 1 = j /\ j \in 1 .. n + 1
      BY <1>1, <2>3
    <3>2. st[j] = stack[i]
      BY <1>6, <2>3, <3>1
    <3> HIDE DEF i
    <3>3. /\ stack[i + 1].next \in DOMAIN Children(file, stack[i + 1].node)
          /\ stack[i].node = Children(file, stack[i + 1].node)[stack[i + 1].next]
      BY <3>1 DEF Calls, n
    <3> QED
      BY <2>1, <3>1, <3>2, <3>3
  <2> QED
    BY <2>2, <2>3
<1>9. \A j \in 1 .. n : stack[j].node \in file.over[child]
  <2>1. file.over[child] = {child} \cup file.over[top.node]
    BY <1>1, <1>2, Parents
  <2>2. \A j \in 1 .. n : 1 <= j
    BY <1>1
  <2> QED
    BY <1>1, <1>2, <2>1, <2>2 DEF Calls
<1>10. ASSUME NEW i \in DOMAIN st, NEW j \in DOMAIN st, i <= j
       PROVE  st[j].node \in file.over[st[i].node]
  <2>1. CASE i = 1 /\ j = 1
    BY <1>1, <1>2, <1>4, <2>1, Roots
  <2>2. CASE i = 1 /\ j # 1
    <3>1. j - 1 \in 1 .. n /\ st[j] = stack[j - 1]
      BY <1>3, <1>5, <1>6, <2>2
    <3> QED
      BY <1>4, <1>9, <2>2, <3>1
  <2>3. CASE i # 1
    <3>1. j # 1 /\ i - 1 \in 1 .. n /\ j - 1 \in 1 .. n /\ i - 1 <= j - 1
      BY <1>1, <1>3, <1>5, <1>10, <2>3
    <3>2. st[i] = stack[i - 1] /\ st[j] = stack[j - 1]
      BY <1>3, <1>6, <2>3, <3>1
    <3> QED
      BY <1>1, <3>1, <3>2 DEF Calls
  <2> QED
    BY <2>1, <2>2, <2>3
<1>11. Len(st) - 1 = n
  BY <1>1, <1>3
<1> QED
  BY <1>1, <1>7, <1>8, <1>10, <1>11 DEF Calls, Handled, st

LEMMA CallsLeft == Types /\ Calls /\ Leave => Calls'
<1> SUFFICES ASSUME Types, Calls, Leave
             PROVE  Calls'
  OBVIOUS
<1> DEFINE n == Len(stack)
           st == stack'
<1>1. /\ st \in Seq(FrameType) /\ n \in Nat /\ Len(st) = n - 1 /\ DOMAIN stack = 1 .. n
      /\ file' = file /\ phase' = phase /\ DOMAIN st = 1 .. n - 1 /\ phase = "walk"
  <2>1. st \in Seq(FrameType) /\ n \in Nat /\ Len(st) = n - 1
    BY LeaveIs
  <2>2. stack \in Seq(FrameType)
    BY DEF Types
  <2>3. file' = file /\ phase' = phase /\ phase = "walk"
    BY DEF Leave
  <2> HIDE DEF st
  <2> QED
    BY <2>1, <2>2, <2>3
<1>2. \A j \in 1 .. n - 1 : /\ j + 1 \in 1 .. n /\ st[j].node = stack[j + 1].node
                            /\ st[j].mode = stack[j + 1].mode
  BY LeaveIs
<1>3. \A j \in 1 .. n - 1 : j # 1 => st[j].next = stack[j + 1].next
  <2>1. \A j \in 1 .. n - 1 : st[j].next = stack[j + 1].next + (IF j = 1 THEN 1 ELSE 0)
    BY LeaveIs
  <2>2. \A j \in 1 .. n - 1 : stack[j + 1].next \in Nat
    <3> SUFFICES ASSUME NEW j \in 1 .. n - 1
                 PROVE  stack[j + 1].next \in Nat
      OBVIOUS
    <3> DEFINE i == j + 1
    <3>1. i \in DOMAIN stack
      BY <1>1, <1>2
    <3> HIDE DEF i, st
    <3>2. stack[i] \in FrameType
      BY <3>1 DEF Types
    <3> QED
      BY <3>2 DEF FrameType, i
  <2> HIDE DEF st, n
  <2> SUFFICES ASSUME NEW j \in 1 .. n - 1, j # 1
               PROVE  st[j].next = stack[j + 1].next
    OBVIOUS
  <2>3. st[j].next = stack[j + 1].next + 0
    BY <2>1
  <2> QED
    BY <2>2, <2>3
<1> HIDE DEF n, st
<1>4. ASSUME NEW j \in DOMAIN st
      PROVE  /\ file.kind[st[j].node] \in NodeKinds
             /\ file.kind[st[j].node] = "node" => st[j].mode = "node"
             /\ Handled(st[j].node) => st[j].mode = file.kind[st[j].node]
             /\ st[j].node = Root => st[j].mode = "node"
  <2> DEFINE i == j + 1
  <2>1. i \in DOMAIN stack /\ st[j].node = stack[i].node /\ st[j].mode = stack[i].mode
    BY <1>1, <1>2
  <2> HIDE DEF i
  <2> QED
    BY <2>1 DEF Calls
<1>5. ASSUME NEW j \in 1 .. Len(st) - 1
      PROVE  /\ st[j + 1].next \in DOMAIN Children(file, st[j + 1].node)
             /\ st[j].node = Children(file, st[j + 1].node)[st[j + 1].next]
  <2> DEFINE i == j + 1
  <2>1. i \in 1 .. n - 1 /\ j \in 1 .. n - 1 /\ i # 1
    BY <1>1
  <2> HIDE DEF i
  <2>2. st[i].next = stack[i + 1].next /\ st[i].node = stack[i + 1].node
    BY <1>2, <1>3, <2>1
  <2>3. st[j].node = stack[i].node
    BY <1>2, <2>1 DEF i
  <2>4. /\ stack[i + 1].next \in DOMAIN Children(file, stack[i + 1].node)
        /\ stack[i].node = Children(file, stack[i + 1].node)[stack[i + 1].next]
    BY <2>1 DEF Calls, n
  <2> QED
    BY <2>2, <2>3, <2>4 DEF i
<1>6. ASSUME NEW i \in DOMAIN st, NEW j \in DOMAIN st, i <= j
      PROVE  st[j].node \in file.over[st[i].node]
  <2> DEFINE a == i + 1
             b == j + 1
  <2>1. a \in DOMAIN stack /\ b \in DOMAIN stack /\ a <= b
    BY <1>1, <1>6
  <2>2. st[i].node = stack[a].node /\ st[j].node = stack[b].node
    BY <1>1, <1>2
  <2> HIDE DEF a, b
  <2> QED
    BY <2>1, <2>2 DEF Calls
<1> QED
  BY <1>1, <1>4, <1>5, <1>6 DEF Calls, Handled, st

LEMMA CallsStep == Types /\ Calls /\ [Next]_vars => Calls'
<1> SUFFICES ASSUME Types, Calls, [Next]_vars
             PROVE  Calls'
  OBVIOUS
<1>1. ASSUME UNCHANGED <<file, stack>>, phase' \in {"walk", "thrown"} \/ stack = <<>>
      PROVE  Calls'
  BY <1>1 DEF Calls, Handled
<1>2. CASE EnterNode
  BY <1>2, CallsEntered
<1>3. CASE Leave
  BY <1>3, CallsLeft
<1>4. CASE Leaf
  BY <1>4, CallsAdvanced DEF Leaf
<1>5. CASE SharedSkeleton
  <2>1. PICK o, s, t : Visited(o) /\ PutOn(o, s, t)
    BY <1>5, SharedIs
  <2> QED
    BY <2>1, CallsAdvanced DEF Visited, PutOn
<1>6. CASE FirstSkeleton
  <2>1. PICK o, s, t : Visited(o) /\ PutOn(o, s, t)
    BY <1>6, FirstIs
  <2> QED
    BY <2>1, CallsAdvanced DEF Visited, PutOn
<1>7. CASE NoSkeleton
  BY <1>7, CallsAdvanced DEF NoSkeleton, Visits
<1>8. CASE WalkDone
  BY <1>1, <1>8 DEF WalkDone
<1>9. CASE \E r \in Obj : Attach(r)
  <2>1. stack = <<>>
    BY <1>9 DEF Attach, Calls
  <2> QED
    BY <1>1, <1>9, <2>1 DEF Attach
<1>10. CASE Correct
  <2>1. stack = <<>>
    BY <1>10 DEF Correct, Calls
  <2> QED
    BY <1>1, <1>10, <2>1 DEF Correct
<1>11. CASE Throw
  BY <1>1, <1>11 DEF Throw
<1>12. CASE UNCHANGED vars
  <2>1. phase \in {"walk", "thrown"} \/ stack = <<>>
    BY DEF Calls
  <2> QED
    BY <1>1, <1>12, <2>1 DEF vars
<1> QED
  BY <1>2, <1>3, <1>4, <1>5, <1>6, <1>7, <1>8, <1>9, <1>10, <1>11, <1>12 DEF Next

\* What the calls have still before them, below the children they stand at,
\* and what is below a.
Later ==
    {c \in Obj : \E j \in DOMAIN stack : \E i \in DOMAIN Children(file, stack[j].node) :
        Children(file, stack[j].node)[i] \in file.over[c] /\ i > stack[j].next}
Beneath(a) == {c \in Obj : a \in file.over[c]}

\* A call.
LEMMA FrameIs ==
    ASSUME Types, Calls, NEW j \in DOMAIN stack
    PROVE  /\ stack[j].node \in Obj /\ stack[j].next \in Nat \ {0} /\ j \in Nat /\ j >= 1
           /\ 1 \in DOMAIN stack /\ file \in Files
           /\ j # 1 => /\ j - 1 \in DOMAIN stack /\ j - 1 >= 1 /\ j - 1 + 1 = j
                       /\ stack[j].next \in DOMAIN Children(file, stack[j].node)
                       /\ stack[j - 1].node = Children(file, stack[j].node)[stack[j].next]
                       /\ stack[j - 1].node \in file.over[stack[1].node]
<1>1. stack \in Seq(FrameType) /\ file \in Files
  BY DEF Types
<1> DEFINE n == Len(stack)
<1>2. n \in Nat /\ DOMAIN stack = 1 .. n /\ stack[j] \in FrameType
  BY <1>1
<1>3. stack[j].node \in Obj /\ stack[j].next \in Nat \ {0}
  BY <1>2 DEF FrameType
<1> HIDE DEF n
<1>4. j \in Nat /\ j >= 1 /\ 1 \in DOMAIN stack
  BY <1>2
<1>5. ASSUME j # 1
      PROVE  /\ j - 1 \in DOMAIN stack /\ j - 1 >= 1 /\ j - 1 + 1 = j
             /\ stack[j].next \in DOMAIN Children(file, stack[j].node)
             /\ stack[j - 1].node = Children(file, stack[j].node)[stack[j].next]
             /\ stack[j - 1].node \in file.over[stack[1].node]
  <2> DEFINE i == j - 1
  <2>1. i \in 1 .. n - 1 /\ i + 1 = j /\ i \in DOMAIN stack /\ 1 <= i
    BY <1>2, <1>5
  <2> HIDE DEF i
  <2>2. /\ stack[i + 1].next \in DOMAIN Children(file, stack[i + 1].node)
        /\ stack[i].node = Children(file, stack[i + 1].node)[stack[i + 1].next]
    BY <2>1 DEF Calls, n
  <2>3. stack[i].node \in file.over[stack[1].node]
    BY <1>4, <2>1 DEF Calls
  <2> QED
    BY <2>1, <2>2, <2>3 DEF i
<1> QED
  BY <1>1, <1>3, <1>4, <1>5

\* A call of a child is below the call it was made by.
LEMMA CallsDescend ==
    ASSUME Types, Calls, NEW i \in DOMAIN stack, NEW j \in DOMAIN stack, i < j
    PROVE  stack[i].node \notin file.over[stack[j].node]
<1> DEFINE m == i + 1
<1>1. i \in Nat /\ j \in Nat /\ stack[i].node \in Obj /\ stack[j].node \in Obj /\ file \in Files
  BY FrameIs
<1>2. m \in DOMAIN stack /\ m # 1 /\ m - 1 = i /\ m <= j
  <2>1. stack \in Seq(FrameType)
    BY DEF Types
  <2> QED
    BY <1>1, <2>1
<1> HIDE DEF m
<1> DEFINE n == stack[m].node
           a == stack[i].node
<1>3. n \in Obj /\ a = Children(file, n)[stack[m].next] /\ stack[m].next \in DOMAIN Children(file, n)
  BY <1>2, FrameIs
<1> HIDE DEF n
<1>4. file.up[a] = n /\ a # Root /\ a \in Obj
  BY <1>1, <1>3, ChildrenOf
<1>5. a \notin file.over[n]
  BY <1>1, <1>4, Parents
<1>6. stack[j].node \in file.over[n]
  BY <1>2 DEF Calls, n
<1>7. file.over[stack[j].node] \subseteq file.over[n]
  BY <1>1, <1>3, <1>6, Chain
<1> QED
  BY <1>5, <1>7

\* What is over a node whose call runs has been met.
LEMMA OverMet ==
    ASSUME Types, Calls, NEW j \in DOMAIN stack, NEW p \in file.over[stack[j].node]
    PROVE  p \notin Unmet /\ p \in Obj /\ file.kind[p] \in NodeKinds
<1>1. file \in Files /\ stack[j].node \in Obj /\ j \in Nat
  BY FrameIs
<1> DEFINE n == stack[j].node
<1>2. p \in Obj /\ file.over[p] \subseteq file.over[n] /\ (p # n => file.kind[p] \in NodeKinds)
  BY <1>1, Chain
<1>3. file.kind[n] \in NodeKinds
  BY DEF Calls
<1>4. ASSUME NEW i \in DOMAIN stack, Waits(i, p)
      PROVE  FALSE
  <2> DEFINE m == stack[i].node
  <2>1. m \in Obj /\ i \in Nat
    BY FrameIs
  <2>2. PICK x \in DOMAIN Children(file, m) :
            Children(file, m)[x] \in file.over[p] /\ (i # 1 => x # stack[i].next)
    BY <1>4 DEF Waits
  <2> HIDE DEF m
  <2> DEFINE a == Children(file, m)[x]
  <2>3. a \in Obj /\ file.up[a] = m /\ a # Root /\ a \in file.over[n]
    BY <1>1, <1>2, <2>1, <2>2, ChildrenOf
  <2>4. a \notin file.over[m]
    BY <1>1, <2>3, Parents
  <2> HIDE DEF a
  <2>5. i > j
    <3>1. CASE i <= j
      <4>1. n \in file.over[m]
        BY <3>1 DEF Calls, m
      <4>2. file.over[n] \subseteq file.over[m]
        BY <1>1, <2>1, <4>1, Chain
      <4> QED
        BY <2>3, <2>4, <4>2
    <3> QED
      BY <1>1, <2>1, <3>1
  <2> DEFINE h == i - 1
  <2>6. h \in DOMAIN stack /\ j <= h /\ i # 1
    <3>1. i # 1 /\ i \in Nat /\ i - 1 \in DOMAIN stack
      BY <1>1, <2>1, <2>5, FrameIs
    <3> QED
      BY <1>1, <2>5, <3>1
  <2>7. stack[h].node = Children(file, m)[stack[i].next] /\ stack[i].next \in DOMAIN Children(file, m)
    BY <2>6, FrameIs DEF m
  <2> HIDE DEF h
  <2> DEFINE b == stack[h].node
  <2>8. b \in file.over[n]
    BY <2>6 DEF Calls
  <2>9. b \in Obj /\ file.up[b] = m /\ b # Root
    BY <1>1, <2>1, <2>7, ChildrenOf
  <2> HIDE DEF b
  <2>10. a = b
    BY <1>1, <2>3, <2>8, <2>9, Siblings
  <2>11. x = stack[i].next
    BY <1>1, <2>1, <2>2, <2>7, <2>10, ChildrenOf DEF a, b
  <2> QED
    BY <2>2, <2>6, <2>11
<1>5. p \notin Unmet
  BY <1>4 DEF Unmet
<1> QED
  BY <1>2, <1>3, <1>5

\* Before a child is met, it and what is below it are unmet.
LEMMA UnmetPending ==
    ASSUME Types, Calls, stack # <<>>, Pending
    PROVE  Unmet = Later \cup Beneath(child) /\ Later \cap Beneath(child) = {}
<1>1. /\ file \in Files /\ 1 \in DOMAIN stack /\ top = stack[1] /\ top.node \in Obj
      /\ top.next \in DOMAIN Children(file, top.node) /\ child = Children(file, top.node)[top.next]
      /\ child \in Obj /\ file.up[child] = top.node /\ child # Root
  BY ChildIs DEF Types
<1>2. ASSUME NEW c \in Unmet
      PROVE  c \in Later \cup Beneath(child)
  <2>1. PICK j \in DOMAIN stack : \E i \in DOMAIN Children(file, stack[j].node) :
            /\ Children(file, stack[j].node)[i] \in file.over[c]
            /\ i >= stack[j].next /\ (j # 1 => i # stack[j].next)
    BY DEF Unmet, Waits
  <2>2. PICK i \in DOMAIN Children(file, stack[j].node) :
            /\ Children(file, stack[j].node)[i] \in file.over[c]
            /\ i >= stack[j].next /\ (j # 1 => i # stack[j].next)
    BY <2>1
  <2>3. c \in Obj
    BY DEF Unmet
  <2>4. CASE i = stack[j].next
    <3>1. j = 1 /\ i = top.next
      BY <1>1, <2>2, <2>4
    <3> QED
      BY <1>1, <2>2, <2>3, <3>1 DEF Beneath
  <2>5. CASE i # stack[j].next
    <3>1. stack[j].node \in Obj /\ stack[j].next \in Nat /\ i \in Nat
      BY <1>1, <2>2, FrameIs, ChildrenOf
    <3>2. i > stack[j].next
      BY <2>2, <2>5, <3>1
    <3> QED
      BY <2>2, <2>3, <3>2 DEF Later
  <2> QED
    BY <2>4, <2>5
<1>3. ASSUME NEW c \in Later
      PROVE  c \in Unmet /\ c \notin Beneath(child)
  <2>1. c \in Obj
    BY DEF Later
  <2>2. PICK j \in DOMAIN stack : \E i \in DOMAIN Children(file, stack[j].node) :
            Children(file, stack[j].node)[i] \in file.over[c] /\ i > stack[j].next
    BY DEF Later
  <2> DEFINE n == stack[j].node
             x == stack[j].next
  <2>3. PICK i \in DOMAIN Children(file, n) : Children(file, n)[i] \in file.over[c] /\ i > x
    BY <2>2
  <2>4. n \in Obj /\ x \in Nat
    BY FrameIs
  <2>5. i \in Nat /\ i >= x /\ i # x
    BY <1>1, <2>3, <2>4, ChildrenOf
  <2>6. c \in Unmet
    BY <2>1, <2>3, <2>5 DEF Unmet, Waits
  <2> DEFINE a == Children(file, n)[i]
  <2>7. ASSUME child \in file.over[c]
        PROVE  FALSE
    <3>1. a \in file.over[c] /\ file.up[a] = n /\ a # Root
      BY <1>1, <2>3, <2>4, ChildrenOf
    <3>2. CASE j = 1
      <4>1. file.up[child] = n /\ child = Children(file, n)[x] /\ x \in DOMAIN Children(file, n)
        BY <1>1, <3>2
      <4> HIDE DEF a, n, x
      <4>2. a = child
        BY <1>1, <2>1, <2>7, <3>1, <4>1, Siblings
      <4> QED
        BY <1>1, <2>3, <2>4, <2>5, <4>1, <4>2, ChildrenOf DEF a
    <3>3. CASE j # 1
      <4> DEFINE b == stack[j - 1].node
      <4>1. /\ x \in DOMAIN Children(file, n) /\ b = Children(file, n)[x]
            /\ b \in file.over[top.node]
        BY <1>1, <3>3, FrameIs
      <4> HIDE DEF a, n, x, b
      <4>2. b \in file.over[c]
        <5>1. file.over[top.node] \subseteq file.over[child]
          BY <1>1, Parents
        <5>2. file.over[child] \subseteq file.over[c]
          BY <1>1, <2>1, <2>7, Chain
        <5> QED
          BY <4>1, <5>1, <5>2
      <4>3. file.up[b] = n /\ b # Root
        BY <1>1, <2>4, <4>1, ChildrenOf
      <4>4. a = b
        BY <1>1, <2>1, <3>1, <4>2, <4>3, Siblings
      <4> QED
        BY <1>1, <2>3, <2>4, <2>5, <4>1, <4>4, ChildrenOf DEF a
    <3> QED
      BY <3>2, <3>3
  <2> QED
    BY <2>6, <2>7 DEF Beneath
<1>4. ASSUME NEW c \in Beneath(child)
      PROVE  c \in Unmet
  <2>1. top.next \in Nat /\ stack[1].next = top.next /\ stack[1].node = top.node
    BY <1>1, ChildrenOf
  <2>2. c \in Obj /\ Children(file, top.node)[top.next] \in file.over[c] /\ top.next >= top.next
    BY <1>1, <2>1 DEF Beneath
  <2>3. Waits(1, c)
    BY <1>1, <2>1, <2>2 DEF Waits
  <2> QED
    BY <1>1, <2>2, <2>3 DEF Unmet
<1> QED
  BY <1>2, <1>3, <1>4

\* A call that has met all of its children has nothing before it.
LEMMA UnmetDone ==
    ASSUME Types, Calls, stack # <<>>, ~Pending
    PROVE  Unmet = Later
<1>1. stack \in Seq(FrameType) /\ file \in Files
  BY DEF Types
<1>2. 1 \in DOMAIN stack /\ top = stack[1]
  BY <1>1 DEF top
<1>3. top.node \in Obj /\ top.next \in Nat
  BY <1>2, FrameIs
<1>4. \A i \in DOMAIN Children(file, top.node) : ~(i >= top.next)
  <2> DEFINE m == Len(Children(file, top.node))
  <2>1. m \in Nat /\ DOMAIN Children(file, top.node) = 1 .. m
    BY <1>1, <1>3, ChildrenOf
  <2>2. ~(top.next <= m)
    BY DEF Pending
  <2> HIDE DEF m
  <2> QED
    BY <1>3, <2>1, <2>2
<1>5. ASSUME NEW c \in Unmet
      PROVE  c \in Later
  <2>1. PICK j \in DOMAIN stack : \E i \in DOMAIN Children(file, stack[j].node) :
            /\ Children(file, stack[j].node)[i] \in file.over[c]
            /\ i >= stack[j].next /\ (j # 1 => i # stack[j].next)
    BY DEF Unmet, Waits
  <2>2. PICK i \in DOMAIN Children(file, stack[j].node) :
            /\ Children(file, stack[j].node)[i] \in file.over[c]
            /\ i >= stack[j].next /\ (j # 1 => i # stack[j].next)
    BY <2>1
  <2>3. c \in Obj
    BY DEF Unmet
  <2>4. j # 1
    BY <1>2, <1>4, <2>2
  <2>5. stack[j].node \in Obj /\ stack[j].next \in Nat /\ i \in Nat
    BY <1>1, <2>2, FrameIs, ChildrenOf
  <2>6. i > stack[j].next
    BY <2>2, <2>4, <2>5
  <2> QED
    BY <2>2, <2>3, <2>6 DEF Later
<1>6. ASSUME NEW c \in Later
      PROVE  c \in Unmet
  <2>1. c \in Obj
    BY DEF Later
  <2>2. PICK j \in DOMAIN stack : \E i \in DOMAIN Children(file, stack[j].node) :
            Children(file, stack[j].node)[i] \in file.over[c] /\ i > stack[j].next
    BY DEF Later
  <2> DEFINE n == stack[j].node
             x == stack[j].next
  <2>3. PICK i \in DOMAIN Children(file, n) : Children(file, n)[i] \in file.over[c] /\ i > x
    BY <2>2
  <2>4. n \in Obj /\ x \in Nat
    BY FrameIs
  <2>5. i \in Nat /\ i >= x /\ i # x
    BY <1>1, <2>3, <2>4, ChildrenOf
  <2> QED
    BY <2>1, <2>3, <2>5 DEF Unmet, Waits
<1> QED
  BY <1>5, <1>6

\* The first call has everything but its own node before it.
LEMMA UnmetInit == Init => Unmet = Obj \ {Root}
<1> SUFFICES ASSUME Init
             PROVE  Unmet = Obj \ {Root}
  OBVIOUS
<1>1. file \in Files /\ stack = <<Frame(Root, "node")>>
  BY DEF Init
<1>2. DOMAIN stack = {1} /\ stack[1].node = Root /\ stack[1].next = 1
  <2> DEFINE f == Frame(Root, "node")
  <2>1. f.node = Root /\ f.next = 1
    BY DEF Frame
  <2> HIDE DEF f
  <2>2. stack = <<f>>
    BY <1>1 DEF f
  <2> QED
    BY <2>1, <2>2
<1>3. Root \in Obj
  BY <1>1, Roots
<1>4. ASSUME NEW c \in Obj, c # Root
      PROVE  c \in Unmet
  <2>1. Root \in file.over[c]
    BY <1>1, Roots
  <2>2. PICK a \in file.over[c] : file.up[a] = Root /\ a # Root
    BY <1>1, <1>4, <2>1, Toward
  <2>3. a \in Obj
    BY <1>1, Roots
  <2>4. PICK i \in DOMAIN Children(file, Root) : Children(file, Root)[i] = a
    BY <1>1, <1>3, <2>2, <2>3, ChildrenOf
  <2>5. i >= 1
    BY <1>1, <1>3, ChildrenOf
  <2> QED
    BY <1>2, <2>4, <2>5 DEF Unmet, Waits
<1>5. Root \notin Unmet
  <2>1. ASSUME Root \in Unmet
        PROVE  FALSE
    <3>1. PICK i \in DOMAIN Children(file, Root) : Children(file, Root)[i] \in file.over[Root]
      BY <1>2, <2>1 DEF Unmet, Waits
    <3> DEFINE a == Children(file, Root)[i]
    <3>2. a \in Obj /\ a # Root
      BY <1>1, <1>3, ChildrenOf
    <3>3. Root \in file.over[a]
      BY <1>1, <3>2, Roots
    <3> HIDE DEF a
    <3>4. a \in file.over[Root]
      BY <3>1 DEF a
    <3> QED
      BY <1>1, <1>3, <3>2, <3>3, <3>4, Chain
  <2> QED
    BY <2>1
<1> QED
  BY <1>4, <1>5 DEF Unmet

\* The steps of the traversal.
LEMMA UnmetAdvanced ==
    ASSUME Types, Calls, stack # <<>>, Pending, stack' = Advance, file' = file
    PROVE  Unmet' = Later
<1> DEFINE st == stack'
<1>1. /\ DOMAIN st = DOMAIN stack /\ st[1].node = stack[1].node /\ 1 \in DOMAIN stack
      /\ st[1].next = stack[1].next + 1 /\ \A j \in DOMAIN stack : j # 1 => st[j] = stack[j]
  BY AdvanceIs, ChildIs
<1> HIDE DEF st
<1>2. ASSUME NEW c \in Obj, NEW j \in DOMAIN stack, NEW i \in DOMAIN Children(file, stack[j].node)
      PROVE  /\ st[j].node = stack[j].node
             /\ (i >= st[j].next /\ (j # 1 => i # st[j].next)) <=> i > stack[j].next
  <2>1. stack[j].node \in Obj /\ stack[j].next \in Nat /\ file \in Files
    BY FrameIs
  <2>2. i \in Nat
    BY <2>1, ChildrenOf
  <2>3. CASE j = 1
    BY <1>1, <2>1, <2>2, <2>3
  <2>4. CASE j # 1
    BY <1>1, <2>1, <2>2, <2>4
  <2> QED
    BY <2>3, <2>4
<1>3. ASSUME NEW c \in Obj, NEW j \in DOMAIN stack
      PROVE  Waits(j, c)' <=> \E i \in DOMAIN Children(file, stack[j].node) :
                Children(file, stack[j].node)[i] \in file.over[c] /\ i > stack[j].next
  <2>1. st[j].node = stack[j].node
    BY <1>1
  <2> QED
    BY <1>2, <2>1 DEF Waits, st
<1> QED
  BY <1>1, <1>3 DEF Unmet, Later, st

LEMMA UnmetEntered ==
    ASSUME Types, Calls, EnterNode
    PROVE  Unmet' = Later \cup (Beneath(child) \ {child})
<1> DEFINE n == Len(stack)
           st == stack'
<1>1. /\ stack \in Seq(FrameType) /\ n \in Nat /\ DOMAIN stack = 1 .. n /\ file \in Files
      /\ stack # <<>> /\ Pending /\ file' = file
  <2>1. stack \in Seq(FrameType) /\ stack # <<>> /\ file \in Files
    BY DEF Types, EnterNode
  <2> QED
    BY <2>1 DEF EnterNode
<1>2. /\ Len(st) = n + 1 /\ DOMAIN st = 1 .. n + 1 /\ child \in Obj
      /\ st[1] = Frame(child, ModeOf(child)) /\ \A j \in 1 .. n : st[j + 1] = stack[j]
  <2>1. st \in Seq(FrameType) /\ Len(st) = n + 1 /\ st[1] = Frame(child, ModeOf(child))
        /\ child \in Obj
    BY EnterIs
  <2>2. \A j \in 1 .. n : st[j + 1] = stack[j]
    BY EnterIs
  <2> QED
    BY <2>1, <2>2
<1>3. st[1].node = child /\ st[1].next = 1
  BY <1>2 DEF Frame
<1> HIDE DEF n, st
<1>4. ASSUME NEW c \in Unmet'
      PROVE  c \in Later \cup (Beneath(child) \ {child})
  <2>1. PICK j \in DOMAIN st : \E i \in DOMAIN Children(file, st[j].node) :
            /\ Children(file, st[j].node)[i] \in file.over[c]
            /\ i >= st[j].next /\ (j # 1 => i # st[j].next)
    BY <1>1 DEF Unmet, Waits, st
  <2>2. PICK i \in DOMAIN Children(file, st[j].node) :
            /\ Children(file, st[j].node)[i] \in file.over[c]
            /\ i >= st[j].next /\ (j # 1 => i # st[j].next)
    BY <2>1
  <2>3. c \in Obj
    BY DEF Unmet
  <2>4. CASE j = 1
    <3> DEFINE a == Children(file, child)[i]
    <3>1. a \in file.over[c] /\ a \in Obj /\ a # Root /\ file.up[a] = child
      BY <1>1, <1>2, <1>3, <2>2, <2>4, ChildrenOf
    <3> HIDE DEF a
    <3>2. child \in file.over[a] /\ a \notin file.over[child]
      BY <1>1, <3>1, Parents
    <3>3. file.over[a] \subseteq file.over[c]
      BY <1>1, <2>3, <3>1, Chain
    <3> QED
      BY <2>3, <3>1, <3>2, <3>3 DEF Beneath
  <2>5. CASE j # 1
    <3> DEFINE h == j - 1
    <3>1. h \in 1 .. n /\ h + 1 = j
      BY <1>1, <1>2, <2>5
    <3>2. st[j] = stack[h]
      BY <1>2, <3>1
    <3> HIDE DEF h
    <3>3. stack[h].node \in Obj /\ stack[h].next \in Nat
      BY <1>1, <3>1, FrameIs
    <3>4. i \in Nat
      BY <1>1, <2>2, <3>2, <3>3, ChildrenOf
    <3>5. i > stack[h].next
      BY <2>2, <2>5, <3>2, <3>3, <3>4
    <3> QED
      BY <1>1, <2>2, <2>3, <3>1, <3>2, <3>5 DEF Later
  <2> QED
    BY <2>4, <2>5
<1>5. ASSUME NEW c \in Later
      PROVE  c \in Unmet'
  <2>1. c \in Obj
    BY DEF Later
  <2>2. PICK h \in DOMAIN stack : \E i \in DOMAIN Children(file, stack[h].node) :
            Children(file, stack[h].node)[i] \in file.over[c] /\ i > stack[h].next
    BY DEF Later
  <2> DEFINE j == h + 1
  <2>3. j \in DOMAIN st /\ j # 1 /\ st[j] = stack[h]
    BY <1>1, <1>2
  <2> HIDE DEF j
  <2>4. PICK i \in DOMAIN Children(file, st[j].node) :
            Children(file, st[j].node)[i] \in file.over[c] /\ i > st[j].next
    BY <2>2, <2>3
  <2>5. stack[h].node \in Obj /\ stack[h].next \in Nat
    BY FrameIs
  <2>6. i \in Nat
    BY <1>1, <2>3, <2>4, <2>5, ChildrenOf
  <2>7. i >= st[j].next /\ i # st[j].next
    BY <2>3, <2>4, <2>5, <2>6
  <2> QED
    BY <1>1, <2>1, <2>3, <2>4, <2>7 DEF Unmet, Waits, st
<1>6. ASSUME NEW c \in Beneath(child), c # child
      PROVE  c \in Unmet'
  <2>1. c \in Obj /\ child \in file.over[c]
    BY DEF Beneath
  <2>2. PICK a \in file.over[c] : file.up[a] = child /\ a # Root
    BY <1>1, <1>6, <2>1, Toward
  <2>3. a \in Obj
    BY <1>1, <2>1, Roots
  <2>4. PICK i \in DOMAIN Children(file, child) : Children(file, child)[i] = a
    BY <1>1, <1>2, <2>2, <2>3, ChildrenOf
  <2>5. i >= 1 /\ 1 \in DOMAIN st
    BY <1>1, <1>2, ChildrenOf
  <2> QED
    BY <1>1, <1>3, <2>1, <2>4, <2>5 DEF Unmet, Waits, st
<1> QED
  BY <1>4, <1>5, <1>6

LEMMA UnmetLeft ==
    ASSUME Types, Calls, Leave
    PROVE  Unmet' = Unmet
<1> DEFINE n == Len(stack)
           st == stack'
<1>1. /\ st \in Seq(FrameType) /\ n \in Nat /\ Len(st) = n - 1 /\ DOMAIN stack = 1 .. n
      /\ file' = file /\ DOMAIN st = 1 .. n - 1 /\ file \in Files /\ stack # <<>> /\ ~Pending
  <2>1. st \in Seq(FrameType) /\ n \in Nat /\ Len(st) = n - 1
    BY LeaveIs
  <2>2. stack \in Seq(FrameType) /\ file \in Files
    BY DEF Types
  <2>3. file' = file /\ stack # <<>> /\ ~Pending
    BY DEF Leave
  <2> HIDE DEF st
  <2> QED
    BY <2>1, <2>2, <2>3
<1>2. \A j \in 1 .. n - 1 :
        /\ j + 1 \in 1 .. n /\ st[j].node = stack[j + 1].node
        /\ st[j].next = stack[j + 1].next + (IF j = 1 THEN 1 ELSE 0)
  BY LeaveIs
<1> HIDE DEF n, st
<1>3. Unmet = Later
  BY <1>1, UnmetDone
<1>4. ASSUME NEW j \in 1 .. n - 1, NEW i \in DOMAIN Children(file, stack[j + 1].node)
      PROVE  (i >= st[j].next /\ (j # 1 => i # st[j].next)) <=> i > stack[j + 1].next
  <2>1. st[j].next = stack[j + 1].next + (IF j = 1 THEN 1 ELSE 0) /\ j + 1 \in DOMAIN stack
    BY <1>1, <1>2
  <2> DEFINE h == j + 1
  <2> HIDE DEF h
  <2>2. h \in DOMAIN stack
    BY <2>1 DEF h
  <2>3. stack[h].node \in Obj /\ stack[h].next \in Nat
    BY <2>2, FrameIs
  <2>4. i \in Nat
    BY <1>1, <2>3, ChildrenOf DEF h
  <2>5. st[j].next = stack[h].next + (IF j = 1 THEN 1 ELSE 0)
    BY <2>1 DEF h
  <2>6. (i >= st[j].next /\ (j # 1 => i # st[j].next)) <=> i > stack[h].next
    BY <2>3, <2>4, <2>5
  <2> QED
    BY <2>6 DEF h
<1>5. ASSUME NEW c \in Unmet'
      PROVE  c \in Later
  <2>1. PICK j \in DOMAIN st : \E i \in DOMAIN Children(file, st[j].node) :
            /\ Children(file, st[j].node)[i] \in file.over[c]
            /\ i >= st[j].next /\ (j # 1 => i # st[j].next)
    BY <1>1 DEF Unmet, Waits, st
  <2>2. st[j].node = stack[j + 1].node /\ j + 1 \in DOMAIN stack /\ j \in 1 .. n - 1
    BY <1>1, <1>2
  <2>3. PICK i \in DOMAIN Children(file, stack[j + 1].node) :
            /\ Children(file, stack[j + 1].node)[i] \in file.over[c]
            /\ i >= st[j].next /\ (j # 1 => i # st[j].next)
    BY <2>1, <2>2
  <2>4. i > stack[j + 1].next
    BY <1>4, <2>2, <2>3
  <2>5. c \in Obj
    BY DEF Unmet
  <2> QED
    BY <2>2, <2>3, <2>4, <2>5 DEF Later
<1>6. ASSUME NEW c \in Later
      PROVE  c \in Unmet'
  <2>1. c \in Obj
    BY DEF Later
  <2>2. PICK h \in DOMAIN stack : \E i \in DOMAIN Children(file, stack[h].node) :
            Children(file, stack[h].node)[i] \in file.over[c] /\ i > stack[h].next
    BY DEF Later
  <2>3. h # 1
    <3>1. ASSUME h = 1
          PROVE  FALSE
      <4>1. stack \in Seq(FrameType)
        BY DEF Types
      <4>2. top = stack[1]
        BY <1>1, <4>1 DEF top
      <4>3. top.node \in Obj /\ top.next \in Nat
        BY <3>1, <4>2, FrameIs
      <4> DEFINE m == Len(Children(file, top.node))
      <4>4. m \in Nat /\ DOMAIN Children(file, top.node) = 1 .. m
        BY <1>1, <4>3, ChildrenOf
      <4>5. ~(top.next <= m)
        BY <1>1 DEF Pending
      <4> HIDE DEF m
      <4> QED
        BY <2>2, <3>1, <4>2, <4>3, <4>4, <4>5
    <3> QED
      BY <3>1
  <2> DEFINE j == h - 1
  <2>4. j \in 1 .. n - 1 /\ j + 1 = h
    BY <1>1, <2>3
  <2> HIDE DEF j
  <2>5. st[j].node = stack[h].node /\ j \in DOMAIN st
    BY <1>1, <1>2, <2>4
  <2>6. PICK i \in DOMAIN Children(file, stack[h].node) :
            Children(file, stack[h].node)[i] \in file.over[c] /\ i > stack[h].next
    BY <2>2
  <2>7. i >= st[j].next /\ (j # 1 => i # st[j].next)
    BY <1>4, <2>4, <2>6
  <2> QED
    BY <1>1, <2>1, <2>5, <2>6, <2>7 DEF Unmet, Waits, st
<1> QED
  BY <1>3, <1>5, <1>6

\* A leaf is the only one below itself.
LEMMA LeafAlone ==
    ASSUME NEW f \in Files, NEW a \in Obj, f.kind[a] \notin NodeKinds, NEW c \in Obj, a \in f.over[c]
    PROVE  c = a
<1> QED
  BY Chain

-----------------------------------------------------------------------------
(* The Godot scene while it is built.                                        *)

Calling == {stack[j].node : j \in DOMAIN stack}
Leaves == {AV(o) : o \in {q \in Obj : file.kind[q] \notin NodeKinds}}
ChildrenAt(o) == {AV(c) : c \in {q \in Obj : q # Root /\ file.up[q] = o}}
Skeletons == {Skeleton(r) : r \in Obj}
Hosts == [r \in DOMAIN skel |-> skel[r].host]

\* A scene k: a tree under the container, each skeleton on its host's node.
Sound(k, hosts) ==
    /\ Tree(k) /\ k[Top] = <<AV(Root)>>
    /\ ~Placed(k, ScenePlayer) /\ ~Placed(k, Player)
    /\ \A r \in Obj : Placed(k, Skeleton(r)) \/ Placed(k, Debug(r)) => r \in DOMAIN hosts
    /\ \A r \in DOMAIN hosts : GParents(k, Skeleton(r)) = {AV(hosts[r])}

\* What has been met has its place, what has not has none.
Settled ==
    /\ \A c \in Unmet : ~Placed(kids, AV(c))
    /\ \A o \in Obj : file.kind[o] \in NodeKinds /\ o \notin Unmet => Placed(kids, AV(o))
    /\ \A o \in Obj : mesh[o].on # 0 => Placed(kids, AV(o))
    /\ \A r, c \in Obj : Placed(kids, Attachment(r, c)) => r \in ToSet(attached)

\* Before the attachments the scene k follows the file, but for the skeletons.
Follows(k) ==
    /\ \A o \in Obj : ToSet(k[AV(o)]) \subseteq ChildrenAt(o) \cup Skeletons
    /\ \A o \in Obj : file.kind[o] \notin NodeKinds => ToSet(k[AV(o)]) = {}
    /\ \A r \in Obj : ToSet(k[Debug(r)]) = {}
    /\ \A r \in Obj : ToSet(k[Skeleton(r)]) \subseteq {Debug(r)} \cup Leaves
Laid == phase = "walk" => attached = <<>> /\ Follows(kids)

Hangs == Sound(kids, Hosts) /\ Settled /\ Laid

\* The node of a call is below that of the call it was made by, and the last
\* there unless a skeleton has been moved behind it.
Lasts ==
    phase = "walk" => \A j \in 1 .. Len(stack) - 1 :
        LET n == stack[j + 1].node IN
        /\ AV(stack[j].node) \in ToSet(kids[AV(n)])
        /\ Handled(n) /\ Unshared(n) => Last(kids[AV(n)]) = AV(stack[j].node)

\* The level a of an LOD or a switch, and the one its node keeps.
Level(a) == a \in Obj /\ a # Root /\ Handled(file.up[a]) /\ Unshared(file.up[a])
Chosen(a) ==
    \E i \in DOMAIN Children(file, file.up[a]) :
        Children(file, file.up[a])[i] = a /\ i = Keeps(file.up[a])
\* The levels that a node has shown or hidden.
Levels ==
    /\ \A g \in hidden : g \in GNodes /\ Placed(kids, g)
    /\ \A a : Level(a) /\ Placed(kids, AV(a)) =>
        (AV(a) \in hidden <=> a \notin Calling /\ ~Chosen(a))
\* The first call is the root's.
Based == \A j \in DOMAIN stack : j = Len(stack) => stack[j].node = Root

Shows == Based /\ Lasts /\ Levels

\* A node of the scene and what is below it.
LEMMA Inside ==
    ASSUME NEW k, Tree(k), NEW g \in GNodes, g = Top \/ Placed(k, g)
    PROVE  /\ g \in Under(k, Top) /\ Under(k, g) \subseteq Under(k, Top)
           /\ \A y \in Under(k, g) : y \in GNodes /\ (y = g \/ Placed(k, y))
<1>1. k \in Trees /\ Top \in GNodes
  BY Names DEF Tree, Once
<1>2. g \in Under(k, Top)
  BY <1>1, Below DEF Tree, Rooted
<1>3. Under(k, g) \subseteq Under(k, Top)
  <2>1. Under(k, Top) \in SUBSET GNodes /\ Closed(k, Under(k, Top))
    BY <1>1, Below
  <2> QED
    BY <1>1, <1>2, <2>1, Below
<1> QED
  BY <1>1, <1>2, <1>3, InPlace

\* A sound scene with a node more.
LEMMA SoundAdded ==
    ASSUME NEW k, NEW h, Sound(k, h), NEW p \in Under(k, Top), p # Top,
           NEW x \in GNodes, x \notin {Top, ScenePlayer, Player}, ~Placed(k, x),
           \A r \in Obj : x # Skeleton(r) /\ (x = Debug(r) => r \in DOMAIN h),
           DOMAIN h \subseteq Obj
    PROVE  Sound(AddChild(k, p, x), h) /\ TreeAdded(k, p, x, AddChild(k, p, x))
<1> DEFINE l == AddChild(k, p, x)
<1>1. Tree(k) /\ x # Top /\ k \in Trees
  BY DEF Sound, Tree, Once
<1>2. TreeAdded(k, p, x, l)
  BY <1>1, AddedTree
<1>3. p \in GNodes /\ Top \in GNodes
  BY <1>2, Names DEF TreeAdded
<1>4. l[Top] = k[Top]
  BY <1>1, <1>3, Adding
<1> HIDE DEF l
<1>5. Tree(l) /\ l[Top] = <<AV(Root)>>
  BY <1>2, <1>4 DEF TreeAdded, Sound
<1>6. \A y : Placed(l, y) <=> Placed(k, y) \/ y = x
  BY <1>2 DEF TreeAdded
<1>7. ~Placed(l, ScenePlayer) /\ ~Placed(l, Player)
  BY <1>6 DEF Sound
<1>8. \A r \in Obj : Placed(l, Skeleton(r)) \/ Placed(l, Debug(r)) => r \in DOMAIN h
  BY <1>6 DEF Sound
<1>9. ASSUME NEW r \in DOMAIN h
      PROVE  GParents(l, Skeleton(r)) = {AV(h[r])}
  <2>1. Skeleton(r) \in GNodes /\ Skeleton(r) # x
    BY Names
  <2>2. GParents(l, Skeleton(r)) = GParents(k, Skeleton(r))
    BY <1>2, <2>1 DEF TreeAdded
  <2> QED
    BY <2>2 DEF Sound
<1>10. Sound(l, h)
  BY <1>5, <1>7, <1>8, <1>9 DEF Sound
<1> QED
  BY <1>2, <1>10 DEF l

\* A sound scene with a skeleton more.
SkeletonAdded(k, h, n, r, l) ==
    /\ Sound(l, With(h, r, n)) /\ DOMAIN With(h, r, n) = DOMAIN h \cup {r}
    /\ \A y : Placed(l, y) <=> Placed(k, y) \/ y = Skeleton(r) \/ y = Debug(r)

LEMMA SoundSkeleton ==
    ASSUME NEW k, NEW h, Sound(k, h), DOMAIN h \subseteq Obj, NEW n \in Obj,
           AV(n) \in Under(k, Top), NEW r \in Obj, r \notin DOMAIN h
    PROVE  SkeletonAdded(k, h, n, r,
                AddChild(AddChild(k, AV(n), Skeleton(r)), Skeleton(r), Debug(r)))
<1> DEFINE l == AddChild(k, AV(n), Skeleton(r))
           g == With(h, r, n)
           m == AddChild(l, Skeleton(r), Debug(r))
<1>1. Tree(k) /\ k \in Trees /\ k[Top] = <<AV(Root)>>
  BY DEF Sound, Tree, Once
<1>2. Skeleton(r) \in GNodes /\ Skeleton(r) # Top /\ ~Placed(k, Skeleton(r)) /\ AV(n) \in GNodes
      /\ AV(n) # Top /\ Top \in GNodes /\ Debug(r) \in GNodes /\ ~Placed(k, Debug(r))
      /\ Skeleton(r) # ScenePlayer /\ Skeleton(r) # Player
  <2>1. ~Placed(k, Skeleton(r)) /\ ~Placed(k, Debug(r))
    BY DEF Sound
  <2>2. /\ Skeleton(r) \in GNodes /\ AV(n) \in GNodes /\ Debug(r) \in GNodes /\ Top \in GNodes
        /\ Skeleton(r) # Top /\ AV(n) # Top /\ Skeleton(r) # ScenePlayer /\ Skeleton(r) # Player
    BY Names
  <2> QED
    BY <2>1, <2>2
<1>3. TreeAdded(k, AV(n), Skeleton(r), l)
  BY <1>1, <1>2, AddedTree
<1>4. l[Top] = k[Top]
  <2>1. AV(n) \in GNodes /\ Skeleton(r) \in GNodes /\ Top \in GNodes /\ AV(n) # Top
    BY <1>2
  <2>2. \A x \in GNodes : x # AV(n) => l[x] = k[x]
    BY <1>1, <2>1, Adding
  <2> QED
    BY <2>1, <2>2
<1>5. DOMAIN g = DOMAIN h \cup {r} /\ g[r] = n /\ \A q \in DOMAIN h : g[q] = h[q]
  BY DEF With
<1> HIDE DEF l, g
<1>6. \A y : Placed(l, y) <=> Placed(k, y) \/ y = Skeleton(r)
  BY <1>3 DEF TreeAdded
<1>7. Sound(l, g)
  <2>1. Tree(l) /\ l[Top] = <<AV(Root)>>
    BY <1>1, <1>3, <1>4 DEF TreeAdded
  <2>2. ~Placed(l, ScenePlayer) /\ ~Placed(l, Player)
    BY <1>2, <1>6 DEF Sound
  <2>3. ASSUME NEW q \in Obj, Placed(l, Skeleton(q)) \/ Placed(l, Debug(q))
        PROVE  q \in DOMAIN g
    <3>1. Debug(q) # Skeleton(r) /\ (Skeleton(q) = Skeleton(r) => q = r)
      BY Names
    <3> QED
      BY <1>5, <1>6, <2>3, <3>1 DEF Sound
  <2>4. ASSUME NEW q \in DOMAIN g
        PROVE  GParents(l, Skeleton(q)) = {AV(g[q])}
    <3>1. CASE q = r
      BY <1>3, <1>5, <3>1 DEF TreeAdded
    <3>2. CASE q # r
      <4>1. q \in DOMAIN h /\ Skeleton(q) \in GNodes /\ Skeleton(q) # Skeleton(r)
        BY <1>5, <3>2, Names
      <4>2. GParents(l, Skeleton(q)) = GParents(k, Skeleton(q))
        BY <1>3, <4>1 DEF TreeAdded
      <4> QED
        BY <1>5, <4>1, <4>2 DEF Sound
    <3> QED
      BY <3>1, <3>2
  <2> QED
    BY <2>1, <2>2, <2>3, <2>4 DEF Sound
<1>8. Skeleton(r) \in Under(l, Top)
  BY <1>2, <1>6, <1>7, Inside DEF Sound
<1>9. ~Placed(l, Debug(r)) /\ Debug(r) \notin {Top, ScenePlayer, Player}
  BY <1>2, <1>6, Names
<1>10. \A q \in Obj : Debug(r) # Skeleton(q) /\ (Debug(r) = Debug(q) => q \in DOMAIN g)
  BY <1>5, Names
<1>11. DOMAIN g \subseteq Obj
  BY <1>5
<1>12. Sound(m, g) /\ TreeAdded(l, Skeleton(r), Debug(r), m)
  BY <1>2, <1>7, <1>8, <1>9, <1>10, <1>11, SoundAdded
<1> HIDE DEF m
<1>13. \A y : Placed(m, y) <=> Placed(k, y) \/ y = Skeleton(r) \/ y = Debug(r)
  BY <1>6, <1>12 DEF TreeAdded
<1> QED
  BY <1>5, <1>12, <1>13 DEF m, l, g, SkeletonAdded

\* A sound scene in which a skeleton has moved to another host.
SkeletonMoved(k, h, n, r, l) ==
    /\ Sound(l, With(h, r, n)) /\ DOMAIN With(h, r, n) = DOMAIN h
    /\ TreeMoved(k, AV(n), Skeleton(r), l) /\ Moved(k, AV(n), Skeleton(r), l)

LEMMA SoundMoved ==
    ASSUME NEW k, NEW h, Sound(k, h), DOMAIN h \subseteq Obj, NEW n \in Obj,
           AV(n) \in Under(k, Top), NEW r \in DOMAIN h, AV(n) \notin Under(k, Skeleton(r))
    PROVE  SkeletonMoved(k, h, n, r, Move(k, AV(n), Skeleton(r)))
<1> DEFINE l == Move(k, AV(n), Skeleton(r))
           g == With(h, r, n)
<1>1. Tree(k) /\ Once(k) /\ k[Top] = <<AV(Root)>> /\ r \in Obj
  BY DEF Sound, Tree
<1>2. Skeleton(r) \in GNodes /\ Skeleton(r) # Top /\ AV(n) \in GNodes /\ AV(n) # Top
      /\ Top \in GNodes
  BY <1>1, Names
<1>3. Placed(k, Skeleton(r))
  <2>1. GParents(k, Skeleton(r)) # {}
    BY DEF Sound
  <2> QED
    BY <2>1 DEF GParents, Placed
<1>4. Skeleton(r) \in Under(k, Top)
  BY <1>1, <1>2, <1>3, Inside
<1>5. TreeMoved(k, AV(n), Skeleton(r), l)
  BY <1>1, <1>2, <1>4, MovedTree
<1>6. Moved(k, AV(n), Skeleton(r), l)
  BY <1>1, <1>2, Moving
<1> HIDE DEF l
<1>7. l[Top] = k[Top]
  <2>1. ToSet(k[Top]) = {AV(Root)}
    BY <1>1 DEF ToSet
  <2>2. Skeleton(r) \notin ToSet(k[Top])
    BY <2>1, Names
  <2> QED
    BY <1>2, <1>6, <2>2 DEF Moved
<1>8. DOMAIN g = DOMAIN h /\ g[r] = n /\ \A q \in DOMAIN h : q # r => g[q] = h[q]
  BY DEF With
<1> HIDE DEF g
<1>9. \A y : Placed(l, y) <=> Placed(k, y)
  BY <1>5 DEF TreeMoved
<1>10. ASSUME NEW q \in DOMAIN g
       PROVE  GParents(l, Skeleton(q)) = {AV(g[q])}
  <2>1. CASE q = r
    BY <1>5, <1>8, <2>1 DEF TreeMoved
  <2>2. CASE q # r
    <3>1. q \in DOMAIN h /\ Skeleton(q) \in GNodes /\ Skeleton(q) # Skeleton(r)
      BY <1>8, <2>2, Names
    <3>2. GParents(l, Skeleton(q)) = GParents(k, Skeleton(q))
      BY <1>5, <3>1 DEF TreeMoved
    <3> QED
      BY <1>8, <2>2, <3>1, <3>2 DEF Sound
  <2> QED
    BY <2>1, <2>2
<1>11. Sound(l, g)
  BY <1>1, <1>5, <1>7, <1>8, <1>9, <1>10 DEF Sound, TreeMoved
<1> QED
  BY <1>5, <1>6, <1>8, <1>11 DEF l, g, SkeletonMoved

\* Scene l has the children of scene k and at most x more, at p.
Gains(k, l, p, x) ==
    \A g \in GNodes : \A y : y \in ToSet(l[g]) => y \in ToSet(k[g]) \/ (g = p /\ y = x)

LEMMA AddingGains ==
    ASSUME NEW k \in Trees, NEW p \in GNodes, NEW x \in GNodes
    PROVE  Gains(k, AddChild(k, p, x), p, x)
<1> DEFINE l == AddChild(k, p, x)
<1>1. l[p] = Append(k[p], x) /\ \A g \in GNodes : g # p => l[g] = k[g]
  BY Adding
<1>2. k[p] \in Seq(GNodes)
  BY DEF Trees
<1>3. ToSet(Append(k[p], x)) = ToSet(k[p]) \cup {x}
  BY <1>2, Appended
<1> HIDE DEF l
<1>4. ToSet(l[p]) = ToSet(k[p]) \cup {x}
  BY <1>1, <1>3
<1>5. Gains(k, l, p, x)
  BY <1>1, <1>4 DEF Gains
<1> QED
  BY <1>5 DEF l

\* What the calls stand on has been put in the scene.
LEMMA MetPlaced ==
    ASSUME Types, Calls, Hangs, NEW j \in DOMAIN stack, NEW p \in file.over[stack[j].node]
    PROVE  /\ p \in Obj /\ AV(p) \in GNodes /\ Placed(kids, AV(p)) /\ AV(p) \in Under(kids, Top)
           /\ AV(p) # Top /\ p \notin Unmet /\ file.kind[p] \in NodeKinds
<1>1. p \notin Unmet /\ p \in Obj /\ file.kind[p] \in NodeKinds
  BY OverMet
<1>2. AV(p) \in GNodes /\ AV(p) # Top
  BY <1>1, Names
<1>3. Placed(kids, AV(p)) /\ Tree(kids)
  BY <1>1 DEF Hangs, Settled, Sound
<1> QED
  BY <1>1, <1>2, <1>3, Inside

\* A node more where the file has one.
LEMMA FollowsBy ==
    ASSUME NEW k \in Trees, NEW l \in Trees, Follows(k), NEW p \in GNodes, NEW x,
           Gains(k, l, p, x),
           \/ \E o \in Obj : /\ p = AV(o) /\ file.kind[o] \in NodeKinds
                             /\ x \in ChildrenAt(o) \cup Skeletons
           \/ \E r \in Obj : p = Skeleton(r) /\ x \in {Debug(r)} \cup Leaves
    PROVE  Follows(l)
<1>1. ASSUME NEW o \in Obj
      PROVE  /\ ToSet(l[AV(o)]) \subseteq ChildrenAt(o) \cup Skeletons
             /\ file.kind[o] \notin NodeKinds => ToSet(l[AV(o)]) = {}
  <2>1. AV(o) \in GNodes /\ (\A q : AV(q) = AV(o) => q = o) /\ \A q : AV(o) # Skeleton(q)
    BY Names
  <2>2. ToSet(k[AV(o)]) \subseteq ChildrenAt(o) \cup Skeletons
        /\ (file.kind[o] \notin NodeKinds => ToSet(k[AV(o)]) = {})
    BY DEF Follows
  <2>3. \A y \in ToSet(l[AV(o)]) : y \in ToSet(k[AV(o)]) \/ (AV(o) = p /\ y = x)
    BY <2>1 DEF Gains
  <2>4. p = AV(o) => file.kind[o] \in NodeKinds /\ x \in ChildrenAt(o) \cup Skeletons
    BY <2>1
  <2> QED
    BY <2>2, <2>3, <2>4
<1>2. ASSUME NEW r \in Obj
      PROVE  ToSet(l[Debug(r)]) = {} /\ ToSet(l[Skeleton(r)]) \subseteq {Debug(r)} \cup Leaves
  <2>1. /\ Debug(r) \in GNodes /\ Skeleton(r) \in GNodes
        /\ \A q : AV(q) # Debug(r) /\ AV(q) # Skeleton(r) /\ Skeleton(q) # Debug(r)
        /\ \A q : Skeleton(q) = Skeleton(r) => q = r
    BY Names
  <2>2. ToSet(k[Debug(r)]) = {} /\ ToSet(k[Skeleton(r)]) \subseteq {Debug(r)} \cup Leaves
    BY DEF Follows
  <2>3. \A y \in ToSet(l[Debug(r)]) : y \in ToSet(k[Debug(r)]) \/ Debug(r) = p
    BY <2>1 DEF Gains
  <2>4. \A y \in ToSet(l[Skeleton(r)]) : \/ y \in ToSet(k[Skeleton(r)])
                                          \/ (Skeleton(r) = p /\ y = x)
    BY <2>1 DEF Gains
  <2>5. p # Debug(r)
    BY <2>1
  <2>6. p = Skeleton(r) => x \in {Debug(r)} \cup Leaves
    BY <2>1
  <2> QED
    BY <2>2, <2>3, <2>4, <2>5, <2>6
<1> QED
  BY <1>1, <1>2 DEF Follows

\* The child a call stands at, put under the node of the call.
ChildPut(l) ==
    /\ Sound(l, Hosts) /\ Follows(l) /\ l \in Trees
    /\ \A y : Placed(l, y) <=> Placed(kids, y) \/ y = AV(child)
    /\ \A g \in GNodes : g # AV(top.node) => l[g] = kids[g]
    /\ l[AV(top.node)] = Append(kids[AV(top.node)], AV(child))
    /\ AV(child) \in GNodes /\ AV(top.node) \in GNodes /\ child \in Unmet
    /\ ~Placed(kids, AV(child))

LEMMA ChildAdded ==
    ASSUME Types, Calls, Hangs, phase = "walk", stack # <<>>, Pending
    PROVE  ChildPut(AddChild(kids, AV(top.node), AV(child)))
<1> DEFINE n == top.node
           l == AddChild(kids, AV(n), AV(child))
<1>1. /\ 1 \in DOMAIN stack /\ top = stack[1] /\ n \in Obj /\ child \in Obj
      /\ file.up[child] = n /\ child # Root /\ file \in Files
  BY ChildIs DEF Types
<1>2. n \in file.over[stack[1].node] /\ child \in Beneath(child)
  BY <1>1, Roots DEF Beneath
<1>3. AV(n) \in GNodes /\ AV(n) \in Under(kids, Top) /\ AV(n) # Top /\ file.kind[n] \in NodeKinds
  BY <1>1, <1>2, MetPlaced
<1>4. child \in Unmet
  BY <1>2, UnmetPending
<1>5. ~Placed(kids, AV(child)) /\ Sound(kids, Hosts) /\ Follows(kids) /\ kids \in Trees
  BY <1>4 DEF Hangs, Settled, Laid, Types
<1>6. /\ AV(child) \in GNodes /\ AV(child) \notin {Top, ScenePlayer, Player}
      /\ \A r \in Obj : AV(child) # Skeleton(r) /\ AV(child) # Debug(r)
  BY <1>1, Names
<1>7. DOMAIN Hosts \subseteq Obj
  BY DEF Hosts, Types
<1> HIDE DEF n, l
<1>8. Sound(l, Hosts) /\ TreeAdded(kids, AV(n), AV(child), l)
  BY <1>3, <1>5, <1>6, <1>7, SoundAdded DEF l
<1>9. l \in Trees /\ l[AV(n)] = Append(kids[AV(n)], AV(child))
      /\ (\A g \in GNodes : g # AV(n) => l[g] = kids[g]) /\ Gains(kids, l, AV(n), AV(child))
  <2>1. kids \in Trees /\ AV(n) \in GNodes /\ AV(child) \in GNodes
    BY <1>3, <1>5, <1>6
  <2>2. l \in Trees /\ l[AV(n)] = Append(kids[AV(n)], AV(child))
    BY <2>1, Adding DEF l
  <2>3. \A g \in GNodes : g # AV(n) => l[g] = kids[g]
    BY <2>1, Adding DEF l
  <2>4. Gains(kids, l, AV(n), AV(child))
    BY <2>1, AddingGains DEF l
  <2> QED
    BY <2>2, <2>3, <2>4
<1>10. AV(child) \in ChildrenAt(n)
  BY <1>1 DEF ChildrenAt
<1>11. Follows(l)
  BY <1>1, <1>3, <1>5, <1>9, <1>10, FollowsBy DEF n
<1>12. \A y : Placed(l, y) <=> Placed(kids, y) \/ y = AV(child)
  BY <1>8 DEF TreeAdded
<1> QED
  BY <1>3, <1>4, <1>5, <1>6, <1>8, <1>9, <1>11, <1>12 DEF ChildPut, l, n

\* What is placed follows what is met.
LEMMA SettledBy ==
    ASSUME Settled, NEW X, \A y : Placed(kids', y) <=> Placed(kids, y) \/ y \in X,
           Unmet' \in SUBSET Unmet, \A c \in Unmet' : AV(c) \notin X,
           \A o \in Unmet \ Unmet' : file.kind[o] \in NodeKinds => AV(o) \in X,
           \A o \in Obj : mesh'[o].on # 0 => mesh[o].on # 0 \/ AV(o) \in X,
           \A r, c \in Obj : Attachment(r, c) \notin X,
           attached' = attached, file' = file
    PROVE  Settled'
<1>1. \A c \in Unmet' : ~Placed(kids', AV(c))
  BY DEF Settled
<1>2. \A o \in Obj : file.kind[o] \in NodeKinds /\ o \notin Unmet' => Placed(kids', AV(o))
  BY DEF Settled
<1>3. \A o \in Obj : mesh'[o].on # 0 => Placed(kids', AV(o))
  BY DEF Settled
<1>4. \A r, c \in Obj : Placed(kids', Attachment(r, c)) => r \in ToSet(attached)
  BY DEF Settled
<1> QED
  BY <1>1, <1>2, <1>3, <1>4 DEF Settled, Placed

\* A leaf has been met once the call goes on.
LEMMA UnmetLeaf ==
    ASSUME Types, Calls, stack # <<>>, Pending, file.kind[child] \notin NodeKinds,
           stack' = Advance, file' = file
    PROVE  Unmet' = Unmet \ {child} /\ child \in Unmet
<1>1. file \in Files /\ child \in Obj
  BY ChildIs DEF Types
<1>2. Beneath(child) = {child}
  <2>1. \A c \in Beneath(child) : c = child
    BY <1>1, LeafAlone DEF Beneath
  <2>2. child \in Beneath(child)
    BY <1>1, Roots DEF Beneath
  <2> QED
    BY <2>1, <2>2
<1>3. Unmet = Later \cup {child} /\ child \notin Later
  BY <1>2, UnmetPending
<1>4. Unmet' = Later
  BY UnmetAdvanced
<1> QED
  BY <1>3, <1>4

\* What is below a skeleton before the attachments.
LEMMA SkeletonBelow ==
    ASSUME NEW k \in Trees, Follows(k), NEW r \in Obj
    PROVE  \A o : file.kind[o] \in NodeKinds => AV(o) \notin Under(k, Skeleton(r))
<1> DEFINE C == {Skeleton(r), Debug(r)} \cup Leaves
<1>1. C \in SUBSET GNodes
  <2>1. Skeleton(r) \in GNodes /\ Debug(r) \in GNodes /\ \A o \in Obj : AV(o) \in GNodes
    BY Names
  <2> QED
    BY <2>1 DEF Leaves
<1>2. ASSUME NEW y \in C
      PROVE  ToSet(k[y]) \subseteq C
  <2>1. CASE y = Skeleton(r)
    BY <2>1 DEF Follows
  <2>2. CASE y = Debug(r)
    BY <2>2 DEF Follows
  <2>3. CASE y \in Leaves
    BY <2>3 DEF Follows, Leaves
  <2> QED
    BY <2>1, <2>2, <2>3
<1>3. Skeleton(r) \in GNodes /\ Skeleton(r) \in C
  BY Names
<1>4. Under(k, Skeleton(r)) \subseteq C
  <2> HIDE DEF C
  <2>1. Closed(k, C)
    BY <1>2 DEF Closed
  <2> QED
    BY <1>1, <1>3, <2>1, Below
<1>5. \A o : AV(o) \in C => file.kind[o] \notin NodeKinds
  BY Names DEF Leaves
<1> QED
  BY <1>4, <1>5

\* The hosts after a shape has been put on its skeleton.
LEMMA HostsPut ==
    ASSUME Types, NEW o, NEW s, NEW t, PutOn(o, s, t)
    PROVE  Hosts' = With(Hosts, file.skin[o].root, s.host)
<1> DEFINE r == file.skin[o].root
<1>1. skel' = With(skel, r, t) /\ t.host = s.host
  BY DEF PutOn
<1> HIDE DEF r
<1>2. DOMAIN skel' = DOMAIN skel \cup {r} /\ skel'[r] = t
      /\ \A q \in DOMAIN skel : q # r => skel'[q] = skel[q]
  BY <1>1 DEF With
<1>3. Hosts' = [q \in DOMAIN skel' |-> skel'[q].host]
  BY DEF Hosts
<1>4. With(Hosts, r, s.host) = [q \in DOMAIN skel \cup {r} |-> IF q = r THEN s.host ELSE skel[q].host]
  BY DEF With, Hosts
<1> QED
  BY <1>1, <1>2, <1>3, <1>4 DEF r

\* The shape's mesh has been put under the skeleton.
HungOn(l, h, r, o, m) ==
    /\ Sound(m, h) /\ Follows(m)
    /\ \A y : Placed(m, y) <=> Placed(l, y) \/ (~file.empty[o] /\ y = AV(o))
    /\ \A g \in GNodes : g # Skeleton(r) => m[g] = l[g]

LEMMA HungScene ==
    ASSUME NEW l, NEW h, Sound(l, h), Follows(l), DOMAIN h \subseteq Obj, NEW r \in DOMAIN h,
           NEW o \in Obj, file.kind[o] \notin NodeKinds, ~Placed(l, AV(o))
    PROVE  HungOn(l, h, r, o, Hung(l, r, o))
<1>1. CASE file.empty[o]
  <2>1. Hung(l, r, o) = l
    BY <1>1 DEF Hung
  <2> QED
    BY <1>1, <2>1 DEF HungOn
<1>2. CASE ~file.empty[o]
  <2> DEFINE m == AddChild(l, Skeleton(r), AV(o))
  <2>1. Hung(l, r, o) = m
    BY <1>2 DEF Hung
  <2>2. /\ AV(o) \in GNodes /\ AV(o) \notin {Top, ScenePlayer, Player} /\ r \in Obj
        /\ Skeleton(r) \in GNodes /\ Skeleton(r) # Top
        /\ \A q \in Obj : AV(o) # Skeleton(q) /\ AV(o) # Debug(q)
    BY Names
  <2>3. Tree(l) /\ l \in Trees
    BY DEF Sound, Tree, Once
  <2>4. Placed(l, Skeleton(r))
    <3>1. GParents(l, Skeleton(r)) # {}
      BY DEF Sound
    <3> QED
      BY <3>1 DEF GParents, Placed
  <2>5. Skeleton(r) \in Under(l, Top)
    BY <2>2, <2>3, <2>4, Inside
  <2>6. Sound(m, h) /\ TreeAdded(l, Skeleton(r), AV(o), m)
    BY <2>2, <2>5, SoundAdded
  <2>7. m \in Trees /\ \A g \in GNodes : g # Skeleton(r) => m[g] = l[g]
    BY <2>2, <2>3, Adding
  <2>8. Gains(l, m, Skeleton(r), AV(o))
    BY <2>2, <2>3, AddingGains
  <2>9. AV(o) \in Leaves
    BY DEF Leaves
  <2> HIDE DEF m
  <2>10. Follows(m)
    BY <2>2, <2>3, <2>7, <2>8, <2>9, FollowsBy
  <2>11. \A y : Placed(m, y) <=> Placed(l, y) \/ y = AV(o)
    BY <2>6 DEF TreeAdded
  <2> QED
    BY <1>2, <2>1, <2>6, <2>7, <2>10, <2>11 DEF HungOn
<1> QED
  BY <1>1, <1>2

\* What a step of the walk does to the scene keeps what hangs in it.
LEMMA HangsBy ==
    ASSUME Hangs, phase = "walk", Sound(kids', Hosts'), Follows(kids'), Settled',
           attached' = attached, file' = file
    PROVE  Hangs'
<1>1. attached' = <<>>
  BY DEF Hangs, Laid
<1>2. Follows(kids)'
  BY DEF Follows, ChildrenAt, Leaves, Skeletons
<1>3. Laid'
  BY <1>1, <1>2 DEF Laid
<1> QED
  BY <1>3 DEF Hangs

LEMMA HangsEntered == Types /\ Calls /\ Hangs /\ EnterNode => Hangs'
<1> SUFFICES ASSUME Types, Calls, Hangs, EnterNode
             PROVE  Hangs'
  OBVIOUS
<1>1. /\ phase = "walk" /\ stack # <<>> /\ Pending /\ file.kind[child] \in NodeKinds
      /\ kids' = AddChild(kids, AV(top.node), AV(child))
      /\ UNCHANGED <<file, phase, hidden, skel, reparented, mesh, attached, turned>>
  BY DEF EnterNode
<1>2. ChildPut(kids')
  BY <1>1, ChildAdded
<1>3. Hosts' = Hosts
  BY <1>1 DEF Hosts
<1>4. Sound(kids', Hosts') /\ Follows(kids')
  BY <1>2, <1>3 DEF ChildPut
<1>5. child \in Obj
  BY <1>1, ChildIs
<1>6. Unmet' = Unmet \ {child} /\ child \in Unmet
  <2>1. Unmet = Later \cup Beneath(child) /\ Later \cap Beneath(child) = {}
    BY <1>1, UnmetPending
  <2>2. Unmet' = Later \cup (Beneath(child) \ {child})
    BY UnmetEntered
  <2>3. child \in Beneath(child)
    BY <1>5, Roots DEF Beneath, Types
  <2> QED
    BY <2>1, <2>2, <2>3
<1>7. Settled'
  <2> DEFINE X == {AV(child)}
  <2>1. \A y : Placed(kids', y) <=> Placed(kids, y) \/ y \in X
    BY <1>2 DEF ChildPut
  <2>2. \A c \in Unmet' : AV(c) \notin X
    BY <1>6, Names
  <2>3. \A o \in Unmet \ Unmet' : AV(o) \in X
    BY <1>6
  <2>4. \A r, c \in Obj : Attachment(r, c) \notin X
    BY Names
  <2> HIDE DEF X
  <2> QED
    BY <1>1, <1>6, <2>1, <2>2, <2>3, <2>4, SettledBy DEF Hangs
<1> QED
  BY <1>1, <1>4, <1>7, HangsBy

\* A leaf that is put under its parent's node or left out.
LEMMA HangsAdvanced ==
    ASSUME Types, Calls, Hangs, phase = "walk", stack # <<>>, Pending,
           file.kind[child] \notin NodeKinds, stack' = Advance,
           kids' \in {kids, AddChild(kids, AV(top.node), AV(child))},
           skel' = skel, mesh' = mesh, attached' = attached, file' = file
    PROVE  Hangs'
<1>1. Unmet' = Unmet \ {child} /\ child \in Unmet
  BY UnmetLeaf
<1>2. Hosts' = Hosts
  BY DEF Hosts
<1>3. CASE kids' = kids
  <2> DEFINE X == {}
  <2>1. \A y : Placed(kids', y) <=> Placed(kids, y) \/ y \in X
    BY <1>3
  <2>2. \A o \in Unmet \ Unmet' : file.kind[o] \notin NodeKinds
    BY <1>1
  <2>4. \A y : y \notin X
    OBVIOUS
  <2> HIDE DEF X
  <2>3. Settled'
    BY <1>1, <2>1, <2>2, <2>4, SettledBy DEF Hangs
  <2> QED
    BY <1>2, <1>3, <2>3, HangsBy DEF Hangs, Laid
<1>4. CASE kids' = AddChild(kids, AV(top.node), AV(child))
  <2> DEFINE X == {AV(child)}
  <2>1. ChildPut(kids')
    BY <1>4, ChildAdded
  <2>2. Sound(kids', Hosts') /\ Follows(kids')
    BY <1>2, <2>1 DEF ChildPut
  <2>3. \A y : Placed(kids', y) <=> Placed(kids, y) \/ y \in X
    BY <2>1 DEF ChildPut
  <2>4. \A c \in Unmet' : AV(c) \notin X
    BY <1>1, Names
  <2>5. \A o \in Unmet \ Unmet' : file.kind[o] \notin NodeKinds
    BY <1>1
  <2>6. \A r, c \in Obj : Attachment(r, c) \notin X
    BY Names
  <2> HIDE DEF X
  <2>7. Settled'
    BY <1>1, <2>3, <2>4, <2>5, <2>6, SettledBy DEF Hangs
  <2> QED
    BY <2>2, <2>7, HangsBy
<1> QED
  BY <1>3, <1>4

LEMMA HangsLeft == Types /\ Calls /\ Hangs /\ Leave => Hangs'
<1> SUFFICES ASSUME Types, Calls, Hangs, Leave
             PROVE  Hangs'
  OBVIOUS
<1>1. phase = "walk" /\ UNCHANGED <<file, phase, kids, skel, reparented, mesh, attached, turned>>
  BY DEF Leave
<1>2. Unmet' = Unmet
  BY UnmetLeft
<1>3. Hosts' = Hosts
  BY <1>1 DEF Hosts
<1>4. Settled'
  <2> DEFINE X == {}
  <2>1. \A y : Placed(kids', y) <=> Placed(kids, y) \/ y \in X
    BY <1>1
  <2>2. \A y : y \notin X
    OBVIOUS
  <2>3. Unmet' \in SUBSET Unmet /\ Unmet \ Unmet' = {}
    BY <1>2
  <2> HIDE DEF X
  <2> QED
    BY <1>1, <1>2, <2>1, <2>2, <2>3, SettledBy DEF Hangs
<1> QED
  BY <1>1, <1>3, <1>4, HangsBy DEF Hangs, Laid

\* The child has been put somewhere, and behind the last child of a node but
\* the call's own nothing has come, the nodes of H excepted.
Put(H) ==
    /\ \A y : Placed(kids, y) => Placed(kids', y)
    /\ \A a : Placed(kids', AV(a)) => Placed(kids, AV(a)) \/ a = child
    /\ \A m \in Obj : m # top.node =>
        /\ \A c : AV(c) \in ToSet(kids[AV(m)]) => AV(c) \in ToSet(kids'[AV(m)])
        /\ \A c : m \notin H /\ kids[AV(m)] # <<>> /\ Last(kids[AV(m)]) = AV(c)
                => Last(kids'[AV(m)]) = AV(c)

\* A skinned shape under its skeleton, in a scene l that has the skeleton.
LEMMA HangsPut ==
    ASSUME Types, Calls, Hangs, NEW o, NEW s, NEW t, Visited(o), PutOn(o, s, t),
           NEW l, Sound(l, Hosts'), Follows(l),
           NEW Z \in SUBSET {Skeleton(file.skin[o].root), Debug(file.skin[o].root)},
           \A y : Placed(l, y) <=> Placed(kids, y) \/ y \in Z,
           kids' = Hung(l, file.skin[o].root, o)
    PROVE  Hangs' /\ HungOn(l, Hosts', file.skin[o].root, o, kids')
<1> DEFINE r == file.skin[o].root
           X == {y \in GNodes : y \in Z \/ (~file.empty[o] /\ y = AV(o))}
<1>1. /\ phase = "walk" /\ stack # <<>> /\ Pending /\ o = child /\ o \in Obj /\ r \in Obj
      /\ file.kind[o] = "shape"
  BY DEF Visited
<1>2. /\ file' = file /\ attached' = attached /\ stack' = Advance
      /\ mesh' = (IF Drawn(o) THEN [mesh EXCEPT ![o] = MeshOn(s, file.skin[o])] ELSE mesh)
  BY DEF PutOn
<1>3. file.kind[o] \notin NodeKinds
  BY <1>1 DEF NodeKinds
<1>4. Unmet' = Unmet \ {o} /\ o \in Unmet
  BY <1>1, <1>2, <1>3, UnmetLeaf
<1>5. r \in DOMAIN Hosts' /\ DOMAIN Hosts' \subseteq Obj
  <2>1. Hosts' = With(Hosts, r, s.host)
    BY HostsPut
  <2>2. DOMAIN Hosts \subseteq Obj
    BY DEF Hosts, Types
  <2> QED
    BY <1>1, <2>1, <2>2 DEF With
<1>6. ~Placed(l, AV(o))
  <2>1. AV(o) \notin Z
    BY Names
  <2>2. ~Placed(kids, AV(o))
    BY <1>4 DEF Hangs, Settled
  <2> QED
    BY <2>1, <2>2
<1> HIDE DEF r
<1>7. HungOn(l, Hosts', r, o, kids')
  <2> DEFINE h == Hosts'
  <2>1. Sound(l, h) /\ r \in DOMAIN h /\ DOMAIN h \subseteq Obj
    BY <1>5
  <2> HIDE DEF h
  <2>2. HungOn(l, h, r, o, Hung(l, r, o))
    BY <1>1, <1>3, <1>6, <2>1, HungScene
  <2> QED
    BY <2>2 DEF h, r
<1>8. Sound(kids', Hosts') /\ Follows(kids')
  BY <1>7 DEF HungOn
<1>9. \A y : Placed(kids', y) <=> Placed(kids, y) \/ y \in X
  <2>1. \A y : Placed(kids', y) <=> Placed(l, y) \/ (~file.empty[o] /\ y = AV(o))
    BY <1>7 DEF HungOn
  <2>2. \A y \in Z : y \in GNodes
    BY <1>1, Names DEF r
  <2>3. AV(o) \in GNodes
    BY <1>1, Names
  <2> QED
    BY <2>1, <2>2, <2>3
<1>10. \A c \in Unmet' : AV(c) \notin X
  <2>1. \A c : AV(c) \notin Z
    BY Names
  <2>2. \A c : AV(c) = AV(o) => c = o
    BY Names
  <2> QED
    BY <1>4, <2>1, <2>2
<1>11. \A p \in Unmet \ Unmet' : file.kind[p] \notin NodeKinds
  BY <1>3, <1>4
<1>12. ASSUME NEW p \in Obj, mesh'[p].on # 0
       PROVE  mesh[p].on # 0 \/ AV(p) \in X
  <2>1. CASE p = o /\ Drawn(o)
    <3>1. AV(o) \in GNodes
      BY <1>1, Names
    <3> QED
      BY <2>1, <3>1 DEF Drawn
  <2>2. CASE ~(p = o /\ Drawn(o))
    <3>1. mesh'[p] = mesh[p]
      BY <1>2, <2>2 DEF Types
    <3> QED
      BY <1>12, <3>1
  <2> QED
    BY <2>1, <2>2
<1>13. \A q, c \in Obj : Attachment(q, c) \notin X
  BY Names
<1> HIDE DEF X
<1>14. Unmet' \in SUBSET Unmet
  BY <1>4
<1>15. Settled'
  BY <1>2, <1>9, <1>10, <1>11, <1>12, <1>13, <1>14, SettledBy DEF Hangs
<1>16. Hangs'
  BY <1>1, <1>2, <1>8, <1>15, HangsBy
<1> QED
  BY <1>7, <1>16 DEF r

LEMMA HangsFirst ==
    ASSUME Types, Calls, Hangs, NEW o, NEW s, NEW t, Visited(o), PutOn(o, s, t), FirstOn(o, s)
    PROVE  Hangs' /\ Put({})
<1> DEFINE r == file.skin[o].root
           n == top.node
           k == AddChild(kids, AV(n), Skeleton(r))
           l == AddChild(k, Skeleton(r), Debug(r))
           Z == {Skeleton(r), Debug(r)}
<1>1. r \notin DOMAIN skel /\ s.host = n /\ kids' = Hung(l, r, o)
  BY DEF FirstOn
<1>2. r \in Obj /\ n \in Obj /\ stack # <<>> /\ Pending /\ phase = "walk"
  BY DEF Visited
<1>3. AV(n) \in Under(kids, Top) /\ AV(n) \in GNodes /\ file.kind[n] \in NodeKinds
  <2>1. top = stack[1] /\ 1 \in DOMAIN stack
    BY <1>2, ChildIs
  <2>2. n \in file.over[stack[1].node]
    BY <1>2, <2>1, Roots DEF Types
  <2> QED
    BY <2>1, <2>2, MetPlaced
<1>4. Sound(kids, Hosts) /\ Follows(kids) /\ DOMAIN Hosts = DOMAIN skel /\ DOMAIN Hosts \subseteq Obj
      /\ kids \in Trees
  BY <1>2 DEF Hangs, Laid, Hosts, Types
<1>5. Skeleton(r) \in GNodes /\ Debug(r) \in GNodes /\ Skeleton(r) \in Skeletons
  BY <1>2, Names DEF Skeletons
<1> HIDE DEF n
<1>6. SkeletonAdded(kids, Hosts, n, r, l)
  <2> HIDE DEF r
  <2>1. r \in Obj /\ n \in Obj /\ r \notin DOMAIN Hosts /\ AV(n) \in Under(kids, Top)
    BY <1>1, <1>2, <1>3, <1>4
  <2> QED
    BY <1>4, <2>1, SoundSkeleton
<1>7. Hosts' = With(Hosts, r, n)
  BY <1>1, HostsPut
<1>8. k \in Trees /\ Gains(kids, k, AV(n), Skeleton(r))
  BY <1>3, <1>4, <1>5, Adding, AddingGains
<1> HIDE DEF k
<1>9. l \in Trees /\ Gains(k, l, Skeleton(r), Debug(r))
  BY <1>5, <1>8, Adding, AddingGains
<1> HIDE DEF l
<1>10. Follows(k)
  BY <1>2, <1>3, <1>4, <1>5, <1>8, FollowsBy
<1>11. Follows(l)
  BY <1>2, <1>5, <1>8, <1>9, <1>10, FollowsBy
<1>12. Sound(l, Hosts')
  BY <1>6, <1>7 DEF SkeletonAdded
<1>13. \A y : Placed(l, y) <=> Placed(kids, y) \/ y \in Z
  BY <1>6 DEF SkeletonAdded
<1> HIDE DEF r
<1>14. Z \in SUBSET {Skeleton(r), Debug(r)}
  OBVIOUS
<1> HIDE DEF Z
<1>15. kids' = Hung(l, file.skin[o].root, o)
  BY <1>1 DEF r
<1>16. Z \in SUBSET {Skeleton(file.skin[o].root), Debug(file.skin[o].root)}
  BY <1>14 DEF r
<1>17. Hangs' /\ HungOn(l, Hosts', file.skin[o].root, o, kids')
  BY <1>11, <1>12, <1>13, <1>15, <1>16, HangsPut
<1>18. \A y : Placed(kids', y) <=> Placed(kids, y) \/ y \in Z \/ (~file.empty[o] /\ y = AV(o))
  BY <1>13, <1>17 DEF HungOn
<1>19. o = child /\ \A a : AV(a) \notin Z /\ (AV(a) = AV(o) => a = o)
  BY Names DEF Visited, Z
<1>20. ASSUME NEW m \in Obj, m # n
       PROVE  kids'[AV(m)] = kids[AV(m)]
  <2>1. AV(m) \in GNodes /\ AV(m) # AV(n) /\ \A q : AV(m) # Skeleton(q)
    BY <1>20, Names
  <2>2. k[AV(m)] = kids[AV(m)]
    BY <1>3, <1>4, <1>5, <2>1, Adding DEF k
  <2>3. l[AV(m)] = k[AV(m)]
    BY <1>5, <1>8, <2>1, Adding DEF l
  <2>4. kids'[AV(m)] = l[AV(m)]
    BY <1>17, <2>1 DEF HungOn
  <2> QED
    BY <2>2, <2>3, <2>4
<1> QED
  BY <1>17, <1>18, <1>19, <1>20 DEF Put, n

LEMMA HangsShared ==
    ASSUME Types, Calls, Hangs, NEW o, NEW s, NEW t, Visited(o), PutOn(o, s, t), SharedOn(o, s)
    PROVE  Hangs' /\ Put(IF Moves(file.skin[o].root, top.node) THEN {s.host} ELSE {})
<1> DEFINE r == file.skin[o].root
           n == top.node
           h == s.host
           l == Move(kids, AV(h), Skeleton(r))
<1>1. /\ r \in DOMAIN skel /\ h \in file.over[n]
      /\ kids' = Hung(IF Moves(r, n) THEN l ELSE kids, r, o)
      /\ ~Moves(r, n) => h = skel[r].host
  BY DEF SharedOn
<1>2. r \in Obj /\ n \in Obj /\ stack # <<>> /\ Pending /\ phase = "walk"
  BY DEF Visited
<1>3. h \in Obj /\ AV(h) \in Under(kids, Top) /\ AV(h) \in GNodes /\ file.kind[h] \in NodeKinds
  <2>1. top = stack[1] /\ 1 \in DOMAIN stack
    BY <1>2, ChildIs
  <2>2. h \in file.over[stack[1].node]
    BY <1>1, <2>1
  <2> HIDE DEF h
  <2> QED
    BY <2>1, <2>2, MetPlaced
<1>4. Sound(kids, Hosts) /\ Follows(kids) /\ DOMAIN Hosts = DOMAIN skel /\ DOMAIN Hosts \subseteq Obj
      /\ kids \in Trees
  BY <1>2 DEF Hangs, Laid, Hosts, Types
<1>5. Hosts' = With(Hosts, r, h)
  BY HostsPut
<1> DEFINE Z == {}
<1>6. Z \in SUBSET {Skeleton(file.skin[o].root), Debug(file.skin[o].root)} /\ \A y : y \notin Z
  OBVIOUS
<1> HIDE DEF Z
<1>9. o = child /\ \A a : AV(a) = AV(o) => a = o
  BY Names DEF Visited
<1>10. \A m \in Obj : /\ AV(m) \in GNodes /\ \A q : AV(m) # Skeleton(q)
                      /\ \A q : AV(m) = AV(q) => m = q
  BY Names
<1>7. CASE Moves(r, n)
  <2>1. AV(h) \notin Under(kids, Skeleton(r))
    BY <1>2, <1>3, <1>4, SkeletonBelow
  <2>2. SkeletonMoved(kids, Hosts, h, r, l)
    <3> HIDE DEF r, h
    <3>1. r \in DOMAIN Hosts
      BY <1>1, <1>4
    <3> QED
      BY <1>3, <1>4, <2>1, <3>1, SoundMoved
  <2>3. kids' = Hung(l, file.skin[o].root, o)
    BY <1>1, <1>7
  <2> HIDE DEF h, l
  <2>4. Sound(l, Hosts') /\ Moved(kids, AV(h), Skeleton(r), l)
        /\ TreeMoved(kids, AV(h), Skeleton(r), l)
    BY <1>5, <2>2 DEF SkeletonMoved
  <2>5. \A y : Placed(l, y) <=> Placed(kids, y) \/ y \in Z
    BY <1>6, <2>4 DEF TreeMoved
  <2>6. l \in Trees
    BY <2>4 DEF Sound, Tree, Once
  <2>7. Gains(kids, l, AV(h), Skeleton(r))
    <3>1. ToSet(l[AV(h)]) = (ToSet(kids[AV(h)]) \ {Skeleton(r)}) \cup {Skeleton(r)}
          /\ \A g \in GNodes : g # AV(h) => ToSet(l[g]) = ToSet(kids[g]) \ {Skeleton(r)}
      BY <2>4 DEF Moved
    <3> QED
      BY <3>1 DEF Gains
  <2>8. Skeleton(r) \in Skeletons
    BY <1>2 DEF Skeletons
  <2>9. Follows(l)
    BY <1>3, <1>4, <2>6, <2>7, <2>8, FollowsBy
  <2>10. Hangs' /\ HungOn(l, Hosts', file.skin[o].root, o, kids')
    BY <1>6, <2>3, <2>4, <2>5, <2>9, HangsPut
  <2>11. \A y : Placed(kids', y) <=> Placed(kids, y) \/ (~file.empty[o] /\ y = AV(o))
    BY <1>6, <2>5, <2>10 DEF HungOn
  <2>12. \A m \in Obj : kids'[AV(m)] = l[AV(m)]
    BY <1>10, <2>10 DEF HungOn
  <2>13. \A m \in Obj : \A c : AV(c) \in ToSet(kids[AV(m)]) => AV(c) \in ToSet(l[AV(m)])
    <3>1. /\ ToSet(l[AV(h)]) = (ToSet(kids[AV(h)]) \ {Skeleton(r)}) \cup {Skeleton(r)}
          /\ \A g \in GNodes : g # AV(h) => ToSet(l[g]) = ToSet(kids[g]) \ {Skeleton(r)}
      BY <2>4 DEF Moved
    <3>2. \A c : AV(c) # Skeleton(r)
      BY Names
    <3> QED
      BY <1>10, <3>1, <3>2
  <2>14. \A m \in Obj : m # h => \A c :
            kids[AV(m)] # <<>> /\ Last(kids[AV(m)]) = AV(c) => Last(l[AV(m)]) = AV(c)
    <3>1. \A g \in GNodes : g # AV(h) /\ kids[g] # <<>> /\ Last(kids[g]) # Skeleton(r)
            => Last(l[g]) = Last(kids[g])
      BY <2>4 DEF Moved
    <3>2. \A c : AV(c) # Skeleton(r)
      BY Names
    <3> QED
      BY <1>10, <3>1, <3>2
  <2>15. Put({h})
    BY <1>9, <2>11, <2>12, <2>13, <2>14 DEF Put
  <2> QED
    BY <1>7, <2>10, <2>15 DEF h
<1>8. CASE ~Moves(r, n)
  <2>1. h = skel[r].host /\ kids' = Hung(kids, file.skin[o].root, o)
    BY <1>1, <1>8
  <2>2. Hosts' = Hosts
    <3>1. Hosts[r] = h /\ r \in DOMAIN Hosts
      BY <1>1, <1>4, <2>1 DEF Hosts
    <3>2. Hosts = [q \in DOMAIN Hosts |-> Hosts[q]]
      BY DEF Hosts
    <3> HIDE DEF r, h
    <3>3. With(Hosts, r, h) = [q \in DOMAIN Hosts |-> IF q = r THEN h ELSE Hosts[q]]
      BY <3>1 DEF With
    <3>4. \A q \in DOMAIN Hosts : (IF q = r THEN h ELSE Hosts[q]) = Hosts[q]
      BY <3>1
    <3> QED
      BY <1>5, <3>2, <3>3, <3>4
  <2>3. Sound(kids, Hosts')
    BY <1>4, <2>2
  <2>4. \A y : Placed(kids, y) <=> Placed(kids, y) \/ y \in Z
    BY <1>6
  <2>5. Hangs' /\ HungOn(kids, Hosts', file.skin[o].root, o, kids')
    BY <1>4, <1>6, <2>1, <2>3, <2>4, HangsPut
  <2>6. \A y : Placed(kids', y) <=> Placed(kids, y) \/ (~file.empty[o] /\ y = AV(o))
    BY <2>5 DEF HungOn
  <2>7. \A m \in Obj : kids'[AV(m)] = kids[AV(m)]
    BY <1>10, <2>5 DEF HungOn
  <2>8. Put({})
    BY <1>9, <2>6, <2>7 DEF Put
  <2> QED
    BY <1>8, <2>5, <2>8
<1> QED
  BY <1>7, <1>8

\* A step that leaves the scene alone.
LEMMA HangsKept ==
    ASSUME Hangs, UNCHANGED <<file, stack, kids, skel, mesh, attached>>,
           phase' = "walk" => phase = "walk"
    PROVE  Hangs'
<1>1. Hosts' = Hosts /\ Unmet' = Unmet
  BY DEF Hosts, Unmet, Waits
<1>2. Settled'
  BY <1>1 DEF Hangs, Settled
<1>3. Follows(kids) => Follows(kids)'
  BY DEF Follows, ChildrenAt, Leaves, Skeletons
<1>4. Laid'
  BY <1>3 DEF Hangs, Laid
<1>5. Sound(kids', Hosts')
  BY <1>1 DEF Hangs
<1> QED
  BY <1>2, <1>4, <1>5 DEF Hangs

\* Every step of the walk keeps what hangs in the scene.
LEMMA HangsStep ==
    Types /\ Calls /\ Hangs /\ [Next]_vars /\ (\A r \in Obj : ~Attach(r)) => Hangs'
<1> SUFFICES ASSUME Types, Calls, Hangs, [Next]_vars, \A r \in Obj : ~Attach(r)
             PROVE  Hangs'
  OBVIOUS
<1>1. CASE EnterNode
  BY <1>1, HangsEntered
<1>2. CASE Leave
  BY <1>2, HangsLeft
<1>3. CASE Leaf
  <2>1. /\ phase = "walk" /\ stack # <<>> /\ Pending /\ file.kind[child] \notin NodeKinds
        /\ kids' \in {kids, AddChild(kids, AV(top.node), AV(child))} /\ stack' = Advance
        /\ UNCHANGED <<file, phase, skel, reparented, mesh, attached, turned>>
    BY <1>3 DEF Leaf
  <2> QED
    BY <2>1, HangsAdvanced
<1>4. CASE SharedSkeleton
  <2>1. PICK o, s, t : Visited(o) /\ PutOn(o, s, t) /\ SharedOn(o, s)
    BY <1>4, SharedIs
  <2> QED
    BY <2>1, HangsShared
<1>5. CASE FirstSkeleton
  <2>1. PICK o, s, t : Visited(o) /\ PutOn(o, s, t) /\ FirstOn(o, s)
    BY <1>5, FirstIs
  <2> QED
    BY <2>1, HangsFirst
<1>6. CASE NoSkeleton
  <2>1. PICK o \in Obj : /\ Visits(o)
                         /\ kids' = (IF file.empty[o] THEN kids
                                     ELSE AddChild(kids, AV(top.node), AV(o)))
                         /\ stack' = Advance
                         /\ UNCHANGED <<file, phase, hidden, skel, reparented, mesh, attached, turned>>
    BY <1>6 DEF NoSkeleton
  <2>2. /\ phase = "walk" /\ stack # <<>> /\ Pending /\ o = child /\ file.kind[o] = "shape"
    BY <2>1, VisitedIs DEF Visited
  <2>3. file.kind[child] \notin NodeKinds
    BY <2>2 DEF NodeKinds
  <2>4. kids' \in {kids, AddChild(kids, AV(top.node), AV(child))}
    BY <2>1, <2>2
  <2> QED
    BY <2>1, <2>2, <2>3, <2>4, HangsAdvanced
<1>7. CASE WalkDone
  BY <1>7, HangsKept DEF WalkDone
<1>8. CASE Correct
  BY <1>8, HangsKept DEF Correct
<1>9. CASE Throw
  BY <1>9, HangsKept DEF Throw
<1>10. CASE UNCHANGED vars
  BY <1>10, HangsKept DEF vars
<1> QED
  BY <1>1, <1>2, <1>3, <1>4, <1>5, <1>6, <1>7, <1>8, <1>9, <1>10 DEF Next

LEMMA HangsInit == Init => Hangs
<1> SUFFICES ASSUME Init
             PROVE  Hangs
  OBVIOUS
<1>1. /\ file \in Files /\ phase = "walk" /\ attached = <<>>
      /\ kids = [g \in GNodes |-> IF g = Top THEN <<AV(Root)>> ELSE <<>>]
      /\ DOMAIN skel = {} /\ mesh = [o \in Obj |-> NoMesh]
  BY DEF Init
<1>2. Unmet = Obj \ {Root}
  BY UnmetInit
<1>3. Root \in Obj /\ Top \in GNodes /\ AV(Root) \in GNodes /\ Top # AV(Root)
  BY Names, FilesAssumption
<1> DEFINE x == AV(Root)
<1>4. kids[Top] = <<x>> /\ \A g \in GNodes : g # Top => kids[g] = <<>>
  BY <1>1, <1>3
<1>5. kids \in Trees
  BY TypesInit DEF Types
<1> HIDE DEF x
<1>6. ToSet(kids[Top]) = {x} /\ \A g \in GNodes : g # Top => ToSet(kids[g]) = {}
  BY <1>4 DEF ToSet
<1>7. \A y : Placed(kids, y) <=> y = x
  BY <1>3, <1>6 DEF Placed
<1>8. Once(kids)
  <2>1. IsInjective(<<x>>) /\ IsInjective(<<>>)
    BY DEF IsInjective
  <2>2. \A g \in GNodes : IsInjective(kids[g])
    BY <1>4, <2>1
  <2> QED
    BY <1>5, <1>6, <2>2 DEF Once
<1>9. Rooted(kids)
  <2>1. Top \in Under(kids, Top) /\ Closed(kids, Under(kids, Top))
    BY <1>3, <1>5, Below
  <2>2. x \in Under(kids, Top)
    BY <1>6, <2>1 DEF Closed
  <2>3. x # Top
    BY <1>3 DEF x
  <2> QED
    BY <1>4, <1>7, <2>1, <2>2, <2>3 DEF Rooted
<1>10. Sound(kids, Hosts)
  <2>1. DOMAIN Hosts = {}
    BY <1>1 DEF Hosts
  <2>2. x # ScenePlayer /\ x # Player /\ \A r \in Obj : x # Skeleton(r) /\ x # Debug(r)
    BY Names DEF x
  <2> QED
    BY <1>4, <1>7, <1>8, <1>9, <2>1, <2>2 DEF Sound, Tree, x
<1>11. Settled
  <2>1. /\ \A c \in Obj : AV(c) = x => c = Root
        /\ \A r, c \in Obj : Attachment(r, c) # x
    BY Names DEF x
  <2>2. \A o \in Obj : mesh[o].on = 0
    BY <1>1 DEF NoMesh
  <2>3. \A o \in Obj : o \notin Unmet => AV(o) = x
    BY <1>2 DEF x
  <2>4. \A c \in Unmet : c \in Obj /\ c # Root
    BY <1>2
  <2> QED
    BY <1>7, <2>1, <2>2, <2>3, <2>4 DEF Settled
<1>12. Follows(kids)
  <2>1. \A o \in Obj : AV(o) \in GNodes /\ AV(o) # Top
    BY Names
  <2>2. \A r \in Obj : /\ Skeleton(r) \in GNodes /\ Skeleton(r) # Top
                       /\ Debug(r) \in GNodes /\ Debug(r) # Top
    BY Names
  <2> QED
    BY <1>6, <2>1, <2>2 DEF Follows
<1> QED
  BY <1>1, <1>10, <1>11, <1>12 DEF Hangs, Laid

\* One attachment: the node hangs on it, or carries the skeleton.
Carried(k, r, c) ==
    \/ GParents(k, AV(c)) = {Attachment(r, c)}
    \/ Skeleton(r) \in Under(k, AV(c))
Attached(k, r, c, m) ==
    /\ Sound(m, Hosts) /\ Carried(m, r, c)
    /\ \A y : Placed(k, y) => Placed(m, y)
    /\ \A y : Placed(m, y) => Placed(k, y) \/ y = Attachment(r, c)
    /\ \A d \in Obj : d # c /\ Carried(k, r, d) => Carried(m, r, d)

LEMMA AttachedNode ==
    ASSUME Types, NEW k, Sound(k, Hosts), NEW r \in DOMAIN skel, NEW c \in Obj, c # Root,
           Placed(k, AV(c)), ~Placed(k, Attachment(r, c))
    PROVE  Attached(k, r, c, AttachNode(k, r, c))
<1> DEFINE a == Attachment(r, c)
           l == AddChild(k, Skeleton(r), a)
           m == Move(l, a, AV(c))
           h == Hosts
<1>1. CASE AncestorOfSkeleton(k, c, r)
  BY <1>1 DEF AttachNode, AncestorOfSkeleton, Attached, Carried
<1>2. CASE ~AncestorOfSkeleton(k, c, r)
  <2>1. AttachNode(k, r, c) = m /\ Skeleton(r) \notin Under(k, AV(c))
    BY <1>2 DEF AttachNode, AncestorOfSkeleton
  <2>2. DOMAIN h \subseteq Obj /\ r \in DOMAIN h /\ r \in Obj
    BY DEF Hosts, Types
  <2>3. Sound(k, h) /\ Tree(k) /\ k \in Trees
    BY DEF Sound, Tree, Once
  <2> HIDE DEF h
  <2>4. /\ a \in GNodes /\ a \notin {Top, ScenePlayer, Player} /\ AV(c) \in GNodes
        /\ AV(c) # Top /\ AV(c) # a /\ Skeleton(r) \in GNodes /\ Skeleton(r) # Top
        /\ Top \in GNodes /\ AV(c) # Skeleton(r) /\ \A q \in Obj : a # Skeleton(q) /\ a # Debug(q)
    <3>1. a \in GNodes /\ AV(c) \in GNodes /\ Skeleton(r) \in GNodes /\ Top \in GNodes
      BY <2>2, Names
    <3>2. a \notin {Top, ScenePlayer, Player} /\ AV(c) # Top /\ Skeleton(r) # Top
      BY Names
    <3>3. AV(c) # a /\ AV(c) # Skeleton(r) /\ \A q \in Obj : a # Skeleton(q) /\ a # Debug(q)
      BY Names
    <3> QED
      BY <3>1, <3>2, <3>3
  <2>5. Placed(k, Skeleton(r))
    <3>1. GParents(k, Skeleton(r)) # {}
      BY <2>2, <2>3 DEF Sound
    <3> QED
      BY <3>1 DEF GParents, Placed
  <2>6. Skeleton(r) \in Under(k, Top) /\ AV(c) \in Under(k, Top)
        /\ Under(k, AV(c)) \subseteq Under(k, Top)
    BY <2>3, <2>4, <2>5, Inside
  <2> HIDE DEF a
  <2>7. Sound(l, h) /\ TreeAdded(k, Skeleton(r), a, l)
    <3>1. ~Placed(k, a)
      BY DEF a
    <3> QED
      BY <2>2, <2>3, <2>4, <2>6, <3>1, SoundAdded
  <2> HIDE DEF l
  <2>8. \A y : Placed(l, y) <=> Placed(k, y) \/ y = a
    BY <2>7 DEF TreeAdded
  <2>9. Under(l, AV(c)) = Under(k, AV(c)) /\ a \notin Under(l, AV(c))
        /\ \A y \in GNodes : Under(k, y) \subseteq Under(l, y)
    <3>1. a \notin Under(k, AV(c))
      BY <2>6, <2>7 DEF TreeAdded
    <3>2. \A y \in GNodes : Under(l, y) = Under(k, y)
                              \cup (IF Skeleton(r) \in Under(k, y) THEN {a} ELSE {})
      BY <2>7 DEF TreeAdded
    <3> QED
      BY <2>1, <2>4, <3>1, <3>2
  <2>10. Tree(l) /\ AV(c) \in Under(l, Top) /\ a \in Under(l, Top) /\ Once(l)
    <3>1. Tree(l)
      BY <2>7 DEF Sound
    <3> QED
      BY <2>4, <2>8, <3>1, Inside DEF Tree
  <2>11. TreeMoved(l, a, AV(c), m)
    BY <2>4, <2>9, <2>10, MovedTree
  <2>12. Moved(l, a, AV(c), m)
    BY <2>4, <2>10, Moving
  <2> HIDE DEF m
  <2>13. m[Top] = l[Top]
    <3>1. ToSet(l[Top]) = {AV(Root)}
      BY <2>7 DEF Sound, ToSet
    <3>2. AV(c) \notin ToSet(l[Top])
      BY <3>1, Names
    <3> QED
      BY <2>4, <2>12, <3>2 DEF Moved
  <2>14. \A y : Placed(m, y) <=> Placed(l, y)
    BY <2>11 DEF TreeMoved
  <2>15. Sound(m, h)
    <3>1. ASSUME NEW q \in DOMAIN h
          PROVE  GParents(m, Skeleton(q)) = {AV(h[q])}
      <4>1. Skeleton(q) \in GNodes /\ Skeleton(q) # AV(c)
        BY <2>2, Names
      <4>2. GParents(m, Skeleton(q)) = GParents(l, Skeleton(q))
        BY <2>11, <4>1 DEF TreeMoved
      <4> QED
        BY <2>7, <4>2 DEF Sound
    <3>2. Tree(m)
      BY <2>11 DEF TreeMoved
    <3> QED
      BY <2>7, <2>13, <2>14, <3>1, <3>2 DEF Sound
  <2>16. Carried(m, r, c)
    BY <2>11 DEF Carried, TreeMoved, a
  <2>17. ASSUME NEW d \in Obj, d # c, Carried(k, r, d)
         PROVE  Carried(m, r, d)
    <3>1. AV(d) \in GNodes /\ AV(d) # AV(c) /\ AV(d) # a
      <4>1. AV(d) \in GNodes /\ AV(d) # AV(c)
        BY <2>17, Names
      <4>2. AV(d) # a
        BY Names DEF a
      <4> QED
        BY <4>1, <4>2
    <3>2. GParents(l, AV(d)) = GParents(k, AV(d))
      BY <2>7, <3>1 DEF TreeAdded
    <3>3. GParents(m, AV(d)) = GParents(l, AV(d))
      BY <2>11, <3>1 DEF TreeMoved
    <3>4. Skeleton(r) \in Under(k, AV(d)) => Skeleton(r) \in Under(m, AV(d))
      <4>1. \A z \in Under(l, AV(d)) : z \notin Under(l, AV(c)) => z \in Under(m, AV(d))
        BY <2>11, <3>1 DEF TreeMoved
      <4>2. Skeleton(r) \notin Under(l, AV(c))
        BY <2>1, <2>9
      <4> QED
        BY <2>9, <3>1, <4>1, <4>2
    <3> QED
      BY <2>17, <3>2, <3>3, <3>4 DEF Carried
  <2> QED
    BY <2>1, <2>8, <2>14, <2>15, <2>16, <2>17 DEF Attached, a, h
<1> QED
  BY <1>1, <1>2

\* The scene k after the first i attachments of an order.
AttachedTo(r, order, i, k) ==
    /\ Sound(k, Hosts)
    /\ \A y : Placed(kids, y) => Placed(k, y)
    /\ \A y : Placed(k, y) => Placed(kids, y) \/ \E j \in 1 .. i : y = Attachment(r, order[j])
    /\ \A j \in 1 .. i : Carried(k, r, order[j])

LEMMA AttachedOne ==
    ASSUME Types, Settled, phase = "attach", Unmet = {}, NEW r \in DOMAIN skel,
           r \notin ToSet(attached), NEW order \in Seq(Obj),
           \A i, j \in DOMAIN order : i < j => Earlier(order[i], order[j]),
           \A i \in DOMAIN order : IsAttachment(r, order[i]),
           NEW n \in 0 .. Len(order) - 1, NEW k, AttachedTo(r, order, n, k)
    PROVE  AttachedTo(r, order, n + 1, AttachNode(k, r, order[n + 1]))
<1> DEFINE i == n + 1
           c == order[i]
           m == AttachNode(k, r, c)
<1>1. Len(order) \in Nat /\ DOMAIN order = 1 .. Len(order) /\ n \in Nat
  OBVIOUS
<1>2. i \in DOMAIN order /\ i \in Nat /\ \A j \in 1 .. n : j \in DOMAIN order /\ j < i
  BY <1>1
<1>3. \A j \in 1 .. i : j = i \/ j \in 1 .. n
  BY <1>1
<1>4. \A j \in 1 .. n : j \in 1 .. i
  BY <1>1
<1>5. i \in 1 .. i
  BY <1>1
<1> HIDE DEF i
<1>6. c \in Obj /\ IsAttachment(r, c)
  BY <1>2
<1>7. file \in Files /\ r \in Obj
  BY DEF Types
<1>8. c # Root /\ file.kind[c] \in NodeKinds
  <2>1. file.kind[c] \in NodeKinds /\ r \in Above(file, c)
    BY <1>6 DEF IsAttachment
  <2>2. r \in file.over[c] /\ r # c
    BY <2>1 DEF Above
  <2>3. c = Root => r = Root
    BY <1>6, <1>7, <2>2, Chain, Roots
  <2> QED
    BY <2>1, <2>2, <2>3
<1>9. \A j \in 1 .. n : order[j] \in Obj /\ order[j] # c
  <2> SUFFICES ASSUME NEW j \in 1 .. n
               PROVE  order[j] \in Obj /\ order[j] # c
    OBVIOUS
  <2>1. Earlier(order[j], c) /\ order[j] \in Obj
    BY <1>2
  <2>2. file.up[c] \in Obj \cup {0} /\ c \in Nat
    BY <1>6, <1>7, Roots
  <2>3. file.up[c] \in Nat
    BY <1>7, <2>2, FilesAssumption
  <2>4. ~Earlier(c, c)
    BY <2>2, <2>3 DEF Earlier
  <2> QED
    BY <2>1, <2>4
<1> HIDE DEF c
<1>10. Placed(k, AV(c))
  BY <1>6, <1>8 DEF Settled, AttachedTo
<1>11. ~Placed(k, Attachment(r, c))
  <2>1. ~Placed(kids, Attachment(r, c))
    BY <1>6, <1>7 DEF Settled
  <2>2. \A j \in 1 .. n : Attachment(r, c) # Attachment(r, order[j])
    BY <1>9, Names
  <2> QED
    BY <2>1, <2>2 DEF AttachedTo
<1>12. Attached(k, r, c, m)
  BY <1>6, <1>8, <1>10, <1>11, AttachedNode DEF AttachedTo
<1> HIDE DEF m
<1>13. Sound(m, Hosts) /\ \A y : Placed(kids, y) => Placed(m, y)
  BY <1>12 DEF Attached, AttachedTo
<1>14. \A y : Placed(m, y) => Placed(kids, y) \/ \E j \in 1 .. i : y = Attachment(r, order[j])
  <2> SUFFICES ASSUME NEW y, Placed(m, y), ~Placed(kids, y)
               PROVE  \E j \in 1 .. i : y = Attachment(r, order[j])
    OBVIOUS
  <2>1. Placed(k, y) \/ y = Attachment(r, c)
    BY <1>12 DEF Attached
  <2>2. Placed(k, y) => \E j \in 1 .. n : y = Attachment(r, order[j])
    BY DEF AttachedTo
  <2> QED
    BY <1>4, <1>5, <2>1, <2>2 DEF c
<1>15. \A j \in 1 .. i : Carried(m, r, order[j])
  <2> SUFFICES ASSUME NEW j \in 1 .. i
               PROVE  Carried(m, r, order[j])
    OBVIOUS
  <2>1. Carried(m, r, c)
    BY <1>12 DEF Attached
  <2>2. CASE j = i
    BY <2>1, <2>2 DEF c
  <2>3. CASE j \in 1 .. n
    <3>1. order[j] \in Obj /\ order[j] # c /\ Carried(k, r, order[j])
      BY <1>9, <2>3 DEF AttachedTo
    <3> QED
      BY <1>12, <3>1 DEF Attached
  <2> QED
    BY <1>3, <2>2, <2>3
<1> QED
  BY <1>13, <1>14, <1>15 DEF AttachedTo, i, c, m

LEMMA AttachIs ==
    ASSUME Types, Calls, Hangs, NEW r \in Obj, Attach(r)
    PROVE  /\ Hangs' /\ \A c \in Obj : IsAttachment(r, c) => Carried(kids', r, c)
           /\ \A y : Placed(kids, y) => Placed(kids', y)
           /\ \A a : Placed(kids', AV(a)) => Placed(kids, AV(a))
<1> DEFINE S == {c \in Obj : IsAttachment(r, c)}
<1>1. /\ phase = "attach" /\ r \in DOMAIN skel /\ r \notin ToSet(attached)
      /\ attached' = Append(attached, r)
      /\ UNCHANGED <<file, phase, stack, hidden, skel, reparented, mesh, turned>>
  BY DEF Attach
<1>2. PICK order \in WalkOrders(S) : kids' = AttachAll(r, order)
  BY DEF Attach
<1>3. S \in SUBSET Obj
  OBVIOUS
<1>4. stack = <<>> /\ Unmet = {}
  <2>1. stack = <<>>
    BY <1>1 DEF Calls
  <2> QED
    BY <2>1 DEF Unmet
<1>5. Settled /\ Sound(kids, Hosts) /\ kids \in Trees /\ attached \in Seq(Obj)
  BY DEF Hangs, Types
<1> HIDE DEF S
<1>6. /\ order \in Seq(Obj) /\ ToSet(order) = S
      /\ \A i, j \in DOMAIN order : i < j => Earlier(order[i], order[j])
      /\ DOMAIN order = 1 .. Len(order) /\ Len(order) \in Nat
  BY <1>3, WalkOrderIs
<1>7. \A i \in DOMAIN order : IsAttachment(r, order[i])
  <2>1. \A i \in DOMAIN order : order[i] \in S
    BY <1>6 DEF ToSet
  <2> QED
    BY <2>1 DEF S
<1> DEFINE n == Len(order)
<1>8. PICK run \in [0 .. n -> Trees] :
        /\ run[0] = kids /\ AttachAll(r, order) = run[n]
        /\ \A i \in 1 .. n : run[i] = AttachNode(run[i - 1], r, order[i])
  BY <1>5, <1>6, AttachRuns
<1> DEFINE P == {i \in 0 .. n : AttachedTo(r, order, i, run[i])}
<1>9. 0 \in P
  <2>1. 0 \in 0 .. n /\ \A j \in 1 .. 0 : FALSE
    BY <1>6
  <2>2. AttachedTo(r, order, 0, kids)
    BY <1>5, <2>1 DEF AttachedTo
  <2> QED
    BY <1>8, <2>1, <2>2
<1>10. \A i \in 0 .. n - 1 : i \in P => i + 1 \in P
  <2> SUFFICES ASSUME NEW i \in 0 .. n - 1, i \in P
               PROVE  i + 1 \in P
    OBVIOUS
  <2>1. AttachedTo(r, order, i, run[i]) /\ i \in 0 .. Len(order) - 1
    OBVIOUS
  <2>2. i + 1 \in 1 .. n /\ i + 1 \in 0 .. n /\ i + 1 - 1 = i
    BY <1>6
  <2> HIDE DEF P, n
  <2>3. run[i + 1] = AttachNode(run[i], r, order[i + 1])
    BY <1>8, <2>2
  <2>4. AttachedTo(r, order, i + 1, AttachNode(run[i], r, order[i + 1]))
    BY <1>1, <1>4, <1>5, <1>6, <1>7, <2>1, AttachedOne
  <2> QED
    BY <2>2, <2>3, <2>4 DEF P
<1>11. n \in P
  <2>1. n \in Nat /\ n \in 0 .. n
    BY <1>6
  <2> HIDE DEF P, n
  <2> QED
    BY <1>9, <1>10, <2>1, UpTo
<1>12. AttachedTo(r, order, n, kids')
  BY <1>2, <1>8, <1>11
<1> HIDE DEF P, n
<1>13. ASSUME NEW c \in Obj, IsAttachment(r, c)
       PROVE  Carried(kids', r, c)
  <2>1. c \in ToSet(order)
    BY <1>6, <1>13 DEF S
  <2>2. PICK i \in DOMAIN order : order[i] = c
    BY <2>1 DEF ToSet
  <2>3. i \in 1 .. n
    BY <1>6 DEF n
  <2> QED
    BY <1>12, <2>2, <2>3 DEF AttachedTo
<1>14. Hosts' = Hosts /\ Unmet' = {}
  BY <1>1, <1>4 DEF Hosts, Unmet
<1>15. Sound(kids', Hosts')
  BY <1>12, <1>14 DEF AttachedTo
<1>16. ToSet(attached') = ToSet(attached) \cup {r}
  BY <1>1, <1>5, Appended
<1>17. Settled'
  <2>1. \A o \in Obj : file.kind[o] \in NodeKinds => Placed(kids', AV(o))
    BY <1>4, <1>5, <1>12 DEF Settled, AttachedTo
  <2>2. \A o \in Obj : mesh[o].on # 0 => Placed(kids', AV(o))
    BY <1>5, <1>12 DEF Settled, AttachedTo
  <2>3. ASSUME NEW q \in Obj, NEW c \in Obj, Placed(kids', Attachment(q, c))
        PROVE  q \in ToSet(attached')
    <3>1. Placed(kids, Attachment(q, c)) \/ \E j \in 1 .. n : Attachment(q, c) = Attachment(r, order[j])
      BY <1>12, <2>3 DEF AttachedTo
    <3>2. \A j : Attachment(q, c) = Attachment(r, order[j]) => q = r
      BY Names
    <3> QED
      BY <1>5, <1>16, <3>1, <3>2 DEF Settled
  <2> QED
    BY <1>1, <1>14, <2>1, <2>2, <2>3 DEF Settled
<1>18. Laid'
  BY <1>1 DEF Laid
<1>19. \A y : Placed(kids, y) => Placed(kids', y)
  BY <1>12 DEF AttachedTo
<1>20. \A a : Placed(kids', AV(a)) => Placed(kids, AV(a))
  BY <1>12, Names DEF AttachedTo
<1> QED
  BY <1>13, <1>15, <1>17, <1>18, <1>19, <1>20 DEF Hangs

\* What the scene promises follows from what hangs in it.
LEMMA HostsOver == Types /\ Weighed /\ Hangs => SkeletonOverItsShapes
<1> SUFFICES ASSUME Types, Weighed, Hangs, NEW r \in DOMAIN skel
             PROVE  /\ \A o \in Obj : mesh[o].on = r => Descends(file, o, skel[r].host)
                    /\ GParents(kids, Skeleton(r)) = {AV(skel[r].host)}
  BY DEF SkeletonOverItsShapes
<1>1. r # 0
  BY FilesAssumption DEF Types
<1>2. \A o \in Obj : mesh[o].on = r => skel[r].host \in file.over[o]
  BY <1>1 DEF Weighed, WeighedOn
<1>3. r \in DOMAIN Hosts /\ Hosts[r] = skel[r].host
  BY DEF Hosts
<1>4. GParents(kids, Skeleton(r)) = {AV(Hosts[r])}
  BY <1>3 DEF Hangs, Sound
<1> QED
  BY <1>2, <1>3, <1>4 DEF Descends

LEMMA TreeIs == Types /\ Weighed /\ Calls /\ Hangs => SceneIsTree
<1> SUFFICES ASSUME Types, Weighed, Calls, Hangs
             PROVE  SceneIsTree
  OBVIOUS
<1> DEFINE scene == Under(kids, Top)
<1>1. Tree(kids) /\ Once(kids) /\ Rooted(kids) /\ kids \in Trees
  BY DEF Hangs, Sound, Tree, Once
<1>2. ASSUME NEW g \in GNodes, g # Top, kids[g] # <<>> \/ g \in scene
      PROVE  g \in scene /\ Cardinality(GParents(kids, g)) = 1
  <2>1. g \in scene
    BY <1>1, <1>2 DEF Rooted
  <2>2. Placed(kids, g)
    BY <1>1, <1>2, <2>1, Names, InPlace
  <2>3. PICK p \in GNodes : g \in ToSet(kids[p])
    BY <2>2 DEF Placed
  <2>4. GParents(kids, g) = {p}
    BY <1>1, <2>3 DEF GParents, Once
  <2>5. Cardinality({p}) = 1
    BY FS_Singleton
  <2> QED
    BY <2>1, <2>4, <2>5
<1>3. \A g \in GNodes : Placed(kids, g) => g \in scene
  BY <1>1 DEF Rooted
<1>4. ASSUME NEW r \in DOMAIN skel
      PROVE  Skeleton(r) \in scene
  <2>1. r \in DOMAIN Hosts /\ r \in Obj
    BY DEF Hosts, Types
  <2>2. GParents(kids, Skeleton(r)) # {} /\ Skeleton(r) \in GNodes
    BY <2>1, Names DEF Hangs, Sound
  <2> QED
    BY <1>3, <2>2 DEF GParents, Placed
<1>5. \A o \in Obj : AV(o) \in GNodes
  BY Names
<1>6. \A o \in Obj : mesh[o] # NoMesh => AV(o) \in scene
  BY <1>3, <1>5 DEF Weighed, Hangs, Settled
<1>7. phase = "done" => \A o \in Obj : file.kind[o] \in NodeKinds => AV(o) \in scene
  <2> SUFFICES ASSUME phase = "done", NEW o \in Obj, file.kind[o] \in NodeKinds
               PROVE  AV(o) \in scene
    OBVIOUS
  <2>1. stack = <<>>
    BY DEF Calls
  <2>2. Unmet = {}
    BY <2>1 DEF Unmet
  <2> QED
    BY <1>3, <1>5, <2>2 DEF Hangs, Settled
<1> QED
  BY <1>2, <1>4, <1>6, <1>7 DEF SceneIsTree

\* A pass over a skeleton's attachments is the only step that adds to them.
LEMMA FollowsStep ==
    Types /\ Calls /\ Hangs /\ [Next]_vars =>
        \A r \in ToSet(attached') \ ToSet(attached) : \A c \in Obj : IsAttachment(r, c) =>
            GParents(kids', AV(c)) = {Attachment(r, c)} \/ Skeleton(r) \in Under(kids', AV(c))
<1> SUFFICES ASSUME Types, Calls, Hangs, [Next]_vars,
                    NEW r \in ToSet(attached') \ ToSet(attached),
                    NEW c \in Obj, IsAttachment(r, c)
             PROVE  Carried(kids', r, c)
  BY DEF Carried
<1>1. attached' # attached
  OBVIOUS
<1>2. ~EnterNode /\ ~Leave /\ ~Leaf /\ ~NoSkeleton /\ ~WalkDone /\ ~Correct /\ ~Throw
  BY <1>1 DEF EnterNode, Leave, Leaf, NoSkeleton, WalkDone, Correct, Throw
<1>3. ~SharedSkeleton /\ ~FirstSkeleton
  BY <1>1 DEF SharedSkeleton, FirstSkeleton, PutMesh
<1>4. ~UNCHANGED vars
  BY <1>1 DEF vars
<1>5. PICK q \in Obj : Attach(q)
  BY <1>2, <1>3, <1>4 DEF Next
<1>6. attached' = Append(attached, q) /\ attached \in Seq(Obj)
  BY <1>5 DEF Attach, Types
<1>7. r = q
  BY <1>6, Appended
<1> QED
  BY <1>5, <1>7, AttachIs

\* A call and the one it was made by.
LEMMA Caller ==
    ASSUME Types, Calls, NEW j \in 1 .. Len(stack) - 1
    PROVE  /\ j \in DOMAIN stack /\ j + 1 \in DOMAIN stack /\ j \in Nat /\ 1 \in DOMAIN stack
           /\ stack[j].node \in Obj /\ stack[j + 1].node \in Obj
           /\ file.up[stack[j].node] = stack[j + 1].node /\ stack[j].node # Root
           /\ stack[j + 1].node # stack[1].node
           /\ stack[j].node = Children(file, stack[j + 1].node)[stack[j + 1].next]
           /\ stack[j + 1].next \in DOMAIN Children(file, stack[j + 1].node)
<1>1. stack \in Seq(FrameType) /\ file \in Files
  BY DEF Types
<1> DEFINE m == j + 1
<1>2. j \in DOMAIN stack /\ m \in DOMAIN stack /\ j \in Nat /\ 1 \in DOMAIN stack /\ m # 1
      /\ m - 1 = j /\ 1 < m
  BY <1>1
<1> HIDE DEF m
<1>3. stack[j].node \in Obj /\ stack[m].node \in Obj
      /\ stack[j].node = Children(file, stack[m].node)[stack[m].next]
      /\ stack[m].next \in DOMAIN Children(file, stack[m].node)
  BY <1>2, FrameIs
<1>4. file.up[stack[j].node] = stack[m].node /\ stack[j].node # Root
  BY <1>1, <1>3, ChildrenOf
<1>5. stack[1].node \notin file.over[stack[m].node]
  BY <1>2, CallsDescend
<1>6. stack[m].node \in file.over[stack[m].node]
  BY <1>1, <1>3, Roots
<1> QED
  BY <1>2, <1>3, <1>4, <1>5, <1>6 DEF m

\* The calls' nodes after one has advanced.
LEMMA NodesAdvanced ==
    ASSUME Types, stack # <<>>, Pending, stack' = Advance
    PROVE  /\ Len(stack') = Len(stack) /\ DOMAIN stack' = DOMAIN stack /\ Calling' = Calling
           /\ \A j \in DOMAIN stack : stack'[j].node = stack[j].node
<1>1. DOMAIN stack' = DOMAIN stack /\ Len(stack') = Len(stack)
  BY AdvanceIs
<1>2. \A j \in DOMAIN stack : stack'[j].node = stack[j].node
  BY AdvanceIs, ChildIs
<1>3. Calling' = {stack'[j].node : j \in DOMAIN stack'}
  BY DEF Calling
<1>4. Calling' = Calling
  BY <1>1, <1>2, <1>3 DEF Calling
<1> QED
  BY <1>1, <1>2, <1>4

\* The calls after one that has advanced, when the child has been put.
LEMMA LastsPut ==
    ASSUME Types, Calls, Based, Lasts, phase = "walk", stack # <<>>, Pending, stack' = Advance,
           file' = file, NEW H, Put(H), \A m \in H : ~Unshared(m)
    PROVE  Based' /\ Lasts'
<1>1. /\ Len(stack') = Len(stack) /\ DOMAIN stack' = DOMAIN stack
      /\ \A j \in DOMAIN stack : stack'[j].node = stack[j].node
  BY NodesAdvanced
<1>2. Based'
  BY <1>1 DEF Based
<1>3. top = stack[1]
  BY ChildIs
<1>4. ASSUME NEW j \in 1 .. Len(stack) - 1
      PROVE  LET n == stack'[j + 1].node IN
             /\ AV(stack'[j].node) \in ToSet(kids'[AV(n)])
             /\ Handled(n) /\ Unshared(n) => Last(kids'[AV(n)]) = AV(stack'[j].node)
  <2> DEFINE n == stack[j + 1].node
             c == stack[j].node
  <2>1. n \in Obj /\ n # top.node /\ stack'[j + 1].node = n /\ stack'[j].node = c
    BY <1>1, <1>3, Caller
  <2>2. AV(c) \in ToSet(kids[AV(n)]) /\ (Handled(n) /\ Unshared(n) => Last(kids[AV(n)]) = AV(c))
    BY DEF Lasts
  <2>3. kids[AV(n)] # <<>>
    BY <2>2 DEF ToSet
  <2> HIDE DEF n, c
  <2>4. AV(c) \in ToSet(kids'[AV(n)])
    BY <2>1, <2>2 DEF Put
  <2>5. Handled(n) /\ Unshared(n) => Last(kids'[AV(n)]) = AV(c)
    BY <2>1, <2>2, <2>3 DEF Put
  <2> QED
    BY <2>1, <2>4, <2>5
<1>5. Lasts'
  BY <1>1, <1>4 DEF Lasts, Handled, Unshared
<1> QED
  BY <1>2, <1>5

\* What a step has done to the levels.
LEMMA LevelsBy ==
    ASSUME Levels, file' = file, \A g \in hidden' : g \in GNodes /\ Placed(kids', g),
           \A a : Level(a) /\ Placed(kids', AV(a)) =>
              \/ /\ Placed(kids, AV(a)) /\ (AV(a) \in hidden' <=> AV(a) \in hidden)
                 /\ a \in Calling' <=> a \in Calling
              \/ AV(a) \in hidden' <=> a \notin Calling' /\ ~Chosen(a)
    PROVE  Levels'
<1>1. \A a : Level(a)' <=> Level(a)
  BY DEF Level, Handled, Unshared
<1>2. \A a : Chosen(a)' <=> Chosen(a)
  BY DEF Chosen, Children, Keeps
<1>3. \A a : Level(a) /\ Placed(kids', AV(a)) =>
        (AV(a) \in hidden' <=> a \notin Calling' /\ ~Chosen(a))
  BY DEF Levels
<1> QED
  BY <1>1, <1>2, <1>3 DEF Levels

\* A child of process_ni_node is no level.
LEMMA LevelsPut ==
    ASSUME Types, Calls, Levels, stack # <<>>, Pending, top.mode = "node", stack' = Advance,
           file' = file, hidden' = hidden, NEW H, Put(H)
    PROVE  Levels'
<1>1. Calling' = Calling
  BY NodesAdvanced
<1>2. ~Level(child)
  <2>1. file.up[child] = top.node /\ top = stack[1] /\ 1 \in DOMAIN stack
    BY ChildIs
  <2>2. Handled(top.node) => top.mode = file.kind[top.node]
    BY <2>1 DEF Calls
  <2>3. Handled(top.node) => file.kind[top.node] # "node"
    BY DEF Handled
  <2> QED
    BY <2>1, <2>2, <2>3 DEF Level
<1>3. \A g \in hidden' : g \in GNodes /\ Placed(kids', g)
  BY DEF Levels, Put
<1>4. \A a : Level(a) /\ Placed(kids', AV(a)) => Placed(kids, AV(a))
  BY <1>2 DEF Put
<1> QED
  BY <1>1, <1>3, <1>4, LevelsBy

\* A skeleton that moves to a node is shared by two children of the node.
LEMMA MoveShares ==
    ASSUME Types, Weighed, NEW o, NEW s, Visited(o), SharedOn(o, s),
           Moves(file.skin[o].root, top.node)
    PROVE  ~Unshared(s.host)
<1> DEFINE r == file.skin[o].root
           n == top.node
           h == skel[r].host
           m == s.host
<1>1. /\ file \in Files /\ o \in Obj /\ o # Root /\ n \in Obj /\ file.up[o] = n
      /\ file.skin[o] # NoSkin /\ r \in DOMAIN skel /\ file.kind[o] = "shape"
  BY DEF Types, Visited, SharedOn
<1>2. h \in Obj /\ m = CommonAncestor(file, n, h) /\ h \notin file.over[n]
  BY <1>1 DEF Types, SkelType, SharedOn, Moves, Descends
<1>3. PICK p \in Obj : /\ file.skin[p] # NoSkin /\ file.skin[p].root = r
                       /\ p # Root /\ h \in file.over[file.up[p]]
  BY <1>1 DEF Weighed, Owes
<1> SUFFICES ASSUME Unshared(m)
             PROVE  FALSE
  OBVIOUS
<1> HIDE DEF h, n, r, m
<1>4. m \in file.over[n] \cap file.over[h] /\ file.over[n] \cap file.over[h] \subseteq file.over[m]
      /\ m \in Obj
  <2>1. h \in Obj /\ n \in Obj /\ file \in Files /\ m = CommonAncestor(file, n, h)
    BY <1>1, <1>2
  <2>2. m \in file.over[n] \cap file.over[h] /\ file.over[n] \cap file.over[h] \subseteq file.over[m]
    BY <2>1, Common
  <2>3. m \in Obj
    BY <2>1, <2>2, Chain
  <2> QED
    BY <2>2, <2>3
<1>5. Above(file, o) = file.over[n] /\ file.over[o] = {o} \cup file.over[n]
  BY <1>1, Parents
<1> DEFINE q == file.up[p]
<1>6. q \in Obj /\ Above(file, p) = file.over[q] /\ file.over[p] = {p} \cup file.over[q]
  BY <1>1, <1>3, Parents
<1>7. h \in file.over[q]
  BY <1>3
<1> HIDE DEF q
<1>8. file.over[h] \subseteq file.over[q]
  BY <1>1, <1>6, <1>7, Chain
<1>9. m \in Above(file, o) \cap Above(file, p)
  BY <1>4, <1>5, <1>6, <1>8
<1>10. PICK c \in Obj : file.up[c] = m /\ c \in file.over[o] \cap file.over[p]
  BY <1>1, <1>3, <1>9 DEF Unshared, r
<1>11. c # Root /\ c \notin file.over[m]
  <2>1. c # Root
    BY <1>1, <1>4, <1>10, Roots
  <2> QED
    BY <1>1, <1>10, <2>1, Parents
<1>12. CASE c = o
  <2>1. o \in file.over[p] /\ file.kind[o] \notin NodeKinds
    BY <1>1, <1>10, <1>12 DEF NodeKinds
  <2>2. p = o
    BY <1>1, <2>1, LeafAlone
  <2>3. q = n
    BY <1>1, <2>2 DEF q
  <2> QED
    BY <1>2, <1>7, <2>3
<1>13. CASE c \in file.over[n]
  <2>1. file.over[c] \subseteq file.over[n]
    BY <1>1, <1>13, Chain
  <2>2. c \notin file.over[h]
    BY <1>4, <1>11, <1>13
  <2>3. h \notin file.over[c]
    BY <1>2, <2>1
  <2>4. CASE c = p
    <3>1. h \in file.over[p]
      BY <1>6, <1>7
    <3> QED
      BY <2>3, <2>4, <3>1
  <2>5. CASE c \in file.over[q]
    <3>1. c \in file.over[h] \/ h \in file.over[c]
      BY <1>1, <1>6, <1>7, <2>5, Chain
    <3> QED
      BY <2>2, <2>3, <3>1
  <2> QED
    BY <1>6, <1>10, <2>4, <2>5
<1> QED
  BY <1>5, <1>10, <1>12, <1>13

LEMMA ShowsEntered == Types /\ Calls /\ Hangs /\ Shows /\ EnterNode => Shows'
<1> SUFFICES ASSUME Types, Calls, Hangs, Shows, EnterNode
             PROVE  Shows'
  OBVIOUS
<1> DEFINE N == Len(stack)
           st == stack'
<1>1. /\ phase = "walk" /\ stack # <<>> /\ Pending /\ file.kind[child] \in NodeKinds
      /\ kids' = AddChild(kids, AV(top.node), AV(child))
      /\ UNCHANGED <<file, phase, hidden, skel, reparented, mesh, attached, turned>>
  BY DEF EnterNode
<1>2. /\ stack \in Seq(FrameType) /\ N \in Nat /\ DOMAIN stack = 1 .. N /\ 1 \in DOMAIN stack
      /\ top = stack[1] /\ top.node \in Obj /\ child \in Obj
  BY <1>1, ChildIs DEF Types
<1>3. /\ Len(st) = N + 1 /\ DOMAIN st = 1 .. N + 1 /\ st[1].node = child
      /\ \A j \in 1 .. N : j + 1 \in 1 .. N + 1 /\ st[j + 1] = stack[j]
  <2>1. st \in Seq(FrameType) /\ Len(st) = N + 1 /\ st[1] = Frame(child, ModeOf(child))
        /\ \A j \in 1 .. N : j + 1 \in 1 .. N + 1 /\ st[j + 1] = stack[j]
    BY EnterIs
  <2>2. Frame(child, ModeOf(child)).node = child
    BY DEF Frame
  <2> HIDE DEF st, N
  <2> QED
    BY <2>1, <2>2
<1> HIDE DEF st, N
<1>4. ASSUME NEW j \in DOMAIN st, j # 1
      PROVE  \E i \in 1 .. N : j = i + 1 /\ st[j] = stack[i]
  <2> DEFINE i == j - 1
  <2>1. i \in 1 .. N /\ j = i + 1
    BY <1>2, <1>3, <1>4
  <2>2. st[i + 1] = stack[i]
    BY <1>3, <2>1
  <2> QED
    BY <2>1, <2>2
<1>5. Calling' = Calling \cup {child}
  <2>1. Calling' = {st[j].node : j \in DOMAIN st}
    BY DEF Calling, st
  <2>2. ASSUME NEW a \in Calling'
        PROVE  a \in Calling \cup {child}
    <3>1. PICK j \in DOMAIN st : a = st[j].node
      BY <2>1
    <3>2. j # 1 => \E i \in 1 .. N : st[j] = stack[i]
      BY <1>4
    <3> QED
      BY <1>2, <1>3, <3>1, <3>2 DEF Calling
  <2>3. ASSUME NEW a \in Calling
        PROVE  a \in Calling'
    <3>1. PICK i \in DOMAIN stack : a = stack[i].node
      BY DEF Calling
    <3>2. i + 1 \in DOMAIN st /\ st[i + 1] = stack[i]
      BY <1>2, <1>3
    <3> QED
      BY <2>1, <3>1, <3>2
  <2>4. 1 \in DOMAIN st
    BY <1>2, <1>3
  <2>5. child \in Calling'
    BY <1>3, <2>1, <2>4
  <2> QED
    BY <2>2, <2>3, <2>5
<1>6. ChildPut(kids')
  BY <1>1, ChildAdded
<1>7. Based'
  <2>1. ASSUME NEW j \in DOMAIN st, j = Len(st)
        PROVE  st[j].node = Root
    <3>1. j # 1
      BY <1>2, <1>3, <2>1
    <3>2. PICK i \in 1 .. N : j = i + 1 /\ st[j] = stack[i]
      BY <1>4, <3>1
    <3>3. i = N
      BY <1>2, <1>3, <2>1, <3>2
    <3> QED
      BY <1>2, <3>2, <3>3 DEF Shows, Based, N
  <2> QED
    BY <2>1 DEF Based, st
<1>8. Lasts'
  <2> SUFFICES ASSUME NEW j \in 1 .. Len(st) - 1
               PROVE  LET n == st[j + 1].node IN
                      /\ AV(st[j].node) \in ToSet(kids'[AV(n)])
                      /\ Handled(n) /\ Unshared(n) => Last(kids'[AV(n)]) = AV(st[j].node)
    BY <1>1 DEF Lasts, st, Handled, Unshared
  <2>1. j \in 1 .. N /\ st[j + 1] = stack[j] /\ j \in DOMAIN st
    BY <1>2, <1>3
  <2>2. CASE j = 1
    <3>1. st[j].node = child /\ st[j + 1].node = top.node
      BY <1>2, <1>3, <2>1, <2>2
    <3> DEFINE s == kids[AV(top.node)]
               x == AV(child)
    <3>2. s \in Seq(GNodes) /\ x \in GNodes /\ kids'[AV(top.node)] = Append(s, x)
      BY <1>6 DEF ChildPut, Types, Trees
    <3> HIDE DEF s, x
    <3>3. x \in ToSet(Append(s, x)) /\ Last(Append(s, x)) = x
      <4>1. ToSet(Append(s, x)) = ToSet(s) \cup {x}
        BY <3>2, Appended
      <4>2. Last(Append(s, x)) = x
        BY <3>2 DEF Last
      <4> QED
        BY <4>1, <4>2
    <3> QED
      BY <3>1, <3>2, <3>3 DEF x
  <2>3. CASE j # 1
    <3>1. PICK i \in 1 .. N : j = i + 1 /\ st[j] = stack[i]
      BY <1>4, <2>1, <2>3
    <3>2. i \in 1 .. Len(stack) - 1 /\ stack[j] = stack[i + 1]
      BY <1>2, <1>3, <3>1, <2>1 DEF N
    <3>3. stack[j].node # top.node /\ stack[j].node \in Obj
      BY <1>2, <3>2, Caller
    <3> DEFINE n == stack[i + 1].node
    <3>4. kids'[AV(n)] = kids[AV(n)]
      <4>1. AV(n) \in GNodes /\ AV(n) # AV(top.node)
        BY <3>2, <3>3, Names
      <4> QED
        BY <1>6, <4>1 DEF ChildPut
    <3>5. AV(stack[i].node) \in ToSet(kids[AV(n)])
          /\ (Handled(n) /\ Unshared(n) => Last(kids[AV(n)]) = AV(stack[i].node))
      BY <1>1, <3>2 DEF Shows, Lasts
    <3> QED
      BY <2>1, <3>1, <3>2, <3>4, <3>5
  <2> QED
    BY <2>2, <2>3
<1>9. Levels'
  <2>1. \A y : Placed(kids', y) <=> Placed(kids, y) \/ y = AV(child)
    BY <1>6 DEF ChildPut
  <2>2. AV(child) \notin hidden
    BY <1>6 DEF ChildPut, Shows, Levels
  <2>3. \A g \in hidden' : g \in GNodes /\ Placed(kids', g)
    BY <1>1, <2>1 DEF Shows, Levels
  <2>4. \A a : AV(a) = AV(child) => a = child
    BY Names
  <2>5. \A a : Level(a) /\ Placed(kids', AV(a)) =>
            \/ /\ Placed(kids, AV(a)) /\ (AV(a) \in hidden' <=> AV(a) \in hidden)
               /\ a \in Calling' <=> a \in Calling
            \/ AV(a) \in hidden' <=> a \notin Calling' /\ ~Chosen(a)
    BY <1>1, <1>5, <2>1, <2>2, <2>4
  <2> QED
    BY <1>1, <2>3, <2>5, LevelsBy DEF Shows
<1> QED
  BY <1>7, <1>8, <1>9 DEF Shows

\* The call of a handled node hides all its children but the one it keeps.
LEMMA HidesIs ==
    ASSUME Types, Calls, NEW j \in DOMAIN stack, Handled(stack[j].node),
           stack[j].next \in DOMAIN Children(file, stack[j].node)
    PROVE  Hides(stack[j]) <=> ~Chosen(Children(file, stack[j].node)[stack[j].next])
<1> DEFINE n == stack[j].node
           i == stack[j].next
           a == Children(file, n)[i]
<1>1. file \in Files /\ n \in Obj
  BY FrameIs
<1>2. stack[j].mode = file.kind[n] /\ file.kind[n] \in {"lod", "switch"}
  BY DEF Calls, Handled
<1>3. Hides(stack[j]) <=> i # Keeps(n)
  BY <1>2 DEF Hides, Kept, Keeps
<1> HIDE DEF n, i
<1>4. file.up[a] = n /\ \A l \in DOMAIN Children(file, n) : Children(file, n)[l] = a => l = i
  <2>1. i \in DOMAIN Children(file, n)
    BY DEF n, i
  <2> QED
    BY <1>1, <2>1, ChildrenOf
<1>5. i \in DOMAIN Children(file, n)
  BY DEF n, i
<1>6. Chosen(a) <=> i = Keeps(n)
  BY <1>4, <1>5 DEF Chosen
<1> QED
  BY <1>3, <1>6 DEF n, i

LEMMA ShowsLeft == Types /\ Calls /\ Hangs /\ Shows /\ Leave => Shows'
<1> SUFFICES ASSUME Types, Calls, Hangs, Shows, Leave
             PROVE  Shows'
  OBVIOUS
<1> DEFINE N == Len(stack)
           st == stack'
           a == stack[1].node
<1>1. /\ phase = "walk" /\ stack # <<>>
      /\ UNCHANGED <<file, phase, kids, skel, reparented, mesh, attached, turned>>
      /\ hidden' = (IF Tail(stack) # <<>> /\ Hides(Tail(stack)[1])
                    THEN hidden \cup {Last(kids[AV(Tail(stack)[1].node)])} ELSE hidden)
  BY DEF Leave
<1>2. /\ st \in Seq(FrameType) /\ N \in Nat /\ Len(st) = N - 1
      /\ \A j \in 1 .. N - 1 : j + 1 \in 1 .. N /\ st[j].node = stack[j + 1].node
  BY LeaveIs
<1>3. stack \in Seq(FrameType) /\ DOMAIN stack = 1 .. N /\ 1 \in DOMAIN stack /\ N > 0
      /\ file \in Files
  BY <1>1 DEF Types
<1>4. DOMAIN st = 1 .. N - 1
  BY <1>2
<1> HIDE DEF N, st
<1>5. Based'
  <2>1. ASSUME NEW j \in DOMAIN st, j = Len(st)
        PROVE  st[j].node = Root
    <3>1. j \in 1 .. N - 1 /\ j + 1 = N
      BY <1>2, <1>4, <2>1
    <3>2. st[j].node = stack[N].node /\ N \in DOMAIN stack
      BY <1>2, <1>3, <3>1
    <3> QED
      BY <3>2 DEF Shows, Based, N
  <2> QED
    BY <2>1 DEF Based, st
<1>6. Lasts'
  <2> SUFFICES ASSUME NEW j \in 1 .. Len(st) - 1
               PROVE  LET n == st[j + 1].node IN
                      /\ AV(st[j].node) \in ToSet(kids[AV(n)])
                      /\ Handled(n) /\ Unshared(n) => Last(kids[AV(n)]) = AV(st[j].node)
    BY <1>1 DEF Lasts, st, Handled, Unshared
  <2> DEFINE i == j + 1
  <2>1. j \in 1 .. N - 1 /\ i \in 1 .. N - 1 /\ i \in 1 .. Len(stack) - 1
    BY <1>2 DEF N
  <2>2. st[j].node = stack[i].node /\ st[i].node = stack[i + 1].node
    BY <1>2, <2>1
  <2> HIDE DEF i
  <2>3. LET n == stack[i + 1].node IN
        /\ AV(stack[i].node) \in ToSet(kids[AV(n)])
        /\ Handled(n) /\ Unshared(n) => Last(kids[AV(n)]) = AV(stack[i].node)
    BY <1>1, <2>1 DEF Shows, Lasts
  <2> QED
    BY <2>2, <2>3 DEF i
<1>7. a \in Calling
  BY <1>3 DEF Calling
<1>8. \A c : c \in Calling' <=> c \in Calling /\ c # a
  <2>1. Calling' = {st[j].node : j \in DOMAIN st}
    BY DEF Calling, st
  <2>2. ASSUME NEW c \in Calling'
        PROVE  c \in Calling /\ c # a
    <3>1. PICK j \in 1 .. N - 1 : c = stack[j + 1].node
      BY <1>2, <1>4, <2>1
    <3>2. j \in 1 .. Len(stack) - 1 /\ j + 1 \in DOMAIN stack
      BY <1>2, <1>3, <3>1 DEF N
    <3>3. stack[j + 1].node # a
      BY <3>2, Caller
    <3> QED
      BY <3>1, <3>2, <3>3 DEF Calling
  <2>3. ASSUME NEW c \in Calling, c # a
        PROVE  c \in Calling'
    <3>1. PICK i \in DOMAIN stack : c = stack[i].node
      BY DEF Calling
    <3> DEFINE j == i - 1
    <3>2. i # 1
      BY <2>3, <3>1
    <3>3. j \in 1 .. N - 1 /\ j + 1 = i
      BY <1>2, <1>3, <3>2
    <3> HIDE DEF j
    <3>4. st[j].node = c
      BY <1>2, <3>1, <3>3
    <3> QED
      BY <1>4, <2>1, <3>3, <3>4
  <2> QED
    BY <2>2, <2>3
<1>9. CASE N = 1
  <2>1. Tail(stack) = <<>>
    <3>1. Len(stack) = 1 /\ stack # <<>> /\ stack \in Seq(FrameType) /\ Len(stack) \in Nat
      BY <1>1, <1>3, <1>9 DEF N
    <3> DEFINE t == Tail(stack)
    <3>2. t \in Seq(FrameType) /\ Len(t) = Len(stack) - 1
      BY <3>1
    <3> HIDE DEF t
    <3>3. t = <<>>
      BY <3>1, <3>2
    <3> QED
      BY <3>3 DEF t
  <2>2. hidden' = hidden
    BY <1>1, <2>1
  <2>3. a = Root
    BY <1>3, <1>9 DEF Shows, Based, N
  <2>4. \A c : Level(c) => c # a
    BY <2>3 DEF Level
  <2>5. Levels'
    BY <1>1, <1>8, <2>2, <2>4, LevelsBy DEF Shows, Levels
  <2> QED
    BY <1>5, <1>6, <2>5 DEF Shows
<1>10. CASE N # 1
  <2> DEFINE f == stack[2]
             n == f.node
             y == Last(kids[AV(n)])
  <2>1. 1 \in 1 .. Len(stack) - 1 /\ 1 + 1 = 2 /\ 2 \in DOMAIN stack
    BY <1>2, <1>3, <1>10 DEF N
  <2>2. /\ a \in Obj /\ n \in Obj /\ file.up[a] = n /\ a # Root
        /\ a = Children(file, n)[f.next] /\ f.next \in DOMAIN Children(file, n)
    BY <2>1, Caller
  <2>3. Tail(stack) # <<>> /\ Tail(stack)[1] = f
    BY <1>3, <2>1
  <2>4. hidden' = (IF Hides(f) THEN hidden \cup {y} ELSE hidden)
    BY <1>1, <2>3
  <2>5. AV(a) \in ToSet(kids[AV(n)]) /\ (Handled(n) /\ Unshared(n) => y = AV(a))
    BY <1>1, <2>1 DEF Shows, Lasts
  <2>6. Handled(n) => (Hides(f) <=> ~Chosen(a))
    BY <2>1, <2>2, HidesIs
  <2>7. AV(n) \in GNodes /\ kids \in Trees
    BY <2>2, Names DEF Types
  <2>8. y \in ToSet(kids[AV(n)]) /\ ToSet(kids[AV(n)]) \subseteq GNodes
    <3> DEFINE s == kids[AV(n)]
    <3>1. s \in Seq(GNodes) /\ s # <<>>
      BY <2>5, <2>7 DEF Trees, ToSet
    <3> HIDE DEF s
    <3>2. Last(s) \in ToSet(s) /\ ToSet(s) \subseteq GNodes
      BY <3>1 DEF Last, ToSet
    <3> QED
      BY <3>2 DEF s
  <2>9. \A c \in ToSet(kids[AV(n)]) : c \in ChildrenAt(n) \cup Skeletons
    BY <1>1, <2>2 DEF Hangs, Laid, Follows
  <2>10. \A c : AV(c) = y => c \in Obj /\ file.up[c] = n
    <3>1. /\ \A c : y = AV(c) => y \notin Skeletons
          /\ \A c, d : AV(c) = AV(d) => c = d
      BY Names DEF Skeletons
    <3> QED
      BY <2>8, <2>9, <3>1 DEF ChildrenAt
  <2> HIDE DEF f, n, y
  <2>11. Placed(kids, AV(a)) /\ Placed(kids, y) /\ y \in GNodes
    BY <2>5, <2>7, <2>8 DEF Placed
  <2>12. \A g \in hidden' : g \in GNodes /\ Placed(kids', g)
    BY <1>1, <2>4, <2>11 DEF Shows, Levels
  <2>13. ASSUME NEW c, Level(c), Placed(kids', AV(c))
         PROVE  \/ /\ Placed(kids, AV(c)) /\ (AV(c) \in hidden' <=> AV(c) \in hidden)
                   /\ c \in Calling' <=> c \in Calling
                \/ AV(c) \in hidden' <=> c \notin Calling' /\ ~Chosen(c)
    <3>1. \A d : AV(c) = AV(d) => c = d
      BY Names
    <3>2. CASE c = a
      <4>1. Handled(n) /\ Unshared(n)
        BY <2>2, <2>13, <3>2 DEF Level
      <4>2. AV(a) \notin hidden
        BY <1>7, <2>11, <2>13, <3>2 DEF Shows, Levels
      <4>3. AV(a) \in hidden' <=> ~Chosen(a)
        BY <2>4, <2>5, <2>6, <4>1, <4>2
      <4> QED
        BY <1>8, <3>2, <4>3
    <3>3. CASE c # a
      <4>1. AV(c) # y
        <5>1. CASE file.up[c] = n
          <6>1. Handled(n) /\ Unshared(n)
            BY <2>13, <5>1 DEF Level
          <6> QED
            BY <2>5, <3>1, <3>3, <6>1
        <5>2. CASE file.up[c] # n
          BY <2>10, <5>2
        <5> QED
          BY <5>1, <5>2
      <4>2. AV(c) \in hidden' <=> AV(c) \in hidden
        BY <2>4, <4>1
      <4> QED
        BY <1>1, <1>8, <2>13, <3>3, <4>2
    <3> QED
      BY <3>2, <3>3
  <2>14. Levels'
    BY <1>1, <2>12, <2>13, LevelsBy DEF Shows
  <2> QED
    BY <1>5, <1>6, <2>14 DEF Shows
<1> QED
  BY <1>9, <1>10

LEMMA ShowsLeaf == Types /\ Calls /\ Hangs /\ Shows /\ Leaf => Shows'
<1> SUFFICES ASSUME Types, Calls, Hangs, Shows, Leaf
             PROVE  Shows'
  OBVIOUS
<1>1. /\ phase = "walk" /\ stack # <<>> /\ Pending /\ file.kind[child] \notin NodeKinds
      /\ kids' = (IF Shown(child) THEN AddChild(kids, AV(top.node), AV(child)) ELSE kids)
      /\ hidden' = (IF Shown(child) /\ Hides(top) THEN hidden \cup {AV(child)} ELSE hidden)
      /\ stack' = Advance
      /\ UNCHANGED <<file, phase, skel, reparented, mesh, attached, turned>>
  BY DEF Leaf
<1>2. /\ 1 \in DOMAIN stack /\ top = stack[1] /\ child \in Obj /\ file.up[child] = top.node
      /\ child = Children(file, top.node)[top.next] /\ child # Root
      /\ top.next \in DOMAIN Children(file, top.node)
  BY <1>1, ChildIs
<1>3. Calling' = Calling
  BY <1>1, NodesAdvanced
<1>4. CASE ~Shown(child)
  <2>1. kids' = kids /\ hidden' = hidden
    BY <1>1, <1>4
  <2>2. Put({})
    BY <2>1 DEF Put
  <2>3. Based' /\ Lasts'
    BY <1>1, <2>2, LastsPut DEF Shows
  <2>4. Levels'
    BY <1>1, <1>3, <2>1, LevelsBy DEF Shows, Levels
  <2> QED
    BY <2>3, <2>4 DEF Shows
<1>5. CASE Shown(child)
  <2>1. kids' = AddChild(kids, AV(top.node), AV(child))
        /\ hidden' = (IF Hides(top) THEN hidden \cup {AV(child)} ELSE hidden)
    BY <1>1, <1>5
  <2>2. ChildPut(kids')
    BY <1>1, <2>1, ChildAdded
  <2>3. \A y : Placed(kids', y) <=> Placed(kids, y) \/ y = AV(child)
    BY <2>2 DEF ChildPut
  <2>4. \A c : AV(c) = AV(child) => c = child
    BY Names
  <2>5. \A m \in Obj : m # top.node => kids'[AV(m)] = kids[AV(m)]
    <3>1. \A m \in Obj : m # top.node => AV(m) \in GNodes /\ AV(m) # AV(top.node)
      BY Names
    <3> QED
      BY <2>2, <3>1 DEF ChildPut
  <2>6. Put({})
    BY <2>3, <2>4, <2>5 DEF Put
  <2>7. Based' /\ Lasts'
    BY <1>1, <2>6, LastsPut DEF Shows
  <2>8. child \notin Calling
    BY <1>1 DEF Calling, Calls
  <2>9. AV(child) \notin hidden /\ AV(child) \in GNodes
    BY <2>2 DEF ChildPut, Shows, Levels
  <2>10. \A g \in hidden' : g \in GNodes /\ Placed(kids', g)
    BY <2>1, <2>3, <2>9 DEF Shows, Levels
  <2>11. ASSUME NEW c, Level(c), Placed(kids', AV(c))
         PROVE  \/ /\ Placed(kids, AV(c)) /\ (AV(c) \in hidden' <=> AV(c) \in hidden)
                   /\ c \in Calling' <=> c \in Calling
                \/ AV(c) \in hidden' <=> c \notin Calling' /\ ~Chosen(c)
    <3>1. CASE c = child
      <4>1. Handled(top.node)
        BY <1>2, <2>11, <3>1 DEF Level
      <4>2. Hides(top) <=> ~Chosen(child)
        BY <1>2, <4>1, HidesIs
      <4> QED
        BY <1>3, <2>1, <2>8, <2>9, <3>1, <4>2
    <3>2. CASE c # child
      BY <1>3, <2>1, <2>3, <2>4, <2>11, <3>2
    <3> QED
      BY <3>1, <3>2
  <2>12. Levels'
    BY <1>1, <2>10, <2>11, LevelsBy DEF Shows
  <2> QED
    BY <2>7, <2>12 DEF Shows
<1> QED
  BY <1>4, <1>5

\* A step that leaves the calls and the scene's levels alone.
LEMMA ShowsKept ==
    ASSUME Shows, UNCHANGED <<file, stack, hidden>>, phase' # "walk" \/ kids' = kids,
           phase' = "walk" => phase = "walk",
           \A y : Placed(kids, y) => Placed(kids', y),
           \A a : Placed(kids', AV(a)) => Placed(kids, AV(a))
    PROVE  Shows'
<1>1. Based'
  BY DEF Shows, Based
<1>2. Lasts'
  BY DEF Shows, Lasts, Handled, Unshared
<1>3. Calling' = Calling
  BY DEF Calling
<1>4. Levels'
  BY <1>3, LevelsBy DEF Shows, Levels
<1> QED
  BY <1>1, <1>2, <1>4 DEF Shows

LEMMA ShowsInit == Init => Shows
<1> SUFFICES ASSUME Init
             PROVE  Shows
  OBVIOUS
<1>1. file \in Files /\ stack = <<Frame(Root, "node")>> /\ hidden = {}
  BY DEF Init
<1>2. Len(stack) = 1 /\ DOMAIN stack = {1} /\ stack[1].node = Root
  <2> DEFINE f == Frame(Root, "node")
  <2>1. f.node = Root
    BY DEF Frame
  <2> HIDE DEF f
  <2>2. stack = <<f>>
    BY <1>1 DEF f
  <2> QED
    BY <2>1, <2>2
<1>3. Based /\ Lasts
  BY <1>2 DEF Based, Lasts
<1>4. Levels
  <2> SUFFICES ASSUME NEW a, Level(a), Placed(kids, AV(a))
               PROVE  AV(a) \in hidden <=> a \notin Calling /\ ~Chosen(a)
    BY <1>1 DEF Levels
  <2>1. Settled
    BY HangsInit DEF Hangs
  <2>2. a \notin Unmet
    BY <2>1 DEF Settled
  <2> QED
    BY <2>2, UnmetInit DEF Level
<1> QED
  BY <1>3, <1>4 DEF Shows

LEMMA ShowsStep == Types /\ Weighed /\ Calls /\ Hangs /\ Shows /\ [Next]_vars => Shows'
<1> SUFFICES ASSUME Types, Weighed, Calls, Hangs, Shows, [Next]_vars
             PROVE  Shows'
  OBVIOUS
<1>1. CASE EnterNode
  BY <1>1, ShowsEntered
<1>2. CASE Leave
  BY <1>2, ShowsLeft
<1>3. CASE Leaf
  BY <1>3, ShowsLeaf
<1>4. CASE SharedSkeleton
  <2>1. PICK o, s, t : Visited(o) /\ PutOn(o, s, t) /\ SharedOn(o, s)
    BY <1>4, SharedIs
  <2> DEFINE H == IF Moves(file.skin[o].root, top.node) THEN {s.host} ELSE {}
  <2>2. Put(H)
    BY <2>1, HangsShared
  <2>3. \A m \in H : ~Unshared(m)
    BY <2>1, MoveShares
  <2>4. /\ phase = "walk" /\ stack # <<>> /\ Pending /\ top.mode = "node"
        /\ file' = file /\ hidden' = hidden /\ stack' = Advance
    BY <2>1 DEF Visited, PutOn
  <2> HIDE DEF H
  <2>5. Based' /\ Lasts'
    BY <2>2, <2>3, <2>4, LastsPut DEF Shows
  <2>6. Levels'
    BY <2>2, <2>4, LevelsPut DEF Shows
  <2> QED
    BY <2>5, <2>6 DEF Shows
<1>5. CASE FirstSkeleton
  <2>1. PICK o, s, t : Visited(o) /\ PutOn(o, s, t) /\ FirstOn(o, s)
    BY <1>5, FirstIs
  <2>2. Put({})
    BY <2>1, HangsFirst
  <2>3. /\ phase = "walk" /\ stack # <<>> /\ Pending /\ top.mode = "node"
        /\ file' = file /\ hidden' = hidden /\ stack' = Advance
    BY <2>1 DEF Visited, PutOn
  <2>4. Based' /\ Lasts'
    BY <2>2, <2>3, LastsPut DEF Shows
  <2>5. Levels'
    BY <2>2, <2>3, LevelsPut DEF Shows
  <2> QED
    BY <2>4, <2>5 DEF Shows
<1>6. CASE NoSkeleton
  <2>1. PICK o \in Obj : /\ Visits(o)
                         /\ kids' = (IF file.empty[o] THEN kids
                                     ELSE AddChild(kids, AV(top.node), AV(o)))
                         /\ stack' = Advance
                         /\ UNCHANGED <<file, phase, hidden, skel, reparented, mesh, attached, turned>>
    BY <1>6 DEF NoSkeleton
  <2>2. /\ phase = "walk" /\ stack # <<>> /\ Pending /\ top.mode = "node" /\ o = child
    BY <2>1, VisitedIs DEF Visited
  <2>3. Put({})
    <3>1. CASE kids' = kids
      BY <3>1 DEF Put
    <3>2. CASE kids' = AddChild(kids, AV(top.node), AV(child))
      <4>1. ChildPut(kids')
        BY <2>2, <3>2, ChildAdded
      <4>2. \A y : Placed(kids', y) <=> Placed(kids, y) \/ y = AV(child)
        BY <4>1 DEF ChildPut
      <4>3. \A c : AV(c) = AV(child) => c = child
        BY Names
      <4>4. \A m \in Obj : m # top.node => AV(m) \in GNodes /\ AV(m) # AV(top.node)
        BY Names
      <4>5. \A m \in Obj : m # top.node => kids'[AV(m)] = kids[AV(m)]
        BY <4>1, <4>4 DEF ChildPut
      <4> QED
        BY <4>2, <4>3, <4>5 DEF Put
    <3> QED
      BY <2>1, <2>2, <3>1, <3>2
  <2>4. Based' /\ Lasts'
    BY <2>1, <2>2, <2>3, LastsPut DEF Shows
  <2>5. Levels'
    BY <2>1, <2>2, <2>3, LevelsPut DEF Shows
  <2> QED
    BY <2>4, <2>5 DEF Shows
<1>7. CASE WalkDone
  BY <1>7, ShowsKept DEF WalkDone
<1>8. CASE \E r \in Obj : Attach(r)
  <2>1. PICK r \in Obj : Attach(r)
    BY <1>8
  <2>2. /\ \A y : Placed(kids, y) => Placed(kids', y)
        /\ \A a : Placed(kids', AV(a)) => Placed(kids, AV(a))
    BY <2>1, AttachIs
  <2>3. phase' # "walk" /\ UNCHANGED <<file, stack, hidden>>
    BY <2>1 DEF Attach
  <2> QED
    BY <2>2, <2>3, ShowsKept
<1>9. CASE Correct
  BY <1>9, ShowsKept DEF Correct
<1>10. CASE Throw
  BY <1>10, ShowsKept DEF Throw
<1>11. CASE UNCHANGED vars
  BY <1>11, ShowsKept DEF vars
<1> QED
  BY <1>1, <1>2, <1>3, <1>4, <1>5, <1>6, <1>7, <1>8, <1>9, <1>10, <1>11 DEF Next

\* What the levels and the skeletons promise.
LEMMA LevelsAre == Types /\ Calls /\ Hangs /\ Shows => LevelsHidden
<1> SUFFICES ASSUME Types, Calls, Hangs, Shows, phase = "done",
                    NEW n \in Obj, Handled(n), Unshared(n), NEW i \in DOMAIN Children(file, n),
                    AV(Children(file, n)[i]) \in Under(kids, Top)
             PROVE  AV(Children(file, n)[i]) \in hidden <=> i # Keeps(n)
  BY DEF LevelsHidden
<1> DEFINE a == Children(file, n)[i]
<1>1. file \in Files /\ kids \in Trees
  BY DEF Types
<1>2. a \in Obj /\ file.up[a] = n /\ a # Root
      /\ \A j \in DOMAIN Children(file, n) : Children(file, n)[j] = a => j = i
  BY <1>1, ChildrenOf
<1> HIDE DEF a
<1>3. Level(a)
  BY <1>2 DEF Level
<1>4. Chosen(a) <=> i = Keeps(n)
  BY <1>2 DEF Chosen, a
<1>5. Calling = {}
  <2>1. stack = <<>>
    BY DEF Calls
  <2> QED
    BY <2>1 DEF Calling
<1>6. Placed(kids, AV(a))
  <2>1. AV(a) \in Under(kids, Top) /\ AV(a) # Top
    BY Names DEF a
  <2> QED
    BY <1>1, <2>1, Names, InPlace
<1> QED
  BY <1>3, <1>4, <1>5, <1>6 DEF Shows, Levels, a

LEMMA FitIs == Types /\ Weighed /\ Shows => SkeletonsFit
<1> SUFFICES ASSUME Types, Weighed, Shows
             PROVE  TypeOK /\ BonesAreAForest /\ WeightsBound
  BY DEF SkeletonsFit
<1>1. TypeOK
  <2>1. hidden \subseteq GNodes
    BY DEF Shows, Levels
  <2>2. \A r \in DOMAIN skel : skel[r].host \in Obj /\ skel[r].bones \in Seq(Obj)
    BY DEF Types, SkelType
  <2> QED
    BY <2>1, <2>2 DEF TypeOK, Types, Early, Trees
<1>2. BonesAreAForest
  <2> SUFFICES ASSUME NEW r \in DOMAIN skel
               PROVE  /\ IsInjective(skel[r].bones) /\ DOMAIN skel[r].link = ToSet(skel[r].bones)
                      /\ \A b \in DOMAIN skel[r].link : skel[r].link[b] \in Above(file, b) \cup {0}
    BY DEF BonesAreAForest
  <2>1. Fits(skel[r])
    BY DEF Types
  <2> QED
    BY <2>1 DEF Fits, Distinct
<1>3. WeightsBound
  <2>1. \A o \in Obj : mesh[o].on \in DOMAIN skel => mesh[o].on # 0
    BY FilesAssumption DEF FilesAssumption, Types
  <2> QED
    BY <2>1 DEF WeightsBound, Weighed, WeighedOn
<1> QED
  BY <1>1, <1>2, <1>3

-----------------------------------------------------------------------------
(* The whole load: what the animations are built of.                         *)

Building == {"walk", "attach", "done"}
Late == {"controllers", "kfm", "actions", "cleared"}
Objects == {AV(o) : o \in Obj}
Bodies == Objects \cup Skeletons \cup {Debug(r) : r \in Obj}
Waiting ==
    {p \in [node : Objects, ctrl : [type : STRING, data : BOOLEAN]] : p.ctrl.type \in Collected}
Driven == {"uv1", "albedo_texture", "alpha", "albedo_color", "visible", "transparency",
           "position", "transform"}
TrackType ==
    [player : {ScenePlayer, Player}, node : Bodies, path : SUBSET GNodes, prop : Driven]
MaterialType(m) ==
    [kind : {"standard", "shader"}, albedo : {m.albedo},
     transparency : {m.transparency}, cull : {m.cull}]
Dressed ==
    /\ mats = [o \in Obj |-> mats[o]]
    /\ \A o \in Obj : mats[o] = NoMaterial \/ mats[o] \in MaterialType(mats[o])

LoadTypes ==
    /\ file \in Files
    /\ phase \in Building \cup Late \cup {"thrown"}
    /\ pending \in Seq(Waiting)
    /\ Dressed
    /\ tracks \in Seq(TrackType)
    /\ ready \subseteq {ScenePlayer, Player}
    /\ at \in Nat \ {0}

\* Some of the elements of a sequence.
LEMMA SelectedIs ==
    ASSUME NEW S, NEW s \in Seq(S), NEW I \in SUBSET (DOMAIN s)
    PROVE  /\ Cardinality(I) \in Nat /\ Selected(s, I) \in Seq(S)
           /\ DOMAIN Selected(s, I) = 1 .. Cardinality(I)
           /\ \A j \in 1 .. Cardinality(I) : \E i \in I : Selected(s, I)[j] = s[i]
           /\ Cardinality(I) = 0 <=> I = {}
<1>1. Len(s) \in Nat /\ DOMAIN s = 1 .. Len(s) /\ \A i \in DOMAIN s : s[i] \in S
  OBVIOUS
<1>2. IsFiniteSet(DOMAIN s)
  BY <1>1, Intervals
<1>3. I \in SUBSET Nat /\ IsFiniteSet(I)
  BY <1>1, <1>2, FS_Subset
<1>4. Cardinality(I) \in Nat /\ \A j \in 1 .. Cardinality(I) : InOrder(I)[j] \in I
  BY <1>3, OrderOf
<1>5. Cardinality(I) = 0 <=> I = {}
  BY <1>3, FS_EmptySet
<1> DEFINE n == Cardinality(I)
           t == Selected(s, I)
<1>6. t = [j \in 1 .. n |-> s[InOrder(I)[j]]]
  BY DEF Selected
<1> HIDE DEF n, t
<1>7. \A j \in 1 .. n : InOrder(I)[j] \in I
  BY <1>4 DEF n
<1>8. n \in Nat /\ t \in [1 .. n -> S]
  BY <1>1, <1>4, <1>6, <1>7 DEF n
<1>9. \A j \in 1 .. n : t[j] = s[InOrder(I)[j]]
  BY <1>6
<1>10. t \in Seq(S) /\ DOMAIN t = 1 .. n
  BY <1>8
<1> QED
  BY <1>4, <1>5, <1>7, <1>9, <1>10 DEF n, t

\* The controllers of an object that wait.
LEMMA CollectIs ==
    ASSUME NEW o \in Obj, file \in Files
    PROVE  Collect(o) \in Seq(Waiting)
<1> DEFINE C == [type : STRING, data : BOOLEAN]
           s == file.ctrl[o]
           I == {i \in DOMAIN s : s[i].type \in Collected}
           t == Selected(s, I)
<1>1. s \in Seq(C)
  BY AnimationAssumption
<1>2. I \in SUBSET (DOMAIN s) /\ \A i \in I : s[i].type \in Collected
  OBVIOUS
<1> HIDE DEF s, I, C
<1>3. t \in Seq(C) /\ DOMAIN t = 1 .. Cardinality(I)
  BY <1>1, <1>2, SelectedIs
<1>4. \A j \in 1 .. Cardinality(I) : \E i \in I : t[j] = s[i]
  BY <1>1, <1>2, SelectedIs
<1>5. Collect(o) = [i \in 1 .. Len(t) |-> [node |-> AV(o), ctrl |-> t[i]]]
  BY DEF Collect, s, I
<1> HIDE DEF t
<1>6. Len(t) \in Nat /\ DOMAIN t = 1 .. Len(t) /\ \A i \in 1 .. Len(t) : t[i] \in C
  <2>1. t \in Seq(C)
    BY <1>3
  <2> QED
    BY <2>1
<1>7. \A i \in 1 .. Len(t) : t[i].type \in Collected
  <2> SUFFICES ASSUME NEW i \in 1 .. Len(t)
               PROVE  t[i].type \in Collected
    OBVIOUS
  <2>1. i \in 1 .. Cardinality(I)
    BY <1>3, <1>6
  <2>2. PICK j \in I : t[i] = s[j]
    BY <1>4, <2>1
  <2> QED
    BY <1>2, <2>2
<1>8. \A i \in 1 .. Len(t) : [node |-> AV(o), ctrl |-> t[i]] \in Waiting
  <2> SUFFICES ASSUME NEW i \in 1 .. Len(t)
               PROVE  [node |-> AV(o), ctrl |-> t[i]] \in Waiting
    OBVIOUS
  <2>1. t[i] \in C /\ t[i].type \in Collected /\ AV(o) \in Objects
    BY <1>6, <1>7 DEF Objects
  <2> QED
    BY <2>1 DEF Waiting, C
<1> QED
  BY <1>5, <1>6, <1>8

\* The material of a shape.
LEMMA MaterialIs ==
    ASSUME NEW p, NEW b
    PROVE  Material(p, b) \in MaterialType(Material(p, b))
<1> QED
  BY DEF Material, MaterialType

LEMMA DressedPut ==
    ASSUME Dressed, NEW o \in Obj, NEW p, NEW b, mats' = [mats EXCEPT ![o] = Material(p, b)]
    PROVE  Dressed'
<1> DEFINE m == Material(p, b)
<1>1. m \in MaterialType(m)
  BY MaterialIs
<1> HIDE DEF m
<1>2. mats' = [mats EXCEPT ![o] = m]
  BY DEF m
<1>3. mats = [q \in Obj |-> mats[q]]
  BY DEF Dressed
<1>4. mats' = [q \in Obj |-> IF q = o THEN m ELSE mats[q]]
  BY <1>2, <1>3
<1>5. \A q \in Obj : mats'[q] = (IF q = o THEN m ELSE mats[q])
  BY <1>4
<1> QED
  BY <1>1, <1>4, <1>5 DEF Dressed

-----------------------------------------------------------------------------
(* The players in the scene.                                                 *)

\* The scene k as the traversal leaves it, and with the players that are there.
Plain(k) ==
    /\ Tree(k) /\ k[Top] = <<AV(Root)>>
    /\ ~Placed(k, ScenePlayer) /\ ~Placed(k, Player)
OneThere == ScenePlayer \in ready \/ phase = "controllers"
TwoThere == Player \in ready \/ phase = "actions"
First(k) == IF OneThere THEN AddChild(k, Top, ScenePlayer) ELSE k
Staged(k) == IF TwoThere THEN AddChild(First(k), Top, Player) ELSE First(k)
Cast ==
    phase # "thrown" => \E k :
        /\ Plain(k) /\ kids = Staged(k)
        /\ \A r \in DOMAIN skel : r \in Obj /\ Placed(k, Skeleton(r))

\* A player is added at the end of the container's children.
LEMMA PlayerAdded ==
    ASSUME NEW k, Tree(k), NEW x \in {ScenePlayer, Player}, ~Placed(k, x)
    PROVE  /\ TreeAdded(k, Top, x, AddChild(k, Top, x))
           /\ k[Top] \in Seq(GNodes) /\ AddChild(k, Top, x)[Top] = Append(k[Top], x)
           /\ x \in GNodes /\ x # Top
<1>1. k \in Trees /\ Top \in GNodes /\ x \in GNodes /\ x # Top
  BY Names DEF Tree, Once
<1>2. Top \in Under(k, Top)
  BY <1>1, Below
<1>3. TreeAdded(k, Top, x, AddChild(k, Top, x))
  BY <1>1, <1>2, AddedTree
<1>4. AddChild(k, Top, x)[Top] = Append(k[Top], x)
  BY <1>1, Adding
<1>5. k[Top] \in Seq(GNodes)
  BY <1>1 DEF Trees
<1> QED
  BY <1>1, <1>3, <1>4, <1>5

\* The scene with the first player, if it is there.
LEMMA FirstThere ==
    ASSUME NEW k, Plain(k)
    PROVE  /\ Tree(First(k)) /\ ~Placed(First(k), Player)
           /\ \A y : Placed(k, y) => Placed(First(k), y)
           /\ First(k)[Top] \in Seq(GNodes)
           /\ ToSet(First(k)[Top]) = {AV(Root)} \cup (IF OneThere THEN {ScenePlayer} ELSE {})
<1>1. Tree(k) /\ ~Placed(k, ScenePlayer) /\ ~Placed(k, Player) /\ k[Top] = <<AV(Root)>>
  BY DEF Plain
<1>2. k[Top] \in Seq(GNodes)
  BY <1>1, PlayerAdded
<1>3. ToSet(<<AV(Root)>>) = {AV(Root)}
  BY DEF ToSet
<1>4. CASE ~OneThere
  BY <1>1, <1>2, <1>3, <1>4 DEF First
<1>5. CASE OneThere
  <2> DEFINE l == AddChild(k, Top, ScenePlayer)
  <2>1. /\ TreeAdded(k, Top, ScenePlayer, l)
        /\ l[Top] = Append(k[Top], ScenePlayer) /\ ScenePlayer \in GNodes
    BY <1>1, PlayerAdded
  <2>2. First(k) = l
    BY <1>5 DEF First
  <2> HIDE DEF l
  <2>3. l[Top] \in Seq(GNodes) /\ ToSet(l[Top]) = ToSet(k[Top]) \cup {ScenePlayer}
    BY <1>2, <2>1, Appended
  <2>4. Tree(l) /\ \A y : Placed(l, y) <=> Placed(k, y) \/ y = ScenePlayer
    BY <2>1 DEF TreeAdded
  <2>5. ~Placed(l, Player)
    BY <1>1, <2>4, Names
  <2> QED
    BY <1>1, <1>3, <1>5, <2>2, <2>3, <2>4, <2>5
<1> QED
  BY <1>4, <1>5

\* The scene with its players.
LEMMA StagedIs ==
    ASSUME NEW k, Plain(k)
    PROVE  /\ Tree(Staged(k)) /\ \A y : Placed(k, y) => Placed(Staged(k), y)
           /\ ~TwoThere => ~Placed(Staged(k), Player)
           /\ ToSet(Staged(k)[Top]) = {AV(Root)}
                \cup (IF OneThere THEN {ScenePlayer} ELSE {})
                \cup (IF TwoThere THEN {Player} ELSE {})
           /\ \A i, j \in DOMAIN Staged(k)[Top] :
                Staged(k)[Top][i] = ScenePlayer /\ Staged(k)[Top][j] = Player => i < j
<1> DEFINE a == First(k)
           l == Staged(k)
<1>1. /\ Tree(a) /\ ~Placed(a, Player) /\ \A y : Placed(k, y) => Placed(a, y)
      /\ a[Top] \in Seq(GNodes)
      /\ ToSet(a[Top]) = {AV(Root)} \cup (IF OneThere THEN {ScenePlayer} ELSE {})
  BY FirstThere
<1>2. l = IF TwoThere THEN AddChild(a, Top, Player) ELSE a
  BY DEF Staged
<1> HIDE DEF a, l
<1>3. Player # AV(Root) /\ Player # ScenePlayer
  BY Names
<1>4. Player \notin ToSet(a[Top])
  BY <1>1, <1>3
<1>5. CASE ~TwoThere
  <2>1. l = a
    BY <1>2, <1>5
  <2>2. \A j \in DOMAIN a[Top] : a[Top][j] # Player
    BY <1>4 DEF ToSet
  <2> QED
    BY <1>1, <1>5, <2>1, <2>2 DEF l
<1>6. CASE TwoThere
  <2>1. l = AddChild(a, Top, Player)
    BY <1>2, <1>6
  <2>2. TreeAdded(a, Top, Player, l) /\ l[Top] = Append(a[Top], Player) /\ Player \in GNodes
    BY <1>1, <2>1, PlayerAdded
  <2>3. Tree(l) /\ \A y : Placed(l, y) <=> Placed(a, y) \/ y = Player
    BY <2>2 DEF TreeAdded
  <2>4. ToSet(l[Top]) = ToSet(a[Top]) \cup {Player}
    BY <1>1, <2>2, Appended
  <2> DEFINE s == a[Top]
             t == l[Top]
  <2>5. /\ Len(t) = Len(s) + 1 /\ \A q \in 1 .. Len(s) : t[q] = s[q]
        /\ t[Len(s) + 1] = Player /\ t \in Seq(GNodes)
    BY <1>1, <2>2, Appended
  <2>6. s \in Seq(GNodes) /\ \A q \in DOMAIN s : s[q] # Player
    BY <1>1, <1>4 DEF ToSet
  <2> HIDE DEF s, t
  <2>7. Len(s) \in Nat /\ DOMAIN s = 1 .. Len(s) /\ DOMAIN t = 1 .. Len(s) + 1
    BY <2>5, <2>6
  <2>8. ASSUME NEW i \in DOMAIN t, NEW j \in DOMAIN t, t[i] = ScenePlayer, t[j] = Player
        PROVE  i < j
    <3>1. j = Len(s) + 1
      BY <2>5, <2>6, <2>7, <2>8
    <3>2. i # Len(s) + 1
      BY <1>3, <2>5, <2>8
    <3> QED
      BY <2>7, <3>1, <3>2
  <2>9. \A i, j \in DOMAIN l[Top] : l[Top][i] = ScenePlayer /\ l[Top][j] = Player => i < j
    BY <2>8 DEF t
  <2> QED
    BY <1>1, <1>6, <2>3, <2>4, <2>9 DEF l
<1> QED
  BY <1>5, <1>6

\* Without its player the container's children are what they were.
LEMMA PlayerRemoved ==
    ASSUME NEW k, Plain(k)
    PROVE  RemoveChild(AddChild(k, Top, ScenePlayer), ScenePlayer) = k
<1> DEFINE x == ScenePlayer
           l == AddChild(k, Top, x)
           a == AV(Root)
<1>1. /\ TreeAdded(k, Top, x, l) /\ l[Top] = Append(k[Top], x) /\ k[Top] = <<a>>
      /\ k \in Trees /\ ~Placed(k, x) /\ Top \in GNodes
  BY PlayerAdded, Names DEF Plain, Tree, Once
<1>2. a \in GNodes /\ x \in GNodes /\ a # x
  <2>1. Root \in Obj
    BY FilesAssumption
  <2> QED
    BY <2>1, Names
<1>3. \A g \in GNodes : g # Top => l[g] = k[g]
  BY <1>1, <1>2, Adding
<1> HIDE DEF l, x, a
<1>4. ASSUME NEW g \in GNodes, g # Top
      PROVE  Without(l[g], x) = k[g]
  <2>1. x \notin ToSet(k[g])
    BY <1>1 DEF Placed
  <2> QED
    BY <1>3, <1>4, <2>1 DEF Without
<1>5. Without(l[Top], x) = k[Top]
  <2>1. l[Top] = <<a, x>>
    <3>1. l[Top] = Append(<<a>>, x)
      BY <1>1
    <3>2. Append(<<a>>, x) = <<a, x>>
      <4> DEFINE t == Append(<<a>>, x)
      <4>1. <<a>> \in Seq(GNodes) /\ Len(<<a>>) = 1 /\ <<a>>[1] = a
        BY <1>2
      <4>2. t \in Seq(GNodes) /\ Len(t) = Len(<<a>>) + 1 /\ t[Len(<<a>>) + 1] = x
            /\ \A q \in 1 .. Len(<<a>>) : t[q] = <<a>>[q]
        BY <1>2, <4>1, Appended
      <4> HIDE DEF t
      <4>3. t[1] = a /\ t[2] = x /\ Len(t) = 2
        BY <4>1, <4>2
      <4>4. t = <<a, x>>
        BY <4>2, <4>3
      <4> QED
        BY <4>4 DEF t
    <3> QED
      BY <3>1, <3>2
  <2>2. DOMAIN <<a, x>> = 1 .. 2 /\ <<a, x>>[1] = a /\ <<a, x>>[2] = x
    OBVIOUS
  <2>3. (CHOOSE i \in DOMAIN <<a, x>> : <<a, x>>[i] = x) = 2
    BY <1>2, <2>2
  <2>4. x \in ToSet(<<a, x>>)
    BY <2>2 DEF ToSet
  <2>5. RemoveAt(<<a, x>>, 2) = <<a>>
    <3> DEFINE t == RemoveAt(<<a, x>>, 2)
    <3>1. <<a, x>> \in Seq(GNodes) /\ 2 \in DOMAIN <<a, x>> /\ Len(<<a, x>>) = 2
      BY <1>2
    <3>2. t \in Seq(GNodes) /\ Len(t) = Len(<<a, x>>) - 1
      BY <3>1, RemoveAtIs
    <3>3. \A q \in 1 .. Len(<<a, x>>) - 1 :
            t[q] = IF q < 2 THEN <<a, x>>[q] ELSE <<a, x>>[q + 1]
      BY <3>1, RemoveAtIs
    <3> HIDE DEF t
    <3>4. t[1] = a
      BY <2>2, <3>1, <3>3
    <3>5. Len(t) = 1
      BY <3>1, <3>2
    <3>6. t = <<a>>
      BY <3>2, <3>4, <3>5
    <3> QED
      BY <3>6 DEF t
  <2> QED
    BY <1>1, <2>1, <2>3, <2>4, <2>5 DEF Without
<1>6. \A g \in GNodes : Without(l[g], x) = k[g]
  BY <1>4, <1>5
<1>7. RemoveChild(l, x) = [g \in GNodes |-> k[g]]
  BY <1>6 DEF RemoveChild
<1>8. k = [g \in GNodes |-> k[g]]
  BY <1>1 DEF Trees
<1> QED
  BY <1>7, <1>8 DEF l, x

-----------------------------------------------------------------------------
(* The tracks.                                                               *)

\* A path that is taken to a node of the scene is the node's place.
LEMMA PathIs ==
    ASSUME Tree(kids), kids[Top] # <<>>, NEW g \in Under(kids, Top)
    PROVE  g \in GNodes /\ Top \in PathTo(g) /\ PathTo(g) = Place(g) /\ PathTo(g) \in SUBSET GNodes
<1>1. kids \in Trees /\ Top \in GNodes /\ Under(kids, Top) \in SUBSET GNodes
  BY Names, Below DEF Tree, Once
<1>2. g \in GNodes /\ g \in Under(kids, g)
  BY <1>1, Below
<1>3. Top \in PathTo(g) /\ PathTo(g) \in SUBSET GNodes
  BY <1>1, <1>2 DEF PathTo
<1>4. ASSUME NEW p \in PathTo(g)
      PROVE  p \in Place(g)
  <2>1. p = g \/ (p \in GNodes /\ kids[p] # <<>> /\ g \in Under(kids, p))
    BY DEF PathTo
  <2>2. p \in Under(kids, Top)
    BY <2>1 DEF Tree, Rooted
  <2> QED
    BY <1>2, <2>1, <2>2 DEF Place
<1>5. ASSUME NEW p \in Place(g)
      PROVE  p \in PathTo(g)
  <2>1. p \in GNodes /\ g \in Under(kids, p)
    BY <1>1 DEF Place
  <2>2. CASE kids[p] # <<>>
    BY <2>1, <2>2 DEF PathTo
  <2>3. CASE kids[p] = <<>>
    <3>1. Closed(kids, {p})
      BY <2>3 DEF Closed, ToSet
    <3>2. {p} \in SUBSET GNodes /\ p \in {p}
      BY <2>1
    <3>3. Under(kids, p) \subseteq {p}
      BY <1>1, <2>1, <3>1, <3>2, Below
    <3> QED
      BY <2>1, <3>3 DEF PathTo
  <2> QED
    BY <2>2, <2>3
<1> QED
  BY <1>2, <1>3, <1>4, <1>5

\* The second player leaves the other nodes at their places.
LEMMA PlaceKept ==
    ASSUME Tree(kids), ~Placed(kids, Player), kids' = AddChild(kids, Top, Player), NEW g, g # Player
    PROVE  Place(g)' = Place(g)
<1>1. TreeAdded(kids, Top, Player, kids') /\ kids \in Trees /\ Player \in GNodes /\ Top \in GNodes
      /\ Player # Top
  BY PlayerAdded, Names DEF Tree, Once
<1>2. \A y \in GNodes : Under(kids', y)
        = Under(kids, y) \cup (IF Top \in Under(kids, y) THEN {Player} ELSE {})
  BY <1>1 DEF TreeAdded
<1>3. \A y \in GNodes : g \in Under(kids', y) <=> g \in Under(kids, y)
  BY <1>2
<1>4. Under(kids, Top) \in SUBSET GNodes /\ Top \in Under(kids, Top)
  BY <1>1, Below
<1>5. Under(kids', Top) = Under(kids, Top) \cup {Player}
  BY <1>1, <1>2, <1>4
<1>6. g \notin Under(kids, Player)
  <2>1. kids[Player] = <<>>
    BY <1>1 DEF TreeAdded
  <2>2. Closed(kids, {Player})
    BY <2>1 DEF Closed, ToSet
  <2>3. {Player} \in SUBSET GNodes /\ Player \in {Player}
    BY <1>1
  <2>4. Under(kids, Player) \subseteq {Player}
    BY <1>1, <2>2, <2>3, Below
  <2> QED
    BY <2>4
<1>7. Place(g)' = {p \in Under(kids', Top) : g \in Under(kids', p)}
  BY DEF Place
<1>8. {p \in Under(kids', Top) : g \in Under(kids', p)} = {p \in Under(kids, Top) : g \in Under(kids, p)}
  BY <1>1, <1>3, <1>4, <1>5, <1>6
<1> QED
  BY <1>7, <1>8 DEF Place

\* The mesh of a node of the scene is in the scene.
LEMMA MeshIs ==
    ASSUME Tree(kids), NEW g \in Under(kids, Top), NEW m \in MeshOf(g)
    PROVE  m \in Under(kids, Top) /\ IsMesh(m) /\ m \in Bodies
<1>1. kids \in Trees /\ Top \in GNodes /\ Under(kids, Top) \in SUBSET GNodes
      /\ Closed(kids, Under(kids, Top))
  BY Names, Below DEF Tree, Once
<1>2. g \in GNodes /\ ToSet(kids[g]) \subseteq Under(kids, Top)
  BY <1>1 DEF Closed
<1>3. Under(kids, g) \subseteq Under(kids, Top)
  BY <1>1, <1>2, Below
<1>4. \A S : FirstOf(S) \subseteq S
  BY DEF FirstOf
<1> DEFINE near == {x \in ToSet(kids[g]) : IsMesh(x)}
           far == {x \in Under(kids, g) : IsMesh(x)}
<1>5. FirstOf(near) \subseteq near /\ FirstOf(far) \subseteq far
  BY <1>4
<1>6. MeshOf(g) = IF IsMesh(g) THEN {g} ELSE IF near # {} THEN FirstOf(near) ELSE FirstOf(far)
  BY DEF MeshOf
<1>7. \A x \in near \cup far : IsMesh(x) /\ x \in Under(kids, Top)
  BY <1>2, <1>3
<1> HIDE DEF near, far
<1>8. m \in Under(kids, Top) /\ IsMesh(m)
  BY <1>5, <1>6, <1>7
<1>9. m \in Bodies
  BY <1>8 DEF IsMesh, Bodies, Objects
<1> QED
  BY <1>8, <1>9

\* A track of the scene's player and one of the actions' player.
Leads(t) == t \in TrackType /\ Top \in t.path /\ t.path = Place(t.node)
OnMaterial(t, p) ==
    /\ IsMesh(t.node) /\ OnStandard(t.node)
    /\ t.prop = Properties[p.ctrl.type] /\ p.ctrl.type \in Collected \ {"vis"}
SceneTrack(t, p) ==
    /\ Leads(t) /\ t.player = ScenePlayer
    /\ (p.ctrl.type = "vis" /\ t.prop = "visible") \/ OnMaterial(t, p)
ActionTrack(t) ==
    /\ Leads(t) /\ t.player = Player
    /\ \A r \in DOMAIN skel : \A b \in ToSet(skel[r].bones) : t.node # AV(b)
    /\ t.prop \in {"transparency", "visible", "position", "transform"}

\* A new track of a node of the scene leads to it.
LEMMA NewTrackIs ==
    ASSUME Tree(kids), kids[Top] # <<>>, NEW g \in Under(kids, Top), g \in Bodies,
           NEW player \in {ScenePlayer, Player}, NEW prop \in Driven
    PROVE  /\ Leads(NewTrack(player, g, prop)) /\ NewTrack(player, g, prop).player = player
           /\ NewTrack(player, g, prop).node = g /\ NewTrack(player, g, prop).prop = prop
<1> DEFINE path == PathTo(g)
           t == NewTrack(player, g, prop)
<1>1. Top \in path /\ path = Place(g) /\ path \in SUBSET GNodes
  BY PathIs
<1>2. t = [player |-> player, node |-> g, path |-> path, prop |-> prop]
  BY DEF NewTrack
<1> HIDE DEF path, t
<1>3. t \in TrackType
  BY <1>1, <1>2 DEF TrackType
<1>4. t.player = player /\ t.node = g /\ t.path = path /\ t.prop = prop
  BY <1>2
<1> QED
  BY <1>1, <1>3, <1>4 DEF Leads, t

\* What one controller becomes.
LEMMA TrackOfIs ==
    ASSUME Tree(kids), kids[Top] # <<>>, NEW p \in Waiting
    PROVE  TrackOf(p) = <<>> \/ \E t : TrackOf(p) = <<t>> /\ SceneTrack(t, p)
<1> DEFINE ms == {m \in MeshOf(p.node) : OnStandard(m)}
           m == CHOOSE m \in ms : TRUE
           type == p.ctrl.type
<1>1. type \in Collected /\ p.node \in Bodies
  BY DEF Waiting, Bodies
<1>2. CASE ~p.ctrl.data \/ ~InScene(p.node)
  BY <1>2 DEF TrackOf
<1>3. CASE p.ctrl.data /\ InScene(p.node) /\ type = "vis"
  <2> DEFINE t == NewTrack(ScenePlayer, p.node, "visible")
  <2>1. TrackOf(p) = <<t>>
    BY <1>3 DEF TrackOf
  <2>2. p.node \in Under(kids, Top)
    BY <1>3 DEF InScene
  <2>3. Leads(t) /\ t.player = ScenePlayer /\ t.prop = "visible"
    <3>1. "visible" \in Driven
      BY DEF Driven
    <3> QED
      BY <1>1, <2>2, <3>1, NewTrackIs
  <2> QED
    BY <1>3, <2>1, <2>3 DEF SceneTrack
<1>4. CASE p.ctrl.data /\ InScene(p.node) /\ type # "vis"
  <2>1. CASE ms = {}
    BY <1>4, <2>1 DEF TrackOf
  <2>2. CASE ms # {}
    <3> DEFINE t == NewTrack(ScenePlayer, m, Properties[type])
    <3>1. TrackOf(p) = <<t>>
      BY <1>4, <2>2 DEF TrackOf
    <3>2. m \in ms
      BY <2>2
    <3>3. p.node \in Under(kids, Top)
      BY <1>4 DEF InScene
    <3>4. m \in MeshOf(p.node) /\ OnStandard(m)
      BY <3>2
    <3> HIDE DEF m, ms
    <3>5. m \in Under(kids, Top) /\ IsMesh(m) /\ m \in Bodies
      BY <3>3, <3>4, MeshIs
    <3> DEFINE prop == Properties[type]
    <3>6. prop \in Driven
      BY <1>1 DEF Collected, Properties, Driven
    <3> HIDE DEF prop
    <3>7. /\ Leads(NewTrack(ScenePlayer, m, prop))
          /\ NewTrack(ScenePlayer, m, prop).player = ScenePlayer
          /\ NewTrack(ScenePlayer, m, prop).node = m
          /\ NewTrack(ScenePlayer, m, prop).prop = prop
      BY <3>5, <3>6, NewTrackIs
    <3>8. t = NewTrack(ScenePlayer, m, prop)
      BY DEF prop
    <3> HIDE DEF t
    <3>9. OnMaterial(t, p)
      BY <1>1, <1>4, <3>4, <3>5, <3>7, <3>8 DEF OnMaterial, prop
    <3> QED
      BY <3>1, <3>7, <3>8, <3>9 DEF SceneTrack
  <2> QED
    BY <2>1, <2>2
<1> QED
  BY <1>1, <1>2, <1>3, <1>4

\* The skeletons that have a bone, when all have been passed.
LEMMA SkeletonsAre ==
    ASSUME attached \in Seq(Obj), ToSet(attached) = DOMAIN skel, NEW o
    PROVE  /\ SkeletonsOf(o) # <<>> => SkeletonsOf(o)[1] \in DOMAIN skel /\ SkeletonsOf(o)[1] \in Obj
           /\ SkeletonsOf(o) = <<>> => \A r \in DOMAIN skel : o \notin ToSet(skel[r].bones)
<1> DEFINE I == {i \in DOMAIN attached : o \in ToSet(skel[attached[i]].bones)}
           t == Selected(attached, I)
<1>1. I \in SUBSET (DOMAIN attached) /\ t = SkeletonsOf(o)
  BY DEF SkeletonsOf
<1>2. \A i \in DOMAIN attached : o \in ToSet(skel[attached[i]].bones) => i \in I
  OBVIOUS
<1> HIDE DEF I
<1>3. /\ Cardinality(I) \in Nat /\ t \in Seq(Obj) /\ DOMAIN t = 1 .. Cardinality(I)
      /\ (Cardinality(I) = 0 <=> I = {})
  BY <1>1, SelectedIs
<1>4. \A j \in 1 .. Cardinality(I) : \E i \in I : t[j] = attached[i]
  BY <1>1, SelectedIs
<1> HIDE DEF t
<1>5. ASSUME t # <<>>
      PROVE  t[1] \in DOMAIN skel /\ t[1] \in Obj
  <2>1. 1 \in DOMAIN t
    <3>1. t \in Seq(Obj)
      BY <1>3
    <3> QED
      BY <1>5, <3>1
  <2>2. PICK i \in I : t[1] = attached[i]
    BY <1>3, <1>4, <2>1
  <2>3. i \in DOMAIN attached
    BY <1>1
  <2>4. attached[i] \in ToSet(attached) /\ attached[i] \in Obj
    BY <2>3 DEF ToSet
  <2> QED
    BY <2>2, <2>4
<1>6. ASSUME t = <<>>, NEW r \in DOMAIN skel
      PROVE  o \notin ToSet(skel[r].bones)
  <2>1. DOMAIN t = {}
    BY <1>6
  <2>2. I = {}
    BY <1>3, <2>1
  <2>3. PICK i \in DOMAIN attached : attached[i] = r
    BY DEF ToSet
  <2> QED
    BY <1>2, <2>2, <2>3
<1> QED
  BY <1>1, <1>5, <1>6

\* What one link of an action becomes.
Linked == [target : Obj \cup {0}, type : LinkTypes, data : BOOLEAN]
LEMMA LinkTrackIs ==
    ASSUME Tree(kids), kids[Top] # <<>>, attached \in Seq(Obj), ToSet(attached) = DOMAIN skel,
           \A r \in DOMAIN skel : Placed(kids, Skeleton(r)), NEW l \in Linked
    PROVE  LinkTrack(l) = <<>> \/ \E t : LinkTrack(l) = <<t>> /\ ActionTrack(t)
<1> DEFINE o == l.target
           s == SkeletonsOf(o)
<1>1. o \in Obj \cup {0} /\ l.type \in LinkTypes
  BY DEF Linked
<1>2. CASE o = 0 \/ l.type = "blend" \/ ~l.data
  BY <1>2 DEF LinkTrack
<1>3. CASE ~(o = 0 \/ l.type = "blend" \/ ~l.data) /\ s # <<>>
  <2> DEFINE g == Skeleton(s[1])
             t == NewTrack(Player, g, "transform")
  <2>1. LinkTrack(l) = (IF l.type # "transform" THEN <<>> ELSE <<t>>)
    BY <1>3 DEF LinkTrack
  <2>2. s[1] \in DOMAIN skel /\ s[1] \in Obj
    BY <1>3, SkeletonsAre
  <2>3. g \in GNodes /\ g \in Bodies /\ \A b : g # AV(b)
    BY <2>2, Names DEF Bodies, Skeletons
  <2>4. g \in Under(kids, Top)
    BY <2>2, <2>3 DEF Tree, Rooted
  <2> HIDE DEF g
  <2>5. Leads(t) /\ t.player = Player /\ t.node = g /\ t.prop = "transform"
    <3>1. "transform" \in Driven
      BY DEF Driven
    <3> QED
      BY <2>3, <2>4, <3>1, NewTrackIs
  <2> HIDE DEF t
  <2>6. ActionTrack(t)
    BY <2>3, <2>5 DEF ActionTrack
  <2> QED
    BY <2>1, <2>6
<1>4. CASE ~(o = 0 \/ l.type = "blend" \/ ~l.data) /\ s = <<>>
  <2> DEFINE g == AV(o)
             prop == PropertyOf[l.type]
             t == NewTrack(Player, g, prop)
  <2>1. LinkTrack(l) = (IF InScene(g) THEN <<t>> ELSE <<>>)
    BY <1>4 DEF LinkTrack
  <2>2. o \in Obj /\ \A r \in DOMAIN skel : o \notin ToSet(skel[r].bones)
    BY <1>1, <1>4, SkeletonsAre
  <2>3. g \in Bodies /\ \A b : g = AV(b) => b = o
    BY <2>2, Names DEF Bodies, Objects
  <2>4. prop \in {"transparency", "visible", "position", "transform"}
    BY <1>1, <1>4 DEF LinkTypes, PropertyOf
  <2>5. CASE InScene(g)
    <3>1. g \in Under(kids, Top) /\ prop \in Driven
      BY <2>4, <2>5 DEF InScene, Driven
    <3> HIDE DEF g, prop
    <3>2. Leads(t) /\ t.player = Player /\ t.node = g /\ t.prop = prop
      BY <2>3, <3>1, NewTrackIs
    <3> HIDE DEF t
    <3>3. ActionTrack(t)
      BY <2>2, <2>3, <2>4, <3>2 DEF ActionTrack
    <3> QED
      BY <2>1, <2>5, <3>3
  <2>6. CASE ~InScene(g)
    BY <2>1, <2>6
  <2> QED
    BY <2>5, <2>6
<1> QED
  BY <1>2, <1>3, <1>4

-----------------------------------------------------------------------------
(* The materials and the tracks that drive them.                             *)

\* The tracks grow by those of u.
LEMMA TracksPut ==
    ASSUME tracks \in Seq(TrackType), NEW u \in Seq(TrackType), tracks' = tracks \o u
    PROVE  /\ tracks' \in Seq(TrackType)
           /\ \A i \in DOMAIN tracks' : \/ i \in DOMAIN tracks /\ tracks'[i] = tracks[i]
                                        \/ \E j \in DOMAIN u : tracks'[i] = u[j]
           /\ \A i \in DOMAIN tracks : i \in DOMAIN tracks' /\ tracks'[i] = tracks[i]
<1> DEFINE m == Len(tracks)
           n == Len(u)
           v == tracks \o u
<1>1. /\ v \in Seq(TrackType) /\ Len(v) = m + n
      /\ \A k \in 1 .. m : v[k] = tracks[k]
      /\ \A k \in 1 .. n : v[m + k] = u[k]
  BY Joined
<1>2. m \in Nat /\ n \in Nat /\ DOMAIN tracks = 1 .. m /\ DOMAIN u = 1 .. n
  OBVIOUS
<1> HIDE DEF v, m, n
<1>3. DOMAIN v = 1 .. m + n
  BY <1>1
<1>4. ASSUME NEW i \in 1 .. m + n
      PROVE  (i \in 1 .. m /\ v[i] = tracks[i]) \/ \E j \in 1 .. n : v[i] = u[j]
  <2>1. CASE i \in 1 .. m
    BY <1>1, <2>1
  <2>2. CASE i \notin 1 .. m
    <3> DEFINE j == i - m
    <3>1. j \in 1 .. n /\ m + j = i
      BY <1>2, <2>2
    <3> HIDE DEF j
    <3>2. v[m + j] = u[j]
      BY <1>1, <3>1
    <3> QED
      BY <3>1, <3>2
  <2> QED
    BY <2>1, <2>2
<1>5. \A i \in 1 .. m : i \in 1 .. m + n
  BY <1>2
<1>6. tracks' = v
  BY DEF v
<1> QED
  BY <1>1, <1>2, <1>3, <1>4, <1>5, <1>6

\* The materials stay of their kinds and do not become opaque.
MaterialsKept ==
    /\ Dressed'
    /\ \A o \in Obj : /\ mats'[o].kind = mats[o].kind
                      /\ mats'[o].transparency = "disabled" => mats[o].transparency = "disabled"

\* The material of a body.
LEMMA BodyMaterial ==
    ASSUME Dressed, NEW g \in Bodies
    PROVE  /\ g[1] = "av" => /\ g[2] \in Obj /\ g = AV(g[2]) /\ MaterialAt(g) = mats[g[2]]
                             /\ IsMesh(g) => mats[g[2]] \in MaterialType(mats[g[2]])
           /\ g[1] # "av" => MaterialAt(g) = [kind |-> "standard", transparency |-> "alpha"]
<1>1. CASE g \in Objects
  <2>1. PICK o \in Obj : g = AV(o)
    BY <1>1 DEF Objects
  <2>2. g[1] = "av" /\ g[2] = o
    BY <2>1 DEF AV
  <2>3. MaterialAt(g) = mats[o]
    BY <2>2 DEF MaterialAt
  <2>4. IsMesh(g) => mats[o] # NoMaterial
    <3>1. \A q : AV(q) = AV(o) => q = o
      BY Names
    <3>2. \A q : AV(o) # Debug(q)
      BY Names
    <3> QED
      BY <2>1, <3>1, <3>2 DEF IsMesh
  <2>5. IsMesh(g) => mats[o] \in MaterialType(mats[o])
    BY <2>4 DEF Dressed
  <2> QED
    BY <2>1, <2>2, <2>3, <2>5
<1>2. CASE g \in Skeletons \cup {Debug(r) : r \in Obj}
  <2>1. g[1] = "skeleton" \/ g[1] = "debug"
    BY <1>2 DEF Skeletons, Skeleton, Debug
  <2>2. g[1] # "av"
    BY <2>1
  <2> QED
    BY <2>2 DEF MaterialAt
<1> QED
  BY <1>1, <1>2 DEF Bodies

\* A track that plays on a material: the material is standard.
LEMMA OnMaterialIs ==
    ASSUME Dressed, NEW t \in TrackType, NEW p, OnMaterial(t, p)
    PROVE  MaterialAt(t.node).kind = "standard"
<1> DEFINE g == t.node
<1>1. g \in Bodies /\ IsMesh(g) /\ MaterialAt(g).kind # "shader"
  BY DEF TrackType, OnMaterial, OnStandard
<1> HIDE DEF g
<1>2. CASE g[1] = "av"
  <2>1. MaterialAt(g) = mats[g[2]] /\ mats[g[2]] \in MaterialType(mats[g[2]])
    BY <1>1, <1>2, BodyMaterial
  <2> QED
    BY <1>1, <2>1 DEF MaterialType, g
<1>3. CASE g[1] # "av"
  <2>1. MaterialAt(g) = [kind |-> "standard", transparency |-> "alpha"]
    BY <1>1, <1>3, BodyMaterial
  <2> QED
    BY <2>1 DEF g
<1> QED
  BY <1>2, <1>3

\* The track of a controller changes at most the transparency it animates.
LEMMA FadingIs ==
    ASSUME Dressed, NEW p, NEW t, TrackOf(p) = <<t>>, SceneTrack(t, p),
           mats' = IF ~Fades(p) THEN mats
                   ELSE [mats EXCEPT ![TrackOf(p)[1].node[2]].transparency =
                            IF @ = "disabled" THEN "alpha" ELSE @]
    PROVE  /\ MaterialsKept
           /\ t.prop = "alpha" /\ t.node[1] = "av" => mats'[t.node[2]].transparency # "disabled"
<1> DEFINE o == t.node[2]
<1>1. t \in TrackType /\ t.node \in Bodies /\ TrackOf(p)[1] = t /\ TrackOf(p) # <<>>
  BY DEF SceneTrack, Leads, TrackType
<1>2. Fades(p) <=> p.ctrl.type = "alpha" /\ t.node[1] = "av"
  BY <1>1 DEF Fades
<1>3. t.prop = "alpha" => p.ctrl.type = "alpha"
  <2>1. t.prop = "visible" \/ OnMaterial(t, p)
    BY DEF SceneTrack
  <2> QED
    BY <2>1 DEF OnMaterial, Collected, Properties
<1>4. CASE ~Fades(p)
  <2>1. mats' = mats
    BY <1>4
  <2> QED
    BY <1>2, <1>3, <1>4, <2>1 DEF MaterialsKept, Dressed
<1>5. CASE Fades(p)
  <2>1. p.ctrl.type = "alpha" /\ t.node[1] = "av"
    BY <1>2, <1>5
  <2>2. IsMesh(t.node)
    BY <2>1 DEF SceneTrack, OnMaterial
  <2>3. o \in Obj /\ mats[o] \in MaterialType(mats[o])
    BY <1>1, <2>1, <2>2, BodyMaterial
  <2>4. mats' = [mats EXCEPT ![o].transparency = IF @ = "disabled" THEN "alpha" ELSE @]
    BY <1>1, <1>5
  <2> HIDE DEF o
  <2> DEFINE new == IF mats[o].transparency = "disabled" THEN "alpha" ELSE mats[o].transparency
             m == [mats[o] EXCEPT !.transparency = new]
  <2>5. mats = [q \in Obj |-> mats[q]]
    BY DEF Dressed
  <2>6. mats' = [q \in Obj |-> IF q = o THEN m ELSE mats[q]]
    BY <2>4, <2>5
  <2>7. m.kind = mats[o].kind /\ m.transparency = new /\ m \in MaterialType(m) /\ new # "disabled"
    BY <2>3 DEF MaterialType
  <2> HIDE DEF m, new
  <2>8. \A q \in Obj : mats'[q] = (IF q = o THEN m ELSE mats[q])
    BY <2>6
  <2>9. Dressed'
    BY <2>6, <2>7, <2>8 DEF Dressed
  <2>10. MaterialsKept
    BY <2>3, <2>7, <2>8, <2>9 DEF MaterialsKept
  <2>11. mats'[o].transparency # "disabled"
    BY <2>3, <2>7, <2>8
  <2> QED
    BY <2>10, <2>11 DEF o
<1> QED
  BY <1>4, <1>5

\* Materials that are kept go on suiting the tracks.
Painted(g) == IF g[1] = "av" THEN mats'[g[2]]
              ELSE [kind |-> "standard", transparency |-> "alpha"]
Suits(t) ==
    t.prop \in {"uv1", "albedo_texture", "albedo_color", "alpha"} =>
        /\ Painted(t.node).kind = "standard"
        /\ t.prop = "alpha" => Painted(t.node).transparency # "disabled"

LEMMA PaintedIs ==
    ASSUME Dressed, MaterialsKept, NEW g \in Bodies
    PROVE  /\ Painted(g).kind = MaterialAt(g).kind
           /\ Painted(g).transparency = "disabled" => MaterialAt(g).transparency = "disabled"
<1>1. CASE g[1] = "av"
  <2>1. g[2] \in Obj /\ MaterialAt(g) = mats[g[2]] /\ Painted(g) = mats'[g[2]]
    BY <1>1, BodyMaterial DEF Painted
  <2> QED
    BY <2>1 DEF MaterialsKept
<1>2. CASE g[1] # "av"
  <2>1. MaterialAt(g) = [kind |-> "standard", transparency |-> "alpha"]
    BY <1>2, BodyMaterial
  <2> QED
    BY <1>2, <2>1 DEF Painted
<1> QED
  BY <1>1, <1>2

LEMMA TracksApply ==
    ASSUME Dressed, MaterialsKept, tracks \in Seq(TrackType), MaterialTracksApply,
           \A i \in DOMAIN tracks' :
              (i \in DOMAIN tracks /\ tracks'[i] = tracks[i]) \/ Suits(tracks'[i])
    PROVE  MaterialTracksApply'
<1>1. ASSUME NEW i \in DOMAIN tracks
      PROVE  Suits(tracks[i])
  <2> DEFINE t == tracks[i]
  <2>1. t \in TrackType
    OBVIOUS
  <2>2. t.prop \in {"uv1", "albedo_texture", "albedo_color", "alpha"} =>
          /\ MaterialAt(t.node).kind = "standard"
          /\ t.prop = "alpha" => MaterialAt(t.node).transparency # "disabled"
    BY DEF MaterialTracksApply
  <2> HIDE DEF t
  <2>3. /\ Painted(t.node).kind = MaterialAt(t.node).kind
        /\ Painted(t.node).transparency = "disabled" => MaterialAt(t.node).transparency = "disabled"
    BY <2>1, PaintedIs DEF TrackType
  <2>4. Suits(t)
    BY <2>2, <2>3 DEF Suits
  <2> QED
    BY <2>4 DEF t
<1>2. \A i \in DOMAIN tracks' : Suits(tracks'[i])
  BY <1>1
<1> QED
  BY <1>2 DEF MaterialTracksApply, MaterialAt, Suits, Painted

\* The track of a controller suits its material.
LEMMA SceneTrackSuits ==
    ASSUME Dressed, NEW p, NEW t, SceneTrack(t, p), MaterialsKept,
           t.prop = "alpha" /\ t.node[1] = "av" => mats'[t.node[2]].transparency # "disabled"
    PROVE  Suits(t)
<1>1. t \in TrackType /\ t.node \in Bodies
  BY DEF SceneTrack, Leads, TrackType
<1>2. CASE t.prop = "visible"
  BY <1>2 DEF Suits
<1>3. CASE OnMaterial(t, p)
  <2>1. MaterialAt(t.node).kind = "standard"
    BY <1>1, <1>3, OnMaterialIs
  <2>2. Painted(t.node).kind = "standard"
    BY <1>1, <2>1, PaintedIs
  <2>3. t.prop = "alpha" => Painted(t.node).transparency # "disabled"
    BY DEF Painted
  <2> QED
    BY <2>2, <2>3 DEF Suits
<1> QED
  BY <1>2, <1>3 DEF SceneTrack

-----------------------------------------------------------------------------
(* The whole load, step by step.                                             *)

Traversed == phase \in Building => Types /\ Weighed /\ Calls /\ Hangs
Lined ==
    phase \in {"done", "controllers", "kfm", "actions"} =>
        attached \in Seq(Obj) /\ ToSet(attached) = DOMAIN skel
Playing ==
    /\ phase \in Building => tracks = <<>> /\ ready = {}
    /\ phase = "controllers" => ready = {}
    /\ phase \in {"kfm", "actions"} => Player \notin ready
    /\ phase \in {"controllers", "kfm"} =>
          \A i \in DOMAIN tracks : tracks[i].player = ScenePlayer
    /\ ScenePlayer \in ready => \E i \in DOMAIN tracks : tracks[i].player = ScenePlayer
Thrown == phase = "thrown" => PlayersComplete
Loading ==
    /\ LoadTypes /\ Traversed /\ Lined /\ Playing /\ Cast /\ Thrown
    /\ TracksReach /\ MaterialTracksApply

\* The scene with its players is a tree that has every skeleton.
LEMMA CastIs ==
    ASSUME Cast, phase # "thrown"
    PROVE  /\ Tree(kids) /\ kids[Top] # <<>>
           /\ \A r \in DOMAIN skel : r \in Obj /\ Placed(kids, Skeleton(r))
           /\ ~TwoThere => ~Placed(kids, Player)
<1>1. PICK k : /\ Plain(k) /\ kids = Staged(k)
               /\ \A r \in DOMAIN skel : r \in Obj /\ Placed(k, Skeleton(r))
  BY DEF Cast
<1>2. /\ Tree(kids) /\ \A y : Placed(k, y) => Placed(kids, y)
      /\ ~TwoThere => ~Placed(kids, Player)
  BY <1>1, StagedIs
<1>3. AV(Root) \in ToSet(kids[Top])
  BY <1>1, StagedIs
<1>4. kids[Top] # <<>>
  BY <1>3 DEF ToSet
<1> QED
  BY <1>1, <1>2, <1>4

\* The players in the scene, and what of PlayersComplete is always so.
LEMMA PlayersThere ==
    ASSUME LoadTypes, Playing, Cast, phase # "thrown"
    PROVE  /\ ToSet(kids[Top]) \cap {ScenePlayer, Player} =
                (IF OneThere THEN {ScenePlayer} ELSE {}) \cup (IF TwoThere THEN {Player} ELSE {})
           /\ ready \subseteq ToSet(kids[Top]) \cap {ScenePlayer, Player}
           /\ ScenePlayer \in ready => \E i \in DOMAIN tracks : tracks[i].player = ScenePlayer
           /\ \A i, j \in DOMAIN kids[Top] :
                 kids[Top][i] = ScenePlayer /\ kids[Top][j] = Player => i < j
<1>1. PICK k : Plain(k) /\ kids = Staged(k)
  BY DEF Cast
<1>2. ToSet(kids[Top]) = {AV(Root)} \cup (IF OneThere THEN {ScenePlayer} ELSE {})
                                    \cup (IF TwoThere THEN {Player} ELSE {})
  BY <1>1, StagedIs
<1>3. \A i, j \in DOMAIN kids[Top] :
        kids[Top][i] = ScenePlayer /\ kids[Top][j] = Player => i < j
  BY <1>1, StagedIs
<1>4. ScenePlayer # AV(Root) /\ Player # AV(Root) /\ ScenePlayer # Player
  BY Names
<1>5. ToSet(kids[Top]) \cap {ScenePlayer, Player} =
         (IF OneThere THEN {ScenePlayer} ELSE {}) \cup (IF TwoThere THEN {Player} ELSE {})
  BY <1>2, <1>4
<1>6. ready \subseteq {ScenePlayer, Player}
  BY DEF LoadTypes
<1>7. (ScenePlayer \in ready => OneThere) /\ (Player \in ready => TwoThere)
  BY DEF OneThere, TwoThere
<1>8. ready \subseteq ToSet(kids[Top]) \cap {ScenePlayer, Player}
  BY <1>5, <1>6, <1>7
<1>9. ScenePlayer \in ready => \E i \in DOMAIN tracks : tracks[i].player = ScenePlayer
  BY DEF Playing
<1> QED
  BY <1>3, <1>5, <1>8, <1>9

\* A scene as the traversal leaves it has no players.
LEMMA CastPlain ==
    ASSUME Sound(kids, Hosts), DOMAIN skel \subseteq Obj
    PROVE  Plain(kids) /\ \A r \in DOMAIN skel : r \in Obj /\ Placed(kids, Skeleton(r))
<1>1. Plain(kids)
  BY DEF Sound, Plain
<1>2. ASSUME NEW r \in DOMAIN skel
      PROVE  Placed(kids, Skeleton(r))
  <2>1. r \in DOMAIN Hosts
    BY DEF Hosts
  <2>2. GParents(kids, Skeleton(r)) # {}
    BY <2>1 DEF Sound
  <2> QED
    BY <2>2 DEF GParents, Placed
<1> QED
  BY <1>1, <1>2

\* The tracks go on leading where they did, and new ones lead too.
LEMMA TracksLead ==
    ASSUME tracks \in Seq(TrackType), TracksResolve, kids' = kids,
           \A i \in DOMAIN tracks' :
              (i \in DOMAIN tracks /\ tracks'[i] = tracks[i]) \/ Leads(tracks'[i])
    PROVE  TracksResolve'
<1>1. \A g : Place(g)' = Place(g)
  BY DEF Place
<1>2. \A i \in DOMAIN tracks' :
        Top \in tracks'[i].path /\ tracks'[i].path = Place(tracks'[i].node)
  BY DEF TracksResolve, Leads
<1> QED
  BY <1>2 DEF TracksResolve, Place

LEMMA LoadInit == AInit => Loading
<1> SUFFICES ASSUME AInit
             PROVE  Loading
  OBVIOUS
<1>1. Init /\ phase = "walk" /\ file \in Files /\ tracks = <<>> /\ ready = {} /\ at = 1
      /\ pending = Collect(Root) /\ mats = [o \in Obj |-> NoMaterial]
  BY DEF AInit, Init
<1>2. Types /\ Weighed /\ Calls /\ Hangs
  BY <1>1, TypesInit, WeighedInit, CallsInit, HangsInit
<1>3. Dressed
  BY <1>1 DEF Dressed
<1>4. pending \in Seq(Waiting)
  <2>1. Root \in Obj
    BY FilesAssumption
  <2> QED
    BY <1>1, <2>1, CollectIs
<1>5. LoadTypes
  BY <1>1, <1>3, <1>4 DEF LoadTypes, Building
<1>6. Traversed /\ Lined /\ Playing
  BY <1>1, <1>2 DEF Traversed, Lined, Playing
<1>7. Cast
  <2>1. Sound(kids, Hosts) /\ DOMAIN skel \subseteq Obj
    BY <1>2 DEF Hangs, Types
  <2>2. Plain(kids) /\ \A r \in DOMAIN skel : r \in Obj /\ Placed(kids, Skeleton(r))
    BY <2>1, CastPlain
  <2>3. Staged(kids) = kids
    BY <1>1 DEF Staged, First, OneThere, TwoThere
  <2> QED
    BY <2>2, <2>3 DEF Cast
<1>8. TracksReach /\ MaterialTracksApply
  BY <1>1 DEF TracksReach, TracksResolve, BonesMoveOnSkeletons, MaterialTracksApply
<1>9. Thrown
  BY <1>1 DEF Thrown
<1> QED
  BY <1>5, <1>6, <1>7, <1>8, <1>9 DEF Loading

\* What a step of the traversal does to the rest.
LEMMA TraversalDoes ==
    ASSUME LoadTypes, Traversed, Nodes \/ Shapes \/ Scene
    PROVE  /\ Next /\ phase \in {"walk", "attach"}
           /\ phase' = "done" => ToSet(attached') = DOMAIN skel'
           /\ tracks' = tracks /\ ready' = ready /\ at' = at
           /\ pending' \in Seq(Waiting) /\ Dressed'
<1>1. pending \in Seq(Waiting) /\ Dressed /\ file \in Files
  BY DEF LoadTypes
<1>2. ASSUME phase = "walk", stack # <<>>, Pending
      PROVE  child \in Obj
  BY <1>2, ChildIs DEF Traversed, Building
<1>3. ASSUME child \in Obj
      PROVE  pending \o Collect(child) \in Seq(Waiting)
  BY <1>1, <1>3, CollectIs
<1>4. CASE Nodes
  <2>1. EnterNode
    BY <1>4 DEF Nodes
  <2>2. phase = "walk" /\ stack # <<>> /\ Pending /\ phase' = phase
    BY <2>1 DEF EnterNode
  <2>3. pending' \in {pending, pending \o Collect(child)} /\ UNCHANGED <<mats, tracks, ready, at>>
    BY <1>4 DEF Nodes
  <2> QED
    BY <1>1, <1>2, <1>3, <2>1, <2>2, <2>3 DEF Next, Dressed
<1>5. CASE Shapes
  <2>1. Leaf \/ SharedSkeleton \/ FirstSkeleton \/ NoSkeleton
    BY <1>5 DEF Shapes
  <2>2. phase = "walk" /\ stack # <<>> /\ Pending /\ phase' = phase
    BY <2>1 DEF Leaf, SharedSkeleton, FirstSkeleton, NoSkeleton, Visits, PutMesh
  <2>3. Next
    BY <2>1 DEF Next
  <2>4. child \in Obj
    BY <1>2, <2>2
  <2>5. UNCHANGED <<tracks, ready, at>>
    BY <1>5 DEF Shapes
  <2>6. CASE file.kind[child] = "shape" /\ ~file.empty[child]
    <3>1. /\ pending' = pending \o Collect(child)
          /\ mats' = [mats EXCEPT ![child] = Material(file.props[child], file.shader)]
      BY <1>5, <2>6 DEF Shapes
    <3>2. Dressed'
      BY <1>1, <2>4, <3>1, DressedPut
    <3> QED
      BY <1>3, <2>2, <2>3, <2>4, <2>5, <3>1, <3>2
  <2>7. CASE ~(file.kind[child] = "shape" /\ ~file.empty[child])
    <3>1. pending' = pending /\ mats' = mats
      BY <1>5, <2>7 DEF Shapes
    <3> QED
      BY <1>1, <2>2, <2>3, <2>5, <3>1 DEF Dressed
  <2> QED
    BY <2>6, <2>7
<1>6. CASE Scene
  <2>1. Leave \/ WalkDone \/ (\E r \in Obj : Attach(r)) \/ Correct \/ Throw
    BY <1>6 DEF Scene
  <2>2. UNCHANGED <<pending, mats, tracks, ready, at>>
    BY <1>6 DEF Scene, animVars
  <2>3. Next
    BY <2>1 DEF Next
  <2>4. phase \in {"walk", "attach"}
    BY <2>1 DEF Leave, WalkDone, Attach, Correct, Throw
  <2>5. phase' = "done" => ToSet(attached') = DOMAIN skel'
    BY <2>1 DEF Leave, WalkDone, Attach, Correct, Throw
  <2> QED
    BY <1>1, <2>2, <2>3, <2>4, <2>5 DEF Dressed
<1> QED
  BY <1>4, <1>5, <1>6

LEMMA TraversalKeeps ==
    ASSUME Loading, Nodes \/ Shapes \/ Scene
    PROVE  Loading'
<1>1. LoadTypes /\ Traversed /\ Playing
  BY DEF Loading
<1>2. /\ Next /\ phase \in {"walk", "attach"}
      /\ phase' = "done" => ToSet(attached') = DOMAIN skel'
      /\ tracks' = tracks /\ ready' = ready /\ at' = at
      /\ pending' \in Seq(Waiting) /\ Dressed'
  BY <1>1, TraversalDoes
<1>3. Types /\ Weighed /\ Calls /\ Hangs /\ tracks = <<>> /\ ready = {}
  BY <1>1, <1>2 DEF Traversed, Playing, Building
<1>4. Types' /\ Weighed' /\ Calls' /\ Hangs'
  <2>1. Types' /\ Weighed' /\ Calls'
    BY <1>2, <1>3, TypesStep, WeighedStep, CallsStep
  <2>2. Hangs'
    BY <1>2, <1>3, HangsStep, AttachIs
  <2> QED
    BY <2>1, <2>2
<1>5. phase' \in {"walk", "attach", "done", "thrown"} /\ file' \in Files /\ attached' \in Seq(Obj)
      /\ DOMAIN skel' \subseteq Obj
  BY <1>4 DEF Types, Early
<1>6. LoadTypes'
  BY <1>1, <1>2, <1>5 DEF LoadTypes, Building
<1>7. Traversed' /\ Lined' /\ Playing'
  <2>1. Traversed'
    BY <1>4 DEF Traversed
  <2>2. Lined'
    BY <1>2, <1>5 DEF Lined
  <2>3. Playing'
    BY <1>2, <1>3, <1>5 DEF Playing
  <2> QED
    BY <2>1, <2>2, <2>3
<1>8. Cast'
  <2>1. Sound(kids', Hosts')
    BY <1>4 DEF Hangs
  <2>2. (Plain(kids) /\ \A r \in DOMAIN skel : r \in Obj /\ Placed(kids, Skeleton(r)))'
    <3>1. Plain(kids')
      BY <2>1 DEF Sound, Plain
    <3>2. ASSUME NEW r \in DOMAIN skel'
          PROVE  Placed(kids', Skeleton(r))
      <4>1. r \in DOMAIN Hosts'
        BY DEF Hosts
      <4>2. GParents(kids', Skeleton(r)) # {}
        BY <2>1, <4>1 DEF Sound
      <4> QED
        BY <4>2 DEF GParents, Placed
    <3> QED
      BY <1>5, <3>1, <3>2
  <2>3. Staged(kids)' = kids'
    BY <1>2, <1>3, <1>5 DEF Staged, First, OneThere, TwoThere
  <2> QED
    BY <2>2, <2>3 DEF Cast
<1>9. TracksReach' /\ MaterialTracksApply'
  BY <1>2, <1>3 DEF TracksReach, TracksResolve, BonesMoveOnSkeletons, MaterialTracksApply
<1>10. Thrown'
  <2>1. kids'[Top] = <<AV(Root)>>
    BY <1>4 DEF Hangs, Sound
  <2>2. ScenePlayer # AV(Root) /\ Player # AV(Root)
    BY Names
  <2>3. \A i \in DOMAIN kids'[Top] : kids'[Top][i] # ScenePlayer /\ kids'[Top][i] # Player
    BY <2>1, <2>2
  <2>4. ToSet(kids'[Top]) \cap {ScenePlayer, Player} = {}
    BY <2>3 DEF ToSet
  <2>5. ready' = {} /\ (phase' = "thrown" => phase' # "cleared")
    BY <1>2, <1>3
  <2> QED
    BY <2>3, <2>4, <2>5 DEF Thrown, PlayersComplete
<1> QED
  BY <1>6, <1>7, <1>8, <1>9, <1>10 DEF Loading

\* The first player is added when a controller waits.
LEMMA ControllersStart ==
    ASSUME Loading, StartControllers
    PROVE  Loading'
<1>1. LoadTypes /\ Traversed /\ Lined /\ Playing /\ Cast
  BY DEF Loading
<1>2. /\ phase = "done" /\ phase' \in {"kfm", "controllers"}
      /\ UNCHANGED <<file, stack, hidden, skel, reparented, mesh, attached, turned>>
      /\ UNCHANGED <<pending, mats, tracks, ready, at>>
      /\ phase' = "kfm" => kids' = kids
      /\ phase' = "controllers" => kids' = AddChild(kids, Top, ScenePlayer)
  BY DEF StartControllers, sceneRest, animVars
<1>3. tracks = <<>> /\ ready = {} /\ attached \in Seq(Obj) /\ ToSet(attached) = DOMAIN skel
  BY <1>1, <1>2 DEF Playing, Building, Lined
<1>4. LoadTypes'
  BY <1>1, <1>2 DEF LoadTypes, Building, Late, Dressed
<1>5. Traversed' /\ Lined' /\ Playing'
  BY <1>2, <1>3 DEF Traversed, Building, Lined, Playing
<1>6. Cast'
  <2>1. Types /\ Hangs
    BY <1>1, <1>2 DEF Traversed, Building
  <2>2. Plain(kids) /\ \A r \in DOMAIN skel : r \in Obj /\ Placed(kids, Skeleton(r))
    BY <2>1, CastPlain DEF Hangs, Types
  <2>3. \A k : Staged(k)' = IF phase' = "controllers" THEN AddChild(k, Top, ScenePlayer) ELSE k
    BY <1>2, <1>3 DEF Staged, First, OneThere, TwoThere
  <2>4. \E k : /\ Plain(k) /\ kids' = Staged(k)'
               /\ \A r \in DOMAIN skel' : r \in Obj /\ Placed(k, Skeleton(r))
    BY <1>2, <2>2, <2>3
  <2> QED
    BY <2>4 DEF Cast
<1>7. TracksReach' /\ MaterialTracksApply'
  BY <1>2, <1>3 DEF TracksReach, TracksResolve, BonesMoveOnSkeletons, MaterialTracksApply
<1> QED
  BY <1>2, <1>4, <1>5, <1>6, <1>7 DEF Loading, Thrown

\* One controller of the loop.
LEMMA ControllerKeeps ==
    ASSUME Loading, Controller
    PROVE  Loading'
<1>1. LoadTypes /\ Lined /\ Playing /\ Cast /\ TracksResolve /\ MaterialTracksApply
  BY DEF Loading, TracksReach
<1> DEFINE p == pending[at]
<1>2. /\ phase = "controllers" /\ at <= Len(pending)
      /\ tracks' = tracks \o TrackOf(p)
      /\ mats' = IF ~Fades(p) THEN mats
                 ELSE [mats EXCEPT ![TrackOf(p)[1].node[2]].transparency =
                          IF @ = "disabled" THEN "alpha" ELSE @]
      /\ at' = at + 1 /\ phase' = phase /\ kids' = kids /\ pending' = pending /\ ready' = ready
      /\ file' = file /\ skel' = skel /\ attached' = attached
  BY DEF Controller, sceneRest
<1>3. p \in Waiting /\ at' \in Nat \ {0} /\ Dressed /\ tracks \in Seq(TrackType)
  <2>1. pending \in Seq(Waiting) /\ at \in Nat \ {0}
    BY <1>1 DEF LoadTypes
  <2>2. Len(pending) \in Nat /\ DOMAIN pending = 1 .. Len(pending)
    BY <2>1
  <2>3. at \in DOMAIN pending /\ at + 1 \in Nat \ {0}
    BY <1>2, <2>1, <2>2
  <2> QED
    BY <1>1, <1>2, <2>1, <2>3 DEF LoadTypes
<1> HIDE DEF p
<1>4. Tree(kids) /\ kids[Top] # <<>>
  BY <1>1, <1>2, CastIs
<1>5. TrackOf(p) = <<>> \/ \E t : TrackOf(p) = <<t>> /\ SceneTrack(t, p)
  BY <1>3, <1>4, TrackOfIs
<1>6. /\ MaterialsKept /\ tracks' \in Seq(TrackType)
      /\ \A i \in DOMAIN tracks : i \in DOMAIN tracks' /\ tracks'[i] = tracks[i]
      /\ \A i \in DOMAIN tracks' :
           \/ i \in DOMAIN tracks /\ tracks'[i] = tracks[i]
           \/ Suits(tracks'[i]) /\ Leads(tracks'[i]) /\ tracks'[i].player = ScenePlayer
  <2>1. CASE TrackOf(p) = <<>>
    <3>1. tracks' = tracks
      BY <1>2, <1>3, <2>1
    <3>2. mats' = mats
      BY <1>2, <2>1 DEF Fades
    <3> QED
      BY <1>3, <3>1, <3>2 DEF MaterialsKept, Dressed
  <2>2. CASE \E t : TrackOf(p) = <<t>> /\ SceneTrack(t, p)
    <3>1. PICK t : TrackOf(p) = <<t>> /\ SceneTrack(t, p)
      BY <2>2
    <3>2. /\ MaterialsKept
          /\ t.prop = "alpha" /\ t.node[1] = "av" => mats'[t.node[2]].transparency # "disabled"
      BY <1>2, <1>3, <3>1, FadingIs
    <3>3. Suits(t) /\ Leads(t) /\ t.player = ScenePlayer /\ t \in TrackType
      BY <1>3, <3>1, <3>2, SceneTrackSuits DEF SceneTrack, Leads
    <3>4. <<t>> \in Seq(TrackType) /\ tracks' = tracks \o <<t>> /\ \A j \in DOMAIN <<t>> : <<t>>[j] = t
      BY <1>2, <3>1, <3>3
    <3>5. /\ tracks' \in Seq(TrackType)
          /\ \A i \in DOMAIN tracks' : \/ i \in DOMAIN tracks /\ tracks'[i] = tracks[i]
                                       \/ \E j \in DOMAIN <<t>> : tracks'[i] = <<t>>[j]
          /\ \A i \in DOMAIN tracks : i \in DOMAIN tracks' /\ tracks'[i] = tracks[i]
      BY <1>3, <3>4, TracksPut
    <3>6. \A i \in DOMAIN tracks' : (i \in DOMAIN tracks /\ tracks'[i] = tracks[i]) \/ tracks'[i] = t
      BY <3>4, <3>5
    <3> QED
      BY <3>2, <3>3, <3>5, <3>6
  <2> QED
    BY <1>5, <2>1, <2>2
<1>7. LoadTypes'
  BY <1>1, <1>2, <1>3, <1>6 DEF LoadTypes, MaterialsKept
<1>8. Traversed' /\ Lined'
  BY <1>1, <1>2 DEF Traversed, Building, Lined
<1>9. Playing'
  <2>1. ready = {} /\ \A i \in DOMAIN tracks : tracks[i].player = ScenePlayer
    BY <1>1, <1>2 DEF Playing
  <2>2. \A i \in DOMAIN tracks' : tracks'[i].player = ScenePlayer
    BY <1>6, <2>1
  <2> QED
    BY <1>2, <2>1, <2>2 DEF Playing, Building
<1>10. Cast'
  <2>1. \A k : Staged(k)' = Staged(k)
    BY <1>2 DEF Staged, First, OneThere, TwoThere
  <2> QED
    BY <1>1, <1>2, <2>1 DEF Cast
<1>11. TracksResolve'
  BY <1>1, <1>2, <1>3, <1>6, TracksLead
<1>12. BonesMoveOnSkeletons'
  BY <1>2 DEF BonesMoveOnSkeletons
<1>13. MaterialTracksApply'
  BY <1>1, <1>3, <1>6, TracksApply
<1> QED
  BY <1>2, <1>7, <1>8, <1>9, <1>10, <1>11, <1>12, <1>13 DEF Loading, Thrown, TracksReach

\* A player that has got no track is removed again.
LEMMA ControllersEnd ==
    ASSUME Loading, EndControllers
    PROVE  Loading'
<1>1. LoadTypes /\ Lined /\ Playing /\ Cast /\ TracksResolve /\ MaterialTracksApply
  BY DEF Loading, TracksReach
<1>2. /\ phase = "controllers" /\ phase' = "kfm" /\ at' = 1
      /\ file' = file /\ skel' = skel /\ attached' = attached
      /\ pending' = pending /\ mats' = mats /\ tracks' = tracks
      /\ tracks = <<>> => kids' = RemoveChild(kids, ScenePlayer) /\ ready' = ready
      /\ tracks # <<>> => ready' = {ScenePlayer} /\ kids' = kids
  BY DEF EndControllers, sceneRest
<1>3. ready = {} /\ \A i \in DOMAIN tracks : tracks[i].player = ScenePlayer
  BY <1>1, <1>2 DEF Playing
<1>4. LoadTypes'
  BY <1>1, <1>2, <1>3 DEF LoadTypes, Late, Dressed
<1>5. Traversed' /\ Lined'
  BY <1>1, <1>2 DEF Traversed, Building, Lined
<1>6. tracks # <<>> => \E i \in DOMAIN tracks : tracks[i].player = ScenePlayer
  <2> SUFFICES ASSUME tracks # <<>>
               PROVE  1 \in DOMAIN tracks
    BY <1>3
  <2>1. tracks \in Seq(TrackType)
    BY <1>1 DEF LoadTypes
  <2> QED
    BY <2>1
<1>7. Playing'
  <2>1. Player \notin ready'
    BY <1>2, <1>3, Names
  <2> QED
    BY <1>2, <1>3, <1>6, <2>1 DEF Playing, Building
<1>8. Cast'
  <2>1. PICK k : /\ Plain(k) /\ kids = Staged(k)
                 /\ \A r \in DOMAIN skel : r \in Obj /\ Placed(k, Skeleton(r))
    BY <1>1, <1>2 DEF Cast
  <2>2. kids = AddChild(k, Top, ScenePlayer)
    BY <1>2, <1>3, <2>1 DEF Staged, First, OneThere, TwoThere
  <2>3. kids' = Staged(k)'
    <3>1. CASE tracks = <<>>
      <4>1. kids' = k
        BY <1>2, <2>1, <2>2, <3>1, PlayerRemoved
      <4> QED
        BY <1>2, <1>3, <3>1, <4>1 DEF Staged, First, OneThere, TwoThere
    <3>2. CASE tracks # <<>>
      <4>1. Player \notin ready' /\ ScenePlayer \in ready'
        BY <1>2, <3>2, Names
      <4> QED
        BY <1>2, <2>2, <3>2, <4>1 DEF Staged, First, OneThere, TwoThere
    <3> QED
      BY <3>1, <3>2
  <2> QED
    BY <1>2, <2>1, <2>3 DEF Cast
<1>9. TracksReach'
  <2>1. TracksResolve'
    <3>1. CASE tracks = <<>>
      BY <1>2, <3>1 DEF TracksResolve
    <3>2. CASE tracks # <<>>
      BY <1>1, <1>2, <3>2, TracksLead DEF LoadTypes
    <3> QED
      BY <3>1, <3>2
  <2>2. BonesMoveOnSkeletons'
    <3>1. Player # ScenePlayer
      BY Names
    <3> QED
      BY <1>2, <1>3, <3>1 DEF BonesMoveOnSkeletons
  <2> QED
    BY <2>1, <2>2 DEF TracksReach
<1>10. MaterialTracksApply'
  BY <1>1, <1>2 DEF MaterialTracksApply, MaterialAt
<1> QED
  BY <1>2, <1>4, <1>5, <1>7, <1>8, <1>9, <1>10 DEF Loading, Thrown

\* The second player is added when there are actions.
LEMMA KfmStarts ==
    ASSUME Loading, StartKfm
    PROVE  Loading'
<1>1. LoadTypes /\ Lined /\ Playing /\ Cast /\ TracksResolve /\ MaterialTracksApply
  BY DEF Loading, TracksReach
<1>2. /\ phase = "kfm" /\ phase' = "actions" /\ kids' = AddChild(kids, Top, Player)
      /\ file' = file /\ skel' = skel /\ attached' = attached
      /\ pending' = pending /\ mats' = mats /\ tracks' = tracks /\ ready' = ready /\ at' = at
  BY DEF StartKfm, sceneRest, animVars
<1>3. Player \notin ready /\ \A i \in DOMAIN tracks : tracks[i].player = ScenePlayer
  BY <1>1, <1>2 DEF Playing
<1>4. LoadTypes'
  BY <1>1, <1>2 DEF LoadTypes, Late, Dressed
<1>5. Traversed' /\ Lined' /\ Playing'
  BY <1>1, <1>2 DEF Traversed, Building, Lined, Playing
<1>6. Cast'
  <2>1. PICK k : /\ Plain(k) /\ kids = Staged(k)
                 /\ \A r \in DOMAIN skel : r \in Obj /\ Placed(k, Skeleton(r))
    BY <1>1, <1>2 DEF Cast
  <2>2. kids = First(k) /\ First(k)' = First(k)
    BY <1>2, <1>3, <2>1 DEF Staged, First, OneThere, TwoThere
  <2>3. Staged(k)' = AddChild(First(k)', Top, Player)
    BY <1>2 DEF Staged, TwoThere
  <2>4. kids' = Staged(k)'
    BY <1>2, <2>2, <2>3
  <2> QED
    BY <1>2, <2>1, <2>4 DEF Cast
<1>7. TracksReach'
  <2>1. Tree(kids) /\ ~Placed(kids, Player)
    BY <1>1, <1>2, <1>3, CastIs DEF TwoThere
  <2>2. ASSUME NEW i \in DOMAIN tracks
        PROVE  tracks[i].node # Player
    <3>1. tracks[i] \in TrackType
      BY <1>1 DEF LoadTypes
    <3>2. tracks[i].node \in Bodies
      BY <3>1 DEF TrackType
    <3>3. Player \notin Bodies
      BY Names DEF Bodies, Objects, Skeletons
    <3> QED
      BY <3>2, <3>3
  <2>3. \A g : g # Player => Place(g)' = Place(g)
    BY <1>2, <2>1, PlaceKept
  <2>4. \A i \in DOMAIN tracks :
          Top \in tracks[i].path /\ tracks[i].path = {p \in Under(kids', Top) : tracks[i].node \in Under(kids', p)}
    <3> SUFFICES ASSUME NEW i \in DOMAIN tracks
                 PROVE  Top \in tracks[i].path /\ tracks[i].path
                          = {p \in Under(kids', Top) : tracks[i].node \in Under(kids', p)}
      OBVIOUS
    <3>1. Top \in tracks[i].path /\ tracks[i].path = Place(tracks[i].node)
      BY <1>1 DEF TracksResolve
    <3>2. \A g : g # Player =>
            {p \in Under(kids', Top) : g \in Under(kids', p)} = Place(g)
      BY <2>3 DEF Place
    <3> QED
      BY <2>2, <3>1, <3>2
  <2>5. TracksResolve'
    BY <1>2, <2>4 DEF TracksResolve, Place
  <2>6. BonesMoveOnSkeletons'
    <3>1. Player # ScenePlayer
      BY Names
    <3> QED
      BY <1>2, <1>3, <3>1 DEF BonesMoveOnSkeletons
  <2> QED
    BY <2>5, <2>6 DEF TracksReach
<1>8. MaterialTracksApply'
  BY <1>1, <1>2 DEF MaterialTracksApply, MaterialAt
<1> QED
  BY <1>2, <1>4, <1>5, <1>6, <1>7, <1>8 DEF Loading, Thrown

\* The tracks of an action's links.
LEMMA LinksTracked ==
    ASSUME Tree(kids), kids[Top] # <<>>, attached \in Seq(Obj), ToSet(attached) = DOMAIN skel,
           \A r \in DOMAIN skel : Placed(kids, Skeleton(r)), NEW links \in Seq(Linked),
           NEW made, made = Selected(links, {i \in DOMAIN links : LinkTrack(links[i]) # <<>>})
    PROVE  /\ [i \in DOMAIN made |-> LinkTrack(made[i])[1]] \in Seq(TrackType)
           /\ \A i \in DOMAIN made : ActionTrack(LinkTrack(made[i])[1])
<1> DEFINE I == {i \in DOMAIN links : LinkTrack(links[i]) # <<>>}
<1>1. I \in SUBSET (DOMAIN links) /\ \A i \in I : LinkTrack(links[i]) # <<>> /\ links[i] \in Linked
  OBVIOUS
<1>2. made = Selected(links, I)
  OBVIOUS
<1> HIDE DEF I
<1>3. /\ Cardinality(I) \in Nat /\ DOMAIN made = 1 .. Cardinality(I)
      /\ \A j \in 1 .. Cardinality(I) : \E i \in I : made[j] = links[i]
  <2> DEFINE t == Selected(links, I)
  <2>1. Cardinality(I) \in Nat /\ DOMAIN t = 1 .. Cardinality(I)
    BY <1>1, SelectedIs
  <2>2. \A j \in 1 .. Cardinality(I) : \E i \in I : t[j] = links[i]
    BY <1>1, SelectedIs
  <2> HIDE DEF t
  <2>3. made = t
    BY <1>2 DEF t
  <2> QED
    BY <2>1, <2>2, <2>3
<1>4. ASSUME NEW j \in DOMAIN made
      PROVE  ActionTrack(LinkTrack(made[j])[1])
  <2>1. PICK i \in I : made[j] = links[i]
    BY <1>3
  <2>2. made[j] \in Linked /\ LinkTrack(made[j]) # <<>>
    BY <1>1, <2>1
  <2>3. PICK t : LinkTrack(made[j]) = <<t>> /\ ActionTrack(t)
    BY <2>2, LinkTrackIs
  <2> QED
    BY <2>3
<1>5. \A j \in DOMAIN made : LinkTrack(made[j])[1] \in TrackType
  BY <1>4 DEF ActionTrack, Leads
<1>6. [i \in DOMAIN made |-> LinkTrack(made[i])[1]] \in Seq(TrackType)
  BY <1>3, <1>5
<1> QED
  BY <1>4, <1>6

\* One action of the .kfm.
LEMMA ActionKeeps ==
    ASSUME Loading, Action
    PROVE  Loading'
<1>1. LoadTypes /\ Lined /\ Playing /\ Cast /\ TracksResolve /\ BonesMoveOnSkeletons
      /\ MaterialTracksApply
  BY DEF Loading, TracksReach
<1> DEFINE links == IF file.kfm[at].ok THEN file.kfm[at].links ELSE <<>>
           made == Selected(links, {i \in DOMAIN links : LinkTrack(links[i]) # <<>>})
           u == [i \in DOMAIN made |-> LinkTrack(made[i])[1]]
<1>2. /\ phase = "actions" /\ at <= Len(file.kfm)
      /\ tracks' = tracks \o u
      /\ at' = at + 1 /\ phase' = phase /\ kids' = kids /\ pending' = pending /\ mats' = mats
      /\ ready' = ready /\ file' = file /\ skel' = skel /\ attached' = attached
  BY DEF Action, sceneRest
<1>3. tracks \in Seq(TrackType) /\ Dressed /\ file \in Files /\ at \in Nat \ {0}
  BY <1>1 DEF LoadTypes
<1>4. links \in Seq(Linked)
  <2> DEFINE K == [ok : BOOLEAN, links : Seq(Linked)]
             a == file.kfm
             n == Len(a)
  <2>1. a \in Seq(K) /\ at <= n
    BY <1>2, <1>3, AnimationAssumption DEF Linked
  <2> HIDE DEF a, K
  <2>2. n \in Nat /\ DOMAIN a = 1 .. n /\ \A i \in 1 .. n : a[i] \in K
    BY <2>1
  <2> HIDE DEF n
  <2>3. at \in 1 .. n
    BY <1>3, <2>1, <2>2
  <2>4. a[at] \in K
    BY <2>2, <2>3
  <2>5. links = IF a[at].ok THEN a[at].links ELSE <<>>
    BY DEF a
  <2> HIDE DEF links
  <2> QED
    BY <2>4, <2>5 DEF K
<1>5. /\ Tree(kids) /\ kids[Top] # <<>>
      /\ \A r \in DOMAIN skel : Placed(kids, Skeleton(r))
  BY <1>1, <1>2, CastIs
<1>6. attached \in Seq(Obj) /\ ToSet(attached) = DOMAIN skel
  BY <1>1, <1>2 DEF Lined
<1>7. made = Selected(links, {i \in DOMAIN links : LinkTrack(links[i]) # <<>>})
  OBVIOUS
<1> HIDE DEF links, made
<1>8. u \in Seq(TrackType) /\ \A i \in DOMAIN made : ActionTrack(LinkTrack(made[i])[1])
  BY <1>4, <1>5, <1>6, <1>7, LinksTracked
<1>9. \A i \in DOMAIN u : ActionTrack(u[i])
  BY <1>8
<1> HIDE DEF u
<1>10. /\ tracks' \in Seq(TrackType)
       /\ \A i \in DOMAIN tracks' : \/ i \in DOMAIN tracks /\ tracks'[i] = tracks[i]
                                    \/ \E j \in DOMAIN u : tracks'[i] = u[j]
       /\ \A i \in DOMAIN tracks : i \in DOMAIN tracks' /\ tracks'[i] = tracks[i]
  BY <1>2, <1>3, <1>8, TracksPut
<1>11. \A i \in DOMAIN tracks' :
         (i \in DOMAIN tracks /\ tracks'[i] = tracks[i]) \/ ActionTrack(tracks'[i])
  BY <1>9, <1>10
<1>12. LoadTypes'
  <2>1. at' \in Nat \ {0}
    BY <1>2, <1>3
  <2> QED
    BY <1>1, <1>2, <1>10, <2>1 DEF LoadTypes, Dressed
<1>13. Traversed' /\ Lined'
  BY <1>1, <1>2 DEF Traversed, Building, Lined
<1>14. Playing'
  BY <1>1, <1>2, <1>10 DEF Playing, Building
<1>15. Cast'
  <2>1. \A k : Staged(k)' = Staged(k)
    BY <1>2 DEF Staged, First, OneThere, TwoThere
  <2> QED
    BY <1>1, <1>2, <2>1 DEF Cast
<1>16. TracksResolve'
  <2>1. \A i \in DOMAIN tracks' :
          (i \in DOMAIN tracks /\ tracks'[i] = tracks[i]) \/ Leads(tracks'[i])
    BY <1>11 DEF ActionTrack
  <2> QED
    BY <1>1, <1>2, <1>3, <2>1, TracksLead
<1>17. BonesMoveOnSkeletons'
  <2>1. \A i \in DOMAIN tracks : \A r \in DOMAIN skel : \A b \in ToSet(skel[r].bones) :
          tracks[i].player = Player => tracks[i].node # AV(b)
    BY <1>1, <1>2 DEF BonesMoveOnSkeletons
  <2>2. \A i \in DOMAIN tracks' : \A r \in DOMAIN skel : \A b \in ToSet(skel[r].bones) :
          tracks'[i].player = Player => tracks'[i].node # AV(b)
    BY <1>11, <2>1 DEF ActionTrack
  <2> QED
    BY <1>2, <2>2 DEF BonesMoveOnSkeletons
<1>18. MaterialTracksApply'
  <2>1. MaterialsKept
    BY <1>2, <1>3 DEF MaterialsKept, Dressed
  <2>2. \A t : ActionTrack(t) => Suits(t)
    BY DEF ActionTrack, Suits
  <2> QED
    BY <1>1, <1>3, <1>11, <2>1, <2>2, TracksApply
<1> QED
  BY <1>2, <1>12, <1>13, <1>14, <1>15, <1>16, <1>17, <1>18 DEF Loading, Thrown, TracksReach

\* The end of a load, with the second player or without.
LEMMA LoadEnds ==
    ASSUME Loading, EndActions \/ NoKfm
    PROVE  Loading'
<1>1. LoadTypes /\ Playing /\ Cast /\ TracksResolve /\ MaterialTracksApply
  BY DEF Loading, TracksReach
<1>2. /\ phase' = "cleared" /\ skel' = [r \in {} |-> 0] /\ pending' = <<>>
      /\ file' = file /\ kids' = kids /\ mats' = mats /\ tracks' = tracks /\ at' = at
  BY DEF EndActions, NoKfm, Clear
<1>3. \/ phase = "actions" /\ ready' = ready \cup {Player}
      \/ phase = "kfm" /\ ready' = ready
  BY DEF EndActions, NoKfm
<1>4. Player # ScenePlayer
  BY Names
<1>5. LoadTypes'
  BY <1>1, <1>2, <1>3 DEF LoadTypes, Late, Dressed
<1>6. Traversed' /\ Lined' /\ Playing'
  BY <1>1, <1>2, <1>3, <1>4 DEF Traversed, Building, Lined, Playing
<1>7. Cast'
  <2>1. PICK k : Plain(k) /\ kids = Staged(k)
    BY <1>1, <1>3 DEF Cast
  <2>2. Player \notin ready
    BY <1>1, <1>3 DEF Playing
  <2>3. (OneThere' <=> OneThere) /\ (TwoThere' <=> TwoThere)
    BY <1>2, <1>3, <1>4, <2>2 DEF OneThere, TwoThere
  <2>4. Staged(k)' = Staged(k)
    BY <2>3 DEF Staged, First
  <2>5. DOMAIN skel' = {}
    BY <1>2
  <2> QED
    BY <1>2, <2>1, <2>4, <2>5 DEF Cast
<1>8. TracksReach'
  <2>1. TracksResolve'
    BY <1>1, <1>2, TracksLead DEF LoadTypes
  <2> QED
    BY <1>2, <2>1 DEF TracksReach, BonesMoveOnSkeletons
<1>9. MaterialTracksApply'
  BY <1>1, <1>2 DEF MaterialTracksApply, MaterialAt
<1> QED
  BY <1>2, <1>5, <1>6, <1>7, <1>8, <1>9 DEF Loading, Thrown

\* A load that throws keeps what it has built.
LEMMA LoadThrows ==
    ASSUME Loading, ThrowInAnimation
    PROVE  Loading'
<1>1. LoadTypes /\ Playing /\ Cast /\ TracksResolve /\ MaterialTracksApply
  BY DEF Loading, TracksReach
<1>2. /\ phase \in {"controllers", "actions"} /\ phase' = "thrown" /\ file' = file /\ kids' = kids
      /\ pending' = pending /\ mats' = mats /\ tracks' = tracks /\ ready' = ready /\ at' = at
  BY DEF ThrowInAnimation, sceneRest, animVars
<1>3. LoadTypes'
  BY <1>1, <1>2 DEF LoadTypes, Dressed
<1>4. Traversed' /\ Lined' /\ Playing' /\ Cast'
  BY <1>1, <1>2 DEF Traversed, Building, Lined, Playing, Cast
<1>5. TracksReach'
  <2>1. TracksResolve'
    BY <1>1, <1>2, TracksLead DEF LoadTypes
  <2> QED
    BY <1>2, <2>1 DEF TracksReach, BonesMoveOnSkeletons
<1>6. MaterialTracksApply'
  BY <1>1, <1>2 DEF MaterialTracksApply, MaterialAt
<1>7. Thrown'
  <2>1. /\ ToSet(kids[Top]) \cap {ScenePlayer, Player} =
             (IF OneThere THEN {ScenePlayer} ELSE {}) \cup (IF TwoThere THEN {Player} ELSE {})
        /\ ready \subseteq ToSet(kids[Top]) \cap {ScenePlayer, Player}
        /\ ScenePlayer \in ready => \E i \in DOMAIN tracks : tracks[i].player = ScenePlayer
        /\ \A i, j \in DOMAIN kids[Top] :
              kids[Top][i] = ScenePlayer /\ kids[Top][j] = Player => i < j
    BY <1>1, <1>2, PlayersThere
  <2> DEFINE players == ToSet(kids[Top]) \cap {ScenePlayer, Player}
  <2>2. Player # ScenePlayer
    BY Names
  <2>3. players \ ready = IF Player \in players THEN {Player} ELSE players
    <3>1. CASE phase = "controllers"
      <4>1. ready = {}
        BY <1>1, <3>1 DEF Playing
      <4>2. Player \notin players
        BY <2>1, <2>2, <3>1, <4>1 DEF TwoThere
      <4> HIDE DEF players
      <4> QED
        BY <4>1, <4>2
    <3>2. CASE phase = "actions"
      <4>1. Player \notin ready
        BY <1>1, <3>2 DEF Playing
      <4>2. TwoThere /\ (OneThere <=> ScenePlayer \in ready)
        BY <3>2 DEF OneThere, TwoThere
      <4>3. players = (IF ScenePlayer \in ready THEN {ScenePlayer} ELSE {}) \cup {Player}
        BY <2>1, <4>2
      <4> HIDE DEF players
      <4> QED
        BY <2>2, <4>1, <4>3
    <3> QED
      BY <1>2, <3>1, <3>2
  <2>4. "thrown" # "cleared"
    OBVIOUS
  <2> QED
    BY <1>2, <2>1, <2>3, <2>4 DEF Thrown, PlayersComplete
<1> QED
  BY <1>3, <1>4, <1>5, <1>6, <1>7 DEF Loading

LEMMA PlayersAre == Loading => PlayersSafe
<1> SUFFICES ASSUME Loading
             PROVE  PlayersSafe
  OBVIOUS
<1>1. LoadTypes /\ Playing /\ Cast
  BY DEF Loading
<1>2. Bodies \subseteq GNodes /\ Objects \subseteq Bodies
  BY Names DEF Bodies, Objects, Skeletons
<1>3. ATypeOK
  <2>1. ASSUME NEW i \in DOMAIN pending
        PROVE  pending[i].node \in GNodes /\ pending[i].ctrl.type \in Collected
    <3>1. pending[i] \in Waiting
      BY <1>1 DEF LoadTypes
    <3>2. pending[i].node \in Objects /\ pending[i].ctrl.type \in Collected
      BY <3>1 DEF Waiting
    <3> QED
      BY <1>2, <3>2
  <2>2. ASSUME NEW i \in DOMAIN tracks
        PROVE  tracks[i].node \in GNodes /\ tracks[i].path \subseteq GNodes
    <3>1. tracks[i] \in TrackType
      BY <1>1 DEF LoadTypes
    <3>2. tracks[i].node \in Bodies /\ tracks[i].path \in SUBSET GNodes
      BY <3>1 DEF TrackType
    <3> QED
      BY <1>2, <3>2
  <2> QED
    BY <1>1, <2>1, <2>2 DEF ATypeOK, LoadTypes, Building, Late
<1>4. PlayersComplete
  <2>1. CASE phase = "thrown"
    BY <2>1 DEF Loading, Thrown
  <2>2. CASE phase # "thrown"
    <3>1. /\ ToSet(kids[Top]) \cap {ScenePlayer, Player} =
               (IF OneThere THEN {ScenePlayer} ELSE {}) \cup (IF TwoThere THEN {Player} ELSE {})
          /\ ready \subseteq ToSet(kids[Top]) \cap {ScenePlayer, Player}
          /\ ScenePlayer \in ready => \E i \in DOMAIN tracks : tracks[i].player = ScenePlayer
          /\ \A i, j \in DOMAIN kids[Top] :
                kids[Top][i] = ScenePlayer /\ kids[Top][j] = Player => i < j
      BY <1>1, <2>2, PlayersThere
    <3>2. phase = "cleared" => ToSet(kids[Top]) \cap {ScenePlayer, Player} = ready
      <4> SUFFICES ASSUME phase = "cleared"
                   PROVE  ToSet(kids[Top]) \cap {ScenePlayer, Player} = ready
        OBVIOUS
      <4>1. (OneThere <=> ScenePlayer \in ready) /\ (TwoThere <=> Player \in ready)
        BY DEF OneThere, TwoThere
      <4>2. ready \subseteq {ScenePlayer, Player}
        BY <1>1 DEF LoadTypes
      <4> QED
        BY <3>1, <4>1, <4>2
    <3> QED
      BY <2>2, <3>1, <3>2 DEF PlayersComplete
  <2> QED
    BY <2>1, <2>2
<1> QED
  BY <1>3, <1>4 DEF PlayersSafe

LEMMA LoadStep == Loading /\ [ANext]_allVars => Loading'
<1> SUFFICES ASSUME Loading, [ANext]_allVars
             PROVE  Loading'
  OBVIOUS
<1>1. CASE Nodes \/ Shapes \/ Scene
  BY <1>1, TraversalKeeps
<1>2. CASE StartControllers
  BY <1>2, ControllersStart
<1>3. CASE Controller
  BY <1>3, ControllerKeeps
<1>4. CASE EndControllers
  BY <1>4, ControllersEnd
<1>5. CASE StartKfm
  BY <1>5, KfmStarts
<1>6. CASE Action
  BY <1>6, ActionKeeps
<1>7. CASE EndActions \/ NoKfm
  BY <1>7, LoadEnds
<1>8. CASE ThrowInAnimation
  BY <1>8, LoadThrows
<1>9. CASE UNCHANGED allVars
  <2>1. UNCHANGED vars /\ UNCHANGED <<pending, mats, tracks, ready, at>>
    BY <1>9 DEF allVars, animVars
  <2>2. UNCHANGED <<file, phase, kids, skel, attached>>
    BY <2>1 DEF vars
  <2>3. /\ LoadTypes /\ Traversed /\ Lined /\ Playing /\ Cast /\ Thrown
        /\ TracksReach /\ MaterialTracksApply
    BY DEF Loading
  <2>4. LoadTypes' /\ Lined' /\ Playing'
    BY <2>1, <2>2, <2>3 DEF LoadTypes, Dressed, Lined, Playing
  <2>5. Traversed'
    <3> SUFFICES ASSUME phase' \in Building
                 PROVE  Types' /\ Weighed' /\ Calls' /\ Hangs'
      BY DEF Traversed
    <3>1. Types /\ Weighed /\ Calls /\ Hangs /\ [Next]_vars
      BY <2>1, <2>2, <2>3 DEF Traversed
    <3>2. Types' /\ Weighed' /\ Calls'
      BY <3>1, TypesStep, WeighedStep, CallsStep
    <3> QED
      BY <3>1, <3>2, HangsStep, AttachIs
  <2>6. Cast'
    <3>1. \A k : Staged(k)' = Staged(k)
      BY <2>1, <2>2 DEF Staged, First, OneThere, TwoThere
    <3> QED
      BY <2>2, <2>3, <3>1 DEF Cast
  <2>7. TracksReach'
    <3>1. TracksResolve'
      BY <2>1, <2>2, <2>3, TracksLead DEF TracksReach, LoadTypes
    <3>2. BonesMoveOnSkeletons'
      BY <2>1, <2>2, <2>3 DEF TracksReach, BonesMoveOnSkeletons
    <3> QED
      BY <3>1, <3>2 DEF TracksReach
  <2>8. MaterialTracksApply'
    BY <2>1, <2>3 DEF MaterialTracksApply, MaterialAt
  <2>9. Thrown'
    BY <2>1, <2>2, <2>3 DEF Thrown, PlayersComplete
  <2> QED
    BY <2>4, <2>5, <2>6, <2>7, <2>8, <2>9 DEF Loading
<1> QED
  BY <1>1, <1>2, <1>3, <1>4, <1>5, <1>6, <1>7, <1>8, <1>9 DEF ANext

-----------------------------------------------------------------------------
\* The types and the bookkeeping of the skeletons hold throughout.
THEOREM SkeletonsKept == Spec => [](Types /\ Weighed)
<1>1. Init => Types /\ Weighed
  BY TypesInit, WeighedInit
<1>2. Types /\ Weighed /\ [Next]_vars => (Types /\ Weighed)'
  BY TypesStep, WeighedStep
<1> QED
  BY <1>1, <1>2, PTL DEF Spec

\* A skeleton is turned by the rotation correction only when every mesh on it
\* was built with nearly the prefix of the first (nif_geometry.cpp).
THEOREM TurnedSafelyHolds == Spec => []TurnedSafely
<1> QED
  BY SkeletonsKept, TurnedIs, PTL

\* The scene keeps its shape throughout: a tree in which each skeleton hangs on
\* its host's node and what the traversal has met has its one place.
THEOREM SceneKept == Spec => [](Types /\ Weighed /\ Calls /\ Hangs)
<1>1. Init => Types /\ Weighed /\ Calls /\ Hangs
  BY TypesInit, WeighedInit, CallsInit, HangsInit
<1>2. Types /\ Weighed /\ Calls /\ Hangs /\ [Next]_vars => (Types /\ Weighed /\ Calls /\ Hangs)'
  <2> SUFFICES ASSUME Types, Weighed, Calls, Hangs, [Next]_vars
               PROVE  Types' /\ Weighed' /\ Calls' /\ Hangs'
    OBVIOUS
  <2>1. Types' /\ Weighed' /\ Calls'
    BY TypesStep, WeighedStep, CallsStep
  <2>2. Hangs'
    BY HangsStep, AttachIs
  <2> QED
    BY <2>1, <2>2
<1> QED
  BY <1>1, <1>2, PTL DEF Spec

\* Moving skeletons and attaching bones never loses a node and never closes a
\* cycle, in every file (nif_scene_graph.cpp).
THEOREM SceneIsTreeHolds == Spec => []SceneIsTree
<1> QED
  BY SceneKept, TreeIs, PTL

\* In every file a shared skeleton hangs under a node that is over every shape
\* it deforms (process_skinned_geometry of nif_skinning.cpp).
THEOREM SkeletonOverItsShapesHolds == Spec => []SkeletonOverItsShapes
<1> QED
  BY SceneKept, HostsOver, PTL

\* After a skeleton's pass its attachments hang on their bones, or carry the
\* skeleton (reparent_bone_attachments_recursive of nif_scene_graph.cpp).
THEOREM AttachmentsFollowHolds == Spec => AttachmentsFollow
<1>1. Types /\ Weighed /\ Calls /\ Hangs /\ [Next]_vars =>
        [\A r \in ToSet(attached') \ ToSet(attached) : \A c \in Obj : IsAttachment(r, c) =>
            \/ GParents(kids', AV(c)) = {Attachment(r, c)}
            \/ Skeleton(r) \in Under(kids', AV(c))]_vars
  BY FollowsStep
<1> QED
  BY <1>1, SceneKept, PTL DEF Spec, AttachmentsFollow

\* The levels are kept throughout, and the calls stand on the last children.
THEOREM LevelsKept == Spec => [](Types /\ Weighed /\ Calls /\ Hangs /\ Shows)
<1>1. Init => Shows
  BY ShowsInit
<1>2. Types /\ Weighed /\ Calls /\ Hangs /\ Shows /\ [Next]_vars => Shows'
  BY ShowsStep
<1> QED
  BY <1>1, <1>2, SceneKept, PTL DEF Spec

\* Of an LOD or a switch exactly the level it keeps is shown, as long as its
\* children share no skeleton (process_ni_lod_node and process_ni_switch_node of
\* nif_scene_graph.cpp).
THEOREM LevelsHiddenHolds == Spec => []LevelsHidden
<1> QED
  BY LevelsKept, LevelsAre, PTL

\* A skeleton that grows stays a forest of the file's bones and fits the meshes
\* built on it before (build_skeleton and grow_skeleton of nif_skinning.cpp).
THEOREM SkeletonsFitHolds == Spec => []SkeletonsFit
<1> QED
  BY LevelsKept, FitIs, PTL

\* A load keeps its types, its players and its tracks to the end, whichever
\* controllers, materials and actions the file has.
THEOREM LoadKept == ASpec => []Loading
<1> QED
  BY LoadInit, LoadStep, PTL DEF ASpec

\* When a load ends, every player in the scene has its library; when an
\* exception ends it, every player but the one that was being built, which stays
\* without (build_scene_animations and build_animations).
THEOREM PlayersSafeHolds == ASpec => []PlayersSafe
<1> QED
  BY LoadKept, PlayersAre, PTL

\* A track leads to where its node is, and a bone is moved on its skeleton
\* (get_relative_node_path and build_animations).
THEOREM TracksReachHolds == ASpec => []TracksReach
<1>1. Loading => TracksReach
  BY DEF Loading
<1> QED
  BY <1>1, LoadKept, PTL

\* A track drives only materials that have its property, and one that fades
\* drives no material drawn opaque (nif_controllers.cpp).
THEOREM MaterialTracksHolds == ASpec => []MaterialTracksApply
<1>1. Loading => MaterialTracksApply
  BY DEF Loading
<1> QED
  BY <1>1, LoadKept, PTL
====
