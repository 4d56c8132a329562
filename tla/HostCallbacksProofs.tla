------------------------ MODULE HostCallbacksProofs -------------------------
(***************************************************************************)
(* Proofs about HostCallbacks, for any documents, any install, any buffer   *)
(* and any sequence of the DLL's calls: where the cursor can be, that what  *)
(* is counted is what is stepped through, and which file a name loads.      *)
(***************************************************************************)
EXTENDS HostCallbacks, OrderLemmas

-----------------------------------------------------------------------------
(* Nodes and siblings.                                                       *)

\* First is the least of some nodes, and 0 only of none.
LEMMA FirstOf ==
    ASSUME NEW S \in SUBSET (Nat \ {0})
    PROVE  /\ First(S) \in S \cup {0}
           /\ First(S) = 0 <=> S = {}
           /\ \A e \in S : First(S) <= e
<1>1. CASE S = {}
  BY <1>1 DEF First
<1>2. CASE S # {}
  <2>1. S \in SUBSET Nat
    OBVIOUS
  <2>2. \E c \in S : \A e \in S : c <= e
    BY <1>2, <2>1, Least
  <2>3. First(S) \in S /\ \A e \in S : First(S) <= e
    BY <1>2, <2>2 DEF First
  <2> QED  BY <1>2, <2>3
<1> QED  BY <1>1, <1>2

\* Final is the greatest of finitely many nodes, and 0 only of none.
LEMMA FinalOf ==
    ASSUME NEW S \in SUBSET (Nat \ {0}), IsFiniteSet(S)
    PROVE  /\ Final(S) \in S \cup {0}
           /\ Final(S) = 0 <=> S = {}
           /\ \A e \in S : e <= Final(S)
<1>1. CASE S = {}
  BY <1>1 DEF Final
<1>2. CASE S # {}
  <2>1. S \in SUBSET Nat
    OBVIOUS
  <2>2. \E c \in S : \A e \in S : e <= c
    BY <1>2, <2>1, Greatest
  <2>3. Final(S) \in S /\ \A e \in S : e <= Final(S)
    BY <1>2, <2>2 DEF Final
  <2> QED  BY <1>2, <2>3
<1> QED  BY <1>1, <1>2

\* A place of the cursor: the document node or an element.
Place(d, n) == n = 1 \/ (n \in Nodes(d) /\ IsElement(d, n))

\* The children of a node, its elements and those of a tag are finite sets of
\* nodes, and all but the texts among them are places.
LEMMA Siblings ==
    ASSUME NEW d \in Documents, NEW n, NEW t
    PROVE  /\ Children(d, n) \in SUBSET (Nat \ {0}) /\ IsFiniteSet(Children(d, n))
           /\ Elements(d, n) \in SUBSET Children(d, n)
           /\ Tagged(d, n, t) \in SUBSET Children(d, n)
           /\ \A c \in Children(d, n) : c \in Nodes(d) /\ d.up[c] = n
           /\ \A c \in Elements(d, n) : Place(d, c)
           /\ t \in Tags => Tagged(d, n, t) \subseteq Elements(d, n)
<1>1. IsDocument(d) /\ Text \notin Tags
  BY CallbacksAssumption
<1>2. Children(d, n) \in SUBSET Nodes(d) /\ Nodes(d) \in SUBSET (Nat \ {0})
      /\ IsFiniteSet(Nodes(d))
  BY <1>1 DEF IsDocument, Children, Nodes
<1>3. IsFiniteSet(Children(d, n))
  BY <1>2, FS_Subset
<1>4. \A c \in Children(d, n) : c \in Nodes(d) /\ d.up[c] = n
  BY DEF Children
<1>5. Elements(d, n) \in SUBSET Children(d, n) /\ Tagged(d, n, t) \in SUBSET Children(d, n)
  BY DEF Elements, Tagged
<1>6. \A c \in Elements(d, n) : Place(d, c)
  BY <1>2 DEF Elements, Place
<1>7. ASSUME t \in Tags PROVE Tagged(d, n, t) \subseteq Elements(d, n)
  BY <1>1, <1>7 DEF Tagged, Elements, IsElement
<1> QED  BY <1>2, <1>3, <1>4, <1>5, <1>6, <1>7

\* A place that is not the document node lies in one; the root lies there.
LEMMA Upwards ==
    ASSUME NEW d \in Documents, NEW n, Place(d, n)
    PROVE  /\ n \in Nat \ {0} /\ n \in Nodes(d)
           /\ d.up[n] = 0 \/ Place(d, d.up[n])
           /\ FirstElement(d, 1) # 0
<1>1. IsDocument(d)
  BY CallbacksAssumption
<1>2. n \in Nodes(d) /\ n \in Nat \ {0}
  BY <1>1 DEF Place, IsDocument, Nodes
<1>3. d.up[n] = 0 \/ Place(d, d.up[n])
  BY <1>1, <1>2 DEF IsDocument, Place, Nodes, IsElement
<1>5. Elements(d, 1) # {}
  BY <1>1 DEF IsDocument, Elements, Children, Nodes, IsElement
<1>6. Elements(d, 1) \in SUBSET (Nat \ {0})
  <2>1. Elements(d, 1) \in SUBSET Children(d, 1) /\ Children(d, 1) \in SUBSET (Nat \ {0})
    BY Siblings
  <2> QED  BY <2>1
<1>7. FirstElement(d, 1) # 0
  BY <1>5, <1>6, FirstOf DEF FirstElement
<1> QED  BY <1>2, <1>3, <1>7

\* The first and the last of some elements below a node are places below it.
LEMMA OfElements ==
    ASSUME NEW d \in Documents, NEW m, NEW S \in SUBSET Elements(d, m)
    PROVE  /\ First(S) # 0 => Place(d, First(S)) /\ d.up[First(S)] = m
           /\ Final(S) # 0 => Place(d, Final(S)) /\ d.up[Final(S)] = m
<1>1. S \in SUBSET (Nat \ {0}) /\ IsFiniteSet(S)
  <2>1. S \in SUBSET Children(d, m) /\ Children(d, m) \in SUBSET (Nat \ {0})
    BY Siblings
  <2> QED  BY <2>1, Siblings, FS_Subset
<1>2. First(S) \in S \cup {0} /\ Final(S) \in S \cup {0}
  BY <1>1, FirstOf, FinalOf
<1>3. \A c \in S : Place(d, c) /\ d.up[c] = m
  BY Siblings
<1> QED  BY <1>2, <1>3

\* Every step of the cursor that finds a node finds a place, below the node it
\* was meant to be below.
LEMMA Steps ==
    ASSUME NEW d \in Documents, NEW n
    PROVE  /\ FirstElement(d, n) # 0 =>
                  Place(d, FirstElement(d, n)) /\ d.up[FirstElement(d, n)] = n
           /\ NextSibling(d, n) # 0 =>
                  Place(d, NextSibling(d, n)) /\ d.up[NextSibling(d, n)] = d.up[n]
           /\ PrevSibling(d, n) # 0 =>
                  Place(d, PrevSibling(d, n)) /\ d.up[PrevSibling(d, n)] = d.up[n]
<1>1. /\ Elements(d, n) \in SUBSET Elements(d, n)
      /\ {c \in Elements(d, d.up[n]) : n < c} \in SUBSET Elements(d, d.up[n])
      /\ {c \in Elements(d, d.up[n]) : c < n} \in SUBSET Elements(d, d.up[n])
  OBVIOUS
<1>2. FirstElement(d, n) # 0 => Place(d, FirstElement(d, n)) /\ d.up[FirstElement(d, n)] = n
  BY <1>1, OfElements DEF FirstElement
<1>3. NextSibling(d, n) # 0 => Place(d, NextSibling(d, n)) /\ d.up[NextSibling(d, n)] = d.up[n]
  BY <1>1, OfElements DEF NextSibling
<1>4. PrevSibling(d, n) # 0 => Place(d, PrevSibling(d, n)) /\ d.up[PrevSibling(d, n)] = d.up[n]
  BY <1>1, OfElements DEF PrevSibling
<1> QED  BY <1>2, <1>3, <1>4

\* The same of the steps by tag.
LEMMA TagSteps ==
    ASSUME NEW d \in Documents, NEW n, NEW t \in Tags
    PROVE  /\ FirstTagged(d, n, t) # 0 =>
                  Place(d, FirstTagged(d, n, t)) /\ d.up[FirstTagged(d, n, t)] = n
           /\ NextTagged(d, n, t) # 0 =>
                  Place(d, NextTagged(d, n, t)) /\ d.up[NextTagged(d, n, t)] = d.up[n]
<1>1. Tagged(d, n, t) \in SUBSET Elements(d, n)
      /\ Tagged(d, d.up[n], t) \in SUBSET Elements(d, d.up[n])
  BY Siblings
<1>2. {c \in Tagged(d, d.up[n], t) : n < c} \in SUBSET Elements(d, d.up[n])
  BY <1>1
<1>3. FirstTagged(d, n, t) # 0 => Place(d, FirstTagged(d, n, t)) /\ d.up[FirstTagged(d, n, t)] = n
  BY <1>1, OfElements DEF FirstTagged
<1>4. NextTagged(d, n, t) # 0 => Place(d, NextTagged(d, n, t)) /\ d.up[NextTagged(d, n, t)] = d.up[n]
  BY <1>2, OfElements DEF NextTagged
<1> QED  BY <1>3, <1>4

\* The search by a path ends nowhere or at a place.
LEMMA Located ==
    ASSUME NEW d \in Documents, NEW path \in Paths
    PROVE  LocateNode(d, path) # 0 => Place(d, LocateNode(d, path))
<1> DEFINE n == Len(path)
           S == Nat
           g == [i \in 1 .. n |-> [m \in S |-> IF m = 0 THEN 0 ELSE FirstTagged(d, m, path[i])]]
           at == CHOOSE at : at = [i \in 0 .. n |->
                    IF i = 0 THEN 1
                    ELSE IF at[i - 1] = 0 THEN 0 ELSE FirstTagged(d, at[i - 1], path[i])]
<1>1. n \in Nat /\ path \in Seq(Tags) /\ \A i \in 1 .. n : path[i] \in Tags
  BY CallbacksAssumption
<1>2. ASSUME NEW m, NEW t \in Tags PROVE FirstTagged(d, m, t) \in S
  <2>1. Tagged(d, m, t) \in SUBSET (Nat \ {0})
    BY Siblings
  <2> QED  BY <2>1, FirstOf DEF FirstTagged
<1>3. g \in [1 .. n -> [S -> S]]
  BY <1>1, <1>2
<1>4. PICK h \in [0 .. n -> S] : h[0] = 1 /\ \A i \in 1 .. n : h[i] = g[i][h[i - 1]]
  <2>1. 1 \in S /\ n \in Nat
    BY <1>1
  <2> HIDE DEF n, S, g
  <2>2. Runs(n, S, 1, g) # {}
    BY <1>3, <2>1, Iterated
  <2> QED  BY <2>2 DEF Runs
<1>5. h = [i \in 0 .. n |->
              IF i = 0 THEN 1
              ELSE IF h[i - 1] = 0 THEN 0 ELSE FirstTagged(d, h[i - 1], path[i])]
  <2>1. ASSUME NEW i \in 1 .. n
        PROVE  h[i] = IF h[i - 1] = 0 THEN 0 ELSE FirstTagged(d, h[i - 1], path[i])
    <3>1. i - 1 \in 0 .. n /\ h[i - 1] \in S
      BY <1>1, <1>4
    <3>2. h[i] = g[i][h[i - 1]]
      BY <1>4
    <3> QED  BY <3>1, <3>2
  <2>2. \A i \in 0 .. n : i # 0 => i \in 1 .. n
    BY <1>1
  <2>3. \A i \in 0 .. n : h[i] = IF i = 0 THEN 1 ELSE
              IF h[i - 1] = 0 THEN 0 ELSE FirstTagged(d, h[i - 1], path[i])
    BY <1>4, <2>1, <2>2
  <2> HIDE DEF n, S
  <2> QED  BY <1>4, <2>3
<1>6. at = [i \in 0 .. n |->
               IF i = 0 THEN 1
               ELSE IF at[i - 1] = 0 THEN 0 ELSE FirstTagged(d, at[i - 1], path[i])]
  <2> HIDE DEF n, S, g
  <2> QED  BY <1>5
<1> DEFINE P == {i \in 0 .. n : at[i] # 0 => Place(d, at[i])}
<1> HIDE DEF at
<1>7. 0 \in P
  BY <1>1, <1>6 DEF Place
<1>8. ASSUME NEW k \in 0 .. n - 1, k \in P PROVE k + 1 \in P
  <2>1. k + 1 \in 0 .. n /\ k + 1 \in 1 .. n /\ k + 1 # 0 /\ k + 1 - 1 = k /\ path[k + 1] \in Tags
    BY <1>1
  <2>2. at[k + 1] = IF at[k] = 0 THEN 0 ELSE FirstTagged(d, at[k], path[k + 1])
    BY <1>6, <2>1
  <2>3. at[k + 1] # 0 => Place(d, at[k + 1])
    BY <2>1, <2>2, TagSteps
  <2> QED  BY <2>1, <2>3
<1>9. \A i \in 0 .. n : i \in P
  <2> HIDE DEF P, n
  <2> QED  BY <1>1, <1>7, <1>8, UpTo
<1>10. n \in 0 .. n /\ LocateNode(d, path) = at[n]
  BY <1>1 DEF LocateNode, at
<1> QED  BY <1>9, <1>10

-----------------------------------------------------------------------------
(* Files.                                                                    *)

\* The layers by name: what resolve_xml_path tries one after the other.
LEMMA ResolveCases ==
    ASSUME NEW name, modName \in BOOLEAN
    PROVE  Resolve(name) = IF modName /\ Lies("mod", name) THEN "mod"
                           ELSE IF Lies("bts", name) THEN "bts"
                           ELSE IF Lies("warlords", name) THEN "warlords"
                           ELSE IF Lies("base", name) THEN "base" ELSE "bts"
<1> DEFINE hits == {i \in DOMAIN Searched : Lies(Searched[i], name)}
<1>1. Resolve(name) = IF hits = {} THEN "bts" ELSE Searched[First(hits)]
  BY DEF Resolve
<1>2. CASE modName
  <2>1. Searched = <<"mod", "bts", "warlords", "base">> /\ DOMAIN Searched = 1 .. 4
    BY <1>2 DEF Searched, Layers
  <2>2. hits \in SUBSET (Nat \ {0}) /\ \A i \in hits : i \in 1 .. 4
    BY <2>1
  <2>3. /\ 1 \in hits <=> Lies("mod", name)
        /\ 2 \in hits <=> Lies("bts", name)
        /\ 3 \in hits <=> Lies("warlords", name)
        /\ 4 \in hits <=> Lies("base", name)
    BY <2>1
  <2> HIDE DEF hits
  <2>4. /\ First(hits) \in hits \cup {0} /\ (First(hits) = 0 <=> hits = {})
        /\ \A e \in hits : First(hits) <= e
    BY <2>2, FirstOf
  <2>5. CASE Lies("mod", name)
    <3>1. hits # {} /\ First(hits) <= 1 /\ First(hits) \in hits /\ First(hits) \in Nat
      BY <2>2, <2>3, <2>4, <2>5
    <3>2. First(hits) = 1
      BY <2>2, <2>3, <3>1, <2>5
    <3> QED  BY <1>1, <1>2, <2>1, <2>5, <3>1, <3>2
  <2>6. CASE ~Lies("mod", name) /\ Lies("bts", name)
    <3>1. hits # {} /\ First(hits) <= 2 /\ First(hits) \in hits /\ First(hits) \in Nat
      BY <2>2, <2>3, <2>4, <2>6
    <3>2. First(hits) = 2
      BY <2>2, <2>3, <3>1, <2>6
    <3> QED  BY <1>1, <1>2, <2>1, <2>6, <3>1, <3>2
  <2>7. CASE ~Lies("mod", name) /\ ~Lies("bts", name) /\ Lies("warlords", name)
    <3>1. hits # {} /\ First(hits) <= 3 /\ First(hits) \in hits /\ First(hits) \in Nat
      BY <2>2, <2>3, <2>4, <2>7
    <3>2. First(hits) = 3
      BY <2>2, <2>3, <3>1, <2>7
    <3> QED  BY <1>1, <1>2, <2>1, <2>7, <3>1, <3>2
  <2>8. CASE ~Lies("mod", name) /\ ~Lies("bts", name) /\ ~Lies("warlords", name) /\ Lies("base", name)
    <3>1. hits # {} /\ First(hits) <= 4 /\ First(hits) \in hits /\ First(hits) \in Nat
      BY <2>2, <2>3, <2>4, <2>8
    <3>2. First(hits) = 4
      BY <2>2, <2>3, <3>1, <2>8
    <3> QED  BY <1>1, <1>2, <2>1, <2>8, <3>1, <3>2
  <2>9. CASE ~Lies("mod", name) /\ ~Lies("bts", name) /\ ~Lies("warlords", name) /\ ~Lies("base", name)
    <3>1. hits = {}
      BY <2>2, <2>3, <2>9
    <3> QED  BY <1>1, <2>9, <3>1
  <2> QED  BY <2>5, <2>6, <2>7, <2>8, <2>9
<1>3. CASE ~modName
  <2>1. Searched = <<"bts", "warlords", "base">> /\ DOMAIN Searched = 1 .. 3
    BY <1>3 DEF Searched, Layers
  <2>2. hits \in SUBSET (Nat \ {0}) /\ \A i \in hits : i \in 1 .. 3
    BY <2>1
  <2>3. /\ 1 \in hits <=> Lies("bts", name)
        /\ 2 \in hits <=> Lies("warlords", name)
        /\ 3 \in hits <=> Lies("base", name)
    BY <2>1
  <2> HIDE DEF hits
  <2>4. /\ First(hits) \in hits \cup {0} /\ (First(hits) = 0 <=> hits = {})
        /\ \A e \in hits : First(hits) <= e
    BY <2>2, FirstOf
  <2>6. CASE Lies("bts", name)
    <3>1. hits # {} /\ First(hits) <= 1 /\ First(hits) \in hits /\ First(hits) \in Nat
      BY <2>2, <2>3, <2>4, <2>6
    <3>2. First(hits) = 1
      BY <2>2, <2>3, <3>1, <2>6
    <3> QED  BY <1>1, <1>3, <2>1, <2>6, <3>1, <3>2
  <2>7. CASE ~Lies("bts", name) /\ Lies("warlords", name)
    <3>1. hits # {} /\ First(hits) <= 2 /\ First(hits) \in hits /\ First(hits) \in Nat
      BY <2>2, <2>3, <2>4, <2>7
    <3>2. First(hits) = 2
      BY <2>2, <2>3, <3>1, <2>7
    <3> QED  BY <1>1, <1>3, <2>1, <2>7, <3>1, <3>2
  <2>8. CASE ~Lies("bts", name) /\ ~Lies("warlords", name) /\ Lies("base", name)
    <3>1. hits # {} /\ First(hits) <= 3 /\ First(hits) \in hits /\ First(hits) \in Nat
      BY <2>2, <2>3, <2>4, <2>8
    <3>2. First(hits) = 3
      BY <2>2, <2>3, <3>1, <2>8
    <3> QED  BY <1>1, <1>3, <2>1, <2>8, <3>1, <3>2
  <2>9. CASE ~Lies("bts", name) /\ ~Lies("warlords", name) /\ ~Lies("base", name)
    <3>1. hits = {}
      BY <2>2, <2>3, <2>9
    <3> QED  BY <1>1, <1>3, <2>9, <3>1
  <2> QED  BY <2>6, <2>7, <2>8, <2>9
<1> QED  BY <1>2, <1>3

\* No layer that is searched before the one found has the name.
LEMMA ResolvesFromTop ==
    ASSUME NEW name, modName \in BOOLEAN, NEW j \in DOMAIN Layers, NEW k \in DOMAIN Layers,
           Layers[k] = Resolve(name), j < k, Layers[j] = "mod" => modName
    PROVE  ~Lies(Layers[j], name)
<1>1. /\ DOMAIN Layers = 1 .. 4 /\ Layers[1] = "mod" /\ Layers[2] = "bts"
      /\ Layers[3] = "warlords" /\ Layers[4] = "base"
  BY DEF Layers
<1>2. j \in {1, 2, 3, 4} /\ k \in {1, 2, 3, 4}
  BY <1>1
<1>3. CASE j = 1
  <2>1. modName /\ Layers[k] # "mod"
    BY <1>1, <1>2, <1>3
  <2> QED  BY <1>1, <1>3, <2>1, ResolveCases
<1>4. CASE j = 2
  <2>1. Layers[k] \notin {"mod", "bts"}
    BY <1>1, <1>2, <1>4
  <2> QED  BY <1>1, <1>4, <2>1, ResolveCases
<1>5. CASE j = 3
  <2>1. Layers[k] = "base"
    BY <1>1, <1>2, <1>5
  <2>2. Resolve(name) = "base" /\ "mod" # "base" /\ "bts" # "base"
    BY <2>1
  <2>3. CASE Lies("warlords", name)
    BY <2>2, <2>3, ResolveCases
  <2> QED  BY <1>1, <1>5, <2>3
<1>6. j # 4
  BY <1>2
<1> QED  BY <1>2, <1>3, <1>4, <1>5, <1>6

\* What is found is a layer; what a layer listed has is found somewhere.
LEMMA Resolves ==
    ASSUME NEW name, modName \in BOOLEAN
    PROVE  /\ Resolve(name) \in Dirs
           /\ modName /\ Lies("mod", name) => Resolve(name) = "mod"
           /\ (modName /\ Lies("mod", name)) \/ Lies("bts", name) => Lies(Resolve(name), name)
<1>1. DOMAIN Layers = 1 .. 4 /\ {"mod", "bts", "warlords", "base"} \subseteq Dirs
  <2>1. /\ DOMAIN Layers = 1 .. 4 /\ Layers[1] = "mod" /\ Layers[2] = "bts"
        /\ Layers[3] = "warlords" /\ Layers[4] = "base"
    BY DEF Layers
  <2>2. 1 \in 1 .. 4 /\ 2 \in 1 .. 4 /\ 3 \in 1 .. 4 /\ 4 \in 1 .. 4
    OBVIOUS
  <2> QED  BY <2>1, <2>2 DEF Dirs
<1> QED  BY <1>1, ResolveCases

\* The answers do not change while the install does not.
LEMMA SameFiles ==
    ASSUME install' = install, modName' = modName
    PROVE  /\ \A l, n : Lies(l, n)' <=> Lies(l, n)
           /\ \A n : Resolve(n)' = Resolve(n)
           /\ \A p : Found(p)' = Found(p)
<1>1. \A l, n : Lies(l, n)' <=> Lies(l, n)
  BY DEF Lies
<1>2. Searched' = Searched
  BY DEF Searched
<1>3. \A n : Resolve(n)' = Resolve(n)
  BY <1>2 DEF Resolve, Lies
<1> QED  BY <1>1, <1>3 DEF Found

\* A listing of a layer is a sequence of names that lie in it.
LEMMA ListingOf ==
    ASSUME NEW l, NEW s \in In(l)
    PROVE  s \in Seq(Names) /\ \A i \in DOMAIN s : Lies(l, s[i])
<1> DEFINE names == {n \in Listed : Lies(l, n)}
<1>1. names \subseteq Names /\ IsFiniteSet(names) /\ \A n \in names : Lies(l, n)
  <2>1. Listed \subseteq Names /\ IsFiniteSet(Listed)
    BY CallbacksAssumption
  <2>2. names \in SUBSET Listed
    OBVIOUS
  <2> QED  BY <2>1, <2>2, FS_Subset
<1>2. s \in [1 .. Cardinality(names) -> names]
  BY DEF In
<1>3. Cardinality(names) \in Nat
  <2> HIDE DEF names
  <2> QED  BY <1>1, FS_CardinalityType
<1> HIDE DEF names
<1>4. s \in [1 .. Cardinality(names) -> Names] /\ DOMAIN s = 1 .. Cardinality(names)
      /\ \A i \in 1 .. Cardinality(names) : s[i] \in names
  BY <1>1, <1>2
<1>5. s \in Seq(Names)
  BY <1>3, <1>4
<1> QED  BY <1>1, <1>4, <1>5

\* What an enumeration returns: names that lie where they are taken from.
LEMMA Listings ==
    ASSUME modName \in BOOLEAN, NEW s \in Files \cup ModuleFiles
    PROVE  /\ s \in Seq([layer : Dirs \cup {"any"}, name : Names])
           /\ \A i \in DOMAIN s : Lies(Found(s[i]), s[i].name)
           /\ \A i \in DOMAIN s : modName /\ Lies("mod", s[i].name) => Found(s[i]) = "mod"
<1>1. ASSUME NEW l \in Dirs \cup {"any"}, NEW names \in Seq(Names), s = AsPaths(l, names)
      PROVE  /\ s \in Seq([layer : Dirs \cup {"any"}, name : Names])
             /\ DOMAIN s = DOMAIN names
             /\ \A i \in DOMAIN s : s[i].layer = l /\ s[i].name = names[i]
  <2> DEFINE Path == [layer : Dirs \cup {"any"}, name : Names]
  <2>1. s = [i \in DOMAIN names |-> [layer |-> l, name |-> names[i]]]
    BY <1>1 DEF AsPaths
  <2>2. Len(names) \in Nat /\ DOMAIN names = 1 .. Len(names)
        /\ \A i \in 1 .. Len(names) : [layer |-> l, name |-> names[i]] \in Path
    OBVIOUS
  <2>3. s \in [1 .. Len(names) -> Path]
    BY <2>1, <2>2
  <2>4. s \in Seq(Path)
    <3> HIDE DEF Path
    <3> QED  BY <2>2, <2>3
  <2> QED  BY <2>1, <2>2, <2>4
<1>2. CASE s \in Files
  <2>1. PICK m \in (IF modName THEN In("mod") ELSE {<<>>}), b \in In("bts") :
            s = AsPaths("any", m \o b)
    BY <1>2 DEF Files
  <2>2. b \in Seq(Names) /\ \A i \in DOMAIN b : Lies("bts", b[i])
    BY ListingOf
  <2>3. m \in Seq(Names) /\ \A i \in DOMAIN m : modName /\ Lies("mod", m[i])
    <3>1. CASE modName
      BY <2>1, <3>1, ListingOf
    <3>2. CASE ~modName
      BY <2>1, <3>2
    <3> QED  BY <3>1, <3>2
  <2>4. m \o b \in Seq(Names)
    BY <2>2, <2>3
  <2>5. ASSUME NEW i \in DOMAIN (m \o b)
        PROVE  (modName /\ Lies("mod", (m \o b)[i])) \/ Lies("bts", (m \o b)[i])
    <3>1. i \in Nat /\ 1 <= i /\ i <= Len(m) + Len(b)
      BY <2>2, <2>3
    <3>2. CASE i <= Len(m)
      <4>1. i \in DOMAIN m /\ (m \o b)[i] = m[i]
        BY <2>2, <2>3, <3>1, <3>2
      <4> QED  BY <2>3, <4>1
    <3>3. CASE ~(i <= Len(m))
      <4>1. i - Len(m) \in DOMAIN b /\ (m \o b)[i] = b[i - Len(m)]
        BY <2>2, <2>3, <3>1, <3>3
      <4> QED  BY <2>2, <4>1
    <3> QED  BY <3>2, <3>3
  <2>6. /\ s \in Seq([layer : Dirs \cup {"any"}, name : Names])
        /\ DOMAIN s = DOMAIN (m \o b)
        /\ \A i \in DOMAIN s : s[i].layer = "any" /\ s[i].name = (m \o b)[i]
    BY <1>1, <2>1, <2>4
  <2> QED  BY <2>5, <2>6, Resolves DEF Found
<1>3. CASE s \in ModuleFiles
  <2> DEFINE l == IF modName THEN "mod" ELSE "bts"
  <2>1. PICK names \in In(l) : s = AsPaths(l, names)
    BY <1>3 DEF ModuleFiles
  <2>2. names \in Seq(Names) /\ \A i \in DOMAIN names : Lies(l, names[i])
    BY ListingOf
  <2>3. l \in Dirs /\ l # "any"
    <3>1. Layers[1] = "mod" /\ Layers[2] = "bts" /\ 1 \in DOMAIN Layers /\ 2 \in DOMAIN Layers
      BY DEF Layers
    <3> QED  BY <3>1 DEF Dirs
  <2>4. /\ s \in Seq([layer : Dirs \cup {"any"}, name : Names])
        /\ DOMAIN s = DOMAIN names
        /\ \A i \in DOMAIN s : s[i].layer = l /\ s[i].name = names[i]
    <3> HIDE DEF l
    <3>1. l \in Dirs \cup {"any"} /\ names \in Seq(Names)
      BY <2>2, <2>3
    <3> QED  BY <1>1, <2>1, <3>1
  <2>5. \A i \in DOMAIN s : Found(s[i]) = l
    BY <2>3, <2>4 DEF Found
  <2>6. modName => l = "mod"
    OBVIOUS
  <2> HIDE DEF l
  <2>7. \A i \in DOMAIN s : Lies(Found(s[i]), s[i].name)
    BY <2>2, <2>4, <2>5
  <2> QED  BY <2>4, <2>5, <2>6, <2>7
<1> QED  BY <1>2, <1>3

-----------------------------------------------------------------------------
(* The invariant.                                                            *)

Path == [layer : Dirs \cup {"any"}, name : Names]

\* The types of the variables.
Typed ==
    /\ install \in Installs /\ modName \in BOOLEAN
    /\ live \in BOOLEAN /\ loaded \in BOOLEAN
    /\ doc \in Documents \cup {Absent}
    /\ cursor \in [doc : Documents \cup {Absent}, node : Nat]
    /\ list \in Seq(Path)
    /\ answer \in -1 .. (Buffer - 1)
    /\ trail \in Seq(Nat)
    /\ loads \in Seq([path : Path, layer : Dirs, ok : BOOLEAN])

\* A cursor that was ever set is at a place of its document.
CursorPlaced == cursor # NoNode => cursor.doc \in Documents /\ Place(cursor.doc, here)

\* The cursor's part and the files' part do not depend on each other.
CursorInv == CursorPlaced /\ CursorInDocument /\ TrailAbove
FilesInv == LoadsFromTop /\ ListedFilesLie
IInv == Typed /\ CursorInv /\ FilesInv

\* Initially nothing exists.
LEMMA InitHolds == Init => IInv
<1> SUFFICES ASSUME Init PROVE IInv
  OBVIOUS
<1>1. Typed
  <2>1. -1 \in -1 .. (Buffer - 1)
    BY CallbacksAssumption
  <2>2. /\ live \in BOOLEAN /\ loaded \in BOOLEAN /\ install \in Installs /\ modName \in BOOLEAN
        /\ doc \in Documents \cup {Absent} /\ answer = -1
    BY DEF Init
  <2>3. list \in Seq(Path) /\ trail \in Seq(Nat)
        /\ loads \in Seq([path : Path, layer : Dirs, ok : BOOLEAN])
    BY DEF Init
  <2>4. cursor \in [doc : Documents \cup {Absent}, node : Nat]
    BY DEF Init, NoNode
  <2> QED  BY <2>1, <2>2, <2>3, <2>4 DEF Typed
<1>2. CursorInv
  BY DEF Init, CursorInv, CursorPlaced, CursorInDocument, TrailAbove, NoNode
<1>3. FilesInv
  BY DEF Init, FilesInv, LoadsFromTop, ListedFilesLie
<1> QED  BY <1>1, <1>2, <1>3 DEF IInv

\* Loads and listings stay right while neither they nor the install change.
LEMMA FilesKept ==
    ASSUME Typed, FilesInv, UNCHANGED files
    PROVE  FilesInv'
<1>1. install' = install /\ modName' = modName /\ list' = list /\ loads' = loads
  BY DEF files
<1>2. LoadsFromTop'
  BY <1>1, SameFiles DEF FilesInv, LoadsFromTop
<1>3. ListedFilesLie'
  BY <1>1, SameFiles DEF FilesInv, ListedFilesLie
<1> QED  BY <1>2, <1>3 DEF FilesInv

\* While loaded says so, the cursor is at a place of the document held.
LEMMA Here ==
    ASSUME IInv, loaded
    PROVE  /\ live /\ doc \in Documents /\ cursor.doc = doc
           /\ Place(doc, here) /\ here \in Nat \ {0} /\ here \in Nodes(doc)
<1>1. live /\ doc # Absent /\ cursor.doc = doc
  BY DEF IInv, CursorInv, CursorInDocument
<1>2. doc \in Documents
  BY <1>1 DEF IInv, Typed
<1>3. cursor # NoNode
  BY <1>1 DEF NoNode
<1>4. Place(doc, here)
  BY <1>1, <1>3 DEF IInv, CursorInv, CursorPlaced
<1> QED  BY <1>1, <1>2, <1>4, Upwards

\* The trail leads upwards from a node.
Leads(d, n, way) ==
    way # <<>> => /\ d.up[n] = Head(way)
                  /\ \A i \in 1 .. Len(way) - 1 : d.up[way[i]] = way[i + 1]

\* A call that moves the cursor keeps everything, if it moves it to a place
\* from which the new trail leads up.
LEMMA Moved ==
    ASSUME IInv, NEW n, NEW way \in Seq(Nat), MoveTo(n, way),
           Place(doc, n), Leads(doc, n, way)
    PROVE  IInv'
<1>1. loaded /\ live /\ doc \in Documents /\ cursor.doc = doc /\ n \in Nat
  <2>1. loaded
    BY DEF MoveTo
  <2> QED  BY <2>1, Here, Upwards
<1>2. /\ cursor' = [cursor EXCEPT !.node = n] /\ trail' = way /\ answer' = -1
      /\ live' = live /\ loaded' = loaded /\ doc' = doc /\ UNCHANGED files
  BY DEF MoveTo
<1>3. cursor \in [doc : Documents \cup {Absent}, node : Nat]
  BY DEF IInv, Typed
<1>4. cursor' \in [doc : Documents \cup {Absent}, node : Nat]
      /\ cursor'.doc = doc /\ cursor'.node = n
  BY <1>1, <1>2, <1>3
<1>5. Typed'
  <2>1. -1 \in -1 .. (Buffer - 1)
    BY CallbacksAssumption
  <2> QED  BY <1>2, <1>4, <2>1 DEF IInv, Typed, files
<1>6. CursorInv'
  <2>1. here' = n
    BY <1>4 DEF here
  <2>2. CursorPlaced'
    BY <1>1, <1>4, <2>1 DEF CursorPlaced, Place, Nodes, IsElement
  <2>3. CursorInDocument'
    BY <1>1, <1>2, <1>4 DEF CursorInDocument, IInv, CursorInv
  <2>4. TrailAbove'
    BY <1>2, <1>4, <2>1 DEF TrailAbove, Leads
  <2> QED  BY <2>2, <2>3, <2>4 DEF CursorInv
<1>7. FilesInv'
  BY <1>2, FilesKept DEF IInv
<1> QED  BY <1>5, <1>6, <1>7 DEF IInv

\* The FXml comes and goes with nothing in it.
LEMMA CreateStep == IInv /\ (CreateFXml \/ DestroyFXml) => IInv'
<1> SUFFICES ASSUME IInv, CreateFXml \/ DestroyFXml PROVE IInv'
  OBVIOUS
<1>1. /\ live' \in BOOLEAN /\ loaded' = FALSE /\ doc' = Absent /\ cursor' = NoNode
      /\ trail' = <<>> /\ answer' = -1 /\ UNCHANGED files
  BY DEF CreateFXml, DestroyFXml
<1>2. Typed'
  <2>1. -1 \in -1 .. (Buffer - 1)
    BY CallbacksAssumption
  <2>2. /\ live' \in BOOLEAN /\ loaded' \in BOOLEAN /\ install' \in Installs /\ modName' \in BOOLEAN
        /\ doc' \in Documents \cup {Absent} /\ answer' = -1
    BY <1>1 DEF IInv, Typed, files
  <2>3. list' \in Seq(Path) /\ trail' \in Seq(Nat)
        /\ loads' \in Seq([path : Path, layer : Dirs, ok : BOOLEAN])
    BY <1>1 DEF IInv, Typed, files
  <2>4. cursor' \in [doc : Documents \cup {Absent}, node : Nat]
    BY <1>1 DEF NoNode
  <2> QED  BY <2>1, <2>2, <2>3, <2>4 DEF Typed
<1>3. CursorInv'
  BY <1>1 DEF CursorInv, CursorPlaced, CursorInDocument, TrailAbove, NoNode
<1>4. FilesInv'
  BY <1>1, FilesKept DEF IInv
<1> QED  BY <1>2, <1>3, <1>4 DEF IInv

\* An enumeration changes the list only.
LEMMA EnumerateStep == IInv /\ Enumerate => IInv'
<1> SUFFICES ASSUME IInv, Enumerate PROVE IInv'
  OBVIOUS
<1>1. /\ install' = install /\ modName' = modName /\ live' = live /\ loaded' = loaded
      /\ doc' = doc /\ cursor' = cursor /\ answer' = answer /\ trail' = trail /\ loads' = loads
      /\ list' \in Files \cup ModuleFiles /\ modName \in BOOLEAN
  BY DEF Enumerate, IInv, Typed
<1>2. /\ list' \in Seq(Path)
      /\ \A i \in DOMAIN list' : Lies(Found(list'[i]), list'[i].name)
      /\ \A i \in DOMAIN list' : modName /\ Lies("mod", list'[i].name) => Found(list'[i]) = "mod"
  BY <1>1, Listings DEF Path
<1>3. Typed'
  BY <1>1, <1>2 DEF IInv, Typed
<1>4. CursorInv'
  BY <1>1 DEF IInv, CursorInv, CursorPlaced, CursorInDocument, TrailAbove, here
<1>5. FilesInv'
  <2>1. LoadsFromTop'
    BY <1>1, SameFiles DEF IInv, FilesInv, LoadsFromTop
  <2>2. ListedFilesLie'
    BY <1>1, <1>2, SameFiles DEF ListedFilesLie
  <2> QED  BY <2>1, <2>2 DEF FilesInv
<1> QED  BY <1>3, <1>4, <1>5 DEF IInv

\* A load leaves a document with its root under the cursor, or loaded false.
LEMMA LoadStep ==
    ASSUME IInv, NEW p \in AllPaths, LoadXml(p)
    PROVE  IInv'
<1> DEFINE content == install[Found(p)][p.name]
           ok == content \notin {Absent, Malformed}
           load == [path |-> p, layer |-> Found(p), ok |-> ok]
<1>1. /\ install' = install /\ modName' = modName /\ live' = live /\ list' = list
      /\ live = TRUE /\ doc' = (IF ok THEN content ELSE Absent) /\ loaded' = ok
      /\ cursor' = (IF ok THEN [doc |-> content, node |-> FirstElement(content, 1)] ELSE cursor)
      /\ loads' = Append(loads, load) /\ trail' = <<>> /\ answer' = -1
  BY DEF LoadXml, IInv, Typed
<1>2. p \in Path
  <2>1. CASE p \in [layer : {"any"}, name : Names]
    BY <2>1 DEF Path
  <2>2. CASE p \in {list[i] : i \in DOMAIN list}
    BY <2>2 DEF IInv, Typed
  <2> QED  BY <2>1, <2>2 DEF AllPaths
<1>3. p.name \in Names /\ Found(p) \in Dirs
      /\ (p.layer = "any" => Found(p) = Resolve(p.name))
  <2>1. modName \in BOOLEAN
    BY DEF IInv, Typed
  <2> QED  BY <1>2, <2>1, Resolves DEF Path, Found
<1>4. content \in Documents \cup {Malformed, Absent}
  <2>1. install \in [Dirs -> [Names -> Documents \cup {Malformed, Absent}]]
    BY CallbacksAssumption DEF IInv, Typed
  <2> QED  BY <1>3, <2>1
<1> HIDE DEF content
<1>5. ok \in BOOLEAN /\ load \in [path : Path, layer : Dirs, ok : BOOLEAN]
  BY <1>2, <1>3
<1>6. ASSUME ok PROVE Typed' /\ CursorInv'
  <2>1. content \in Documents /\ content # Absent
    BY <1>4, <1>6
  <2>2. Place(content, FirstElement(content, 1)) /\ FirstElement(content, 1) \in Nat
    <3>1. Place(content, 1)
      BY DEF Place
    <3>2. FirstElement(content, 1) # 0
      BY <2>1, <3>1, Upwards
    <3> QED  BY <2>1, <3>2, Steps, Upwards
  <2>3. Typed'
    <3>1. -1 \in -1 .. (Buffer - 1)
      BY CallbacksAssumption
    <3> QED  BY <1>1, <1>5, <1>6, <2>1, <2>2, <3>1 DEF IInv, Typed
  <2>4. CursorInv'
    BY <1>1, <1>6, <2>1, <2>2 DEF CursorInv, CursorPlaced, CursorInDocument, TrailAbove, here
  <2> QED  BY <2>3, <2>4
<1>7. ASSUME ~ok PROVE Typed' /\ CursorInv'
  <2>1. Typed'
    <3>1. -1 \in -1 .. (Buffer - 1)
      BY CallbacksAssumption
    <3> QED  BY <1>1, <1>5, <1>7, <3>1 DEF IInv, Typed
  <2>2. CursorInv'
    <3>1. cursor' = cursor /\ doc' = Absent /\ trail' = <<>> /\ loaded' = FALSE
      BY <1>1, <1>7
    <3> QED  BY <3>1 DEF IInv, CursorInv, CursorPlaced, CursorInDocument, TrailAbove, here
  <2> QED  BY <2>1, <2>2
<1>8. LoadsFromTop'
  <2> SUFFICES ASSUME NEW i \in DOMAIN loads', loads'[i].path.layer = "any",
                      NEW j \in DOMAIN Layers, NEW k \in DOMAIN Layers,
                      Layers[k] = loads'[i].layer, j < k, Layers[j] = "mod" => modName
               PROVE  ~Lies(Layers[j], loads'[i].path.name)
    BY <1>1, SameFiles DEF LoadsFromTop
  <2>1. loads \in Seq([path : Path, layer : Dirs, ok : BOOLEAN]) /\ modName \in BOOLEAN
    BY DEF IInv, Typed
  <2>2. CASE i \in DOMAIN loads
    <3>1. loads'[i] = loads[i]
      BY <1>1, <2>1, <2>2
    <3> QED  BY <2>2, <3>1 DEF IInv, FilesInv, LoadsFromTop
  <2>3. CASE i \notin DOMAIN loads
    <3>1. loads'[i] = load
      BY <1>1, <2>1, <2>3
    <3>2. Layers[k] = Resolve(p.name) /\ loads'[i].path.name = p.name
      BY <1>3, <3>1
    <3> QED  BY <2>1, <3>2, ResolvesFromTop
  <2> QED  BY <2>2, <2>3
<1>9. ListedFilesLie'
  BY <1>1, SameFiles DEF IInv, FilesInv, ListedFilesLie
<1> QED  BY <1>6, <1>7, <1>8, <1>9 DEF IInv, FilesInv

\* LocateNode forgets the way down and starts from the top.
LEMMA LocateStep ==
    ASSUME IInv, NEW p \in Paths, Locate(p)
    PROVE  IInv'
<1> DEFINE n == LocateNode(doc, p)
<1>1. MoveTo(n, <<>>) /\ n # 0 /\ loaded
  BY DEF Locate, MoveTo
<1>2. Place(doc, n)
  BY <1>1, Here, Located
<1>3. <<>> \in Seq(Nat) /\ Leads(doc, n, <<>>)
  BY DEF Leads
<1> HIDE DEF n
<1> QED  BY <1>1, <1>2, <1>3, Moved

\* A step down lengthens the way up by the node it came from.
LEMMA DownStep ==
    ASSUME IInv, NEW n, loaded, Place(doc, n), doc.up[n] = here, MoveTo(n, Deeper)
    PROVE  IInv'
<1>1. trail \in Seq(Nat) /\ here \in Nat /\ cursor.doc = doc /\ Leads(doc, here, trail)
  <2>1. trail \in Seq(Nat) /\ TrailAbove
    BY DEF IInv, Typed, CursorInv
  <2> QED  BY <2>1, Here DEF TrailAbove, Leads
<1>2. Deeper \in Seq(Nat) /\ Len(Deeper) = Len(trail) + 1 /\ Deeper[1] = here
      /\ \A i \in 1 .. Len(trail) : Deeper[i + 1] = trail[i]
  BY <1>1 DEF Deeper
<1>3. ASSUME NEW i \in 1 .. Len(Deeper) - 1 PROVE doc.up[Deeper[i]] = Deeper[i + 1]
  <2>1. Len(trail) \in Nat /\ i \in 1 .. Len(trail) /\ Deeper[i + 1] = trail[i]
    BY <1>1, <1>2
  <2>2. trail # <<>> /\ Head(trail) = trail[1]
    BY <1>1, <2>1
  <2>3. CASE i = 1
    BY <1>1, <1>2, <2>1, <2>2, <2>3 DEF Leads
  <2>4. CASE i # 1
    <3>1. i - 1 \in 1 .. Len(trail) - 1 /\ i - 1 + 1 = i /\ i - 1 \in 1 .. Len(trail)
      BY <2>1, <2>4
    <3>2. Deeper[i] = trail[i - 1]
      BY <1>2, <3>1
    <3> QED  BY <1>1, <2>1, <2>2, <3>1, <3>2 DEF Leads
  <2> QED  BY <2>3, <2>4
<1>4. Leads(doc, n, Deeper)
  <2>1. Head(Deeper) = here
    BY <1>1, <1>2
  <2> QED  BY <1>3, <2>1 DEF Leads
<1> QED  BY <1>2, <1>4, Moved

\* To the first child element, or the first of a tag.
LEMMA ChildStep ==
    ASSUME IInv, SetToChild \/ \E t \in Tags : SetToChildByTag(t)
    PROVE  IInv'
<1>1. ASSUME SetToChild PROVE IInv'
  <2> DEFINE n == FirstElement(doc, here)
  <2>1. loaded
    BY <1>1 DEF SetToChild, MoveTo
  <2>2. doc \in Documents /\ cursor.doc = doc
    BY <2>1, Here
  <2>3. MoveTo(n, Deeper) /\ n # 0
    BY <1>1, <2>2 DEF SetToChild, MoveTo
  <2>4. Place(doc, n) /\ doc.up[n] = here
    BY <2>2, <2>3, Steps
  <2> HIDE DEF n
  <2> QED  BY <2>1, <2>3, <2>4, DownStep
<1>2. ASSUME NEW t \in Tags, SetToChildByTag(t) PROVE IInv'
  <2> DEFINE n == FirstTagged(doc, here, t)
  <2>1. loaded
    BY <1>2 DEF SetToChildByTag, MoveTo
  <2>2. doc \in Documents /\ cursor.doc = doc
    BY <2>1, Here
  <2>3. MoveTo(n, Deeper) /\ n # 0
    BY <1>2, <2>2 DEF SetToChildByTag, MoveTo
  <2>4. Place(doc, n) /\ doc.up[n] = here
    BY <2>2, <2>3, TagSteps
  <2> HIDE DEF n
  <2> QED  BY <2>1, <2>3, <2>4, DownStep
<1> QED  BY <1>1, <1>2

\* A step up goes where the trail says, and shortens it.
LEMMA ParentStep == IInv /\ SetToParent => IInv'
<1> SUFFICES ASSUME IInv, SetToParent PROVE IInv'
  OBVIOUS
<1> DEFINE n == doc.up[here]
           way == IF trail = <<>> THEN trail ELSE Tail(trail)
<1>1. loaded
  BY DEF SetToParent, MoveTo
<1>2. doc \in Documents /\ cursor.doc = doc /\ Place(doc, here)
  BY <1>1, Here
<1>3. MoveTo(n, way) /\ n # 0
  BY <1>2 DEF SetToParent, MoveTo
<1>4. Place(doc, n)
  BY <1>2, <1>3, Upwards
<1>5. trail \in Seq(Nat) /\ Leads(doc, here, trail)
  <2>1. trail \in Seq(Nat) /\ TrailAbove
    BY DEF IInv, Typed, CursorInv
  <2> QED  BY <1>2, <2>1 DEF TrailAbove, Leads
<1>6. way \in Seq(Nat)
  BY <1>5
<1>7. Leads(doc, n, way)
  <2>1. CASE Len(trail) <= 1
    <3>1. way = <<>>
      BY <1>5, <2>1
    <3> QED  BY <3>1 DEF Leads
  <2>2. CASE ~(Len(trail) <= 1)
    <3>1. /\ trail # <<>> /\ way = Tail(trail) /\ Len(way) = Len(trail) - 1
          /\ Len(trail) \in Nat /\ Head(way) = trail[2] /\ Head(trail) = trail[1]
          /\ \A i \in 1 .. Len(way) : way[i] = trail[i + 1]
      BY <1>5, <2>2
    <3>2. doc.up[n] = Head(way)
      <4>1. 1 \in 1 .. Len(trail) - 1 /\ 1 + 1 = 2
        BY <2>2, <3>1
      <4> QED  BY <1>5, <3>1, <4>1 DEF Leads
    <3>3. ASSUME NEW i \in 1 .. Len(way) - 1 PROVE doc.up[way[i]] = way[i + 1]
      <4>1. i \in 1 .. Len(way) /\ i + 1 \in 1 .. Len(way) /\ i + 1 \in 1 .. Len(trail) - 1
        BY <3>1
      <4>2. way[i] = trail[i + 1] /\ way[i + 1] = trail[i + 1 + 1]
        BY <3>1, <4>1
      <4> QED  BY <1>5, <3>1, <4>1, <4>2 DEF Leads
    <3> HIDE DEF n, way
    <3> QED  BY <3>2, <3>3 DEF Leads
  <2> QED  BY <2>1, <2>2, <1>5
<1> HIDE DEF n, way
<1> QED  BY <1>3, <1>4, <1>6, <1>7, Moved

\* A step to a sibling stays below the same node.
LEMMA AcrossStep ==
    ASSUME IInv, NEW n, loaded, Place(doc, n), doc.up[n] = doc.up[here], MoveTo(n, trail)
    PROVE  IInv'
<1>1. trail \in Seq(Nat) /\ TrailAbove /\ cursor.doc = doc
  BY Here DEF IInv, Typed, CursorInv
<1>2. Leads(doc, n, trail)
  BY <1>1 DEF TrailAbove, Leads
<1> QED  BY <1>1, <1>2, Moved

\* To the sibling elements.
LEMMA SiblingStep ==
    ASSUME IInv, SetToSibling \/ \E t \in Tags : LocateSibling(t)
    PROVE  IInv'
<1>1. loaded
  BY DEF SetToSibling, LocateSibling
<1>2. doc \in Documents /\ cursor.doc = doc
  BY <1>1, Here
<1>3. ASSUME MoveTo(NextSibling(doc, here), trail) PROVE IInv'
  <2> DEFINE n == NextSibling(doc, here)
  <2>1. n # 0 /\ MoveTo(n, trail)
    BY <1>3 DEF MoveTo
  <2>2. Place(doc, n) /\ doc.up[n] = doc.up[here]
    BY <1>2, <2>1, Steps
  <2> HIDE DEF n
  <2> QED  BY <1>1, <2>1, <2>2, AcrossStep
<1>4. ASSUME MoveTo(PrevSibling(doc, here), trail) PROVE IInv'
  <2> DEFINE n == PrevSibling(doc, here)
  <2>1. n # 0 /\ MoveTo(n, trail)
    BY <1>4 DEF MoveTo
  <2>2. Place(doc, n) /\ doc.up[n] = doc.up[here]
    BY <1>2, <2>1, Steps
  <2> HIDE DEF n
  <2> QED  BY <1>1, <2>1, <2>2, AcrossStep
<1>5. ASSUME NEW t \in Tags, MoveTo(FirstTagged(doc, doc.up[here], t), trail) PROVE IInv'
  <2> DEFINE n == FirstTagged(doc, doc.up[here], t)
  <2>1. n # 0 /\ MoveTo(n, trail)
    BY <1>5 DEF MoveTo
  <2>2. Place(doc, n) /\ doc.up[n] = doc.up[here]
    BY <1>2, <2>1, TagSteps
  <2> HIDE DEF n
  <2> QED  BY <1>1, <2>1, <2>2, AcrossStep
<1>6. ASSUME NEW t \in Tags, MoveTo(NextTagged(doc, here, t), trail) PROVE IInv'
  <2> DEFINE n == NextTagged(doc, here, t)
  <2>1. n # 0 /\ MoveTo(n, trail)
    BY <1>6 DEF MoveTo
  <2>2. Place(doc, n) /\ doc.up[n] = doc.up[here]
    BY <1>2, <2>1, TagSteps
  <2> HIDE DEF n
  <2> QED  BY <1>1, <2>1, <2>2, AcrossStep
<1>7. ASSUME SetToSibling PROVE IInv'
  BY <1>2, <1>3, <1>4, <1>7 DEF SetToSibling
<1>8. ASSUME NEW t \in Tags, LocateSibling(t) PROVE IInv'
  BY <1>2, <1>5, <1>6, <1>8 DEF LocateSibling
<1> QED  BY <1>7, <1>8

\* Whatever is read fits the buffer.
LEMMA ReadStep == IInv /\ Read => IInv'
<1> SUFFICES ASSUME IInv, Read PROVE IInv'
  OBVIOUS
<1>1. /\ live' = live /\ loaded' = loaded /\ doc' = doc /\ cursor' = cursor /\ trail' = trail
      /\ UNCHANGED files /\ (loaded \/ cursor = NoNode)
  BY DEF Read
<1> DEFINE null == cursor = NoNode
           len == IF null THEN 0 ELSE TextLength(cursor.doc, here)
<1>3. len \in Nat
  <2> SUFFICES ASSUME ~null PROVE TextLength(cursor.doc, here) \in Nat
    OBVIOUS
  <2> DEFINE texts == {c \in Children(doc, here) : ~IsElement(doc, c)}
  <2>0. doc \in Documents /\ cursor.doc = doc
    BY <1>1, Here
  <2>1. texts \in SUBSET Children(doc, here)
    OBVIOUS
  <2>2. texts \in SUBSET (Nat \ {0})
    BY <2>0, <2>1, Siblings
  <2>3. \A c \in texts : doc.len[c] \in Nat
    <3>1. IsDocument(doc)
      BY <2>0, CallbacksAssumption
    <3>2. \A c \in texts : c \in DOMAIN doc.up
      BY <2>0, <2>1, Siblings DEF Nodes
    <3> QED  BY <3>1, <3>2 DEF IsDocument
  <2>4. TextLength(cursor.doc, here) = IF texts = {} THEN 0 ELSE doc.len[First(texts)]
    BY <2>0 DEF TextLength
  <2> HIDE DEF texts
  <2>5. texts # {} => First(texts) \in texts
    BY <2>2, FirstOf
  <2> QED  BY <2>3, <2>4, <2>5
<1>4. answer' \in {IF null \/ Children(cursor.doc, here) = {} THEN -1 ELSE Cut(len),
                   IF len + 1 > Buffer THEN -1 ELSE len, IF len = 0 THEN -1 ELSE 4}
  BY DEF Read
<1> HIDE DEF len
<1>5. Buffer \in Nat /\ Buffer > 4
  BY CallbacksAssumption
<1>6. Cut(len) \in -1 .. (Buffer - 1)
  BY <1>3, <1>5 DEF Cut
<1>7. answer' \in -1 .. (Buffer - 1)
  BY <1>3, <1>4, <1>5, <1>6
<1>8. Typed'
  BY <1>1, <1>7 DEF IInv, Typed, files
<1>9. CursorInv'
  BY <1>1 DEF IInv, CursorInv, CursorPlaced, CursorInDocument, TrailAbove, here
<1>10. FilesInv'
  BY <1>1, FilesKept DEF IInv
<1> QED  BY <1>8, <1>9, <1>10 DEF IInv

\* A call on a destroyed document may put the cursor anywhere in it and read
\* anything, but loaded stays false.
LEMMA DestroyedStep == IInv /\ UseDestroyed => IInv'
<1> SUFFICES ASSUME IInv, UseDestroyed PROVE IInv'
  OBVIOUS
<1>1. /\ live' = live /\ ~loaded /\ loaded' = loaded /\ doc' = doc /\ UNCHANGED files
      /\ trail' = <<>> /\ answer' \in -1 .. (Buffer - 1)
  BY DEF UseDestroyed
<1>2. CASE cursor' = NoNode
  <2>1. cursor' \in [doc : Documents \cup {Absent}, node : Nat]
    BY <1>2 DEF NoNode
  <2>2. Typed'
    BY <1>1, <2>1 DEF IInv, Typed, files
  <2>3. CursorInv'
    BY <1>1, <1>2 DEF CursorInv, CursorPlaced, CursorInDocument, TrailAbove, NoNode
  <2> QED  BY <1>1, <2>2, <2>3, FilesKept DEF IInv
<1>3. ASSUME NEW n \in Nodes(cursor.doc), n = 1 \/ IsElement(cursor.doc, n),
             cursor' = [cursor EXCEPT !.node = n]
      PROVE  IInv'
  <2>1. cursor # NoNode /\ cursor \in [doc : Documents \cup {Absent}, node : Nat]
    BY DEF UseDestroyed, IInv, Typed
  <2>2. cursor.doc \in Documents
    BY <2>1 DEF IInv, CursorInv, CursorPlaced, NoNode
  <2>3. Place(cursor.doc, n) /\ n \in Nat
    BY <1>3, <2>2, Upwards DEF Place
  <2>4. cursor' \in [doc : Documents \cup {Absent}, node : Nat]
        /\ cursor'.doc = cursor.doc /\ cursor'.node = n
    BY <1>3, <2>1, <2>3
  <2>5. Typed'
    BY <1>1, <2>4 DEF IInv, Typed, files
  <2>6. CursorInv'
    BY <1>1, <2>2, <2>3, <2>4 DEF CursorInv, CursorPlaced, CursorInDocument, TrailAbove, here
  <2> QED  BY <1>1, <2>5, <2>6, FilesKept DEF IInv
<1> QED  BY <1>2, <1>3 DEF UseDestroyed

\* A step of nothing.
LEMMA Stutter == IInv /\ UNCHANGED vars => IInv'
<1> SUFFICES ASSUME IInv, UNCHANGED vars PROVE IInv'
  OBVIOUS
<1>1. /\ live' = live /\ loaded' = loaded /\ doc' = doc /\ cursor' = cursor /\ trail' = trail
      /\ answer' = answer /\ UNCHANGED files
  BY DEF vars, files
<1>2. Typed'
  BY <1>1 DEF IInv, Typed, files
<1>3. CursorInv'
  BY <1>1 DEF IInv, CursorInv, CursorPlaced, CursorInDocument, TrailAbove, here
<1>4. FilesInv'
  BY <1>1, FilesKept DEF IInv
<1> QED  BY <1>2, <1>3, <1>4 DEF IInv

-----------------------------------------------------------------------------
(* Counting and stepping.                                                    *)

\* The first of some nodes has rank 1.
LEMMA FirstRank ==
    ASSUME NEW E \in SUBSET (Nat \ {0}), IsFiniteSet(E), E # {}
    PROVE  First(E) \in E /\ Rank(E, First(E)) = 1
<1>1. First(E) \in E /\ \A e \in E : First(E) <= e
  BY FirstOf
<1>2. {m \in E : m <= First(E)} = {First(E)}
  <2>1. ASSUME NEW m \in E, m <= First(E) PROVE m = First(E)
    <3>1. m \in Nat /\ First(E) \in Nat /\ First(E) <= m
      BY <1>1
    <3> QED  BY <2>1, <3>1
  <2>2. First(E) <= First(E)
    BY <1>1
  <2> QED  BY <1>1, <2>1, <2>2
<1> QED  BY <1>1, <1>2, FS_Singleton DEF Rank

\* The first of those after a node has the next rank; there is none after the
\* node whose rank is their number.
LEMMA NextRank ==
    ASSUME NEW E \in SUBSET (Nat \ {0}), IsFiniteSet(E), NEW m \in E
    PROVE  /\ Rank(E, m) < Cardinality(E) =>
                  /\ First({c \in E : m < c}) \in E /\ m < First({c \in E : m < c})
                  /\ Rank(E, First({c \in E : m < c})) = Rank(E, m) + 1
           /\ Rank(E, m) = Cardinality(E) => First({c \in E : m < c}) = 0
<1> DEFINE S == {c \in E : m < c}
           F == First(S)
           L == {x \in E : x <= m}
<1>1. S \in SUBSET (Nat \ {0}) /\ L \in SUBSET E /\ E \in SUBSET Nat
  OBVIOUS
<1>2. IsFiniteSet(L) /\ Cardinality(L) \in Nat /\ Cardinality(E) \in Nat
  <2> HIDE DEF L
  <2> QED  BY <1>1, FS_Subset, FS_CardinalityType
<1>3. ASSUME S # {}
      PROVE  F \in E /\ m < F /\ Rank(E, F) = Rank(E, m) + 1
  <2>1. F \in S /\ \A e \in S : F <= e
    <3> HIDE DEF S
    <3> QED  BY <1>1, <1>3, FirstOf
  <2>2. F \in E /\ m < F /\ F \notin L
    <3> HIDE DEF F
    <3>1. F \in E /\ m < F /\ F \in Nat /\ m \in Nat
      BY <2>1
    <3>2. ~(F <= m)
      BY <3>1
    <3> QED  BY <3>1, <3>2
  <2>3. {x \in E : x <= F} = L \cup {F}
    <3>1. ASSUME NEW x \in E PROVE x <= F <=> x \in L \cup {F}
      <4>1. x \in Nat /\ m \in Nat /\ F \in Nat
        BY <2>2
      <4>2. x <= m \/ m < x
        BY <4>1
      <4>3. m < x => F <= x
        BY <2>1
      <4> HIDE DEF F
      <4> QED  BY <2>2, <4>1, <4>2, <4>3
    <3>2. L \cup {F} \subseteq E
      BY <2>2
    <3> HIDE DEF F, L
    <3> QED  BY <3>1, <3>2
  <2>4. Cardinality(L \cup {F}) = Cardinality(L) + 1
    <3> HIDE DEF F, L
    <3> QED  BY <1>2, <2>2, FS_AddElement
  <2> QED  BY <2>2, <2>3, <2>4 DEF Rank
<1>4. ASSUME S = {} PROVE Rank(E, m) = Cardinality(E) /\ F = 0
  <2>1. \A x \in E : x <= m
    <3>1. \A x \in E : x \in Nat /\ m \in Nat /\ ~(m < x)
      BY <1>4
    <3> QED  BY <3>1
  <2>2. L = E
    BY <2>1
  <2>3. First({}) = 0
    BY DEF First
  <2> QED  BY <1>4, <2>2, <2>3 DEF Rank
<1>5. ASSUME Rank(E, m) = Cardinality(E) PROVE S = {}
  <2> SUFFICES ASSUME S # {} PROVE FALSE
    OBVIOUS
  <2>1. F \in E /\ Rank(E, F) = Cardinality(E) + 1
    BY <1>3, <1>5
  <2>2. Rank(E, F) \in 1 .. Cardinality(E)
    <3> HIDE DEF F
    <3> QED  BY <1>1, <2>1, RankRange
  <2> HIDE DEF F
  <2> QED  BY <1>2, <2>1, <2>2
<1>6. ASSUME Rank(E, m) < Cardinality(E) PROVE S # {}
  <2> SUFFICES ASSUME S = {} PROVE FALSE
    OBVIOUS
  <2>1. Rank(E, m) = Cardinality(E)
    BY <1>4
  <2> QED  BY <1>2, <1>6, <2>1
<1> QED  BY <1>3, <1>4, <1>5, <1>6

\* A loop over E that starts at its first node and goes to the next as often
\* as E has nodes meets all of them, in order, and then nothing.
LEMMA Loop ==
    ASSUME NEW E \in SUBSET (Nat \ {0}), IsFiniteSet(E), NEW met,
           met[0] = First(E),
           \A i \in 1 .. Cardinality(E) : met[i - 1] \in E =>
                met[i] = First({c \in E : met[i - 1] < c})
    PROVE  /\ met[Cardinality(E)] = 0
           /\ {met[i] : i \in 0 .. Cardinality(E) - 1} = E
           /\ \A i \in 1 .. Cardinality(E) - 1 : Final({c \in E : c < met[i]}) = met[i - 1]
<1> DEFINE N == Cardinality(E)
<1>1. N \in Nat /\ E \in SUBSET Nat
  BY FS_CardinalityType
<1>2. CASE E = {}
  <2>1. N = 0
    BY <1>2, FS_EmptySet
  <2>2. First({}) = 0 /\ 0 .. 0 - 1 = {} /\ 1 .. 0 - 1 = {}
    BY DEF First
  <2> QED  BY <1>2, <2>1, <2>2
<1>3. CASE E # {}
  <2>1. N # 0 /\ N - 1 \in Nat
    <3>1. N # 0
      BY <1>3, FS_EmptySet
    <3> HIDE DEF N
    <3> QED  BY <1>1, <3>1
  <2> DEFINE P == {i \in 0 .. N - 1 : met[i] \in E /\ Rank(E, met[i]) = i + 1}
  <2>2. 0 \in P
    <3>1. met[0] \in E /\ Rank(E, met[0]) = 1
      BY <1>3, FirstRank
    <3> HIDE DEF N
    <3> QED  BY <2>1, <3>1
  <2>3. ASSUME NEW k \in 0 .. N - 1, k + 1 \in 0 .. N, k \in P
        PROVE  met[k + 1] = First({c \in E : met[k] < c})
    <3> HIDE DEF N
    <3>1. k + 1 \in 1 .. N /\ k + 1 - 1 = k /\ met[k] \in E
      BY <1>1, <2>3
    <3> QED  BY <3>1 DEF N
  <2>4. ASSUME NEW k \in 0 .. (N - 1) - 1, k \in P PROVE k + 1 \in P
    <3>1. /\ k \in 0 .. N - 1 /\ k + 1 \in 0 .. N /\ k + 1 \in 0 .. N - 1
          /\ met[k] \in E /\ Rank(E, met[k]) = k + 1 /\ k + 1 < N
      <4> HIDE DEF N
      <4> QED  BY <1>1, <2>4
    <3>2. met[k + 1] = First({c \in E : met[k] < c})
      BY <2>3, <2>4, <3>1
    <3>3. met[k + 1] \in E /\ Rank(E, met[k + 1]) = k + 1 + 1
      BY <3>1, <3>2, NextRank
    <3> QED  BY <3>1, <3>3
  <2>5. \A i \in 0 .. N - 1 : i \in P
    <3> HIDE DEF P, N
    <3> QED  BY <2>1, <2>2, <2>4, UpTo
  <2>6. \A i \in 0 .. N - 1 : met[i] \in E /\ Rank(E, met[i]) = i + 1
    BY <2>5
  <2>7. met[N] = 0
    <3>1. N - 1 \in 0 .. N - 1 /\ N - 1 + 1 = N /\ N \in 0 .. N
      <4> HIDE DEF N
      <4> QED  BY <1>1, <2>1
    <3>2. met[N] = First({c \in E : met[N - 1] < c})
      <4> HIDE DEF P
      <4>1. N - 1 \in P
        BY <2>5, <3>1
      <4> QED  BY <2>3, <3>1, <4>1
    <3>3. met[N - 1] \in E /\ Rank(E, met[N - 1]) = Cardinality(E)
      BY <2>6, <3>1
    <3> QED  BY <3>2, <3>3, NextRank
  <2>8. ASSUME NEW c \in E PROVE \E i \in 0 .. N - 1 : met[i] = c
    <3> DEFINE k == Rank(E, c)
    <3>1. k \in 1 .. N
      BY <1>1, RankRange
    <3>2. k - 1 \in 0 .. N - 1 /\ k - 1 + 1 = k /\ k \in Nat
      <4> HIDE DEF N, k
      <4> QED  BY <1>1, <3>1
    <3>3. met[k - 1] \in E /\ Rank(E, met[k - 1]) = Rank(E, c)
      BY <2>6, <3>2
    <3>4. met[k - 1] = c
      <4> HIDE DEF k
      <4> QED  BY <1>1, <3>2, <3>3, RankTells DEF k
    <3> QED  BY <3>2, <3>4
  <2>9. ASSUME NEW i \in 1 .. N - 1 PROVE Final({c \in E : c < met[i]}) = met[i - 1]
    <3>1. /\ i \in Nat /\ i - 1 \in 0 .. N - 1 /\ i \in 0 .. N - 1 /\ i \in 0 .. N
          /\ i - 1 + 1 = i /\ i < N
      <4> HIDE DEF N
      <4> QED  BY <1>1, <2>9
    <3>2. /\ met[i - 1] \in E /\ Rank(E, met[i - 1]) = i
          /\ met[i] \in E /\ Rank(E, met[i]) = i + 1
      BY <2>6, <3>1
    <3>3. met[i] = First({c \in E : met[i - 1] < c})
      <4>1. i - 1 \in P
        BY <2>5, <3>1
      <4> HIDE DEF P
      <4> QED  BY <2>3, <3>1, <4>1
    <3>4. met[i - 1] < met[i]
      BY <3>1, <3>2, <3>3, NextRank
    <3> DEFINE B == {c \in E : c < met[i]}
               F == Final(B)
    <3>5. B \in SUBSET (Nat \ {0}) /\ IsFiniteSet(B) /\ met[i - 1] \in B
      <4>1. B \in SUBSET E
        OBVIOUS
      <4> QED  BY <3>2, <3>4, <4>1, FS_Subset
    <3>6. F \in B /\ met[i - 1] <= F
      <4> HIDE DEF B
      <4>1. B # {} /\ F \in B \cup {0} /\ (F = 0 <=> B = {}) /\ \A e \in B : e <= F
        BY <3>5, FinalOf
      <4> QED  BY <3>5, <4>1
    <3>7. F \in E /\ F < met[i] /\ F \in Nat /\ met[i - 1] \in Nat
      BY <3>2, <3>6
    <3>8. ASSUME met[i - 1] < F PROVE FALSE
      <4> HIDE DEF F
      <4>1. Rank(E, met[i - 1]) < Rank(E, F) /\ Rank(E, F) < Rank(E, met[i])
        BY <1>1, <3>2, <3>7, <3>8, RankGrows
      <4>2. Rank(E, F) \in Nat
        <5>1. Rank(E, F) \in 1 .. N
          BY <1>1, <3>7, RankRange
        <5> QED  BY <1>1, <5>1
      <4> QED  BY <3>1, <3>2, <4>1, <4>2
    <3> HIDE DEF F
    <3>9. F = met[i - 1]
      BY <3>6, <3>7, <3>8
    <3> QED  BY <3>9 DEF F
  <2>10. {met[i] : i \in 0 .. N - 1} = E
    BY <2>6, <2>8
  <2> QED  BY <2>7, <2>9, <2>10
<1> QED  BY <1>2, <1>3

\* The loops that go from node to node until there is none.
Loops(N, start, next) ==
    {h \in [0 .. N -> Nat] :
        /\ h[0] = start
        /\ \A i \in 1 .. N : h[i] = IF h[i - 1] = 0 THEN 0 ELSE next[h[i - 1]]}

\* There is one.
LEMMA LoopExists ==
    ASSUME NEW N \in Nat, NEW start \in Nat, NEW next \in [Nat -> Nat]
    PROVE  Loops(N, start, next) # {}
<1> DEFINE S == Nat
           g == [i \in 1 .. N |-> [m \in S |-> IF m = 0 THEN 0 ELSE next[m]]]
<1>1. g \in [1 .. N -> [S -> S]] /\ start \in S
  OBVIOUS
<1>2. PICK h \in [0 .. N -> S] : h[0] = start /\ \A i \in 1 .. N : h[i] = g[i][h[i - 1]]
  <2> HIDE DEF S, g
  <2>1. Runs(N, S, start, g) # {}
    BY <1>1, Iterated
  <2> QED  BY <2>1 DEF Runs
<1>3. ASSUME NEW i \in 1 .. N PROVE h[i] = IF h[i - 1] = 0 THEN 0 ELSE next[h[i - 1]]
  <2>1. i - 1 \in 0 .. N /\ h[i - 1] \in S
    BY <1>2
  <2>2. h[i] = g[i][h[i - 1]]
    BY <1>2
  <2> QED  BY <2>1, <2>2
<1> QED  BY <1>2, <1>3 DEF Loops

\* What the loops of AllCountsAreSteps meet below any node but none.
LEMMA AllMet ==
    ASSUME NEW d \in Documents, NEW n \in Nat \ {0}
    PROVE  LET count == NumChildren(d, n)
               met == Met(d, n)
           IN  /\ met[count] = 0
               /\ {met[i] : i \in 0 .. (count - 1)} = Elements(d, n)
               /\ \A i \in 1 .. (count - 1) : PrevSibling(d, met[i]) = met[i - 1]
               /\ \A i \in 0 .. (count - 1) : NumSiblings(d, met[i]) = count - 1
<1> DEFINE E == Elements(d, n)
           N == NumChildren(d, n)
           S == Nat
           next == [m \in S |-> NextSibling(d, m)]
           met == CHOOSE met : met = [i \in 0 .. N |->
                    IF i = 0 THEN FirstElement(d, n)
                    ELSE IF met[i - 1] = 0 THEN 0 ELSE NextSibling(d, met[i - 1])]
<1>1. E \in SUBSET (Nat \ {0}) /\ IsFiniteSet(E) /\ \A c \in E : d.up[c] = n
  <2>1. E \in SUBSET Children(d, n) /\ Children(d, n) \in SUBSET (Nat \ {0})
    BY Siblings
  <2> QED  BY <2>1, Siblings, FS_Subset
<1>2. N = Cardinality(E) /\ N \in Nat
  BY <1>1, FS_CardinalityType DEF NumChildren
<1>3. FirstElement(d, n) = First(E) /\ FirstElement(d, n) \in S
  BY <1>1, FirstOf DEF FirstElement
<1>4. ASSUME NEW m PROVE NextSibling(d, m) \in S
  <2>1. {c \in Elements(d, d.up[m]) : m < c} \in SUBSET (Nat \ {0})
    <3>1. Elements(d, d.up[m]) \in SUBSET Children(d, d.up[m])
          /\ Children(d, d.up[m]) \in SUBSET (Nat \ {0})
      BY Siblings
    <3> QED  BY <3>1
  <2> QED  BY <2>1, FirstOf DEF NextSibling
<1>5. next \in [S -> S]
  BY <1>4
<1>6. PICK h \in [0 .. N -> S] :
          /\ h[0] = FirstElement(d, n)
          /\ \A i \in 1 .. N : h[i] = IF h[i - 1] = 0 THEN 0 ELSE next[h[i - 1]]
  <2>1. Loops(N, FirstElement(d, n), next) # {}
    <3>1. N \in Nat /\ FirstElement(d, n) \in Nat /\ next \in [Nat -> Nat]
      BY <1>2, <1>3, <1>5
    <3> HIDE DEF N, next
    <3> QED  BY <3>1, LoopExists
  <2> HIDE DEF N, next
  <2> QED  BY <2>1 DEF Loops
<1>7. h = [i \in 0 .. N |->
              IF i = 0 THEN FirstElement(d, n)
              ELSE IF h[i - 1] = 0 THEN 0 ELSE NextSibling(d, h[i - 1])]
  <2>1. ASSUME NEW i \in 1 .. N
        PROVE  h[i] = IF h[i - 1] = 0 THEN 0 ELSE NextSibling(d, h[i - 1])
    <3>1. i - 1 \in 0 .. N /\ h[i - 1] \in S
      <4> HIDE DEF N, S
      <4> QED  BY <1>2, <1>6
    <3>2. h[i] = IF h[i - 1] = 0 THEN 0 ELSE next[h[i - 1]]
      BY <1>6
    <3> QED  BY <3>1, <3>2
  <2> HIDE DEF N, S
  <2>2. \A i \in 0 .. N : i # 0 => i \in 1 .. N
    BY <1>2
  <2>3. \A i \in 0 .. N : h[i] = IF i = 0 THEN FirstElement(d, n) ELSE
              IF h[i - 1] = 0 THEN 0 ELSE NextSibling(d, h[i - 1])
    BY <1>6, <2>1, <2>2
  <2> QED  BY <1>6, <2>3
<1>8. met = [i \in 0 .. N |->
                IF i = 0 THEN FirstElement(d, n)
                ELSE IF met[i - 1] = 0 THEN 0 ELSE NextSibling(d, met[i - 1])]
  <2> HIDE DEF N, S, next
  <2> QED  BY <1>7
<1>9. Met(d, n) = met
  BY DEF Met
<1> HIDE DEF met
<1>10. ASSUME NEW i \in 1 .. Cardinality(E), met[i - 1] \in E
       PROVE  met[i] = First({c \in E : met[i - 1] < c})
  <2>1. i \in 0 .. N /\ i # 0 /\ met[i - 1] # 0 /\ d.up[met[i - 1]] = n
    <3>1. met[i - 1] # 0 /\ d.up[met[i - 1]] = n
      <4> HIDE DEF E
      <4> QED  BY <1>1, <1>10
    <3> HIDE DEF N, E
    <3>2. i \in 1 .. N
      BY <1>2
    <3> QED  BY <1>2, <3>1, <3>2
  <2>2. met[i] = NextSibling(d, met[i - 1])
    BY <1>8, <2>1
  <2> QED  BY <2>1, <2>2 DEF NextSibling
<1>11. met[0] = First(E)
  <2>1. 0 \in 0 .. N
    BY <1>2
  <2> HIDE DEF N
  <2> QED  BY <1>3, <1>8, <2>1
<1>12. /\ met[N] = 0
       /\ {met[i] : i \in 0 .. N - 1} = E
       /\ \A i \in 1 .. N - 1 : Final({c \in E : c < met[i]}) = met[i - 1]
  <2> HIDE DEF E, N
  <2> QED  BY <1>1, <1>2, <1>10, <1>11, Loop
<1>13. \A i \in 0 .. N - 1 : d.up[met[i]] = n
  BY <1>1, <1>12
<1>14. ASSUME NEW i \in 1 .. N - 1 PROVE PrevSibling(d, met[i]) = met[i - 1]
  <2>1. i \in 0 .. N - 1
    <3> HIDE DEF N
    <3> QED  BY <1>2
  <2> QED  BY <1>12, <1>13, <2>1 DEF PrevSibling
<1>15. ASSUME NEW i \in 0 .. N - 1 PROVE NumSiblings(d, met[i]) = N - 1
  <2>1. N # 0
    <3> HIDE DEF N
    <3> QED  BY <1>2
  <2>2. d.up[met[i]] = n /\ n # 0 /\ Cardinality(Elements(d, d.up[met[i]])) = N
    BY <1>2, <1>13
  <2> HIDE DEF N
  <2> QED  BY <2>1, <2>2 DEF NumSiblings
<1> QED  BY <1>9, <1>12, <1>14, <1>15

\* What the loops of TagCountsAreSteps meet.
LEMMA TaggedMet ==
    ASSUME NEW d \in Documents, NEW n \in Nat \ {0}, NEW t
    PROVE  LET count == NumChildrenByTag(d, n, t)
               met == MetByTag(d, n, t)
           IN  /\ met[count] = 0
               /\ {met[i] : i \in 0 .. (count - 1)} = Tagged(d, n, t)
               /\ \A i \in 0 .. (count - 1) : NumElementsByTag(d, met[i], t) = count
<1> DEFINE E == Tagged(d, n, t)
           N == NumChildrenByTag(d, n, t)
           S == Nat
           next == [m \in S |-> NextTagged(d, m, t)]
           met == CHOOSE met : met = [i \in 0 .. N |->
                    IF i = 0 THEN FirstTagged(d, n, t)
                    ELSE IF met[i - 1] = 0 THEN 0 ELSE NextTagged(d, met[i - 1], t)]
<1>1. E \in SUBSET (Nat \ {0}) /\ IsFiniteSet(E) /\ \A c \in E : d.up[c] = n
  <2>1. E \in SUBSET Children(d, n) /\ Children(d, n) \in SUBSET (Nat \ {0})
    BY Siblings
  <2> QED  BY <2>1, Siblings, FS_Subset
<1>2. N = Cardinality(E) /\ N \in Nat
  BY <1>1, FS_CardinalityType DEF NumChildrenByTag
<1>3. FirstTagged(d, n, t) = First(E) /\ FirstTagged(d, n, t) \in S
  BY <1>1, FirstOf DEF FirstTagged
<1>4. ASSUME NEW m PROVE NextTagged(d, m, t) \in S
  <2>1. {c \in Tagged(d, d.up[m], t) : m < c} \in SUBSET (Nat \ {0})
    <3>1. Tagged(d, d.up[m], t) \in SUBSET Children(d, d.up[m])
          /\ Children(d, d.up[m]) \in SUBSET (Nat \ {0})
      BY Siblings
    <3> QED  BY <3>1
  <2> QED  BY <2>1, FirstOf DEF NextTagged
<1>5. next \in [S -> S]
  BY <1>4
<1>6. PICK h \in [0 .. N -> S] :
          /\ h[0] = FirstTagged(d, n, t)
          /\ \A i \in 1 .. N : h[i] = IF h[i - 1] = 0 THEN 0 ELSE next[h[i - 1]]
  <2>1. Loops(N, FirstTagged(d, n, t), next) # {}
    <3>1. N \in Nat /\ FirstTagged(d, n, t) \in Nat /\ next \in [Nat -> Nat]
      BY <1>2, <1>3, <1>5
    <3> HIDE DEF N, next
    <3> QED  BY <3>1, LoopExists
  <2> HIDE DEF N, next
  <2> QED  BY <2>1 DEF Loops
<1>7. h = [i \in 0 .. N |->
              IF i = 0 THEN FirstTagged(d, n, t)
              ELSE IF h[i - 1] = 0 THEN 0 ELSE NextTagged(d, h[i - 1], t)]
  <2>1. ASSUME NEW i \in 1 .. N
        PROVE  h[i] = IF h[i - 1] = 0 THEN 0 ELSE NextTagged(d, h[i - 1], t)
    <3>1. i - 1 \in 0 .. N /\ h[i - 1] \in S
      <4> HIDE DEF N, S
      <4> QED  BY <1>2, <1>6
    <3>2. h[i] = IF h[i - 1] = 0 THEN 0 ELSE next[h[i - 1]]
      BY <1>6
    <3> QED  BY <3>1, <3>2
  <2> HIDE DEF N, S
  <2>2. \A i \in 0 .. N : i # 0 => i \in 1 .. N
    BY <1>2
  <2>3. \A i \in 0 .. N : h[i] = IF i = 0 THEN FirstTagged(d, n, t) ELSE
              IF h[i - 1] = 0 THEN 0 ELSE NextTagged(d, h[i - 1], t)
    BY <1>6, <2>1, <2>2
  <2> QED  BY <1>6, <2>3
<1>8. met = [i \in 0 .. N |->
                IF i = 0 THEN FirstTagged(d, n, t)
                ELSE IF met[i - 1] = 0 THEN 0 ELSE NextTagged(d, met[i - 1], t)]
  <2> HIDE DEF N, S, next
  <2> QED  BY <1>7
<1>9. MetByTag(d, n, t) = met
  BY DEF MetByTag
<1> HIDE DEF met
<1>10. ASSUME NEW i \in 1 .. Cardinality(E), met[i - 1] \in E
       PROVE  met[i] = First({c \in E : met[i - 1] < c})
  <2>1. i \in 0 .. N /\ i # 0 /\ met[i - 1] # 0 /\ d.up[met[i - 1]] = n
    <3>1. met[i - 1] # 0 /\ d.up[met[i - 1]] = n
      <4> HIDE DEF E
      <4> QED  BY <1>1, <1>10
    <3> HIDE DEF N, E
    <3>2. i \in 1 .. N
      BY <1>2
    <3> QED  BY <1>2, <3>1, <3>2
  <2>2. met[i] = NextTagged(d, met[i - 1], t)
    BY <1>8, <2>1
  <2> QED  BY <2>1, <2>2 DEF NextTagged
<1>11. met[0] = First(E)
  <2>1. 0 \in 0 .. N
    BY <1>2
  <2> HIDE DEF N
  <2> QED  BY <1>3, <1>8, <2>1
<1>12. met[N] = 0 /\ {met[i] : i \in 0 .. N - 1} = E
  <2> HIDE DEF E, N
  <2> QED  BY <1>1, <1>2, <1>10, <1>11, Loop
<1>13. \A i \in 0 .. N - 1 : d.up[met[i]] = n
  BY <1>1, <1>12
<1>14. ASSUME NEW i \in 0 .. N - 1 PROVE NumElementsByTag(d, met[i], t) = N
  <2>1. d.up[met[i]] = n /\ n # 0 /\ Cardinality(Tagged(d, d.up[met[i]], t)) = N
    BY <1>2, <1>13
  <2> HIDE DEF N
  <2> QED  BY <2>1 DEF NumElementsByTag
<1> QED  BY <1>9, <1>12, <1>14

\* Any step of the specification keeps the invariant.
LEMMA StepHolds == IInv /\ [Next]_vars => IInv'
<1> SUFFICES ASSUME IInv, [Next]_vars PROVE IInv'
  OBVIOUS
<1>1. ASSUME NEW p \in AllPaths, LoadXml(p) PROVE IInv'
  BY <1>1, LoadStep
<1>2. ASSUME NEW p \in Paths, Locate(p) PROVE IInv'
  BY <1>2, LocateStep
<1>3. CASE SetToChild \/ \E t \in Tags : SetToChildByTag(t)
  BY <1>3, ChildStep
<1>4. CASE SetToSibling \/ \E t \in Tags : LocateSibling(t)
  BY <1>4, SiblingStep
<1>5. CASE CreateFXml \/ DestroyFXml \/ Enumerate \/ Read \/ SetToParent
  BY <1>5, CreateStep, EnumerateStep, ReadStep, ParentStep
<1>6. CASE UNCHANGED vars
  BY <1>6, Stutter
<1>7. CASE UseDestroyed
  BY <1>7, DestroyedStep
<1> QED  BY <1>1, <1>2, <1>3, <1>4, <1>5, <1>6, <1>7 DEF Next

\* After any sequence of calls the cursor is placed, the trail leads up, and
\* loads and listings are right (host_callbacks.cpp).
THEOREM Callbacks == Spec => []IInv
<1>1. Init => IInv
  BY InitHolds
<1>2. IInv /\ [Next]_vars => IInv'
  BY StepHolds
<1> QED  BY <1>1, <1>2, PTL DEF Spec

\* Between two callbacks the cursor is a node of the loaded document, what was
\* read fits the relay's buffer, and SetToParent goes the way the DLL came.
THEOREM CursorIsSafe == Spec => []CursorSafe
<1>1. IInv => CursorSafe
  <2> SUFFICES ASSUME IInv PROVE CursorSafe
    OBVIOUS
  <2>1. TypeOK
    <3>1. \A i \in DOMAIN list : list[i].name \in Names
      <4>1. list \in Seq(Path)
        BY DEF IInv, Typed
      <4>2. \A i \in DOMAIN list : list[i] \in Path
        BY <4>1
      <4> QED  BY <4>2 DEF Path
    <3>2. /\ live \in BOOLEAN /\ loaded \in BOOLEAN /\ doc \in Documents \cup {Absent}
          /\ answer \in -1 .. (Buffer - 1)
      BY DEF IInv, Typed
    <3>3. cursor # NoNode => \/ here = 1
                             \/ here \in Nodes(cursor.doc) /\ IsElement(cursor.doc, here)
      BY DEF IInv, CursorInv, CursorPlaced, Place
    <3> QED  BY <3>1, <3>2, <3>3 DEF TypeOK
  <2> QED  BY <2>1 DEF IInv, CursorInv, CursorSafe
<1> QED  BY <1>1, Callbacks, PTL

\* The loops of the DLL over the children of a node, all or those of a tag,
\* meet exactly as many nodes as were counted, in any document.
THEOREM LoopsMeetAll == Spec => []CountsAreSteps
<1>1. IInv => CountsAreSteps
  <2> SUFFICES ASSUME IInv, loaded
               PROVE  /\ LET d == cursor.doc
                             count == NumChildren(d, here)
                             met == Met(d, here)
                         IN  /\ met[count] = 0
                             /\ {met[i] : i \in 0 .. (count - 1)} = Elements(d, here)
                             /\ \A i \in 1 .. (count - 1) : PrevSibling(d, met[i]) = met[i - 1]
                             /\ \A i \in 0 .. (count - 1) : NumSiblings(d, met[i]) = count - 1
                      /\ \A t \in Tags :
                         LET d == cursor.doc
                             count == NumChildrenByTag(d, here, t)
                             met == MetByTag(d, here, t)
                         IN  /\ met[count] = 0
                             /\ {met[i] : i \in 0 .. (count - 1)} = Tagged(d, here, t)
                             /\ \A i \in 0 .. (count - 1) : NumElementsByTag(d, met[i], t) = count
    BY DEF CountsAreSteps, AllCountsAreSteps, TagCountsAreSteps
  <2>1. cursor.doc \in Documents /\ here \in Nat \ {0}
    BY Here
  <2> QED  BY <2>1, AllMet, TaggedMet
<1> QED  BY <1>1, Callbacks, PTL

\* What is loaded under a name is the file of the first layer that has it.
THEOREM TopmostLoaded == Spec => []LoadsFromTop
<1>1. IInv => LoadsFromTop
  BY DEF IInv, FilesInv
<1> QED  BY <1>1, Callbacks, PTL

\* Every file an enumeration lists is found where it is looked for.
THEOREM ListingsLoad == Spec => []ListedFilesLie
<1>1. IInv => ListedFilesLie
  BY DEF IInv, FilesInv
<1> QED  BY <1>1, Callbacks, PTL

=============================================================================
