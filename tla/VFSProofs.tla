------------------------------ MODULE VFSProofs ------------------------------
(***************************************************************************)
(* Proofs about VFS: for any archives, any number of sessions of any        *)
(* installs, any edits and interruptions, lookups serve what has priority,  *)
(* with the exceptions the properties name and no other.                    *)
(***************************************************************************)
EXTENDS VFS, TLAPS

\* The types of the constants.
LEMMA FpkTypes ==
    \A i \in Installs : \A a \in Archives :
        /\ Len(Fpk[i][a]) \in Nat
        /\ \A n \in 1 .. Len(Fpk[i][a]) : PathOf(i, a, n) \in Paths
<1> TAKE i \in Installs
<1> TAKE a \in Archives
<1>1. Fpk[i][a] \in Seq(Paths) /\ Norm \in [Paths -> Paths]
  BY VFSAssumption DEF VFSAssumption
<1>2. Len(Fpk[i][a]) \in Nat
  BY <1>1
<1>3. ASSUME NEW n \in 1 .. Len(Fpk[i][a]) PROVE PathOf(i, a, n) \in Paths
  <2>1. Fpk[i][a][n] \in Paths
    BY <1>1
  <2> QED BY <1>1, <2>1 DEF PathOf
<1> QED
  BY <1>2, <1>3

LEMMA NameTypes ==
    \A p \in Paths : Norm[p] \in Paths /\ FileName[p] \in Names /\ p \in SameName(FileName[p])
  BY VFSAssumption DEF VFSAssumption, Names, SameName

\* One entry more: it is the last of the paths it belongs to, and no news for the others.
LEMMA LastStep ==
    ASSUME NEW i \in Installs, NEW S, NEW a0 \in Archives, NEW n0 \in Nat,
           n0 < Len(Fpk[i][a0])
    PROVE  /\ PathOf(i, a0, n0 + 1) \in S =>
                IsLast(i, S, a0, n0 + 1, [by |-> i, archive |-> a0, pos |-> n0 + 1])
           /\ PathOf(i, a0, n0 + 1) \notin S =>
                /\ \A d \in Data : IsLast(i, S, a0, n0, d) => IsLast(i, S, a0, n0 + 1, d)
                /\ Missing(i, S, a0, n0) => Missing(i, S, a0, n0 + 1)
<1>1. \A a \in Archives : \A n \in 1 .. Len(Fpk[i][a]) :
        UpTo(a, n, a0, n0 + 1) <=> UpTo(a, n, a0, n0) \/ (a = a0 /\ n = n0 + 1)
  BY FpkTypes DEF UpTo, Archives
<1>2. n0 + 1 \in 1 .. Len(Fpk[i][a0]) /\ UpTo(a0, n0 + 1, a0, n0 + 1)
  BY FpkTypes DEF UpTo
<1>3. ASSUME PathOf(i, a0, n0 + 1) \in S
      PROVE  IsLast(i, S, a0, n0 + 1, [by |-> i, archive |-> a0, pos |-> n0 + 1])
  BY <1>2, <1>3 DEF IsLast
<1>4. ASSUME PathOf(i, a0, n0 + 1) \notin S
      PROVE  /\ \A d \in Data : IsLast(i, S, a0, n0, d) => IsLast(i, S, a0, n0 + 1, d)
             /\ Missing(i, S, a0, n0) => Missing(i, S, a0, n0 + 1)
  BY <1>1, <1>4 DEF IsLast, Missing
<1> QED
  BY <1>3, <1>4

\* The end of an archive is the beginning of the next.
LEMMA LastNext ==
    ASSUME NEW i \in Installs, NEW S, NEW a0 \in Archives
    PROVE  /\ \A d \in Data : IsLast(i, S, a0, Len(Fpk[i][a0]), d) => IsLast(i, S, a0 + 1, 0, d)
           /\ Missing(i, S, a0, Len(Fpk[i][a0])) => Missing(i, S, a0 + 1, 0)
<1>1. \A a \in Archives : \A n \in 1 .. Len(Fpk[i][a]) :
        UpTo(a, n, a0 + 1, 0) <=> UpTo(a, n, a0, Len(Fpk[i][a0]))
  BY FpkTypes DEF UpTo, Archives
<1> QED
  BY <1>1 DEF IsLast, Missing

LEMMA MissingAtStart == \A i \in Installs : \A S : Missing(i, S, 0, 0)
  BY FpkTypes DEF Missing, UpTo, Archives

LEMMA LastIsThere ==
    ASSUME NEW i, NEW S, NEW a0, NEW n0, NEW d, IsLast(i, S, a0, n0, d)
    PROVE  ~Missing(i, S, a0, n0)
  BY DEF IsLast, Missing

\* There is one last entry.
LEMMA LastUnique ==
    ASSUME NEW i \in Installs, NEW S, NEW a0, NEW n0, NEW d \in Data, NEW e \in Data,
           IsLast(i, S, a0, n0, d), IsLast(i, S, a0, n0, e)
    PROVE  d = e
<1>1. UpTo(d.archive, d.pos, e.archive, e.pos) /\ UpTo(e.archive, e.pos, d.archive, d.pos)
  BY DEF IsLast
<1>2. d.archive \in Nat /\ e.archive \in Nat /\ d.pos \in Nat /\ e.pos \in Nat
  BY DEF Data, Archives
<1>3. d.archive = e.archive /\ d.pos = e.pos
  BY <1>1, <1>2 DEF UpTo
<1>4. d.by = e.by
  BY DEF IsLast
<1> QED
  BY <1>3, <1>4 DEF Data

-----------------------------------------------------------------------------
(* Resolving a path                                                          *)

\* Once initialize is done, a path resolves to a key with the best content for it,
\* and does not resolve only if no archive has a file of its name.
LEMMA Resolving ==
    ASSUME TypeOK, IndexByPriority, NamesByPriority, phase \in {"ready", "writing"},
           NEW p \in Paths
    PROVE  /\ ResolveFpkPath(p) = None =>
                /\ Missing(base, {p}, 4, 0)
                /\ Missing(base, SameName(FileName[p]), 4, 0)
           /\ ResolveFpkPath(p) # None =>
                /\ ResolveFpkPath(p) \in Paths
                /\ fpkData[ResolveFpkPath(p)] \in Data
                /\ IsLast(base, {ResolveFpkPath(p)}, 4, 0, fpkData[ResolveFpkPath(p)])
                /\ Best(p, fpkData[ResolveFpkPath(p)])
<1> DEFINE k == ResolveFpkPath(p)
<1>1. /\ base \in Installs /\ archive = 4 /\ pos = 0 /\ FileName[p] \in Names
      /\ nameIndex[FileName[p]] \in Paths \cup {None}
      /\ \A q \in Paths : fpkData[q] \in Data \cup {None}
  BY NameTypes DEF TypeOK
<1>2. \A q \in Paths : IF fpkData[q] = None THEN Missing(base, {q}, 4, 0)
                       ELSE IsLast(base, {q}, 4, 0, fpkData[q])
  BY <1>1 DEF IndexByPriority
<1>3. IF nameIndex[FileName[p]] = None THEN Missing(base, SameName(FileName[p]), 4, 0)
      ELSE /\ fpkData[nameIndex[FileName[p]]] # None
           /\ IsLast(base, SameName(FileName[p]), 4, 0, fpkData[nameIndex[FileName[p]]])
  BY <1>1 DEF NamesByPriority
<1>4. CASE fpkData[p] # None
  <2>1. k = p /\ p # None
    BY <1>4, VFSAssumption DEF ResolveFpkPath, VFSAssumption
  <2>2. IsLast(base, {p}, 4, 0, fpkData[p]) /\ fpkData[p] \in Data
    BY <1>1, <1>2, <1>4
  <2>3. Best(p, fpkData[p])
    BY <2>2, LastIsThere DEF Best
  <2> QED BY <2>1, <2>2, <2>3
<1>5. CASE fpkData[p] = None
  <2>1. k = nameIndex[FileName[p]]
    BY <1>5 DEF ResolveFpkPath
  <2>2. Missing(base, {p}, 4, 0)
    BY <1>2, <1>5
  <2>3. k = None => Missing(base, SameName(FileName[p]), 4, 0)
    BY <1>3, <2>1
  <2>4. ASSUME k # None
        PROVE  /\ k \in Paths /\ fpkData[k] \in Data
               /\ IsLast(base, {k}, 4, 0, fpkData[k]) /\ Best(p, fpkData[k])
    <3>1. k \in Paths /\ fpkData[k] \in Data /\ IsLast(base, {k}, 4, 0, fpkData[k])
      BY <1>1, <1>2, <1>3, <2>1, <2>4
    <3>2. Best(p, fpkData[k])
      BY <1>3, <2>1, <2>2, <2>4 DEF Best
    <3> QED BY <3>1, <3>2
  <2> QED BY <2>2, <2>3, <2>4
<1> QED
  BY <1>4, <1>5

-----------------------------------------------------------------------------
(* The index                                                                 *)

\* Indexing an entry keeps both indexes in order.
LEMMA IndexEntryStep == TypeOK /\ IndexByPriority /\ NamesByPriority /\ IndexEntry
                        => IndexByPriority' /\ NamesByPriority'
<1> SUFFICES ASSUME TypeOK, IndexByPriority, NamesByPriority, IndexEntry
             PROVE  IndexByPriority' /\ NamesByPriority'
  OBVIOUS
<1> DEFINE q == PathOf(base, archive, pos + 1)
           d == [by |-> base, archive |-> archive, pos |-> pos + 1]
<1>1. /\ phase = "indexing" /\ base \in Installs /\ archive \in Archives /\ pos \in Nat
      /\ pos < Len(Fpk[base][archive])
      /\ fpkData' = [fpkData EXCEPT ![q] = d]
      /\ nameIndex' = [nameIndex EXCEPT ![FileName[q]] = q]
      /\ base' = base /\ archive' = archive /\ pos' = pos + 1 /\ phase' = phase
      /\ fpkData \in [Paths -> Data \cup {None}] /\ nameIndex \in [Names -> Paths \cup {None}]
  BY DEF IndexEntry, TypeOK, PathOf
<1>2. q \in Paths /\ FileName[q] \in Names /\ q # None /\ d \in Data /\ d # None
  <2>1. q \in Paths
    <3>1. Len(Fpk[base][archive]) \in Nat
      BY <1>1, FpkTypes
    <3>2. pos + 1 \in 1 .. Len(Fpk[base][archive])
      BY <1>1, <3>1
    <3> QED BY <1>1, <3>2, FpkTypes
  <2>2. d \in Data
    BY <1>1 DEF Data
  <2> QED BY <2>1, <2>2, NameTypes, VFSAssumption, DataAssumption DEF VFSAssumption, DataAssumption
<1> HIDE DEF d
<1>3. \A S : /\ q \in S => IsLast(base, S, archive, pos + 1, d)
             /\ q \notin S => /\ \A e \in Data : IsLast(base, S, archive, pos, e)
                                              => IsLast(base, S, archive, pos + 1, e)
                              /\ Missing(base, S, archive, pos) => Missing(base, S, archive, pos + 1)
  BY <1>1, LastStep DEF d
<1> HIDE DEF q
<1>4. IndexByPriority'
  <2> SUFFICES ASSUME NEW p \in Paths
               PROVE  IF fpkData'[p] = None THEN Missing(base, {p}, archive, pos + 1)
                      ELSE IsLast(base, {p}, archive, pos + 1, fpkData'[p])
    BY <1>1 DEF IndexByPriority
  <2>1. CASE p = q
    BY <1>1, <1>2, <1>3, <2>1
  <2>2. CASE p # q
    <3>1. fpkData'[p] = fpkData[p] /\ fpkData[p] \in Data \cup {None} /\ q \notin {p}
      BY <1>1, <1>2, <2>2
    <3>2. IF fpkData[p] = None THEN Missing(base, {p}, archive, pos)
          ELSE IsLast(base, {p}, archive, pos, fpkData[p])
      BY <1>1 DEF IndexByPriority
    <3> QED BY <1>3, <3>1, <3>2
  <2> QED BY <2>1, <2>2
<1>5. NamesByPriority'
  <2> SUFFICES ASSUME NEW f \in Names
               PROVE  IF nameIndex'[f] = None THEN Missing(base, SameName(f), archive, pos + 1)
                      ELSE /\ fpkData'[nameIndex'[f]] # None
                           /\ IsLast(base, SameName(f), archive, pos + 1, fpkData'[nameIndex'[f]])
    BY <1>1 DEF NamesByPriority
  <2>1. CASE f = FileName[q]
    <3>1. nameIndex'[f] = q /\ fpkData'[q] = d
      BY <1>1, <1>2, <2>1
    <3>2. q \in SameName(f)
      BY <1>2, <2>1, NameTypes
    <3> QED BY <1>2, <1>3, <3>1, <3>2
  <2>2. CASE f # FileName[q]
    <3>1. nameIndex'[f] = nameIndex[f] /\ q \notin SameName(f)
      BY <1>1, <1>2, <2>2 DEF SameName
    <3>2. IF nameIndex[f] = None THEN Missing(base, SameName(f), archive, pos)
          ELSE /\ fpkData[nameIndex[f]] # None
               /\ IsLast(base, SameName(f), archive, pos, fpkData[nameIndex[f]])
      BY <1>1 DEF NamesByPriority
    <3>3. CASE nameIndex[f] = None
      BY <1>3, <3>1, <3>2, <3>3
    <3>4. CASE nameIndex[f] # None
      <4>1. nameIndex[f] \in Paths /\ fpkData[nameIndex[f]] \in Data
        BY <1>1, <3>2, <3>4
      <4>2. PathOf(base, fpkData[nameIndex[f]].archive, fpkData[nameIndex[f]].pos) \in SameName(f)
        BY <3>2, <3>4 DEF IsLast
      <4>3. nameIndex[f] # q
        <5>1. IsLast(base, {nameIndex[f]}, archive, pos, fpkData[nameIndex[f]])
          BY <1>1, <3>2, <3>4, <4>1 DEF IndexByPriority
        <5>2. PathOf(base, fpkData[nameIndex[f]].archive, fpkData[nameIndex[f]].pos) = nameIndex[f]
          BY <5>1 DEF IsLast
        <5> QED BY <3>1, <4>2, <5>2
      <4>4. fpkData'[nameIndex[f]] = fpkData[nameIndex[f]]
        BY <1>1, <4>1, <4>3
      <4> QED BY <1>3, <3>1, <3>2, <3>4, <4>1, <4>4
    <3> QED BY <3>3, <3>4
  <2> QED BY <2>1, <2>2
<1> QED
  BY <1>4, <1>5

\* The steps that leave a session's index and base alone.
Quiet ==
    \/ \E q \in Paths : HasFile(q) \/ GetFileData(q) \/ GetFileAsDiskPath(q)
    \/ StoreBuffer
    \/ \E d \in Dirs : FindFiles(d)
    \/ \E p \in LoosePaths : Edit(p)
    \/ UNCHANGED vars

LEMMA QuietIsRest ==
    [Next]_vars <=> \/ \E i \in Installs : StartSession(i)
                    \/ IndexEntry \/ NextArchive \/ EndSession \/ Quiet
  BY DEF Next, Quiet

LEMMA QuietFootprint ==
    Quiet => /\ UNCHANGED index /\ (phase = "off" <=> phase' = "off")
             /\ (phase' # phase => {phase, phase'} = {"ready", "writing"})
<1> SUFFICES ASSUME Quiet
             PROVE  /\ UNCHANGED index /\ (phase = "off" <=> phase' = "off")
                    /\ (phase' # phase => {phase, phase'} = {"ready", "writing"})
  OBVIOUS
<1>1. ASSUME NEW q \in Paths, HasFile(q) \/ GetFileData(q)
      PROVE  UNCHANGED <<index, phase>>
  BY <1>1 DEF HasFile, GetFileData
<1>2. ASSUME NEW q \in Paths, GetFileAsDiskPath(q)
      PROVE  UNCHANGED index /\ phase = "ready" /\ phase' \in {"ready", "writing"}
  BY <1>2 DEF GetFileAsDiskPath, ExtractToCache
<1>3. StoreBuffer => UNCHANGED index /\ phase = "writing" /\ phase' = "ready"
  BY DEF StoreBuffer
<1>4. (\E d \in Dirs : FindFiles(d)) \/ (\E p \in LoosePaths : Edit(p)) => UNCHANGED <<index, phase>>
  BY DEF FindFiles, Edit
<1>5. UNCHANGED vars => UNCHANGED <<index, phase>>
  BY DEF vars
<1> QED
  BY <1>1, <1>2, <1>3, <1>4, <1>5 DEF Quiet

\* Every step keeps both indexes in order.
LEMMA IndexStep == TypeOK /\ IndexByPriority /\ NamesByPriority /\ [Next]_vars
                   => IndexByPriority' /\ NamesByPriority'
<1> SUFFICES ASSUME TypeOK, IndexByPriority, NamesByPriority, [Next]_vars
             PROVE  IndexByPriority' /\ NamesByPriority'
  OBVIOUS
<1>1. ASSUME NEW i \in Installs, StartSession(i) PROVE IndexByPriority' /\ NamesByPriority'
  <2>1. /\ base' = i /\ archive' = 0 /\ pos' = 0
        /\ fpkData' = [p \in Paths |-> None] /\ nameIndex' = [f \in Names |-> None]
    BY <1>1 DEF StartSession, Forget
  <2>2. \A S : Missing(i, S, 0, 0)
    BY MissingAtStart
  <2> QED BY <2>1, <2>2 DEF IndexByPriority, NamesByPriority
<1>2. CASE IndexEntry
  BY <1>2, IndexEntryStep
<1>3. CASE NextArchive
  <2>1. /\ phase # "off" /\ base \in Installs /\ archive \in Archives
        /\ pos = Len(Fpk[base][archive])
        /\ base' = base /\ archive' = archive + 1 /\ pos' = 0
        /\ fpkData' = fpkData /\ nameIndex' = nameIndex
        /\ \A p \in Paths : fpkData[p] \in Data \cup {None}
        /\ \A f \in Names : nameIndex[f] \in Paths \cup {None}
    BY <1>3 DEF NextArchive, TypeOK
  <2>2. \A S : /\ \A e \in Data : IsLast(base, S, archive, pos, e) => IsLast(base, S, archive + 1, 0, e)
               /\ Missing(base, S, archive, pos) => Missing(base, S, archive + 1, 0)
    BY <2>1, LastNext
  <2>3. IndexByPriority'
    BY <2>1, <2>2 DEF IndexByPriority
  <2>4. NamesByPriority'
    BY <2>1, <2>2 DEF NamesByPriority
  <2> QED BY <2>3, <2>4
<1>4. CASE EndSession
  BY <1>4 DEF EndSession, IndexByPriority, NamesByPriority
<1>5. CASE Quiet
  <2>1. UNCHANGED <<base, archive, pos, fpkData, nameIndex>> /\ (phase = "off" <=> phase' = "off")
    BY <1>5, QuietFootprint DEF index
  <2> QED BY <2>1 DEF IndexByPriority, NamesByPriority
<1> QED
  BY <1>1, <1>2, <1>3, <1>4, <1>5, QuietIsRest

-----------------------------------------------------------------------------
(* Types                                                                     *)

\* What get_file_as_disk_path can do, with the key it resolves to.
LEMMA DiskPathCases ==
    ASSUME TypeOK, IndexByPriority, NamesByPriority, NEW q \in Paths, GetFileAsDiskPath(q)
    PROVE  LET p == Norm[q]
               k == ResolveFpkPath(p) IN
           /\ p \in Paths /\ phase = "ready"
           /\ diskCache' = [diskCache EXCEPT ![p] = IF OnDisk(p) THEN "yes" ELSE "no"]
           /\ UNCHANGED <<index, loose, sessions, edits, cut>>
           /\ \/ /\ OnDisk(p) /\ answer' = Answer("path", q, "loose", p)
                 /\ UNCHANGED <<phase, cacheDir, writers>>
              \/ /\ ~OnDisk(p) /\ answer' = Answer("path", q, "none", None)
                 /\ UNCHANGED <<phase, cacheDir, writers>>
              \/ /\ ~OnDisk(p) /\ k \in Paths /\ fpkData[k] \in Data /\ fpkData[k] # None /\ Best(p, fpkData[k])
                 /\ IsLast(base, {k}, 4, 0, fpkData[k])
                 /\ answer' = Answer("path", q, "cache", k)
                 /\ \/ cacheDir[k] # None /\ UNCHANGED <<phase, cacheDir, writers>>
                    \/ /\ cacheDir[k] = None /\ cacheDir' = [cacheDir EXCEPT ![k] = Torn]
                       /\ phase' = "writing" /\ writers' = writers \cup {base}
<1> DEFINE p == Norm[q]
           k == ResolveFpkPath(p)
<1>1. p \in Paths /\ phase = "ready"
  BY NameTypes DEF GetFileAsDiskPath
<1>2. k # None => /\ k \in Paths /\ fpkData[k] \in Data /\ fpkData[k] # None
                  /\ Best(p, fpkData[k]) /\ IsLast(base, {k}, 4, 0, fpkData[k])
  BY <1>1, Resolving, DataAssumption DEF DataAssumption
<1> QED
  BY <1>1, <1>2 DEF GetFileAsDiskPath, ExtractToCache, CheckDisk

\* The same, without the reasons.
LEMMA DiskPathEffect ==
    ASSUME TypeOK, IndexByPriority, NamesByPriority, NEW q \in Paths, GetFileAsDiskPath(q)
    PROVE  /\ base \in Installs
           /\ \/ UNCHANGED <<phase, cacheDir, writers>>
              \/ \E k \in Paths : /\ cacheDir[k] = None /\ cacheDir' = [cacheDir EXCEPT ![k] = Torn]
                                  /\ phase' = "writing" /\ writers' = writers \cup {base}
                                  /\ fpkData[k] # None /\ answer' = Answer("path", q, "cache", k)
           /\ \/ answer' = Answer("path", q, "loose", Norm[q])
              \/ answer' = Answer("path", q, "none", None)
              \/ \E k \in Paths : fpkData[k] # None /\ answer' = Answer("path", q, "cache", k)
<1> DEFINE p == Norm[q]
           k == ResolveFpkPath(p)
<1>0. base \in Installs
  BY DEF TypeOK, GetFileAsDiskPath
<1>1. CASE OnDisk(p) /\ answer' = Answer("path", q, "loose", p) /\ UNCHANGED <<phase, cacheDir, writers>>
  BY <1>0, <1>1
<1>2. CASE answer' = Answer("path", q, "none", None) /\ UNCHANGED <<phase, cacheDir, writers>>
  BY <1>0, <1>2
<1>3. CASE /\ k \in Paths /\ fpkData[k] # None /\ answer' = Answer("path", q, "cache", k)
           /\ \/ cacheDir[k] # None /\ UNCHANGED <<phase, cacheDir, writers>>
              \/ /\ cacheDir[k] = None /\ cacheDir' = [cacheDir EXCEPT ![k] = Torn]
                 /\ phase' = "writing" /\ writers' = writers \cup {base}
  <2> HIDE DEF k
  <2> QED BY <1>0, <1>3
<1> QED
  BY <1>1, <1>2, <1>3, DiskPathCases

\* The part of the types that concerns the call.
AnswerTypes ==
    /\ answer.op \in {"none", "has", "data", "path", "find"}
    /\ answer.op \in {"has", "data", "path"} => answer.path \in Paths
    /\ answer.op = "find" => answer.path \in Dirs
    /\ answer.source \in Sources /\ answer.found \subseteq Paths
    /\ phase = "writing" => answer.op = "path" /\ answer.source = "cache"
    /\ answer.source = "cache" => answer.key \in Paths /\ fpkData[answer.key] # None

\* The rest of them.
StateTypes ==
    /\ phase \in {"off", "indexing", "ready", "writing"}
    /\ base \in Installs \cup {None} /\ (phase # "off" => base # None)
    /\ archive \in 0 .. 4 /\ pos \in Nat
    /\ phase \in {"ready", "writing"} => archive = 4 /\ pos = 0
    /\ fpkData \in [Paths -> Data \cup {None}]
    /\ nameIndex \in [Names -> Paths \cup {None}]
    /\ diskCache \in [Paths -> {"unknown", "yes", "no"}]
    /\ cacheDir \in [Paths -> Data \cup {None, Torn}]
    /\ loose \subseteq LoosePaths
    /\ sessions \in 0 .. MaxSessions /\ edits \in 0 .. MaxEdits
    /\ writers \subseteq Installs /\ cut \subseteq Paths

LEMMA TypeParts == TypeOK <=> StateTypes /\ AnswerTypes
  BY DEF TypeOK, StateTypes, AnswerTypes

\* Every step keeps the types of the state.
LEMMA StateTypesStep == TypeOK /\ IndexByPriority /\ NamesByPriority /\ [Next]_vars => StateTypes'
<1> SUFFICES ASSUME TypeOK, IndexByPriority, NamesByPriority, [Next]_vars PROVE StateTypes'
  OBVIOUS
<1>0. StateTypes
  BY TypeParts
<1> USE VFSAssumption DEF VFSAssumption
<1>1. ASSUME NEW i \in Installs, StartSession(i) PROVE StateTypes'
  BY <1>0, <1>1 DEF StartSession, Forget, StateTypes
<1>2. CASE IndexEntry
  <2>1. /\ UNCHANGED <<phase, base, archive, diskCache, cacheDir, loose, history>>
        /\ pos' = pos + 1 /\ phase = "indexing" /\ archive \in Archives /\ base \in Installs
    BY <1>0, <1>2 DEF IndexEntry, StateTypes
  <2>2. Norm[Fpk[base][archive][pos + 1]] \in Paths
    <3>1. Len(Fpk[base][archive]) \in Nat /\ pos \in Nat /\ pos < Len(Fpk[base][archive])
      BY <1>0, <1>2, <2>1, FpkTypes DEF IndexEntry, StateTypes
    <3>2. pos + 1 \in 1 .. Len(Fpk[base][archive])
      BY <3>1
    <3> QED BY <2>1, <3>2, FpkTypes DEF PathOf
  <2>3. [by |-> base, archive |-> archive, pos |-> pos + 1] \in Data
    BY <1>0, <2>1 DEF Data, StateTypes
  <2>4. /\ fpkData' \in [Paths -> Data \cup {None}]
        /\ nameIndex' \in [Names -> Paths \cup {None}]
    BY <1>0, <1>2, <2>2, <2>3, NameTypes DEF IndexEntry, StateTypes
  <2> QED BY <1>0, <2>1, <2>4 DEF StateTypes, history
<1>3. CASE NextArchive
  BY <1>0, <1>3 DEF NextArchive, StateTypes, Archives, history
<1>4. CASE EndSession
  BY <1>0, <1>4, TypeParts DEF EndSession, Forget, StateTypes, AnswerTypes
<1>5. ASSUME NEW q \in Paths, HasFile(q) \/ GetFileData(q) PROVE StateTypes'
  BY <1>0, <1>5, NameTypes DEF HasFile, GetFileData, CheckDisk, StateTypes, index, history
<1>6. ASSUME NEW q \in Paths, GetFileAsDiskPath(q) PROVE StateTypes'
  <2>1. /\ diskCache' \in [Paths -> {"unknown", "yes", "no"}]
        /\ UNCHANGED <<index, loose, sessions, edits, cut>> /\ phase = "ready"
    BY <1>0, <1>6, DiskPathCases DEF StateTypes
  <2>2. /\ cacheDir' \in [Paths -> Data \cup {None, Torn}]
        /\ phase' \in {"ready", "writing"} /\ writers' \subseteq Installs
    <3>1. CASE UNCHANGED <<phase, cacheDir, writers>>
      BY <1>0, <2>1, <3>1 DEF StateTypes
    <3>2. ASSUME NEW k \in Paths, cacheDir' = [cacheDir EXCEPT ![k] = Torn],
                 phase' = "writing", writers' = writers \cup {base}, base \in Installs
          PROVE  /\ cacheDir' \in [Paths -> Data \cup {None, Torn}]
                 /\ phase' \in {"ready", "writing"} /\ writers' \subseteq Installs
      BY <1>0, <3>2 DEF StateTypes
    <3> QED BY <1>6, <3>1, <3>2, DiskPathEffect
  <2> QED BY <1>0, <2>1, <2>2 DEF StateTypes, index
<1>7. CASE StoreBuffer
  <2>1. answer.key \in Paths /\ fpkData[answer.key] \in Data
    BY <1>7 DEF StoreBuffer, TypeOK
  <2> QED BY <1>0, <1>7, <2>1 DEF StoreBuffer, StateTypes, index
<1>8. ASSUME NEW d \in Dirs, FindFiles(d) PROVE StateTypes'
  BY <1>0, <1>8 DEF FindFiles, StateTypes, index, history
<1>9. ASSUME NEW p \in LoosePaths, Edit(p) PROVE StateTypes'
  BY <1>0, <1>9 DEF Edit, StateTypes, index
<1>10. CASE UNCHANGED vars
  BY <1>0, <1>10 DEF vars, StateTypes, index, history
<1> QED
  BY <1>1, <1>2, <1>3, <1>4, <1>5, <1>6, <1>7, <1>8, <1>9, <1>10 DEF Next

\* Every step keeps the types of the call.
LEMMA AnswerTypesStep == TypeOK /\ IndexByPriority /\ NamesByPriority /\ [Next]_vars => AnswerTypes'
<1> SUFFICES ASSUME TypeOK, IndexByPriority, NamesByPriority, [Next]_vars PROVE AnswerTypes'
  OBVIOUS
<1>0. StateTypes /\ AnswerTypes
  BY TypeParts
<1> USE DEF Answer, NoAnswer, Sources
<1>1. ASSUME NEW i \in Installs, StartSession(i) PROVE AnswerTypes'
  BY <1>1 DEF StartSession, AnswerTypes
<1>2. CASE IndexEntry
  <2>1. UNCHANGED <<phase, answer>>
    BY <1>2 DEF IndexEntry
  <2>2. \A k \in Paths : fpkData[k] # None => fpkData'[k] # None
    <3>1. base \in Installs /\ archive \in Archives
      BY <1>0, <1>2 DEF StateTypes, IndexEntry
    <3>2. pos \in Nat
      BY <1>0 DEF StateTypes
    <3>3. [by |-> base, archive |-> archive, pos |-> pos + 1] \in Data
      BY <3>1, <3>2 DEF Data
    <3>4. [by |-> base, archive |-> archive, pos |-> pos + 1] # None
      BY <3>3, DataAssumption DEF DataAssumption
    <3> QED BY <1>0, <1>2, <3>4 DEF IndexEntry, StateTypes
  <2> QED BY <1>0, <2>1, <2>2 DEF AnswerTypes
<1>3. CASE NextArchive
  BY <1>0, <1>3 DEF NextArchive, AnswerTypes
<1>4. CASE EndSession
  BY <1>4 DEF EndSession, AnswerTypes
<1>5. ASSUME NEW q \in Paths, HasFile(q) \/ GetFileData(q) PROVE AnswerTypes'
  BY <1>5 DEF HasFile, GetFileData, DataSource, AnswerTypes
<1>6. ASSUME NEW q \in Paths, GetFileAsDiskPath(q) PROVE AnswerTypes'
  <2>1. UNCHANGED fpkData /\ phase = "ready"
    BY <1>6 DEF GetFileAsDiskPath, index
  <2>2. CASE \/ answer' = Answer("path", q, "loose", Norm[q])
             \/ answer' = Answer("path", q, "none", None)
    <3>1. phase' # "writing"
      BY <1>6, <2>1, <2>2, DiskPathEffect
    <3> QED BY <2>2, <3>1 DEF AnswerTypes
  <2>3. ASSUME NEW k \in Paths, fpkData[k] # None, answer' = Answer("path", q, "cache", k)
        PROVE  AnswerTypes'
    BY <2>1, <2>3 DEF AnswerTypes
  <2> QED BY <1>6, <2>2, <2>3, DiskPathEffect
<1>7. CASE StoreBuffer
  BY <1>0, <1>7 DEF StoreBuffer, AnswerTypes, index
<1>8. ASSUME NEW d \in Dirs, FindFiles(d) PROVE AnswerTypes'
  <2>1. Found(d) \subseteq Paths
    BY VFSAssumption DEF VFSAssumption, Found
  <2> QED BY <1>8, <2>1 DEF FindFiles, AnswerTypes
<1>9. ASSUME NEW p \in LoosePaths, Edit(p) PROVE AnswerTypes'
  BY <1>9 DEF Edit, AnswerTypes
<1>10. CASE UNCHANGED vars
  BY <1>0, <1>10 DEF vars, AnswerTypes, index
<1> QED
  BY <1>1, <1>2, <1>3, <1>4, <1>5, <1>6, <1>7, <1>8, <1>9, <1>10 DEF Next

-----------------------------------------------------------------------------
(* The two memories                                                          *)

\* Looking a path up remembers the right answer, unless the user has been at work.
LEMMA Looking ==
    ASSUME TypeOK, LookupsRight, NEW p \in Paths, CheckDisk(p), UNCHANGED <<edits, loose>>
    PROVE  /\ LookupsRight'
           /\ edits = 0 => (OnDisk(p) <=> p \in loose)
           /\ ~OnDisk(p) => diskCache'[p] = "no"
<1>1. diskCache \in [Paths -> {"unknown", "yes", "no"}]
  BY DEF TypeOK
<1>2. edits = 0 => (OnDisk(p) <=> p \in loose)
  BY <1>1 DEF LookupsRight, OnDisk
<1>3. LookupsRight'
  BY <1>1, <1>2 DEF LookupsRight, CheckDisk
<1> QED
  BY <1>1, <1>2, <1>3 DEF CheckDisk

\* Every step keeps the remembered lookups right.
LEMMA LookupsStep == TypeOK /\ LookupsRight /\ [Next]_vars => LookupsRight'
<1> SUFFICES ASSUME TypeOK, LookupsRight, [Next]_vars PROVE LookupsRight'
  OBVIOUS
<1>1. (\E i \in Installs : StartSession(i)) \/ EndSession => LookupsRight'
  BY DEF StartSession, EndSession, Forget, LookupsRight
<1>2. IndexEntry \/ NextArchive \/ StoreBuffer \/ (\E d \in Dirs : FindFiles(d)) \/ UNCHANGED vars
      => LookupsRight'
  <2>1. IndexEntry \/ NextArchive \/ StoreBuffer \/ (\E d \in Dirs : FindFiles(d)) \/ UNCHANGED vars
        => UNCHANGED <<diskCache, loose, edits>>
    BY DEF IndexEntry, NextArchive, StoreBuffer, FindFiles, vars, history
  <2> QED BY <2>1 DEF LookupsRight
<1>3. ASSUME NEW q \in Paths, HasFile(q) \/ GetFileData(q) \/ GetFileAsDiskPath(q)
      PROVE  LookupsRight'
  <2>1. Norm[q] \in Paths /\ CheckDisk(Norm[q]) /\ UNCHANGED <<edits, loose>>
    BY <1>3, NameTypes DEF HasFile, GetFileData, GetFileAsDiskPath, history
  <2> QED BY <2>1, Looking
<1>4. ASSUME NEW p \in LoosePaths, Edit(p) PROVE LookupsRight'
  <2>1. edits' # 0
    BY <1>4 DEF Edit, TypeOK
  <2> QED BY <2>1 DEF LookupsRight
<1> QED
  BY <1>1, <1>2, <1>3, <1>4 DEF Next

\* Every step keeps the call in order: only get_file_as_disk_path begins to write.
LEMMA CallStep == TypeOK /\ IndexByPriority /\ NamesByPriority /\ LookupsRight /\ CallRight /\ [Next]_vars
                  => CallRight'
<1> SUFFICES ASSUME TypeOK, IndexByPriority, NamesByPriority, LookupsRight, CallRight, [Next]_vars
             PROVE  CallRight'
  OBVIOUS
<1>1. (\E i \in Installs : StartSession(i)) \/ EndSession => CallRight'
  BY DEF StartSession, EndSession, NoAnswer, CallRight
<1>2. IndexEntry \/ NextArchive => CallRight'
  BY DEF IndexEntry, NextArchive, CallRight
<1>3. (\E q \in Paths : HasFile(q) \/ GetFileData(q)) \/ StoreBuffer
      \/ (\E d \in Dirs : FindFiles(d)) \/ (\E p \in LoosePaths : Edit(p)) => CallRight'
  <2>1. (\E q \in Paths : HasFile(q) \/ GetFileData(q)) \/ StoreBuffer
        \/ (\E d \in Dirs : FindFiles(d)) \/ (\E p \in LoosePaths : Edit(p)) => phase' = "ready"
    BY DEF HasFile, GetFileData, StoreBuffer, FindFiles, Edit
  <2> QED BY <2>1 DEF CallRight
<1>4. ASSUME NEW q \in Paths, GetFileAsDiskPath(q) PROVE CallRight'
  <2> DEFINE p == Norm[q]
             k == ResolveFpkPath(p)
  <2>1. /\ p \in Paths /\ phase = "ready" /\ CheckDisk(p)
        /\ UNCHANGED <<base, fpkData, nameIndex, edits, loose>>
    BY <1>4, NameTypes DEF GetFileAsDiskPath, index
  <2>2. edits = 0 => (OnDisk(p) <=> p \in loose)
    BY <2>1, Looking
  <2>3. ResolveFpkPath(p)' = k
    BY <2>1 DEF ResolveFpkPath
  <2>4. \/ phase' = "ready"
        \/ /\ phase' = "writing" /\ writers' = writers \cup {base} /\ ~OnDisk(p)
           /\ answer' = Answer("path", q, "cache", k)
    BY <1>4, <2>1, DiskPathCases
  <2>5. CASE phase' = "ready"
    BY <2>5 DEF CallRight
  <2>6. CASE /\ phase' = "writing" /\ writers' = writers \cup {base} /\ ~OnDisk(p)
             /\ answer' = Answer("path", q, "cache", k)
    <3>1. answer'.path = q /\ answer'.key = k
      BY <2>6 DEF Answer
    <3>2. base' \in writers'
      BY <2>1, <2>6
    <3>3. edits' = 0 => p \notin loose'
      BY <2>1, <2>2, <2>6
    <3>4. (ResolveFpkPath(Norm[answer.path]))' = k
      BY <2>3, <3>1 DEF ResolveFpkPath
    <3> QED BY <2>6, <3>1, <3>2, <3>3, <3>4 DEF CallRight
  <2> QED BY <2>4, <2>5, <2>6
<1>5. UNCHANGED vars => CallRight'
  BY DEF vars, index, history, CallRight, ResolveFpkPath
<1> QED
  BY <1>1, <1>2, <1>3, <1>4, <1>5 DEF Next

\* Every step keeps the files of the cache directory genuine.
LEMMA CacheStep == TypeOK /\ IndexByPriority /\ NamesByPriority /\ CallRight /\ CacheGenuine /\ [Next]_vars
                   => CacheGenuine'
<1> SUFFICES ASSUME TypeOK, IndexByPriority, NamesByPriority, CallRight, CacheGenuine, [Next]_vars
             PROVE  CacheGenuine'
  OBVIOUS
<1>0. cacheDir \in [Paths -> Data \cup {None, Torn}]
  BY DEF TypeOK
<1>1. (\E i \in Installs : StartSession(i)) \/ IndexEntry \/ NextArchive
      \/ (\E q \in Paths : HasFile(q) \/ GetFileData(q))
      \/ (\E d \in Dirs : FindFiles(d)) \/ (\E p \in LoosePaths : Edit(p)) => CacheGenuine'
  <2>1. (\E i \in Installs : StartSession(i)) \/ IndexEntry \/ NextArchive
        \/ (\E q \in Paths : HasFile(q) \/ GetFileData(q))
        \/ (\E d \in Dirs : FindFiles(d)) \/ (\E p \in LoosePaths : Edit(p))
        => UNCHANGED <<cacheDir, writers, cut>> /\ phase # "writing" /\ phase' # "writing"
    BY DEF StartSession, IndexEntry, NextArchive, HasFile, GetFileData, FindFiles, Edit, history
  <2> QED BY <2>1 DEF CacheGenuine, Writing
<1>2. EndSession => CacheGenuine'
  BY DEF EndSession, CacheGenuine, Writing
<1>3. ASSUME NEW q \in Paths, GetFileAsDiskPath(q) PROVE CacheGenuine'
  <2>1. phase = "ready" /\ UNCHANGED cut
    BY <1>3 DEF GetFileAsDiskPath
  <2>2. CASE UNCHANGED <<phase, cacheDir, writers>>
    BY <2>1, <2>2 DEF CacheGenuine, Writing
  <2>3. ASSUME NEW k \in Paths, cacheDir[k] = None, cacheDir' = [cacheDir EXCEPT ![k] = Torn],
               phase' = "writing", writers' = writers \cup {base}, answer' = Answer("path", q, "cache", k)
        PROVE  CacheGenuine'
    <3>1. answer'.key = k
      BY <2>3 DEF Answer
    <3> SUFFICES ASSUME NEW c \in Paths
                 PROVE  /\ cacheDir'[c] \in Data =>
                             /\ cacheDir'[c].by \in writers'
                             /\ IsLast(cacheDir'[c].by, {c}, 4, 0, cacheDir'[c])
                        /\ cacheDir'[c] = Torn <=> c \in cut' \/ (phase' = "writing" /\ answer'.key = c)
                        /\ phase' = "writing" /\ answer'.key = c => c \notin cut'
      BY DEF CacheGenuine, Writing
    <3>2. CASE c = k
      BY <1>0, <2>1, <2>3, <3>1, <3>2, DataAssumption DEF DataAssumption, CacheGenuine
    <3>3. CASE c # k
      BY <1>0, <2>1, <2>3, <3>1, <3>3 DEF CacheGenuine, Writing
    <3> QED BY <3>2, <3>3
  <2> QED BY <1>3, <2>2, <2>3, DiskPathEffect
<1>4. CASE StoreBuffer
  <2> DEFINE k == answer.key
  <2>1. /\ phase = "writing" /\ k \in Paths /\ fpkData[k] \in Data /\ fpkData[k] # None /\ base \in writers
        /\ archive = 4 /\ pos = 0 /\ writers' = writers /\ answer' = answer /\ phase' = "ready"
    BY <1>4 DEF StoreBuffer, TypeOK, CallRight
  <2>2. IsLast(base, {k}, 4, 0, fpkData[k]) /\ fpkData[k].by = base
    BY <2>1 DEF IndexByPriority, IsLast
  <2> SUFFICES ASSUME NEW c \in Paths
               PROVE  /\ cacheDir'[c] \in Data =>
                           /\ cacheDir'[c].by \in writers
                           /\ IsLast(cacheDir'[c].by, {c}, 4, 0, cacheDir'[c])
                      /\ cacheDir'[c] = Torn <=> c \in cut'
    BY <2>1 DEF CacheGenuine, Writing
  <2>3. CASE cacheDir' = [cacheDir EXCEPT ![k] = fpkData[k]] /\ cut' = cut
    <3> HIDE DEF k
    <3>1. CASE c = k
      BY <1>0, <2>1, <2>2, <2>3, <3>1, DataAssumption DEF DataAssumption, CacheGenuine, Writing, k
    <3>2. CASE c # k
      BY <1>0, <2>1, <2>3, <3>2 DEF CacheGenuine, Writing, k
    <3> QED BY <3>1, <3>2
  <2>4. CASE cut' = cut \cup {k} /\ UNCHANGED cacheDir
    BY <2>1, <2>4 DEF CacheGenuine, Writing
  <2> QED BY <1>4, <2>3, <2>4 DEF StoreBuffer
<1>5. UNCHANGED vars => CacheGenuine'
  BY DEF vars, history, CacheGenuine, Writing
<1> QED
  BY <1>1, <1>2, <1>3, <1>4, <1>5 DEF Next

-----------------------------------------------------------------------------
(* The answers                                                               *)

\* A call that is not get_file_data leaves its answer right.
LEMMA DataStep == TypeOK /\ IndexByPriority /\ NamesByPriority /\ LookupsRight /\ CallRight
                  /\ DataByPriority /\ [Next]_vars => DataByPriority'
<1> SUFFICES ASSUME TypeOK, IndexByPriority, NamesByPriority, LookupsRight, CallRight,
                    DataByPriority, [Next]_vars
             PROVE  DataByPriority'
  OBVIOUS
<1>1. ASSUME NEW q \in Paths, GetFileData(q) PROVE DataByPriority'
  <2> DEFINE p == Norm[q]
             k == ResolveFpkPath(p)
             Unnoticed == p \in loose => diskCache'[p] = "no" /\ edits > 0
  <2>1. /\ p \in Paths /\ phase = "ready" /\ CheckDisk(p)
        /\ answer' = Answer("data", q, DataSource(p)[1], DataSource(p)[2])
        /\ UNCHANGED <<phase, base, fpkData, loose, edits>> /\ edits \in Nat
    BY <1>1, NameTypes DEF GetFileData, index, history, TypeOK
  <2>2. ~(OnDisk(p) /\ p \in loose) => Unnoticed
    BY <2>1, Looking
  <2>3. CASE OnDisk(p) /\ p \in loose
    <3>1. answer' = Answer("data", q, "loose", p)
      BY <2>1, <2>3 DEF DataSource
    <3> QED BY <2>1, <2>3, <3>1 DEF Answer, DataByPriority
  <2>4. CASE ~(OnDisk(p) /\ p \in loose) /\ k # None
    <3>1. answer' = Answer("data", q, "archive", k)
      BY <2>1, <2>4 DEF DataSource
    <3>2. Best(p, fpkData[k])
      BY <2>1, <2>4, Resolving
    <3>3. answer'.op = "data" /\ answer'.path = q /\ answer'.source = "archive" /\ answer'.key = k
      BY <3>1 DEF Answer
    <3>4. (Best(Norm[answer.path], fpkData[answer.key]))'
      BY <2>1, <3>2, <3>3 DEF Best
    <3>5. (Norm[answer.path] \in loose => diskCache[Norm[answer.path]] = "no" /\ edits > 0)'
      BY <2>1, <2>2, <2>4, <3>3
    <3> HIDE DEF k
    <3> QED BY <3>3, <3>4, <3>5 DEF DataByPriority
  <2>5. CASE ~(OnDisk(p) /\ p \in loose) /\ k = None
    <3>1. answer' = Answer("data", q, "none", None)
      BY <2>1, <2>5 DEF DataSource
    <3>2. Missing(base, SameName(FileName[p]), 4, 0)
      BY <2>1, <2>5, Resolving
    <3> QED BY <2>1, <2>2, <2>5, <3>1, <3>2 DEF Answer, DataByPriority
  <2> QED BY <2>3, <2>4, <2>5
<1>2. (\E i \in Installs : StartSession(i)) \/ EndSession \/ IndexEntry => DataByPriority'
  BY DEF StartSession, EndSession, IndexEntry, DataByPriority
<1>3. NextArchive \/ StoreBuffer => DataByPriority'
  BY DEF NextArchive, StoreBuffer, CallRight, TypeOK, DataByPriority
<1>4. ASSUME NEW q \in Paths, HasFile(q) \/ GetFileAsDiskPath(q) PROVE DataByPriority'
  <2>1. answer'.op # "data"
    BY <1>4, DiskPathEffect DEF HasFile, Answer
  <2> QED BY <2>1 DEF DataByPriority
<1>5. (\E d \in Dirs : FindFiles(d)) \/ (\E p \in LoosePaths : Edit(p)) => DataByPriority'
  <2>1. (\E d \in Dirs : FindFiles(d)) => answer'.op = "find"
    BY DEF FindFiles, NoAnswer
  <2>2. (\E p \in LoosePaths : Edit(p)) => answer'.op = "none"
    BY DEF Edit, NoAnswer
  <2> QED BY <2>1, <2>2 DEF DataByPriority
<1>6. UNCHANGED vars => DataByPriority'
  BY DEF vars, index, history, DataByPriority, Best
<1> QED
  BY <1>1, <1>2, <1>3, <1>4, <1>5, <1>6 DEF Next

\* Two contents that are the best for a path are the same.
LEMMA BestUnique ==
    ASSUME NEW p \in Paths, base \in Installs, NEW d \in Data, NEW e \in Data, Best(p, d), Best(p, e)
    PROVE  d = e
  BY LastUnique DEF Best

\* A file of the cache directory that was written to its end is the best content of its path, if
\* only this install has written there.
LEMMA CachedIsBest ==
    ASSUME TypeOK, CacheGenuine, writers \subseteq {base},
           NEW k \in Paths, cacheDir[k] # None, cacheDir[k] # Torn,
           fpkData[k] \in Data, IsLast(base, {k}, 4, 0, fpkData[k])
    PROVE  cacheDir[k] = fpkData[k]
<1>1. cacheDir[k] \in Data /\ base \in Installs
  BY DEF TypeOK, CacheGenuine
<1>2. cacheDir[k].by = base /\ IsLast(base, {k}, 4, 0, cacheDir[k])
  BY <1>1 DEF CacheGenuine
<1> QED
  BY <1>1, <1>2, LastUnique

\* Every step keeps both views of a file equal.
LEMMA ViewsStep == TypeOK /\ IndexByPriority /\ NamesByPriority /\ LookupsRight /\ CallRight
                   /\ CacheGenuine /\ ViewsAgree /\ [Next]_vars => ViewsAgree'
<1> SUFFICES ASSUME TypeOK, IndexByPriority, NamesByPriority, LookupsRight, CallRight,
                    CacheGenuine, ViewsAgree, [Next]_vars
             PROVE  ViewsAgree'
  OBVIOUS
<1>1. ASSUME NEW q \in Paths, GetFileAsDiskPath(q) PROVE ViewsAgree'
  <2> DEFINE p == Norm[q]
             k == ResolveFpkPath(p)
  <2>1. /\ p \in Paths /\ phase = "ready" /\ CheckDisk(p)
        /\ UNCHANGED <<base, fpkData, loose, edits, cut>>
    BY <1>1, NameTypes DEF GetFileAsDiskPath, index
  <2>2. edits = 0 => (OnDisk(p) <=> p \in loose)
    BY <2>1, Looking
  <2> SUFFICES ASSUME phase' = "ready", writers' \subseteq {base}, edits = 0
               PROVE  /\ p \in loose <=> answer'.source = "loose"
                      /\ answer'.source = "cache" =>
                           IF answer'.key \in cut' THEN cacheDir'[answer'.key] = Torn
                           ELSE (Best(p, cacheDir[answer.key]))'
    <3>1. answer'.path = q
      BY <1>1, DiskPathEffect DEF Answer
    <3> QED BY <2>1, <3>1 DEF ViewsAgree, Best
  <2>3. \/ OnDisk(p) /\ answer' = Answer("path", q, "loose", p)
        \/ ~OnDisk(p) /\ answer' = Answer("path", q, "none", None)
        \/ /\ ~OnDisk(p) /\ k \in Paths /\ fpkData[k] \in Data /\ Best(p, fpkData[k])
           /\ IsLast(base, {k}, 4, 0, fpkData[k])
           /\ answer' = Answer("path", q, "cache", k)
           /\ cacheDir[k] # None /\ UNCHANGED <<cacheDir, writers>>
    BY <1>1, DiskPathCases
  <2>4. CASE OnDisk(p) /\ answer' = Answer("path", q, "loose", p)
    BY <2>2, <2>4 DEF Answer
  <2>5. CASE ~OnDisk(p) /\ answer' = Answer("path", q, "none", None)
    BY <2>2, <2>5 DEF Answer
  <2>6. CASE /\ ~OnDisk(p) /\ k \in Paths /\ fpkData[k] \in Data /\ Best(p, fpkData[k])
             /\ IsLast(base, {k}, 4, 0, fpkData[k])
             /\ answer' = Answer("path", q, "cache", k)
             /\ cacheDir[k] # None /\ UNCHANGED <<cacheDir, writers>>
    <3> HIDE DEF k
    <3>1. cacheDir[k] # Torn => cacheDir[k] = fpkData[k]
      BY <2>6, CachedIsBest
    <3>2. answer'.key = k /\ answer'.source = "cache" /\ cacheDir'[answer'.key] = cacheDir[k]
      BY <2>6 DEF Answer
    <3>3. cacheDir[k] # Torn => (Best(p, cacheDir[answer.key]))'
      BY <2>1, <2>6, <3>1, <3>2 DEF Best
    <3>4. (cacheDir[k] = Torn <=> k \in cut) /\ cut' = cut
      BY <2>1, <2>6 DEF CacheGenuine, Writing
    <3> QED BY <2>2, <2>6, <3>2, <3>3, <3>4
  <2> QED BY <2>3, <2>4, <2>5, <2>6
<1>2. CASE StoreBuffer
  <2> DEFINE p == Norm[answer.path]
             k == ResolveFpkPath(p)
  <2>1. /\ phase = "writing" /\ answer' = answer /\ answer.source = "cache" /\ answer.key = k
        /\ UNCHANGED <<base, loose, edits>> /\ answer.path \in Paths /\ k \in Paths
        /\ edits = 0 => p \notin loose
    BY <1>2 DEF StoreBuffer, TypeOK, CallRight, index
  <2>2. p \in Paths /\ k # None
    BY <2>1, NameTypes, VFSAssumption DEF VFSAssumption
  <2>3. Best(p, fpkData[k])
    BY <2>1, <2>2, Resolving
  <2> HIDE DEF k
  <2>4. cacheDir[k] = Torn /\ k \notin cut
    BY <2>1 DEF CacheGenuine, Writing
  <2>5. IF k \in cut' THEN cacheDir'[k] = Torn ELSE (Best(Norm[answer.path], cacheDir[answer.key]))'
    <3>1. CASE cut' = cut /\ cacheDir' = [cacheDir EXCEPT ![k] = fpkData[k]]
      <4>1. cacheDir'[k] = fpkData[k]
        BY <2>1, <3>1 DEF TypeOK
      <4> QED BY <2>1, <2>3, <2>4, <3>1, <4>1 DEF Best
    <3>2. CASE cut' = cut \cup {k} /\ cacheDir' = cacheDir
      BY <2>4, <3>2
    <3> QED BY <1>2, <2>1, <3>1, <3>2 DEF StoreBuffer
  <2>6. edits' = 0 => ((Norm[answer.path] \in loose)' <=> answer'.source = "loose")
    BY <2>1
  <2> QED BY <2>1, <2>5, <2>6 DEF ViewsAgree
<1>3. (\E i \in Installs : StartSession(i)) \/ EndSession \/ IndexEntry => ViewsAgree'
  BY DEF StartSession, EndSession, IndexEntry, ViewsAgree
<1>4. CASE NextArchive
  <2>1. answer'.op = "none"
    BY <1>4 DEF NextArchive, CallRight
  <2> QED BY <2>1 DEF ViewsAgree
<1>5. ASSUME NEW q \in Paths, HasFile(q) \/ GetFileData(q) PROVE ViewsAgree'
  <2>1. answer'.op # "path"
    BY <1>5 DEF HasFile, GetFileData, Answer
  <2> QED BY <2>1 DEF ViewsAgree
<1>6. (\E d \in Dirs : FindFiles(d)) \/ (\E p \in LoosePaths : Edit(p)) => ViewsAgree'
  <2>1. (\E d \in Dirs : FindFiles(d)) => answer'.op = "find"
    BY DEF FindFiles, NoAnswer
  <2>2. (\E p \in LoosePaths : Edit(p)) => answer'.op = "none"
    BY DEF Edit, NoAnswer
  <2> QED BY <2>1, <2>2 DEF ViewsAgree
<1>7. UNCHANGED vars => ViewsAgree'
  BY DEF vars, index, history, ViewsAgree, Best
<1> QED
  BY <1>1, <1>2, <1>3, <1>4, <1>5, <1>6, <1>7 DEF Next

\* Every step keeps what find_files listed readable.
LEMMA FoundStep == TypeOK /\ LookupsRight /\ CallRight /\ FoundIsServed /\ [Next]_vars => FoundIsServed'
<1> SUFFICES ASSUME TypeOK, LookupsRight, CallRight, FoundIsServed, [Next]_vars
             PROVE  FoundIsServed'
  OBVIOUS
<1>1. ASSUME NEW d \in Dirs, FindFiles(d) PROVE FoundIsServed'
  <2>1. /\ answer'.found = Found(d)
        /\ UNCHANGED <<phase, fpkData, nameIndex, diskCache, loose, edits>>
    BY <1>1 DEF FindFiles, NoAnswer, index, history
  <2>2. ASSUME NEW p \in Found(d)
        PROVE  DataSource(p)[1] # "none" \/ (p \in loose /\ diskCache[p] = "no" /\ edits > 0)
    <3>1. p \in Paths /\ p # None
      BY VFSAssumption DEF VFSAssumption, Found
    <3>2. CASE fpkData[p] # None
      <4>1. ResolveFpkPath(p) # None
        BY <3>1, <3>2 DEF ResolveFpkPath
      <4> QED BY <4>1 DEF DataSource
    <3>3. CASE p \in loose /\ OnDisk(p)
      BY <3>3 DEF DataSource
    <3>4. CASE p \in loose /\ ~OnDisk(p)
      <4>1. diskCache[p] = "no"
        BY <3>1, <3>4 DEF OnDisk, TypeOK
      <4>2. edits # 0 /\ edits \in Nat
        BY <3>1, <3>4, <4>1, VFSAssumption DEF LookupsRight, TypeOK, VFSAssumption
      <4> QED BY <3>4, <4>1, <4>2
    <3> QED BY <3>2, <3>3, <3>4 DEF Found
  <2> QED BY <2>1, <2>2 DEF FoundIsServed, DataSource, OnDisk, ResolveFpkPath
<1>2. (\E i \in Installs : StartSession(i)) \/ EndSession \/ IndexEntry => FoundIsServed'
  BY DEF StartSession, EndSession, IndexEntry, FoundIsServed
<1>3. CASE NextArchive
  <2>1. answer'.op = "none"
    BY <1>3 DEF NextArchive, CallRight
  <2> QED BY <2>1 DEF FoundIsServed
<1>4. ASSUME NEW q \in Paths, HasFile(q) \/ GetFileData(q) PROVE FoundIsServed'
  <2>1. answer'.op # "find"
    BY <1>4 DEF HasFile, GetFileData, Answer
  <2> QED BY <2>1 DEF FoundIsServed
<1>5. ASSUME NEW q \in Paths, GetFileAsDiskPath(q) PROVE FoundIsServed'
  <2>1. answer'.op = "path"
    BY <1>5 DEF GetFileAsDiskPath, ExtractToCache, Answer
  <2> QED BY <2>1 DEF FoundIsServed
<1>6. CASE StoreBuffer
  <2>1. answer'.op = "path"
    BY <1>6 DEF StoreBuffer, TypeOK
  <2> QED BY <2>1 DEF FoundIsServed
<1>7. ASSUME NEW p \in LoosePaths, Edit(p) PROVE FoundIsServed'
  <2>1. answer'.op = "none"
    BY <1>7 DEF Edit, NoAnswer
  <2> QED BY <2>1 DEF FoundIsServed
<1>8. UNCHANGED vars => FoundIsServed'
  BY DEF vars, index, history, FoundIsServed, DataSource, OnDisk, ResolveFpkPath
<1> QED
  BY <1>1, <1>2, <1>3, <1>4, <1>5, <1>6, <1>7, <1>8 DEF Next

-----------------------------------------------------------------------------
(* The theorems                                                              *)

\* The program starts in the invariant.
LEMMA InitIInv == Init => IInv
<1> SUFFICES ASSUME Init PROVE IInv
  OBVIOUS
<1>1. StateTypes /\ AnswerTypes
  <2>1. StateTypes
    <3>1. MaxSessions \in Nat /\ MaxEdits \in Nat
      BY VFSAssumption DEF VFSAssumption
    <3>2. cut \subseteq Paths
      BY DEF Init
    <3>3. /\ fpkData \in [Paths -> Data \cup {None}] /\ nameIndex \in [Names -> Paths \cup {None}]
          /\ diskCache \in [Paths -> {"unknown", "yes", "no"}]
          /\ cacheDir \in [Paths -> Data \cup {None, Torn}]
      BY DEF Init
    <3>4. /\ sessions \in 0 .. MaxSessions /\ edits \in 0 .. MaxEdits /\ archive \in 0 .. 4 /\ pos \in Nat
      BY <3>1 DEF Init
    <3> QED BY <3>2, <3>3, <3>4 DEF Init, StateTypes
  <2>2. AnswerTypes
    BY DEF Init, NoAnswer, Sources, AnswerTypes
  <2> QED BY <2>1, <2>2
<1>2. CacheGenuine
  BY DataAssumption DEF DataAssumption, Init, CacheGenuine, Writing
<1>3. /\ IndexByPriority /\ NamesByPriority /\ DataByPriority /\ ViewsAgree /\ FoundIsServed
      /\ LookupsRight /\ CallRight
  BY DEF Init, NoAnswer, IndexByPriority, NamesByPriority, DataByPriority, ViewsAgree, FoundIsServed,
         LookupsRight, CallRight
<1> QED
  BY <1>1, <1>2, <1>3, TypeParts DEF IInv

\* Every step keeps the invariant.
LEMMA NextIInv == IInv /\ [Next]_vars => IInv'
<1> SUFFICES ASSUME IInv, [Next]_vars PROVE IInv'
  OBVIOUS
<1>1. TypeOK'
  BY TypeParts, StateTypesStep, AnswerTypesStep, PTL DEF IInv
<1>2. IndexByPriority' /\ NamesByPriority'
  BY IndexStep DEF IInv
<1>3. LookupsRight' /\ CallRight' /\ CacheGenuine'
  BY LookupsStep, CallStep, CacheStep DEF IInv
<1>4. DataByPriority' /\ ViewsAgree' /\ FoundIsServed'
  BY DataStep, ViewsStep, FoundStep DEF IInv
<1> QED
  BY <1>1, <1>2, <1>3, <1>4 DEF IInv

\* The inductive invariant of VFS.gd: both indexes by priority, the answers by priority, the
\* cache directory genuine, the remembered lookups right.
THEOREM VFSInvariance == Spec => []IInv
<1>1. Init => IInv
  BY InitIInv
<1>2. IInv /\ [Next]_vars => IInv'
  BY NextIInv
<1> QED
  BY <1>1, <1>2, PTL DEF Spec

\* The variables keep their types; only files of the index are written to the cache directory.
THEOREM VFSTypeCorrect == Spec => []TypeOK
<1>1. IInv => TypeOK
  BY DEF IInv
<1> QED
  BY <1>1, VFSInvariance, PTL

\* initialize gives every path the content of the highest archive that has it, whatever the
\* archives hold and however their keys are spelled.
THEOREM IndexHolds == Spec => []IndexByPriority
<1>1. IInv => IndexByPriority
  BY DEF IInv
<1> QED
  BY <1>1, VFSInvariance, PTL

\* The fallback by file name leads to the content of the highest archive with such a file.
THEOREM NamesHold == Spec => []NamesByPriority
<1>1. IInv => NamesByPriority
  BY DEF IInv
<1> QED
  BY <1>1, VFSInvariance, PTL

\* After every entry that initialize reads both indexes are of their types and lead to the
\* content with the highest priority among what was read so far.
THEOREM IndexesHold == Spec => []IndexesSafe
<1>1. TypeOK /\ IndexByPriority /\ NamesByPriority => IndexesSafe
  BY DEF IndexesSafe
<1> QED
  BY <1>1, VFSTypeCorrect, IndexHolds, NamesHold, PTL

\* get_file_data serves what has priority, except for a loose file that came later than the
\* first lookup of its path.
THEOREM DataHolds == Spec => []DataByPriority
<1>1. IInv => DataByPriority
  BY DEF IInv
<1> QED
  BY <1>1, VFSInvariance, PTL

\* get_file_as_disk_path leads to the bytes get_file_data returns, under the two conditions
\* ViewsAgree names, and to a short file exactly if its write was cut short.
THEOREM ViewsHold == Spec => []ViewsAgree
<1>1. IInv => ViewsAgree
  BY DEF IInv
<1> QED
  BY <1>1, VFSInvariance, PTL

\* What find_files lists can be read.
THEOREM FoundHolds == Spec => []FoundIsServed
<1>1. IInv => FoundIsServed
  BY DEF IInv
<1> QED
  BY <1>1, VFSInvariance, PTL
=============================================================================
