--------------------------------- MODULE VFS ---------------------------------
(***************************************************************************)
(* The virtual file system: loose files below the install's Assets folder   *)
(* over the four FPK archives, with two memories of different life: what    *)
(* the disk lookups found, kept for the session, and the files extracted to *)
(* user://vfs_cache, which outlive it.  Everything runs on Godot's main     *)
(* thread; the user's file manager, crashes and a full disk are the other   *)
(* actors.  "Mods/expansions override base" (VFS.gd:11) has no counterpart:  *)
(* the code looks for loose files in base_path/Assets and nowhere else.      *)
(***************************************************************************)
EXTENDS Naturals, Sequences

CONSTANTS
    Paths,       \* the spellings of paths, the normalised ones and bare names among them
    Norm,        \* what _normalize_path makes of each
    FileName,    \* its bare file name (get_file)
    Installs,    \* what original_folder_path can name
    Fpk,         \* the keys of each install's archives, in dictionary order
    LoosePaths,  \* where a loose file may lie
    Dirs,        \* what find_files is asked for: a prefix and an extension
    Prefixed,    \* the paths that begin and end accordingly
    Below,       \* those among them that lie in the directory the prefix names
    None, Torn,  \* nothing, and a file that was not written to its end
    MaxSessions, \* bound on the number of sessions
    MaxEdits     \* bound on the user's changes to loose files in a session

Archives == 0 .. 3
Names == {FileName[p] : p \in Paths}

ASSUME VFSAssumption ==
    /\ Norm \in [Paths -> Paths] /\ DOMAIN FileName = Paths
    /\ Fpk \in [Installs -> [Archives -> Seq(Paths)]]
    /\ LoosePaths \subseteq Paths
    /\ Prefixed \in [Dirs -> SUBSET Paths] /\ Below \in [Dirs -> SUBSET Paths]
    /\ None \notin Paths \cup Installs
    /\ MaxSessions \in Nat /\ MaxEdits \in Nat

\* The contents of archived files are known by where they come from.
Data == [by : Installs, archive : Archives, pos : Nat]
ASSUME DataAssumption == None \notin Data /\ Torn \notin Data /\ Torn # None

VARIABLES
    phase,      \* "off", "indexing", "ready", "writing" (in _extract_to_cache)
    base,       \* _base_path
    archive, pos, \* how far initialize has come: entries of the archive indexed
    fpkData,    \* _fpk_data: the content under each key, or None
    nameIndex,  \* _filename_index: the key for each bare name, or None
    diskCache,  \* _disk_path_cache: "yes", "no", or "unknown" if there is no entry
    cacheDir,   \* the files of user://vfs_cache, None where there is none
    loose,      \* the loose files below base_path/Assets
    answer,     \* the call in progress or last made, with what it returns
    sessions, edits, \* how many sessions, and changes in this one
    writers, cut     \* history: who has written to cacheDir; which writes were cut short

index == <<base, archive, pos, fpkData, nameIndex>>
history == <<sessions, edits, writers, cut>>
vars == <<phase, index, diskCache, cacheDir, loose, answer, history>>

NoAnswer == [op |-> "none", path |-> None, source |-> "none", key |-> None, found |-> {}]

Init ==
    /\ phase = "off" /\ base = None /\ archive = 0 /\ pos = 0
    /\ fpkData = [p \in Paths |-> None]
    /\ nameIndex = [f \in Names |-> None]
    /\ diskCache = [p \in Paths |-> "unknown"]
    /\ cacheDir = [p \in Paths |-> None]
    /\ loose = {} /\ answer = NoAnswer
    /\ sessions = 0 /\ edits = 0 /\ writers = {} /\ cut = {}

-----------------------------------------------------------------------------
(* The session, and initialize                                               *)

Forget ==
    /\ fpkData' = [p \in Paths |-> None]
    /\ nameIndex' = [f \in Names |-> None]
    /\ diskCache' = [p \in Paths |-> "unknown"]

\* initialize(base_path, ...): everything but the cache directory is cleared.
\* What lies below the install's Assets may be anything.
StartSession(i) ==
    /\ phase = "off" /\ sessions < MaxSessions
    /\ phase' = "indexing" /\ base' = i /\ archive' = 0 /\ pos' = 0
    /\ Forget
    /\ loose' \in SUBSET LoosePaths
    /\ answer' = NoAnswer
    /\ sessions' = sessions + 1 /\ edits' = 0
    /\ UNCHANGED <<cacheDir, writers, cut>>

\* Mutant: the name index keeps the first path of a name.
IndexEntryFirstName ==
    /\ phase = "indexing" /\ archive \in Archives
    /\ pos < Len(Fpk[base][archive])
    /\ LET p == Norm[Fpk[base][archive][pos + 1]] IN
       /\ fpkData' = [fpkData EXCEPT ![p] = [by |-> base, archive |-> archive, pos |-> pos + 1]]
       /\ nameIndex' = IF nameIndex[FileName[p]] # None THEN nameIndex
                       ELSE [nameIndex EXCEPT ![FileName[p]] = p]
    /\ pos' = pos + 1
    /\ UNCHANGED <<phase, base, archive, diskCache, cacheDir, loose, answer, history>>

\* The next key of the archive at hand goes into both indexes.
IndexEntry ==
    /\ phase = "indexing" /\ archive \in Archives
    /\ pos < Len(Fpk[base][archive])
    /\ LET p == Norm[Fpk[base][archive][pos + 1]] IN
       /\ fpkData' = [fpkData EXCEPT ![p] = [by |-> base, archive |-> archive, pos |-> pos + 1]]
       /\ nameIndex' = [nameIndex EXCEPT ![FileName[p]] = p]
    /\ pos' = pos + 1
    /\ UNCHANGED <<phase, base, archive, diskCache, cacheDir, loose, answer, history>>

\* Assets0, 1, 2, 3, in this order; then initialize is done.
NextArchive ==
    /\ phase = "indexing" /\ archive \in Archives
    /\ pos = Len(Fpk[base][archive])
    /\ archive' = archive + 1 /\ pos' = 0
    /\ phase' = IF archive = 3 THEN "ready" ELSE "indexing"
    /\ UNCHANGED <<base, fpkData, nameIndex, diskCache, cacheDir, loose, answer, history>>

\* The program ends: in order, or in the middle of anything.
EndSession ==
    /\ phase # "off"
    /\ phase' = "off" /\ base' = None /\ archive' = 0 /\ pos' = 0
    /\ Forget
    /\ answer' = NoAnswer /\ edits' = 0
    /\ cut' = IF phase = "writing" THEN cut \cup {answer.key} ELSE cut
    /\ UNCHANGED <<cacheDir, loose, sessions, writers>>

-----------------------------------------------------------------------------
(* Lookups, of a normalised path                                             *)

\* _check_disk: a lookup that was made before is not made again.
OnDisk(p) == diskCache[p] = "yes" \/ (diskCache[p] = "unknown" /\ p \in loose)
CheckDisk(p) == diskCache' = [diskCache EXCEPT ![p] = IF OnDisk(p) THEN "yes" ELSE "no"]

\* _resolve_fpk_path: the key itself, or the last one with its file name.
ResolveFpkPath(p) == IF fpkData[p] # None THEN p ELSE nameIndex[FileName[p]]

\* What a call returns: the source it is served from and the key there.
Answer(op, q, source, key) ==
    [op |-> op, path |-> q, source |-> source, key |-> key, found |-> {}]

HasFile(q) ==
    LET p == Norm[q] IN
    /\ phase = "ready"
    /\ CheckDisk(p)
    /\ answer' = Answer("has", q, IF OnDisk(p) THEN "loose"
                                  ELSE IF ResolveFpkPath(p) # None THEN "archive" ELSE "none",
                        None)
    /\ UNCHANGED <<phase, index, cacheDir, loose, history>>

\* Mutant: a loose file that cannot be opened is taken for a missing file.
DataSourceNoFallThrough(p) ==
    IF OnDisk(p) THEN IF p \in loose THEN <<"loose", p>> ELSE <<"none", None>>
    ELSE IF ResolveFpkPath(p) # None THEN <<"archive", ResolveFpkPath(p)>>
    ELSE <<"none", None>>

\* Where get_file_data takes the bytes of p from.  A file that was found once
\* and is gone cannot be opened, and the archives are next.
DataSource(p) ==
    IF OnDisk(p) /\ p \in loose THEN <<"loose", p>>
    ELSE IF ResolveFpkPath(p) # None THEN <<"archive", ResolveFpkPath(p)>>
    ELSE <<"none", None>>

\* get_file_data, and load_image_texture, which decodes what it gets.
GetFileData(q) ==
    LET p == Norm[q] IN
    /\ phase = "ready"
    /\ CheckDisk(p)
    /\ answer' = Answer("data", q, DataSource(p)[1], DataSource(p)[2])
    /\ UNCHANGED <<phase, index, cacheDir, loose, history>>

\* _extract_to_cache: a file that exists is taken as it is; the directory or the
\* file may fail to open, and opening it for writing empties it.
ExtractToCache(q, k) ==
    \/ /\ cacheDir[k] # None
       /\ answer' = Answer("path", q, "cache", k)
       /\ UNCHANGED <<phase, cacheDir, writers>>
    \/ /\ cacheDir[k] = None
       /\ answer' = Answer("path", q, "none", None)
       /\ UNCHANGED <<phase, cacheDir, writers>>
    \/ /\ cacheDir[k] = None
       /\ cacheDir' = [cacheDir EXCEPT ![k] = Torn]
       /\ phase' = "writing"
       /\ answer' = Answer("path", q, "cache", k)
       /\ writers' = writers \cup {base}

\* store_buffer and close.  Nobody looks at what store_buffer returns: on a
\* full disk the file is short and its path is returned all the same.
StoreBuffer ==
    /\ phase = "writing" /\ phase' = "ready"
    /\ \/ /\ cacheDir' = [cacheDir EXCEPT ![answer.key] = fpkData[answer.key]]
          /\ UNCHANGED cut
       \/ cut' = cut \cup {answer.key} /\ UNCHANGED cacheDir
    /\ UNCHANGED <<index, diskCache, loose, answer, sessions, edits, writers>>

\* Mutant: a file that has been extracted is not looked for on disk.
GetFileAsDiskPathCacheFirst(q) ==
    LET p == Norm[q]
        Cached == ResolveFpkPath(p) # None /\ cacheDir[ResolveFpkPath(p)] # None IN
    /\ phase = "ready"
    /\ CheckDisk(p)
    /\ \/ /\ OnDisk(p) /\ ~Cached
          /\ answer' = Answer("path", q, "loose", p)
          /\ UNCHANGED <<phase, cacheDir, writers>>
       \/ (Cached \/ ~OnDisk(p)) /\ ResolveFpkPath(p) # None /\ ExtractToCache(q, ResolveFpkPath(p))
       \/ /\ ~OnDisk(p) /\ ResolveFpkPath(p) = None
          /\ answer' = Answer("path", q, "none", None)
          /\ UNCHANGED <<phase, cacheDir, writers>>
    /\ UNCHANGED <<index, loose, sessions, edits, cut>>

\* get_file_as_disk_path: what was found on disk is not looked at again here.
GetFileAsDiskPath(q) ==
    LET p == Norm[q] IN
    /\ phase = "ready"
    /\ CheckDisk(p)
    /\ \/ /\ OnDisk(p)
          /\ answer' = Answer("path", q, "loose", p)
          /\ UNCHANGED <<phase, cacheDir, writers>>
       \/ ~OnDisk(p) /\ ResolveFpkPath(p) # None /\ ExtractToCache(q, ResolveFpkPath(p))
       \/ /\ ~OnDisk(p) /\ ResolveFpkPath(p) = None
          /\ answer' = Answer("path", q, "none", None)
          /\ UNCHANGED <<phase, cacheDir, writers>>
    /\ UNCHANGED <<index, loose, sessions, edits, cut>>

\* Mutant: find_files takes the loose files from what lookups found.
FoundRemembered(d) ==
    {p \in Prefixed[d] : fpkData[p] # None} \cup {p \in Below[d] : diskCache[p] = "yes"}

\* find_files: keys of the index by prefix, loose files by a scan of the directory.
Found(d) == {p \in Prefixed[d] : fpkData[p] # None} \cup (Below[d] \cap loose)

FindFiles(d) ==
    /\ phase = "ready"
    /\ answer' = [NoAnswer EXCEPT !.op = "find", !.path = d, !.found = Found(d)]
    /\ UNCHANGED <<phase, index, diskCache, cacheDir, loose, history>>

\* The user adds or removes a loose file between two calls.
Edit(p) ==
    /\ phase = "ready" /\ edits < MaxEdits
    /\ loose' = IF p \in loose THEN loose \ {p} ELSE loose \cup {p}
    /\ edits' = edits + 1 /\ answer' = NoAnswer
    /\ UNCHANGED <<phase, index, diskCache, cacheDir, sessions, writers, cut>>

Next ==
    \/ \E i \in Installs : StartSession(i)
    \/ IndexEntry \/ NextArchive \/ EndSession
    \/ \E q \in Paths : HasFile(q) \/ GetFileData(q) \/ GetFileAsDiskPath(q)
    \/ StoreBuffer
    \/ \E d \in Dirs : FindFiles(d)
    \/ \E p \in LoosePaths : Edit(p)

Spec == Init /\ [][Next]_vars

-----------------------------------------------------------------------------
(* What it promises                                                          *)

Sources == {"none", "loose", "archive", "cache"}

\* Type correctness: the variables keep their types, and what is written, and read from
\* the cache directory, is a file of the index (VFS.gd, initialize and _extract_to_cache).
TypeOK ==
    /\ phase \in {"off", "indexing", "ready", "writing"}
    /\ base \in Installs \cup {None} /\ (phase # "off" => base # None)
    /\ archive \in 0 .. 4 /\ pos \in Nat
    /\ phase \in {"ready", "writing"} => archive = 4 /\ pos = 0
    /\ fpkData \in [Paths -> Data \cup {None}]
    /\ nameIndex \in [Names -> Paths \cup {None}]
    /\ diskCache \in [Paths -> {"unknown", "yes", "no"}]
    /\ cacheDir \in [Paths -> Data \cup {None, Torn}]
    /\ loose \subseteq LoosePaths
    /\ answer.op \in {"none", "has", "data", "path", "find"}
    /\ answer.op \in {"has", "data", "path"} => answer.path \in Paths
    /\ answer.op = "find" => answer.path \in Dirs
    /\ answer.source \in Sources /\ answer.found \subseteq Paths
    /\ phase = "writing" => answer.op = "path" /\ answer.source = "cache"
    /\ answer.source = "cache" => answer.key \in Paths /\ fpkData[answer.key] # None
    /\ sessions \in 0 .. MaxSessions /\ edits \in 0 .. MaxEdits
    /\ writers \subseteq Installs /\ cut \subseteq Paths

\* The path of entry n of archive a, and whether it is among the entries up to n0 of archive a0.
PathOf(i, a, n) == Norm[Fpk[i][a][n]]
UpTo(a, n, a0, n0) == a < a0 \/ (a = a0 /\ n <= n0)

\* Of install i's entries up to n0 of a0, d is the content of the last one with a path in S.
IsLast(i, S, a0, n0, d) ==
    /\ d.by = i /\ d.archive \in Archives /\ d.pos \in 1 .. Len(Fpk[i][d.archive])
    /\ UpTo(d.archive, d.pos, a0, n0) /\ PathOf(i, d.archive, d.pos) \in S
    /\ \A a \in Archives : \A n \in 1 .. Len(Fpk[i][a]) :
         UpTo(a, n, a0, n0) /\ PathOf(i, a, n) \in S => UpTo(a, n, d.archive, d.pos)

Missing(i, S, a0, n0) ==
    \A a \in Archives : \A n \in 1 .. Len(Fpk[i][a]) :
        UpTo(a, n, a0, n0) => PathOf(i, a, n) \notin S

SameName(f) == {p \in Paths : FileName[p] = f}

\* The index has exactly the paths of the archives read so far, each with the content of the
\* highest archive that has it, however it is spelled there (VFS.gd:13, "Assets3 > Assets2 > Assets1 > Assets0").
IndexByPriority ==
    phase # "off" => \A p \in Paths :
        IF fpkData[p] = None THEN Missing(base, {p}, archive, pos)
        ELSE IsLast(base, {p}, archive, pos, fpkData[p])

\* The fallback leads to a path of that name, whose content is that of the highest archive
\* with any file of the name; it fails only if there is no such file (VFS.gd, _resolve_fpk_path).
NamesByPriority ==
    phase # "off" => \A f \in Names :
        IF nameIndex[f] = None THEN Missing(base, SameName(f), archive, pos)
        ELSE /\ fpkData[nameIndex[f]] # None
             /\ IsLast(base, SameName(f), archive, pos, fpkData[nameIndex[f]])

\* The state that initialize builds entry by entry, and every lookup relies on, is of its type
\* and right after each assignment (VFS.gd:68-81): both indexes lead to the highest archive.
IndexesSafe == TypeOK /\ IndexByPriority /\ NamesByPriority

\* The archived content for path p: by its full path, else by its file name.
Best(p, d) ==
    IF Missing(base, {p}, 4, 0) THEN IsLast(base, SameName(FileName[p]), 4, 0, d)
    ELSE IsLast(base, {p}, 4, 0, d)

\* get_file_data serves a loose file if there is one, else the best archived content; the one way
\* it can go wrong is a loose file that appeared after the path was first looked up (VFS.gd:173).
DataByPriority ==
    phase = "ready" /\ answer.op = "data" =>
        LET p == Norm[answer.path]
            Unnoticed == p \in loose => diskCache[p] = "no" /\ edits > 0 IN
        /\ answer.source = "loose" => p \in loose /\ answer.key = p
        /\ answer.source = "archive" => Unnoticed /\ Best(p, fpkData[answer.key])
        /\ answer.source = "none" => Unnoticed /\ Missing(base, SameName(FileName[p]), 4, 0)

\* A disk path leads to the same bytes as get_file_data returns, as long as only this install's
\* sessions have filled the cache directory and nobody changed loose files under the session
\* (VFS.gd, get_file_as_disk_path and _extract_to_cache).  The exception is a file whose write was
\* cut short, by the end of a session or a full disk: it is served, short, from then on (VFS.gd:272).
ViewsAgree ==
    /\ phase = "ready" /\ answer.op = "path"
    /\ writers \subseteq {base} /\ edits = 0
    => LET p == Norm[answer.path] IN
       /\ p \in loose <=> answer.source = "loose"
       /\ answer.source = "cache" =>
            IF answer.key \in cut THEN cacheDir[answer.key] = Torn
            ELSE Best(p, cacheDir[answer.key])

\* Every file find_files lists can be read, but for a loose one whose absence was remembered
\* before it appeared (AssetCycler.gd:85 and 233 rely on it).
FoundIsServed ==
    phase = "ready" /\ answer.op = "find" =>
        \A p \in answer.found :
            \/ DataSource(p)[1] # "none"
            \/ p \in loose /\ diskCache[p] = "no" /\ edits > 0

-----------------------------------------------------------------------------
(* The inductive invariant of VFSProofs                                      *)

\* A file of the cache directory is the content of its path in an install that
\* wrote there, or was cut short, once and for all, or is being written.
Writing(k) == phase = "writing" /\ answer.key = k

CacheGenuine ==
    \A k \in Paths :
        /\ cacheDir[k] \in Data =>
             cacheDir[k].by \in writers /\ IsLast(cacheDir[k].by, {k}, 4, 0, cacheDir[k])
        /\ cacheDir[k] = Torn <=> k \in cut \/ Writing(k)
        /\ Writing(k) => k \notin cut

\* Without edits the remembered lookups are right.
LookupsRight ==
    edits = 0 => \A p \in Paths : /\ diskCache[p] = "yes" => p \in loose
                                  /\ diskCache[p] = "no" => p \notin loose

\* A call is made after initialize, and what is being written is what it asked for.
CallRight ==
    /\ phase \in {"off", "indexing"} => answer.op = "none"
    /\ phase = "writing" =>
         /\ answer.key = ResolveFpkPath(Norm[answer.path]) /\ base \in writers
         /\ edits = 0 => Norm[answer.path] \notin loose

IInv ==
    /\ TypeOK /\ IndexByPriority /\ NamesByPriority /\ DataByPriority /\ ViewsAgree
    /\ FoundIsServed /\ CacheGenuine /\ LookupsRight /\ CallRight

-----------------------------------------------------------------------------
(* What the comments say and the code does not do                            *)

\* "For FPK files: extracts to a cache directory and returns the cache path", VFS.gd:150, and "Cached files
\* persist for the session", VFS.gd:266: the file behind the path is the archive's.
CacheServesArchive ==
    phase = "ready" /\ answer.op = "path" /\ answer.source = "cache" /\ answer.key \notin cut =>
        cacheDir[answer.key] = fpkData[answer.key]
=============================================================================
