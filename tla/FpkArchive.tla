----------------------------- MODULE FpkArchive -----------------------------
(***************************************************************************)
(* FPK_Loader.gd: the list of files at the head of an archive, an entry at  *)
(* a time, byte by byte.  The length of an entry's signature is not in the  *)
(* file: the end of the entry is found by searching backwards, in the 30    *)
(* bytes after its path, for "bsu", the next path's "art" with every byte   *)
(* one up, or for 03 00 00, where the files begin.                          *)
(***************************************************************************)
EXTENDS Integers, Sequences, FiniteSets, FiniteSetsExt

CONSTANTS
    Archives    \* records: magic, whether the header is one; bytes, what follows
                \* it; entries, the files as they were packed, name, data
                \* and where the entry begins; first, where the data of the
                \* first of them begins

VARIABLES
    fpk,        \* the archive, or NoArchive when none is being read
    entry,      \* how many entries were read
    pos,        \* the position in the file
    path,       \* the path of the entry being read, or NoPath between two
    preview,    \* the bytes after it
    filelist    \* the files read so far, data by path

fpkVars == <<fpk, entry, pos, path, preview, filelist>>

NoArchive == [magic |-> FALSE, bytes |-> <<>>, entries |-> <<>>, first |-> 0]
NoFiles == <<>>
NoPath == <<-1>>

Window == 30
Octet == 0..255

\* Positions count from 0; a read past the end returns what there is.
Bytes(at, n) ==
    IF at >= Len(fpk.bytes) THEN <<>>
    ELSE SubSeq(fpk.bytes, at + 1, at + Min({n, Len(fpk.bytes) - at}))
Byte(at) == IF at < Len(fpk.bytes) THEN fpk.bytes[at + 1] ELSE 0
Get32(at) == Byte(at) + 256 * Byte(at + 1) + 65536 * Byte(at + 2) + 16777216 * Byte(at + 3)
Rotated(s) == [i \in DOMAIN s |-> (s[i] + 255) % 256]

Marks(window, mark) ==
    {j \in 0..(Len(window) - 3) : SubSeq(window, j + 1, j + 3) = mark}
Bsu == <<98, 115, 117>>
EndOfList == <<3, 0, 0>>

\* Where the next path begins, or would begin, after this entry's path.
FoundIdx(window) ==
    LET bsu == Marks(window, Bsu)
        end == Marks(window, EndOfList)
    IN  IF bsu \cup end = {} THEN -1
        ELSE IF Max(bsu \cup end) \in bsu THEN Max(bsu \cup end) ELSE Max(end) + 4

FpkInit ==
    fpk = NoArchive /\ entry = 0 /\ pos = 0 /\ path = NoPath /\ preview = <<>> /\ filelist = NoFiles
Opened(a) ==
    fpk' = a /\ entry' = 0 /\ pos' = 0 /\ path' = NoPath /\ preview' = <<>> /\ filelist' = NoFiles
OpenArchive == \E a \in Archives : Opened(a)
CloseArchive == Opened(NoArchive)

\* One pass of the loop: the path and the bytes behind it, then the search
\* for the marker, the size and offset before it, and the data.
ReadPath ==
    /\ fpk.magic /\ entry < Len(fpk.entries) /\ path = NoPath
    /\ \E bytes \in {Bytes(pos + 4, Get32(pos))} :
        /\ path' = Rotated(bytes)
        /\ pos' = pos + 4 + Len(bytes)
    /\ preview' = Bytes(pos', Window)
    /\ UNCHANGED <<fpk, entry, filelist>>
With(f, x, y) == [z \in DOMAIN f \cup {x} |-> IF z = x THEN y ELSE f[z]]
SignatureLength == FoundIdx(preview) - 12
ReadData ==
    /\ path # NoPath /\ SignatureLength >= 0
    /\ LET sizeAt == pos + SignatureLength IN
        /\ filelist' = With(filelist, path, Bytes(Get32(sizeAt + 4), Get32(sizeAt)))
        /\ pos' = sizeAt + 8
    /\ entry' = entry + 1 /\ path' = NoPath /\ preview' = <<>>
    /\ UNCHANGED fpk
\* The loop is over, or left where a marker is missing or stands too early.
ListRead ==
    \/ ~fpk.magic
    \/ entry = Len(fpk.entries)
    \/ path # NoPath /\ SignatureLength < 0

\* Mutant: as many files as passes of the loop are taken for all files.
AcceptedAsRead == Cardinality(DOMAIN filelist) = entry
Accepted == Cardinality(DOMAIN filelist) = Len(fpk.entries)

-----------------------------------------------------------------------------
\* Where the path of the k-th file begins, or would if there were one, and where
\* it ends.
PathAt(k) == IF k > Len(fpk.entries) THEN fpk.first ELSE fpk.entries[k].at + 4
PathEnd(k) == PathAt(k) + Len(fpk.entries[k].name)
\* The markers in what the loader looks at behind the k-th path, counted from
\* where the next path begins.
Late(k) ==
    LET window == Bytes(PathEnd(k), Window)
    IN  {PathEnd(k) + j - PathAt(k + 1) : j \in Marks(window, Bsu) \cup Marks(window, EndOfList)}

\* What a 32-bit number is at least if its top byte is a character.
TextWord == 32 * 16777216

\* The layout that the loader relies on: names of text that differ, each entry
\* behind the last, at most 30 bytes from a path to the end of the marker.
Packed ==
    /\ fpk.bytes \in Seq(Octet) /\ Len(fpk.bytes) < TextWord
    /\ fpk.entries \in Seq(Range(fpk.entries))
    /\ fpk.entries # <<>> => fpk.entries[1].at = 0
    /\ \A i, k \in DOMAIN fpk.entries : fpk.entries[i].name = fpk.entries[k].name => i = k
    /\ \A k \in DOMAIN fpk.entries :
        LET e == fpk.entries[k]
            f == PathAt(k + 1)
        IN  /\ e.at \in Nat /\ e.name \in Seq(Octet)
            /\ Get32(e.at) = Len(e.name) /\ Rotated(Bytes(e.at + 4, Len(e.name))) = e.name
            /\ \A i \in PathAt(k)..(PathEnd(k) - 1) : Byte(i) >= 32
            /\ f \in Nat /\ f >= PathEnd(k) + 12
            /\ Bytes(Get32(f - 8), Get32(f - 12)) = e.data
            /\ IF k < Len(fpk.entries)
               THEN f + 3 <= PathEnd(k) + Window /\ Bytes(f, 3) = Bsu
               ELSE f - 1 <= PathEnd(k) + Window /\ Bytes(f - 4, 4) = EndOfList \o <<0>>
\* Markers behind their place lie in the next path, or nowhere.
Regular ==
    Packed /\ \A k \in 1..(Len(fpk.entries) - 1) :
        \A m \in Late(k) : m <= 0 \/ m + 3 <= Len(fpk.entries[k + 1].name)
Plain == Packed /\ \A k \in 1..(Len(fpk.entries) - 1) : \A m \in Late(k) : m <= 0

\* An archive that is accepted has every file's own data under its own name:
\* a marker found too late or too early is noticed, except at the last entry
\* where the first file's data looks like a marker.
AcceptedIsRight ==
    LET head == Bytes(fpk.first, Window)
        right(e) == e.name \in DOMAIN filelist /\ filelist[e.name] = e.data
        n == Len(fpk.entries)
    IN  fpk.magic /\ ListRead /\ Accepted =>
            \A k \in 1..n : \/ right(fpk.entries[k])
                            \/ k = n /\ Marks(head, Bsu) \cup Marks(head, EndOfList) # {}

\* An archive without a marker behind its place is accepted; at the last entry
\* such a marker does no harm to the number of files.
PlainIsAccepted == fpk.magic /\ ListRead /\ Plain => Accepted

\* The list that parse_fpk_filelist returns is the archive's or none, and it is
\* not none without a reason.
ListsRight == AcceptedIsRight /\ PlainIsAccepted
=============================================================================
