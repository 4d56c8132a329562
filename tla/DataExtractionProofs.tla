------------------------ MODULE DataExtractionProofs ------------------------
(***************************************************************************)
(* Proofs about DataExtraction, for any number of infos of each type, any   *)
(* buffer and any number of queries: what a script that ran to its end is   *)
(* answered with, how far the rows of one that failed can reach, and that   *)
(* no failure is taken for data.                                            *)
(***************************************************************************)
EXTENDS DataExtraction, OrderLemmas

-----------------------------------------------------------------------------
(* Layouts, rows, and the place of a row's fields in the text a script writes. *)

Width(t) == Len(Layout(t))

\* What is used of the nine layouts.
LEMMA Layouts ==
    ASSUME NEW t \in Types
    PROVE  /\ Layout(t) \in Seq({"text", "number"}) /\ Width(t) \in {1, 3, 4}
           /\ Parsed(t) \subseteq 1 .. Width(t)
           /\ \A i \in Parsed(t) : Layout(t)[i] = "number"
           /\ Width(t) = 1 => Layout(t)[1] = "text"
<1>1. t \in {"tech", "building", "unit", "promotion", "bonus", "civilization",
             "era", "unit_art", "building_art"}
  BY ExtractionAssumption
<1>2. CASE t = "tech"
  BY <1>2 DEF Layout, Width, Parsed
<1>3. CASE t = "building"
  BY <1>3 DEF Layout, Width, Parsed
<1>4. CASE t = "unit"
  BY <1>4 DEF Layout, Width, Parsed
<1>5. CASE t \in {"unit_art", "building_art"}
  <2>1. CASE t = "unit_art"
    BY <2>1 DEF Layout, Width, Parsed
  <2>2. CASE t = "building_art"
    BY <2>2 DEF Layout, Width, Parsed
  <2> QED  BY <1>5, <2>1, <2>2
<1>6. CASE t \in {"promotion", "bonus", "civilization", "era"}
  <2>1. t # "tech" /\ t # "building" /\ t # "unit" /\ t # "unit_art" /\ t # "building_art"
    BY <1>6
  <2>2. Layout(t) = <<"text">> /\ Parsed(t) = {}
    BY <2>1 DEF Layout, Parsed
  <2> QED  BY <2>2 DEF Width
<1> QED  BY <1>1, <1>2, <1>3, <1>4, <1>5, <1>6

Fields == [by : 0 .. MaxQueries, row : Nat,
           kind : {"text", "number", "gap", "missing", "error", "sentence"}, last : BOOLEAN]
RowFields == [by : 0 .. MaxQueries, row : Nat, kind : {"text", "number"}, last : BOOLEAN]

\* A row has the fields of its layout, and the last of them ends the line.
LEMMA Rows ==
    ASSUME NEW t \in Types, NEW q \in 0 .. MaxQueries, NEW r \in Nat
    PROVE  /\ Row(q, t, r) \in Seq(RowFields) /\ Len(Row(q, t, r)) = Width(t)
           /\ \A c \in 1 .. Width(t) :
                  /\ Row(q, t, r)[c].by = q /\ Row(q, t, r)[c].kind = Layout(t)[c]
                  /\ (Row(q, t, r)[c].last <=> c = Width(t))
<1>1. Layout(t) \in Seq({"text", "number"}) /\ Width(t) \in Nat
      /\ DOMAIN Layout(t) = 1 .. Width(t)
  BY Layouts DEF Width
<1>2. \A c \in 1 .. Width(t) : Layout(t)[c] \in {"text", "number"}
  BY <1>1
<1>3. Row(q, t, r) = [c \in 1 .. Width(t) |-> Field(q, r, Layout(t)[c], c = Width(t))]
  BY <1>1 DEF Row, Width
<1>4. \A c \in 1 .. Width(t) : Field(q, r, Layout(t)[c], c = Width(t)) \in RowFields
  BY <1>2 DEF Field, RowFields
<1>5. Row(q, t, r) \in [1 .. Width(t) -> RowFields]
  <2> DEFINE g(c) == Field(q, r, Layout(t)[c], c = Width(t))
  <2>1. Row(q, t, r) = [c \in 1 .. Width(t) |-> g(c)]
    BY <1>3
  <2>2. \A c \in 1 .. Width(t) : g(c) \in RowFields
    BY <1>4
  <2> HIDE DEF g
  <2> QED  BY <2>1, <2>2
<1>6. Row(q, t, r) \in Seq(RowFields) /\ Len(Row(q, t, r)) = Width(t)
  BY <1>1, <1>5
<1>7. ASSUME NEW c \in 1 .. Width(t)
      PROVE  Row(q, t, r)[c] = Field(q, r, Layout(t)[c], c = Width(t))
  BY <1>3
<1>8. ASSUME NEW c \in 1 .. Width(t)
      PROVE  /\ Row(q, t, r)[c].by = q /\ Row(q, t, r)[c].kind = Layout(t)[c]
             /\ (Row(q, t, r)[c].last <=> c = Width(t))
  <2>1. ASSUME NEW kind, NEW b \in BOOLEAN
        PROVE  /\ Field(q, r, kind, b).by = q /\ Field(q, r, kind, b).kind = kind
               /\ (Field(q, r, kind, b).last <=> b)
    BY DEF Field
  <2>2. (c = Width(t)) \in BOOLEAN
    OBVIOUS
  <2>3. /\ Field(q, r, Layout(t)[c], c = Width(t)).by = q
        /\ Field(q, r, Layout(t)[c], c = Width(t)).kind = Layout(t)[c]
        /\ (Field(q, r, Layout(t)[c], c = Width(t)).last <=> c = Width(t))
    BY <2>1, <2>2, Zenon
  <2> QED  BY <1>7, <2>3, Zenon
<1> QED  BY <1>6, <1>8

\* The i-th field of the text of query q for type t.
OwnField(q, t, i) == Row(q, t, ((i - 1) \div Width(t)) + 1)[((i - 1) % Width(t)) + 1]

\* The fields of row r + 1 follow the first r rows in the query's text.
LEMMA FieldOfRow ==
    ASSUME NEW t \in Types, NEW q \in 0 .. MaxQueries, NEW r \in Nat,
           NEW c \in 1 .. Width(t)
    PROVE  /\ r * Width(t) \in Nat /\ (r + 1) * Width(t) = r * Width(t) + Width(t)
           /\ OwnField(q, t, r * Width(t) + c) = Row(q, t, r + 1)[c]
<1>1. Width(t) \in {1, 3, 4}
  BY Layouts
<1>2. /\ r * Width(t) \in Nat /\ (r + 1) * Width(t) = r * Width(t) + Width(t)
      /\ (r * Width(t) + c - 1) \div Width(t) = r
      /\ (r * Width(t) + c - 1) % Width(t) = c - 1
  <2>1. CASE Width(t) = 1
    BY <2>1
  <2>2. CASE Width(t) = 3
    BY <2>2
  <2>3. CASE Width(t) = 4
    BY <2>3
  <2> QED  BY <1>1, <2>1, <2>2, <2>3
<1>3. c \in Nat /\ c - 1 + 1 = c
  BY <1>1
<1> QED  BY <1>2, <1>3 DEF OwnField

\* Every field of the query's text is its own.
LEMMA OwnFields ==
    ASSUME NEW t \in Types, NEW q \in 0 .. MaxQueries, NEW i \in Nat \ {0}
    PROVE  OwnField(q, t, i) \in RowFields /\ OwnField(q, t, i).by = q
<1>1. Width(t) \in {1, 3, 4}
  BY Layouts
<1>2. ((i - 1) \div Width(t)) + 1 \in Nat /\ ((i - 1) % Width(t)) + 1 \in 1 .. Width(t)
  <2>1. CASE Width(t) = 1
    BY <2>1
  <2>2. CASE Width(t) = 3
    BY <2>2
  <2>3. CASE Width(t) = 4
    BY <2>3
  <2> QED  BY <1>1, <2>1, <2>2, <2>3
<1> QED  BY <1>1, <1>2, Rows DEF OwnField

-----------------------------------------------------------------------------
(* Files and buffers.                                                         *)

\* What a text is after a file object has written to it.
LEMMA OverlayText ==
    ASSUME NEW text \in Seq(Fields), NEW pos \in Nat, NEW fields \in Seq(Fields)
    PROVE  LET new == Overlay(text, pos, fields)
               end == pos + Len(fields)
           IN  /\ new \in Seq(Fields)
               /\ Len(new) = IF fields # <<>> /\ end > Len(text) THEN end ELSE Len(text)
               /\ \A i \in 1 .. Len(new) :
                      new[i] = IF i > pos /\ i <= end THEN fields[i - pos]
                               ELSE IF i <= Len(text) THEN text[i] ELSE Gap
<1>1. CASE fields = <<>>
  BY <1>1 DEF Overlay
<1>2. CASE fields # <<>>
  <2> DEFINE end == pos + Len(fields)
             n == IF Len(text) > end THEN Len(text) ELSE end
             g(i) == IF i > pos /\ i <= end THEN fields[i - pos]
                     ELSE IF i <= Len(text) THEN text[i] ELSE Gap
  <2>1. n \in Nat /\ Len(text) \in Nat /\ Len(fields) \in Nat /\ end \in Nat
    OBVIOUS
  <2>2. Gap \in Fields
    BY ExtractionAssumption DEF Gap, Field, Fields
  <2>3. \A i \in 1 .. n : g(i) \in Fields
    <3> TAKE i \in 1 .. n
    <3>1. CASE i > pos /\ i <= end
      <4>1. i - pos \in 1 .. Len(fields)
        BY <2>1, <3>1
      <4> QED  BY <3>1, <4>1
    <3>2. CASE ~(i > pos /\ i <= end) /\ i <= Len(text)
      BY <2>1, <3>2
    <3>3. CASE ~(i > pos /\ i <= end) /\ ~(i <= Len(text))
      BY <2>2, <3>3
    <3> QED  BY <3>1, <3>2, <3>3
  <2>4. Overlay(text, pos, fields) = [i \in 1 .. n |-> g(i)]
    BY <1>2 DEF Overlay
  <2>5. /\ Overlay(text, pos, fields) \in Seq(Fields)
        /\ Len(Overlay(text, pos, fields)) = n
        /\ \A i \in 1 .. n : Overlay(text, pos, fields)[i] = g(i)
    <3> HIDE DEF g, n
    <3> QED  BY <2>1, <2>3, <2>4
  <2> QED  BY <1>2, <2>1, <2>5
<1> QED  BY <1>1, <1>2

\* What Write leaves in the buffer fits it.
LEMMA Flushed ==
    ASSUME NEW n \in Nat \ {0}
    PROVE  LET out == ((n - 1) \div Buf) * Buf
           IN  out \in Nat /\ out <= n /\ n - out <= Buf
<1> DEFINE d == (n - 1) \div Buf
           m == (n - 1) % Buf
<1>1. Buf \in Nat /\ Buf > 0
  BY ExtractionAssumption
<1>2. d \in Nat /\ m \in 0 .. (Buf - 1) /\ n - 1 = Buf * d + m
  BY <1>1
<1>3. d * Buf = Buf * d /\ Buf * d \in Nat
  BY <1>1, <1>2
<1> HIDE DEF d, m
<1>4. d * Buf \in Nat /\ d * Buf <= n /\ n - d * Buf <= Buf
  BY <1>1, <1>2, <1>3
<1> QED  BY <1>4 DEF d

-----------------------------------------------------------------------------
(* The inductive invariant.                                                   *)

Own(i) == OwnField(query.id, query.type, i)
OwnWidth == Width(query.type)

\* The first n fields of the file are the query's own.
OwnUpTo(n) == n <= Len(file) /\ \A i \in 1 .. n : file[i] = Own(i)

\* What lies behind them was never written or is from the buffer of the script
\* whose file object this query's script replaced.
FromBefore(i) ==
    before.open /\ file[i].by = before.by /\ i <= before.pos + Len(before.pending)
LeftBehind(n) == \A i \in DOMAIN file : i > n => file[i].kind = "gap" \/ FromBefore(i)

Typed ==
    /\ TypeOK
    /\ file \in Seq(Fields)
    /\ DOMAIN answer = {"ok", "items"}
    /\ query.all => query.hit
    /\ \A j \in DOMAIN f.pending : f.pending[j].by = f.by

\* How a script ended is known in the phase "read" only.
Stages ==
    /\ phase \in {"script", "writing"} => outcome = "none"
    /\ phase = "read" => outcome # "none"
    /\ phase # "idle" => query.id > 0
    /\ phase = "script" => written = 0

\* While the script writes, its rows are in the file and on in the buffer.
Progress ==
    phase = "writing" =>
        /\ f.open /\ f.by = query.id /\ written <= Due
        /\ f.pos + Len(f.pending) = written * OwnWidth
        /\ OwnUpTo(f.pos) /\ LeftBehind(f.pos)
        /\ \A j \in DOMAIN f.pending : f.pending[j] = Own(f.pos + j)

Complete ==
    phase = "read" /\ outcome = "done" =>
        IF query.hit THEN OwnUpTo(Due * OwnWidth) /\ LeftBehind(Due * OwnWidth)
        ELSE file # <<>> /\ file[1].kind = "missing"

Handled == phase = "read" /\ outcome = "handled" => file = Word("error")

Results == OwnRowsFirst /\ ForeignOnlyLeftOver /\ AnswerToFailure

IInv == Typed /\ Stages /\ Progress /\ Complete /\ Handled /\ Results

\* It holds at first, when nothing has been asked or answered.
LEMMA InitHolds == Init => IInv
<1> SUFFICES ASSUME Init PROVE IInv
  OBVIOUS
<1>1. query.type \in Types
  BY ExtractionAssumption DEF Init
<1>2. NoFile \in FileObject
  BY ExtractionAssumption DEF NoFile, FileObject
<1>3. Typed
  BY <1>1, <1>2, ExtractionAssumption DEF Init, Typed, TypeOK, NoFile, Failed
<1> QED  BY <1>3 DEF Init, IInv, Stages, Progress, Complete, Handled, Results, OwnRowsFirst,
            ForeignOnlyLeftOver, AnswerToFailure, Answered

\* Of the answer nothing is said before the parser has run.
LEMMA NotYetAnswered == phase' # "idle" => Results'
  BY DEF Results, OwnRowsFirst, ForeignOnlyLeftOver, AnswerToFailure, Answered

\* A refused type touches neither interpreter nor file.
LEMMA RefuseStep == IInv /\ Refuse => IInv'
<1> SUFFICES ASSUME IInv, Refuse PROVE IInv'
  OBVIOUS
<1> USE DEF Refuse, Failed
<1>1. Typed'
  BY DEF IInv, Typed, TypeOK
<1>2. Results'
  BY DEF Results, OwnRowsFirst, ForeignOnlyLeftOver, AnswerToFailure, Answered
<1> QED  BY <1>1, <1>2 DEF IInv, Stages, Progress, Complete, Handled

\* A new query has written nothing and been answered with nothing.
LEMMA AskStep == IInv /\ Ask => IInv'
<1> SUFFICES ASSUME IInv, Ask PROVE IInv'
  OBVIOUS
<1>1. Typed'
  <2>1. PICK t \in Types, all \in BOOLEAN, hit \in BOOLEAN :
            /\ all => hit
            /\ query' = [id |-> query.id + 1, type |-> t, all |-> all, hit |-> hit]
    BY DEF Ask
  <2>2. query.id + 1 \in 0 .. MaxQueries
    BY ExtractionAssumption DEF Ask, IInv, Typed, TypeOK
  <2>3. query' \in [id : 0 .. MaxQueries, type : Types, all : BOOLEAN, hit : BOOLEAN]
        /\ (query'.all => query'.hit)
    BY <2>1, <2>2
  <2> QED  BY <2>3 DEF Ask, Failed, IInv, Typed, TypeOK
<1>2. Results'
  BY NotYetAnswered DEF Ask
<1>3. query'.id > 0
  BY DEF Ask, IInv, Typed, TypeOK
<1> QED  BY <1>1, <1>2, <1>3 DEF Ask, IInv, Stages, Progress, Complete, Handled

\* A script that breaks leaves file and f as they are.
LEMMA BreakStep == IInv /\ Break => IInv'
<1> SUFFICES ASSUME IInv, Break PROVE IInv'
  OBVIOUS
<1>1. Typed'
  BY DEF Break, IInv, Typed, TypeOK
<1>2. Results'
  BY NotYetAnswered DEF Break
<1> QED  BY <1>1, <1>2 DEF Break, MayFail, IInv, Stages, Progress, Complete, Handled

\* Nor does a result that cannot be opened change them.
LEMMA UnreadableStep == IInv /\ Unreadable => IInv'
<1> SUFFICES ASSUME IInv, Unreadable PROVE IInv'
  OBVIOUS
<1>1. Typed'
  BY DEF Unreadable, IInv, Typed, TypeOK
<1>2. Results'
  BY NotYetAnswered DEF Unreadable
<1> QED  BY <1>1, <1>2 DEF Unreadable, IInv, Stages, Progress, Complete, Handled

\* A word is a line of one field.
LEMMA Words ==
    ASSUME Typed, NEW k \in {"missing", "error", "sentence"}
    PROVE  /\ Word(k) \in Seq(Fields) /\ Len(Word(k)) = 1
           /\ Word(k)[1].kind = k /\ Word(k)[1].last /\ Word(k)[1].by = query.id
  BY DEF Word, Field, Fields, Typed, TypeOK

\* The handler replaces the text by its error.
LEMMA HandleStep == IInv /\ Handle => IInv'
<1> SUFFICES ASSUME IInv, Handle PROVE IInv'
  OBVIOUS
<1>1. Word("error") \in Seq(Fields)
  BY Words DEF IInv
<1>2. Typed'
  BY <1>1 DEF Handle, IInv, Typed, TypeOK
<1>3. Results'
  BY NotYetAnswered DEF Handle
<1>4. Handled'
  BY DEF Handle, Handled, Word
<1> QED  BY <1>2, <1>3, <1>4 DEF Handle, MayFail, IInv, Stages, Progress, Complete

\* File objects have positions and buffers of row fields.
LEMMA Buffers ==
    ASSUME Typed
    PROVE  /\ f.pos \in Nat /\ f.by \in 0 .. MaxQueries /\ f.open \in BOOLEAN
           /\ f.pending \in Seq(RowFields) /\ f.pending \in Seq(Fields)
           /\ before.pos \in Nat /\ before.pending \in Seq(RowFields)
<1>1. RowFields \subseteq Fields
  BY DEF RowFields, Fields
<1>2. f.pending \in Seq(RowFields)
  BY DEF Typed, TypeOK, FileObject, RowFields
<1>3. f.pending \in Seq(Fields)
  <2>1. \A j \in 1 .. Len(f.pending) : f.pending[j] \in Fields
    BY <1>1, <1>2
  <2> QED  BY <1>2, <2>1
<1> QED  BY <1>2, <1>3 DEF Typed, TypeOK, FileObject, RowFields

\* What the type invariant says of the query.
LEMMA Dues ==
    ASSUME Typed
    PROVE  /\ Due \in Nat /\ OwnWidth \in {1, 3, 4} /\ query.type \in Types
           /\ query.id \in 0 .. MaxQueries /\ written \in Nat
  BY ExtractionAssumption, Layouts DEF Typed, TypeOK, Due, OwnWidth

\* The new file object starts at 0, and all of the file is the old one's.
LEMMA OpenStep == IInv /\ Open => IInv'
<1> SUFFICES ASSUME IInv, Open PROVE IInv'
  OBVIOUS
<1> DEFINE end == f.pos + Len(f.pending)
<1>1. /\ f.pos \in Nat /\ f.pending \in Seq(Fields) /\ <<>> \in Seq(Fields)
      /\ \A j \in DOMAIN f.pending : f.pending[j].by = f.by
  BY Buffers DEF IInv, Typed
<1>2. file' \in Seq(Fields)
  BY <1>1, OverlayText DEF Open
<1>3. Typed'
  <2>1. query.id \in 0 .. MaxQueries
    BY Dues DEF IInv
  <2>2. f' \in FileObject /\ Len(f'.pending) <= Buf /\ DOMAIN f'.pending = {}
    BY <2>1, ExtractionAssumption DEF Open, FileObject
  <2> QED  BY <1>2, <2>2 DEF Open, IInv, Typed, TypeOK
<1>4. ASSUME NEW i \in DOMAIN file'
      PROVE  /\ file'[i].kind = "gap" \/ (/\ before'.open /\ file'[i].by = before'.by
                                          /\ i <= before'.pos + Len(before'.pending))
  <2>1. f.open /\ file' = Overlay(<<>>, f.pos, f.pending) /\ before' = f
    BY <1>4 DEF Open
  <2>2. i \in 1 .. Len(file') /\ Len(<<>>) = 0
    BY <1>2
  <2>3. file'[i] = IF i > f.pos /\ i <= end THEN f.pending[i - f.pos] ELSE Gap
    <3>1. \A j \in 1 .. Len(file') :
            file'[j] = IF j > f.pos /\ j <= end THEN f.pending[j - f.pos]
                       ELSE IF j <= Len(<<>>) THEN <<>>[j] ELSE Gap
      BY <1>1, <2>1, OverlayText
    <3>2. ~(i <= Len(<<>>))
      BY <2>2
    <3> QED  BY <2>2, <3>1, <3>2
  <2>4. CASE i > f.pos /\ i <= end
    <3>1. i - f.pos \in DOMAIN f.pending
      BY <1>1, <2>2, <2>4
    <3> QED  BY <1>1, <2>1, <2>3, <2>4, <3>1
  <2>5. CASE ~(i > f.pos /\ i <= end)
    BY <2>3, <2>5 DEF Gap, Field
  <2> QED  BY <2>4, <2>5
<1>5. LeftBehind(0)'
  BY <1>4 DEF LeftBehind, FromBefore
<1>6. OwnUpTo(0)'
  BY <1>2 DEF OwnUpTo
<1>7. Progress'
  <2>1. written = 0 /\ written' = 0 /\ Due' = Due /\ OwnWidth' = OwnWidth /\ f'.pos = 0
        /\ f'.pending = <<>> /\ f'.open /\ f'.by = query'.id
    BY DEF Open, IInv, Stages, Due, OwnWidth
  <2>2. Due \in Nat /\ 0 * OwnWidth = 0
    BY Dues DEF IInv
  <2> QED  BY <1>5, <1>6, <2>1, <2>2 DEF Progress
<1>8. Results'
  BY NotYetAnswered DEF Open
<1> QED  BY <1>3, <1>7, <1>8 DEF Open, IInv, Stages, Complete, Handled

\* Fields are written over the file's end, or in it, from where f stands: what
\* was behind them stays.
LEMMA Overwritten ==
    ASSUME Typed, NEW fields \in Seq(Fields), f.pos <= Len(file), OwnUpTo(f.pos),
           LeftBehind(f.pos), \A j \in 1 .. Len(fields) : fields[j] = Own(f.pos + j),
           NEW new, new = Overlay(file, f.pos, fields)
    PROVE  LET end == f.pos + Len(fields)
           IN  /\ new \in Seq(Fields) /\ end <= Len(new)
               /\ \A i \in 1 .. end : new[i] = Own(i)
               /\ \A i \in DOMAIN new : i > end => new[i].kind = "gap"
                     \/ (/\ before.open /\ new[i].by = before.by
                         /\ i <= before.pos + Len(before.pending))
<1> DEFINE end == f.pos + Len(fields)
<1>1. /\ f.pos \in Nat /\ Len(fields) \in Nat /\ Len(file) \in Nat /\ file \in Seq(Fields)
      /\ end \in Nat
  BY Buffers DEF Typed
<1>2. /\ new \in Seq(Fields)
      /\ Len(new) = IF fields # <<>> /\ end > Len(file) THEN end ELSE Len(file)
      /\ \A i \in 1 .. Len(new) :
             new[i] = IF i > f.pos /\ i <= end THEN fields[i - f.pos]
                      ELSE IF i <= Len(file) THEN file[i] ELSE Gap
  BY <1>1, OverlayText
<1>3. end <= Len(new)
  <2>1. CASE fields = <<>>
    BY <1>1, <1>2, <2>1
  <2>2. CASE fields # <<>>
    BY <1>1, <1>2, <2>2
  <2> QED  BY <2>1, <2>2
<1>4. ASSUME NEW i \in 1 .. end
      PROVE  new[i] = Own(i)
  <2>1. i \in 1 .. Len(new) /\ i \in Nat
    BY <1>1, <1>2, <1>3
  <2>2. CASE i > f.pos
    <3>1. i - f.pos \in 1 .. Len(fields) /\ f.pos + (i - f.pos) = i
      BY <1>1, <2>2
    <3>2. new[i] = fields[i - f.pos]
      BY <1>1, <1>2, <2>1, <2>2
    <3> QED  BY <3>1, <3>2
  <2>3. CASE i <= f.pos
    <3>1. i \in 1 .. f.pos /\ i <= Len(file)
      BY <1>1, <2>3
    <3>2. new[i] = file[i]
      BY <1>1, <1>2, <2>1, <2>3, <3>1
    <3> QED  BY <3>1, <3>2 DEF OwnUpTo
  <2> QED  BY <1>1, <2>1, <2>2, <2>3
<1>5. ASSUME NEW i \in DOMAIN new, i > end
      PROVE  new[i].kind = "gap" \/ (/\ before.open /\ new[i].by = before.by
                                     /\ i <= before.pos + Len(before.pending))
  <2>1. i \in 1 .. Len(new) /\ i \in Nat /\ i > f.pos
    BY <1>1, <1>2, <1>5
  <2>2. i <= Len(file)
    BY <1>1, <1>2, <1>5, <2>1
  <2>3. new[i] = file[i] /\ i \in DOMAIN file
    BY <1>1, <1>2, <1>5, <2>1, <2>2
  <2> QED  BY <2>1, <2>3 DEF LeftBehind, FromBefore
<1> QED  BY <1>2, <1>3, <1>4, <1>5

\* The next row goes to the end of the buffer, and the front of the buffer to the file; what it
\* overwrites there was left behind.
LEMMA WriteRowStep == IInv /\ WriteRow => IInv'
<1> SUFFICES ASSUME IInv, WriteRow PROVE IInv'
  OBVIOUS
<1> DEFINE row == Row(query.id, query.type, written + 1)
           all == f.pending \o row
           n   == Len(f.pending) + OwnWidth
           out == IF n <= Buf THEN 0 ELSE ((n - 1) \div Buf) * Buf
           fields == SubSeq(all, 1, out)
           rest == SubSeq(all, out + 1, n)
<1>1. /\ f.pos \in Nat /\ f.pending \in Seq(RowFields) /\ written \in Nat
      /\ OwnWidth \in {1, 3, 4} /\ query.type \in Types /\ query.id \in 0 .. MaxQueries
      /\ Due \in Nat /\ Typed
  BY Buffers, Dues DEF IInv
<1>2. /\ f.open /\ f.by = query.id /\ written < Due /\ OwnUpTo(f.pos) /\ LeftBehind(f.pos)
      /\ f.pos + Len(f.pending) = written * OwnWidth
      /\ \A j \in DOMAIN f.pending : f.pending[j] = Own(f.pos + j)
  BY DEF WriteRow, IInv, Progress
<1>3. /\ row \in Seq(RowFields) /\ Len(row) = OwnWidth
      /\ \A c \in 1 .. OwnWidth : row[c] = Own(written * OwnWidth + c)
      /\ (written + 1) * OwnWidth = written * OwnWidth + OwnWidth
      /\ written * OwnWidth \in Nat
  <2>1. row \in Seq(RowFields) /\ Len(row) = OwnWidth
    <3>1. written + 1 \in Nat
      BY <1>1
    <3> QED  BY <1>1, <3>1, Rows DEF OwnWidth
  <2>2. \A c \in 1 .. OwnWidth : OwnField(query.id, query.type, written * OwnWidth + c) = row[c]
    BY <1>1, FieldOfRow DEF OwnWidth
  <2>3. /\ (written + 1) * OwnWidth = written * OwnWidth + OwnWidth
        /\ written * OwnWidth \in Nat
    <3>1. 1 \in 1 .. OwnWidth
      BY <1>1
    <3> QED  BY <1>1, <3>1, FieldOfRow DEF OwnWidth
  <2> HIDE DEF row
  <2> QED  BY <2>1, <2>2, <2>3 DEF Own
<1>4. /\ all \in Seq(RowFields) /\ Len(all) = n /\ n \in Nat \ {0}
      /\ \A j \in 1 .. n : all[j] = IF j <= Len(f.pending) THEN f.pending[j]
                                    ELSE row[j - Len(f.pending)]
  <2> HIDE DEF row
  <2> QED  BY <1>1, <1>3
<1> HIDE DEF row, all, n, out, fields, rest
<1>5. ASSUME NEW j \in 1 .. n
      PROVE  all[j] = Own(f.pos + j)
  <2>1. CASE j <= Len(f.pending)
    <3>1. j \in DOMAIN f.pending
      BY <1>1, <2>1 DEF n
    <3> QED  BY <1>2, <1>4, <2>1, <3>1
  <2>2. CASE j > Len(f.pending)
    <3>1. j - Len(f.pending) \in 1 .. OwnWidth
      BY <1>1, <2>2 DEF n
    <3>2. ~(j <= Len(f.pending)) /\ Len(f.pending) \in Nat /\ j \in Nat
      BY <1>1, <1>4, <2>2
    <3>3. all[j] = row[j - Len(f.pending)]
      BY <1>4, <3>2
    <3>4. written * OwnWidth + (j - Len(f.pending)) = f.pos + j
      <4>1. ASSUME NEW w \in Nat, w = f.pos + Len(f.pending)
            PROVE  w + (j - Len(f.pending)) = f.pos + j
        BY <1>1, <3>2, <4>1
      <4> QED  BY <1>2, <1>3, <4>1
    <3> QED  BY <1>3, <3>1, <3>3, <3>4
  <2>3. j <= Len(f.pending) \/ j > Len(f.pending)
    BY <1>1, <1>4
  <2> QED  BY <2>1, <2>2, <2>3
<1>6. out \in Nat /\ out <= n /\ n - out <= Buf
  <2>1. CASE n <= Buf
    BY <1>4, <2>1, ExtractionAssumption DEF out
  <2>2. CASE ~(n <= Buf)
    BY <1>4, <2>2, Flushed DEF out
  <2> QED  BY <2>1, <2>2
<1>7. /\ fields \in Seq(RowFields) /\ Len(fields) = out
      /\ \A j \in 1 .. out : fields[j] = Own(f.pos + j)
  BY <1>4, <1>5, <1>6 DEF fields
<1>8. /\ rest \in Seq(RowFields) /\ Len(rest) = n - out
      /\ \A j \in 1 .. (n - out) : rest[j] = Own(f.pos + out + j)
  <2>1. \A j \in 1 .. (n - out) : /\ out + j \in 1 .. n /\ f.pos + (out + j) = f.pos + out + j
                                  /\ out + 1 + j - 1 = out + j
    BY <1>1, <1>4, <1>6
  <2>2. rest \in Seq(RowFields) /\ Len(rest) = n - out
        /\ \A j \in 1 .. (n - out) : rest[j] = all[out + j]
    BY <1>4, <1>6 DEF rest
  <2> QED  BY <1>5, <2>1, <2>2
<1>9. file' = Overlay(file, f.pos, fields)
      /\ f' = [f EXCEPT !.pos = f.pos + out, !.pending = rest]
  BY <1>4 DEF WriteRow, Write, row, all, n, out, fields, rest
<1>10. f' \in FileObject /\ f'.pos = f.pos + out /\ f'.pending = rest /\ f'.open /\ f'.by = query.id
  <2>1. f \in FileObject
    BY <1>1 DEF Typed, TypeOK
  <2>2. f.pos + out \in Nat
    BY <1>1, <1>6
  <2> QED  BY <1>2, <1>8, <1>9, <2>1, <2>2 DEF FileObject, RowFields
<1>11. fields \in Seq(Fields) /\ f.pos <= Len(file)
  <2>1. RowFields \subseteq Fields
    BY DEF RowFields, Fields
  <2>2. \A j \in 1 .. Len(fields) : fields[j] \in Fields
    BY <1>7, <2>1
  <2> QED  BY <1>2, <1>7, <2>2 DEF OwnUpTo
<1>12. /\ file' \in Seq(Fields) /\ f.pos + out <= Len(file')
       /\ \A i \in 1 .. f.pos + out : file'[i] = Own(i)
       /\ \A i \in DOMAIN file' : i > f.pos + out => file'[i].kind = "gap"
             \/ (/\ before.open /\ file'[i].by = before.by
                 /\ i <= before.pos + Len(before.pending))
  BY <1>1, <1>2, <1>7, <1>9, <1>11, Overwritten
<1>13. query' = query /\ before' = before /\ written' = written + 1
  BY DEF WriteRow
<1>14. Due' = Due /\ OwnWidth' = OwnWidth
  BY <1>13 DEF Due, OwnWidth
<1>15. OwnUpTo(f.pos)' /\ LeftBehind(f.pos)'
  BY <1>10, <1>12, <1>13 DEF OwnUpTo, LeftBehind, FromBefore, Own
<1>16. Progress'
  <2>1. f'.pos + Len(f'.pending) = written' * OwnWidth'
    <3>1. f'.pos + Len(f'.pending) = f.pos + out + (n - out) /\ n = Len(f.pending) + OwnWidth
      BY <1>8, <1>10 DEF n
    <3>2. written' * OwnWidth' = written * OwnWidth + OwnWidth
      BY <1>3, <1>13, <1>14
    <3>3. ASSUME NEW w \in Nat, w = f.pos + Len(f.pending)
          PROVE  f.pos + out + (n - out) = w + OwnWidth
      BY <1>1, <1>4, <1>6, <3>1, <3>3
    <3> QED  BY <1>2, <1>3, <3>1, <3>2, <3>3
  <2>2. \A j \in DOMAIN f'.pending : f'.pending[j] = Own(f'.pos + j)
    BY <1>8, <1>10
  <2>3. written' <= Due' /\ f'.open /\ f'.by = query'.id
    BY <1>1, <1>2, <1>10, <1>13, <1>14
  <2> QED  BY <1>13, <1>15, <2>1, <2>2, <2>3 DEF Progress, Own
<1>17. Typed'
  <2>1. \A j \in DOMAIN f'.pending : f'.pending[j].by = f'.by
    <3>1. \A j \in 1 .. (n - out) : f.pos + out + j \in Nat \ {0}
      BY <1>1, <1>4, <1>6
    <3> QED  BY <1>1, <1>8, <1>10, <3>1, OwnFields DEF Own
  <2>2. Len(f'.pending) <= Buf /\ written' \in Nat
    BY <1>1, <1>6, <1>8, <1>10, <1>13
  <2> QED  BY <1>1, <1>10, <1>12, <2>1, <2>2 DEF WriteRow, Typed, TypeOK
<1>18. Results'
  BY NotYetAnswered DEF WriteRow
<1> QED  BY <1>16, <1>17, <1>18 DEF WriteRow, IInv, Stages, Complete, Handled

\* The rest of the buffer makes the rows in the file complete.
LEMMA CloseStep == IInv /\ Close => IInv'
<1> SUFFICES ASSUME IInv, Close PROVE IInv'
  OBVIOUS
<1> DEFINE end == f.pos + Len(f.pending)
<1>1. /\ f.pos \in Nat /\ f.pending \in Seq(Fields) /\ Due \in Nat /\ OwnWidth \in {1, 3, 4}
      /\ Typed
  BY Buffers, Dues DEF IInv
<1>2. /\ written = Due /\ OwnUpTo(f.pos) /\ LeftBehind(f.pos)
      /\ end = Due * OwnWidth /\ f.pos <= Len(file)
      /\ \A j \in 1 .. Len(f.pending) : f.pending[j] = Own(f.pos + j)
  BY <1>1 DEF Close, IInv, Progress, OwnUpTo
<1>3. phase' = "read" /\ query' = query /\ before' = before /\ written' = written
      /\ f' = [f EXCEPT !.open = FALSE, !.pending = <<>>] /\ answer' = answer /\ outcome' = "done"
  BY DEF Close
<1>4. f' \in FileObject /\ Len(f'.pending) <= Buf /\ DOMAIN f'.pending = {}
  <2>1. f \in FileObject
    BY <1>1 DEF Typed, TypeOK
  <2>2. f' \in FileObject
    <3>1. f' = [by |-> f.by, open |-> FALSE, pos |-> f.pos, pending |-> <<>>]
      BY <1>3, <2>1 DEF FileObject
    <3> QED  BY <1>1, <3>1, Buffers DEF FileObject
  <2>3. f'.pending = <<>>
    BY <1>3, <2>1 DEF FileObject
  <2> QED  BY <2>2, <2>3, ExtractionAssumption
<1>5. file' \in Seq(Fields) /\ Complete'
  <2>1. CASE query.hit
    <3>1. file' = Overlay(file, f.pos, f.pending)
      <4>1. f.pending \o <<>> = f.pending
        BY <1>1
      <4> QED  BY <2>1, <4>1 DEF Close
    <3>2. /\ file' \in Seq(Fields) /\ end <= Len(file')
          /\ \A i \in 1 .. end : file'[i] = Own(i)
          /\ \A i \in DOMAIN file' : i > end => file'[i].kind = "gap"
                \/ (/\ before.open /\ file'[i].by = before.by
                    /\ i <= before.pos + Len(before.pending))
      BY <1>1, <1>2, <3>1, Overwritten
    <3>3. Due' = Due /\ OwnWidth' = OwnWidth
      BY <1>3 DEF Due, OwnWidth
    <3>4. OwnUpTo(Due * OwnWidth)' /\ LeftBehind(Due * OwnWidth)'
      <4>1. /\ Due * OwnWidth <= Len(file')
            /\ \A i \in 1 .. Due * OwnWidth : file'[i] = Own(i)
            /\ \A i \in DOMAIN file' : i > Due * OwnWidth => file'[i].kind = "gap"
                \/ (/\ before.open /\ file'[i].by = before.by
                    /\ i <= before.pos + Len(before.pending))
        BY <1>2, <3>2
      <4> QED  BY <1>3, <3>3, <4>1 DEF OwnUpTo, LeftBehind, FromBefore, Own
    <3> QED  BY <1>3, <2>1, <3>2, <3>4 DEF Complete
  <2>2. CASE ~query.hit
    <3>1. ~query.all /\ Due = 0
      BY <1>1, <2>2 DEF Typed, Due
    <3>2. f.pos = 0 /\ Len(f.pending) = 0 /\ f.pending = <<>>
      <4>1. end = 0
        BY <1>1, <1>2, <3>1
      <4> QED  BY <1>1, <4>1
    <3>3. Word("missing") \in Seq(Fields) /\ Len(Word("missing")) = 1
          /\ Word("missing")[1].kind = "missing"
      BY <1>1, Words
    <3>4. file' = Overlay(file, 0, Word("missing"))
      <4>1. f.pending \o Word("missing") = Word("missing")
        BY <3>2, <3>3
      <4> QED  BY <2>2, <3>1, <3>2, <4>1 DEF Close
    <3>5. file \in Seq(Fields)
      BY <1>1 DEF Typed
    <3>6. /\ file' \in Seq(Fields) /\ Len(file') >= 1
          /\ file'[1] = Word("missing")[1]
      <4> DEFINE w == Word("missing")
      <4>1. /\ file' \in Seq(Fields)
            /\ Len(file') = IF w # <<>> /\ 0 + Len(w) > Len(file) THEN 0 + Len(w) ELSE Len(file)
            /\ \A i \in 1 .. Len(file') :
                   file'[i] = IF i > 0 /\ i <= 0 + Len(w) THEN w[i - 0]
                              ELSE IF i <= Len(file) THEN file[i] ELSE Gap
        BY <3>3, <3>4, <3>5, OverlayText
      <4> HIDE DEF w
      <4>2. w # <<>> /\ Len(w) = 1
        BY <3>3 DEF w
      <4>3. Len(file') >= 1 /\ 1 \in 1 .. Len(file')
        BY <3>5, <4>1, <4>2
      <4>4. file'[1] = w[1]
        BY <4>1, <4>2, <4>3
      <4> QED  BY <4>1, <4>3, <4>4 DEF w
    <3> QED  BY <1>3, <2>2, <3>3, <3>6 DEF Complete
  <2> QED  BY <2>1, <2>2
<1>6. Typed'
  BY <1>1, <1>3, <1>4, <1>5 DEF Typed, TypeOK
<1>7. Results'
  BY <1>3, NotYetAnswered
<1>8. Stages' /\ Progress' /\ Handled'
  BY <1>3 DEF Close, IInv, Stages, Progress, Handled
<1> QED  BY <1>5, <1>6, <1>7, <1>8 DEF IInv

-----------------------------------------------------------------------------
(* What the parsers make of a text.                                           *)

InLine(text, i) == {j \in 1 .. i : /\ NotGap(text[j])
                                   /\ \A l \in j .. i - 1 : ~text[l].last}
Ends(t, text) == {i \in DOMAIN text : text[i].last /\ Accepts(t, LineAt(text, i))}

\* A line is made of fields of the text that were written.
LEMMA Lines ==
    ASSUME NEW text \in Seq(Fields), NEW i \in DOMAIN text
    PROVE  /\ InLine(text, i) \in SUBSET Nat /\ IsFiniteSet(InLine(text, i))
           /\ DOMAIN LineAt(text, i) = DOMAIN InOrder(InLine(text, i))
           /\ \A k \in DOMAIN LineAt(text, i) :
                  /\ LineAt(text, i)[k] = text[InOrder(InLine(text, i))[k]]
                  /\ InOrder(InLine(text, i))[k] \in 1 .. i
                  /\ NotGap(LineAt(text, i)[k])
<1> DEFINE S == InLine(text, i)
<1>1. S \in SUBSET (1 .. i) /\ i \in Nat /\ S \in SUBSET Nat /\ \A j \in S : NotGap(text[j])
  BY DEF InLine
<1>2. IsFiniteSet(S)
  <2>1. IsFiniteSet(1 .. i)
    BY <1>1, FS_Interval
  <2> HIDE DEF S
  <2> QED  BY <1>1, <2>1, FS_Subset
<1>3. LineAt(text, i) = [k \in DOMAIN InOrder(S) |-> text[InOrder(S)[k]]]
  BY DEF LineAt, InLine
<1> HIDE DEF S
<1>4. \A k \in DOMAIN InOrder(S) : InOrder(S)[k] \in S
  BY <1>1, <1>2, OrderOf
<1>5. \A k \in DOMAIN InOrder(S) : NotGap(text[InOrder(S)[k]]) /\ InOrder(S)[k] \in 1 .. i
  BY <1>1, <1>4
<1>6. \A k \in DOMAIN InOrder(S) : LineAt(text, i)[k] = text[InOrder(S)[k]]
  BY <1>3
<1>7. DOMAIN LineAt(text, i) = DOMAIN InOrder(S)
  BY <1>3
<1>8. \A k \in DOMAIN LineAt(text, i) :
          /\ LineAt(text, i)[k] = text[InOrder(S)[k]]
          /\ InOrder(S)[k] \in 1 .. i /\ NotGap(LineAt(text, i)[k])
  BY <1>5, <1>6, <1>7
<1> QED  BY <1>1, <1>2, <1>7, <1>8 DEF S

\* The items are lines of the text.
LEMMA ItemsLines ==
    ASSUME NEW text \in Seq(Fields), NEW t
    PROVE  LET E == Ends(t, text)
           IN  /\ E \in SUBSET Nat /\ IsFiniteSet(E) /\ Cardinality(E) \in Nat
               /\ DOMAIN InOrder(E) = 1 .. Cardinality(E)
               /\ DOMAIN Items(t, text) = 1 .. Cardinality(E)
               /\ Len(Items(t, text)) = Cardinality(E)
               /\ \A k \in 1 .. Cardinality(E) :
                      /\ InOrder(E)[k] \in E /\ InOrder(E)[k] \in DOMAIN text
                      /\ Items(t, text)[k] = LineAt(text, InOrder(E)[k])
<1> DEFINE E == Ends(t, text)
<1>1. E \in SUBSET (1 .. Len(text)) /\ Len(text) \in Nat /\ E \in SUBSET Nat
      /\ E \subseteq DOMAIN text
  BY DEF Ends
<1>2. IsFiniteSet(E)
  BY <1>1, FS_Interval, FS_Subset
<1>3. Items(t, text) = [k \in DOMAIN InOrder(E) |-> LineAt(text, InOrder(E)[k])]
  BY DEF Items, Ends
<1> HIDE DEF E
<1>4. /\ Cardinality(E) \in Nat /\ DOMAIN InOrder(E) = 1 .. Cardinality(E)
      /\ \A k \in 1 .. Cardinality(E) : InOrder(E)[k] \in E
  BY <1>1, <1>2, OrderOf
<1>5. /\ DOMAIN Items(t, text) = 1 .. Cardinality(E)
      /\ \A k \in 1 .. Cardinality(E) : Items(t, text)[k] = LineAt(text, InOrder(E)[k])
  BY <1>3, <1>4
<1>6. Len(Items(t, text)) = Cardinality(E)
  BY <1>3, <1>4
<1> QED  BY <1>1, <1>2, <1>4, <1>5, <1>6 DEF E

-----------------------------------------------------------------------------
\* The numbers from a + 1 to a + w in ascending order.
LEMMA OrderOfInterval ==
    ASSUME NEW a \in Nat, NEW w \in Nat
    PROVE  /\ DOMAIN InOrder((a + 1) .. (a + w)) = 1 .. w
           /\ \A c \in 1 .. w : InOrder((a + 1) .. (a + w))[c] = a + c
<1> DEFINE S == (a + 1) .. (a + w)
<1>1. S \in SUBSET Nat /\ IsFiniteSet(S) /\ Cardinality(S) = w
  <2>1. a + 1 \in Int /\ a + w \in Int
    OBVIOUS
  <2>2. IsFiniteSet(S) /\ Cardinality(S) = IF a + 1 > a + w THEN 0 ELSE (a + w) - (a + 1) + 1
    BY <2>1, FS_Interval
  <2>3. (IF a + 1 > a + w THEN 0 ELSE (a + w) - (a + 1) + 1) = w
    OBVIOUS
  <2> QED  BY <2>2, <2>3
<1>2. ASSUME NEW c \in 1 .. w
      PROVE  a + c \in S /\ Rank(S, a + c) = c
  <2>1. {m \in S : m <= a + c} = (a + 1) .. (a + c)
    OBVIOUS
  <2>2. Cardinality((a + 1) .. (a + c)) = IF a + 1 > a + c THEN 0 ELSE (a + c) - (a + 1) + 1
    <3>1. a + 1 \in Int /\ a + c \in Int
      OBVIOUS
    <3> QED  BY <3>1, FS_Interval
  <2>3. (IF a + 1 > a + c THEN 0 ELSE (a + c) - (a + 1) + 1) = c /\ a + c \in S
    OBVIOUS
  <2>4. Rank(S, a + c) = Cardinality((a + 1) .. (a + c))
    BY <2>1 DEF Rank
  <2> QED  BY <2>2, <2>3, <2>4
<1> HIDE DEF S
<1>3. DOMAIN InOrder(S) = 1 .. w
  BY <1>1, OrderOf
<1>4. \A c \in 1 .. w : InOrder(S)[c] = a + c
  BY <1>1, <1>2, OrderAt
<1> QED  BY <1>3, <1>4 DEF S

\* A line of w fields after the a-th.
LEMMA LineOf ==
    ASSUME NEW text \in Seq(Fields), NEW a \in Nat, NEW w \in Nat \ {0}, a + w <= Len(text),
           a > 0 => text[a].last,
           \A c \in 1 .. w : NotGap(text[a + c]) /\ (text[a + c].last <=> c = w)
    PROVE  /\ a + w \in DOMAIN text /\ text[a + w].last
           /\ LineAt(text, a + w) = [c \in 1 .. w |-> text[a + c]]
<1>1. a + w \in DOMAIN text /\ w \in 1 .. w
  OBVIOUS
<1>2. InLine(text, a + w) = (a + 1) .. (a + w)
  <2>1. ASSUME NEW j \in InLine(text, a + w)
        PROVE  j \in (a + 1) .. (a + w)
    <3>1. j \in 1 .. (a + w) /\ \A l \in j .. (a + w) - 1 : ~text[l].last
      BY DEF InLine
    <3>2. CASE j <= a
      <4>1. a \in j .. (a + w) - 1 /\ a > 0
        BY <3>1, <3>2
      <4> QED  BY <3>1, <4>1
    <3> QED  BY <3>1, <3>2
  <2>2. ASSUME NEW j \in (a + 1) .. (a + w)
        PROVE  j \in InLine(text, a + w)
    <3>1. j - a \in 1 .. w /\ a + (j - a) = j /\ j \in 1 .. (a + w)
      OBVIOUS
    <3>2. NotGap(text[j])
      BY <3>1
    <3>3. ASSUME NEW l \in j .. (a + w) - 1
          PROVE  ~text[l].last
      <4>1. l - a \in 1 .. w /\ a + (l - a) = l /\ l - a # w
        OBVIOUS
      <4>2. text[a + (l - a)].last <=> l - a = w
        BY <4>1
      <4> QED  BY <4>1, <4>2
    <3> QED  BY <3>1, <3>2, <3>3 DEF InLine
  <2> QED  BY <2>1, <2>2
<1>3. LineAt(text, a + w) = [k \in DOMAIN InOrder(InLine(text, a + w)) |->
                                text[InOrder(InLine(text, a + w))[k]]]
  BY DEF LineAt, InLine
<1>4. /\ DOMAIN InOrder(InLine(text, a + w)) = 1 .. w
      /\ \A c \in 1 .. w : InOrder(InLine(text, a + w))[c] = a + c
  <2>1. /\ DOMAIN InOrder((a + 1) .. (a + w)) = 1 .. w
        /\ \A c \in 1 .. w : InOrder((a + 1) .. (a + w))[c] = a + c
    BY OrderOfInterval, w \in Nat
  <2> QED  BY <1>2, <2>1
<1> HIDE DEF InLine
<1> QED  BY <1>1, <1>3, <1>4

\* A text that starts with the n rows of a query.
StartsWithRows(text, q, t, n) ==
    /\ n * Width(t) <= Len(text)
    /\ \A i \in 1 .. n * Width(t) : text[i] = OwnField(q, t, i)

\* Each multiple of the width ends a row of the query, which is a line that can
\* be parsed, and no other field ends a line there.
LEMMA OwnLines ==
    ASSUME NEW text \in Seq(Fields), NEW q \in 0 .. MaxQueries, NEW t \in Types, NEW n \in Nat,
           StartsWithRows(text, q, t, n)
    PROVE  /\ \A r \in 1 .. n :
                  /\ r * Width(t) \in 1 .. n * Width(t) /\ r * Width(t) \in Ends(t, text)
                  /\ LineAt(text, r * Width(t)) = Row(q, t, r)
           /\ \A i \in 1 .. n * Width(t) : text[i].last => \E r \in 1 .. n : i = r * Width(t)
<1>1. Width(t) \in {1, 3, 4} /\ n * Width(t) \in Nat
  <2>1. Width(t) \in {1, 3, 4}
    BY Layouts
  <2> QED  BY <2>1
<1>2. ASSUME NEW r \in 1 .. n
      PROVE  /\ r * Width(t) \in 1 .. n * Width(t) /\ r * Width(t) \in Ends(t, text)
             /\ LineAt(text, r * Width(t)) = Row(q, t, r)
  <2> DEFINE a == (r - 1) * Width(t)
  <2>1. /\ r - 1 \in Nat /\ r - 1 + 1 = r /\ r * Width(t) \in 1 .. n * Width(t)
        /\ a \in Nat /\ r * Width(t) = a + Width(t)
        /\ a > 0 => r - 2 \in Nat /\ r - 2 + 1 = r - 1 /\ a = (r - 2) * Width(t) + Width(t)
    <3>1. CASE Width(t) = 1
      BY <3>1
    <3>2. CASE Width(t) = 3
      BY <3>2
    <3>3. CASE Width(t) = 4
      BY <3>3
    <3> QED  BY <1>1, <3>1, <3>2, <3>3
  <2>2. \A c \in 1 .. Width(t) : OwnField(q, t, a + c) = Row(q, t, r)[c]
    BY <2>1, FieldOfRow
  <2>3. a > 0 => OwnField(q, t, a) = Row(q, t, r - 1)[Width(t)]
    <3>1. Width(t) \in 1 .. Width(t)
      BY <1>1
    <3>2. ASSUME a > 0
          PROVE  OwnField(q, t, (r - 2) * Width(t) + Width(t)) = Row(q, t, r - 2 + 1)[Width(t)]
      <4>1. r - 2 \in Nat
        BY <2>1, <3>2
      <4> QED  BY <3>1, <4>1, FieldOfRow
    <3> HIDE DEF a
    <3> QED  BY <2>1, <3>2
  <2> HIDE DEF a
  <2>4. \A c \in 1 .. Width(t) : a + c \in 1 .. n * Width(t) /\ text[a + c] = Row(q, t, r)[c]
    <3>1. \A c \in 1 .. Width(t) : a + c \in 1 .. n * Width(t)
      <4>1. ASSUME NEW N \in Nat, N = n * Width(t)
            PROVE  \A c \in 1 .. Width(t) : a + c \in 1 .. N
        <5>1. a + Width(t) <= N
          BY <2>1, <4>1
        <5>2. a \in Nat
          BY <2>1
        <5> QED  BY <1>1, <5>1, <5>2
      <4> QED  BY <1>1, <4>1
    <3> QED  BY <2>2, <3>1 DEF StartsWithRows
  <2>5. a > 0 => text[a].last
    <3>1. a > 0 => a \in 1 .. n * Width(t)
      <4>1. ASSUME NEW N \in Nat, N = n * Width(t)
            PROVE  a > 0 => a \in 1 .. N
        <5>1. a + Width(t) <= N
          BY <2>1, <4>1
        <5>2. a \in Nat
          BY <2>1
        <5> QED  BY <1>1, <5>1, <5>2
      <4> QED  BY <1>1, <4>1
    <3>2. a > 0 => Row(q, t, r - 1)[Width(t)].last
      <4>1. Width(t) \in 1 .. Width(t) /\ r - 1 \in Nat
        BY <1>1, <2>1
      <4> QED  BY <4>1, Rows
    <3> QED  BY <2>3, <3>1, <3>2 DEF StartsWithRows
  <2>6. /\ Row(q, t, r) \in Seq(RowFields) /\ Len(Row(q, t, r)) = Width(t)
        /\ \A c \in 1 .. Width(t) :
               /\ Row(q, t, r)[c].kind = Layout(t)[c] /\ Row(q, t, r)[c].kind \in {"text", "number"}
               /\ (Row(q, t, r)[c].last <=> c = Width(t))
    <3>1. r \in Nat
      OBVIOUS
    <3>2. Row(q, t, r) \in Seq(RowFields) /\ Len(Row(q, t, r)) = Width(t)
          /\ \A c \in 1 .. Width(t) :
               Row(q, t, r)[c].kind = Layout(t)[c] /\ (Row(q, t, r)[c].last <=> c = Width(t))
      BY <3>1, Rows
    <3>3. \A c \in 1 .. Width(t) : Row(q, t, r)[c] \in RowFields
      BY <3>2
    <3> QED  BY <3>2, <3>3 DEF RowFields
  <2>7. /\ \A c \in 1 .. Width(t) : NotGap(text[a + c]) /\ (text[a + c].last <=> c = Width(t))
        /\ a + Width(t) <= Len(text)
    <3>1. \A c \in 1 .. Width(t) : NotGap(text[a + c]) /\ (text[a + c].last <=> c = Width(t))
      BY <2>4, <2>6 DEF NotGap
    <3>2. a + Width(t) <= Len(text)
      <4>1. a + Width(t) = r * Width(t) /\ r * Width(t) \in DOMAIN text
        <5>1. r * Width(t) \in 1 .. n * Width(t) /\ n * Width(t) <= Len(text)
          BY <2>1 DEF StartsWithRows
        <5>2. \A N \in Nat : N <= Len(text) => 1 .. N \subseteq DOMAIN text
          OBVIOUS
        <5> QED  BY <1>1, <2>1, <5>1, <5>2
      <4>2. \A m \in DOMAIN text : m <= Len(text)
        OBVIOUS
      <4> QED  BY <4>1, <4>2
    <3> QED  BY <3>1, <3>2
  <2>8. /\ a + Width(t) \in DOMAIN text /\ text[a + Width(t)].last
        /\ LineAt(text, a + Width(t)) = [c \in 1 .. Width(t) |-> text[a + c]]
    <3>1. Width(t) \in Nat \ {0}
      <4>1. Width(t) \in {1, 3, 4}
        BY <1>1
      <4> QED  BY <4>1
    <3>2. a \in Nat
      BY <2>1, Zenon
    <3> QED  BY <2>5, <2>7, <3>1, <3>2, LineOf
  <2>9. [c \in 1 .. Width(t) |-> text[a + c]] = Row(q, t, r)
    <3>1. DOMAIN Row(q, t, r) = 1 .. Width(t)
          /\ Row(q, t, r) = [c \in DOMAIN Row(q, t, r) |-> Row(q, t, r)[c]]
      BY <2>6
    <3> QED  BY <2>4, <3>1
  <2>10. Accepts(t, Row(q, t, r))
    <3>1. \A i \in Parsed(t) : i \in 1 .. Width(t) /\ Layout(t)[i] = "number"
      BY Layouts
    <3> QED  BY <1>1, <2>6, <3>1 DEF Accepts, Width
  <2> QED  BY <2>1, <2>8, <2>9, <2>10 DEF Ends
<1>3. ASSUME NEW i \in 1 .. n * Width(t), text[i].last
      PROVE  \E r \in 1 .. n : i = r * Width(t)
  <2> DEFINE r == ((i - 1) \div Width(t)) + 1
             c == ((i - 1) % Width(t)) + 1
  <2>1. /\ r \in 1 .. n /\ c \in 1 .. Width(t)
        /\ c = Width(t) => i = r * Width(t)
    <3>1. CASE Width(t) = 1
      BY <3>1
    <3>2. CASE Width(t) = 3
      BY <3>2
    <3>3. CASE Width(t) = 4
      BY <3>3
    <3> QED  BY <1>1, <3>1, <3>2, <3>3
  <2>2. text[i] = Row(q, t, r)[c]
    BY DEF StartsWithRows, OwnField
  <2> HIDE DEF r, c
  <2>3. Row(q, t, r)[c].last <=> c = Width(t)
    <3>1. r \in Nat
      BY <2>1
    <3> QED  BY <2>1, <3>1, Rows
  <2> QED  BY <1>3, <2>1, <2>2, <2>3
<1>4. \A i \in 1 .. n * Width(t) : text[i].last => \E r \in 1 .. n : i = r * Width(t)
  BY <1>3, Zenon
<1> QED  BY <1>2, <1>4

\* The items of such a text start with those rows.
LEMMA OwnItems ==
    ASSUME NEW text \in Seq(Fields), NEW q \in 0 .. MaxQueries, NEW t \in Types, NEW n \in Nat,
           StartsWithRows(text, q, t, n)
    PROVE  n <= Len(Items(t, text)) /\ \A r \in 1 .. n : Items(t, text)[r] = Row(q, t, r)
<1> DEFINE E == Ends(t, text)
<1>1. Width(t) \in {1, 3, 4}
  BY Layouts
<1>2. /\ E \in SUBSET Nat /\ IsFiniteSet(E) /\ Cardinality(E) \in Nat
      /\ DOMAIN InOrder(E) = 1 .. Cardinality(E) /\ Len(Items(t, text)) = Cardinality(E)
      /\ \A k \in 1 .. Cardinality(E) : Items(t, text)[k] = LineAt(text, InOrder(E)[k])
  BY ItemsLines
<1>3. \A m \in E : m \in Nat \ {0} /\ text[m].last
  BY DEF Ends
<1>4. ASSUME NEW r \in 1 .. n
      PROVE  /\ r * Width(t) \in 1 .. n * Width(t) /\ r * Width(t) \in E
             /\ LineAt(text, r * Width(t)) = Row(q, t, r)
  BY OwnLines
<1>5. \A i \in 1 .. n * Width(t) : text[i].last => \E r \in 1 .. n : i = r * Width(t)
  BY OwnLines
<1> HIDE DEF E
<1>6. ASSUME NEW r \in 1 .. n
      PROVE  Rank(E, r * Width(t)) = r
  <2> DEFINE M == {m \in E : m <= r * Width(t)}
             g == [k \in 1 .. r |-> k * Width(t)]
  <2>1. \A k \in 1 .. r : k \in 1 .. n /\ k * Width(t) <= r * Width(t)
    <3>1. CASE Width(t) = 1
      BY <3>1
    <3>2. CASE Width(t) = 3
      BY <3>2
    <3>3. CASE Width(t) = 4
      BY <3>3
    <3> QED  BY <1>1, <3>1, <3>2, <3>3
  <2>2. g \in [1 .. r -> M]
    BY <1>4, <2>1
  <2>3. \A k, l \in 1 .. r : g[k] = g[l] => k = l
    <3>1. \A k, l \in 1 .. r : k * Width(t) = l * Width(t) => k = l
      <4>1. CASE Width(t) = 1
        BY <4>1
      <4>2. CASE Width(t) = 3
        BY <4>2
      <4>3. CASE Width(t) = 4
        BY <4>3
      <4> QED  BY <1>1, <4>1, <4>2, <4>3
    <3> QED  BY <3>1
  <2>4. ASSUME NEW m \in M
        PROVE  \E k \in 1 .. r : g[k] = m
    <3>1. m \in E /\ m <= r * Width(t) /\ m \in Nat \ {0} /\ text[m].last
      BY <1>3
    <3>2. r * Width(t) \in 1 .. n * Width(t) /\ r * Width(t) \in Nat
      BY <1>1, <1>4
    <3>3. n * Width(t) \in Nat
      BY <1>1
    <3>4. m \in 1 .. n * Width(t)
      BY <3>1, <3>2, <3>3
    <3>5. PICK k \in 1 .. n : m = k * Width(t)
      BY <1>5, <3>1, <3>4
    <3>6. k \in 1 .. r
      <4>1. CASE Width(t) = 1
        BY <3>1, <3>5, <4>1
      <4>2. CASE Width(t) = 3
        BY <3>1, <3>5, <4>2
      <4>3. CASE Width(t) = 4
        BY <3>1, <3>5, <4>3
      <4> QED  BY <1>1, <4>1, <4>2, <4>3
    <3> QED  BY <3>5, <3>6
  <2>5. g \in Bijection(1 .. r, M)
    <3> HIDE DEF M, g
    <3> QED  BY <2>2, <2>3, <2>4 DEF Bijection, Injection, Surjection, IsInjective
  <2>6. Cardinality(M) = r
    <3> HIDE DEF M, g
    <3> QED  BY <2>5, FS_CountingElements DEF ExistsBijection
  <2> QED  BY <2>6 DEF Rank
<1>7. ASSUME NEW r \in 1 .. n
      PROVE  r \in 1 .. Cardinality(E) /\ InOrder(E)[r] = r * Width(t)
  <2>1. Rank(E, r * Width(t)) \in DOMAIN InOrder(E)
        /\ InOrder(E)[Rank(E, r * Width(t))] = r * Width(t)
    BY <1>2, <1>4, OrderAt
  <2> QED  BY <1>2, <1>6, <2>1
<1>8. n <= Cardinality(E)
  <2>1. CASE n = 0
    BY <1>2, <2>1
  <2>2. CASE n # 0
    BY <1>2, <1>7, <2>2, n \in 1 .. n
  <2> QED  BY <2>1, <2>2
<1> QED  BY <1>2, <1>4, <1>7, <1>8

-----------------------------------------------------------------------------
\* The item of a single query: fields of the text that were written, in place.
LEMMA ItemFields ==
    ASSUME NEW text \in Seq(Fields), NEW t \in Types, Width(t) <= Len(text),
           \A i \in 1 .. Width(t) : NotGap(text[i])
    PROVE  /\ Width(t) <= Len(Item(t, text)) /\ Len(Item(t, text)) <= Len(text)
           /\ Item(t, text) \in Seq(Fields)
           /\ \A i \in 1 .. Len(Item(t, text)) : Item(t, text)[i] = text[i] /\ NotGap(text[i])
<1> DEFINE P == {i \in DOMAIN text : \A j \in 1 .. i : NotGap(text[j])}
           n == Cardinality(P)
<1>1. Width(t) \in Nat /\ Width(t) = Len(Layout(t))
  BY Layouts DEF Width
<1>2. P \subseteq 1 .. Len(text) /\ 1 .. Width(t) \subseteq P
  BY <1>1
<1>3. \A i \in P : \A j \in 1 .. i : j \in P /\ NotGap(text[j])
  OBVIOUS
<1> HIDE DEF P
<1>4. /\ IsFiniteSet(1 .. Len(text)) /\ Cardinality(1 .. Len(text)) = Len(text)
      /\ IsFiniteSet(1 .. Width(t)) /\ Cardinality(1 .. Width(t)) = Width(t)
  BY <1>1, Intervals, Len(text) \in Nat
<1>5. IsFiniteSet(P) /\ n \in Nat /\ n <= Len(text)
  BY <1>2, <1>4, FS_Subset, FS_CardinalityType
<1>6. Width(t) <= n
  BY <1>2, <1>4, <1>5, FS_Subset
<1>7. ASSUME NEW i \in 1 .. n
      PROVE  NotGap(text[i])
  <2>1. CASE i \in P
    BY <1>3, <2>1
  <2>2. CASE i \notin P
    <3>1. P \subseteq 1 .. (i - 1) /\ i - 1 \in Nat
      BY <1>2, <1>3, <1>5, <2>2
    <3>2. IsFiniteSet(1 .. (i - 1)) /\ Cardinality(1 .. (i - 1)) = i - 1
      BY <3>1, Intervals
    <3>3. n <= i - 1
      BY <3>1, <3>2, FS_Subset
    <3> QED  BY <1>5, <3>3
  <2> QED  BY <2>1, <2>2
<1> HIDE DEF n
<1>8. CASE Layout(t)[Len(Layout(t))] = "text"
  <2>1. Item(t, text) = SubSeq(text, 1, n)
    BY <1>8 DEF Item, n, P
  <2>2. Item(t, text) \in Seq(Fields) /\ Len(Item(t, text)) = n
        /\ \A i \in 1 .. n : Item(t, text)[i] = text[i]
    BY <1>5, <2>1
  <2> QED  BY <1>5, <1>6, <1>7, <2>2
<1>9. CASE Layout(t)[Len(Layout(t))] # "text"
  <2>1. Item(t, text) = SubSeq(text, 1, Width(t))
    BY <1>9 DEF Item, Width
  <2>2. Item(t, text) \in Seq(Fields) /\ Len(Item(t, text)) = Width(t)
        /\ \A i \in 1 .. Width(t) : Item(t, text)[i] = text[i]
    BY <1>1, <2>1
  <2> QED  BY <1>1, <2>2
<1> QED  BY <1>8, <1>9

-----------------------------------------------------------------------------
(* The answer.                                                                *)

\* IsPrefix, field by field.
LEMMA StartsWith ==
    ASSUME NEW A, NEW B, NEW s \in Seq(A), NEW w \in Seq(B), Len(s) <= Len(w),
           \A i \in 1 .. Len(s) : w[i] = s[i]
    PROVE  IsPrefix(s, w)
<1>1. SubSeq(s, 1, Len(s)) = s
  OBVIOUS
<1>2. SubSeq(w, 1, Len(s)) \in Seq(B) /\ Len(SubSeq(w, 1, Len(s))) = Len(s)
      /\ \A i \in 1 .. Len(s) : SubSeq(w, 1, Len(s))[i] = w[i]
  OBVIOUS
<1>3. SubSeq(w, 1, Len(s)) = s
  <2> DEFINE v == SubSeq(w, 1, Len(s))
  <2>1. v \in Seq(B) /\ Len(v) = Len(s) /\ \A i \in 1 .. Len(s) : v[i] = s[i]
    BY <1>2
  <2> HIDE DEF v
  <2>2. DOMAIN v = DOMAIN s /\ v = [i \in DOMAIN v |-> v[i]] /\ s = [i \in DOMAIN s |-> s[i]]
        /\ \A i \in DOMAIN s : v[i] = s[i]
    BY <2>1
  <2>3. v = s
    BY <2>2
  <2> QED  BY <2>3 DEF v
<1> QED  BY <1>1, <1>3 DEF IsPrefix

\* The first field of a row, and the fields of the first row.
LEMMA FirstRow ==
    ASSUME Typed, query.hit, Due > 0, OwnUpTo(Due * OwnWidth)
    PROVE  /\ file # <<>> /\ file[1].kind \in {"text", "number"}
           /\ OwnWidth <= Len(file)
           /\ \A i \in 1 .. OwnWidth : file[i] = Row(query.id, query.type, 1)[i]
                                       /\ NotGap(file[i])
<1>1. /\ Due \in Nat /\ OwnWidth \in {1, 3, 4} /\ query.type \in Types
      /\ query.id \in 0 .. MaxQueries /\ file \in Seq(Fields)
  BY Dues DEF Typed
<1>2. OwnWidth <= Due * OwnWidth /\ Due * OwnWidth \in Nat
  <2>1. CASE OwnWidth = 1
    BY <1>1, <2>1
  <2>2. CASE OwnWidth = 3
    BY <1>1, <2>2
  <2>3. CASE OwnWidth = 4
    BY <1>1, <2>3
  <2> QED  BY <1>1, <2>1, <2>2, <2>3
<1>3. OwnWidth <= Len(file) /\ \A i \in 1 .. OwnWidth : file[i] = Own(i)
  <2>1. \A i \in 1 .. OwnWidth : i \in 1 .. Due * OwnWidth
    BY <1>1, <1>2
  <2>2. Due * OwnWidth <= Len(file)
    BY DEF OwnUpTo
  <2> QED  BY <1>1, <1>2, <2>1, <2>2 DEF OwnUpTo
<1>4. ASSUME NEW i \in 1 .. OwnWidth
      PROVE  file[i] = Row(query.id, query.type, 1)[i] /\ file[i].kind \in {"text", "number"}
  <2>1. OwnField(query.id, query.type, 0 * Width(query.type) + i)
        = Row(query.id, query.type, 0 + 1)[i]
    <3>1. 0 \in Nat /\ i \in 1 .. Width(query.type)
      BY DEF OwnWidth
    <3> QED  BY <1>1, <3>1, FieldOfRow
  <2>2. 0 * Width(query.type) + i = i /\ 0 + 1 = 1
    BY <1>1 DEF OwnWidth
  <2>3. OwnField(query.id, query.type, i) \in RowFields
    BY <1>1, OwnFields
  <2> QED  BY <1>3, <2>1, <2>2, <2>3 DEF Own, RowFields
<1>5. 1 \in 1 .. OwnWidth /\ file # <<>>
  BY <1>1, <1>3
<1> QED  BY <1>3, <1>4, <1>5 DEF NotGap

\* Whose a field of a complete file can be.
LEMMA Sources ==
    ASSUME Typed, NEW n \in Nat, OwnUpTo(n), LeftBehind(n),
           NEW p \in DOMAIN file, NotGap(file[p])
    PROVE  /\ file[p].by \in {query.id, before.by}
           /\ file[p].by # query.id => before.open /\ before.pos + Len(before.pending) > n
<1>1. p \in Nat \ {0} /\ query.type \in Types /\ query.id \in 0 .. MaxQueries
  BY Dues DEF Typed
<1>2. CASE p <= n
  <2>1. file[p] = Own(p)
    BY <1>1, <1>2 DEF OwnUpTo
  <2> QED  BY <1>1, <2>1, OwnFields DEF Own
<1>3. CASE p > n
  <2>1. FromBefore(p)
    BY <1>3 DEF LeftBehind, NotGap
  <2>2. before.pos \in Nat /\ Len(before.pending) \in Nat
    BY Buffers
  <2> QED  BY <1>1, <1>3, <2>1, <2>2 DEF FromBefore
<1> QED  BY <1>1, <1>2, <1>3

\* Only a type with one field accepts the sentence of run_script_with_output.
LEMMA AcceptsSentence ==
    ASSUME NEW t \in Types, NEW w \in Seq(Fields), Len(w) = 1
    PROVE  Accepts(t, w) <=> OneField(t)
<1>1. CASE OneField(t)
  <2>1. Width(t) = 1 /\ Layout(t)[1] = "text"
    BY <1>1, Layouts DEF OneField, Width
  <2>2. ASSUME NEW i \in Parsed(t)
        PROVE  FALSE
    <3>1. i \in 1 .. Width(t) /\ Layout(t)[i] = "number"
      BY <2>2, Layouts
    <3>2. i = 1
      BY <2>1, <3>1
    <3> QED  BY <2>1, <3>1, <3>2
  <2>3. Len(w) >= Len(Layout(t))
    BY <2>1 DEF Width
  <2> QED  BY <1>1, <2>2, <2>3 DEF Accepts
<1>2. CASE ~OneField(t)
  <2>1. Width(t) \in {3, 4}
    BY <1>2, Layouts DEF OneField, Width
  <2>2. ~(Len(w) >= Len(Layout(t)))
    BY <2>1 DEF Width
  <2> QED  BY <1>2, <2>2 DEF Accepts
<1> QED  BY <1>1, <1>2

\* There it is the only item; any other type has none.
LEMMA Sentence ==
    ASSUME Typed, NEW w, w = Word("sentence")
    PROVE  /\ Accepts(query.type, w) <=> OneField(query.type)
           /\ Items(query.type, w) = IF OneField(query.type) THEN <<w>> ELSE <<>>
           /\ OneField(query.type) => Item(query.type, w) = w
<1>1. /\ w \in Seq(Fields) /\ Len(w) = 1 /\ w[1].last /\ NotGap(w[1])
      /\ query.type \in Types
  BY Words, Dues DEF NotGap
<1>2. LineAt(w, 1) = w
  <2>1. LineAt(w, 0 + 1) = [c \in 1 .. 1 |-> w[0 + c]]
    <3>1. /\ 0 \in Nat /\ 1 \in Nat \ {0} /\ 0 + 1 <= Len(w) /\ ~(0 > 0)
          /\ \A c \in 1 .. 1 : c = 1 /\ 0 + c = 1
      BY <1>1
    <3>2. \A c \in 1 .. 1 : NotGap(w[0 + c]) /\ (w[0 + c].last <=> c = 1)
      BY <1>1, <3>1
    <3> QED  BY <1>1, <3>1, <3>2, LineOf
  <2>2. [c \in 1 .. 1 |-> w[0 + c]] = w
    BY <1>1
  <2> QED  BY <2>1, <2>2
<1>3. Accepts(query.type, w) <=> OneField(query.type)
  BY <1>1, AcceptsSentence
<1>4. Items(query.type, w) = IF OneField(query.type) THEN <<w>> ELSE <<>>
  <2> DEFINE E == Ends(query.type, w)
             items == Items(query.type, w)
  <2>1. /\ Cardinality(E) \in Nat /\ DOMAIN items = 1 .. Cardinality(E)
        /\ \A k \in 1 .. Cardinality(E) :
               /\ InOrder(E)[k] \in DOMAIN w
               /\ items[k] = LineAt(w, InOrder(E)[k])
    BY <1>1, ItemsLines
  <2>2. items = [k \in DOMAIN items |-> items[k]]
    BY DEF Items
  <2>3. E = IF OneField(query.type) THEN {1} ELSE {}
    <3>1. DOMAIN w = {1}
      BY <1>1
    <3>2. 1 \in E <=> OneField(query.type)
      BY <1>1, <1>2, <1>3, <3>1 DEF Ends
    <3>3. E \subseteq {1}
      BY <3>1 DEF Ends
    <3> HIDE DEF E
    <3> QED  BY <3>2, <3>3
  <2> HIDE DEF E, items
  <2>4. CASE OneField(query.type)
    <3>1. Cardinality(E) = 1
      BY <2>3, <2>4, FS_Singleton
    <3>2. \A i \in DOMAIN w : i = 1
      BY <1>1
    <3>3. DOMAIN items = 1 .. 1 /\ \A k \in 1 .. 1 : items[k] = w
      BY <1>2, <2>1, <3>1, <3>2
    <3>4. items = <<w>>
      BY <2>2, <3>3
    <3> QED  BY <2>4, <3>4 DEF items
  <2>5. CASE ~OneField(query.type)
    <3>1. Cardinality(E) = 0
      BY <2>3, <2>5, FS_EmptySet
    <3>2. DOMAIN items = {}
      BY <2>1, <3>1
    <3>3. items = <<>>
      BY <2>2, <3>2
    <3> QED  BY <2>5, <3>3 DEF items
  <2> QED  BY <2>4, <2>5
<1>5. ASSUME OneField(query.type)
      PROVE  Item(query.type, w) = w
  <2> DEFINE v == Item(query.type, w)
  <2>1. Width(query.type) = 1
    BY <1>5 DEF OneField, Width
  <2>2. 1 <= Len(v) /\ Len(v) <= 1 /\ v \in Seq(Fields) /\ \A i \in 1 .. Len(v) : v[i] = w[i]
    BY <1>1, <2>1, ItemFields
  <2> HIDE DEF v
  <2>3. Len(v) = 1 /\ v[1] = w[1]
    <3>1. Len(v) \in Nat
      <4>1. v \in Seq(Fields)
        BY <2>2
      <4> QED  BY <4>1
    <3>2. Len(v) = 1 /\ 1 \in 1 .. Len(v)
      BY <2>2, <3>1
    <3> QED  BY <2>2, <3>2
  <2>4. v = w
    <3>1. DOMAIN v = {1} /\ DOMAIN w = {1}
          /\ v = [i \in DOMAIN v |-> v[i]] /\ w = [i \in DOMAIN w |-> w[i]]
      BY <1>1, <2>2, <2>3
    <3> QED  BY <2>3, <3>1
  <2> QED  BY <2>4 DEF v
<1> QED  BY <1>3, <1>4, <1>5

\* What the answer is, by the branches of Answer.
LEMMA AnswerOf ==
    ASSUME Typed, Answer
    PROVE  /\ phase' = "idle" /\ UNCHANGED <<query, written, file, f, outcome, before>>
           /\ (Result = <<>> \/ Result[1].kind = "error") => answer' = Failed
           /\ ~(Result = <<>> \/ Result[1].kind = "error") =>
                /\ query.all => answer' = [ok |-> TRUE, items |-> Items(query.type, Result)]
                /\ ~query.all =>
                     /\ (Result[1].kind = "missing" \/ ~Accepts(query.type, Result))
                           => answer' = Failed
                     /\ ~(Result[1].kind = "missing" \/ ~Accepts(query.type, Result))
                           => answer' = [ok |-> TRUE, items |-> <<Item(query.type, Result)>>]
<1> HIDE DEF Result
<1> QED  BY DEF Answer

\* The answer to a script that raised, crashed, or whose file cannot be read.
LEMMA AnswerBroken ==
    ASSUME Typed, Answer, Broken
    PROVE  answer' = SentenceAnswer
<1> DEFINE w == Word("sentence")
<1>1. Result = w
  BY DEF Result
<1>2. w # <<>> /\ w[1].kind = "sentence"
  BY Words
<1>3. /\ Accepts(query.type, w) <=> OneField(query.type)
      /\ Items(query.type, w) = IF OneField(query.type) THEN <<w>> ELSE <<>>
      /\ OneField(query.type) => Item(query.type, w) = w
  BY Sentence
<1>4. SentenceAnswer = IF OneField(query.type) THEN [ok |-> TRUE, items |-> <<w>>]
                       ELSE IF query.all THEN [ok |-> TRUE, items |-> <<>>] ELSE Failed
  BY DEF SentenceAnswer
<1> HIDE DEF w
<1>5. ~(Result = <<>> \/ Result[1].kind = "error") /\ Result[1].kind # "missing"
  BY <1>1, <1>2
<1>6. CASE query.all
  <2>1. answer' = [ok |-> TRUE, items |-> Items(query.type, w)]
    BY <1>1, <1>5, <1>6, AnswerOf
  <2> QED  BY <1>3, <1>4, <1>6, <2>1
<1>7. CASE ~query.all /\ OneField(query.type)
  <2>1. answer' = [ok |-> TRUE, items |-> <<Item(query.type, w)>>]
    BY <1>1, <1>3, <1>5, <1>7, AnswerOf
  <2> QED  BY <1>3, <1>4, <1>7, <2>1
<1>8. CASE ~query.all /\ ~OneField(query.type)
  <2>1. answer' = Failed
    BY <1>1, <1>3, <1>5, <1>8, AnswerOf
  <2> QED  BY <1>4, <1>8, <2>1
<1> QED  BY <1>6, <1>7, <1>8

\* No item of it belongs to another query.
LEMMA SentenceOwn ==
    ASSUME Typed, NEW a, a = Failed \/ a = SentenceAnswer
    PROVE  \A k \in DOMAIN a.items : a.items[k] = Word("sentence")
<1> DEFINE w == Word("sentence")
<1>1. a.items = <<>> \/ a.items = <<w>>
  BY DEF SentenceAnswer, Failed
<1> HIDE DEF w
<1>2. CASE a.items = <<>>
  BY <1>2
<1>3. CASE a.items = <<w>>
  BY <1>3 DEF w
<1> QED  BY <1>1, <1>2, <1>3

\* The answer to a script that ran to its end, for all infos of a type.
LEMMA AnswerAll ==
    ASSUME Typed, Complete, Answer, phase = "read", outcome = "done", query.all
    PROVE  /\ Due > 0 => answer'.ok /\ IsPrefix(OwnRows, answer'.items)
           /\ \A k \in DOMAIN answer'.items : \A i \in DOMAIN answer'.items[k] :
                  /\ answer'.items[k][i].by \in {query.id, before.by}
                  /\ answer'.items[k][i].by # query.id =>
                        before.open /\ before.pos + Len(before.pending) > Due * OwnWidth
<1> DEFINE items == Items(query.type, file)
<1>1. /\ query.hit /\ Due \in Nat /\ OwnWidth \in {1, 3, 4} /\ query.type \in Types
      /\ query.id \in 0 .. MaxQueries /\ file \in Seq(Fields)
      /\ OwnUpTo(Due * OwnWidth) /\ LeftBehind(Due * OwnWidth)
  BY Dues DEF Typed, Complete
<1>2. Due * OwnWidth \in Nat
  BY <1>1
<1>3. StartsWithRows(file, query.id, query.type, Due)
  BY <1>1 DEF StartsWithRows, OwnUpTo, Own, OwnWidth
<1>4. Result = file
  BY DEF Result, Broken
<1>5. answer' = Failed \/ answer' = [ok |-> TRUE, items |-> items]
  BY <1>4, AnswerOf
<1>6. Due > 0 => answer' = [ok |-> TRUE, items |-> items]
  BY <1>1, <1>4, AnswerOf, FirstRow
<1>7. Due <= Len(items) /\ \A r \in 1 .. Due : items[r] = Row(query.id, query.type, r)
  BY <1>1, <1>3, OwnItems
<1>8. /\ DOMAIN items = 1 .. Len(items) /\ Len(items) \in Nat
      /\ \A k \in DOMAIN items : \E e \in DOMAIN file : items[k] = LineAt(file, e)
  BY <1>1, ItemsLines
<1>9. ASSUME NEW e \in DOMAIN file, NEW i \in DOMAIN LineAt(file, e)
      PROVE  /\ LineAt(file, e)[i].by \in {query.id, before.by}
             /\ LineAt(file, e)[i].by # query.id =>
                   before.open /\ before.pos + Len(before.pending) > Due * OwnWidth
  <2>1. PICK p \in 1 .. e : LineAt(file, e)[i] = file[p] /\ NotGap(LineAt(file, e)[i])
    BY <1>1, Lines
  <2>2. p \in DOMAIN file
    BY <1>1
  <2> QED  BY <1>1, <1>2, <2>1, <2>2, Sources
<1>10. IsPrefix(OwnRows, items)
  <2> DEFINE R == {Row(query.id, query.type, r) : r \in 1 .. Due}
             L == {LineAt(file, e) : e \in DOMAIN file}
  <2>1. OwnRows \in Seq(R) /\ Len(OwnRows) = Due
        /\ \A r \in 1 .. Due : OwnRows[r] = Row(query.id, query.type, r)
    <3> DEFINE g(r) == Row(query.id, query.type, r)
    <3>1. OwnRows = [r \in 1 .. Due |-> g(r)] /\ R = {g(r) : r \in 1 .. Due}
      BY DEF OwnRows
    <3> HIDE DEF g, R
    <3>2. OwnRows \in Seq(R) /\ Len(OwnRows) = Due /\ \A r \in 1 .. Due : OwnRows[r] = g(r)
      BY <1>1, <3>1
    <3> QED  BY <3>2 DEF g
  <2>2. items \in Seq(L)
    <3>1. items = [k \in 1 .. Len(items) |-> items[k]]
      <4>1. items = [k \in DOMAIN items |-> items[k]]
        BY DEF Items
      <4> QED  BY <1>8, <4>1
    <3>2. \A k \in 1 .. Len(items) : items[k] \in L
      BY <1>8
    <3> HIDE DEF items, L
    <3> QED  BY <1>8, <3>1, <3>2
  <2> HIDE DEF items, R, L
  <2> QED  BY <1>7, <2>1, <2>2, StartsWith
<1>11. ASSUME NEW k \in DOMAIN answer'.items, NEW i \in DOMAIN answer'.items[k]
       PROVE  /\ answer'.items[k][i].by \in {query.id, before.by}
              /\ answer'.items[k][i].by # query.id =>
                    before.open /\ before.pos + Len(before.pending) > Due * OwnWidth
  <2> HIDE DEF items
  <2>1. answer'.items = items
    BY <1>5 DEF Failed
  <2>2. PICK e \in DOMAIN file : items[k] = LineAt(file, e)
    BY <1>8, <2>1
  <2> QED  BY <1>9, <2>1, <2>2
<1> HIDE DEF items
<1> QED  BY <1>6, <1>10, <1>11

\* The answer to a script that ran to its end, for one info.
LEMMA AnswerOne ==
    ASSUME Typed, Complete, Answer, phase = "read", outcome = "done", ~query.all
    PROVE  /\ answer'.ok = query.hit
           /\ query.hit => IsPrefix(OwnRows[1], answer'.items[1])
           /\ \A k \in DOMAIN answer'.items : \A i \in DOMAIN answer'.items[k] :
                  /\ answer'.items[k][i].by \in {query.id, before.by}
                  /\ answer'.items[k][i].by # query.id =>
                        before.open /\ before.pos + Len(before.pending) > Due * OwnWidth
<1>1. /\ OwnWidth \in {1, 3, 4} /\ query.type \in Types /\ query.hit \in BOOLEAN
      /\ query.id \in 0 .. MaxQueries /\ file \in Seq(Fields)
  BY Dues DEF Typed, TypeOK
<1>2. Result = file
  BY DEF Result, Broken
<1>3. CASE ~query.hit
  <2>1. file # <<>> /\ file[1].kind = "missing"
    BY <1>3 DEF Complete
  <2>2. answer' = Failed
    BY <1>2, <2>1, AnswerOf
  <2>3. answer'.ok = FALSE /\ answer'.items = <<>> /\ query.hit = FALSE
    BY <1>1, <1>3, <2>2 DEF Failed
  <2>4. DOMAIN answer'.items = {}
    BY <2>3
  <2> QED  BY <2>3, <2>4
<1>4. CASE query.hit
  <2> DEFINE item == Item(query.type, file)
             row == Row(query.id, query.type, 1)
  <2>1. Due = 1 /\ OwnUpTo(Due * OwnWidth) /\ LeftBehind(Due * OwnWidth)
    BY <1>4 DEF Due, Complete
  <2>2. /\ file # <<>> /\ file[1].kind \in {"text", "number"} /\ OwnWidth <= Len(file)
        /\ \A i \in 1 .. OwnWidth : file[i] = row[i] /\ NotGap(file[i])
    BY <1>4, <2>1, FirstRow
  <2>3. /\ row \in Seq(RowFields) /\ Len(row) = OwnWidth
        /\ \A c \in 1 .. OwnWidth : row[c].kind = Layout(query.type)[c]
    <3>1. 1 \in Nat
      OBVIOUS
    <3> QED  BY <1>1, <3>1, Rows DEF OwnWidth
  <2>4. Accepts(query.type, file)
    <3>1. \A i \in Parsed(query.type) : i \in 1 .. OwnWidth /\ Layout(query.type)[i] = "number"
      BY <1>1, Layouts DEF OwnWidth
    <3> HIDE DEF row
    <3> QED  BY <2>2, <2>3, <3>1 DEF Accepts, OwnWidth, Width
  <2>5. answer' = [ok |-> TRUE, items |-> <<item>>]
    BY <1>2, <2>2, <2>4, AnswerOf
  <2>6. /\ OwnWidth <= Len(item) /\ Len(item) <= Len(file) /\ item \in Seq(Fields)
        /\ \A i \in 1 .. Len(item) : item[i] = file[i] /\ NotGap(file[i])
    BY <1>1, <2>2, ItemFields DEF OwnWidth
  <2> HIDE DEF item, row
  <2>7. OwnRows[1] = row
    BY <2>1 DEF OwnRows, row
  <2>8. IsPrefix(row, item)
    <3>1. \A i \in 1 .. OwnWidth : i \in 1 .. Len(item)
      BY <1>1, <2>6
    <3>2. \A i \in 1 .. Len(row) : item[i] = row[i]
      BY <2>2, <2>3, <2>6, <3>1
    <3> QED  BY <2>3, <2>6, <3>2, StartsWith
  <2>9. ASSUME NEW i \in DOMAIN item
        PROVE  /\ item[i].by \in {query.id, before.by}
               /\ item[i].by # query.id =>
                     before.open /\ before.pos + Len(before.pending) > Due * OwnWidth
    <3>1. i \in 1 .. Len(item) /\ i \in DOMAIN file /\ Due * OwnWidth \in Nat
      BY <1>1, <2>1, <2>6
    <3> QED  BY <2>1, <2>6, <3>1, Sources
  <2>10. \A k \in DOMAIN answer'.items : answer'.items[k] = item
    BY <2>5
  <2>11. answer'.ok = query.hit
    BY <1>1, <1>4, <2>5
  <2>12. answer'.items[1] = item
    BY <2>5
  <2> QED  BY <2>7, <2>8, <2>9, <2>10, <2>11, <2>12
<1> QED  BY <1>1, <1>3, <1>4

\* What is parsed from a complete, a handled or a broken result is as Results says.
LEMMA AnswerStep == IInv /\ Answer => IInv'
<1> SUFFICES ASSUME IInv, Answer PROVE IInv'
  OBVIOUS
<1>1. /\ phase = "read" /\ phase' = "idle"
      /\ UNCHANGED <<query, written, file, f, outcome, before>>
      /\ Typed /\ Complete /\ Handled /\ outcome # "none"
  BY DEF Answer, IInv, Stages
<1>2. Typed'
  <2>1. /\ DOMAIN answer' = {"ok", "items"} /\ answer'.ok \in BOOLEAN
        /\ answer'.ok \/ answer'.items = <<>>
    <3>1. \/ answer' = Failed
          \/ \E items : answer' = [ok |-> TRUE, items |-> items]
      <4>1. query.all \in BOOLEAN
        BY <1>1 DEF Typed, TypeOK
      <4> QED  BY <1>1, <4>1, AnswerOf
    <3>2. CASE answer' = Failed
      BY <3>2 DEF Failed
    <3>3. ASSUME NEW items, answer' = [ok |-> TRUE, items |-> items]
          PROVE  DOMAIN answer' = {"ok", "items"} /\ answer'.ok = TRUE
      BY <3>3
    <3> QED  BY <3>1, <3>2, <3>3
  <2> QED  BY <1>1, <2>1 DEF Typed, TypeOK
<1>3. Due' = Due /\ OwnWidth' = OwnWidth /\ OwnRows' = OwnRows
      /\ Word("sentence")' = Word("sentence")
  BY <1>1 DEF Due, OwnWidth, OwnRows, Word
<1>4. CASE outcome = "done"
  <2>1. query.all => /\ Due > 0 => answer'.ok /\ IsPrefix(OwnRows, answer'.items)
    BY <1>1, <1>4, AnswerAll
  <2>2. ~query.all => /\ answer'.ok = query.hit
                      /\ query.hit => IsPrefix(OwnRows[1], answer'.items[1])
    BY <1>1, <1>4, AnswerOne
  <2>3. \A k \in DOMAIN answer'.items : \A i \in DOMAIN answer'.items[k] :
            /\ answer'.items[k][i].by \in {query.id, before.by}
            /\ answer'.items[k][i].by # query.id =>
                  before.open /\ before.pos + Len(before.pending) > Due * OwnWidth
    <3>1. CASE query.all
      BY <1>1, <1>4, <3>1, AnswerAll
    <3>2. CASE ~query.all
      BY <1>1, <1>4, <3>2, AnswerOne
    <3> QED  BY <3>1, <3>2
  <2>4. OwnRowsFirst'
    BY <1>1, <1>3, <2>1, <2>2 DEF OwnRowsFirst
  <2>5. ForeignOnlyLeftOver'
    BY <1>1, <1>3, <2>3 DEF ForeignOnlyLeftOver, Foreign, OwnWidth, Width
  <2>6. AnswerToFailure'
    BY <1>1, <1>4 DEF AnswerToFailure
  <2> QED  BY <1>1, <1>2, <2>4, <2>5, <2>6 DEF IInv, Stages, Progress, Complete, Handled, Results
<1>5. CASE outcome # "done"
  <2>1. answer' = IF outcome = "handled" THEN Failed ELSE SentenceAnswer
    <3>1. CASE outcome = "handled"
      <4>1. file = Word("error") /\ Word("error") # <<>> /\ Word("error")[1].kind = "error"
        BY <1>1, <3>1, Words DEF Handled
      <4>2. Result = file
        BY <3>1 DEF Result, Broken
      <4> QED  BY <1>1, <3>1, <4>1, <4>2, AnswerOf
    <3>2. CASE outcome # "handled"
      <4>1. Broken
        BY <1>1, <1>5, <3>2 DEF Broken, Typed, TypeOK
      <4> QED  BY <1>1, <3>2, <4>1, AnswerBroken
    <3> QED  BY <3>1, <3>2
  <2>2. ~Foreign(Word("sentence"))
    BY <1>1, Words DEF Foreign
  <2>3. OwnRowsFirst'
    BY <1>1, <1>5 DEF OwnRowsFirst
  <2>4. ForeignOnlyLeftOver'
    <3>1. \A k \in DOMAIN answer'.items : answer'.items[k] = Word("sentence")
      BY <1>1, <2>1, SentenceOwn
    <3>2. \A k \in DOMAIN answer'.items :
              \A i \in DOMAIN answer'.items[k] : ~(answer'.items[k][i].by # query'.id)
      BY <1>1, <2>2, <3>1 DEF Foreign
    <3> QED  BY <3>2 DEF ForeignOnlyLeftOver, Foreign
  <2>5. AnswerToFailure'
    <3>1. SentenceAnswer' = SentenceAnswer /\ Failed' = Failed
      BY <1>1 DEF SentenceAnswer, Failed, Word
    <3> QED  BY <1>1, <2>1, <3>1 DEF AnswerToFailure
  <2> QED  BY <1>1, <1>2, <2>3, <2>4, <2>5 DEF IInv, Stages, Progress, Complete, Handled, Results
<1> QED  BY <1>4, <1>5

\* A step that changes nothing keeps it.
LEMMA Stutter == IInv /\ UNCHANGED vars => IInv'
<1> SUFFICES ASSUME IInv, UNCHANGED vars PROVE IInv'
  OBVIOUS
<1> USE DEF vars
<1>1. Typed'
  BY DEF IInv, Typed, TypeOK
<1>2. Results'
  BY DEF IInv, Results, OwnRowsFirst, ForeignOnlyLeftOver, AnswerToFailure, Answered,
         Due, OwnRows, Foreign, Word, SentenceAnswer, Failed
<1>3. Progress'
  BY DEF IInv, Progress, Due, OwnWidth, OwnUpTo, LeftBehind, FromBefore, Own
<1>4. Complete' /\ Handled' /\ Stages'
  BY DEF IInv, Complete, Handled, Stages, Due, OwnWidth, OwnUpTo, LeftBehind, FromBefore, Own, Word
<1> QED  BY <1>1, <1>2, <1>3, <1>4 DEF IInv

-----------------------------------------------------------------------------
(* Theorems                                                                   *)

\* However the queries of data_extractor.cpp follow each other and their
\* scripts end, IInv holds: while a script writes, its rows so far are in the
\* file and on in its buffer without a gap, and what lies behind them is what
\* the file object it replaced has flushed.
THEOREM Extraction == Spec => []IInv
<1>1. IInv /\ [Next]_vars => IInv'
  BY RefuseStep, AskStep, OpenStep, WriteRowStep, CloseStep, HandleStep, BreakStep,
     UnreadableStep, AnswerStep, Stutter DEF Next
<1> QED  BY <1>1, InitHolds, PTL DEF Spec

\* The state is of its type.  A script that handled its exception is answered
\* with an error; any other failure with the sentence that reports it: as the one
\* info of a type with one field, as a list without infos of another type, and
\* as a failed lookup.  No row written by any script is in the answer.
THEOREM FailuresSeen == Spec => []ExtractionSafe
<1>1. IInv => ExtractionSafe
  BY DEF IInv, Typed, Results, ExtractionSafe
<1> QED  BY <1>1, Extraction, PTL

\* A script that ran to its end is answered with all of its rows, in order and
\* first, whatever a file object of an earlier script has written behind them.
THEOREM RowsFirst == Spec => []OwnRowsFirst
<1>1. IInv => OwnRowsFirst
  BY DEF IInv, Results
<1> QED  BY <1>1, Extraction, PTL

\* Fields of another query in an answer come from the one script whose file
\* object was still open when this one's open replaced it, and only when that
\* one had written further than this query's rows reach.
THEOREM ForeignBounded == Spec => []ForeignOnlyLeftOver
<1>1. IInv => ForeignOnlyLeftOver
  BY DEF IInv, Results
<1> QED  BY <1>1, Extraction, PTL
=============================================================================
