--------------------------- MODULE DataExtraction ---------------------------
(***************************************************************************)
(* The queries of TesseraHost: DataExtractor composes a Python script,      *)
(* PythonBridge::run_script_with_output runs it and reads the one result     *)
(* file back, and DataExtractor parses what it reads.  The interpreter       *)
(* outlives the scripts, and with it their global f, the file object of a    *)
(* script that failed before its f.close().                                  *)
(*                                                                           *)
(* A text is a sequence of fields; the last field of a line is marked.       *)
(***************************************************************************)
EXTENDS Naturals, FiniteSets, Sequences, SequencesExt, Orders

CONSTANTS
    Infos,       \* Infos[t]: how many infos of type t the game DLL has
    Buf,         \* fields that fit into a file object's buffer
    MaxQueries   \* bound on the number of queries

Types == DOMAIN Infos

\* What the scripts write for a type; a field with a number can be read as one.
Layout(t) ==
    CASE t = "tech" -> <<"text", "number", "number">>
      [] t = "building" -> <<"text", "number", "text">>
      [] t = "unit" -> <<"text", "number", "number", "number">>
      [] t \in {"unit_art", "building_art"} -> <<"text", "text", "text", "number">>
      [] OTHER -> <<"text">>

\* The fields stoi must accept; a scale that is no number is read as 1.0.
Parsed(t) == IF t \in {"tech", "building", "unit"}
             THEN {i \in DOMAIN Layout(t) : Layout(t)[i] = "number"} ELSE {}

ASSUME ExtractionAssumption ==
    /\ Infos \in [Types -> Nat] /\ Types # {}
    /\ Types \subseteq {"tech", "building", "unit", "promotion", "bonus", "civilization",
                        "era", "unit_art", "building_art"}
    /\ Buf \in Nat \ {0} /\ MaxQueries \in Nat

VARIABLES
    phase,    \* "idle", "script" (before its open), "writing", "read"
    query,    \* the query: [id, type, all, hit]
    written,  \* rows the script has written
    file,     \* the text in tessera_py_result.txt
    f,        \* the interpreter's f: [by, open, pos, pending]
    outcome,  \* how the script ended, and whether its file could be read
    answer,   \* what DataExtractor returned: [ok, items]
    before    \* history: the f that this query's script found

vars == <<phase, query, written, file, f, outcome, answer, before>>

-----------------------------------------------------------------------------
(* Texts and files                                                           *)

Field(q, r, kind, last) == [by |-> q, row |-> r, kind |-> kind, last |-> last]

\* The r-th row query q writes of type t.
Row(q, t, r) == [i \in DOMAIN Layout(t) |-> Field(q, r, Layout(t)[i], i = Len(Layout(t)))]

Word(kind) == <<Field(query.id, 0, kind, TRUE)>>

\* Bytes that were never written.
Gap == Field(0, 0, "gap", FALSE)

\* The text after a file object has written fields at a position.
Overlay(text, pos, fields) ==
    IF fields = <<>> THEN text ELSE
        [i \in 1 .. IF Len(text) > pos + Len(fields) THEN Len(text) ELSE pos + Len(fields) |->
            IF i > pos /\ i <= pos + Len(fields) THEN fields[i - pos]
            ELSE IF i <= Len(text) THEN text[i] ELSE Gap]

\* f.write: whatever exceeds the buffer goes to the file.
Write(fields) ==
    LET all == f.pending \o fields
        out == IF Len(all) <= Buf THEN 0 ELSE ((Len(all) - 1) \div Buf) * Buf
    IN /\ file' = Overlay(file, f.pos, SubSeq(all, 1, out))
       /\ f' = [f EXCEPT !.pos = @ + out, !.pending = SubSeq(all, out + 1, Len(all))]

NoFile == [by |-> 0, open |-> FALSE, pos |-> 0, pending |-> <<>>]

-----------------------------------------------------------------------------
(* A query                                                                   *)

Failed == [ok |-> FALSE, items |-> <<>>]

\* An unknown type is refused before a script is run.
Refuse ==
    /\ phase = "idle"
    /\ answer' = Failed /\ outcome' = "none"
    /\ UNCHANGED <<phase, query, written, file, f, before>>

\* A type's script is composed and handed to the interpreter: get_all_infos, or
\* get_info (of an art type: get_art_info) with a key that exists or not.
Ask ==
    /\ phase = "idle" /\ query.id < MaxQueries
    /\ \E t \in Types, all, hit \in BOOLEAN :
        /\ all => hit
        /\ (~all /\ hit => Infos[t] > 0)
        /\ query' = [id |-> query.id + 1, type |-> t, all |-> all, hit |-> hit]
    /\ phase' = "script" /\ written' = 0 /\ answer' = Failed /\ outcome' = "none"
    /\ UNCHANGED <<file, f, before>>

\* Mutant: the file is opened without being truncated.
OpenKeepsText ==
    /\ phase = "script"
    /\ before' = f
    /\ file' = IF f.open THEN Overlay(file, f.pos, f.pending) ELSE file
    /\ f' = [by |-> query.id, open |-> TRUE, pos |-> 0, pending |-> <<>>]
    /\ phase' = "writing"
    /\ UNCHANGED <<query, written, outcome, answer>>

\* Mutant: the file is opened at its end.
OpenAppends ==
    /\ phase = "script"
    /\ before' = f
    /\ file' = Overlay(<<>>, f.pos, f.pending)
    /\ f' = [by |-> query.id, open |-> TRUE, pos |-> Len(file'), pending |-> <<>>]
    /\ phase' = "writing"
    /\ UNCHANGED <<query, written, outcome, answer>>

\* f = open(path, 'w').  The file is truncated; then the name is bound, which
\* ends the file object it named before: one that is still open writes the
\* rest of its buffer, at its own position.
Open ==
    /\ phase = "script"
    /\ before' = f
    /\ file' = IF f.open THEN Overlay(<<>>, f.pos, f.pending) ELSE <<>>
    /\ f' = [by |-> query.id, open |-> TRUE, pos |-> 0, pending |-> <<>>]
    /\ phase' = "writing"
    /\ UNCHANGED <<query, written, outcome, answer>>

\* The rows the script is to write.
Due == IF query.all THEN Infos[query.type] ELSE IF query.hit THEN 1 ELSE 0

WriteRow ==
    /\ phase = "writing" /\ written < Due
    /\ Write(Row(query.id, query.type, written + 1))
    /\ written' = written + 1
    /\ UNCHANGED <<phase, query, outcome, answer, before>>

\* A lookup that has found nothing says so; then f.close().
Close ==
    /\ phase = "writing" /\ written = Due
    /\ file' = Overlay(file, f.pos,
                 f.pending \o IF ~query.all /\ ~query.hit THEN Word("missing") ELSE <<>>)
    /\ f' = [f EXCEPT !.open = FALSE, !.pending = <<>>]
    /\ phase' = "read" /\ outcome' = "done"
    /\ UNCHANGED <<query, written, answer, before>>

\* The game DLL's code runs before the first row and between rows; there it can
\* raise an exception or crash.
MayFail ==
    \/ phase = "script"
    \/ phase = "writing" /\ (written < Due \/ written = 0)

\* Mutant: the handler writes the error where the rows went.
HandleInPlace ==
    /\ MayFail
    /\ file' = Overlay(file, f.pos, f.pending \o Word("error"))
    /\ phase' = "read" /\ outcome' = "handled"
    /\ UNCHANGED <<query, written, f, answer, before>>

\* except Exception, e: f2 truncates the file and replaces its text.  f stays
\* as it is.
Handle ==
    /\ MayFail
    /\ file' = Word("error")
    /\ phase' = "read" /\ outcome' = "handled"
    /\ UNCHANGED <<query, written, f, answer, before>>

\* An exception that is not handled (a syntax error, a handler that cannot
\* open the file), and a crash that SEH catches.
Break ==
    /\ MayFail
    /\ phase' = "read" /\ outcome' \in {"raised", "crashed"}
    /\ UNCHANGED <<query, written, file, f, answer, before>>

\* The script has ended well, but its file cannot be opened.
Unreadable ==
    /\ phase = "read" /\ outcome \in {"done", "handled"}
    /\ outcome' = "unreadable"
    /\ UNCHANGED <<phase, query, written, file, f, answer, before>>

Broken == outcome \in {"raised", "crashed", "unreadable"}

\* What run_script_with_output returns: the file, or a sentence of its own.
Result == IF Broken THEN Word("sentence") ELSE file

-----------------------------------------------------------------------------
(* Parsing the result                                                        *)

NotGap(field) == field.kind # "gap"

\* The line of a text that ends at its i-th field.
LineAt(text, i) ==
    LET line == InOrder({j \in 1 .. i : /\ NotGap(text[j])
                                       /\ \A l \in j .. i - 1 : ~text[l].last})
    IN [k \in DOMAIN line |-> text[line[k]]]

Accepts(t, line) ==
    /\ Len(line) >= Len(Layout(t))
    /\ \A i \in Parsed(t) : line[i].kind = "number"

\* get_all_infos: every line that can be parsed becomes an item.
Items(t, text) ==
    LET ends == InOrder({i \in DOMAIN text : text[i].last /\ Accepts(t, LineAt(text, i))})
    IN [k \in DOMAIN ends |-> LineAt(text, ends[k])]

\* get_info and get_art_info: the whole result is one line.  A last field that
\* is text takes in whatever follows, up to a zero byte.
Item(t, text) ==
    IF Layout(t)[Len(Layout(t))] = "text"
    THEN SubSeq(text, 1, Cardinality({i \in DOMAIN text : \A j \in 1 .. i : NotGap(text[j])}))
    ELSE SubSeq(text, 1, Len(Layout(t)))

Answer ==
    /\ phase = "read"
    /\ LET t == query.type IN
        answer' =
            IF Result = <<>> \/ Result[1].kind = "error" THEN Failed
            ELSE IF query.all THEN [ok |-> TRUE, items |-> Items(t, Result)]
            ELSE IF Result[1].kind = "missing" \/ ~Accepts(t, Result) THEN Failed
            ELSE [ok |-> TRUE, items |-> <<Item(t, Result)>>]
    /\ phase' = "idle"
    /\ UNCHANGED <<query, written, file, f, outcome, before>>

Init ==
    /\ phase = "idle" /\ written = 0 /\ file = <<>> /\ f = NoFile /\ before = NoFile
    /\ query = [id |-> 0, type |-> CHOOSE t \in Types : TRUE, all |-> TRUE, hit |-> TRUE]
    /\ outcome = "none" /\ answer = Failed

Next ==
    \/ Refuse \/ Ask \/ Open \/ WriteRow \/ Close \/ Handle \/ Break \/ Unreadable \/ Answer

Spec == Init /\ [][Next]_vars

-----------------------------------------------------------------------------
(* Properties                                                                *)

FileObject == [by : 0 .. MaxQueries, open : BOOLEAN, pos : Nat, pending : Seq([
                 by : 0 .. MaxQueries, row : Nat, kind : {"text", "number"}, last : BOOLEAN])]

TypeOK ==
    /\ phase \in {"idle", "script", "writing", "read"}
    /\ query \in [id : 0 .. MaxQueries, type : Types, all : BOOLEAN, hit : BOOLEAN]
    /\ written \in Nat
    /\ f \in FileObject /\ Len(f.pending) <= Buf /\ before \in FileObject
    /\ outcome \in {"none", "done", "handled", "raised", "crashed", "unreadable"}
    /\ answer.ok \in BOOLEAN /\ (answer.ok \/ answer.items = <<>>)

Answered == phase = "idle" /\ query.id > 0

OwnRows == [r \in 1 .. Due |-> Row(query.id, query.type, r)]

Foreign(item) == \E i \in DOMAIN item : item[i].by # query.id

\* A script that ran to its end answers with all of its rows, in order and
\* before anything else, whatever earlier scripts have left behind.
OwnRowsFirst ==
    Answered /\ outcome = "done" =>
        IF query.all
          THEN Due > 0 => answer.ok /\ IsPrefix(OwnRows, answer.items)
          ELSE /\ answer.ok = query.hit
               /\ query.hit => IsPrefix(OwnRows[1], answer.items[1])

\* Rows of another query can only be those that the last script to open the
\* file had in its buffer when it failed, and only beyond the query's own.
ForeignOnlyLeftOver ==
    Answered => \A k \in DOMAIN answer.items :
        Foreign(answer.items[k]) =>
            /\ before.open
            /\ \A i \in DOMAIN answer.items[k] :
                   answer.items[k][i].by \in {query.id, before.by}
            /\ before.pos + Len(before.pending) > Due * Len(Layout(query.type))

\* What run_script_with_output says of a failure is one line of text; to
\* get_all_infos, and to a lookup of a type with no other field, that is a row.
OneField(t) == Len(Layout(t)) = 1

SentenceAnswer ==
    IF OneField(query.type) THEN [ok |-> TRUE, items |-> <<Word("sentence")>>]
    ELSE IF query.all THEN [ok |-> TRUE, items |-> <<>>]
    ELSE Failed

\* What a script that failed is answered with.  Only one that handled its
\* exception is answered with an error every time: after an exception it did not
\* handle, a crash, or when the file cannot be read, the sentence that says so is
\* served as the only info of a type with one field, get_all_infos of any other
\* type is answered with no infos, and only a lookup of such a type fails.  Rows
\* that were written before the failure, by this script or another, are in none
\* of these answers, though they may be in the file.
AnswerToFailure ==
    Answered /\ outcome # "none" /\ outcome # "done" =>
        answer = IF outcome = "handled" THEN Failed ELSE SentenceAnswer

\* The state is of its type, and whatever way execute fails the answer is the
\* one above, whatever is in the file and in f's buffer.
ExtractionSafe == TypeOK /\ AnswerToFailure

-----------------------------------------------------------------------------
(* What the comments say of it                                               *)

\* data_extractor.h 21: get_all_infos returns all infos of the given type.
AllOfTheType == Answered /\ query.all => \A k \in DOMAIN answer.items : ~Foreign(answer.items[k])

\* data_extractor.h 23: get_all_infos returns an empty string on error.
EmptyOnError ==
    Answered /\ query.all /\ outcome # "none" /\ outcome # "done" => answer = Failed

\* A script that has ended is answered: nothing waits between the two.
FairSpec == Spec /\ WF_vars(Answer)

\* The two lines of the header together: a process keeps at least one of them.
\* One in which this fails has broken both.
HeaderHolds == []AllOfTheType \/ []EmptyOnError
=============================================================================
