---------------------------- MODULE HostCallbacks ----------------------------
(***************************************************************************)
(* The callbacks the game DLL reads its XML through: one FXml, which is a   *)
(* pugixml document with a cursor (host_callbacks.cpp), behind the relay's  *)
(* CvDLLXmlIFaceImpl (relay_xml.cpp), the search for a file in the install  *)
(* and the lists of files.  The DLL is any sequence of these calls, those   *)
(* on a document that a failed LoadXml has destroyed included.              *)
(***************************************************************************)
EXTENDS Integers, Sequences, FiniteSets

CONSTANTS
    Documents,  \* parsed documents: records of the fields
                \*   up   the parent of each node, 0 for the document node 1
                \*   tag  the name of each element, Text for a text node
                \*   len  the length of the text of each text node
    Installs,   \* installs: what lies under each name in each layer, a
                \* document, Malformed, or Absent
    Names,      \* the paths the DLL asks for, below Assets
    Listed,     \* those a pattern of enumerateFiles matches
    Tags, Paths, \* what the DLL locates by: tags, and sequences of tags
    Text, Malformed, Absent,
    Buffer,     \* the 1024 characters of the relay's buffers
    MaxLoads, MaxDepth \* bounds on the loads and on the DLL's descent

Layers == <<"mod", "bts", "warlords", "base">>
Dirs == {Layers[i] : i \in DOMAIN Layers}

\* What pugixml parses: a tree below the document node, in which each element
\* lies in an element or is the root of the document, and there is a root.
IsDocument(d) ==
    LET nodes == DOMAIN d.up IN
    /\ nodes \subseteq Nat \ {0} /\ IsFiniteSet(nodes)
    /\ 1 \in nodes /\ d.up[1] = 0
    /\ \A c \in nodes \ {1} : d.up[c] \in nodes /\ (d.up[c] = 1 \/ d.tag[d.up[c]] # Text)
    /\ \E c \in nodes : d.up[c] = 1 /\ d.tag[c] # Text
    /\ \A c \in nodes : d.len[c] \in Nat

ASSUME CallbacksAssumption ==
    /\ \A d \in Documents : IsDocument(d)
    /\ Absent \notin Documents /\ Malformed \notin Documents
    /\ Installs \subseteq [Dirs -> [Names -> Documents \cup {Malformed, Absent}]]
    /\ Listed \subseteq Names /\ IsFiniteSet(Listed)
    /\ Text \notin Tags /\ Paths \subseteq Seq(Tags)
    /\ Buffer \in Nat /\ Buffer > 4

VARIABLES
    install,    \* the files of the install
    modName,    \* whether g_modName is set
    live,       \* whether the FXml exists
    loaded,     \* FXml::loaded
    doc,        \* what FXml::doc holds: a document or Absent
    cursor,     \* FXml::current_node: a document and one of its nodes, 0 for none
    list,       \* what the last enumeration returned
    answer,     \* what the last read returned: its length, or -1
    trail,      \* history: the nodes the DLL has descended from, the last first
    loads       \* history: what each LoadXml was asked and where it looked

files == <<install, modName, list, loads>>
vars == <<install, modName, live, loaded, doc, cursor, list, answer, trail, loads>>

NoNode == [doc |-> Absent, node |-> 0]

Init ==
    /\ install \in Installs /\ modName \in BOOLEAN
    /\ live = FALSE /\ loaded = FALSE /\ doc = Absent /\ cursor = NoNode
    /\ list = <<>> /\ answer = -1 /\ trail = <<>> /\ loads = <<>>

-----------------------------------------------------------------------------
\* pugixml.  Its default parsing keeps elements and texts; a text has no name.

Nodes(d) == DOMAIN d.up
Children(d, n) == {c \in Nodes(d) : d.up[c] = n}
IsElement(d, n) == d.tag[n] # Text
Elements(d, n) == {c \in Children(d, n) : IsElement(d, c)}
Tagged(d, n, t) == {c \in Children(d, n) : d.tag[c] = t}
\* The first and the last of some siblings; 0 is the node that is none.
First(S) == IF S = {} THEN 0 ELSE CHOOSE c \in S : \A e \in S : c <= e
Final(S) == IF S = {} THEN 0 ELSE CHOOSE c \in S : \A e \in S : e <= c

FirstElement(d, n) == First(Elements(d, n))
FirstTagged(d, n, t) == First(Tagged(d, n, t))
\* Mutant: the next sibling may be a text.
AnyNextSibling(d, n) == First({c \in Children(d, d.up[n]) : n < c})
NextSibling(d, n) == First({c \in Elements(d, d.up[n]) : n < c})
PrevSibling(d, n) == Final({c \in Elements(d, d.up[n]) : c < n})
NextTagged(d, n, t) == First({c \in Tagged(d, d.up[n], t) : n < c})
\* Without backtracking: the first child of each name.
LocateNode(d, path) ==
    LET at[i \in 0..Len(path)] ==
            IF i = 0 THEN 1
            ELSE IF at[i - 1] = 0 THEN 0 ELSE FirstTagged(d, at[i - 1], path[i])
    IN  at[Len(path)]

NumChildren(d, n) == Cardinality(Elements(d, n))
NumChildrenByTag(d, n, t) == Cardinality(Tagged(d, n, t))
NumElementsByTag(d, n, t) ==
    IF d.up[n] = 0 THEN 0 ELSE Cardinality(Tagged(d, d.up[n], t))
NumSiblings(d, n) ==
    LET count == Cardinality(Elements(d, d.up[n]))
    IN  IF d.up[n] = 0 \/ count = 0 THEN 0 ELSE count - 1

\* get_node_text: the first text among the children, "" if there is none.
TextLength(d, n) ==
    LET texts == {c \in Children(d, n) : ~IsElement(d, c)}
    IN  IF texts = {} THEN 0 ELSE d.len[First(texts)]

-----------------------------------------------------------------------------
\* Files.

\* Mutant: the base game before Warlords.
SearchedBaseFirst ==
    LET layers == <<"mod", "bts", "base", "warlords">>
    IN  IF modName THEN layers ELSE Tail(layers)
\* resolve_xml_path: the mod if there is one, then down to the base game; the
\* path below Beyond the Sword if nothing is found.
Searched == IF modName THEN Layers ELSE Tail(Layers)
Lies(l, name) == install[l][name] # Absent
Resolve(name) ==
    LET hits == {i \in DOMAIN Searched : Lies(Searched[i], name)}
    IN  IF hits = {} THEN "bts" ELSE Searched[First(hits)]

\* What FindFirstFile and FindNextFile go through: each name once, in the order
\* of the file system.
In(l) ==
    LET names == {n \in Listed : Lies(l, n)}
    IN  {s \in [1..Cardinality(names) -> names] : \A n \in names : \E i \in DOMAIN s : s[i] = n}
AsPaths(l, names) == [i \in DOMAIN names |-> [layer |-> l, name |-> names[i]]]
\* cb_enumerate_files: relative names, of the mod and of Beyond the Sword only;
\* a name of both is there twice.  "any" stands for no layer.
Files == {AsPaths("any", m \o b) : m \in (IF modName THEN In("mod") ELSE {<<>>}), b \in In("bts")}
\* Mutant: names of both layers, all as paths of the first.
ModuleFilesOfBoth ==
    {AsPaths(IF modName THEN "mod" ELSE "bts", m \o b) : m \in In("mod"), b \in In("bts")}
\* cb_enumerate_module_files: full paths, of the mod or of Beyond the Sword.
ModuleFiles ==
    LET l == IF modName THEN "mod" ELSE "bts" IN {AsPaths(l, names) : names \in In(l)}

Found(path) == IF path.layer = "any" THEN Resolve(path.name) ELSE path.layer

\* The relay copies the list and has the host free it.
Enumerate ==
    /\ list' \in Files \cup ModuleFiles
    /\ UNCHANGED <<install, modName, live, loaded, doc, cursor, answer, trail, loads>>

-----------------------------------------------------------------------------
\* The FXml.

CreateFXml ==
    /\ ~live
    /\ live' = TRUE /\ loaded' = FALSE /\ doc' = Absent /\ cursor' = NoNode
    /\ trail' = <<>> /\ answer' = -1
    /\ UNCHANGED files
DestroyFXml ==
    /\ live
    /\ live' = FALSE /\ loaded' = FALSE /\ doc' = Absent /\ cursor' = NoNode
    /\ trail' = <<>> /\ answer' = -1
    /\ UNCHANGED files

\* Mutant: a document that does not parse leaves loaded as it was.
LoadKeepsLoaded(path) ==
    LET content == install[Found(path)][path.name]
        ok == content \notin {Absent, Malformed}
    IN  /\ live /\ Len(loads) < MaxLoads
        /\ doc' = IF ok THEN content ELSE Absent
        /\ loaded' = (loaded \/ ok)
        /\ cursor' = IF ok THEN [doc |-> content, node |-> FirstElement(content, 1)] ELSE cursor
        /\ loads' = Append(loads, [path |-> path, layer |-> Found(path), ok |-> ok])
        /\ trail' = <<>> /\ answer' = -1
        /\ UNCHANGED <<install, modName, live, list>>
\* cb_xml_load: the old document is gone even if the new one does not parse;
\* then the cursor is left where it was.
LoadXml(path) ==
    LET content == install[Found(path)][path.name]
        ok == content \notin {Absent, Malformed}
    IN  /\ live /\ Len(loads) < MaxLoads
        /\ doc' = IF ok THEN content ELSE Absent
        /\ loaded' = ok
        /\ cursor' = IF ok THEN [doc |-> content, node |-> FirstElement(content, 1)] ELSE cursor
        /\ loads' = Append(loads, [path |-> path, layer |-> Found(path), ok |-> ok])
        /\ trail' = <<>> /\ answer' = -1
        /\ UNCHANGED <<install, modName, live, list>>

\* A call that finds a node moves the cursor there; otherwise it returns 0, as
\* it does where there has been no node yet.
MoveTo(n, way) ==
    /\ live /\ loaded /\ n # 0
    /\ cursor' = [cursor EXCEPT !.node = n]
    /\ trail' = way /\ answer' = -1
    /\ UNCHANGED <<live, loaded, doc, files>>

here == cursor.node
Deeper == <<here>> \o trail

Locate(path) == MoveTo(LocateNode(doc, path), <<>>)
SetToChild == Len(trail) < MaxDepth /\ MoveTo(FirstElement(cursor.doc, here), Deeper)
SetToChildByTag(t) ==
    Len(trail) < MaxDepth /\ MoveTo(FirstTagged(cursor.doc, here, t), Deeper)
SetToParent ==
    MoveTo(cursor.doc.up[here], IF trail = <<>> THEN trail ELSE Tail(trail))
\* The document node has no siblings.
SetToSibling ==
    /\ loaded /\ cursor.doc.up[here] # 0
    /\ \/ MoveTo(NextSibling(cursor.doc, here), trail)
       \/ MoveTo(PrevSibling(cursor.doc, here), trail)
LocateSibling(t) ==
    /\ loaded /\ cursor.doc.up[here] # 0
    /\ \/ MoveTo(FirstTagged(cursor.doc, cursor.doc.up[here], t), trail)
       \/ MoveTo(NextTagged(cursor.doc, here, t), trail)

\* A text read through a buffer: cut for char, refused for wchar_t; a number
\* wants a text that is not empty, a string only a child.  The null node has
\* neither.  The two reads that fill no such buffer, the size of a text and the
\* tag's name, change nothing and are left out.
Cut(len) == IF len < Buffer THEN len ELSE Buffer - 1
Read ==
    /\ live /\ (loaded \/ cursor = NoNode)
    /\ LET null == cursor = NoNode
           len == IF null THEN 0 ELSE TextLength(cursor.doc, here)
           string == IF null \/ Children(cursor.doc, here) = {} THEN -1 ELSE Cut(len)
           wide == IF len + 1 > Buffer THEN -1 ELSE len
           number == IF len = 0 THEN -1 ELSE 4
       IN  answer' \in {string, wide, number}
    /\ UNCHANGED <<live, loaded, doc, cursor, trail, files>>

\* Only cb_xml_locate_node looks at loaded.  After a LoadXml that failed every
\* other move and read goes to a node of the destroyed document: its memory may
\* still hold the tree, or anything, so the call may move the cursor to any
\* node or none and read any text (or end the process, and with it the calls).
UseDestroyed ==
    /\ live /\ ~loaded /\ cursor # NoNode
    /\ cursor' \in {NoNode} \cup
           {[cursor EXCEPT !.node = n] : n \in {m \in Nodes(cursor.doc) : m = 1 \/ IsElement(cursor.doc, m)}}
    /\ answer' \in -1..(Buffer - 1)
    /\ trail' = <<>>
    /\ UNCHANGED <<live, loaded, doc, files>>

AllPaths == [layer : {"any"}, name : Names] \cup {list[i] : i \in DOMAIN list}

Next ==
    \/ CreateFXml \/ DestroyFXml \/ Enumerate \/ Read \/ UseDestroyed
    \/ \E p \in AllPaths : LoadXml(p)
    \/ \E p \in Paths : Locate(p)
    \/ SetToChild \/ SetToParent \/ SetToSibling
    \/ \E t \in Tags : SetToChildByTag(t) \/ LocateSibling(t)

Spec == Init /\ [][Next]_vars

-----------------------------------------------------------------------------
\* Properties.

TypeOK ==
    /\ live \in BOOLEAN /\ loaded \in BOOLEAN
    /\ doc \in Documents \cup {Absent}
    /\ cursor # NoNode => \/ here = 1
                          \/ here \in Nodes(cursor.doc) /\ IsElement(cursor.doc, here)
    /\ \A i \in DOMAIN list : list[i].name \in Names
    /\ answer \in -1..(Buffer - 1)

\* While loaded says so, the cursor is a node of the document the FXml holds,
\* after any sequence of good and bad loads and whatever was done in between
\* with a destroyed document; where the document was destroyed under the
\* cursor, loaded is false.
CursorInDocument ==
    /\ loaded => live /\ doc # Absent /\ cursor.doc = doc
    /\ cursor.doc # doc => ~loaded

\* Whatever siblings the DLL went along below a node, SetToParent takes it
\* back to the node it descended from.
TrailAbove ==
    trail # <<>> =>
        /\ cursor.doc.up[here] = Head(trail)
        /\ \A i \in 1..(Len(trail) - 1) : cursor.doc.up[trail[i]] = trail[i + 1]

\* What the DLL may rely on between two callbacks, after any sequence of loads
\* that fail and moves that find nothing: what it reads while one is loaded is
\* of that document, fits the relay's buffer, and the way up is the way it came
\* down.  The flag is the only sign that a document is loaded: a read after a
\* LoadXml that failed is no such answer, and nothing here promises one.
CursorSafe == TypeOK /\ CursorInDocument /\ TrailAbove

\* The DLL counts first and then steps as often.  The node it is at after i
\* steps, below n by NextSibling and from the first of a tag by
\* LocateNextSibling; 0 where a step found nothing.
Met(d, n) ==
    LET met[i \in 0..NumChildren(d, n)] ==
            IF i = 0 THEN FirstElement(d, n)
            ELSE IF met[i - 1] = 0 THEN 0 ELSE NextSibling(d, met[i - 1])
    IN  met
MetByTag(d, n, t) ==
    LET met[i \in 0..NumChildrenByTag(d, n, t)] ==
            IF i = 0 THEN FirstTagged(d, n, t)
            ELSE IF met[i - 1] = 0 THEN 0 ELSE NextTagged(d, met[i - 1], t)
    IN  met

\* From the first child, exactly the child elements are met in NumChildren
\* steps, PrevSibling goes back the same way, and NumSiblings is one less.
AllCountsAreSteps ==
    loaded =>
        LET d == cursor.doc
            count == NumChildren(d, here)
            met == Met(d, here)
        IN  /\ met[count] = 0
            /\ {met[i] : i \in 0..(count - 1)} = Elements(d, here)
            /\ \A i \in 1..(count - 1) : PrevSibling(d, met[i]) = met[i - 1]
            /\ \A i \in 0..(count - 1) : NumSiblings(d, met[i]) = count - 1

\* The same by tag: the loop over the elements of a tag that starts where
\* LocateNode or LocateFirstSibling stops meets as many as were counted.
TagCountsAreSteps ==
    loaded => \A t \in Tags :
        LET d == cursor.doc
            count == NumChildrenByTag(d, here, t)
            met == MetByTag(d, here, t)
        IN  /\ met[count] = 0
            /\ {met[i] : i \in 0..(count - 1)} = Tagged(d, here, t)
            /\ \A i \in 0..(count - 1) : NumElementsByTag(d, met[i], t) = count

\* Every loop of the DLL that counts first and then steps as often (the XML
\* callbacks of host_callbacks.cpp) meets exactly what was counted.
CountsAreSteps == AllCountsAreSteps /\ TagCountsAreSteps

\* "BtS overrides Warlords overrides vanilla", and a mod all of them: what is
\* loaded under a name is the file of the first layer that has it, however
\* the DLL came by the name.
LoadsFromTop ==
    \A i \in DOMAIN loads : loads[i].path.layer = "any" =>
        \A j \in DOMAIN Layers : \A k \in DOMAIN Layers :
            /\ Layers[k] = loads[i].layer /\ j < k
            /\ Layers[j] = "mod" => modName
            => ~Lies(Layers[j], loads[i].path.name)

\* What an enumeration lists can be loaded, whatever layer it is then taken
\* from, and no file of the mod is lost behind the same name below.
ListedFilesLie ==
    \A i \in DOMAIN list :
        /\ Lies(Found(list[i]), list[i].name)
        /\ modName /\ Lies("mod", list[i].name) => Found(list[i]) = "mod"
=============================================================================
