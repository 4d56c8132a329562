------------------------------ MODULE NifFile ------------------------------
(***************************************************************************)
(* The NIF scene graph that niflib hands to GdextNiflib, and what           *)
(* nif_skinning.cpp computes on it alone: the walks up GetParent, the       *)
(* common ancestor, the bones a Skeleton3D is built of or grown by.         *)
(*                                                                          *)
(* A file is a record.  Its objects are numbered in the order the traversal *)
(* meets them, so that the children of a node are in ascending order, and   *)
(* an object's name is the object: names are unique in the files modelled.  *)
(***************************************************************************)
EXTENDS Orders, Sequences, SequencesExt

CONSTANTS
    Obj,        \* the numbers of the objects; 0 stands for no object
    Files       \* the files: records of the fields
                \*   kind   what each object is
                \*   up     GetParent of each object, 0 for the root
                \*   over   each object with all the objects above it
                \*   skin   the skin instance of each object, or NoSkin
                \*   active the active index of the switch nodes
                \*   empty  the shapes without vertices or triangles
                \*   prefix the turn in degrees from each node to its skeleton root
                \*   mismatch the shapes whose bind poses are not their rest poses
                \*   turn   R in degrees of each of those

NodeKinds == {"node", "lod", "switch", "billboard"}
Kinds == NodeKinds \cup {"shape", "light", "skip"}
NoSkin == [root |-> 0, bones |-> <<>>, data |-> FALSE]

Root == 1

\* The files are trees of nodes with leaves: "over" is what walking GetParent
\* collects, in descending numbers.  A skin has each of its bones once and its
\* root above the shape.
ASSUME FilesAssumption ==
    /\ Root \in Obj /\ Obj \subseteq Nat \ {0} /\ IsFiniteSet(Obj)
    /\ \A f \in Files :
        /\ f.kind \in [Obj -> Kinds]
        /\ f.up \in [Obj -> Obj \cup {0}]
        /\ f.over \in [Obj -> SUBSET Obj]
        /\ f.kind[Root] \in NodeKinds /\ f.up[Root] = 0
        /\ \A o \in Obj :
            /\ o \in f.over[o] /\ Root \in f.over[o]
            /\ \A p \in f.over[o] : f.over[p] = {q \in f.over[o] : q <= p}
            /\ \A p \in f.over[o] \ {o} : f.kind[p] \in NodeKinds
            /\ o # Root => f.up[o] \in f.over[o] /\ f.over[o] = {o} \cup f.over[f.up[o]]
                           /\ f.up[o] # o
        /\ f.skin \in [Obj -> [root : Obj \cup {0}, bones : Seq(Obj), data : BOOLEAN]]
        /\ \A o \in Obj : f.skin[o] # NoSkin =>
            f.skin[o].root \in f.over[o] /\ IsInjective(f.skin[o].bones)
        /\ f.active \in Nat /\ f.empty \in [Obj -> BOOLEAN] /\ f.mismatch \subseteq Obj
        /\ f.prefix \in [Obj -> Nat] /\ f.turn \in [Obj -> Nat]

Above(f, o) == f.over[o] \ {o}
Children(f, n) == InOrder({o \in Obj : f.up[o] = n})

\* is_nif_descendant and find_common_ancestor.
Descends(f, a, b) == b \in f.over[a]
Lowest(f, S) == CHOOSE c \in S : S \subseteq f.over[c]
CommonAncestor(f, a, b) == Lowest(f, f.over[a] \cap f.over[b])

\* The objects a walk up from o passes before it meets one of stops.
Walk(f, o, stops) ==
    {w \in Above(f, o) : \A s \in stops \cap Above(f, o) : w \notin f.over[s]}
Met(f, o, stops) == stops \cap Above(f, o) # {}
Nearest(f, o, S) == IF Met(f, o, S) THEN Lowest(f, S \cap Above(f, o)) ELSE 0

Upwards(S) == Reverse(InOrder(S))
Downwards(S) == InOrder(S)

\* The nodes build_skeleton adds above bone b: those on the way to another
\* bone or to the node that hosts the skeleton, unless the skeleton root is
\* met first.  The test for the root comes first.
Candidates(f, b, bones, root, host) ==
    LET stops == bones \cup {root, host}
        stop  == Nearest(f, b, stops)
    IN  IF stop \in {0, root} THEN {} ELSE Walk(f, b, stops)

BuiltBones(f, skin, host) ==
    LET n == Len(skin.bones)
        built[i \in 0..n] ==
            IF i = 0 THEN skin.bones
            ELSE built[i - 1] \o
                 Upwards(Candidates(f, skin.bones[i], ToSet(built[i - 1]), skin.root, host))
    IN  built[n]

\* The nodes grow_skeleton adds: the bones it misses and every node over them
\* up to a bone it has, the skeleton root or the node of the shape.
GrownBones(f, skin, host, have) ==
    LET missing == ToSet(skin.bones) \ have
    IN  missing \cup UNION {Walk(f, b, have \cup {skin.root, host}) : b \in missing}

\* They are sorted by their distance from the skeleton root, or from the root
\* of the file when the skeleton root is not over them: so is the skeleton root
\* itself.  Nodes of one depth come as the addresses and std::sort leave them.
Depth(f, o, root) == Cardinality(Walk(f, o, {root}))
DepthOrders(f, S, root) ==
    {s \in [1 .. Cardinality(S) -> S] :
        /\ IsInjective(s) /\ ToSet(s) = S
        /\ \A i, j \in DOMAIN s : i < j => Depth(f, s[i], root) <= Depth(f, s[j], root)}

\* The maps of std: more entries where there are none, and one entry put.
Extended(f, g) == [x \in DOMAIN f \cup DOMAIN g |-> IF x \in DOMAIN f THEN f[x] ELSE g[x]]
With(f, x, v) == [y \in DOMAIN f \cup {x} |-> IF y = x THEN v ELSE f[y]]

\* The bone each bone of a new skeleton is linked to: the nearest one above it.
Links(f, bones) == [b \in bones |-> Nearest(f, b, bones)]
\* A bone that is added is linked to the nearest bone there is at that moment.
AddedLinks(f, have, new) ==
    [b \in ToSet(new) |->
        LET i == CHOOSE k \in DOMAIN new : new[k] = b
        IN  Nearest(f, b, have \cup {new[j] : j \in 1 .. i - 1})]
=============================================================================
