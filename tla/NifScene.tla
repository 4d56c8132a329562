------------------------------ MODULE NifScene ------------------------------
(***************************************************************************)
(* GdextNiflib::load_nif_scene up to the animations: the traversal of       *)
(* nif_scene_graph.cpp, the Skeleton3D that shapes share and that moves     *)
(* when a sibling branch uses it (nif_skinning.cpp), the skins and the      *)
(* rotation correction of nif_geometry.cpp, and the bone attachments.       *)
(*                                                                          *)
(* Recursion is a stack of frames; one step handles one child.  Whatever    *)
(* niflib throws ends in the catch of load_nif_scene: the action Throw.     *)
(***************************************************************************)
EXTENDS NifFile

VARIABLES
    file,       \* the file being loaded
    phase,      \* "walk", "attach", "done" or "thrown", and those of NifAnimation
    stack,      \* the calls of process_ni_node and its siblings, the top first
    kids,       \* the Godot scene: the children of each Godot node
    hidden,     \* the Godot nodes with visible = false
    skel,       \* skeleton_cache with the maps keyed alike, by skeleton root
    reparented, \* reparented_skeletons
    mesh,       \* what each shape's MeshInstance3D was given
    attached,   \* the skeletons whose attachments are done, in the order of the map
    turned      \* the skeletons whose transform is the rotation correction

vars == <<file, phase, stack, kids, hidden, skel, reparented, mesh, attached, turned>>

\* Godot nodes: the container, one per NIF object, the skeletons with their
\* bone visualization, the BoneAttachment3Ds and the AnimationPlayers.
Top == <<"container", 0, 0>>
AV(o) == <<"av", o, 0>>
Skeleton(r) == <<"skeleton", r, 0>>
Debug(r) == <<"debug", r, 0>>
Attachment(r, c) == <<"attachment", r, c>>
ScenePlayer == <<"_SceneAnimPlayer", 0, 0>>
Player == <<"AnimationPlayer", 0, 0>>
GNodes == {Top, ScenePlayer, Player} \cup {AV(o) : o \in Obj}
          \cup {Skeleton(r) : r \in Obj} \cup {Debug(r) : r \in Obj}
          \cup {Attachment(r, c) : r \in Obj, c \in Obj}

AddChild(k, p, x) == [k EXCEPT ![p] = Append(@, x)]
Without(s, x) ==
    IF x \in ToSet(s) THEN RemoveAt(s, CHOOSE i \in DOMAIN s : s[i] = x) ELSE s
RemoveChild(k, x) == [p \in GNodes |-> Without(k[p], x)]
Move(k, p, x) == AddChild(RemoveChild(k, x), p, x)
GParents(k, x) == {p \in GNodes : x \in ToSet(k[p])}
\* g and every node below it.
Under(k, g) ==
    LET depth == Cardinality({y \in GNodes : k[y] # <<>>})
        down[i \in 0..depth] ==
            IF i = 0 THEN {g}
            ELSE LET prev == down[i - 1]
                 IN  prev \cup UNION {ToSet(k[y]) : y \in prev}
    IN  down[depth]

NoMesh == [on |-> 0, weights |-> {}, binds |-> 0]
Frame(n, mode) == [node |-> n, mode |-> mode, next |-> 1]

Init ==
    /\ file \in Files
    /\ phase = "walk"
    /\ stack = <<Frame(Root, "node")>>
    /\ kids = [g \in GNodes |-> IF g = Top THEN <<AV(Root)>> ELSE <<>>]
    /\ hidden = {} /\ reparented = {} /\ attached = <<>> /\ turned = {}
    /\ skel = [r \in {} |-> 0]
    /\ mesh = [o \in Obj |-> NoMesh]

-----------------------------------------------------------------------------
\* The traversal.

top == Head(stack)
Pending == top.next <= Len(Children(file, top.node))
child == Children(file, top.node)[top.next]
Advance == [stack EXCEPT ![1].next = @ + 1]

\* Only process_ni_node knows the subclasses: below a billboard, an LOD or a
\* switch every NiNode is handled as a plain one.
ModeOf(o) == IF top.mode = "node" THEN file.kind[o] ELSE "node"

\* Mutant: the active index counted from the wrong end of the range.
KeptNext(frame) == IF frame.mode = "lod" THEN 1 ELSE file.active + 1
\* The child an LOD or a switch keeps visible, by its index.
Kept(frame) == IF frame.mode = "lod" THEN 1 ELSE file.active
Hides(frame) == frame.mode \in {"lod", "switch"} /\ frame.next # Kept(frame)

EnterNode ==
    /\ phase = "walk" /\ stack # <<>> /\ Pending
    /\ file.kind[child] \in NodeKinds
    /\ kids' = AddChild(kids, AV(top.node), AV(child))
    /\ stack' = <<Frame(child, ModeOf(child))>> \o stack
    /\ UNCHANGED <<file, phase, hidden, skel, reparented, mesh, attached, turned>>

\* Back from a child: an LOD or a switch hides the last child of its node.
Leave ==
    /\ phase = "walk" /\ stack # <<>> /\ ~Pending
    /\ LET rest == Tail(stack) IN
        /\ stack' = IF rest = <<>> THEN <<>> ELSE [rest EXCEPT ![1].next = @ + 1]
        /\ hidden' = IF rest # <<>> /\ Hides(rest[1])
                     THEN hidden \cup {Last(kids[AV(rest[1].node)])} ELSE hidden
    /\ UNCHANGED <<file, phase, kids, skel, reparented, mesh, attached, turned>>

\* A leaf that becomes a child of its parent's node: a shape that is handled
\* without its skin, or a light or a particle system of process_ni_node.
Skinned(o) == file.kind[o] = "shape" /\ file.skin[o] # NoSkin /\ top.mode = "node"
Shown(o) == IF file.kind[o] = "shape" THEN ~file.empty[o]
            ELSE file.kind[o] = "light" /\ top.mode = "node"

Leaf ==
    /\ phase = "walk" /\ stack # <<>> /\ Pending
    /\ file.kind[child] \notin NodeKinds /\ ~Skinned(child)
    /\ kids' = IF Shown(child) THEN AddChild(kids, AV(top.node), AV(child)) ELSE kids
    /\ hidden' = IF Shown(child) /\ Hides(top) THEN hidden \cup {AV(child)} ELSE hidden
    /\ stack' = Advance
    /\ UNCHANGED <<file, phase, skel, reparented, mesh, attached, turned>>

-----------------------------------------------------------------------------
\* process_skinned_geometry and process_tri_geometry.

\* The bookkeeping of the rotation correction for shape o on skeleton s.
Apart(a, b) == a - b > 15 \/ b - a > 15
Prefix(o) == file.prefix[file.up[o]]
Correction(o) == IF Prefix(o) > 5 THEN -Prefix(o) ELSE -file.turn[o]
Corrects(o) ==
    /\ o \in file.mismatch /\ file.skin[o].bones # <<>>
    /\ (Prefix(o) > 5 => file.turn[o] > 5)
Track(s, o) ==
    LET p  == Prefix(o)
        s1 == IF s.meshes = 0 THEN [s EXCEPT !.first = p]
              ELSE IF Apart(s.first, p) THEN [s EXCEPT !.alike = FALSE] ELSE s
        s2 == IF ~Corrects(o) THEN s1
              ELSE IF s.mismatches = 0 THEN [s1 EXCEPT !.correction = Correction(o)]
              ELSE IF Apart(s.correction, Correction(o)) THEN [s1 EXCEPT !.consistent = FALSE]
              ELSE s1
    IN  [s2 EXCEPT !.meshes = @ + 1, !.mismatches = @ + (IF Corrects(o) THEN 1 ELSE 0)]

NewSkeleton(skin, host) ==
    LET bones == BuiltBones(file, skin, host) IN
    [host |-> host, bones |-> bones, link |-> Links(file, ToSet(bones)),
     binds |-> Len(bones), meshes |-> 0, first |-> 0, alike |-> TRUE,
     mismatches |-> 0, correction |-> 0, consistent |-> TRUE]

\* Mutant: the arguments of is_nif_descendant exchanged.
MovesExchanged(r, n) == ~Descends(file, skel[r].host, n)
\* A cached skeleton: it moves to the common ancestor when the shape's node is
\* not below its host, and it grows when it misses bones of the shape.
Moves(r, n) == ~Descends(file, n, skel[r].host)
Rehosted(r, n) ==
    IF Moves(r, n) THEN [skel[r] EXCEPT !.host = CommonAncestor(file, n, @)] ELSE skel[r]
\* The nodes the skeleton lacks for a shape of node n, in an order of adding.
Growth(r, skin, n) ==
    DepthOrders(file, GrownBones(file, skin, n, ToSet(skel[r].bones)), skin.root)
\* Mutant: the Skin is not made anew for the grown skeleton.
GrownOldSkin(s, new) ==
    [s EXCEPT !.bones = @ \o new,
              !.link = Extended(@, AddedLinks(file, ToSet(s.bones), new))]
Grown(s, new) ==
    [s EXCEPT !.bones = @ \o new, !.binds = Len(s.bones \o new),
              !.link = Extended(@, AddedLinks(file, ToSet(s.bones), new))]

\* bone_index_map as the shape's weights use it.
Indices(s, skin) == {i \in DOMAIN s.bones : s.bones[i] \in ToSet(skin.bones)}

\* The shape's mesh under skeleton r, whose record is then s.
Hung(k, r, o) == IF file.empty[o] THEN k ELSE AddChild(k, Skeleton(r), AV(o))
MeshOn(s, skin) == [on |-> skin.root, weights |-> Indices(s, skin), binds |-> s.binds]
PutMesh(s, o) ==
    LET skin == file.skin[o] IN
    /\ skel' = With(skel, skin.root, IF skin.data /\ ~file.empty[o] THEN Track(s, o) ELSE s)
    /\ mesh' = IF skin.data /\ ~file.empty[o]
               THEN [mesh EXCEPT ![o] = MeshOn(s, skin)] ELSE mesh
    /\ stack' = Advance
    /\ UNCHANGED <<file, phase, hidden, attached, turned>>

Visits(o) == phase = "walk" /\ stack # <<>> /\ Pending /\ o = child /\ Skinned(o)

SharedSkeleton ==
    \E o \in Obj : LET skin == file.skin[o]
                       r == skin.root
                       n == top.node
                   IN  /\ Visits(o) /\ r \in DOMAIN skel
                       /\ \E new \in Growth(r, skin, n) :
                            LET s == Grown(Rehosted(r, n), new) IN
                            /\ kids' = Hung(IF Moves(r, n)
                                            THEN Move(kids, AV(s.host), Skeleton(r))
                                            ELSE kids, r, o)
                            /\ PutMesh(s, o)
                       /\ reparented' = IF Moves(r, n) THEN reparented \cup {r} ELSE reparented

FirstSkeleton ==
    \E o \in Obj : LET skin == file.skin[o]
                       r == skin.root
                   IN  /\ Visits(o) /\ r \notin DOMAIN skel
                       /\ skin.data /\ skin.bones # <<>>
                       /\ kids' = Hung(AddChild(AddChild(kids, AV(top.node), Skeleton(r)),
                                                Skeleton(r), Debug(r)), r, o)
                       /\ UNCHANGED reparented
                       /\ PutMesh(NewSkeleton(skin, top.node), o)

\* build_skeleton returned null: "treating as static".
NoSkeleton ==
    \E o \in Obj : /\ Visits(o) /\ file.skin[o].root \notin DOMAIN skel
                   /\ ~file.skin[o].data \/ file.skin[o].bones = <<>>
                   /\ kids' = IF file.empty[o] THEN kids
                              ELSE AddChild(kids, AV(top.node), AV(o))
                   /\ stack' = Advance
                   /\ UNCHANGED <<file, phase, hidden, skel, reparented, mesh, attached, turned>>

WalkDone ==
    /\ phase = "walk" /\ stack = <<>>
    /\ phase' = "attach"
    /\ UNCHANGED <<file, stack, kids, hidden, skel, reparented, mesh, attached, turned>>

-----------------------------------------------------------------------------
\* reparent_bone_attachments: the skeletons in the order of the map, which is
\* the order of their roots' addresses; below a root in the order of the file.

IsAttachment(r, c) ==
    LET bones == ToSet(skel[r].bones) IN
    /\ file.kind[c] \in NodeKinds /\ r \in Above(file, c)
    /\ file.up[c] \in bones /\ c \notin bones
\* Mutant: without the test, "a cyclic dependency".
AncestorUnchecked(k, c, r) == FALSE
AncestorOfSkeleton(k, c, r) == Skeleton(r) \in Under(k, AV(c))
\* Mutant: the node is attached where it was.
AttachNodeInPlace(k, r, c) ==
    IF AncestorOfSkeleton(k, c, r) THEN k
    ELSE AddChild(k, Skeleton(r), Attachment(r, c))
AttachNode(k, r, c) ==
    IF AncestorOfSkeleton(k, c, r) THEN k
    ELSE Move(AddChild(k, Skeleton(r), Attachment(r, c)), Attachment(r, c), AV(c))

\* The attachments in the order of the walk: a node's children, then theirs.
Earlier(a, b) == file.up[a] < file.up[b] \/ (file.up[a] = file.up[b] /\ a < b)
WalkOrders(S) ==
    {s \in [1..Cardinality(S) -> S] :
        /\ \A c \in S : \E i \in DOMAIN s : s[i] = c
        /\ \A i, j \in DOMAIN s : i < j => Earlier(s[i], s[j])}
AttachAll(r, order) ==
    LET at[i \in 0..Len(order)] ==
            IF i = 0 THEN kids ELSE AttachNode(at[i - 1], r, order[i])
    IN  at[Len(order)]

Attach(r) ==
    /\ phase = "attach" /\ r \in DOMAIN skel \ ToSet(attached)
    /\ \E order \in WalkOrders({c \in Obj : IsAttachment(r, c)}) : kids' = AttachAll(r, order)
    /\ attached' = Append(attached, r)
    /\ UNCHANGED <<file, phase, stack, hidden, skel, reparented, mesh, turned>>

\* Mutant: the prefixes of the meshes without a mismatch are not compared.
TurnsUnaware(r) ==
    /\ r \in reparented => skel[r].meshes > 0 /\ skel[r].first <= 5
    /\ skel[r].mismatches > 0 /\ skel[r].consistent
\* The deferred rotation correction, of every skeleton of the cache.
Turns(r) ==
    /\ r \in reparented => skel[r].meshes > 0 /\ skel[r].first <= 5
    /\ skel[r].mismatches > 0 /\ skel[r].consistent /\ skel[r].alike

Correct ==
    /\ phase = "attach" /\ ToSet(attached) = DOMAIN skel
    /\ turned' = {r \in DOMAIN skel : Turns(r)}
    /\ phase' = "done"
    /\ UNCHANGED <<file, stack, kids, hidden, skel, reparented, mesh, attached>>

\* An exception of niflib or of the library anywhere in the load.
Throw ==
    /\ phase \in {"walk", "attach"}
    /\ phase' = "thrown"
    /\ UNCHANGED <<file, stack, kids, hidden, skel, reparented, mesh, attached, turned>>

Next ==
    \/ EnterNode \/ Leave \/ Leaf
    \/ SharedSkeleton \/ FirstSkeleton \/ NoSkeleton
    \/ WalkDone \/ \E r \in Obj : Attach(r)
    \/ Correct \/ Throw

Spec == Init /\ [][Next]_vars

-----------------------------------------------------------------------------
\* Properties.

TypeOK ==
    /\ phase \in {"walk", "attach", "done", "controllers", "kfm", "actions", "cleared", "thrown"}
    /\ kids \in [GNodes -> Seq(GNodes)]
    /\ hidden \subseteq GNodes
    /\ DOMAIN skel \subseteq Obj
    /\ \A r \in DOMAIN skel : skel[r].host \in Obj /\ skel[r].bones \in Seq(Obj)
    /\ reparented \subseteq DOMAIN skel /\ ToSet(attached) \subseteq DOMAIN skel
    /\ phase # "cleared" =>
        turned \subseteq DOMAIN skel /\ \A o \in Obj : mesh[o].on \in DOMAIN skel \cup {0}

\* Moving skeletons to common ancestors and attachments under bones never
\* loses a node and never closes a cycle: what has been put in the scene has
\* one parent and hangs under the container (nif_scene_graph.cpp's re-parenting
\* and the is_ancestor_of test of reparent_bone_attachments_recursive).
SceneIsTree ==
    LET scene == Under(kids, Top) IN
    /\ \A g \in GNodes \ {Top} :
        kids[g] # <<>> \/ g \in scene =>
            g \in scene /\ Cardinality(GParents(kids, g)) = 1
    /\ \A r \in DOMAIN skel : Skeleton(r) \in scene
    /\ \A o \in Obj : mesh[o] # NoMesh => AV(o) \in scene
    /\ phase = "done" => \A o \in Obj : file.kind[o] \in NodeKinds => AV(o) \in scene

\* A shared skeleton hangs under a node that is over every shape it deforms,
\* whichever branches they came from and in whichever order.
SkeletonOverItsShapes ==
    \A r \in DOMAIN skel :
        /\ \A o \in Obj : mesh[o].on = r => Descends(file, o, skel[r].host)
        /\ GParents(kids, Skeleton(r)) = {AV(skel[r].host)}

\* The bones a mesh weighs its vertices by are bones its Skin binds, and after
\* any growth of the skeleton they are still the bones of its own skin.
WeightsBound ==
    \A o \in Obj : mesh[o].on \in DOMAIN skel =>
        LET bones == skel[mesh[o].on].bones IN
        /\ mesh[o].weights \subseteq 1..mesh[o].binds
        /\ {bones[i] : i \in mesh[o].weights} = ToSet(file.skin[o].bones)

\* Every bone is a bone once, and the parent links follow the file upwards.
BonesAreAForest ==
    \A r \in DOMAIN skel :
        /\ IsInjective(skel[r].bones)
        /\ DOMAIN skel[r].link = ToSet(skel[r].bones)
        /\ \A b \in DOMAIN skel[r].link : skel[r].link[b] \in Above(file, b) \cup {0}

\* A shared skeleton that grows for one shape after another (find_or_create and
\* extend of nif_skinning.cpp) stays a forest of the file's bones and keeps
\* fitting the meshes built before: their vertices hold indices into it.
SkeletonsFit == TypeOK /\ BonesAreAForest /\ WeightsBound

\* "so they follow animated bones": after its pass, a node that is no bone of
\* the skeleton but whose parent is one hangs on an attachment to that bone,
\* unless it carries the skeleton itself.
AttachmentsFollow ==
    [][\A r \in ToSet(attached') \ ToSet(attached) : \A c \in Obj : IsAttachment(r, c) =>
        \/ GParents(kids', AV(c)) = {Attachment(r, c)}
        \/ Skeleton(r) \in Under(kids', AV(c))]_vars

\* "Only the first child is visible", "only the child at active_index": of an
\* LOD or a switch that process_ni_node meets, the nodes of the other children
\* are hidden and no more, as long as no skeleton is shared by two children.
Handled(n) == /\ file.kind[n] \in {"lod", "switch"} /\ n # Root
              /\ file.kind[file.up[n]] = "node"
Keeps(n) == IF file.kind[n] = "lod" THEN 1 ELSE file.active
Unshared(n) ==
    \A o, p \in Obj :
        /\ file.skin[o] # NoSkin /\ file.skin[p] # NoSkin
        /\ file.skin[o].root = file.skin[p].root
        /\ n \in Above(file, o) \cap Above(file, p)
        => \E c \in Obj : file.up[c] = n /\ c \in file.over[o] \cap file.over[p]
LevelsHidden ==
    phase = "done" => \A n \in Obj : Handled(n) /\ Unshared(n) =>
        \A i \in DOMAIN Children(file, n) :
            LET level == AV(Children(file, n)[i]) IN
            level \in Under(kids, Top) => (level \in hidden <=> i # Keeps(n))

\* The same of what is drawn, skeletons or not: of the meshes of the children
\* exactly those of the visible child are shown by the LOD or the switch.
LevelsDrawn ==
    phase = "done" => \A n \in Obj : Handled(n) =>
        \A i \in DOMAIN Children(file, n) : \A o \in Obj :
            /\ file.kind[o] = "shape" /\ ~file.empty[o]
            /\ Children(file, n)[i] \in file.over[o]
            => (i = Keeps(n) <=> \A h \in hidden : AV(o) \notin Under(kids, h))

\* A skeleton is turned by its correction only when every mesh on it was built
\* with nearly the prefix of the first, and, if it was moved to a common
\* ancestor, only when that prefix does not turn already.
TurnedSafely ==
    \A r \in turned :
        /\ \E o \in Obj : mesh[o].on = r /\ o \in file.mismatch
        /\ \A o, p \in Obj : mesh[o].on = r /\ mesh[p].on = r =>
                Prefix(o) - Prefix(p) \in -30..30
        /\ r \in reparented => \A o \in Obj : mesh[o].on = r => Prefix(o) <= 20
=============================================================================
