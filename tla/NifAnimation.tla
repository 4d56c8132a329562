---------------------------- MODULE NifAnimation ----------------------------
(***************************************************************************)
(* The whole of GdextNiflib::load_nif_scene: the traversal of NifScene with *)
(* the controllers and materials it collects on the way, then               *)
(* build_scene_animations (nif_controllers.cpp), build_animations           *)
(* (nif_animation.cpp) and the end of the load.                             *)
(*                                                                          *)
(* A file has, beyond the fields of NifFile: ctrl, the controllers of each  *)
(* object; props, the properties of each shape; shader, whether the team    *)
(* colour shader loads; kfm, the actions of the .kfm beside it (<<>> when   *)
(* there is none).  An action is a record: ok, whether its .kf is read as a *)
(* sequence, and its links.  Keys and times are left out.                   *)
(***************************************************************************)
EXTENDS NifScene, NifMaterial

VARIABLES
    pending,    \* pending_scene_controllers
    mats,       \* the surface_override_material of each shape's mesh
    tracks,     \* the tracks of both players' animations
    ready,      \* the players that have their library
    at          \* the next controller, then the next action

animVars == <<pending, mats, tracks, ready, at>>

\* The interpolators of a .kf that become tracks, and those passed over.
LinkTypes == {"float", "bool", "point", "transform", "blend"}
ASSUME AnimationAssumption ==
    \A f \in Files :
        /\ f.ctrl \in [Obj -> Seq([type : STRING, data : BOOLEAN])]
        /\ f.kfm \in Seq([ok : BOOLEAN,
               links : Seq([target : Obj \cup {0}, type : LinkTypes, data : BOOLEAN])])

NoMaterial == [kind |-> "none"]

\* process_scene_controllers: transform controllers and the stubs are passed
\* over, the other six kinds wait for the scene to be complete.
Collected == {"texture", "flip", "alpha", "color", "vis", "uv"}
Collect(o) ==
    LET cs == Selected(file.ctrl[o], {i \in DOMAIN file.ctrl[o] : file.ctrl[o][i].type \in Collected})
    IN  [i \in 1..Len(cs) |-> [node |-> AV(o), ctrl |-> cs[i]]]

AInit == /\ Init
         /\ pending = Collect(Root)
         /\ mats = [o \in Obj |-> NoMaterial]
         /\ tracks = <<>> /\ ready = {} /\ at = 1

\* Only process_ni_node collects the controllers of a node.
Nodes ==
    /\ EnterNode
    /\ pending' = IF ModeOf(child) = "node" THEN pending \o Collect(child) ELSE pending
    /\ UNCHANGED <<mats, tracks, ready, at>>

Shapes ==
    /\ Leaf \/ SharedSkeleton \/ FirstSkeleton \/ NoSkeleton
    /\ IF file.kind[child] = "shape" /\ ~file.empty[child]
       THEN /\ pending' = pending \o Collect(child)
            /\ mats' = [mats EXCEPT ![child] = Material(file.props[child], file.shader)]
       ELSE UNCHANGED <<pending, mats>>
    /\ UNCHANGED <<tracks, ready, at>>

Scene ==
    /\ Leave \/ WalkDone \/ (\E r \in Obj : Attach(r)) \/ Correct \/ Throw
    /\ UNCHANGED animVars

-----------------------------------------------------------------------------
sceneRest == <<file, stack, hidden, skel, reparented, mesh, attached, turned>>

\* Mutant: the path is taken from the hierarchy of the file.
PathInFile(g) == {Top} \cup {AV(a) : a \in file.over[g[2]]}
\* get_relative_node_path: as the names are unique and the scene is a tree,
\* the set of the nodes from the container down to g.
PathTo(g) == {g} \cup {p \in GNodes : kids[p] # <<>> /\ g \in Under(kids, p)}
InScene(g) == g \in Under(kids, Top)

\* Which of two nodes find_children comes to first.
Precedes(a, b) ==
    \/ b \in Under(kids, a)
    \/ \E p \in GNodes : \E i, j \in DOMAIN kids[p] :
            i < j /\ a \in Under(kids, kids[p][i]) /\ b \in Under(kids, kids[p][j])
FirstOf(S) == {m \in S : \A x \in S \ {m} : Precedes(m, x)}
IsMesh(g) == \/ g \in {AV(o) : o \in {o \in Obj : mats[o] # NoMaterial}}
             \/ g \in {Debug(r) : r \in Obj}

\* The MeshInstance3D a controller of g is given, none or one: g itself, a
\* child of g, or the first one below.  The bone visualization is made of
\* MeshInstance3Ds.
MeshOf(g) ==
    LET near == {x \in ToSet(kids[g]) : IsMesh(x)}
    IN  IF IsMesh(g) THEN {g}
        ELSE IF near # {} THEN FirstOf(near) ELSE FirstOf({x \in Under(kids, g) : IsMesh(x)})
MaterialAt(g) == IF g[1] = "av" THEN mats[g[2]]
                 ELSE [kind |-> "standard", transparency |-> "alpha"]

Properties == [texture |-> "uv1", uv |-> "uv1", flip |-> "albedo_texture",
               alpha |-> "alpha", color |-> "albedo_color", vis |-> "visible"]
NewTrack(player, g, prop) == [player |-> player, node |-> g, path |-> PathTo(g), prop |-> prop]

\* build_scene_animations: nothing without pending controllers.
StartControllers ==
    /\ phase = "done"
    /\ IF pending = <<>> THEN phase' = "kfm" /\ UNCHANGED kids
       ELSE phase' = "controllers" /\ kids' = AddChild(kids, Top, ScenePlayer)
    /\ UNCHANGED <<sceneRest, animVars>>

\* One controller of the loop: "vis" drives its node, the others the material
\* of a mesh that is no ShaderMaterial; without keys there is no track.
\* Mutant: a team colour shader is animated as if it were a StandardMaterial3D.
ShaderAllowed(m) == TRUE
OnStandard(m) == MaterialAt(m).kind # "shader"
TrackOf(p) ==
    IF ~p.ctrl.data \/ ~InScene(p.node) THEN <<>>
    ELSE IF p.ctrl.type = "vis" THEN <<NewTrack(ScenePlayer, p.node, "visible")>>
    ELSE LET ms == {m \in MeshOf(p.node) : OnStandard(m)}
         IN  IF ms = {} THEN <<>>
             ELSE <<NewTrack(ScenePlayer, CHOOSE m \in ms : TRUE, Properties[p.ctrl.type])>>

\* An alpha track makes an opaque material transparent.
Fades(p) == p.ctrl.type = "alpha" /\ TrackOf(p) # <<>> /\ TrackOf(p)[1].node[1] = "av"

Controller ==
    /\ phase = "controllers" /\ at <= Len(pending)
    /\ tracks' = tracks \o TrackOf(pending[at])
    /\ mats' = IF ~Fades(pending[at]) THEN mats
               ELSE [mats EXCEPT ![TrackOf(pending[at])[1].node[2]].transparency =
                        IF @ = "disabled" THEN "alpha" ELSE @]
    /\ at' = at + 1
    /\ UNCHANGED <<sceneRest, phase, kids, pending, ready>>

\* Mutant: the player without tracks stays.
EndControllersKeepsPlayer ==
    /\ phase = "controllers" /\ at > Len(pending)
    /\ phase' = "kfm" /\ at' = 1
    /\ ready' = IF tracks = <<>> THEN ready ELSE {ScenePlayer}
    /\ UNCHANGED <<sceneRest, kids, pending, mats, tracks>>
EndControllers ==
    /\ phase = "controllers" /\ at > Len(pending)
    /\ phase' = "kfm" /\ at' = 1
    /\ IF tracks = <<>> THEN kids' = RemoveChild(kids, ScenePlayer) /\ UNCHANGED ready
       ELSE ready' = {ScenePlayer} /\ UNCHANGED kids
    /\ UNCHANGED <<sceneRest, pending, mats, tracks>>

-----------------------------------------------------------------------------
\* build_animations.

StartKfm ==
    /\ phase = "kfm" /\ file.kfm # <<>>
    /\ phase' = "actions"
    /\ kids' = AddChild(kids, Top, Player)
    /\ UNCHANGED <<sceneRest, animVars>>

\* The skeletons that have a bone of this name, in the order of the cache.
SkeletonsOf(o) ==
    Selected(attached, {i \in DOMAIN attached : o \in ToSet(skel[attached[i]].bones)})

\* A link: transform keys go to the bone, if there is one; a property only to
\* a node of the scene.  Blends and unnamed targets (0) are passed over.
PropertyOf == [float |-> "transparency", bool |-> "visible", point |-> "position",
               transform |-> "transform"]
LinkTrack(l) ==
    IF l.target = 0 \/ l.type = "blend" \/ ~l.data THEN <<>>
    ELSE IF SkeletonsOf(l.target) # <<>>
    THEN IF l.type # "transform" THEN <<>>
         ELSE <<NewTrack(Player, Skeleton(SkeletonsOf(l.target)[1]), "transform")>>
    ELSE IF InScene(AV(l.target)) THEN <<NewTrack(Player, AV(l.target), PropertyOf[l.type])>>
    ELSE <<>>

\* One action of the .kfm: a .kf that is missing, unreadable or no sequence
\* is passed over.
Action ==
    /\ phase = "actions" /\ at <= Len(file.kfm)
    /\ LET links == IF file.kfm[at].ok THEN file.kfm[at].links ELSE <<>>
           made == Selected(links, {i \in DOMAIN links : LinkTrack(links[i]) # <<>>})
       IN  tracks' = tracks \o [i \in DOMAIN made |-> LinkTrack(made[i])[1]]
    /\ at' = at + 1
    /\ UNCHANGED <<sceneRest, phase, kids, pending, mats, ready>>

\* The library is added after the last action, and the per-NIF state cleared.
Clear ==
    /\ skel' = [r \in {} |-> 0] /\ reparented' = {} /\ attached' = <<>> /\ pending' = <<>>
    /\ UNCHANGED <<file, stack, kids, hidden, mesh, turned, mats, tracks, at>>

EndActions ==
    /\ phase = "actions" /\ at > Len(file.kfm)
    /\ ready' = ready \cup {Player} /\ phase' = "cleared"
    /\ Clear
NoKfm ==
    /\ phase = "kfm" /\ file.kfm = <<>>
    /\ phase' = "cleared" /\ UNCHANGED ready
    /\ Clear

\* niflib may throw in these loops too (NormalizeKeys without an interpolator).
ThrowInAnimation ==
    /\ phase \in {"controllers", "actions"}
    /\ phase' = "thrown"
    /\ UNCHANGED <<sceneRest, kids, animVars>>

ANext ==
    \/ Nodes \/ Shapes \/ Scene
    \/ StartControllers \/ Controller \/ EndControllers
    \/ StartKfm \/ Action \/ EndActions \/ NoKfm \/ ThrowInAnimation

allVars == <<vars, animVars>>
ASpec == AInit /\ [][ANext]_allVars

-----------------------------------------------------------------------------
\* Properties.

ATypeOK ==
    /\ \A i \in DOMAIN pending : pending[i].node \in GNodes /\ pending[i].ctrl.type \in Collected
    /\ \A i \in DOMAIN tracks : tracks[i].node \in GNodes /\ tracks[i].path \subseteq GNodes
    /\ ready \subseteq {ScenePlayer, Player}
    /\ at \in Nat \ {0}

\* What a track was pointed at is still where its path says: no node moves
\* once the first path has been taken (the order of load_nif_scene's calls).
Place(g) == {p \in Under(kids, Top) : g \in Under(kids, p)}
TracksResolve ==
    \A i \in DOMAIN tracks :
        Top \in tracks[i].path /\ tracks[i].path = Place(tracks[i].node)

\* The bones of a skeleton are animated on it and never on the Node3Ds that
\* mirror them, which move nothing.
BonesMoveOnSkeletons ==
    phase \in {"actions", "kfm"} =>
        \A i \in DOMAIN tracks : \A r \in DOMAIN skel : \A b \in ToSet(skel[r].bones) :
            tracks[i].player = Player => tracks[i].node # AV(b)

\* A player that has its library is in the scene, the scene's player only with
\* a track and before the other.  When a load ends, every player in the scene
\* has its library; a load that an exception ends leaves the player it was
\* building without one, the .kfm's if it had been added, else the scene's, and
\* no other.
PlayersComplete ==
    LET players == ToSet(kids[Top]) \cap {ScenePlayer, Player}
    IN  /\ ready \subseteq players
        /\ phase = "cleared" => players = ready
        /\ phase = "thrown" =>
              players \ ready = IF Player \in players THEN {Player} ELSE players
        /\ ScenePlayer \in ready => \E i \in DOMAIN tracks : tracks[i].player = ScenePlayer
        /\ \A i, j \in DOMAIN kids[Top] :
              kids[Top][i] = ScenePlayer /\ kids[Top][j] = Player => i < j

\* The tracks built after the traversal reach what they are about, for both
\* players: the place where the node is by then, and a bone on its skeleton.
TracksReach == TracksResolve /\ BonesMoveOnSkeletons

\* The state is of its type, and the players are as above throughout, whatever
\* was added, emptied and removed again, and wherever an exception ended it.
PlayersSafe == ATypeOK /\ PlayersComplete

\* A track never drives a property of a team colour ShaderMaterial, and where
\* an alpha track plays, the material is not drawn opaque.
MaterialTracksApply ==
    \A i \in DOMAIN tracks :
        tracks[i].prop \in {"uv1", "albedo_texture", "albedo_color", "alpha"} =>
            /\ MaterialAt(tracks[i].node).kind = "standard"
            /\ tracks[i].prop = "alpha" =>
                   MaterialAt(tracks[i].node).transparency # "disabled"
=============================================================================
