----------------------------- MODULE AssetCycler -----------------------------
(***************************************************************************)
(* AssetCycler.gd: one asset of the VFS at a time in the 3D world, with     *)
(* the debug modes, the material override, the clips and the auto-cycle.    *)
(* A key or a frame runs one handler to its end.                            *)
(*                                                                          *)
(* A freed node counts as no node, as Godot has it.                         *)
(***************************************************************************)
EXTENDS Integers, Sequences, SequencesExt

CONSTANTS
    Listings,   \* what VFS.find_files may find: sequences of assets
    Scenes,     \* what GdextNiflib makes of each asset: meshes, whether it has
                \* bones, and its AnimationPlayers in tree order, each with its
                \* clips and the one it plays from the start
    Targets,    \* _diag_targets
    StartAsset  \* START_ASSET

VARIABLES
    paths,      \* _asset_paths
    current,    \* _current_index, from 1; 0 where nothing was found
    container,  \* the asset in _asset_container, or "none"
    mode,       \* _debug_mode
    view,       \* what the debug mode shows: meshes, overlay of the bones, grid
    override,   \* _material_override_active
    red,        \* the meshes with the override material
    clips,      \* _anim_clip_names
    clip,       \* _anim_clip_index, from 1
    playing,    \* what each AnimationPlayer of the container plays
    hud,        \* the labels: asset, clip, mode
    auto,       \* _auto_cycle_active
    next,       \* _auto_cycle_index, from 1
    diag,       \* _diag_cycle_index, from 1
    tried       \* the assets the auto-cycle has come to

display == <<view, red, clips, clip, playing>>
cyclerVars == <<paths, current, container, mode, override, hud, auto, next, diag, tried, display>>

None == "none"
Rest == "(none)"
Modes == 0..7
MeshOnly == 5
NoView == [meshes |-> {}, overlay |-> {}, grid |-> FALSE]

CyclerInit ==
    /\ paths = <<>> /\ current = 0 /\ container = None /\ mode = MeshOnly
    /\ view = NoView /\ override = FALSE /\ red = {}
    /\ clips = <<>> /\ clip = 1 /\ playing = <<>>
    /\ hud = [asset |-> None, clip |-> None, mode |-> MeshOnly]
    /\ auto = FALSE /\ next = 1 /\ diag = 1 /\ tried = {}

Parts(m) ==
    CASE m = 0 -> {"lines"}
      [] m = 1 -> {"spheres"}
      [] m = 2 -> {"labels"}
      [] m \in {3, 4} -> {"lines", "spheres", "labels"}
      [] m = 6 -> {"lines", "spheres"}
      [] OTHER -> {}
\* _apply_debug_mode for a container with asset a.
Applied(a, m) ==
    [meshes |-> IF m = 4 THEN {} ELSE Scenes[a].meshes,
     overlay |-> IF Scenes[a].bones THEN Parts(m) ELSE {},
     grid |-> m = 7]

\* _find_animation_player takes the first in tree order.
Picked(a) == IF Scenes[a].players = <<>> THEN 0 ELSE 1
ClipsOf(a) ==
    IF Picked(a) = 0 THEN <<>>
    ELSE <<Rest>> \o Scenes[a].players[Picked(a)].clips
ClipLabel(cs, c) == IF cs = <<>> THEN None ELSE cs[c]

Shows(a) == Applied(a, mode)

\* Mutant: the index of the last asset's clip is kept.
FirstClipKept(a) == IF clip \in DOMAIN ClipsOf(a) THEN clip ELSE 1
FirstClip(a) == 1

\* _load_asset(i) after the previous container was freed: the file is found,
\* or it is listed and cannot be had, and the labels stay as they were.
Load(i) ==
    \/ LET a == paths[i] IN
       /\ container' = a
       /\ playing' = [p \in DOMAIN Scenes[a].players |-> Scenes[a].players[p].plays]
       /\ clips' = ClipsOf(a) /\ clip' = FirstClip(a)
       /\ view' = Shows(a)
       /\ red' = IF override THEN Scenes[a].meshes ELSE {}
       /\ hud' = [hud EXCEPT !.asset = a, !.clip = ClipLabel(ClipsOf(a), clip')]
    \/ /\ container' = None /\ playing' = <<>> /\ red' = {}
       /\ view' = [view EXCEPT !.meshes = {}, !.overlay = {}]
       /\ UNCHANGED <<clips, clip, hud>>

\* setup: the list, where to start, and the first asset.
StartIndex(ps) ==
    IF StartAsset \in ToSet(ps) THEN CHOOSE i \in DOMAIN ps : ps[i] = StartAsset ELSE 1
EnterWorld(ps) ==
    /\ paths' = ps
    /\ current' = IF ps = <<>> THEN 0 ELSE StartIndex(ps)
    /\ mode' = MeshOnly /\ override' = FALSE /\ red' = {}
    /\ auto' = FALSE /\ next' = 1 /\ diag' = 1 /\ tried' = {}
    /\ clip' = 1
    /\ \/ /\ ps # <<>>
          /\ LET a == ps[StartIndex(ps)] IN
             /\ container' = a
             /\ playing' = [p \in DOMAIN Scenes[a].players |-> Scenes[a].players[p].plays]
             /\ clips' = ClipsOf(a)
             /\ view' = Applied(a, MeshOnly)
             /\ hud' = [asset |-> a, clip |-> ClipLabel(ClipsOf(a), 1), mode |-> MeshOnly]
       \/ /\ container' = None /\ playing' = <<>> /\ clips' = <<>> /\ view' = NoView
          /\ hud' = [asset |-> None, clip |-> None, mode |-> MeshOnly]
LeaveWorld ==
    /\ paths' = <<>> /\ current' = 0 /\ container' = None /\ mode' = MeshOnly
    /\ view' = NoView /\ override' = FALSE /\ red' = {}
    /\ clips' = <<>> /\ clip' = 1 /\ playing' = <<>>
    /\ hud' = [asset |-> None, clip |-> None, mode |-> MeshOnly]
    /\ auto' = FALSE /\ next' = 1 /\ diag' = 1 /\ tried' = {}

\* J and L.
Cycle(direction) ==
    /\ ~auto /\ paths # <<>>
    /\ current' = ((current - 1 + direction + Len(paths)) % Len(paths)) + 1
    /\ Load(current')
    /\ UNCHANGED <<paths, mode, override, auto, next, diag, tried>>

\* I: what is shown follows only where there is a container.
CycleDebugMode ==
    /\ ~auto
    /\ mode' = (mode + 1) % 8
    /\ view' = IF container = None THEN view ELSE Applied(container, mode')
    /\ hud' = [hud EXCEPT !.mode = mode']
    /\ UNCHANGED <<paths, current, container, override, red, clips, clip, playing,
                   auto, next, diag, tried>>

\* T.
ToggleMaterialOverride ==
    /\ ~auto
    /\ override' = ~override
    /\ red' = IF container # None /\ override' THEN Scenes[container].meshes ELSE {}
    /\ UNCHANGED <<paths, current, container, mode, view, clips, clip, playing, hud,
                   auto, next, diag, tried>>

Plays(c) == IF clips[c] = Rest THEN None ELSE clips[c]
\* P.
CycleAnimation ==
    /\ ~auto /\ container # None /\ Picked(container) # 0
    /\ clip' = (clip % Len(clips)) + 1
    /\ playing' = [playing EXCEPT ![Picked(container)] = Plays(clip')]
    /\ hud' = [hud EXCEPT !.clip = clips[clip']]
    /\ UNCHANGED <<paths, current, container, mode, view, override, red, clips,
                   auto, next, diag, tried>>

\* Mutant: a new auto-cycle goes on where the last one was aborted.
FirstOfCycleKept == next
FirstOfCycle == 1
\* F5.
ToggleAutoCycle ==
    /\ auto' = ~auto
    /\ next' = IF auto THEN next ELSE FirstOfCycle
    /\ tried' = IF auto THEN tried ELSE {}
    /\ UNCHANGED <<paths, current, container, mode, override, hud, diag, display>>

NextAsset == next + 1
\* _process.
Frame ==
    /\ auto
    /\ IF next > Len(paths)
       THEN /\ auto' = FALSE
            /\ UNCHANGED <<paths, current, container, mode, override, hud, next, diag,
                           tried, display>>
       ELSE /\ current' = next
            /\ Load(next)
            /\ next' = NextAsset /\ tried' = tried \cup {paths[next]}
            /\ UNCHANGED <<paths, mode, override, auto, diag>>

PlaceOf(a) == CHOOSE i \in DOMAIN paths : paths[i] = a
After(d) == (d % Len(Targets)) + 1
\* The targets in the order in which they are tried.
Ahead(d) == [k \in 0..(Len(Targets) - 1) |-> ((d - 1 + k) % Len(Targets)) + 1]
\* F6: the next target that the VFS has; where it has none, the search calls
\* itself until the stack is full and Godot stops it, the index anywhere.
CycleDiagTarget ==
    /\ paths # <<>>
    /\ LET found == {k \in DOMAIN Ahead(diag) : Targets[Ahead(diag)[k]] \in ToSet(paths)}
       IN  IF found = {}
           THEN /\ diag' \in 1..Len(Targets)
                /\ UNCHANGED <<current, container, hud, display>>
           ELSE \E k \in found :
                    /\ \A other \in found : k <= other
                    /\ diag' = After(Ahead(diag)[k])
                    /\ current' = PlaceOf(Targets[Ahead(diag)[k]])
                    /\ Load(current')
    /\ UNCHANGED <<paths, mode, override, auto, next, tried>>
=============================================================================
