------------------------------ MODULE FrontEnd ------------------------------
(***************************************************************************)
(* The scenes of the game from the splash screen to the 3D world, over one  *)
(* session of the program after another: SplashScreenScene,                 *)
(* VerificationScene, InitScene, MenuScene and GameWorldScene, with the     *)
(* parts each of them runs.  Tessera.ini outlives a session.                *)
(*                                                                          *)
(* The host answers InitScene's calls, fails them or leaves one unanswered; *)
(* Bridge has how.                                                          *)
(***************************************************************************)
EXTENDS FpkArchive, MainMenu, AssetCycler

CONSTANTS
    FontSets,       \* the fonts an installation may have
    NArchives,      \* how many archives InitScene reads
    NQueries,       \* how many calls follow init_game
    MaxSessions     \* bound: how often the program is started

\* find_files lists assets, there are targets, and no clip has the name that
\* stands for no clip.
ASSUME Parameters ==
    /\ NArchives \in Nat /\ NQueries \in Nat
    /\ Targets \in Seq(ToSet(Targets)) /\ Targets # <<>>
    /\ \A ps \in Listings : ps \in Seq(DOMAIN Scenes \ {None})
    /\ \A a \in DOMAIN Scenes :
        LET players == Scenes[a].players IN
        /\ players \in Seq(ToSet(players))
        /\ \A p \in DOMAIN players : players[p].clips \in Seq(ToSet(players[p].clips) \ {Rest})

VARIABLES
    scene,      \* the current scene, or "closed" between two sessions
    stage,      \* where the scene's _ready or handler waits
    config,     \* the keys of Tessera.ini that are stored
    exe,        \* what lies at bts_exe_path: "valid", "wrong" or "gone"
    fonts,      \* the fonts of the installation
    chosen,     \* whether the user chose the path in this session
    step,       \* archives read or calls answered
    sessions

flowVars == <<scene, stage, config, exe, fonts, chosen, step, sessions>>
vars == <<flowVars, fpkVars, menuVars, cyclerVars>>

\* The keys in the order they are saved.
\* Mutant: the path of the executable is saved first.
KeysExeFirst == <<"bts_exe_path", "original_folder_path", "warlords_folder_path",
                  "bts_folder_path", "original_exe_path", "warlords_exe_path">>
Keys == <<"original_folder_path", "warlords_folder_path", "bts_folder_path",
          "original_exe_path", "warlords_exe_path", "bts_exe_path">>
Stored == "bts_exe_path" \in config

Init ==
    /\ scene = "closed" /\ stage = "none" /\ config = {} /\ exe = "gone" /\ fonts = {}
    /\ chosen = FALSE /\ step = 0 /\ sessions = 0
    /\ FpkInit /\ MenuInit /\ CyclerInit

Goto(s, g) == scene' = s /\ stage' = g
At(s, g) == scene = s /\ stage = g
OnlyFlow == UNCHANGED <<fpkVars, menuVars, cyclerVars>>

\* The program is started; between sessions the installation may change.
Start ==
    /\ scene = "closed" /\ sessions < MaxSessions
    /\ Goto("splash", "timer")
    /\ exe' \in {"valid", "wrong", "gone"} /\ fonts' \in FontSets
    /\ chosen' = FALSE /\ step' = 0 /\ sessions' = sessions + 1
    /\ UNCHANGED config /\ OnlyFlow
\* The window is closed or the process is killed, between any two steps.
Close ==
    /\ scene # "closed"
    /\ Goto("closed", "none")
    /\ UNCHANGED <<config, exe, fonts, chosen, step, sessions>>
    /\ CloseArchive /\ LeaveMenu /\ LeaveWorld

SplashOver ==
    /\ At("splash", "timer")
    /\ Goto("verification", IF Stored THEN "hash" ELSE "dialog")
    /\ UNCHANGED <<config, exe, fonts, chosen, step, sessions>> /\ OnlyFlow

\* Mutant: a file that cannot be found is let through.
HashedGoneToo == exe # "wrong"
Hashed == exe = "valid"
\* hash_file has the program quit unless the stored path is the right file;
\* _ready goes on to its timer either way.
VerifyStored ==
    /\ At("verification", "hash")
    /\ Goto("verification", IF Hashed THEN "timer" ELSE "quitting")
    /\ UNCHANGED <<config, exe, fonts, chosen, step, sessions>> /\ OnlyFlow
\* quit ends the loop with the frame it is called in, before a timer of 2.5
\* seconds.
QuitEnds ==
    /\ At("verification", "quitting")
    /\ Goto("closed", "none")
    /\ UNCHANGED <<config, exe, fonts, chosen, step, sessions>> /\ OnlyFlow
\* The dialog: cancelled, it is closed and nothing goes on; a file chosen, the
\* six values are saved one after another, and no hash is taken.  Of the file
\* only its directory counts, and the executable it should lie in may be none.
CancelDialog ==
    /\ At("verification", "dialog")
    /\ Goto("verification", "stuck")
    /\ UNCHANGED <<config, exe, fonts, chosen, step, sessions>> /\ OnlyFlow
SelectFile ==
    /\ At("verification", "dialog")
    /\ Goto("verification", "saving") /\ chosen' = TRUE /\ step' = 0
    /\ exe' \in {"valid", "wrong", "gone"}
    /\ UNCHANGED <<config, fonts, sessions>> /\ OnlyFlow
SaveValue ==
    /\ At("verification", "saving") /\ step < Len(Keys)
    /\ config' = config \cup {Keys[step + 1]} /\ step' = step + 1
    /\ UNCHANGED <<scene, stage, exe, fonts, chosen, sessions>> /\ OnlyFlow
ProceedToInit ==
    /\ \/ At("verification", "timer")
       \/ At("verification", "saving") /\ step = Len(Keys)
    /\ Goto("init", "fonts") /\ step' = 0
    /\ UNCHANGED <<config, exe, fonts, chosen, sessions>> /\ OnlyFlow

\* Without Arial the script ends at the missing member: the scene stays.
LoadFonts ==
    /\ At("init", "fonts")
    /\ Goto("init", IF "arial" \in fonts THEN "archives" ELSE "stuck")
    /\ UNCHANGED <<config, exe, fonts, chosen, step, sessions>> /\ OnlyFlow
\* The archives, one after another; the next one is opened when the last was
\* read, and its files replace nothing if they were not all read.
OpenNextArchive ==
    /\ At("init", "archives") /\ step < NArchives
    /\ OpenArchive
    /\ Goto("init", "archive") /\ step' = step + 1
    /\ UNCHANGED <<config, exe, fonts, chosen, sessions, menuVars, cyclerVars>>
ReadArchive ==
    /\ At("init", "archive") /\ (ReadPath \/ ReadData)
    /\ UNCHANGED <<flowVars, menuVars, cyclerVars>>
ArchiveRead ==
    /\ At("init", "archive") /\ ListRead
    /\ CloseArchive /\ Goto("init", "archives")
    /\ UNCHANGED <<config, exe, fonts, chosen, step, sessions, menuVars, cyclerVars>>

\* The host is spawned, or a failure is logged and the scene goes on.
SpawnHost ==
    /\ At("init", "archives") /\ step = NArchives
    /\ stage' \in {"call", "engine"} /\ step' = 0
    /\ UNCHANGED <<scene, config, exe, fonts, chosen, sessions>> /\ OnlyFlow
\* Mutant: a failed init_game ends the scene.
CallEnds ==
    /\ At("init", "call")
    /\ \/ step < NQueries /\ step' = step + 1 /\ UNCHANGED stage
       \/ step = NQueries /\ stage' = "engine" /\ step' = 0
       \/ step = 0 /\ stage' = "stuck" /\ step' = 0
    /\ UNCHANGED <<scene, config, exe, fonts, chosen, sessions>> /\ OnlyFlow
\* init_game, and the queries if it succeeded, each answered or failed.
CallReturns ==
    /\ At("init", "call")
    /\ \/ step < NQueries /\ step' = step + 1 /\ UNCHANGED stage
       \/ step \in {0, NQueries} /\ stage' = "engine" /\ step' = 0
    /\ UNCHANGED <<scene, config, exe, fonts, chosen, sessions>> /\ OnlyFlow
\* A call whose reply never comes is awaited for ever.
CallBlocks ==
    /\ At("init", "call")
    /\ Goto("init", "blocked")
    /\ UNCHANGED <<config, exe, fonts, chosen, step, sessions>> /\ OnlyFlow
ProceedToMenu ==
    /\ At("init", "engine")
    /\ Goto("menu", "none") /\ EnterMenu(fonts)
    /\ UNCHANGED <<config, exe, fonts, chosen, step, sessions, fpkVars, cyclerVars>>

InMenu == scene = "menu" /\ UNCHANGED <<flowVars, fpkVars, cyclerVars>>
PressButton(b) == b # "PlayNowButton" /\ InMenu /\ Press(b)
Back == InMenu /\ GoBack
ExitGame == scene = "menu" /\ connected /\ "ExitGameButton" \in bar /\ Close
PlayNow ==
    /\ scene = "menu" /\ connected /\ "SubMenuSingleplayer" \in shown
    /\ Goto("world", "none") /\ LeaveMenu
    /\ \E ps \in Listings : EnterWorld(ps)
    /\ UNCHANGED <<config, exe, fonts, chosen, step, sessions, fpkVars>>

InWorld == scene = "world" /\ UNCHANGED <<flowVars, fpkVars, menuVars>>
Key ==
    \/ Cycle(-1) \/ Cycle(1) \/ CycleDebugMode \/ ToggleMaterialOverride
    \/ CycleAnimation \/ ToggleAutoCycle \/ CycleDiagTarget
User ==
    \/ CancelDialog \/ SelectFile
    \/ \E m \in Menus : \E b \in Buttons(m) : PressButton(b)
    \/ Back \/ PlayNow \/ ExitGame
    \/ InWorld /\ Key
    \/ Start \/ Close
Program ==
    \/ SplashOver \/ VerifyStored \/ QuitEnds \/ SaveValue \/ ProceedToInit
    \/ LoadFonts \/ OpenNextArchive \/ ReadArchive \/ ArchiveRead
    \/ SpawnHost \/ ProceedToMenu
    \/ InWorld /\ Frame

Next == User \/ Program \/ CallReturns \/ CallBlocks
\* Timers, frames and handlers go on; a call that is not lost returns.  The
\* user does nothing for sure.
Spec == Init /\ [][Next]_vars /\ WF_vars(Program) /\ WF_vars(CallReturns)

\* The scenes, the stages and the parts hold what they should.
TypeOK ==
    /\ scene \in {"closed", "splash", "verification", "init", "menu", "world"}
    /\ stage \in {"none", "timer", "hash", "quitting", "dialog", "saving", "stuck", "fonts",
                  "archives", "archive", "call", "blocked", "engine"}
    /\ config \subseteq ToSet(Keys) /\ step \in 0..(Len(Keys) + NArchives + NQueries)
    /\ shown \subseteq Menus /\ bar \subseteq {"ExitGameButton", "GoBackButton"}
    /\ current \in 0..Len(paths) /\ container \in ToSet(paths) \cup {None}
    /\ mode \in Modes /\ next \in 1..(Len(paths) + 1) /\ diag \in DOMAIN Targets
    /\ clips = <<>> \/ clip \in DOMAIN clips

\* Whenever a session reads bts_exe_path, the other five paths are there too,
\* whatever moment an earlier session was killed at.
StoredComplete == Stored => config = ToSet(Keys)

\* A path that an earlier session stored leads past the verification only to
\* the right executable, whatever has become of the file since, and never with
\* half of the paths stored (hash_file).
StoredIsVerified ==
    scene \in {"init", "menu", "world"} => Stored /\ (~chosen => exe = "valid")

\* The init scene is left for the menu unless Arial is missing or a call is
\* never answered: no archive, however broken, and no failing host stops it.
InitEnds ==
    scene = "init" /\ "arial" \in fonts ~> scene # "init" \/ stage = "blocked"

\* One menu at most is visible, and the bar offers the exit at the top and the
\* way back everywhere else.
MenuConsistent ==
    /\ \A m, n \in shown : m = n
    /\ connected => bar = {IF Default \in shown THEN "ExitGameButton" ELSE "GoBackButton"}

\* The scenes and their parts hold what they should, and the screen never loses
\* the way out (MenuScene.gd's handlers, of which each hides all menus first).
ScreenSafe == TypeOK /\ MenuConsistent

\* The way back from a menu leads to the one with the button that opens it, and
\* from a press that opened nothing to the top (MenuScene.gd, the case of
\* GoBackButton).
BackLeadsUp ==
    [][Back => IF shown = {} THEN shown' = {Default}
               ELSE \E m \in shown' :
                        \E b \in Buttons(m) \cap DOMAIN OpenedBy : OpenedBy[b] \in shown]_vars

\* What the names of the modes announce: the meshes are hidden in "Debug only
\* (mesh hidden)", and an "only" of an overlay is that overlay.
Overlays == {"lines", "spheres", "labels"}
OnlyOverlay == <<"lines", "spheres", "labels">>
DebugOnly == 4
Everything == 6
Grid == 7
ModeShows ==
    /\ view.meshes = (IF hud.mode = DebugOnly THEN {} ELSE Scenes[container].meshes)
    /\ (view.grid <=> hud.mode = Grid)
    /\ IF ~Scenes[container].bones \/ hud.mode \in {MeshOnly, Grid} THEN view.overlay = {}
       ELSE CASE hud.mode \in 0..2 -> view.overlay = {OnlyOverlay[hud.mode + 1]}
              [] hud.mode \in 3..4 -> view.overlay = Overlays
              [] OTHER -> view.overlay # {}

\* An asset in the world is shown as the mode's label announces and in the
\* material of the override, also when they changed while there was none; and
\* of an asset that could not be had nothing is shown and nothing plays.
ShownAsAnnounced ==
    IF container = None
    THEN view.meshes = {} /\ view.overlay = {} /\ red = {} /\ playing = <<>>
    ELSE ModeShows /\ red = IF override THEN Scenes[container].meshes ELSE {}

\* The labels are of one asset, its clips and one of them; it is the asset in
\* the world, or after a load that failed the one before.
LabelsAgree ==
    /\ hud.mode = mode
    /\ clips = IF hud.asset = None THEN <<>> ELSE ClipsOf(hud.asset)
    /\ hud.clip = ClipLabel(clips, clip)
    /\ container # None => hud.asset = container /\ container = paths[current]

\* A clip that was asked for plays, on the player found; the others play what
\* they did when the asset was loaded.  What "(none)" promises is RestPoseAtRest.
ClipPlays ==
    container # None =>
        \A p \in DOMAIN playing :
            LET plays == Scenes[container].players[p].plays IN
            IF p # Picked(container) THEN playing[p] = plays
            ELSE IF clip = 1 THEN playing[p] \in {None, plays} ELSE playing[p] = clips[clip]

\* What the viewer shows, what it plays and what it says are about the same
\* asset and the same settings, after any keys, failed loads and cycles
\* (AssetCycler.gd).
ViewerTells == ShownAsAnnounced /\ LabelsAgree /\ ClipPlays

\* An auto-cycle that comes to its end has come to every asset, though earlier
\* ones were aborted and diagnostic targets were loaded in between.
AutoCycleTriesAll ==
    [][auto /\ ~auto' /\ next > Len(paths) /\ scene' = "world" => tried = ToSet(paths)]_vars

-----------------------------------------------------------------------------
(* What the comments and documents say and the code does not do              *)

\* "forces the user to point to a valid Civ4BeyondSword.exe",
\* VerificationScene.gd:6: nothing else leads past the verification, nor does a
\* path the user has just chosen.
EntersHashed == scene \in {"init", "menu", "world"} => exe = "valid"

\* "6=everything visible", AssetCycler.gd:32: in that mode nothing of the asset is
\* hidden.
EverythingVisible ==
    container # None /\ hud.mode = Everything =>
        /\ view.meshes = Scenes[container].meshes
        /\ Scenes[container].bones => view.overlay = Overlays

\* "shows pure rest pose (no animation)", AssetCycler.gd:268: while the label has
\* "(none)" for the clip no player of the asset plays.
RestPoseAtRest ==
    container # None /\ hud.clip = Rest => \A p \in DOMAIN playing : playing[p] = None

\* The three together: in every state at least one of them holds.  A state in
\* which this fails contradicts each of the three.
DocumentsHold == EntersHashed \/ EverythingVisible \/ RestPoseAtRest
=============================================================================
