--------------------------- MODULE FrontEndProofs ---------------------------
(***************************************************************************)
(* Proofs about FrontEnd, for any archives, assets, fonts, number of calls  *)
(* and number of sessions: a session killed anywhere leaves a configuration *)
(* the next one can start from, nothing unverified gets past the            *)
(* verification, the menu and its bottom bar agree, and what the viewer     *)
(* shows and says is about the asset it has.  And about FpkArchive: an      *)
(* archive is read as it was packed or refused.                             *)
(***************************************************************************)
EXTENDS FrontEnd, OrderLemmas

-----------------------------------------------------------------------------
(* The inductive invariant: one conjunct for the flow of the scenes, one for  *)
(* the menu, two for the viewer.                                              *)

\* The values are saved in order, so what is stored is a prefix of the keys;
\* a later session that saves again is behind what is stored or at its end.
Saved(k) == {Keys[i] : i \in 1..k}
Config ==
    \E k \in 0..6 : /\ config = Saved(k)
                    /\ scene = "verification" /\ stage = "saving" => step \in 0..k

\* The stages in which a session has passed, or is passing, the verification.
Verified ==
    /\ scene \in {"init", "menu", "world"} \/ (scene = "verification" /\ stage = "timer")
       => Stored /\ (~chosen => exe = "valid")
    /\ scene = "verification" /\ stage = "hash" => Stored
    /\ scene = "verification" /\ stage = "saving" => chosen

Scenery ==
    /\ scene \in {"closed", "splash", "verification", "init", "menu", "world"}
    /\ stage \in {"none", "timer", "hash", "quitting", "dialog", "saving", "stuck", "fonts",
                  "archives", "archive", "call", "blocked", "engine"}
    /\ step \in 0..(6 + NArchives + NQueries)

Flow == Scenery /\ Config /\ Verified

\* One menu or none, and a bar that offers the way on from it.
MenuFacts ==
    /\ shown = {} \/ \E m \in Menus : shown = {m}
    /\ bar \subseteq {"ExitGameButton", "GoBackButton"}
    /\ connected => bar = {IF Default \in shown THEN "ExitGameButton" ELSE "GoBackButton"}

\* What the labels, the meshes and the players have to do with the asset.
Shown ==
    IF container = None
    THEN view.meshes = {} /\ view.overlay = {} /\ red = {} /\ playing = <<>>
    ELSE /\ view = Applied(container, mode)
         /\ red = IF override THEN Scenes[container].meshes ELSE {}
         /\ current \in DOMAIN paths
         /\ DOMAIN playing = DOMAIN Scenes[container].players
Viewer ==
    /\ mode \in Modes /\ DOMAIN hud = {"asset", "clip", "mode"}
    /\ DOMAIN view = {"meshes", "overlay", "grid"}
    /\ clips = <<>> \/ clip \in DOMAIN clips
    /\ Shown /\ LabelsAgree /\ ClipPlays

\* The place of the cycles in the list of assets.
Cycles ==
    /\ paths \in Seq(DOMAIN Scenes \ {None}) /\ current \in 0..Len(paths)
    /\ diag \in 1..Len(Targets) /\ auto \in BOOLEAN /\ next \in 1..(Len(paths) + 1)
    /\ scene # "world" => ~auto
    /\ auto => tried = {paths[i] : i \in 1..(next - 1)}

IInv == Flow /\ MenuFacts /\ Viewer /\ Cycles

-----------------------------------------------------------------------------
(* What each step does to the parts.                                          *)

\* A step leaves the menu alone, or enters or leaves its scene, or is a press.
LEMMA MenuSteps ==
    ASSUME Next
    PROVE  \/ UNCHANGED menuVars
           \/ LeaveMenu
           \/ EnterMenu(fonts)
           \/ \E m \in Menus : \E b \in Buttons(m) : Press(b)
           \/ GoBack
<1>1. CASE User
  BY <1>1 DEF User, CancelDialog, SelectFile, PressButton, Back, PlayNow, ExitGame, InMenu, InWorld,
        Start, Close, OnlyFlow
<1>2. CASE Program
  BY <1>2 DEF Program, SplashOver, VerifyStored, QuitEnds, SaveValue, ProceedToInit, LoadFonts,
        OpenNextArchive, ReadArchive, ArchiveRead, SpawnHost, ProceedToMenu, InWorld, OnlyFlow
<1>3. CASE CallReturns \/ CallBlocks
  BY <1>3 DEF CallReturns, CallBlocks, OnlyFlow
<1> QED BY <1>1, <1>2, <1>3 DEF Next

\* A step leaves the viewer alone, or enters or leaves its scene, or is a key
\* or a frame.
LEMMA WorldSteps ==
    ASSUME Next
    PROVE  \/ UNCHANGED cyclerVars /\ (scene = "world" => scene' = "world")
           \/ LeaveWorld
           \/ scene' = "world" /\ \E ps \in Listings : EnterWorld(ps)
           \/ scene = "world" /\ scene' = "world" /\ (Key \/ Frame)
<1>1. CASE User
  BY <1>1 DEF User, CancelDialog, SelectFile, PressButton, Back, PlayNow, ExitGame, InMenu, InWorld,
        Start, Close, OnlyFlow, Goto, At, flowVars
<1>2. CASE Program
  BY <1>2 DEF Program, SplashOver, VerifyStored, QuitEnds, SaveValue, ProceedToInit, LoadFonts,
        OpenNextArchive, ReadArchive, ArchiveRead, SpawnHost, ProceedToMenu, InWorld, OnlyFlow,
        Goto, At, flowVars
<1>3. CASE CallReturns \/ CallBlocks
  BY <1>3 DEF CallReturns, CallBlocks, OnlyFlow, Goto, At
<1> QED BY <1>1, <1>2, <1>3 DEF Next

-----------------------------------------------------------------------------
(* The flow of the scenes.                                                    *)

LEMMA LastKey == ASSUME NEW k \in 0..6
                 PROVE  /\ "bts_exe_path" \in Saved(k) <=> k = 6
                        /\ Saved(6) = ToSet(Keys)
BY DEF Saved, Keys, ToSet

\* Saving the value behind the first s of k makes it k or one more.
LEMMA SavesNext == ASSUME NEW k \in 0..6, NEW s \in 0..k, s < 6
                   PROVE  \E j \in 0..6 : Saved(k) \cup {Keys[s + 1]} = Saved(j) /\ s + 1 \in 0..j
<1>1. CASE s < k
  <2>1. Saved(k) \cup {Keys[s + 1]} = Saved(k)
    BY <1>1 DEF Saved
  <2> QED BY <1>1, <2>1
<1>2. CASE s = k
  <2>1. Saved(k) \cup {Keys[s + 1]} = Saved(k + 1)
    BY <1>2 DEF Saved
  <2> QED BY <1>2, <2>1
<1> QED BY <1>1, <1>2

\* The flow holds at first and in every step; the steps that touch it only by
\* going on in their scene are taken together.
LEMMA FlowStart == Init => Flow
<1> SUFFICES ASSUME Init PROVE Flow
  OBVIOUS
<1>1. Scenery
  BY Parameters DEF Init, Scenery
<1>2. Config
  <2>1. config = Saved(0) /\ scene = "closed"
    BY DEF Init, Saved
  <2> QED BY <2>1 DEF Config
<1>3. Verified
  BY DEF Init, Verified
<1> QED BY <1>1, <1>2, <1>3 DEF Flow

LEMMA FlowKeeps ==
    ASSUME Flow, [Next]_vars
    PROVE  Flow'
<1> USE Parameters DEF Flow, Goto, At, Stored
<1>0. Keys # <<>> /\ Len(Keys) = 6
  BY DEF Keys
<1>1. CASE SaveValue
  <2>1. /\ step < 6 /\ step' = step + 1 /\ config' = config \cup {Keys[step + 1]}
        /\ UNCHANGED <<scene, stage, exe, chosen>> /\ scene = "verification" /\ stage = "saving"
    BY <1>0, <1>1 DEF SaveValue
  <2>2. PICK k \in 0..6 : config = Saved(k) /\ step \in 0..k
    BY <2>1 DEF Config
  <2>3. PICK j \in 0..6 : Saved(k) \cup {Keys[step + 1]} = Saved(j) /\ step + 1 \in 0..j
    BY <2>1, <2>2, SavesNext
  <2>4. Config'
    BY <2>1, <2>2, <2>3 DEF Config, Saved
  <2>5. Verified' /\ Scenery'
    BY <2>1 DEF Verified, Scenery
  <2> QED BY <2>4, <2>5
<1>2. CASE SelectFile
  <2>1. PICK k \in 0..6 : config = Saved(k)
    BY DEF Config
  <2>2. config' = Saved(k) /\ step' \in 0..k
    BY <1>2, <2>1 DEF SelectFile
  <2>3. Config'
    BY <2>2 DEF Config, Saved
  <2> QED BY <1>2, <2>3 DEF SelectFile, Verified, Scenery
<1>3. CASE ProceedToInit
  <2>1. PICK k \in 0..6 : /\ config = Saved(k)
                          /\ scene = "verification" /\ stage = "saving" => step \in 0..k
    BY DEF Config
  <2>2. step = 6 /\ stage = "saving" /\ scene = "verification" => Stored /\ chosen
    BY <2>1, LastKey DEF Verified
  <2>3. Config'
    BY <1>3, <2>1 DEF ProceedToInit, Config, Saved
  <2>4. Verified'
    BY <1>0, <1>3, <2>2 DEF ProceedToInit, Verified
  <2> QED BY <1>3, <2>3, <2>4 DEF ProceedToInit, Scenery
<1>4. ASSUME UNCHANGED config, scene' # "verification" \/ stage' # "saving"
      PROVE  Config'
  BY <1>4 DEF Config, Saved
<1>5. CASE SplashOver \/ VerifyStored \/ QuitEnds \/ CancelDialog \/ Start \/ Close \/ ExitGame
  <2>1. Close \/ ~ExitGame
    BY DEF ExitGame
  <2>2. UNCHANGED config /\ stage' # "saving"
    BY <1>5, <2>1 DEF SplashOver, VerifyStored, QuitEnds, CancelDialog, Start, Close
  <2>3. Config'
    BY <1>4, <2>2
  <2>4. Scenery'
    BY <1>5, <2>1 DEF SplashOver, VerifyStored, QuitEnds, CancelDialog, Start, Close, Scenery
  <2>5. Verified'
    <3>1. CASE SplashOver
      BY <3>1 DEF SplashOver, Verified
    <3>2. CASE VerifyStored
      BY <3>2 DEF VerifyStored, Hashed, Verified
    <3>3. CASE QuitEnds \/ CancelDialog \/ Start \/ Close
      BY <3>3 DEF QuitEnds, CancelDialog, Start, Close, Verified
    <3> QED BY <1>5, <2>1, <3>1, <3>2, <3>3
  <2> QED BY <2>3, <2>4, <2>5
<1>6. CASE \/ LoadFonts \/ OpenNextArchive \/ ReadArchive \/ ArchiveRead
           \/ SpawnHost \/ CallReturns \/ CallBlocks
  <2>1. /\ UNCHANGED <<config, exe, chosen>> /\ scene = "init" /\ scene' = "init"
        /\ Scenery'
    BY <1>6 DEF LoadFonts, OpenNextArchive, ReadArchive, ArchiveRead, SpawnHost, CallReturns,
          CallBlocks, flowVars, Scenery
  <2> QED BY <1>4, <2>1 DEF Verified
<1>7. CASE \/ ProceedToMenu \/ PlayNow \/ Back \/ InWorld
           \/ \E m \in Menus : \E b \in Buttons(m) : PressButton(b)
  <2>1. /\ UNCHANGED <<config, exe, chosen>> /\ scene \in {"init", "menu", "world"}
        /\ scene' \in {"menu", "world"} /\ Scenery'
    BY <1>7 DEF ProceedToMenu, PlayNow, Back, InWorld, PressButton, InMenu, flowVars, Scenery
  <2> QED BY <1>4, <2>1 DEF Verified
<1>8. CASE UNCHANGED vars
  BY <1>8 DEF vars, flowVars, Config, Saved, Verified, Scenery
<1> QED BY <1>1, <1>2, <1>3, <1>5, <1>6, <1>7, <1>8 DEF Next, User, Program

-----------------------------------------------------------------------------
(* The menu.                                                                  *)

LEMMA MenuStart == Init => MenuFacts
BY DEF Init, MenuInit, MenuFacts

LEMMA MenuKeeps ==
    ASSUME MenuFacts, [Next]_vars
    PROVE  MenuFacts'
<1> USE DEF MenuFacts, Default
<1>1. CASE UNCHANGED menuVars
  BY <1>1 DEF menuVars
<1>2. CASE LeaveMenu \/ EnterMenu(fonts)
  BY <1>2 DEF LeaveMenu, EnterMenu, Menus
<1>3. ASSUME NEW m \in Menus, NEW b \in Buttons(m), Press(b)
      PROVE  MenuFacts'
  <2>1. b \in DOMAIN OpenedBy => OpenedBy[b] \in Menus \ {Default}
    BY DEF OpenedBy, Menus, Below
  <2> QED BY <1>3, <2>1 DEF Press
<1>4. CASE GoBack
  <2>1. Default \notin shown
    BY <1>4 DEF GoBack
  <2>2. Up(VisibleMenu) \in Menus /\ VisibleMenu # Default
    BY <2>1 DEF VisibleMenu, Up, Below, Menus
  <2> QED BY <1>4, <2>2 DEF GoBack
<1> QED BY <1>1, <1>2, <1>3, <1>4, MenuSteps DEF vars

-----------------------------------------------------------------------------
(* The place in the list.                                                     *)

LEMMA CyclesStart == ASSUME Init PROVE Cycles
<1>1. Len(Targets) \in Nat \ {0}
  BY Parameters
<1>2. paths = <<>> /\ current = 0 /\ diag = 1 /\ auto = FALSE /\ next = 1
  BY Zenon DEF Init, CyclerInit
<1>3. paths \in Seq(DOMAIN Scenes \ {None}) /\ Len(paths) = 0
  BY <1>2
<1>4. ~auto /\ auto \in BOOLEAN
  BY <1>2, Zenon
<1>5. current = 0 /\ diag = 1 /\ next = 1
  BY <1>2
<1> QED BY <1>1, <1>3, <1>4, <1>5 DEF Cycles

\* setup starts at an asset of the list.
LEMMA StartInList ==
    ASSUME NEW ps \in Seq(DOMAIN Scenes \ {None}), ps # <<>>
    PROVE  StartIndex(ps) \in 1..Len(ps)
<1>1. CASE StartAsset \in ToSet(ps)
  <2>1. \E i \in DOMAIN ps : ps[i] = StartAsset
    BY <1>1 DEF ToSet
  <2> QED BY <1>1, <2>1 DEF StartIndex
<1>2. CASE StartAsset \notin ToSet(ps)
  BY <1>2 DEF StartIndex
<1> QED BY <1>1, <1>2

LEMMA AfterInTargets == ASSUME NEW t \in 1..Len(Targets)
                        PROVE  After(t) \in 1..Len(Targets)
<1>1. Len(Targets) \in Nat \ {0}
  BY Parameters
<1>2. t % Len(Targets) \in 0..(Len(Targets) - 1)
  BY <1>1
<1> QED BY <1>1, <1>2 DEF After

\* F6 leads to an asset of the list, and stays among the targets.
LEMMA DiagInList ==
    ASSUME paths \in Seq(DOMAIN Scenes \ {None}), diag \in 1..Len(Targets), CycleDiagTarget
    PROVE  /\ diag' \in 1..Len(Targets)
           /\ UNCHANGED <<paths, mode, override, auto, next, tried>>
           /\ \/ UNCHANGED <<current, container, hud, display>>
              \/ current' \in 1..Len(paths) /\ Load(current')
<1>0. Len(Targets) \in Nat \ {0}
  BY Parameters
<1>1. UNCHANGED <<paths, mode, override, auto, next, tried>>
  BY DEF CycleDiagTarget
<1> DEFINE found == {k \in DOMAIN Ahead(diag) : Targets[Ahead(diag)[k]] \in ToSet(paths)}
<1>2. CASE found = {}
  BY <1>1, <1>2 DEF CycleDiagTarget
<1>3. CASE found # {}
  <2>1. found \subseteq 0..(Len(Targets) - 1)
    BY <1>0 DEF Ahead
  <2>2. PICK k \in found : /\ diag' = After(Ahead(diag)[k])
                          /\ current' = PlaceOf(Targets[Ahead(diag)[k]])
                          /\ Load(current')
    BY <1>3 DEF CycleDiagTarget
  <2>3. Ahead(diag)[k] \in 1..Len(Targets) /\ Targets[Ahead(diag)[k]] \in ToSet(paths)
    <3>1. k \in 0..(Len(Targets) - 1) /\ Targets[Ahead(diag)[k]] \in ToSet(paths)
      BY <2>1
    <3>2. (diag - 1 + k) % Len(Targets) \in 0..(Len(Targets) - 1)
      BY <1>0, <3>1
    <3> QED BY <1>0, <3>1, <3>2 DEF Ahead
  <2>4. PlaceOf(Targets[Ahead(diag)[k]]) \in 1..Len(paths)
    BY <2>3 DEF PlaceOf, ToSet
  <2> QED BY <1>1, <2>2, <2>3, <2>4, AfterInTargets
<1> QED BY <1>2, <1>3

LEMMA CyclesKeep ==
    ASSUME Cycles, [Next]_vars
    PROVE  Cycles'
<1> USE Parameters
<1>0. Len(Targets) \in Nat \ {0} /\ Len(paths) \in Nat
  BY DEF Cycles
<1>1. CASE UNCHANGED cyclerVars /\ (scene = "world" => scene' = "world")
  BY <1>1 DEF cyclerVars, Cycles
<1>2. CASE LeaveWorld
  <2>1. paths' = <<>> /\ current' = 0 /\ diag' = 1 /\ next' = 1
    BY <1>2 DEF LeaveWorld
  <2>2. ~auto' /\ auto' \in BOOLEAN
    BY <1>2, Zenon DEF LeaveWorld
  <2> QED BY <1>0, <2>1, <2>2 DEF Cycles
<1>3. ASSUME NEW ps \in Listings, EnterWorld(ps), scene' = "world"
      PROVE  Cycles'
  <2>1. ps \in Seq(DOMAIN Scenes \ {None}) /\ paths' = ps /\ diag' = 1 /\ next' = 1
    BY <1>3 DEF EnterWorld
  <2>2. current' \in 0..Len(ps)
    BY <1>3, <2>1, StartInList DEF EnterWorld
  <2>3. ~auto' /\ auto' \in BOOLEAN
    BY <1>3, Zenon DEF EnterWorld
  <2> QED BY <1>0, <2>1, <2>2, <2>3 DEF Cycles
<1>4. CASE scene = "world" /\ scene' = "world" /\ Key
  <2>1. ASSUME NEW n \in {-1, 1}, Cycle(n)
        PROVE  Cycles'
    <3>1. (current - 1 + n + Len(paths)) % Len(paths) \in 0..(Len(paths) - 1)
      BY <1>0, <2>1 DEF Cycle, Cycles
    <3> QED BY <1>0, <1>4, <2>1, <3>1 DEF Cycle, Cycles
  <2>2. CASE CycleDebugMode \/ ToggleMaterialOverride \/ CycleAnimation
    BY <1>4, <2>2 DEF CycleDebugMode, ToggleMaterialOverride, CycleAnimation, Cycles
  <2>3. CASE ToggleAutoCycle
    <3>1. CASE auto
      <4>1. ~auto' /\ auto' \in BOOLEAN
        BY <2>3, <3>1, Zenon DEF ToggleAutoCycle
      <4>2. UNCHANGED <<paths, current, diag, next>>
        BY <2>3, <3>1 DEF ToggleAutoCycle
      <4> QED BY <1>4, <4>1, <4>2 DEF Cycles
    <3>2. CASE ~auto
      <4>1. UNCHANGED <<paths, current, diag>> /\ next' = 1 /\ tried' = {}
        BY <2>3, <3>2 DEF ToggleAutoCycle, FirstOfCycle
      <4>2. auto' \in BOOLEAN
        BY <2>3, Zenon DEF ToggleAutoCycle
      <4> QED BY <1>0, <1>4, <4>1, <4>2 DEF Cycles
    <3> QED BY <3>1, <3>2
  <2>4. CASE CycleDiagTarget
    BY <1>4, <2>4, DiagInList DEF Cycles
  <2> QED BY <1>4, <2>1, <2>2, <2>3, <2>4 DEF Key
<1>5. CASE scene = "world" /\ scene' = "world" /\ Frame
  <2>1. CASE next > Len(paths)
    <3>1. ~auto' /\ auto' \in BOOLEAN
      BY <1>5, <2>1, Zenon DEF Frame
    <3>2. UNCHANGED <<paths, current, diag, next>>
      BY <1>5, <2>1 DEF Frame
    <3> QED BY <1>5, <3>1, <3>2 DEF Cycles
  <2>2. CASE ~(next > Len(paths))
    <3>1. /\ auto /\ current' = next /\ next' = next + 1 /\ tried' = tried \cup {paths[next]}
          /\ UNCHANGED <<paths, auto, diag>>
      BY <1>5, <2>2 DEF Frame, NextAsset
    <3>2. tried' = {paths[i] : i \in 1..next}
      BY <3>1 DEF Cycles
    <3> QED BY <1>0, <1>5, <2>2, <3>1, <3>2 DEF Cycles
  <2> QED BY <2>1, <2>2
<1> QED BY <1>1, <1>2, <1>3, <1>4, <1>5, WorldSteps DEF vars, flowVars

-----------------------------------------------------------------------------
(* What the viewer shows.                                                     *)

\* The clips of an asset: none, or the one that stands for none and others.
LEMMA ClipsOfAsset ==
    ASSUME NEW a \in DOMAIN Scenes
    PROVE  IF Picked(a) = 0 THEN ClipsOf(a) = <<>>
           ELSE /\ 1 \in DOMAIN Scenes[a].players /\ Picked(a) = 1
                /\ Len(ClipsOf(a)) \in Nat \ {0}
                /\ DOMAIN ClipsOf(a) = 1..Len(ClipsOf(a))
                /\ \A c \in 2..Len(ClipsOf(a)) : ClipsOf(a)[c] # Rest
<1> DEFINE players == Scenes[a].players
<1>1. players \in Seq(ToSet(players))
  BY Parameters
<1>2. CASE players = <<>>
  BY <1>2 DEF Picked, ClipsOf
<1>3. CASE players # <<>>
  <2>1. 1 \in DOMAIN players /\ Picked(a) = 1
    BY <1>1, <1>3 DEF Picked
  <2> DEFINE own == players[1].clips
  <2>2. own \in Seq(ToSet(own) \ {Rest})
    BY <2>1, Parameters
  <2>3. ClipsOf(a) = <<Rest>> \o own
    BY <2>1 DEF ClipsOf
  <2> HIDE DEF own, players
  <2>4. /\ Len(<<Rest>> \o own) = Len(own) + 1 /\ Len(own) \in Nat
        /\ DOMAIN (<<Rest>> \o own) = 1..(Len(own) + 1)
        /\ \A c \in 2..(Len(own) + 1) : (<<Rest>> \o own)[c] # Rest
    BY <2>2
  <2> QED BY <2>1, <2>3, <2>4 DEF players
<1> QED BY <1>2, <1>3

LEMMA ViewerStart == ASSUME Init PROVE Viewer
<1>1. /\ mode = 5 /\ clips = <<>> /\ container = None /\ red = {} /\ playing = <<>>
      /\ view = [meshes |-> {}, overlay |-> {}, grid |-> FALSE]
      /\ hud = [asset |-> None, clip |-> None, mode |-> 5]
  BY DEF Init, CyclerInit, MeshOnly, NoView
<1> QED BY <1>1 DEF Viewer, Modes, Shown, LabelsAgree, ClipPlays, ClipLabel

LEMMA AppliedIs ==
    ASSUME NEW a, NEW m
    PROVE  DOMAIN Applied(a, m) = {"meshes", "overlay", "grid"}
BY DEF Applied

\* A load leaves labels, clips, meshes and players of one asset, or no asset
\* and the labels as they were.
LEMMA LoadShows ==
    ASSUME Viewer, paths \in Seq(DOMAIN Scenes \ {None}), current' \in 1..Len(paths),
           Load(current'), UNCHANGED <<paths, mode, override>>
    PROVE  Viewer'
<1> DEFINE a == paths[current']
<1>1. a \in DOMAIN Scenes /\ a # None /\ current' \in DOMAIN paths
  OBVIOUS
<1>2. CASE container' = None
  <2>1. CASE /\ clips' = clips /\ clip' = clip /\ hud' = hud /\ playing' = <<>> /\ red' = {}
             /\ view' = [view EXCEPT !.meshes = {}, !.overlay = {}]
    <3>1. /\ DOMAIN view' = {"meshes", "overlay", "grid"}
          /\ view'.meshes = {} /\ view'.overlay = {}
      BY <2>1 DEF Viewer
    <3> QED BY <1>2, <2>1, <3>1 DEF Viewer, Shown, LabelsAgree, ClipPlays
  <2>2. CASE container' = a
    BY <1>1, <1>2, <2>2
  <2> QED BY <1>2, <2>1, <2>2 DEF Load
<1>3. CASE container' # None
  <2>1. /\ container' = a /\ clips' = ClipsOf(a) /\ clip' = 1
        /\ playing' = [p \in DOMAIN Scenes[a].players |-> Scenes[a].players[p].plays]
        /\ view' = Applied(a, mode)
        /\ red' = IF override THEN Scenes[a].meshes ELSE {}
        /\ hud' = [hud EXCEPT !.asset = a, !.clip = ClipLabel(ClipsOf(a), 1)]
    BY <1>3 DEF Load, FirstClip, Shows
  <2>2. /\ DOMAIN hud' = DOMAIN hud /\ hud'.mode = mode
        /\ hud'.asset = a /\ hud'.clip = ClipLabel(ClipsOf(a), 1)
    BY <2>1 DEF Viewer, LabelsAgree
  <2>3. clips' = <<>> \/ clip' \in DOMAIN clips'
    BY <1>1, <2>1, ClipsOfAsset
  <2>4. Shown' /\ DOMAIN view' = {"meshes", "overlay", "grid"}
    BY <1>1, <1>3, <2>1, AppliedIs DEF Shown
  <2>5. LabelsAgree'
    BY <1>1, <2>1, <2>2 DEF LabelsAgree
  <2>6. ClipPlays'
    BY <2>1 DEF ClipPlays
  <2> QED BY <2>2, <2>3, <2>4, <2>5, <2>6 DEF Viewer
<1> QED BY <1>2, <1>3

\* What a part of the viewer says stays true as long as what it is about does.
LEMMA ViewerStays ==
    ASSUME Viewer, UNCHANGED <<paths, current, container, mode, override, hud, display>>
    PROVE  Viewer'
BY DEF display, Viewer, Shown, LabelsAgree, ClipPlays

\* P: the next clip, or none.
LEMMA AnimationShows ==
    ASSUME Viewer, paths \in Seq(DOMAIN Scenes \ {None}), CycleAnimation
    PROVE  Viewer'
<1> DEFINE n == Len(clips)
<1>1. /\ container # None /\ container \in DOMAIN Scenes /\ Picked(container) # 0
      /\ clips = ClipsOf(container)
      /\ clip' = (clip % Len(clips)) + 1
      /\ playing' = [playing EXCEPT ![Picked(container)] = Plays(clip')]
      /\ hud' = [hud EXCEPT !.clip = clips[clip']]
      /\ UNCHANGED <<paths, current, container, mode, view, override, red, clips>>
  BY DEF CycleAnimation, Viewer, Shown, LabelsAgree
<1>2. /\ 1 \in DOMAIN playing /\ Picked(container) = 1
      /\ n \in Nat \ {0} /\ DOMAIN clips = 1..n
      /\ \A c \in 2..n : clips[c] # Rest
  BY <1>1, ClipsOfAsset DEF Viewer, Shown
<1>3. clip \in 1..n
  BY <1>2 DEF Viewer
<1>4. clip' \in 1..n
  <2> HIDE DEF n
  <2>1. clip % n \in 0..(n - 1)
    BY <1>2, <1>3
  <2> QED BY <1>1, <1>2, <2>1 DEF n
<1>5. /\ playing'[1] = Plays(clip') /\ DOMAIN playing' = DOMAIN playing
      /\ \A p \in DOMAIN playing \ {1} : playing'[p] = playing[p]
  BY <1>1, <1>2
<1>6. clips[1] = Rest
  BY <1>1, <1>2 DEF ClipsOf
<1>7. Plays(clip') = IF clip' = 1 THEN None ELSE clips[clip']
  BY <1>2, <1>4, <1>6 DEF Plays
<1>8. /\ DOMAIN hud' = DOMAIN hud /\ hud'.mode = hud.mode
      /\ hud'.asset = hud.asset /\ hud'.clip = clips[clip']
  BY <1>1 DEF Viewer
<1>9. Shown'
  BY <1>1, <1>5 DEF Viewer, Shown
<1>10. LabelsAgree'
  <2>1. clips # <<>>
    BY <1>2
  <2> QED BY <1>1, <1>8, <2>1 DEF Viewer, LabelsAgree, ClipLabel
<1>11. ClipPlays'
  <2> SUFFICES ASSUME NEW p \in DOMAIN playing'
               PROVE  LET plays == Scenes[container].players[p].plays IN
                      IF p # 1 THEN playing'[p] = plays
                      ELSE IF clip' = 1 THEN playing'[p] \in {None, plays}
                      ELSE playing'[p] = clips[clip']
    BY <1>1, <1>2 DEF ClipPlays
  <2>1. CASE p # 1
    BY <1>1, <1>2, <1>5, <2>1 DEF Viewer, ClipPlays
  <2>2. CASE p = 1
    BY <1>5, <1>7, <2>2
  <2> QED BY <2>1, <2>2
<1> QED BY <1>1, <1>2, <1>4, <1>8, <1>9, <1>10, <1>11 DEF Viewer

LEMMA ViewerKeeps ==
    ASSUME Viewer, Cycles, [Next]_vars
    PROVE  Viewer'
<1> USE DEF Modes
<1>0. paths \in Seq(DOMAIN Scenes \ {None}) /\ Len(paths) \in Nat
  BY DEF Cycles
<1>1. CASE UNCHANGED cyclerVars
  BY <1>1, ViewerStays DEF cyclerVars
<1>2. CASE LeaveWorld
  <2>1. /\ mode' = 5 /\ clips' = <<>> /\ container' = None /\ red' = {} /\ playing' = <<>>
        /\ view' = [meshes |-> {}, overlay |-> {}, grid |-> FALSE]
        /\ hud' = [asset |-> None, clip |-> None, mode |-> 5]
    BY <1>2 DEF LeaveWorld, MeshOnly, NoView
  <2> QED BY <2>1 DEF Viewer, Shown, LabelsAgree, ClipPlays, ClipLabel
<1>3. ASSUME NEW ps \in Listings, EnterWorld(ps)
      PROVE  Viewer'
  <2>1. ps \in Seq(DOMAIN Scenes \ {None}) /\ paths' = ps /\ mode' = 5 /\ red' = {}
    BY <1>3, Parameters DEF EnterWorld, MeshOnly
  <2> DEFINE Empty == /\ container' = None /\ clips' = <<>> /\ playing' = <<>>
                      /\ view' = [meshes |-> {}, overlay |-> {}, grid |-> FALSE]
                      /\ hud' = [asset |-> None, clip |-> None, mode |-> 5]
  <2>2. CASE Empty
    BY <2>1, <2>2 DEF Viewer, Shown, LabelsAgree, ClipPlays, ClipLabel
  <2>3. CASE ~Empty
    <3> DEFINE a == ps[StartIndex(ps)]
    <3>1. /\ ps # <<>> /\ container' = a /\ current' = StartIndex(ps)
          /\ playing' = [p \in DOMAIN Scenes[a].players |-> Scenes[a].players[p].plays]
          /\ clips' = ClipsOf(a) /\ clip' = 1 /\ ~override' /\ red' = {}
          /\ view' = Applied(a, 5)
          /\ hud' = [asset |-> a, clip |-> ClipLabel(ClipsOf(a), 1), mode |-> 5]
      BY <1>3, <2>3 DEF EnterWorld, MeshOnly, NoView
    <3>2. current' \in DOMAIN ps /\ a \in DOMAIN Scenes \ {None}
      BY <2>1, <3>1, StartInList
    <3>3. clips' = <<>> \/ clip' \in DOMAIN clips'
      BY <3>1, <3>2, ClipsOfAsset
    <3>4. Shown' /\ DOMAIN view' = {"meshes", "overlay", "grid"}
      BY <2>1, <3>1, <3>2, AppliedIs DEF Shown
    <3>5. LabelsAgree' /\ ClipPlays'
      BY <2>1, <3>1, <3>2 DEF LabelsAgree, ClipPlays
    <3> QED BY <2>1, <3>1, <3>3, <3>4, <3>5 DEF Viewer
  <2> QED BY <2>2, <2>3
<1>4. CASE Key
  <2>1. ASSUME NEW n \in {-1, 1}, Cycle(n)
        PROVE  Viewer'
    <3>1. (current - 1 + n + Len(paths)) % Len(paths) \in 0..(Len(paths) - 1)
      BY <1>0, <2>1 DEF Cycle, Cycles
    <3>2. current' \in 1..Len(paths) /\ Load(current') /\ UNCHANGED <<paths, mode, override>>
      BY <1>0, <2>1, <3>1 DEF Cycle
    <3> QED BY <1>0, <3>2, LoadShows
  <2>2. CASE CycleDebugMode
    <3>1. /\ mode' = (mode + 1) % 8 /\ hud' = [hud EXCEPT !.mode = mode']
          /\ view' = IF container = None THEN view ELSE Applied(container, mode')
          /\ UNCHANGED <<paths, current, container, override, red, clips, clip, playing>>
      BY <2>2 DEF CycleDebugMode
    <3>2. mode' \in 0..7
      BY <3>1 DEF Viewer
    <3>3. /\ DOMAIN hud' = DOMAIN hud /\ hud'.mode = mode'
          /\ hud'.asset = hud.asset /\ hud'.clip = hud.clip
      BY <3>1 DEF Viewer
    <3>4. Shown' /\ DOMAIN view' = {"meshes", "overlay", "grid"}
      BY <3>1, AppliedIs DEF Viewer, Shown
    <3> QED BY <3>1, <3>2, <3>3, <3>4 DEF Viewer, LabelsAgree, ClipPlays
  <2>3. CASE ToggleMaterialOverride
    <3>1. /\ UNCHANGED <<paths, current, container, mode, view, clips, clip, playing, hud>>
          /\ red' = IF container # None /\ override' THEN Scenes[container].meshes ELSE {}
      BY <2>3 DEF ToggleMaterialOverride
    <3> QED BY <3>1 DEF Viewer, Shown, LabelsAgree, ClipPlays
  <2>4. CASE CycleAnimation
    BY <1>0, <2>4, AnimationShows
  <2>5. CASE ToggleAutoCycle
    BY <2>5, ViewerStays DEF ToggleAutoCycle
  <2>6. CASE CycleDiagTarget
    <3>1. CASE UNCHANGED <<paths, mode, override, current, container, hud, display>>
      BY <3>1, ViewerStays
    <3> QED BY <1>0, <2>6, <3>1, DiagInList, LoadShows DEF Cycles
  <2> QED BY <1>4, <2>1, <2>2, <2>3, <2>4, <2>5, <2>6 DEF Key
<1>5. CASE Frame
  <2>1. CASE next > Len(paths)
    BY <1>5, <2>1, ViewerStays DEF Frame
  <2>2. CASE ~(next > Len(paths))
    <3>1. current' \in 1..Len(paths) /\ Load(current') /\ UNCHANGED <<paths, mode, override>>
      BY <1>0, <1>5, <2>2 DEF Frame, Cycles
    <3> QED BY <1>0, <3>1, LoadShows
  <2> QED BY <2>1, <2>2
<1> QED BY <1>1, <1>2, <1>3, <1>4, <1>5, WorldSteps DEF vars

-----------------------------------------------------------------------------
(* The bytes of an archive, and what the loader makes of them.               *)

\* A byte of the archive, and the bytes from a position on.
LEMMA ByteIs ==
    ASSUME fpk.bytes \in Seq(Octet), NEW p \in Nat
    PROVE  /\ Byte(p) \in Octet
           /\ Byte(p) > 0 => p < Len(fpk.bytes)
           /\ p < Len(fpk.bytes) => Byte(p) = fpk.bytes[p + 1]
<1> DEFINE s == fpk.bytes
<1>0. s \in Seq(Octet)
  OBVIOUS
<1> HIDE DEF s
<1> DEFINE L == Len(s)
<1>1. L \in Nat /\ \A i \in 1..L : s[i] \in Octet
  BY <1>0
<1>2. p < L => p + 1 \in 1..L
  BY <1>1
<1>3. Byte(p) = IF p < L THEN s[p + 1] ELSE 0
  BY DEF Byte, s
<1>4. 0 \in Octet
  BY DEF Octet
<1>5. Byte(p) \in Octet
  BY <1>1, <1>2, <1>3, <1>4
<1> QED BY <1>3, <1>5 DEF s

LEMMA MinIs == ASSUME NEW a \in Nat, NEW b \in Nat
               PROVE  Min({a, b}) = IF a <= b THEN a ELSE b
<1> DEFINE m == IF a <= b THEN a ELSE b
<1>1. m \in {a, b} /\ \A y \in {a, b} : m =< y
  OBVIOUS
<1>2. \A x \in {a, b} : (\A y \in {a, b} : x =< y) => x = m
  OBVIOUS
<1> QED BY <1>1, <1>2 DEF Min

LEMMA BytesAre ==
    ASSUME fpk.bytes \in Seq(Octet), NEW p \in Nat, NEW n \in Nat
    PROVE  /\ Bytes(p, n) \in Seq(Octet)
           /\ Len(Bytes(p, n)) = IF p >= Len(fpk.bytes) THEN 0
                                 ELSE IF n <= Len(fpk.bytes) - p THEN n ELSE Len(fpk.bytes) - p
           /\ \A i \in 1..Len(Bytes(p, n)) : Bytes(p, n)[i] = Byte(p + i - 1)
<1> DEFINE s == fpk.bytes
<1>0. s \in Seq(Octet)
  OBVIOUS
<1> HIDE DEF s
<1> DEFINE L == Len(s)
<1>1. L \in Nat /\ s \in Seq(Octet)
  BY <1>0
<1>2. CASE p >= L
  BY <1>1, <1>2 DEF Bytes, s
<1>3. CASE ~(p >= L)
  <2> DEFINE m == IF n <= L - p THEN n ELSE L - p
             w == SubSeq(s, p + 1, p + m)
  <2>1. L - p \in Nat /\ m \in Nat /\ p + m <= L
    BY <1>1, <1>3
  <2>2. Bytes(p, n) = w
    <3>1. Min({n, L - p}) = m
      BY <2>1, MinIs
    <3> QED BY <1>3, <3>1 DEF Bytes, s
  <2> HIDE DEF m
  <2>3. w \in Seq(Octet) /\ Len(w) = m /\ \A i \in 1..m : w[i] = s[p + i]
    <3>1. \A i \in (p + 1)..(p + m) : s[i] \in Octet
      BY <1>1, <2>1
    <3> QED BY <1>1, <2>1, <3>1
  <2>4. \A i \in 1..m : Byte(p + i - 1) = s[p + i]
    <3> SUFFICES ASSUME NEW i \in 1..m PROVE Byte(p + i - 1) = s[p + i]
      OBVIOUS
    <3>1. p + i - 1 \in Nat /\ p + i - 1 < L /\ p + i - 1 + 1 = p + i
      BY <1>1, <2>1
    <3> QED BY <3>1, ByteIs DEF s
  <2> QED BY <1>3, <2>2, <2>3, <2>4 DEF m, s
<1> QED BY <1>2, <1>3

\* A marker in a window is three bytes of the archive.
Stands(x, mark) == \A i \in 1..3 : Byte(x + i - 1) = mark[i]
LEMMA MarkAt ==
    ASSUME fpk.bytes \in Seq(Octet), NEW p \in Nat, NEW mark \in {Bsu, EndOfList}, NEW j
    PROVE  j \in Marks(Bytes(p, Window), mark) <=>
              j \in 0..27 /\ p + j + 2 < Len(fpk.bytes) /\ Stands(p + j, mark)
<1> DEFINE w == Bytes(p, Window)
           L == Len(fpk.bytes)
<1>1. /\ w \in Seq(Octet) /\ \A i \in 1..Len(w) : w[i] = Byte(p + i - 1)
      /\ Len(w) = IF p >= L THEN 0 ELSE IF 30 <= L - p THEN 30 ELSE L - p
      /\ L \in Nat
  <2>1. Window \in Nat /\ Window = 30 /\ L \in Nat
    <3> DEFINE s == fpk.bytes
    <3>1. s \in Seq(Octet)
      OBVIOUS
    <3> HIDE DEF s
    <3>2. Len(s) \in Nat
      BY <3>1
    <3> QED BY <3>2 DEF s, Window
  <2>2. w \in Seq(Octet) /\ \A i \in 1..Len(w) : w[i] = Byte(p + i - 1)
    BY <2>1, BytesAre
  <2>3. Len(w) = IF p >= L THEN 0 ELSE IF Window <= L - p THEN Window ELSE L - p
    BY <2>1, BytesAre
  <2> HIDE DEF w, L
  <2> QED BY <2>1, <2>2, <2>3
<1>2. mark \in Seq(Nat) /\ Len(mark) = 3
  <2>1. Bsu \in Seq(Nat) /\ Len(Bsu) = 3
    BY DEF Bsu
  <2>2. EndOfList \in Seq(Nat) /\ Len(EndOfList) = 3
    BY DEF EndOfList
  <2> QED BY <2>1, <2>2
<1> HIDE DEF w, L
<1>3. j \in 0..(Len(w) - 3) <=> j \in 0..27 /\ p + j + 2 < L
  <2> DEFINE l == Len(w)
  <2>1. l = IF p >= L THEN 0 ELSE IF 30 <= L - p THEN 30 ELSE L - p
    BY <1>1
  <2> HIDE DEF l
  <2>3. L \in Nat /\ p \in Nat
    BY <1>1
  <2>4. l \in Int /\ l <= 30 /\ (l <= L - p \/ l = 0) /\ (l = 30 \/ l = 0 \/ l = L - p)
    BY <2>1, <2>3
  <2>5. ASSUME j \in 0..(l - 3) PROVE j \in 0..27 /\ p + j + 2 < L
    <3>1. j \in Int /\ 0 <= j /\ j <= l - 3
      BY <2>4, <2>5
    <3> QED BY <2>3, <2>4, <3>1
  <2>6. ASSUME j \in 0..27, p + j + 2 < L PROVE j \in 0..(l - 3)
    <3>1. j \in Int /\ 0 <= j /\ j <= 27 /\ ~(p >= L)
      BY <2>3, <2>6
    <3>2. j <= l - 3
      BY <2>1, <2>3, <2>6, <3>1
    <3> QED BY <2>4, <3>1, <3>2
  <2>2. j \in 0..(l - 3) <=> j \in 0..27 /\ p + j + 2 < L
    BY <2>5, <2>6
  <2> QED BY <2>2 DEF l
<1>4. ASSUME j \in 0..(Len(w) - 3)
      PROVE  SubSeq(w, j + 1, j + 3) = mark <=> Stands(p + j, mark)
  <2> DEFINE s == SubSeq(w, j + 1, j + 3)
  <2>1. Len(w) \in Nat /\ j \in Nat /\ j + 3 <= Len(w)
    BY <1>1, <1>4
  <2>2. s \in Seq(Octet) /\ Len(s) = 3 /\ \A i \in 1..3 : s[i] = w[j + i]
    <3>1. \A i \in (j + 1)..(j + 3) : i \in 1..Len(w)
      BY <2>1
    <3>6. w \in Seq(Octet)
      BY <1>1
    <3>7. \A i \in 1..Len(w) : w[i] \in Octet
      BY <3>6
    <3>2. w \in Seq(Octet) /\ \A i \in (j + 1)..(j + 3) : w[i] \in Octet
      BY <3>1, <3>6, <3>7
    <3>3. s \in Seq(Octet)
      BY <2>1, <3>2
    <3>4. Len(s) = 3
      BY <2>1, <3>2
    <3>5. \A i \in 1..3 : s[i] = w[j + i]
      BY <2>1, <3>2
    <3> QED BY <3>3, <3>4, <3>5
  <2>3. \A i \in 1..3 : s[i] = Byte(p + j + i - 1)
    <3> SUFFICES ASSUME NEW i \in 1..3 PROVE s[i] = Byte(p + j + i - 1)
      OBVIOUS
    <3>1. j + i \in 1..Len(w) /\ p + (j + i) - 1 = p + j + i - 1
      BY <2>1
    <3> QED BY <1>1, <2>2, <3>1
  <2> HIDE DEF s
  <2>4. s = mark <=> \A i \in 1..3 : s[i] = mark[i]
    <3>2. s = [i \in 1..3 |-> s[i]]
      BY <2>2
    <3>1. mark = [i \in 1..3 |-> mark[i]]
      BY <1>2
    <3> QED BY <3>1, <3>2
  <2> QED BY <2>3, <2>4 DEF s, Stands
<1> QED BY <1>3, <1>4 DEF Marks, w, L

\* The entries of an archive.
LEMMA Listing ==
    ASSUME Packed
    PROVE  /\ Len(fpk.entries) \in Nat /\ DOMAIN fpk.entries = 1..Len(fpk.entries)
           /\ fpk.bytes \in Seq(Octet) /\ Len(fpk.bytes) \in Nat
<1> DEFINE s == fpk.entries
           R == Range(s)
           b == fpk.bytes
<1>1. s \in Seq(R) /\ b \in Seq(Octet)
  BY DEF Packed
<1> HIDE DEF s, R, b
<1>2. Len(s) \in Nat /\ DOMAIN s = 1..Len(s) /\ Len(b) \in Nat
  BY <1>1
<1> QED BY <1>1, <1>2 DEF s, b

\* The layout of the k-th entry, and what is read there.
LEMMA EntryIs ==
    ASSUME Packed, NEW k \in DOMAIN fpk.entries
    PROVE  /\ PathAt(k) \in Nat /\ PathEnd(k) \in Nat /\ PathAt(k) <= PathEnd(k)
           /\ PathAt(k) = fpk.entries[k].at + 4 /\ fpk.entries[k].at \in Nat
           /\ PathEnd(k) = PathAt(k) + Len(fpk.entries[k].name) /\ Len(fpk.entries[k].name) \in Nat
           /\ PathAt(k + 1) \in Nat /\ PathAt(k + 1) >= PathEnd(k) + 12
           /\ fpk.entries[k].name \in Seq(Octet)
<1>1. Len(fpk.entries) \in Nat /\ k \in 1..Len(fpk.entries)
  BY Listing
<1>2. ~(k > Len(fpk.entries))
  BY <1>1
<1>3. fpk.entries[k].at \in Nat /\ fpk.entries[k].name \in Seq(Octet)
      /\ PathAt(k + 1) \in Nat /\ PathAt(k + 1) >= PathEnd(k) + 12
  BY DEF Packed
<1>4. PathAt(k) = fpk.entries[k].at + 4
  BY <1>2 DEF PathAt
<1>5. Len(fpk.entries[k].name) \in Nat
  BY <1>3
<1>6. PathEnd(k) = PathAt(k) + Len(fpk.entries[k].name)
  BY DEF PathEnd
<1>7. PathAt(k) \in Nat /\ PathEnd(k) \in Nat /\ PathAt(k) <= PathEnd(k)
  <2> DEFINE e == fpk.entries[k].at
             l == Len(fpk.entries[k].name)
  <2>1. e \in Nat /\ l \in Nat /\ PathAt(k) = e + 4 /\ PathEnd(k) = PathAt(k) + l
    BY <1>3, <1>4, <1>5, <1>6
  <2> HIDE DEF e, l
  <2> QED BY <2>1
<1> QED BY <1>3, <1>4, <1>5, <1>6, <1>7

\* The greatest number of a finite set, for a set of offsets in the window.
LEMMA MaxIs ==
    ASSUME NEW S \in SUBSET (0..27), NEW x \in S, \A y \in S : y <= x
    PROVE  Max(S) = x
<1>1. \A y \in S : x >= y
  OBVIOUS
<1>2. \A z \in S : (\A y \in S : z >= y) => z = x
  OBVIOUS
<1> QED BY <1>1, <1>2 DEF Max

LEMMA MaxExists ==
    ASSUME NEW S \in SUBSET (0..27), NEW x \in S
    PROVE  Max(S) \in S /\ \A y \in S : y <= Max(S)
<1>1. S \in SUBSET Nat /\ IsFiniteSet(S)
  <2> DEFINE b == 27
  <2>1. b \in Int /\ 0 \in Int
    OBVIOUS
  <2>2. S \in SUBSET (0..b) /\ S \in SUBSET Nat
    OBVIOUS
  <2> HIDE DEF b
  <2>3. IsFiniteSet(0..b)
    BY <2>1, FS_Interval
  <2> QED BY <2>2, <2>3, FS_Subset
<1>2. PICK m \in S : \A y \in S : y <= m
  BY <1>1, Greatest
<1> QED BY <1>2, MaxIs

\* What the search finds behind the k-th path.
Hit(k) == FoundIdx(Bytes(PathEnd(k), Window))
AllMarks(p) == Marks(Bytes(p, Window), Bsu) \cup Marks(Bytes(p, Window), EndOfList)

LEMMA HitIs ==
    ASSUME Packed, NEW k \in DOMAIN fpk.entries, NEW x \in AllMarks(PathEnd(k))
    PROVE  \E j \in AllMarks(PathEnd(k)) :
              /\ j >= x
              /\ j \in 0..27 /\ PathEnd(k) + j + 2 < Len(fpk.bytes)
              /\ \/ Hit(k) = j /\ Stands(PathEnd(k) + j, Bsu)
                 \/ Hit(k) = j + 4 /\ Stands(PathEnd(k) + j, EndOfList)
                    /\ ~Stands(PathEnd(k) + j, Bsu)
<1> DEFINE p == PathEnd(k)
           b == Marks(Bytes(p, Window), Bsu)
           e == Marks(Bytes(p, Window), EndOfList)
           j == Max(b \cup e)
<1>1. p \in Nat /\ fpk.bytes \in Seq(Octet)
  BY EntryIs, Listing
<1> HIDE DEF p
<1>2. \A i : i \in b <=> i \in 0..27 /\ p + i + 2 < Len(fpk.bytes) /\ Stands(p + i, Bsu)
  BY <1>1, MarkAt
<1>3. \A i : i \in e <=> i \in 0..27 /\ p + i + 2 < Len(fpk.bytes) /\ Stands(p + i, EndOfList)
  BY <1>1, MarkAt
<1>4. x \in b \cup e
  BY DEF AllMarks, p
<1>5. Hit(k) = IF j \in b THEN j ELSE Max(e) + 4
  BY <1>4 DEF Hit, FoundIdx, p
<1> HIDE DEF b, e
<1>6. b \cup e \in SUBSET (0..27)
  BY <1>2, <1>3
<1>7. j \in b \cup e /\ \A y \in b \cup e : y <= j
  BY <1>4, <1>6, MaxExists
<1>8. j >= x /\ j \in AllMarks(PathEnd(k))
  BY <1>4, <1>6, <1>7 DEF AllMarks, p, b, e
<1>9. ASSUME j \notin b PROVE Max(e) = j
  <2>1. j \in e /\ e \in SUBSET (0..27) /\ \A y \in e : y <= j
    BY <1>6, <1>7, <1>9
  <2> HIDE DEF j
  <2> QED BY <2>1, MaxIs
<1> HIDE DEF j
<1>10. CASE j \in b
  <2>1. Hit(k) = j /\ Stands(p + j, Bsu) /\ j \in 0..27 /\ p + j + 2 < Len(fpk.bytes)
    BY <1>2, <1>5, <1>10
  <2> QED BY <1>8, <2>1 DEF p
<1>11. CASE j \notin b
  <2>1. Hit(k) = j + 4 /\ j \in e
    BY <1>5, <1>7, <1>9, <1>11
  <2>2. Stands(p + j, EndOfList) /\ j \in 0..27 /\ p + j + 2 < Len(fpk.bytes)
    BY <1>3, <2>1
  <2>3. ~Stands(p + j, Bsu)
    BY <1>2, <1>11, <2>2
  <2> QED BY <1>8, <2>1, <2>2, <2>3 DEF p
<1> QED BY <1>10, <1>11

\* Between two entries the search finds the next path, or text behind it.
LEMMA FoundBefore ==
    ASSUME Regular, NEW k \in 1..(Len(fpk.entries) - 1)
    PROVE  /\ Hit(k) \in Nat /\ Hit(k) >= 12
           /\ \/ PathEnd(k) + Hit(k) = PathAt(k + 1)
              \/ ~Plain /\ Byte(PathEnd(k) + Hit(k) - 1) >= 32
<1> DEFINE n == Len(fpk.entries)
           p == PathEnd(k)
           f == PathAt(k + 1)
           L == Len(fpk.bytes)
<1>1. Packed /\ n \in Nat /\ DOMAIN fpk.entries = 1..n /\ fpk.bytes \in Seq(Octet) /\ L \in Nat
  BY Listing DEF Regular
<1>2. k \in DOMAIN fpk.entries /\ k + 1 \in DOMAIN fpk.entries /\ k < n
  BY <1>1
<1>3. p \in Nat /\ f \in Nat /\ f >= p + 12
  BY <1>1, <1>2, EntryIs
<1>4. f + 3 <= p + 30 /\ Bytes(f, 3) = Bsu
  BY <1>1, <1>2 DEF Packed, Window
<1>5. \A i \in f..(PathEnd(k + 1) - 1) : Byte(i) >= 32
  BY <1>1, <1>2 DEF Packed
<1>6. PathEnd(k + 1) = f + Len(fpk.entries[k + 1].name) /\ Len(fpk.entries[k + 1].name) \in Nat
  BY <1>1, <1>2, EntryIs
<1>7. Stands(f, Bsu) /\ f + 2 < L
  <2>1. Len(Bytes(f, 3)) = 3 /\ Len(Bytes(f, 3)) = IF f >= L THEN 0 ELSE IF 3 <= L - f THEN 3 ELSE L - f
    <3>1. Len(Bsu) = 3
      BY DEF Bsu
    <3>2. 3 \in Nat
      OBVIOUS
    <3> QED BY <1>1, <1>3, <1>4, <3>1, <3>2, BytesAre
  <2>4. \A i \in 1..Len(Bytes(f, 3)) : Bytes(f, 3)[i] = Byte(f + i - 1)
    <3>1. 3 \in Nat
      OBVIOUS
    <3> QED BY <1>1, <1>3, <3>1, BytesAre
  <2>2. \A i \in 1..3 : Bsu[i] = Byte(f + i - 1)
    BY <1>4, <2>1, <2>4
  <2>3. f + 2 < L
    <3> DEFINE l == Len(Bytes(f, 3))
    <3>1. f \in Nat /\ L \in Nat /\ l = 3
          /\ l = IF f >= L THEN 0 ELSE IF 3 <= L - f THEN 3 ELSE L - f
      BY <1>1, <1>3, <2>1
    <3> HIDE DEF f, L, l
    <3>2. ~(f >= L)
      BY <3>1
    <3>3. L - f >= 3
      BY <3>1, <3>2
    <3> QED BY <3>1, <3>3
  <2> QED BY <2>2, <2>3 DEF Stands
<1> HIDE DEF n, p, f, L
<1>8. f - p \in AllMarks(p)
  <2>1. f - p \in 0..27 /\ p + (f - p) = f /\ p + (f - p) + 2 < L
    BY <1>1, <1>3, <1>4, <1>7
  <2> QED BY <1>1, <1>3, <1>7, <2>1, MarkAt DEF AllMarks, L
<1>9. PICK j \in AllMarks(p) :
         /\ j >= f - p
         /\ j \in 0..27 /\ p + j + 2 < L
         /\ \/ Hit(k) = j /\ Stands(p + j, Bsu)
            \/ Hit(k) = j + 4 /\ Stands(p + j, EndOfList) /\ ~Stands(p + j, Bsu)
  BY <1>1, <1>2, <1>8, HitIs DEF p, L
<1>10. CASE j = f - p
  <2>1. p + j = f
    BY <1>3, <1>10
  <2>2. Hit(k) = j
    BY <1>7, <1>9, <2>1
  <2>3. Hit(k) \in Nat /\ Hit(k) >= 12 /\ p + Hit(k) = f
    BY <1>3, <1>10, <2>2
  <2> QED BY <2>3 DEF p, f
<1>11. CASE j # f - p
  <2> DEFINE m == p + j - f
  <2>1. m \in Nat /\ m > 0 /\ f + m = p + j
    BY <1>3, <1>9, <1>11
  <2>2. m \in Late(k)
    BY <1>9 DEF Late, AllMarks, p, f
  <2> HIDE DEF m
  <2>3. ~Plain
    BY <2>1, <2>2 DEF Plain
  <2>4. m + 3 <= Len(fpk.entries[k + 1].name)
    BY <2>1, <2>2 DEF Regular
  <2>5. /\ f + m - 1 \in f..(PathEnd(k + 1) - 1)
        /\ f + m \in f..(PathEnd(k + 1) - 1)
    BY <1>3, <1>6, <2>1, <2>4
  <2>6. Byte(f + m - 1) >= 32 /\ Byte(f + m) >= 32
    BY <1>5, <2>5 DEF f
  <2>7. ~Stands(p + j, EndOfList)
    <3>1. EndOfList[1] = 3 /\ 1 \in 1..3 /\ f + m + 1 - 1 = f + m
      BY <1>3, <2>1 DEF EndOfList
    <3> QED BY <2>1, <2>6, <3>1 DEF Stands
  <2>8. Hit(k) = j
    BY <1>9, <2>7
  <2>9. Hit(k) \in Nat /\ Hit(k) >= 12 /\ p + Hit(k) - 1 = f + m - 1
    BY <1>3, <1>9, <2>1, <2>8
  <2> QED BY <2>3, <2>6, <2>9 DEF p
<1> QED BY <1>10, <1>11

\* Behind the last entry it finds the end of the list, unless the first file
\* begins with what looks like a marker.
LEMMA FoundLast ==
    ASSUME Packed, NEW k \in DOMAIN fpk.entries, k = Len(fpk.entries)
    PROVE  /\ Hit(k) \in Nat /\ Hit(k) >= 12
           /\ PathEnd(k) + Hit(k) = PathAt(k + 1) \/ AllMarks(fpk.first) # {}
<1> DEFINE p == PathEnd(k)
           f == PathAt(k + 1)
           L == Len(fpk.bytes)
           t == EndOfList \o <<0>>
<1>1. fpk.bytes \in Seq(Octet) /\ L \in Nat
  BY Listing
<1>2. p \in Nat /\ f \in Nat /\ f >= p + 12
  BY EntryIs
<1>3. f - 1 <= p + 30 /\ Bytes(f - 4, 4) = t
  <2>1. ~(k < Len(fpk.entries))
    <3>1. Len(fpk.entries) \in Nat
      BY Listing
    <3> QED BY <3>1
  <2>2. f - 1 <= p + Window /\ Bytes(f - 4, 4) = t
    BY <2>1 DEF Packed
  <2> QED BY <2>2 DEF Window
<1>4. f = fpk.first
  <2>1. Len(fpk.entries) \in Nat
    BY Listing
  <2>2. k + 1 > Len(fpk.entries)
    BY <2>1
  <2> QED BY <2>2 DEF PathAt
<1>5. Len(t) = 4 /\ t[1] = 3 /\ t[2] = 0 /\ t[3] = 0 /\ t[4] = 0
  BY DEF EndOfList
<1>6. f - 4 \in Nat /\ 4 \in Nat
  BY <1>2
<1>7. /\ Len(Bytes(f - 4, 4)) = 4
      /\ Len(Bytes(f - 4, 4)) = IF f - 4 >= L THEN 0 ELSE IF 4 <= L - (f - 4) THEN 4 ELSE L - (f - 4)
  BY <1>1, <1>3, <1>5, <1>6, BytesAre
<1>8. \A i \in 1..4 : t[i] = Byte(f - 4 + i - 1)
  <2>1. \A i \in 1..Len(Bytes(f - 4, 4)) : Bytes(f - 4, 4)[i] = Byte(f - 4 + i - 1)
    BY <1>1, <1>6, BytesAre
  <2> QED BY <1>3, <1>7, <2>1
<1> HIDE DEF p, f, L, t
<1>9. f <= L
  <2> DEFINE l == Len(Bytes(f - 4, 4))
  <2>1. l = 4 /\ l = IF f - 4 >= L THEN 0 ELSE IF 4 <= L - (f - 4) THEN 4 ELSE L - (f - 4)
    BY <1>7
  <2> HIDE DEF l
  <2> QED BY <1>1, <1>2, <2>1
<1>10. Byte(f - 4) = 3 /\ Byte(f - 3) = 0 /\ Byte(f - 2) = 0 /\ Byte(f - 1) = 0
  <2>1. /\ f - 4 + 1 - 1 = f - 4 /\ f - 4 + 2 - 1 = f - 3
        /\ f - 4 + 3 - 1 = f - 2 /\ f - 4 + 4 - 1 = f - 1
    BY <1>2
  <2>2. 1 \in 1..4 /\ 2 \in 1..4 /\ 3 \in 1..4 /\ 4 \in 1..4
    OBVIOUS
  <2> QED BY <1>5, <1>8, <2>1, <2>2
<1>11. Stands(f - 4, EndOfList)
  <2>1. \A i \in 1..3 : EndOfList[i] = t[i]
    BY DEF EndOfList, t
  <2> QED BY <1>8, <2>1 DEF Stands
<1>12. f - 4 - p \in AllMarks(p)
  <2>1. f - 4 - p \in 0..27 /\ p + (f - 4 - p) = f - 4 /\ p + (f - 4 - p) + 2 < L
    BY <1>1, <1>2, <1>3, <1>9
  <2> QED BY <1>1, <1>2, <1>11, <2>1, MarkAt DEF AllMarks, L
<1>13. PICK j \in AllMarks(p) :
         /\ j >= f - 4 - p
         /\ j \in 0..27 /\ p + j + 2 < L
         /\ \/ Hit(k) = j /\ Stands(p + j, Bsu)
            \/ Hit(k) = j + 4 /\ Stands(p + j, EndOfList) /\ ~Stands(p + j, Bsu)
  BY <1>12, HitIs DEF p, L
<1>14. /\ Stands(p + j, Bsu) => Byte(p + j) = 98
       /\ Stands(p + j, EndOfList) => Byte(p + j) = 3
  <2>1. p + j + 1 - 1 = p + j /\ 1 \in 1..3 /\ Bsu[1] = 98 /\ EndOfList[1] = 3
    BY <1>2, <1>13 DEF Bsu, EndOfList
  <2> QED BY <2>1 DEF Stands
<1>15. CASE j = f - 4 - p
  <2>1. p + j = f - 4
    BY <1>2, <1>15
  <2>2. Hit(k) = j + 4
    BY <1>10, <1>13, <1>14, <2>1
  <2>3. Hit(k) \in Nat /\ Hit(k) >= 12 /\ p + Hit(k) = f
    BY <1>2, <1>15, <2>2
  <2> QED BY <2>3 DEF p, f
<1>16. CASE j # f - 4 - p
  <2>1. p + j # f - 3 /\ p + j # f - 2 /\ p + j # f - 1
    BY <1>10, <1>13, <1>14
  <2> DEFINE m == p + j - f
  <2>2. m \in 0..27 /\ f + m = p + j
    BY <1>2, <1>13, <1>16, <2>1
  <2>3. f + m + 2 < L
    BY <1>13, <2>2
  <2> HIDE DEF m
  <2>4. m \in AllMarks(f)
    <3>1. Stands(f + m, Bsu) \/ Stands(f + m, EndOfList)
      BY <1>13, <2>2
    <3>2. f + m + 2 < Len(fpk.bytes)
      BY <2>3 DEF L
    <3>3. m \in Marks(Bytes(f, Window), Bsu) \/ m \in Marks(Bytes(f, Window), EndOfList)
      BY <1>1, <1>2, <2>2, <3>1, <3>2, MarkAt
    <3> QED BY <3>3 DEF AllMarks
  <2>5. Hit(k) \in Nat /\ Hit(k) >= 12
    BY <1>2, <1>13, <2>2
  <2> QED BY <1>4, <2>4, <2>5
<1> QED BY <1>15, <1>16

-----------------------------------------------------------------------------
(* Reading an archive: in its list, or astray with a length no file has.     *)

AtEntry(k) ==
    \/ path = NoPath /\ pos = fpk.entries[k].at
    \/ /\ path = fpk.entries[k].name /\ path # NoPath
       /\ pos = PathEnd(k) /\ preview = Bytes(PathEnd(k), Window)
OnList ==
    /\ entry \in 0..Len(fpk.entries)
    /\ IsFiniteSet(DOMAIN filelist) /\ Cardinality(DOMAIN filelist) = entry
    /\ DOMAIN filelist = {fpk.entries[k].name : k \in 1..entry}
    /\ \A k \in 1..entry : k < Len(fpk.entries) \/ AllMarks(fpk.first) = {} =>
          filelist[fpk.entries[k].name] = fpk.entries[k].data
    /\ IF entry < Len(fpk.entries) THEN AtEntry(entry + 1) ELSE path = NoPath
Astray ==
    /\ entry \in Nat /\ entry < Len(fpk.entries) /\ ~Plain
    /\ IsFiniteSet(DOMAIN filelist) /\ Cardinality(DOMAIN filelist) <= entry
    /\ IF path = NoPath THEN pos \in Nat /\ Get32(pos) >= TextWord ELSE preview = <<>>
Reading == fpk.magic /\ Regular => OnList \/ Astray

\* A step reads on, opens an archive or closes it, or does something else.
LEMMA ArchiveSteps ==
    ASSUME Next
    PROVE  UNCHANGED fpkVars \/ (\E a : Opened(a)) \/ ReadPath \/ ReadData
<1>1. CASE User
  BY <1>1 DEF User, CancelDialog, SelectFile, PressButton, Back, PlayNow, ExitGame, InMenu, InWorld,
        Start, Close, OnlyFlow, CloseArchive
<1>2. CASE Program
  BY <1>2 DEF Program, SplashOver, VerifyStored, QuitEnds, SaveValue, ProceedToInit, LoadFonts,
        OpenNextArchive, ReadArchive, ArchiveRead, SpawnHost, ProceedToMenu, InWorld, OnlyFlow,
        CloseArchive, OpenArchive
<1>3. CASE CallReturns \/ CallBlocks
  BY <1>3 DEF CallReturns, CallBlocks, OnlyFlow
<1> QED BY <1>1, <1>2, <1>3 DEF Next

\* What is known of an archive is known until another one is opened.
LEMMA SameArchive ==
    ASSUME UNCHANGED fpk
    PROVE  /\ Regular' <=> Regular
           /\ Plain' <=> Plain
BY DEF Regular, Plain, Packed, Late, PathAt, PathEnd, Bytes, Get32, Byte

\* The first four bytes at a position.
LEMMA Get32Is ==
    ASSUME fpk.bytes \in Seq(Octet), NEW p \in Nat
    PROVE  /\ Get32(p) \in Nat
           /\ Byte(p + 3) >= 32 => Get32(p) >= TextWord
<1>1. /\ Byte(p) \in Nat /\ Byte(p + 1) \in Nat /\ Byte(p + 2) \in Nat /\ Byte(p + 3) \in Nat
  <2>1. p + 1 \in Nat /\ p + 2 \in Nat /\ p + 3 \in Nat
    OBVIOUS
  <2>2. Octet \subseteq Nat
    BY DEF Octet
  <2> QED BY <2>1, <2>2, ByteIs
<1> DEFINE b == Byte(p)
           c == Byte(p + 1)
           d == Byte(p + 2)
           e == Byte(p + 3)
<1>2. Get32(p) = b + 256 * c + 65536 * d + 16777216 * e
  BY SMT DEF Get32
<1>3. b \in Nat /\ c \in Nat /\ d \in Nat /\ e \in Nat
  BY <1>1
<1> HIDE DEF b, c, d, e
<1>4. Get32(p) \in Nat /\ (e >= 32 => Get32(p) >= 32 * 16777216)
  BY <1>2, <1>3, SMT
<1> QED BY <1>4, SMT DEF TextWord, e

LEMMA OpenStep ==
    ASSUME NEW a, Opened(a), Regular'
    PROVE  OnList'
<1>1. /\ entry' = 0 /\ pos' = 0 /\ path' = NoPath /\ filelist' = <<>>
  BY DEF Opened, NoFiles
<1>2. DOMAIN filelist' = {}
  BY <1>1
<1>3. IsFiniteSet(DOMAIN filelist') /\ Cardinality(DOMAIN filelist') = 0
  BY <1>2, FS_EmptySet
<1>4. Packed'
  BY DEF Regular
<1>5. Len(fpk'.entries) \in Nat /\ DOMAIN fpk'.entries = 1..Len(fpk'.entries)
  <2> DEFINE s == fpk'.entries
             R == Range(s)
  <2>1. s \in Seq(R)
    BY <1>4 DEF Packed
  <2> HIDE DEF s, R
  <2>2. Len(s) \in Nat /\ DOMAIN s = 1..Len(s)
    BY <2>1
  <2> QED BY <2>2 DEF s
<1>6. 0 < Len(fpk'.entries) => fpk'.entries[0 + 1].at = 0
  <2>1. 0 < Len(fpk'.entries) => fpk'.entries # <<>>
    OBVIOUS
  <2> QED BY <1>4, <2>1 DEF Packed
<1>7. \A k \in 1..0 : FALSE
  OBVIOUS
<1>8. {fpk'.entries[k].name : k \in 1..0} = {}
  BY <1>7
<1>9. 0 < Len(fpk'.entries) => pos' = fpk'.entries[0 + 1].at
  BY <1>1, <1>6
<1>10. entry' \in 0..Len(fpk'.entries)
  BY <1>1, <1>5
<1> QED BY <1>1, <1>2, <1>3, <1>7, <1>8, <1>9, <1>10 DEF OnList, AtEntry

LEMMA SameLength ==
    ASSUME NEW x \in Nat, NEW y \in Nat, 1..x = 1..y
    PROVE  x = y
<1>1. x > 0 => x \in 1..y
  OBVIOUS
<1>2. y > 0 => y \in 1..x
  OBVIOUS
<1> QED BY <1>1, <1>2

\* The path of an entry that is read in its place is the entry's.
LEMMA PathInPlace ==
    ASSUME Regular, OnList, entry < Len(fpk.entries), ReadPath
    PROVE  OnList'
<1> DEFINE k == entry + 1
           e == fpk.entries[k]
           b == Bytes(e.at + 4, Len(e.name))
<1>1. Packed /\ fpk' = fpk /\ UNCHANGED <<entry, filelist>> /\ path = NoPath
  BY DEF Regular, ReadPath
<1>2. entry \in Nat /\ k \in DOMAIN fpk.entries
  BY <1>1, Listing DEF OnList
<1>3. pos = e.at
  BY <1>1 DEF OnList, AtEntry
<1>4. Get32(pos) = Len(e.name) /\ Rotated(b) = e.name
  BY <1>1, <1>2, <1>3 DEF Packed
<1>5. path' = Rotated(b) /\ pos' = e.at + 4 + Len(b) /\ preview' = Bytes(pos', Window)
  BY <1>3, <1>4 DEF ReadPath
<1>6. b \in Seq(Octet) /\ Len(b) \in Nat
  <2>1. e.at + 4 \in Nat /\ Len(e.name) \in Nat /\ fpk.bytes \in Seq(Octet)
    BY <1>1, <1>2, EntryIs, Listing
  <2>2. b \in Seq(Octet)
    BY <2>1, BytesAre
  <2> HIDE DEF b
  <2> QED BY <2>2
<1>7. e.name \in Seq(Octet) /\ Len(e.name) \in Nat
  BY <1>1, <1>2, EntryIs
<1>8. Len(b) = Len(e.name)
  <2> DEFINE s == e.name
  <2>1. DOMAIN b = DOMAIN s
    BY <1>4 DEF Rotated
  <2>2. s \in Seq(Octet)
    BY <1>7
  <2> HIDE DEF b, s
  <2>3. DOMAIN b = 1..Len(b) /\ DOMAIN s = 1..Len(s) /\ Len(b) \in Nat /\ Len(s) \in Nat
    BY <1>6, <2>2
  <2>4. 1..Len(b) = 1..Len(s)
    BY <2>1, <2>3
  <2>5. Len(b) = Len(s)
    BY <2>3, <2>4, SameLength
  <2> QED BY <2>5 DEF s
<1>9. pos' = PathEnd(k)
  <2>1. PathEnd(k) = e.at + 4 + Len(e.name)
    BY <1>1, <1>2, EntryIs
  <2> QED BY <1>5, <1>8, <2>1
<1>10. path' = e.name /\ preview' = Bytes(PathEnd(k), Window)
  BY <1>4, <1>5, <1>9
<1>11. e.name # NoPath
  <2> DEFINE s == e.name
  <2>1. s \in Seq(Octet)
    BY <1>7
  <2> HIDE DEF s
  <2>2. Len(s) = 1 => s[1] \in Octet
    BY <2>1
  <2>3. Len(NoPath) = 1 /\ NoPath[1] = -1 /\ -1 \notin Octet
    BY DEF NoPath, Octet
  <2>4. s # NoPath
    BY <2>2, <2>3
  <2> QED BY <2>4 DEF s
<1> HIDE DEF e, b
<1>12. AtEntry(entry + 1)'
  <2>1. path' = fpk.entries[entry + 1].name /\ path' # NoPath
    BY <1>10, <1>11 DEF e
  <2>2. pos' = PathEnd(entry + 1) /\ preview' = Bytes(PathEnd(entry + 1), Window)
    BY <1>9, <1>10
  <2> QED BY <1>1, <2>1, <2>2 DEF AtEntry, PathEnd, PathAt, Bytes
<1> QED BY <1>1, <1>12 DEF OnList, AllMarks, Bytes

\* The data of an entry that is read in its place is the entry's, and the
\* position behind it is the next entry's or astray.
LEMMA DataInPlace ==
    ASSUME Regular, OnList, ReadData
    PROVE  OnList' \/ Astray'
<1> DEFINE n == Len(fpk.entries)
           k == entry + 1
           e == fpk.entries[k]
           f == PathAt(k + 1)
           p == PathEnd(k)
           h == Hit(k)
           dat == Bytes(Get32(pos + SignatureLength + 4), Get32(pos + SignatureLength))
<1>1. /\ Packed /\ fpk' = fpk /\ path # NoPath /\ SignatureLength >= 0
      /\ entry' = entry + 1 /\ path' = NoPath
      /\ filelist' = With(filelist, path, dat) /\ pos' = pos + SignatureLength + 8
  BY DEF Regular, ReadData
<1>2. n \in Nat /\ DOMAIN fpk.entries = 1..n /\ fpk.bytes \in Seq(Octet)
  BY <1>1, Listing
<1>3. entry \in 0..n /\ entry # n
  BY <1>1 DEF OnList
<1>4. entry \in Nat /\ entry < n /\ k \in 1..n
  BY <1>2, <1>3
<1>5. path = e.name /\ pos = p /\ preview = Bytes(p, Window)
  BY <1>1, <1>4 DEF OnList, AtEntry
<1>6. SignatureLength = h - 12
  BY <1>5 DEF SignatureLength, Hit
<1>7. p \in Nat /\ f \in Nat /\ f >= p + 12
  BY <1>1, <1>2, <1>4, EntryIs
<1>8. /\ h \in Nat /\ h >= 12
      /\ p + h = f \/ (k < n /\ ~Plain /\ Byte(p + h - 1) >= 32) \/ (k = n /\ AllMarks(fpk.first) # {})
  <2>1. CASE k < n
    <3>1. k \in 1..(n - 1)
      BY <1>2, <1>4, <2>1
    <3> QED BY <2>1, <3>1, FoundBefore
  <2>2. CASE k = n
    BY <1>1, <1>2, <1>4, <2>2, FoundLast
  <2> QED BY <1>2, <1>4, <2>1, <2>2
<1>9. \A i \in 1..entry : fpk.entries[i].name # e.name
  <2>1. \A i \in 1..entry : i \in 1..n /\ i # k
    BY <1>2, <1>4
  <2> QED BY <1>1, <1>2, <1>4, <2>1 DEF Packed
<1>10. e.name \notin DOMAIN filelist
  BY <1>9 DEF OnList
<1>11. DOMAIN filelist' = DOMAIN filelist \cup {e.name}
  <2> HIDE DEF dat, e, k
  <2>1. filelist' = With(filelist, e.name, dat)
    BY <1>1, <1>5
  <2> QED BY <2>1 DEF With
<1>12. IsFiniteSet(DOMAIN filelist') /\ Cardinality(DOMAIN filelist') = k
  <2>1. IsFiniteSet(DOMAIN filelist) /\ Cardinality(DOMAIN filelist) = entry
    BY DEF OnList
  <2> QED BY <1>10, <1>11, <2>1, FS_AddElement
<1>13. DOMAIN filelist' = {fpk.entries[i].name : i \in 1..k}
  <2>1. \A i : i \in 1..k <=> i \in 1..entry \/ i = k
    BY <1>4
  <2>2. DOMAIN filelist = {fpk.entries[i].name : i \in 1..entry}
    BY DEF OnList
  <2> HIDE DEF k
  <2> QED BY <1>11, <2>1, <2>2
<1>14. filelist'[e.name] = dat /\ \A i \in 1..entry : filelist'[fpk.entries[i].name] = filelist[fpk.entries[i].name]
  <2>1. \A i \in 1..entry : fpk.entries[i].name \in DOMAIN filelist \ {e.name}
    BY <1>9 DEF OnList
  <2> HIDE DEF dat, e, k
  <2>2. filelist' = With(filelist, e.name, dat)
    BY <1>1, <1>5
  <2>3. filelist'[e.name] = dat
    BY <2>2 DEF With
  <2>4. \A y \in DOMAIN filelist \ {e.name} : filelist'[y] = filelist[y]
    BY <2>2 DEF With
  <2> QED BY <2>1, <2>3, <2>4
<1> HIDE DEF dat, h, p, f, k, n, e
<1>15. pos' = p + h - 4
  BY <1>1, <1>5, <1>6, <1>7, <1>8
<1>16. CASE p + h = f \/ (k = n /\ AllMarks(fpk.first) # {})
  <2>1. p + h = f => dat = e.data
    <3> SUFFICES ASSUME p + h = f PROVE dat = e.data
      OBVIOUS
    <3>1. pos + SignatureLength + 4 = f - 8 /\ pos + SignatureLength = f - 12
      BY <1>5, <1>6, <1>7, <1>8
    <3>2. dat = Bytes(Get32(f - 8), Get32(f - 12))
      BY <3>1 DEF dat
    <3>3. Bytes(Get32(f - 8), Get32(f - 12)) = e.data
      BY <1>1, <1>2, <1>4 DEF Packed, e, f
    <3> QED BY <3>2, <3>3
  <2>2. ASSUME NEW i \in 1..k, i < n \/ AllMarks(fpk.first) = {}
        PROVE  filelist'[fpk.entries[i].name] = fpk.entries[i].data
    <3>1. CASE i = k
      <4>1. p + h = f
        BY <1>2, <1>16, <2>2, <3>1
      <4> QED BY <1>14, <2>1, <3>1, <4>1 DEF e
    <3>2. CASE i # k
      <4>1. i \in 1..entry
        BY <1>4, <3>2 DEF k
      <4> QED BY <1>14, <2>2, <4>1 DEF OnList, n
    <3> QED BY <3>1, <3>2
  <2>3. ASSUME k < n PROVE pos' = fpk.entries[k + 1].at
    <3>1. p + h = f
      BY <1>2, <1>16, <2>3
    <3>2. k + 1 \in 1..n
      BY <1>2, <1>4, <2>3
    <3>3. f = fpk.entries[k + 1].at + 4 /\ fpk.entries[k + 1].at \in Nat
      <4>1. k + 1 \in DOMAIN fpk.entries
        BY <1>2, <3>2
      <4> QED BY <1>1, <4>1, EntryIs DEF f
    <3> QED BY <1>7, <1>8, <1>15, <3>1, <3>3
  <2>4. k \in 0..n
    BY <1>4
  <2>6. entry' = k
    BY <1>1 DEF k
  <2>5. k < n => AtEntry(entry + 1)'
    BY <1>1, <2>3, <2>6 DEF AtEntry
  <2>7. OnList'
    BY <1>1, <1>12, <1>13, <2>2, <2>4, <2>5, <2>6 DEF OnList, AllMarks, Bytes, n
  <2> QED BY <2>7
<1>17. CASE k < n /\ ~Plain /\ Byte(p + h - 1) >= 32
  <2>1. pos' \in Nat /\ pos' + 3 = p + h - 1
    BY <1>7, <1>8, <1>15
  <2>2. Get32(pos') >= TextWord
    BY <1>2, <1>17, <2>1, Get32Is
  <2>3. Get32(pos)' >= TextWord
    BY <1>1, <2>2 DEF Get32, Byte
  <2>4. ~Plain'
    BY <1>1, <1>17, SameArchive
  <2>5. entry' = k /\ k \in Nat /\ k <= k
    BY <1>1, <1>4 DEF k
  <2> QED BY <1>1, <1>12, <1>17, <2>1, <2>3, <2>4, <2>5 DEF Astray, n
<1> QED BY <1>8, <1>16, <1>17

\* Astray the path is the rest of the file, and there the loop is left.
LEMMA StaysAstray ==
    ASSUME Regular, Astray, ReadPath \/ ReadData
    PROVE  Astray'
<1>1. Packed /\ fpk' = fpk
  BY DEF Regular, ReadPath, ReadData
<1>2. fpk.bytes \in Seq(Octet) /\ Len(fpk.bytes) \in Nat /\ Len(fpk.bytes) < TextWord /\ TextWord \in Nat
  <2>1. TextWord \in Nat
    BY SMT DEF TextWord
  <2> QED BY <1>1, <2>1, Listing DEF Packed
<1>3. CASE ReadPath
  <2> DEFINE L == Len(fpk.bytes)
             g == Get32(pos)
             b == Bytes(pos + 4, g)
  <2>1. /\ path = NoPath /\ path' = Rotated(b) /\ pos' = pos + 4 + Len(b)
        /\ preview' = Bytes(pos', Window) /\ UNCHANGED <<entry, filelist>>
    BY <1>3 DEF ReadPath
  <2>2. pos \in Nat /\ g >= TextWord
    BY <2>1 DEF Astray
  <2>3. g \in Nat /\ pos + 4 \in Nat
    BY <1>2, <2>2, Get32Is
  <2>4. b \in Seq(Octet) /\ Len(b) = IF pos + 4 >= L THEN 0
                                     ELSE IF g <= L - (pos + 4) THEN g ELSE L - (pos + 4)
    BY <1>2, <2>3, BytesAre
  <2> HIDE DEF b, g
  <2>5. Len(b) \in Nat
    BY <2>4
  <2>6. pos' \in Nat /\ pos' >= L
    <3> DEFINE l == Len(b)
    <3>1. l = (IF pos + 4 >= L THEN 0 ELSE IF g <= L - (pos + 4) THEN g ELSE L - (pos + 4))
          /\ pos' = pos + 4 + l
      BY <2>1, <2>4
    <3>2. L \in Nat /\ pos \in Nat /\ g \in Nat /\ g > L
      BY <1>2, <2>2, <2>3
    <3> HIDE DEF l, L
    <3>3. CASE pos + 4 >= L
      BY <3>1, <3>2, <3>3
    <3>4. CASE ~(pos + 4 >= L)
      <4>1. ~(g <= L - (pos + 4)) /\ L - (pos + 4) \in Nat
        BY <3>2, <3>4
      <4> QED BY <3>1, <3>2, <3>4, <4>1
    <3> QED BY <3>3, <3>4
  <2>7. preview' = <<>>
    BY <2>1, <2>6 DEF Bytes
  <2>8. path' # NoPath
    <3>1. ASSUME b # <<>> PROVE Rotated(b)[1] # -1
      <4>1. 1 \in DOMAIN b /\ b[1] \in Octet
        BY <2>4, <3>1
      <4>2. Rotated(b)[1] = (b[1] + 255) % 256
        BY <4>1 DEF Rotated
      <4>3. b[1] + 255 \in Nat
        BY <4>1 DEF Octet
      <4>4. (b[1] + 255) % 256 # -1
        BY <4>3, SMT
      <4> QED BY <4>2, <4>4
    <3>2. b = <<>> => DOMAIN Rotated(b) = {}
      BY DEF Rotated
    <3>3. NoPath[1] = -1 /\ 1 \in DOMAIN NoPath
      BY DEF NoPath
    <3> QED BY <2>1, <3>1, <3>2, <3>3
  <2>9. ~Plain'
    BY <1>1, SameArchive DEF Astray
  <2> QED BY <1>1, <2>1, <2>7, <2>8, <2>9 DEF Astray
<1>4. CASE ReadData
  <2>1. path # NoPath /\ SignatureLength >= 0
    BY <1>4 DEF ReadData
  <2>2. preview = <<>>
    BY <2>1 DEF Astray
  <2>3. \A j : j \notin 0..(Len(preview) - 3)
    <3>1. Len(preview) = 0
      BY <2>2
    <3> QED BY <3>1
  <2>4. Marks(preview, Bsu) = {} /\ Marks(preview, EndOfList) = {}
    BY <2>3 DEF Marks
  <2>5. FoundIdx(preview) = -1
    BY <2>4 DEF FoundIdx
  <2> QED BY <2>1, <2>5 DEF SignatureLength
<1> QED BY <1>3, <1>4

LEMMA ReadingStep ==
    ASSUME Reading, [Next]_vars
    PROVE  Reading'
<1> SUFFICES ASSUME fpk'.magic, Regular'
             PROVE  OnList' \/ Astray'
  BY DEF Reading
<1>1. CASE UNCHANGED fpkVars
  <2>1. UNCHANGED <<fpk, entry, pos, path, preview, filelist>>
    BY <1>1 DEF fpkVars
  <2>2. Regular /\ (Plain' <=> Plain)
    BY <2>1, SameArchive
  <2>3. CASE OnList
    BY <2>1, <2>3 DEF OnList, AtEntry, AllMarks, PathEnd, PathAt, Bytes
  <2>4. CASE Astray
    BY <2>1, <2>2, <2>4 DEF Astray, Get32, Byte
  <2> QED BY <2>1, <2>2, <2>3, <2>4 DEF Reading
<1>2. ASSUME NEW a, Opened(a)
      PROVE  OnList'
  BY <1>2, OpenStep
<1>3. CASE ReadPath \/ ReadData
  <2>1. UNCHANGED fpk
    BY <1>3 DEF ReadPath, ReadData
  <2>2. Regular /\ (OnList \/ Astray)
    BY <2>1, SameArchive DEF Reading
  <2>3. CASE Astray
    BY <1>3, <2>2, <2>3, StaysAstray
  <2>4. CASE OnList /\ ReadData
    BY <2>2, <2>4, DataInPlace
  <2>5. CASE OnList /\ ReadPath
    <3>1. entry < Len(fpk.entries)
      BY <2>5 DEF ReadPath
    <3> QED BY <2>2, <2>5, <3>1, PathInPlace
  <2> QED BY <1>3, <2>2, <2>3, <2>4, <2>5
<1>4. CASE UNCHANGED vars
  BY <1>1, <1>4 DEF vars
<1> QED BY <1>1, <1>2, <1>3, <1>4, ArchiveSteps

\* In its list the loop ends with all files; astray it never has as many.
LEMMA ListIsRight ==
    ASSUME Reading, Regular
    PROVE  ListsRight
<1> DEFINE n == Len(fpk.entries)
<1> SUFFICES ASSUME fpk.magic, ListRead
             PROVE  /\ Accepted => \A k \in 1..n :
                          \/ /\ fpk.entries[k].name \in DOMAIN filelist
                             /\ filelist[fpk.entries[k].name] = fpk.entries[k].data
                          \/ k = n /\ AllMarks(fpk.first) # {}
                    /\ Plain => Accepted
  BY DEF ListsRight, AcceptedIsRight, PlainIsAccepted, AllMarks
<1>1. Packed /\ n \in Nat /\ DOMAIN fpk.entries = 1..n
  BY Listing DEF Regular
<1>2. CASE OnList
  <2>1. entry = n
    <3> SUFFICES ASSUME entry # n PROVE FALSE
      OBVIOUS
    <3>1. entry \in Nat /\ entry < n /\ entry + 1 \in 1..n
      BY <1>1, <1>2 DEF OnList
    <3>2. path # NoPath /\ SignatureLength < 0
      BY <3>1 DEF ListRead
    <3>3. preview = Bytes(PathEnd(entry + 1), Window)
      BY <1>2, <3>1, <3>2 DEF OnList, AtEntry
    <3>4. SignatureLength = Hit(entry + 1) - 12
      BY <3>3 DEF SignatureLength, Hit
    <3>5. Hit(entry + 1) \in Nat /\ Hit(entry + 1) >= 12
      <4>1. CASE entry + 1 < n
        <5>1. entry + 1 \in 1..(n - 1)
          BY <1>1, <3>1, <4>1
        <5> QED BY <5>1, FoundBefore
      <4>2. CASE entry + 1 = n
        BY <1>1, <3>1, <4>2, FoundLast
      <4> QED BY <1>1, <3>1, <4>1, <4>2
    <3> QED BY <3>2, <3>4, <3>5
  <2>2. Accepted
    BY <1>2, <2>1 DEF Accepted, OnList
  <2>3. ASSUME NEW k \in 1..n
        PROVE  \/ /\ fpk.entries[k].name \in DOMAIN filelist
                  /\ filelist[fpk.entries[k].name] = fpk.entries[k].data
               \/ k = n /\ AllMarks(fpk.first) # {}
    <3>1. fpk.entries[k].name \in DOMAIN filelist
      BY <1>2, <2>1 DEF OnList
    <3>2. k < n \/ AllMarks(fpk.first) = {} => filelist[fpk.entries[k].name] = fpk.entries[k].data
      BY <1>2, <2>1 DEF OnList
    <3>3. k < n \/ k = n
      BY <1>1
    <3> QED BY <3>1, <3>2, <3>3
  <2> QED BY <2>2, <2>3
<1>3. CASE Astray
  <2>1. ~Accepted
    <3>1. Cardinality(DOMAIN filelist) \in Nat
      BY <1>3, FS_CardinalityType DEF Astray
    <3> QED BY <1>1, <1>3, <3>1 DEF Astray, Accepted
  <2> QED BY <1>3, <2>1 DEF Astray
<1> QED BY <1>2, <1>3 DEF Reading

-----------------------------------------------------------------------------
(* The invariant, and what follows from it.                                   *)

\* In every reachable state, over any number of sessions, the four parts of the
\* front end's state are consistent.
THEOREM FrontEndInvariance == Spec => []IInv
<1>1. Init => IInv
  BY FlowStart, MenuStart, CyclesStart, ViewerStart DEF IInv
<1>2. IInv /\ [Next]_vars => IInv'
  BY FlowKeeps, MenuKeeps, CyclesKeep, ViewerKeeps DEF IInv
<1> QED BY <1>1, <1>2, PTL DEF Spec

\* Whenever bts_exe_path is stored, all six values are, wherever a session was
\* killed while VerificationScene saved them.
THEOREM StoredHolds == Spec => []StoredComplete
<1>1. IInv => StoredComplete
  BY LastKey DEF IInv, Flow, Config, StoredComplete, Stored
<1> QED BY <1>1, FrontEndInvariance, PTL

\* Nobody gets past VerificationScene with a path that an earlier session stored
\* unless it is the right file now, nor with half of the paths stored.
THEOREM StoredPathHolds == Spec => []StoredIsVerified
<1>1. IInv => StoredIsVerified
  BY DEF IInv, Flow, Verified, StoredIsVerified
<1> QED BY <1>1, FrontEndInvariance, PTL

\* Scenes, menus and viewer hold what they should, and from every menu, or from
\* none, the bottom bar has the button that leads on.
THEOREM ScreenHolds == Spec => []ScreenSafe
<1>1. IInv => TypeOK
  <2> SUFFICES ASSUME IInv PROVE TypeOK
    OBVIOUS
  <2> USE DEF IInv
  <2>1. config \subseteq ToSet(Keys) /\ Len(Keys) = 6
    <3>1. PICK k \in 0..6 : config = Saved(k)
      BY DEF Flow, Config
    <3> QED BY <3>1 DEF Saved, Keys, ToSet
  <2>2. shown \subseteq Menus
    BY DEF MenuFacts
  <2>3. container \in ToSet(paths) \cup {None}
    BY DEF Viewer, Shown, LabelsAgree, ToSet
  <2>4. diag \in DOMAIN Targets
    BY Parameters DEF Cycles
  <2> QED BY <2>1, <2>2, <2>3, <2>4 DEF TypeOK, Flow, Scenery, MenuFacts, Viewer, Cycles
<1>2. IInv => MenuConsistent
  BY DEF IInv, MenuFacts, MenuConsistent
<1> QED BY <1>1, <1>2, FrontEndInvariance, PTL DEF ScreenSafe

\* Meshes, overlays, grid and clips in the world are those that the labels
\* announce, and the labels are of one asset (AssetCycler).
THEOREM ViewerHolds == Spec => []ViewerTells
<1>1. IInv => ShownAsAnnounced
  <2> SUFFICES ASSUME IInv, container # None PROVE ModeShows
    BY DEF IInv, Viewer, Shown, ShownAsAnnounced
  <2>1. mode \in 0..7 /\ hud.mode = mode /\ view = Applied(container, mode)
    BY DEF IInv, Viewer, Shown, LabelsAgree, Modes
  <2>2. /\ view.meshes = (IF mode = 4 THEN {} ELSE Scenes[container].meshes)
        /\ view.overlay = (IF Scenes[container].bones THEN Parts(mode) ELSE {})
        /\ view.grid = (mode = 7)
    BY <2>1 DEF Applied
  <2>3. /\ mode = 0 => Parts(mode) = {"lines"}
        /\ mode = 1 => Parts(mode) = {"spheres"}
        /\ mode = 2 => Parts(mode) = {"labels"}
        /\ mode \in {3, 4} => Parts(mode) = Overlays
        /\ mode \in {5, 7} => Parts(mode) = {}
        /\ mode = 6 => Parts(mode) # {}
    BY <2>1 DEF Parts, Overlays
  <2>4. /\ OnlyOverlay[1] = "lines" /\ OnlyOverlay[2] = "spheres" /\ OnlyOverlay[3] = "labels"
    BY DEF OnlyOverlay
  <2>5. (view.grid <=> mode = 7) /\ view.meshes = (IF mode = 4 THEN {} ELSE Scenes[container].meshes)
    BY <2>2, Zenon
  <2> DEFINE shows(m) == CASE m \in 0..2 -> view.overlay = {OnlyOverlay[m + 1]}
                           [] m \in 3..4 -> view.overlay = Overlays
                           [] OTHER -> view.overlay # {}
  <2>6. CASE ~Scenes[container].bones \/ mode \in {5, 7}
    <3>1. view.overlay = {}
      BY <2>2, <2>3, <2>6
    <3> QED BY <2>1, <2>5, <2>6, <3>1 DEF ModeShows, DebugOnly, Grid, MeshOnly
  <2>7. CASE ~(~Scenes[container].bones \/ mode \in {5, 7})
    <3>1. mode \in {0, 1, 2, 3, 4, 6} /\ view.overlay = Parts(mode)
      BY <2>1, <2>2, <2>7
    <3>2. shows(mode)
      BY <2>3, <2>4, <3>1
    <3> QED BY <2>1, <2>5, <2>7, <3>2 DEF ModeShows, DebugOnly, Grid, MeshOnly
  <2> QED BY <2>6, <2>7
<1>2. IInv => LabelsAgree /\ ClipPlays
  BY DEF IInv, Viewer
<1> QED BY <1>1, <1>2, FrontEndInvariance, PTL DEF ViewerTells

\* MenuScene's way back leads from every menu to the one that opens it, and from
\* an empty screen to the top.
THEOREM BackHolds == Spec => BackLeadsUp
<1> DEFINE LeadsUp == Back =>
        IF shown = {} THEN shown' = {Default}
        ELSE \E m \in shown' : \E b \in Buttons(m) \cap DOMAIN OpenedBy : OpenedBy[b] \in shown
<1>1. IInv => LeadsUp
  <2> SUFFICES ASSUME IInv, Back PROVE LeadsUp
    OBVIOUS
  <2>1. CASE shown = {}
    <3>1. VisibleMenu = "none" /\ "none" \notin DOMAIN Below
      BY <2>1 DEF VisibleMenu, Below
    <3> QED BY <2>1, <3>1 DEF Back, GoBack, Up, Default
  <2>2. CASE shown # {}
    <3>1. PICK m \in Menus : shown = {m}
      BY <2>2 DEF IInv, MenuFacts
    <3>2. m \in DOMAIN Below
      BY <3>1 DEF Back, GoBack, IInv, MenuFacts, Menus
    <3>3. VisibleMenu = m /\ shown' = {Below[m]}
      BY <3>1, <3>2 DEF Back, GoBack, VisibleMenu, Up, Below, Default
    <3>4. \E b \in Buttons(Below[m]) \cap DOMAIN OpenedBy : OpenedBy[b] = m
      BY <3>2 DEF Below, Buttons, OpenedBy, Default
    <3> QED BY <3>1, <3>3, <3>4
  <2> QED BY <2>1, <2>2
<1> QED BY <1>1, FrontEndInvariance, PTL DEF BackLeadsUp

\* An auto-cycle that ends by itself has come to every asset of the list.
THEOREM AutoCycleHolds == Spec => AutoCycleTriesAll
<1> DEFINE AllTried ==
        auto /\ ~auto' /\ next > Len(paths) /\ scene' = "world" => tried = ToSet(paths)
<1>1. IInv => AllTried
  <2> SUFFICES ASSUME IInv, auto, next > Len(paths)
               PROVE  tried = ToSet(paths)
    OBVIOUS
  <2>1. /\ paths \in Seq(DOMAIN Scenes \ {None}) /\ next = Len(paths) + 1
        /\ tried = {paths[i] : i \in 1..(next - 1)}
    BY DEF IInv, Cycles
  <2> QED BY <2>1 DEF ToSet
<1> QED BY <1>1, FrontEndInvariance, PTL DEF AutoCycleTriesAll

\* An archive of which every marker behind its place lies in the next path is
\* read as it was packed, or not accepted; and one without such markers is
\* accepted (parse_fpk_filelist of FPK_Loader.gd).
THEOREM ListsHold == Spec => [](Regular => ListsRight)
<1>1. Init => Reading
  BY DEF Init, FpkInit, NoArchive, Reading
<1>2. Reading /\ [Next]_vars => Reading'
  BY ReadingStep
<1>3. Reading => (Regular => ListsRight)
  BY ListIsRight
<1> QED BY <1>1, <1>2, <1>3, PTL DEF Spec
=============================================================================
