------------------------------ MODULE MainMenu ------------------------------
(***************************************************************************)
(* MenuScene.gd: the menus that are visible, and which of the two buttons   *)
(* of the bottom bar is.  A press runs one handler to its end.              *)
(***************************************************************************)
EXTENDS Naturals

VARIABLES
    shown,      \* the visible menus
    bar,        \* the visible buttons of the bottom bar
    connected   \* whether _ready came to connecting the buttons

menuVars == <<shown, bar, connected>>

Default == "DefaultMenu"
Below == [SubMenuSingleplayer |-> Default, SubMenuMultiplayer |-> Default,
          SubMenuAdvanced |-> Default, SubMenuInternetGames |-> "SubMenuMultiplayer",
          SubMenuHotSeat |-> "SubMenuMultiplayer", SubMenuPlayByEmail |-> "SubMenuMultiplayer"]
Menus == {Default} \cup DOMAIN Below

\* The menus a button opens; the other buttons of a menu open nothing yet.
OpenedBy == [SinglePlayerButton |-> "SubMenuSingleplayer", MultiplayerButton |-> "SubMenuMultiplayer",
           AdvancedButton |-> "SubMenuAdvanced", InternetGamesButton |-> "SubMenuInternetGames",
           HotSeatButton |-> "SubMenuHotSeat", PlaybyEmailButton |-> "SubMenuPlayByEmail"]
\* The buttons of each menu (03_MenuScene.tscn); "pass" is any that does nothing.
Buttons(m) ==
    CASE m = Default -> {"SinglePlayerButton", "MultiplayerButton", "AdvancedButton", "pass"}
      [] m = "SubMenuSingleplayer" -> {"PlayNowButton", "pass"}
      [] m = "SubMenuMultiplayer" -> {"InternetGamesButton", "HotSeatButton",
                                      "PlaybyEmailButton", "pass"}
      [] OTHER -> {"pass"}

MenuInit == shown = {} /\ bar = {} /\ connected = FALSE
\* The scene as it is stored; init_MenuScene sets the font first, and without
\* Sylfaen it stops there, before any button is connected.
EnterMenu(fonts) ==
    /\ shown' = {Default} /\ bar' = {"ExitGameButton"}
    /\ connected' = ("sylfaen" \in fonts)
LeaveMenu == shown' = {} /\ bar' = {} /\ connected' = FALSE

VisibleMenu == IF shown = {} THEN "none" ELSE CHOOSE m \in shown : TRUE

\* A button of a menu: all menus are hidden, the one it opens is shown, and
\* the bar offers the way back.
Press(b) ==
    /\ connected /\ \E m \in shown : b \in Buttons(m)
    /\ shown' = IF b \in DOMAIN OpenedBy THEN {OpenedBy[b]} ELSE {}
    /\ bar' = {"GoBackButton"}
    /\ UNCHANGED connected

\* Mutant: the way back from a menu of Multiplayer leads to the top.
UpToTop(m) == Default
\* Where the way back leads; from a press that opened nothing, to the top.
Up(m) == IF m \in DOMAIN Below THEN Below[m] ELSE Default
\* Mutant: the bar is not restored.
GoBackBarKept ==
    /\ connected /\ "GoBackButton" \in bar
    /\ shown' = IF VisibleMenu = Default THEN {} ELSE {Up(VisibleMenu)}
    /\ UNCHANGED <<bar, connected>>
\* The case of DefaultMenu does nothing, and the menus stay hidden.
GoBack ==
    /\ connected /\ "GoBackButton" \in bar
    /\ shown' = IF VisibleMenu = Default THEN {} ELSE {Up(VisibleMenu)}
    /\ bar' = IF Default \in shown' THEN {"ExitGameButton"} ELSE {"GoBackButton"}
    /\ UNCHANGED connected
=============================================================================
