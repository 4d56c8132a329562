----------------------------- MODULE DataService -----------------------------
(***************************************************************************)
(* What the client of TesseraHost may rely on: a host serves no game data   *)
(* until an init has been answered with ok; from then on it serves the data *)
(* of one game DLL, and of no other for as long as the process lives,       *)
(* whatever becomes of later inits.  An init may be answered with ok and    *)
(* leave the host serving nothing.                                          *)
(***************************************************************************)
CONSTANTS Dlls, None

VARIABLES serving, reply

svcVars == <<serving, reply>>

SvcInit == serving = None /\ reply = "none"

\* A command arrives; it has no answer yet.
Command == reply' = "none" /\ UNCHANGED serving

Refuse == reply' = "error" /\ UNCHANGED serving

Accept ==
    /\ reply' = "ok"
    /\ IF serving = None THEN serving' \in Dlls \cup {None} ELSE UNCHANGED serving

Answer == serving # None /\ reply' = "data" /\ UNCHANGED serving

SvcNext == Command \/ Refuse \/ Accept \/ Answer

SvcSpec == SvcInit /\ [][SvcNext]_svcVars
=============================================================================
