-------------------------- MODULE MCDataExtraction --------------------------
(* An instance of DataExtraction: one type of each layout, one without infos. *)
EXTENDS DataExtraction

MCInfos == [tech |-> 1, building |-> 2, unit |-> 3, era |-> 2, bonus |-> 0,
            unit_art |-> 1]

(* Two types are enough to break both lines of the header.                     *)
MCFewInfos == [era |-> 2, bonus |-> 0]
=============================================================================
