------------------------------ MODULE MCPanel ------------------------------
(***************************************************************************)
(* Bounds of the Panel runs.  One session with two stops is enough for a   *)
(* snapshot, a map or an initialization of one stop to meet the next.      *)
(***************************************************************************)
EXTENDS Panel

MCMaxStops == [s \in Sessions |-> 2]
=============================================================================
