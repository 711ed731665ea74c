----------------------------- MODULE MCListWalk -----------------------------
(***************************************************************************)
(* Three list items and a limit of two: lists below, at and beyond it.     *)
(***************************************************************************)
EXTENDS ListWalk

MCBuilds == {[smp |-> FALSE, ranges |-> TRUE], [smp |-> TRUE, ranges |-> FALSE]}
=============================================================================
