---------------------------- MODULE MCHistorySync ----------------------------
(***************************************************************************)
(* Small instances of HistorySync for TLC.                                 *)
(***************************************************************************)
EXTENDS HistorySync, TLC

Symmetry == Permutations(Tasks)
=============================================================================
