---------------------------- MODULE MCClientFiles ----------------------------
(***************************************************************************)
(* A small instance of ClientFiles for TLC.                                *)
(***************************************************************************)
EXTENDS ClientFiles, TLC

MCTables == <<"friends", "messages">>

MCIndexed == {"messages"}

Symmetry == Permutations(Processes)
=============================================================================
