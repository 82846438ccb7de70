--------------------------- MODULE MCClientSession ---------------------------
(***************************************************************************)
(* A small instance of ClientSession for TLC.                              *)
(***************************************************************************)
EXTENDS ClientSession, TLC

Symmetry == Permutations(Logins) \cup Permutations(Watchers)
=============================================================================
