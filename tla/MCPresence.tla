----------------------------- MODULE MCPresence -----------------------------
(***************************************************************************)
(* Small instances of Presence for TLC.                                    *)
(***************************************************************************)
EXTENDS Presence, TLC

\* Every token is the one user's, who watches himself, as an admin does.
MCTokenOwner == [t \in Tokens |-> CHOOSE u \in Users : TRUE]
MCWatchers == [u \in Users |-> Users]

Symmetry == Permutations(Handlers) \cup Permutations(Tokens) \cup Permutations(ClientIds)
               \cup Permutations(Admins)
=============================================================================
