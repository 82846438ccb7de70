----------------------------- MODULE MCAccounts -----------------------------
(* Two devices of one account, and the admin.                              *)
EXTENDS Accounts, TLC

CONSTANTS alice, root

MCKeyOf == [d \in Devices |-> alice]
DeviceSymmetry == Permutations(Devices)
=============================================================================
