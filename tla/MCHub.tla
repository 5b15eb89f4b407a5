------------------------------- MODULE MCHub -------------------------------
(***************************************************************************)
(* Instances of Hub for TLC.                                               *)
(***************************************************************************)
EXTENDS Hub, TLC

HubSymmetry == Permutations(Hubs) \union Permutations(Funcs)
=============================================================================
