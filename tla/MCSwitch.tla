------------------------------ MODULE MCSwitch ------------------------------
(***************************************************************************)
(* Instances of Switch for TLC.                                            *)
(***************************************************************************)
EXTENDS Switch, TLC

SwitchSymmetry == Permutations(Hookers) \union Permutations(Funcs)
=============================================================================
