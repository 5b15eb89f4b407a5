------------------------------- MODULE MCTask -------------------------------
(***************************************************************************)
(* Instances of Task for TLC.  The runs check liveness and use no symmetry.*)
(***************************************************************************)
EXTENDS Task, TLC
=============================================================================
