--------------------------- MODULE MCDlopenMonitor ---------------------------
(***************************************************************************)
(* Instances of DlopenMonitor for TLC.                                     *)
(***************************************************************************)
EXTENDS DlopenMonitor, TLC
=============================================================================
