------------------------------- MODULE MCApi --------------------------------
(***************************************************************************)
(* Instances of Api for TLC: sizes small enough for every limit to be met. *)
(***************************************************************************)
EXTENDS Api, TLC

CONSTANTS m, u, v, f

MCStrSize == "lib" :> 2 @@ f :> 1 @@ m :> 1 @@ u :> 1 @@ v :> 1
MCBudgets ==
    LET Calls(i, j, k) == m :> i @@ u :> j @@ v :> k
    IN  {Calls(4, 1, 0),    \* HookUtils next to one call of another thread
         Calls(6, 0, 0),    \* HookUtils alone
         Calls(0, 3, 1),    \* two threads on the same task addresses
         Calls(1, 2, 1),    \* three threads
         Calls(0, 5, 0)}    \* a long log
=============================================================================
