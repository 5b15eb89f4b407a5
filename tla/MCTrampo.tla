------------------------------ MODULE MCTrampo ------------------------------
(***************************************************************************)
(* Instance of Trampo for TLC: pages of two slots at two places, requests  *)
(* without a hint, and with branch ranges that cover both pages, only the  *)
(* last slot of the first page, or that start inside a slot.               *)
(***************************************************************************)
EXTENDS Trampo, TLC

MCPlaces == {4, 8}
MCWindows == {Anywhere,
              [hint |-> TRUE, lo |-> 5, hi |-> 8],
              [hint |-> TRUE, lo |-> 6, hi |-> 7],
              [hint |-> TRUE, lo |-> 7, hi |-> 8]}
ThreadSymmetry == Permutations(Threads)
=============================================================================
