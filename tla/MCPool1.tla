------------------------------ MODULE MCPool1 ------------------------------
(***************************************************************************)
(* Pool1 with two or three workers and as many tasks as the configuration  *)
(* says.                                                                   *)
(***************************************************************************)
EXTENDS Pool1, TLC

CONSTANTS w1, w2, w3

ThreadSymmetry == Permutations(Thread)
=============================================================================
