---------------------------- MODULE MCEfRuntime ----------------------------
(***************************************************************************)
(* EfRuntime with two listeners and one or two coroutines.                 *)
(***************************************************************************)
EXTENDS EfRuntime, TLC

CONSTANTS c1, c2, c3, forward, greeting

\* main.c adds greeting last: it is first on the list.
TwoListeners == <<greeting, forward>>

CoroutineSymmetry == Permutations(Coroutine)
=============================================================================
