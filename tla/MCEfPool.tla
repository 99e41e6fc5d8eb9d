------------------------------ MODULE MCEfPool ------------------------------
(***************************************************************************)
(* EfPool with four memory areas, a pool of one to three coroutines and a  *)
(* clock of two units to the second; and the stacks of one to four pages,  *)
(* grown up to two times.                                                  *)
(***************************************************************************)
EXTENDS EfPool, EfStack, TLC

CONSTANTS c1, c2, c3, c4

CoroutineSymmetry == Permutations({c1, c2, c3, c4})

\* The run loop's calls: everything at once while stopping (idle time 0,
\* count -full or -free), a few of the long idle otherwise.
WholeSecondArgs == {<<0, -3>>, <<0, -1>>, <<2, 1>>, <<2, 2>>}

\* A stack of each size at two places, as created and as it has grown.
Created == {CreatedStack(area, wanted) : area \in {0, 2 * PageSize}, wanted \in 0 .. 4 * PageSize}
Address == 0 .. 7 * PageSize
Grown(stacks) == {ExpandedStack(p[1], p[2]) : p \in {q \in stacks \X Address : Expands(q[1], q[2])}}

ASSUME StacksGrowRightly ==
  \A s \in Created \cup Grown(Created) \cup Grown(Grown(Created)) :
    s \in Stack /\ \A addr \in Address : GrowsRightly(s, addr)
=============================================================================
