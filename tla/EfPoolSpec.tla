---------------------------- MODULE EfPoolSpec -----------------------------
(***************************************************************************)
(* What the coroutine pool of ef promises its callers, without its lists,  *)
(* counters, clock or context switches: a coroutine is handed out to one   *)
(* holder at a time, an idle one is preferred to a new one, there are      *)
(* never more than LimitMax of them, and only idle ones are given up.      *)
(***************************************************************************)
EXTENDS Integers, FiniteSets

CONSTANTS Coroutine, LimitMax

VARIABLES live,        \* coroutines handed out and not finished
          idle         \* finished coroutines kept for reuse

vars == <<live, idle>>

Init == live = {} /\ idle = {}

TakeIdle(co) ==
  /\ co \in idle
  /\ live' = live \cup {co}
  /\ idle' = idle \ {co}

TakeNew(co) ==
  /\ idle = {}
  /\ co \notin live
  /\ Cardinality(live) < LimitMax
  /\ live' = live \cup {co}
  /\ UNCHANGED idle

Finish(co) ==
  /\ co \in live
  /\ live' = live \ {co}
  /\ idle' = idle \cup {co}

Trim(S) ==
  /\ S \subseteq idle
  /\ idle' = idle \ S
  /\ UNCHANGED live

Next ==
  \/ \E co \in Coroutine : TakeIdle(co) \/ TakeNew(co) \/ Finish(co)
  \/ \E S \in SUBSET Coroutine : Trim(S)

Spec == Init /\ [][Next]_vars
=============================================================================
