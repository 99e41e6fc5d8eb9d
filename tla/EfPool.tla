------------------------------- MODULE EfPool -------------------------------
(***************************************************************************)
(* The coroutine pool of ef (src/ef/coroutine.c): creates coroutines up to *)
(* limit_max, keeps the exited ones on a free list for reuse and gives the *)
(* longest idle of them back to the system in ef_coroutine_pool_shrink.    *)
(*                                                                         *)
(* full_list is a set: no code walks it.  free_list is a sequence whose    *)
(* first element is next to the list head.  The two counters are variables *)
(* of their own because the code tests them instead of the lists.  The     *)
(* run_count statistics are written and never read: they are left out.     *)
(***************************************************************************)
EXTENDS EfFiber, FiniteSets, Sequences, Functions

CONSTANTS LimitMin,    \* pool->limit_min
          LimitMax,    \* pool->limit_max
          Second,      \* clock units in a second; idle times use the unit too
          MaxNow,      \* bound on the clock
          ShrinkArgs   \* pairs <<idle time, count>> shrink is called with

ASSUME PoolAssumption == /\ IsFiniteSet(Coroutine)
                         /\ LimitMin \in Nat
                         /\ LimitMax \in Nat
                         /\ Second \in Nat \ {0}
                         /\ MaxNow \in Nat
                         /\ ShrinkArgs \subseteq Nat \X Int

VARIABLES full,        \* the coroutines on full_list
          freeList,    \* free_list
          fullCount,   \* pool->full_count
          freeCount,   \* pool->free_count
          lastRun,     \* co->last_run_time
          now          \* what gettimeofday returns

poolVars == <<full, freeList, fullCount, freeCount>>
vars == <<FiberVars, poolVars, lastRun, now>>

TypeOK ==
  /\ FiberTypeOK
  /\ full \subseteq Coroutine
  /\ freeList \in Seq(Coroutine)
  /\ fullCount \in Int
  /\ freeCount \in Int
  /\ lastRun \in [Coroutine -> Nat]
  /\ now \in Nat

Init ==
  /\ FiberStart
  /\ full = {}
  /\ freeList = << >>
  /\ fullCount = 0
  /\ freeCount = 0
  /\ lastRun = [co \in Coroutine |-> 0]
  /\ now = 0

----------------------------------------------------------------------------
(***************************************************************************)
(* Faults, each a plausible slip in the operation it is named after.  No   *)
(* specification uses them: the properties are tried against them.         *)
(***************************************************************************)

\* Reuse forgets to count down.
FaultyReuseKeepsCount ==
  /\ freeCount > 0
  /\ freeList' = Tail(freeList)
  /\ FiberInit(Head(freeList))
  /\ UNCHANGED <<full, fullCount, freeCount, lastRun, now>>

\* Reuse leaves the coroutine on the list.
FaultyReuseKeepsEntry ==
  /\ freeCount > 0
  /\ freeCount' = freeCount - 1
  /\ FiberInit(Head(freeList))
  /\ UNCHANGED <<full, fullCount, freeList, lastRun, now>>

\* A new coroutine is made although an exited one is at hand.
FaultyCreateEager(co) ==
  /\ fullCount < LimitMax
  /\ FiberCreate(co)
  /\ fullCount' = fullCount + 1
  /\ full' = full \cup {co}
  /\ UNCHANGED <<freeList, freeCount, lastRun, now>>

\* Exited coroutines are chained before the list head.
FaultyRecycled(co) == Append(freeList, co)

\* Seconds are compared, the fractions forgotten.
FaultyExpired(co, idle) ==
  ((now \div Second) - (lastRun[co] \div Second)) * Second >= idle

\* The budget ignores limit_min.
FaultyBudget(count) == IF count < 0 THEN -count ELSE count

\* Shrink unchains as many coroutines, from the other end.
FaultyButLastFree(n) == SubSeq(freeList, n + 1, Len(freeList))

----------------------------------------------------------------------------
\* ef_coroutine_create, an exited coroutine is at hand.
CreateFromFree ==
  /\ freeCount > 0
  /\ freeCount' = freeCount - 1
  /\ freeList' = Tail(freeList)
  /\ FiberInit(Head(freeList))
  /\ UNCHANGED <<full, fullCount, lastRun, now>>

\* The limit test of ef_coroutine_create.
BelowMax == fullCount < LimitMax

\* ef_coroutine_create, a new fiber in an area co that is not in use.  (When
\* the limit is reached or mmap fails it returns NULL and changes nothing.)
CreateNew(co) ==
  /\ freeCount <= 0
  /\ BelowMax
  /\ FiberCreate(co)
  /\ fullCount' = fullCount + 1
  /\ full' = full \cup {co}
  /\ UNCHANGED <<freeList, freeCount, lastRun, now>>

\* ef_coroutine_resume up to the switch.
Resume(co) == FiberResume(co) /\ UNCHANGED <<poolVars, lastRun, now>>

\* ef_fiber_yield called by the running coroutine: ef_coroutine_resume finds
\* the coroutine not exited and only returns.
Yield == FiberYield /\ UNCHANGED <<poolVars, lastRun, now>>

\* Where ef_coroutine_resume chains an exited coroutine.
Recycled(co) == <<co>> \o freeList

\* The running coroutine returned: back in the parent, ef_coroutine_resume
\* finds it exited and chains it to free_list.
Exit ==
  /\ FiberExit
  /\ lastRun' = [lastRun EXCEPT ![current] = now]
  /\ freeList' = Recycled(current)
  /\ freeCount' = freeCount + 1
  /\ UNCHANGED <<full, fullCount, now>>

----------------------------------------------------------------------------
\* The idle test of shrink: a difference of whole seconds against the idle
\* time, fractions compared only when the two are equal.
Expired(co, idle) ==
  LET secs == (now \div Second) - (lastRun[co] \div Second)
      frac == (now % Second) - (lastRun[co] % Second)
  IN  \/ secs * Second > idle
      \/ secs * Second = idle /\ frac >= idle % Second

\* How many coroutines shrink may free: max_count after its two adjustments.
Budget(count) ==
  LET beyondMin == fullCount - LimitMin
      capped == IF count > beyondMin THEN beyondMin ELSE count
  IN  IF capped < 0 THEN -capped ELSE capped

\* The n elements next to the tail of free_list, and the others.
LastFree(n) == {freeList[i] : i \in Len(freeList) - n + 1 .. Len(freeList)}
ButLastFree(n) == SubSeq(freeList, 1, Len(freeList) - n)

\* The loop of shrink leaves after n elements: the budget or the list is
\* used up, or the next one has not been idle for long enough.
ShrinkStops(n, idle, count) ==
  /\ n <= Budget(count)
  /\ \A co \in LastFree(n) : Expired(co, idle)
  /\ \/ n = Budget(count)
     \/ n = Len(freeList)
     \/ n < Len(freeList) /\ ~Expired(freeList[Len(freeList) - n], idle)

\* ef_coroutine_pool_shrink past its early return, freeing n coroutines.
ShrinkBy(n, idle, count) ==
  /\ freeCount > 0
  /\ count > 0 => fullCount > LimitMin
  /\ ShrinkStops(n, idle, count)
  /\ FiberDelete(LastFree(n))
  /\ full' = full \ LastFree(n)
  /\ fullCount' = fullCount - n
  /\ freeList' = ButLastFree(n)
  /\ freeCount' = freeCount - n
  /\ UNCHANGED <<lastRun, now>>

Shrink(idle, count) == \E n \in 0 .. Len(freeList) : ShrinkBy(n, idle, count)

\* gettimeofday advances.
Tick == now < MaxNow /\ now' = now + 1 /\ UNCHANGED <<FiberVars, poolVars, lastRun>>

Next ==
  \/ CreateFromFree
  \/ \E co \in Coroutine : CreateNew(co) \/ Resume(co)
  \/ Yield
  \/ Exit
  \/ \E args \in ShrinkArgs : Shrink(args[1], args[2])
  \/ Tick

Spec == Init /\ [][Next]_vars

----------------------------------------------------------------------------
\* The counters the code tests instead of walking its lists are exact
\* (coroutine.c:51, 73, 96, 142, 143).
CountsMatch ==
  /\ freeCount = Len(freeList)
  /\ fullCount = Cardinality(full)

\* free_list holds the exited coroutines of the pool, each once: what create
\* takes from it is never a coroutine some caller still holds, and no exited
\* coroutine is lost to both lists (coroutine.c:52, 91-97).
FreeListIsExited ==
  /\ full = {co \in Coroutine : status[co] # "unmapped"}
  /\ Range(freeList) = {co \in full : status[co] = "exited"}
  /\ \A i, j \in 1 .. Len(freeList) : freeList[i] = freeList[j] => i = j

\* "the maximum number of coroutines this pool can hold" (coroutine.h:85).
WithinLimit == fullCount <= LimitMax

\* Reuse and recycling at the head keep free_list sorted, the longest idle at
\* the tail: shrink may stop at the first one that is too young.
FreeListOrdered ==
  /\ \A i, j \in 1 .. Len(freeList) : i < j => lastRun[freeList[i]] >= lastRun[freeList[j]]
  /\ \A co \in Coroutine : lastRun[co] <= now

PoolInv == CountsMatch /\ FreeListIsExited /\ WithinLimit /\ FreeListOrdered

\* A shrink with a positive count never leaves fewer than limit_min
\* coroutines (coroutine.h:80, coroutine.c:109-121).
KeepsMinimum ==
  [][\A args \in ShrinkArgs :
       args[2] > 0 /\ Shrink(args[1], args[2]) => fullCount' >= LimitMin]_vars

\* Shrink gives up the longest idle coroutines, and stopping early it leaves
\* none that its own test would free (coroutine.c:132-153).
IdlestFreedFirst ==
  [][\A args \in ShrinkArgs :
       Shrink(args[1], args[2]) =>
         /\ \A co \in full \ full', kept \in Range(freeList') : lastRun[co] <= lastRun[kept]
         /\ \/ Cardinality(full \ full') = Budget(args[2])
            \/ \A kept \in Range(freeList') : ~Expired(kept, args[1])]_vars

\* "free(delete) at most max_count coroutines whose idle time exceed
\* idle_millisecs" (coroutine.h:133), reaching it counted as exceeding it.  True of
\* whole seconds, as main.c has them: for others line 139 is satisfied too early.
OnlyIdleFreed ==
  [][\A args \in ShrinkArgs :
       Shrink(args[1], args[2]) =>
         \A co \in full \ full' : now - lastRun[co] >= args[1]]_vars

\* The pool never initialises or deletes a fiber that could still run
\* (fiber.c:99-115 leave that to their caller).
MeetsFiberContract == FiberSpec

\* The pool keeps the promise of EfPoolSpec.
Pool == INSTANCE EfPoolSpec WITH live <- full \ Range(freeList), idle <- Range(freeList)
ImplementsPoolSpec == Pool!Spec
=============================================================================
