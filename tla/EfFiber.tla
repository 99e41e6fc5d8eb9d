------------------------------ MODULE EfFiber ------------------------------
(***************************************************************************)
(* Fibers of ef (src/ef/fiber.c and the context switch written in          *)
(* src/ef/fiber_amd64_linux.s): one system thread and a set of fibers that *)
(* run one at a time, each resumed by another fiber (its parent) and going *)
(* back to it when it yields or exits.                                     *)
(*                                                                         *)
(* A fiber is named by the memory area mmap gave it.  What the machine     *)
(* keeps of a switched-out fiber is its saved stack pointer; the model     *)
(* keeps what that pointer leads back to (variable ctx).  The values that  *)
(* resume and yield hand over are left out: nothing here depends on them.  *)
(***************************************************************************)
EXTENDS Integers

CONSTANTS Coroutine,   \* memory areas that may hold a fiber
          Thread,      \* sched->thread_fiber: the system thread
          Null         \* the parent of a fiber that was never resumed

ASSUME FiberAssumption == /\ Thread \notin Coroutine
                          /\ Null \notin Coroutine \cup {Thread}

VARIABLES status,      \* fiber->status; "unmapped": the area holds no fiber
          ctx,         \* what fiber->stack_ptr leads back to
          parent,      \* fiber->parent
          current      \* sched->current_fiber

FiberVars == <<status, ctx, parent, current>>

Fiber == Coroutine \cup {Thread}

\* "dead"     no fiber, or one that exited: the pointer is stale
\* "entry"    the frame ef_fiber_internal_init built: the fiber function
\* "inYield"  the swap of ef_fiber_yield
\* "inResume" the swap of ef_fiber_resume, waiting for the resumed fiber
\* "running"  the fiber has the processor
Context == {"dead", "entry", "inYield", "inResume", "running"}

FiberTypeOK ==
  /\ status \in [Coroutine -> {"unmapped", "inited", "exited"}]
  /\ ctx \in [Fiber -> Context]
  /\ parent \in [Coroutine -> Fiber \cup {Null}]
  /\ current \in Fiber

FiberStart ==
  /\ status = [co \in Coroutine |-> "unmapped"]
  /\ ctx = [f \in Fiber |-> IF f = Thread THEN "running" ELSE "dead"]
  /\ parent = [co \in Coroutine |-> Null]
  /\ current = Thread

----------------------------------------------------------------------------
(***************************************************************************)
(* Faults, each a plausible slip in the operation it is named after.  No   *)
(* specification uses them: the properties are tried against them.         *)
(***************************************************************************)

\* The parent is recorded on the first resume only.
FaultyResumeKeepsParent(co) ==
  /\ status[co] = "inited"
  /\ ctx[co] \in {"entry", "inYield"}
  /\ parent' = [parent EXCEPT ![co] = IF @ = Null THEN current ELSE @]
  /\ current' = co
  /\ ctx' = [ctx EXCEPT ![current] = "inResume", ![co] = "running"]
  /\ UNCHANGED status

\* The parent is not recorded at all.
FaultyResumeNoParent(co) ==
  /\ status[co] = "inited"
  /\ ctx[co] \in {"entry", "inYield"}
  /\ current' = co
  /\ ctx' = [ctx EXCEPT ![current] = "inResume", ![co] = "running"]
  /\ UNCHANGED <<status, parent>>

\* The exit path leaves the status alone.
FaultyExitKeepsStatus ==
  /\ current # Thread
  /\ current' = parent[current]
  /\ ctx' = [ctx EXCEPT ![current] = "dead", ![parent[current]] = "running"]
  /\ UNCHANGED <<status, parent>>

----------------------------------------------------------------------------
(***************************************************************************)
(* The operations of fiber.h.  The code tests almost none of its callers'  *)
(* obligations: those of resume and yield are guards marked "contract",    *)
(* those of init and delete are stated in FiberNext, so that a caller that *)
(* breaks them takes a step FiberNext does not allow.                      *)
(***************************************************************************)

\* ef_fiber_create when mmap and mprotect succeed: a zeroed area, initialised.
FiberCreate(co) ==
  /\ status[co] = "unmapped"
  /\ status' = [status EXCEPT ![co] = "inited"]
  /\ ctx' = [ctx EXCEPT ![co] = "entry"]
  /\ parent' = [parent EXCEPT ![co] = Null]
  /\ UNCHANGED current

\* ef_fiber_init on an area that already holds a fiber.
FiberInit(co) ==
  /\ status' = [status EXCEPT ![co] = "inited"]
  /\ ctx' = [ctx EXCEPT ![co] = "entry"]
  /\ UNCHANGED <<parent, current>>

\* ef_fiber_delete of each fiber of S.
FiberDelete(S) ==
  /\ status' = [co \in Coroutine |-> IF co \in S THEN "unmapped" ELSE status[co]]
  /\ ctx' = [f \in Fiber |-> IF f \in S THEN "dead" ELSE ctx[f]]
  /\ UNCHANGED <<parent, current>>

\* ef_fiber_resume past its status test, and the swap; contract: the fiber is
\* suspended, so that its stack pointer leads into itself.
FiberResume(co) ==
  /\ status[co] = "inited"
  /\ ctx[co] \in {"entry", "inYield"}
  /\ parent' = [parent EXCEPT ![co] = current]
  /\ current' = co
  /\ ctx' = [ctx EXCEPT ![current] = "inResume", ![co] = "running"]
  /\ UNCHANGED status

\* ef_fiber_yield; contract: the system thread has no parent to yield to.
FiberYield ==
  /\ current # Thread
  /\ current' = parent[current]
  /\ ctx' = [ctx EXCEPT ![current] = "inYield", ![parent[current]] = "running"]
  /\ UNCHANGED <<status, parent>>

\* The fiber function returned into _ef_fiber_exit.
FiberExit ==
  /\ current # Thread
  /\ status' = [status EXCEPT ![current] = "exited"]
  /\ current' = parent[current]
  /\ ctx' = [ctx EXCEPT ![current] = "dead", ![parent[current]] = "running"]
  /\ UNCHANGED parent

\* Only an exited fiber is initialised again.
MayInit(co) == status[co] = "exited"

\* A fiber on the way back from the running one is not deleted, "of course
\* the fiber cannot delete itself".
MayDelete(co) == status[co] # "unmapped" /\ ctx[co] \notin {"running", "inResume"}

FiberNext ==
  \/ \E co \in Coroutine : \/ FiberCreate(co)
                          \/ (MayInit(co) /\ FiberInit(co))
                          \/ FiberResume(co)
  \/ \E S \in SUBSET Coroutine : (\A co \in S : MayDelete(co)) /\ FiberDelete(S)
  \/ FiberYield
  \/ FiberExit

FiberSpec == FiberStart /\ [][FiberNext]_FiberVars

----------------------------------------------------------------------------
Active(f) == ctx[f] \in {"running", "inResume"}

\* A fiber has the status its saved context needs: what can be entered or
\* gone back to is initialised, what exited or is unmapped cannot.
StatusMatchesContext ==
  \A co \in Coroutine : status[co] = "inited" <=> ctx[co] # "dead"

\* Exactly the current fiber runs, whatever the depth of nested resumes
\* (fiber.c:134-136 and 149-150, fiber_amd64_linux.s:75-77).
OneRuns == \A f \in Fiber : ctx[f] = "running" <=> f = current

\* Every fiber on the way back from the running one was resumed by a live
\* fiber that waits in its own ef_fiber_resume, and no two by the same one:
\* so yield and exit always return into the resume call that started the
\* fiber, never onto a stale stack (fiber.c:152, fiber_amd64_linux.s:78).
ReturnToResumer ==
  /\ Active(Thread)
  /\ \A co \in Coroutine : Active(co) =>
       /\ parent[co] \in Fiber
       /\ ctx[parent[co]] = "inResume"
  /\ \A co, co2 \in Coroutine :
       Active(co) /\ Active(co2) /\ parent[co] = parent[co2] => co = co2

FiberInv == FiberTypeOK /\ StatusMatchesContext /\ OneRuns /\ ReturnToResumer
=============================================================================
