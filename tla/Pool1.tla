------------------------------- MODULE Pool1 -------------------------------
(***************************************************************************)
(* The thread pool of src/examples/pool1 (threadpool.cpp, condition.cpp)   *)
(* with its main program: one mutex, one condition variable, a list of     *)
(* tasks, workers that are created on demand and leave after two seconds   *)
(* without work, and a main thread that adds tasks and destroys the pool.  *)
(*                                                                         *)
(* What a thread does from taking the mutex to releasing it or waiting is  *)
(* one step.  The mutex itself is only visible where a call returns with   *)
(* it held.  A task is its number; running it takes no step of its own.    *)
(***************************************************************************)
EXTENDS Integers, Sequences, FiniteSets, Functions

CONSTANTS Thread,      \* worker threads; a finished one's name is used again
          MaxThreads,  \* pool->max_threads
          Tasks,       \* how many tasks main adds before it destroys the pool
          Waits        \* whether workers may be without work for two seconds:
                       \* a set of answers, of which a behaviour has one

ASSUME Pool1Assumption == /\ IsFiniteSet(Thread)
                          /\ MaxThreads \in Nat \ {0}
                          /\ MaxThreads <= Cardinality(Thread)
                          /\ Tasks \in Nat
                          /\ Waits \subseteq BOOLEAN

VARIABLES
  locked,    \* main has returned from a call without unlocking the mutex
  queue,     \* the tasks from pool->first to pool->last
  counter,   \* pool->counter
  idle,      \* pool->idle
  quit,      \* pool->quit
  worker,    \* where each worker is
  timedOut,  \* its local variable timeout
  started,   \* the tasks taken off the list so far, in order
  main,      \* where main is
  next,      \* the task main adds next
  impatient  \* two seconds without work do occur in this behaviour

poolVars == <<locked, counter, idle, quit, impatient>>
vars == <<poolVars, queue, worker, timedOut, started, main, next>>

\* "none"     no such thread
\* "start"    at line 113, before the mutex
\* "waiting"  in condition_timedwait
\* "woken"    signalled or timed out, before it has the mutex again
\* "running"  running a task or before the mutex at line 149
WorkerState == {"none", "start", "waiting", "woken", "running"}

TypeOK ==
  /\ locked \in BOOLEAN
  /\ queue \in Seq(1 .. Tasks)
  /\ counter \in Nat
  /\ idle \in Nat
  /\ quit \in BOOLEAN
  /\ worker \in [Thread -> WorkerState]
  /\ timedOut \in [Thread -> BOOLEAN]
  /\ started \in Seq(1 .. Tasks)
  /\ main \in {"adding", "waiting", "woken", "returned"}
  /\ next \in 1 .. Tasks + 1
  /\ impatient \in Waits

Init ==
  /\ locked = FALSE
  /\ queue = << >>
  /\ counter = 0
  /\ idle = 0
  /\ quit = FALSE
  /\ worker = [w \in Thread |-> "none"]
  /\ timedOut = [w \in Thread |-> FALSE]
  /\ started = << >>
  /\ main = "adding"
  /\ next = 1
  /\ impatient \in Waits

----------------------------------------------------------------------------
(***************************************************************************)
(* Faults, each a plausible slip in the operation it is named after.  No   *)
(* specification uses them: the properties are tried against them.         *)
(***************************************************************************)

\* idle is counted down by a thread that never counted up.
FaultyIdleAfter(w) == idle - 1

\* A task is added at the head of the list.
FaultyWithTask == <<next>> \o queue

\* A worker that leaves is not counted down.
FaultyOneLess == counter

\* A worker leaves as soon as the pool is being destroyed.
FaultyMayQuit == quit

\* Destroy does not wake the idle workers.
FaultyBroadcast == worker

----------------------------------------------------------------------------
(***************************************************************************)
(* The condition variable.                                                 *)
(***************************************************************************)

\* pthread_cond_signal with worker threads waiting or none.
Signal ==
  \/ \E w \in Thread :
       /\ worker[w] = "waiting"
       /\ worker' = [worker EXCEPT ![w] = "woken"]
  \/ /\ \A w \in Thread : worker[w] # "waiting"
     /\ UNCHANGED worker

\* pthread_cond_broadcast.
Broadcast == [w \in Thread |-> IF worker[w] = "waiting" THEN "woken" ELSE worker[w]]

\* The wait ends without a signal, as POSIX allows.
Spurious ==
  /\ \/ /\ \E w \in Thread : /\ worker[w] = "waiting"
                             /\ worker' = [worker EXCEPT ![w] = "woken"]
        /\ UNCHANGED main
     \/ /\ main = "waiting"
        /\ main' = "woken"
        /\ UNCHANGED worker
  /\ UNCHANGED <<poolVars, queue, timedOut, started, next>>

\* Two seconds have passed: ETIMEDOUT.
Timeout(w) ==
  /\ impatient
  /\ worker[w] = "waiting"
  /\ worker' = [worker EXCEPT ![w] = "woken"]
  /\ timedOut' = [timedOut EXCEPT ![w] = TRUE]
  /\ UNCHANGED <<poolVars, queue, started, main, next>>

----------------------------------------------------------------------------
(***************************************************************************)
(* thread_routine.                                                         *)
(***************************************************************************)

\* What makes the loop of line 117 end.
Ready == queue # << >> \/ quit

\* A worker that has the mutex and goes on to line 133.
Proceeds(w) ==
  \/ worker[w] = "start" /\ Ready
  \/ worker[w] = "woken" /\ (Ready \/ timedOut[w])

\* pool->idle after line 133, the count at line 114 included.
IdleAfter(w) == IF worker[w] = "woken" THEN idle - 1 ELSE idle

\* Lines 113-124: nothing to do, the worker waits.
Wait(w) ==
  /\ ~locked
  /\ ~Ready
  /\ \/ worker[w] = "start" /\ idle' = idle + 1
     \/ worker[w] = "woken" /\ ~timedOut[w] /\ UNCHANGED idle
  /\ worker' = [worker EXCEPT ![w] = "waiting"]
  /\ UNCHANGED <<locked, counter, quit, impatient, queue, timedOut, started, main, next>>

\* Lines 133-145: the worker takes the first task and runs it.
Take(w) ==
  /\ ~locked
  /\ Proceeds(w)
  /\ queue # << >>
  /\ idle' = IdleAfter(w)
  /\ queue' = Tail(queue)
  /\ started' = Append(started, Head(queue))
  /\ worker' = [worker EXCEPT ![w] = "running"]
  /\ UNCHANGED <<locked, counter, quit, impatient, timedOut, main, next>>

\* A worker that has the mutex at line 153: after a task, or with none to run.
AtEnd(w) == worker[w] = "running" \/ (Proceeds(w) /\ queue = << >>)

MayQuit == quit /\ queue = << >>

OneLess == counter - 1

\* The worker is gone.
Gone(w) ==
  /\ counter' = OneLess
  /\ idle' = IdleAfter(w)
  /\ worker' = [worker EXCEPT ![w] = "none"]
  /\ timedOut' = [timedOut EXCEPT ![w] = FALSE]
  /\ UNCHANGED <<locked, quit, impatient, queue, started, next>>

\* Lines 153-163: the pool is being destroyed and the list is empty; the last
\* worker signals main.
QuitExit(w) ==
  /\ ~locked
  /\ AtEnd(w)
  /\ MayQuit
  /\ Gone(w)
  /\ main' = IF counter' = 0 /\ main = "waiting" THEN "woken" ELSE main

\* Lines 166-171: the worker's last wait timed out.
TimeoutExit(w) ==
  /\ ~locked
  /\ AtEnd(w)
  /\ ~MayQuit
  /\ timedOut[w]
  /\ Gone(w)
  /\ UNCHANGED main

\* Line 173, and timeout is reset at line 112.
Again(w) ==
  /\ ~locked
  /\ AtEnd(w)
  /\ ~MayQuit
  /\ ~timedOut[w]
  /\ worker' = [worker EXCEPT ![w] = "start"]
  /\ UNCHANGED <<poolVars, queue, timedOut, started, main, next>>

----------------------------------------------------------------------------
(***************************************************************************)
(* main: threadpool_add_task for each task, then threadpool_destroy.       *)
(***************************************************************************)

WithTask == Append(queue, next)

\* Lines 42-56.
Enqueue ==
  /\ main = "adding"
  /\ next <= Tasks
  /\ ~locked
  /\ queue' = WithTask
  /\ next' = next + 1

\* Lines 58-61: some worker counts as idle.
AddSignal ==
  /\ Enqueue
  /\ idle > 0
  /\ Signal
  /\ UNCHANGED <<poolVars, timedOut, started, main>>

\* Lines 62-68.
AddCreate ==
  /\ Enqueue
  /\ idle = 0
  /\ counter < MaxThreads
  /\ \E w \in Thread : /\ worker[w] = "none"
                       /\ worker' = [worker EXCEPT ![w] = "start"]
  /\ counter' = counter + 1
  /\ UNCHANGED <<locked, idle, quit, impatient, timedOut, started, main>>

\* Lines 69-73: the call returns with the mutex held.
AddFull ==
  /\ Enqueue
  /\ idle = 0
  /\ counter >= MaxThreads
  /\ locked' = TRUE
  /\ UNCHANGED <<counter, idle, quit, impatient, worker, timedOut, started, main>>

\* Lines 80-97 up to the wait, or the return at once, with the mutex held, when
\* there is no worker.
Destroy ==
  /\ main = "adding"
  /\ next > Tasks
  /\ ~locked
  /\ quit' = TRUE
  /\ IF counter > 0
     THEN /\ worker' = IF idle > 0 THEN Broadcast ELSE worker
          /\ main' = "waiting"
          /\ UNCHANGED locked
     ELSE /\ main' = "returned"
          /\ locked' = TRUE
          /\ UNCHANGED worker
  /\ UNCHANGED <<counter, idle, impatient, queue, timedOut, started, next>>

\* Lines 94-99 after a wake-up.
MainWakes ==
  /\ main = "woken"
  /\ ~locked
  /\ main' = IF counter > 0 THEN "waiting" ELSE "returned"
  /\ UNCHANGED <<poolVars, queue, worker, timedOut, started, next>>

\* The program has ended.
Exited == main = "returned" /\ UNCHANGED vars

----------------------------------------------------------------------------
WorkerStep(w) == Wait(w) \/ Take(w) \/ QuitExit(w) \/ TimeoutExit(w) \/ Again(w)

MainStep == AddSignal \/ AddCreate \/ AddFull \/ Destroy \/ MainWakes

Next ==
  \/ \E w \in Thread : WorkerStep(w) \/ Timeout(w)
  \/ MainStep
  \/ Spurious
  \/ Exited

Spec == Init /\ [][Next]_vars

\* Every thread that can run does, and gets the mutex in the end: it is never
\* held for long, and a thread that keeps finding it free is not passed over.
Fairness ==
  /\ WF_vars(MainStep)
  /\ \A w \in Thread : WF_vars(WorkerStep(w))

FairSpec == Spec /\ Fairness

----------------------------------------------------------------------------
(***************************************************************************)
(* Properties.                                                             *)
(***************************************************************************)

\* counter is the number of workers there are and idle that of the workers
\* between lines 114 and 133, over every order of creations, wake-ups, timeouts
\* and exits; there are never more than max_threads.
CountsThreads ==
  /\ counter = Cardinality({w \in Thread : worker[w] # "none"})
  /\ idle = Cardinality({w \in Thread : worker[w] \in {"waiting", "woken"}})
  /\ counter <= MaxThreads

\* The tasks added are those started and those on the list: each is run at
\* most once and in the order of the calls, whoever takes it.
InOrder == started \o queue = [t \in 1 .. next - 1 |-> t]

\* The comment at line 156: when no worker is left, main is told that all tasks
\* are done.  So main never waits for the last worker after it has gone.
LastWorkerTellsMain == main = "waiting" => counter > 0

\* Line 71 tells the caller to wait, the task is on the list: every task added
\* is run.
TasksRun == \A t \in 1 .. Tasks : next > t ~> t \in Range(started)

\* A call found the pool full and has returned with the mutex.
Full == locked /\ main = "adding"

\* Where workers get work in time, every task is run unless the pool is full
\* once: whether a task finds a worker waiting, woken for another task, busy or
\* not there at all, somebody takes it.
TasksRunUnlessFull ==
  \A t \in 1 .. Tasks : next > t /\ ~impatient ~> t \in Range(started) \/ Full

\* And threadpool_destroy returns: whatever the workers are doing when it is
\* called, the last of them leaves by a way that wakes main.
DestroyReturns == quit /\ ~impatient ~> main = "returned"

\* When it has returned every worker has gone, and where workers get work in
\* time every task has been run.
DestroyedMeansDone ==
  main = "returned" =>
    /\ \A w \in Thread : worker[w] = "none"
    /\ impatient \/ queue = << >>
=============================================================================
