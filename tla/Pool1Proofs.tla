----------------------------- MODULE Pool1Proofs -----------------------------
(***************************************************************************)
(* What Pool1 guarantees for any set of workers, any maximum and any       *)
(* number of tasks.  The counters are exact because each step moves one    *)
(* worker and counts it; that nothing is left on the list when main is     *)
(* told that no worker is, needs that a worker leaves before its time only *)
(* when its wait has timed out.                                            *)
(***************************************************************************)
EXTENDS Pool1, FiniteSetTheorems, TLAPS

\* The workers in one of the given places.
At(f, places) == {w \in Thread : f[w] \in places}

Alive == {"start", "waiting", "woken", "running"}
Idling == {"waiting", "woken"}

\* Where no wait times out, no worker has seen a timeout and tasks on the list mean
\* that there are workers.
NoneLeft ==
  ~impatient => /\ \A w \in Thread : ~timedOut[w]
                /\ counter = 0 => queue = << >>

\* main has returned only after the last worker has gone.
Returned == main = "returned" => counter = 0

IInv == TypeOK /\ CountsThreads /\ InOrder /\ NoneLeft /\ Returned

----------------------------------------------------------------------------
(***************************************************************************)
(* Counting workers.                                                       *)
(***************************************************************************)
LEMMA AtIsFinite ==
  ASSUME NEW f, NEW places
  PROVE  IsFiniteSet(At(f, places)) /\ Cardinality(At(f, places)) \in Nat
<1>1. At(f, places) \in SUBSET Thread
  BY DEF At
<1> QED
  BY <1>1, Pool1Assumption, FS_Subset, FS_CardinalityType

LEMMA AtNone ==
  ASSUME NEW f, NEW places, Cardinality(At(f, places)) = 0
  PROVE  \A w \in Thread : f[w] \notin places
<1>1. At(f, places) = {}
  BY AtIsFinite, FS_EmptySet
<1> QED
  BY <1>1 DEF At

\* A worker that comes into, goes out of, or stays on its side of the places.
LEMMA CountUp ==
  ASSUME NEW f \in [Thread -> WorkerState], NEW w \in Thread, NEW to \in WorkerState, NEW places,
         to \in places, f[w] \notin places
  PROVE  Cardinality(At([f EXCEPT ![w] = to], places)) = Cardinality(At(f, places)) + 1
<1>1. At([f EXCEPT ![w] = to], places) = At(f, places) \cup {w} /\ w \notin At(f, places)
  BY DEF At
<1> QED
  BY <1>1, AtIsFinite, FS_AddElement

LEMMA CountDown ==
  ASSUME NEW f \in [Thread -> WorkerState], NEW w \in Thread, NEW to \in WorkerState, NEW places,
         to \notin places, f[w] \in places
  PROVE  Cardinality(At([f EXCEPT ![w] = to], places)) = Cardinality(At(f, places)) - 1
<1>1. At([f EXCEPT ![w] = to], places) = At(f, places) \ {w} /\ w \in At(f, places)
  BY DEF At
<1> QED
  BY <1>1, AtIsFinite, FS_RemoveElement

LEMMA CountSame ==
  ASSUME NEW f \in [Thread -> WorkerState], NEW w \in Thread, NEW to \in WorkerState, NEW places,
         to \in places <=> f[w] \in places
  PROVE  Cardinality(At([f EXCEPT ![w] = to], places)) = Cardinality(At(f, places))
<1>1. At([f EXCEPT ![w] = to], places) = At(f, places)
  BY DEF At
<1> QED
  BY <1>1

\* CountsThreads in these terms.
LEMMA CountsAt ==
  ASSUME TypeOK
  PROVE  CountsThreads <=> /\ counter = Cardinality(At(worker, Alive))
                           /\ idle = Cardinality(At(worker, Idling))
                           /\ counter <= MaxThreads
<1>1. {w \in Thread : worker[w] # "none"} = At(worker, Alive)
  BY DEF TypeOK, WorkerState, At, Alive
<1>2. {w \in Thread : worker[w] \in {"waiting", "woken"}} = At(worker, Idling)
  BY DEF At, Idling
<1> QED
  BY <1>1, <1>2 DEF CountsThreads

\* A count that goes up, down or stays as the worker comes, goes or stays.
Follows(count, before, after) ==
  /\ after /\ ~before => count' = count + 1
  /\ ~after /\ before => count' = count - 1
  /\ (after <=> before) => count' = count

\* One worker moves, and the counters with it.
LEMMA MoveCounts ==
  ASSUME IInv, NEW w \in Thread, NEW to \in WorkerState, worker' = [worker EXCEPT ![w] = to],
         Follows(counter, worker[w] \in Alive, to \in Alive),
         Follows(idle, worker[w] \in Idling, to \in Idling)
  PROVE  /\ worker' \in [Thread -> WorkerState]
         /\ counter' = Cardinality(At(worker', Alive)) /\ counter' \in Nat
         /\ idle' = Cardinality(At(worker', Idling)) /\ idle' \in Nat
<1>1. /\ worker \in [Thread -> WorkerState]
      /\ counter = Cardinality(At(worker, Alive)) /\ idle = Cardinality(At(worker, Idling))
  BY CountsAt DEF IInv, TypeOK
<1>2. counter' = Cardinality(At(worker', Alive))
  <2>1. CASE to \in Alive /\ worker[w] \notin Alive
    <3>1. Cardinality(At([worker EXCEPT ![w] = to], Alive)) = Cardinality(At(worker, Alive)) + 1
      BY <1>1, <2>1, CountUp
    <3> QED
      BY <1>1, <2>1, <3>1 DEF Follows
  <2>2. CASE to \notin Alive /\ worker[w] \in Alive
    <3>1. Cardinality(At([worker EXCEPT ![w] = to], Alive)) = Cardinality(At(worker, Alive)) - 1
      BY <1>1, <2>2, CountDown
    <3> QED
      BY <1>1, <2>2, <3>1 DEF Follows
  <2>3. CASE to \in Alive <=> worker[w] \in Alive
    <3>1. Cardinality(At([worker EXCEPT ![w] = to], Alive)) = Cardinality(At(worker, Alive))
      BY <1>1, <2>3, CountSame
    <3> QED
      BY <1>1, <2>3, <3>1 DEF Follows
  <2> QED
    BY <2>1, <2>2, <2>3
<1>3. idle' = Cardinality(At(worker', Idling))
  <2>1. CASE to \in Idling /\ worker[w] \notin Idling
    <3>1. Cardinality(At([worker EXCEPT ![w] = to], Idling)) = Cardinality(At(worker, Idling)) + 1
      BY <1>1, <2>1, CountUp
    <3> QED
      BY <1>1, <2>1, <3>1 DEF Follows
  <2>2. CASE to \notin Idling /\ worker[w] \in Idling
    <3>1. Cardinality(At([worker EXCEPT ![w] = to], Idling)) = Cardinality(At(worker, Idling)) - 1
      BY <1>1, <2>2, CountDown
    <3> QED
      BY <1>1, <2>2, <3>1 DEF Follows
  <2>3. CASE to \in Idling <=> worker[w] \in Idling
    <3>1. Cardinality(At([worker EXCEPT ![w] = to], Idling)) = Cardinality(At(worker, Idling))
      BY <1>1, <2>3, CountSame
    <3> QED
      BY <1>1, <2>3, <3>1 DEF Follows
  <2> QED
    BY <2>1, <2>2, <2>3
<1>4. counter' \in Nat /\ idle' \in Nat
  BY <1>2, <1>3, AtIsFinite
<1>5. worker' \in [Thread -> WorkerState]
  BY <1>1
<1> QED
  BY <1>2, <1>3, <1>4, <1>5

\* Waiting workers are woken: they are counted as before.
LEMMA WakeCounts ==
  ASSUME IInv, worker' \in [Thread -> WorkerState], UNCHANGED <<counter, idle>>,
         \A w \in Thread : worker'[w] = worker[w] \/ (worker[w] = "waiting" /\ worker'[w] = "woken")
  PROVE  /\ counter' = Cardinality(At(worker', Alive)) /\ idle' = Cardinality(At(worker', Idling))
         /\ counter' \in Nat /\ idle' \in Nat
<1>1. At(worker', Alive) = At(worker, Alive) /\ At(worker', Idling) = At(worker, Idling)
  BY DEF At, Alive, Idling
<1> QED
  BY <1>1, CountsAt DEF IInv, TypeOK

----------------------------------------------------------------------------
(***************************************************************************)
(* The list.                                                               *)
(***************************************************************************)
LEMMA TakeKeepsOrder ==
  ASSUME NEW S, NEW s \in Seq(S), NEW q \in Seq(S), q # << >>
  PROVE  /\ Append(s, Head(q)) \in Seq(S) /\ Tail(q) \in Seq(S)
         /\ Append(s, Head(q)) \o Tail(q) = s \o q
OBVIOUS

LEMMA AppendShift ==
  ASSUME NEW S, NEW s \in Seq(S), NEW q \in Seq(S), NEW n \in S
  PROVE  s \o Append(q, n) = Append(s \o q, n)
OBVIOUS

LEMMA AppendTask ==
  \A s, q \in Seq(1 .. Tasks) : \A n \in 1 .. Tasks : s \o Append(q, n) = Append(s \o q, n)
<1> DEFINE S == 1 .. Tasks
<1> SUFFICES ASSUME NEW s \in Seq(S), NEW q \in Seq(S), NEW n \in S
             PROVE  s \o Append(q, n) = Append(s \o q, n)
  OBVIOUS
<1> HIDE DEF S
<1> QED
  BY AppendShift

LEMMA FirstTasks ==
  ASSUME NEW n \in Nat \ {0}
  PROVE  Append([t \in 1 .. n - 1 |-> t], n) = [t \in 1 .. n |-> t]
OBVIOUS

\* A task is added at the end of the list.
LEMMA AddKeepsOrder ==
  ASSUME TypeOK, InOrder, next <= Tasks, queue' = Append(queue, next), next' = next + 1, UNCHANGED started
  PROVE  queue' \in Seq(1 .. Tasks) /\ next' \in 1 .. Tasks + 1 /\ InOrder'
<1>1. /\ started \in Seq(1 .. Tasks) /\ queue \in Seq(1 .. Tasks)
      /\ next \in 1 .. Tasks /\ next \in Nat \ {0} /\ next' - 1 = next /\ next' \in 1 .. Tasks + 1
  BY Pool1Assumption DEF TypeOK
<1>2. started \o Append(queue, next) = Append(started \o queue, next)
  BY <1>1, AppendTask
<1>3. Append(queue, next) \in Seq(1 .. Tasks)
  BY <1>1
<1>4. Append(started \o queue, next) = [t \in 1 .. next |-> t]
  BY <1>1, FirstTasks DEF InOrder
<1>5. InOrder'
  BY <1>1, <1>2, <1>4 DEF InOrder
<1> QED
  BY <1>1, <1>3, <1>5

----------------------------------------------------------------------------
(***************************************************************************)
(* The steps.                                                              *)
(***************************************************************************)
LEMMA CountsNext ==
  ASSUME worker' \in [Thread -> WorkerState],
         counter' = Cardinality(At(worker', Alive)), idle' = Cardinality(At(worker', Idling)),
         counter' <= MaxThreads
  PROVE  CountsThreads'
<1>1. {w \in Thread : worker'[w] # "none"} = At(worker', Alive)
  BY DEF WorkerState, At, Alive
<1>2. {w \in Thread : worker'[w] \in {"waiting", "woken"}} = At(worker', Idling)
  BY DEF At, Idling
<1> QED
  BY <1>1, <1>2 DEF CountsThreads

\* There is a worker where one is counted, and one is counted where there is one.
LEMMA SomeWorker ==
  ASSUME IInv
  PROVE  /\ \A w \in Thread : worker[w] # "none" => counter > 0
         /\ idle > 0 => counter > 0
         /\ counter \in Nat /\ idle \in Nat /\ counter <= MaxThreads /\ MaxThreads \in Nat \ {0}
<1>1. /\ counter = Cardinality(At(worker, Alive)) /\ idle = Cardinality(At(worker, Idling))
      /\ counter \in Nat /\ idle \in Nat /\ counter <= MaxThreads
  BY CountsAt DEF IInv, TypeOK
<1>2. counter = 0 => \A w \in Thread : worker[w] \notin Alive
  BY <1>1, AtNone
<1>3. counter = 0 => \A w \in Thread : worker[w] = "none"
  BY <1>2 DEF IInv, TypeOK, WorkerState, Alive
<1>4. counter = 0 => At(worker, Idling) = {}
  BY <1>3 DEF At, Idling
<1>5. counter = 0 => idle = 0
  BY <1>1, <1>4, FS_EmptySet
<1> QED
  BY <1>1, <1>3, <1>5, Pool1Assumption

\* A step of worker w alone.
LEMMA WorkerMoves ==
  ASSUME IInv, NEW w \in Thread, NEW to \in WorkerState, worker' = [worker EXCEPT ![w] = to],
         Follows(counter, worker[w] \in Alive, to \in Alive),
         Follows(idle, worker[w] \in Idling, to \in Idling),
         counter' <= counter,
         main' # "returned",
         queue' \in Seq(1 .. Tasks), started' \in Seq(1 .. Tasks), started' \o queue' = started \o queue,
         timedOut' \in [Thread -> BOOLEAN], \A v \in Thread : timedOut'[v] => timedOut[v],
         ~impatient /\ counter' = 0 => queue' = << >>,
         main' \in {"adding", "waiting", "woken", "returned"},
         UNCHANGED <<locked, quit, impatient, next>>
  PROVE  IInv'
<1>1. /\ worker' \in [Thread -> WorkerState]
      /\ counter' = Cardinality(At(worker', Alive)) /\ counter' \in Nat
      /\ idle' = Cardinality(At(worker', Idling)) /\ idle' \in Nat
  BY MoveCounts
<1>2. TypeOK'
  BY <1>1 DEF IInv, TypeOK
<1>3. CountsThreads'
  BY <1>1, SomeWorker, CountsNext
<1>4. InOrder'
  BY DEF IInv, InOrder
<1>5. NoneLeft' /\ Returned'
  BY DEF IInv, NoneLeft, Returned
<1> QED
  BY <1>2, <1>3, <1>4, <1>5 DEF IInv

LEMMA WorkerIsThere ==
  ASSUME IInv, NEW w \in Thread, worker[w] # "none"
  PROVE  main # "returned" /\ counter > 0
BY SomeWorker DEF IInv, Returned

LEMMA WaitKeeps ==
  ASSUME IInv, NEW w \in Thread, Wait(w)
  PROVE  IInv'
<1>1. worker[w] \in {"start", "woken"} /\ worker' = [worker EXCEPT ![w] = "waiting"]
  BY DEF Wait
<1>2. main # "returned" /\ counter > 0
  BY <1>1, WorkerIsThere
<1>3. UNCHANGED <<locked, counter, quit, impatient, queue, timedOut, started, main, next>>
  BY DEF Wait
<1>4. Follows(counter, worker[w] \in Alive, "waiting" \in Alive)
  BY <1>1, <1>3 DEF Follows, Alive
<1>5. Follows(idle, worker[w] \in Idling, "waiting" \in Idling)
  BY <1>1 DEF Wait, Follows, Idling
<1>6. "waiting" \in WorkerState
  BY DEF WorkerState
<1>7. counter' <= counter /\ counter' # 0
  BY <1>2, <1>3, SomeWorker
<1> QED
  BY <1>1, <1>2, <1>3, <1>4, <1>5, <1>6, <1>7, WorkerMoves DEF IInv, TypeOK

LEMMA TakeKeeps ==
  ASSUME IInv, NEW w \in Thread, Take(w)
  PROVE  IInv'
<1>1. worker[w] \in {"start", "woken"} /\ worker' = [worker EXCEPT ![w] = "running"]
  BY DEF Take, Proceeds
<1>2. main # "returned" /\ counter > 0
  BY <1>1, WorkerIsThere
<1>3. UNCHANGED <<locked, counter, quit, impatient, timedOut, main, next>>
  BY DEF Take
<1>4. Follows(counter, worker[w] \in Alive, "running" \in Alive)
  BY <1>1, <1>3 DEF Follows, Alive
<1>5. Follows(idle, worker[w] \in Idling, "running" \in Idling)
  BY <1>1 DEF Take, IdleAfter, Follows, Idling
<1>6. "running" \in WorkerState
  BY DEF WorkerState
<1>7. counter' <= counter /\ counter' # 0
  BY <1>2, <1>3, SomeWorker
<1>8. queue' \in Seq(1 .. Tasks) /\ started' \in Seq(1 .. Tasks) /\ started' \o queue' = started \o queue
  <2>1. queue \in Seq(1 .. Tasks) /\ started \in Seq(1 .. Tasks) /\ queue # << >>
    BY DEF IInv, TypeOK, Take
  <2>2. queue' = Tail(queue) /\ started' = Append(started, Head(queue))
    BY DEF Take
  <2>3. /\ Append(started, Head(queue)) \in Seq(1 .. Tasks) /\ Tail(queue) \in Seq(1 .. Tasks)
        /\ Append(started, Head(queue)) \o Tail(queue) = started \o queue
    BY <2>1, TakeKeepsOrder, Zenon
  <2> QED
    BY <2>2, <2>3
<1> QED
  BY <1>1, <1>2, <1>3, <1>4, <1>5, <1>6, <1>7, <1>8, WorkerMoves DEF IInv, TypeOK

LEMMA GoneKeeps ==
  ASSUME IInv, NEW w \in Thread, AtEnd(w), Gone(w),
         main' \in {main, "woken"}, ~impatient => queue = << >>
  PROVE  IInv'
<1>1. worker[w] \in {"start", "woken", "running"} /\ worker' = [worker EXCEPT ![w] = "none"]
  BY DEF AtEnd, Proceeds, Gone
<1>2. main # "returned" /\ counter > 0
  BY <1>1, WorkerIsThere
<1>3. UNCHANGED <<locked, quit, impatient, queue, started, next>>
  BY DEF Gone
<1>4. Follows(counter, worker[w] \in Alive, "none" \in Alive)
  BY <1>1 DEF Gone, OneLess, Follows, Alive
<1>5. Follows(idle, worker[w] \in Idling, "none" \in Idling)
  BY <1>1 DEF Gone, IdleAfter, Follows, Idling
<1>6. "none" \in WorkerState
  BY DEF WorkerState
<1>7. counter' <= counter
  BY SomeWorker DEF Gone, OneLess
<1>8. timedOut' \in [Thread -> BOOLEAN] /\ \A v \in Thread : timedOut'[v] => timedOut[v]
  BY DEF IInv, TypeOK, Gone
<1> QED
  BY <1>1, <1>2, <1>3, <1>4, <1>5, <1>6, <1>7, <1>8, WorkerMoves DEF IInv, TypeOK

LEMMA AgainKeeps ==
  ASSUME IInv, NEW w \in Thread, Again(w)
  PROVE  IInv'
<1>1. worker[w] = "running" /\ worker' = [worker EXCEPT ![w] = "start"]
  BY DEF Again, AtEnd, Proceeds, Ready, MayQuit
<1>2. main # "returned" /\ counter > 0
  BY <1>1, WorkerIsThere
<1>3. UNCHANGED <<locked, counter, idle, quit, impatient, queue, timedOut, started, main, next>>
  BY DEF Again, poolVars
<1>4. Follows(counter, worker[w] \in Alive, "start" \in Alive)
  BY <1>1, <1>3 DEF Follows, Alive
<1>5. Follows(idle, worker[w] \in Idling, "start" \in Idling)
  BY <1>1, <1>3 DEF Follows, Idling
<1>6. "start" \in WorkerState
  BY DEF WorkerState
<1>7. counter' <= counter /\ counter' # 0
  BY <1>2, <1>3, SomeWorker
<1> QED
  BY <1>1, <1>2, <1>3, <1>4, <1>5, <1>6, <1>7, WorkerMoves DEF IInv, TypeOK

\* Workers are woken, and nothing else that counts happens.
LEMMA WakesKeep ==
  ASSUME IInv, worker' \in [Thread -> WorkerState], UNCHANGED <<counter, idle, impatient, started>>,
         \A w \in Thread : worker'[w] = worker[w] \/ (worker[w] = "waiting" /\ worker'[w] = "woken"),
         timedOut' \in [Thread -> BOOLEAN], ~impatient => UNCHANGED timedOut,
         locked' \in BOOLEAN, quit' \in BOOLEAN,
         main' \in {"adding", "waiting", "woken", "returned"}, main' = "returned" => counter = 0,
         \/ UNCHANGED <<queue, next>>
         \/ /\ next <= Tasks /\ queue' = Append(queue, next) /\ next' = next + 1 /\ counter > 0
  PROVE  IInv'
<1>1. /\ counter' = Cardinality(At(worker', Alive)) /\ idle' = Cardinality(At(worker', Idling))
      /\ counter' \in Nat /\ idle' \in Nat
  BY WakeCounts
<1>2. CountsThreads'
  BY <1>1, SomeWorker, CountsNext
<1>3. queue' \in Seq(1 .. Tasks) /\ next' \in 1 .. Tasks + 1 /\ InOrder'
  <2>1. CASE UNCHANGED <<queue, next>>
    BY <2>1 DEF IInv, TypeOK, InOrder
  <2>2. CASE next <= Tasks /\ queue' = Append(queue, next) /\ next' = next + 1
    BY <2>2, AddKeepsOrder DEF IInv
  <2> QED
    BY <2>1, <2>2
<1>4. TypeOK'
  BY <1>1, <1>3 DEF IInv, TypeOK
<1>5. NoneLeft' /\ Returned'
  BY SomeWorker DEF IInv, NoneLeft, Returned
<1> QED
  BY <1>2, <1>3, <1>4, <1>5 DEF IInv

LEMMA AddCreateKeeps ==
  ASSUME IInv, AddCreate
  PROVE  IInv'
<1>1. PICK w \in Thread : worker[w] = "none" /\ worker' = [worker EXCEPT ![w] = "start"]
  BY DEF AddCreate
<1>2. /\ counter' = counter + 1 /\ counter < MaxThreads
      /\ UNCHANGED <<locked, idle, quit, impatient, timedOut, started, main>>
      /\ next <= Tasks /\ queue' = Append(queue, next) /\ next' = next + 1 /\ main = "adding"
  BY DEF AddCreate, Enqueue, WithTask
<1>3. "start" \in WorkerState /\ Follows(counter, worker[w] \in Alive, "start" \in Alive)
  BY <1>1, <1>2 DEF WorkerState, Follows, Alive
<1>4. Follows(idle, worker[w] \in Idling, "start" \in Idling)
  BY <1>1, <1>2 DEF Follows, Idling
<1>5. /\ worker' \in [Thread -> WorkerState]
      /\ counter' = Cardinality(At(worker', Alive)) /\ counter' \in Nat
      /\ idle' = Cardinality(At(worker', Idling)) /\ idle' \in Nat
  BY <1>1, <1>3, <1>4, MoveCounts
<1>6. counter' <= MaxThreads /\ counter' # 0
  BY <1>2, SomeWorker
<1>7. CountsThreads'
  BY <1>5, <1>6, CountsNext
<1>8. queue' \in Seq(1 .. Tasks) /\ next' \in 1 .. Tasks + 1 /\ InOrder'
  BY <1>2, AddKeepsOrder DEF IInv
<1>9. TypeOK'
  BY <1>2, <1>5, <1>8 DEF IInv, TypeOK
<1>10. NoneLeft' /\ Returned'
  BY <1>2, <1>6 DEF IInv, NoneLeft, Returned
<1> QED
  BY <1>7, <1>8, <1>9, <1>10 DEF IInv

LEMMA InitKeeps == Init => IInv
<1> SUFFICES ASSUME Init PROVE IInv
  OBVIOUS
<1>1. TypeOK
  <2>1. << >> \in Seq(1 .. Tasks)
    OBVIOUS
  <2>2. 1 \in 1 .. Tasks + 1
    BY Pool1Assumption
  <2>3. worker \in [Thread -> WorkerState] /\ timedOut \in [Thread -> BOOLEAN]
    BY DEF Init, WorkerState
  <2> QED
    BY <2>1, <2>2, <2>3 DEF Init, TypeOK
<1>2. At(worker, Alive) = {} /\ At(worker, Idling) = {}
  BY DEF Init, At, Alive, Idling
<1>3. Cardinality({}) = 0
  BY FS_EmptySet
<1>4. CountsThreads
  <2>1. {w \in Thread : worker[w] # "none"} = {}
    BY DEF Init
  <2>2. {w \in Thread : worker[w] \in {"waiting", "woken"}} = {}
    BY DEF Init
  <2>3. counter = 0 /\ idle = 0 /\ counter <= MaxThreads
    BY Pool1Assumption DEF Init
  <2> QED
    BY <1>3, <2>1, <2>2, <2>3 DEF CountsThreads
<1>5. InOrder
  BY DEF Init, InOrder
<1>6. NoneLeft /\ Returned
  BY DEF Init, NoneLeft, Returned
<1> QED
  BY <1>1, <1>4, <1>5, <1>6 DEF IInv

LEMMA NextKeeps == IInv /\ [Next]_vars => IInv'
<1> SUFFICES ASSUME IInv, [Next]_vars PROVE IInv'
  OBVIOUS
<1>0. TypeOK /\ (main = "returned" => counter = 0)
  BY DEF IInv, Returned
<1>1. ASSUME NEW w \in Thread, WorkerStep(w) PROVE IInv'
  <2>1. CASE Wait(w)
    BY <2>1, WaitKeeps
  <2>2. CASE Take(w)
    BY <2>2, TakeKeeps
  <2>3. CASE QuitExit(w)
    BY <2>3, GoneKeeps DEF QuitExit, MayQuit
  <2>4. CASE TimeoutExit(w)
    BY <2>4, GoneKeeps DEF TimeoutExit, IInv, NoneLeft
  <2>5. CASE Again(w)
    BY <2>5, AgainKeeps
  <2> QED
    BY <1>1, <2>1, <2>2, <2>3, <2>4, <2>5 DEF WorkerStep
<1>2. ASSUME NEW w \in Thread, Timeout(w) PROVE IInv'
  <2>1. /\ worker' \in [Thread -> WorkerState] /\ timedOut' \in [Thread -> BOOLEAN]
        /\ \A v \in Thread : worker'[v] = worker[v] \/ (worker[v] = "waiting" /\ worker'[v] = "woken")
    BY <1>0, <1>2 DEF Timeout, TypeOK, WorkerState
  <2> QED
    BY <1>0, <1>2, <2>1, WakesKeep DEF Timeout, TypeOK, poolVars
<1>3. CASE AddSignal
  <2>1. /\ worker' \in [Thread -> WorkerState]
        /\ \A v \in Thread : worker'[v] = worker[v] \/ (worker[v] = "waiting" /\ worker'[v] = "woken")
    BY <1>0, <1>3 DEF AddSignal, Signal, TypeOK, WorkerState
  <2>2. counter > 0
    BY <1>3, SomeWorker DEF AddSignal
  <2> QED
    BY <1>0, <1>3, <2>1, <2>2, WakesKeep DEF AddSignal, Enqueue, WithTask, TypeOK, poolVars
<1>4. CASE AddCreate
  BY <1>4, AddCreateKeeps
<1>5. CASE AddFull
  <2>1. counter > 0 /\ worker' \in [Thread -> WorkerState]
    BY <1>0, <1>5, SomeWorker DEF AddFull, TypeOK
  <2> QED
    BY <1>0, <1>5, <2>1, WakesKeep DEF AddFull, Enqueue, WithTask, TypeOK
<1>6. CASE Destroy
  <2>1. /\ worker' \in [Thread -> WorkerState]
        /\ \A v \in Thread : worker'[v] = worker[v] \/ (worker[v] = "waiting" /\ worker'[v] = "woken")
    BY <1>0, <1>6 DEF Destroy, Broadcast, TypeOK, WorkerState
  <2>2. /\ locked' \in BOOLEAN /\ quit' \in BOOLEAN
        /\ main' \in {"adding", "waiting", "woken", "returned"} /\ (main' = "returned" => counter = 0)
    <3>1. counter \in Nat /\ (counter > 0 => counter # 0)
      BY SomeWorker
    <3>2. CASE counter > 0
      BY <1>0, <1>6, <3>1, <3>2 DEF Destroy, TypeOK
    <3>3. CASE ~(counter > 0)
      BY <1>0, <1>6, <3>1, <3>3 DEF Destroy, TypeOK
    <3> QED
      BY <3>2, <3>3
  <2> QED
    BY <1>0, <1>6, <2>1, <2>2, WakesKeep DEF Destroy, TypeOK
<1>7. CASE MainWakes
  <2>1. main' \in {"adding", "waiting", "woken", "returned"} /\ (main' = "returned" => counter = 0)
    BY <1>7, SomeWorker DEF MainWakes
  <2> QED
    BY <1>0, <1>7, <2>1, WakesKeep DEF MainWakes, TypeOK, poolVars
<1>8. CASE Spurious
  <2>1. /\ worker' \in [Thread -> WorkerState]
        /\ \A v \in Thread : worker'[v] = worker[v] \/ (worker[v] = "waiting" /\ worker'[v] = "woken")
    BY <1>0, <1>8 DEF Spurious, TypeOK, WorkerState
  <2>2. main' \in {"adding", "waiting", "woken", "returned"} /\ (main' = "returned" => counter = 0)
    BY <1>0, <1>8 DEF Spurious, TypeOK
  <2> QED
    BY <1>0, <1>8, <2>1, <2>2, WakesKeep DEF Spurious, TypeOK, poolVars
<1>9. CASE UNCHANGED vars
  BY <1>9 DEF vars, poolVars, IInv, TypeOK, CountsThreads, InOrder, NoneLeft, Returned
<1> QED
  BY <1>1, <1>2, <1>3, <1>4, <1>5, <1>6, <1>7, <1>8, <1>9 DEF Next, MainStep, Exited

LEMMA InvariantHolds == Spec => []IInv
BY InitKeeps, NextKeeps, PTL DEF Spec

----------------------------------------------------------------------------
(***************************************************************************)
(* What follows.                                                           *)
(***************************************************************************)

\* The variables keep their types for any workers, maximum and tasks.
THEOREM PoolTypes == Spec => []TypeOK
<1>1. IInv => TypeOK
  BY DEF IInv
<1> QED
  BY <1>1, InvariantHolds, PTL

\* counter and idle are exact whatever the order of creations, wake-ups, timeouts
\* and exits, and max_threads is never exceeded.
THEOREM PoolCounts == Spec => []CountsThreads
<1>1. IInv => CountsThreads
  BY DEF IInv
<1> QED
  BY <1>1, InvariantHolds, PTL

\* Each task is started at most once and in the order of the calls.
THEOREM PoolOrder == Spec => []InOrder
<1>1. IInv => InOrder
  BY DEF IInv
<1> QED
  BY <1>1, InvariantHolds, PTL

\* When threadpool_destroy has returned, no worker is left, and no task either unless
\* a worker had run out of patience.
THEOREM PoolDone == Spec => []DestroyedMeansDone
<1>1. IInv => DestroyedMeansDone
  <2> SUFFICES ASSUME IInv, main = "returned"
               PROVE  (\A w \in Thread : worker[w] = "none") /\ (impatient \/ queue = << >>)
    BY DEF DestroyedMeansDone
  <2>1. counter = 0
    BY DEF IInv, Returned
  <2> QED
    BY <2>1, SomeWorker DEF IInv, NoneLeft
<1> QED
  BY <1>1, InvariantHolds, PTL

=============================================================================
