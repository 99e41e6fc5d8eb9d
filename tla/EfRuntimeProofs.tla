--------------------------- MODULE EfRuntimeProofs ---------------------------
(***************************************************************************)
(* The invariant of the socket runtime is inductive.  BaseInv holds        *)
(* whatever the routines do and shows that an event is only ever acted on  *)
(* while what it points to is alive.  OwnInv, for routines that leave      *)
(* their connection to ef_proc, says that listeners, queue items and       *)
(* routines share out the open descriptors; OneOwner counts what it        *)
(* relates.  EndInv, for a process that has the memory it asks for, is     *)
(* what is left at the end.                                                *)
(***************************************************************************)
EXTENDS EfRuntime, InductionLemmas, SequenceTheorems, FiniteSetTheorems

----------------------------------------------------------------------------
(***************************************************************************)
(* The inductive invariant.                                                *)
(***************************************************************************)

\* Who has the processor, and what the loop has in hand at each of its places.
ControlInv ==
  /\ current \in Coroutine =>
       routine[current].state = "user" /\ loop \in {"dispatch", "queue"}
  /\ \A co \in Coroutine : routine[co].state = "user" => co = current
  /\ loop = "dispatch" /\ current # Loop => batch # << >>
  /\ loop = "queue" /\ current # Loop => Unserved # {}
  /\ loop = "accept" => batch # << >> /\ Head(batch) \in Listener
  /\ loop \notin {"dispatch", "accept"} => batch = << >>

\* What a routine's record says in each of its states.
RoutineInv ==
  \A co \in Coroutine :
    /\ routine[co].state \in {"none", "idle"} => routine[co] = Blank(routine[co].state)
    /\ routine[co].state = "wait" => routine[co].on \in routine[co].held

\* A listener that is open or has connections waiting is on listen_list.
ListedInv ==
  \A l \in Listener :
    listenFd[l] # None \/ queue[l] # << >> => l \in Range(listening)

\* Half of RegistrationsExact, which needs no assumption about the routines.
RegistrationsInv ==
  \A fd \in Fd :
    /\ \A co \in Coroutine :
         interest[fd] = co => routine[co].state = "wait" /\ routine[co].on = fd
    /\ \A l \in Listener : interest[fd] = l => listenFd[l] = fd

BaseInv ==
  TypeOK /\ ControlInv /\ RoutineInv /\ ListedInv /\ RegistrationsInv /\ EventTargetsAlive

----------------------------------------------------------------------------
(***************************************************************************)
(* Facts about the helpers.                                                *)
(***************************************************************************)
RoutineType == [state : {"none", "idle", "user", "wait"},
                on : Fd \cup {None}, conn : Fd \cup {None}, held : SUBSET Fd]

LEMMA Names ==
  /\ Loop \notin Coroutine /\ Loop \notin Listener
  /\ None \notin Coroutine /\ None \notin Listener
  /\ None \notin Fd
  /\ \A co \in Coroutine : co \notin Listener
BY RuntimeAssumption

LEMMA RoutineTyped ==
  ASSUME TypeOK, NEW co \in Coroutine
  PROVE  /\ routine \in [Coroutine -> RoutineType]
         /\ routine[co].state \in {"none", "idle", "user", "wait"}
         /\ routine[co].on \in Fd \cup {None}
         /\ routine[co].conn \in Fd \cup {None}
         /\ routine[co].held \in SUBSET Fd
<1>1. routine \in [Coroutine -> RoutineType]
  BY DEF TypeOK, RoutineType
<1>2. routine[co] \in RoutineType
  BY <1>1
<1> QED
  BY <1>1, <1>2 DEF RoutineType

LEMMA SetRoutine ==
  ASSUME TypeOK, NEW co \in Coroutine, NEW r \in RoutineType,
         routine' = [routine EXCEPT ![co] = r]
  PROVE  /\ routine' \in [Coroutine -> RoutineType]
         /\ routine'[co] = r
         /\ \A other \in Coroutine \ {co} : routine'[other] = routine[other]
BY RoutineTyped

LEMMA InStateFields ==
  ASSUME TypeOK, NEW co \in Coroutine,
         NEW st \in {"none", "idle", "user", "wait"}, NEW fd \in Fd \cup {None}
  PROVE  /\ InState(co, st, fd) \in RoutineType
         /\ InState(co, st, fd).state = st
         /\ InState(co, st, fd).on = fd
         /\ InState(co, st, fd).conn = routine[co].conn
         /\ InState(co, st, fd).held = routine[co].held
BY RoutineTyped DEF InState, RoutineType

LEMMA HoldingFields ==
  ASSUME TypeOK, NEW co \in Coroutine, NEW fds \in SUBSET Fd
  PROVE  /\ Holding(co, fds) \in RoutineType
         /\ Holding(co, fds).state = routine[co].state
         /\ Holding(co, fds).on = routine[co].on
         /\ Holding(co, fds).conn = routine[co].conn
         /\ Holding(co, fds).held = fds
BY RoutineTyped DEF Holding, RoutineType

LEMMA BlankFields ==
  ASSUME NEW st \in {"none", "idle", "user", "wait"}
  PROVE  /\ Blank(st) \in RoutineType
         /\ Blank(st).state = st
         /\ Blank(st).on = None
         /\ Blank(st).conn = None
         /\ Blank(st).held = {}
BY DEF Blank, RoutineType

\* The events still to come after the first one.
LEMMA NextEvent ==
  ASSUME BaseInv, batch # << >>
  PROVE  /\ Len(batch) \in Nat /\ Len(batch) >= 1
         /\ Head(batch) = batch[1]
         /\ Head(batch) \in Coroutine \cup Listener
         /\ Tail(batch) \in Seq(Coroutine \cup Listener)
         /\ Len(Tail(batch)) = Len(batch) - 1
         /\ \A i \in 1 .. Len(batch) - 1 : Tail(batch)[i] = batch[i + 1]
BY DEF BaseInv, TypeOK

\* What an event that is acted on now points to.
LEMMA EventTarget ==
  ASSUME BaseInv, batch # << >>, current = Loop
  PROVE  /\ Head(batch) \in Listener => Head(batch) \in Range(listening)
         /\ Head(batch) \in Coroutine => routine[Head(batch)].state = "wait"
         /\ \A i \in 1 .. Len(batch) - 1 :
              /\ \/ Tail(batch)[i] \in Range(listening)
                 \/ Tail(batch)[i] \in Coroutine /\ routine[Tail(batch)[i]].state = "wait"
              /\ Tail(batch)[i] # Head(batch)
              /\ \A j \in 1 .. Len(batch) - 1 : Tail(batch)[i] = Tail(batch)[j] => i = j
<1>1. /\ Remaining = batch
      /\ DOMAIN batch = 1 .. Len(batch)
  BY DEF Remaining, BaseInv, TypeOK
<1>2. /\ Len(batch) \in Nat /\ Len(batch) >= 1
      /\ Head(batch) = batch[1]
      /\ \A i \in 1 .. Len(batch) - 1 : Tail(batch)[i] = batch[i + 1]
  BY NextEvent
<1>3. \A i \in 1 .. Len(batch) :
        /\ \/ batch[i] \in Range(listening)
           \/ batch[i] \in Coroutine /\ routine[batch[i]].state = "wait"
        /\ \A j \in 1 .. Len(batch) : batch[i] = batch[j] => i = j
  BY <1>1 DEF BaseInv, EventTargetsAlive
<1>4. Range(listening) \subseteq Listener
  BY DEF BaseInv, TypeOK, Range
<1> QED
  BY <1>2, <1>3, <1>4, Names

\* EventTargetsAlive when no event was taken, and when one was.
LEMMA SameEvents ==
  ASSUME BaseInv, Remaining' = Remaining, listening' = listening,
         \A co \in Coroutine : routine[co].state = "wait" => routine'[co].state = "wait"
  PROVE  EventTargetsAlive'
<1> DEFINE rest == Remaining
<1>1. \A i \in DOMAIN rest :
        /\ \/ rest[i] \in Range(listening)
           \/ rest[i] \in Coroutine /\ routine[rest[i]].state = "wait"
        /\ \A j \in DOMAIN rest : rest[i] = rest[j] => i = j
  BY DEF BaseInv, EventTargetsAlive
<1> HIDE DEF rest
<1>2. \A i \in DOMAIN rest :
        /\ \/ rest[i] \in Range(listening')
           \/ rest[i] \in Coroutine /\ routine'[rest[i]].state = "wait"
        /\ \A j \in DOMAIN rest : rest[i] = rest[j] => i = j
  BY <1>1
<1>3. Remaining' = rest
  BY DEF rest
<1> QED
  BY <1>2, <1>3 DEF EventTargetsAlive

LEMMA FewerEvents ==
  ASSUME BaseInv, batch # << >>, current = Loop,
         Remaining' = Tail(batch), listening' = listening,
         \A co \in Coroutine \ {Head(batch)} :
            routine[co].state = "wait" => routine'[co].state = "wait"
  PROVE  EventTargetsAlive'
<1> DEFINE rest == Tail(batch)
<1>1. DOMAIN rest = 1 .. Len(batch) - 1
  BY NextEvent
<1>2. \A i \in DOMAIN rest :
        /\ \/ rest[i] \in Range(listening')
           \/ rest[i] \in Coroutine /\ routine'[rest[i]].state = "wait"
        /\ \A j \in DOMAIN rest : rest[i] = rest[j] => i = j
  BY <1>1, EventTarget
<1> HIDE DEF rest
<1>3. Remaining' = rest
  BY DEF rest
<1> QED
  BY <1>2, <1>3 DEF EventTargetsAlive

\* The lowest of a set of numbers.
LEMMA LowestFd ==
  ASSUME TypeOK, HasFreeFd
  PROVE  FreeFd \in Fd /\ FreeFd \notin open
<1>1. Fd \ open # {} /\ Fd \ open \subseteq Nat
  <2>1. Fd \ open # {}
    BY DEF TypeOK, HasFreeFd
  <2>2. Fd \subseteq Nat
    BY DEF Fd
  <2> QED
    BY <2>1, <2>2
<1>2. \E fd \in Fd \ open : \A other \in Fd \ open : fd <= other
  BY <1>1, NatMin
<1> QED
  BY <1>2 DEF FreeFd

LEMMA FirstUnserved ==
  ASSUME TypeOK, Unserved # {}
  PROVE  /\ Serving \in Listener
         /\ Serving \in Range(listening)
         /\ queue[Serving] # << >>
<1>1. Unserved \subseteq Nat
  BY DEF Unserved
<1>2. \E i \in Unserved : \A j \in Unserved : i <= j
  BY <1>1, NatMin
<1>3. PICK i \in Unserved : Serving = listening[i]
  BY <1>2 DEF Serving
<1>4. i \in 1 .. Len(listening) /\ queue[listening[i]] # << >>
  BY DEF Unserved
<1>5. listening \in Seq(Listener) /\ DOMAIN listening = 1 .. Len(listening)
  BY LenProperties DEF TypeOK
<1> QED
  BY <1>3, <1>4, <1>5 DEF Range

LEMMA SameServing ==
  ASSUME listening' = listening, queue' = queue
  PROVE  Unserved' = Unserved /\ Serving' = Serving
BY DEF Unserved, Serving

\* The head of the queue being served, and the rest.
LEMMA ServingQueue ==
  ASSUME TypeOK, Unserved # {}
  PROVE  /\ Head(queue[Serving]) \in Fd
         /\ Tail(queue[Serving]) \in Seq(Fd)
         /\ [queue EXCEPT ![Serving] = Tail(@)] \in [Listener -> Seq(Fd)]
<1>1. Serving \in Listener /\ queue[Serving] \in Seq(Fd) /\ queue[Serving] # << >>
  BY FirstUnserved DEF TypeOK
<1>2. Head(queue[Serving]) \in Fd /\ Tail(queue[Serving]) \in Seq(Fd)
  BY <1>1
<1> QED
  BY <1>1, <1>2 DEF TypeOK

----------------------------------------------------------------------------
(***************************************************************************)
(* BaseInv is inductive.                                                   *)
(***************************************************************************)

\* Steps that change neither routines, listeners, queues nor registrations.
LEMMA QuietStep ==
  ASSUME BaseInv, UNCHANGED <<routine, listening, listenFd, queue, interest>>
  PROVE  RoutineInv' /\ ListedInv' /\ RegistrationsInv'
<1>1. RoutineInv'
  BY DEF BaseInv, RoutineInv, Blank
<1>2. ListedInv'
  BY DEF BaseInv, ListedInv, Range
<1>3. RegistrationsInv'
  BY DEF BaseInv, RegistrationsInv
<1> QED
  BY <1>1, <1>2, <1>3

LEMMA ArriveKeepsBase == ASSUME BaseInv, NEW l \in Listener, Arrive(l) PROVE BaseInv'
<1> USE DEF Arrive, loopVars
<1>1. TypeOK'
  BY RuntimeAssumption DEF BaseInv, TypeOK
<1>2. ControlInv'
  BY DEF BaseInv, ControlInv, Unserved
<1>3. EventTargetsAlive'
  BY SameEvents DEF Remaining
<1> QED
  BY <1>1, <1>2, <1>3, QuietStep DEF BaseInv

LEMMA SignalKeepsBase == ASSUME BaseInv, Signal PROVE BaseInv'
<1> USE DEF Signal
<1>1. TypeOK'
  BY DEF BaseInv, TypeOK
<1>2. ControlInv'
  BY DEF BaseInv, ControlInv, Unserved
<1>3. EventTargetsAlive'
  BY SameEvents DEF Remaining
<1> QED
  BY <1>1, <1>2, <1>3, QuietStep DEF BaseInv

LEMMA WaitKeepsBase == ASSUME BaseInv, Wait PROVE BaseInv'
<1>1. PICK fds \in Reports : WaitFor(fds)
  BY DEF Wait
<1>2. PICK n \in 0 .. Batch :
        fds \in [1 .. n -> {fd \in Fd : interest[fd] # None}] /\ IsInjective(fds)
  BY DEF Reports
<1>3. /\ loop = "wait" /\ loop' = "dispatch" /\ current' = current
      /\ batch' = [i \in 1 .. n |-> interest[fds[i]]]
      /\ UNCHANGED <<stopping, listening, listenFd, queue, spare, routine, open,
                     interest, backlog>>
  BY <1>1, <1>2 DEF WaitFor
<1>4. n \in Nat /\ \A i \in 1 .. n :
        fds[i] \in Fd /\ interest[fds[i]] # None /\ interest[fds[i]] \in Coroutine \cup Listener
  BY <1>2, RuntimeAssumption DEF BaseInv, TypeOK
<1>5. current = Loop /\ current' = Loop
  BY <1>3 DEF BaseInv, ControlInv, TypeOK
<1>6. batch' \in Seq(Coroutine \cup Listener) /\ DOMAIN batch' = 1 .. n
  BY <1>3, <1>4
<1>7. TypeOK'
  BY <1>3, <1>6 DEF BaseInv, TypeOK
<1>8. ControlInv'
  BY <1>3, <1>5, Names DEF BaseInv, ControlInv
<1>9. EventTargetsAlive'
  <2>1. Remaining' = batch'
    BY <1>5 DEF Remaining
  <2>2. ASSUME NEW i \in 1 .. n
        PROVE  \/ batch'[i] \in Range(listening')
               \/ batch'[i] \in Coroutine /\ routine'[batch'[i]].state = "wait"
    <3>1. batch'[i] = interest[fds[i]]
      BY <1>3
    <3>2. CASE interest[fds[i]] \in Coroutine
      BY <1>3, <1>4, <3>1, <3>2 DEF BaseInv, RegistrationsInv
    <3>3. CASE interest[fds[i]] \in Listener
      <4>1. listenFd[interest[fds[i]]] = fds[i] /\ fds[i] # None
        BY <1>4, <3>3, Names DEF BaseInv, RegistrationsInv
      <4> QED
        BY <1>3, <3>1, <3>3, <4>1 DEF BaseInv, ListedInv
    <3> QED
      BY <1>4, <3>2, <3>3
  <2>3. ASSUME NEW i \in 1 .. n, NEW j \in 1 .. n, batch'[i] = batch'[j]
        PROVE  i = j
    <3>1. interest[fds[i]] = interest[fds[j]]
      BY <1>3, <2>3
    <3>2. fds[i] = fds[j]
      BY <1>4, <3>1 DEF BaseInv, RegistrationsInv
    <3> QED
      BY <1>2, <3>2 DEF IsInjective
  <2> QED
    BY <1>6, <2>1, <2>2, <2>3 DEF EventTargetsAlive
<1> QED
  BY <1>3, <1>7, <1>8, <1>9, QuietStep DEF BaseInv

LEMMA DispatchListenKeepsBase == ASSUME BaseInv, DispatchListen PROVE BaseInv'
<1> USE DEF DispatchListen, Dispatching
<1>1. TypeOK'
  BY DEF BaseInv, TypeOK
<1>2. ControlInv'
  BY Names DEF BaseInv, ControlInv
<1>3. EventTargetsAlive'
  BY SameEvents DEF Remaining
<1> QED
  BY <1>1, <1>2, <1>3, QuietStep DEF BaseInv

\* AcceptDrops, AcceptEnds and WakeAgain are done with the first event.
LEMMA EventDoneKeepsBase ==
  ASSUME BaseInv, batch # << >>, current = Loop,
         loop' = "dispatch", batch' = Tail(batch), backlog' \in [Listener -> 0 .. Backlog],
         UNCHANGED <<stopping, listening, listenFd, queue, spare, current, routine,
                     open, interest>>
  PROVE  BaseInv'
<1>1. TypeOK'
  BY NextEvent DEF BaseInv, TypeOK
<1>2. ControlInv'
  BY Names DEF BaseInv, ControlInv
<1>3. EventTargetsAlive'
  <2>1. Remaining' = Tail(batch)
    BY DEF Remaining
  <2> QED
    BY <2>1, FewerEvents
<1> QED
  BY <1>1, <1>2, <1>3, QuietStep DEF BaseInv

\* The event the accept loop is at.
LEMMA AcceptingEvent ==
  ASSUME BaseInv, loop = "accept"
  PROVE  /\ batch # << >> /\ current = Loop
         /\ Head(batch) \in Listener /\ Head(batch) \in Range(listening)
<1>1. batch # << >> /\ current = Loop /\ Head(batch) \in Listener
  BY DEF BaseInv, ControlInv, TypeOK
<1> QED
  BY <1>1, EventTarget

LEMMA AcceptDropsKeepsBase == ASSUME BaseInv, AcceptDrops PROVE BaseInv'
<1>1. backlog' \in [Listener -> 0 .. Backlog]
  BY AcceptingEvent, RuntimeAssumption DEF AcceptDrops, BaseInv, TypeOK
<1> QED
  BY <1>1, AcceptingEvent, EventDoneKeepsBase DEF AcceptDrops

LEMMA AcceptEndsKeepsBase == ASSUME BaseInv, AcceptEnds PROVE BaseInv'
<1>1. backlog' \in [Listener -> 0 .. Backlog]
  BY DEF AcceptEnds, BaseInv, TypeOK
<1> QED
  BY <1>1, AcceptingEvent, EventDoneKeepsBase DEF AcceptEnds

LEMMA WakeAgainKeepsBase ==
  ASSUME BaseInv, NEW co \in Coroutine, WakeAgain(co) PROVE BaseInv'
<1>1. backlog' \in [Listener -> 0 .. Backlog]
  BY DEF WakeAgain, BaseInv, TypeOK
<1> QED
  BY <1>1, EventDoneKeepsBase DEF WakeAgain, Dispatching

LEMMA EndBatchKeepsBase == ASSUME BaseInv, EndBatch PROVE BaseInv'
<1> USE DEF EndBatch
<1>1. TypeOK'
  BY DEF BaseInv, TypeOK
<1>2. ControlInv'
  BY Names DEF BaseInv, ControlInv
<1>3. EventTargetsAlive'
  BY SameEvents DEF Remaining
<1> QED
  BY <1>1, <1>2, <1>3, QuietStep DEF BaseInv

LEMMA QueueDoneKeepsBase == ASSUME BaseInv, QueueDone PROVE BaseInv'
<1> USE DEF QueueDone, AfterQueue
<1>1. TypeOK'
  BY DEF BaseInv, TypeOK
<1>2. ControlInv'
  BY Names DEF BaseInv, ControlInv
<1>3. EventTargetsAlive'
  BY SameEvents DEF Remaining
<1> QED
  BY <1>1, <1>2, <1>3, QuietStep DEF BaseInv

LEMMA AcceptKeepsBase == ASSUME BaseInv, Accept PROVE BaseInv'
<1> DEFINE l == Head(batch)
<1> USE DEF Accept
<1>1. /\ l \in Listener /\ l \in Range(listening) /\ current = Loop
      /\ FreeFd \in Fd
  BY AcceptingEvent, LowestFd DEF BaseInv
<1>2. queue' \in [Listener -> Seq(Fd)] /\ \A m \in Listener \ {l} : queue'[m] = queue[m]
  <2>1. Append(queue[l], FreeFd) \in Seq(Fd)
    BY <1>1 DEF BaseInv, TypeOK
  <2> QED
    BY <2>1 DEF BaseInv, TypeOK, Queued
<1>3. TypeOK'
  <2>1. spare' \in Nat
    BY DEF SpareTaken, BaseInv, TypeOK
  <2>2. backlog' \in [Listener -> 0 .. Backlog]
    BY <1>1, RuntimeAssumption DEF BaseInv, TypeOK
  <2>3. open' \subseteq Fd
    BY <1>1 DEF BaseInv, TypeOK
  <2> HIDE DEF l
  <2> QED
    BY <1>2, <2>1, <2>2, <2>3 DEF BaseInv, TypeOK
<1>4. ControlInv'
  BY <1>1, Names DEF BaseInv, ControlInv
<1>5. RoutineInv' /\ RegistrationsInv'
  BY DEF BaseInv, RoutineInv, RegistrationsInv, Blank
<1>6. ListedInv'
  BY <1>1, <1>2 DEF BaseInv, ListedInv
<1>7. EventTargetsAlive'
  BY SameEvents DEF Remaining
<1> QED
  BY <1>3, <1>4, <1>5, <1>6, <1>7 DEF BaseInv

LEMMA WakeDoneEffect ==
  ASSUME BaseInv, NEW co \in Coroutine, WakeDone(co)
  PROVE  /\ loop = "dispatch" /\ current = Loop /\ batch # << >> /\ Head(batch) = co
         /\ routine[co].state = "wait" /\ routine[co].on \in Fd
         /\ routine' \in [Coroutine -> RoutineType]
         /\ \A other \in Coroutine \ {co} : routine'[other] = routine[other]
         /\ routine'[co].state = "user"
         /\ routine'[co].conn = routine[co].conn /\ routine'[co].held = routine[co].held
<1> USE DEF WakeDone
<1>1. /\ loop = "dispatch" /\ current = Loop /\ batch # << >> /\ Head(batch) = co
      /\ routine[co].state = "wait" /\ routine[co].on \in Fd
  BY EventTarget, RoutineTyped DEF Dispatching, BaseInv, RoutineInv
<1>2. LET r == InState(co, "user", None)
      IN  /\ r \in RoutineType /\ r.state = "user"
          /\ r.conn = routine[co].conn /\ r.held = routine[co].held
  BY InStateFields DEF BaseInv
<1>3. /\ routine' \in [Coroutine -> RoutineType]
      /\ \A other \in Coroutine \ {co} : routine'[other] = routine[other]
      /\ routine'[co] = InState(co, "user", None)
  BY <1>2, SetRoutine DEF BaseInv
<1> QED
  BY <1>1, <1>2, <1>3

LEMMA WakeDoneKeepsBase == ASSUME BaseInv, NEW co \in Coroutine, WakeDone(co) PROVE BaseInv'
<1> USE DEF WakeDone, loopVars
<1>1. /\ loop = "dispatch" /\ current = Loop /\ batch # << >> /\ Head(batch) = co
      /\ routine[co].state = "wait" /\ routine[co].on \in Fd
  BY WakeDoneEffect
<1>2. /\ routine' \in [Coroutine -> RoutineType]
      /\ \A other \in Coroutine \ {co} : routine'[other] = routine[other]
      /\ routine'[co].state = "user"
  BY WakeDoneEffect
<1>3. TypeOK'
  BY <1>1, <1>2 DEF BaseInv, TypeOK, RoutineType
<1>4. ControlInv'
  BY <1>1, <1>2, Names DEF BaseInv, ControlInv
<1>5. RoutineInv'
  BY <1>2 DEF BaseInv, RoutineInv, Blank
<1>6. ListedInv'
  BY DEF BaseInv, ListedInv, Range
<1>7. RegistrationsInv'
  BY <1>1, <1>2, Names DEF BaseInv, TypeOK, RegistrationsInv
<1>8. EventTargetsAlive'
  <2>1. Remaining' = Tail(batch)
    BY <1>1, Names DEF Remaining
  <2> QED
    BY <1>1, <1>2, <2>1, FewerEvents
<1> QED
  BY <1>3, <1>4, <1>5, <1>6, <1>7, <1>8 DEF BaseInv

LEMMA StartRoutineEffect ==
  ASSUME BaseInv, NEW co \in Coroutine, StartRoutine(co)
  PROVE  /\ loop = "queue" /\ current = Loop /\ batch = << >> /\ Unserved # {}
         /\ routine[co].state \in {"none", "idle"}
         /\ routine' \in [Coroutine -> RoutineType]
         /\ \A other \in Coroutine \ {co} : routine'[other] = routine[other]
         /\ routine'[co].state = "user"
         /\ routine'[co].conn = Head(queue[Serving])
         /\ routine'[co].held = {Head(queue[Serving])}
<1> USE DEF StartRoutine
<1>1. loop = "queue" /\ current = Loop /\ batch = << >> /\ Unserved # {}
  BY DEF BaseInv, ControlInv
<1>2. routine[co].state \in {"none", "idle"}
  BY RoutineTyped DEF Startable, Idle, Live, BaseInv
<1> DEFINE fd == Head(queue[Serving])
           r == [state |-> "user", on |-> None, conn |-> fd, held |-> {fd}]
<1>3. fd \in Fd
  BY <1>1, ServingQueue DEF BaseInv
<1>4. r \in RoutineType /\ r.state = "user" /\ r.conn = fd /\ r.held = {fd}
  BY <1>3 DEF RoutineType
<1>5. routine' = [routine EXCEPT ![co] = r]
  OBVIOUS
<1> HIDE DEF r
<1>6. /\ routine' \in [Coroutine -> RoutineType]
      /\ \A other \in Coroutine \ {co} : routine'[other] = routine[other]
      /\ routine'[co] = r
  BY <1>4, <1>5, SetRoutine DEF BaseInv
<1> QED
  BY <1>1, <1>2, <1>4, <1>6

LEMMA StartRoutineKeepsBase ==
  ASSUME BaseInv, NEW co \in Coroutine, StartRoutine(co) PROVE BaseInv'
<1> USE DEF StartRoutine, loopVars
<1>1. loop = "queue" /\ current = Loop /\ batch = << >> /\ Unserved # {}
  BY StartRoutineEffect
<1>2. routine[co].state \in {"none", "idle"}
  BY StartRoutineEffect
<1>3. /\ routine' \in [Coroutine -> RoutineType]
      /\ \A other \in Coroutine \ {co} : routine'[other] = routine[other]
      /\ routine'[co].state = "user"
  BY StartRoutineEffect
<1>4. TypeOK'
  BY <1>3 DEF BaseInv, TypeOK, RoutineType
<1>5. ControlInv'
  <2>1. Unserved' # {}
    BY <1>1, SameServing
  <2> QED
    BY <1>1, <1>3, <2>1, Names DEF BaseInv, ControlInv
<1>6. RoutineInv'
  BY <1>3 DEF BaseInv, RoutineInv, Blank
<1>7. ListedInv'
  BY DEF BaseInv, ListedInv, Range
<1>8. RegistrationsInv'
  BY <1>2, <1>3 DEF BaseInv, RegistrationsInv
<1>9. EventTargetsAlive'
  <2>1. Remaining' = Remaining
    BY <1>1 DEF Remaining
  <2> QED
    BY <1>2, <1>3, <2>1, SameEvents
<1> QED
  BY <1>4, <1>5, <1>6, <1>7, <1>8, <1>9 DEF BaseInv

----------------------------------------------------------------------------
(***************************************************************************)
(* What the loop over listen_list keeps when the process is stopping.      *)
(***************************************************************************)
LEMMA AppendRange ==
  ASSUME NEW S, NEW s \in Seq(S), NEW x \in S
  PROVE  /\ Append(s, x) \in Seq(S)
         /\ Range(Append(s, x)) = Range(s) \cup {x}
<1>1. /\ Append(s, x) \in Seq(S)
      /\ Len(Append(s, x)) = Len(s) + 1
      /\ \A i \in 1 .. Len(s) : Append(s, x)[i] = s[i]
      /\ Append(s, x)[Len(s) + 1] = x
      /\ Len(s) \in Nat /\ DOMAIN s = 1 .. Len(s)
  BY AppendProperties, LenProperties
<1>2. DOMAIN Append(s, x) = 1 .. Len(s) + 1
  BY <1>1, LenProperties
<1> DEFINE t == Append(s, x)
<1> HIDE DEF t
<1>3. Range(t) \subseteq Range(s) \cup {x}
  <2>1. ASSUME NEW y \in Range(t) PROVE y \in Range(s) \cup {x}
    <3>1. PICK i \in 1 .. Len(s) + 1 : y = t[i]
      BY <1>2 DEF Range, t
    <3>2. i \in 1 .. Len(s) \/ i = Len(s) + 1
      BY <1>1
    <3> QED
      BY <1>1, <3>1, <3>2 DEF Range, t
  <2> QED
    BY <2>1
<1>4. Range(s) \cup {x} \subseteq Range(t)
  <2>1. ASSUME NEW i \in 1 .. Len(s) PROVE s[i] \in Range(t)
    BY <1>1, <1>2 DEF Range, t
  <2>2. x \in Range(t)
    BY <1>1, <1>2 DEF Range, t
  <2> QED
    BY <1>1, <2>1, <2>2 DEF Range
<1> QED
  BY <1>1, <1>3, <1>4 DEF t

Keeping(n, t) == IF queue[listening[n]] = << >> THEN t ELSE Append(t, listening[n])

\* The recursive function in Kept computes what its equations say.
LEMMA KeptComputed ==
  ASSUME TypeOK
  PROVE  \E kept : /\ Kept = kept[Len(listening)]
                   /\ kept \in [0 .. Len(listening) -> Seq(Listener)]
                   /\ kept[0] = << >>
                   /\ \A n \in 1 .. Len(listening) : kept[n] = Keeping(n, kept[n - 1])
<1> DEFINE N == Len(listening)
           A == Seq(Listener)
           nil == << >>
           Def(g) == [n \in 0 .. N |-> IF n = 0 THEN << >>
                                       ELSE IF queue[listening[n]] = << >> THEN g[n - 1]
                                       ELSE Append(g[n - 1], listening[n])]
           kept == CHOOSE g : g = Def(g)
           step == [n \in 1 .. N |-> [t \in A |-> Keeping(n, t)]]
<1>1. N \in Nat /\ \A n \in 1 .. N : listening[n] \in Listener
  BY DEF TypeOK
<1>2. nil \in A
  OBVIOUS
<1>3. \A n \in 1 .. N : \A t \in A : Keeping(n, t) \in A
  BY <1>1 DEF Keeping
<1>4. IsStep(step, N, A)
  <2> HIDE DEF A, N
  <2> QED
    BY <1>3 DEF IsStep
<1>5. PICK f : Recursion(f, N, A, nil, step)
  <2> HIDE DEF step, A, nil, N
  <2> QED
    BY <1>1, <1>2, <1>4, RecursionExists
<1>6. ASSUME NEW g, Recursion(g, N, A, nil, step), NEW n \in 1 .. N
      PROVE  g[n] = Keeping(n, g[n - 1])
  <2> HIDE DEF A, N, nil
  <2>1. n - 1 \in 0 .. N
    BY <1>1
  <2>2. g[n - 1] \in A
    BY <1>6, <2>1 DEF Recursion
  <2>3. g[n] = step[n][g[n - 1]]
    BY <1>6 DEF Recursion
  <2> QED
    BY <2>2, <2>3
<1>7. f = Def(f)
  <2> HIDE DEF A, N, step
  <2>1. ASSUME NEW n \in 0 .. N PROVE f[n] = Def(f)[n]
    <3>1. CASE n = 0
      BY <1>5, <3>1 DEF Recursion
    <3>2. CASE n # 0
      <4>1. n \in 1 .. N
        BY <1>1, <3>2
      <4> QED
        BY <4>1, <3>2, <1>5, <1>6 DEF Keeping
    <3> QED
      BY <3>1, <3>2
  <2>2. f = [n \in 0 .. N |-> f[n]] /\ Def(f) = [n \in 0 .. N |-> Def(f)[n]]
    BY <1>5 DEF Recursion
  <2> HIDE DEF Def
  <2> QED
    BY <2>1, <2>2
<1>8. kept = Def(kept)
  <2> HIDE DEF Def
  <2> QED
    BY <1>7
<1>9. Kept = kept[N]
  BY DEF Kept
<1> HIDE DEF kept
<1>10. kept[0] = << >> /\ \A n \in 1 .. N : kept[n] = Keeping(n, kept[n - 1])
  <2> HIDE DEF N
  <2>1. \A n \in 0 .. N : kept[n] = IF n = 0 THEN << >>
                                    ELSE IF queue[listening[n]] = << >> THEN kept[n - 1]
                                    ELSE Append(kept[n - 1], listening[n])
    BY <1>8
  <2> QED
    BY <1>1, <2>1 DEF Keeping
<1>11. \A n \in 0 .. N : kept[n] \in A
  <2> DEFINE T == {n \in 0 .. N : kept[n] \in A}
  <2> HIDE DEF N, A
  <2>1. 0 \in T
    BY <1>1, <1>2, <1>10
  <2>2. ASSUME NEW n \in 0 .. N - 1, n \in T PROVE n + 1 \in T
    <3>1. n + 1 \in 1 .. N /\ n + 1 \in 0 .. N /\ (n + 1) - 1 = n
      BY <1>1
    <3>2. kept[n + 1] = Keeping(n + 1, kept[n])
      BY <1>10, <3>1
    <3> QED
      BY <1>3, <2>2, <3>1, <3>2
  <2> HIDE DEF T
  <2>3. 0 .. N \subseteq T
    BY <1>1, <2>1, <2>2, UpToInd
  <2> QED
    BY <2>3 DEF T
<1>12. kept \in [0 .. N -> A]
  <2> HIDE DEF A, N
  <2>1. DOMAIN kept = 0 .. N /\ kept = [n \in DOMAIN kept |-> kept[n]]
    <3>1. DOMAIN Def(kept) = 0 .. N /\ Def(kept) = [n \in DOMAIN Def(kept) |-> Def(kept)[n]]
      OBVIOUS
    <3> HIDE DEF Def
    <3> QED
      BY <1>8, <3>1
  <2> QED
    BY <1>11, <2>1
<1> QED
  BY <1>9, <1>10, <1>12

LEMMA KeptFacts ==
  ASSUME TypeOK
  PROVE  /\ Kept \in Seq(Listener)
         /\ Range(Kept) = {l \in Range(listening) : queue[l] # << >>}
<1>1. PICK kept : /\ Kept = kept[Len(listening)]
                  /\ kept \in [0 .. Len(listening) -> Seq(Listener)]
                  /\ kept[0] = << >>
                  /\ \A n \in 1 .. Len(listening) : kept[n] = Keeping(n, kept[n - 1])
  BY KeptComputed
<1> DEFINE N == Len(listening)
           Some(n) == {listening[i] : i \in {j \in 1 .. n : queue[listening[j]] # << >>}}
           T == {n \in 0 .. N : Range(kept[n]) = Some(n)}
<1>2. N \in Nat /\ DOMAIN listening = 1 .. N /\ \A n \in 1 .. N : listening[n] \in Listener
  BY LenProperties DEF TypeOK
<1>3. 0 \in T
  BY <1>1, <1>2 DEF Range
<1>4. ASSUME NEW n \in 0 .. N - 1, n \in T PROVE n + 1 \in T
  <2>1. n + 1 \in 1 .. N /\ n + 1 \in 0 .. N /\ (n + 1) - 1 = n
    BY <1>2
  <2>2. kept[n + 1] = Keeping(n + 1, kept[n]) /\ kept[n] \in Seq(Listener)
    BY <1>1, <2>1
  <2>3. listening[n + 1] \in Listener
    BY <1>2, <2>1
  <2>4. CASE queue[listening[n + 1]] = << >>
    BY <1>4, <2>1, <2>2, <2>4 DEF Keeping
  <2>5. CASE queue[listening[n + 1]] # << >>
    <3>1. Range(Append(kept[n], listening[n + 1])) = Range(kept[n]) \cup {listening[n + 1]}
      BY <2>2, <2>3, AppendRange
    <3>2. Some(n + 1) = Some(n) \cup {listening[n + 1]}
      BY <2>1, <2>5
    <3> QED
      BY <1>4, <2>1, <2>2, <2>5, <3>1, <3>2 DEF Keeping
  <2> QED
    BY <2>4, <2>5
<1>5. N \in T
  <2> HIDE DEF T, N
  <2>1. 0 .. N \subseteq T
    BY <1>2, <1>3, <1>4, UpToInd
  <2> QED
    BY <1>2, <2>1
<1>6. Some(N) = {l \in Range(listening) : queue[l] # << >>}
  BY <1>2 DEF Range
<1> QED
  BY <1>1, <1>2, <1>5, <1>6

----------------------------------------------------------------------------
\* Stop and Shrink delete a set of idle coroutines.
LEMMA DeleteIdle ==
  ASSUME TypeOK, NEW S \in SUBSET Idle,
         routine' = [co \in Coroutine |-> IF co \in S THEN Blank("none") ELSE routine[co]]
  PROVE  /\ routine' \in [Coroutine -> RoutineType]
         /\ \A co \in Coroutine \ S : routine'[co] = routine[co]
         /\ \A co \in S : routine'[co] = Blank("none") /\ routine'[co].state = "none"
         /\ \A co \in Coroutine : routine[co].state \in {"user", "wait"} =>
              routine'[co] = routine[co]
<1>1. S \subseteq Coroutine /\ \A co \in S : routine[co].state = "idle"
  BY DEF Idle
<1>2. /\ \A co \in Coroutine \ S : routine'[co] = routine[co]
      /\ \A co \in S : routine'[co] = Blank("none")
  BY <1>1
<1>3. Blank("none") \in RoutineType /\ Blank("none").state = "none"
  BY BlankFields
<1>4. routine' \in [Coroutine -> RoutineType]
  BY <1>3, RoutineTyped
<1> QED
  BY <1>1, <1>2, <1>3, <1>4

LEMMA StopKeepsBase == ASSUME BaseInv, Stop PROVE BaseInv'
<1> USE DEF Stop
<1>1. loop = "stop" /\ current = Loop /\ current' = Loop /\ batch = << >> /\ batch' = << >>
  BY DEF BaseInv, ControlInv, TypeOK
<1>2. /\ routine' \in [Coroutine -> RoutineType]
      /\ \A co \in Coroutine \ Idle : routine'[co] = routine[co]
      /\ \A co \in Idle : routine'[co] = Blank("none") /\ routine'[co].state = "none"
      /\ \A co \in Coroutine : routine[co].state \in {"user", "wait"} =>
           routine'[co] = routine[co]
  BY DeleteIdle DEF BaseInv
<1>3. Kept \in Seq(Listener) /\ Range(Kept) = {l \in Range(listening) : queue[l] # << >>}
  BY KeptFacts DEF BaseInv
<1>4. open' \subseteq open /\ interest' \in [Fd -> Coroutine \cup Listener \cup {None}]
  BY DEF Close, BaseInv, TypeOK
<1>5. TypeOK'
  <2>1. /\ listenFd' \in [Listener -> Fd \cup {None}]
        /\ backlog' \in [Listener -> 0 .. Backlog]
        /\ spare' \in Nat
    BY RuntimeAssumption
  <2>2. loop' \in {"done", "shrink"}
    OBVIOUS
  <2> QED
    BY <1>1, <1>2, <1>3, <1>4, <2>1, <2>2 DEF BaseInv, TypeOK, RoutineType
<1>6. ControlInv'
  <2>1. loop' \in {"done", "shrink"}
    OBVIOUS
  <2> QED
    BY <1>1, <1>2, <2>1, Names DEF BaseInv, ControlInv
<1>7. RoutineInv'
  BY <1>2, BlankFields DEF BaseInv, RoutineInv
<1>8. ListedInv'
  BY <1>3 DEF BaseInv, ListedInv
<1>9. RegistrationsInv'
  <2>1. ASSUME NEW fd \in Fd, NEW co \in Coroutine, interest'[fd] = co
        PROVE  routine'[co].state = "wait" /\ routine'[co].on = fd
    <3>1. interest[fd] = co
      BY <2>1, Names DEF Close
    <3> QED
      BY <3>1, <1>2 DEF BaseInv, RegistrationsInv
  <2>2. ASSUME NEW fd \in Fd, NEW l \in Listener, interest'[fd] = l
        PROVE  FALSE
    <3>1. interest[fd] = l /\ fd \notin {listenFd[m] : m \in Range(listening)} \ {None}
      BY <2>2, Names DEF Close
    <3>2. listenFd[l] = fd /\ fd # None
      BY <3>1, Names DEF BaseInv, RegistrationsInv
    <3> QED
      BY <3>1, <3>2 DEF BaseInv, ListedInv
  <2> QED
    BY <2>1, <2>2 DEF RegistrationsInv
<1>10. EventTargetsAlive'
  BY <1>1 DEF EventTargetsAlive, Remaining
<1> QED
  BY <1>5, <1>6, <1>7, <1>8, <1>9, <1>10 DEF BaseInv

LEMMA ShrinkKeepsBase == ASSUME BaseInv, Shrink PROVE BaseInv'
<1> USE DEF Shrink
<1>1. loop = "shrink" /\ current = Loop /\ batch = << >>
  BY DEF BaseInv, ControlInv, TypeOK
<1>2. /\ routine' \in [Coroutine -> RoutineType]
      /\ \A co \in Coroutine : \/ routine'[co] = routine[co]
                               \/ routine'[co] = Blank("none") /\ routine'[co].state = "none"
      /\ \A co \in Coroutine : routine[co].state \in {"user", "wait"} =>
           routine'[co] = routine[co]
  <2>1. PICK S \in SUBSET Idle :
          routine' = [co \in Coroutine |-> IF co \in S THEN Blank("none") ELSE routine[co]]
    OBVIOUS
  <2> QED
    BY <2>1, DeleteIdle DEF BaseInv
<1>3. TypeOK'
  BY <1>2 DEF BaseInv, TypeOK, RoutineType
<1>4. ControlInv'
  BY <1>1, <1>2, Names DEF BaseInv, ControlInv
<1>5. RoutineInv'
  BY <1>2, BlankFields DEF BaseInv, RoutineInv
<1>6. ListedInv'
  BY DEF BaseInv, ListedInv
<1>7. RegistrationsInv'
  BY <1>2 DEF BaseInv, RegistrationsInv
<1>8. EventTargetsAlive'
  BY <1>1, <1>2, SameEvents DEF Remaining
<1> QED
  BY <1>3, <1>4, <1>5, <1>6, <1>7, <1>8 DEF BaseInv

----------------------------------------------------------------------------
\* The running routine, and what going back to the loop does.
LEMMA RunningRoutine ==
  ASSUME BaseInv, current \in Coroutine
  PROVE  /\ routine[current].state = "user"
         /\ loop \in {"dispatch", "queue"}
         /\ \A co \in Coroutine \ {current} : routine[co].state # "user"
         /\ loop = "dispatch" => batch # << >>
         /\ loop = "queue" => batch = << >> /\ Unserved # {}
BY Names DEF BaseInv, ControlInv

LEMMA BackFacts ==
  ASSUME BaseInv, current \in Coroutine, BackToLoop
  PROVE  /\ current' = Loop
         /\ UNCHANGED <<loop, stopping, listening, listenFd>>
         /\ batch' \in Seq(Coroutine \cup Listener)
         /\ queue' \in [Listener -> Seq(Fd)]
         /\ spare' \in Nat
         /\ loop = "queue" => batch' = << >>
         /\ Remaining' = Remaining
         /\ ListedInv'
<1>1. current # Loop
  BY Names
<1>2. CASE loop = "queue"
  <2>1. batch = << >> /\ Unserved # {}
    BY <1>2, RunningRoutine
  <2>2. queue' = [queue EXCEPT ![Serving] = Tail(@)] /\ spare' = spare + 1 /\ batch' = batch
    BY <1>2 DEF BackToLoop
  <2>3. Serving \in Listener /\ Serving \in Range(listening)
    BY <2>1, FirstUnserved DEF BaseInv
  <2>4. queue' \in [Listener -> Seq(Fd)]
    BY <2>1, <2>2, ServingQueue DEF BaseInv
  <2>5. ListedInv'
    <3>1. listening' = listening /\ listenFd' = listenFd
      BY DEF BackToLoop
    <3>2. \A l \in Listener \ {Serving} : queue'[l] = queue[l]
      BY <2>2, <2>3 DEF BaseInv, TypeOK
    <3> QED
      BY <2>3, <3>1, <3>2 DEF BaseInv, ListedInv
  <2>6. Remaining' = Remaining
    BY <1>2, <2>2 DEF Remaining, BackToLoop
  <2> QED
    BY <1>2, <2>1, <2>2, <2>4, <2>5, <2>6 DEF BackToLoop, BaseInv, TypeOK
<1>3. CASE loop # "queue"
  <2>1. loop = "dispatch" /\ batch # << >>
    BY <1>3, RunningRoutine
  <2>2. batch' = Tail(batch) /\ queue' = queue /\ spare' = spare
    BY <1>3 DEF BackToLoop
  <2>3. batch' \in Seq(Coroutine \cup Listener)
    BY <2>1, <2>2, NextEvent
  <2>4. ListedInv'
    BY <2>2 DEF BackToLoop, BaseInv, ListedInv
  <2>5. Remaining' = Remaining
    BY <1>1, <2>1, <2>2 DEF Remaining, BackToLoop
  <2> QED
    BY <2>1, <2>2, <2>3, <2>4, <2>5 DEF BackToLoop, BaseInv, TypeOK
<1> QED
  BY <1>2, <1>3

LEMMA StartIOEffect ==
  ASSUME BaseInv, NEW co \in Coroutine, NEW fd \in Fd, StartIO(co, fd)
  PROVE  /\ routine' \in [Coroutine -> RoutineType]
         /\ \A other \in Coroutine \ {co} : routine'[other] = routine[other]
         /\ routine'[co].state = "wait" /\ routine'[co].on = fd
         /\ routine'[co].conn = routine[co].conn /\ routine'[co].held = routine[co].held
         /\ interest' \in [Fd -> Coroutine \cup Listener \cup {None}]
         /\ interest'[fd] = co
         /\ \A other \in Fd \ {fd} : interest'[other] = interest[other]
<1> USE DEF StartIO
<1>1. LET r == InState(co, "wait", fd)
      IN  /\ r \in RoutineType /\ r.state = "wait" /\ r.on = fd
          /\ r.conn = routine[co].conn /\ r.held = routine[co].held
  BY InStateFields DEF BaseInv
<1>2. /\ routine' \in [Coroutine -> RoutineType]
      /\ \A other \in Coroutine \ {co} : routine'[other] = routine[other]
      /\ routine'[co] = InState(co, "wait", fd)
  BY <1>1, SetRoutine DEF BaseInv
<1>3. /\ interest' \in [Fd -> Coroutine \cup Listener \cup {None}]
      /\ interest'[fd] = co
      /\ \A other \in Fd \ {fd} : interest'[other] = interest[other]
  BY DEF Registered, BaseInv, TypeOK
<1> QED
  BY <1>1, <1>2, <1>3

LEMMA StartIOKeepsBase ==
  ASSUME BaseInv, NEW co \in Coroutine, NEW fd \in Fd, StartIO(co, fd) PROVE BaseInv'
<1> USE DEF StartIO
<1>1. /\ current \in Coroutine /\ current = co
      /\ routine[co].state = "user"
      /\ loop \in {"dispatch", "queue"}
      /\ \A other \in Coroutine \ {co} : routine[other].state # "user"
  BY RunningRoutine
<1>2. /\ current' = Loop
      /\ UNCHANGED <<loop, stopping, listening, listenFd>>
      /\ batch' \in Seq(Coroutine \cup Listener)
      /\ queue' \in [Listener -> Seq(Fd)]
      /\ spare' \in Nat
      /\ loop = "queue" => batch' = << >>
      /\ Remaining' = Remaining
      /\ ListedInv'
  BY <1>1, BackFacts
<1>3. /\ routine' \in [Coroutine -> RoutineType]
      /\ \A other \in Coroutine \ {co} : routine'[other] = routine[other]
      /\ routine'[co].state = "wait" /\ routine'[co].on = fd
      /\ routine'[co].held = routine[co].held
  BY StartIOEffect
<1>4. /\ interest' \in [Fd -> Coroutine \cup Listener \cup {None}]
      /\ interest'[fd] = co
      /\ \A other \in Fd \ {fd} : interest'[other] = interest[other]
  BY StartIOEffect
<1>5. TypeOK'
  BY <1>2, <1>3, <1>4 DEF BaseInv, TypeOK, RoutineType
<1>6. ControlInv'
  BY <1>1, <1>2, <1>3, Names DEF ControlInv
<1>7. RoutineInv'
  BY <1>3 DEF BaseInv, RoutineInv, Blank
<1>8. RegistrationsInv'
  BY <1>1, <1>2, <1>3, <1>4, Names DEF BaseInv, RegistrationsInv
<1>9. EventTargetsAlive'
  BY <1>2, <1>3, SameEvents
<1> QED
  BY <1>2, <1>5, <1>6, <1>7, <1>8, <1>9 DEF BaseInv

LEMMA HoldingEffect ==
  ASSUME BaseInv, NEW co \in Coroutine, current = co, NEW fds \in SUBSET Fd,
         routine' = [routine EXCEPT ![co] = Holding(co, fds)]
  PROVE  /\ routine' \in [Coroutine -> RoutineType]
         /\ \A other \in Coroutine \ {co} : routine'[other] = routine[other]
         /\ routine[co].state = "user" /\ routine'[co].state = "user"
         /\ routine'[co].conn = routine[co].conn /\ routine'[co].held = fds
<1>1. routine[co].state = "user"
  BY RunningRoutine
<1>2. LET r == Holding(co, fds)
      IN  r \in RoutineType /\ r.state = "user" /\ r.conn = routine[co].conn /\ r.held = fds
  BY <1>1, HoldingFields DEF BaseInv
<1>3. /\ routine' \in [Coroutine -> RoutineType]
      /\ \A other \in Coroutine \ {co} : routine'[other] = routine[other]
      /\ routine'[co] = Holding(co, fds)
  BY <1>2, SetRoutine DEF BaseInv
<1> QED
  BY <1>1, <1>2, <1>3

\* The running routine's descriptors change, and what epoll knows of them.
LEMMA HoldingKeepsBase ==
  ASSUME BaseInv, NEW co \in Coroutine, current = co, NEW fds \in SUBSET Fd,
         routine' = [routine EXCEPT ![co] = Holding(co, fds)],
         open' \subseteq Fd, interest' \in [Fd -> Coroutine \cup Listener \cup {None}],
         \A fd \in Fd : interest'[fd] \in {interest[fd], None},
         UNCHANGED <<loopVars, current, backlog>>
  PROVE  BaseInv'
<1> USE DEF loopVars
<1>1. /\ routine[co].state = "user" /\ loop \in {"dispatch", "queue"}
      /\ \A other \in Coroutine \ {co} : routine[other].state # "user"
  BY RunningRoutine
<1>2. /\ routine' \in [Coroutine -> RoutineType]
      /\ \A other \in Coroutine \ {co} : routine'[other] = routine[other]
      /\ routine'[co].state = "user"
  BY HoldingEffect
<1>3. TypeOK'
  BY <1>2 DEF BaseInv, TypeOK, RoutineType
<1>4. ControlInv'
  <2>1. loop = "queue" /\ current # Loop => Unserved' # {}
    BY SameServing DEF BaseInv, ControlInv
  <2> QED
    BY <1>1, <1>2, <2>1, Names DEF BaseInv, ControlInv
<1>5. RoutineInv'
  BY <1>2 DEF BaseInv, RoutineInv, Blank
<1>6. ListedInv'
  BY DEF BaseInv, ListedInv
<1>7. RegistrationsInv'
  BY <1>1, <1>2, Names DEF BaseInv, RegistrationsInv
<1>8. EventTargetsAlive'
  BY <1>1, <1>2, SameEvents DEF Remaining
<1> QED
  BY <1>3, <1>4, <1>5, <1>6, <1>7, <1>8 DEF BaseInv

LEMMA OpenSocketKeepsBase ==
  ASSUME BaseInv, NEW co \in Coroutine, OpenSocket(co) PROVE BaseInv'
<1>1. FreeFd \in Fd
  BY LowestFd DEF OpenSocket, BaseInv
<1>2. routine[co].held \cup {FreeFd} \in SUBSET Fd
  BY <1>1, RoutineTyped DEF BaseInv
<1>3. open' \subseteq Fd /\ interest' = interest
  BY <1>1 DEF OpenSocket, BaseInv, TypeOK
<1>4. interest \in [Fd -> Coroutine \cup Listener \cup {None}]
  BY DEF BaseInv, TypeOK
<1> QED
  BY <1>2, <1>3, <1>4, HoldingKeepsBase DEF OpenSocket

LEMMA CloseHeldKeepsBase ==
  ASSUME BaseInv, NEW co \in Coroutine, NEW fd \in Fd, CloseHeld(co, fd) PROVE BaseInv'
<1>1. routine[co].held \ {fd} \in SUBSET Fd
  BY RoutineTyped DEF BaseInv
<1>2. /\ open' \subseteq Fd
      /\ interest' \in [Fd -> Coroutine \cup Listener \cup {None}]
      /\ \A other \in Fd : interest'[other] \in {interest[other], None}
  BY DEF CloseHeld, Close, BaseInv, TypeOK
<1> QED
  BY <1>1, <1>2, HoldingKeepsBase DEF CloseHeld

LEMMA ReturnEffect ==
  ASSUME BaseInv, NEW co \in Coroutine, Return(co)
  PROVE  /\ routine' \in [Coroutine -> RoutineType]
         /\ \A other \in Coroutine \ {co} : routine'[other] = routine[other]
         /\ routine'[co] = Blank("idle") /\ routine'[co].state = "idle"
         /\ routine'[co].held = {}
<1>1. Blank("idle") \in RoutineType /\ Blank("idle").state = "idle" /\ Blank("idle").held = {}
  BY BlankFields
<1>2. /\ routine' \in [Coroutine -> RoutineType]
      /\ \A other \in Coroutine \ {co} : routine'[other] = routine[other]
      /\ routine'[co] = Blank("idle")
  BY <1>1, SetRoutine DEF BaseInv, Return
<1> QED
  BY <1>1, <1>2

LEMMA ReturnKeepsBase == ASSUME BaseInv, NEW co \in Coroutine, Return(co) PROVE BaseInv'
<1> USE DEF Return
<1>1. /\ current \in Coroutine /\ current = co
      /\ routine[co].state = "user"
      /\ loop \in {"dispatch", "queue"}
      /\ \A other \in Coroutine \ {co} : routine[other].state # "user"
  BY RunningRoutine
<1>2. /\ current' = Loop
      /\ UNCHANGED <<loop, stopping, listening, listenFd>>
      /\ batch' \in Seq(Coroutine \cup Listener)
      /\ queue' \in [Listener -> Seq(Fd)]
      /\ spare' \in Nat
      /\ loop = "queue" => batch' = << >>
      /\ Remaining' = Remaining
      /\ ListedInv'
  BY <1>1, BackFacts
<1>3. /\ routine' \in [Coroutine -> RoutineType]
      /\ \A other \in Coroutine \ {co} : routine'[other] = routine[other]
      /\ routine'[co] = Blank("idle") /\ routine'[co].state = "idle"
  BY ReturnEffect
<1>4. /\ open' \subseteq Fd
      /\ interest' \in [Fd -> Coroutine \cup Listener \cup {None}]
      /\ \A fd \in Fd : interest'[fd] \in {interest[fd], None}
  BY DEF Close, BaseInv, TypeOK
<1>5. TypeOK'
  BY <1>2, <1>3, <1>4 DEF BaseInv, TypeOK, RoutineType
<1>6. ControlInv'
  BY <1>1, <1>2, <1>3, Names DEF ControlInv
<1>7. RoutineInv'
  BY <1>3 DEF BaseInv, RoutineInv
<1>8. RegistrationsInv'
  BY <1>1, <1>2, <1>3, <1>4, Names DEF BaseInv, RegistrationsInv
<1>9. EventTargetsAlive'
  BY <1>1, <1>2, <1>3, SameEvents
<1> QED
  BY <1>2, <1>5, <1>6, <1>7, <1>8, <1>9 DEF BaseInv

----------------------------------------------------------------------------
LEMMA BaseInit == ASSUME Init PROVE BaseInv
<1>1. /\ Listeners \in Seq(Listener) /\ DOMAIN Listeners = 1 .. Len(Listeners)
      /\ Len(Listeners) \in Nat /\ DOMAIN Listeners \subseteq Fd
      /\ \A fd \in DOMAIN Listeners : Listeners[fd] \in Listener
  BY RuntimeAssumption, LenProperties DEF Fd
<1>2. \A l \in Listener : listenFd[l] \in DOMAIN Listeners /\ Listeners[listenFd[l]] = l
  BY DEF Init, Listener, Range
<1>3. TypeOK
  <2>1. routine \in [Coroutine -> RoutineType]
    BY BlankFields DEF Init
  <2>2. /\ listenFd \in [Listener -> Fd \cup {None}]
        /\ open \subseteq Fd
        /\ interest \in [Fd -> Coroutine \cup Listener \cup {None}]
    BY <1>1, <1>2 DEF Init
  <2>3. queue \in [Listener -> Seq(Fd)] /\ backlog \in [Listener -> 0 .. Backlog]
    BY RuntimeAssumption DEF Init
  <2>4. batch \in Seq(Coroutine \cup Listener) /\ listening \in Seq(Listener)
    BY <1>1 DEF Init
  <2>5. loop = "wait" /\ current = Loop /\ stopping = FALSE /\ spare = 0
    BY DEF Init
  <2> QED
    BY <2>1, <2>2, <2>3, <2>4, <2>5 DEF TypeOK, RoutineType
<1>4. \A co \in Coroutine : routine[co] = Blank("none") /\ routine[co].state = "none"
  BY BlankFields DEF Init
<1>5. ControlInv
  BY <1>4, Names DEF Init, ControlInv
<1>6. RoutineInv
  BY <1>4 DEF RoutineInv
<1>7. ListedInv
  BY DEF Init, ListedInv, Listener
<1>8. RegistrationsInv
  <2>1. ASSUME NEW fd \in Fd, interest[fd] # None
        PROVE  interest[fd] \in Listener /\ listenFd[interest[fd]] = fd
    <3>1. fd \in DOMAIN Listeners /\ interest[fd] = Listeners[fd]
      BY <2>1 DEF Init
    <3>2. Listeners[fd] \in Listener
      BY <1>1, <3>1
    <3>3. listenFd[Listeners[fd]] \in DOMAIN Listeners
          /\ Listeners[listenFd[Listeners[fd]]] = Listeners[fd]
      BY <1>2, <3>2
    <3> QED
      BY <3>1, <3>2, <3>3, RuntimeAssumption
  <2> QED
    BY <2>1, Names DEF RegistrationsInv
<1>9. EventTargetsAlive
  BY DEF Init, EventTargetsAlive, Remaining
<1> QED
  BY <1>3, <1>5, <1>6, <1>7, <1>8, <1>9 DEF BaseInv

LEMMA StutterKeepsBase == ASSUME BaseInv, UNCHANGED vars PROVE BaseInv'
<1> USE DEF vars, loopVars
<1>1. TypeOK'
  BY DEF BaseInv, TypeOK
<1>2. ControlInv'
  BY SameServing DEF BaseInv, ControlInv
<1>3. EventTargetsAlive'
  BY SameEvents DEF Remaining
<1> QED
  BY <1>1, <1>2, <1>3, QuietStep DEF BaseInv

LEMMA BaseStep == ASSUME BaseInv, [Next]_vars PROVE BaseInv'
<1>1. CASE LoopStep
  BY <1>1, WaitKeepsBase, DispatchListenKeepsBase, AcceptKeepsBase, AcceptDropsKeepsBase,
     AcceptEndsKeepsBase, EndBatchKeepsBase, QueueDoneKeepsBase, StopKeepsBase,
     ShrinkKeepsBase, WakeAgainKeepsBase, WakeDoneKeepsBase, StartRoutineKeepsBase
     DEF LoopStep
<1>2. CASE \E co \in Coroutine : RoutineStep(co)
  BY <1>2, StartIOKeepsBase, CloseHeldKeepsBase, OpenSocketKeepsBase, ReturnKeepsBase
     DEF RoutineStep
<1>3. CASE Signal
  BY <1>3, SignalKeepsBase
<1>4. CASE \E l \in Listener : Arrive(l)
  BY <1>4, ArriveKeepsBase
<1>5. CASE Terminated \/ UNCHANGED vars
  BY <1>5, StutterKeepsBase DEF Terminated
<1> QED
  BY <1>1, <1>2, <1>3, <1>4, <1>5 DEF Next

----------------------------------------------------------------------------
\* Whatever the routines do, the runtime's state keeps its types: no event is
\* taken from an empty batch, no connection from an empty queue, and no number
\* is handed out that is not a descriptor (framework.c:150-353).
THEOREM RuntimeTypes == Spec => []TypeOK
<1>1. BaseInv => TypeOK
  BY DEF BaseInv
<1> QED
  BY <1>1, BaseInit, BaseStep, PTL DEF Spec

\* An event is acted on some time after epoll_wait returned it, through the
\* pointer it carries: a listener it points to is still on the list, a routine
\* is still suspended in a call, and no two events resume the same routine
\* (framework.c:206-240).  This needs nothing of the routines: not even one
\* that closes its own connection can leave a stale pointer in the batch.
THEOREM RuntimeEventsAlive == Spec => []EventTargetsAlive
<1>1. BaseInv => EventTargetsAlive
  BY DEF BaseInv
<1> QED
  BY <1>1, BaseInit, BaseStep, PTL DEF Spec

----------------------------------------------------------------------------
(***************************************************************************)
(* Who owns which descriptor, when ef_proc alone closes the connections.   *)
(* "Open" is what the kernel sees, the rest is what the program believes.  *)
(***************************************************************************)
NoRepeat(s) == \A i, j \in 1 .. Len(s) : s[i] = s[j] => i = j

QueuedFds(l) == Range(Waiting(l))

\* No two of them own the same descriptor, and none owns one twice.
Exclusive ==
  /\ \A l, m \in Listener : listenFd[l] # None /\ listenFd[l] = listenFd[m] => l = m
  /\ \A l, m \in Listener : listenFd[l] \notin QueuedFds(m)
  /\ \A l \in Listener, co \in Coroutine : listenFd[l] \notin routine[co].held
  /\ \A l, m \in Listener : l # m => QueuedFds(l) \cap QueuedFds(m) = {}
  /\ \A l \in Listener : NoRepeat(Waiting(l))
  /\ \A l \in Listener, co \in Coroutine : QueuedFds(l) \cap routine[co].held = {}
  /\ \A co, co2 \in Coroutine : co # co2 => routine[co].held \cap routine[co2].held = {}

\* The open descriptors are the owned ones.
OpenIsOwned ==
  \A fd \in Fd : fd \in open <=>
    \/ \E l \in Listener : listenFd[l] = fd
    \/ \E l \in Listener : fd \in QueuedFds(l)
    \/ \E co \in Coroutine : fd \in routine[co].held

\* A routine that was started and has not returned still has its connection.
ConnectionInv == \A co \in Live : routine[co].conn \in routine[co].held

OwnInv == Exclusive /\ OpenIsOwned /\ ConnectionInv /\ RegistrationsExact

IInv == BaseInv /\ OwnInv

----------------------------------------------------------------------------
(***************************************************************************)
(* The queues as they will be, across the steps.                           *)
(***************************************************************************)
LEMMA SameWaiting ==
  ASSUME queue' = queue, listening' = listening,
         (loop' = "queue" /\ current' # Loop) <=> (loop = "queue" /\ current # Loop)
  PROVE  \A l \in Listener : Waiting(l)' = Waiting(l)
BY SameServing DEF Waiting

LEMMA WaitingTyped ==
  ASSUME BaseInv, NEW l \in Listener
  PROVE  Waiting(l) \in Seq(Fd) /\ QueuedFds(l) \subseteq Fd
<1>1. queue[l] \in Seq(Fd)
  BY DEF BaseInv, TypeOK
<1>2. CASE loop = "queue" /\ current # Loop /\ l = Serving
  <2>1. Tail(queue[Serving]) \in Seq(Fd)
    BY <1>2, ServingQueue DEF BaseInv, ControlInv
  <2> QED
    BY <1>2, <2>1 DEF Waiting, QueuedFds, Range
<1>3. CASE ~ (loop = "queue" /\ current # Loop /\ l = Serving)
  BY <1>1, <1>3 DEF Waiting, QueuedFds, Range
<1> QED
  BY <1>2, <1>3

LEMMA BackWaiting ==
  ASSUME BaseInv, current \in Coroutine, BackToLoop
  PROVE  \A l \in Listener : Waiting(l)' = Waiting(l)
<1>1. current # Loop /\ current' = Loop
  BY Names DEF BackToLoop
<1>2. CASE loop = "queue"
  <2>1. queue' = [queue EXCEPT ![Serving] = Tail(@)]
    BY <1>2 DEF BackToLoop
  <2> QED
    BY <1>1, <1>2, <2>1 DEF Waiting, BaseInv, TypeOK
<1>3. CASE loop # "queue"
  BY <1>1, <1>3 DEF Waiting, BackToLoop
<1> QED
  BY <1>2, <1>3

LEMMA AppendNew ==
  ASSUME NEW S, NEW s \in Seq(S), NEW x \in S, x \notin Range(s), NoRepeat(s)
  PROVE  NoRepeat(Append(s, x))
<1>1. /\ Len(Append(s, x)) = Len(s) + 1
      /\ \A i \in 1 .. Len(s) : Append(s, x)[i] = s[i] /\ s[i] # x
      /\ Append(s, x)[Len(s) + 1] = x
      /\ Len(s) \in Nat
  BY AppendProperties, LenProperties DEF Range
<1> QED
  BY <1>1 DEF NoRepeat

LEMMA TailOnce ==
  ASSUME NEW S, NEW s \in Seq(S), s # << >>, NoRepeat(s)
  PROVE  /\ NoRepeat(Tail(s))
         /\ Range(Tail(s)) = Range(s) \ {Head(s)}
         /\ Head(s) \in Range(s)
<1>1. /\ Len(s) \in Nat /\ Len(s) >= 1 /\ DOMAIN s = 1 .. Len(s)
      /\ Tail(s) \in Seq(S) /\ Len(Tail(s)) = Len(s) - 1 /\ DOMAIN Tail(s) = 1 .. Len(s) - 1
      /\ Head(s) = s[1]
      /\ \A i \in 1 .. Len(s) - 1 : Tail(s)[i] = s[i + 1]
  BY HeadTailProperties, LenProperties
<1>2. NoRepeat(Tail(s))
  BY <1>1 DEF NoRepeat
<1>3. Head(s) \in Range(s)
  BY <1>1 DEF Range
<1>4. ASSUME NEW x \in Range(Tail(s)) PROVE x \in Range(s) \ {Head(s)}
  <2>1. PICK i \in 1 .. Len(s) - 1 : x = s[i + 1]
    BY <1>1 DEF Range
  <2> QED
    BY <1>1, <2>1 DEF Range, NoRepeat
<1>5. ASSUME NEW x \in Range(s) \ {Head(s)} PROVE x \in Range(Tail(s))
  <2>1. PICK i \in 1 .. Len(s) : x = s[i] /\ i # 1
    BY <1>1 DEF Range
  <2>2. i - 1 \in 1 .. Len(s) - 1 /\ Tail(s)[i - 1] = x
    BY <1>1, <2>1
  <2> QED
    BY <1>1, <2>2 DEF Range
<1> QED
  BY <1>2, <1>3, <1>4, <1>5

----------------------------------------------------------------------------
(***************************************************************************)
(* The four ways in which ownership changes, and none.                     *)
(***************************************************************************)
Owners == Exclusive /\ OpenIsOwned

LEMMA SameOwners ==
  ASSUME Owners, listenFd' = listenFd, open' = open,
         \A l \in Listener : Waiting(l)' = Waiting(l),
         \A co \in Coroutine : routine'[co].held = routine[co].held
  PROVE  Owners'
<1>1. \A l \in Listener : QueuedFds(l)' = QueuedFds(l)
  BY DEF QueuedFds, Range
<1>2. Exclusive'
  BY <1>1 DEF Owners, Exclusive, NoRepeat
<1>3. OpenIsOwned'
  BY <1>1 DEF Owners, OpenIsOwned
<1> QED
  BY <1>2, <1>3 DEF Owners

\* A descriptor that was free goes to a queue.
LEMMA QueueOwns ==
  ASSUME BaseInv, Owners, NEW k \in Listener, NEW fd \in Fd, fd \notin open,
         listenFd' = listenFd, open' = open \cup {fd}, routine' = routine,
         \A l \in Listener \ {k} : Waiting(l)' = Waiting(l),
         Waiting(k)' = Append(Waiting(k), fd)
  PROVE  Owners'
<1>1. \A l \in Listener \ {k} : QueuedFds(l)' = QueuedFds(l)
  BY DEF QueuedFds, Range
<1>2. QueuedFds(k)' = QueuedFds(k) \cup {fd}
  BY WaitingTyped, AppendRange DEF QueuedFds
<1>3. /\ \A l \in Listener : listenFd[l] # fd /\ fd \notin QueuedFds(l)
      /\ \A co \in Coroutine : fd \notin routine[co].held
  BY DEF Owners, OpenIsOwned
<1>4. NoRepeat(Waiting(k)')
  <2>1. Waiting(k) \in Seq(Fd) /\ fd \notin Range(Waiting(k)) /\ NoRepeat(Waiting(k))
    BY <1>3, WaitingTyped DEF Owners, Exclusive, QueuedFds
  <2> QED
    BY <2>1, AppendNew
<1>5. ASSUME NEW l \in Listener PROVE NoRepeat(Waiting(l))'
  <2>2. CASE l = k
    BY <1>4, <2>2 DEF NoRepeat
  <2>3. CASE l # k
    <3>1. Waiting(l)' = Waiting(l) /\ NoRepeat(Waiting(l))
      BY <2>3 DEF Owners, Exclusive
    <3> QED
      BY <3>1 DEF NoRepeat
  <2> QED
    BY <2>2, <2>3
<1>6. Exclusive'
  BY <1>1, <1>2, <1>3, <1>5 DEF Owners, Exclusive
<1>7. OpenIsOwned'
  BY <1>1, <1>2 DEF Owners, OpenIsOwned
<1> QED
  BY <1>6, <1>7 DEF Owners

\* A descriptor goes from a queue to a routine that held none.
LEMMA RoutineTakes ==
  ASSUME BaseInv, Owners, NEW k \in Listener, NEW co \in Coroutine,
         Waiting(k) # << >>,
         listenFd' = listenFd, open' = open,
         \A l \in Listener \ {k} : Waiting(l)' = Waiting(l),
         Waiting(k)' = Tail(Waiting(k)),
         routine[co].held = {}, routine'[co].held = {Head(Waiting(k))},
         \A other \in Coroutine \ {co} : routine'[other] = routine[other]
  PROVE  Owners'
<1> DEFINE fd == Head(Waiting(k))
<1>1. \A l \in Listener \ {k} : QueuedFds(l)' = QueuedFds(l)
  BY DEF QueuedFds, Range
<1>2. /\ QueuedFds(k)' = QueuedFds(k) \ {fd} /\ fd \in QueuedFds(k)
      /\ NoRepeat(Waiting(k)')
  <2>1. Waiting(k) \in Seq(Fd) /\ NoRepeat(Waiting(k))
    BY WaitingTyped DEF Owners, Exclusive
  <2> QED
    BY <2>1, TailOnce DEF QueuedFds
<1> HIDE DEF fd
<1>3. ASSUME NEW l \in Listener PROVE NoRepeat(Waiting(l))'
  <2>1. CASE l = k
    BY <1>2, <2>1 DEF NoRepeat
  <2>2. CASE l # k
    <3>1. Waiting(l)' = Waiting(l) /\ NoRepeat(Waiting(l))
      BY <2>2 DEF Owners, Exclusive
    <3> QED
      BY <3>1 DEF NoRepeat
  <2> QED
    BY <2>1, <2>2
<1>4. routine'[co].held = {fd}
  BY DEF fd
<1>5. Exclusive'
  BY <1>1, <1>2, <1>3, <1>4 DEF Owners, Exclusive
<1>6. OpenIsOwned'
  BY <1>1, <1>2, <1>4 DEF Owners, OpenIsOwned
<1> QED
  BY <1>5, <1>6 DEF Owners

\* A descriptor that was free goes to a routine.
LEMMA RoutineOpens ==
  ASSUME Owners, NEW co \in Coroutine, NEW fd \in Fd, fd \notin open,
         listenFd' = listenFd, open' = open \cup {fd},
         \A l \in Listener : Waiting(l)' = Waiting(l),
         routine'[co].held = routine[co].held \cup {fd},
         \A other \in Coroutine \ {co} : routine'[other] = routine[other]
  PROVE  Owners'
<1>1. \A l \in Listener : QueuedFds(l)' = QueuedFds(l)
  BY DEF QueuedFds, Range
<1>2. /\ \A l \in Listener : listenFd[l] # fd /\ fd \notin QueuedFds(l)
      /\ \A other \in Coroutine : fd \notin routine[other].held
  BY DEF Owners, OpenIsOwned
<1>3. Exclusive'
  BY <1>1, <1>2 DEF Owners, Exclusive, NoRepeat
<1>4. OpenIsOwned'
  BY <1>1 DEF Owners, OpenIsOwned
<1> QED
  BY <1>3, <1>4 DEF Owners

\* A routine closes a descriptor it holds.
LEMMA RoutineCloses ==
  ASSUME Owners, NEW co \in Coroutine, NEW fd \in Fd, fd \in routine[co].held,
         listenFd' = listenFd, open' = open \ {fd},
         \A l \in Listener : Waiting(l)' = Waiting(l),
         routine'[co].held = routine[co].held \ {fd},
         \A other \in Coroutine \ {co} : routine'[other] = routine[other]
  PROVE  Owners'
<1>1. \A l \in Listener : QueuedFds(l)' = QueuedFds(l)
  BY DEF QueuedFds, Range
<1>2. /\ \A l \in Listener : listenFd[l] # fd /\ fd \notin QueuedFds(l)
      /\ \A other \in Coroutine \ {co} : fd \notin routine[other].held
  BY DEF Owners, Exclusive
<1>3. Exclusive'
  BY <1>1 DEF Owners, Exclusive, NoRepeat
<1>4. OpenIsOwned'
  BY <1>1, <1>2 DEF Owners, OpenIsOwned
<1> QED
  BY <1>3, <1>4 DEF Owners

\* The listening sockets are closed.
LEMMA ListenersClose ==
  ASSUME BaseInv, Owners,
         listenFd' = [l \in Listener |-> None],
         open' = open \ ({listenFd[l] : l \in Range(listening)} \ {None}),
         \A l \in Listener : Waiting(l)' = Waiting(l),
         \A co \in Coroutine : routine'[co].held = routine[co].held
  PROVE  Owners'
<1>1. \A l \in Listener : QueuedFds(l)' = QueuedFds(l)
  BY DEF QueuedFds, Range
<1>2. \A l \in Listener : QueuedFds(l) \subseteq Fd
  BY WaitingTyped
<1>3. \A co \in Coroutine : routine[co].held \subseteq Fd
  BY RoutineTyped DEF BaseInv
<1>4. Exclusive'
  BY <1>1, <1>2, <1>3, Names DEF Owners, Exclusive, NoRepeat
<1>5. \A fd \in Fd : fd \in open' <=> fd \in open /\ ~ \E l \in Listener : listenFd[l] = fd
  <2>1. Range(listening) \subseteq Listener
    BY DEF BaseInv, TypeOK, Range
  <2>2. \A l \in Listener : listenFd[l] # None => l \in Range(listening)
    BY DEF BaseInv, ListedInv
  <2> QED
    BY <2>1, <2>2, Names
<1>6. OpenIsOwned'
  <2>1. ASSUME NEW fd \in Fd
        PROVE  fd \in open' <=> \/ \E l \in Listener : fd \in QueuedFds(l)
                                \/ \E co \in Coroutine : fd \in routine[co].held
    BY <1>5 DEF Owners, OpenIsOwned, Exclusive
  <2>2. \A fd \in Fd, l \in Listener : listenFd'[l] # fd
    BY Names
  <2> QED
    BY <1>1, <2>1, <2>2 DEF OpenIsOwned
<1> QED
  BY <1>4, <1>6 DEF Owners

----------------------------------------------------------------------------
(***************************************************************************)
(* OwnInv is inductive when a routine leaves its connection to ef_proc.    *)
(***************************************************************************)
LEMMA SameRegistrations ==
  ASSUME RegistrationsExact, interest' = interest, listenFd' = listenFd,
         \A co \in Coroutine : \/ routine'[co] = routine[co]
                               \/ routine[co].state # "wait" /\ routine'[co].state # "wait"
  PROVE  RegistrationsExact'
BY DEF RegistrationsExact

\* No routine waits for a descriptor that is closed.
LEMMA ClosedRegistrations ==
  ASSUME RegistrationsExact, NEW fds,
         interest' = [fd \in Fd |-> IF fd \in fds THEN None ELSE interest[fd]],
         \A co \in Coroutine : \/ routine'[co] = routine[co]
                               \/ routine[co].state # "wait" /\ routine'[co].state # "wait",
         \A co \in Coroutine : routine[co].state = "wait" => routine[co].on \notin fds,
         \A l \in Listener, fd \in Fd : listenFd'[l] = fd <=> listenFd[l] = fd /\ fd \notin fds
  PROVE  RegistrationsExact'
<1>1. ASSUME NEW fd \in Fd, NEW co \in Coroutine
      PROVE  (interest'[fd] = co) <=> (routine'[co].state = "wait" /\ routine'[co].on = fd)
  BY Names DEF RegistrationsExact
<1>2. ASSUME NEW fd \in Fd, NEW l \in Listener
      PROVE  (interest'[fd] = l) <=> (listenFd'[l] = fd)
  BY Names DEF RegistrationsExact
<1> QED
  BY <1>1, <1>2 DEF RegistrationsExact

LEMMA QuietKeepsOwn ==
  ASSUME OwnInv, UNCHANGED <<routine, listenFd, open, interest>>,
         \A l \in Listener : Waiting(l)' = Waiting(l)
  PROVE  OwnInv'
<1>1. Exclusive' /\ OpenIsOwned'
  BY SameOwners DEF OwnInv, Owners
<1>2. RegistrationsExact'
  BY SameRegistrations DEF OwnInv
<1>3. ConnectionInv'
  BY DEF OwnInv, ConnectionInv, Live
<1> QED
  BY <1>1, <1>2, <1>3 DEF OwnInv

\* The steps of the loop that only move it on, those of the world outside, and
\* stuttering.
LEMMA QuietStepsKeepOwn ==
  ASSUME BaseInv, OwnInv,
         \/ Wait \/ DispatchListen \/ AcceptDrops \/ AcceptEnds \/ EndBatch \/ QueueDone
         \/ \E co \in Coroutine : WakeAgain(co)
         \/ Signal
         \/ \E l \in Listener : Arrive(l)
         \/ UNCHANGED vars
  PROVE  OwnInv'
<1>1. /\ UNCHANGED <<routine, listenFd, open, interest, listening, queue>>
      /\ (loop' = "queue" /\ current' # Loop) <=> (loop = "queue" /\ current # Loop)
  BY DEF Wait, WaitFor, DispatchListen, AcceptDrops, AcceptEnds, EndBatch, QueueDone,
         AfterQueue, WakeAgain, Dispatching, Signal, Arrive, loopVars, vars
<1> QED
  BY <1>1, SameWaiting, QuietKeepsOwn

LEMMA AcceptKeepsOwn == ASSUME BaseInv, OwnInv, Accept PROVE OwnInv'
<1>1. PICK k \in Listener : k = Head(batch) /\ loop = "accept"
  BY DEF Accept, BaseInv, ControlInv
<1>2. FreeFd \in Fd /\ FreeFd \notin open
  BY LowestFd DEF Accept, BaseInv
<1>3. /\ UNCHANGED <<loop, listenFd, listening, routine, interest>>
      /\ open' = open \cup {FreeFd}
      /\ queue' = [queue EXCEPT ![k] = Append(queue[k], FreeFd)]
  BY <1>1 DEF Accept, Queued
<1>4. \A l \in Listener : Waiting(l) = queue[l] /\ Waiting(l)' = queue'[l]
  BY <1>1, <1>3 DEF Waiting
<1>5. /\ Waiting(k)' = Append(Waiting(k), FreeFd)
      /\ \A l \in Listener \ {k} : Waiting(l)' = Waiting(l)
  BY <1>1, <1>3, <1>4 DEF BaseInv, TypeOK
<1>6. Exclusive' /\ OpenIsOwned'
  BY <1>1, <1>2, <1>3, <1>5, QueueOwns DEF OwnInv, Owners
<1>7. RegistrationsExact' /\ ConnectionInv'
  BY <1>3, SameRegistrations DEF OwnInv, ConnectionInv, Live
<1> QED
  BY <1>6, <1>7 DEF OwnInv

LEMMA WakeDoneKeepsOwn ==
  ASSUME BaseInv, OwnInv, NEW co \in Coroutine, WakeDone(co) PROVE OwnInv'
<1> USE DEF WakeDone, loopVars
<1>1. /\ loop = "dispatch" /\ routine[co].state = "wait" /\ routine[co].on \in Fd
      /\ \A other \in Coroutine \ {co} : routine'[other] = routine[other]
      /\ routine'[co].state = "user"
      /\ routine'[co].conn = routine[co].conn /\ routine'[co].held = routine[co].held
  BY WakeDoneEffect
<1>2. UNCHANGED <<listenFd, listening, queue, open, loop>>
  OBVIOUS
<1>3. \A l \in Listener : Waiting(l)' = Waiting(l)
  BY <1>1, <1>2, SameWaiting
<1>4. Exclusive' /\ OpenIsOwned'
  BY <1>1, <1>2, <1>3, SameOwners DEF OwnInv, Owners
<1>5. RegistrationsExact'
  <2>1. PICK on \in Fd : on = routine[co].on
    BY <1>1
  <2>2. interest' = [interest EXCEPT ![on] = None] /\ interest[on] = co
    BY <1>1, <2>1 DEF OwnInv, RegistrationsExact
  <2>3. interest'[on] = None /\ \A fd \in Fd \ {on} : interest'[fd] = interest[fd]
    BY <2>2 DEF BaseInv, TypeOK
  <2>4. ASSUME NEW fd \in Fd, NEW other \in Coroutine
        PROVE  (interest'[fd] = other)
               <=> (routine'[other].state = "wait" /\ routine'[other].on = fd)
    BY <1>1, <2>1, <2>2, <2>3, Names DEF OwnInv, RegistrationsExact
  <2>5. ASSUME NEW fd \in Fd, NEW l \in Listener
        PROVE  (interest'[fd] = l) <=> (listenFd'[l] = fd)
    BY <1>2, <2>1, <2>2, <2>3, Names DEF OwnInv, RegistrationsExact
  <2> QED
    BY <2>4, <2>5 DEF RegistrationsExact
<1>6. ConnectionInv'
  BY <1>1 DEF OwnInv, ConnectionInv, Live
<1> QED
  BY <1>4, <1>5, <1>6 DEF OwnInv

LEMMA StartRoutineKeepsOwn ==
  ASSUME BaseInv, OwnInv, NEW co \in Coroutine, StartRoutine(co) PROVE OwnInv'
<1> USE DEF StartRoutine, loopVars
<1>1. /\ loop = "queue" /\ current = Loop /\ Unserved # {}
      /\ routine[co].state \in {"none", "idle"}
      /\ \A other \in Coroutine \ {co} : routine'[other] = routine[other]
      /\ routine'[co].state = "user"
      /\ routine'[co].conn = Head(queue[Serving])
      /\ routine'[co].held = {Head(queue[Serving])}
  BY StartRoutineEffect
<1>2. /\ UNCHANGED <<loop, listenFd, listening, queue, open, interest>>
      /\ current' # Loop
  BY Names
<1>3. Serving \in Listener /\ queue[Serving] # << >>
  BY <1>1, FirstUnserved DEF BaseInv
<1>4. /\ \A l \in Listener : Waiting(l) = queue[l]
      /\ \A l \in Listener : Waiting(l)' = IF l = Serving THEN Tail(queue[l]) ELSE queue[l]
  <2>1. Serving' = Serving
    BY <1>2, SameServing
  <2> QED
    BY <1>1, <1>2, <2>1 DEF Waiting
<1>5. routine[co].held = {}
  BY <1>1, BlankFields DEF BaseInv, RoutineInv
<1>6. Exclusive' /\ OpenIsOwned'
  <2>1. PICK k \in Listener : k = Serving
    BY <1>3
  <2>2. /\ Waiting(k) # << >> /\ Waiting(k)' = Tail(Waiting(k))
        /\ routine'[co].held = {Head(Waiting(k))}
        /\ \A l \in Listener \ {k} : Waiting(l)' = Waiting(l)
    BY <1>1, <1>3, <1>4, <2>1
  <2> QED
    BY <1>1, <1>2, <1>5, <2>2, RoutineTakes DEF OwnInv, Owners
<1>7. RegistrationsExact'
  BY <1>1, <1>2, SameRegistrations DEF OwnInv
<1>8. ConnectionInv'
  BY <1>1 DEF OwnInv, ConnectionInv, Live
<1> QED
  BY <1>6, <1>7, <1>8 DEF OwnInv

LEMMA StartIOKeepsOwn ==
  ASSUME BaseInv, OwnInv, NEW co \in Coroutine, NEW fd \in Fd, StartIO(co, fd) PROVE OwnInv'
<1>1. current \in Coroutine /\ BackToLoop /\ open' = open /\ interest[fd] = None
  BY DEF StartIO
<1>2. listenFd' = listenFd /\ \A l \in Listener : Waiting(l)' = Waiting(l)
  BY <1>1, BackFacts, BackWaiting
<1>3. /\ \A other \in Coroutine \ {co} : routine'[other] = routine[other]
      /\ routine'[co].state = "wait" /\ routine'[co].on = fd
      /\ routine'[co].conn = routine[co].conn /\ routine'[co].held = routine[co].held
      /\ interest'[fd] = co
      /\ \A other \in Fd \ {fd} : interest'[other] = interest[other]
  BY StartIOEffect
<1>4. routine[co].state = "user"
  BY RunningRoutine DEF StartIO
<1>5. Exclusive' /\ OpenIsOwned'
  BY <1>1, <1>2, <1>3, SameOwners DEF OwnInv, Owners
<1>6. RegistrationsExact'
  <2>1. ASSUME NEW x \in Fd, NEW other \in Coroutine
        PROVE  (interest'[x] = other)
               <=> (routine'[other].state = "wait" /\ routine'[other].on = x)
    BY <1>1, <1>3, <1>4, Names DEF OwnInv, RegistrationsExact
  <2>2. ASSUME NEW x \in Fd, NEW l \in Listener
        PROVE  (interest'[x] = l) <=> (listenFd'[l] = x)
    BY <1>1, <1>2, <1>3, Names DEF OwnInv, RegistrationsExact
  <2> QED
    BY <2>1, <2>2 DEF RegistrationsExact
<1>7. ConnectionInv'
  BY <1>3, <1>4 DEF OwnInv, ConnectionInv, Live
<1> QED
  BY <1>5, <1>6, <1>7 DEF OwnInv

LEMMA OpenSocketKeepsOwn ==
  ASSUME BaseInv, OwnInv, NEW co \in Coroutine, OpenSocket(co) PROVE OwnInv'
<1> USE DEF OpenSocket, loopVars
<1>1. FreeFd \in Fd /\ FreeFd \notin open
  BY LowestFd DEF BaseInv
<1>2. routine[co].held \cup {FreeFd} \in SUBSET Fd
  BY <1>1, RoutineTyped DEF BaseInv
<1>3. /\ \A other \in Coroutine \ {co} : routine'[other] = routine[other]
      /\ routine[co].state = "user" /\ routine'[co].state = "user"
      /\ routine'[co].conn = routine[co].conn
      /\ routine'[co].held = routine[co].held \cup {FreeFd}
  BY <1>2, HoldingEffect
<1>4. UNCHANGED <<loop, current, listenFd, listening, queue, interest>>
      /\ open' = open \cup {FreeFd}
  OBVIOUS
<1>5. \A l \in Listener : Waiting(l)' = Waiting(l)
  BY <1>4, SameWaiting
<1>6. Exclusive' /\ OpenIsOwned'
  BY <1>1, <1>3, <1>4, <1>5, RoutineOpens DEF OwnInv, Owners
<1>7. RegistrationsExact' /\ ConnectionInv'
  BY <1>3, <1>4, SameRegistrations DEF OwnInv, ConnectionInv, Live
<1> QED
  BY <1>6, <1>7 DEF OwnInv

\* What the running routine holds, nobody waits for and no listener has.
LEMMA HeldIsQuiet ==
  ASSUME BaseInv, OwnInv, NEW co \in Coroutine, current = co,
         NEW fd \in Fd, fd \in routine[co].held
  PROVE  /\ \A other \in Coroutine :
              routine[other].state = "wait" => routine[other].on \notin {fd}
         /\ \A l \in Listener, x \in Fd : listenFd[l] = x <=> listenFd[l] = x /\ x \notin {fd}
<1>1. routine[co].state = "user"
  BY RunningRoutine
<1> QED
  BY <1>1 DEF BaseInv, RoutineInv, OwnInv, Exclusive

LEMMA CloseHeldKeepsOwn ==
  ASSUME ClosesOwn = FALSE,
         BaseInv, OwnInv, NEW co \in Coroutine, NEW fd \in Fd, CloseHeld(co, fd)
  PROVE  OwnInv'
<1> USE DEF CloseHeld, loopVars
<1>1. routine[co].held \ {fd} \in SUBSET Fd
  BY RoutineTyped DEF BaseInv
<1>2. /\ \A other \in Coroutine \ {co} : routine'[other] = routine[other]
      /\ routine[co].state = "user" /\ routine'[co].state = "user"
      /\ routine'[co].conn = routine[co].conn
      /\ routine'[co].held = routine[co].held \ {fd}
  BY <1>1, HoldingEffect
<1>3. /\ UNCHANGED <<loop, current, listenFd, listening, queue>>
      /\ open' = open \ {fd} /\ fd \in routine[co].held /\ fd # routine[co].conn
      /\ interest' = [x \in Fd |-> IF x \in {fd} THEN None ELSE interest[x]]
  BY DEF Close
<1>4. \A l \in Listener : Waiting(l)' = Waiting(l)
  BY <1>3, SameWaiting
<1>5. Exclusive' /\ OpenIsOwned'
  BY <1>2, <1>3, <1>4, RoutineCloses DEF OwnInv, Owners
<1>6. RegistrationsExact'
  <2>1. /\ \A other \in Coroutine :
              routine[other].state = "wait" => routine[other].on \notin {fd}
        /\ \A l \in Listener, x \in Fd : listenFd'[l] = x <=> listenFd[l] = x /\ x \notin {fd}
    BY <1>3, HeldIsQuiet
  <2>2. \A other \in Coroutine : \/ routine'[other] = routine[other]
                                 \/ routine[other].state # "wait" /\ routine'[other].state # "wait"
    BY <1>2
  <2> QED
    BY <1>3, <2>1, <2>2, ClosedRegistrations DEF OwnInv
<1>7. ConnectionInv'
  BY <1>2, <1>3 DEF OwnInv, ConnectionInv, Live
<1> QED
  BY <1>5, <1>6, <1>7 DEF OwnInv

LEMMA ReturnKeepsOwn ==
  ASSUME BaseInv, OwnInv, NEW co \in Coroutine, Return(co) PROVE OwnInv'
<1> DEFINE fd == routine[co].conn
<1>1. current \in Coroutine /\ current = co /\ BackToLoop /\ routine[co].held \subseteq {fd}
  BY DEF Return
<1>2. routine[co].state = "user"
  BY <1>1, RunningRoutine
<1>3. /\ \A other \in Coroutine \ {co} : routine'[other] = routine[other]
      /\ routine'[co].state = "idle" /\ routine'[co].held = {}
  BY ReturnEffect
<1>4. fd \in routine[co].held /\ fd \in Fd
  BY <1>2, RoutineTyped DEF OwnInv, ConnectionInv, Live, BaseInv
<1>5. /\ open' = open \ {fd}
      /\ interest' = [x \in Fd |-> IF x \in {fd} THEN None ELSE interest[x]]
  BY DEF Return, Close
<1> HIDE DEF fd
<1>6. listenFd' = listenFd /\ \A l \in Listener : Waiting(l)' = Waiting(l)
  BY <1>1, BackFacts, BackWaiting
<1>7. Exclusive' /\ OpenIsOwned'
  <2>1. routine'[co].held = routine[co].held \ {fd}
    BY <1>1, <1>3
  <2> QED
    BY <1>3, <1>4, <1>5, <1>6, <2>1, RoutineCloses DEF OwnInv, Owners
<1>8. RegistrationsExact'
  <2>1. /\ \A other \in Coroutine :
              routine[other].state = "wait" => routine[other].on \notin {fd}
        /\ \A l \in Listener, x \in Fd : listenFd'[l] = x <=> listenFd[l] = x /\ x \notin {fd}
    BY <1>1, <1>4, <1>6, HeldIsQuiet
  <2>2. \A other \in Coroutine : \/ routine'[other] = routine[other]
                                 \/ routine[other].state # "wait" /\ routine'[other].state # "wait"
    BY <1>2, <1>3
  <2> QED
    BY <1>5, <2>1, <2>2, ClosedRegistrations DEF OwnInv
<1>9. ConnectionInv'
  BY <1>3 DEF OwnInv, ConnectionInv, Live
<1> QED
  BY <1>7, <1>8, <1>9 DEF OwnInv

\* An idle coroutine holds nothing that deleting it could lose.
LEMMA DeletedHeldNothing ==
  ASSUME BaseInv, OwnInv, NEW S \in SUBSET Idle,
         routine' = [co \in Coroutine |-> IF co \in S THEN Blank("none") ELSE routine[co]]
  PROVE  /\ \A co \in Coroutine : routine'[co].held = routine[co].held
         /\ \A co \in Coroutine : \/ routine'[co] = routine[co]
                                  \/ routine[co].state # "wait" /\ routine'[co].state # "wait"
         /\ ConnectionInv'
<1>1. /\ \A co \in Coroutine \ S : routine'[co] = routine[co]
      /\ \A co \in S : routine'[co] = Blank("none") /\ routine'[co].state = "none"
  BY DeleteIdle DEF BaseInv
<1>2. \A co \in S : co \in Coroutine /\ routine[co].state = "idle" /\ routine[co].held = {}
  BY BlankFields DEF Idle, BaseInv, RoutineInv
<1>3. \A co \in S : routine'[co].held = {}
  BY <1>1, BlankFields
<1>4. ConnectionInv'
  BY <1>1 DEF OwnInv, ConnectionInv, Live
<1> QED
  BY <1>1, <1>2, <1>3, <1>4

LEMMA ShrinkKeepsOwn == ASSUME BaseInv, OwnInv, Shrink PROVE OwnInv'
<1> USE DEF Shrink
<1>1. /\ \A co \in Coroutine : routine'[co].held = routine[co].held
      /\ \A co \in Coroutine : \/ routine'[co] = routine[co]
                               \/ routine[co].state # "wait" /\ routine'[co].state # "wait"
      /\ ConnectionInv'
  <2>1. PICK S \in SUBSET Idle :
          routine' = [co \in Coroutine |-> IF co \in S THEN Blank("none") ELSE routine[co]]
    OBVIOUS
  <2> QED
    BY <2>1, DeletedHeldNothing
<1>2. \A l \in Listener : Waiting(l)' = Waiting(l)
  BY SameWaiting
<1>3. Exclusive' /\ OpenIsOwned'
  BY <1>1, <1>2, SameOwners DEF OwnInv, Owners
<1>4. RegistrationsExact'
  BY <1>1, SameRegistrations DEF OwnInv
<1> QED
  BY <1>1, <1>3, <1>4 DEF OwnInv

LEMMA StopKeepsOwn == ASSUME BaseInv, OwnInv, Stop PROVE OwnInv'
<1> USE DEF Stop
<1> DEFINE fds == {listenFd[l] : l \in Range(listening)} \ {None}
<1>1. /\ \A co \in Coroutine : routine'[co].held = routine[co].held
      /\ \A co \in Coroutine : \/ routine'[co] = routine[co]
                               \/ routine[co].state # "wait" /\ routine'[co].state # "wait"
      /\ ConnectionInv'
  BY DeletedHeldNothing
<1>2. loop = "stop" /\ loop' # "queue" /\ queue' = queue
  OBVIOUS
<1>3. \A l \in Listener : Waiting(l)' = Waiting(l)
  BY <1>2 DEF Waiting
<1>4. Exclusive' /\ OpenIsOwned'
  BY <1>1, <1>3, ListenersClose DEF OwnInv, Owners, Close
<1>5. RegistrationsExact'
  <2>1. interest' = [x \in Fd |-> IF x \in fds THEN None ELSE interest[x]]
    BY DEF Close
  <2>2. Range(listening) \subseteq Listener
    BY DEF BaseInv, TypeOK, Range
  <2>3. \A co \in Coroutine : routine[co].state = "wait" => routine[co].on \notin fds
    BY <2>2 DEF BaseInv, RoutineInv, OwnInv, Exclusive
  <2>4. \A l \in Listener, x \in Fd : listenFd'[l] = x <=> listenFd[l] = x /\ x \notin fds
    BY <2>2, Names DEF BaseInv, ListedInv
  <2> HIDE DEF fds
  <2> QED
    BY <1>1, <2>1, <2>3, <2>4, ClosedRegistrations DEF OwnInv
<1> QED
  BY <1>1, <1>4, <1>5 DEF OwnInv

LEMMA OwnInit == ASSUME Init PROVE OwnInv
<1>1. /\ Listeners \in Seq(Listener) /\ DOMAIN Listeners \subseteq Fd
      /\ \A fd \in DOMAIN Listeners : Listeners[fd] \in Listener
  BY RuntimeAssumption, LenProperties DEF Fd
<1>2. \A l \in Listener : listenFd[l] \in DOMAIN Listeners /\ Listeners[listenFd[l]] = l
  BY DEF Init, Listener, Range
<1>3. \A co \in Coroutine : routine[co].state = "none" /\ routine[co].held = {}
  BY BlankFields DEF Init
<1>4. \A l \in Listener : Waiting(l) = << >> /\ QueuedFds(l) = {}
  BY DEF Init, Waiting, QueuedFds, Range
<1>5. Exclusive
  BY <1>2, <1>3, <1>4 DEF Exclusive, NoRepeat
<1>6. OpenIsOwned
  <2>1. \A fd \in Fd : fd \in open <=> \E l \in Listener : listenFd[l] = fd
    BY <1>1, <1>2, RuntimeAssumption DEF Init
  <2> QED
    BY <1>3, <1>4, <2>1 DEF OpenIsOwned
<1>7. ConnectionInv
  BY <1>3 DEF ConnectionInv, Live
<1>8. RegistrationsExact
  <2>1. \A fd \in Fd, co \in Coroutine : interest[fd] # co
    BY <1>1, Names DEF Init
  <2>2. \A fd \in Fd, l \in Listener : interest[fd] = l <=> listenFd[l] = fd
    BY <1>1, <1>2, Names, RuntimeAssumption DEF Init
  <2> QED
    BY <1>3, <2>1, <2>2 DEF RegistrationsExact
<1> QED
  BY <1>5, <1>6, <1>7, <1>8 DEF OwnInv

LEMMA OwnStep ==
  ASSUME ClosesOwn = FALSE, BaseInv, OwnInv, [Next]_vars
  PROVE  OwnInv'
<1>1. CASE LoopStep
  BY <1>1, QuietStepsKeepOwn, AcceptKeepsOwn, StopKeepsOwn, ShrinkKeepsOwn,
     WakeDoneKeepsOwn, StartRoutineKeepsOwn DEF LoopStep
<1>2. CASE \E co \in Coroutine : RoutineStep(co)
  BY <1>2, StartIOKeepsOwn, CloseHeldKeepsOwn, OpenSocketKeepsOwn, ReturnKeepsOwn
     DEF RoutineStep
<1>3. CASE Signal \/ \E l \in Listener : Arrive(l)
  BY <1>3, QuietStepsKeepOwn
<1>4. CASE Terminated \/ UNCHANGED vars
  BY <1>4, QuietStepsKeepOwn DEF Terminated
<1> QED
  BY <1>1, <1>2, <1>3, <1>4 DEF Next

----------------------------------------------------------------------------
(***************************************************************************)
(* OneOwner counts what Exclusive and OpenIsOwned relate.                  *)
(***************************************************************************)
LEMMA AtMostOne ==
  ASSUME NEW S, \A x, y \in S : x = y
  PROVE  Cardinality(S) = IF S = {} THEN 0 ELSE 1
<1>1. CASE S = {}
  BY <1>1, FS_EmptySet
<1>2. CASE S # {}
  <2>1. \E x : S = {x}
    BY <1>2
  <2> QED
    BY <1>2, <2>1, FS_Singleton
<1> QED
  BY <1>1, <1>2

\* A queue without repetition is no longer than there are descriptors.
LEMMA QueueLength ==
  ASSUME NEW s \in Seq(Fd), NoRepeat(s)
  PROVE  DOMAIN s \subseteq 1 .. LastFd
<1>1. Len(s) \in Nat /\ DOMAIN s = 1 .. Len(s) /\ s \in [1 .. Len(s) -> 1 .. LastFd]
  BY LenProperties DEF Fd
<1>2. LastFd \in Nat
  BY RuntimeAssumption
<1>3. ASSUME NEW n \in Nat PROVE IsFiniteSet(1 .. n) /\ Cardinality(1 .. n) = n
  <2>1. 1 \in Int /\ n \in Int
    OBVIOUS
  <2> QED
    BY <2>1, FS_Interval
<1>4. ASSUME LastFd < Len(s) PROVE FALSE
  <2> DEFINE A == 1 .. Len(s)
             B == 1 .. LastFd
  <2>1. IsFiniteSet(A) /\ IsFiniteSet(B) /\ Cardinality(B) < Cardinality(A) /\ s \in [A -> B]
    BY <1>1, <1>2, <1>3, <1>4
  <2>2. \A x, y \in A : s[x] = s[y] => x = y
    BY DEF NoRepeat
  <2> HIDE DEF A, B
  <2> QED
    BY <2>1, <2>2, FS_PigeonHole
<1> QED
  BY <1>1, <1>2, <1>4

LEMMA OwnersCounted == ASSUME BaseInv, Exclusive, OpenIsOwned PROVE OneOwner
<1> SUFFICES ASSUME NEW fd \in Fd
             PROVE  Claims(fd) = IF fd \in open THEN 1 ELSE 0
  BY DEF OneOwner
<1> DEFINE Ls == {l \in Listener : listenFd[l] = fd}
           Is == {item \in Listener \X (1 .. LastFd) :
                   /\ item[2] \in DOMAIN Waiting(item[1])
                   /\ Waiting(item[1])[item[2]] = fd}
           Cs == {co \in Coroutine : fd \in routine[co].held}
<1>1. fd # None
  BY Names
<1>2. Cardinality(Ls) = IF Ls = {} THEN 0 ELSE 1
  <2>1. \A l, m \in Ls : l = m
    BY <1>1 DEF Exclusive
  <2> QED
    BY <2>1, AtMostOne
<1>3. Cardinality(Cs) = IF Cs = {} THEN 0 ELSE 1
  <2>1. \A co, co2 \in Cs : co = co2
    BY DEF Exclusive
  <2> QED
    BY <2>1, AtMostOne
<1>4. \A l \in Listener : /\ Waiting(l) \in Seq(Fd) /\ DOMAIN Waiting(l) = 1 .. Len(Waiting(l))
                          /\ DOMAIN Waiting(l) \subseteq 1 .. LastFd
  BY WaitingTyped, QueueLength, LenProperties DEF Exclusive
<1>5. Cardinality(Is) = IF Is = {} THEN 0 ELSE 1
  <2>1. ASSUME NEW a \in Is, NEW b \in Is PROVE a = b
    <3>1. PICK l \in Listener, i \in 1 .. LastFd :
            a = <<l, i>> /\ i \in DOMAIN Waiting(l) /\ Waiting(l)[i] = fd
      OBVIOUS
    <3>2. PICK m \in Listener, j \in 1 .. LastFd :
            b = <<m, j>> /\ j \in DOMAIN Waiting(m) /\ Waiting(m)[j] = fd
      OBVIOUS
    <3>3. fd \in QueuedFds(l) /\ fd \in QueuedFds(m)
      BY <3>1, <3>2 DEF QueuedFds, Range
    <3>4. l = m
      BY <3>3 DEF Exclusive
    <3>5. i = j
      BY <1>4, <3>1, <3>2, <3>4 DEF Exclusive, NoRepeat
    <3> QED
      BY <3>1, <3>2, <3>4, <3>5
  <2> HIDE DEF Is
  <2> QED
    BY <2>1, AtMostOne
<1>6. Is # {} <=> \E l \in Listener : fd \in QueuedFds(l)
  <2>1. ASSUME NEW a \in Is PROVE \E l \in Listener : fd \in QueuedFds(l)
    BY DEF QueuedFds, Range
  <2>2. ASSUME NEW l \in Listener, fd \in QueuedFds(l) PROVE Is # {}
    <3>1. PICK i \in DOMAIN Waiting(l) : Waiting(l)[i] = fd
      BY <2>2 DEF QueuedFds, Range
    <3>2. <<l, i>> \in Is
      BY <1>4, <3>1
    <3> QED
      BY <3>2
  <2> QED
    BY <2>1, <2>2
<1>7. /\ Ls # {} <=> \E l \in Listener : listenFd[l] = fd
      /\ Cs # {} <=> \E co \in Coroutine : fd \in routine[co].held
  OBVIOUS
<1>8. /\ ~ (Ls # {} /\ Is # {}) /\ ~ (Ls # {} /\ Cs # {}) /\ ~ (Is # {} /\ Cs # {})
  BY <1>6, <1>7 DEF Exclusive
<1>9. fd \in open <=> Ls # {} \/ Is # {} \/ Cs # {}
  BY <1>6, <1>7 DEF OpenIsOwned
<1>10. Claims(fd) = Cardinality(Ls) + Cardinality(Is) + Cardinality(Cs)
  BY DEF Claims
<1> HIDE DEF Ls, Is, Cs
<1> QED
  BY <1>2, <1>3, <1>5, <1>8, <1>9, <1>10

\* When a routine leaves its connection to ef_proc, every open descriptor has
\* one owner and every owner's descriptor is open, whatever the coroutines, the
\* listeners and the limits: through accept, ef_queue_fd, ef_routine_run, the
\* calls of the routines, ef_proc's close and the end of the listeners
\* (framework.c:41-353, 355-691).  The hypothesis is needed: the run
\* runtime_closes_own shows what a routine that closes it itself does.
THEOREM RuntimeOneOwner == ASSUME ClosesOwn = FALSE PROVE Spec => []OneOwner
<1>1. Init => IInv
  BY BaseInit, OwnInit DEF IInv
<1>2. IInv /\ [Next]_vars => IInv'
  BY BaseStep, OwnStep DEF IInv
<1>3. IInv => OneOwner
  BY OwnersCounted DEF IInv, OwnInv
<1> QED
  BY <1>1, <1>2, <1>3, PTL DEF Spec

\* Under the same hypothesis a suspended routine is registered with epoll for
\* the descriptor it waits for and for no other, and nobody else is registered
\* but the open listeners: no wake-up is lost and none reaches the wrong
\* routine, although a closed number is soon another connection's
\* (framework.c:355-691, epoll.c).
THEOREM RuntimeRegistrations == ASSUME ClosesOwn = FALSE PROVE Spec => []RegistrationsExact
<1>1. Init => IInv
  BY BaseInit, OwnInit DEF IInv
<1>2. IInv /\ [Next]_vars => IInv'
  BY BaseStep, OwnStep DEF IInv
<1>3. IInv => RegistrationsExact
  BY DEF IInv, OwnInv
<1> QED
  BY <1>1, <1>2, <1>3, PTL DEF Spec

----------------------------------------------------------------------------
(***************************************************************************)
(* The end of ef_run_loop.                                                 *)
(***************************************************************************)

\* The walk of the queues leaves work undone only while some routine is there
\* to come back, and what is gone at the end stays gone.
EndInv ==
  /\ loop = "stop" /\ Live = {} => Unserved = {}
  /\ loop = "done" =>
       /\ listening = << >>
       /\ \A l \in Listener : listenFd[l] = None /\ queue[l] = << >>
       /\ \A co \in Coroutine : routine[co].state = "none"

\* A pool in which no coroutine is live has one to start.
LEMMA EmptyPoolStarts == ASSUME Live = {} PROVE Startable # {}
<1>1. CASE Idle # {}
  BY <1>1 DEF Startable
<1>2. CASE Idle = {}
  <2>1. PoolSize < LimitMax
    BY <1>2, FS_EmptySet, RuntimeAssumption DEF PoolSize
  <2>2. Coroutine # {}
    BY FS_EmptySet, RuntimeAssumption
  <2> QED
    BY <1>2, <2>1, <2>2 DEF Startable
<1> QED
  BY <1>1, <1>2

LEMMA QueueDoneKeepsEnd ==
  ASSUME MemoryFails = FALSE, BaseInv, EndInv, QueueDone PROVE EndInv'
<1>1. loop' \in {"stop", "shrink"} /\ UNCHANGED <<routine, listening, queue>>
  BY DEF QueueDone, AfterQueue
<1>2. Unserved = {} \/ Startable = {}
  BY DEF QueueDone
<1>3. Live = {} => Unserved = {}
  BY <1>2, EmptyPoolStarts
<1>4. Live' = Live /\ Unserved' = Unserved
  BY <1>1, SameServing DEF Live
<1> QED
  BY <1>1, <1>3, <1>4 DEF EndInv

LEMMA StopKeepsEnd == ASSUME BaseInv, EndInv, Stop PROVE EndInv'
<1> USE DEF Stop
<1>1. CASE Live # {}
  <2>1. loop' = "shrink"
    BY <1>1
  <2> QED
    BY <2>1 DEF EndInv
<1>2. CASE Live = {}
  <2>1. Unserved = {} /\ loop' = "done"
    BY <1>2 DEF EndInv
  <2>2. \A l \in Range(listening) : queue[l] = << >>
    <3>1. DOMAIN listening = 1 .. Len(listening)
      BY LenProperties DEF BaseInv, TypeOK
    <3> QED
      BY <2>1, <3>1 DEF Unserved, Range
  <2>3. \A l \in Listener : listenFd'[l] = None /\ queue'[l] = << >>
    BY <2>2 DEF BaseInv, ListedInv
  <2>4. listening' = << >>
    <3>1. Kept \in Seq(Listener) /\ Range(Kept) = {}
      BY <2>2, KeptFacts DEF BaseInv
    <3>2. Len(Kept) \in Nat /\ DOMAIN Kept = 1 .. Len(Kept)
      BY <3>1, LenProperties
    <3>3. Len(Kept) = 0
      <4>1. 1 \notin DOMAIN Kept
        BY <3>1 DEF Range
      <4> QED
        BY <3>2, <4>1
    <3> QED
      BY <3>1, <3>3, EmptySeq
  <2>5. \A co \in Coroutine : routine'[co].state = "none"
    <3>1. /\ \A co \in Coroutine \ Idle : routine'[co] = routine[co]
          /\ \A co \in Idle : routine'[co].state = "none"
      BY DeleteIdle DEF BaseInv
    <3>2. \A co \in Coroutine \ Idle : routine[co].state = "none"
      BY <1>2, RoutineTyped DEF Idle, Live, BaseInv
    <3> QED
      BY <3>1, <3>2
  <2> QED
    BY <2>1, <2>3, <2>4, <2>5 DEF EndInv
<1> QED
  BY <1>1, <1>2

\* Every other step leaves "stop" and "done" alone or leads elsewhere.
LEMMA OtherStepsKeepEnd ==
  ASSUME BaseInv, EndInv, [Next]_vars, ~QueueDone, ~Stop PROVE EndInv'
<1> SUFFICES ASSUME loop' \in {"stop", "done"} PROVE EndInv'
  BY DEF EndInv
<1>1. loop' = loop /\ UNCHANGED <<routine, listening, listenFd, queue>>
  <2>1. CASE LoopStep
    BY <2>1, Names DEF LoopStep, Wait, WaitFor, DispatchListen, Dispatching, Accept,
       AcceptDrops, AcceptEnds, EndBatch, Shrink, WakeAgain, WakeDone, StartRoutine, loopVars
  <2>2. CASE \E co \in Coroutine : RoutineStep(co)
    <3>1. loop \in {"dispatch", "queue"}
      BY <2>2, RunningRoutine DEF RoutineStep, StartIO, OpenSocket, CloseHeld, Return
    <3>2. loop' = loop
      BY <2>2 DEF RoutineStep, StartIO, OpenSocket, CloseHeld, Return, BackToLoop, loopVars
    <3> QED
      BY <3>1, <3>2
  <2>3. CASE Signal \/ (\E l \in Listener : Arrive(l)) \/ Terminated \/ UNCHANGED vars
    BY <2>3 DEF Signal, Arrive, Terminated, vars, loopVars
  <2> QED
    BY <2>1, <2>2, <2>3 DEF Next
<1>2. Live' = Live /\ Unserved' = Unserved
  BY <1>1, SameServing DEF Live
<1> QED
  BY <1>1, <1>2 DEF EndInv

LEMMA EndStep ==
  ASSUME MemoryFails = FALSE, BaseInv, EndInv, [Next]_vars PROVE EndInv'
BY QueueDoneKeepsEnd, StopKeepsEnd, OtherStepsKeepEnd

\* When ef_run_loop returns (framework.c:280-345), every connection it accepted
\* has been served and closed, every listener freed and every coroutine
\* deleted.  Both hypotheses are needed: without memory for a coroutine the
\* walk leaves connections on a queue nobody comes back to, and a routine that
\* closes its own connection has ef_proc close another's.
THEOREM RuntimeDoneMeansClean ==
  ASSUME ClosesOwn = FALSE, MemoryFails = FALSE
  PROVE  Spec => []DoneMeansClean
<1>1. Init => IInv /\ EndInv
  BY BaseInit, OwnInit DEF IInv, EndInv, Init
<1>2. IInv /\ EndInv /\ [Next]_vars => IInv' /\ EndInv'
  BY BaseStep, OwnStep, EndStep DEF IInv
<1>3. ASSUME IInv, EndInv PROVE DoneMeansClean
  <2> SUFFICES ASSUME loop = "done" PROVE open = {}
    BY <1>3 DEF DoneMeansClean, EndInv
  <2>1. /\ \A l \in Listener : listenFd[l] = None /\ queue[l] = << >>
        /\ \A co \in Coroutine : routine[co].state = "none"
    BY <1>3 DEF EndInv
  <2>2. \A co \in Coroutine : routine[co].held = {}
    BY <1>3, <2>1, BlankFields DEF IInv, BaseInv, RoutineInv
  <2>3. \A l \in Listener : QueuedFds(l) = {}
    BY <2>1 DEF QueuedFds, Waiting, Range
  <2>4. open \subseteq Fd
    BY <1>3 DEF IInv, BaseInv, TypeOK
  <2> QED
    BY <1>3, <2>1, <2>2, <2>3, <2>4, Names DEF IInv, OwnInv, OpenIsOwned
<1> QED
  BY <1>1, <1>2, <1>3, PTL DEF Spec
=============================================================================
