----------------------------- MODULE EfRuntime -----------------------------
(***************************************************************************)
(* The socket runtime of ef (src/ef/framework.c over src/ef/epoll.c): an   *)
(* event loop that accepts connections, runs one routine for each in a     *)
(* coroutine of the pool, suspends a routine whose descriptor is not ready *)
(* and resumes it when epoll reports the descriptor.                       *)
(*                                                                         *)
(* Of the pool it has what EfPoolSpec says, which EfPool implements, and   *)
(* the minimum that EfPool keeps.  A user routine is any program over the      *)
(* calls of framework.h.  Descriptors are numbers the kernel hands out     *)
(* lowest first, so a closed one is soon another's.  What is read or       *)
(* written does not matter here, only whether a call must wait.            *)
(***************************************************************************)
EXTENDS Integers, Sequences, FiniteSets, Functions

CONSTANTS Coroutine,   \* memory areas for routines
          Listeners,   \* the listen_list, a sequence: the last added is first
          LimitMin,    \* co_pool.limit_min
          LimitMax,    \* co_pool.limit_max
          PerShrink,   \* count_per_shrink
          LastFd,      \* bound: descriptors are 1 .. LastFd
          Backlog,     \* listen()'s second argument
          Batch,       \* the number of events epoll_wait returns at most
          MaxSockets,  \* bound on the sockets a routine has open beside its connection
          MemoryFails, \* whether mmap and malloc may fail
          ClosesOwn,   \* whether a routine may close its own connection
          Loop,        \* the event loop, as opposed to a coroutine
          None

Listener == Range(Listeners)
Fd == 1 .. LastFd

ASSUME RuntimeAssumption ==
  /\ Listeners \in Seq(Listener)
  /\ \A i, j \in DOMAIN Listeners : Listeners[i] = Listeners[j] => i = j
  /\ IsFiniteSet(Coroutine) /\ LimitMax <= Cardinality(Coroutine)
  /\ Listener \cap Coroutine = {}
  /\ {Loop, None} \cap (Coroutine \cup Listener \cup Fd) = {}
  /\ LimitMin \in Nat /\ LimitMax \in Nat \ {0} /\ PerShrink \in Nat
  /\ LastFd \in Nat /\ Len(Listeners) <= LastFd
  /\ Backlog \in Nat /\ Batch \in Nat \ {0} /\ MaxSockets \in Nat
  /\ MemoryFails \in BOOLEAN /\ ClosesOwn \in BOOLEAN

VARIABLES
  loop,        \* where ef_run_loop is: "wait" "dispatch" "accept" "queue" "stop" "shrink" "done"
  current,     \* who runs: Loop or a coroutine it has resumed
  batch,       \* the events not yet dispatched, each named by the poll data it points to
  stopping,    \* rt->stopping
  listening,   \* rt->listen_list
  listenFd,    \* li->poll_data.fd, None once closed
  queue,       \* li->fd_list: accepted connections waiting for a routine
  spare,       \* the number of items on rt->free_fd_list
  routine,     \* the routines: state, descriptor awaited, connection, descriptors held
  open,        \* the descriptors the process has open
  interest,    \* the epoll set: whom an event of the descriptor is for
  backlog      \* connections the kernel has completed and not handed out

loopVars == <<loop, batch, stopping, listening, listenFd, queue, spare>>
vars == <<loopVars, current, routine, open, interest, backlog>>

\* state: "none" (unmapped), "idle" (on the pool's free list), "user" (in the
\* user's code), "wait" (suspended in a call until descriptor "on" is ready).
Blank(st) == [state |-> st, on |-> None, conn |-> None, held |-> {}]

TypeOK ==
  /\ loop \in {"wait", "dispatch", "accept", "queue", "stop", "shrink", "done"}
  /\ current \in Coroutine \cup {Loop}
  /\ batch \in Seq(Coroutine \cup Listener)
  /\ stopping \in BOOLEAN
  /\ listening \in Seq(Listener)
  /\ listenFd \in [Listener -> Fd \cup {None}]
  /\ queue \in [Listener -> Seq(Fd)]
  /\ spare \in Nat
  /\ routine \in [Coroutine -> [state : {"none", "idle", "user", "wait"},
                                on : Fd \cup {None}, conn : Fd \cup {None},
                                held : SUBSET Fd]]
  /\ open \subseteq Fd
  /\ interest \in [Fd -> Coroutine \cup Listener \cup {None}]
  /\ backlog \in [Listener -> 0 .. Backlog]

\* After ef_init, ef_add_listen of each listener and the association of the
\* listening descriptors.
Init ==
  /\ loop = "wait"
  /\ current = Loop
  /\ batch = << >>
  /\ stopping = FALSE
  /\ listening = Listeners
  /\ listenFd = [l \in Listener |-> CHOOSE i \in DOMAIN Listeners : Listeners[i] = l]
  /\ queue = [l \in Listener |-> << >>]
  /\ spare = 0
  /\ routine = [co \in Coroutine |-> Blank("none")]
  /\ open = DOMAIN Listeners
  /\ interest = [fd \in Fd |-> IF fd \in DOMAIN Listeners THEN Listeners[fd] ELSE None]
  /\ backlog = [l \in Listener |-> 0]

----------------------------------------------------------------------------
(***************************************************************************)
(* Helpers.                                                                *)
(***************************************************************************)
Idle == {co \in Coroutine : routine[co].state = "idle"}
Live == {co \in Coroutine : routine[co].state \in {"user", "wait"}}
PoolSize == Cardinality(Idle) + Cardinality(Live)

\* A routine's record once it awaits fd (or nothing) or holds other descriptors.
InState(co, st, fd) ==
  [state |-> st, on |-> fd, conn |-> routine[co].conn, held |-> routine[co].held]
Holding(co, fds) ==
  [state |-> routine[co].state, on |-> routine[co].on, conn |-> routine[co].conn,
   held |-> fds]

\* The kernel gives out the lowest descriptor that is free.
HasFreeFd == open # Fd
FreeFd == CHOOSE fd \in Fd \ open : \A other \in Fd \ open : fd <= other

\* close(fd): epoll forgets a closed descriptor by itself, dissociate does so
\* before it when the caller asks.
Close(fds) ==
  /\ open' = open \ fds
  /\ interest' = [fd \in Fd |-> IF fd \in fds THEN None ELSE interest[fd]]

Unserved == {i \in 1 .. Len(listening) : queue[listening[i]] # << >>}

\* The listener whose queue the walk of lines 250-277 has reached.
Serving == listening[CHOOSE i \in Unserved : \A j \in Unserved : i <= j]

\* Sequences of at most Batch registered descriptors, each once.
Reports ==
  UNION {{s \in [1 .. n -> {fd \in Fd : interest[fd] # None}] : IsInjective(s)} :
         n \in 0 .. Batch}

----------------------------------------------------------------------------
(***************************************************************************)
(* Faults, each a plausible slip in the operation it is named after.  No   *)
(* specification uses them: the properties are tried against them.         *)
(***************************************************************************)

\* An item is counted as taken from free_fd_list when there is none.
FaultySpareTaken == spare - 1

\* The new connection goes to the wrong end of the queue.
FaultyQueued(l, fd) == <<fd>> \o queue[l]

\* The queue item is kept when the coroutine was started.
FaultyBackToLoop ==
  /\ current' = Loop
  /\ batch' = IF loop = "queue" THEN batch ELSE Tail(batch)
  /\ UNCHANGED <<queue, spare, loop, stopping, listening, listenFd>>

\* The descriptor is not dissociated after its event.
FaultyWakeDone(co) ==
  /\ loop = "dispatch" /\ current = Loop
  /\ batch # << >> /\ Head(batch) = co
  /\ current' = co
  /\ routine' = [routine EXCEPT ![co].state = "user", ![co].on = None]
  /\ UNCHANGED <<loopVars, open, interest, backlog>>

\* The listener is freed with connections on its queue.
FaultyKept == << >>

\* A caller waits for a descriptor it has not associated.
FaultyRegistered(co, fd) == interest

----------------------------------------------------------------------------
\* The coroutines ef_coroutine_create may hand out (EfPoolSpec).
Startable ==
  IF Idle # {} THEN Idle
  ELSE {co \in Coroutine \ Live : PoolSize < LimitMax}

\* An item for the queue of accepted connections: a spare one or a new one.
SpareTaken == IF spare > 0 THEN spare - 1 ELSE spare

----------------------------------------------------------------------------
(***************************************************************************)
(* The world outside the process.                                          *)
(***************************************************************************)

\* A client connects; the kernel completes it while the listener is open.
Arrive(l) ==
  /\ listenFd[l] # None
  /\ backlog[l] < Backlog
  /\ backlog' = [backlog EXCEPT ![l] = @ + 1]
  /\ UNCHANGED <<loopVars, current, routine, open, interest>>

\* signal_handler of main.c.
Signal ==
  /\ ~stopping
  /\ stopping' = TRUE
  /\ UNCHANGED <<loop, batch, listening, listenFd, queue, spare, current, routine,
                 open, interest, backlog>>

----------------------------------------------------------------------------
(***************************************************************************)
(* The event loop.                                                         *)
(***************************************************************************)

\* epoll_wait reports the registered descriptors fds, in the kernel's order,
\* or none (timeout, EINTR).  A listener is ready when a connection is there;
\* a routine's descriptor may be ready at any time.
WaitFor(fds) ==
  /\ loop = "wait"
  /\ \A i \in DOMAIN fds : interest[fds[i]] \in Listener => backlog[interest[fds[i]]] > 0
  /\ batch' = [i \in DOMAIN fds |-> interest[fds[i]]]
  /\ loop' = "dispatch"
  /\ UNCHANGED <<stopping, listening, listenFd, queue, spare, current, routine,
                 open, interest, backlog>>

Wait == \E fds \in Reports : WaitFor(fds)

\* An event is there and the loop has control.
Dispatching == loop = "dispatch" /\ current = Loop /\ batch # << >>

DispatchListen ==
  /\ Dispatching
  /\ Head(batch) \in Listener
  /\ loop' = "accept"
  /\ UNCHANGED <<batch, stopping, listening, listenFd, queue, spare, current, routine,
                 open, interest, backlog>>

Queued(l, fd) == Append(queue[l], fd)

\* One turn of the accept loop (lines 211-229) and ef_queue_fd.
Accept ==
  LET l == Head(batch) IN
  /\ loop = "accept"
  /\ backlog[l] > 0
  /\ HasFreeFd
  /\ backlog' = [backlog EXCEPT ![l] = @ - 1]
  /\ open' = open \cup {FreeFd}
  /\ queue' = [queue EXCEPT ![l] = Queued(l, FreeFd)]
  /\ spare' = SpareTaken
  /\ UNCHANGED <<loop, batch, stopping, listening, listenFd, current, routine, interest>>

\* There is no memory for a queue item: the connection is closed and the loop
\* left.
AcceptDrops ==
  LET l == Head(batch) IN
  /\ loop = "accept"
  /\ backlog[l] > 0
  /\ HasFreeFd
  /\ MemoryFails
  /\ spare = 0
  /\ backlog' = [backlog EXCEPT ![l] = @ - 1]
  /\ loop' = "dispatch"
  /\ batch' = Tail(batch)
  /\ UNCHANGED <<stopping, listening, listenFd, queue, spare, current, routine,
                 open, interest>>

\* accept() fails: no connection is left, or no descriptor.
AcceptEnds ==
  /\ loop = "accept"
  /\ backlog[Head(batch)] = 0 \/ ~HasFreeFd
  /\ loop' = "dispatch"
  /\ batch' = Tail(batch)
  /\ UNCHANGED <<stopping, listening, listenFd, queue, spare, current, routine,
                 open, interest, backlog>>

\* The routine is resumed and its call would block again: it waits on.
WakeAgain(co) ==
  /\ Dispatching
  /\ Head(batch) = co
  /\ batch' = Tail(batch)
  /\ UNCHANGED <<loop, stopping, listening, listenFd, queue, spare, current, routine,
                 open, interest, backlog>>

\* The routine is resumed and its call completes, with a result or an error.
WakeDone(co) ==
  /\ Dispatching
  /\ Head(batch) = co
  /\ current' = co
  /\ routine' = [routine EXCEPT ![co] = InState(co, "user", None)]
  /\ interest' = [interest EXCEPT ![routine[co].on] = None]
  /\ UNCHANGED <<loopVars, open, backlog>>

EndBatch ==
  /\ loop = "dispatch" /\ current = Loop /\ batch = << >>
  /\ loop' = "queue"
  /\ UNCHANGED <<batch, stopping, listening, listenFd, queue, spare, current, routine,
                 open, interest, backlog>>

\* ef_routine_run: the coroutine starts at once, in ef_proc, for the first
\* queued connection.
StartRoutine(co) ==
  /\ loop = "queue" /\ current = Loop
  /\ Unserved # {}
  /\ co \in Startable
  /\ current' = co
  /\ LET fd == Head(queue[Serving])
     IN  routine' = [routine EXCEPT ![co] =
                       [state |-> "user", on |-> None, conn |-> fd, held |-> {fd}]]
  /\ UNCHANGED <<loopVars, open, interest, backlog>>

\* Where exit_queue leads.
AfterQueue == IF stopping THEN "stop" ELSE "shrink"

\* All queues are served, or no coroutine can be had for the next connection.
QueueDone ==
  /\ loop = "queue" /\ current = Loop
  /\ Unserved = {} \/ Startable = {} \/ (MemoryFails /\ Idle = {})
  /\ loop' = AfterQueue
  /\ UNCHANGED <<batch, stopping, listening, listenFd, queue, spare, current, routine,
                 open, interest, backlog>>

\* The listeners that stay on listen_list when stopping.
Kept ==
  LET kept[n \in 0 .. Len(listening)] ==
        IF n = 0 THEN << >>
        ELSE IF queue[listening[n]] = << >> THEN kept[n - 1]
        ELSE Append(kept[n - 1], listening[n])
  IN  kept[Len(listening)]

\* Lines 280-345: the listening sockets are closed, the listeners nobody waits
\* on and the spare items freed, and the idle coroutines deleted (idle time 0
\* and a negative count).  The loop ends when no routine is left.
Stop ==
  /\ loop = "stop"
  /\ Close({listenFd[l] : l \in Range(listening)} \ {None})
  /\ listenFd' = [l \in Listener |-> None]
  /\ backlog' = [l \in Listener |-> 0]
  /\ listening' = Kept
  /\ spare' = 0
  /\ routine' = [co \in Coroutine |-> IF co \in Idle THEN Blank("none") ELSE routine[co]]
  /\ loop' = IF Live = {} THEN "done" ELSE "shrink"
  /\ UNCHANGED <<batch, stopping, queue, current>>

\* Lines 347-350: at most PerShrink coroutines that have been idle for long,
\* and not below the minimum (EfPool!KeepsMinimum).
Shrink ==
  /\ loop = "shrink"
  /\ \E S \in SUBSET Idle :
       /\ Cardinality(S) <= PerShrink
       /\ S # {} => PoolSize - Cardinality(S) >= LimitMin
       /\ routine' = [co \in Coroutine |-> IF co \in S THEN Blank("none") ELSE routine[co]]
  /\ loop' = "wait"
  /\ UNCHANGED <<batch, stopping, listening, listenFd, queue, spare, current,
                 open, interest, backlog>>

----------------------------------------------------------------------------
(***************************************************************************)
(* A routine: user code between calls of framework.h.                      *)
(***************************************************************************)

\* Control goes back to the loop: to the next event, or, when the coroutine
\* was just started, to the release of its queue item (lines 272-273).
BackToLoop ==
  /\ current' = Loop
  /\ IF loop = "queue"
     THEN /\ queue' = [queue EXCEPT ![Serving] = Tail(@)]
          /\ spare' = spare + 1
          /\ UNCHANGED batch
     ELSE /\ batch' = Tail(batch)
          /\ UNCHANGED <<queue, spare>>
  /\ UNCHANGED <<loop, stopping, listening, listenFd>>

\* epoll's set once the routine has associated fd.
Registered(co, fd) == [interest EXCEPT ![fd] = co]

\* read, write, recv, send, or a connect that is in progress: the descriptor
\* is associated and the routine always yields first.  (When the association
\* fails the call returns at once and nothing has changed.)
StartIO(co, fd) ==
  /\ current = co
  /\ fd \in routine[co].held \cap open
  /\ interest[fd] = None
  /\ interest' = Registered(co, fd)
  /\ routine' = [routine EXCEPT ![co] = InState(co, "wait", fd)]
  /\ BackToLoop
  /\ UNCHANGED <<open, backlog>>

\* The routine opens a socket of its own, as forward_proc does.
OpenSocket(co) ==
  /\ current = co
  /\ HasFreeFd
  /\ Cardinality(routine[co].held \ {routine[co].conn}) < MaxSockets
  /\ open' = open \cup {FreeFd}
  /\ routine' = [routine EXCEPT ![co] = Holding(co, routine[co].held \cup {FreeFd})]
  /\ UNCHANGED <<loopVars, current, interest, backlog>>

\* ef_routine_close called by the routine.
CloseHeld(co, fd) ==
  /\ current = co
  /\ fd \in routine[co].held
  /\ fd # routine[co].conn \/ ClosesOwn
  /\ Close({fd})
  /\ routine' = [routine EXCEPT ![co] = Holding(co, routine[co].held \ {fd})]
  /\ UNCHANGED <<loopVars, current, backlog>>

\* The routine returns, its sockets closed; ef_proc closes the connection by
\* its number, whoever's it is by now, and the coroutine becomes idle.
Return(co) ==
  /\ current = co
  /\ routine[co].held \subseteq {routine[co].conn}
  /\ Close({routine[co].conn})
  /\ routine' = [routine EXCEPT ![co] = Blank("idle")]
  /\ BackToLoop
  /\ UNCHANGED backlog

----------------------------------------------------------------------------
LoopStep ==
  \/ Wait
  \/ DispatchListen \/ Accept \/ AcceptDrops \/ AcceptEnds
  \/ EndBatch
  \/ QueueDone
  \/ Stop
  \/ Shrink
  \/ \E co \in Coroutine : WakeAgain(co) \/ WakeDone(co) \/ StartRoutine(co)

RoutineStep(co) ==
  \/ \E fd \in Fd : StartIO(co, fd) \/ CloseHeld(co, fd)
  \/ OpenSocket(co)
  \/ Return(co)

\* ef_run_loop has returned.
Terminated == loop = "done" /\ UNCHANGED vars

Next ==
  \/ LoopStep
  \/ \E co \in Coroutine : RoutineStep(co)
  \/ Signal
  \/ \E l \in Listener : Arrive(l)
  \/ Terminated

Spec == Init /\ [][Next]_vars

(***************************************************************************)
(* Fairness.  The thread never stops between two waits: LoopStep and the   *)
(* part of a routine that reaches its next call.  The peers answer and the *)
(* kernel passes over no ready descriptor: a routine's event is reported   *)
(* again and again and in the end its call completes.  No routine runs for *)
(* ever: it closes what it opened and returns.                             *)
(***************************************************************************)
Report(co) == \E fds \in Reports : WaitFor(fds) /\ \E i \in DOMAIN fds : interest[fds[i]] = co

NextCall(co) == Return(co) \/ \E fd \in Fd : StartIO(co, fd)

Fairness ==
  /\ WF_vars(LoopStep)
  /\ \A co \in Coroutine :
       /\ WF_vars(NextCall(co))
       /\ SF_vars(Report(co))
       /\ SF_vars(WakeDone(co))
       /\ SF_vars(Return(co))

FairSpec == Spec /\ Fairness

----------------------------------------------------------------------------
(***************************************************************************)
(* Properties.                                                             *)
(***************************************************************************)

\* The queue as it will be once the item of the coroutine being started is
\* released.
Waiting(l) == IF loop = "queue" /\ current # Loop /\ l = Serving
              THEN Tail(queue[l]) ELSE queue[l]

\* The claims on a descriptor: by listeners, by queue items and by routines.
Claims(fd) ==
  Cardinality({l \in Listener : listenFd[l] = fd})
  + Cardinality({item \in Listener \X (1 .. LastFd) :
                   /\ item[2] \in DOMAIN Waiting(item[1])
                   /\ Waiting(item[1])[item[2]] = fd})
  + Cardinality({co \in Coroutine : fd \in routine[co].held})

\* Every open descriptor has one owner and every owner's descriptor is open,
\* through accept, queueing, the start of a routine, its calls and the close in
\* ef_proc: nothing leaks, and nobody reads or closes another's connection.
OneOwner == \A fd \in Fd : Claims(fd) = IF fd \in open THEN 1 ELSE 0

\* A suspended routine is registered with epoll for the descriptor it waits for
\* and for no other, and nobody else is registered but the open listeners: no
\* wake-up is lost and none reaches the wrong routine.
RegistrationsExact ==
  \A fd \in Fd :
    /\ \A co \in Coroutine :
         (interest[fd] = co) <=> (routine[co].state = "wait" /\ routine[co].on = fd)
    /\ \A l \in Listener : (interest[fd] = l) <=> (listenFd[l] = fd)

\* The events of the batch that are still to come.
Remaining == IF loop = "dispatch" /\ current # Loop THEN Tail(batch) ELSE batch

\* An event is acted on some time after epoll_wait returned it, through the
\* pointer it carries: what that points to is still a listener on the list or
\* a routine suspended in a call, and no two events resume the same routine.
EventTargetsAlive ==
  LET rest == Remaining IN
  \A i \in DOMAIN rest :
    /\ \/ rest[i] \in Range(listening)
       \/ rest[i] \in Coroutine /\ routine[rest[i]].state = "wait"
    /\ \A j \in DOMAIN rest : rest[i] = rest[j] => i = j

\* When ef_run_loop returns, every connection it accepted has been served and
\* closed, every listener freed and every coroutine deleted.
DoneMeansClean ==
  loop = "done" =>
    /\ open = {}
    /\ listening = << >>
    /\ \A co \in Coroutine : routine[co].state = "none"

\* After the signal the loop serves what it has accepted and returns.
StopEnds == stopping ~> loop = "done"

\* A connection on the queue of the listener that is first on the list gets its
\* routine, whatever arrives meanwhile.  (The other listeners can be starved by
\* the first: line 268 leaves the walk and the next starts from the head.)
FirstServed == \A fd \in Fd :
  fd \in Range(queue[Head(Listeners)]) ~> fd \notin Range(queue[Head(Listeners)])
=============================================================================
