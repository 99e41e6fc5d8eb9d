# A verification of simplesrv

simplesrv is a collection of network programming libraries: **ef**, a coroutine
and socket framework in C; **nebula**, a multi-reactor server framework in C++;
**tiga**, of which only a logger exists; and **examples**, the steps that led
there. nebula's build brings three Python programs along, which lint, format and
analyse it. This directory models them in TLA+, checks the models with TLC on
small instances and proves the safety properties with TLAPS for every instance.

Contents: [inventory](#inventory), [what is modelled](#what-is-modelled),
[the checks](#the-checks), [fairness](#fairness), [the proofs](#the-proofs),
[findings](#findings), [limits](#limits), [plan](#plan),
[how to run](#how-to-run).

## Inventory

### ef fibers: `src/ef/fiber.c`, `fiber_amd64_*.s`, `include/fiber.h`

- State: for each fiber its status, its saved stack pointer, its parent and its
  stack area; for the thread the fiber that is running.
- Operations: create and init (a first context on a new stack), resume (set the
  parent, switch), yield (switch to the parent), exit (mark and switch to the
  parent), delete (unmap). On a page fault the signal handler extends the stack
  of the running fiber.
- Hard: nested resumes. Yield and exit believe the parent recorded at the last
  resume; a wrong one continues on a stack that has moved on.
- Correct when: one context runs at a time; control comes back to the resume that
  gave it away; a stack that is unmapped or reset is one nobody will return to.

### ef coroutine pool: `src/ef/coroutine.c`

- State: `full_list`, `free_list`, a counter beside each, a last-run time for
  each coroutine.
- Operations: create (the most recently freed coroutine, or a new one up to
  `limit_max`), resume (which recycles a coroutine that has exited), shrink (give
  the longest idle back to the system).
- Hard: counters tested instead of the lists they count; the sign conventions of
  shrink; an order of the list that nothing maintains explicitly; the clock.
- Correct when: counters agree with lists, the limit holds, the free list has the
  exited coroutines once each, only coroutines idle for long enough go.

### ef socket runtime: `src/ef/framework.c` over `epoll.c` or `kqueue.c`

- State: the epoll set, the list of listeners with a queue of accepted
  connections each, a list of spare queue items, the pool, `stopping`; in each
  routine the descriptor it waits for.
- Operations: one thread runs `ef_run_loop`: wait for events, for each accept
  everything or resume a routine, start a routine for each queued connection,
  stop or shrink. A routine calls read, write, recv, send, connect and close,
  which associate the descriptor, yield and dissociate.
- Interaction: the loop resumes coroutines of the pool; these come back by yield
  or exit; the kernel gives out and takes back descriptor numbers; a signal
  handler sets `stopping`.
- Hard: events acted on long after they were returned; descriptor numbers used
  again; the pool at its limit; stopping with work on the queues.
- Correct when: a suspended routine is always registered, an event reaches the
  routine it is for, no descriptor has two owners or none, and the loop ends with
  nothing left.

`src/ef/main.c` is a proxy made of two listeners: a routine of the first connects
to the second. `include/list.h` is the intrusive list all of this is kept in.

### nebula: `src/nebula/src`

- State: a map of connections by descriptor, an acceptor on the main reactor, a
  sub-reactor for each processor with a poller of its own, a channel for each
  descriptor with the events asked for and seen, buffers, a connection state.
- Operations: accept and hand a connection to a sub-reactor; dispatch events to
  callbacks; read and write until the call would block; delete a connection from
  its own callback. A thread pool runs the sub-reactors.
- Hard: a connection is registered with another thread before it is complete; the
  map is shared without a lock; a channel may be deleted inside its own handler.
- Correct when: no event is delivered to an incomplete or deleted connection,
  what was written arrives, and closed connections are deleted once.

### nebula's build tools: `src/nebula/build_support`

`CMakeLists.txt` has the targets `format`, `check-format`, `check-clang-tidy` and
`check-lint`; a status other than zero fails the build.

- `run_clang_tidy.py`. State: a bounded queue of files with its count of unfinished
  tasks, a thread for each processor, the list of failed files, a temporary
  directory of replacement files. Operations: fill the queue, run clang-tidy in the
  threads, join, export and apply fixes, clean up; Ctrl-C at any time. Hard: the
  main thread waits for threads that may die; a failure must be on the list before
  the task counts as done. Correct when the status is zero only if every file was
  looked at and none failed.
- `run_clang_format.py`. State: the files left and an error flag for each directory.
  Correct when the status tells whether a file has to be formatted.
- `cpplint.py`. State, all of it global: the options and filters in force, the
  NOLINT comments of the current file, counters; for each file a stack of open
  blocks that follows conditional compilation, the function being read, the
  includes seen in each branch. Operations: read configurations from the file's
  directory up, read a file line by line, complain. Hard: what one file or one
  branch leaves behind for the next; scans forward and backward that must agree on
  brackets; filters from several sources in order of weight. Correct when a
  complaint is shown exactly if it is neither filtered nor excused, and what is
  remembered of the text is what the text says.

### Thread pools: `examples/pool1`, `examples/pool2`, `examples/simple/src`

- State: a list of tasks, counts of workers and idle workers, a stop flag, a mutex
  and a condition variable.
- Operations: add, take, stop.
- Hard: lost signals, timeouts that race with an addition, threads that must be
  counted down and reported on every path.
- Correct when: each task is run once, in order; stopping waits for the work and
  for the workers, and returns.

### Schedulers: `examples/co6`, `co7`, `srv3/Schedule.cpp`

Coroutines that sleep, in a priority queue by time of expiry. Correct when none
wakes early and the earliest wakes first.

### tiga: `src/tiga/lib/log.cc`

A logger with appenders, levels and a pattern compiled by `LogFormatter::init`.
Sequential. Correct when a message goes to the appenders its level admits and
the pattern is split as documented.

## What is modelled

| Module | Stands for | Kind |
|---|---|---|
| `EfFiber` | fiber.c and the context switch | component; its invariants are the callers' guarantee |
| `EfStack` | fiber.c: how large a stack is and where it grows | operators |
| `EfPool` | coroutine.c | component, extends `EfFiber` |
| `EfPoolSpec` | what the pool promises | abstract specification |
| `EfRuntime` | framework.c, epoll.c, the world around | component, with the pool as `EfPoolSpec` has it |
| `Pool1` | examples/pool1 | component, threads |
| `NebulaServer` | nebula's Server, Acceptor, Connection, EventLoop, Poller, Channel | component, threads |
| `ClangTidy`, `ClangFormat` | run_clang_tidy.py, run_clang_format.py | components |
| `LintNesting`, `LintIncludes` | cpplint.py: blocks and functions; includes | steps of a line, without a specification of their own |
| `LintFile` | cpplint.py on one file | composes the two |
| `LintExpressions` | cpplint.py: bracketed expressions | component |
| `LintDriver` | cpplint.py: files, options, filters, complaints | component |
| `MCEfPool`, `MCEfRuntime`, `MCPool1`, `MCNebulaServer`, `MCBuildTools`, `MCLint` | | instances for TLC |
| `EfPoolProofs`, `EfRuntimeProofs`, `Pool1Proofs`, `NebulaProofs`, `BuildToolsProofs`, `LintProofs`, `LintDriverProofs` | | theorems |
| `InductionLemmas` | | induction for the proofs about the runtime and the linter |

`EfFiber`. `ctx[f]` is what the saved stack pointer of a fiber leads back to: its
entry, a yield, a resume call that waits for another fiber, or nothing any more. Each operation is an action that a caller may
use while it keeps the contract stated there (`FiberNext`): init only an exited
fiber, delete only one that cannot run.

`EfStack`. A stack is its area, the end of it and `stack_lower`; addresses are
numbers. `CreatedStack` rounds the size up and maps the highest page, `Expands` is
the condition under which the handler of a fault maps more, `ExpandedStack` what it
leaves. There is no state here but the stack itself.

`EfPool`. `ef_coroutine_create` is `CreateFromFree` or `CreateNew`;
`ef_coroutine_resume` is split where control leaves it: `Resume` goes into the
coroutine, `Yield` and `Exit` come back, `Exit` with the recycling of lines
88-101. `Shrink` is one call with one pair of arguments; what the loop of the
code does is written as the length of the prefix it frees. The clock advances
between calls. `full_list` is a set, because nobody walks it; `run_count` is left
out, because nobody reads it.

`EfPoolSpec`. Two sets, live and idle, and four operations. This is all
`EfRuntime` needs of the pool, with the minimum that `EfPool!KeepsMinimum` adds.

`EfRuntime`. `loop` is the place in `ef_run_loop`, `current` says whether the loop
or a coroutine has the thread. A routine is an arbitrary program over the calls of
framework.h: it may wait on any descriptor it holds (`StartIO`), open sockets,
close them and return; `Return` contains the close in `ef_proc`. The five calls
that can block differ only in the event they wait for and are one action to the
suspension and two after it: `WakeDone` and, when the call would block again,
`WakeAgain`. Descriptors are numbers given out lowest first, so that reuse happens
at once. `interest` is the epoll set, with the `ptr` of each registration. Clients
connect while there is room in the backlog, for ever. Memory may fail where the
code allows for it.

`Pool1`. What a thread does between taking the mutex and giving it up or waiting
is one step: `Wait`, `Take`, `QuitExit`, `TimeoutExit`, `Again` for a worker, one
action for each outcome of `threadpool_add_task` and the two halves of
`threadpool_destroy` for main. A waiting worker is woken by a signal, by its
timeout or for no reason. `locked` is true when a call has returned with the mutex
held, which the code does.

`NebulaServer`. The main reactor's way through accept, the constructor of
Connection and `NewConnection` is `Accept`, `EnableRead`, `UseET`, `Bind`,
`ListBegins`, `ListEnds`: between any two of them a sub-reactor, a thread of its
own, may already be told of input on the new descriptor. A sub-reactor polls
(`Poll` takes the whole batch), handles one channel of it after another
(`HandleEvent`), reads one piece at a time until the call would block
(`ReadSome`, `ReadBlocks`, `ReadEnds`), writes as much as fits (`Write`) and
deletes (`FindBegins`, `FindEnds`, `Delete`). What a client sends comes in units: a
NUL byte, or some bytes without one. A read takes any number of them, and
`Buffer::Append`, which takes them for a string, keeps those before the first NUL.
`LoopFails` is `ErrorIf` after accept and after epoll_wait, which a signal may
interrupt; a write to a client that has reset may end the process by SIGPIPE. Each of these is one thread between
two moments at which another could tell. `connections_` is used without a lock: an
operation on it begins and ends in separate steps, and from the moment two threads
have been inside at once it may also do nothing or crash the process. `Delete` may
crash too, because `HandleEvent` goes on with the channel that was deleted. A
channel handled before its callback is set throws in the thread (`dead`); a failed
assertion or an `ErrorIf` ends the process.

`ClangTidy`. The queue, its count of unfinished tasks and the place of every thread.
A thread is `Take`, `Skip` or `Launch`, `Finish`, `Report`, and `Die` wherever a call
of Python may raise. The main thread is `Setup`, `Put`, `Filled`, `Join`, `Export`,
`ApplyFixes`, `Clean`, with Ctrl-C as `Interrupt`. `Spin` is the inner loop that an
entry which does not match never leaves. `ClangFormat` is the loop over directories
and files, run again and again on a tree that is edited in between.

`LintNesting` has `NestingState.Update` and `_FunctionState` as one step for each
line; `LintIncludes` has `_IncludeState` and the checks of order, repetition and
missing headers; `LintFile` puts both in the order of `ProcessLine`. A line is a
record of what the regular expressions find in it, so the patterns themselves are
left out. The text as it reads with the open branches alone, the headers with the
branches they are in, and the includes since the last directive are kept beside
what the program remembers, as history variables. `LintExpressions`
reads a text symbol by symbol with `CloseExpression` and `_GetTextInside` and goes
back over it with `ReverseCloseExpression`. `LintDriver` goes from the arguments
through the configuration files (`ReadConfig` for one of them, `ApplyConfig` for
their filters) to the lines of each file and the exit status; what the checks find
in a line is part of the line. `OpenFile` has what is complained about before the
first line, with the NOLINT comments that `CheckForHeaderGuard` reads in advance.

## The checks

| Run | Question | Bounds |
|---|---|---|
| `pool` | Are lists, counters, switches and shrinking right, and does the pool implement its abstraction? | 4 areas, limits 1 and 3, 2 clock units to the second, 4 instants, symmetric areas |
| `runtime` | Who owns each descriptor, who is registered, what does an event point to? | 2 listeners, 3 areas, limit 2, 5 descriptors, batches of 2, backlog 1, 1 own socket for each routine |
| `runtime_stop` | Does a signalled loop end, and clean? Is the queue served while connections keep coming? | 2 listeners, 1 coroutine, 5 descriptors, batches of 2 |
| `runtime_closes_own` | May a routine close its own connection? (no) | as `runtime`, without failures |
| `pool1` | Are counters and order of tasks right? Is everything run, does destroy return? | 3 workers, 6 tasks, with and without timeouts |
| `pool1_last_worker`, `pool1_full` | Are two comments of the code true? (no) | 2 of 3 workers, 3 tasks |
| `nebula` | Are map, echoes and events right, whoever is faster? | 2 sub-reactors, 2 descriptors, 2 clients with 3 units, the second of them a NUL, and 1 |
| `nebula_assert` | Does the assertion in Connection hold? (no) | as `nebula` |
| `build_tools` | Does clang-tidy's runner drop a file or a failure, does it end? What does the formatter's status say? | 3 threads, 5 files, 2 deaths, one entry that may not match; 4 source files in 2 directories |
| `check_format` | Does the target check-format fail when a file has to be formatted? (no) | as `build_tools` |
| `lint` | Does cpplint remember what the text says, and show what it should? | files of up to 6 lines in 6 alphabets, texts of up to 6 symbols, 2 files of 2 lines, one of them a header, below 2 directories with 16 configurations |

What the properties say is written above each of them in the modules. In short:

- `ReturnToResumer`, `StatusMatchesContext`: nested resumes come back where they
  should.
- `CountsMatch`, `FreeListIsExited`, `KeepsMinimum`, `IdlestFreedFirst`,
  `OnlyIdleFreed`: the pool.
- `MeetsFiberContract`, `ImplementsPoolSpec`: `EfPool` between `EfFiber` below and
  `EfPoolSpec` above. `EfRuntime` is written with the guards of `EfPoolSpec`, so
  there is nothing to check between these two.
- `OneOwner`: each open descriptor is a listener's, a queue item's or a routine's,
  exactly one of them. It says at once that nothing leaks and nothing is used
  after it was closed.
- `RegistrationsExact`: no lost and no misdirected wake-up. `EventTargetsAlive`:
  no event of a batch outlives what it points to.
- `StopEnds`, `DoneMeansClean`, `FirstServed`: ending and progress.
- `CountsThreads`, `InOrder`, `TasksRunUnlessFull`, `DestroyReturns`,
  `DestroyedMeansDone`: the thread pool.
- `EntriesExact`: the map never has an entry for a connection that is gone or for
  the previous owner of a descriptor, as long as no two threads have met in it.
  `NoInputForgotten`: edge-triggered input is never left without an event.
  `EchoesExact`: a client gets its own bytes, in order, and none is missing that
  no write has cut and no NUL byte taken with it. `ReactorsDieEarly`: what ends a
  reactor's thread is an event of the connection that main is building on it, and
  nothing else.
- `NeverExitsShort`, `UnfinishedExact`, `TidyEndsOrDrains`, `StatusTells`: the
  status of the build tools is to be believed, and the queue drains even when
  threads die. A check of the formatter speaks of its last directory alone.
- `BranchesLeaveNoTrace`: every branch is checked with the blocks open at its `#if`,
  and after the `#endif` with those that the first branch has left.
  `IncludesRemembered`: a header that every build has at a line is not forgotten
  there, and a duplicate is reported only with an earlier line to explain it.
  `OrderTold`: each include is reported as out of order, or out of the alphabet,
  exactly when it is, whatever was reported before. `LongFunctionsTold`,
  `BracketsAgree`: the other things that cpplint knows of a text. `ReportsExact`:
  what it shows.

Why the bounds suffice. The pool needs one coroutine above the minimum, one at
the limit and one area more, so that shrink can stop for each of its three
reasons and a freed area differs from a new one. The runtime needs two routines
that are suspended at once with events in one batch, a connection queued while
both are busy, and a descriptor number that changes hands: five descriptors, two
of them the listeners', give all of these. The stop run has one coroutine for
three connections, so that some are queued when the signal comes; `FirstServed`
needs two connections that wait for it, since with fewer the order of the queue
does not matter. Three workers and six tasks reach every combination of waiting,
woken, timed out and running. Two descriptors and two sub-reactors put two
connections on different threads, or the second on the number of the first; two
units make a read of more than one and an event between two reads, and with a NUL
in the middle of three it is read behind, before and without its neighbours. Three threads
and five files fill the queue and leave one thread when two have died. Six lines
are an `#if` with two arms and a block that is open across them, a function one
line longer than its trigger, or includes of three groups; six symbols are a
bracket with angle brackets, an operator and an end of line inside. Each property
is also tried against a fault, a `Faulty...` operator of its module, which it must
detect.

Deadlock is checked except where the program really may stop for ever: in `Pool1`
a full pool keeps the mutex and a destroyer may wait for nobody; in `NebulaServer`
the clients may all have gone, or the process; in `ClangTidy` a dead thread leaves
join waiting. Where a program ends there is an action for it that changes nothing.

## Fairness

- `EfRuntime!FairSpec`. The thread goes on: weak fairness of the loop's steps, and
  of the next blocking call or return of a routine, which is the part of a routine
  without a wait. The kernel reports a ready descriptor in the end and peers
  answer: strong fairness of the report of a routine's event and of the completion
  of its call, strong because the loop visits `wait` only now and then. A routine
  does not go on for ever: strong fairness of `Return`. Neither clients nor the
  signal are assumed to come. Routines of the stop run open no sockets, so that nothing keeps `Return` from being possible.
- `Pool1!FairSpec`. Weak fairness of every thread: the mutex is never held across a
  wait, and a thread that wants it gets it in the end. Timeouts and spurious
  wake-ups are not assumed to come.
- `ClangTidy!TidyFairSpec`, and the same in `MCBuildTools`. Weak fairness of the main
  thread and of each thread: a Python thread that can run is scheduled, and every
  clang-tidy comes to an end. Neither exceptions nor Ctrl-C are assumed to come or
  to stay away.
- `NebulaServer`, `ClangFormat` and cpplint are checked for safety only. nebula
  promises no answer: a reactor may lose its thread, and a peer need not read.

## The proofs

Each theorem is checked by TLAPS for every value of the constants of its module
that satisfies the named ASSUMEs there, which TLC evaluates too: any finite set of
coroutines, listeners, descriptors, threads, workers or clients, any limits, clock
and arguments, files and texts of any length. Hypotheses beyond these are said
below.

The pool (`EfPoolProofs`):

- `FiberSafe`: under the callers' contract one fiber runs and every yield and exit
  returns into the resume call that started the fiber. The invariant adds to the
  three properties of `EfFiber` the type of the contexts.
- `PoolTypes`, `PoolCountsMatch`, `PoolSafe`, `PoolStatusMatches`: the invariants of
  the pool, the limit and the order of the free list included. They are not inductive
  one by one: the count of the free list needs the list to be without repetition and
  within the full list, the order of the list needs last-run times that are not later
  than the clock, and recycling needs that a running coroutine is not on the free
  list. Together they are. Each action has a
  lemma of its own, and the prefix that shrink frees is described by lemmas on the
  operators that compute it.
- `PoolMeetsFiberContract`, `PoolSwitchesSafe`: each pool action is a step the
  contract allows, so what `FiberSafe` says holds in the pool.
- `PoolKeepsMinimum`: shrink with a positive count keeps `limit_min`.
- `PoolImplementsSpec`: the mapping is `live <- full minus free list`,
  `idle <- free list`; the step from the counter the code tests to the cardinality
  the abstraction speaks of is `CountsMatch`.
- `PoolIdlestFreedFirst`, `PoolOnlyIdleFreed`: the prefix of the free list that shrink
  frees is the oldest part, because the list is sorted. The second assumes that the
  idle times are whole seconds, as in main.c: for fractions it is false (see the
  findings).
- `StackGrowsRightly`: for every page size, an area that ef_fiber_create makes, and
  what any faults make of it, is mapped from `stack_lower` up and nowhere else in
  part; it grows for exactly the addresses between the guard page and `stack_lower`;
  and a fault on one stack never grows another. Page boundaries are shown to be the
  multiples of the page size, which gives the step from the rounded address that
  the code compares to the address itself. `MCEfPool` evaluates the same for small
  stacks as an assumption of the `pool` run, since the stacks have no steps of their
  own.

The runtime (`EfRuntimeProofs`):

- `RuntimeTypes`, `RuntimeEventsAlive`: whatever the routines do.
  `BaseInv` says who has the processor at each place of the loop, that only a
  suspended routine is registered, on what it waits for, and that a listener with a
  descriptor or a queue is on the list; an event of a batch then keeps its target
  until its turn. What a walk over the listeners keeps is a recursive function, and
  its type is found by induction.
- `RuntimeOneOwner`, `RuntimeRegistrations`: assume that routines leave their
  connection to ef_proc (`ClosesOwn = FALSE`); otherwise both are false, which is
  finding 1. `OwnInv` says of sets what `OneOwner` says of numbers: nothing is owned
  twice (`Exclusive`) and what is open is owned (`OpenIsOwned`); each routine that
  runs or waits has its connection still, so that the close in ef_proc closes that
  one. A lemma on cardinalities leads from one form to the other.
- `RuntimeDoneMeansClean`: assumes also that memory does not fail (see the limits).
  When no coroutine is alive the pool has one to start, so a walk of the queues
  that ends with none alive has served all of them (`EndInv`).

pool1 (`Pool1Proofs`):

- `PoolTypes`, `PoolCounts`, `PoolOrder`, `PoolDone`: the types of pool1, its
  counters, the order of tasks, and what the return of destroy means. Every step
  moves one worker between "none", idle and busy, or wakes waiting ones, which
  count as idle still; so there are two lemmas about counting, and each action is
  an instance of one of them. That nothing is left on the list needs one fact more:
  without timeouts a worker leaves only when it is empty (`NoneLeft`).

nebula (`NebulaProofs`):

- `ServerTypes`, `EntriesAreExact`, `InputIsKept`, `DescriptorsAreExact`.
  The invariant follows a connection through its life. A descriptor has one
  connection (`FdsDiffer`); a client in the backlog has none (`BacklogWaits`); a new
  one is closed by nobody before it is registered (`FreshOpen`); a thread that holds
  one holds it alone, and it belongs to that thread (`SubHolds`); until two threads
  have met in the map, an entry names the connection of its descriptor
  (`ListedOpen`, `ListedAfter`), and a connection that was looked up is not in the
  map any more (`HandOver`). `EdgesKept` is `NoInputForgotten` with the steps between
  registration and level-triggered events told apart, since an edge may be missing
  while epoll still watches the level. Each part has one lemma for each group of
  actions that can disturb it.
- `EchoesAreExact`: `EchoInv` says for each client, without looking at the others,
  that its answers, what its reactor has read and not written (`Hand`), and what is
  unread follow one another in the order of sending, and that as long as nothing
  can have been lost a gap begins with a NUL byte. It needs of the first invariant
  that only one reactor has a connection in hand.
- `ReactorsDieOnlyEarly`: a connection that is watched and not bound is the one main
  is building (`Building`), and one in a batch is watched.

The build tools (`BuildToolsProofs`):

- `TidyUnfinishedExact`, `TidyNeverExitsShort`: a file that was put is on the queue,
  with a thread, or dealt with (`FilesInv`); the count of unfinished tasks is the
  number of files on the queue and of threads that have one and did not mark it as
  done, the dead ones included. When join returns that number is zero, so no thread
  is dead and only "dealt with" is left; `FailedInv` carries a failure from the
  thread to the list and on to the status.
- `FormatStatusTells`: `WalkInv` relates the error flag to what is left of the
  present directory and, when files are edited in place, to the directories before.
  Of a check it has nothing to say about these, and neither has the theorem.
- `ToolsTypes`: the types of both programs, put together in `MCBuildTools`.

The linter (`LintProofs`):

- `LintTypes`, `LongFunctions`: assume `Verbose \in 0 .. 5`, the levels that cpplint
  documents. The second compares the trigger, a power of two, with the level, an
  integer logarithm; a lemma shows that they meet at every power.
- `OrderIsTold`: `OrderInv` says what the section and one header remember of the whole
  list of includes: the section is the latest place that one of them has, since a
  header that comes too late leaves it as it is, and the header is the last one. So
  each complaint follows from the list before it, at the time it is made.
- `BranchesTraceless`: `BranchesInv` relates the entries of `pp_stack` to the readings
  of the text, one for the whole file and one for each open `#if` (`Traced`). Up to
  its `#else` the reading of an `#if` and the one around it are the same; past it the
  one around stands still, in the entry, until the `#endif` brings it back. Nothing is needed of what a line does to the blocks but that it is
  a function of both: the theorem does not rest on the details of `Updated`.
- `IncludesAreRemembered`: conditionals are numbered as they open, so that the list of
  headers kept for each can be told apart from those of the others (`IncludesInv`):
  the last list is that of the last `#if`, open or not, and an `#else` that empties
  it takes nothing that a build has at this line, unless it has no `#if` (`stray`).
  Of two arms of one `#if` that both have a header, the list of the earlier one is
  gone unless another `#if` has been opened since (`at`).
- `BracketsDoAgree`: angle brackets come and go on the stack of `CloseExpression`
  and not on that of `_GetTextInside`. The one is related to the other by the places
  of the elements they share (`Shadow`). The stack of the backward scan is, without
  angle brackets, the one that `_GetTextInside` had at that symbol (`History`).

The linter as a program (`LintDriverProofs`):

- `ReportsAreExact`: the only hypotheses are the named assumptions of `LintDriver`,
  which say what a line, an option and a filter are, and that what a check finds of
  a file as a whole (line 0), early or late, is not of the categories that a marker for C files
  silences. `DriverInv` has two ideas. The filters in force are those of the flags and
  after them those of the current file's configurations, whichever way the files before
  it have ended (`FiltersInv`); read from the end, as `PassesFilters` does, the first
  list that speaks of a category is the one of the nearest directory, and that is how
  `Accepted` reads them (`FiltersDecide`, by induction over the list of lists that
  `FromConfig` joins). And the NOLINT comments that have been read are those of this
  text, at least up to the present line (`MarksInv`), so that a complaint about a line
  that has been read is suppressed exactly if a comment is for it (`SuppressedIs`).
  The exit status follows from a count that is positive if and only if something has
  been shown, since the complaints of one line are finitely many.

`InductionLemmas` states induction for sets of numbers instead of predicates, and
recursive functions by a function for the step instead of an operator, since the
provers cannot instantiate the operators of the library's theorems. With it the
types of `Kept`, `Updated`, `Unfinished` and `Named` are proved, and what
`PassesFilters` and `FlattenSeq` compute; more is not needed of recursive definitions.

Only model-checked: everything about progress (`StopEnds`, `FirstServed`,
`TasksRunUnlessFull`, `DestroyReturns`, `TidyEndsOrDrains`), since fairness is
beyond TLAPS. Every other property of a passing run is stated by a theorem.

## Findings

With a run that shows them:

1. `framework.c:55`: the unconditional close after a routine. If the routine has
   closed the connection, as the comment above permits, and waited for something
   else, the number is another connection's by then (`runtime_closes_own`).
2. `pool1/threadpool.cpp:168`: the last worker may leave on its timeout without
   telling main, which then waits in destroy for ever (`pool1_last_worker`).
3. `pool1/threadpool.cpp:72`: adding to a full pool returns with the mutex locked
   (`pool1_full`).
4. `nebula/src/Server.cpp:55`: a client that leaves before `NewConnection` has listed
   its connection is not found by `DeleteConnection`, and a write that fails closes
   without deleting; the next event on either trips over the assertion at
   `Connection.cpp:42` (`nebula_assert`).
5. `run_clang_format.py:125`: of several directories the result of the last one is
   all that stays. CMakeLists.txt passes `src` and `test` to check-format, which by
   its line 135 exits with a non-zero code if any files need to be reformatted; a
   file of `src` does not make it do so (`check_format`).

Disagreements met while modelling, which have no run:

- `coroutine.c:139`: shrink compares whole seconds, so an idle time that is not a
  multiple of 1000 ms frees coroutines too early (`EfPool` with `Second = 3` and an
  idle time of 2 shows it). The program in main.c uses 60000.
- `pool1/threadpool.cpp:166` checks the timeout alone; by the comment at 165 a worker
  leaves only if there is nothing to do. One whose wait timed out may find tasks, run
  one and leave the rest.
- `run_clang_tidy.py:317`: a file that the `files` arguments do not match is never
  put on the queue and never left, although line 225 offers such arguments: the main
  thread spins. The check targets pass none.
- `run_clang_tidy.py:118`: merging replacement files uses the module `yaml`, whose
  import is commented out at line 49; `-export-fixes` (line 220) always ends with 1
  when there is something to export.
- `cpplint.py:6287`: root, extensions, headers and linelength of a `CPPLINT.cfg` stay
  in force for the files after it, and a directory further up overrides the nearer
  one; the help text (253) says the file is for its directory and those below. Of
  several filter lines in one file the first weighs most.
- `cpplint.py:909`: an `#else` that follows a nested `#if` empties the list of the
  nested one, so that its arm is told not to repeat what the other arm includes; and
  after the `#endif` what the first arm has included may be repeated unreported,
  though some build has both.
- `cpplint.py:940`: by the comment `_last_header` is empty in a new section and so
  below any header. A system header that comes too late opens no section and becomes
  the last header all the same: the next include of the section that went on is
  compared with it.
- `cpplint.py:1799`: the forward scan looks for the keyword operator one symbol short
  of `>`, the backward scan does not.
- NOLINT comments are read twice for checks that look ahead and in header guards, so
  a malformed one is reported twice; a complaint about a line whose comment has not been read yet
  ignores it.

- `fiber.h:68`: the layout has a page of guard under every stack, and the comment at
  `fiber.c:165` keeps the last page unmapped; an area of one page, the smallest that
  `ef_fiber_create` makes, is mapped as a whole and has none.

What ef does that nobody claims it does not: resume and yield change `current_fiber`
before the switch has pushed its registers on the old stack, so if these need a new
page the handler looks at the wrong area and, by `StackGrowsRightly`, aborts. A
shrink with a negative count may go below `limit_min`, as the loop wants when it
stops; and with the pool already further below it than the count asks for, the
clamp and the sign change free that many instead.

What nebula does that nobody claims it does not: a message followed at once by the
end of the stream is read and never answered; a write that would block loses the
rest of the buffer; a reactor that meets a channel without a callback loses its
thread silently, and all its connections with it; a failing accept, or a signal
during epoll_wait, ends the whole server; a NUL byte and what was read behind it
are dropped (`Buffer.cpp:17`); the channel is used after its deletion.

## Limits

- In `EfRuntime` only the first listener of the list is sure to be served: after a
  failed start the walk begins again at the head of the list, so the others may
  starve. `DoneMeansClean` is checked with memory that does not fail: with an empty
  pool and a failing mmap the loop can return with connections queued.
- Results of calls, errors of fcntl, epoll_ctl and epoll_wait on valid
  descriptors, and a routine that keeps a socket open when it returns are left
  out. main.c does the last when connect fails.
- The pool's clock does not go back, although gettimeofday may.
- `Pool1` does not model pthread_create and malloc failing, which the code ignores.
- `NebulaServer` has the server side with the echo callback. The blocking client side,
  `EnableWrite`, which nobody calls, the kqueue poller and the destruction of the
  server are left out. A data race on a flag or a buffer that no other thread looks
  at is not told apart.
- `ClangTidy` leaves out printing, command lines and the contents of replacement
  files; of a race between Ctrl-C and the threads it has the outcome, an exception.
- The linter's checks of single lines are regular expressions without state: what they
  find is an input. Access specifiers, the indentation of class ends, and of the
  options root, extensions, headers, output, counting and quiet are left out. What
  lines are too long for is not judged: `linelength` stays in force for later files,
  and `ReportsExact` asks only what becomes of a complaint. Nor are complaints about
  lines whose comments have not been read (`early`).

Not modelled, and why. The list nodes, kqueue, the thread pools of
nebula, pool2 and simple and the schedulers are in the plan below. The single-reactor
servers of the examples are earlier steps of nebula with one thread. The other
build scripts only rearrange command lines, and the small examples are straight-line
programs.

## Plan

In this order, each with its instance for TLC, its faults and its theorems.

1. `EfProxy`: the two routines of main.c on a common pool. With `limit_max`
   proxied connections at once every coroutine waits for an answer that needs a
   coroutine; a failed connect keeps its descriptor.
2. `TaskPool`: the pools of nebula, pool2 and simple against one abstract
   specification of a pool that runs each task once.
3. `EfStack` composed with `EfFiber`: faults as steps, at the moments of a switch
   as well, with the handler's use of `current_fiber`.
4. `EfList`: linked nodes implementing the sequences used here; `EfKqueue`: the
   cache of filters against the kernel's.
5. `Schedule` and the pattern parser of tiga's `LogFormatter`.

## How to run

In this directory, `tlc -config EfPool.cfg MCEfPool` (and likewise for each line
of "runs" in PROJECT.json) and `tlapm EfPoolProofs.tla`. The longest runs are `lint`,
with about 1,290,000 states in two minutes, `pool`, whose refinements take it a minute
and a half, and `nebula`, with 2,020,000 states in one. `NebulaProofs` takes six minutes,
`LintProofs` three, `EfRuntimeProofs` two, the other proofs about one.
