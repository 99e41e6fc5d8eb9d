---------------------------- MODULE NebulaServer ----------------------------
(***************************************************************************)
(* The multi-reactor server of src/nebula/src with the echo callback of    *)
(* src/nebula/test/server.cpp.  The main reactor accepts, builds the       *)
(* Connection and lists it in connections_; from the middle of its         *)
(* constructor on, the sub-reactor of its descriptor, a thread of its own, *)
(* may be told of input, call back, and delete the connection again.       *)
(*                                                                         *)
(* Nothing is locked.  A step is what one thread does between two moments  *)
(* at which another could tell.  The map is used in two steps, begin and   *)
(* end: two threads inside it at once are a data race, after which the     *)
(* operation may also do nothing, or crash the process.  Memory that is    *)
(* read after its deletion gives the old value or crashes the process.     *)
(*                                                                         *)
(* What a client sends is numbered from 1, in units: a NUL byte, or bytes  *)
(* without one.  A read takes some of them.  poll wakes for input only;    *)
(* EINTR is left out of read and write, which try again.                   *)
(***************************************************************************)
EXTENDS Integers, Sequences

CONSTANTS Reactors,     \* the number of sub-reactors (hardware_concurrency)
          MaxFd,        \* the descriptors there are for connections
          MaxClients,   \* bound on the clients that connect
          MaxSent,      \* for each client, a bound on what it sends
          Zero          \* for each client, the numbers of its NUL bytes

ASSUME ServerAssumption ==
  /\ Reactors \in Nat \ {0}
  /\ {MaxFd, MaxClients} \subseteq Nat
  /\ MaxSent \in [1 .. MaxClients -> Nat]
  /\ Zero \in [1 .. MaxClients -> SUBSET Nat]

Client == 1 .. MaxClients
Fd == 1 .. MaxFd
SubReactor == 0 .. Reactors - 1
None == 0

VARIABLES
  \* The kernel, by client:
  peer,     \* "absent", "up", "eof" (it has shut down) or "reset"
  sent,     \* the number of units sent
  unread,   \* those the server has not read
  answers,  \* those written back
  backlog,  \* clients waiting for accept
  watch,    \* epoll: "no", "level" or "edge"
  event,    \* an edge that epoll_wait has not reported
  \* Connection and Channel, by client:
  fd,       \* the open descriptor, or None
  state,    \* Connection::state_: "invalid", "connected" or "closed"
  bound,    \* read_callback_ has been set
  buffer,   \* read_buffer_, then send_buffer_
  cut,      \* history: a write has left a part of the buffer unsent
  \* The server:
  connections, \* Server::connections_
  main,     \* the main reactor: [step, client]
  sub,      \* the sub-reactors: [step, client, batch (active_channels)]
  raced,    \* two threads have been in connections_ at once
  process   \* "up", "aborted" (assert), "exited" (ErrorIf) or "crashed"

kernelVars == <<peer, sent, unread, answers, backlog, watch, event>>
connVars == <<fd, state, bound, buffer, cut>>
serverVars == <<connections, main, sub, raced, process>>
vars == <<kernelVars, connVars, serverVars>>

KernelTypeOK ==
  /\ peer \in [Client -> {"absent", "up", "eof", "reset"}]
  /\ sent \in [Client -> Nat] /\ \A c \in Client : sent[c] <= MaxSent[c]
  /\ unread \in [Client -> Seq(Nat)] /\ answers \in [Client -> Seq(Nat)]
  /\ backlog \in Seq(Client)
  /\ watch \in [Client -> {"no", "level", "edge"}] /\ event \in [Client -> BOOLEAN]

ConnTypeOK ==
  /\ fd \in [Client -> Fd \cup {None}]
  /\ state \in [Client -> {"invalid", "connected", "closed"}]
  /\ bound \in [Client -> BOOLEAN] /\ cut \in [Client -> BOOLEAN]
  /\ buffer \in [Client -> Seq(Nat)]

MainStep == {"poll", "register", "edge", "bind", "list", "listing"}
SubStep == {"poll", "handle", "read", "write", "find", "finding", "free", "dead"}

SubRecord == [step : SubStep, client : Client \cup {None}, batch : SUBSET Client]

ServerTypeOK ==
  /\ connections \in [Fd -> Client \cup {None}]
  /\ main \in [step : MainStep, client : Client \cup {None}]
  /\ sub \in [SubReactor -> SubRecord]
  /\ raced \in BOOLEAN
  /\ process \in {"up", "aborted", "exited", "crashed"}

TypeOK == KernelTypeOK /\ ConnTypeOK /\ ServerTypeOK

\* Server::Server has started the sub-reactors.
Init ==
  /\ peer = [c \in Client |-> "absent"]
  /\ sent = [c \in Client |-> 0]
  /\ unread = [c \in Client |-> << >>] /\ answers = [c \in Client |-> << >>]
  /\ backlog = << >>
  /\ watch = [c \in Client |-> "no"] /\ event = [c \in Client |-> FALSE]
  /\ fd = [c \in Client |-> None]
  /\ state = [c \in Client |-> "invalid"]
  /\ bound = [c \in Client |-> FALSE] /\ cut = [c \in Client |-> FALSE]
  /\ buffer = [c \in Client |-> << >>]
  /\ connections = [d \in Fd |-> None]
  /\ main = [step |-> "poll", client |-> None]
  /\ sub = [r \in SubReactor |-> [step |-> "poll", client |-> None, batch |-> {}]]
  /\ raced = FALSE
  /\ process = "up"

Readable(c) == unread[c] # << >> \/ peer[c] \in {"eof", "reset"}

----------------------------------------------------------------------------
(***************************************************************************)
(* The clients.  What arrives makes an edge.                               *)
(***************************************************************************)
Arrives(c) == event' = [event EXCEPT ![c] = watch[c] # "no"]

Connect(c) ==
  /\ process = "up"
  /\ peer[c] = "absent" /\ \A b \in 1 .. c - 1 : peer[b] # "absent"
  /\ peer' = [peer EXCEPT ![c] = "up"]
  /\ backlog' = Append(backlog, c)
  /\ UNCHANGED <<sent, unread, answers, watch, event, connVars, serverVars>>

Send(c) ==
  /\ process = "up"
  /\ peer[c] = "up" /\ sent[c] < MaxSent[c]
  /\ sent' = [sent EXCEPT ![c] = @ + 1]
  /\ unread' = [unread EXCEPT ![c] = Append(@, sent'[c])]
  /\ Arrives(c)
  /\ UNCHANGED <<peer, answers, backlog, watch, connVars, serverVars>>

Leave(c, how) ==
  /\ process = "up"
  /\ \/ peer[c] = "up"
     \/ peer[c] = "eof" /\ how = "reset"
  /\ peer' = [peer EXCEPT ![c] = how]
  /\ Arrives(c)
  /\ UNCHANGED <<sent, unread, answers, backlog, watch, connVars, serverVars>>

----------------------------------------------------------------------------
(***************************************************************************)
(* The main reactor: Acceptor::AcceptConnection, Server::NewConnection and *)
(* the constructors they call.                                             *)
(***************************************************************************)
MainAt(step) == process = "up" /\ main.step = step
MainTo(step) == main' = [main EXCEPT !.step = step]

InMap == (IF main.step = "listing" THEN {None} ELSE {})
         \cup {sub[r].client : r \in {q \in SubReactor : sub[q].step = "finding"}}

Free == {d \in Fd : \A c \in Client : fd[c] # d}

\* accept takes the lowest free descriptor.
Accept ==
  /\ MainAt("poll")
  /\ backlog # << >>
  /\ \E d \in Free : (\A e \in Free : d <= e) /\ fd' = [fd EXCEPT ![Head(backlog)] = d]
  /\ backlog' = Tail(backlog)
  /\ main' = [step |-> "register", client |-> Head(backlog)]
  /\ UNCHANGED <<peer, sent, unread, answers, watch, event, state, bound, buffer, cut,
                 connections, sub, raced, process>>

\* accept may fail, with all descriptors in use and otherwise, and so may epoll_wait
\* in the loop of every reactor, for a signal (EINTR) too: ErrorIf ends the program.
LoopFails ==
  /\ process = "up"
  /\ main.step = "poll" \/ \E r \in SubReactor : sub[r].step = "poll"
  /\ process' = "exited"
  /\ UNCHANGED <<kernelVars, connVars, connections, main, sub, raced>>

\* Channel::EnableRead and UseET: epoll looks at the socket again each time.
Watch(from, how, to) ==
  /\ MainAt(from)
  /\ watch' = [watch EXCEPT ![main.client] = how]
  /\ event' = [event EXCEPT ![main.client] = Readable(main.client)]
  /\ MainTo(to)
  /\ UNCHANGED <<peer, sent, unread, answers, backlog, connVars, connections, sub, raced, process>>

EnableRead == Watch("register", "level", "edge")
UseET == Watch("edge", "edge", "bind")

\* A slip: the callback is set on the connection and not on its channel.
FaultyBind ==
  /\ MainAt("bind")
  /\ state' = [state EXCEPT ![main.client] = "connected"]
  /\ MainTo("list")
  /\ UNCHANGED <<kernelVars, fd, bound, buffer, cut, connections, sub, raced, process>>

\* The end of the constructor and the two Set...Callback calls.
Bind ==
  /\ MainAt("bind")
  /\ state' = [state EXCEPT ![main.client] = "connected"]
  /\ bound' = [bound EXCEPT ![main.client] = TRUE]
  /\ MainTo("list")
  /\ UNCHANGED <<kernelVars, fd, buffer, cut, connections, sub, raced, process>>

ListBegins ==
  /\ MainAt("list")
  /\ raced' = (raced \/ InMap # {})
  /\ MainTo("listing")
  /\ UNCHANGED <<kernelVars, connVars, connections, sub, process>>

ListEnds ==
  /\ MainAt("listing")
  /\ \/ connections' = [connections EXCEPT ![fd[main.client]] = main.client] /\ UNCHANGED process
     \/ raced /\ process' \in {"up", "crashed"} /\ UNCHANGED connections
  /\ main' = [step |-> "poll", client |-> None]
  /\ UNCHANGED <<kernelVars, connVars, sub, raced>>

----------------------------------------------------------------------------
(***************************************************************************)
(* A sub-reactor: EventLoop::Loop, Channel::HandleEvent and the callback.  *)
(***************************************************************************)
SubAt(r, step) == process = "up" /\ sub[r].step = step
SubTo(r, step) == sub' = [sub EXCEPT ![r] = [@ EXCEPT !.step = step]]

\* Back in Loop, on to the next of the batch.
Return(r) == sub' = [sub EXCEPT ![r] =
  [step |-> IF @.batch = {} THEN "poll" ELSE "handle", client |-> None, batch |-> @.batch]]

Ready(r) == {c \in Client : /\ watch[c] # "no" /\ fd[c] % Reactors = r
                            /\ event[c] \/ (watch[c] = "level" /\ Readable(c))}

Poll(r) ==
  /\ SubAt(r, "poll")
  /\ Ready(r) # {}
  /\ sub' = [sub EXCEPT ![r] = [step |-> "handle", client |-> None, batch |-> Ready(r)]]
  /\ event' = [c \in Client |-> event[c] /\ c \notin Ready(r)]
  /\ UNCHANGED <<peer, sent, unread, answers, backlog, watch, connVars, connections, main, raced, process>>

\* A slip: what was read before stays in the buffer.
FaultyCleared(c) == buffer[c]

\* Connection::Read begins with an empty buffer.
Cleared(c) == << >>

\* HandleEvent.  An empty std::function throws, and the packaged_task around
\* Loop keeps the exception: the thread is done.
HandleEvent(r, c) ==
  /\ SubAt(r, "handle")
  /\ c \in sub[r].batch
  /\ IF ~bound[c] THEN SubTo(r, "dead") /\ UNCHANGED <<buffer, process>>
     ELSE IF state[c] # "connected" THEN process' = "aborted" /\ UNCHANGED <<buffer, sub>>
     ELSE /\ sub' = [sub EXCEPT ![r] = [step |-> "read", client |-> c, batch |-> @.batch \ {c}]]
          /\ buffer' = [buffer EXCEPT ![c] = Cleared(c)]
          /\ UNCHANGED process
  /\ UNCHANGED <<kernelVars, fd, state, bound, cut, connections, main, raced>>

\* A slip: one read and no more.
FaultyDrained(c) == TRUE

Drained(c) == unread[c] = << >>

\* Buffer::Append: of n units, the k before the first NUL.  The rest is dropped.
Appended(c, n, k) ==
  /\ k \in 0 .. n
  /\ \A i \in 1 .. k : unread[c][i] \notin Zero[c]
  /\ k < n => unread[c][k + 1] \in Zero[c]

\* ReadNonBlocking: until there is no more, or no more to come.
ReadSome(r) == LET c == sub[r].client IN
  /\ SubAt(r, "read")
  /\ \E n \in 1 .. Len(unread[c]), k \in 0 .. Len(unread[c]) :
       /\ Appended(c, n, k)
       /\ buffer' = [buffer EXCEPT ![c] = @ \o SubSeq(unread[c], 1, k)]
       /\ unread' = [unread EXCEPT ![c] = SubSeq(@, n + 1, Len(@))]
  /\ UNCHANGED <<peer, sent, answers, backlog, watch, event, fd, state, bound, cut, serverVars>>

ReadBlocks(r) == LET c == sub[r].client IN
  /\ SubAt(r, "read")
  /\ Drained(c) /\ peer[c] = "up"
  /\ SubTo(r, "write")
  /\ UNCHANGED <<kernelVars, connVars, connections, main, raced, process>>

\* A slip: an error is told apart by State::Failed, which nobody looks at.
FaultyEnded(c) == IF peer[c] = "reset" THEN "failed" ELSE "closed"

\* EOF and errors alike.
Ended(c) == "closed"

ReadEnds(r) == LET c == sub[r].client IN
  /\ SubAt(r, "read")
  /\ Drained(c) /\ peer[c] \in {"eof", "reset"}
  /\ state' = [state EXCEPT ![c] = Ended(c)]
  /\ SubTo(r, "find")
  /\ UNCHANGED <<kernelVars, fd, bound, buffer, cut, connections, main, raced, process>>

\* WriteNonBlocking: all of it, or what fits, or an error, which may come with a
\* SIGPIPE.
Write(r) == LET c == sub[r].client IN
  /\ SubAt(r, "write")
  /\ IF peer[c] = "reset" /\ buffer[c] # << >>
     THEN /\ state' = [state EXCEPT ![c] = "closed"]
          /\ process' \in {"up", "crashed"}
          /\ UNCHANGED <<answers, cut>>
     ELSE \E n \in 0 .. Len(buffer[c]) :
            /\ answers' = [answers EXCEPT ![c] = @ \o SubSeq(buffer[c], 1, n)]
            /\ cut' = [cut EXCEPT ![c] = @ \/ n < Len(buffer[c])]
            /\ UNCHANGED <<state, process>>
  /\ Return(r)
  /\ UNCHANGED <<peer, sent, unread, backlog, watch, event, fd, bound, buffer, connections, main, raced>>

----------------------------------------------------------------------------
(***************************************************************************)
(* Connection::Close: Server::DeleteConnection and the destructors.        *)
(***************************************************************************)
FindBegins(r) ==
  /\ SubAt(r, "find")
  /\ raced' = (raced \/ InMap # {})
  /\ SubTo(r, "finding")
  /\ UNCHANGED <<kernelVars, connVars, connections, main, process>>

\* A slip: the entry stays.
FaultyErased(d) == connections

Erased(d) == [connections EXCEPT ![d] = None]

\* A connection that is not listed yet is left as it is.
FindEnds(r) == LET d == fd[sub[r].client] IN
  /\ SubAt(r, "finding")
  /\ \/ /\ connections[d] # None
        /\ sub' = [sub EXCEPT ![r] = [step |-> "free", client |-> connections[d], batch |-> @.batch]]
        /\ connections' = Erased(d)
        /\ UNCHANGED process
     \/ /\ connections[d] = None \/ raced
        /\ Return(r)
        /\ process' \in IF raced THEN {"up", "crashed"} ELSE {"up"}
        /\ UNCHANGED connections
  /\ UNCHANGED <<kernelVars, connVars, main, raced>>

\* ~Channel takes it off the poller, ~Socket closes the descriptor; HandleEvent
\* then goes on with the channel that is no more.
Delete(r) == LET c == sub[r].client IN
  /\ SubAt(r, "free")
  /\ watch' = [watch EXCEPT ![c] = "no"]
  /\ event' = [event EXCEPT ![c] = FALSE]
  /\ fd' = [fd EXCEPT ![c] = None]
  /\ bound' = [bound EXCEPT ![c] = FALSE]
  /\ buffer' = [buffer EXCEPT ![c] = << >>]
  /\ process' \in {"up", "crashed"}
  /\ Return(r)
  /\ UNCHANGED <<peer, sent, unread, answers, backlog, state, cut, connections, main, raced>>

----------------------------------------------------------------------------
Environment == \E c \in Client :
  Connect(c) \/ Send(c) \/ \E how \in {"eof", "reset"} : Leave(c, how)

MainReactor == Accept \/ LoopFails \/ EnableRead \/ UseET \/ Bind \/ ListBegins \/ ListEnds

SubReactorStep == \E r \in SubReactor :
  \/ Poll(r) \/ (\E c \in Client : HandleEvent(r, c))
  \/ ReadSome(r) \/ ReadBlocks(r) \/ ReadEnds(r) \/ Write(r)
  \/ FindBegins(r) \/ FindEnds(r) \/ Delete(r)

Next == Environment \/ MainReactor \/ SubReactorStep

Spec == Init /\ [][Next]_vars

----------------------------------------------------------------------------
(***************************************************************************)
(* Properties.                                                             *)
(***************************************************************************)

\* As long as no two threads have met in it, connections_ is exact: an entry is
\* for an open connection of that descriptor, never for one that is gone or that
\* had the descriptor before, and from the end of NewConnection to the moment
\* its own reactor deletes it a connection has its entry.
EntriesExact ==
  ~raced =>
    /\ \A d \in Fd : connections[d] # None => fd[connections[d]] = d
    /\ \A c \in Client :
         /\ fd[c] # None
         /\ main.client # c
         /\ ~\E r \in SubReactor : sub[r].step = "free" /\ sub[r].client = c
         => connections[fd[c]] = c

\* What the callback that runs has read of a client and not written yet.
InHand(c) == IF \E r \in SubReactor : sub[r].client = c THEN buffer[c] ELSE << >>

\* A unit of a client is not answered, and never will be.
Missing(c, i) == i \notin UNION {{s[j] : j \in DOMAIN s} : s \in {answers[c], InHand(c), unread[c]}}

\* A client gets what it has sent, in order, and nothing twice or of somebody
\* else's, whoever had the descriptor before, and never a NUL byte; and until the
\* server sees it leave, or a write was cut short, nothing is missing but what a
\* NUL byte takes with it: that byte itself, and what was read together with it
\* and came behind.  So a client that sends none misses nothing.
EchoesExact == \A c \in Client :
  /\ \A i \in 2 .. Len(answers[c]) : answers[c][i - 1] < answers[c][i]
  /\ \A i \in 1 .. Len(answers[c]) : answers[c][i] \in 1 .. sent[c] \ Zero[c]
  /\ fd[c] # None /\ state[c] # "closed" /\ ~cut[c] =>
       \A i \in 1 .. sent[c] :
         Missing(c, i) => i \in Zero[c] \/ (i > 1 /\ Missing(c, i - 1))

\* Edge-triggered events are reported once, so input must never be left without
\* one: while its reactor lives, a connection with something to read has an event
\* to come, or is in the batch or in the hands of the reactor.  (Except a
\* connection that was closed before main had listed it, or by a failing write:
\* nobody reads that again without tripping over the assertion.)
NoInputForgotten == \A c \in Client :
  LET r == fd[c] % Reactors IN
  /\ fd[c] # None /\ watch[c] # "no" /\ Readable(c)
  /\ sub[r].step # "dead" /\ state[c] # "closed"
  => event[c] \/ c \in sub[r].batch \/ sub[r].client = c

\* The exception that ends a sub-reactor, and leaves all its connections without
\* one, has one cause only: an event of a connection whose constructor main has not
\* left yet or whose callbacks it has not set, of that very reactor.  A channel
\* that is listed, closed or deleted, or one of another reactor, never does it.
ReactorsDieEarly == [][\A r \in SubReactor :
  sub[r].step # "dead" /\ sub'[r].step = "dead" =>
    main.step \in {"edge", "bind"} /\ fd[main.client] % Reactors = r]_vars

\* ASSERT(state_ == State::Connected, "connection state is disconnected!") in
\* Connection::Read and Write.
AssertionsHold == process # "aborted"
=============================================================================
