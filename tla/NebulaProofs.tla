---------------------------- MODULE NebulaProofs ----------------------------
(***************************************************************************)
(* What NebulaServer guarantees for any number of reactors, descriptors,   *)
(* clients and bytes.  The argument: a connection is in the hands of the   *)
(* main reactor until it is listed and of the sub-reactor of its           *)
(* descriptor from the registration on; what both know of it, fd and       *)
(* connections_, is changed by one of them at a time because no two        *)
(* connections have the same descriptor and a deletion is by way of the    *)
(* list.  At the end, on top of that, what is echoed: the numbers a client *)
(* has sent are in its answers, in its buffer while a callback runs, or    *)
(* unread, in this order.                                                  *)
(***************************************************************************)
EXTENDS NebulaServer, TLAPS

\* What main reactor holds: the connection it is building has a descriptor and is
\* not listed.
MainHolds ==
  /\ main.step = "poll" <=> main.client = None
  /\ main.client # None =>
       /\ fd[main.client] # None
       /\ \A d \in Fd : connections[d] # main.client

\* No two open connections share a descriptor.
FdsDiffer == \A c, b \in Client : fd[c] # None /\ fd[c] = fd[b] => c = b

\* What is listed is open, whatever races there were.
ListedOpen == \A d \in Fd : connections[d] # None => fd[connections[d]] = d

WorkStep == {"read", "write", "find", "finding", "free"}

\* The open connections of a sub-reactor.
Own(r) == {c \in Client : fd[c] # None /\ fd[c] % Reactors = r}

\* A sub-reactor works on open connections of its own, one at a time; one that it
\* is about to delete is listed no more and main reactor is through with it.
SubHolds == \A r \in SubReactor :
  /\ sub[r].step \in WorkStep => sub[r].client \in Own(r) \ sub[r].batch
  /\ sub[r].step \notin WorkStep => sub[r].client = None
  /\ sub[r].step = "free" =>
       sub[r].client # main.client /\ \A d \in Fd : connections[d] # sub[r].client
  /\ sub[r].batch \subseteq Own(r)

\* Only what has a descriptor is watched.
WatchedOpen == \A c \in Client : watch[c] # "no" => fd[c] # None

\* Who waits for accept has no descriptor, and waits once.
BacklogWaits ==
  /\ \A i \in 1 .. Len(backlog) : fd[backlog[i]] = None /\ peer[backlog[i]] # "absent"
  /\ \A i, j \in 1 .. Len(backlog) : backlog[i] = backlog[j] => i = j
  /\ \A c \in Client : peer[c] = "absent" => fd[c] = None

Deleting(c) == \E r \in SubReactor : sub[r].step = "free" /\ sub[r].client = c

\* From the end of NewConnection to its deletion a connection is listed.
ListedAfter ==
  ~raced => \A c \in Client :
    fd[c] # None /\ main.client # c /\ ~Deleting(c) => connections[fd[c]] = c

----------------------------------------------------------------------------
(***************************************************************************)
(* Sets and sequences.                                                     *)
(***************************************************************************)
LEMMA NoneIsNobody == None \notin Client /\ None \notin Fd
BY DEF None, Client, Fd

LEMMA HeadTail ==
  ASSUME NEW S, NEW s \in Seq(S), s # << >>
  PROVE  /\ Head(s) \in S /\ Tail(s) \in Seq(S)
         /\ Len(s) \in Nat \ {0} /\ Head(s) = s[1]
         /\ Len(Tail(s)) = Len(s) - 1
         /\ \A i \in 1 .. Len(Tail(s)) : Tail(s)[i] = s[i + 1]
OBVIOUS

LEMMA Put ==
  ASSUME NEW S, NEW T, NEW f \in [S -> T], NEW x \in S, NEW y \in T
  PROVE  [f EXCEPT ![x] = y] \in [S -> T]
OBVIOUS

LEMMA OneLonger ==
  ASSUME NEW S, NEW s \in Seq(S), NEW x \in S
  PROVE  /\ Append(s, x) \in Seq(S) /\ Len(Append(s, x)) = Len(s) + 1 /\ Len(s) \in Nat
         /\ Append(s, x)[Len(s) + 1] = x
         /\ \A i \in 1 .. Len(s) : Append(s, x)[i] = s[i]
OBVIOUS

LEMMA StepSet ==
  ASSUME NEW s \in SubRecord, NEW step
  PROVE  [s EXCEPT !.step = step] = [step |-> step, client |-> s.client, batch |-> s.batch]
BY DEF SubRecord

LEMMA Prefix ==
  ASSUME NEW S, NEW s \in Seq(S), NEW t \in Seq(S), NEW n \in 0 .. Len(t)
  PROVE  s \o SubSeq(t, 1, n) \in Seq(S)
<1>1. SubSeq(t, 1, n) \in Seq(S)
  OBVIOUS
<1> QED
  BY <1>1

----------------------------------------------------------------------------
(***************************************************************************)
(* What the steps of a sub-reactor change.                                 *)
(***************************************************************************)

\* The record of sub-reactor r becomes s, which holds what it should and deletes
\* nothing.
Becomes(r, s) ==
  /\ s \in SubRecord
  /\ sub' = [sub EXCEPT ![r] = s]
  /\ s.step # "free"
  /\ s.step \in WorkStep => s.client \in Own(r) \ s.batch
  /\ s.step \notin WorkStep => s.client = None
  /\ s.batch \subseteq Own(r)

Calm(r) ==
  /\ UNCHANGED <<fd, watch, backlog, peer, connections, main>>
  /\ raced => raced'
  /\ sub[r].step # "free"
  /\ \E s : Becomes(r, s)

LEMMA SubRecordAt ==
  ASSUME TypeOK, SubHolds, NEW r \in SubReactor
  PROVE  /\ sub[r] \in SubRecord
         /\ sub[r].step \in SubStep /\ sub[r].client \in Client \cup {None}
         /\ sub[r].batch \in SUBSET Client
         /\ sub[r] = [step |-> sub[r].step, client |-> sub[r].client, batch |-> sub[r].batch]
         /\ sub[r].step \in WorkStep => sub[r].client \in Client /\ fd[sub[r].client] \in Fd
<1>1. sub[r] \in SubRecord
  BY DEF TypeOK, ServerTypeOK
<1>2. sub[r].step \in WorkStep => sub[r].client \in Client /\ fd[sub[r].client] # None
  BY DEF SubHolds, Own
<1> QED
  BY <1>1, <1>2 DEF SubRecord, TypeOK, ConnTypeOK

\* The next step of the same work.
LEMMA SubToBecomes ==
  ASSUME TypeOK, SubHolds, NEW r \in SubReactor,
         NEW step \in {"read", "write", "find", "finding"}, sub[r].step \in WorkStep,
         SubTo(r, step)
  PROVE  \E s : Becomes(r, s)
<1> DEFINE s == [step |-> step, client |-> sub[r].client, batch |-> sub[r].batch]
<1>1. s \in SubRecord
  BY SubRecordAt DEF SubRecord, SubStep
<1>2. [sub[r] EXCEPT !.step = step] = s
  <2>1. sub[r] \in SubRecord
    BY SubRecordAt
  <2> QED
    BY <2>1, StepSet
<1>3. sub' = [sub EXCEPT ![r] = s]
  BY <1>2 DEF SubTo
<1>4. sub[r].client \in Own(r) \ sub[r].batch /\ sub[r].batch \subseteq Own(r)
  BY DEF SubHolds
<1>5. Becomes(r, s)
  BY <1>1, <1>3, <1>4 DEF Becomes, WorkStep
<1> QED
  BY <1>5

LEMMA ReturnBecomes ==
  ASSUME TypeOK, SubHolds, NEW r \in SubReactor, Return(r)
  PROVE  \E s : Becomes(r, s)
<1> DEFINE s == [step |-> IF sub[r].batch = {} THEN "poll" ELSE "handle",
                 client |-> None, batch |-> sub[r].batch]
<1>1. s \in SubRecord
  BY SubRecordAt DEF SubRecord, SubStep
<1>2. sub' = [sub EXCEPT ![r] = s]
  BY DEF Return
<1>3. sub[r].batch \subseteq Own(r)
  BY DEF SubHolds
<1>4. Becomes(r, s)
  BY <1>1, <1>2, <1>3 DEF Becomes, WorkStep
<1> QED
  BY <1>4

LEMMA StaysBecomes ==
  ASSUME TypeOK, SubHolds, NEW r \in SubReactor, sub[r].step # "free", sub' = sub
  PROVE  \E s : Becomes(r, s)
<1>1. sub' = [sub EXCEPT ![r] = sub[r]]
  BY DEF TypeOK, ServerTypeOK
<1>2. Becomes(r, sub[r])
  BY <1>1, SubRecordAt DEF Becomes, SubHolds
<1> QED
  BY <1>2

LEMMA CalmSteps ==
  ASSUME TypeOK, SubHolds, WatchedOpen, NEW r \in SubReactor,
         \/ Poll(r) \/ (\E c \in Client : HandleEvent(r, c))
         \/ ReadSome(r) \/ ReadBlocks(r) \/ ReadEnds(r) \/ Write(r) \/ FindBegins(r)
  PROVE  Calm(r)
<1>0. /\ sub[r].batch \in SUBSET Client /\ sub[r].batch \subseteq Own(r)
      /\ sub[r].step \notin WorkStep => sub[r].client = None
  BY SubRecordAt DEF SubHolds
<1>a. sub[r].step # "free"
  BY DEF Poll, HandleEvent, ReadSome, ReadBlocks, ReadEnds, Write, FindBegins, SubAt
<1>1. CASE Poll(r)
  <2> DEFINE s == [step |-> "handle", client |-> None, batch |-> Ready(r)]
  <2>1. Ready(r) \subseteq Own(r)
    BY DEF Ready, Own, WatchedOpen
  <2>2. s \in SubRecord
    BY DEF SubRecord, SubStep, Ready
  <2>3. Becomes(r, s)
    BY <1>1, <2>1, <2>2 DEF Poll, Becomes, WorkStep
  <2> QED
    BY <1>a, <1>1, <2>3 DEF Poll, Calm, connVars
<1>2. ASSUME NEW c \in Client, HandleEvent(r, c) PROVE Calm(r)
  <2>1. c \in sub[r].batch /\ sub[r].step = "handle"
    BY <1>2 DEF HandleEvent, SubAt
  <2>2. CASE ~bound[c]
    <3> DEFINE s == [step |-> "dead", client |-> None, batch |-> sub[r].batch]
    <3>1. sub[r].client = None
      BY <1>0, <2>1 DEF WorkStep
    <3>2. [sub[r] EXCEPT !.step = "dead"] = s
      <4>1. sub[r] \in SubRecord
        BY SubRecordAt
      <4> QED
        BY <3>1, <4>1, StepSet
    <3>3. sub' = [sub EXCEPT ![r] = s]
      BY <1>2, <2>2, <3>2 DEF HandleEvent, SubTo
    <3>4. Becomes(r, s)
      BY <1>0, <3>3 DEF Becomes, WorkStep, SubRecord, SubStep
    <3> QED
      BY <1>a, <1>2, <3>4 DEF HandleEvent, Calm, kernelVars
  <2>3. CASE bound[c] /\ state[c] # "connected"
    <3>1. sub' = sub
      BY <1>2, <2>3 DEF HandleEvent
    <3> QED
      BY <1>a, <1>2, <2>1, <3>1, StaysBecomes DEF HandleEvent, Calm, kernelVars
  <2>4. CASE bound[c] /\ state[c] = "connected"
    <3> DEFINE s == [step |-> "read", client |-> c, batch |-> sub[r].batch \ {c}]
    <3>1. s \in SubRecord
      BY <1>0 DEF SubRecord, SubStep
    <3>2. sub' = [sub EXCEPT ![r] = s]
      BY <1>2, <2>4 DEF HandleEvent
    <3>3. Becomes(r, s)
      BY <1>0, <2>1, <3>1, <3>2 DEF Becomes, WorkStep
    <3> QED
      BY <1>a, <1>2, <3>3 DEF HandleEvent, Calm, kernelVars
  <2> QED
    BY <2>2, <2>3, <2>4
<1>3. CASE ReadSome(r)
  <2>1. sub[r].step # "free" /\ sub' = sub
    BY <1>3 DEF ReadSome, SubAt, serverVars
  <2> QED
    BY <1>a, <1>3, <2>1, StaysBecomes DEF ReadSome, Calm, serverVars
<1>4. CASE ReadBlocks(r)
  <2>1. sub[r].step \in WorkStep /\ SubTo(r, "write")
    BY <1>4 DEF ReadBlocks, SubAt, WorkStep
  <2> QED
    BY <1>a, <1>4, <2>1, SubToBecomes DEF ReadBlocks, Calm, kernelVars, connVars
<1>5. CASE ReadEnds(r)
  <2>1. sub[r].step \in WorkStep /\ SubTo(r, "find")
    BY <1>5 DEF ReadEnds, SubAt, WorkStep
  <2> QED
    BY <1>a, <1>5, <2>1, SubToBecomes DEF ReadEnds, Calm, kernelVars
<1>6. CASE Write(r)
  BY <1>a, <1>6, ReturnBecomes DEF Write, Calm
<1>7. CASE FindBegins(r)
  <2>1. sub[r].step \in WorkStep /\ SubTo(r, "finding")
    BY <1>7 DEF FindBegins, SubAt, WorkStep
  <2> QED
    BY <1>a, <1>7, <2>1, SubToBecomes DEF FindBegins, Calm, kernelVars, connVars
<1> QED
  BY <1>1, <1>2, <1>3, <1>4, <1>5, <1>6, <1>7

----------------------------------------------------------------------------
(***************************************************************************)
(* The steps by what they do to what is shared.                            *)
(***************************************************************************)
CalmStep(r) ==
  \/ Poll(r) \/ (\E c \in Client : HandleEvent(r, c))
  \/ ReadSome(r) \/ ReadBlocks(r) \/ ReadEnds(r) \/ Write(r) \/ FindBegins(r)

\* FindEnds with the connection in the list.
Unlist(r) == LET d == fd[sub[r].client] IN
  /\ sub[r].step = "finding"
  /\ connections[d] # None
  /\ sub' = [sub EXCEPT ![r] = [step |-> "free", client |-> connections[d], batch |-> @.batch]]
  /\ connections' = Erased(d)
  /\ UNCHANGED <<fd, watch, backlog, peer, main, raced>>

LEMMA FindEndsSplit ==
  ASSUME TypeOK, SubHolds, NEW r \in SubReactor, FindEnds(r)
  PROVE  Calm(r) \/ Unlist(r)
<1>1. CASE Return(r) /\ UNCHANGED connections
  BY <1>1, ReturnBecomes DEF FindEnds, Calm, SubAt, kernelVars, connVars
<1> QED
  BY <1>1 DEF FindEnds, Unlist, SubAt, kernelVars, connVars

\* The connection that is found is the one that was looked for.
LEMMA FoundItself ==
  ASSUME TypeOK, SubHolds, FdsDiffer, ListedOpen, NEW r \in SubReactor, Unlist(r)
  PROVE  /\ sub[r].client \in Client /\ fd[sub[r].client] \in Fd
         /\ connections[fd[sub[r].client]] = sub[r].client
<1> DEFINE c == sub[r].client
<1>1. c \in Client /\ fd[c] \in Fd
  BY SubRecordAt DEF Unlist, WorkStep
<1>2. connections[fd[c]] \in Client /\ fd[connections[fd[c]]] = fd[c]
  BY <1>1 DEF Unlist, ListedOpen, TypeOK, ServerTypeOK
<1>3. fd[c] # None
  BY <1>1, NoneIsNobody
<1> QED
  BY <1>1, <1>2, <1>3 DEF FdsDiffer

\* The cases of a step, for the proofs that an invariant is kept.
LEMMA NextCases ==
  ASSUME TypeOK, SubHolds, WatchedOpen, Next
  PROVE  \/ \E c \in Client : Connect(c) \/ Send(c) \/ \E how \in {"eof", "reset"} : Leave(c, how)
         \/ Accept \/ LoopFails \/ EnableRead \/ UseET \/ Bind \/ ListBegins \/ ListEnds
         \/ \E r \in SubReactor : Calm(r) \/ Unlist(r) \/ Delete(r)
<1>1. CASE SubReactorStep
  <2>1. PICK r \in SubReactor :
          \/ Poll(r) \/ (\E c \in Client : HandleEvent(r, c))
          \/ ReadSome(r) \/ ReadBlocks(r) \/ ReadEnds(r) \/ Write(r)
          \/ FindBegins(r) \/ FindEnds(r) \/ Delete(r)
    BY <1>1 DEF SubReactorStep
  <2>2. Calm(r) \/ Unlist(r) \/ Delete(r)
    BY <2>1, CalmSteps, FindEndsSplit
  <2> QED
    BY <2>2
<1>2. CASE Environment
  BY <1>2 DEF Environment
<1>3. CASE MainReactor
  BY <1>3 DEF MainReactor
<1> QED
  BY <1>1, <1>2, <1>3 DEF Next

\* What accept does.
LEMMA AcceptFacts ==
  ASSUME TypeOK, BacklogWaits, Accept
  PROVE  \E c \in Client, d \in Fd :
           /\ c = Head(backlog) /\ c = backlog[1] /\ fd[c] = None /\ peer[c] # "absent"
           /\ \A b \in Client : fd[b] # d
           /\ fd' = [fd EXCEPT ![c] = d]
           /\ main' = [step |-> "register", client |-> c]
           /\ backlog' = Tail(backlog)
<1>1. backlog \in Seq(Client) /\ backlog # << >>
  BY DEF TypeOK, KernelTypeOK, Accept
<1>2. Head(backlog) \in Client /\ Len(backlog) \in Nat \ {0} /\ Head(backlog) = backlog[1]
  BY <1>1, HeadTail
<1>3. fd[Head(backlog)] = None /\ peer[Head(backlog)] # "absent"
  BY <1>2 DEF BacklogWaits
<1>4. PICK d \in Free : fd' = [fd EXCEPT ![Head(backlog)] = d]
  BY DEF Accept
<1> QED
  BY <1>2, <1>3, <1>4 DEF Accept, Free

----------------------------------------------------------------------------
(***************************************************************************)
(* Each part of the invariant is kept.                                     *)
(***************************************************************************)
LEMMA FdsDifferNext ==
  ASSUME TypeOK, FdsDiffer, SubHolds, WatchedOpen, BacklogWaits, Next
  PROVE  FdsDiffer'
<1>0. fd \in [Client -> Fd \cup {None}]
  BY DEF TypeOK, ConnTypeOK
<1>1. CASE UNCHANGED fd
  BY <1>1 DEF FdsDiffer
<1>2. CASE Accept
  BY <1>0, <1>2, AcceptFacts DEF FdsDiffer
<1>3. ASSUME NEW r \in SubReactor, Delete(r) PROVE FdsDiffer'
  BY <1>0, <1>3 DEF Delete, FdsDiffer
<1> QED
  BY <1>1, <1>2, <1>3, NextCases
     DEF Connect, Send, Leave, LoopFails, EnableRead, UseET, Watch, Bind, ListBegins, ListEnds,
         Calm, Unlist, connVars

LEMMA WatchedOpenNext ==
  ASSUME TypeOK, MainHolds, SubHolds, WatchedOpen, BacklogWaits, Next
  PROVE  WatchedOpen'
<1>0. fd \in [Client -> Fd \cup {None}] /\ watch \in [Client -> {"no", "level", "edge"}]
  BY DEF TypeOK, ConnTypeOK, KernelTypeOK
<1>1. CASE UNCHANGED <<fd, watch>>
  BY <1>1 DEF WatchedOpen
<1>2. CASE Accept
  BY <1>0, <1>2, AcceptFacts, NoneIsNobody DEF WatchedOpen, Accept
<1>3. ASSUME NEW r \in SubReactor, Delete(r) PROVE WatchedOpen'
  BY <1>0, <1>3 DEF Delete, WatchedOpen
<1>4. ASSUME NEW from \in {"register", "edge"}, NEW how \in {"level", "edge"}, NEW to \in {"edge", "bind"},
             Watch(from, how, to)
      PROVE  WatchedOpen'
  BY <1>0, <1>4 DEF Watch, WatchedOpen, MainHolds, MainAt, connVars
<1> QED
  BY <1>1, <1>2, <1>3, <1>4, NextCases
     DEF Connect, Send, Leave, LoopFails, EnableRead, UseET, Bind, ListBegins, ListEnds,
         Calm, Unlist, kernelVars, connVars

LEMMA ListedOpenNext ==
  ASSUME TypeOK, MainHolds, FdsDiffer, ListedOpen, SubHolds, WatchedOpen, BacklogWaits, Next
  PROVE  ListedOpen'
<1>0. /\ fd \in [Client -> Fd \cup {None}]
      /\ connections \in [Fd -> Client \cup {None}]
      /\ main.client \in Client \cup {None}
  BY DEF TypeOK, ConnTypeOK, ServerTypeOK
<1>1. CASE UNCHANGED <<fd, connections>>
  BY <1>1 DEF ListedOpen
<1>2. CASE Accept
  BY <1>0, <1>2, AcceptFacts, NoneIsNobody DEF ListedOpen, Accept
<1>3. ASSUME NEW r \in SubReactor, Delete(r) PROVE ListedOpen'
  BY <1>0, <1>3 DEF Delete, ListedOpen, SubHolds, SubAt
<1>4. CASE ListEnds
  <2>1. main.client \in Client /\ fd[main.client] \in Fd
    BY <1>0, <1>4 DEF ListEnds, MainHolds, MainAt
  <2> QED
    BY <1>0, <1>4, <2>1 DEF ListEnds, ListedOpen, connVars
<1>5. ASSUME NEW r \in SubReactor, Unlist(r) PROVE ListedOpen'
  BY <1>0, <1>5, FoundItself DEF Unlist, Erased, ListedOpen
<1> QED
  BY <1>1, <1>2, <1>3, <1>4, <1>5, NextCases
     DEF Connect, Send, Leave, LoopFails, EnableRead, UseET, Watch, Bind, ListBegins,
         Calm, connVars, serverVars
LEMMA MainHoldsNext ==
  ASSUME TypeOK, MainHolds, FdsDiffer, ListedOpen, SubHolds, WatchedOpen, BacklogWaits, Next
  PROVE  MainHolds'
<1>0. /\ fd \in [Client -> Fd \cup {None}]
      /\ connections \in [Fd -> Client \cup {None}]
      /\ main \in [step : MainStep, client : Client \cup {None}]
  BY DEF TypeOK, ConnTypeOK, ServerTypeOK
<1>1. CASE UNCHANGED <<fd, connections, main>>
  BY <1>1 DEF MainHolds
<1>2. CASE Accept
  <2>1. PICK c \in Client, d \in Fd :
          fd[c] = None /\ fd' = [fd EXCEPT ![c] = d] /\ main' = [step |-> "register", client |-> c]
    BY <1>2, AcceptFacts
  <2>2. c # None /\ fd'[c] # None /\ \A e \in Fd : connections[e] # c
    BY <1>0, <2>1, NoneIsNobody DEF ListedOpen
  <2>3. UNCHANGED connections
    BY <1>2 DEF Accept
  <2> QED
    BY <2>1, <2>2, <2>3 DEF MainHolds
<1>3. ASSUME main.step # "poll", NEW step \in {"register", "edge", "bind", "list", "listing"}, MainTo(step),
             UNCHANGED <<fd, connections>>
      PROVE  MainHolds'
  <2>1. main'.step = step /\ main'.client = main.client
    BY <1>0, <1>3 DEF MainTo
  <2> QED
    BY <1>3, <2>1 DEF MainHolds
<1>4. EnableRead => MainHolds'
  BY <1>3 DEF EnableRead, Watch, MainAt, connVars
<1>5. UseET => MainHolds'
  BY <1>3 DEF UseET, Watch, MainAt, connVars
<1>6. Bind => MainHolds'
  BY <1>3 DEF Bind, MainAt
<1>7. ListBegins => MainHolds'
  BY <1>3 DEF ListBegins, MainAt, connVars
<1>8. ListEnds => MainHolds'
  BY NoneIsNobody DEF ListEnds, MainHolds
<1>9. ASSUME NEW r \in SubReactor, Unlist(r) PROVE MainHolds'
  BY <1>0, <1>9, FoundItself DEF Unlist, Erased, MainHolds
<1>10. ASSUME NEW r \in SubReactor, Delete(r) PROVE MainHolds'
  BY <1>0, <1>10 DEF Delete, MainHolds, SubHolds, SubAt
<1> QED
  BY <1>1, <1>2, <1>4, <1>5, <1>6, <1>7, <1>8, <1>9, <1>10, NextCases
     DEF Connect, Send, Leave, LoopFails, Calm, connVars, serverVars

LEMMA BacklogWaitsNext ==
  ASSUME TypeOK, MainHolds, SubHolds, WatchedOpen, BacklogWaits, Next
  PROVE  BacklogWaits'
<1>0. /\ fd \in [Client -> Fd \cup {None}]
      /\ backlog \in Seq(Client) /\ Len(backlog) \in Nat
      /\ peer \in [Client -> {"absent", "up", "eof", "reset"}]
  BY DEF TypeOK, ConnTypeOK, KernelTypeOK
<1>1. CASE UNCHANGED <<fd, backlog, peer>>
  BY <1>1 DEF BacklogWaits
<1>2. CASE Accept
  <2>1. PICK c \in Client, d \in Fd :
          /\ c = backlog[1] /\ fd[c] = None /\ peer[c] # "absent"
          /\ fd' = [fd EXCEPT ![c] = d] /\ backlog' = Tail(backlog)
    BY <1>2, AcceptFacts
  <2>2. /\ Len(backlog) \in Nat \ {0} /\ Len(backlog') = Len(backlog) - 1
        /\ \A i \in 1 .. Len(backlog') : backlog'[i] = backlog[i + 1]
    BY <1>0, <1>2, <2>1, HeadTail DEF Accept
  <2>3. UNCHANGED peer
    BY <1>2 DEF Accept
  <2>4. \A i \in 1 .. Len(backlog') : i + 1 \in 1 .. Len(backlog) /\ backlog[i + 1] # c
    BY <2>1, <2>2 DEF BacklogWaits
  <2>5. \A i \in 1 .. Len(backlog) : backlog[i] \in Client
    BY <1>0
  <2>6. \A i \in 1 .. Len(backlog') : fd'[backlog'[i]] = None /\ peer[backlog'[i]] # "absent"
    BY <1>0, <2>1, <2>2, <2>4, <2>5 DEF BacklogWaits
  <2>7. \A i, j \in 1 .. Len(backlog') : backlog'[i] = backlog'[j] => i = j
    <3> SUFFICES ASSUME NEW i \in 1 .. Len(backlog'), NEW j \in 1 .. Len(backlog'), backlog'[i] = backlog'[j]
                 PROVE  i = j
      OBVIOUS
    <3>1. backlog[i + 1] = backlog[j + 1]
      BY <2>2
    <3>2. i + 1 = j + 1
      BY <2>4, <3>1 DEF BacklogWaits
    <3> QED
      BY <2>2, <3>2
  <2>8. \A b \in Client : peer[b] = "absent" => fd'[b] = None
    BY <1>0, <2>1 DEF BacklogWaits
  <2> QED
    BY <2>3, <2>6, <2>7, <2>8 DEF BacklogWaits
<1>3. ASSUME NEW c \in Client, Connect(c) PROVE BacklogWaits'
  <2>1. /\ peer[c] = "absent" /\ peer' = [peer EXCEPT ![c] = "up"]
        /\ backlog' = Append(backlog, c) /\ UNCHANGED fd
    BY <1>3 DEF Connect, connVars
  <2>2. fd[c] = None
    BY <2>1 DEF BacklogWaits
  <2>3. /\ Len(backlog') = Len(backlog) + 1
        /\ backlog'[Len(backlog) + 1] = c
        /\ \A i \in 1 .. Len(backlog) : backlog'[i] = backlog[i]
    BY <1>0, <2>1, OneLonger
  <2>4. \A i \in 1 .. Len(backlog) : backlog[i] # c /\ backlog[i] \in Client
    BY <1>0, <2>1 DEF BacklogWaits
  <2>5. \A i \in 1 .. Len(backlog') : i = Len(backlog) + 1 \/ i \in 1 .. Len(backlog)
    BY <1>0, <2>3
  <2>6. \A i \in 1 .. Len(backlog') : fd[backlog'[i]] = None /\ peer'[backlog'[i]] # "absent"
    BY <1>0, <2>1, <2>2, <2>3, <2>4, <2>5 DEF BacklogWaits
  <2>7. \A i, j \in 1 .. Len(backlog') : backlog'[i] = backlog'[j] => i = j
    BY <2>3, <2>4, <2>5 DEF BacklogWaits
  <2>8. \A b \in Client : peer'[b] = "absent" => fd[b] = None
    BY <1>0, <2>1 DEF BacklogWaits
  <2> QED
    BY <2>1, <2>6, <2>7, <2>8 DEF BacklogWaits
<1>4. ASSUME NEW c \in Client, NEW how \in {"eof", "reset"}, Leave(c, how) PROVE BacklogWaits'
  <2>1. \A b \in Client : peer'[b] = "absent" <=> peer[b] = "absent"
    BY <1>0, <1>4 DEF Leave
  <2>2. \A i \in 1 .. Len(backlog) : backlog[i] \in Client
    BY <1>0
  <2> QED
    BY <1>4, <2>1, <2>2 DEF Leave, BacklogWaits, connVars
<1>5. ASSUME NEW r \in SubReactor, Delete(r) PROVE BacklogWaits'
  <2>1. \A b \in Client : fd[b] = None => fd'[b] = None
    BY <1>0, <1>5 DEF Delete
  <2>2. \A i \in 1 .. Len(backlog) : backlog[i] \in Client
    BY <1>0
  <2> QED
    BY <1>5, <2>1, <2>2 DEF Delete, BacklogWaits
<1> QED
  BY <1>1, <1>2, <1>3, <1>4, <1>5, NextCases
     DEF Send, LoopFails, EnableRead, UseET, Watch, Bind, ListBegins, ListEnds,
         Calm, Unlist, kernelVars, connVars
\* What the others do is no harm to a sub-reactor as long as its connections stay
\* open and what it deletes is not listed again.
LEMMA SubStays ==
  ASSUME SubHolds, NEW r \in SubReactor, sub'[r] = sub[r],
         Own(r) \subseteq Own(r)',
         sub[r].step = "free" =>
           sub[r].client # main'.client /\ \A d \in Fd : connections'[d] # sub[r].client
  PROVE  /\ sub'[r].step \in WorkStep => sub'[r].client \in Own(r)' \ sub'[r].batch
         /\ sub'[r].step \notin WorkStep => sub'[r].client = None
         /\ sub'[r].step = "free" =>
              sub'[r].client # main'.client /\ \A d \in Fd : connections'[d] # sub'[r].client
         /\ sub'[r].batch \subseteq Own(r)'
BY DEF SubHolds

LEMMA SubHoldsNext ==
  ASSUME TypeOK, MainHolds, FdsDiffer, ListedOpen, SubHolds, WatchedOpen, BacklogWaits, Next
  PROVE  SubHolds'
<1>0. /\ fd \in [Client -> Fd \cup {None}]
      /\ connections \in [Fd -> Client \cup {None}]
      /\ main \in [step : MainStep, client : Client \cup {None}]
      /\ sub \in [SubReactor -> SubRecord]
  BY DEF TypeOK, ConnTypeOK, ServerTypeOK
<1>a. \A r \in SubReactor : sub[r].step = "free" =>
        /\ sub[r].client \in Client /\ fd[sub[r].client] \in Fd
        /\ sub[r].client # main.client /\ \A d \in Fd : connections[d] # sub[r].client
  BY SubRecordAt DEF SubHolds, WorkStep
<1>1. CASE UNCHANGED <<fd, sub, connections>> /\ main'.client = main.client
  <2>1. \A r \in SubReactor : Own(r)' = Own(r)
    BY <1>1 DEF Own
  <2> QED
    BY <1>1, <1>a, <2>1, SubStays DEF SubHolds
<1>2. CASE Accept
  <2>1. PICK c \in Client, d \in Fd :
          fd[c] = None /\ fd' = [fd EXCEPT ![c] = d] /\ main'.client = c
    BY <1>2, AcceptFacts
  <2>2. UNCHANGED <<sub, connections>>
    BY <1>2 DEF Accept
  <2>3. \A r \in SubReactor : Own(r) \subseteq Own(r)'
    BY <1>0, <2>1 DEF Own
  <2>4. \A r \in SubReactor : sub[r].step = "free" => sub[r].client # c
    BY <1>a, <2>1, NoneIsNobody
  <2> QED
    BY <1>a, <2>1, <2>2, <2>3, <2>4, SubStays DEF SubHolds
<1>3. CASE ListEnds
  <2>1. UNCHANGED <<fd, sub>> /\ main'.client = None
    BY <1>3 DEF ListEnds, connVars
  <2>2. \A r \in SubReactor : Own(r)' = Own(r)
    BY <2>1 DEF Own
  <2>3. \A r \in SubReactor : sub[r].step = "free" =>
          sub[r].client # None /\ \A d \in Fd : connections'[d] # sub[r].client
    BY <1>0, <1>a, <1>3, NoneIsNobody DEF ListEnds
  <2> QED
    BY <2>1, <2>2, <2>3, SubStays DEF SubHolds
<1>4. ASSUME NEW q \in SubReactor, Calm(q) PROVE SubHolds'
  <2>1. UNCHANGED <<fd, connections, main>>
    BY <1>4 DEF Calm
  <2>2. PICK s : Becomes(q, s)
    BY <1>4 DEF Calm
  <2>3. \A r \in SubReactor : Own(r)' = Own(r)
    BY <2>1 DEF Own
  <2>4. sub'[q] = s /\ \A r \in SubReactor \ {q} : sub'[r] = sub[r]
    BY <1>0, <2>2 DEF Becomes
  <2>5. \A r \in SubReactor \ {q} : sub[r].step = "free" =>
          sub[r].client # main'.client /\ \A d \in Fd : connections'[d] # sub[r].client
    BY <1>a, <2>1
  <2> QED
    BY <2>2, <2>3, <2>4, <2>5, SubStays DEF SubHolds, Becomes
<1>5. ASSUME NEW q \in SubReactor, Unlist(q) PROVE SubHolds'
  <2> DEFINE c == sub[q].client
             s == [step |-> "free", client |-> c, batch |-> sub[q].batch]
  <2>1. UNCHANGED <<fd, main>>
    BY <1>5 DEF Unlist
  <2>2. c \in Client /\ fd[c] \in Fd /\ connections[fd[c]] = c
    BY <1>5, FoundItself
  <2>3. sub'[q] = s /\ \A r \in SubReactor \ {q} : sub'[r] = sub[r]
    BY <1>0, <1>5, <2>2 DEF Unlist
  <2>4. connections' = [connections EXCEPT ![fd[c]] = None]
    BY <1>5 DEF Unlist, Erased
  <2>5. \A r \in SubReactor : Own(r)' = Own(r)
    BY <2>1 DEF Own
  <2>6. c \in Own(q) \ sub[q].batch /\ sub[q].batch \subseteq Own(q)
    BY <1>5 DEF Unlist, SubHolds, WorkStep
  <2>7. c # main.client
    BY <2>2, NoneIsNobody DEF MainHolds
  <2>8. \A d \in Fd : connections'[d] # c
    BY <1>0, <2>2, <2>4, NoneIsNobody DEF ListedOpen
  <2>9. \A r \in SubReactor \ {q} : sub[r].step = "free" =>
          sub[r].client # main'.client /\ \A d \in Fd : connections'[d] # sub[r].client
    BY <1>0, <1>a, <2>1, <2>2, <2>4, NoneIsNobody
  <2>10. /\ s.client \in Own(q)' \ s.batch
         /\ s.client # main'.client /\ \A d \in Fd : connections'[d] # s.client
         /\ s.batch \subseteq Own(q)' /\ s.step = "free"
    BY <2>1, <2>5, <2>6, <2>7, <2>8
  <2>11. \A r \in SubReactor \ {q} :
          /\ sub'[r].step \in WorkStep => sub'[r].client \in Own(r)' \ sub'[r].batch
          /\ sub'[r].step \notin WorkStep => sub'[r].client = None
          /\ sub'[r].step = "free" =>
               sub'[r].client # main'.client /\ \A d \in Fd : connections'[d] # sub'[r].client
          /\ sub'[r].batch \subseteq Own(r)'
    BY <2>3, <2>5, <2>9, SubStays
  <2> HIDE DEF s, c
  <2> QED
    BY <2>3, <2>10, <2>11 DEF SubHolds, WorkStep
<1>6. ASSUME NEW q \in SubReactor, Delete(q) PROVE SubHolds'
  <2> DEFINE c == sub[q].client
  <2>1. UNCHANGED <<main, connections>> /\ fd' = [fd EXCEPT ![c] = None] /\ Return(q) /\ sub[q].step = "free"
    BY <1>6 DEF Delete, SubAt
  <2>2. /\ c \in Own(q) \ sub[q].batch /\ sub[q].batch \subseteq Own(q)
    BY <2>1 DEF SubHolds, WorkStep
  <2>3. /\ sub'[q].batch = sub[q].batch /\ sub'[q].client = None
        /\ sub'[q].step \in {"poll", "handle"}
        /\ \A r \in SubReactor \ {q} : sub'[r] = sub[r]
    BY <1>0, <2>1 DEF Return
  <2>4. sub[q].batch \subseteq Own(q)'
    BY <1>0, <2>1, <2>2 DEF Own
  <2>5. \A r \in SubReactor \ {q} : Own(r) \subseteq Own(r)'
    BY <1>0, <2>1, <2>2 DEF Own
  <2>6. \A r \in SubReactor \ {q} : sub[r].step = "free" =>
          sub[r].client # main'.client /\ \A d \in Fd : connections'[d] # sub[r].client
    BY <1>a, <2>1
  <2> HIDE DEF c
  <2> QED
    BY <2>3, <2>4, <2>5, <2>6, SubStays DEF SubHolds, WorkStep
<1>7. ASSUME NEW step \in MainStep, MainTo(step) PROVE main'.client = main.client
  BY <1>0, <1>7 DEF MainTo
<1>8. EnableRead \/ UseET \/ Bind \/ ListBegins => SubHolds'
  BY <1>1, <1>7 DEF EnableRead, UseET, Watch, Bind, ListBegins, connVars, MainStep
<1> QED
  BY <1>1, <1>2, <1>3, <1>4, <1>5, <1>6, <1>8, NextCases
     DEF Connect, Send, Leave, LoopFails, connVars, serverVars

LEMMA ListedAfterNext ==
  ASSUME TypeOK, MainHolds, FdsDiffer, ListedOpen, SubHolds, WatchedOpen, BacklogWaits, ListedAfter, Next
  PROVE  ListedAfter'
<1>0. /\ fd \in [Client -> Fd \cup {None}]
      /\ connections \in [Fd -> Client \cup {None}]
      /\ main \in [step : MainStep, client : Client \cup {None}]
      /\ sub \in [SubReactor -> SubRecord]
      /\ raced \in BOOLEAN
  BY DEF TypeOK, ConnTypeOK, ServerTypeOK
<1>1. CASE UNCHANGED <<fd, sub, connections>> /\ main'.client = main.client /\ (raced => raced')
  BY <1>1 DEF ListedAfter, Deleting
<1>2. CASE Accept
  <2>1. PICK c \in Client, d \in Fd :
          fd[c] = None /\ fd' = [fd EXCEPT ![c] = d] /\ main'.client = c
    BY <1>2, AcceptFacts
  <2>2. UNCHANGED <<sub, connections, raced>> /\ main.client = None
    BY <1>2 DEF Accept, MainHolds, MainAt
  <2> QED
    BY <1>0, <2>1, <2>2, NoneIsNobody DEF ListedAfter, Deleting
<1>3. CASE ListEnds
  <2>1. UNCHANGED <<fd, sub, raced>> /\ main'.client = None
    BY <1>3 DEF ListEnds, connVars
  <2>2. main.client \in Client /\ fd[main.client] \in Fd
    BY <1>0, <1>3 DEF ListEnds, MainHolds, MainAt
  <2>3. ~raced => connections' = [connections EXCEPT ![fd[main.client]] = main.client]
    BY <1>3 DEF ListEnds
  <2> QED
    BY <1>0, <2>1, <2>2, <2>3 DEF ListedAfter, Deleting, FdsDiffer
<1>4. ASSUME NEW q \in SubReactor, Calm(q) PROVE ListedAfter'
  <2>1. UNCHANGED <<fd, connections, main>> /\ (raced => raced')
    BY <1>4 DEF Calm
  <2>2. PICK s : Becomes(q, s)
    BY <1>4 DEF Calm
  <2>3. sub[q].step # "free" /\ \A r \in SubReactor \ {q} : sub'[r] = sub[r]
    BY <1>0, <1>4, <2>2 DEF Becomes, Calm
  <2>4. \A c \in Client : Deleting(c) => Deleting(c)'
    BY <2>3 DEF Deleting
  <2> QED
    BY <2>1, <2>4 DEF ListedAfter
<1>5. ASSUME NEW q \in SubReactor, Unlist(q) PROVE ListedAfter'
  <2> DEFINE c == sub[q].client
  <2>1. UNCHANGED <<fd, main, raced>> /\ sub[q].step = "finding"
    BY <1>5 DEF Unlist
  <2>2. c \in Client /\ fd[c] \in Fd /\ connections[fd[c]] = c
    BY <1>5, FoundItself
  <2>3. /\ sub'[q].step = "free" /\ sub'[q].client = c
        /\ \A r \in SubReactor \ {q} : sub'[r] = sub[r]
    BY <1>0, <1>5, <2>2 DEF Unlist
  <2>4. connections' = [connections EXCEPT ![fd[c]] = None]
    BY <1>5 DEF Unlist, Erased
  <2>5. \A b \in Client : b = c \/ Deleting(b) => Deleting(b)'
    BY <2>1, <2>3 DEF Deleting
  <2> HIDE DEF c
  <2> SUFFICES ASSUME ~raced, NEW b \in Client, fd[b] # None, main.client # b, ~Deleting(b)'
               PROVE  connections'[fd[b]] = b
    BY <2>1 DEF ListedAfter
  <2>6. b # c /\ connections[fd[b]] = b
    BY <2>5 DEF ListedAfter
  <2>7. fd[b] # fd[c]
    BY <2>2, <2>6 DEF FdsDiffer
  <2> QED
    BY <1>0, <2>2, <2>4, <2>6, <2>7
<1>6. ASSUME NEW q \in SubReactor, Delete(q) PROVE ListedAfter'
  <2> DEFINE c == sub[q].client
  <2>1. /\ UNCHANGED <<main, connections, raced>> /\ fd' = [fd EXCEPT ![c] = None]
        /\ Return(q) /\ sub[q].step = "free"
    BY <1>6 DEF Delete, SubAt
  <2>2. c \in Client
    BY <2>1, SubRecordAt DEF WorkStep
  <2>3. \A r \in SubReactor \ {q} : sub'[r] = sub[r]
    BY <1>0, <2>1 DEF Return
  <2>4. \A b \in Client \ {c} : Deleting(b) => Deleting(b)'
    BY <2>3 DEF Deleting
  <2> HIDE DEF c
  <2> QED
    BY <1>0, <2>1, <2>2, <2>4 DEF ListedAfter
<1>7. ASSUME NEW step \in MainStep, MainTo(step) PROVE main'.client = main.client
  BY <1>0, <1>7 DEF MainTo
<1>8. ListBegins => (raced => raced')
  BY <1>0 DEF ListBegins
<1>9. EnableRead \/ UseET \/ Bind \/ ListBegins => ListedAfter'
  BY <1>1, <1>7, <1>8 DEF EnableRead, UseET, Watch, Bind, ListBegins, connVars, MainStep
<1> QED
  BY <1>1, <1>2, <1>3, <1>4, <1>5, <1>6, <1>9, NextCases
     DEF Connect, Send, Leave, LoopFails, connVars, serverVars
----------------------------------------------------------------------------
(***************************************************************************)
(* Types.                                                                  *)
(***************************************************************************)
LEMMA InitTypes == Init => TypeOK
<1> SUFFICES ASSUME Init PROVE TypeOK
  OBVIOUS
<1> USE DEF Init
<1>1. KernelTypeOK
  <2>1. \A c \in Client : sent[c] = 0 /\ MaxSent[c] \in Nat
    BY ServerAssumption DEF Client
  <2>2. unread \in [Client -> Seq(Nat)] /\ answers \in [Client -> Seq(Nat)] /\ backlog \in Seq(Client)
    OBVIOUS
  <2> QED
    BY <2>1, <2>2 DEF KernelTypeOK
<1>2. ConnTypeOK
  BY DEF ConnTypeOK
<1>3. ServerTypeOK
  BY DEF ServerTypeOK, MainStep, SubStep, SubRecord
<1> QED
  BY <1>1, <1>2, <1>3 DEF TypeOK

LEMMA EnvironmentTypes ==
  ASSUME TypeOK, NEW c \in Client,
         Connect(c) \/ Send(c) \/ \E how \in {"eof", "reset"} : Leave(c, how)
  PROVE  TypeOK'
<1>1. ConnTypeOK' /\ ServerTypeOK'
  BY DEF TypeOK, ConnTypeOK, ServerTypeOK, Connect, Send, Leave, connVars, serverVars
<1>2. KernelTypeOK'
  <2>0. KernelTypeOK
    BY DEF TypeOK
  <2>1. CASE Connect(c)
    <3>1. backlog' \in Seq(Client)
      BY <2>0, <2>1, OneLonger DEF Connect, KernelTypeOK
    <3> QED
      BY <2>0, <2>1, <3>1 DEF Connect, KernelTypeOK
  <2>2. CASE Send(c)
    <3>1. sent \in [Client -> Nat] /\ unread \in [Client -> Seq(Nat)] /\ \A b \in Client : sent[b] <= MaxSent[b]
      BY <2>0 DEF KernelTypeOK
    <3>2. /\ sent' = [sent EXCEPT ![c] = @ + 1] /\ sent[c] < MaxSent[c]
          /\ unread' = [unread EXCEPT ![c] = Append(@, sent'[c])]
      BY <2>2 DEF Send
    <3>3. MaxSent[c] \in Nat
      BY ServerAssumption DEF Client
    <3>4. sent[c] + 1 \in Nat /\ sent[c] + 1 <= MaxSent[c]
      BY <3>1, <3>2, <3>3
    <3>5. sent' \in [Client -> Nat] /\ sent'[c] = sent[c] + 1 /\ \A b \in Client : sent'[b] <= MaxSent[b]
      BY <3>1, <3>2, <3>4
    <3>6. Append(unread[c], sent'[c]) \in Seq(Nat)
      BY <3>1, <3>4, <3>5, OneLonger
    <3>7. unread' \in [Client -> Seq(Nat)]
      BY <3>1, <3>2, <3>6, Put
    <3> QED
      BY <2>0, <2>2, <3>5, <3>7 DEF Send, Arrives, KernelTypeOK
  <2>3. ASSUME NEW how \in {"eof", "reset"}, Leave(c, how) PROVE KernelTypeOK'
    BY <2>0, <2>3 DEF Leave, Arrives, KernelTypeOK
  <2> QED
    BY <2>1, <2>2, <2>3
<1> QED
  BY <1>1, <1>2 DEF TypeOK

LEMMA MainTypes ==
  ASSUME TypeOK, MainHolds, BacklogWaits, MainReactor
  PROVE  TypeOK'
<1>0. KernelTypeOK /\ ConnTypeOK /\ ServerTypeOK
  BY DEF TypeOK
<1>a. \A step \in MainStep : MainTo(step) => main' \in [step : MainStep, client : Client \cup {None}]
  BY <1>0 DEF ServerTypeOK, MainTo
<1>b. main.step # "poll" => main.client \in Client /\ fd[main.client] \in Fd
  BY <1>0 DEF MainHolds, ServerTypeOK, ConnTypeOK
<1>1. CASE Accept
  <2>1. PICK c \in Client, d \in Fd :
          /\ fd' = [fd EXCEPT ![c] = d] /\ backlog' = Tail(backlog)
          /\ main' = [step |-> "register", client |-> c]
    BY <1>1, AcceptFacts
  <2>2. backlog' \in Seq(Client)
    BY <1>0, <1>1, <2>1, HeadTail DEF Accept, KernelTypeOK
  <2>3. ConnTypeOK'
    BY <1>0, <1>1, <2>1 DEF Accept, ConnTypeOK
  <2>4. ServerTypeOK'
    BY <1>0, <1>1, <2>1 DEF Accept, ServerTypeOK, MainStep
  <2> QED
    BY <1>0, <1>1, <2>2, <2>3, <2>4 DEF Accept, TypeOK, KernelTypeOK
<1>2. CASE LoopFails
  BY <1>0, <1>2 DEF LoopFails, TypeOK, KernelTypeOK, ConnTypeOK, ServerTypeOK, kernelVars, connVars
<1>3. ASSUME NEW from \in {"register", "edge"}, NEW how \in {"level", "edge"}, NEW to \in {"edge", "bind"},
             Watch(from, how, to)
      PROVE  TypeOK'
  <2>1. main.client \in Client
    BY <1>b, <1>3 DEF Watch, MainAt
  <2>2. KernelTypeOK'
    BY <1>0, <1>3, <2>1 DEF Watch, KernelTypeOK, Readable
  <2>3. ServerTypeOK'
    BY <1>0, <1>a, <1>3 DEF Watch, ServerTypeOK, MainStep
  <2> QED
    BY <1>0, <1>3, <2>2, <2>3 DEF Watch, TypeOK, ConnTypeOK, connVars
<1>4. CASE Bind
  <2>1. ServerTypeOK'
    BY <1>0, <1>a, <1>4 DEF Bind, ServerTypeOK, MainStep
  <2> QED
    BY <1>0, <1>4, <2>1 DEF Bind, TypeOK, KernelTypeOK, ConnTypeOK, kernelVars
<1>5. CASE ListBegins
  <2>1. ServerTypeOK'
    BY <1>0, <1>a, <1>5 DEF ListBegins, ServerTypeOK, MainStep
  <2> QED
    BY <1>0, <1>5, <2>1 DEF ListBegins, TypeOK, KernelTypeOK, ConnTypeOK, kernelVars, connVars
<1>6. CASE ListEnds
  <2>1. main.client \in Client /\ fd[main.client] \in Fd
    BY <1>b, <1>6 DEF ListEnds, MainAt
  <2>2. ServerTypeOK'
    BY <1>0, <1>6, <2>1 DEF ListEnds, ServerTypeOK, MainStep
  <2> QED
    BY <1>0, <1>6, <2>2 DEF ListEnds, TypeOK, KernelTypeOK, ConnTypeOK, kernelVars, connVars
<1> QED
  BY <1>1, <1>2, <1>3, <1>4, <1>5, <1>6 DEF MainReactor, EnableRead, UseET

LEMMA BecomesTypes ==
  ASSUME TypeOK, NEW r \in SubReactor, \E s : Becomes(r, s)
  PROVE  sub' \in [SubReactor -> SubRecord]
<1>1. sub \in [SubReactor -> SubRecord]
  BY DEF TypeOK, ServerTypeOK
<1>2. PICK s \in SubRecord : sub' = [sub EXCEPT ![r] = s]
  BY DEF Becomes
<1> QED
  BY <1>1, <1>2, Put

LEMMA SubTypes ==
  ASSUME TypeOK, SubHolds, WatchedOpen, FdsDiffer, ListedOpen, SubReactorStep
  PROVE  TypeOK'
<1> SUFFICES ASSUME NEW r \in SubReactor,
                    \/ Poll(r) \/ (\E c \in Client : HandleEvent(r, c))
                    \/ ReadSome(r) \/ ReadBlocks(r) \/ ReadEnds(r) \/ Write(r)
                    \/ FindBegins(r) \/ FindEnds(r) \/ Delete(r)
             PROVE  TypeOK'
  BY DEF SubReactorStep
<1> DEFINE c == sub[r].client
<1>0. KernelTypeOK /\ ConnTypeOK /\ ServerTypeOK
  BY DEF TypeOK
<1>a. sub[r].step \in WorkStep => c \in Client /\ fd[c] \in Fd
  BY SubRecordAt
<1>b. Calm(r) => sub' \in [SubReactor -> SubRecord]
  BY BecomesTypes DEF Calm
<1>1. CASE Poll(r)
  <2>1. sub' \in [SubReactor -> SubRecord]
    BY <1>b, <1>1, CalmSteps
  <2>2. KernelTypeOK'
    BY <1>0, <1>1 DEF Poll, KernelTypeOK
  <2> QED
    BY <1>0, <1>1, <2>1, <2>2 DEF Poll, TypeOK, ConnTypeOK, ServerTypeOK, connVars
<1>2. ASSUME NEW b \in Client, HandleEvent(r, b) PROVE TypeOK'
  <2>1. sub' \in [SubReactor -> SubRecord]
    BY <1>b, <1>2, CalmSteps
  <2>2. buffer' \in [Client -> Seq(Nat)]
    <3>1. << >> \in Seq(Nat) /\ buffer \in [Client -> Seq(Nat)]
      BY <1>0 DEF ConnTypeOK
    <3>2. buffer' = buffer \/ buffer' = [buffer EXCEPT ![b] = << >>]
      BY <1>2 DEF HandleEvent, Cleared
    <3> QED
      BY <3>1, <3>2, Put
  <2>3. process' \in {"up", "aborted", "exited", "crashed"}
    BY <1>0, <1>2 DEF HandleEvent, ServerTypeOK
  <2> QED
    BY <1>0, <1>2, <2>1, <2>2, <2>3
       DEF HandleEvent, TypeOK, KernelTypeOK, ConnTypeOK, ServerTypeOK, kernelVars
<1>3. CASE ReadSome(r)
  <2>1. /\ unread \in [Client -> Seq(Nat)] /\ buffer \in [Client -> Seq(Nat)]
        /\ c \in Client
    BY <1>0, <1>a, <1>3 DEF ReadSome, SubAt, WorkStep, KernelTypeOK, ConnTypeOK
  <2>2. PICK n \in 1 .. Len(unread[c]), k \in 0 .. Len(unread[c]) :
          /\ buffer' = [buffer EXCEPT ![c] = buffer[c] \o SubSeq(unread[c], 1, k)]
          /\ unread' = [unread EXCEPT ![c] = SubSeq(unread[c], n + 1, Len(unread[c]))]
    BY <1>3 DEF ReadSome
  <2>a. buffer[c] \in Seq(Nat) /\ unread[c] \in Seq(Nat)
    BY <2>1
  <2>b. buffer[c] \o SubSeq(unread[c], 1, k) \in Seq(Nat)
    BY <2>a, Prefix
  <2>c. SubSeq(unread[c], n + 1, Len(unread[c])) \in Seq(Nat)
    BY <2>a
  <2>3. unread' \in [Client -> Seq(Nat)] /\ buffer' \in [Client -> Seq(Nat)]
    BY <2>1, <2>2, <2>b, <2>c, Put
  <2> QED
    BY <1>0, <1>3, <2>3 DEF ReadSome, TypeOK, KernelTypeOK, ConnTypeOK, ServerTypeOK, serverVars
<1>4. CASE ReadBlocks(r)
  <2>1. sub' \in [SubReactor -> SubRecord]
    BY <1>b, <1>4, CalmSteps
  <2> QED
    BY <1>0, <1>4, <2>1 DEF ReadBlocks, TypeOK, KernelTypeOK, ConnTypeOK, ServerTypeOK, kernelVars, connVars
<1>5. CASE ReadEnds(r)
  <2>1. sub' \in [SubReactor -> SubRecord]
    BY <1>b, <1>5, CalmSteps
  <2> QED
    BY <1>0, <1>5, <2>1 DEF ReadEnds, Ended, TypeOK, KernelTypeOK, ConnTypeOK, ServerTypeOK, kernelVars
<1>6. CASE Write(r)
  <2>1. sub' \in [SubReactor -> SubRecord]
    BY <1>b, <1>6, CalmSteps
  <2>2. /\ c \in Client /\ answers \in [Client -> Seq(Nat)] /\ buffer[c] \in Seq(Nat) /\ answers[c] \in Seq(Nat)
    BY <1>0, <1>a, <1>6 DEF Write, SubAt, WorkStep, KernelTypeOK, ConnTypeOK
  <2>3. \A n \in 0 .. Len(buffer[c]) : answers[c] \o SubSeq(buffer[c], 1, n) \in Seq(Nat)
    BY <2>2, Prefix
  <2>4. \A n \in 0 .. Len(buffer[c]) :
          [answers EXCEPT ![c] = answers[c] \o SubSeq(buffer[c], 1, n)] \in [Client -> Seq(Nat)]
    BY <2>2, <2>3, Put
  <2>5. answers' \in [Client -> Seq(Nat)]
    <3>1. \/ answers' = answers
          \/ \E n \in 0 .. Len(buffer[c]) : answers' = [answers EXCEPT ![c] = answers[c] \o SubSeq(buffer[c], 1, n)]
      BY <1>6 DEF Write
    <3> QED
      BY <2>2, <2>4, <3>1
  <2>6. state' \in [Client -> {"invalid", "connected", "closed"}] /\ cut' \in [Client -> BOOLEAN]
    BY <1>0, <1>6 DEF Write, ConnTypeOK
  <2>7. process' \in {"up", "aborted", "exited", "crashed"}
    BY <1>0, <1>6 DEF Write, ServerTypeOK
  <2> QED
    BY <1>0, <1>6, <2>1, <2>5, <2>6, <2>7 DEF Write, TypeOK, KernelTypeOK, ConnTypeOK, ServerTypeOK
<1>7. CASE FindBegins(r)
  <2>1. sub' \in [SubReactor -> SubRecord]
    BY <1>b, <1>7, CalmSteps
  <2> QED
    BY <1>0, <1>7, <2>1 DEF FindBegins, TypeOK, KernelTypeOK, ConnTypeOK, ServerTypeOK, kernelVars, connVars
<1>8. CASE FindEnds(r)
  <2>1. c \in Client /\ fd[c] \in Fd
    BY <1>a, <1>8 DEF FindEnds, SubAt, WorkStep
  <2>2. sub' \in [SubReactor -> SubRecord]
    <3>1. CASE Unlist(r)
      <4> DEFINE s == [step |-> "free", client |-> c, batch |-> sub[r].batch]
      <4>1. s \in SubRecord
        BY <2>1, SubRecordAt DEF SubRecord, SubStep
      <4>2. sub' = [sub EXCEPT ![r] = s]
        BY <3>1, FoundItself DEF Unlist
      <4>3. sub \in [SubReactor -> SubRecord]
        BY <1>0 DEF ServerTypeOK
      <4> HIDE DEF s
      <4> QED
        BY <4>1, <4>2, <4>3, Put
    <3> QED
      BY <1>b, <1>8, <3>1, FindEndsSplit
  <2>3. connections' \in [Fd -> Client \cup {None}]
    BY <1>0, <1>8, <2>1 DEF FindEnds, Erased, ServerTypeOK
  <2>4. process' \in {"up", "aborted", "exited", "crashed"}
    BY <1>0, <1>8 DEF FindEnds, ServerTypeOK
  <2> QED
    BY <1>0, <1>8, <2>2, <2>3, <2>4
       DEF FindEnds, TypeOK, KernelTypeOK, ConnTypeOK, ServerTypeOK, kernelVars, connVars
<1>9. CASE Delete(r)
  <2>1. sub' \in [SubReactor -> SubRecord]
    BY <1>9, ReturnBecomes, BecomesTypes DEF Delete
  <2>2. /\ watch' \in [Client -> {"no", "level", "edge"}] /\ event' \in [Client -> BOOLEAN]
        /\ fd' \in [Client -> Fd \cup {None}] /\ bound' \in [Client -> BOOLEAN]
    BY <1>0, <1>9 DEF Delete, KernelTypeOK, ConnTypeOK
  <2>3. buffer' \in [Client -> Seq(Nat)]
    <3>1. << >> \in Seq(Nat) /\ buffer \in [Client -> Seq(Nat)] /\ c \in Client
      BY <1>0, <1>a, <1>9 DEF ConnTypeOK, Delete, SubAt, WorkStep
    <3>2. buffer' = [buffer EXCEPT ![c] = << >>]
      BY <1>9 DEF Delete
    <3> QED
      BY <3>1, <3>2, Put
  <2> QED
    BY <1>0, <1>9, <2>1, <2>2, <2>3 DEF Delete, TypeOK, KernelTypeOK, ConnTypeOK, ServerTypeOK
<1> QED
  BY <1>1, <1>2, <1>3, <1>4, <1>5, <1>6, <1>7, <1>8, <1>9
----------------------------------------------------------------------------
(***************************************************************************)
(* No input is forgotten.                                                  *)
(***************************************************************************)

\* A reactor works only on connections that are bound, and main changes the state
\* of one before it binds it; a batch is empty while the reactor polls; what is
\* looked up or deleted is closed.
HandsOver(r) ==
  /\ sub[r].step \in WorkStep => bound[sub[r].client]
  /\ sub[r].step = "poll" => sub[r].batch = {}
  /\ sub[r].step \in {"find", "finding", "free"} => state[sub[r].client] = "closed"

HandOver ==
  /\ main.client # None => (bound[main.client] <=> main.step \in {"list", "listing"})
  /\ \A c \in Client : bound[c] => fd[c] # None
  /\ \A r \in SubReactor : HandsOver(r)

\* A connection that main has not bound yet has never been closed.
Fresh(c) ==
  \/ peer[c] = "absent"
  \/ \E i \in 1 .. Len(backlog) : backlog[i] = c
  \/ main.client = c /\ main.step \in {"register", "edge", "bind"}

FreshOpen == \A c \in Client : Fresh(c) => state[c] # "closed"

\* What is there to read is announced by an event, in a batch, or being read.
Kept(c, r) ==
  /\ c \in Own(r) /\ watch[c] # "no" /\ Readable(c)
  /\ sub[r].step # "dead" /\ state[c] # "closed"
  => event[c] \/ c \in sub[r].batch \/ (sub[r].step = "read" /\ sub[r].client = c)

EdgesKept == \A c \in Client, r \in SubReactor : Kept(c, r)

LEMMA OthersSame ==
  ASSUME TypeOK, NEW r \in SubReactor, NEW s, sub' = [sub EXCEPT ![r] = s]
  PROVE  sub'[r] = s /\ \A q \in SubReactor \ {r} : sub'[q] = sub[q]
BY DEF TypeOK, ServerTypeOK

LEMMA SubToAt ==
  ASSUME TypeOK, SubHolds, NEW r \in SubReactor, NEW step, SubTo(r, step)
  PROVE  /\ sub'[r].step = step /\ sub'[r].client = sub[r].client /\ sub'[r].batch = sub[r].batch
         /\ \A q \in SubReactor \ {r} : sub'[q] = sub[q]
<1>1. sub[r] \in SubRecord
  BY SubRecordAt
<1>2. [sub[r] EXCEPT !.step = step] = [step |-> step, client |-> sub[r].client, batch |-> sub[r].batch]
  BY <1>1, StepSet
<1> DEFINE s == [step |-> step, client |-> sub[r].client, batch |-> sub[r].batch]
<1>3. sub' = [sub EXCEPT ![r] = s]
  BY <1>2 DEF SubTo
<1>4. sub'[r] = s /\ \A q \in SubReactor \ {r} : sub'[q] = sub[q]
  <2> HIDE DEF s
  <2> QED
    BY <1>3, OthersSame
<1> QED
  BY <1>4

LEMMA ReturnAt ==
  ASSUME TypeOK, NEW r \in SubReactor, Return(r)
  PROVE  /\ sub'[r].step = IF sub[r].batch = {} THEN "poll" ELSE "handle"
         /\ sub'[r].client = None /\ sub'[r].batch = sub[r].batch
         /\ \A q \in SubReactor \ {r} : sub'[q] = sub[q]
BY OthersSame DEF Return

\* The connections of two reactors are different ones.
LEMMA OwnDiffers ==
  ASSUME SubHolds, NEW r \in SubReactor, NEW q \in SubReactor \ {r}
  PROVE  /\ sub[r].step \in WorkStep /\ sub[q].step \in WorkStep => sub[r].client # sub[q].client
         /\ sub[r].step \in WorkStep => sub[r].client \notin sub[q].batch
BY DEF SubHolds, Own

LEMMA HandOverNext ==
  ASSUME TypeOK, MainHolds, FdsDiffer, ListedOpen, SubHolds, BacklogWaits, HandOver, Next
  PROVE  HandOver'
<1>0. /\ fd \in [Client -> Fd \cup {None}] /\ bound \in [Client -> BOOLEAN]
      /\ state \in [Client -> {"invalid", "connected", "closed"}]
      /\ main \in [step : MainStep, client : Client \cup {None}]
      /\ \A r \in SubReactor : sub[r].step \in WorkStep => sub[r].client \in Client
  BY SubRecordAt DEF TypeOK, ConnTypeOK, ServerTypeOK
<1>1. CASE UNCHANGED <<fd, bound, state, main, sub>>
  BY <1>1 DEF HandOver, HandsOver
<1>2. CASE Accept
  <2>1. PICK c \in Client, d \in Fd :
          fd[c] = None /\ fd' = [fd EXCEPT ![c] = d] /\ main' = [step |-> "register", client |-> c]
    BY <1>2, AcceptFacts
  <2>2. UNCHANGED <<bound, state, sub>>
    BY <1>2 DEF Accept
  <2>3. bound[c] = FALSE
    BY <1>0, <2>1 DEF HandOver, HandsOver
  <2>4. \A b \in Client : bound[b] => fd'[b] # None
    BY <1>0, <2>1, <2>3 DEF HandOver, HandsOver
  <2> QED
    BY <2>1, <2>2, <2>3, <2>4 DEF HandOver, HandsOver
<1>a. \A step \in MainStep : MainTo(step) => main'.step = step /\ main'.client = main.client
  BY <1>0 DEF MainTo
<1>3. EnableRead \/ UseET => HandOver'
  BY <1>a DEF EnableRead, UseET, Watch, MainAt, HandOver, HandsOver, connVars, MainStep
<1>4. CASE Bind
  <2>1. main.step = "bind" /\ main.client \in Client /\ fd[main.client] # None
    BY <1>0, <1>4 DEF Bind, MainAt, MainHolds
  <2>2. main'.step = "list" /\ main'.client = main.client
    BY <1>4, <1>a DEF Bind, MainStep
  <2>3. /\ bound[main.client] = FALSE
        /\ bound' = [bound EXCEPT ![main.client] = TRUE]
        /\ state' = [state EXCEPT ![main.client] = "connected"]
        /\ UNCHANGED <<fd, sub>>
    BY <1>0, <1>4, <2>1, NoneIsNobody DEF HandOver, HandsOver, Bind
  <2>4. \A r \in SubReactor : sub[r].step \in WorkStep => sub[r].client # main.client
    BY <2>3 DEF HandOver, HandsOver
  <2>5. \A r \in SubReactor : sub[r].step \in WorkStep =>
          bound'[sub[r].client] /\ state'[sub[r].client] = state[sub[r].client]
    BY <1>0, <2>3, <2>4 DEF HandOver, HandsOver
  <2> QED
    BY <1>0, <2>1, <2>2, <2>3, <2>5 DEF HandOver, HandsOver, WorkStep
<1>5. ListBegins => HandOver'
  BY <1>a DEF ListBegins, MainAt, HandOver, HandsOver, connVars, MainStep
<1>6. ListEnds => HandOver'
  BY DEF ListEnds, HandOver, HandsOver, connVars
<1>7. ASSUME NEW r \in SubReactor,
             \/ Poll(r) \/ (\E c \in Client : HandleEvent(r, c))
             \/ ReadSome(r) \/ ReadBlocks(r) \/ ReadEnds(r) \/ Write(r)
             \/ FindBegins(r) \/ FindEnds(r)
      PROVE  HandOver'
  <2>1. UNCHANGED <<fd, bound, main>>
    BY <1>7 DEF Poll, HandleEvent, ReadSome, ReadBlocks, ReadEnds, Write, FindBegins, FindEnds,
                serverVars, connVars
  <2>2. \A c \in Client : state[c] = "closed" => state'[c] = "closed"
    BY <1>0, <1>7 DEF Poll, HandleEvent, ReadSome, ReadBlocks, ReadEnds, Ended, Write, FindBegins,
                FindEnds, connVars
  <2>3. \A q \in SubReactor \ {r} : sub'[q] = sub[q]
    BY <1>7, OthersSame, SubToAt, ReturnAt
       DEF Poll, HandleEvent, ReadSome, ReadBlocks, ReadEnds, Write, FindBegins, FindEnds, serverVars
  <2>4. HandsOver(r)'
    <3>0. HandsOver(r)
      BY DEF HandOver
    <3>1. CASE Poll(r)
      <4>1. sub'[r].step = "handle"
        <5>1. sub \in [SubReactor -> SubRecord]
          BY DEF TypeOK, ServerTypeOK
        <5> QED
          BY <3>1, <5>1 DEF Poll
      <4> QED
        BY <4>1 DEF HandsOver, WorkStep
    <3>2. ASSUME NEW c \in Client, HandleEvent(r, c) PROVE HandsOver(r)'
      <4>1. CASE ~bound[c]
        <5>1. sub'[r].step = "dead"
          BY <3>2, <4>1, SubToAt DEF HandleEvent
        <5> QED
          BY <5>1 DEF HandsOver, WorkStep
      <4>2. CASE bound[c] /\ state[c] # "connected"
        <5>1. sub' = sub /\ sub[r].step = "handle"
          BY <3>2, <4>2 DEF HandleEvent, SubAt
        <5> QED
          BY <5>1 DEF HandsOver, WorkStep
      <4>3. CASE bound[c] /\ state[c] = "connected"
        <5>1. sub'[r].step = "read" /\ sub'[r].client = c
          BY <3>2, <4>3, OthersSame DEF HandleEvent
        <5> QED
          BY <2>1, <4>3, <5>1 DEF HandsOver
      <4> QED
        BY <4>1, <4>2, <4>3
    <3>3. CASE ReadSome(r)
      BY <3>0, <3>3 DEF ReadSome, HandsOver, serverVars
    <3>4. CASE ReadBlocks(r)
      <4>1. sub'[r].step = "write" /\ sub'[r].client = sub[r].client /\ sub[r].step = "read"
        BY <3>4, SubToAt DEF ReadBlocks, SubAt
      <4> QED
        BY <2>1, <3>0, <4>1 DEF HandsOver, WorkStep
    <3>5. CASE ReadEnds(r)
      <4>1. sub'[r].step = "find" /\ sub'[r].client = sub[r].client /\ sub[r].step = "read"
        BY <3>5, SubToAt DEF ReadEnds, SubAt
      <4>2. sub[r].client \in Client
        BY <1>0, <4>1 DEF WorkStep
      <4>3. state'[sub[r].client] = "closed"
        BY <1>0, <3>5, <4>2 DEF ReadEnds, Ended
      <4> QED
        BY <2>1, <3>0, <4>1, <4>3 DEF HandsOver, WorkStep
    <3>6. CASE Return(r)
      BY <3>6, ReturnAt DEF HandsOver, WorkStep
    <3>7. CASE FindBegins(r)
      <4>1. sub'[r].step = "finding" /\ sub'[r].client = sub[r].client /\ sub[r].step = "find"
        BY <3>7, SubToAt DEF FindBegins, SubAt
      <4>2. sub[r].client \in Client
        BY <1>0, <4>1 DEF WorkStep
      <4> QED
        BY <2>1, <2>2, <3>0, <4>1, <4>2 DEF HandsOver, WorkStep
    <3>8. CASE FindEnds(r) /\ ~Return(r)
      <4>1. Unlist(r)
        BY <3>8 DEF FindEnds, Unlist, SubAt, kernelVars, connVars
      <4>2. sub'[r].step = "free" /\ sub'[r].client = sub[r].client /\ sub[r].step = "finding"
        <5>1. sub \in [SubReactor -> SubRecord]
          BY DEF TypeOK, ServerTypeOK
        <5> QED
          BY <4>1, <5>1, FoundItself DEF Unlist
      <4>3. sub[r].client \in Client
        BY <1>0, <4>2 DEF WorkStep
      <4> QED
        BY <2>1, <2>2, <3>0, <4>2, <4>3 DEF HandsOver, WorkStep
    <3> QED
      BY <1>7, <3>1, <3>2, <3>3, <3>4, <3>5, <3>6, <3>7, <3>8 DEF Write
  <2>5. \A q \in SubReactor \ {r} : HandsOver(q)'
    BY <1>0, <2>1, <2>2, <2>3 DEF HandOver, HandsOver, WorkStep
  <2> QED
    BY <2>1, <2>4, <2>5 DEF HandOver
<1>8. ASSUME NEW r \in SubReactor, Delete(r) PROVE HandOver'
  <2> DEFINE c == sub[r].client
  <2>1. /\ sub[r].step = "free" /\ Return(r) /\ UNCHANGED <<main, state>>
        /\ fd' = [fd EXCEPT ![c] = None] /\ bound' = [bound EXCEPT ![c] = FALSE]
    BY <1>8 DEF Delete, SubAt
  <2>2. c \in Client /\ c # main.client
    BY <1>0, <2>1 DEF SubHolds, WorkStep
  <2>3. \A q \in SubReactor \ {r} : sub'[q] = sub[q]
    BY <2>1, ReturnAt
  <2>4. HandsOver(r)'
    BY <2>1, ReturnAt DEF HandsOver, WorkStep
  <2>5. \A q \in SubReactor \ {r} : sub[q].step \in WorkStep => sub[q].client # c
    BY <2>1, OwnDiffers DEF WorkStep
  <2>6. \A b \in Client \ {c} : bound'[b] = bound[b] /\ fd'[b] = fd[b]
    BY <1>0, <2>1
  <2>7. \A q \in SubReactor \ {r} : HandsOver(q)'
    BY <1>0, <2>1, <2>3, <2>5, <2>6 DEF HandOver, HandsOver, WorkStep
  <2>8. main'.client # None => (bound'[main'.client] <=> main'.step \in {"list", "listing"})
    BY <1>0, <2>1, <2>2, <2>6 DEF HandOver
  <2>9. \A b \in Client : bound'[b] => fd'[b] # None
    BY <1>0, <2>1, <2>2, <2>6 DEF HandOver
  <2> QED
    BY <2>4, <2>7, <2>8, <2>9 DEF HandOver
<1> QED
  <2>1. Environment \/ LoopFails => UNCHANGED <<fd, bound, state, main, sub>>
    BY DEF Environment, Connect, Send, Leave, LoopFails, connVars, serverVars
  <2>2. SubReactorStep => HandOver'
    BY <1>7, <1>8 DEF SubReactorStep
  <2> QED
    BY <1>1, <1>2, <1>3, <1>4, <1>5, <1>6, <2>1, <2>2 DEF Next, MainReactor
LEMMA FreshOpenNext ==
  ASSUME TypeOK, MainHolds, SubHolds, BacklogWaits, HandOver, FreshOpen, Next
  PROVE  FreshOpen'
<1>0. /\ fd \in [Client -> Fd \cup {None}] /\ backlog \in Seq(Client)
      /\ peer \in [Client -> {"absent", "up", "eof", "reset"}]
      /\ state \in [Client -> {"invalid", "connected", "closed"}]
      /\ main \in [step : MainStep, client : Client \cup {None}]
  BY DEF TypeOK, KernelTypeOK, ConnTypeOK, ServerTypeOK
<1>a. \A step \in MainStep : MainTo(step) => main'.step = step /\ main'.client = main.client
  BY <1>0 DEF MainTo
<1>1. CASE UNCHANGED <<peer, backlog, main, state>>
  BY <1>1 DEF FreshOpen, Fresh
<1>2. ASSUME NEW c \in Client, Connect(c) PROVE FreshOpen'
  <2>1. /\ peer[c] = "absent" /\ peer' = [peer EXCEPT ![c] = "up"]
        /\ backlog' = Append(backlog, c) /\ UNCHANGED <<main, state>>
    BY <1>2 DEF Connect, connVars, serverVars
  <2>2. /\ Len(backlog) \in Nat /\ Len(backlog') = Len(backlog) + 1
        /\ backlog'[Len(backlog) + 1] = c
        /\ \A i \in 1 .. Len(backlog) : backlog'[i] = backlog[i]
    BY <1>0, <2>1, OneLonger
  <2>3. \A i \in 1 .. Len(backlog') : i = Len(backlog) + 1 \/ i \in 1 .. Len(backlog)
    BY <2>2
  <2>4. \A b \in Client : peer'[b] = "absent" => peer[b] = "absent"
    BY <1>0, <2>1
  <2>5. \A b \in Client : Fresh(b)' => Fresh(b)
    BY <2>1, <2>2, <2>3, <2>4 DEF Fresh
  <2> QED
    BY <2>1, <2>5 DEF FreshOpen
<1>3. ASSUME NEW c \in Client, NEW how \in {"eof", "reset"}, Leave(c, how) PROVE FreshOpen'
  <2>1. \A b \in Client : peer'[b] = "absent" => peer[b] = "absent"
    BY <1>0, <1>3 DEF Leave
  <2> QED
    BY <1>3, <2>1 DEF Leave, FreshOpen, Fresh, connVars, serverVars
<1>4. CASE Accept
  <2>1. PICK c \in Client, d \in Fd :
          c = backlog[1] /\ main' = [step |-> "register", client |-> c] /\ backlog' = Tail(backlog)
    BY <1>4, AcceptFacts
  <2>2. /\ Len(backlog) \in Nat \ {0} /\ Len(backlog') = Len(backlog) - 1
        /\ \A i \in 1 .. Len(backlog') : backlog'[i] = backlog[i + 1]
    BY <1>0, <1>4, <2>1, HeadTail DEF Accept
  <2>3. 1 \in 1 .. Len(backlog) /\ \A i \in 1 .. Len(backlog') : i + 1 \in 1 .. Len(backlog)
    BY <2>2
  <2>4. UNCHANGED <<peer, state>>
    BY <1>4 DEF Accept
  <2>5. \A b \in Client : Fresh(b)' => Fresh(b)
    BY <2>1, <2>2, <2>3, <2>4 DEF Fresh
  <2> QED
    BY <2>4, <2>5 DEF FreshOpen
<1>5. EnableRead \/ UseET => FreshOpen'
  BY <1>a DEF EnableRead, UseET, Watch, MainAt, FreshOpen, Fresh, connVars, MainStep
<1>6. CASE Bind
  <2>1. \A c \in Client : Fresh(c)' => Fresh(c)
    BY <1>6, <1>a DEF Bind, Fresh, kernelVars, MainStep
  <2>2. \A c \in Client : state'[c] = "closed" => state[c] = "closed"
    BY <1>0, <1>6 DEF Bind
  <2> QED
    BY <2>1, <2>2 DEF FreshOpen
<1>7. ListBegins => FreshOpen'
  BY <1>a DEF ListBegins, FreshOpen, Fresh, kernelVars, connVars, MainStep
<1>8. ListEnds => FreshOpen'
  BY DEF ListEnds, FreshOpen, Fresh, kernelVars, connVars
<1>9. ASSUME NEW r \in SubReactor, sub[r].step \in WorkStep,
             state' = [state EXCEPT ![sub[r].client] = "closed"], UNCHANGED <<peer, backlog, main>>
      PROVE  FreshOpen'
  <2> DEFINE c == sub[r].client
  <2>1. c \in Client /\ fd[c] # None /\ bound[c]
    BY <1>9, SubRecordAt, NoneIsNobody DEF HandOver, HandsOver
  <2>2. ~Fresh(c)
    BY <2>1, NoneIsNobody DEF Fresh, BacklogWaits, HandOver
  <2>3. \A b \in Client \ {c} : state'[b] = state[b]
    BY <1>0, <1>9
  <2>4. \A b \in Client : Fresh(b)' = Fresh(b)
    BY <1>9 DEF Fresh
  <2> HIDE DEF c
  <2> QED
    BY <2>2, <2>3, <2>4 DEF FreshOpen
<1>10. ASSUME NEW r \in SubReactor, ReadEnds(r) \/ Write(r) PROVE FreshOpen'
  <2>1. sub[r].step \in WorkStep /\ UNCHANGED <<peer, backlog, main>>
    BY <1>10 DEF ReadEnds, Write, SubAt, WorkStep, kernelVars
  <2>2. state' = [state EXCEPT ![sub[r].client] = "closed"] \/ UNCHANGED state
    BY <1>10 DEF ReadEnds, Write, Ended
  <2> QED
    BY <1>1, <1>9, <2>1, <2>2
<1> QED
  <2>1. LoopFails => FreshOpen'
    BY <1>1 DEF LoopFails, kernelVars, connVars
  <2>2. \A c \in Client : Send(c) => FreshOpen'
    BY <1>1 DEF Send, connVars, serverVars
  <2>3. ASSUME NEW r \in SubReactor,
               \/ Poll(r) \/ (\E c \in Client : HandleEvent(r, c)) \/ ReadSome(r) \/ ReadBlocks(r)
               \/ FindBegins(r) \/ FindEnds(r) \/ Delete(r)
        PROVE  FreshOpen'
    BY <1>1, <2>3 DEF Poll, HandleEvent, ReadSome, ReadBlocks, FindBegins, FindEnds, Delete,
                      kernelVars, connVars, serverVars
  <2>4. SubReactorStep => FreshOpen'
    BY <1>10, <2>3 DEF SubReactorStep
  <2> QED
    BY <1>2, <1>3, <1>4, <1>5, <1>6, <1>7, <1>8, <2>1, <2>2, <2>4 DEF Next, Environment, MainReactor
\* A step that leaves a connection and what its reactor knows of it as they are.
LEMMA KeptStays ==
  ASSUME NEW c \in Client, NEW r \in SubReactor, Kept(c, r),
         c \in Own(r)' => c \in Own(r),
         Readable(c)' => Readable(c),
         watch'[c] # "no" => watch[c] # "no",
         event[c] => event'[c],
         state'[c] # "closed" => state[c] # "closed",
         sub'[r].step # "dead" => sub[r].step # "dead",
         c \in sub[r].batch => c \in sub'[r].batch,
         sub[r].step = "read" /\ sub[r].client = c => sub'[r].step = "read" /\ sub'[r].client = c
  PROVE  Kept(c, r)'
BY DEF Kept

LEMMA EnvironmentKeeps ==
  ASSUME TypeOK, EdgesKept, Environment
  PROVE  EdgesKept'
<1>0. /\ peer \in [Client -> {"absent", "up", "eof", "reset"}]
      /\ event \in [Client -> BOOLEAN]
      /\ unread \in [Client -> Seq(Nat)]
  BY DEF TypeOK, KernelTypeOK
<1>1. PICK b \in Client : Connect(b) \/ Send(b) \/ \E how \in {"eof", "reset"} : Leave(b, how)
  BY DEF Environment
<1>2. UNCHANGED <<fd, state, sub, watch>>
  BY <1>1 DEF Connect, Send, Leave, connVars, serverVars
<1> SUFFICES ASSUME NEW c \in Client, NEW r \in SubReactor PROVE Kept(c, r)'
  BY DEF EdgesKept
<1>3. Own(r)' = Own(r)
  BY <1>2 DEF Own
<1>4. CASE event'[c] = event[c] /\ (Readable(c)' => Readable(c))
  BY <1>2, <1>3, <1>4, KeptStays DEF EdgesKept
<1>5. CASE event'[c] = (watch[c] # "no")
  BY <1>2, <1>3, <1>5 DEF Kept
<1>6. CASE Connect(b)
  <2>1. UNCHANGED <<event, unread>> /\ peer' = [peer EXCEPT ![b] = "up"]
    BY <1>6 DEF Connect
  <2>2. Readable(c)' => Readable(c)
    BY <1>0, <2>1 DEF Readable
  <2> QED
    BY <1>4, <2>1, <2>2
<1>7. CASE c = b /\ Arrives(b)
  BY <1>0, <1>5, <1>7 DEF Arrives
<1>8. CASE c # b /\ ~Connect(b)
  <2>1. event'[c] = event[c] /\ unread'[c] = unread[c] /\ peer'[c] = peer[c]
    BY <1>0, <1>1, <1>8 DEF Send, Leave, Arrives
  <2> QED
    BY <1>4, <2>1 DEF Readable
<1> QED
  BY <1>1, <1>6, <1>7, <1>8 DEF Send, Leave

LEMMA MainKeeps ==
  ASSUME TypeOK, MainHolds, WatchedOpen, BacklogWaits, FreshOpen, EdgesKept, MainReactor
  PROVE  EdgesKept'
<1>0. /\ fd \in [Client -> Fd \cup {None}]
      /\ watch \in [Client -> {"no", "level", "edge"}]
      /\ event \in [Client -> BOOLEAN]
      /\ state \in [Client -> {"invalid", "connected", "closed"}]
      /\ main.client \in Client \cup {None}
  BY DEF TypeOK, KernelTypeOK, ConnTypeOK, ServerTypeOK
<1>1. UNCHANGED <<peer, unread, sub>>
  BY DEF MainReactor, Accept, LoopFails, EnableRead, UseET, Watch, Bind, ListBegins, ListEnds, kernelVars
<1> SUFFICES ASSUME NEW c \in Client, NEW r \in SubReactor PROVE Kept(c, r)'
  BY DEF EdgesKept
<1>2. Kept(c, r) /\ Readable(c)' = Readable(c)
  BY <1>1 DEF EdgesKept, Readable
<1>3. CASE Accept
  <2>1. PICK b \in Client, d \in Fd : fd[b] = None /\ fd' = [fd EXCEPT ![b] = d]
    BY <1>3, AcceptFacts
  <2>2. UNCHANGED <<watch, event, state>>
    BY <1>3 DEF Accept
  <2>3. CASE c = b
    <3>1. watch[c] = "no"
      BY <1>0, <2>1, <2>3 DEF WatchedOpen
    <3> QED
      BY <2>2, <3>1 DEF Kept
  <2>4. CASE c # b
    <3>1. c \in Own(r)' => c \in Own(r)
      BY <1>0, <2>1, <2>4 DEF Own
    <3> QED
      BY <1>1, <1>2, <2>2, <3>1, KeptStays
  <2> QED
    BY <2>3, <2>4
<1>4. ASSUME UNCHANGED <<fd, watch, event>>, state'[c] # "closed" => state[c] # "closed"
      PROVE  Kept(c, r)'
  <2>1. Own(r)' = Own(r)
    BY <1>4 DEF Own
  <2> QED
    BY <1>1, <1>2, <1>4, <2>1, KeptStays
<1>5. ASSUME NEW from, NEW how, NEW to, Watch(from, how, to) PROVE Kept(c, r)'
  <2>1. UNCHANGED <<fd, state>>
    BY <1>5 DEF Watch, connVars
  <2>2. Own(r)' = Own(r)
    BY <2>1 DEF Own
  <2>3. CASE c = main.client
    <3>1. event'[c] = Readable(c)
      BY <1>0, <1>5, <2>3 DEF Watch
    <3> QED
      BY <1>2, <3>1 DEF Kept
  <2>4. CASE c # main.client
    <3>1. event'[c] = event[c] /\ watch'[c] = watch[c]
      BY <1>0, <1>5, <2>4 DEF Watch
    <3> QED
      BY <1>1, <1>2, <2>1, <2>2, <3>1, KeptStays
  <2> QED
    BY <2>3, <2>4
<1>6. CASE Bind
  <2>1. main.client \in Client /\ state[main.client] # "closed"
    BY <1>0, <1>6 DEF Bind, MainAt, MainHolds, FreshOpen, Fresh
  <2>2. state'[c] # "closed" => state[c] # "closed"
    BY <1>0, <1>6, <2>1 DEF Bind
  <2> QED
    BY <1>4, <1>6, <2>2 DEF Bind, kernelVars
<1>7. LoopFails \/ ListBegins \/ ListEnds => Kept(c, r)'
  BY <1>4 DEF LoopFails, ListBegins, ListEnds, kernelVars, connVars
<1> QED
  BY <1>3, <1>5, <1>6, <1>7 DEF MainReactor, EnableRead, UseET

LEMMA SubKeeps ==
  ASSUME TypeOK, FdsDiffer, ListedOpen, SubHolds, HandOver, EdgesKept, SubReactorStep
  PROVE  EdgesKept'
<1>0. /\ fd \in [Client -> Fd \cup {None}]
      /\ watch \in [Client -> {"no", "level", "edge"}]
      /\ event \in [Client -> BOOLEAN]
      /\ unread \in [Client -> Seq(Nat)]
      /\ state \in [Client -> {"invalid", "connected", "closed"}]
      /\ sub \in [SubReactor -> SubRecord]
  BY DEF TypeOK, KernelTypeOK, ConnTypeOK, ServerTypeOK
<1> SUFFICES ASSUME NEW q \in SubReactor,
                    \/ Poll(q) \/ (\E b \in Client : HandleEvent(q, b))
                    \/ ReadSome(q) \/ ReadBlocks(q) \/ ReadEnds(q) \/ Write(q)
                    \/ FindBegins(q) \/ FindEnds(q) \/ Delete(q),
                    NEW c \in Client, NEW r \in SubReactor
             PROVE  Kept(c, r)'
  BY DEF SubReactorStep, EdgesKept
<1>1. Kept(c, r) /\ UNCHANGED peer
  BY DEF EdgesKept, Poll, HandleEvent, ReadSome, ReadBlocks, ReadEnds, Write, FindBegins, FindEnds, Delete, kernelVars
<1>2. CASE Poll(q)
  <2>1. UNCHANGED <<fd, watch, unread, state>> /\ event' = [b \in Client |-> event[b] /\ b \notin Ready(q)]
    BY <1>2 DEF Poll, connVars
  <2>2. Own(r)' = Own(r) /\ Readable(c)' = Readable(c)
    BY <1>1, <2>1 DEF Own, Readable
  <2>3. sub[q].step = "poll" /\ sub' = [sub EXCEPT ![q] = [step |-> "handle", client |-> None, batch |-> Ready(q)]]
    BY <1>2 DEF Poll, SubAt
  <2>4. CASE q = r
    <3>1. sub[r].batch = {} /\ sub[r].step = "poll"
      BY <2>3, <2>4 DEF HandOver, HandsOver
    <3>2. c \in Own(r) /\ watch[c] # "no" /\ event[c] => c \in Ready(r)
      BY DEF Own, Ready
    <3>3. sub'[r].batch = Ready(r)
      BY <1>0, <2>3, <2>4
    <3> QED
      BY <1>1, <2>1, <2>2, <3>1, <3>2, <3>3 DEF Kept
  <2>5. CASE q # r
    <3>1. sub'[r] = sub[r]
      BY <1>0, <2>3, <2>5
    <3>2. c \in Own(r) => event'[c] = event[c]
      BY <1>0, <2>1, <2>5 DEF Own, Ready
    <3> QED
      BY <1>1, <2>1, <2>2, <3>1, <3>2 DEF Kept
  <2> QED
    BY <2>4, <2>5
<1>a. ASSUME UNCHANGED <<fd, watch, event, unread>>, state'[c] # "closed" => state[c] # "closed",
             \A p \in SubReactor \ {q} : sub'[p] = sub[p],
             sub'[q].batch = sub[q].batch, sub[q].step \notin {"read", "dead"}
      PROVE  Kept(c, r)'
  <2>1. Own(r)' = Own(r) /\ Readable(c)' = Readable(c)
    BY <1>1, <1>a DEF Own, Readable
  <2>2. CASE q = r
    BY <1>1, <1>a, <2>1, <2>2, KeptStays
  <2>3. CASE q # r
    BY <1>1, <1>a, <2>1, <2>3, KeptStays
  <2> QED
    BY <2>2, <2>3
<1>3. ASSUME NEW b \in Client, HandleEvent(q, b) PROVE Kept(c, r)'
  <2>1. UNCHANGED <<fd, watch, event, unread, state>> /\ sub[q].step = "handle"
    BY <1>3 DEF HandleEvent, SubAt, kernelVars
  <2>2. CASE ~bound[b]
    <3>1. SubTo(q, "dead")
      BY <1>3, <2>2 DEF HandleEvent
    <3> QED
      BY <1>a, <2>1, <3>1, SubToAt
  <2>3. CASE bound[b] /\ state[b] # "connected"
    <3>1. sub' = sub
      BY <1>3, <2>3 DEF HandleEvent
    <3> QED
      BY <1>a, <2>1, <3>1
  <2>4. CASE bound[b] /\ state[b] = "connected"
    <3> DEFINE s == [step |-> "read", client |-> b, batch |-> sub[q].batch \ {b}]
    <3>1. sub' = [sub EXCEPT ![q] = s]
      BY <1>3, <2>4 DEF HandleEvent
    <3>2. sub'[q] = s /\ \A p \in SubReactor \ {q} : sub'[p] = sub[p]
      BY <1>0, <3>1
    <3>3. Own(r)' = Own(r) /\ Readable(c)' = Readable(c)
      BY <1>1, <2>1 DEF Own, Readable
    <3>4. CASE q = r
      BY <1>1, <2>1, <3>2, <3>3, <3>4 DEF Kept
    <3>5. CASE q # r
      BY <1>1, <2>1, <3>2, <3>3, <3>5, KeptStays
    <3> QED
      BY <3>4, <3>5
  <2> QED
    BY <2>2, <2>3, <2>4
<1>b. sub[q].step = "read" => sub[q].client \in Own(q) /\ sub[q].client \in Client
  BY DEF SubHolds, WorkStep, Own
<1>4. CASE ReadSome(q)
  <2>1. UNCHANGED <<fd, watch, event, state, sub>> /\ sub[q].step = "read"
    BY <1>4 DEF ReadSome, SubAt, serverVars
  <2>2. Own(r)' = Own(r)
    BY <2>1 DEF Own
  <2>3. CASE c = sub[q].client
    <3>1. c \in Own(r) => r = q
      BY <1>b, <2>1, <2>3 DEF Own
    <3> QED
      BY <2>1, <2>2, <2>3, <3>1 DEF Kept
  <2>4. CASE c # sub[q].client
    <3>1. unread'[c] = unread[c]
      BY <1>0, <1>4, <2>4 DEF ReadSome
    <3> QED
      BY <1>1, <2>1, <2>2, <3>1, KeptStays DEF Readable
  <2> QED
    BY <2>3, <2>4
<1>5. CASE ReadBlocks(q) \/ ReadEnds(q)
  <2>1. /\ UNCHANGED <<fd, watch, event, unread>> /\ sub[q].step = "read"
        /\ (\E to \in {"write", "find"} : SubTo(q, to))
    BY <1>5 DEF ReadBlocks, ReadEnds, SubAt, kernelVars, connVars
  <2>2. /\ sub'[q].step \in {"write", "find"} /\ sub'[q].batch = sub[q].batch
        /\ \A p \in SubReactor \ {q} : sub'[p] = sub[p]
    BY <2>1, SubToAt
  <2>3. Own(r)' = Own(r) /\ Readable(c)' = Readable(c)
    BY <1>1, <2>1 DEF Own, Readable
  <2>4. CASE c = sub[q].client
    <3>1. Readable(c) => state'[c] = "closed"
      <4>1. ReadBlocks(q) => ~Readable(c)
        BY <2>4 DEF ReadBlocks, Drained, Readable
      <4>2. ReadEnds(q) => state'[c] = "closed"
        BY <1>0, <2>4 DEF ReadEnds, Ended
      <4> QED
        BY <1>5, <4>1, <4>2
    <3> QED
      BY <2>3, <3>1 DEF Kept
  <2>5. CASE c # sub[q].client
    <3>1. state'[c] = state[c]
      BY <1>0, <1>5, <2>5 DEF ReadBlocks, ReadEnds, connVars
    <3>2. CASE q = r
      BY <1>1, <2>1, <2>2, <2>3, <2>5, <3>1, <3>2, KeptStays
    <3>3. CASE q # r
      BY <1>1, <2>1, <2>2, <2>3, <3>1, <3>3, KeptStays
    <3> QED
      BY <3>2, <3>3
  <2> QED
    BY <2>4, <2>5
<1>6. CASE Write(q)
  <2>1. UNCHANGED <<fd, watch, event, unread>> /\ sub[q].step = "write" /\ Return(q)
    BY <1>6 DEF Write, SubAt
  <2>2. state'[c] # "closed" => state[c] # "closed"
    BY <1>0, <1>6 DEF Write
  <2> QED
    BY <1>a, <2>1, <2>2, ReturnAt
<1>7. CASE FindBegins(q)
  <2>1. UNCHANGED <<fd, watch, event, unread, state>> /\ sub[q].step = "find" /\ SubTo(q, "finding")
    BY <1>7 DEF FindBegins, SubAt, kernelVars, connVars
  <2> QED
    BY <1>a, <2>1, SubToAt
<1>8. CASE FindEnds(q)
  <2>1. UNCHANGED <<fd, watch, event, unread, state>> /\ sub[q].step = "finding"
    BY <1>8 DEF FindEnds, SubAt, kernelVars, connVars
  <2>2. CASE Return(q)
    BY <1>a, <2>1, <2>2, ReturnAt
  <2>3. CASE ~Return(q)
    <3>1. sub'[q].batch = sub[q].batch /\ \A p \in SubReactor \ {q} : sub'[p] = sub[p]
      BY <1>0, <1>8, <2>3 DEF FindEnds
    <3> QED
      BY <1>a, <2>1, <3>1
  <2> QED
    BY <2>2, <2>3
<1>9. CASE Delete(q)
  <2> DEFINE b == sub[q].client
  <2>1. /\ sub[q].step = "free" /\ Return(q) /\ UNCHANGED <<unread, state>>
        /\ fd' = [fd EXCEPT ![b] = None] /\ watch' = [watch EXCEPT ![b] = "no"]
        /\ event' = [event EXCEPT ![b] = FALSE]
    BY <1>9 DEF Delete, SubAt
  <2>2. /\ sub'[q].step # "dead" /\ sub'[q].batch = sub[q].batch
        /\ \A p \in SubReactor \ {q} : sub'[p] = sub[p]
    BY <2>1, ReturnAt
  <2>3. CASE c = b
    <3>1. fd'[c] = None
      BY <1>0, <2>1, <2>3
    <3> QED
      BY <3>1 DEF Kept, Own
  <2>4. CASE c # b
    <3>1. fd'[c] = fd[c] /\ watch'[c] = watch[c] /\ event'[c] = event[c]
      BY <1>0, <2>1, <2>4
    <3>2. (c \in Own(r)' => c \in Own(r)) /\ Readable(c)' = Readable(c)
      BY <1>1, <2>1, <3>1 DEF Own, Readable
    <3>3. CASE q = r
      BY <1>1, <2>1, <2>2, <3>1, <3>2, <3>3, KeptStays
    <3>4. CASE q # r
      BY <1>1, <2>1, <2>2, <3>1, <3>2, <3>4, KeptStays
    <3> QED
      BY <3>3, <3>4
  <2> QED
    BY <2>3, <2>4
<1> QED
  BY <1>2, <1>3, <1>4, <1>5, <1>6, <1>7, <1>8, <1>9
----------------------------------------------------------------------------
(***************************************************************************)
(* The inductive invariant and what follows.                               *)
(***************************************************************************)
IInv ==
  /\ TypeOK
  /\ MainHolds /\ FdsDiffer /\ ListedOpen /\ SubHolds /\ WatchedOpen /\ BacklogWaits /\ ListedAfter
  /\ HandOver /\ FreshOpen /\ EdgesKept

LEMMA InitInvariant == Init => IInv
<1> SUFFICES ASSUME Init PROVE IInv
  OBVIOUS
<1>1. TypeOK
  BY InitTypes
<1>2. /\ \A c \in Client : /\ fd[c] = None /\ watch[c] = "no" /\ bound[c] = FALSE /\ state[c] = "invalid"
      /\ \A d \in Fd : connections[d] = None
      /\ main.step = "poll" /\ main.client = None
      /\ \A r \in SubReactor : sub[r].step = "poll" /\ sub[r].client = None /\ sub[r].batch = {}
      /\ backlog = << >> /\ Len(backlog) = 0
  BY DEF Init
<1>3. MainHolds /\ FdsDiffer /\ ListedOpen /\ WatchedOpen /\ BacklogWaits /\ ListedAfter
  BY <1>2 DEF MainHolds, FdsDiffer, ListedOpen, WatchedOpen, BacklogWaits, ListedAfter
<1>4. SubHolds /\ HandOver
  BY <1>2 DEF SubHolds, WorkStep, HandOver, HandsOver
<1>5. FreshOpen /\ EdgesKept
  BY <1>2 DEF FreshOpen, EdgesKept, Kept
<1> QED
  BY <1>1, <1>3, <1>4, <1>5 DEF IInv

LEMMA StepInvariant == IInv /\ [Next]_vars => IInv'
<1> SUFFICES ASSUME IInv, [Next]_vars PROVE IInv'
  OBVIOUS
<1> USE DEF IInv
<1>1. CASE Next
  <2>1. TypeOK'
    BY <1>1, EnvironmentTypes, MainTypes, SubTypes DEF Next, Environment
  <2>2. MainHolds' /\ FdsDiffer' /\ ListedOpen' /\ SubHolds'
    BY <1>1, MainHoldsNext, FdsDifferNext, ListedOpenNext, SubHoldsNext
  <2>3. WatchedOpen' /\ BacklogWaits' /\ ListedAfter'
    BY <1>1, WatchedOpenNext, BacklogWaitsNext, ListedAfterNext
  <2>4. HandOver' /\ FreshOpen'
    BY <1>1, HandOverNext, FreshOpenNext
  <2>5. EdgesKept'
    BY <1>1, EnvironmentKeeps, MainKeeps, SubKeeps DEF Next
  <2> QED
    BY <2>1, <2>2, <2>3, <2>4, <2>5
<1>2. CASE UNCHANGED vars
  BY <1>2 DEF vars, kernelVars, connVars, serverVars, TypeOK, KernelTypeOK, ConnTypeOK, ServerTypeOK,
              MainHolds, FdsDiffer, ListedOpen, SubHolds, Own, WatchedOpen, BacklogWaits,
              ListedAfter, Deleting, HandOver, HandsOver, FreshOpen, Fresh, EdgesKept, Kept, Readable
<1> QED
  BY <1>1, <1>2

LEMMA InvariantHolds == Spec => []IInv
BY InitInvariant, StepInvariant, PTL DEF Spec

\* The variables keep their types: no client is sent more than its bound, and
\* what a reactor holds is a client, a descriptor or nothing.
THEOREM ServerTypes == Spec => []TypeOK
<1>1. IInv => TypeOK
  BY DEF IInv
<1> QED
  BY <1>1, InvariantHolds, PTL

\* As long as two threads have not met in it, connections_ lists exactly the open
\* connections that NewConnection is through with and nobody deletes, each under
\* its own descriptor, for any number of reactors, descriptors and clients.
THEOREM EntriesAreExact == Spec => []EntriesExact
<1>1. IInv => EntriesExact
  BY DEF IInv, EntriesExact, ListedOpen, ListedAfter, Deleting
<1> QED
  BY <1>1, InvariantHolds, PTL

\* A reactor that lives never forgets input: the edge is still to be reported, or
\* the connection is in its batch or in its hands.
THEOREM InputIsKept == Spec => []NoInputForgotten
<1>1. IInv => NoInputForgotten
  <2> SUFFICES ASSUME IInv, NEW c \in Client,
                      fd[c] # None, watch[c] # "no", Readable(c),
                      sub[fd[c] % Reactors].step # "dead", state[c] # "closed"
               PROVE  event[c] \/ c \in sub[fd[c] % Reactors].batch \/ sub[fd[c] % Reactors].client = c
    BY DEF NoInputForgotten
  <2> DEFINE r == fd[c] % Reactors
  <2>1. fd[c] \in Nat /\ Reactors \in Nat \ {0}
    BY ServerAssumption DEF IInv, TypeOK, ConnTypeOK, Fd
  <2>2. r \in SubReactor
    BY <2>1 DEF SubReactor
  <2>3. Kept(c, r) /\ c \in Own(r)
    BY <2>2 DEF IInv, EdgesKept, Own
  <2> QED
    BY <2>3 DEF Kept
<1> QED
  BY <1>1, InvariantHolds, PTL

\* Whatever races there were, no two connections ever have the same descriptor, and
\* an entry of connections_ is never for one that is gone.
THEOREM DescriptorsAreExact == Spec => [](FdsDiffer /\ ListedOpen)
<1>1. IInv => FdsDiffer /\ ListedOpen
  BY DEF IInv
<1> QED
  BY <1>1, InvariantHolds, PTL

----------------------------------------------------------------------------
(***************************************************************************)
(* What a client has sent is answered, in the hands of its reactor, or     *)
(* not read yet: three sequences a, h and u of numbers up to n.  Those of  *)
(* the set z are the NUL bytes.                                            *)
(***************************************************************************)
Rising(s) == \A i, j \in 1 .. Len(s) : i < j => s[i] < s[j]
Before(s, t) == \A i \in 1 .. Len(s), j \in 1 .. Len(t) : s[i] < t[j]
UpTo(s, n) == \A i \in 1 .. Len(s) : s[i] <= n

InOrder(a, h, u, n) ==
  /\ Rising(a) /\ Rising(h) /\ Rising(u)
  /\ Before(a, h) /\ Before(a, u) /\ Before(h, u)
  /\ UpTo(a, n) /\ UpTo(h, n) /\ UpTo(u, n)

\* No NUL byte.
Clean(s, n, z) == \A i \in 1 .. Len(s) : s[i] \in 1 .. n /\ s[i] \notin z

\* What is not read yet is what came last.
LastOnes(u, n) == Len(u) <= n /\ \A i \in 1 .. Len(u) : u[i] = (n - Len(u)) + i

In(s, x) == \E i \in 1 .. Len(s) : s[i] = x
Gone(a, h, u, x) == ~In(a, x) /\ ~In(h, x) /\ ~In(u, x)

\* What is gone is a NUL byte or came behind something that is gone.
OnlyCut(a, h, u, n, z) ==
  \A x \in 1 .. n : Gone(a, h, u, x) => x \in z \/ (x > 1 /\ Gone(a, h, u, x - 1))

LEMMA NothingInHand ==
  ASSUME NEW a \in Seq(Nat), NEW h \in Seq(Nat), NEW u \in Seq(Nat), NEW n \in Nat, NEW z, InOrder(a, h, u, n)
  PROVE  InOrder(a, << >>, u, n) /\ Clean(<< >>, n, z)
BY DEF InOrder, Rising, Before, UpTo, Clean

LEMMA OneMoreSent ==
  ASSUME NEW a \in Seq(Nat), NEW h \in Seq(Nat), NEW u \in Seq(Nat), NEW n \in Nat, NEW z,
         InOrder(a, h, u, n), LastOnes(u, n)
  PROVE  /\ InOrder(a, h, Append(u, n + 1), n + 1)
         /\ LastOnes(Append(u, n + 1), n + 1)
         /\ \A s \in {a, h} : Clean(s, n, z) => Clean(s, n + 1, z)
         /\ OnlyCut(a, h, u, n, z) => OnlyCut(a, h, Append(u, n + 1), n + 1, z)
<1> DEFINE v == Append(u, n + 1)
<1>1. /\ v \in Seq(Nat) /\ Len(u) \in Nat /\ Len(v) = Len(u) + 1 /\ v[Len(u) + 1] = n + 1
      /\ \A i \in 1 .. Len(u) : v[i] = u[i]
  BY OneLonger
<1>2. /\ \A i \in 1 .. Len(a) : a[i] \in Nat
      /\ \A i \in 1 .. Len(h) : h[i] \in Nat
      /\ \A i \in 1 .. Len(u) : u[i] \in Nat
      /\ Len(a) \in Nat /\ Len(h) \in Nat
  OBVIOUS
<1> HIDE DEF v
<1>3. \A i \in 1 .. Len(v) : i = Len(u) + 1 \/ i \in 1 .. Len(u)
  BY <1>1
<1>a. /\ \A i \in 1 .. Len(a) : a[i] < n + 1
      /\ \A i \in 1 .. Len(h) : h[i] < n + 1
      /\ \A i \in 1 .. Len(u) : u[i] < n + 1
  BY <1>2 DEF InOrder, UpTo
<1>4. UpTo(a, n + 1) /\ UpTo(h, n + 1) /\ UpTo(v, n + 1)
  <2>1. UpTo(a, n + 1) /\ UpTo(h, n + 1)
    BY <1>2, <1>a DEF UpTo
  <2>2. UpTo(v, n + 1)
    <3> SUFFICES ASSUME NEW i \in 1 .. Len(v) PROVE v[i] <= n + 1
      BY DEF UpTo
    <3>1. CASE i \in 1 .. Len(u)
      <4>1. v[i] \in Nat /\ v[i] < n + 1
        BY <1>1, <1>2, <1>a, <3>1
      <4> QED
        BY <4>1
    <3>2. CASE i = Len(u) + 1
      BY <1>1, <3>2
    <3> QED
      BY <1>3, <3>1, <3>2
  <2> QED
    BY <2>1, <2>2
<1>5. Before(a, v) /\ Before(h, v)
  <2>1. Before(a, v)
    BY <1>1, <1>3, <1>a DEF InOrder, Before
  <2>2. Before(h, v)
    BY <1>1, <1>3, <1>a DEF InOrder, Before
  <2> QED
    BY <2>1, <2>2
<1>6. Rising(v)
  <2> SUFFICES ASSUME NEW i \in 1 .. Len(v), NEW j \in 1 .. Len(v), i < j PROVE v[i] < v[j]
    BY DEF Rising
  <2>1. i \in 1 .. Len(u) /\ v[i] = u[i]
    BY <1>1, <1>3
  <2>2. CASE j \in 1 .. Len(u)
    BY <1>1, <2>1, <2>2 DEF InOrder, Rising
  <2>3. CASE j = Len(u) + 1
    BY <1>1, <1>a, <2>1, <2>3
  <2> QED
    BY <1>3, <2>2, <2>3
<1>7. LastOnes(v, n + 1)
  <2>1. Len(v) <= n + 1 /\ (n + 1) - Len(v) = n - Len(u)
    BY <1>1 DEF LastOnes
  <2>2. ASSUME NEW i \in 1 .. Len(v) PROVE v[i] = (n - Len(u)) + i
    <3>1. CASE i \in 1 .. Len(u)
      BY <1>1, <3>1 DEF LastOnes
    <3>2. CASE i = Len(u) + 1
      <4>1. v[i] = n + 1 /\ (n - Len(u)) + i = n + 1
        BY <1>1, <3>2
      <4> QED
        BY <4>1
    <3> QED
      BY <1>3, <2>2, <3>1, <3>2
  <2> QED
    BY <2>1, <2>2 DEF LastOnes
<1>8. \A s \in {a, h} : Clean(s, n, z) => Clean(s, n + 1, z)
  BY DEF Clean
<1>9. ASSUME OnlyCut(a, h, u, n, z), NEW x \in 1 .. n + 1, Gone(a, h, v, x)
      PROVE  x \in z \/ (x > 1 /\ Gone(a, h, v, x - 1))
  <2>1. In(v, n + 1)
    <3>1. Len(u) + 1 \in 1 .. Len(v)
      BY <1>1
    <3> QED
      BY <1>1, <3>1 DEF In
  <2>2. x \in 1 .. n
    BY <1>9, <2>1 DEF Gone
  <2>3. \A y : In(u, y) => In(v, y)
    BY <1>1 DEF In
  <2>4. ASSUME NEW y \in 1 .. n, In(v, y) PROVE In(u, y)
    <3>1. PICK i \in 1 .. Len(v) : v[i] = y
      BY <2>4 DEF In
    <3>2. i # Len(u) + 1
      BY <1>1, <3>1
    <3>3. i \in 1 .. Len(u) /\ u[i] = y
      BY <1>1, <1>3, <3>1, <3>2
    <3> QED
      BY <3>3 DEF In
  <2>5. Gone(a, h, u, x)
    BY <1>9, <2>3 DEF Gone
  <2>6. x \in z \/ (x > 1 /\ Gone(a, h, u, x - 1))
    BY <1>9, <2>2, <2>5 DEF OnlyCut
  <2>7. x > 1 => x - 1 \in 1 .. n
    BY <2>2
  <2> QED
    BY <2>4, <2>6, <2>7 DEF Gone
<1>10. InOrder(a, h, v, n + 1)
  BY <1>4, <1>5, <1>6 DEF InOrder
<1>11. OnlyCut(a, h, u, n, z) => OnlyCut(a, h, v, n + 1, z)
  BY <1>9 DEF OnlyCut
<1> QED
  BY <1>7, <1>8, <1>10, <1>11 DEF v

\* The elements of b, which is s made longer by the first k of t.
Longer(b, s, t, k) ==
  /\ b \in Seq(Nat) /\ Len(b) = Len(s) + k
  /\ \A i \in 1 .. Len(s) : b[i] = s[i]
  /\ \A i \in 1 .. Len(b) : i \in 1 .. Len(s) \/
       (i - Len(s) \in 1 .. k /\ i - Len(s) \in 1 .. Len(t) /\ i > Len(s) /\ b[i] = t[i - Len(s)])
  /\ \A x : In(b, x) <=> In(s, x) \/ \E i \in 1 .. k : t[i] = x

LEMMA Lengthened ==
  ASSUME NEW s \in Seq(Nat), NEW t \in Seq(Nat), NEW k \in 0 .. Len(t), NEW b, b = s \o SubSeq(t, 1, k)
  PROVE  Longer(b, s, t, k)
<1> DEFINE q == SubSeq(t, 1, k)
<1>1. /\ q \in Seq(Nat) /\ Len(t) \in Nat /\ k \in Nat /\ Len(q) = k
      /\ \A i \in 1 .. k : q[i] = t[i] /\ i \in 1 .. Len(t)
  OBVIOUS
<1>0. b = s \o q
  OBVIOUS
<1> HIDE DEF q
<1>2. /\ b \in Seq(Nat) /\ Len(s) \in Nat /\ Len(b) = Len(s) + k
      /\ \A i \in 1 .. Len(b) : b[i] = IF i <= Len(s) THEN s[i] ELSE q[i - Len(s)]
  <2>1. /\ b \in Seq(Nat) /\ Len(s) \in Nat /\ Len(b) = Len(s) + Len(q)
        /\ \A i \in 1 .. Len(s) + Len(q) : b[i] = IF i <= Len(s) THEN s[i] ELSE q[i - Len(s)]
    <3>1. q \in Seq(Nat)
      BY <1>1
    <3>2. /\ s \o q \in Seq(Nat) /\ Len(s \o q) = Len(s) + Len(q)
          /\ \A i \in 1 .. Len(s) + Len(q) : (s \o q)[i] = IF i <= Len(s) THEN s[i] ELSE q[i - Len(s)]
      BY <3>1
    <3>3. Len(s) \in Nat
      OBVIOUS
    <3> QED
      BY <1>0, <3>2, <3>3, Zenon
  <2> QED
    BY <1>1, <2>1
<1>3. \A i \in 1 .. Len(s) : b[i] = s[i] /\ i \in 1 .. Len(b)
  BY <1>1, <1>2
<1>4. ASSUME NEW i \in 1 .. Len(b), i > Len(s)
      PROVE  i - Len(s) \in 1 .. k /\ i - Len(s) \in 1 .. Len(t) /\ b[i] = t[i - Len(s)]
  <2>1. i - Len(s) \in 1 .. k /\ i \in Nat /\ ~(i <= Len(s))
    BY <1>1, <1>2, <1>4
  <2>2. b[i] = q[i - Len(s)]
    BY <1>2, <2>1
  <2> QED
    BY <1>1, <2>1, <2>2
<1>5. \A i \in 1 .. Len(b) : i \in 1 .. Len(s) \/ i > Len(s)
  BY <1>2
<1>6. ASSUME NEW i \in 1 .. k PROVE \E j \in 1 .. Len(b) : b[j] = t[i]
  <2>1. PICK j \in 1 .. Len(b) : j > Len(s) /\ j - Len(s) = i
    <3>1. Len(s) + i \in 1 .. Len(b) /\ Len(s) + i > Len(s) /\ (Len(s) + i) - Len(s) = i
      BY <1>1, <1>2
    <3> QED
      BY <3>1
  <2>2. b[j] = t[j - Len(s)]
    BY <1>4, <2>1
  <2> QED
    BY <2>1, <2>2
<1>7. ASSUME NEW x PROVE In(b, x) <=> In(s, x) \/ \E i \in 1 .. k : t[i] = x
  <2>1. In(s, x) => In(b, x)
    BY <1>3 DEF In
  <2>2. (\E i \in 1 .. k : t[i] = x) => In(b, x)
    BY <1>6 DEF In
  <2>3. ASSUME NEW j \in 1 .. Len(b), b[j] = x PROVE In(s, x) \/ \E i \in 1 .. k : t[i] = x
    <3>1. CASE j \in 1 .. Len(s)
      BY <1>3, <2>3, <3>1 DEF In
    <3>2. CASE j > Len(s)
      BY <1>4, <2>3, <3>2
    <3> QED
      BY <1>5, <3>1, <3>2
  <2> QED
    BY <2>1, <2>2, <2>3 DEF In
<1> QED
  BY <1>2, <1>3, <1>4, <1>5, <1>7 DEF Longer

\* One read: m units, of which the k before the first NUL are kept.
LEMMA SomeRead ==
  ASSUME NEW a \in Seq(Nat), NEW h \in Seq(Nat), NEW u \in Seq(Nat), NEW n \in Nat, NEW z,
         InOrder(a, h, u, n), LastOnes(u, n), Clean(h, n, z),
         NEW m \in 1 .. Len(u), NEW k \in 0 .. m,
         \A i \in 1 .. k : u[i] \notin z, k < m => u[k + 1] \in z
  PROVE  LET g == h \o SubSeq(u, 1, k)
             t == SubSeq(u, m + 1, Len(u))
         IN  /\ InOrder(a, g, t, n) /\ LastOnes(t, n) /\ Clean(g, n, z)
             /\ OnlyCut(a, h, u, n, z) => OnlyCut(a, g, t, n, z)
<1> DEFINE g == h \o SubSeq(u, 1, k)
           t == SubSeq(u, m + 1, Len(u))
<1>0. Len(u) \in Nat /\ Len(h) \in Nat /\ Len(a) \in Nat /\ m \in Nat /\ k \in Nat /\ k <= m /\ m <= Len(u)
  OBVIOUS
<1>1. /\ t \in Seq(Nat) /\ Len(t) = Len(u) - m
      /\ \A i \in 1 .. Len(t) : t[i] = u[m + i]
  <2>1. t \in Seq(Nat)
    BY <1>0
  <2>2. Len(t) = Len(u) - m
    BY <1>0
  <2>3. ASSUME NEW i \in 1 .. Len(t) PROVE t[i] = u[m + i]
    BY <1>0, <2>2
  <2> QED
    BY <2>1, <2>2, <2>3
<1>g. g = h \o SubSeq(u, 1, k) /\ k \in 0 .. Len(u)
  BY <1>0
<1> HIDE DEF g
<1>2. /\ g \in Seq(Nat) /\ Len(g) = Len(h) + k
      /\ \A i \in 1 .. Len(h) : g[i] = h[i]
      /\ \A i \in 1 .. Len(g) : i \in 1 .. Len(h) \/
           (i - Len(h) \in 1 .. k /\ i - Len(h) \in 1 .. Len(u) /\ i > Len(h) /\ g[i] = u[i - Len(h)])
      /\ \A x : In(g, x) <=> In(h, x) \/ \E i \in 1 .. k : u[i] = x
  <2>1. Longer(g, h, u, k)
    BY <1>g, Lengthened, Zenon
  <2> QED
    BY <2>1 DEF Longer
<1>3. /\ \A i \in 1 .. Len(a) : a[i] \in Nat
      /\ \A i \in 1 .. Len(h) : h[i] \in Nat
      /\ \A i \in 1 .. Len(u) : u[i] \in Nat
  OBVIOUS
<1> HIDE DEF t
<1>4. /\ \A i \in 1 .. Len(t) : m + i \in 1 .. Len(u) /\ k < m + i
      /\ \A i \in 1 .. k : i \in 1 .. Len(u)
  BY <1>0, <1>1
<1>5. UpTo(g, n) /\ UpTo(t, n)
  BY <1>1, <1>2, <1>4 DEF InOrder, UpTo
<1>6. Before(a, g) /\ Before(a, t)
  BY <1>1, <1>2, <1>4 DEF InOrder, Before
<1>7. Before(g, t)
  <2> SUFFICES ASSUME NEW i \in 1 .. Len(g), NEW j \in 1 .. Len(t) PROVE g[i] < t[j]
    BY DEF Before
  <2>1. t[j] = u[m + j] /\ m + j \in 1 .. Len(u) /\ k < m + j
    BY <1>1, <1>4
  <2>2. CASE i \in 1 .. Len(h)
    BY <1>2, <2>1, <2>2 DEF InOrder, Before
  <2>3. CASE i \notin 1 .. Len(h)
    <3>1. g[i] = u[i - Len(h)] /\ i - Len(h) \in 1 .. k /\ i - Len(h) \in 1 .. Len(u)
      BY <1>2, <2>3
    <3>2. i - Len(h) < m + j
      BY <1>0, <2>1, <3>1
    <3> QED
      BY <2>1, <3>1, <3>2 DEF InOrder, Rising
  <2> QED
    BY <1>2, <2>2, <2>3
<1>8. Rising(t)
  <2> SUFFICES ASSUME NEW i \in 1 .. Len(t), NEW j \in 1 .. Len(t), i < j PROVE t[i] < t[j]
    BY DEF Rising
  <2>1. m + i < m + j /\ m + i \in 1 .. Len(u) /\ m + j \in 1 .. Len(u)
    BY <1>0, <1>4
  <2>2. u[m + i] < u[m + j]
    BY <2>1 DEF InOrder, Rising
  <2> QED
    BY <1>1, <2>2
<1>9. Rising(g)
  <2> SUFFICES ASSUME NEW i \in 1 .. Len(g), NEW j \in 1 .. Len(g), i < j PROVE g[i] < g[j]
    BY DEF Rising
  <2>1. CASE j \in 1 .. Len(h)
    <3>1. i \in 1 .. Len(h)
      BY <1>0, <2>1
    <3> QED
      BY <1>2, <2>1, <3>1 DEF InOrder, Rising
  <2>2. CASE i \in 1 .. Len(h) /\ j \notin 1 .. Len(h)
    BY <1>2, <2>2 DEF InOrder, Before
  <2>3. CASE i \notin 1 .. Len(h) /\ j \notin 1 .. Len(h)
    <3>1. /\ i - Len(h) \in 1 .. Len(u) /\ j - Len(h) \in 1 .. Len(u)
          /\ g[i] = u[i - Len(h)] /\ g[j] = u[j - Len(h)]
      BY <1>2, <2>3
    <3>2. i - Len(h) < j - Len(h)
      BY <1>0
    <3>3. u[i - Len(h)] < u[j - Len(h)]
      BY <3>1, <3>2 DEF InOrder, Rising
    <3> QED
      BY <3>1, <3>3
  <2> QED
    BY <2>1, <2>2, <2>3
<1>10. InOrder(a, g, t, n)
  BY <1>5, <1>6, <1>7, <1>8, <1>9 DEF InOrder
<1>11. LastOnes(t, n)
  <2>1. Len(t) <= n /\ n - Len(t) = (n - Len(u)) + m
    BY <1>0, <1>1 DEF LastOnes
  <2>2. ASSUME NEW i \in 1 .. Len(t) PROVE t[i] = (n - Len(t)) + i
    <3>1. t[i] = (n - Len(u)) + (m + i)
      BY <1>1, <1>4 DEF LastOnes
    <3>2. n - Len(t) = (n - Len(u)) + m /\ Len(t) \in Nat
      BY <1>1, <2>1
    <3>3. i \in Nat /\ Len(u) \in Nat /\ m \in Nat /\ n \in Nat
      BY <1>0, <3>2
    <3>4. PICK x \in Nat : x = Len(t)
      BY <3>2
    <3>5. PICK y \in Nat : y = Len(u)
      BY <3>3
    <3>6. x = y - m
      BY <1>1, <3>2, <3>3, <3>4, <3>5
    <3>7. (n - x) + i = (n - y) + (m + i)
      BY <3>3, <3>6
    <3> QED
      BY <3>1, <3>4, <3>5, <3>7
  <2> QED
    BY <2>1, <2>2 DEF LastOnes
<1>u. \A i \in 1 .. Len(u) : u[i] \in 1 .. n
  <2> TAKE i \in 1 .. Len(u)
  <2>1. u[i] = (n - Len(u)) + i /\ Len(u) <= n
    BY DEF LastOnes
  <2> QED
    BY <1>0, <2>1
<1>12. Clean(g, n, z)
  <2> SUFFICES ASSUME NEW i \in 1 .. Len(g) PROVE g[i] \in 1 .. n /\ g[i] \notin z
    BY DEF Clean
  <2>1. CASE i \in 1 .. Len(h)
    BY <1>2, <2>1 DEF Clean
  <2>2. CASE i \notin 1 .. Len(h)
    <3>1. i - Len(h) \in 1 .. k /\ i - Len(h) \in 1 .. Len(u) /\ g[i] = u[i - Len(h)]
      BY <1>2, <2>2
    <3> QED
      BY <1>u, <3>1
  <2> QED
    BY <2>1, <2>2
<1>13. ASSUME OnlyCut(a, h, u, n, z), NEW x \in 1 .. n, Gone(a, g, t, x)
       PROVE  x \in z \/ (x > 1 /\ Gone(a, g, t, x - 1))
  <2>1. \A y : In(t, y) => In(u, y)
    BY <1>1, <1>4 DEF In
  <2>2. \A y : In(h, y) => In(g, y)
    BY <1>2
  <2>3. \A y : In(g, y) => In(h, y) \/ In(u, y)
    BY <1>2, <1>4 DEF In
  <2>4. CASE ~In(u, x)
    <3>1. Gone(a, h, u, x)
      BY <1>13, <2>2, <2>4 DEF Gone
    <3>2. \A y : Gone(a, h, u, y) => Gone(a, g, t, y)
      BY <2>1, <2>3 DEF Gone
    <3> QED
      BY <1>13, <3>1, <3>2 DEF OnlyCut
  <2>5. CASE In(u, x)
    <3>1. PICK j \in 1 .. Len(u) : u[j] = x
      BY <2>5 DEF In
    <3>2. j > k
      <4>1. j \notin 1 .. k
        BY <1>13, <1>2, <3>1 DEF Gone
      <4> QED
        BY <1>0, <4>1
    <3>3. j <= m
      <4>1. SUFFICES ASSUME j > m PROVE FALSE
        BY <1>0
      <4>a. j \in Nat /\ j <= Len(u)
        BY <1>0
      <4>b. Len(t) = Len(u) - m
        BY <1>1
      <4>2. j - m \in 1 .. Len(t) /\ m + (j - m) = j
        BY <1>0, <4>1, <4>a, <4>b
      <4>3. t[j - m] = x
        BY <1>1, <3>1, <4>2
      <4> QED
        BY <1>13, <4>2, <4>3 DEF Gone, In
    <3>4. CASE j = k + 1
      <4>1. k < m
        BY <1>0, <3>3, <3>4
      <4> QED
        BY <3>1, <3>4, <4>1
    <3>5. CASE j # k + 1
      <4>1. /\ j - 1 \in 1 .. Len(u) /\ k < j - 1 /\ j - 1 < m
        BY <1>0, <3>2, <3>3, <3>5
      <4>2. u[j - 1] = x - 1 /\ x - 1 \in 1 .. n
        <5>1. u[j] = (n - Len(u)) + j /\ u[j - 1] = (n - Len(u)) + (j - 1)
          BY <4>1 DEF LastOnes
        <5>2. u[j - 1] = x - 1
          BY <1>0, <3>1, <5>1
        <5> QED
          BY <1>u, <4>1, <5>2
      <4>3. ~In(a, x - 1) /\ ~In(h, x - 1)
        <5>1. ASSUME NEW i \in 1 .. Len(a) PROVE a[i] # x - 1
          <6>1. a[i] < u[j - 1]
            BY <4>1 DEF InOrder, Before
          <6> QED
            BY <1>3, <4>2, <6>1
        <5>2. ASSUME NEW i \in 1 .. Len(h) PROVE h[i] # x - 1
          <6>1. h[i] < u[j - 1]
            BY <4>1 DEF InOrder, Before
          <6> QED
            BY <1>3, <4>2, <6>1
        <5> QED
          BY <5>1, <5>2 DEF In
      <4>4. \A i \in 1 .. Len(u) : u[i] = x - 1 => i = j - 1
        <5> TAKE i \in 1 .. Len(u)
        <5>1. i < j - 1 => u[i] < u[j - 1]
          BY <4>1 DEF InOrder, Rising
        <5>2. i > j - 1 => u[j - 1] < u[i]
          BY <4>1 DEF InOrder, Rising
        <5> QED
          BY <1>3, <4>1, <4>2, <5>1, <5>2
      <4>5. ~In(g, x - 1)
        <5>1. \A i \in 1 .. k : u[i] # x - 1
          BY <1>0, <1>4, <4>1, <4>4
        <5> QED
          BY <1>2, <4>3, <5>1
      <4>6. ~In(t, x - 1)
        <5> SUFFICES ASSUME NEW i \in 1 .. Len(t), t[i] = x - 1 PROVE FALSE
          BY DEF In
        <5>1. m + i = j - 1
          BY <1>1, <1>4, <4>4
        <5> QED
          BY <1>0, <1>1, <4>1, <5>1
      <4> QED
        BY <4>2, <4>3, <4>5, <4>6 DEF Gone
    <3> QED
      BY <3>4, <3>5
  <2> QED
    BY <2>4, <2>5
<1>14. OnlyCut(a, h, u, n, z) => OnlyCut(a, g, t, n, z)
  BY <1>13 DEF OnlyCut
<1> QED
  BY <1>10, <1>11, <1>12, <1>14 DEF g, t

LEMMA SomeWritten ==
  ASSUME NEW a \in Seq(Nat), NEW h \in Seq(Nat), NEW u \in Seq(Nat), NEW n \in Nat, NEW z,
         InOrder(a, h, u, n), Clean(a, n, z), Clean(h, n, z),
         NEW k \in 0 .. Len(h)
  PROVE  LET b == a \o SubSeq(h, 1, k)
         IN  /\ InOrder(b, << >>, u, n) /\ Clean(b, n, z) /\ Clean(<< >>, n, z)
             /\ OnlyCut(a, h, u, n, z) /\ k = Len(h) => OnlyCut(b, << >>, u, n, z)
<1> DEFINE b == a \o SubSeq(h, 1, k)
<1>1. Len(h) \in Nat /\ Len(a) \in Nat /\ k \in Nat /\ \A i \in 1 .. k : i \in 1 .. Len(h)
  OBVIOUS
<1>b. b = a \o SubSeq(h, 1, k)
  OBVIOUS
<1> HIDE DEF b
<1>2. /\ b \in Seq(Nat) /\ Len(b) = Len(a) + k
      /\ \A i \in 1 .. Len(a) : b[i] = a[i]
      /\ \A i \in 1 .. Len(b) : i \in 1 .. Len(a) \/
           (i - Len(a) \in 1 .. k /\ i - Len(a) \in 1 .. Len(h) /\ i > Len(a) /\ b[i] = h[i - Len(a)])
      /\ \A x : In(b, x) <=> In(a, x) \/ \E i \in 1 .. k : h[i] = x
  <2>1. Longer(b, a, h, k)
    BY <1>b, Lengthened, Zenon
  <2> QED
    BY <2>1 DEF Longer
<1>4. /\ \A i \in 1 .. Len(a) : a[i] \in Nat
      /\ \A i \in 1 .. Len(h) : h[i] \in Nat
      /\ \A i \in 1 .. Len(u) : u[i] \in Nat
      /\ Len(u) \in Nat /\ Len(<< >>) = 0
  OBVIOUS
<1>6. UpTo(b, n)
  BY <1>2 DEF InOrder, UpTo
<1>7. Before(b, u)
  BY <1>2 DEF InOrder, Before
<1>8. Rising(b)
  <2> SUFFICES ASSUME NEW i \in 1 .. Len(b), NEW j \in 1 .. Len(b), i < j PROVE b[i] < b[j]
    BY DEF Rising
  <2>1. CASE j \in 1 .. Len(a)
    <3>1. i \in 1 .. Len(a)
      BY <1>2, <2>1
    <3> QED
      BY <1>2, <2>1, <3>1 DEF InOrder, Rising
  <2>2. CASE i \in 1 .. Len(a) /\ j \notin 1 .. Len(a)
    BY <1>2, <2>2 DEF InOrder, Before
  <2>3. CASE i \notin 1 .. Len(a) /\ j \notin 1 .. Len(a)
    <3>1. /\ i - Len(a) \in 1 .. Len(h) /\ j - Len(a) \in 1 .. Len(h)
          /\ b[i] = h[i - Len(a)] /\ b[j] = h[j - Len(a)]
      BY <1>2, <2>3
    <3>2. i - Len(a) < j - Len(a)
      BY <1>1
    <3>3. h[i - Len(a)] < h[j - Len(a)]
      BY <3>1, <3>2 DEF InOrder, Rising
    <3> QED
      BY <3>1, <3>3
  <2> QED
    BY <2>1, <2>2, <2>3
<1>9. InOrder(b, << >>, u, n)
  BY <1>4, <1>6, <1>7, <1>8 DEF InOrder, Rising, Before, UpTo
<1>10. Clean(b, n, z) /\ Clean(<< >>, n, z)
  <2>1. ASSUME NEW i \in 1 .. Len(b) PROVE b[i] \in 1 .. n /\ b[i] \notin z
    <3>1. CASE i \in 1 .. Len(a)
      BY <1>2, <3>1 DEF Clean
    <3>2. CASE i \notin 1 .. Len(a)
      <4>1. i - Len(a) \in 1 .. Len(h) /\ b[i] = h[i - Len(a)]
        BY <1>2, <3>2
      <4> QED
        BY <4>1 DEF Clean
    <3> QED
      BY <3>1, <3>2
  <2> QED
    BY <1>4, <2>1 DEF Clean
<1>11. OnlyCut(a, h, u, n, z) /\ k = Len(h) => OnlyCut(b, << >>, u, n, z)
  <2> SUFFICES ASSUME OnlyCut(a, h, u, n, z), k = Len(h) PROVE OnlyCut(b, << >>, u, n, z)
    OBVIOUS
  <2>1. \A x : In(b, x) <=> In(a, x) \/ In(h, x)
    BY <1>2 DEF In
  <2>2. \A x : ~In(<< >>, x)
    BY <1>4 DEF In
  <2>3. \A x : Gone(b, << >>, u, x) <=> Gone(a, h, u, x)
    BY <2>1, <2>2 DEF Gone
  <2> QED
    BY <2>3 DEF OnlyCut
<1> QED
  BY <1>9, <1>10, <1>11 DEF b

----------------------------------------------------------------------------
(***************************************************************************)
(* What a client has sent, wherever it is.                                 *)
(***************************************************************************)

\* Nothing of what a client has sent can be lost yet, but for a NUL byte.
Whole(c) == (Fresh(c) \/ fd[c] # None) /\ state[c] # "closed" /\ ~cut[c]

Echo(c) ==
  /\ InOrder(answers[c], InHand(c), unread[c], sent[c])
  /\ Clean(answers[c], sent[c], Zero[c]) /\ Clean(InHand(c), sent[c], Zero[c])
  /\ LastOnes(unread[c], sent[c])
  /\ Whole(c) => OnlyCut(answers[c], InHand(c), unread[c], sent[c], Zero[c])

EchoInv == \A c \in Client : Echo(c)

LEMMA EchoTypes ==
  ASSUME TypeOK, NEW c \in Client
  PROVE  /\ answers[c] \in Seq(Nat) /\ InHand(c) \in Seq(Nat) /\ unread[c] \in Seq(Nat) /\ sent[c] \in Nat
         /\ buffer[c] \in Seq(Nat)
<1>1. << >> \in Seq(Nat)
  OBVIOUS
<1> QED
  BY <1>1 DEF TypeOK, KernelTypeOK, ConnTypeOK, InHand

LEMMA EchoStays ==
  ASSUME NEW c \in Client, Echo(c), Whole(c)' => Whole(c),
         answers'[c] = answers[c], InHand(c)' = InHand(c), unread'[c] = unread[c], sent'[c] = sent[c]
  PROVE  Echo(c)'
BY DEF Echo

\* What is in the hands of a reactor stays there, unless it is the one that moves.
LEMMA HandStays ==
  ASSUME NEW r \in SubReactor, \A q \in SubReactor \ {r} : sub'[q] = sub[q],
         NEW c \in Client, sub'[r].client = c <=> sub[r].client = c, buffer'[c] = buffer[c]
  PROVE  InHand(c)' = InHand(c)
<1>1. (\E q \in SubReactor : sub'[q].client = c) <=> \E q \in SubReactor : sub[q].client = c
  OBVIOUS
<1> QED
  BY <1>1 DEF InHand

\* Nobody else has what a reactor has or is about to take.
LEMMA OthersHands ==
  ASSUME SubHolds, NEW r \in SubReactor, NEW c \in Client,
         (sub[r].step \in WorkStep /\ c = sub[r].client) \/ c \in sub[r].batch
  PROVE  \A q \in SubReactor \ {r} : sub[q].client # c
<1> SUFFICES ASSUME NEW q \in SubReactor \ {r}, sub[q].client = c PROVE FALSE
  OBVIOUS
<1>1. sub[q].step \in WorkStep
  BY NoneIsNobody DEF SubHolds
<1> QED
  BY <1>1, OwnDiffers

\* A reactor that is done with a connection has nothing of it.
LEMMA HandEmptied ==
  ASSUME SubHolds, NEW r \in SubReactor, sub[r].step \in WorkStep, NEW c \in Client, c = sub[r].client,
         \A q \in SubReactor \ {r} : sub'[q] = sub[q], sub'[r].client = None
  PROVE  InHand(c)' = << >>
<1>1. \A q \in SubReactor \ {r} : sub[q].client # c
  BY OthersHands
<1>2. \A q \in SubReactor : sub'[q].client # c
  BY <1>1, NoneIsNobody
<1> QED
  BY <1>2 DEF InHand

\* Who can lose nothing could lose nothing before: main binds only what has never
\* been closed, and accept gives descriptors only to those that wait for one.
LEMMA WholeNext ==
  ASSUME TypeOK, MainHolds, SubHolds, BacklogWaits, FreshOpen, Next, NEW c \in Client
  PROVE  Whole(c)' => Whole(c)
<1>0. /\ fd \in [Client -> Fd \cup {None}] /\ backlog \in Seq(Client)
      /\ peer \in [Client -> {"absent", "up", "eof", "reset"}]
      /\ state \in [Client -> {"invalid", "connected", "closed"}] /\ cut \in [Client -> BOOLEAN]
      /\ main \in [step : MainStep, client : Client \cup {None}]
  BY DEF TypeOK, KernelTypeOK, ConnTypeOK, ServerTypeOK
<1>a. \A step \in MainStep : MainTo(step) => main'.step = step /\ main'.client = main.client
  BY <1>0 DEF MainTo
<1>1. ASSUME Fresh(c)' => Fresh(c), fd'[c] # None => fd[c] # None,
             state[c] = "closed" => state'[c] = "closed", cut[c] => cut'[c]
      PROVE  Whole(c)' => Whole(c)
  BY <1>1 DEF Whole
<1>2. ASSUME NEW b \in Client, Connect(b) PROVE Whole(c)' => Whole(c)
  <2>1. /\ peer[b] = "absent" /\ peer' = [peer EXCEPT ![b] = "up"]
        /\ backlog' = Append(backlog, b) /\ UNCHANGED <<main, state, fd, cut>>
    BY <1>2 DEF Connect, connVars, serverVars
  <2>2. /\ Len(backlog) \in Nat /\ Len(backlog') = Len(backlog) + 1
        /\ backlog'[Len(backlog) + 1] = b
        /\ \A i \in 1 .. Len(backlog) : backlog'[i] = backlog[i]
    BY <1>0, <2>1, OneLonger
  <2>3. \A i \in 1 .. Len(backlog') : i = Len(backlog) + 1 \/ i \in 1 .. Len(backlog)
    BY <2>2
  <2>4. peer'[c] = "absent" => peer[c] = "absent"
    BY <1>0, <2>1
  <2>5. Fresh(c)' => Fresh(c)
    BY <2>1, <2>2, <2>3, <2>4 DEF Fresh
  <2> QED
    BY <1>1, <2>1, <2>5
<1>3. ASSUME NEW b \in Client, NEW how \in {"eof", "reset"}, Leave(b, how) PROVE Whole(c)' => Whole(c)
  <2>1. peer'[c] = "absent" => peer[c] = "absent"
    BY <1>0, <1>3 DEF Leave
  <2> QED
    BY <1>1, <1>3, <2>1 DEF Leave, Fresh, connVars, serverVars
<1>4. ASSUME NEW b \in Client, Send(b) PROVE Whole(c)' => Whole(c)
  BY <1>4 DEF Send, Whole, Fresh, connVars, serverVars
<1>5. CASE Accept
  <2>1. PICK b \in Client, d \in Fd :
          /\ b = backlog[1] /\ fd' = [fd EXCEPT ![b] = d]
          /\ main' = [step |-> "register", client |-> b] /\ backlog' = Tail(backlog)
    BY <1>5, AcceptFacts
  <2>2. /\ Len(backlog) \in Nat \ {0} /\ Len(backlog') = Len(backlog) - 1
        /\ \A i \in 1 .. Len(backlog') : backlog'[i] = backlog[i + 1]
    BY <1>0, <1>5, <2>1, HeadTail DEF Accept
  <2>3. 1 \in 1 .. Len(backlog) /\ \A i \in 1 .. Len(backlog') : i + 1 \in 1 .. Len(backlog)
    BY <2>2
  <2>4. UNCHANGED <<peer, state, cut>>
    BY <1>5 DEF Accept
  <2>5. Fresh(c)' => Fresh(c)
    BY <2>1, <2>2, <2>3, <2>4 DEF Fresh
  <2>6. fd'[c] # None => fd[c] # None \/ Fresh(c)
    <3>1. c = b => Fresh(c)
      BY <2>1, <2>3 DEF Fresh
    <3>2. c # b => fd'[c] = fd[c]
      BY <1>0, <2>1
    <3> QED
      BY <3>1, <3>2
  <2> QED
    BY <2>4, <2>5, <2>6 DEF Whole
<1>6. EnableRead \/ UseET => (Whole(c)' => Whole(c))
  BY <1>a DEF EnableRead, UseET, Watch, MainAt, Whole, Fresh, connVars, MainStep
<1>7. CASE Bind
  <2>1. Fresh(c)' => Fresh(c)
    BY <1>7, <1>a DEF Bind, Fresh, kernelVars, MainStep
  <2>2. main.step = "bind" /\ UNCHANGED <<fd, cut>> /\ state' = [state EXCEPT ![main.client] = "connected"]
    BY <1>7 DEF Bind, MainAt
  <2>3. CASE c = main.client
    <3>1. Fresh(c)
      BY <2>2, <2>3 DEF Fresh
    <3> QED
      BY <2>2, <3>1 DEF Whole, FreshOpen
  <2>4. CASE c # main.client
    <3>1. state'[c] = state[c]
      BY <1>0, <2>2, <2>4
    <3> QED
      BY <1>1, <2>1, <2>2, <3>1
  <2> QED
    BY <2>3, <2>4
<1>8. ListBegins => (Whole(c)' => Whole(c))
  BY <1>a DEF ListBegins, Whole, Fresh, kernelVars, connVars, MainStep
<1>9. ListEnds => (Whole(c)' => Whole(c))
  BY DEF ListEnds, Whole, Fresh, kernelVars, connVars
<1>10. LoopFails => (Whole(c)' => Whole(c))
  BY DEF LoopFails, Whole, Fresh, kernelVars, connVars
<1>11. ASSUME NEW r \in SubReactor,
              \/ Poll(r) \/ (\E b \in Client : HandleEvent(r, b))
              \/ ReadSome(r) \/ ReadBlocks(r) \/ ReadEnds(r) \/ Write(r)
              \/ FindBegins(r) \/ FindEnds(r) \/ Delete(r)
       PROVE  Whole(c)' => Whole(c)
  <2>1. UNCHANGED <<peer, backlog, main>>
    BY <1>11 DEF Poll, HandleEvent, ReadSome, ReadBlocks, ReadEnds, Write, FindBegins, FindEnds, Delete,
                 serverVars, kernelVars
  <2>2. Fresh(c)' = Fresh(c)
    BY <2>1 DEF Fresh
  <2>3. state[c] = "closed" => state'[c] = "closed"
    BY <1>0, <1>11 DEF Poll, HandleEvent, ReadSome, ReadBlocks, ReadEnds, Ended, Write, FindBegins,
                FindEnds, Delete, connVars
  <2>4. fd'[c] # None => fd[c] # None
    BY <1>0, <1>11 DEF Poll, HandleEvent, ReadSome, ReadBlocks, ReadEnds, Write, FindBegins,
                FindEnds, Delete, connVars
  <2>5. cut[c] => cut'[c]
    <3>1. Write(r) => (cut[c] => cut'[c])
      BY <1>0 DEF Write
    <3> QED
      BY <1>11, <3>1 DEF Poll, HandleEvent, ReadSome, ReadBlocks, ReadEnds, FindBegins, FindEnds, Delete, connVars
  <2> QED
    BY <1>1, <2>2, <2>3, <2>4, <2>5
<1> QED
  BY <1>2, <1>3, <1>4, <1>5, <1>6, <1>7, <1>8, <1>9, <1>10, <1>11
     DEF Next, Environment, MainReactor, SubReactorStep

LEMMA EnvironmentEchoes ==
  ASSUME TypeOK, MainHolds, SubHolds, BacklogWaits, FreshOpen, EchoInv, Next,
         NEW b \in Client, Connect(b) \/ Send(b) \/ \E how \in {"eof", "reset"} : Leave(b, how)
  PROVE  EchoInv'
<1> SUFFICES ASSUME NEW c \in Client PROVE Echo(c)'
  BY DEF EchoInv
<1>0. Echo(c) /\ (Whole(c)' => Whole(c))
  BY WholeNext DEF EchoInv
<1>1. UNCHANGED <<sub, buffer, answers>>
  BY DEF Connect, Send, Leave, connVars, serverVars
<1>2. InHand(c)' = InHand(c)
  BY <1>1 DEF InHand
<1>3. CASE UNCHANGED <<unread, sent>>
  BY <1>0, <1>1, <1>2, <1>3, EchoStays
<1>4. CASE Send(b) /\ c = b
  <2>1. sent'[c] = sent[c] + 1 /\ unread'[c] = Append(unread[c], sent[c] + 1)
    BY <1>4 DEF Send, TypeOK, KernelTypeOK
  <2> QED
    BY <1>0, <1>1, <1>2, <2>1, EchoTypes, OneMoreSent DEF Echo
<1>5. CASE Send(b) /\ c # b
  <2>1. sent'[c] = sent[c] /\ unread'[c] = unread[c]
    BY <1>5 DEF Send, TypeOK, KernelTypeOK
  <2> QED
    BY <1>0, <1>1, <1>2, <2>1, EchoStays
<1> QED
  BY <1>3, <1>4, <1>5 DEF Connect, Leave

LEMMA MainEchoes ==
  ASSUME TypeOK, MainHolds, SubHolds, BacklogWaits, FreshOpen, EchoInv, Next, MainReactor
  PROVE  EchoInv'
<1> SUFFICES ASSUME NEW c \in Client PROVE Echo(c)'
  BY DEF EchoInv
<1>0. Echo(c) /\ (Whole(c)' => Whole(c))
  BY WholeNext DEF EchoInv
<1>1. UNCHANGED <<sub, buffer, answers, unread, sent>>
  BY DEF MainReactor, Accept, LoopFails, EnableRead, UseET, Watch, Bind, ListBegins, ListEnds,
         kernelVars, connVars
<1>2. InHand(c)' = InHand(c)
  BY <1>1 DEF InHand
<1> QED
  BY <1>0, <1>1, <1>2, EchoStays

LEMMA SubEchoes ==
  ASSUME TypeOK, MainHolds, FdsDiffer, ListedOpen, SubHolds, BacklogWaits, HandOver, FreshOpen,
         EchoInv, Next, NEW r \in SubReactor,
         \/ Poll(r) \/ (\E b \in Client : HandleEvent(r, b))
         \/ ReadSome(r) \/ ReadBlocks(r) \/ ReadEnds(r) \/ Write(r)
         \/ FindBegins(r) \/ FindEnds(r) \/ Delete(r)
  PROVE  EchoInv'
<1> SUFFICES ASSUME NEW c \in Client PROVE Echo(c)'
  BY DEF EchoInv
<1>0. Echo(c) /\ (Whole(c)' => Whole(c))
  BY WholeNext DEF EchoInv
<1>t. /\ sub \in [SubReactor -> SubRecord] /\ buffer \in [Client -> Seq(Nat)]
      /\ answers \in [Client -> Seq(Nat)] /\ unread \in [Client -> Seq(Nat)]
      /\ cut \in [Client -> BOOLEAN] /\ state \in [Client -> {"invalid", "connected", "closed"}]
  BY DEF TypeOK, ServerTypeOK, ConnTypeOK, KernelTypeOK
<1>s. sent' = sent
  BY DEF Poll, HandleEvent, ReadSome, ReadBlocks, ReadEnds, Write, FindBegins, FindEnds, Delete, kernelVars
<1>w. sub[r].step \in WorkStep => sub[r].client \in Client
  BY SubRecordAt
<1>a. ASSUME \A q \in SubReactor \ {r} : sub'[q] = sub[q], sub'[r].client = c <=> sub[r].client = c,
             buffer'[c] = buffer[c], answers'[c] = answers[c], unread'[c] = unread[c]
      PROVE  Echo(c)'
  BY <1>0, <1>s, <1>a, HandStays, EchoStays
\* The connection is closed and what was read of it given up.
<1>b. ASSUME sub[r].step \in WorkStep, state'[sub[r].client] = "closed",
             \A q \in SubReactor \ {r} : sub'[q] = sub[q], sub'[r].client = None,
             c # sub[r].client => buffer'[c] = buffer[c], UNCHANGED <<answers, unread>>
      PROVE  Echo(c)'
  <2>1. CASE c = sub[r].client
    <3>1. InHand(c)' = << >>
      BY <1>b, <2>1, HandEmptied
    <3>2. ~Whole(c)'
      BY <1>b, <2>1 DEF Whole
    <3>3. InOrder(answers[c], << >>, unread[c], sent[c]) /\ Clean(<< >>, sent[c], Zero[c])
      BY <1>0, EchoTypes, NothingInHand DEF Echo
    <3>4. answers'[c] = answers[c] /\ unread'[c] = unread[c] /\ sent'[c] = sent[c]
      BY <1>b, <1>s
    <3>5. Clean(answers[c], sent[c], Zero[c]) /\ LastOnes(unread[c], sent[c])
      BY <1>0 DEF Echo
    <3> QED
      BY <3>1, <3>2, <3>3, <3>4, <3>5 DEF Echo
  <2>2. CASE c # sub[r].client
    BY <1>a, <1>b, <2>2, NoneIsNobody
  <2> QED
    BY <2>1, <2>2
<1>1. CASE Poll(r)
  <2>1. /\ sub[r].step = "poll" /\ UNCHANGED <<buffer, answers, unread>>
        /\ sub' = [sub EXCEPT ![r] = [step |-> "handle", client |-> None, batch |-> Ready(r)]]
    BY <1>1 DEF Poll, SubAt, connVars
  <2>2. sub[r].client = None
    BY <2>1 DEF SubHolds, WorkStep
  <2>3. sub'[r].client = None /\ \A q \in SubReactor \ {r} : sub'[q] = sub[q]
    BY <1>t, <2>1
  <2> QED
    BY <1>a, <2>1, <2>2, <2>3
<1>2. ASSUME NEW b \in Client, HandleEvent(r, b) PROVE Echo(c)'
  <2>1. sub[r].step = "handle" /\ b \in sub[r].batch /\ UNCHANGED <<answers, unread, state, cut, fd>>
    BY <1>2 DEF HandleEvent, SubAt, kernelVars
  <2>2. sub[r].client = None
    BY <2>1 DEF SubHolds, WorkStep
  <2>3. CASE ~bound[b]
    <3>1. SubTo(r, "dead") /\ UNCHANGED buffer
      BY <1>2, <2>3 DEF HandleEvent
    <3> QED
      BY <1>a, <2>1, <3>1, SubToAt
  <2>4. CASE bound[b] /\ state[b] # "connected"
    <3>1. UNCHANGED <<sub, buffer>>
      BY <1>2, <2>4 DEF HandleEvent
    <3> QED
      BY <1>a, <2>1, <3>1
  <2>5. CASE bound[b] /\ state[b] = "connected"
    <3>1. /\ sub' = [sub EXCEPT ![r] = [step |-> "read", client |-> b, batch |-> sub[r].batch \ {b}]]
          /\ buffer' = [buffer EXCEPT ![b] = << >>]
      BY <1>2, <2>5 DEF HandleEvent, Cleared
    <3>2. sub'[r].client = b /\ \A q \in SubReactor \ {r} : sub'[q] = sub[q]
      BY <1>t, <3>1
    <3>3. CASE c = b
      <4>1. \A q \in SubReactor \ {r} : sub[q].client # c
        BY <2>1, <3>3, OthersHands
      <4>2. \A q \in SubReactor : sub[q].client # c
        BY <2>2, <4>1, NoneIsNobody
      <4>3. InHand(c) = << >>
        BY <4>2 DEF InHand
      <4>4. InHand(c)' = << >>
        BY <1>t, <3>1, <3>3 DEF InHand
      <4> QED
        BY <1>0, <1>s, <2>1, <4>3, <4>4, EchoStays
    <3>4. CASE c # b
      <4>1. buffer'[c] = buffer[c]
        BY <1>t, <3>1, <3>4
      <4>2. sub[r].client # c /\ sub'[r].client # c
        BY <2>2, <3>2, <3>4, NoneIsNobody
      <4> QED
        BY <1>a, <2>1, <3>2, <4>1, <4>2
    <3> QED
      BY <3>3, <3>4
  <2> QED
    BY <2>3, <2>4, <2>5
<1>3. CASE ReadSome(r)
  <2> DEFINE b == sub[r].client
  <2>1. sub[r].step = "read" /\ UNCHANGED <<sub, answers>>
    BY <1>3 DEF ReadSome, SubAt, serverVars
  <2>4. PICK m \in 1 .. Len(unread[b]), k \in 0 .. Len(unread[b]) :
          /\ Appended(b, m, k)
          /\ buffer' = [buffer EXCEPT ![b] = buffer[b] \o SubSeq(unread[b], 1, k)]
          /\ unread' = [unread EXCEPT ![b] = SubSeq(unread[b], m + 1, Len(unread[b]))]
    BY <1>3 DEF ReadSome
  <2>2. CASE c = b
    <3> DEFINE g == buffer[c] \o SubSeq(unread[c], 1, k)
               t == SubSeq(unread[c], m + 1, Len(unread[c]))
    <3>1. buffer'[c] = g /\ unread'[c] = t
      BY <1>t, <2>2, <2>4
    <3>2. InHand(c) = buffer[c] /\ InHand(c)' = buffer'[c]
      BY <2>1, <2>2 DEF InHand
    <3>3. /\ InOrder(answers[c], g, t, sent[c]) /\ LastOnes(t, sent[c]) /\ Clean(g, sent[c], Zero[c])
          /\ Whole(c) => OnlyCut(answers[c], g, t, sent[c], Zero[c])
      <4>1. /\ InOrder(answers[c], buffer[c], unread[c], sent[c]) /\ LastOnes(unread[c], sent[c])
            /\ Clean(buffer[c], sent[c], Zero[c])
            /\ Whole(c) => OnlyCut(answers[c], buffer[c], unread[c], sent[c], Zero[c])
        BY <1>0, <3>2 DEF Echo
      <4>2. /\ m \in 1 .. Len(unread[c]) /\ k \in 0 .. m
            /\ \A i \in 1 .. k : unread[c][i] \notin Zero[c]
            /\ k < m => unread[c][k + 1] \in Zero[c]
        BY <2>2, <2>4 DEF Appended
      <4> QED
        BY <4>1, <4>2, EchoTypes, SomeRead
    <3> HIDE DEF g, t
    <3> QED
      BY <1>0, <1>s, <2>1, <3>1, <3>2, <3>3 DEF Echo
  <2>3. CASE c # b
    <3>1. buffer'[c] = buffer[c] /\ unread'[c] = unread[c]
      BY <1>t, <2>3, <2>4
    <3> QED
      BY <1>a, <2>1, <3>1
  <2> QED
    BY <2>2, <2>3
<1>4. CASE ReadBlocks(r) \/ ReadEnds(r) \/ FindBegins(r)
  <2>1. /\ UNCHANGED <<buffer, answers, unread>>
        /\ \E step \in {"write", "find", "finding"} : SubTo(r, step)
    BY <1>4 DEF ReadBlocks, ReadEnds, FindBegins, kernelVars, connVars
  <2> QED
    BY <1>a, <2>1, SubToAt
<1>5. CASE Write(r)
  <2> DEFINE b == sub[r].client
  <2>1. sub[r].step = "write" /\ Return(r) /\ UNCHANGED <<buffer, unread>>
    BY <1>5 DEF Write, SubAt
  <2>2. b \in Client /\ sub'[r].client = None /\ \A q \in SubReactor \ {r} : sub'[q] = sub[q]
    BY <1>w, <2>1, ReturnAt DEF WorkStep
  <2>3. CASE state' = [state EXCEPT ![b] = "closed"] /\ UNCHANGED answers
    BY <1>b, <1>t, <2>1, <2>2, <2>3 DEF WorkStep
  <2>4. ASSUME NEW n \in 0 .. Len(buffer[b]),
               answers' = [answers EXCEPT ![b] = answers[b] \o SubSeq(buffer[b], 1, n)],
               cut' = [cut EXCEPT ![b] = cut[b] \/ n < Len(buffer[b])]
        PROVE  Echo(c)'
    <3>1. CASE c = b
      <4>1. InHand(c) = buffer[c] /\ InHand(c)' = << >>
        <5>1. InHand(c) = buffer[c]
          BY <3>1 DEF InHand
        <5>2. InHand(c)' = << >>
          BY <2>1, <2>2, <3>1, HandEmptied DEF WorkStep
        <5> QED
          BY <5>1, <5>2
      <4>2. answers'[c] = answers[c] \o SubSeq(buffer[c], 1, n)
        BY <1>t, <2>4, <3>1
      <4>3. Whole(c)' => n = Len(buffer[c])
        <5>1. Whole(c)' => ~(n < Len(buffer[c]))
          BY <1>t, <2>4, <3>1 DEF Whole
        <5>2. Len(buffer[c]) \in Nat
          BY <1>t
        <5> QED
          BY <2>4, <3>1, <5>1, <5>2
      <4> DEFINE w == answers[c] \o SubSeq(buffer[c], 1, n)
      <4>4. /\ InOrder(w, << >>, unread[c], sent[c])
            /\ Clean(w, sent[c], Zero[c]) /\ Clean(<< >>, sent[c], Zero[c])
            /\ Whole(c) /\ n = Len(buffer[c]) => OnlyCut(w, << >>, unread[c], sent[c], Zero[c])
        <5>1. /\ InOrder(answers[c], buffer[c], unread[c], sent[c])
              /\ Clean(answers[c], sent[c], Zero[c]) /\ Clean(buffer[c], sent[c], Zero[c])
          BY <1>0, <4>1 DEF Echo
        <5>2. Whole(c) => OnlyCut(answers[c], buffer[c], unread[c], sent[c], Zero[c])
          BY <1>0, <4>1 DEF Echo
        <5>3. n \in 0 .. Len(buffer[c])
          BY <2>4, <3>1
        <5> QED
          BY <5>1, <5>2, <5>3, EchoTypes, SomeWritten
      <4> HIDE DEF w
      <4>5. answers'[c] = w /\ unread'[c] = unread[c] /\ sent'[c] = sent[c]
        BY <1>s, <2>1, <4>2 DEF w
      <4>6. LastOnes(unread[c], sent[c])
        BY <1>0 DEF Echo
      <4> QED
        BY <1>0, <4>1, <4>3, <4>4, <4>5, <4>6 DEF Echo
    <3>2. CASE c # b
      <4>1. answers'[c] = answers[c]
        BY <1>t, <2>4, <3>2
      <4> QED
        BY <1>a, <2>1, <2>2, <3>2, <4>1, NoneIsNobody
    <3> QED
      BY <3>1, <3>2
  <2> QED
    BY <1>5, <2>3, <2>4 DEF Write
<1>6. CASE FindEnds(r)
  <2>1. sub[r].step = "finding" /\ UNCHANGED <<buffer, answers, unread, state>>
    BY <1>6 DEF FindEnds, SubAt, kernelVars, connVars
  <2>2. CASE Return(r)
    <3>1. state'[sub[r].client] = "closed"
      BY <2>1 DEF HandOver, HandsOver
    <3> QED
      BY <1>b, <2>1, <2>2, <3>1, ReturnAt DEF WorkStep
  <2>3. CASE ~Return(r)
    <3>1. Unlist(r)
      BY <1>6, <2>3 DEF FindEnds, Unlist, SubAt, kernelVars, connVars
    <3>2. sub'[r].client = sub[r].client /\ \A q \in SubReactor \ {r} : sub'[q] = sub[q]
      BY <1>t, <3>1, FoundItself DEF Unlist
    <3> QED
      BY <1>a, <2>1, <3>2
  <2> QED
    BY <2>2, <2>3
<1>7. CASE Delete(r)
  <2>1. /\ sub[r].step = "free" /\ Return(r) /\ UNCHANGED <<answers, unread, state>>
        /\ buffer' = [buffer EXCEPT ![sub[r].client] = << >>]
    BY <1>7 DEF Delete, SubAt
  <2>2. state'[sub[r].client] = "closed"
    BY <2>1 DEF HandOver, HandsOver
  <2>3. c # sub[r].client => buffer'[c] = buffer[c]
    BY <1>t, <2>1
  <2> QED
    BY <1>b, <2>1, <2>2, <2>3, ReturnAt DEF WorkStep
<1> QED
  BY <1>1, <1>2, <1>3, <1>4, <1>5, <1>6, <1>7

LEMMA EchoNext ==
  ASSUME TypeOK, MainHolds, FdsDiffer, ListedOpen, SubHolds, BacklogWaits, HandOver, FreshOpen,
         EchoInv, Next
  PROVE  EchoInv'
<1>1. Environment => EchoInv'
  BY EnvironmentEchoes DEF Environment
<1>2. MainReactor => EchoInv'
  BY MainEchoes
<1>3. SubReactorStep => EchoInv'
  BY SubEchoes DEF SubReactorStep
<1> QED
  BY <1>1, <1>2, <1>3 DEF Next

LEMMA InitEchoes == Init => EchoInv
<1> SUFFICES ASSUME Init, NEW c \in Client PROVE Echo(c)
  BY DEF EchoInv
<1>1. answers[c] = << >> /\ unread[c] = << >> /\ sent[c] = 0 /\ InHand(c) = << >>
  BY DEF Init, InHand
<1>2. Len(<< >>) = 0
  OBVIOUS
<1> QED
  BY <1>1, <1>2 DEF Echo, InOrder, Rising, Before, UpTo, Clean, LastOnes, OnlyCut

LEMMA EchoHolds == Spec => []EchoInv
<1>1. IInv /\ EchoInv /\ [Next]_vars => EchoInv'
  <2> SUFFICES ASSUME IInv, EchoInv, [Next]_vars PROVE EchoInv'
    OBVIOUS
  <2>1. CASE Next
    BY <2>1, EchoNext DEF IInv
  <2>2. CASE UNCHANGED vars
    BY <2>2 DEF vars, kernelVars, connVars, serverVars, EchoInv, Echo, InHand, Whole, Fresh
  <2> QED
    BY <2>1, <2>2
<1> QED
  BY <1>1, InitEchoes, InvariantHolds, PTL DEF Spec

\* Every client gets back what it has sent, in order, nothing twice and nothing of
\* another's, whoever had the descriptor before, and no NUL byte; and as long as
\* nobody has left and no write was cut short, what is missing is a NUL byte or was
\* read together with one and came behind it (Buffer::Append): for any number of
\* clients, reactors and bytes, and whatever the main reactor and the sub-reactors
\* do at the same time.
THEOREM EchoesAreExact == Spec => []EchoesExact
<1>1. IInv /\ EchoInv => EchoesExact
  <2> SUFFICES ASSUME IInv, EchoInv, NEW c \in Client
               PROVE  /\ \A i \in 2 .. Len(answers[c]) : answers[c][i - 1] < answers[c][i]
                      /\ \A i \in 1 .. Len(answers[c]) : answers[c][i] \in 1 .. sent[c] \ Zero[c]
                      /\ fd[c] # None /\ state[c] # "closed" /\ ~cut[c] =>
                           \A i \in 1 .. sent[c] :
                             Missing(c, i) => i \in Zero[c] \/ (i > 1 /\ Missing(c, i - 1))
    BY DEF EchoesExact
  <2>1. Echo(c) /\ TypeOK
    BY DEF EchoInv, IInv
  <2>2. \A i \in 2 .. Len(answers[c]) : answers[c][i - 1] < answers[c][i]
    <3>1. Len(answers[c]) \in Nat
      BY <2>1, EchoTypes
    <3>2. \A i \in 2 .. Len(answers[c]) :
            i - 1 \in 1 .. Len(answers[c]) /\ i \in 1 .. Len(answers[c]) /\ i - 1 < i
      BY <3>1
    <3> QED
      BY <2>1, <3>2 DEF Echo, InOrder, Rising
  <2>3. \A i \in 1 .. Len(answers[c]) : answers[c][i] \in 1 .. sent[c] \ Zero[c]
    BY <2>1 DEF Echo, Clean
  <2>4. \A x : Missing(c, x) <=> Gone(answers[c], InHand(c), unread[c], x)
    <3>1. \A s \in {answers[c], InHand(c), unread[c]} : DOMAIN s = 1 .. Len(s)
      BY <2>1, EchoTypes
    <3> QED
      BY <3>1 DEF Missing, Gone, In
  <2>5. fd[c] # None /\ state[c] # "closed" /\ ~cut[c] =>
          OnlyCut(answers[c], InHand(c), unread[c], sent[c], Zero[c])
    BY <2>1 DEF Echo, Whole
  <2> QED
    BY <2>2, <2>3, <2>4, <2>5 DEF OnlyCut
<1> QED
  BY <1>1, InvariantHolds, EchoHolds, PTL

----------------------------------------------------------------------------
(***************************************************************************)
(* The exception that ends a sub-reactor.                                  *)
(***************************************************************************)

\* The open connection without callbacks is the one that main builds; it is not
\* watched before main registers it, and what a batch holds is watched.
Building ==
  /\ \A c \in Client : fd[c] # None /\ ~bound[c] => main.client = c
  /\ main.step = "register" => watch[main.client] = "no"
  /\ \A r \in SubReactor : \A c \in sub[r].batch : watch[c] # "no"

LEMMA InitBuilding == Init => Building
BY DEF Init, Building

\* A sub-reactor adds nothing to a batch after its epoll_wait.
LEMMA BatchesShrink ==
  ASSUME TypeOK, MainHolds, FdsDiffer, ListedOpen, SubHolds, NEW r \in SubReactor,
         \/ \E c \in Client : HandleEvent(r, c)
         \/ ReadSome(r) \/ ReadBlocks(r) \/ ReadEnds(r) \/ Write(r) \/ FindBegins(r) \/ FindEnds(r)
  PROVE  /\ \A q \in SubReactor : sub'[q].batch \subseteq sub[q].batch
         /\ UNCHANGED <<fd, bound, watch, main>>
<1>1. CASE sub' = sub
  BY <1>1 DEF HandleEvent, ReadSome, ReadBlocks, ReadEnds, Write, FindBegins, FindEnds, kernelVars, connVars, serverVars
<1>2. CASE sub' # sub
  <2>1. UNCHANGED <<fd, bound, watch, main>>
    BY DEF HandleEvent, ReadSome, ReadBlocks, ReadEnds, Write, FindBegins, FindEnds, kernelVars, connVars, serverVars
  <2>2. \A step : SubTo(r, step) => \A q \in SubReactor : sub'[q].batch \subseteq sub[q].batch
    BY SubToAt
  <2>3. Return(r) => \A q \in SubReactor : sub'[q].batch \subseteq sub[q].batch
    BY ReturnAt
  <2>4. ASSUME NEW c \in Client,
               sub' = [sub EXCEPT ![r] = [step |-> "read", client |-> c, batch |-> sub[r].batch \ {c}]]
        PROVE  \A q \in SubReactor : sub'[q].batch \subseteq sub[q].batch
    BY <2>4, OthersSame
  <2>5. Unlist(r) => \A q \in SubReactor : sub'[q].batch \subseteq sub[q].batch
    BY OthersSame DEF Unlist
  <2>6. FindEnds(r) => Return(r) \/ Unlist(r)
    BY DEF FindEnds, Unlist, SubAt, kernelVars, connVars
  <2>7. (\E c \in Client : HandleEvent(r, c)) => \A q \in SubReactor : sub'[q].batch \subseteq sub[q].batch
    BY <1>2, <2>2, <2>4 DEF HandleEvent
  <2>8. ReadBlocks(r) \/ ReadEnds(r) \/ FindBegins(r) =>
          \A q \in SubReactor : sub'[q].batch \subseteq sub[q].batch
    BY <2>2 DEF ReadBlocks, ReadEnds, FindBegins
  <2>9. ReadSome(r) => sub' = sub
    BY DEF ReadSome, serverVars
  <2>10. Write(r) => Return(r)
    BY DEF Write
  <2> QED
    BY <1>2, <2>1, <2>3, <2>5, <2>6, <2>7, <2>8, <2>9, <2>10
<1> QED
  BY <1>1, <1>2

LEMMA BuildingNext ==
  ASSUME TypeOK, MainHolds, FdsDiffer, ListedOpen, SubHolds, WatchedOpen, BacklogWaits, HandOver,
         Building, Next
  PROVE  Building'
<1>0. /\ fd \in [Client -> Fd \cup {None}] /\ bound \in [Client -> BOOLEAN]
      /\ watch \in [Client -> {"no", "level", "edge"}]
      /\ main \in [step : MainStep, client : Client \cup {None}]
      /\ \A r \in SubReactor : sub[r].batch \in SUBSET Client
  BY SubRecordAt DEF TypeOK, KernelTypeOK, ConnTypeOK, ServerTypeOK
<1>a. \A step \in MainStep : MainTo(step) => main'.step = step /\ main'.client = main.client
  BY <1>0 DEF MainTo
<1>1. CASE UNCHANGED <<fd, bound, watch, main, sub>>
  BY <1>1 DEF Building
<1>2. CASE Accept
  <2>1. PICK c \in Client, d \in Fd :
          fd[c] = None /\ fd' = [fd EXCEPT ![c] = d] /\ main' = [step |-> "register", client |-> c]
    BY <1>2, AcceptFacts
  <2>2. UNCHANGED <<bound, watch, sub>> /\ main.step = "poll"
    BY <1>2 DEF Accept, MainAt
  <2>3. watch[c] = "no"
    BY <2>1 DEF WatchedOpen
  <2>4. \A b \in Client : fd'[b] # None /\ ~bound[b] => b = c
    BY <1>0, <2>1, <2>2, NoneIsNobody DEF Building, MainHolds
  <2> QED
    BY <2>1, <2>2, <2>3, <2>4 DEF Building
<1>3. ASSUME NEW from \in {"register", "edge"}, NEW how \in {"level", "edge"}, NEW to \in {"edge", "bind"},
             Watch(from, how, to)
      PROVE  Building'
  <2>1. /\ main'.step = to /\ main'.client = main.client /\ UNCHANGED <<fd, bound, sub>>
        /\ watch' = [watch EXCEPT ![main.client] = how]
    BY <1>3, <1>a DEF Watch, MainStep, connVars
  <2>2. \A b \in Client : watch[b] # "no" => watch'[b] # "no"
    BY <1>0, <2>1
  <2> QED
    BY <1>0, <2>1, <2>2 DEF Building
<1>4. CASE Bind
  <2>1. main'.step = "list" /\ main'.client = main.client /\ UNCHANGED <<fd, watch, sub>>
    BY <1>4, <1>a DEF Bind, MainStep, kernelVars
  <2>2. \A b \in Client : bound[b] => bound'[b]
    BY <1>0, <1>4 DEF Bind
  <2> QED
    BY <2>1, <2>2 DEF Building
<1>5. CASE ListBegins
  <2>1. main'.step = "listing" /\ main'.client = main.client /\ UNCHANGED <<fd, bound, watch, sub>>
    BY <1>5, <1>a DEF ListBegins, MainStep, kernelVars, connVars
  <2> QED
    BY <2>1 DEF Building
<1>6. CASE ListEnds
  <2>1. main' = [step |-> "poll", client |-> None] /\ UNCHANGED <<fd, bound, watch, sub>>
    BY <1>6 DEF ListEnds, kernelVars, connVars
  <2>2. main.step = "listing" /\ main.client # None
    BY <1>6 DEF ListEnds, MainAt, MainHolds
  <2>3. bound[main.client]
    BY <2>2 DEF HandOver
  <2> QED
    BY <2>1, <2>3 DEF Building
<1>7. ASSUME NEW r \in SubReactor, Poll(r) PROVE Building'
  <2>1. UNCHANGED <<fd, bound, watch, main>>
    BY <1>7 DEF Poll, connVars
  <2>2. sub'[r].batch = Ready(r) /\ \A q \in SubReactor \ {r} : sub'[q] = sub[q]
    <3> DEFINE s == [step |-> "handle", client |-> None, batch |-> Ready(r)]
    <3>1. sub' = [sub EXCEPT ![r] = s]
      BY <1>7 DEF Poll
    <3>2. s.batch = Ready(r)
      OBVIOUS
    <3> HIDE DEF s
    <3> QED
      BY <3>1, <3>2, OthersSame
  <2>3. \A c \in Ready(r) : watch[c] # "no"
    BY DEF Ready
  <2> QED
    BY <2>1, <2>2, <2>3 DEF Building
<1>8. ASSUME NEW r \in SubReactor,
             \/ \E c \in Client : HandleEvent(r, c)
             \/ ReadSome(r) \/ ReadBlocks(r) \/ ReadEnds(r) \/ Write(r) \/ FindBegins(r) \/ FindEnds(r)
      PROVE  Building'
  BY <1>8, BatchesShrink DEF Building
<1>9. ASSUME NEW r \in SubReactor, Delete(r) PROVE Building'
  <2> DEFINE c == sub[r].client
  <2>1. /\ sub[r].step = "free" /\ Return(r) /\ UNCHANGED main
        /\ fd' = [fd EXCEPT ![c] = None] /\ bound' = [bound EXCEPT ![c] = FALSE]
        /\ watch' = [watch EXCEPT ![c] = "no"]
    BY <1>9 DEF Delete, SubAt
  <2>2. c \in Client /\ c # main.client /\ c \notin sub[r].batch
    BY <2>1, SubRecordAt DEF SubHolds, WorkStep
  <2>3. \A q \in SubReactor : c \notin sub[q].batch
    BY <2>1, <2>2, OwnDiffers DEF WorkStep
  <2>4. \A q \in SubReactor : sub'[q].batch = sub[q].batch
    BY <2>1, ReturnAt
  <2>5. \A b \in Client \ {c} : fd'[b] = fd[b] /\ bound'[b] = bound[b] /\ watch'[b] = watch[b]
    BY <1>0, <2>1
  <2>6. fd'[c] = None
    BY <1>0, <2>1, <2>2
  <2> HIDE DEF c
  <2>7. \A b \in Client : fd'[b] # None /\ ~bound'[b] => main'.client = b
    BY <2>1, <2>5, <2>6 DEF Building
  <2>8. main'.step = "register" => watch'[main'.client] = "no"
    <3>1. main.step = "register" => main.client \in Client \ {c}
      BY <1>0, <2>2 DEF MainHolds
    <3> QED
      BY <2>1, <2>5, <3>1 DEF Building
  <2>9. \A q \in SubReactor : \A b \in sub'[q].batch : watch'[b] # "no"
    BY <1>0, <2>3, <2>4, <2>5 DEF Building
  <2> QED
    BY <2>7, <2>8, <2>9 DEF Building
<1> QED
  <2>1. Environment \/ LoopFails => UNCHANGED <<fd, bound, watch, main, sub>>
    BY DEF Environment, Connect, Send, Leave, LoopFails, connVars, serverVars, kernelVars
  <2>2. EnableRead \/ UseET => Building'
    BY <1>3 DEF EnableRead, UseET
  <2>3. SubReactorStep => Building'
    BY <1>7, <1>8, <1>9 DEF SubReactorStep
  <2> QED
    BY <1>1, <1>2, <1>4, <1>5, <1>6, <2>1, <2>2, <2>3 DEF Next, MainReactor

LEMMA BuildingHolds == Spec => []Building
<1>1. IInv /\ Building /\ [Next]_vars => Building'
  <2> SUFFICES ASSUME IInv, Building, [Next]_vars PROVE Building'
    OBVIOUS
  <2>1. CASE Next
    BY <2>1, BuildingNext DEF IInv
  <2>2. CASE UNCHANGED vars
    BY <2>2 DEF vars, kernelVars, connVars, serverVars, Building
  <2> QED
    BY <2>1, <2>2
<1> QED
  BY <1>1, InitBuilding, InvariantHolds, PTL DEF Spec

\* The exception that ends a sub-reactor (HandleEvent without a callback) comes only
\* of an event of the connection that main builds at that moment, watched already
\* and not bound, and ends the reactor of that connection, whatever the number of
\* clients and reactors: later, and for the other reactors, it never happens.
THEOREM ReactorsDieOnlyEarly == Spec => ReactorsDieEarly
<1>1. IInv /\ Building /\ [Next]_vars =>
        [\A r \in SubReactor : sub[r].step # "dead" /\ sub'[r].step = "dead" =>
           main.step \in {"edge", "bind"} /\ fd[main.client] % Reactors = r]_vars
  <2> SUFFICES ASSUME IInv, Building, Next, NEW r \in SubReactor,
                      sub[r].step # "dead", sub'[r].step = "dead"
               PROVE  main.step \in {"edge", "bind"} /\ fd[main.client] % Reactors = r
    OBVIOUS
  <2>0. TypeOK /\ MainHolds /\ FdsDiffer /\ ListedOpen /\ SubHolds /\ HandOver
    BY DEF IInv
  <2>1. ASSUME NEW q \in SubReactor, NEW c \in sub[q].batch, ~bound[c], sub[q].batch \subseteq Client
        PROVE  main.step \in {"edge", "bind"} /\ fd[main.client] % Reactors = q
    <3>1. c \in Client /\ fd[c] # None /\ fd[c] % Reactors = q
      BY <2>0, <2>1 DEF SubHolds, Own
    <3>2. main.client = c /\ watch[c] # "no"
      BY <2>1, <3>1 DEF Building
    <3>3. main.step \notin {"poll", "register", "list", "listing"}
      BY <2>0, <2>1, <3>1, <3>2, NoneIsNobody DEF Building, HandOver, MainHolds
    <3>4. main.step \in MainStep
      BY <2>0 DEF TypeOK, ServerTypeOK
    <3> QED
      BY <3>1, <3>2, <3>3, <3>4 DEF MainStep
  <2>2. ASSUME NEW q \in SubReactor, SubReactorStep,
               \/ Poll(q) \/ (\E c \in Client : HandleEvent(q, c))
               \/ ReadSome(q) \/ ReadBlocks(q) \/ ReadEnds(q) \/ Write(q)
               \/ FindBegins(q) \/ FindEnds(q) \/ Delete(q)
        PROVE  \E c \in Client : HandleEvent(r, c) /\ ~bound[c] /\ c \in sub[r].batch
    <3>1. \A step \in {"read", "write", "find", "finding"} :
            SubTo(q, step) => (sub'[r].step = "dead" => sub[r].step = "dead")
      BY <2>0, SubToAt
    <3>2. Return(q) => (sub'[r].step = "dead" => sub[r].step = "dead")
      BY <2>0, ReturnAt
    <3>3. Unlist(q) \/ Poll(q) => (sub'[r].step = "dead" => sub[r].step = "dead")
      BY <2>0, OthersSame DEF Unlist, Poll
    <3>4. ASSUME NEW c \in Client, HandleEvent(q, c)
          PROVE  ~bound[c] /\ q = r /\ c \in sub[q].batch
      <4>1. CASE sub' = [sub EXCEPT ![q] = [step |-> "read", client |-> c, batch |-> sub[q].batch \ {c}]]
        BY <2>0, <4>1, OthersSame
      <4>2. CASE ~bound[c] /\ SubTo(q, "dead")
        BY <2>0, <3>4, <4>2, SubToAt DEF HandleEvent
      <4> QED
        BY <3>4, <4>1, <4>2 DEF HandleEvent
    <3>5. FindEnds(q) => Return(q) \/ Unlist(q)
      BY DEF FindEnds, Unlist, SubAt, kernelVars, connVars
    <3>6. ReadBlocks(q) \/ ReadEnds(q) \/ FindBegins(q) \/ ReadSome(q) =>
            (\E step \in {"read", "write", "find", "finding"} : SubTo(q, step)) \/ sub' = sub
      BY DEF ReadBlocks, ReadEnds, FindBegins, ReadSome, serverVars
    <3>7. Write(q) \/ Delete(q) => Return(q)
      BY DEF Write, Delete
    <3> QED
      BY <2>2, <3>1, <3>2, <3>3, <3>4, <3>5, <3>6, <3>7
  <2>3. Environment \/ MainReactor => sub' = sub
    BY DEF Environment, Connect, Send, Leave, MainReactor, Accept, LoopFails, EnableRead, UseET, Watch,
           Bind, ListBegins, ListEnds, serverVars
  <2>4. SubReactorStep
    BY <2>3 DEF Next
  <2>5. PICK c \in Client : ~bound[c] /\ c \in sub[r].batch
    BY <2>2, <2>4 DEF SubReactorStep
  <2>6. sub[r].batch \subseteq Client
    BY <2>0, SubRecordAt
  <2> QED
    BY <2>1, <2>5, <2>6
<1> QED
  BY <1>1, InvariantHolds, BuildingHolds, PTL DEF Spec, ReactorsDieEarly
=============================================================================
