-------------------------- MODULE BuildToolsProofs --------------------------
(***************************************************************************)
(* What run_clang_tidy.py and run_clang_format.py promise holds for any    *)
(* number of threads, files, directories and runs.  clang-tidy: a file on  *)
(* its way through the queue is always somewhere (FilesInv), and the count *)
(* that join waits for is the number of those places, so that when join    *)
(* returns there is no place left but the end.  clang-format: what is left *)
(* dirty and what error says, directory by directory (WalkInv).            *)
(***************************************************************************)
EXTENDS MCBuildTools, FiniteSetTheorems, SequenceTheorems, TLAPS

----------------------------------------------------------------------------
(***************************************************************************)
(* clang-tidy: the inductive invariant.                                    *)
(***************************************************************************)
QueuedFiles == {queue[i] : i \in DOMAIN queue}

\* The threads that have taken a file and not marked it as done.
Engaged == {w \in Worker : worker[w] \in Busy \cup {"dead"}}

NameInv ==
  \A w \in Worker :
    /\ worker[w] \in Busy \cup {"dead"} => name[w] \in File
    /\ worker[w] = "tidy" => name[w] \notin ThirdParty

Dealt(f) == verdict[f] \in (IF f \in ThirdParty THEN {"skipped"} ELSE {"clean", "failed"})

\* Where a file can be once it was put on the queue.
FilesInv ==
  \A f \in matching :
    f < next => \/ f \in QueuedFiles
                \/ \E w \in Worker : name[w] = f /\ worker[w] \in {"check", "tidy", "dead"}
                \/ Dealt(f)

\* No thread has work before the queue is filled and none after join.
QuietInv ==
  main = "setup" \/ PastJoin => queue = << >> /\ \A w \in Worker : worker[w] = "get"

FailedInv ==
  /\ \A f \in File : verdict[f] = "failed" => f \in failed
  /\ main \in {"join", "export", "fix", "clean"} => next > NumFiles
  /\ PastJoin /\ failed # {} => returnCode = 1
  /\ main = "setup" => failed = {} /\ next = 1

TidyInv ==
  TidyTypeOK /\ UnfinishedExact /\ NameInv /\ FilesInv /\ QuietInv /\ FailedInv

----------------------------------------------------------------------------
(***************************************************************************)
(* clang-format: the inductive invariant.                                  *)
(***************************************************************************)

\* What has been found, or formatted, in the directories walked so far.
WalkInv ==
  /\ mode = "check" => (error <=> dirty \cap (Formatted(dir) \ left) # {})
  /\ mode = "fix" =>
       /\ ~error
       /\ dirty \cap (Formatted(dir) \ left) = {}
       /\ \A d \in 1 .. dir - 1 : dirty \cap Formatted(d) = {}

FormatInv == FormatTypeOK /\ WalkInv

----------------------------------------------------------------------------
(***************************************************************************)
(* The queue and the threads across a step.                                *)
(***************************************************************************)
LEMMA QueueTaken ==
  ASSUME queue \in Seq(File), queue # << >>, queue' = Tail(queue)
  PROVE  /\ Head(queue) \in File /\ Head(queue) \in QueuedFiles
         /\ queue' \in Seq(File)
         /\ Len(queue) \in Nat /\ Len(queue) >= 1 /\ Len(queue') = Len(queue) - 1
         /\ \A f \in QueuedFiles : f = Head(queue) \/ f \in QueuedFiles'
<1>1. /\ Len(queue) \in Nat /\ Len(queue) >= 1 /\ DOMAIN queue = 1 .. Len(queue)
      /\ Tail(queue) \in Seq(File) /\ Len(Tail(queue)) = Len(queue) - 1
      /\ DOMAIN Tail(queue) = 1 .. Len(queue) - 1
      /\ Head(queue) = queue[1] /\ queue[1] \in File
      /\ \A i \in 1 .. Len(queue) - 1 : Tail(queue)[i] = queue[i + 1]
  BY HeadTailProperties, LenProperties
<1>2. ASSUME NEW i \in 1 .. Len(queue), i # 1 PROVE queue[i] \in QueuedFiles'
  <2>1. i - 1 \in 1 .. Len(queue) - 1 /\ Tail(queue)[i - 1] = queue[i]
    BY <1>1, <1>2
  <2> QED
    BY <1>1, <2>1 DEF QueuedFiles
<1> QED
  BY <1>1, <1>2 DEF QueuedFiles

LEMMA QueuePut ==
  ASSUME queue \in Seq(File), NEW file \in File, queue' = Append(queue, file)
  PROVE  /\ queue' \in Seq(File)
         /\ Len(queue) \in Nat /\ Len(queue') = Len(queue) + 1
         /\ file \in QueuedFiles' /\ QueuedFiles \subseteq QueuedFiles'
<1>1. /\ Append(queue, file) \in Seq(File)
      /\ Len(queue) \in Nat /\ DOMAIN queue = 1 .. Len(queue)
      /\ Len(Append(queue, file)) = Len(queue) + 1
      /\ DOMAIN Append(queue, file) = 1 .. Len(queue) + 1
      /\ \A i \in 1 .. Len(queue) : Append(queue, file)[i] = queue[i]
      /\ Append(queue, file)[Len(queue) + 1] = file
  BY AppendProperties, LenProperties
<1> QED
  BY <1>1 DEF QueuedFiles

\* Thread w goes to another place.
LEMMA Moved ==
  ASSUME TidyTypeOK, NEW w \in Worker, NEW place \in WorkerState,
         worker' = [worker EXCEPT ![w] = place]
  PROVE  /\ worker' \in [Worker -> WorkerState] /\ worker'[w] = place
         /\ \A v \in Worker \ {w} : worker'[v] = worker[v]
         /\ IsFiniteSet(Engaged) /\ Cardinality(Engaged) \in Nat
         /\ w \in Engaged <=> worker[w] \in Busy \cup {"dead"}
         /\ Engaged' = IF place \in Busy \cup {"dead"} THEN Engaged \cup {w} ELSE Engaged \ {w}
         /\ Cardinality(Engaged \cup {w}) =
              IF w \in Engaged THEN Cardinality(Engaged) ELSE Cardinality(Engaged) + 1
         /\ Cardinality(Engaged \ {w}) =
              IF w \in Engaged THEN Cardinality(Engaged) - 1 ELSE Cardinality(Engaged)
<1>1. /\ worker' \in [Worker -> WorkerState] /\ worker'[w] = place
      /\ \A v \in Worker \ {w} : worker'[v] = worker[v]
  BY DEF TidyTypeOK
<1>2. IsFiniteSet(Engaged) /\ Cardinality(Engaged) \in Nat
  <2>1. Engaged \subseteq Worker /\ IsFiniteSet(Worker)
    BY ClangTidyAssumption DEF Engaged
  <2> QED
    BY <2>1, FS_Subset, FS_CardinalityType
<1>3. w \in Engaged <=> worker[w] \in Busy \cup {"dead"}
  BY DEF Engaged
<1>4. Engaged' = IF place \in Busy \cup {"dead"} THEN Engaged \cup {w} ELSE Engaged \ {w}
  BY <1>1 DEF Engaged
<1> QED
  BY <1>1, <1>2, <1>3, <1>4, FS_AddElement, FS_RemoveElement

LEMMA CountIsEngaged ==
  /\ UnfinishedExact <=> unfinished = Len(queue) + Cardinality(Engaged)
  /\ UnfinishedExact' <=> unfinished' = Len(queue') + Cardinality(Engaged')
BY DEF UnfinishedExact, Engaged

----------------------------------------------------------------------------
(***************************************************************************)
(* TidyInv is inductive.                                                   *)
(***************************************************************************)
LEMMA TidyInitHolds == ASSUME TidyInit PROVE TidyInv
<1>1. MaxTask \in Nat
  BY ClangTidyAssumption, FS_CardinalityType DEF MaxTask
<1>2. TidyTypeOK
  <2>1. queue \in Seq(File) /\ Len(queue) <= MaxTask
    BY <1>1 DEF TidyInit
  <2>2. 1 \in 1 .. NumFiles + 1
    BY ClangTidyAssumption
  <2>3. /\ worker \in [Worker -> WorkerState] /\ name \in [Worker -> File \cup {NoFile}]
        /\ verdict \in [File -> {"none", "skipped", "clean", "failed", "lost"}]
    BY DEF TidyInit, WorkerState
  <2>4. main \in MainState
    BY DEF TidyInit, MainState
  <2>5. /\ matching \in Matchings /\ next \in 1 .. NumFiles + 1 /\ unfinished \in Nat
        /\ failed \subseteq File /\ yaml \subseteq File
        /\ tmpdir \in BOOLEAN /\ exported \in BOOLEAN /\ returnCode \in {0, 1}
    BY <2>2 DEF TidyInit
  <2> QED
    BY <2>1, <2>3, <2>4, <2>5 DEF TidyTypeOK
<1>3. UnfinishedExact
  <2>1. Engaged = {}
    BY DEF TidyInit, Engaged, Busy
  <2> QED
    BY <2>1, CountIsEngaged, FS_EmptySet DEF TidyInit
<1>4. NameInv /\ QuietInv
  BY DEF TidyInit, NameInv, QuietInv, Busy
<1>5. FilesInv
  <2>1. \A f \in File : ~ (f < 1)
    BY DEF File
  <2>2. matching \subseteq File
    BY ClangTidyAssumption DEF TidyInit
  <2> QED
    BY <2>1, <2>2 DEF TidyInit, FilesInv
<1>6. FailedInv
  BY DEF TidyInit, FailedInv, PastJoin
<1> QED
  BY <1>2, <1>3, <1>4, <1>5, <1>6 DEF TidyInv

\* Steps of the main thread that leave the files where they are.
LEMMA MainOnly ==
  ASSUME TidyInv, main' \in MainState, tmpdir' \in BOOLEAN, exported' \in BOOLEAN,
         returnCode' \in {0, 1},
         UNCHANGED <<matching, next, queue, unfinished, worker, name, failed, yaml, verdict>>
  PROVE  TidyTypeOK' /\ UnfinishedExact' /\ NameInv' /\ FilesInv'
<1>1. TidyTypeOK'
  BY DEF TidyInv, TidyTypeOK
<1>2. UnfinishedExact' /\ NameInv'
  BY DEF TidyInv, UnfinishedExact, NameInv
<1>3. FilesInv'
  BY DEF TidyInv, FilesInv, QueuedFiles, Dealt
<1> QED
  BY <1>1, <1>2, <1>3

LEMMA JoinKeepsTidy == ASSUME TidyInv, Join PROVE TidyInv'
<1> USE DEF Join, Joined
<1>1. TidyTypeOK' /\ UnfinishedExact' /\ NameInv' /\ FilesInv'
  BY MainOnly DEF MainState, TidyInv, TidyTypeOK
<1>2. queue = << >> /\ Engaged = {}
  <2>1. /\ Len(queue) \in Nat /\ queue \in Seq(File)
        /\ IsFiniteSet(Engaged) /\ Cardinality(Engaged) \in Nat
    <3>1. Engaged \subseteq Worker /\ IsFiniteSet(Worker)
      BY ClangTidyAssumption DEF Engaged
    <3> QED
      BY <3>1, FS_Subset, FS_CardinalityType, LenProperties DEF TidyInv, TidyTypeOK
  <2>2. Len(queue) = 0 /\ Cardinality(Engaged) = 0
    BY <2>1, CountIsEngaged DEF TidyInv
  <2> QED
    BY <2>1, <2>2, FS_EmptySet, EmptySeq
<1>3. QuietInv'
  BY <1>2 DEF TidyInv, TidyTypeOK, QuietInv, Engaged, WorkerState, Busy
<1>4. FailedInv'
  BY DEF TidyInv, FailedInv, PastJoin
<1> QED
  BY <1>1, <1>3, <1>4 DEF TidyInv

LEMMA MainKeepsTidy ==
  ASSUME TidyInv,
         \/ Setup \/ SetupFails \/ Filled \/ Interrupt \/ InterruptRaces
         \/ Export \/ ApplyFixes \/ Clean
  PROVE  TidyInv'
<1> USE DEF Setup, SetupFails, Filled, Interrupt, InterruptRaces, Export, ApplyFixes, Clean
<1>1. UNCHANGED <<matching, next, queue, unfinished, worker, name, failed, yaml, verdict>>
  OBVIOUS
<1>2. /\ main' \in MainState /\ tmpdir' \in BOOLEAN /\ exported' \in BOOLEAN
      /\ returnCode' \in {0, 1}
  BY ClangTidyAssumption DEF MainState, Over, NeedsTmpdir, NeedsRemoval, TidyInv, TidyTypeOK
<1>3. TidyTypeOK' /\ UnfinishedExact' /\ NameInv' /\ FilesInv'
  BY <1>1, <1>2, MainOnly
<1>4. PastJoin' => PastJoin \/ main = "setup"
  BY DEF PastJoin
<1>5. QuietInv'
  BY <1>1, <1>4 DEF TidyInv, QuietInv
<1>6. FailedInv'
  BY <1>1, ClangTidyAssumption DEF TidyInv, FailedInv, PastJoin
<1> QED
  BY <1>3, <1>5, <1>6 DEF TidyInv

LEMMA StutterKeepsTidy == ASSUME TidyInv, UNCHANGED tidyVars PROVE TidyInv'
<1> USE DEF tidyVars, mainVars
<1>1. TidyTypeOK' /\ UnfinishedExact' /\ NameInv' /\ FilesInv'
  BY MainOnly DEF TidyInv, TidyTypeOK
<1>2. QuietInv' /\ FailedInv'
  BY DEF TidyInv, QuietInv, FailedInv, PastJoin
<1> QED
  BY <1>1, <1>2 DEF TidyInv

LEMMA PutKeepsTidy == ASSUME TidyInv, Put PROVE TidyInv'
<1> USE DEF Put
<1>1. /\ queue \in Seq(File) /\ matching \subseteq File /\ next \in File
      /\ MaxTask \in Nat
  BY ClangTidyAssumption, FS_CardinalityType DEF TidyInv, TidyTypeOK, MaxTask
<1>2. next \in Nat /\ next >= 1 /\ next <= NumFiles /\ NumFiles \in Nat
  BY <1>1, ClangTidyAssumption DEF File
<1>3. /\ queue' \in Seq(File)
      /\ Len(queue) \in Nat /\ Len(queue') = Len(queue) + 1
      /\ next \in QueuedFiles' /\ QueuedFiles \subseteq QueuedFiles'
  BY <1>1, QueuePut
<1>4. TidyTypeOK'
  BY <1>1, <1>2, <1>3 DEF TidyInv, TidyTypeOK, HasRoom
<1>5. UnfinishedExact'
  <2>1. IsFiniteSet(Engaged) /\ Cardinality(Engaged) \in Nat /\ Engaged' = Engaged
    <3>1. Engaged \subseteq Worker /\ IsFiniteSet(Worker)
      BY ClangTidyAssumption DEF Engaged
    <3> QED
      BY <3>1, FS_Subset, FS_CardinalityType DEF Engaged
  <2> QED
    BY <1>3, <2>1, CountIsEngaged DEF TidyInv
<1>6. NameInv' /\ QuietInv' /\ FailedInv'
  BY DEF TidyInv, NameInv, QuietInv, FailedInv, PastJoin
<1>7. FilesInv'
  <2> SUFFICES ASSUME NEW f \in matching, f < next'
               PROVE  \/ f \in QueuedFiles'
                      \/ \E w \in Worker : name[w] = f /\ worker[w] \in {"check", "tidy", "dead"}
                      \/ Dealt(f)
    BY DEF FilesInv, Dealt
  <2>1. f \in Nat
    BY <1>1 DEF File
  <2>2. f < next \/ f = next
    BY <1>2, <2>1
  <2> QED
    BY <1>3, <2>2 DEF TidyInv, FilesInv
<1> QED
  BY <1>4, <1>5, <1>6, <1>7 DEF TidyInv

\* What a thread's step leaves alone, and that the program is under way.
LEMMA ThreadStep ==
  ASSUME TidyInv, NEW w \in Worker, worker[w] # "get", UNCHANGED mainVars
  PROVE  /\ ~ (main = "setup" \/ PastJoin)
         /\ ~ (main = "setup" \/ PastJoin)'
         /\ UNCHANGED <<main, matching, next, tmpdir, exported, returnCode>>
<1>1. ~ (main = "setup" \/ PastJoin)
  BY DEF TidyInv, QuietInv
<1> QED
  BY <1>1 DEF PastJoin, mainVars

LEMMA TakeKeepsTidy == ASSUME TidyInv, NEW w \in Worker, Take(w) PROVE TidyInv'
<1> USE DEF Take
<1>1. queue \in Seq(File) /\ queue # << >> /\ MaxTask \in Nat
  BY ClangTidyAssumption, FS_CardinalityType DEF TidyInv, TidyTypeOK, MaxTask
<1>2. /\ Head(queue) \in File /\ Head(queue) \in QueuedFiles
      /\ queue' \in Seq(File)
      /\ Len(queue) \in Nat /\ Len(queue) >= 1 /\ Len(queue') = Len(queue) - 1
      /\ \A f \in QueuedFiles : f = Head(queue) \/ f \in QueuedFiles'
  BY <1>1, QueueTaken
<1>3. /\ worker' \in [Worker -> WorkerState] /\ worker'[w] = "check"
      /\ \A v \in Worker \ {w} : worker'[v] = worker[v]
      /\ IsFiniteSet(Engaged) /\ Cardinality(Engaged) \in Nat
      /\ Cardinality(Engaged') = Cardinality(Engaged) + 1
  BY Moved DEF TidyInv, WorkerState, Busy
<1>4. /\ name' \in [Worker -> File \cup {NoFile}] /\ name'[w] = Head(queue)
      /\ \A v \in Worker \ {w} : name'[v] = name[v]
  BY <1>2 DEF TidyInv, TidyTypeOK
<1>5. UNCHANGED <<main, matching, next, tmpdir, exported, returnCode, unfinished, failed,
                  yaml, verdict>>
  BY DEF mainVars
<1>6. TidyTypeOK'
  BY <1>1, <1>2, <1>3, <1>4, <1>5 DEF TidyInv, TidyTypeOK
<1>7. UnfinishedExact'
  BY <1>2, <1>3, <1>5, CountIsEngaged DEF TidyInv
<1>8. NameInv'
  BY <1>2, <1>3, <1>4 DEF TidyInv, NameInv
<1>9. FilesInv'
  <2> SUFFICES ASSUME NEW f \in matching, f < next
               PROVE  \/ f \in QueuedFiles'
                      \/ \E v \in Worker : name'[v] = f /\ worker'[v] \in {"check", "tidy", "dead"}
                      \/ Dealt(f)
    BY <1>5 DEF FilesInv, Dealt
  <2> QED
    BY <1>2, <1>3, <1>4 DEF TidyInv, FilesInv
<1>10. QuietInv' /\ FailedInv'
  BY <1>1, <1>5 DEF TidyInv, QuietInv, FailedInv, PastJoin
<1> QED
  BY <1>6, <1>7, <1>8, <1>9, <1>10 DEF TidyInv

LEMMA SkipKeepsTidy == ASSUME TidyInv, NEW w \in Worker, Skip(w) PROVE TidyInv'
<1> USE DEF Skip, DoneAfterSkip, ShouldSkip, WithReplacements
<1>1. name[w] \in File /\ name[w] \in ThirdParty /\ worker[w] = "check"
  BY DEF TidyInv, NameInv, Busy
<1>2. /\ ~ (main = "setup" \/ PastJoin)
      /\ ~ (main = "setup" \/ PastJoin)'
      /\ UNCHANGED <<main, matching, next, tmpdir, exported, returnCode>>
  BY <1>1, ThreadStep
<1>3. /\ worker' \in [Worker -> WorkerState] /\ worker'[w] = "get"
      /\ \A v \in Worker \ {w} : worker'[v] = worker[v]
      /\ IsFiniteSet(Engaged) /\ Cardinality(Engaged) \in Nat
      /\ Cardinality(Engaged') = Cardinality(Engaged) - 1
      /\ Cardinality(Engaged) # 0
  <2>1. w \in Engaged
    BY <1>1 DEF Engaged, Busy
  <2> QED
    BY <2>1, Moved, FS_EmptySet DEF TidyInv, WorkerState, Busy
<1>4. /\ verdict' \in [File -> {"none", "skipped", "clean", "failed", "lost"}]
      /\ verdict'[name[w]] = "skipped"
      /\ \A f \in File \ {name[w]} : verdict'[f] = verdict[f]
  BY <1>1 DEF TidyInv, TidyTypeOK
<1>5. UNCHANGED <<queue, name, failed>>
  OBVIOUS
<1>6. Len(queue) \in Nat /\ matching \subseteq File
  BY LenProperties, ClangTidyAssumption DEF TidyInv, TidyTypeOK
<1>7. UnfinishedExact' /\ unfinished' \in Nat
  BY <1>3, <1>5, <1>6, CountIsEngaged DEF TidyInv
<1>8. TidyTypeOK'
  BY <1>1, <1>2, <1>3, <1>4, <1>5, <1>7 DEF TidyInv, TidyTypeOK
<1>9. NameInv'
  BY <1>3, <1>5 DEF TidyInv, NameInv, Busy
<1>10. FilesInv'
  <2> SUFFICES ASSUME NEW f \in matching, f < next
               PROVE  \/ f \in QueuedFiles
                      \/ \E v \in Worker : name[v] = f /\ worker'[v] \in {"check", "tidy", "dead"}
                      \/ Dealt(f)'
    BY <1>2, <1>5 DEF FilesInv, QueuedFiles
  <2>1. CASE f = name[w]
    BY <1>1, <1>4, <2>1 DEF Dealt
  <2>2. CASE f # name[w]
    BY <1>3, <1>4, <1>6, <2>2 DEF TidyInv, FilesInv, Dealt
  <2> QED
    BY <2>1, <2>2
<1>11. QuietInv' /\ FailedInv'
  BY <1>2, <1>4, <1>5 DEF TidyInv, QuietInv, FailedInv
<1> QED
  BY <1>7, <1>8, <1>9, <1>10, <1>11 DEF TidyInv

LEMMA LaunchKeepsTidy == ASSUME TidyInv, NEW w \in Worker, Launch(w) PROVE TidyInv'
<1> USE DEF Launch, ShouldSkip, WithReplacements
<1>1. name[w] \in File /\ name[w] \notin ThirdParty /\ worker[w] = "check"
  BY DEF TidyInv, NameInv, Busy
<1>2. /\ ~ (main = "setup" \/ PastJoin)
      /\ ~ (main = "setup" \/ PastJoin)'
      /\ UNCHANGED <<main, matching, next, tmpdir, exported, returnCode>>
  BY <1>1, ThreadStep
<1>3. /\ worker' \in [Worker -> WorkerState] /\ worker'[w] = "tidy"
      /\ \A v \in Worker \ {w} : worker'[v] = worker[v]
      /\ Engaged' = Engaged
  <2>1. w \in Engaged
    BY <1>1 DEF Engaged, Busy
  <2>2. /\ worker' \in [Worker -> WorkerState] /\ worker'[w] = "tidy"
        /\ \A v \in Worker \ {w} : worker'[v] = worker[v]
        /\ Engaged' = Engaged \cup {w}
    BY Moved DEF TidyInv, WorkerState, Busy
  <2> QED
    BY <2>1, <2>2
<1>4. UNCHANGED <<queue, unfinished, name, failed, verdict>>
  OBVIOUS
<1>5. UnfinishedExact'
  BY <1>3, <1>4, CountIsEngaged DEF TidyInv
<1>6. TidyTypeOK'
  BY <1>1, <1>2, <1>3, <1>4 DEF TidyInv, TidyTypeOK
<1>7. NameInv'
  BY <1>1, <1>3, <1>4 DEF TidyInv, NameInv
<1>8. FilesInv'
  BY <1>1, <1>2, <1>3, <1>4 DEF TidyInv, FilesInv, QueuedFiles, Dealt
<1>9. QuietInv' /\ FailedInv'
  BY <1>2, <1>4 DEF TidyInv, QuietInv, FailedInv
<1> QED
  BY <1>5, <1>6, <1>7, <1>8, <1>9 DEF TidyInv

LEMMA FinishKeepsTidy == ASSUME TidyInv, NEW w \in Worker, Finish(w) PROVE TidyInv'
<1>1. name[w] \in File /\ name[w] \notin ThirdParty /\ worker[w] = "tidy"
  BY DEF TidyInv, NameInv, Busy, Finish
<1>2. /\ ~ (main = "setup" \/ PastJoin)
      /\ ~ (main = "setup" \/ PastJoin)'
      /\ UNCHANGED <<main, matching, next, tmpdir, exported, returnCode>>
  BY <1>1, ThreadStep DEF Finish
<1>3. /\ worker' \in [Worker -> WorkerState] /\ worker'[w] = "report"
      /\ \A v \in Worker \ {w} : worker'[v] = worker[v]
      /\ Engaged' = Engaged
  <2>1. w \in Engaged
    BY <1>1 DEF Engaged, Busy
  <2>2. /\ worker' \in [Worker -> WorkerState] /\ worker'[w] = "report"
        /\ \A v \in Worker \ {w} : worker'[v] = worker[v]
        /\ Engaged' = Engaged \cup {w}
    BY Moved DEF TidyInv, WorkerState, Busy, Finish
  <2> QED
    BY <2>1, <2>2
<1>4. PICK code \in ReturnCodes :
        /\ failed' = IF code # 0 THEN failed \cup {name[w]} ELSE failed
        /\ verdict' = [verdict EXCEPT ![name[w]] = IF code = 0 THEN "clean" ELSE "failed"]
  BY DEF Finish, IsFailure
<1>5. /\ verdict' \in [File -> {"none", "skipped", "clean", "failed", "lost"}]
      /\ verdict'[name[w]] \in {"clean", "failed"}
      /\ verdict'[name[w]] = "failed" => name[w] \in failed'
      /\ \A f \in File \ {name[w]} : verdict'[f] = verdict[f]
      /\ failed \subseteq failed' /\ failed' \subseteq File
  BY <1>1, <1>4 DEF TidyInv, TidyTypeOK
<1>6. UNCHANGED <<queue, unfinished, name, yaml>> /\ matching \subseteq File
  BY ClangTidyAssumption DEF Finish, TidyInv, TidyTypeOK
<1>7. UnfinishedExact'
  BY <1>3, <1>6, CountIsEngaged DEF TidyInv
<1>8. TidyTypeOK'
  BY <1>2, <1>3, <1>5, <1>6 DEF TidyInv, TidyTypeOK
<1>9. NameInv'
  BY <1>1, <1>3, <1>6 DEF TidyInv, NameInv
<1>10. FilesInv'
  <2> SUFFICES ASSUME NEW f \in matching, f < next
               PROVE  \/ f \in QueuedFiles
                      \/ \E v \in Worker : name[v] = f /\ worker'[v] \in {"check", "tidy", "dead"}
                      \/ Dealt(f)'
    BY <1>2, <1>6 DEF FilesInv, QueuedFiles
  <2>1. CASE f = name[w]
    BY <1>1, <1>5, <2>1 DEF Dealt
  <2>2. CASE f # name[w]
    BY <1>3, <1>5, <1>6, <2>2 DEF TidyInv, FilesInv, Dealt
  <2> QED
    BY <2>1, <2>2
<1>11. QuietInv' /\ FailedInv'
  BY <1>2, <1>5 DEF TidyInv, QuietInv, FailedInv
<1> QED
  BY <1>7, <1>8, <1>9, <1>10, <1>11 DEF TidyInv

LEMMA ReportKeepsTidy == ASSUME TidyInv, NEW w \in Worker, Report(w) PROVE TidyInv'
<1> USE DEF Report
<1>1. /\ ~ (main = "setup" \/ PastJoin)
      /\ ~ (main = "setup" \/ PastJoin)'
      /\ UNCHANGED <<main, matching, next, tmpdir, exported, returnCode>>
  BY ThreadStep
<1>2. /\ worker' \in [Worker -> WorkerState] /\ worker'[w] = "get"
      /\ \A v \in Worker \ {w} : worker'[v] = worker[v]
      /\ IsFiniteSet(Engaged) /\ Cardinality(Engaged) \in Nat
      /\ Cardinality(Engaged') = Cardinality(Engaged) - 1
      /\ Cardinality(Engaged) # 0
  <2>1. w \in Engaged
    BY DEF Engaged, Busy
  <2> QED
    BY <2>1, Moved, FS_EmptySet DEF TidyInv, WorkerState, Busy
<1>3. UNCHANGED <<queue, name, failed, yaml, verdict>>
  OBVIOUS
<1>4. Len(queue) \in Nat
  BY LenProperties DEF TidyInv, TidyTypeOK
<1>5. UnfinishedExact' /\ unfinished' \in Nat
  BY <1>2, <1>3, <1>4, CountIsEngaged DEF TidyInv
<1>6. TidyTypeOK'
  BY <1>1, <1>2, <1>3, <1>5 DEF TidyInv, TidyTypeOK
<1>7. NameInv'
  BY <1>2, <1>3 DEF TidyInv, NameInv, Busy
<1>8. FilesInv'
  BY <1>1, <1>2, <1>3 DEF TidyInv, FilesInv, QueuedFiles, Dealt
<1>9. QuietInv' /\ FailedInv'
  BY <1>1, <1>3 DEF TidyInv, QuietInv, FailedInv
<1> QED
  BY <1>5, <1>6, <1>7, <1>8, <1>9 DEF TidyInv

LEMMA DieKeepsTidy == ASSUME TidyInv, NEW w \in Worker, Die(w) PROVE TidyInv'
<1> USE DEF Die
<1>1. name[w] \in File /\ worker[w] \in Busy /\ worker[w] # "get"
  BY DEF TidyInv, NameInv, Busy
<1>2. /\ ~ (main = "setup" \/ PastJoin)
      /\ ~ (main = "setup" \/ PastJoin)'
      /\ UNCHANGED <<main, matching, next, tmpdir, exported, returnCode>>
  BY <1>1, ThreadStep
<1>3. /\ worker' \in [Worker -> WorkerState] /\ worker'[w] = "dead"
      /\ \A v \in Worker \ {w} : worker'[v] = worker[v]
      /\ Engaged' = Engaged
  <2>1. w \in Engaged
    BY <1>1 DEF Engaged
  <2>2. /\ worker' \in [Worker -> WorkerState] /\ worker'[w] = "dead"
        /\ \A v \in Worker \ {w} : worker'[v] = worker[v]
        /\ Engaged' = Engaged \cup {w}
    BY Moved DEF TidyInv, WorkerState, Busy
  <2> QED
    BY <2>1, <2>2
<1>4. /\ verdict' \in [File -> {"none", "skipped", "clean", "failed", "lost"}]
      /\ verdict'[name[w]] \in {verdict[name[w]], "lost"}
      /\ \A f \in File \ {name[w]} : verdict'[f] = verdict[f]
  BY <1>1 DEF TidyInv, TidyTypeOK
<1>5. UNCHANGED <<queue, unfinished, name, failed, yaml>> /\ matching \subseteq File
  BY ClangTidyAssumption DEF TidyInv, TidyTypeOK
<1>6. UnfinishedExact'
  BY <1>3, <1>5, CountIsEngaged DEF TidyInv
<1>7. TidyTypeOK'
  BY <1>2, <1>3, <1>4, <1>5 DEF TidyInv, TidyTypeOK
<1>8. NameInv'
  BY <1>1, <1>3, <1>5 DEF TidyInv, NameInv
<1>9. FilesInv'
  <2> SUFFICES ASSUME NEW f \in matching, f < next
               PROVE  \/ f \in QueuedFiles
                      \/ \E v \in Worker : name[v] = f /\ worker'[v] \in {"check", "tidy", "dead"}
                      \/ Dealt(f)'
    BY <1>2, <1>5 DEF FilesInv, QueuedFiles
  <2>1. CASE f = name[w]
    BY <1>3, <2>1
  <2>2. CASE f # name[w]
    BY <1>3, <1>4, <1>5, <2>2 DEF TidyInv, FilesInv, Dealt
  <2> QED
    BY <2>1, <2>2
<1>10. QuietInv' /\ FailedInv'
  BY <1>1, <1>2, <1>4, <1>5 DEF TidyInv, QuietInv, FailedInv
<1> QED
  BY <1>6, <1>7, <1>8, <1>9, <1>10 DEF TidyInv

LEMMA TidyStep == ASSUME TidyInv, [TidyNext]_tidyVars PROVE TidyInv'
<1>1. CASE MainStep \/ SetupFails \/ Interrupt \/ InterruptRaces
  BY <1>1, PutKeepsTidy, JoinKeepsTidy, MainKeepsTidy DEF MainStep
<1>2. CASE PutTimesOut \/ Spin \/ Ended \/ UNCHANGED tidyVars
  BY <1>2, StutterKeepsTidy DEF PutTimesOut, Spin, Ended
<1>3. CASE \E w \in Worker : Step(w) \/ Die(w)
  BY <1>3, TakeKeepsTidy, SkipKeepsTidy, LaunchKeepsTidy, FinishKeepsTidy, ReportKeepsTidy,
     DieKeepsTidy DEF Step
<1> QED
  BY <1>1, <1>2, <1>3 DEF TidyNext

\* With any number of threads, join waits for exactly the files that are on the
\* queue, with a thread, or were dropped by a thread that died: task_done is
\* called once for every get that did not end in an exception
\* (run_clang_tidy.py:157-191, 325).
THEOREM TidyUnfinishedExact == TidySpec => []UnfinishedExact
<1>1. TidyInv => UnfinishedExact
  BY DEF TidyInv
<1> QED
  BY <1>1, TidyInitHolds, TidyStep, PTL DEF TidySpec

\* However the threads and the main thread interleave, when the program goes on
\* after join every file that matches was skipped as third party or run to the
\* end, no thread has died, and a failure is in the status
\* (run_clang_tidy.py:312-365).
THEOREM TidyNeverExitsShort == TidySpec => []NeverExitsShort
<1>1. ASSUME TidyInv PROVE NeverExitsShort
  <2> SUFFICES ASSUME PastJoin
               PROVE  /\ \A f \in matching : Dealt(f)
                      /\ \A w \in Worker : worker[w] = "get"
                      /\ (\E f \in File : verdict[f] = "failed") => returnCode = 1
    BY DEF NeverExitsShort, Dealt
  <2>1. queue = << >> /\ \A w \in Worker : worker[w] = "get"
    BY <1>1 DEF TidyInv, QuietInv
  <2>2. QueuedFiles = {}
    BY <2>1 DEF QueuedFiles
  <2>3. next > NumFiles
    BY <1>1 DEF PastJoin, TidyInv, FailedInv
  <2>4. \A f \in matching : f < next
    <3>1. matching \subseteq File /\ next \in Nat /\ NumFiles \in Nat
      BY <1>1, ClangTidyAssumption DEF TidyInv, TidyTypeOK
    <3> QED
      BY <2>3, <3>1 DEF File
  <2>5. \A f \in matching : Dealt(f)
    BY <1>1, <2>1, <2>2, <2>4 DEF TidyInv, FilesInv
  <2>6. (\E f \in File : verdict[f] = "failed") => returnCode = 1
    BY <1>1 DEF TidyInv, FailedInv
  <2> QED
    BY <2>1, <2>5, <2>6
<1> QED
  BY <1>1, TidyInitHolds, TidyStep, PTL DEF TidySpec

----------------------------------------------------------------------------
(***************************************************************************)
(* FormatInv is inductive.                                                 *)
(***************************************************************************)
LEMMA DirsTyped ==
  /\ Len(Dirs) \in Nat /\ Len(Dirs) >= 1
  /\ \A d \in 1 .. Len(Dirs) : Formatted(d) \subseteq SourceFile
<1>1. Dirs \in Seq(SUBSET SourceFile) /\ Dirs # << >>
  BY ClangFormatAssumption
<1>2. /\ Len(Dirs) \in Nat /\ Len(Dirs) >= 1
      /\ \A d \in 1 .. Len(Dirs) : Dirs[d] \in SUBSET SourceFile
  BY <1>1, LenProperties, EmptySeq
<1> QED
  BY <1>2 DEF Formatted

LEMMA SourcesAreFormatted ==
  \A file \in SourceFile \ Excluded : \E d \in 1 .. Len(Dirs) : file \in Formatted(d)
<1>1. DOMAIN Dirs = 1 .. Len(Dirs)
  BY ClangFormatAssumption, LenProperties
<1> QED
  BY <1>1 DEF SourceFile, Formatted

LEMMA FormatInitHolds == ASSUME FormatInit PROVE FormatInv
<1>1. 1 \in 1 .. Len(Dirs)
  BY DirsTyped
<1> QED
  BY <1>1 DEF FormatInit, FormatInv, FormatTypeOK, WalkInv

\* Between two invocations nothing is known.
LEMMA IdleKeepsFormat ==
  ASSUME FormatInv, Edit \/ Abort \/ UNCHANGED formatVars PROVE FormatInv'
BY DEF Edit, Abort, formatVars, FormatInv, FormatTypeOK, WalkInv

LEMMA StartKeepsFormat == ASSUME FormatInv, Start PROVE FormatInv'
<1> USE DEF Start, Enter
<1>1. FormatTypeOK'
  <2>1. 1 \in 1 .. Len(Dirs)
    BY DirsTyped
  <2>2. dir' = 1 /\ left' = Formatted(dir')
    OBVIOUS
  <2> QED
    BY <2>1, <2>2 DEF FormatInv, FormatTypeOK
<1>2. WalkInv'
  BY DEF WalkInv
<1> QED
  BY <1>1, <1>2 DEF FormatInv

LEMMA CompareKeepsFormat ==
  ASSUME FormatInv, NEW file \in SourceFile, Compare(file) PROVE FormatInv'
<1> USE DEF Compare, Found
<1>1. FormatTypeOK'
  BY DEF FormatInv, FormatTypeOK
<1>2. Formatted(dir) \ left' = (Formatted(dir) \ left) \cup {file}
  BY DEF FormatInv, FormatTypeOK
<1>3. error' <=> dirty \cap (Formatted(dir) \ left') # {}
  BY <1>2 DEF FormatInv, FormatTypeOK, WalkInv
<1> QED
  BY <1>1, <1>3 DEF FormatInv, WalkInv

LEMMA FormatInPlaceKeepsFormat == ASSUME FormatInv, FormatInPlace PROVE FormatInv'
<1> USE DEF FormatInPlace
<1>1. FormatTypeOK'
  BY DEF FormatInv, FormatTypeOK
<1>2. /\ ~error /\ dirty \cap (Formatted(dir) \ left) = {}
      /\ \A d \in 1 .. dir - 1 : dirty \cap Formatted(d) = {}
  BY DEF FormatInv, WalkInv
<1>3. /\ dirty' \cap (Formatted(dir) \ left') = {}
      /\ \A d \in 1 .. dir - 1 : dirty' \cap Formatted(d) = {}
  BY <1>2
<1> QED
  BY <1>1, <1>2, <1>3 DEF FormatInv, WalkInv

LEMMA NextDirectoryKeepsFormat == ASSUME FormatInv, NextDirectory PROVE FormatInv'
<1> USE DEF NextDirectory, Enter
<1>1. dir \in Nat /\ dir >= 1 /\ dir <= Len(Dirs) /\ Len(Dirs) \in Nat
  BY DirsTyped DEF FormatInv, FormatTypeOK
<1>2. CASE dir < Len(Dirs)
  <2>1. /\ dir' = dir + 1 /\ left' = Formatted(dir + 1) /\ error' = FALSE
        /\ mode' = mode /\ dirty' = dirty
    BY <1>2
  <2>2. FormatTypeOK'
    <3>1. dir' \in 1 .. Len(Dirs) /\ left' = Formatted(dir')
      BY <1>1, <1>2, <2>1
    <3>2. hadErr' \in BOOLEAN /\ status' = status
      BY <1>2 DEF FormatInv, FormatTypeOK
    <3> QED
      BY <2>1, <3>1, <3>2 DEF FormatInv, FormatTypeOK
  <2>3. mode = "fix" => \A d \in 1 .. dir : dirty \cap Formatted(d) = {}
    <3>1. \A d \in 1 .. dir : d = dir \/ d \in 1 .. dir - 1
      BY <1>1
    <3> QED
      BY <3>1 DEF FormatInv, WalkInv
  <2>4. dir' - 1 = dir
    BY <1>1, <2>1
  <2>5. WalkInv'
    BY <2>1, <2>3, <2>4 DEF WalkInv
  <2> QED
    BY <2>2, <2>5 DEF FormatInv
<1>3. CASE ~ (dir < Len(Dirs))
  BY <1>3 DEF FormatInv, FormatTypeOK, WalkInv
<1> QED
  BY <1>2, <1>3

LEMMA FormatStep == ASSUME FormatInv, [FormatNext]_formatVars PROVE FormatInv'
BY IdleKeepsFormat, StartKeepsFormat, CompareKeepsFormat, FormatInPlaceKeepsFormat,
   NextDirectoryKeepsFormat DEF FormatNext

\* What the last step of an invocation reports.
LEMMA EndTells ==
  ASSUME FormatInv, [FormatNext]_formatVars, Ends
  PROVE  /\ mode = "fix" /\ status' = "zero" => dirty' \subseteq Excluded
         /\ mode = "check" =>
              (status' = "zero" <=> left = {} /\ dirty \cap Formatted(Len(Dirs)) = {})
<1>1. mode # "idle" /\ mode' = "idle" /\ (NextDirectory \/ Abort)
  BY DEF Ends, FormatNext, Edit, Start, Compare, FormatInPlace, formatVars
<1>2. CASE Abort
  BY <1>2 DEF Abort
<1>3. CASE NextDirectory
  <2>1. /\ left = {} /\ dirty' = dirty /\ dir = Len(Dirs)
        /\ status' = IF error THEN "one" ELSE "zero"
    BY <1>1, <1>3, DirsTyped DEF NextDirectory, FormatInv, FormatTypeOK
  <2>2. CASE mode = "check"
    <3>1. error <=> dirty \cap Formatted(Len(Dirs)) # {}
      BY <2>1, <2>2 DEF FormatInv, WalkInv
    <3> QED
      BY <2>1, <2>2, <3>1 DEF Formatted
  <2>3. CASE mode = "fix"
    <3>1. \A d \in 1 .. Len(Dirs) : dirty \cap Formatted(d) = {}
      <4>1. \A d \in 1 .. Len(Dirs) : d = dir \/ d \in 1 .. dir - 1
        BY <2>1, DirsTyped
      <4> QED
        BY <2>1, <2>3, <4>1 DEF FormatInv, WalkInv
    <3>2. dirty \subseteq SourceFile
      BY DEF FormatInv, FormatTypeOK
    <3> QED
      BY <2>1, <2>3, <3>1, <3>2, SourcesAreFormatted
  <2> QED
    BY <1>1, <2>2, <2>3 DEF FormatInv, FormatTypeOK
<1> QED
  BY <1>1, <1>2, <1>3

\* Whatever was edited and run before: zero after formatting means that no file
\* of any directory is left to format.  A check speaks of its last directory
\* only, however many there are: it ends with zero if and only if no file of that
\* has to be formatted and clang-format did not break down
\* (run_clang_format.py:43-127).
THEOREM FormatStatusTells == FormatSpec => StatusTells
<1>1. FormatInv /\ [FormatNext]_formatVars =>
        [Ends =>
           /\ mode = "fix" /\ status' = "zero" => dirty' \subseteq Excluded
           /\ mode = "check" =>
                (status' = "zero" <=> left = {} /\ dirty \cap Formatted(Len(Dirs)) = {})]_formatVars
  BY EndTells
<1> QED
  BY <1>1, FormatInitHolds, FormatStep, PTL DEF FormatSpec, StatusTells

----------------------------------------------------------------------------
\* The state of both programs keeps its types, however many threads, files and
\* directories there are: in particular the bounded queue never holds more than
\* max_task files and unfinished_tasks never goes below zero.
THEOREM ToolsTypes == MCSpec => []TypeOK
<1>1. MCInit => TidyInv /\ FormatInv
  BY TidyInitHolds, FormatInitHolds DEF MCInit
<1>2. ASSUME TidyInv, FormatInv, [MCTidy \/ MCFormat]_<<tool, tidyVars, formatVars>>
      PROVE  TidyInv' /\ FormatInv'
  <2>1. [TidyNext]_tidyVars /\ [FormatNext]_formatVars
    BY <1>2 DEF MCTidy, MCFormat
  <2> QED
    BY <1>2, <2>1, TidyStep, FormatStep
<1>3. TidyInv /\ FormatInv => TypeOK
  BY DEF TidyInv, FormatInv, TypeOK
<1> QED
  BY <1>1, <1>2, <1>3, PTL DEF MCSpec
=============================================================================
