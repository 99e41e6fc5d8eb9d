----------------------------- MODULE ClangTidy -----------------------------
(***************************************************************************)
(* src/nebula/build_support/run_clang_tidy.py, the program behind "make    *)
(* clang-tidy": a main thread that puts the files of the compilation       *)
(* database on a bounded queue, daemon threads that take them off and run  *)
(* clang-tidy, and queue.join() at the end; then exporting and applying    *)
(* the suggested fixes.                                                    *)
(*                                                                         *)
(* A file is its index in the database.  Left out: the lock around the     *)
(* printing, which orders output only, and the text of command lines.      *)
(***************************************************************************)
EXTENDS Integers, Sequences, FiniteSets

CONSTANTS Worker,       \* the threads of line 289; max_task is their number
          NumFiles,     \* entries of compile_commands.json
          Matchings,    \* for possible files arguments, the entries that match
          ThirdParty,   \* entries CheckConfig.should_skip wants skipped
          ExportFixes,  \* -export-fixes was given
          Fix,          \* -fix was given
          MaxDeaths     \* bound: how many threads an exception may end

File == 1 .. NumFiles

ASSUME ClangTidyAssumption == /\ IsFiniteSet(Worker)
                              /\ Worker # {}
                              /\ NumFiles \in Nat
                              /\ Matchings \subseteq SUBSET File
                              /\ ThirdParty \subseteq File
                              /\ ExportFixes \in BOOLEAN
                              /\ Fix \in BOOLEAN
                              /\ MaxDeaths \in Nat

VARIABLES
  main,        \* where the main thread is
  matching,    \* the entries that file_name_re matches
  next,        \* the entry the loop of line 312 is at
  queue,       \* task_queue
  unfinished,  \* task_queue.unfinished_tasks, what join waits for
  worker,      \* where each thread is
  name,        \* its local variable name, 0 before the first file
  failed,      \* failed_files
  tmpdir,      \* the temporary directory exists
  yaml,        \* files whose replacement file was made in it
  exported,    \* the file of -export-fixes was written
  returnCode,  \* return_code
  verdict      \* history: what became of each file

mainVars == <<main, matching, next, tmpdir, exported, returnCode>>
tidyVars == <<mainVars, queue, unfinished, worker, name, failed, yaml, verdict>>

NoFile == 0
MaxTask == Cardinality(Worker)

\* "fill" line 312, "join" 325, "export" 342, "fix" 351, "clean" 360; then
\* sys.exit, os.kill(0, 9), or an exception that nothing catches.
Over == {"exited", "killed", "crashed"}
MainState == {"setup", "fill", "join", "export", "fix", "clean"} \cup Over

\* "get" line 159, "check" 162-168, "tidy" 172-175, "report" 182-191.
WorkerState == {"get", "check", "tidy", "report", "dead"}
Busy == {"check", "tidy", "report"}

TidyTypeOK ==
  /\ main \in MainState
  /\ matching \in Matchings
  /\ next \in 1 .. NumFiles + 1
  /\ queue \in Seq(File) /\ Len(queue) <= MaxTask
  /\ unfinished \in Nat
  /\ worker \in [Worker -> WorkerState]
  /\ name \in [Worker -> File \cup {NoFile}]
  /\ failed \subseteq File
  /\ tmpdir \in BOOLEAN
  /\ yaml \subseteq File
  /\ exported \in BOOLEAN
  /\ returnCode \in {0, 1}
  /\ verdict \in [File -> {"none", "skipped", "clean", "failed", "lost"}]

TidyInit ==
  /\ main = "setup"
  /\ matching \in Matchings
  /\ next = 1
  /\ queue = << >>
  /\ unfinished = 0
  /\ worker = [w \in Worker |-> "get"]
  /\ name = [w \in Worker |-> NoFile]
  /\ failed = {}
  /\ tmpdir = FALSE
  /\ yaml = {}
  /\ exported = FALSE
  /\ returnCode = 0
  /\ verdict = [f \in File |-> "none"]

----------------------------------------------------------------------------
(***************************************************************************)
(* Faults, each a plausible slip in the operation it is named after.  No   *)
(* specification uses them: the properties are tried against them.         *)
(***************************************************************************)

Running == main \notin Over

\* A skipped file is not marked as done.
FaultyDoneAfterSkip == unfinished

\* The main thread goes on when the queue is empty.
FaultyJoined == queue = << >>

\* A thread ends when it finds the queue empty.
FaultyTake(w) ==
  /\ Running
  /\ worker[w] = "get"
  /\ IF queue = << >>
     THEN /\ worker' = [worker EXCEPT ![w] = "dead"]
          /\ UNCHANGED <<queue, name>>
     ELSE /\ queue' = Tail(queue)
          /\ name' = [name EXCEPT ![w] = Head(queue)]
          /\ worker' = [worker EXCEPT ![w] = "check"]
  /\ UNCHANGED <<mainVars, unfinished, failed, yaml, verdict>>

----------------------------------------------------------------------------
(***************************************************************************)
(* The main thread up to join.                                             *)
(***************************************************************************)

NeedsTmpdir == Fix \/ ExportFixes

\* No database up to the root directory, or a binary that does not start.
SetupFails ==
  /\ main = "setup"
  /\ main' = "exited"
  /\ returnCode' = 1
  /\ UNCHANGED <<matching, next, tmpdir, exported, queue, unfinished, worker, name, failed, yaml, verdict>>

Setup ==
  /\ main = "setup"
  /\ main' = "fill"
  /\ tmpdir' = NeedsTmpdir
  /\ UNCHANGED <<matching, next, exported, returnCode, queue, unfinished, worker, name, failed, yaml, verdict>>

\* A slip: one place more than max_task.
FaultyHasRoom == Len(queue) <= MaxTask

HasRoom == Len(queue) < MaxTask

\* queue.put: room on the queue within 300 seconds.
Put ==
  /\ main = "fill"
  /\ next \in matching
  /\ HasRoom
  /\ queue' = Append(queue, next)
  /\ unfinished' = unfinished + 1
  /\ next' = next + 1
  /\ UNCHANGED <<matching, main, tmpdir, exported, returnCode, worker, name, failed, yaml, verdict>>

\* queue.Full after 300 seconds: the same file is tried again.
PutTimesOut ==
  /\ main = "fill"
  /\ next \in matching
  /\ ~HasRoom
  /\ UNCHANGED tidyVars

\* A file that does not match: put_file stays False and the loop of line 314
\* goes round without doing anything.
Spin ==
  /\ main = "fill"
  /\ next \in File \ matching
  /\ UNCHANGED tidyVars

Filled ==
  /\ main = "fill"
  /\ next > NumFiles
  /\ main' = "join"
  /\ UNCHANGED <<matching, next, tmpdir, exported, returnCode, queue, unfinished, worker, name, failed, yaml, verdict>>

Joined == unfinished = 0

Join ==
  /\ main = "join"
  /\ Joined
  /\ main' = "export"
  /\ returnCode' = IF failed # {} THEN 1 ELSE returnCode
  /\ UNCHANGED <<matching, next, tmpdir, exported, queue, unfinished, worker, name, failed, yaml, verdict>>

\* Ctrl-C: the directory is removed and the whole process group killed.
Interrupt ==
  /\ main \in {"fill", "join"}
  /\ main' = "killed"
  /\ tmpdir' = FALSE
  /\ UNCHANGED <<matching, next, exported, returnCode, queue, unfinished, worker, name, failed, yaml, verdict>>

\* A thread puts a file into the directory while rmtree empties it: rmtree
\* raises inside the handler, and os.kill is not reached.
InterruptRaces ==
  /\ main \in {"fill", "join"}
  /\ tmpdir
  /\ \E w \in Worker : worker[w] \in {"check", "tidy"}
  /\ main' = "crashed"
  /\ returnCode' = 1
  /\ UNCHANGED <<matching, next, tmpdir, exported, queue, unfinished, worker, name, failed, yaml, verdict>>

----------------------------------------------------------------------------
(***************************************************************************)
(* run_tidy.  The threads are daemons: they stop with the main thread.     *)
(***************************************************************************)

Take(w) ==
  /\ Running
  /\ worker[w] = "get"
  /\ queue # << >>
  /\ queue' = Tail(queue)
  /\ name' = [name EXCEPT ![w] = Head(queue)]
  /\ worker' = [worker EXCEPT ![w] = "check"]
  /\ UNCHANGED <<mainVars, unfinished, failed, yaml, verdict>>

\* get_tidy_invocation makes a replacement file when there is a directory.
WithReplacements(w) == IF tmpdir THEN yaml \cup {name[w]} ELSE yaml

\* CheckConfig.should_skip: the path has a directory third_party.
ShouldSkip(file) == file \in ThirdParty

\* queue.task_done() for a skipped file.
DoneAfterSkip == unfinished - 1

Skip(w) ==
  /\ Running
  /\ worker[w] = "check"
  /\ ShouldSkip(name[w])
  /\ unfinished' = DoneAfterSkip
  /\ worker' = [worker EXCEPT ![w] = "get"]
  /\ yaml' = WithReplacements(w)
  /\ verdict' = [verdict EXCEPT ![name[w]] = "skipped"]
  /\ UNCHANGED <<mainVars, queue, name, failed>>

Launch(w) ==
  /\ Running
  /\ worker[w] = "check"
  /\ ~ShouldSkip(name[w])
  /\ worker' = [worker EXCEPT ![w] = "tidy"]
  /\ yaml' = WithReplacements(w)
  /\ UNCHANGED <<mainVars, queue, unfinished, name, failed, verdict>>

\* Popen.returncode: 0, an error, or minus the signal that ended it.
ReturnCodes == {0, 1, -11}
IsFailure(code) == code # 0

Finish(w) ==
  /\ Running
  /\ worker[w] = "tidy"
  /\ \E code \in ReturnCodes :
       /\ failed' = IF IsFailure(code) THEN failed \cup {name[w]} ELSE failed
       /\ verdict' = [verdict EXCEPT ![name[w]] = IF code = 0 THEN "clean" ELSE "failed"]
  /\ worker' = [worker EXCEPT ![w] = "report"]
  /\ UNCHANGED <<mainVars, queue, unfinished, name, yaml>>

Report(w) ==
  /\ Running
  /\ worker[w] = "report"
  /\ unfinished' = unfinished - 1
  /\ worker' = [worker EXCEPT ![w] = "get"]
  /\ UNCHANGED <<mainVars, queue, name, failed, yaml, verdict>>

\* mkstemp, Popen or decode raises: the thread ends without task_done.
Die(w) ==
  /\ Running
  /\ Cardinality({v \in Worker : worker[v] = "dead"}) < MaxDeaths
  /\ worker[w] \in Busy
  /\ worker' = [worker EXCEPT ![w] = "dead"]
  /\ verdict' = IF worker[w] = "report" THEN verdict
                ELSE [verdict EXCEPT ![name[w]] = "lost"]
  /\ UNCHANGED <<mainVars, queue, unfinished, name, failed, yaml>>

----------------------------------------------------------------------------
(***************************************************************************)
(* The main thread after join.                                             *)
(***************************************************************************)

\* Without replacement files there is nothing to merge and the file is
\* emptied.  With one, merge_replacement_files uses the module yaml, whose
\* import is commented out at line 49, and the NameError is caught.
Export ==
  /\ main = "export"
  /\ main' = "fix"
  /\ exported' = (ExportFixes /\ yaml = {})
  /\ returnCode' = IF ExportFixes /\ yaml # {} THEN 1 ELSE returnCode
  /\ UNCHANGED <<matching, next, tmpdir, queue, unfinished, worker, name, failed, yaml, verdict>>

\* The status of clang-apply-replacements is ignored, an exception is not.
ApplyFixes ==
  /\ main = "fix"
  /\ main' = "clean"
  /\ \/ UNCHANGED returnCode
     \/ Fix /\ returnCode' = 1
  /\ UNCHANGED <<matching, next, tmpdir, exported, queue, unfinished, worker, name, failed, yaml, verdict>>

NeedsRemoval == tmpdir

Clean ==
  /\ main = "clean"
  /\ main' = "exited"
  /\ tmpdir' = (tmpdir /\ ~NeedsRemoval)
  /\ UNCHANGED <<matching, next, exported, returnCode, queue, unfinished, worker, name, failed, yaml, verdict>>

Ended == main \in Over /\ UNCHANGED tidyVars

MainStep == Setup \/ Put \/ Filled \/ Join \/ Export \/ ApplyFixes \/ Clean
Step(w) == Take(w) \/ Skip(w) \/ Launch(w) \/ Finish(w) \/ Report(w)

TidyNext ==
  \/ MainStep
  \/ SetupFails \/ PutTimesOut \/ Spin \/ Interrupt \/ InterruptRaces
  \/ \E w \in Worker : Step(w) \/ Die(w)
  \/ Ended

TidySpec == TidyInit /\ [][TidyNext]_tidyVars

\* Every thread is scheduled and every clang-tidy ends.
TidyFairSpec == TidySpec /\ WF_tidyVars(MainStep) /\ \A w \in Worker : WF_tidyVars(Step(w))

----------------------------------------------------------------------------
(***************************************************************************)
(* Properties.                                                             *)
(***************************************************************************)

\* join waits for exactly the files that are on the queue, with a thread, or
\* were dropped by a thread that died.
UnfinishedExact == unfinished = Len(queue)
                     + Cardinality({w \in Worker : worker[w] \in Busy \cup {"dead"}})

PastJoin == main \in {"export", "fix", "clean"} \/ (main = "exited" /\ next > NumFiles)

\* When the program reports, every file that matches was skipped as third
\* party or run to the end, by a thread that lives, and the status is 1 if a
\* clang-tidy failed or was killed: neither a file nor a failure is dropped.
NeverExitsShort ==
  PastJoin =>
    /\ \A f \in matching :
         verdict[f] \in (IF f \in ThirdParty THEN {"skipped"} ELSE {"clean", "failed"})
    /\ \A w \in Worker : worker[w] = "get"
    /\ main # "export" /\ (\E f \in File : verdict[f] = "failed") => returnCode = 1

\* The first entry that does not match stops the main thread for good.
Stuck == main = "fill" /\ next \in File \ matching
Queued == {f \in matching : 1 .. f \subseteq matching}

\* The program ends, unless a thread has died or a file does not match; and
\* then too every file on the queue is dealt with by whoever is left.
EndsOrDrains ==
  <>(\/ main \in Over
     \/ /\ Stuck \/ \E w \in Worker : worker[w] = "dead"
        /\ \A f \in Queued : verdict[f] # "none")
============================================================================
