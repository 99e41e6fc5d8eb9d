---------------------------- MODULE MCBuildTools ----------------------------
(***************************************************************************)
(* The two programs behind the targets check-format, format and            *)
(* check-clang-tidy, each in behaviours of its own: ClangTidy with three   *)
(* threads, ClangFormat on two directories, src and test.                  *)
(***************************************************************************)
EXTENDS ClangTidy, ClangFormat

CONSTANTS w1, w2, w3, a, b, c, x

VARIABLE tool  \* the program that runs

\* All entries match; or one in the middle does not.
MCMatchings == {1 .. NumFiles, {1, 2, 4}}

TwoDirs == <<{a, x}, {b, c}>>

MCInit ==
  /\ tool \in {"tidy", "format"}
  /\ TidyInit /\ FormatInit
  /\ tool = "tidy" => dirty = {}
  /\ tool = "format" => matching = 1 .. NumFiles

MCTidy == tool = "tidy" /\ TidyNext /\ UNCHANGED <<tool, formatVars>>
MCFormat == tool = "format" /\ FormatNext /\ UNCHANGED <<tool, tidyVars>>

\* Fairness of the threads is about programs that run.
MCSpec ==
  /\ MCInit
  /\ [][MCTidy \/ MCFormat]_<<tool, tidyVars, formatVars>>
  /\ WF_tidyVars(tool = "tidy" /\ MainStep)
  /\ \A w \in Worker : WF_tidyVars(tool = "tidy" /\ Step(w))

TypeOK == TidyTypeOK /\ FormatTypeOK

\* EndsOrDrains, where clang-tidy is what runs.
TidyEndsOrDrains == tool = "tidy" => EndsOrDrains
=============================================================================
