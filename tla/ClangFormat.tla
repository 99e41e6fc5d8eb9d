---------------------------- MODULE ClangFormat ----------------------------
(***************************************************************************)
(* src/nebula/build_support/run_clang_format.py, behind "make format" and  *)
(* "make check-format", run again and again on a tree that is edited in    *)
(* between.  A file is only its name; that it needs formatting is          *)
(* membership in dirty.                                                    *)
(***************************************************************************)
EXTENDS Naturals, Sequences, FiniteSets

CONSTANTS Dirs,      \* --source_dirs: for each, the .h and .cpp files below it
          Excluded   \* files that match a glob of the exclusions file

SourceFile == UNION {Dirs[d] : d \in DOMAIN Dirs}

ASSUME ClangFormatAssumption == /\ Dirs \in Seq(SUBSET SourceFile) /\ Dirs # << >>
                                /\ IsFiniteSet(SourceFile)

VARIABLES
  dirty,   \* files that clang-format would change
  mode,    \* "idle" between invocations, else "check" or "fix"
  dir,     \* the directory check() is at
  left,    \* files of it still to be compared
  error,   \* error, local to check()
  hadErr,  \* had_err
  status   \* of the last invocation: "none", "zero", "one"

formatVars == <<dirty, mode, dir, left, error, hadErr, status>>

\* formatted_filenames of a directory.
Formatted(d) == Dirs[d] \ Excluded

FormatTypeOK ==
  /\ dirty \subseteq SourceFile
  /\ mode \in {"idle", "check", "fix"}
  /\ dir \in 1 .. Len(Dirs)
  /\ left \subseteq Formatted(dir)
  /\ error \in BOOLEAN
  /\ hadErr \in BOOLEAN
  /\ status \in {"none", "zero", "one"}

FormatInit ==
  /\ dirty \in SUBSET SourceFile
  /\ mode = "idle"
  /\ dir = 1
  /\ left = {}
  /\ error = FALSE
  /\ hadErr = FALSE
  /\ status = "none"

----------------------------------------------------------------------------
(***************************************************************************)
(* Faults, used by no specification.                                       *)
(***************************************************************************)

\* Every file overwrites the finding of the one before.
FaultyFound(file) == file \in dirty

----------------------------------------------------------------------------
\* Somebody edits a file between two invocations.
Edit ==
  /\ mode = "idle"
  /\ \E file \in SourceFile \ dirty : dirty' = dirty \cup {file}
  /\ status' = "none"
  /\ UNCHANGED <<mode, dir, left, error, hadErr>>

\* check() enters a directory.
Enter(d) ==
  /\ dir' = d
  /\ left' = Formatted(d)
  /\ error' = FALSE

Start ==
  /\ mode = "idle"
  /\ mode' \in {"check", "fix"}
  /\ Enter(1)
  /\ hadErr' = FALSE
  /\ status' = "none"
  /\ UNCHANGED dirty

\* The value of error after a file was compared.
Found(file) == error \/ file \in dirty

Compare(file) ==
  /\ mode = "check"
  /\ file \in left
  /\ left' = left \ {file}
  /\ error' = Found(file)
  /\ UNCHANGED <<dirty, mode, dir, hadErr, status>>

\* clang-format fails, some files formatted before it does, or a file is not
\* UTF-8: the exception ends the program.
Abort ==
  /\ mode # "idle"
  /\ left # {}
  /\ \E done \in SUBSET left : /\ mode = "check" => done = {}
                              /\ dirty' = dirty \ done
  /\ mode' = "idle"
  /\ status' = "one"
  /\ UNCHANGED <<dir, left, error, hadErr>>

\* One call of clang-format for all files of the directory.
FormatInPlace ==
  /\ mode = "fix"
  /\ left # {}
  /\ dirty' = dirty \ left
  /\ left' = {}
  /\ UNCHANGED <<mode, dir, error, hadErr, status>>

\* check() returns: had_err takes its result and the next directory comes.
NextDirectory ==
  /\ mode # "idle"
  /\ left = {}
  /\ hadErr' = error
  /\ IF dir < Len(Dirs)
     THEN /\ Enter(dir + 1)
          /\ UNCHANGED <<mode, status>>
     ELSE /\ mode' = "idle"
          /\ status' = IF error THEN "one" ELSE "zero"
          /\ UNCHANGED <<dir, left, error>>
  /\ UNCHANGED dirty

FormatNext ==
  \/ Edit
  \/ Start
  \/ \E file \in SourceFile : Compare(file)
  \/ Abort
  \/ FormatInPlace
  \/ NextDirectory

FormatSpec == FormatInit /\ [][FormatNext]_formatVars

----------------------------------------------------------------------------
Ends == mode # "idle" /\ mode' = "idle"

\* What a run says, whatever was edited and run before it: zero after formatting
\* means that no file is left to format, in any directory.  A check says nothing
\* of the directories before the last: it ends with zero if and only if no file
\* of the last one has to be formatted and clang-format did not break down,
\* which leaves files that were not looked at.
StatusTells ==
  [][Ends =>
       /\ mode = "fix" /\ status' = "zero" => dirty' \subseteq Excluded
       /\ mode = "check" =>
            (status' = "zero" <=> left = {} /\ dirty \cap Formatted(Len(Dirs)) = {})]_formatVars

\* What CMakeLists.txt says of check-format, which it calls with two directories:
\* exits with a non-zero exit code if any files need to be reformatted.
CheckFails ==
  [][Ends /\ mode = "check" /\ ~(dirty \subseteq Excluded) => status' = "one"]_formatVars
============================================================================
