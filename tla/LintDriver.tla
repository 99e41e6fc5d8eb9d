----------------------------- MODULE LintDriver -----------------------------
(***************************************************************************)
(* src/nebula/build_support/cpplint.py as a program: arguments, then one   *)
(* file after another: the CPPLINT.cfg files of the directories above it,  *)
(* its text, and what becomes of every complaint of a check: hidden by a   *)
(* NOLINT comment, by its confidence or by a filter, or shown and counted. *)
(* All state is global to the module and has to be put back between files. *)
(*                                                                         *)
(* What the checks find is part of a line: width, raises (category,        *)
(* confidence and whether the complaint is about this line or the next,    *)
(* where an expression ends), ahead (whether the check reads the NOLINT    *)
(* comments of that next line first, as CheckTrailingSemicolon does), the  *)
(* comment: nolint "no", "this" or "next" with its category, and marker:   *)
(* it says that the file is one of C or of the kernel.                     *)
(***************************************************************************)
EXTENDS Integers, Sequences, SequencesExt, FiniteSets

CONSTANTS FileLists,  \* possible lists of files, names as on the command line
          DirsOf,      \* for each file, its directories from its own up to the root
          Unreadable,  \* files that cannot be opened
          Ignored,     \* files without a known extension
          Settings,    \* possible [directory -> options of its CPPLINT.cfg]
          Category,    \* error categories
          InC,         \* categories not reported for a C or kernel file
          Matches,     \* the categories that start with the text of a filter
          FlagFilters, \* --filter, after the default filters
          FlagLength,  \* --linelength or its default
          Verbosity,       \* --verbose
          Text,        \* the texts a file may have: sequences of lines
          Headers,     \* files with the extension of a header
          Early,       \* complaints before the first line: <<category, confidence, line>>
          Late         \* complaints after the last line

All == "all"
Running == -1
Everywhere == -1

\* Categories in NOLINT comments: one that cpplint does not have, and one that
\* is known from other tools and ignored.
Unknown == "unknown"
Legacy == "legacy"

Confidence == 0 .. 5

SourceLine == [width : Nat, raises : SUBSET (Category \X Confidence \X {0, 1}), ahead : BOOLEAN,
               nolint : {"no", "this", "next"}, category : Category \cup {All, Unknown, Legacy},
               marker : BOOLEAN]

\* Options of a CPPLINT.cfg; an exclude names the components its pattern matches.
Directory == UNION {Range(DirsOf[f]) : f \in DOMAIN DirsOf}
FilterText == [sign : {"+", "-", ""}, text : DOMAIN Matches]
FilterOption == [name : {"filter"}, filters : Seq(FilterText)]
Option == FilterOption \cup [name : {"linelength"}, length : Int] \cup [name : {"noparent"}]
          \cup [name : {"exclude"}, excluded : SUBSET (Directory \cup DOMAIN DirsOf)]

\* What markers silence (casts, tabs) is never found of a file as a whole, line 0.
ASSUME DriverAssumption ==
  /\ IsFiniteSet(Category) /\ {All, Unknown, Legacy} \cap Category = {}
  /\ {"legal", "readability/nolint", "whitespace/line_length"} \subseteq Category
  /\ InC \subseteq Category
  /\ Matches \in [DOMAIN Matches -> SUBSET Category]
  /\ FlagFilters \in Seq(FilterText)
  /\ FlagLength \in Int /\ Verbosity \in Int
  /\ DirsOf \in [DOMAIN DirsOf -> Seq(Directory)]
  /\ FileLists \subseteq Seq(DOMAIN DirsOf)
  /\ Settings \subseteq [Directory -> Seq(Option)]
  /\ Text \subseteq Seq(SourceLine)
  /\ Early \cup Late \subseteq Category \X Confidence \X Nat
  /\ \A e \in Early \cup Late : e[3] = 0 => e[1] \notin InC

VARIABLES
  step,      \* where main and the functions it calls are
  files,     \* the file names still to come, the current one first
  settings,  \* the configuration files there are
  depth,     \* how many directories ProcessConfigOverrides has gone up
  cfgFilters,\* cfg_filters
  filters,   \* _cpplint_state.filters
  backup,    \* _cpplint_state._filters_backup
  lineLength,\* _line_length
  source,    \* the text of the current file
  parsed,    \* the lines whose NOLINT comments have been read
  suppressed,\* _error_suppressions, pairs of category (or All) and line, and
             \* _global_error_suppressions, pairs of category and Everywhere
  errorCount,\* _cpplint_state.error_count
  status,    \* what the program exits with, or Running
  verdicts,  \* history: [category, confidence, line, early, shown] of this file
  shownEver  \* history: a complaint has been shown

driverVars == <<step, files, settings, depth, cfgFilters, filters, backup, lineLength,
                source, parsed, suppressed, errorCount, status, verdicts, shownEver>>

DriverInit ==
  /\ step = "arguments"
  /\ files = << >>
  /\ settings \in Settings
  /\ depth = 0
  /\ cfgFilters = << >>
  /\ filters = << >>
  /\ backup = << >>
  /\ lineLength = FlagLength
  /\ source = << >>
  /\ parsed = 0
  /\ suppressed = {}
  /\ errorCount = 0
  /\ status = Running
  /\ verdicts = {}
  /\ shownEver = FALSE

sourceVars == <<source, parsed, suppressed, verdicts>>
countVars == <<errorCount, shownEver>>

----------------------------------------------------------------------------
(***************************************************************************)
(* Arguments.                                                              *)
(***************************************************************************)

\* --help and --version end with 0, anything wrong with a message and 1.
UsageEnds ==
  /\ step = "arguments"
  /\ step' = "over"
  /\ status' \in {0, 1}
  /\ UNCHANGED <<files, settings, depth, cfgFilters, filters, backup, lineLength, sourceVars, countVars>>

\* SetFilters raises ValueError on a filter without a sign.
WellFormed(fs) == \A i \in DOMAIN fs : fs[i].sign \in {"+", "-"}

\* _ExpandDirectories makes a set of the files, in whatever order, and drops
\* those without a known extension; --exclude drops others.  Without
\* --recursive files are taken as they come.
ParseArguments ==
  /\ step = "arguments"
  /\ \E list \in FileLists : files' = list
  /\ filters' = FlagFilters
  /\ step' = IF WellFormed(FlagFilters) THEN "next" ELSE "over"
  /\ status' = IF WellFormed(FlagFilters) THEN Running ELSE 1
  /\ UNCHANGED <<settings, depth, cfgFilters, backup, lineLength, sourceVars, countVars>>

----------------------------------------------------------------------------
(***************************************************************************)
(* ProcessConfigOverrides.                                                 *)
(***************************************************************************)
File == Head(files)
Dirs == DirsOf[File]

\* The part of the path that exclude_files is matched against: the file's own
\* name in its directory, and that directory's name in the one above it.
Component == IF depth = 0 THEN File ELSE Dirs[depth]

Options == settings[Dirs[depth + 1]]

\* The option at which reading this file ends: all are read when there is none.
Stop(options) ==
  IF \E i \in DOMAIN options : options[i].name = "exclude" /\ Component \in options[i].excluded
  THEN CHOOSE i \in DOMAIN options :
         /\ options[i].name = "exclude" /\ Component \in options[i].excluded
         /\ \A j \in 1 .. i - 1 : ~(options[j].name = "exclude" /\ Component \in options[j].excluded)
  ELSE Len(options) + 1

Named(options, name) ==
  LET named[n \in 0 .. Stop(options) - 1] ==
        IF n = 0 THEN << >>
        ELSE IF options[n].name = name THEN Append(named[n - 1], options[n]) ELSE named[n - 1]
  IN named[Stop(options) - 1]

Excludes(options) == Stop(options) <= Len(options)

\* RestoreFilters, on the way out of a file.
Restored == backup

NextFile ==
  /\ step' = "next"
  /\ files' = Tail(files)
  /\ filters' = Restored

StartFile ==
  /\ step = "next"
  /\ files # << >>
  /\ step' = "config"
  /\ backup' = filters
  /\ depth' = 0
  /\ cfgFilters' = << >>
  /\ verdicts' = {}
  /\ UNCHANGED <<files, settings, filters, lineLength, source, parsed, suppressed, countVars, status>>

\* One CPPLINT.cfg; its last linelength is what stays.
ReadConfig ==
  /\ step = "config"
  /\ depth < Len(Dirs)
  /\ LET lengths == Named(Options, "linelength") IN
       lineLength' = IF lengths = << >> THEN lineLength ELSE Last(lengths).length
  /\ IF Excludes(Options)
     THEN NextFile /\ UNCHANGED <<depth, cfgFilters>>
     ELSE /\ cfgFilters' = cfgFilters \o Named(Options, "filter")
          /\ depth' = IF Named(Options, "noparent") # << >> THEN Len(Dirs) ELSE depth + 1
          /\ UNCHANGED <<step, files, filters>>
  /\ UNCHANGED <<settings, backup, sourceVars, countVars, status>>

\* IOError: nothing further up is read.
ConfigUnreadable ==
  /\ step = "config"
  /\ depth < Len(Dirs)
  /\ Options # << >>
  /\ depth' = Len(Dirs)
  /\ UNCHANGED <<step, files, settings, cfgFilters, filters, backup, lineLength, sourceVars, countVars, status>>

\* The filters of the configuration files in the order of their weight.
FromConfig(cfg) == FlattenSeq([i \in DOMAIN cfg |-> Reverse(cfg)[i].filters])

ApplyConfig ==
  /\ step = "config"
  /\ depth = Len(Dirs)
  /\ filters' = filters \o FromConfig(cfgFilters)
  /\ IF WellFormed(filters') THEN step' = "open" /\ UNCHANGED status
                             ELSE step' = "over" /\ status' = 1
  /\ UNCHANGED <<files, settings, depth, cfgFilters, backup, lineLength, sourceVars, countVars>>

----------------------------------------------------------------------------
(***************************************************************************)
(* Complaints.                                                             *)
(***************************************************************************)

\* IsErrorSuppressedByNolint.
Suppressed(category, n, marks) ==
  {<<category, n>>, <<All, n>>, <<category, Everywhere>>} \cap marks # {}

\* The last filter that matches decides.
PassesFilters(category, fs) ==
  LET passes[n \in 0 .. Len(fs)] ==
        IF n = 0 THEN TRUE
        ELSE IF category \in Matches[fs[n].text] THEN fs[n].sign = "+" ELSE passes[n - 1]
  IN passes[Len(fs)]

\* _ShouldPrintError.
ShouldPrint(e, marks) ==
  /\ ~Suppressed(e[1], e[3], marks)
  /\ e[2] >= Verbosity
  /\ PassesFilters(e[1], filters)

\* Error, for a set of complaints <<category, confidence, line>>; early ones
\* come before the comments of their line have been read.
Complain(errors, marks, upTo) ==
  LET shown == {e \in errors : ShouldPrint(e, marks)} IN
  /\ errorCount' = errorCount + Cardinality(shown)
  /\ shownEver' = (shownEver \/ shown # {})
  /\ verdicts' = verdicts \cup
       {[category |-> e[1], confidence |-> e[2], line |-> e[3],
         early |-> e[3] > upTo, shown |-> e \in shown] : e \in errors}

\* ParseNolintSuppressions: the entries that the comment of line n makes.
Marks(l, n) ==
  IF l.nolint = "no" \/ l.category \in {Unknown, Legacy} THEN {}
  ELSE {<<l.category, IF l.nolint = "next" THEN n + 1 ELSE n>>}

----------------------------------------------------------------------------
(***************************************************************************)
(* One file.                                                               *)
(***************************************************************************)

\* IOError, or an extension that is not linted.
SkipFile ==
  /\ step = "open"
  /\ File \in Unreadable \cup Ignored
  /\ NextFile
  /\ UNCHANGED <<settings, depth, cfgFilters, backup, lineLength, sourceVars, countVars, status>>

\* A slip: the comments of the last file are kept.
FaultyForgotten == suppressed

\* ResetNolintSuppressions.
Forgotten == {}

\* ProcessGlobalSuppresions, for all lines of a text.
Global(lines) ==
  IF \E i \in DOMAIN lines : lines[i].marker THEN {<<category, Everywhere>> : category \in InC}
  ELSE {}

\* The entries that the comments of some lines make.
MarksIn(lines, is) == UNION {Marks(lines[i], i) : i \in is}

\* An unknown category in the comment of line n is itself complained about.
UnknownIn(l, n) ==
  IF l.nolint # "no" /\ l.category = Unknown THEN {<<"readability/nolint", 5, n>>} ELSE {}

\* What is complained about before the first line: no copyright, a comment that
\* does not end, a header without a guard.  CheckForHeaderGuard reads the
\* comments, if any, of the guard's #ifndef, if it is not the one it asks for,
\* and of the last #endif; some complaints come before it has read them.
OpenFile ==
  /\ step = "open"
  /\ File \notin Unreadable \cup Ignored
  /\ source' \in Text
  /\ parsed' = 0
  /\ \E guard \in SUBSET {i \in DOMAIN source' : source'[i].nolint # "no"} :
       /\ guard # {} => File \in Headers /\ Cardinality(guard) <= 2
       /\ suppressed' = Forgotten \cup Global(source') \cup MarksIn(source', guard)
       /\ \E read \in {MarksIn(source', is) : is \in SUBSET guard},
             errors \in SUBSET {e \in Early : e[3] <= Len(source')} :
            Complain(errors \cup UNION {UnknownIn(source'[i], i) : i \in guard},
                     Forgotten \cup Global(source') \cup read, 0)
  /\ step' = "lines"
  /\ UNCHANGED <<files, settings, depth, cfgFilters, filters, backup, lineLength, status>>

\* ProcessLine: the comment of the line and, for a check that looks ahead, of
\* the next; then the checks.
ProcessSourceLine ==
  /\ step = "lines"
  /\ parsed < Len(source)
  /\ LET n == parsed + 1
         l == source[n]
         read == suppressed \cup Marks(l, n)
                   \cup (IF l.ahead /\ n < Len(source) THEN Marks(source[n + 1], n + 1) ELSE {})
         long == IF l.width > lineLength THEN {<<"whitespace/line_length", 2, n>>} ELSE {}
         raised == {<<r[1], r[2], n + r[3]>> : r \in l.raises}
     IN /\ suppressed' = read
        /\ Complain(UnknownIn(l, n) \cup long \cup {e \in raised : e[3] <= Len(source)}, read,
                    IF l.ahead THEN n + 1 ELSE n)
        /\ parsed' = n
  /\ UNCHANGED <<step, files, settings, depth, cfgFilters, filters, backup, lineLength, source, status>>

\* Checks after the last line, the mixed ends of lines among them.
EndOfSource ==
  /\ step = "lines"
  /\ parsed = Len(source)
  /\ \E errors \in SUBSET {e \in Late : e[3] <= Len(source)} : Complain(errors, suppressed, parsed)
  /\ NextFile
  /\ UNCHANGED <<settings, depth, cfgFilters, backup, lineLength, source, parsed, suppressed, status>>

\* sys.exit(error_count > 0)
ExitCode(count) == IF count > 0 THEN 1 ELSE 0

Finish ==
  /\ step = "next"
  /\ files = << >>
  /\ step' = "over"
  /\ status' = ExitCode(errorCount)
  /\ UNCHANGED <<files, settings, depth, cfgFilters, filters, backup, lineLength, sourceVars, countVars>>

DriverDone == step = "over" /\ UNCHANGED driverVars

DriverNext ==
  \/ UsageEnds \/ ParseArguments
  \/ StartFile \/ ReadConfig \/ ConfigUnreadable \/ ApplyConfig
  \/ SkipFile \/ OpenFile \/ ProcessSourceLine \/ EndOfSource
  \/ Finish \/ DriverDone

DriverSpec == DriverInit /\ [][DriverNext]_driverVars

----------------------------------------------------------------------------
(***************************************************************************)
(* Properties.                                                             *)
(***************************************************************************)

\* The NOLINT comments in the text that are meant for line n, in its category,
\* or a marker that is meant for all lines.
Excused(category, n) ==
  \/ n > 0 /\ category \in InC /\ \E i \in DOMAIN source : source[i].marker
  \/ \E i \in {n - 1, n} \cap DOMAIN source :
       /\ source[i].nolint = (IF i = n THEN "this" ELSE "next")
       /\ source[i].category \in {category, All}

\* What the filters say of a category, read by their weight: the first list that
\* has one for it decides, and in a list the last one.
Accepted(category) ==
  LET lists == [i \in DOMAIN cfgFilters |-> cfgFilters[i].filters] \o <<FlagFilters>>
      For(i) == {j \in DOMAIN lists[i] : category \in Matches[lists[i][j].text]}
  IN \A i \in DOMAIN lists : \A j \in For(i) :
       (\A k \in 1 .. i - 1 : For(k) = {}) /\ (\A k \in For(i) : k <= j)
         => lists[i][j].sign = "+"

\* Whatever was linted before it, with whatever comments, filters and ways out:
\* a complaint about a line of the current file is shown if and only if the
\* verbosity, the flags and the configuration of its own directories let it
\* through and no NOLINT comment of this file is meant for it.  (Not so for the
\* few complaints about a line whose comment has not been read yet.)  And unless
\* the arguments or a filter are at fault, the program exits with 1 if and only
\* if it has shown one.
ReportsExact ==
  /\ \A v \in verdicts :
       ~v.early =>
         (v.shown <=> /\ v.confidence >= Verbosity
                      /\ ~Excused(v.category, v.line)
                      /\ Accepted(v.category))
  /\ step = "over" /\ filters # << >> /\ WellFormed(filters) => (status = 1 <=> shownEver)
=============================================================================
