---------------------------- MODULE LintIncludes ----------------------------
(***************************************************************************)
(* What src/nebula/build_support/cpplint.py knows of the #include lines of *)
(* one file: the order they must come in, those that come twice, those     *)
(* that are missing.  The module has the steps of a line and of the end of *)
(* a file; LintFile puts them together with the rest.                      *)
(*                                                                         *)
(* A header is a record [dir, first, rest, ext, quoted]: its directory,    *)
(* the first component of its base name and the rest of it (up to "-",     *)
(* "_" or "."; common suffixes like _test and -inl dropped, which is what  *)
(* _DropCommonSuffixes is for), its extension, and whether it is in quotes.*)
(***************************************************************************)
EXTENDS Integers, Sequences, SequencesExt

CONSTANTS Header,       \* the headers that #include lines name
          Rank,         \* their place in the alphabet after canonicalization
          CppHeader,    \* those in _CPP_HEADERS
          ThirdParty,   \* those _THIRD_PARTY_HEADERS_PATTERN matches
          Target,       \* the file itself: [dir, first, rest, source, test]
          PublicDir,    \* target_dir_pub
          OwnHeader,    \* the header of the same name on disk, or NoHeader
          OwnIncludes,  \* the headers that one includes
          NoHeader

ASSUME IncludesAssumption ==
  /\ Rank \in [Header -> Nat \ {0}]
  /\ CppHeader \subseteq Header /\ ThirdParty \subseteq Header
  /\ OwnHeader \in Header \cup {NoHeader} /\ NoHeader \notin Header

VARIABLES
  includeList, \* _IncludeState.include_list, each entry with what seen has of it
  section,     \* _section, 0 .. 4
  lastHeader,  \* the rank of _last_header, 0 for the empty string
  afterInclude,\* the line before is an #include
  required,    \* headers that templates of the file need
  told,        \* complaints about the line just processed
  missing,     \* headers reported at the end of the file
  \* History of the text itself:
  branches,    \* the open conditionals, as <<number of the #if, arm>>
  opened,      \* the #ifs so far
  stray,       \* an #else came with no #if open
  seen,        \* the headers registered, each in which branches and after how many #ifs
  order        \* those since the last directive, each with what was told of it

includeVars == <<includeList, section, lastHeader, afterInclude, required, told, missing,
                 branches, opened, stray, seen, order>>

Types == {"c", "cpp", "likely", "possible", "other"}

IncludesTypeOK ==
  /\ includeList \in Seq(Seq([header : Header, branches : Seq(Nat \X Nat), at : Nat]))
  /\ section \in 0 .. 4 /\ lastHeader \in Nat
  /\ afterInclude \in BOOLEAN /\ stray \in BOOLEAN
  /\ required \subseteq Header /\ missing \subseteq Header
  /\ told \subseteq {"subdir", "twice", "source", "order", "alpha", "own"}
  /\ branches \in Seq(Nat \X Nat) /\ opened \in Nat
  /\ order \in Seq([type : Types, rank : Nat, after : BOOLEAN, told : SUBSET {"order", "alpha"}])

IncludesInit ==
  /\ includeList = << << >> >>
  /\ section = 0
  /\ lastHeader = 0
  /\ afterInclude = FALSE
  /\ required = {}
  /\ told = {}
  /\ missing = {}
  /\ branches = << >>
  /\ opened = 0
  /\ stray = FALSE
  /\ seen = {}
  /\ order = << >>

----------------------------------------------------------------------------
(***************************************************************************)
(* Helpers.                                                                *)
(***************************************************************************)
SamePath(h, g) == [h EXCEPT !.quoted = TRUE] = [g EXCEPT !.quoted = TRUE]

Source(h) == h.ext = "cc"

\* FindHeader.
Included(h) == \E i \in DOMAIN includeList : \E e \in ToSet(includeList[i]) : SamePath(e.header, h)

\* The headers one of whose names contains the other's.
Resembles(h) == ~Source(h) /\ h.first = Target.first /\ h.rest = Target.rest /\ h.dir \in {"", Target.dir}

Registered(h) == Resembles(h) \/ h \notin ThirdParty

System(h) == ~h.quoted /\ h.ext # "hpp"

\* _ClassifyInclude.
Type(h) ==
  IF System(h) THEN IF h \in CppHeader THEN "cpp" ELSE "c"
  ELSE IF /\ <<h.first, h.rest>> = <<Target.first, Target.rest>>
          /\ h.dir \in {Target.dir, PublicDir} THEN "likely"
  ELSE IF h.first = Target.first THEN "possible" ELSE "other"

\* The section of CheckNextIncludeOrder for a header that comes in section s;
\* a system header keeps its own number, lower than s when it comes too late.
Group(type, s) ==
  CASE type = "c" -> 2
    [] type = "cpp" -> 3
    [] type \in {"likely", "possible"} -> IF s <= 1 THEN 1 ELSE 4
    [] type = "other" -> 4

\* A slip: C++ headers may come before C headers.
FaultyOutOfOrder(type) == Group(type, section) < section /\ type # "c"

OutOfOrder(type) == Group(type, section) < section

\* FilesBelongToSameModule, for a header that is in the list.
SameModule(h) ==
  /\ Target.source
  /\ ~Source(h) /\ h.ext # "" /\ h.dir \in {"", Target.dir}
  /\ h.first = Target.first /\ h.rest = Target.rest

\* A slip: #else forgets what comes before its #if, too.
FaultyListAfter(directive) ==
  CASE directive = "if" -> Append(includeList, << >>)
    [] directive = "else" -> << << >> >>
    [] directive = "endif" -> includeList

\* What ResetSection does to include_list.
ListAfter(directive) ==
  CASE directive = "if" -> Append(includeList, << >>)
    [] directive = "else" -> [includeList EXCEPT ![Len(includeList)] = << >>]
    [] directive = "endif" -> includeList

BranchesAfter(directive) ==
  CASE directive = "if" -> Append(branches, <<opened + 1, 0>>)
    [] directive = "else" ->
         IF branches = << >> THEN branches
         ELSE Append(Front(branches), <<Last(branches)[1], Last(branches)[2] + 1>>)
    [] directive = "endif" -> IF branches = << >> THEN branches ELSE Front(branches)

----------------------------------------------------------------------------
(***************************************************************************)
(* One line.                                                               *)
(***************************************************************************)

\* #if, #else and #endif: ResetSection, called by CheckLanguage.
IncludeDirective(directive) ==
  /\ includeList' = ListAfter(directive)
  /\ section' = 0
  /\ lastHeader' = 0
  /\ afterInclude' = FALSE
  /\ told' = {}
  /\ branches' = BranchesAfter(directive)
  /\ opened' = IF directive = "if" THEN opened + 1 ELSE opened
  /\ stray' = (stray \/ (directive = "else" /\ branches = << >>))
  /\ order' = << >>
  /\ UNCHANGED <<required, missing, seen>>

\* CheckIncludeLine looks for a directory first.
DirectoryTold(h) ==
  IF h.quoted /\ h.dir = "" /\ h.ext = "h" /\ h \notin ThirdParty THEN {"subdir"} ELSE {}

\* It leaves early on a header that is there already ...
IncludeTwice(h) ==
  /\ Included(h)
  /\ told' = DirectoryTold(h) \cup {"twice"}
  /\ afterInclude' = TRUE
  /\ UNCHANGED <<includeList, section, lastHeader, required, missing, branches, opened,
                 stray, seen, order>>

\* ... and on a source file of another package, and passes over third parties.
IncludeUnregistered(h) ==
  /\ ~Included(h)
  /\ IF Source(h) THEN h.dir # Target.dir \/ ~Registered(h) ELSE ~Registered(h)
  /\ told' = DirectoryTold(h) \cup IF Source(h) /\ h.dir # Target.dir THEN {"source"} ELSE {}
  /\ afterInclude' = TRUE
  /\ UNCHANGED <<includeList, section, lastHeader, required, missing, branches, opened,
                 stray, seen, order>>

\* The last header of the section, after the section has been looked at.
LastInSection(type) ==
  IF OutOfOrder(type) \/ Group(type, section) # section THEN 0 ELSE lastHeader

\* What CheckNextIncludeOrder and then IsInAlphabeticalOrder find.
OrderReport(h) ==
  {t \in {"order", "alpha"} :
     \/ t = "order" /\ OutOfOrder(Type(h))
     \/ t = "alpha" /\ LastInSection(Type(h)) > Rank[h] /\ afterInclude}

IncludeRegistered(h) ==
  /\ ~Included(h)
  /\ ~(Source(h) /\ h.dir # Target.dir)
  /\ Registered(h)
  /\ includeList' = [includeList EXCEPT ![Len(includeList)] =
                       Append(@, [header |-> h, branches |-> branches, at |-> opened])]
  /\ section' = IF OutOfOrder(Type(h)) THEN section ELSE Group(Type(h), section)
  /\ lastHeader' = Rank[h]
  /\ told' = DirectoryTold(h) \cup OrderReport(h)
  /\ afterInclude' = TRUE
  /\ seen' = seen \cup {[header |-> h, branches |-> branches, at |-> opened]}
  /\ order' = Append(order, [type |-> Type(h), rank |-> Rank[h], after |-> afterInclude,
                             told |-> OrderReport(h)])
  /\ UNCHANGED <<required, missing, branches, opened, stray>>

IncludeLine(h) == IncludeTwice(h) \/ IncludeUnregistered(h) \/ IncludeRegistered(h)

\* Any other line.  (One of an asm block, too: CheckForIncludeWhatYouUse reads
\* all lines of the file.)
UsesLine(uses) ==
  /\ required' = required \cup uses
  /\ afterInclude' = FALSE
  /\ told' = {}
  /\ UNCHANGED <<includeList, section, lastHeader, missing, branches, opened, stray,
                 seen, order>>

----------------------------------------------------------------------------
(***************************************************************************)
(* The end of the file: CheckForIncludeWhatYouUse, which reads the file's  *)
(* own header too and says nothing when it cannot find that, and           *)
(* CheckHeaderFileIncluded.                                                *)
(***************************************************************************)
Listed == UNION {{e.header : e \in ToSet(includeList[i])} : i \in DOMAIN includeList}

OwnHeaderRead == OwnHeader # NoHeader /\ \E h \in Listed : SameModule(h)

IncludesEnd ==
  /\ missing' = IF Target.source /\ ~OwnHeaderRead THEN {}
                ELSE {h \in required :
                        /\ ~\E g \in Listed : SamePath(g, h)
                        /\ ~(OwnHeaderRead /\ \E g \in OwnIncludes : SamePath(g, h))}
  /\ told' = IF /\ Target.source /\ ~Target.test
                /\ OwnHeader # NoHeader
                /\ ~\E h \in Listed : Resembles(h)
             THEN {"own"} ELSE {}
  /\ UNCHANGED <<includeList, section, lastHeader, afterInclude, required, branches, opened,
                 stray, seen, order>>

----------------------------------------------------------------------------
(***************************************************************************)
(* Properties, as predicates on the state after a line for header h.       *)
(***************************************************************************)

\* No build contains both of two arms of one conditional.
Exclusive(b, c) == \E x \in ToSet(b), y \in ToSet(c) : x[1] = y[1] /\ x[2] # y[2]

\* Where the i-th of a list of includes belongs: the file's own header comes
\* first or, after any other, with the rest.
PlaceIn(s, i) ==
  CASE s[i].type = "c" -> 2
    [] s[i].type = "cpp" -> 3
    [] s[i].type = "other" -> 4
    [] s[i].type \in {"likely", "possible"} ->
         IF \A j \in 1 .. i - 1 : s[j].type \in {"likely", "possible"} THEN 1 ELSE 4
=============================================================================
