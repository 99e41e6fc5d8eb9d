------------------------------ MODULE LintFile ------------------------------
(***************************************************************************)
(* cpplint.py on one file (ProcessFileData): for every line ProcessLine    *)
(* updates the nesting of blocks and then, unless the line is inside       *)
(* inline assembly, looks at functions, includes and directives; some      *)
(* checks wait for the end of the file.                                    *)
(*                                                                         *)
(* The file is written as it is read: every step takes some line of the    *)
(* alphabet of the subject chosen at the start.  A line is a record as LintNesting and    *)
(* LintIncludes want it, with include (a header or NoHeader) and uses (the *)
(* headers its templates need).                                            *)
(***************************************************************************)
EXTENDS LintNesting, LintIncludes, FiniteSets

CONSTANTS Alphabet,   \* by subject, the lines that a file about it is made of
          MaxLines    \* bound on the length of a file

Line == [pp : {"if", "else", "endif", "none"},
         namespaces : Seq(BOOLEAN), class : BOOLEAN,
         tokens : Seq({"{", "extern {", "asm {", ";", ")", "}"}),
         parens : Int, asm : BOOLEAN,
         indented : BOOLEAN, forward : BOOLEAN, macro : BOOLEAN,
         function : {"begins", "test", "bodyless", "closes", "blank", "other"},
         include : Header \cup {NoHeader}, uses : SUBSET Header]

ASSUME FileAssumption ==
  /\ MaxLines \in Nat
  /\ \A s \in DOMAIN Alphabet : Alphabet[s] \subseteq Line

VARIABLES
  subject,   \* what this file is about
  length,    \* the lines read
  header,    \* the header that the last of them includes, or NoHeader
  ended      \* CheckHeaderFileIncluded has returned

fileVars == <<subject, length, header, ended>>
vars == <<fileVars, nestingVars, includeVars>>

TypeOK ==
  /\ NestingTypeOK
  /\ IncludesTypeOK
  /\ subject \in DOMAIN Alphabet
  /\ length \in 0 .. MaxLines
  /\ header \in Header \cup {NoHeader}
  /\ ended \in BOOLEAN

Init ==
  /\ NestingInit
  /\ IncludesInit
  /\ subject \in DOMAIN Alphabet
  /\ length = 0
  /\ header = NoHeader
  /\ ended = FALSE

----------------------------------------------------------------------------
\* CheckLanguage, as far as includes go, and what CheckForIncludeWhatYouUse
\* will find in the line.
IncludesOf(l) ==
  IF InAsmBlock(stack') THEN UsesLine(l.uses)
  ELSE IF l.include # NoHeader THEN IncludeLine(l.include)
  ELSE IF l.pp # "none" THEN IncludeDirective(l.pp)
  ELSE UsesLine(l.uses)

ProcessLine(l) ==
  /\ ~ended
  /\ length < MaxLines
  /\ NestingLine(l)
  /\ IncludesOf(l)
  /\ length' = length + 1
  /\ header' = l.include
  /\ UNCHANGED <<subject, ended>>

EndOfFile ==
  /\ ~ended
  /\ NestingEnd
  /\ IncludesEnd
  /\ header' = NoHeader
  /\ ended' = TRUE
  /\ UNCHANGED <<subject, length>>

Done == ended /\ UNCHANGED vars

Next == (\E l \in Alphabet[subject] : ProcessLine(l)) \/ EndOfFile \/ Done

Spec == Init /\ [][Next]_vars

----------------------------------------------------------------------------
(***************************************************************************)
(* Properties.                                                             *)
(***************************************************************************)

\* UpdatePreprocessor's assumptions, lines 2766-2774.  An #else or #elif branch
\* is checked with the blocks that were open at its #if, whatever the branch
\* before it has opened or closed; it goes on from there, and at the #endif it
\* leaves no trace, in parentheses, open braces and assembly neither: the blocks
\* are those of the text with the first branches alone.  So it is for every #if
\* inside another, and with directives that have no #if; and what is reported
\* at the end as unfinished are the blocks that this reading leaves open.
BranchesLeaveNoTrace ==
  /\ stack = Last(readings).now
  /\ ended => unfinished = Unfinished(Last(readings).now)

\* A function is reported as too long when it is, at a level that the verbosity
\* in force lets through: trigger and level are computed apart, from a base and
\* a power of two, and have to meet.
LongFunctionsTold ==
  [][function.inside /\ ~function'.inside =>
       (function.lines > Trigger(function.test)
          <=> \E n \in Verbose .. 5 : <<"long", n>> \in report')]_vars

\* What _IncludeState remembers across conditionals.  A header that a build has
\* for certain where the file is now, since it was included outside of all
\* conditionals or in arms that are still open, is never forgotten: neither here
\* nor when missing headers are reported.  (It can be by an #else with no #if:
\* line 909 empties the list of the last #if, open or not.)  And a header is
\* reported as included twice only when an earlier line has it: one that some
\* build contains together with this one or, if they are in two arms of one #if,
\* one that has another #if between it and here.  Two arms of an #if with none
\* in between may have it each.  Not claimed is the converse: after the #endif,
\* what the arms before its last #else have included may come again unreported.
IncludesRemembered ==
  /\ ~stray =>
       \A e \in seen : ToSet(e.branches) \subseteq ToSet(branches) =>
         /\ Included(e.header)
         /\ \A h \in missing : ~SamePath(h, e.header)
  /\ "twice" \in told =>
       \E e \in seen :
         /\ SamePath(e.header, header)
         /\ Exclusive(e.branches, branches) => e.at < opened

\* Every include since the last directive is reported as out of order if and
\* only if it is: one that belongs before it has come already, of the file's own
\* header, C headers, C++ headers and others.  It is reported as out of the
\* alphabet if and only if it is in order, is not the first of its section, and
\* the one before it, on the line before, comes after it in the alphabet; that
\* may be one that was itself reported as out of order.
OrderTold ==
  \A i \in DOMAIN order :
    LET before == 1 .. i - 1
        place(j) == PlaceIn(order, j)
    IN /\ "order" \in order[i].told <=> \E j \in before : place(j) > place(i)
       /\ "alpha" \in order[i].told <=>
            /\ \A j \in before : place(j) <= place(i)
            /\ \E j \in before : place(j) = place(i)
            /\ order[i].after /\ order[i - 1].rank > order[i].rank
=============================================================================
