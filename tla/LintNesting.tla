---------------------------- MODULE LintNesting ----------------------------
(***************************************************************************)
(* What src/nebula/build_support/cpplint.py knows of the blocks around a   *)
(* line: NestingState.Update, which keeps a stack of namespaces, classes   *)
(* and other blocks across the branches of conditional compilation, and    *)
(* _FunctionState, which counts the lines of a function's body.  The       *)
(* module has the step of a line and that of the end of a file; LintFile   *)
(* puts them together with the rest.                                       *)
(*                                                                         *)
(* A line is a record of what the patterns of Update find in it:           *)
(*   pp          "if", "else" (with elif), "endif", or "none"              *)
(*   namespaces  the namespaces it starts with: TRUE for one with its "{"  *)
(*   class       a class or struct follows (template arguments do not)     *)
(*   tokens      then these of "{" ";" ")" "}", and the same with the word *)
(*               extern or asm before the brace                            *)
(*   parens      "(" less ")" over the whole line                          *)
(*   asm         it starts with asm                                        *)
(*   indented, forward (it is "class X;"), macro (part of a #define)       *)
(*   function    "begins" (a name, "(" and a body), "test" (the same with  *)
(*               TEST), "bodyless", "closes" ("}" alone), "blank", "other" *)
(***************************************************************************)
EXTENDS Integers, Sequences, SequencesExt

CONSTANTS Verbose,     \* _cpplint_state.verbose_level
          NormalTrigger, TestTrigger  \* of _FunctionState

ASSUME NestingAssumption ==
  Verbose \in Nat /\ NormalTrigger \in Nat \ {0} /\ TestTrigger \in Nat \ {0}

VARIABLES
  stack,        \* NestingState.stack
  previousTop,  \* where on the stack previous_stack_top is, and what it is
  pp,           \* NestingState.pp_stack
  function,     \* _FunctionState: [inside, test, lines]
  report,       \* complaints about the line just processed, each with its confidence
  unfinished,   \* blocks reported at the end of the file
  \* History: how the text has been read so far, for the whole file and then
  \* for every open #if, each with the arm of it that the last line is in.
  readings

nestingVars == <<stack, previousTop, pp, function, report, unfinished, readings>>

Block(kind, open) == [kind |-> kind, open |-> open, parens |-> 0, asm |-> "no"]

Blocks == [kind : {"namespace", "class", "extern", "block"}, open : BOOLEAN,
           parens : Int, asm : {"no", "inside", "end", "block"}]

\* The blocks at the #if, those now, and whether an #else has come.
BranchReading == [before : Seq(Blocks), now : Seq(Blocks), later : BOOLEAN]

NestingTypeOK ==
  /\ stack \in Seq(Blocks)
  /\ readings \in Seq(BranchReading) /\ readings # << >>
  /\ previousTop \in [depth : Nat, kind : {"namespace", "class", "extern", "block", "none"}]
  /\ pp \in Seq([before : Seq(Blocks), beforeElse : Seq(Blocks), seenElse : BOOLEAN])
  /\ function \in [inside : BOOLEAN, test : BOOLEAN, lines : Nat]
  /\ report \subseteq {"indented", "bodyless", "long"} \X (0 .. 5)
  /\ unfinished \in Seq({"namespace", "class"})

NestingInit ==
  /\ stack = << >>
  /\ previousTop = [depth |-> 0, kind |-> "none"]
  /\ pp = << >>
  /\ function = [inside |-> FALSE, test |-> FALSE, lines |-> 0]
  /\ report = {}
  /\ unfinished = << >>
  /\ readings = <<[before |-> << >>, now |-> << >>, later |-> FALSE]>>

----------------------------------------------------------------------------
(***************************************************************************)
(* UpdatePreprocessor.                                                     *)
(***************************************************************************)
Else(entry) ==
  IF entry.seenElse THEN entry
  ELSE [entry EXCEPT !.seenElse = TRUE, !.beforeElse = stack]

\* pp_stack after a directive; one that has no #if is ignored.
ConditionsAfter(directive) ==
  CASE directive = "if" ->
         Append(pp, [before |-> stack, beforeElse |-> << >>, seenElse |-> FALSE])
    [] directive = "else" /\ pp # << >> -> Append(Front(pp), Else(Last(pp)))
    [] directive = "endif" /\ pp # << >> -> Front(pp)
    [] OTHER -> pp

\* A slip: an #else goes on with the blocks of the branch before it.
FaultyStackAfter(directive) ==
  CASE directive = "endif" /\ pp # << >> /\ Last(pp).seenElse -> Last(pp).beforeElse
    [] OTHER -> stack

StackAfter(directive) ==
  CASE directive = "else" /\ pp # << >> -> Last(pp).before
    [] directive = "endif" /\ pp # << >> /\ Last(pp).seenElse -> Last(pp).beforeElse
    [] OTHER -> stack

----------------------------------------------------------------------------
(***************************************************************************)
(* The rest of Update, from stack s to the stack after the line.           *)
(***************************************************************************)
OnTop(s, f(_)) == IF s = << >> THEN s ELSE Append(Front(s), f(Last(s)))

\* inline_asm after the parentheses of the line have been counted.
AsmAfter(block, line) ==
  LET parens == block.parens + line.parens IN
  CASE block.asm \in {"no", "end"} ->
         IF line.parens # 0 /\ parens = 1 /\ line.asm THEN "inside" ELSE "no"
    [] block.asm = "inside" -> IF parens = 0 THEN "end" ELSE "inside"
    [] block.asm = "block" -> "block"

Counted(s, line) ==
  OnTop(s, LAMBDA b : [b EXCEPT !.parens = @ + line.parens, !.asm = AsmAfter(b, line)])

\* A class in an unfinished argument list is an argument.
Declared(s, line) ==
  IF line.class /\ (s = << >> \/ Last(s).parens = 0)
  THEN Append(s, Block("class", FALSE)) ELSE s

SeenOpenBrace(s) == s = << >> \/ Last(s).open

\* One brace, semicolon or parenthesis.  A declaration without a body ends at
\* the first of the latter.
Consumed(s, token) ==
  CASE token \in {"{", "extern {", "asm {"} ->
         IF ~SeenOpenBrace(s) THEN OnTop(s, LAMBDA b : [b EXCEPT !.open = TRUE])
         ELSE IF token = "extern {" THEN Append(s, Block("extern", TRUE))
         ELSE Append(s, [Block("block", TRUE) EXCEPT
                           !.asm = IF token = "asm {" THEN "block" ELSE "no"])
    [] token \in {";", ")"} -> IF SeenOpenBrace(s) THEN s ELSE Front(s)
    [] token = "}" -> IF s = << >> THEN s ELSE Front(s)

\* The stack before the first token.
Entered(s, line) ==
  Declared(Counted(s, line) \o [i \in DOMAIN line.namespaces |->
                                  Block("namespace", line.namespaces[i])], line)

Updated(s, line) ==
  LET after[n \in 0 .. Len(line.tokens)] ==
        IF n = 0 THEN Entered(s, line) ELSE Consumed(after[n - 1], line.tokens[n])
  IN after[Len(line.tokens)]

InAsmBlock(s) == s # << >> /\ Last(s).asm # "no"

----------------------------------------------------------------------------
(***************************************************************************)
(* The checks of a line.                                                   *)
(***************************************************************************)
Scope(block) == block.kind \in {"namespace", "class"}

\* The block on top of s is new and directly inside the namespace that was on
\* top before the line: previous_stack_top is compared by identity, which the
\* copies of a directive do not share.
NewInNamespace(s, line) ==
  /\ Len(s) > 1
  /\ Scope(Last(s))
  /\ previousTop'.kind = "namespace"
  /\ previousTop'.depth = Len(s) - 1
  /\ line.pp \notin {"else", "endif"}

\* ShouldCheckNamespaceIndentation and CheckItemIndentationInNamespace.
IndentedInNamespace(s, line) ==
  /\ line.indented
  /\ ~line.macro
  /\ IF line.forward
     THEN s # << >> /\ Last(s).kind = "namespace"
     ELSE NewInNamespace(s, line) /\ s[Len(s) - 1].kind = "namespace"

Trigger(test) == (IF test THEN TestTrigger ELSE NormalTrigger) * 2 ^ Verbose

\* A slip: the level is that of the lines over the trigger.
FaultyLevel(lines, test) ==
  CHOOSE n \in 0 .. 5 : 2 ^ n <= lines \div Trigger(test)
                        /\ (n = 5 \/ lines \div Trigger(test) < 2 ^ (n + 1))

\* int(math.log(lines / base, 2)), at most 5.
Level(lines, test) ==
  LET ratio == lines \div (IF test THEN TestTrigger ELSE NormalTrigger) IN
  CHOOSE n \in 0 .. 5 : 2 ^ n <= ratio /\ (n = 5 \/ ratio < 2 ^ (n + 1))

\* CheckForFunctionLengths: what _FunctionState becomes, and its complaints.
FunctionAfter(line) ==
  CASE line.function \in {"begins", "test"} ->
         [inside |-> TRUE, test |-> line.function = "test", lines |-> 0]
    [] line.function = "closes" -> [function EXCEPT !.inside = FALSE]
    [] line.function = "other" /\ function.inside -> [function EXCEPT !.lines = @ + 1]
    [] OTHER -> function

FunctionReport(line) ==
  CASE line.function = "bodyless" -> {<<"bodyless", 5>>}
    [] /\ line.function = "closes"
       /\ function.inside
       /\ function.lines > Trigger(function.test) ->
         {<<"long", Level(function.lines, function.test)>>}
    [] OTHER -> {}

----------------------------------------------------------------------------
(***************************************************************************)
(* One line, and the end of the file.                                      *)
(***************************************************************************)

\* History: a new reading at an #if, the last one taken back to its #if at an
\* #else, and dropped at its #endif.
ReadingsAfter(directive) ==
  CASE directive = "if" ->
         Append(readings, [before |-> Last(readings).now, now |-> Last(readings).now, later |-> FALSE])
    [] directive = "else" /\ Len(readings) > 1 ->
         Append(Front(readings), [before |-> Last(readings).before,
                                  now |-> Last(readings).before, later |-> TRUE])
    [] directive = "endif" /\ Len(readings) > 1 -> Front(readings)
    [] OTHER -> readings

\* A line is read by all but those for which it is in a later arm of an #if
\* that came after theirs.
LineRead(r, line) ==
  [i \in DOMAIN r |->
     IF \E j \in DOMAIN r : j > i /\ r[j].later THEN r[i]
     ELSE [before |-> r[i].before, now |-> Updated(r[i].now, line), later |-> r[i].later]]

Update(line) ==
  /\ previousTop' = [depth |-> Len(stack), kind |-> IF stack = << >> THEN "none" ELSE Last(stack).kind]
  /\ pp' = ConditionsAfter(line.pp)
  /\ stack' = Updated(StackAfter(line.pp), line)
  /\ readings' = LineRead(ReadingsAfter(line.pp), line)
  /\ UNCHANGED unfinished

\* What ProcessLine does of this with one line.
NestingLine(line) ==
  /\ Update(line)
  /\ IF InAsmBlock(stack') THEN function' = function ELSE function' = FunctionAfter(line)
  /\ report' = (IF IndentedInNamespace(stack', line) THEN {<<"indented", 4>>} ELSE {})
               \cup (IF InAsmBlock(stack') THEN {} ELSE FunctionReport(line))

\* A slip: all kinds of blocks.
FaultyUnfinished(s) == [i \in DOMAIN s |-> s[i].kind]

Unfinished(s) ==
  LET told[n \in 0 .. Len(s)] ==
        IF n = 0 THEN << >>
        ELSE IF Scope(s[n]) THEN Append(told[n - 1], s[n].kind) ELSE told[n - 1]
  IN told[Len(s)]

\* CheckCompletedBlocks.
NestingEnd ==
  /\ unfinished' = Unfinished(stack)
  /\ UNCHANGED <<stack, previousTop, pp, function, report, readings>>
=============================================================================
