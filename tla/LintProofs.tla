----------------------------- MODULE LintProofs -----------------------------
(***************************************************************************)
(* Proofs about cpplint.py.  LintFile: the type invariant, the complaint   *)
(* about long functions, the order of includes, the branches of            *)
(* conditional compilation and the includes that are remembered.           *)
(* LintExpressions: the three functions that look for the other end of a   *)
(* bracket agree.                                                          *)
(*                                                                         *)
(* What a line does to the stack of blocks is a recursive function over    *)
(* its tokens; UpdatedTypes and UnfinishedTypes find its type by induction *)
(* with InductionLemmas, and nothing else of it is needed: the theorem on  *)
(* branches holds for every such function of a stack and a line.           *)
(*                                                                         *)
(* Two stacks of brackets, of which one has angle brackets between, are    *)
(* related by the places of the elements of the other (Shadow); what       *)
(* _GetTextInside has had on its stack (History) is what the backward scan *)
(* has on its own.                                                         *)
(***************************************************************************)
EXTENDS LintFile, LintExpressions, InductionLemmas, TLAPS

LEMMA LastFront ==
  ASSUME NEW S, NEW s \in Seq(S), s # << >>
  PROVE  /\ Last(s) \in S /\ Last(s) = s[Len(s)]
         /\ Front(s) \in Seq(S) /\ Len(Front(s)) = Len(s) - 1 /\ Len(s) \in Nat \ {0}
         /\ \A i \in 1 .. Len(s) - 1 : Front(s)[i] = s[i]
<1>0. Len(s) \in Nat /\ Len(s) >= 1
  OBVIOUS
<1>1. s[Len(s)] \in S
  OBVIOUS
<1>2. Front(s) = SubSeq(s, 1, Len(s) - 1)
  BY DEF Front
<1> DEFINE n == Len(s) - 1
<1>3. n \in 0 .. Len(s)
  BY <1>0
<1> HIDE DEF n
<1>4. /\ SubSeq(s, 1, n) \in Seq(S) /\ Len(SubSeq(s, 1, n)) = n
      /\ \A i \in 1 .. n : SubSeq(s, 1, n)[i] = s[i]
  BY <1>0, <1>3
<1> USE DEF n
<1> QED
  BY <1>0, <1>1, <1>2, <1>3, <1>4 DEF Last

LEMMA Appended ==
  ASSUME NEW S, NEW s \in Seq(S), NEW x \in S
  PROVE  /\ Append(s, x) \in Seq(S) /\ Append(s, x) # << >>
         /\ Len(Append(s, x)) = Len(s) + 1 /\ Len(s) \in Nat
         /\ Append(s, x)[Len(s) + 1] = x
         /\ \A i \in 1 .. Len(s) : Append(s, x)[i] = s[i]
OBVIOUS

----------------------------------------------------------------------------
(***************************************************************************)
(* The blocks around a line.                                               *)
(***************************************************************************)
LEMMA BlockTypes ==
  /\ \A kind \in {"namespace", "class", "extern", "block"}, open \in BOOLEAN : Block(kind, open) \in Blocks
  /\ \A asm \in {"no", "inside", "end", "block"}, open \in BOOLEAN :
       [Block("block", open) EXCEPT !.asm = asm] \in Blocks
  /\ \A b \in Blocks : [b EXCEPT !.open = TRUE] \in Blocks
<1>1. ASSUME NEW kind \in {"namespace", "class", "extern", "block"}, NEW open \in BOOLEAN
      PROVE  Block(kind, open) \in Blocks
  BY DEF Block, Blocks
<1>2. ASSUME NEW asm \in {"no", "inside", "end", "block"}, NEW b \in Blocks
      PROVE  [b EXCEPT !.asm = asm] \in Blocks
  BY DEF Blocks
<1>3. ASSUME NEW b \in Blocks PROVE [b EXCEPT !.open = TRUE] \in Blocks
  BY DEF Blocks
<1> QED
  BY <1>1, <1>2, <1>3

LEMMA CountedTypes ==
  ASSUME NEW s \in Seq(Blocks), NEW line \in Line
  PROVE  Counted(s, line) \in Seq(Blocks)
<1>1. CASE s = << >>
  BY <1>1 DEF Counted, OnTop
<1>2. CASE s # << >>
  <2> DEFINE b == Last(s)
             c == [b EXCEPT !.parens = @ + line.parens, !.asm = AsmAfter(b, line)]
  <2>1. b \in Blocks /\ Front(s) \in Seq(Blocks)
    BY <1>2, LastFront
  <2> HIDE DEF b
  <2>2. AsmAfter(b, line) \in {"no", "inside", "end", "block"}
    BY <2>1 DEF AsmAfter, Blocks
  <2>3. b.parens + line.parens \in Int
    <3>1. b.parens \in Int
      BY <2>1 DEF Blocks
    <3>2. line.parens \in Int
      BY DEF Line
    <3> QED
      BY <3>1, <3>2
  <2>4. [b EXCEPT !.parens = b.parens + line.parens] \in Blocks
    BY <2>1, <2>3 DEF Blocks
  <2>5. c \in Blocks
    BY <2>1, <2>2, <2>3 DEF Blocks
  <2>6. Counted(s, line) = Append(Front(s), c)
    BY <1>2 DEF Counted, OnTop, b
  <2> HIDE DEF c
  <2> QED
    BY <2>1, <2>5, <2>6, Appended
<1> QED
  BY <1>1, <1>2

LEMMA EnteredTypes ==
  ASSUME NEW s \in Seq(Blocks), NEW line \in Line
  PROVE  Entered(s, line) \in Seq(Blocks)
<1> DEFINE names == [i \in DOMAIN line.namespaces |-> Block("namespace", line.namespaces[i])]
           all == Counted(s, line) \o names
<1>1. line.namespaces \in Seq(BOOLEAN)
  BY DEF Line
<1>2. /\ Len(line.namespaces) \in Nat
      /\ \A i \in 1 .. Len(line.namespaces) : line.namespaces[i] \in BOOLEAN
      /\ DOMAIN line.namespaces = 1 .. Len(line.namespaces)
  BY <1>1
<1>3. \A i \in 1 .. Len(line.namespaces) : Block("namespace", line.namespaces[i]) \in Blocks
  BY <1>2, BlockTypes
<1>4. names \in [1 .. Len(line.namespaces) -> Blocks]
  BY <1>2, <1>3
<1>5. names \in Seq(Blocks)
  <2> HIDE DEF names
  <2> QED
    BY <1>2, <1>4
<1>6. all \in Seq(Blocks)
  <2> HIDE DEF names
  <2> QED
    BY <1>5, CountedTypes
<1>7. Entered(s, line) = Declared(all, line)
  BY DEF Entered
<1>8. Block("class", FALSE) \in Blocks
  BY BlockTypes
<1> HIDE DEF all
<1>9. Append(all, Block("class", FALSE)) \in Seq(Blocks)
  BY <1>6, <1>8, Appended
<1> QED
  BY <1>6, <1>7, <1>9 DEF Declared

LEMMA ConsumedTypes ==
  ASSUME NEW s \in Seq(Blocks), NEW token \in {"{", "extern {", "asm {", ";", ")", "}"}
  PROVE  Consumed(s, token) \in Seq(Blocks)
<1>1. CASE token \in {"{", "extern {", "asm {"}
  <2>1. CASE ~SeenOpenBrace(s)
    <3>1. s # << >>
      BY <2>1 DEF SeenOpenBrace
    <3>2. Consumed(s, token) = Append(Front(s), [Last(s) EXCEPT !.open = TRUE])
      BY <1>1, <2>1, <3>1 DEF Consumed, OnTop
    <3>3. Front(s) \in Seq(Blocks) /\ [Last(s) EXCEPT !.open = TRUE] \in Blocks
      BY <3>1, LastFront, BlockTypes
    <3>4. Append(Front(s), [Last(s) EXCEPT !.open = TRUE]) \in Seq(Blocks)
      BY <3>3, Appended
    <3> QED
      BY <3>2, <3>4
  <2>2. CASE SeenOpenBrace(s)
    <3>1. CASE token = "extern {"
      <4>1. Consumed(s, token) = Append(s, Block("extern", TRUE))
        BY <2>2, <3>1 DEF Consumed
      <4>2. Block("extern", TRUE) \in Blocks
        BY BlockTypes
      <4>3. Append(s, Block("extern", TRUE)) \in Seq(Blocks)
        BY <4>2, Appended
      <4> QED
        BY <4>1, <4>3
    <3>2. CASE token # "extern {"
      <4> DEFINE asm == IF token = "asm {" THEN "block" ELSE "no"
      <4>1. Consumed(s, token) = Append(s, [Block("block", TRUE) EXCEPT !.asm = asm])
        BY <1>1, <2>2, <3>2 DEF Consumed
      <4>2. asm \in {"no", "inside", "end", "block"}
        OBVIOUS
      <4> HIDE DEF asm
      <4>3. Block("block", TRUE) \in Blocks
        BY BlockTypes
      <4>4. [Block("block", TRUE) EXCEPT !.asm = asm] \in Blocks
        BY <4>2, <4>3, BlockTypes
      <4>5. Append(s, [Block("block", TRUE) EXCEPT !.asm = asm]) \in Seq(Blocks)
        BY <4>4, Appended
      <4> QED
        BY <4>1, <4>5
    <3> QED
      BY <3>1, <3>2
  <2> QED
    BY <2>1, <2>2
<1>2. CASE token \in {";", ")"}
  BY <1>2, LastFront DEF Consumed, SeenOpenBrace
<1>3. CASE token = "}"
  BY <1>3, LastFront DEF Consumed
<1> QED
  BY <1>1, <1>2, <1>3

LEMMA UpdatedTypes ==
  ASSUME NEW s \in Seq(Blocks), NEW line \in Line
  PROVE  Updated(s, line) \in Seq(Blocks)
<1> DEFINE Token == {"{", "extern {", "asm {", ";", ")", "}"}
           tokens == line.tokens
           N == Len(tokens)
           A == Seq(Blocks)
           start == Entered(s, line)
           Def(g) == [n \in 0 .. N |-> IF n = 0 THEN start ELSE Consumed(g[n - 1], tokens[n])]
           after == CHOOSE g : g = Def(g)
           step == [n \in 1 .. N |-> [t \in A |-> Consumed(t, tokens[n])]]
<1>1. tokens \in Seq(Token)
  BY DEF Line
<1>a. \A token \in Token : \A t \in A : Consumed(t, token) \in A
  BY ConsumedTypes
<1>2. N \in Nat
  <2> HIDE DEF tokens, Token
  <2> QED
    BY <1>1
<1>b. \A n \in 1 .. N : tokens[n] \in Token
  <2> HIDE DEF tokens, Token
  <2> QED
    BY <1>1
<1>3. start \in A
  BY EnteredTypes
<1>4. Updated(s, line) = after[N]
  BY DEF Updated
<1> HIDE DEF Token, tokens, N, start
<1>5. \A n \in 1 .. N : \A t \in A : Consumed(t, tokens[n]) \in A
  BY <1>a, <1>b
<1> HIDE DEF A
<1>6. IsStep(step, N, A)
  BY <1>5 DEF IsStep
<1>7. PICK f : Recursion(f, N, A, start, step)
  <2> HIDE DEF step
  <2> QED
    BY <1>2, <1>3, <1>6, RecursionExists
<1>8. ASSUME NEW n \in 1 .. N PROVE f[n] = Consumed(f[n - 1], tokens[n])
  <2>1. n - 1 \in 0 .. N
    BY <1>2
  <2>2. f[n - 1] \in A
    BY <1>7, <2>1 DEF Recursion
  <2>3. f[n] = step[n][f[n - 1]]
    BY <1>7 DEF Recursion
  <2> QED
    BY <2>2, <2>3
<1>9. f = Def(f)
  <2> HIDE DEF step
  <2>1. ASSUME NEW n \in 0 .. N PROVE f[n] = Def(f)[n]
    <3>1. CASE n = 0
      BY <1>7, <3>1 DEF Recursion
    <3>2. CASE n # 0
      <4>1. n \in 1 .. N
        BY <1>2, <3>2
      <4> QED
        BY <1>8, <3>2, <4>1
    <3> QED
      BY <3>1, <3>2
  <2>2. f = [n \in 0 .. N |-> f[n]] /\ Def(f) = [n \in 0 .. N |-> Def(f)[n]]
    BY <1>7 DEF Recursion
  <2> HIDE DEF Def
  <2> QED
    BY <2>1, <2>2
<1>10. after = Def(after)
  <2> HIDE DEF Def
  <2> QED
    BY <1>9
<1> HIDE DEF after
<1>11. \A n \in 0 .. N : after[n] = IF n = 0 THEN start ELSE Consumed(after[n - 1], tokens[n])
  BY <1>10
<1> DEFINE S == {n \in 0 .. N : after[n] \in A}
<1>12. 0 \in S
  BY <1>2, <1>3, <1>11
<1>13. ASSUME NEW n \in 0 .. N - 1, n \in S PROVE n + 1 \in S
  <2>1. n + 1 \in 1 .. N /\ n + 1 \in 0 .. N /\ n + 1 # 0 /\ (n + 1) - 1 = n
    BY <1>2
  <2>2. after[n + 1] = Consumed(after[n], tokens[n + 1])
    BY <1>11, <2>1
  <2> QED
    BY <1>5, <1>13, <2>1, <2>2
<1>14. 0 .. N \subseteq S
  <2> HIDE DEF S
  <2> QED
    BY <1>2, <1>12, <1>13, UpToInd
<1>15. N \in 0 .. N
  BY <1>2
<1> QED
  BY <1>4, <1>14, <1>15 DEF A

\* The conditionals that are open.
Condition == [before : Seq(Blocks), beforeElse : Seq(Blocks), seenElse : BOOLEAN]

StackTypeOK ==
  /\ stack \in Seq(Blocks) /\ pp \in Seq(Condition)
  /\ readings \in Seq(BranchReading) /\ readings # << >>

LEMMA ConditionsTypes ==
  ASSUME StackTypeOK, NEW line \in Line
  PROVE  ConditionsAfter(line.pp) \in Seq(Condition) /\ StackAfter(line.pp) \in Seq(Blocks)
<1>1. pp \in Seq(Condition) /\ stack \in Seq(Blocks)
  BY DEF StackTypeOK
<1>2. line.pp \in {"if", "else", "endif", "none"}
  BY DEF Line
<1>3. ASSUME pp # << >>
      PROVE  Last(pp) \in Condition /\ Front(pp) \in Seq(Condition) /\ Else(Last(pp)) \in Condition
  <2>1. Last(pp) \in Condition /\ Front(pp) \in Seq(Condition)
    BY <1>1, <1>3, LastFront
  <2>2. ASSUME NEW e \in Condition PROVE Else(e) \in Condition
    <3>1. CASE e.seenElse
      BY <3>1 DEF Else
    <3>2. CASE ~e.seenElse
      <4>1. Else(e) = [before |-> e.before, beforeElse |-> stack, seenElse |-> TRUE]
        BY <3>2 DEF Else, Condition
      <4>2. e.before \in Seq(Blocks)
        BY DEF Condition
      <4> QED
        BY <1>1, <4>1, <4>2 DEF Condition
    <3> QED
      BY <3>1, <3>2
  <2> QED
    BY <2>1, <2>2
<1>4. CASE line.pp = "if"
  <2> DEFINE e == [before |-> stack, beforeElse |-> << >>, seenElse |-> FALSE]
  <2>1. << >> \in Seq(Blocks)
    OBVIOUS
  <2>2. e \in Condition
    BY <1>1, <2>1 DEF Condition
  <2>3. ConditionsAfter(line.pp) = Append(pp, e) /\ StackAfter(line.pp) = stack
    BY <1>4 DEF ConditionsAfter, StackAfter
  <2> HIDE DEF e
  <2>4. Append(pp, e) \in Seq(Condition)
    BY <1>1, <2>2, Appended
  <2> QED
    BY <1>1, <2>3, <2>4
<1>5. CASE line.pp = "else" /\ pp # << >>
  <2>1. ConditionsAfter(line.pp) = Append(Front(pp), Else(Last(pp))) /\ StackAfter(line.pp) = Last(pp).before
    BY <1>5 DEF ConditionsAfter, StackAfter
  <2>2. Append(Front(pp), Else(Last(pp))) \in Seq(Condition)
    BY <1>3, <1>5, Appended
  <2>3. Last(pp).before \in Seq(Blocks)
    BY <1>3, <1>5 DEF Condition
  <2> QED
    BY <2>1, <2>2, <2>3
<1>6. CASE line.pp = "endif" /\ pp # << >>
  <2>1. /\ ConditionsAfter(line.pp) = Front(pp)
        /\ StackAfter(line.pp) = IF Last(pp).seenElse THEN Last(pp).beforeElse ELSE stack
    BY <1>6 DEF ConditionsAfter, StackAfter
  <2>2. Last(pp).beforeElse \in Seq(Blocks)
    BY <1>3, <1>6 DEF Condition
  <2> QED
    BY <1>1, <1>3, <1>6, <2>1, <2>2
<1>7. CASE line.pp = "none" \/ (line.pp \in {"else", "endif"} /\ pp = << >>)
  <2>1. ConditionsAfter(line.pp) = pp /\ StackAfter(line.pp) = stack
    BY <1>7 DEF ConditionsAfter, StackAfter
  <2> QED
    BY <1>1, <2>1
<1> QED
  BY <1>2, <1>4, <1>5, <1>6, <1>7

LEMMA ReadingsTypes ==
  ASSUME StackTypeOK, NEW line \in Line
  PROVE  ReadingsAfter(line.pp) \in Seq(BranchReading) /\ ReadingsAfter(line.pp) # << >>
<1>1. /\ Last(readings) \in BranchReading /\ Front(readings) \in Seq(BranchReading)
      /\ Len(Front(readings)) = Len(readings) - 1 /\ Len(readings) \in Nat \ {0}
  BY LastFront DEF StackTypeOK
<1>2. Last(readings).now \in Seq(Blocks) /\ Last(readings).before \in Seq(Blocks)
  BY <1>1 DEF BranchReading
<1>3. CASE line.pp = "if"
  <2> DEFINE e == [before |-> Last(readings).now, now |-> Last(readings).now, later |-> FALSE]
  <2>1. e \in BranchReading /\ ReadingsAfter(line.pp) = Append(readings, e)
    BY <1>2, <1>3 DEF BranchReading, ReadingsAfter
  <2> HIDE DEF e
  <2> QED
    BY <2>1, Appended DEF StackTypeOK
<1>4. CASE line.pp = "else" /\ Len(readings) > 1
  <2> DEFINE e == [before |-> Last(readings).before, now |-> Last(readings).before, later |-> TRUE]
  <2>1. e \in BranchReading /\ ReadingsAfter(line.pp) = Append(Front(readings), e)
    BY <1>2, <1>4 DEF BranchReading, ReadingsAfter
  <2> HIDE DEF e
  <2> QED
    BY <1>1, <2>1, Appended
<1>5. CASE line.pp = "endif" /\ Len(readings) > 1
  <2>1. ReadingsAfter(line.pp) = Front(readings)
    BY <1>5 DEF ReadingsAfter
  <2> QED
    BY <1>1, <1>5, <2>1
<1>6. CASE ~(line.pp = "if" \/ (line.pp \in {"else", "endif"} /\ Len(readings) > 1))
  BY <1>6 DEF ReadingsAfter, StackTypeOK
<1> QED
  BY <1>3, <1>4, <1>5, <1>6

LEMMA ReadTypes ==
  ASSUME NEW r \in Seq(BranchReading), r # << >>, NEW line \in Line
  PROVE  LineRead(r, line) \in Seq(BranchReading) /\ LineRead(r, line) # << >> /\ Len(LineRead(r, line)) = Len(r)
<1>1. Len(r) \in Nat /\ Len(r) >= 1 /\ DOMAIN r = 1 .. Len(r)
  OBVIOUS
<1>2. ASSUME NEW i \in DOMAIN r PROVE LineRead(r, line)[i] \in BranchReading
  <2>1. r[i] \in BranchReading
    BY <1>1
  <2>2. r[i].before \in Seq(Blocks) /\ r[i].now \in Seq(Blocks) /\ r[i].later \in BOOLEAN
    BY <2>1 DEF BranchReading
  <2>3. Updated(r[i].now, line) \in Seq(Blocks)
    BY <2>2, UpdatedTypes
  <2> DEFINE x == [before |-> r[i].before, now |-> Updated(r[i].now, line), later |-> r[i].later]
  <2>4. x \in BranchReading
    BY <2>2, <2>3 DEF BranchReading
  <2>5. LineRead(r, line)[i] = r[i] \/ LineRead(r, line)[i] = x
    BY DEF LineRead
  <2> QED
    BY <2>1, <2>4, <2>5, Zenon
<1> DEFINE t == LineRead(r, line)
           n == Len(r)
<1>3. t = [i \in 1 .. n |-> t[i]]
  BY <1>1 DEF LineRead
<1> HIDE DEF t, n
<1>4. t \in [1 .. n -> BranchReading]
  BY <1>1, <1>2, <1>3 DEF t, n
<1>5. t \in Seq(BranchReading) /\ Len(t) = n /\ n >= 1
  BY <1>1, <1>4 DEF n
<1> QED
  BY <1>5 DEF t, n

LEMMA UpdateTypes ==
  ASSUME StackTypeOK, NEW line \in Line, Update(line)
  PROVE  StackTypeOK'
<1>1. /\ stack' = Updated(StackAfter(line.pp), line) /\ pp' = ConditionsAfter(line.pp)
      /\ readings' = LineRead(ReadingsAfter(line.pp), line)
  BY DEF Update
<1>2. StackAfter(line.pp) \in Seq(Blocks) /\ pp' \in Seq(Condition)
  BY <1>1, ConditionsTypes
<1> QED
  BY <1>1, <1>2, UpdatedTypes, ReadingsTypes, ReadTypes DEF StackTypeOK

\* What a quotient is at least.
LEMMA Quotient ==
  ASSUME NEW a \in Nat, NEW b \in Nat \ {0}
  PROVE  a \div b \in Nat /\ \E r \in 0 .. b - 1 : a = b * (a \div b) + r
<1>1. a = b * (a \div b) + (a % b) /\ a % b \in 0 .. b - 1 /\ a \div b \in Nat
  BY SMTT(30)
<1> QED
  BY <1>1

LEMMA Multiplied ==
  ASSUME NEW t \in Nat, NEW a \in Nat, NEW b \in Nat, a < b
  PROVE  t * a + t <= t * b
<1>1. PICK d \in Nat : b = a + 1 + d
  <2>1. b - a - 1 \in Nat
    OBVIOUS
  <2> QED
    BY <2>1
<1>2. t * b = t * a + t + t * d
  BY <1>1
<1>3. t * d >= 0 /\ t * d \in Nat /\ t * a \in Nat
  OBVIOUS
<1> QED
  BY <1>2, <1>3

\* The level of a complaint about a long function is one that the verbosity shows.
LEMMA LevelShown ==
  ASSUME Verbose \in 0 .. 5, NEW lines \in Nat, NEW test \in BOOLEAN, lines > Trigger(test)
  PROVE  Level(lines, test) \in Verbose .. 5
<1> DEFINE t == IF test THEN TestTrigger ELSE NormalTrigger
           q == lines \div t
           P(n) == 2 ^ n <= q /\ (n = 5 \/ q < 2 ^ (n + 1))
<1>1. t \in Nat \ {0}
  BY NestingAssumption
<1>2. Trigger(test) = t * 2 ^ Verbose
  BY DEF Trigger
<1>3. Level(lines, test) = CHOOSE n \in 0 .. 5 : P(n)
  BY DEF Level
<1> HIDE DEF t
<1>4. q \in Nat /\ \E r \in 0 .. t - 1 : lines = t * q + r
  BY <1>1, Quotient
<1> HIDE DEF q
<1>5. 2 ^ 0 = 1 /\ 2 ^ 1 = 2 /\ 2 ^ 2 = 4 /\ 2 ^ 3 = 8 /\ 2 ^ 4 = 16 /\ 2 ^ 5 = 32
  OBVIOUS
<1> DEFINE p == 2 ^ Verbose
<1>a. \/ Verbose = 0 /\ p = 1
      \/ Verbose = 1 /\ p = 2
      \/ Verbose = 2 /\ p = 4
      \/ Verbose = 3 /\ p = 8
      \/ Verbose = 4 /\ p = 16
      \/ Verbose = 5 /\ p = 32
  <2>1. \/ Verbose = 0 \/ Verbose = 1 \/ Verbose = 2 \/ Verbose = 3 \/ Verbose = 4 \/ Verbose = 5
    OBVIOUS
  <2> QED
    BY <1>5, <2>1, Zenon
<1>6. p \in Nat /\ lines > t * p
  BY <1>2, <1>a
<1> HIDE DEF p
<1>b. p <= q /\ q \in Nat
  <2> SUFFICES ASSUME q < p PROVE FALSE
    BY <1>4, <1>6
  <2>1. t * q + t <= t * p
    BY <1>1, <1>4, <1>6, Multiplied
  <2> QED
    BY <1>1, <1>4, <1>6, <2>1
<1>7. /\ P(0) <=> 1 <= q /\ q < 2
      /\ P(1) <=> 2 <= q /\ q < 4
      /\ P(2) <=> 4 <= q /\ q < 8
      /\ P(3) <=> 8 <= q /\ q < 16
      /\ P(4) <=> 16 <= q /\ q < 32
      /\ P(5) <=> 32 <= q
  BY <1>4, <1>5
<1> HIDE DEF P
<1>8. 1 <= q
  BY <1>a, <1>b
<1>9. P(0) \/ P(1) \/ P(2) \/ P(3) \/ P(4) \/ P(5)
  BY <1>4, <1>7, <1>8
<1>10. \E n \in 0 .. 5 : P(n)
  BY <1>9
<1>11. PICK n \in 0 .. 5 : n = Level(lines, test) /\ P(n)
  BY <1>3, <1>10
<1>12. Verbose <= n
  BY <1>a, <1>b, <1>7, <1>11
<1> QED
  BY <1>11, <1>12

LEMMA NestingLineTypes ==
  ASSUME Verbose \in 0 .. 5, NestingTypeOK, NEW line \in Line, NestingLine(line)
  PROVE  NestingTypeOK'
<1>1. StackTypeOK'
  BY UpdateTypes DEF NestingLine, NestingTypeOK, StackTypeOK, Condition
<1>2. previousTop' \in [depth : Nat, kind : {"namespace", "class", "extern", "block", "none"}]
  <2>1. stack \in Seq(Blocks) /\ Len(stack) \in Nat
    BY DEF NestingTypeOK
  <2>2. stack # << >> => Last(stack).kind \in {"namespace", "class", "extern", "block"}
    <3>1. stack # << >> => Last(stack) \in Blocks
      BY <2>1, LastFront
    <3> QED
      BY <3>1 DEF Blocks
  <2>3. previousTop' = [depth |-> Len(stack), kind |-> IF stack = << >> THEN "none" ELSE Last(stack).kind]
    BY DEF NestingLine, Update
  <2> QED
    BY <2>1, <2>2, <2>3
<1>3. function \in [inside : BOOLEAN, test : BOOLEAN, lines : Nat]
  BY DEF NestingTypeOK
<1>4. FunctionAfter(line) \in [inside : BOOLEAN, test : BOOLEAN, lines : Nat]
  <2> DEFINE F == [inside : BOOLEAN, test : BOOLEAN, lines : Nat]
  <2>1. CASE line.function \in {"begins", "test"}
    BY <2>1 DEF FunctionAfter
  <2>2. CASE line.function = "closes"
    <3>1. [function EXCEPT !.inside = FALSE] \in F
      BY <1>3
    <3>2. FunctionAfter(line) = [function EXCEPT !.inside = FALSE]
      BY <2>2 DEF FunctionAfter
    <3> QED
      BY <3>1, <3>2
  <2>3. CASE line.function = "other" /\ function.inside
    <3>1. function.lines + 1 \in Nat
      BY <1>3
    <3>2. [function EXCEPT !.lines = @ + 1] \in F
      BY <1>3, <3>1
    <3>3. FunctionAfter(line) = [function EXCEPT !.lines = @ + 1]
      BY <2>3 DEF FunctionAfter
    <3> QED
      BY <3>2, <3>3
  <2>4. CASE /\ line.function \notin {"begins", "test", "closes"}
             /\ ~(line.function = "other" /\ function.inside)
    BY <1>3, <2>4 DEF FunctionAfter
  <2> QED
    BY <2>1, <2>2, <2>3, <2>4
<1>5. function' \in [inside : BOOLEAN, test : BOOLEAN, lines : Nat]
  BY <1>3, <1>4 DEF NestingLine
<1>6. FunctionReport(line) \subseteq {"indented", "bodyless", "long"} \X (0 .. 5)
  <2>1. CASE line.function = "bodyless"
    BY <2>1 DEF FunctionReport
  <2>2. CASE line.function = "closes" /\ function.inside /\ function.lines > Trigger(function.test)
    <3>1. Level(function.lines, function.test) \in 0 .. 5
      BY <1>3, <2>2, LevelShown
    <3>2. FunctionReport(line) = {<<"long", Level(function.lines, function.test)>>}
      BY <2>2 DEF FunctionReport
    <3> QED
      BY <3>1, <3>2
  <2>3. CASE /\ line.function # "bodyless"
             /\ ~(line.function = "closes" /\ function.inside /\ function.lines > Trigger(function.test))
    BY <2>3 DEF FunctionReport
  <2> QED
    BY <2>1, <2>2, <2>3
<1>7. report' \subseteq {"indented", "bodyless", "long"} \X (0 .. 5)
  <2>1. {<<"indented", 4>>} \subseteq {"indented", "bodyless", "long"} \X (0 .. 5)
    OBVIOUS
  <2> QED
    BY <1>6, <2>1 DEF NestingLine
<1>8. UNCHANGED unfinished
  BY DEF NestingLine, Update
<1> QED
  BY <1>1, <1>2, <1>5, <1>7, <1>8 DEF NestingTypeOK, StackTypeOK, Condition

LEMMA Replaced ==
  ASSUME NEW S, NEW s \in Seq(S), NEW x \in S
  PROVE  /\ [s EXCEPT ![Len(s)] = x] \in Seq(S)
         /\ Len([s EXCEPT ![Len(s)] = x]) = Len(s) /\ Len(s) \in Nat
         /\ \A i \in 1 .. Len(s) : [s EXCEPT ![Len(s)] = x][i] = IF i = Len(s) THEN x ELSE s[i]
<1> DEFINE n == Len(s)
           t == [s EXCEPT ![n] = x]
<1>1. n \in Nat /\ s \in [1 .. n -> S]
  OBVIOUS
<1> HIDE DEF n
<1>2. t \in [1 .. n -> S] /\ \A i \in 1 .. n : t[i] = IF i = n THEN x ELSE s[i]
  BY <1>1
<1> HIDE DEF t
<1>3. t \in Seq(S) /\ Len(t) = n
  BY <1>1, <1>2
<1> QED
  BY <1>1, <1>2, <1>3 DEF n, t

Entry == [header : Header, branches : Seq(Nat \X Nat), at : Nat]

Ordered == [type : Types, rank : Nat, after : BOOLEAN, told : SUBSET {"order", "alpha"}]

LEMMA GroupTypes ==
  ASSUME NEW type \in Types, NEW s \in 0 .. 4
  PROVE  Group(type, s) \in 1 .. 4
BY DEF Group, Types

LEMMA TypeTypes == \A h : Type(h) \in Types
BY DEF Type, Types

LEMMA BranchesTypes ==
  ASSUME IncludesTypeOK, NEW directive \in {"if", "else", "endif"}
  PROVE  BranchesAfter(directive) \in Seq(Nat \X Nat) /\ ListAfter(directive) \in Seq(Seq(Entry))
<1>1. branches \in Seq(Nat \X Nat) /\ opened \in Nat /\ includeList \in Seq(Seq(Entry))
  BY DEF IncludesTypeOK, Entry
<1>2. << >> \in Seq(Entry)
  OBVIOUS
<1>3. CASE directive = "if"
  <2>1. <<opened + 1, 0>> \in Nat \X Nat
    BY <1>1
  <2>2. Append(branches, <<opened + 1, 0>>) \in Seq(Nat \X Nat)
    BY <1>1, <2>1, Appended
  <2>3. Append(includeList, << >>) \in Seq(Seq(Entry))
    BY <1>1, <1>2, Appended
  <2> QED
    BY <1>3, <2>2, <2>3 DEF BranchesAfter, ListAfter
<1>4. CASE directive = "else"
  <2>1. [includeList EXCEPT ![Len(includeList)] = << >>] \in Seq(Seq(Entry))
    BY <1>1, <1>2, Replaced
  <2>2. ASSUME branches # << >>
        PROVE  Append(Front(branches), <<Last(branches)[1], Last(branches)[2] + 1>>) \in Seq(Nat \X Nat)
    <3>1. Last(branches) \in Nat \X Nat /\ Front(branches) \in Seq(Nat \X Nat)
      BY <1>1, <2>2, LastFront
    <3>2. <<Last(branches)[1], Last(branches)[2] + 1>> \in Nat \X Nat
      BY <3>1
    <3> QED
      BY <3>1, <3>2, Appended
  <2> QED
    BY <1>1, <1>4, <2>1, <2>2 DEF BranchesAfter, ListAfter
<1>5. CASE directive = "endif"
  <2>1. branches # << >> => Front(branches) \in Seq(Nat \X Nat)
    BY <1>1, LastFront
  <2> QED
    BY <1>1, <1>5, <2>1 DEF BranchesAfter, ListAfter
<1> QED
  BY <1>3, <1>4, <1>5

LEMMA RegisteredTypes ==
  ASSUME IncludesTypeOK, NEW h \in Header, IncludeRegistered(h)
  PROVE  IncludesTypeOK'
<1>1. /\ includeList \in Seq(Seq(Entry)) /\ branches \in Seq(Nat \X Nat)
      /\ section \in 0 .. 4 /\ afterInclude \in BOOLEAN /\ opened \in Nat
      /\ order \in Seq(Ordered)
  BY DEF IncludesTypeOK, Entry, Ordered
<1>2. Rank[h] \in Nat
  BY IncludesAssumption
<1>3. section' \in 0 .. 4
  <2>1. Group(Type(h), section) \in 1 .. 4
    BY <1>1, GroupTypes, TypeTypes
  <2>2. section' = section \/ section' = Group(Type(h), section)
    BY DEF IncludeRegistered
  <2>3. \A n \in 1 .. 4 : n \in 0 .. 4
    OBVIOUS
  <2> QED
    BY <1>1, <2>1, <2>2, <2>3
<1>4. order' \in Seq(Ordered)
  <2> DEFINE e == [type |-> Type(h), rank |-> Rank[h], after |-> afterInclude, told |-> OrderReport(h)]
  <2>1. OrderReport(h) \subseteq {"order", "alpha"}
    BY DEF OrderReport
  <2>2. e \in Ordered
    BY <1>1, <1>2, <2>1, TypeTypes DEF Ordered
  <2>3. order' = Append(order, e)
    BY DEF IncludeRegistered
  <2> HIDE DEF e
  <2> QED
    BY <1>1, <2>2, <2>3, Appended
<1>5. includeList' \in Seq(Seq(Entry))
  <2> DEFINE e == [header |-> h, branches |-> branches, at |-> opened]
             n == Len(includeList)
  <2>1. e \in Entry
    BY <1>1 DEF Entry
  <2>2. includeList' = [includeList EXCEPT ![n] = Append(includeList[n], e)]
    BY DEF IncludeRegistered
  <2> HIDE DEF e
  <2>3. CASE n = 0
    <3>1. includeList' = includeList
      BY <1>1, <2>2, <2>3
    <3> QED
      BY <1>1, <3>1
  <2>4. CASE n # 0
    <3>1. includeList[n] \in Seq(Entry)
      BY <1>1, <2>4
    <3>2. Append(includeList[n], e) \in Seq(Entry)
      BY <2>1, <3>1, Appended
    <3> QED
      BY <1>1, <2>2, <3>2, Replaced
  <2> QED
    BY <2>3, <2>4
<1>6. told' \subseteq {"subdir", "twice", "source", "order", "alpha", "own"}
  BY DEF IncludeRegistered, DirectoryTold, OrderReport
<1>7. lastHeader' = Rank[h] /\ afterInclude' = TRUE /\ UNCHANGED <<required, missing, branches, opened, stray>>
  BY DEF IncludeRegistered
<1> QED
  BY <1>2, <1>3, <1>4, <1>5, <1>6, <1>7 DEF IncludesTypeOK, Entry, Ordered

LEMMA IncludesTypes ==
  ASSUME IncludesTypeOK, NEW line \in Line, IncludesOf(line)
  PROVE  IncludesTypeOK'
<1>1. /\ line.include \in Header \cup {NoHeader} /\ line.uses \subseteq Header
      /\ line.pp \in {"if", "else", "endif", "none"}
  BY DEF Line
<1>2. CASE UsesLine(line.uses)
  BY <1>1, <1>2 DEF UsesLine, IncludesTypeOK
<1>3. ASSUME NEW h \in Header, IncludeLine(h) PROVE IncludesTypeOK'
  <2>1. IncludeTwice(h) \/ IncludeUnregistered(h) => IncludesTypeOK'
    BY DEF IncludeTwice, IncludeUnregistered, DirectoryTold, IncludesTypeOK
  <2> QED
    BY <1>3, <2>1, RegisteredTypes DEF IncludeLine
<1>4. ASSUME NEW directive \in {"if", "else", "endif"}, IncludeDirective(directive) PROVE IncludesTypeOK'
  <2>1. branches' \in Seq(Nat \X Nat) /\ includeList' \in Seq(Seq(Entry))
    BY <1>4, BranchesTypes DEF IncludeDirective
  <2>2. opened' \in Nat
    <3>1. opened \in Nat
      BY DEF IncludesTypeOK
    <3> QED
      BY <1>4, <3>1 DEF IncludeDirective
  <2>a. stray' \in BOOLEAN
    BY <1>4 DEF IncludeDirective, IncludesTypeOK
  <2>b. 0 \in 0 .. 4 /\ 0 \in Nat
    OBVIOUS
  <2>c. /\ section' = 0 /\ lastHeader' = 0 /\ afterInclude' = FALSE
        /\ told' = {} /\ order' = << >>
        /\ required' = required /\ missing' = missing
    BY <1>4 DEF IncludeDirective
  <2>d. required' \subseteq Header /\ missing' \subseteq Header
    BY <2>c DEF IncludesTypeOK
  <2>3. << >> \in Seq(Ordered)
    OBVIOUS
  <2> QED
    BY <2>1, <2>2, <2>a, <2>b, <2>c, <2>d, <2>3 DEF IncludesTypeOK, Entry, Ordered
<1> QED
  BY <1>1, <1>2, <1>3, <1>4 DEF IncludesOf

----------------------------------------------------------------------------
(***************************************************************************)
(* The lines of a file.                                                    *)
(***************************************************************************)
TextTypeOK == StackTypeOK /\ IncludesTypeOK /\ subject \in DOMAIN Alphabet

LEMMA LineOf ==
  ASSUME TextTypeOK, NEW l \in Alphabet[subject]
  PROVE  l \in Line
BY FileAssumption DEF TextTypeOK

LEMMA TextOf ==
  ASSUME TypeOK
  PROVE  TextTypeOK
BY DEF TypeOK, NestingTypeOK, TextTypeOK, StackTypeOK, Condition

LEMMA InitTypes ==
  ASSUME Init
  PROVE  TypeOK
<1>1. NestingTypeOK
  <2>1. << >> \in Seq(Blocks) /\ << >> \in Seq(Condition) /\ << >> \in Seq({"namespace", "class"})
    OBVIOUS
  <2>2. readings \in Seq(BranchReading) /\ readings # << >>
    BY <2>1 DEF Init, NestingInit, BranchReading
  <2> QED
    BY <2>1, <2>2 DEF Init, NestingInit, NestingTypeOK, Condition
<1>2. IncludesTypeOK
  <2>1. << >> \in Seq(Entry) /\ << >> \in Seq(Nat \X Nat) /\ << >> \in Seq(Ordered)
    OBVIOUS
  <2>2. << << >> >> \in Seq(Seq(Entry))
    BY <2>1
  <2>3. 0 \in Nat /\ 0 \in 0 .. 4
    OBVIOUS
  <2>4. {} \subseteq Header /\ {} \subseteq {"subdir", "twice", "source", "order", "alpha", "own"}
    OBVIOUS
  <2> QED
    BY <2>1, <2>2, <2>3, <2>4 DEF Init, IncludesInit, IncludesTypeOK, Entry, Ordered
<1>3. /\ subject \in DOMAIN Alphabet /\ header \in Header \cup {NoHeader} /\ ended \in BOOLEAN
      /\ length = 0
  BY DEF Init
<1>4. 0 \in 0 .. MaxLines
  BY FileAssumption
<1> QED
  BY <1>1, <1>2, <1>3, <1>4 DEF TypeOK

LEMMA UnfinishedTypes ==
  ASSUME NEW s \in Seq(Blocks)
  PROVE  Unfinished(s) \in Seq({"namespace", "class"})
<1> DEFINE N == Len(s)
           A == Seq({"namespace", "class"})
           Def(g) == [n \in 0 .. N |->
                        IF n = 0 THEN << >>
                        ELSE IF Scope(s[n]) THEN Append(g[n - 1], s[n].kind) ELSE g[n - 1]]
           kinds == CHOOSE g : g = Def(g)
           step == [n \in 1 .. N |-> [t \in A |-> IF Scope(s[n]) THEN Append(t, s[n].kind) ELSE t]]
<1>1. Unfinished(s) = kinds[N]
  BY DEF Unfinished
<1>2. N \in Nat /\ << >> \in A
  OBVIOUS
<1>3. ASSUME NEW n \in 1 .. N, Scope(s[n]), NEW t \in A PROVE Append(t, s[n].kind) \in A
  <2>1. s[n].kind \in {"namespace", "class"}
    BY <1>3 DEF Scope
  <2> QED
    BY <2>1, Appended
<1> HIDE DEF N, A
<1>4. IsStep(step, N, A)
  BY <1>3 DEF IsStep
<1>5. PICK f : Recursion(f, N, A, << >>, step)
  <2> HIDE DEF step
  <2> QED
    BY <1>2, <1>4, RecursionExists
<1>6. ASSUME NEW n \in 1 .. N
      PROVE  f[n] = IF Scope(s[n]) THEN Append(f[n - 1], s[n].kind) ELSE f[n - 1]
  <2>1. n - 1 \in 0 .. N
    BY <1>2
  <2>2. f[n - 1] \in A /\ f[n] = step[n][f[n - 1]]
    BY <1>5, <2>1 DEF Recursion
  <2> QED
    BY <2>2
<1>7. f = Def(f)
  <2> HIDE DEF step
  <2>1. ASSUME NEW n \in 0 .. N PROVE f[n] = Def(f)[n]
    <3>1. n = 0 \/ n \in 1 .. N
      BY <1>2
    <3> QED
      BY <1>5, <1>6, <3>1 DEF Recursion
  <2>2. f = [n \in 0 .. N |-> f[n]] /\ Def(f) = [n \in 0 .. N |-> Def(f)[n]]
    BY <1>5 DEF Recursion
  <2> HIDE DEF Def
  <2> QED
    BY <2>1, <2>2
<1>8. kinds = Def(kinds)
  <2> HIDE DEF Def
  <2> QED
    BY <1>7
<1> HIDE DEF kinds
<1>9. \A n \in 0 .. N : kinds[n] = IF n = 0 THEN << >>
                                  ELSE IF Scope(s[n]) THEN Append(kinds[n - 1], s[n].kind)
                                  ELSE kinds[n - 1]
  <2>1. \A g : \A n \in 0 .. N : Def(g)[n] = IF n = 0 THEN << >>
                                             ELSE IF Scope(s[n]) THEN Append(g[n - 1], s[n].kind)
                                             ELSE g[n - 1]
    OBVIOUS
  <2>2. \A n : kinds[n] = Def(kinds)[n]
    <3> HIDE DEF Def
    <3> QED
      BY <1>8
  <2> HIDE DEF Def
  <2> QED
    BY <2>1, <2>2
<1> HIDE DEF Def, step
<1> DEFINE S == {n \in 0 .. N : kinds[n] \in A}
<1>10. 0 \in S
  <2>1. 0 \in 0 .. N
    BY <1>2
  <2>2. kinds[0] = << >>
    BY <1>9, <2>1, Zenon
  <2> QED
    BY <1>2, <2>1, <2>2
<1>11. ASSUME NEW n \in 0 .. N - 1, n \in S PROVE n + 1 \in S
  <2>1. n + 1 \in 1 .. N /\ n + 1 \in 0 .. N /\ n + 1 # 0 /\ (n + 1) - 1 = n
    BY <1>2
  <2> QED
    BY <1>3, <1>9, <1>11, <2>1
<1>12. 0 .. N \subseteq S
  <2> HIDE DEF S
  <2> QED
    BY <1>2, <1>10, <1>11, UpToInd
<1>13. N \in 0 .. N
  BY <1>2
<1> QED
  BY <1>1, <1>12, <1>13 DEF A

LEMMA EndTypes ==
  ASSUME TypeOK, EndOfFile
  PROVE  TypeOK'
<1>1. NestingTypeOK'
  <2>1. unfinished' \in Seq({"namespace", "class"})
    BY UnfinishedTypes DEF TypeOK, NestingTypeOK, EndOfFile, NestingEnd
  <2> QED
    BY <2>1 DEF TypeOK, NestingTypeOK, EndOfFile, NestingEnd
<1>2. IncludesTypeOK'
  BY DEF TypeOK, IncludesTypeOK, EndOfFile, IncludesEnd
<1> QED
  BY <1>1, <1>2 DEF TypeOK, EndOfFile

\* What a file leaves behind at any point has its type: a level between 0 and
\* 5 for every complaint, a section between 0 and 4, blocks and conditionals
\* that are whole.  For the levels of verbosity that cpplint documents.
THEOREM LintTypes ==
  ASSUME Verbose \in 0 .. 5
  PROVE  Spec => []TypeOK
<1>1. Init => TypeOK
  BY InitTypes
<1>2. TypeOK /\ [Next]_vars => TypeOK'
  <2> SUFFICES ASSUME TypeOK, [Next]_vars PROVE TypeOK'
    OBVIOUS
  <2>1. ASSUME NEW l \in Alphabet[subject], ProcessLine(l) PROVE TypeOK'
    <3>1. l \in Line
      BY LineOf, TextOf
    <3>2. NestingTypeOK'
      BY <2>1, <3>1, NestingLineTypes DEF TypeOK, ProcessLine
    <3>3. IncludesTypeOK'
      BY <2>1, <3>1, IncludesTypes DEF TypeOK, ProcessLine
    <3>4. length' \in 0 .. MaxLines
      BY <2>1, FileAssumption DEF TypeOK, ProcessLine
    <3>5. header' \in Header \cup {NoHeader}
      BY <2>1, <3>1 DEF ProcessLine, Line
    <3>6. subject' = subject /\ ended' = ended
      BY <2>1 DEF ProcessLine
    <3> QED
      BY <3>2, <3>3, <3>4, <3>5, <3>6 DEF TypeOK
  <2>2. CASE UNCHANGED vars
    BY <2>2 DEF vars, fileVars, nestingVars, includeVars, TypeOK, NestingTypeOK, IncludesTypeOK
  <2> QED
    BY <2>1, <2>2, EndTypes DEF Next, Done
<1> QED
  BY <1>1, <1>2, PTL DEF Spec

\* The same, whatever the verbosity, of all but the complaints.
LEMMA TextTypes == Spec => []TextTypeOK
<1>1. Init => TextTypeOK
  BY InitTypes, TextOf
<1>2. TextTypeOK /\ [Next]_vars => TextTypeOK'
  <2> SUFFICES ASSUME TextTypeOK, [Next]_vars PROVE TextTypeOK'
    OBVIOUS
  <2>1. ASSUME NEW l \in Alphabet[subject], ProcessLine(l) PROVE TextTypeOK'
    <3>1. l \in Line
      BY LineOf
    <3>2. StackTypeOK'
      BY <2>1, <3>1, UpdateTypes DEF TextTypeOK, ProcessLine, NestingLine
    <3>3. IncludesTypeOK'
      BY <2>1, <3>1, IncludesTypes DEF TextTypeOK, ProcessLine
    <3>4. subject' = subject
      BY <2>1 DEF ProcessLine
    <3> QED
      BY <3>2, <3>3, <3>4 DEF TextTypeOK
  <2>2. CASE EndOfFile
    BY <2>2 DEF EndOfFile, NestingEnd, IncludesEnd, TextTypeOK, StackTypeOK, IncludesTypeOK
  <2>3. CASE UNCHANGED vars
    BY <2>3 DEF vars, fileVars, nestingVars, includeVars, TextTypeOK, StackTypeOK, IncludesTypeOK
  <2> QED
    BY <2>1, <2>2, <2>3 DEF Next, Done
<1> QED
  BY <1>1, <1>2, PTL DEF Spec

LEMMA ReportExact ==
  ASSUME Verbose \in 0 .. 5, TypeOK, [Next]_vars, function.inside, ~function'.inside
  PROVE  function.lines > Trigger(function.test) <=> \E n \in Verbose .. 5 : <<"long", n>> \in report'
<1>1. function \in [inside : BOOLEAN, test : BOOLEAN, lines : Nat]
  BY DEF TypeOK, NestingTypeOK
<1>2. function' # function
  OBVIOUS
<1>3. PICK l \in Alphabet[subject] : ProcessLine(l)
  BY <1>2 DEF Next, Done, EndOfFile, NestingEnd, vars, nestingVars
<1>4. ~InAsmBlock(stack') /\ function' = FunctionAfter(l)
  BY <1>2, <1>3 DEF ProcessLine, NestingLine
<1>5. l.function = "closes"
  <2>1. CASE l.function \in {"begins", "test"}
    BY <1>4, <2>1 DEF FunctionAfter
  <2>2. CASE l.function = "other"
    BY <1>1, <1>4, <2>2 DEF FunctionAfter
  <2>3. CASE l.function \notin {"begins", "test", "closes", "other"}
    BY <1>4, <2>3 DEF FunctionAfter
  <2> QED
    BY <2>1, <2>2, <2>3
<1>6. report' = (IF IndentedInNamespace(stack', l) THEN {<<"indented", 4>>} ELSE {}) \cup FunctionReport(l)
  BY <1>3, <1>4 DEF ProcessLine, NestingLine
<1>7. \A n : <<"long", n>> # <<"indented", 4>>
  OBVIOUS
<1>8. \A n : <<"long", n>> \in report' <=> <<"long", n>> \in FunctionReport(l)
  BY <1>6, <1>7
<1>9. FunctionReport(l) = IF function.lines > Trigger(function.test)
                          THEN {<<"long", Level(function.lines, function.test)>>} ELSE {}
  BY <1>5 DEF FunctionReport
<1>10. CASE function.lines > Trigger(function.test)
  <2>1. Level(function.lines, function.test) \in Verbose .. 5
    BY <1>1, <1>10, LevelShown
  <2> QED
    BY <1>8, <1>9, <1>10, <2>1
<1>11. CASE ~(function.lines > Trigger(function.test))
  BY <1>8, <1>9, <1>11
<1> QED
  BY <1>10, <1>11

\* A function that ends is reported as too long if and only if it has more
\* lines than the trigger, and then at a level that the verbosity lets through:
\* the trigger is the base times a power of two, the level a rounded logarithm
\* of the ratio, and the two meet for every base and every number of lines.
THEOREM LongFunctions ==
  ASSUME Verbose \in 0 .. 5
  PROVE  Spec => LongFunctionsTold
<1>1. TypeOK /\ [Next]_vars =>
        [function.inside /\ ~function'.inside =>
           (function.lines > Trigger(function.test)
              <=> \E n \in Verbose .. 5 : <<"long", n>> \in report')]_vars
  BY ReportExact
<1> QED
  BY <1>1, LintTypes, PTL DEF Spec, LongFunctionsTold

----------------------------------------------------------------------------
(***************************************************************************)
(* The order of includes.                                                  *)
(***************************************************************************)
Own(type) == type \in {"likely", "possible"}

\* What OrderTold says of the i-th include of s.
ToldRight(s, i) ==
  /\ "order" \in s[i].told <=> \E j \in 1 .. i - 1 : PlaceIn(s, j) > PlaceIn(s, i)
  /\ "alpha" \in s[i].told <=>
       /\ \A j \in 1 .. i - 1 : PlaceIn(s, j) <= PlaceIn(s, i)
       /\ \E j \in 1 .. i - 1 : PlaceIn(s, j) = PlaceIn(s, i)
       /\ s[i].after /\ s[i - 1].rank > s[i].rank

LEMMA PlaceTypes ==
  ASSUME NEW s \in Seq(Ordered), NEW i \in 1 .. Len(s)
  PROVE  /\ PlaceIn(s, i) \in 1 .. 4
         /\ ~Own(s[i].type) => PlaceIn(s, i) \in 2 .. 4
         /\ (\A j \in 1 .. i : Own(s[j].type)) => PlaceIn(s, i) = 1
<1>1. s[i].type \in Types
  <2>1. s[i] \in Ordered
    OBVIOUS
  <2> QED
    BY <2>1 DEF Ordered
<1>2. i \in Nat /\ i \in 1 .. i /\ \A j \in 1 .. i - 1 : j \in 1 .. i
  OBVIOUS
<1> QED
  BY <1>1, <1>2 DEF PlaceIn, Own, Types

\* What is said of an include depends on those before it alone.
LEMMA PrefixTold ==
  ASSUME NEW s \in Seq(Ordered), NEW e \in Ordered, NEW i \in 1 .. Len(s)
  PROVE  /\ PlaceIn(Append(s, e), i) = PlaceIn(s, i)
         /\ ToldRight(Append(s, e), i) <=> ToldRight(s, i)
<1> DEFINE t == Append(s, e)
           n == Len(s)
<1>1. n \in Nat /\ \A j \in 1 .. n : t[j] = s[j]
  BY Appended
<1> HIDE DEF t
<1>2. ASSUME NEW k \in 1 .. n PROVE PlaceIn(t, k) = PlaceIn(s, k)
  <2>1. \A j \in 1 .. k - 1 : j \in 1 .. n
    BY <1>1
  <2>2. t[k] = s[k] /\ \A j \in 1 .. k - 1 : t[j] = s[j]
    BY <1>1, <2>1
  <2> QED
    BY <2>2 DEF PlaceIn
<1>3. \A j \in 1 .. i - 1 : j \in 1 .. n /\ PlaceIn(t, j) = PlaceIn(s, j)
  BY <1>1, <1>2
<1>4. t[i] = s[i] /\ PlaceIn(t, i) = PlaceIn(s, i)
  BY <1>1, <1>2
<1>5. (\E j \in 1 .. i - 1 : PlaceIn(s, j) = PlaceIn(s, i)) => t[i - 1] = s[i - 1]
  <2>1. ASSUME NEW j \in 1 .. i - 1 PROVE i - 1 \in 1 .. n
    BY <1>1
  <2> QED
    BY <1>1, <2>1
<1>6. ToldRight(t, i) <=> ToldRight(s, i)
  BY <1>3, <1>4, <1>5, Zenon DEF ToldRight
<1> QED
  BY <1>4, <1>6 DEF t

\* What the state knows of the includes since the last directive: the last of
\* the sections that they belong to and the header of the last of them, whether
\* or not that one was in order.
OrderInv ==
  /\ order = << >> => section = 0 /\ lastHeader = 0
  /\ order # << >> => lastHeader = order[Len(order)].rank
  /\ order # << >> => \E j \in 1 .. Len(order) : PlaceIn(order, j) = section
  /\ \A j \in 1 .. Len(order) : PlaceIn(order, j) <= section
  /\ \A i \in 1 .. Len(order) : ToldRight(order, i)

LEMMA RegisteredInOrder ==
  ASSUME IncludesTypeOK, OrderInv, NEW h \in Header, IncludeRegistered(h)
  PROVE  OrderInv'
<1> DEFINE n == Len(order)
           g == Group(Type(h), section)
           e == [type |-> Type(h), rank |-> Rank[h], after |-> afterInclude, told |-> OrderReport(h)]
           t == Append(order, e)
           before == 1 .. n
<1>1. /\ order \in Seq(Ordered) /\ section \in 0 .. 4 /\ lastHeader \in Nat
      /\ afterInclude \in BOOLEAN /\ n \in Nat
  BY DEF IncludesTypeOK, Ordered
<1>2. Rank[h] \in Nat \ {0} /\ Type(h) \in Types
  BY IncludesAssumption, TypeTypes
<1>3. g \in 1 .. 4
  BY <1>1, <1>2, GroupTypes
<1>4. e \in Ordered
  <2>1. OrderReport(h) \subseteq {"order", "alpha"}
    BY DEF OrderReport
  <2> QED
    BY <1>1, <1>2, <2>1 DEF Ordered
<1>5. /\ order' = t /\ lastHeader' = Rank[h]
      /\ section' = IF g < section THEN section ELSE g
  BY DEF IncludeRegistered, OutOfOrder
<1>6. /\ e.type = Type(h) /\ e.rank = Rank[h] /\ e.after = afterInclude
      /\ "order" \in e.told <=> g < section
      /\ "alpha" \in e.told <=> section = g /\ lastHeader > Rank[h] /\ afterInclude
  <2>1. "order" \in e.told <=> OutOfOrder(Type(h))
    BY DEF OrderReport
  <2>2. "alpha" \in e.told <=> LastInSection(Type(h)) > Rank[h] /\ afterInclude
    BY DEF OrderReport
  <2>3. LastInSection(Type(h)) = IF g < section \/ g # section THEN 0 ELSE lastHeader
    BY DEF LastInSection, OutOfOrder
  <2>4. OutOfOrder(Type(h)) <=> g < section
    BY DEF OutOfOrder
  <2>5. e.type = Type(h) /\ e.rank = Rank[h] /\ e.after = afterInclude
    OBVIOUS
  <2> HIDE DEF e, g
  <2>6. LastInSection(Type(h)) > Rank[h] <=> section = g /\ lastHeader > Rank[h]
    BY <1>1, <1>2, <1>3, <2>3
  <2> QED
    BY <2>1, <2>2, <2>4, <2>5, <2>6
<1> HIDE DEF e
<1>7. /\ t \in Seq(Ordered) /\ t # << >> /\ Len(t) = n + 1 /\ t[n + 1] = e
      /\ \A j \in before : t[j] = order[j]
  BY <1>1, <1>4, Appended
<1>8. \A j \in before : /\ PlaceIn(t, j) = PlaceIn(order, j) /\ PlaceIn(t, j) <= section
                       /\ PlaceIn(order, j) \in 1 .. 4
                       /\ ToldRight(t, j)
  BY <1>1, <1>4, PrefixTold, PlaceTypes DEF OrderInv
<1>9. n # 0 => \E j \in before : PlaceIn(t, j) = section
  BY <1>1, <1>8 DEF OrderInv
<1>10. n = 0 => section = 0
  BY <1>1 DEF OrderInv
\* The section is that of the file's own header, if anything, as long as there
\* has been no other.
<1>11. section <= 1 <=> \A j \in before : Own(order[j].type)
  <2>1. ASSUME section <= 1, NEW j \in before PROVE Own(order[j].type)
    <3>1. PlaceIn(order, j) <= 1
      BY <1>1, <1>8, <2>1
    <3>2. ~Own(order[j].type) => PlaceIn(order, j) \in 2 .. 4
      BY <1>1, PlaceTypes
    <3> QED
      BY <3>1, <3>2
  <2>2. ASSUME \A j \in before : Own(order[j].type) PROVE section <= 1
    <3>1. CASE n = 0
      BY <1>10, <3>1
    <3>2. CASE n # 0
      <4>1. PICK j \in before : PlaceIn(order, j) = section
        BY <1>8, <1>9, <3>2
      <4>2. \A k \in 1 .. j : k \in before
        BY <1>1
      <4>3. PlaceIn(order, j) = 1
        BY <1>1, <2>2, <4>2, PlaceTypes
      <4> QED
        BY <4>1, <4>3
    <3> QED
      BY <3>1, <3>2
  <2> QED
    BY <2>1, <2>2
<1>12. PlaceIn(t, n + 1) = g
  <2>1. (n + 1) - 1 = n
    BY <1>1
  <2>2. (\A j \in 1 .. (n + 1) - 1 : t[j].type \in {"likely", "possible"}) <=> section <= 1
    BY <1>7, <1>11, <2>1 DEF Own
  <2>3. t[n + 1].type = Type(h)
    BY <1>6, <1>7
  <2> HIDE DEF t, n
  <2> QED
    BY <1>2, <2>2, <2>3 DEF PlaceIn, Group, Types
<1> HIDE DEF t, g
<1>13. ToldRight(t, n + 1)
  <2>1. (n + 1) - 1 = n
    BY <1>1
  <2>2. g < section <=> \E j \in before : PlaceIn(t, j) > g
    <3>1. ASSUME g < section PROVE \E j \in before : PlaceIn(t, j) > g
      <4>1. n # 0
        BY <1>3, <1>10, <3>1
      <4>2. PICK j \in before : PlaceIn(t, j) = section
        BY <1>9, <4>1
      <4> QED
        BY <1>1, <1>3, <3>1, <4>2
    <3>2. ASSUME NEW j \in before, PlaceIn(t, j) > g PROVE g < section
      BY <1>1, <1>3, <1>8, <3>2
    <3> QED
      BY <3>1, <3>2
  <2>3. section = g <=> /\ \A j \in before : PlaceIn(t, j) <= g
                        /\ \E j \in before : PlaceIn(t, j) = g
    <3>1. ASSUME section = g PROVE \E j \in before : PlaceIn(t, j) = g
      <4>1. n # 0
        BY <1>3, <1>10, <3>1
      <4> QED
        BY <1>9, <3>1, <4>1
    <3>2. ASSUME \A j \in before : PlaceIn(t, j) <= g, NEW j \in before, PlaceIn(t, j) = g
          PROVE  section = g
      <4>1. PICK k \in before : PlaceIn(t, k) = section
        BY <1>1, <1>9
      <4>2. section <= g
        BY <3>2, <4>1
      <4>3. g <= section
        BY <1>8, <3>2
      <4> QED
        BY <1>1, <1>3, <4>2, <4>3
    <3> QED
      BY <1>8, <3>1, <3>2
  <2>4. section = g => (lastHeader > Rank[h] <=> t[n].rank > t[n + 1].rank)
    <3>1. ASSUME section = g PROVE lastHeader = t[n].rank
      <4>1. n # 0
        BY <1>3, <1>10, <3>1
      <4>2. order # << >> /\ n \in before
        BY <1>1, <4>1
      <4> QED
        BY <1>7, <4>2 DEF OrderInv
    <3> QED
      BY <1>6, <1>7, <3>1
  <2>5. t[n + 1].told = e.told /\ t[n + 1].after = afterInclude
    BY <1>6, <1>7
  <2>6. "order" \in t[n + 1].told <=> \E j \in before : PlaceIn(t, j) > PlaceIn(t, n + 1)
    BY <1>6, <1>12, <2>2, <2>5, Zenon
  <2>7. "alpha" \in t[n + 1].told <=>
          /\ \A j \in before : PlaceIn(t, j) <= PlaceIn(t, n + 1)
          /\ \E j \in before : PlaceIn(t, j) = PlaceIn(t, n + 1)
          /\ t[n + 1].after /\ t[n].rank > t[n + 1].rank
    BY <1>6, <1>12, <2>3, <2>4, <2>5, Zenon
  <2> HIDE DEF n
  <2> QED
    BY <2>1, <2>6, <2>7, Zenon DEF ToldRight
<1>14. ASSUME NEW j \in 1 .. n + 1 PROVE ToldRight(t, j) /\ PlaceIn(t, j) <= section'
  <2>1. section <= section' /\ g <= section'
    BY <1>1, <1>3, <1>5
  <2>2. CASE j \in before
    <3>1. PlaceIn(t, j) \in 1 .. 4 /\ PlaceIn(t, j) <= section
      BY <1>8, <2>2
    <3>2. section' \in Int
      BY <1>1, <1>3, <1>5
    <3> QED
      BY <1>1, <1>8, <2>1, <2>2, <3>1, <3>2
  <2>3. CASE j = n + 1
    BY <1>12, <1>13, <2>1, <2>3
  <2> QED
    BY <1>1, <2>2, <2>3
<1>15. \E j \in 1 .. n + 1 : PlaceIn(t, j) = section'
  <2>1. n + 1 \in 1 .. n + 1 /\ \A j \in before : j \in 1 .. n + 1
    BY <1>1
  <2>2. CASE g < section
    <3>1. n # 0
      BY <1>3, <1>10, <2>2
    <3> QED
      BY <1>5, <1>9, <2>1, <2>2, <3>1
  <2>3. CASE ~(g < section)
    BY <1>5, <1>12, <2>1, <2>3
  <2> QED
    BY <2>2, <2>3
<1>16. lastHeader' = t[n + 1].rank
  BY <1>5, <1>6, <1>7
<1> QED
  BY <1>5, <1>7, <1>14, <1>15, <1>16 DEF OrderInv

\* Every include since the last directive is reported as out of order if and
\* only if one that belongs after it has come, and as out of the alphabet if
\* and only if it is in order, not the first of its section and less than the
\* one on the line before.  CheckNextIncludeOrder keeps no more than a section
\* and a header, and the section is that of the latest of all includes: also
\* after some that came too late, which leave it as it is, and whether or not
\* the file's own header was first.
THEOREM OrderIsTold == Spec => []OrderTold
<1>1. Init => OrderInv
  <2>1. Len(<< >>) = 0 /\ 1 .. 0 = {}
    OBVIOUS
  <2> QED
    BY <2>1 DEF Init, IncludesInit, OrderInv
<1>2. TextTypeOK /\ OrderInv /\ [Next]_vars => OrderInv'
  <2> SUFFICES ASSUME TextTypeOK, OrderInv, [Next]_vars PROVE OrderInv'
    OBVIOUS
  <2> DEFINE same == order' = order /\ section' = section /\ lastHeader' = lastHeader
  <2>1. same => OrderInv'
    BY DEF OrderInv
  <2>2. ASSUME NEW l \in Alphabet[subject], ProcessLine(l) PROVE OrderInv'
    <3>1. l.include \in Header \cup {NoHeader}
      BY LineOf DEF Line
    <3>2. \A uses : UsesLine(uses) => same
      BY DEF UsesLine
    <3>3. ASSUME NEW directive, IncludeDirective(directive) PROVE OrderInv'
      <4>1. order' = << >> /\ section' = 0 /\ lastHeader' = 0
        BY <3>3 DEF IncludeDirective
      <4>2. Len(<< >>) = 0 /\ 1 .. 0 = {}
        OBVIOUS
      <4> QED
        BY <4>1, <4>2 DEF OrderInv
    <3>4. ASSUME NEW h \in Header, IncludeLine(h) PROVE OrderInv'
      <4>1. IncludeTwice(h) \/ IncludeUnregistered(h) => same
        BY DEF IncludeTwice, IncludeUnregistered
      <4> QED
        BY <2>1, <3>4, <4>1, RegisteredInOrder DEF IncludeLine, TextTypeOK
    <3>5. IncludesOf(l)
      BY <2>2 DEF ProcessLine
    <3> HIDE DEF same
    <3> QED
      BY <2>1, <3>1, <3>2, <3>3, <3>4, <3>5 DEF IncludesOf
  <2>3. CASE EndOfFile
    BY <2>1, <2>3 DEF EndOfFile, IncludesEnd
  <2>4. CASE UNCHANGED vars
    BY <2>1, <2>4 DEF vars, includeVars
  <2> QED
    BY <2>2, <2>3, <2>4 DEF Next, Done
<1>3. TextTypeOK /\ OrderInv => OrderTold
  <2> SUFFICES ASSUME TextTypeOK, OrderInv PROVE OrderTold
    OBVIOUS
  <2>1. DOMAIN order = 1 .. Len(order)
    BY DEF TextTypeOK, IncludesTypeOK
  <2>2. \A i \in 1 .. Len(order) : ToldRight(order, i)
    BY DEF OrderInv
  <2> QED
    BY <2>1, <2>2, Zenon DEF OrderTold, ToldRight
<1> QED
  BY <1>1, <1>2, <1>3, TextTypes, PTL DEF Spec

----------------------------------------------------------------------------
(***************************************************************************)
(* The branches of conditional compilation.                                *)
(***************************************************************************)
\* The reading of an #if against its entry on pp_stack, and against the reading
\* around it: the two are one until an #else, and then #endif will find the
\* other in the entry.
Paired(around, reading, entry) ==
  /\ reading.later = entry.seenElse
  /\ reading.before = entry.before
  /\ around.now = IF entry.seenElse THEN entry.beforeElse ELSE reading.now

Traced(r, p, s) ==
  /\ Len(r) = Len(p) + 1
  /\ s = r[Len(p) + 1].now
  /\ \A i \in 1 .. Len(p) : Paired(r[i], r[i + 1], p[i])

BranchesInv ==
  /\ Traced(readings, pp, stack)
  /\ ended => unfinished = Unfinished(stack)

LEMMA DirectiveTraced ==
  ASSUME StackTypeOK, Traced(readings, pp, stack), NEW line \in Line
  PROVE  Traced(ReadingsAfter(line.pp), ConditionsAfter(line.pp), StackAfter(line.pp))
<1> DEFINE n == Len(pp)
           r == ReadingsAfter(line.pp)
           p == ConditionsAfter(line.pp)
<1>1. /\ pp \in Seq(Condition) /\ n \in Nat /\ readings \in Seq(BranchReading) /\ readings # << >>
      /\ Len(readings) = n + 1 /\ stack = readings[n + 1].now
      /\ \A i \in 1 .. n : Paired(readings[i], readings[i + 1], pp[i])
  BY DEF StackTypeOK, Traced
<1>2. /\ Last(readings) = readings[n + 1] /\ Front(readings) \in Seq(BranchReading)
      /\ Len(Front(readings)) = n
      /\ \A i \in 1 .. n : Front(readings)[i] = readings[i]
  <2>1. (n + 1) - 1 = n
    BY <1>1
  <2> QED
    BY <1>1, <2>1, LastFront
<1>3. Last(readings) \in BranchReading
  BY <1>1, LastFront
<1>4. pp # << >> <=> n >= 1
  BY <1>1
<1>5. Len(readings) > 1 <=> n >= 1
  BY <1>1
<1>6. ASSUME n >= 1
      PROVE  /\ Last(pp) = pp[n] /\ pp[n] \in Condition /\ Front(pp) \in Seq(Condition)
             /\ Len(Front(pp)) = n - 1 /\ \A i \in 1 .. n - 1 : Front(pp)[i] = pp[i]
  BY <1>1, <1>4, <1>6, LastFront
<1>7. CASE line.pp = "if"
  <2> DEFINE e == [before |-> stack, now |-> stack, later |-> FALSE]
             c == [before |-> stack, beforeElse |-> << >>, seenElse |-> FALSE]
  <2>1. r = Append(readings, e) /\ p = Append(pp, c) /\ StackAfter(line.pp) = stack
    BY <1>1, <1>2, <1>7 DEF ReadingsAfter, ConditionsAfter, StackAfter
  <2>2. e \in BranchReading /\ c \in Condition
    <3>1. stack \in Seq(Blocks) /\ << >> \in Seq(Blocks)
      BY DEF StackTypeOK
    <3> QED
      BY <3>1 DEF BranchReading, Condition
  <2>3. e.now = stack /\ Paired(readings[n + 1], e, c)
    BY <1>1 DEF Paired
  <2> HIDE DEF e, c, r, p
  <2>4. Len(p) = n + 1 /\ p[n + 1] = c /\ \A i \in 1 .. n : p[i] = pp[i]
    BY <1>1, <2>1, <2>2, Appended
  <2>5. Len(r) = (n + 1) + 1 /\ r[(n + 1) + 1] = e /\ \A i \in 1 .. n + 1 : r[i] = readings[i]
    BY <1>1, <2>1, <2>2, Appended
  <2>6. ASSUME NEW i \in 1 .. n + 1 PROVE Paired(r[i], r[i + 1], p[i])
    <3>1. CASE i = n + 1
      BY <1>1, <2>3, <2>4, <2>5, <3>1
    <3>2. CASE i \in 1 .. n
      <4>1. i + 1 \in 1 .. n + 1
        BY <1>1, <3>2
      <4> QED
        BY <1>1, <2>4, <2>5, <3>2, <4>1
    <3> QED
      BY <1>1, <3>1, <3>2
  <2>7. Traced(r, p, StackAfter(line.pp))
    BY <2>1, <2>3, <2>4, <2>5, <2>6 DEF Traced
  <2> QED
    BY <2>7 DEF r, p
<1>8. CASE line.pp = "else" /\ n >= 1
  <2> DEFINE o == readings[n + 1]
             e == [before |-> o.before, now |-> o.before, later |-> TRUE]
             c == Else(pp[n])
  <2>1. r = Append(Front(readings), e)
    BY <1>2, <1>5, <1>8 DEF ReadingsAfter
  <2>2. p = Append(Front(pp), c) /\ StackAfter(line.pp) = pp[n].before
    BY <1>4, <1>6, <1>8 DEF ConditionsAfter, StackAfter
  <2>3. n \in 1 .. n /\ Paired(readings[n], o, pp[n])
    BY <1>1, <1>8
  <2>4. /\ c.before = pp[n].before /\ c.seenElse
        /\ c.beforeElse = IF pp[n].seenElse THEN pp[n].beforeElse ELSE stack
    BY <1>6, <1>8 DEF Else, Condition
  <2>5. e.now = pp[n].before /\ Paired(readings[n], e, c)
    <3>1. o.before = pp[n].before /\ o.now = stack
      BY <1>1, <2>3 DEF Paired
    <3>2. readings[n].now = c.beforeElse
      BY <2>3, <2>4, <3>1 DEF Paired
    <3>3. e.later /\ e.before = c.before
      BY <2>4, <3>1
    <3> QED
      BY <2>4, <3>1, <3>2, <3>3 DEF Paired
  <2>6. e \in BranchReading /\ c \in Condition
    <3>1. o.before \in Seq(Blocks)
      BY <1>2, <1>3 DEF BranchReading
    <3>2. CASE pp[n].seenElse
      BY <1>6, <1>8, <3>1, <3>2 DEF BranchReading, Else
    <3>3. CASE ~pp[n].seenElse
      <4>1. c = [before |-> pp[n].before, beforeElse |-> stack, seenElse |-> TRUE]
        BY <1>6, <1>8, <3>3 DEF Else, Condition
      <4>2. pp[n].before \in Seq(Blocks) /\ stack \in Seq(Blocks)
        BY <1>6, <1>8 DEF Condition, StackTypeOK
      <4> QED
        BY <3>1, <4>1, <4>2 DEF BranchReading, Condition
    <3> QED
      BY <3>2, <3>3
  <2> HIDE DEF e, c, r, p
  <2>7. Len(p) = n /\ p[n] = c /\ \A i \in 1 .. n - 1 : p[i] = pp[i]
    <3>1. n - 1 \in Nat /\ (n - 1) + 1 = n
      BY <1>1, <1>8
    <3> QED
      BY <1>6, <1>8, <2>2, <2>6, <3>1, Appended
  <2>8. Len(r) = n + 1 /\ r[n + 1] = e /\ \A i \in 1 .. n : r[i] = readings[i]
    BY <1>2, <2>1, <2>6, Appended
  <2>9. ASSUME NEW i \in 1 .. n PROVE Paired(r[i], r[i + 1], p[i])
    <3>1. CASE i = n
      BY <2>3, <2>5, <2>7, <2>8, <3>1
    <3>2. CASE i \in 1 .. n - 1
      <4>1. i + 1 \in 1 .. n /\ i \in 1 .. n
        BY <1>1, <3>2
      <4> QED
        BY <1>1, <2>7, <2>8, <3>2, <4>1
    <3> QED
      BY <1>1, <3>1, <3>2
  <2>10. Traced(r, p, StackAfter(line.pp))
    BY <2>2, <2>5, <2>7, <2>8, <2>9 DEF Traced
  <2> QED
    BY <2>10 DEF r, p
<1>9. CASE line.pp = "endif" /\ n >= 1
  <2>1. r = Front(readings)
    BY <1>5, <1>9 DEF ReadingsAfter
  <2>2. p = Front(pp) /\ StackAfter(line.pp) = IF pp[n].seenElse THEN pp[n].beforeElse ELSE stack
    BY <1>4, <1>6, <1>9 DEF ConditionsAfter, StackAfter
  <2>3. n \in 1 .. n /\ Paired(readings[n], readings[n + 1], pp[n])
    BY <1>1, <1>9
  <2>4. StackAfter(line.pp) = readings[n].now
    BY <1>1, <2>2, <2>3 DEF Paired
  <2> HIDE DEF r, p
  <2>5. Len(p) = n - 1 /\ Len(r) = (n - 1) + 1 /\ r[(n - 1) + 1] = readings[n]
    BY <1>1, <1>2, <1>6, <1>9, <2>1, <2>2, <2>3
  <2>6. ASSUME NEW i \in 1 .. n - 1 PROVE Paired(r[i], r[i + 1], p[i])
    <3>1. i + 1 \in 1 .. n /\ i \in 1 .. n
      BY <1>1
    <3> QED
      BY <1>1, <1>2, <1>6, <1>9, <2>1, <2>2, <3>1
  <2>7. Traced(r, p, StackAfter(line.pp))
    BY <2>4, <2>5, <2>6 DEF Traced
  <2> QED
    BY <2>7 DEF r, p
<1>10. CASE ~(line.pp = "if" \/ (line.pp \in {"else", "endif"} /\ n >= 1))
  <2>1. r = readings
    BY <1>5, <1>10 DEF ReadingsAfter
  <2>2. p = pp /\ StackAfter(line.pp) = stack
    BY <1>4, <1>10 DEF ConditionsAfter, StackAfter
  <2> QED
    BY <2>1, <2>2
<1> QED
  BY <1>7, <1>8, <1>9, <1>10

LEMMA LineTraced ==
  ASSUME NEW r \in Seq(BranchReading), r # << >>, NEW p \in Seq(Condition), NEW s,
         Traced(r, p, s), NEW line \in Line
  PROVE  Traced(LineRead(r, line), p, Updated(s, line))
<1> DEFINE n == Len(p)
           t == LineRead(r, line)
           skipped(i) == \E j \in 1 .. n + 1 : j > i /\ r[j].later
<1>1. /\ n \in Nat /\ Len(r) = n + 1 /\ DOMAIN r = 1 .. n + 1
      /\ s = r[n + 1].now
      /\ \A i \in 1 .. n : Paired(r[i], r[i + 1], p[i])
  BY DEF Traced
<1>2. Len(t) = n + 1
  BY <1>1, ReadTypes
<1>3. ASSUME NEW i \in 1 .. n + 1
      PROVE  /\ t[i].before = r[i].before /\ t[i].later = r[i].later
             /\ t[i].now = IF skipped(i) THEN r[i].now ELSE Updated(r[i].now, line)
  BY <1>1 DEF LineRead
<1>4. ~skipped(n + 1)
  BY <1>1
<1>5. ASSUME NEW i \in 1 .. n PROVE skipped(i) <=> r[i + 1].later \/ skipped(i + 1)
  <2>1. i + 1 \in 1 .. n + 1 /\ i + 1 > i
    BY <1>1
  <2>2. \A j \in 1 .. n + 1 : j > i <=> j = i + 1 \/ j > i + 1
    BY <1>1
  <2> QED
    BY <2>1, <2>2
<1> HIDE DEF t, skipped
<1>6. ASSUME NEW i \in 1 .. n PROVE Paired(t[i], t[i + 1], p[i])
  <2>1. i \in 1 .. n + 1 /\ i + 1 \in 1 .. n + 1
    BY <1>1
  <2>2. Paired(r[i], r[i + 1], p[i])
    BY <1>1
  <2>3. CASE r[i + 1].later
    BY <1>3, <1>5, <2>1, <2>2, <2>3 DEF Paired
  <2>4. CASE ~r[i + 1].later
    BY <1>3, <1>5, <2>1, <2>2, <2>4 DEF Paired
  <2> QED
    BY <2>3, <2>4
<1>7. t[n + 1].now = Updated(s, line)
  <2>1. n + 1 \in 1 .. n + 1
    BY <1>1
  <2> QED
    BY <1>1, <1>3, <1>4, <2>1
<1> QED
  BY <1>2, <1>6, <1>7 DEF Traced, t

\* Whatever the nesting of conditionals, and with directives that have no #if:
\* an #else or #elif branch is checked with the blocks that were open at its
\* #if, whatever the branch before it did, and leaves no trace after its
\* #endif.  pp_stack has the two stacks this takes, that of the #if and that of
\* the first branch, for every conditional that is open, and a line changes
\* only what is taken up again: the stack in use and, in the branches before
\* an #else, all those around it that have none either.
THEOREM BranchesTraceless == Spec => []BranchesLeaveNoTrace
<1>1. Init => BranchesInv
  <2>1. ASSUME Init PROVE Traced(readings, pp, stack)
    <3>1. /\ readings = <<[before |-> << >>, now |-> << >>, later |-> FALSE]>>
          /\ pp = << >> /\ stack = << >>
      BY <2>1 DEF Init, NestingInit
    <3>2. Len(readings) = 1 /\ Len(pp) = 0 /\ readings[1].now = << >>
      BY <3>1
    <3> QED
      BY <3>1, <3>2 DEF Traced
  <2> QED
    BY <2>1 DEF Init, BranchesInv
<1>2. TextTypeOK /\ BranchesInv /\ [Next]_vars => BranchesInv'
  <2> SUFFICES ASSUME TextTypeOK, BranchesInv, [Next]_vars PROVE BranchesInv'
    OBVIOUS
  <2>1. ASSUME NEW l \in Alphabet[subject], ProcessLine(l) PROVE BranchesInv'
    <3>1. l \in Line
      BY LineOf
    <3>2. /\ stack' = Updated(StackAfter(l.pp), l) /\ pp' = ConditionsAfter(l.pp)
          /\ readings' = LineRead(ReadingsAfter(l.pp), l)
      BY <2>1 DEF ProcessLine, NestingLine, Update
    <3>3. Traced(ReadingsAfter(l.pp), ConditionsAfter(l.pp), StackAfter(l.pp))
      BY <3>1, DirectiveTraced DEF TextTypeOK, BranchesInv
    <3>4. /\ ReadingsAfter(l.pp) \in Seq(BranchReading) /\ ReadingsAfter(l.pp) # << >>
          /\ ConditionsAfter(l.pp) \in Seq(Condition)
      BY <3>1, ReadingsTypes, ConditionsTypes DEF TextTypeOK
    <3>5. Traced(readings', pp', stack')
      BY <3>1, <3>2, <3>3, <3>4, LineTraced
    <3>6. ~ended'
      BY <2>1 DEF ProcessLine
    <3> QED
      BY <3>5, <3>6 DEF BranchesInv
  <2>2. CASE EndOfFile
    BY <2>2 DEF EndOfFile, NestingEnd, BranchesInv
  <2>3. CASE UNCHANGED vars
    BY <2>3 DEF vars, fileVars, nestingVars, BranchesInv
  <2> QED
    BY <2>1, <2>2, <2>3 DEF Next, Done
<1>3. TextTypeOK /\ BranchesInv => BranchesLeaveNoTrace
  <2> SUFFICES ASSUME TextTypeOK, BranchesInv PROVE BranchesLeaveNoTrace
    OBVIOUS
  <2>1. Last(readings) = readings[Len(pp) + 1]
    BY LastFront DEF TextTypeOK, StackTypeOK, BranchesInv, Traced
  <2> QED
    BY <2>1 DEF BranchesInv, Traced, BranchesLeaveNoTrace
<1> QED
  BY <1>1, <1>2, <1>3, TextTypes, PTL DEF Spec

----------------------------------------------------------------------------
(***************************************************************************)
(* Includes and the branches they are in.                                  *)
(***************************************************************************)
LEMMA Elements ==
  ASSUME NEW S, NEW s \in Seq(S)
  PROVE  /\ ToSet(s) \subseteq S
         /\ \A x \in S : ToSet(Append(s, x)) = ToSet(s) \cup {x}
         /\ s # << >> => ToSet(s) = ToSet(Front(s)) \cup {Last(s)}
<1>1. Len(s) \in Nat /\ DOMAIN s = 1 .. Len(s) /\ \A i \in 1 .. Len(s) : s[i] \in S
  OBVIOUS
<1>2. ToSet(s) = {s[i] : i \in 1 .. Len(s)}
  BY <1>1 DEF ToSet
<1>3. ASSUME NEW x \in S PROVE ToSet(Append(s, x)) = ToSet(s) \cup {x}
  <2> DEFINE t == Append(s, x)
             n == Len(s)
  <2>1. n \in Nat /\ t[n + 1] = x /\ DOMAIN t = 1 .. n + 1 /\ \A i \in 1 .. n : t[i] = s[i]
    OBVIOUS
  <2>2. ToSet(t) = {t[i] : i \in 1 .. n + 1}
    BY <2>1 DEF ToSet
  <2> HIDE DEF t, n
  <2>3. \A i \in 1 .. n + 1 : i \in 1 .. n \/ i = n + 1
    BY <2>1
  <2>4. (\A i \in 1 .. n : i \in 1 .. n + 1) /\ n + 1 \in 1 .. n + 1
    BY <2>1
  <2>5. \A y : y \in ToSet(t) <=> y \in {s[i] : i \in 1 .. n} \/ y = x
    BY <2>1, <2>2, <2>3, <2>4
  <2> QED
    BY <1>2, <2>5 DEF t, n
<1>4. ASSUME s # << >> PROVE ToSet(s) = ToSet(Front(s)) \cup {Last(s)}
  <2> DEFINE f == Front(s)
             n == Len(s)
  <2>1. /\ Last(s) = s[n] /\ f \in Seq(S) /\ Len(f) = n - 1 /\ n \in Nat \ {0}
        /\ \A i \in 1 .. n - 1 : f[i] = s[i]
    BY <1>4, LastFront
  <2> HIDE DEF f
  <2>2. DOMAIN f = 1 .. n - 1
    BY <2>1
  <2>3. ToSet(f) = {f[i] : i \in 1 .. n - 1}
    BY <2>2 DEF ToSet
  <2> HIDE DEF n
  <2>4. \A i \in 1 .. n : i \in 1 .. n - 1 \/ i = n
    BY <2>1
  <2>5. (\A i \in 1 .. n - 1 : i \in 1 .. n) /\ n \in 1 .. n
    BY <2>1
  <2>6. \A y : y \in {s[i] : i \in 1 .. n} <=> y \in ToSet(f) \/ y = s[n]
    BY <2>1, <2>3, <2>4, <2>5
  <2> QED
    BY <1>2, <2>1, <2>6 DEF f, n
<1> QED
  BY <1>1, <1>2, <1>3, <1>4

\* Entry e is in the list of the j-th of the lists.
Held(list, e, j) == j \in 1 .. Len(list) /\ e \in ToSet(list[j])

\* The conditionals of b are among the first n, and one is inside the other.
Within(b, n) == \A x \in ToSet(b) : x[1] \in 1 .. n
Numbered(b) == \A i, j \in 1 .. Len(b) : i < j => b[i][1] < b[j][1]

LEMMA NumberedFront ==
  ASSUME NEW b \in Seq(Nat \X Nat), b # << >>, NEW n \in Nat, Numbered(b), Within(b, n)
  PROVE  /\ Numbered(Front(b)) /\ Within(Front(b), n) /\ Within(Front(b), Last(b)[1] - 1)
         /\ Last(b)[1] \in 1 .. n
<1> DEFINE f == Front(b)
           m == Len(b)
<1>1. /\ Last(b) = b[m] /\ Last(b) \in Nat \X Nat /\ f \in Seq(Nat \X Nat) /\ Len(f) = m - 1
      /\ m \in Nat \ {0} /\ \A i \in 1 .. m - 1 : f[i] = b[i]
  BY LastFront
<1>2. ToSet(b) = ToSet(f) \cup {Last(b)}
  BY Elements
<1>3. DOMAIN f = 1 .. m - 1
  <2> HIDE DEF f
  <2> QED
    BY <1>1
<1> HIDE DEF f
<1>4. ToSet(f) = {f[i] : i \in 1 .. m - 1}
  BY <1>3 DEF ToSet
<1>5. \A i \in 1 .. m - 1 : b[i] \in Nat \X Nat /\ b[i][1] < b[m][1]
  <2>1. \A i \in 1 .. m - 1 : i \in 1 .. m /\ m \in 1 .. m /\ i < m
    <3>1. m \in Nat \ {0}
      BY <1>1
    <3> HIDE DEF m
    <3> QED
      BY <3>1
  <2>2. \A i \in 1 .. m : b[i] \in Nat \X Nat
    OBVIOUS
  <2> QED
    BY <2>1, <2>2 DEF Numbered
<1>6. Numbered(f)
  <2>1. \A i \in 1 .. m - 1 : i \in 1 .. m
    BY <1>1
  <2> QED
    BY <1>1, <2>1 DEF Numbered
<1>7. Within(f, n) /\ Last(b)[1] \in 1 .. n
  BY <1>2 DEF Within
<1>8. ASSUME NEW x \in ToSet(f) PROVE x[1] \in 1 .. Last(b)[1] - 1
  <2>1. PICK i \in 1 .. m - 1 : x = b[i]
    BY <1>1, <1>4
  <2>2. x[1] < Last(b)[1] /\ x[1] \in Nat /\ Last(b)[1] \in Nat
    BY <1>1, <1>5, <2>1
  <2>3. x[1] \in 1 .. n
    BY <1>7 DEF Within
  <2> QED
    BY <2>2, <2>3
<1> QED
  BY <1>6, <1>7, <1>8 DEF f, Within

LEMMA NumberedAppend ==
  ASSUME NEW b \in Seq(Nat \X Nat), NEW k \in Nat \ {0}, NEW arm \in Nat, Numbered(b), Within(b, k - 1)
  PROVE  Numbered(Append(b, <<k, arm>>)) /\ Within(Append(b, <<k, arm>>), k)
<1> DEFINE x == <<k, arm>>
           t == Append(b, x)
           n == Len(b)
<1>1. x \in Nat \X Nat /\ x[1] = k
  OBVIOUS
<1> HIDE DEF x
<1>2. n \in Nat /\ Len(t) = n + 1 /\ t[n + 1] = x /\ \A i \in 1 .. n : t[i] = b[i]
  BY <1>1, Appended
<1>3. ToSet(t) = ToSet(b) \cup {x}
  BY <1>1, Elements
<1>4. \A i \in 1 .. n : b[i] \in ToSet(b)
  BY DEF ToSet
<1> HIDE DEF t, n
<1>5. Within(t, k)
  <2>1. \A y \in ToSet(b) : y[1] \in 1 .. k
    <3>1. 1 .. k - 1 \subseteq 1 .. k
      OBVIOUS
    <3> QED
      BY <3>1 DEF Within
  <2> QED
    BY <1>1, <1>3, <2>1 DEF Within
<1>6. \A i \in 1 .. n : t[i][1] \in 1 .. k - 1
  BY <1>2, <1>4 DEF Within
<1>7. ASSUME NEW i \in 1 .. n + 1, NEW j \in 1 .. n + 1, i < j PROVE t[i][1] < t[j][1]
  <2>1. i \in 1 .. n
    BY <1>2, <1>7
  <2>2. CASE j \in 1 .. n
    BY <1>2, <1>7, <2>1, <2>2 DEF Numbered, n
  <2>3. CASE j = n + 1
    <3>1. t[j][1] = k /\ t[i][1] \in 1 .. k - 1
      BY <1>1, <1>2, <1>6, <2>1, <2>3
    <3> QED
      BY <3>1
  <2> QED
    BY <1>2, <2>2, <2>3
<1> QED
  BY <1>2, <1>5, <1>7 DEF Numbered, t, x

LEMMA NotExclusive ==
  ASSUME NEW b \in Seq(Nat \X Nat), Numbered(b)
  PROVE  ~Exclusive(b, b)
<1> SUFFICES ASSUME Exclusive(b, b) PROVE FALSE
  OBVIOUS
<1>1. ToSet(b) = {b[i] : i \in 1 .. Len(b)}
  BY DEF ToSet
<1>2. PICK i \in 1 .. Len(b), j \in 1 .. Len(b) : b[i][1] = b[j][1] /\ b[i][2] # b[j][2]
  <2>1. PICK x \in ToSet(b), y \in ToSet(b) : x[1] = y[1] /\ x[2] # y[2]
    BY DEF Exclusive
  <2>2. PICK i \in 1 .. Len(b) : x = b[i]
    BY <1>1, <2>1
  <2>3. PICK j \in 1 .. Len(b) : y = b[j]
    BY <1>1, <2>1
  <2> QED
    BY <2>1, <2>2, <2>3
<1>3. b[i] \in Nat \X Nat /\ b[j] \in Nat \X Nat
  OBVIOUS
<1>4. Len(b) \in Nat
  OBVIOUS
<1>5. i < j \/ j < i
  <2>1. i # j
    BY <1>2
  <2> QED
    BY <1>4, <2>1
<1> QED
  BY <1>2, <1>3, <1>5 DEF Numbered

\* What a directive and a new header do to the lists.
LEMMA HeldAfterDirective ==
  ASSUME IncludesTypeOK, NEW n \in Nat, Len(includeList) = n + 1,
         NEW directive \in {"if", "else", "endif"}
  PROVE  /\ Len(ListAfter(directive)) = IF directive = "if" THEN n + 2 ELSE n + 1
         /\ \A e, j : Held(ListAfter(directive), e, j) <=>
                        Held(includeList, e, j) /\ (directive = "else" => j # n + 1)
<1>1. includeList \in Seq(Seq(Entry)) /\ << >> \in Seq(Entry)
  BY DEF IncludesTypeOK, Entry
<1>2. ToSet(<< >>) = {}
  BY DEF ToSet
<1>3. CASE directive = "if"
  <2> DEFINE t == Append(includeList, << >>)
  <2>1. ListAfter(directive) = t
    BY <1>3 DEF ListAfter
  <2>2. Len(t) = n + 2 /\ t[n + 2] = << >> /\ \A i \in 1 .. n + 1 : t[i] = includeList[i]
    BY <1>1, Appended
  <2> HIDE DEF t
  <2>3. ASSUME NEW e, NEW j PROVE Held(t, e, j) <=> Held(includeList, e, j)
    <3>1. j \in 1 .. n + 2 <=> j \in 1 .. n + 1 \/ j = n + 2
      OBVIOUS
    <3> QED
      BY <1>2, <2>2, <3>1 DEF Held
  <2> QED
    BY <1>3, <2>1, <2>2, <2>3
<1>4. CASE directive = "else"
  <2> DEFINE t == [includeList EXCEPT ![Len(includeList)] = << >>]
  <2>1. ListAfter(directive) = t
    BY <1>4 DEF ListAfter
  <2>2. Len(t) = n + 1 /\ \A i \in 1 .. n + 1 : t[i] = IF i = n + 1 THEN << >> ELSE includeList[i]
    BY <1>1, Replaced
  <2> HIDE DEF t
  <2>3. ASSUME NEW e, NEW j PROVE Held(t, e, j) <=> Held(includeList, e, j) /\ j # n + 1
    BY <1>2, <2>2 DEF Held
  <2> QED
    BY <1>4, <2>1, <2>2, <2>3
<1>5. CASE directive = "endif"
  BY <1>5 DEF ListAfter
<1> QED
  BY <1>3, <1>4, <1>5

LEMMA HeldAfterHeader ==
  ASSUME IncludesTypeOK, NEW n \in Nat, Len(includeList) = n + 1,
         NEW h \in Header, IncludeRegistered(h)
  PROVE  /\ Len(includeList') = n + 1
         /\ \A e, j : Held(includeList', e, j) <=>
              Held(includeList, e, j)
                \/ (j = n + 1 /\ e = [header |-> h, branches |-> branches, at |-> opened])
<1> DEFINE new == [header |-> h, branches |-> branches, at |-> opened]
           l == includeList[n + 1]
           t == Append(l, new)
<1>1. includeList \in Seq(Seq(Entry)) /\ branches \in Seq(Nat \X Nat) /\ opened \in Nat
  BY DEF IncludesTypeOK, Entry
<1>2. new \in Entry
  BY <1>1 DEF Entry
<1>3. includeList' = [includeList EXCEPT ![n + 1] = t]
  BY DEF IncludeRegistered
<1> HIDE DEF new
<1>4. n + 1 \in 1 .. n + 1
  OBVIOUS
<1>5. l \in Seq(Entry)
  BY <1>1, <1>4
<1> HIDE DEF l
<1>6. t \in Seq(Entry) /\ ToSet(t) = ToSet(l) \cup {new}
  BY <1>2, <1>5, Appended, Elements
<1> HIDE DEF t
<1>7. Len(includeList') = n + 1 /\ \A i \in 1 .. n + 1 : includeList'[i] = IF i = n + 1 THEN t ELSE includeList[i]
  BY <1>1, <1>3, <1>6, Replaced
<1>8. ASSUME NEW e, NEW j PROVE Held(includeList', e, j) <=> Held(includeList, e, j) \/ (j = n + 1 /\ e = new)
  BY <1>4, <1>6, <1>7 DEF Held, l
<1> QED
  BY <1>7, <1>8 DEF new

\* The text has left an arm of b: c is in a later one or after its #endif.
Left(b, c) == \E x \in ToSet(b) : \A y \in ToSet(c) : y[1] = x[1] => y[2] > x[2]

\* There is a list for every conditional, open or not, and one for the file, and
\* an entry is in that of the last conditional before it.  As long as this is
\* the last of all, the entry's arms are open, since every #else empties it; and
\* an entry that was in it then has been left by the #else, unless this had no
\* #if.
IncludesInv ==
  /\ Len(includeList) = opened + 1
  /\ Numbered(branches) /\ Within(branches, opened)
  /\ \A e, j : Held(includeList, e, j) => e \in seen /\ j = e.at + 1
  /\ \A e : Held(includeList, e, opened + 1) =>
       ToSet(branches) \subseteq ToSet(e.branches) /\ Numbered(e.branches)
  /\ seen \subseteq Entry /\ \A e \in seen : Within(e.branches, opened)
  /\ ~stray => \A e \in seen : Held(includeList, e, e.at + 1) \/ Left(e.branches, branches)
  /\ ~ended => missing = {}
  /\ \A h \in missing : \A e, j : Held(includeList, e, j) => ~SamePath(h, e.header)
  /\ "twice" \in told => \E e, j : Held(includeList, e, j) /\ SamePath(e.header, header)

LEMMA HeldEntry ==
  ASSUME IncludesTypeOK, NEW e, NEW j, Held(includeList, e, j)
  PROVE  /\ e \in Entry /\ e.header \in Header /\ e.branches \in Seq(Nat \X Nat)
         /\ j \in 1 .. Len(includeList) /\ j \in Int /\ Included(e.header) /\ e.header \in Listed
<1>1. includeList \in Seq(Seq(Entry)) /\ DOMAIN includeList = 1 .. Len(includeList) /\ Len(includeList) \in Nat
  BY DEF IncludesTypeOK, Entry
<1>2. j \in 1 .. Len(includeList) /\ e \in ToSet(includeList[j])
  BY DEF Held
<1>3. includeList[j] \in Seq(Entry)
  BY <1>1, <1>2
<1>4. e \in Entry
  BY <1>2, <1>3, Elements
<1>5. SamePath(e.header, e.header)
  BY DEF SamePath
<1>6. e.header \in Listed
  <2> DEFINE of(i) == {x.header : x \in ToSet(includeList[i])}
  <2>1. e.header \in of(j)
    BY <1>2
  <2>2. Listed = UNION {of(i) : i \in DOMAIN includeList}
    BY DEF Listed
  <2> HIDE DEF of
  <2> QED
    BY <1>1, <1>2, <2>1, <2>2
<1>7. Included(e.header)
  BY <1>1, <1>2, <1>5 DEF Included
<1>8. e.header \in Header /\ e.branches \in Seq(Nat \X Nat)
  BY <1>4 DEF Entry
<1>9. j \in Int
  BY <1>1, <1>2
<1> QED
  BY <1>2, <1>4, <1>6, <1>7, <1>8, <1>9

LEMMA DirectiveRemembers ==
  ASSUME IncludesTypeOK, IncludesInv, ~ended, ~ended', NEW directive \in {"if", "else", "endif"},
         IncludeDirective(directive)
  PROVE  IncludesInv'
<1> DEFINE n == opened
           m == IF directive = "if" THEN n + 1 ELSE n
<1>1. /\ branches \in Seq(Nat \X Nat) /\ n \in Nat /\ Len(includeList) = n + 1
      /\ Numbered(branches) /\ Within(branches, n)
  BY DEF IncludesTypeOK, IncludesInv
<1>2. /\ includeList' = ListAfter(directive) /\ opened' = m /\ branches' = BranchesAfter(directive)
      /\ seen' = seen /\ missing' = missing /\ told' = {}
      /\ stray' = (stray \/ (directive = "else" /\ branches = << >>))
  BY DEF IncludeDirective
<1>3. /\ Len(includeList') = m + 1
      /\ \A e, j : Held(includeList', e, j) <=> Held(includeList, e, j) /\ (directive = "else" => j # n + 1)
  BY <1>1, <1>2, HeldAfterDirective
<1>4. branches # << >> => /\ Numbered(Front(branches)) /\ Within(Front(branches), n)
                          /\ Within(Front(branches), Last(branches)[1] - 1)
                          /\ Last(branches)[1] \in 1 .. n
                          /\ Last(branches) \in Nat \X Nat /\ Front(branches) \in Seq(Nat \X Nat)
                          /\ ToSet(branches) = ToSet(Front(branches)) \cup {Last(branches)}
  BY <1>1, NumberedFront, LastFront, Elements
<1>5. /\ \A e, j : Held(includeList, e, j) => e \in seen /\ j = e.at + 1
      /\ \A e : Held(includeList, e, n + 1) =>
           ToSet(branches) \subseteq ToSet(e.branches) /\ Numbered(e.branches)
      /\ ~stray => \A e \in seen : Held(includeList, e, e.at + 1) \/ Left(e.branches, branches)
      /\ missing = {}
  BY DEF IncludesInv
<1>6. \A e, j : Held(includeList, e, j) => j \in 1 .. n + 1
  BY <1>1 DEF Held
<1>7. seen \subseteq Entry /\ \A e \in seen : Within(e.branches, n)
  BY DEF IncludesInv
<1>8. ASSUME NEW e \in seen, NEW x \in ToSet(e.branches) PROVE x \in Nat \X Nat /\ x[1] \in 1 .. n
  <2>1. e.branches \in Seq(Nat \X Nat)
    BY <1>7 DEF Entry
  <2>2. ToSet(e.branches) \subseteq Nat \X Nat
    BY <2>1, Elements
  <2> QED
    BY <1>7, <2>2 DEF Within
\* What is left to show, for each of the three directives.
<1>9. SUFFICES /\ Numbered(branches') /\ Within(branches', m)
               /\ \A e : Held(includeList', e, m + 1) =>
                    ToSet(branches') \subseteq ToSet(e.branches) /\ Numbered(e.branches)
               /\ ~stray' => \A e \in seen : Held(includeList', e, e.at + 1) \/ Left(e.branches, branches')
  <2>1. \A e, j : Held(includeList', e, j) => e \in seen' /\ j = e.at + 1
    BY <1>2, <1>3, <1>5
  <2>2. Len(includeList') = opened' + 1 /\ Numbered(branches') /\ Within(branches', opened')
    BY <1>2, <1>3, <1>9
  <2>3. \A e : Held(includeList', e, opened' + 1) =>
          ToSet(branches') \subseteq ToSet(e.branches) /\ Numbered(e.branches)
    BY <1>2, <1>9
  <2>4. ~stray' => \A e \in seen' : Held(includeList', e, e.at + 1) \/ Left(e.branches, branches')
    BY <1>2, <1>9
  <2>5. missing' = {} /\ "twice" \notin told'
    BY <1>2, <1>5
  <2>6. seen' \subseteq Entry /\ \A e \in seen' : Within(e.branches, opened')
    <3>1. 1 .. n \subseteq 1 .. m
      BY <1>1
    <3> HIDE DEF m
    <3> QED
      BY <1>2, <1>7, <3>1 DEF Within
  <2> HIDE DEF m
  <2> QED
    BY <2>1, <2>2, <2>3, <2>4, <2>5, <2>6 DEF IncludesInv
<1>10. CASE directive = "if"
  <2> DEFINE x == <<n + 1, 0>>
  <2>1. branches' = Append(branches, x) /\ m = n + 1 /\ (stray' <=> stray)
    BY <1>2, <1>10 DEF BranchesAfter
  <2>2. x \in Nat \X Nat /\ x[1] = n + 1
    BY <1>1
  <2>3. ToSet(branches') = ToSet(branches) \cup {x}
    <3> HIDE DEF x
    <3>1. ToSet(Append(branches, x)) = ToSet(branches) \cup {x}
      BY <1>1, <2>2, Elements
    <3> QED
      BY <2>1, <3>1
  <2>4. Numbered(branches') /\ Within(branches', n + 1)
    <3>1. n + 1 \in Nat \ {0} /\ (n + 1) - 1 = n /\ 0 \in Nat
      BY <1>1
    <3> QED
      BY <1>1, <2>1, <3>1, NumberedAppend
  <2> HIDE DEF x
  <2>5. \A e : ~Held(includeList', e, m + 1)
    <3>1. \A e : ~Held(includeList, e, n + 2)
      BY <1>1, <1>6
    <3>2. m + 1 = n + 2
      BY <1>1, <2>1
    <3> QED
      BY <1>3, <3>1, <3>2
  <2>6. ASSUME NEW e \in seen, Left(e.branches, branches) PROVE Left(e.branches, branches')
    <3>1. PICK z \in ToSet(e.branches) : \A y \in ToSet(branches) : y[1] = z[1] => y[2] > z[2]
      BY <2>6 DEF Left
    <3>2. z[1] # n + 1
      BY <1>1, <1>8
    <3> QED
      BY <2>2, <2>3, <3>1, <3>2 DEF Left
  <2>7. \A e \in seen : Held(includeList, e, e.at + 1) => Held(includeList', e, e.at + 1)
    BY <1>3, <1>10
  <2> QED
    BY <1>5, <2>1, <2>4, <2>5, <2>6, <2>7
<1>11. CASE directive = "else"
  <2>1. m = n /\ \A e : ~Held(includeList', e, m + 1)
    BY <1>3, <1>11
  <2>2. CASE branches = << >>
    <3>1. branches' = branches /\ stray'
      BY <1>2, <1>11, <2>2 DEF BranchesAfter
    <3> QED
      BY <1>1, <2>1, <3>1
  <2>3. CASE branches # << >>
    <3> DEFINE f == Front(branches)
               k == Last(branches)[1]
               arm == Last(branches)[2]
               x == <<k, arm + 1>>
    <3>1. branches' = Append(f, x) /\ (stray' <=> stray)
      BY <1>2, <1>11, <2>3 DEF BranchesAfter
    <3>2. /\ k \in 1 .. n /\ k \in Nat \ {0} /\ arm \in Nat /\ arm + 1 \in Nat
          /\ x[1] = k /\ x[2] = arm + 1 /\ x \in Nat \X Nat
          /\ f \in Seq(Nat \X Nat) /\ Numbered(f) /\ Within(f, k - 1)
          /\ ToSet(branches) = ToSet(f) \cup {Last(branches)}
      BY <1>4, <2>3
    <3>3. Numbered(Append(f, x)) /\ Within(Append(f, x), k)
      <4>1. \A a \in Nat : Numbered(Append(f, <<k, a>>)) /\ Within(Append(f, <<k, a>>), k)
        <5> HIDE DEF f, k
        <5> QED
          BY <3>2, NumberedAppend
      <4> QED
        BY <3>2, <4>1
    <3>4. ToSet(branches') = ToSet(f) \cup {x}
      <4>a. f \in Seq(Nat \X Nat) /\ x \in Nat \X Nat
        BY <3>2
      <4> HIDE DEF f, x, k, arm
      <4>1. ToSet(Append(f, x)) = ToSet(f) \cup {x}
        BY <4>a, Elements
      <4> QED
        BY <3>1, <4>1
    <3>5. Last(branches)[1] = k /\ Last(branches)[2] = arm
      OBVIOUS
    <3> HIDE DEF f, k, arm, x
    <3>6. Numbered(branches') /\ Within(branches', n)
      <4>1. 1 .. k \subseteq 1 .. n
        BY <1>1, <3>2
      <4> QED
        BY <3>1, <3>3, <4>1 DEF Within
    <3>7. ASSUME NEW e \in seen, Left(e.branches, branches) PROVE Left(e.branches, branches')
      <4>1. PICK z \in ToSet(e.branches) : \A y \in ToSet(branches) : y[1] = z[1] => y[2] > z[2]
        BY <3>7 DEF Left
      <4>2. z[2] \in Nat
        BY <1>8
      <4>3. x[1] = z[1] => x[2] > z[2]
        BY <3>2, <3>5, <4>1, <4>2
      <4> QED
        BY <3>2, <3>4, <4>1, <4>3 DEF Left
    <3>8. ASSUME NEW e \in seen, Held(includeList, e, e.at + 1)
          PROVE  Held(includeList', e, e.at + 1) \/ Left(e.branches, branches')
      <4>1. CASE e.at + 1 # n + 1
        BY <1>3, <3>8, <4>1
      <4>2. CASE e.at + 1 = n + 1
        <5> DEFINE z == Last(branches)
        <5>1. z \in ToSet(e.branches)
          BY <1>5, <3>2, <3>8, <4>2
        <5>2. \A y \in ToSet(f) : y[1] # z[1]
          <6>1. \A i \in 1 .. k - 1 : i # k
            BY <3>2
          <6> QED
            BY <3>2, <3>5, <6>1 DEF Within
        <5>3. x[2] > z[2]
          BY <3>2, <3>5
        <5> HIDE DEF z
        <5> QED
          BY <3>4, <5>1, <5>2, <5>3 DEF Left
      <4> QED
        BY <4>1, <4>2
    <3> QED
      BY <1>5, <2>1, <3>1, <3>6, <3>7, <3>8
  <2> QED
    BY <2>2, <2>3
<1>12. CASE directive = "endif"
  <2>1. m = n /\ (stray' <=> stray) /\ \A e, j : Held(includeList', e, j) <=> Held(includeList, e, j)
    BY <1>2, <1>3, <1>12
  <2>2. Numbered(branches') /\ Within(branches', n) /\ ToSet(branches') \subseteq ToSet(branches)
    <3>1. CASE branches = << >>
      BY <1>1, <1>2, <1>12, <3>1 DEF BranchesAfter
    <3>2. CASE branches # << >>
      BY <1>2, <1>4, <1>12, <3>2 DEF BranchesAfter
    <3> QED
      BY <3>1, <3>2
  <2>3. \A e : Left(e.branches, branches) => Left(e.branches, branches')
    BY <2>2 DEF Left
  <2> HIDE DEF m
  <2> QED
    BY <1>5, <2>1, <2>2, <2>3
<1> QED
  BY <1>10, <1>11, <1>12

LEMMA RegisteredRemembers ==
  ASSUME IncludesTypeOK, IncludesInv, ~ended, ~ended', NEW h \in Header, IncludeRegistered(h)
  PROVE  IncludesInv'
<1> DEFINE n == opened
           new == [header |-> h, branches |-> branches, at |-> opened]
<1>1. /\ branches \in Seq(Nat \X Nat) /\ n \in Nat /\ Len(includeList) = n + 1
      /\ Numbered(branches) /\ Within(branches, n) /\ missing = {}
  BY DEF IncludesTypeOK, IncludesInv
<1>2. /\ opened' = opened /\ branches' = branches /\ stray' = stray /\ missing' = missing
      /\ seen' = seen \cup {new}
  BY DEF IncludeRegistered
<1>3. "twice" \notin told'
  BY DEF IncludeRegistered, DirectoryTold, OrderReport
<1>4. /\ Len(includeList') = n + 1
      /\ \A e, j : Held(includeList', e, j) <=> Held(includeList, e, j) \/ (j = n + 1 /\ e = new)
  BY <1>1, HeldAfterHeader
<1>5. new.branches = branches /\ new.at = n /\ new \in Entry
  BY <1>1 DEF Entry
<1> HIDE DEF new
<1>6. \A e, j : Held(includeList', e, j) => e \in seen' /\ j = e.at + 1
  BY <1>2, <1>4, <1>5 DEF IncludesInv
<1>7. \A e : Held(includeList', e, n + 1) =>
        ToSet(branches) \subseteq ToSet(e.branches) /\ Numbered(e.branches)
  BY <1>1, <1>4, <1>5 DEF IncludesInv
<1>8. seen' \subseteq Entry /\ \A e \in seen' : Within(e.branches, n)
  BY <1>1, <1>2, <1>5 DEF IncludesInv
<1>9. ~stray => \A e \in seen' : Held(includeList', e, e.at + 1) \/ Left(e.branches, branches)
  <2>1. Held(includeList', new, new.at + 1)
    BY <1>4, <1>5
  <2>2. ~stray => \A e \in seen : Held(includeList', e, e.at + 1) \/ Left(e.branches, branches)
    BY <1>4 DEF IncludesInv
  <2> QED
    BY <1>2, <2>1, <2>2
<1>10. Len(includeList') = opened' + 1 /\ Numbered(branches') /\ Within(branches', opened')
  BY <1>1, <1>2, <1>4
<1>11. missing' = {}
  BY <1>1, <1>2
<1> QED
  BY <1>2, <1>3, <1>6, <1>7, <1>8, <1>9, <1>10, <1>11 DEF IncludesInv

\* Steps that leave the lists and the branches alone.
listVars == <<includeList, branches, opened, stray, seen>>

LEMMA OthersRemember ==
  ASSUME IncludesInv, UNCHANGED listVars,
         ~ended' => missing' = {},
         \A h \in missing' : \A e, j : Held(includeList, e, j) => ~SamePath(h, e.header),
         "twice" \in told' => \E e, j : Held(includeList, e, j) /\ SamePath(e.header, header')
  PROVE  IncludesInv'
BY DEF IncludesInv, listVars

LEMMA EndRemembers ==
  ASSUME IncludesTypeOK, IncludesInv, EndOfFile
  PROVE  IncludesInv'
<1>1. ASSUME NEW h \in missing', NEW e, NEW j, Held(includeList, e, j) PROVE ~SamePath(h, e.header)
  <2>1. ~\E g \in Listed : SamePath(g, h)
    BY <1>1 DEF EndOfFile, IncludesEnd
  <2>2. e.header \in Listed
    BY <1>1, HeldEntry
  <2> QED
    BY <2>1, <2>2 DEF SamePath
<1>2. "twice" \notin told' /\ ended' /\ UNCHANGED listVars
  BY DEF EndOfFile, IncludesEnd, listVars
<1> QED
  BY <1>1, <1>2, OthersRemember

LEMMA LineRemembers ==
  ASSUME TextTypeOK, IncludesInv, NEW l \in Alphabet[subject], ProcessLine(l)
  PROVE  IncludesInv'
<1>1. IncludesTypeOK /\ l \in Line /\ IncludesOf(l) /\ header' = l.include /\ ~ended /\ ~ended'
  BY LineOf DEF TextTypeOK, ProcessLine
<1>2. l.include \in Header \cup {NoHeader} /\ l.pp \in {"if", "else", "endif", "none"}
  BY <1>1 DEF Line
<1>3. missing = {}
  BY <1>1 DEF IncludesInv
<1>4. CASE UsesLine(l.uses)
  <2>1. UNCHANGED listVars /\ missing' = {} /\ "twice" \notin told'
    BY <1>3, <1>4 DEF UsesLine, listVars
  <2> QED
    BY <2>1, OthersRemember
<1>5. ASSUME NEW directive \in {"if", "else", "endif"}, IncludeDirective(directive) PROVE IncludesInv'
  BY <1>1, <1>5, DirectiveRemembers
<1>6. ASSUME NEW h \in Header, h = l.include, IncludeLine(h) PROVE IncludesInv'
  <2>1. CASE IncludeRegistered(h)
    BY <1>1, <2>1, RegisteredRemembers
  <2>2. CASE IncludeUnregistered(h)
    <3>1. UNCHANGED listVars /\ missing' = {} /\ "twice" \notin told'
      BY <1>3, <2>2 DEF IncludeUnregistered, DirectoryTold, listVars
    <3> QED
      BY <3>1, OthersRemember
  <2>3. CASE IncludeTwice(h)
    <3>1. UNCHANGED listVars /\ missing' = {} /\ Included(h)
      BY <1>3, <2>3 DEF IncludeTwice, listVars
    <3>2. PICK i \in DOMAIN includeList : \E e \in ToSet(includeList[i]) : SamePath(e.header, h)
      BY <3>1 DEF Included
    <3>3. i \in 1 .. Len(includeList)
      BY <1>1, <3>2 DEF IncludesTypeOK
    <3>4. \E e, j : Held(includeList, e, j) /\ SamePath(e.header, header')
      BY <1>1, <1>6, <3>2, <3>3 DEF Held
    <3> QED
      BY <3>1, <3>4, OthersRemember
  <2> QED
    BY <1>6, <2>1, <2>2, <2>3 DEF IncludeLine
<1>7. CASE IncludeDirective(l.pp) /\ l.pp # "none"
  BY <1>2, <1>5, <1>7
<1>8. CASE IncludeLine(l.include) /\ l.include # NoHeader
  BY <1>2, <1>6, <1>8
<1> QED
  BY <1>1, <1>4, <1>7, <1>8 DEF IncludesOf

\* However the conditionals of a file are nested: a header that every build has
\* where the file is now is never forgotten, neither by FindHeader nor when
\* CheckForIncludeWhatYouUse reports missing headers, as long as no #else comes
\* without an #if; and one that is reported as included twice has been included
\* on a line that a build can contain together with this one, or with another
\* #if between the two.
THEOREM IncludesAreRemembered == Spec => []IncludesRemembered
<1>1. Init => IncludesInv
  <2> SUFFICES ASSUME Init PROVE IncludesInv
    OBVIOUS
  <2>1. /\ includeList = << << >> >> /\ opened = 0 /\ branches = << >> /\ seen = {} /\ missing = {}
        /\ told = {}
    BY DEF Init, IncludesInit
  <2>2. Len(<< << >> >>) = 1 /\ << << >> >>[1] = << >> /\ ToSet(<< >>) = {} /\ Len(<< >>) = 0
    BY DEF ToSet
  <2>3. \A e, j : ~Held(includeList, e, j)
    <3>1. \A j \in 1 .. 1 : j = 1
      OBVIOUS
    <3> QED
      BY <2>1, <2>2, <3>1 DEF Held
  <2>4. Numbered(branches) /\ Within(branches, opened)
    BY <2>1, <2>2 DEF Numbered, Within
  <2> QED
    BY <2>1, <2>2, <2>3, <2>4 DEF IncludesInv
<1>2. TextTypeOK /\ IncludesInv /\ [Next]_vars => IncludesInv'
  <2> SUFFICES ASSUME TextTypeOK, IncludesInv, [Next]_vars PROVE IncludesInv'
    OBVIOUS
  <2>1. CASE UNCHANGED vars
    BY <2>1 DEF vars, fileVars, includeVars, IncludesInv
  <2> QED
    BY <2>1, LineRemembers, EndRemembers DEF Next, Done, TextTypeOK
<1>3. TextTypeOK /\ IncludesInv => IncludesRemembered
  <2> SUFFICES ASSUME TextTypeOK, IncludesInv PROVE IncludesRemembered
    OBVIOUS
  <2>1. ASSUME ~stray, NEW e \in seen, ToSet(e.branches) \subseteq ToSet(branches)
        PROVE  Included(e.header) /\ \A h \in missing : ~SamePath(h, e.header)
    <3>1. ~Left(e.branches, branches)
      <4>1. branches \in Seq(Nat \X Nat)
        BY DEF TextTypeOK, IncludesTypeOK
      <4>2. ASSUME NEW x \in ToSet(branches) PROVE ~(x[2] > x[2])
        <5>1. x \in Nat \X Nat
          BY <4>1, Elements
        <5> QED
          BY <5>1
      <4> QED
        BY <2>1, <4>2 DEF Left
    <3>2. Held(includeList, e, e.at + 1)
      BY <2>1, <3>1 DEF IncludesInv
    <3> QED
      BY <3>2, HeldEntry DEF IncludesInv, TextTypeOK
  <2>2. ASSUME "twice" \in told
        PROVE  \E e \in seen : SamePath(e.header, header) /\ (Exclusive(e.branches, branches) => e.at < opened)
    <3>1. PICK e, j : Held(includeList, e, j) /\ SamePath(e.header, header)
      BY <2>2 DEF IncludesInv
    <3>2. e \in seen /\ j = e.at + 1 /\ Len(includeList) = opened + 1
      BY <3>1 DEF IncludesInv
    <3>3. /\ e \in Entry /\ e.branches \in Seq(Nat \X Nat) /\ e.at \in Nat /\ opened \in Nat
          /\ j \in 1 .. Len(includeList)
      BY <3>1, HeldEntry DEF TextTypeOK, IncludesTypeOK, Entry
    <3>4. ASSUME ~(e.at < opened) PROVE ~Exclusive(e.branches, branches)
      <4>1. e.at = opened
        BY <3>2, <3>3, <3>4
      <4>2. ToSet(branches) \subseteq ToSet(e.branches) /\ Numbered(e.branches)
        BY <3>1, <3>2, <4>1 DEF IncludesInv
      <4>3. ~Exclusive(e.branches, e.branches)
        BY <3>3, <4>2, NotExclusive
      <4> QED
        BY <4>2, <4>3 DEF Exclusive
    <3> QED
      BY <3>1, <3>2, <3>4
  <2> QED
    BY <2>1, <2>2 DEF IncludesRemembered
<1> QED
  BY <1>1, <1>2, <1>3, TextTypes, PTL DEF Spec

----------------------------------------------------------------------------
(***************************************************************************)
(* Bracketed expressions.                                                  *)
(***************************************************************************)
\* Where the elements of t are on s.
Places(f, s, t, angle, M) ==
  /\ f \in [1 .. Len(t) -> 1 .. Len(s)]
  /\ \A i, j \in 1 .. Len(t) : i < j => f[i] < f[j]
  /\ \A i \in 1 .. Len(t) : s[f[i]] # angle /\ M[s[f[i]]] = t[i]
  /\ \A j \in 1 .. Len(s) : s[j] # angle => \E i \in 1 .. Len(t) : f[i] = j

\* A stack of brackets without its angle brackets, by M, is t: no angle bracket
\* is at the bottom.
Shadow(s, t, angle, M) ==
  /\ s \in Seq(DOMAIN M \cup {angle}) /\ t \in Seq(Closing)
  /\ s # << >> => s[1] # angle
  /\ \E f : Places(f, s, t, angle, M)

Matching(M, angle) == M \in [DOMAIN M -> Closing] /\ angle \notin DOMAIN M

LEMMA ShadowEmpty ==
  ASSUME NEW M, NEW angle
  PROVE  Shadow(<< >>, << >>, angle, M)
<1> DEFINE f == [i \in 1 .. 0 |-> i]
<1>1. Len(<< >>) = 0 /\ << >> \in Seq(DOMAIN M \cup {angle}) /\ << >> \in Seq(Closing)
  OBVIOUS
<1>2. \A i \in 1 .. 0 : FALSE
  OBVIOUS
<1>3. f \in [1 .. 0 -> 1 .. 0]
  BY <1>2
<1> HIDE DEF f
<1>4. Places(f, << >>, << >>, angle, M)
  BY <1>1, <1>2, <1>3 DEF Places
<1> QED
  BY <1>1, <1>4 DEF Shadow

LEMMA ShadowPush ==
  ASSUME NEW M, NEW angle, Matching(M, angle), NEW s, NEW t, Shadow(s, t, angle, M), NEW x \in DOMAIN M
  PROVE  Shadow(Append(s, x), Append(t, M[x]), angle, M)
<1> DEFINE y == M[x]
           S == DOMAIN M \cup {angle}
           u == Append(s, x)
           v == Append(t, y)
           n == Len(s)
           m == Len(t)
<1>1. s \in Seq(S) /\ t \in Seq(Closing) /\ x \in S /\ x # angle /\ y \in Closing
      /\ (s # << >> => s[1] # angle)
  BY DEF Shadow, Matching
<1>2. PICK f : Places(f, s, t, angle, M)
  BY DEF Shadow
<1>3. /\ u \in Seq(S) /\ n \in Nat /\ Len(u) = n + 1 /\ u[n + 1] = x
      /\ \A i \in 1 .. n : u[i] = s[i]
  BY <1>1, Appended
<1>4. /\ v \in Seq(Closing) /\ m \in Nat /\ Len(v) = m + 1 /\ v[m + 1] = y
      /\ \A i \in 1 .. m : v[i] = t[i]
  <2> HIDE DEF y
  <2> QED
    BY <1>1, Appended
<1>5. u[1] # angle
  <2>1. CASE n = 0
    BY <1>1, <1>3, <2>1
  <2>2. CASE n # 0
    <3>1. 1 \in 1 .. n /\ s # << >>
      BY <1>3, <2>2
    <3> QED
      BY <1>1, <1>3, <3>1
  <2> QED
    BY <2>1, <2>2
<1> DEFINE g == [i \in 1 .. m + 1 |-> IF i = m + 1 THEN n + 1 ELSE f[i]]
<1>6. /\ f \in [1 .. m -> 1 .. n]
      /\ \A i, j \in 1 .. m : i < j => f[i] < f[j]
      /\ \A i \in 1 .. m : s[f[i]] # angle /\ M[s[f[i]]] = t[i]
      /\ \A j \in 1 .. n : s[j] # angle => \E i \in 1 .. m : f[i] = j
  BY <1>2 DEF Places
<1> HIDE DEF u, v, n, m, S
<1>7. \A i \in 1 .. m + 1 : i \in 1 .. m \/ i = m + 1
  BY <1>4
<1>8. \A i \in 1 .. m : i \in 1 .. m + 1 /\ i # m + 1 /\ f[i] \in 1 .. n /\ f[i] \in 1 .. n + 1 /\ f[i] < n + 1
  BY <1>3, <1>4, <1>6
<1>9. m + 1 \in 1 .. m + 1 /\ n + 1 \in 1 .. n + 1
  BY <1>3, <1>4
<1>10. g[m + 1] = n + 1 /\ \A i \in 1 .. m : g[i] = f[i]
  BY <1>8, <1>9
<1>11. g \in [1 .. m + 1 -> 1 .. n + 1]
  BY <1>7, <1>8, <1>9
<1> HIDE DEF g
<1>12. ASSUME NEW i \in 1 .. m + 1, NEW j \in 1 .. m + 1, i < j PROVE g[i] < g[j]
  <2>1. i \in 1 .. m
    BY <1>4, <1>12
  <2>2. CASE j \in 1 .. m
    BY <1>6, <1>10, <1>12, <2>1, <2>2
  <2>3. CASE j = m + 1
    BY <1>8, <1>10, <2>1, <2>3
  <2> QED
    BY <1>7, <2>2, <2>3
<1>13. ASSUME NEW i \in 1 .. m + 1 PROVE u[g[i]] # angle /\ M[u[g[i]]] = v[i]
  <2>1. CASE i \in 1 .. m
    <3>1. g[i] = f[i] /\ f[i] \in 1 .. n /\ u[f[i]] = s[f[i]] /\ v[i] = t[i]
      BY <1>3, <1>4, <1>8, <1>10, <2>1
    <3> QED
      BY <1>6, <2>1, <3>1
  <2>2. CASE i = m + 1
    BY <1>1, <1>3, <1>4, <1>10, <2>2
  <2> QED
    BY <1>7, <2>1, <2>2
<1>14. ASSUME NEW j \in 1 .. n + 1, u[j] # angle PROVE \E i \in 1 .. m + 1 : g[i] = j
  <2>1. CASE j = n + 1
    BY <1>9, <1>10, <2>1
  <2>2. CASE j \in 1 .. n
    <3>1. PICK i \in 1 .. m : f[i] = j
      BY <1>3, <1>6, <1>14, <2>2
    <3> QED
      BY <1>8, <1>10, <3>1
  <2>3. j = n + 1 \/ j \in 1 .. n
    BY <1>3
  <2> QED
    BY <2>1, <2>2, <2>3
<1>15. Places(g, u, v, angle, M)
  BY <1>3, <1>4, <1>11, <1>12, <1>13, <1>14 DEF Places
<1> QED
  BY <1>3, <1>4, <1>5, <1>15 DEF Shadow, S, u, v, y

LEMMA ShadowPushAngle ==
  ASSUME NEW M, NEW angle, Matching(M, angle), NEW s, NEW t, Shadow(s, t, angle, M), s # << >>
  PROVE  Shadow(Append(s, angle), t, angle, M)
<1> DEFINE S == DOMAIN M \cup {angle}
           u == Append(s, angle)
           n == Len(s)
           m == Len(t)
<1>1. s \in Seq(S) /\ t \in Seq(Closing) /\ s[1] # angle
  BY DEF Shadow
<1>2. PICK f : Places(f, s, t, angle, M)
  BY DEF Shadow
<1>3. /\ u \in Seq(S) /\ n \in Nat \ {0} /\ Len(u) = n + 1 /\ u[n + 1] = angle
      /\ \A i \in 1 .. n : u[i] = s[i]
  BY <1>1, Appended
<1>4. /\ f \in [1 .. m -> 1 .. n]
      /\ \A i, j \in 1 .. m : i < j => f[i] < f[j]
      /\ \A i \in 1 .. m : s[f[i]] # angle /\ M[s[f[i]]] = t[i]
      /\ \A j \in 1 .. n : s[j] # angle => \E i \in 1 .. m : f[i] = j
  BY <1>2 DEF Places
<1> HIDE DEF u, n, m, S
<1>5. f \in [1 .. m -> 1 .. n + 1]
  <2>1. 1 .. n \subseteq 1 .. n + 1
    BY <1>3
  <2> QED
    BY <1>4, <2>1
<1>6. \A i \in 1 .. m : u[f[i]] = s[f[i]]
  BY <1>3, <1>4
<1>7. \A j \in 1 .. n + 1 : u[j] # angle => j \in 1 .. n /\ s[j] # angle
  BY <1>3
<1>8. Places(f, u, t, angle, M)
  BY <1>3, <1>4, <1>5, <1>6, <1>7 DEF Places, m
<1>9. u[1] # angle
  BY <1>1, <1>3
<1> QED
  BY <1>1, <1>3, <1>8, <1>9 DEF Shadow, S, u

\* What is left of a stack when angle brackets above are dropped.
LEMMA ShadowCut ==
  ASSUME NEW M, NEW angle, Matching(M, angle), NEW s, NEW t, Shadow(s, t, angle, M),
         NEW k \in 0 .. Len(s), \A i \in k + 1 .. Len(s) : s[i] = angle
  PROVE  /\ Shadow(SubSeq(s, 1, k), t, angle, M)
         /\ Len(SubSeq(s, 1, k)) = k /\ \A i \in 1 .. k : SubSeq(s, 1, k)[i] = s[i]
         /\ s # << >> => k # 0
<1> DEFINE S == DOMAIN M \cup {angle}
           u == SubSeq(s, 1, k)
           n == Len(s)
           m == Len(t)
<1>1. s \in Seq(S) /\ t \in Seq(Closing) /\ (s # << >> => s[1] # angle)
  BY DEF Shadow
<1>2. PICK f : Places(f, s, t, angle, M)
  BY DEF Shadow
<1>3. u \in Seq(S) /\ Len(u) = k /\ n \in Nat /\ k \in 0 .. n /\ \A i \in 1 .. k : u[i] = s[i]
  <2> HIDE DEF S
  <2> QED
    BY <1>1
<1>4. /\ f \in [1 .. m -> 1 .. n]
      /\ \A i, j \in 1 .. m : i < j => f[i] < f[j]
      /\ \A i \in 1 .. m : s[f[i]] # angle /\ M[s[f[i]]] = t[i]
      /\ \A j \in 1 .. n : s[j] # angle => \E i \in 1 .. m : f[i] = j
  BY <1>2 DEF Places
<1>5. \A i \in k + 1 .. n : s[i] = angle
  OBVIOUS
<1>6. s # << >> => n # 0
  BY <1>1
<1> HIDE DEF u, n, m, S
<1>7. ASSUME NEW i \in 1 .. m PROVE f[i] \in 1 .. k
  <2>1. f[i] \in 1 .. n /\ f[i] \notin k + 1 .. n
    BY <1>4, <1>5
  <2> QED
    BY <1>3, <2>1
<1>8. f \in [1 .. m -> 1 .. k]
  BY <1>4, <1>7
<1>9. \A j \in 1 .. k : j \in 1 .. n
  BY <1>3
<1>10. Places(f, u, t, angle, M)
  BY <1>3, <1>4, <1>7, <1>8, <1>9 DEF Places, m
<1>11. s # << >> => k # 0
  <2> SUFFICES ASSUME s # << >>, k = 0 PROVE FALSE
    OBVIOUS
  <2>1. 1 \in k + 1 .. n
    BY <1>3, <1>6
  <2> QED
    BY <1>1, <1>5, <2>1
<1>12. u # << >> => u[1] # angle
  <2> SUFFICES ASSUME u # << >> PROVE u[1] # angle
    OBVIOUS
  <2>1. 1 \in 1 .. k
    BY <1>3
  <2>2. s # << >>
    BY <1>3, <2>1 DEF n
  <2> QED
    BY <1>1, <1>3, <2>1, <2>2
<1> QED
  BY <1>1, <1>3, <1>10, <1>11, <1>12 DEF Shadow, u, S

LEMMA ShadowPopAngle ==
  ASSUME NEW M, NEW angle, Matching(M, angle), NEW s, NEW t, Shadow(s, t, angle, M), Ends(s, angle)
  PROVE  Shadow(Front(s), t, angle, M) /\ Front(s) # << >>
<1> DEFINE S == DOMAIN M \cup {angle}
           k == Len(s) - 1
<1>1. s \in Seq(S) /\ s # << >> /\ Last(s) = angle
  BY DEF Shadow, Ends
<1>2. Last(s) = s[Len(s)] /\ Len(s) \in Nat \ {0}
  BY <1>1, LastFront
<1>3. k \in 0 .. Len(s) /\ \A i \in k + 1 .. Len(s) : s[i] = angle
  <2>1. \A i \in k + 1 .. Len(s) : i = Len(s)
    BY <1>2
  <2> QED
    BY <1>1, <1>2, <2>1
<1>4. Front(s) = SubSeq(s, 1, k)
  BY DEF Front
<1> HIDE DEF k, S
<1>5. Shadow(SubSeq(s, 1, k), t, angle, M) /\ Len(SubSeq(s, 1, k)) = k /\ k # 0
  BY <1>1, <1>3, ShadowCut
<1>6. SubSeq(s, 1, k) # << >>
  BY <1>5
<1> QED
  BY <1>4, <1>5, <1>6

LEMMA ShadowWithout ==
  ASSUME NEW M, NEW angle, Matching(M, angle), NEW s, NEW t, Shadow(s, t, angle, M)
  PROVE  /\ Shadow(Without(s, angle), t, angle, M)
         /\ s # << >> => Without(s, angle) # << >>
         /\ ~Ends(Without(s, angle), angle)
<1> DEFINE S == DOMAIN M \cup {angle}
           n == Len(s)
           Dropped(k) == \A i \in k + 1 .. n : s[i] = angle
           Good(k) == (k = 0 \/ s[k] # angle) /\ Dropped(k)
           k0 == CHOOSE k \in 0 .. n : (k = 0 \/ s[k] # angle) /\ \A i \in k + 1 .. n : s[i] = angle
           T == {k \in 0 .. n : Dropped(k)}
<1>1. s \in Seq(S) /\ n \in Nat
  BY DEF Shadow
<1>2. Without(s, angle) = SubSeq(s, 1, k0)
  BY DEF Without
<1> HIDE DEF n
<1>3. n \in T /\ T \in SUBSET Nat
  BY <1>1
<1>4. PICK k \in T : \A j \in T : k <= j
  <2> HIDE DEF T
  <2> QED
    BY <1>3, NatMin
<1>5. Good(k)
  <2> SUFFICES ASSUME k # 0, s[k] = angle PROVE FALSE
    BY <1>4
  <2>1. k - 1 \in 0 .. n
    BY <1>1, <1>4
  <2>2. Dropped(k - 1)
    <3>1. \A i \in (k - 1) + 1 .. n : i = k \/ i \in k + 1 .. n
      BY <1>1, <1>4
    <3> QED
      BY <1>4, <3>1
  <2>3. k - 1 \in T
    BY <2>1, <2>2
  <2>4. k <= k - 1 /\ k \in Nat
    BY <1>3, <1>4, <2>3
  <2> QED
    BY <2>4
<1>6. k0 \in 0 .. n /\ Good(k0)
  <2>1. \E j \in 0 .. n : Good(j)
    BY <1>4, <1>5
  <2> QED
    BY <2>1
<1> HIDE DEF k0
<1> DEFINE u == SubSeq(s, 1, k0)
<1>7. /\ Shadow(u, t, angle, M) /\ Len(u) = k0 /\ \A i \in 1 .. k0 : u[i] = s[i]
      /\ s # << >> => k0 # 0
  <2> HIDE DEF S, u
  <2> QED
    BY <1>6, ShadowCut DEF n, u
<1>8. u \in Seq(S)
  BY <1>7 DEF Shadow
<1> HIDE DEF u, S
<1>9. s # << >> => u # << >>
  BY <1>7, <1>8
<1>10. u # << >> => Last(u) # angle
  <2> SUFFICES ASSUME u # << >> PROVE Last(u) # angle
    OBVIOUS
  <2>1. Last(u) = u[k0] /\ k0 \in Nat \ {0}
    BY <1>7, <1>8, LastFront
  <2>2. k0 \in 1 .. k0
    BY <2>1
  <2> QED
    BY <1>6, <1>7, <2>1, <2>2
<1> QED
  BY <1>2, <1>7, <1>9, <1>10 DEF Ends, u

\* The topmost bracket that is no angle bracket is the top of the shadow, and
\* at the bottom at the same time.
LEMMA ShadowPop ==
  ASSUME NEW M, NEW angle, Matching(M, angle), NEW s, NEW t, Shadow(s, t, angle, M), s # << >>, ~Ends(s, angle)
  PROVE  /\ t # << >> /\ Last(s) \in DOMAIN M /\ Last(t) = M[Last(s)]
         /\ Shadow(Front(s), Front(t), angle, M)
         /\ Len(s) = 1 <=> Len(t) = 1
<1> DEFINE S == DOMAIN M \cup {angle}
           n == Len(s)
           m == Len(t)
           u == Front(s)
           v == Front(t)
<1>1. s \in Seq(S) /\ t \in Seq(Closing) /\ s[1] # angle
  BY DEF Shadow
<1>2. PICK f : Places(f, s, t, angle, M)
  BY DEF Shadow
<1>3. /\ n \in Nat \ {0} /\ Last(s) = s[n] /\ Last(s) \in S /\ u \in Seq(S) /\ Len(u) = n - 1
      /\ \A i \in 1 .. n - 1 : u[i] = s[i]
  BY <1>1, LastFront
<1>4. s[n] # angle
  BY <1>3 DEF Ends
<1>5. /\ f \in [1 .. m -> 1 .. n]
      /\ \A i, j \in 1 .. m : i < j => f[i] < f[j]
      /\ \A i \in 1 .. m : s[f[i]] # angle /\ M[s[f[i]]] = t[i]
      /\ \A j \in 1 .. n : s[j] # angle => \E i \in 1 .. m : f[i] = j
  BY <1>2 DEF Places
<1>a. m \in Nat
  BY <1>1
<1> HIDE DEF n, m, u
<1>6. n \in 1 .. n /\ 1 \in 1 .. n
  BY <1>3
<1>7. PICK k \in 1 .. m : f[k] = n
  BY <1>4, <1>5, <1>6
<1>8. m >= 1 /\ m \in 1 .. m
  BY <1>a, <1>7
<1>9. k = m
  <2> SUFFICES ASSUME k < m PROVE FALSE
    BY <1>a, <1>7
  <2>1. f[k] < f[m] /\ f[m] \in 1 .. n
    BY <1>5, <1>8
  <2> QED
    BY <1>3, <1>7, <2>1
<1>10. t # << >>
  BY <1>8 DEF m
<1>11. /\ Last(t) = t[m] /\ v \in Seq(Closing) /\ Len(v) = m - 1 /\ \A i \in 1 .. m - 1 : v[i] = t[i]
  BY <1>1, <1>10, LastFront DEF m
<1>12. Last(s) \in DOMAIN M /\ Last(t) = M[Last(s)]
  BY <1>3, <1>4, <1>5, <1>7, <1>9, <1>11 DEF S
<1> HIDE DEF v, S
<1>13. ASSUME NEW i \in 1 .. m - 1
       PROVE  f[i] \in 1 .. n - 1 /\ u[f[i]] = s[f[i]] /\ i \in 1 .. m
  <2>1. i \in 1 .. m /\ m \in 1 .. m /\ i < m
    BY <1>a, <1>8
  <2>2. f[i] < n /\ f[i] \in 1 .. n
    BY <1>5, <1>7, <1>9, <2>1
  <2>3. f[i] \in 1 .. n - 1
    BY <1>3, <2>2
  <2> QED
    BY <1>3, <2>1, <2>3
<1> DEFINE g == [i \in 1 .. m - 1 |-> f[i]]
<1>14. g \in [1 .. m - 1 -> 1 .. n - 1]
  BY <1>13
<1>15. \A i \in 1 .. m - 1 : g[i] = f[i]
  OBVIOUS
<1> HIDE DEF g
<1>16. ASSUME NEW j \in 1 .. n - 1, u[j] # angle PROVE \E i \in 1 .. m - 1 : g[i] = j
  <2>1. j \in 1 .. n /\ s[j] # angle /\ j # n
    BY <1>3, <1>16
  <2>2. PICK i \in 1 .. m : f[i] = j
    BY <1>5, <2>1
  <2>3. i # m
    BY <1>7, <1>9, <2>1, <2>2
  <2>4. i \in 1 .. m - 1
    BY <1>a, <2>3
  <2> QED
    BY <1>15, <2>2, <2>4
<1>17. Places(g, u, v, angle, M)
  <2>1. \A i, j \in 1 .. m - 1 : i < j => g[i] < g[j]
    BY <1>5, <1>13, <1>15
  <2>2. \A i \in 1 .. m - 1 : u[g[i]] # angle /\ M[u[g[i]]] = v[i]
    BY <1>5, <1>11, <1>13, <1>15
  <2> QED
    BY <1>3, <1>11, <1>14, <1>16, <2>1, <2>2 DEF Places
<1>18. u # << >> => u[1] # angle
  <2> SUFFICES ASSUME u # << >> PROVE u[1] # angle
    OBVIOUS
  <2>1. 1 \in 1 .. n - 1
    BY <1>3
  <2> QED
    BY <1>1, <1>3, <2>1
<1>19. Shadow(u, v, angle, M)
  BY <1>3, <1>11, <1>17, <1>18 DEF Shadow, S
<1>20. n = 1 <=> m = 1
  <2>1. PICK i \in 1 .. m : f[i] = 1
    BY <1>1, <1>5, <1>6
  <2>2. ASSUME n = 1 PROVE m = 1
    <3>1. 1 \in 1 .. m /\ f[1] \in 1 .. 1 /\ f[m] \in 1 .. 1
      BY <1>5, <1>8, <2>2
    <3>2. ~(1 < m)
      BY <1>5, <1>8, <3>1
    <3> QED
      BY <1>8, <3>2
  <2>3. ASSUME m = 1 PROVE n = 1
    BY <1>7, <1>9, <2>1, <2>3
  <2> QED
    BY <2>2, <2>3
<1> QED
  BY <1>10, <1>12, <1>19, <1>20 DEF n, m, u, v

LEMMA ShadowSame ==
  ASSUME NEW M, NEW angle, NEW s, NEW t, Shadow(s, t, angle, M)
  PROVE  s = << >> <=> t = << >>
<1>1. s \in Seq(DOMAIN M \cup {angle}) /\ t \in Seq(Closing) /\ (s # << >> => s[1] # angle)
  BY DEF Shadow
<1>2. PICK f : Places(f, s, t, angle, M)
  BY DEF Shadow
<1> DEFINE n == Len(s)
           m == Len(t)
<1>3. n \in Nat /\ m \in Nat /\ (s = << >> <=> n = 0) /\ (t = << >> <=> m = 0)
  <2> DEFINE S == DOMAIN M \cup {angle}
  <2> HIDE DEF S
  <2> QED
    BY <1>1
<1>4. /\ f \in [1 .. m -> 1 .. n]
      /\ \A j \in 1 .. n : s[j] # angle => \E i \in 1 .. m : f[i] = j
  BY <1>2 DEF Places
<1> HIDE DEF n, m
<1>5. ASSUME n # 0, m = 0 PROVE FALSE
  <2>1. 1 \in 1 .. n
    BY <1>3, <1>5
  <2>2. PICK i \in 1 .. m : f[i] = 1
    BY <1>1, <1>3, <1>4, <1>5, <2>1
  <2> QED
    BY <1>5, <2>2
<1>6. ASSUME n = 0, m # 0 PROVE FALSE
  <2>1. 1 \in 1 .. m
    BY <1>3, <1>6
  <2>2. f[1] \in 1 .. n
    BY <1>4, <2>1
  <2> QED
    BY <1>6, <2>2
<1> QED
  BY <1>3, <1>5, <1>6

\* What _GetTextInside has on its stack after every symbol of x from the k-th on.
Stacked(s, c, t) ==
  IF c \in Opening THEN t = Append(s, Closer[c])
  ELSE IF c \in Closing THEN s # << >> /\ Last(s) = c /\ t = Front(s)
  ELSE t = s

History(h, x, k) ==
  /\ h \in [k .. Len(x) -> Seq(Closing)]
  /\ h[k] = <<Closer[x[k]]>>
  /\ \A i \in k + 1 .. Len(x) : Stacked(h[i - 1], x[i], h[i])
  /\ \A i \in k .. Len(x) - 1 : h[i] # << >>

LEMMA HistoryGrows ==
  ASSUME NEW S, NEW x \in Seq(S), NEW k \in 1 .. Len(x), NEW h, History(h, x, k), h[Len(x)] # << >>,
         NEW c \in S, NEW t \in Seq(Closing), Stacked(h[Len(x)], c, t)
  PROVE  \E g : History(g, Append(x, c), k) /\ g[Len(x) + 1] = t
<1> DEFINE n == Len(x)
           y == Append(x, c)
           g == [i \in k .. n + 1 |-> IF i = n + 1 THEN t ELSE h[i]]
<1>1. n \in Nat /\ Len(y) = n + 1 /\ y[n + 1] = c /\ \A i \in 1 .. n : y[i] = x[i]
  BY Appended
<1>2. /\ h \in [k .. n -> Seq(Closing)] /\ h[k] = <<Closer[x[k]]>>
      /\ \A i \in k + 1 .. n : Stacked(h[i - 1], x[i], h[i])
      /\ \A i \in k .. n - 1 : h[i] # << >>
  BY DEF History
<1> HIDE DEF n, y
<1>3. k \in Nat /\ k >= 1 /\ k <= n
  BY <1>1 DEF n
<1>4. \A i \in k .. n : i \in k .. n + 1 /\ i # n + 1
  BY <1>1, <1>3
<1>5. n + 1 \in k .. n + 1 /\ k \in k .. n /\ n \in k .. n
  BY <1>1, <1>3
<1>6. g[n + 1] = t /\ \A i \in k .. n : g[i] = h[i]
  BY <1>4, <1>5
<1>7. g \in [k .. n + 1 -> Seq(Closing)]
  <2>1. \A i \in k .. n + 1 : i \in k .. n \/ i = n + 1
    BY <1>1, <1>3
  <2> QED
    BY <1>2, <2>1
<1> HIDE DEF g
<1>8. ASSUME NEW i \in k + 1 .. n + 1 PROVE Stacked(g[i - 1], y[i], g[i])
  <2>1. CASE i = n + 1
    <3>1. i - 1 = n
      BY <1>1, <2>1
    <3> QED
      BY <1>1, <1>5, <1>6, <2>1, <3>1 DEF n
  <2>2. CASE i \in k + 1 .. n
    <3>1. i - 1 \in k .. n /\ i \in k .. n /\ i \in 1 .. n
      BY <1>1, <1>3, <2>2
    <3>2. g[i - 1] = h[i - 1] /\ g[i] = h[i] /\ y[i] = x[i]
      BY <1>1, <1>6, <3>1
    <3> QED
      BY <1>2, <2>2, <3>2
  <2>3. i = n + 1 \/ i \in k + 1 .. n
    BY <1>1, <1>3
  <2> QED
    BY <2>1, <2>2, <2>3
<1>9. ASSUME NEW i \in k .. n PROVE g[i] # << >>
  <2>1. i = n \/ i \in k .. n - 1
    BY <1>1, <1>3
  <2> QED
    BY <1>2, <1>6, <2>1 DEF n
<1>10. y[k] = x[k] /\ g[k] = h[k]
  <2>1. k \in 1 .. n
    BY <1>3
  <2> QED
    BY <1>1, <1>5, <1>6, <2>1
<1>11. History(g, y, k)
  <2>1. Len(y) - 1 = n
    BY <1>1
  <2> QED
    BY <1>1, <1>2, <1>7, <1>8, <1>9, <1>10, <2>1 DEF History
<1> QED
  BY <1>6, <1>11 DEF y, n

LEMMA Brackets ==
  /\ Matching(Closer, "<")
  /\ \A c \in Closing : Opener[c] \in Opening /\ Closer[Opener[c]] = c
  /\ \A c \in Opening : Closer[c] \in Closing /\ Opener[Closer[c]] = c
  /\ DOMAIN Closer = Opening
  /\ \A c \in Opening : c \notin Closing
  /\ \A c \in {"<", ">", ";", "-", "=", " ", "op", "NL", "x"} : c \notin Opening /\ c \notin Closing
BY DEF Matching, Closer, Opener, Opening, Closing

\* Forward, the stack of CloseExpression is that of _GetTextInside with angle
\* brackets between; that has a history which, backward, gives the stack of
\* ReverseCloseExpression at every symbol it stops at.
Same == [c \in Closing |-> c]

ForwardInv ==
  /\ stop = Reading /\ at = 0 /\ end = 0
  /\ Len(text) >= from => /\ inside # << >> /\ Shadow(brackets, inside, "<", Closer)
                          /\ \E h : History(h, text, from) /\ h[Len(text)] = inside

BackwardInv ==
  /\ end = Len(text) /\ stop = end /\ from < end /\ text[end] \in Closing
  /\ at = 0 \/ at \in from .. end
  /\ \E h : /\ History(h, text, from) /\ h[end] = << >>
            /\ IF at = 0 THEN brackets = << >> ELSE Shadow(brackets, h[at], ">", Same)

BracketsInv ==
  /\ text \in Seq(Symbol) /\ from \in Nat \ {0} /\ Len(text) >= from - 1
  /\ phase \in {"forward", "back", "found", "none"}
  /\ Len(text) = from - 1 => /\ phase = "forward" /\ brackets = << >> /\ inside = << >>
                             /\ stop = Reading /\ at = 0 /\ end = 0
  /\ Round => /\ phase = "forward" => ForwardInv
              /\ phase = "back" => BackwardInv
              /\ phase = "found" => at = from /\ stop = end /\ end > 0
              /\ phase = "none" => stop = Nothing /\ end = 0

LEMMA InsideSteps ==
  ASSUME NEW c, stop = Reading, Len(text) + 1 # from, inside \in Seq(Closing), inside # << >>, Inside(c)
  PROVE  /\ c \in Opening => inside' = Append(inside, Closer[c]) /\ stop' = Reading
         /\ c \in Closing /\ Last(inside) = c =>
              /\ inside' = Front(inside)
              /\ stop' = IF Len(inside) = 1 THEN Len(text) + 1 ELSE Reading
         /\ c \in Closing /\ Last(inside) # c => stop' = Nothing
         /\ c \notin Opening \cup Closing => inside' = inside /\ stop' = Reading
<1>1. Last(inside) \in Closing
  BY LastFront
<1>2. Ends(inside, c) <=> Last(inside) = c
  BY DEF Ends
<1>3. CASE Ends(inside, c)
  <2>1. c \in Closing /\ c \notin Opening
    <3>1. c \in Closing
      BY <1>1, <1>2, <1>3
    <3> QED
      BY <3>1, Brackets
  <2> QED
    BY <1>2, <1>3, <2>1 DEF Inside
<1>4. CASE ~Ends(inside, c)
  BY <1>2, <1>4, Brackets DEF Inside
<1> QED
  BY <1>3, <1>4

\* Where the scan is while it is in a round, square or curly bracket.
LEMMA RoundStays ==
  ASSUME BracketsInv, NEW c, Read(c)
  PROVE  /\ Len(text') = Len(text) + 1 /\ text' \in Seq(Symbol)
         /\ Len(text') >= from' - 1 /\ Len(text') # from' - 1
         /\ Len(text) >= from => (Round' <=> Round) /\ from \in 1 .. Len(text)
         /\ text'[Len(text) + 1] = c
         /\ Len(text) < from => from = Len(text) + 1
         /\ from' = from /\ phase = "forward" /\ at' = at
<1>1. text \in Seq(Symbol) /\ from \in Nat \ {0} /\ Len(text) >= from - 1
  BY DEF BracketsInv
<1>2. text' = Append(text, c) /\ from' = from /\ phase = "forward" /\ at' = at /\ c \in Symbol
  BY DEF Read
<1>3. /\ text' \in Seq(Symbol) /\ Len(text') = Len(text) + 1 /\ Len(text) \in Nat /\ text'[Len(text) + 1] = c
      /\ \A i \in 1 .. Len(text) : text'[i] = text[i]
  BY <1>1, <1>2, Appended
<1>4. DOMAIN text = 1 .. Len(text) /\ DOMAIN text' = 1 .. Len(text')
  BY <1>1, <1>3
<1> DEFINE n == Len(text)
<1> HIDE DEF n
<1>5. n \in Nat /\ n >= from - 1 /\ Len(text') = n + 1 /\ n = Len(text)
  BY <1>1, <1>3 DEF n
<1>6. ASSUME n >= from PROVE (Round' <=> Round) /\ from \in 1 .. n
  <2>1. from \in 1 .. n /\ from \in 1 .. n + 1
    BY <1>1, <1>5, <1>6
  <2> QED
    BY <1>2, <1>3, <1>4, <1>5, <2>1 DEF Round
<1> QED
  BY <1>1, <1>2, <1>3, <1>5, <1>6

\* The scan goes on, or ends, inside such a bracket.
LEMMA ReadOn ==
  ASSUME BracketsInv, Round, Len(text) >= from, NEW c, Read(c), NEW s, GoOn(s),
         Shadow(s, inside', "<", Closer), Stacked(inside, c, inside'), inside' # << >>, stop' = Reading
  PROVE  BracketsInv'
<1>1. phase = "forward" /\ ForwardInv
  BY DEF BracketsInv, Read
<1>2. brackets' = s /\ phase' = phase /\ end' = end
  BY DEF GoOn
<1>3. text' = Append(text, c)
  BY DEF Read
<1>4. text \in Seq(Symbol) /\ from \in Nat \ {0} /\ from' = from /\ c \in Symbol
  BY DEF BracketsInv, Read
<1>5. inside' \in Seq(Closing)
  BY DEF Shadow
<1>6. PICK h : History(h, text, from) /\ h[Len(text)] = inside
  BY <1>1 DEF ForwardInv
<1>7. inside # << >>
  BY <1>1 DEF ForwardInv
<1>8. from \in 1 .. Len(text)
  BY RoundStays
<1>9. \E g : History(g, Append(text, c), from) /\ g[Len(text) + 1] = inside'
  BY <1>4, <1>5, <1>6, <1>7, <1>8, HistoryGrows
<1>10. Len(text') = Len(text) + 1
  BY RoundStays
<1>11. \E g : History(g, text', from') /\ g[Len(text')] = inside'
  BY <1>3, <1>4, <1>9, <1>10
<1>12. ForwardInv'
  BY <1>1, <1>2, <1>11, RoundStays DEF ForwardInv
<1> QED
  BY <1>1, <1>2, <1>4, <1>12, RoundStays DEF BracketsInv

LEMMA ReadEnd ==
  ASSUME BracketsInv, Round, Len(text) >= from, NEW c \in Closing, Read(c), CloseAt(Len(text) + 1),
         inside' = << >>, Stacked(inside, c, inside'), stop' = Len(text) + 1
  PROVE  BracketsInv'
<1>1. phase = "forward" /\ ForwardInv
  BY DEF BracketsInv, Read
<1>2. brackets' = << >> /\ phase' = "back" /\ end' = Len(text) + 1
  BY DEF CloseAt
<1>3. text' = Append(text, c)
  BY DEF Read
<1>4. text \in Seq(Symbol) /\ from \in Nat \ {0} /\ from' = from /\ c \in Symbol
  BY DEF BracketsInv, Read
<1>5. inside' \in Seq(Closing)
  OBVIOUS
<1>6. PICK h : History(h, text, from) /\ h[Len(text)] = inside
  BY <1>1 DEF ForwardInv
<1>7. inside # << >>
  BY <1>1 DEF ForwardInv
<1>8. from \in 1 .. Len(text)
  BY RoundStays
<1>a. ASSUME NEW t \in Seq(Closing), Stacked(inside, c, t)
      PROVE  \E g : History(g, Append(text, c), from) /\ g[Len(text) + 1] = t
  BY <1>4, <1>5, <1>6, <1>7, <1>8, <1>a, HistoryGrows
<1>9. \E g : History(g, Append(text, c), from) /\ g[Len(text) + 1] = inside'
  BY <1>5, <1>a
<1>10. Len(text') = Len(text) + 1 /\ text'[Len(text) + 1] = c /\ at' = at
  BY RoundStays
<1>11. \E g : History(g, text', from') /\ g[end'] = << >>
  BY <1>2, <1>3, <1>4, <1>9
<1>12. BackwardInv'
  <2>1. end' = Len(text') /\ stop' = end' /\ text'[end'] \in Closing /\ at' = 0 /\ brackets' = << >>
    BY <1>1, <1>2, <1>10 DEF ForwardInv
  <2>2. from' < end'
    BY <1>2, <1>4, <1>8
  <2> QED
    BY <1>11, <2>1, <2>2 DEF BackwardInv
<1> QED
  BY <1>2, <1>4, <1>12, RoundStays DEF BracketsInv

LEMMA ReadNothing ==
  ASSUME BracketsInv, Round, Len(text) >= from, NEW c, Read(c), GiveUp, stop' = Nothing
  PROVE  BracketsInv'
<1>1. phase = "forward" /\ end = 0 /\ from' = from
  BY DEF BracketsInv, ForwardInv, Read
<1>2. phase' = "none" /\ end' = 0
  BY <1>1 DEF GiveUp
<1> QED
  BY <1>1, <1>2, RoundStays DEF BracketsInv

\* The other readings say nothing of round brackets.
LEMMA ReadElse ==
  ASSUME BracketsInv, NEW c, Read(c), ~Round', phase' \in {"forward", "back", "found", "none"}
  PROVE  BracketsInv'
BY RoundStays DEF BracketsInv

LEMMA ForwardKeeps ==
  ASSUME BracketsInv, Forward
  PROVE  BracketsInv'
<1> DEFINE n == Len(text)
           Phases == {"forward", "back", "found", "none"}
<1>1. text \in Seq(Symbol) /\ from \in Nat \ {0} /\ n >= from - 1 /\ n \in Nat
  BY DEF BracketsInv
<1>2. \A c : Read(c) => phase = "forward"
  BY DEF Read
<1>3. ASSUME NEW s, GoOn(s), phase = "forward" PROVE phase' = "forward"
  BY <1>3 DEF GoOn
<1>4. GiveUp => phase' = "none"
  BY DEF GiveUp
<1>5. \A i : CloseAt(i) => phase' = "back"
  BY DEF CloseAt
\* The bracket itself.
<1>6. CASE n < from
  <2>1. n + 1 = from /\ n = from - 1
    BY <1>1, <1>6
  <2>2. brackets = << >> /\ inside = << >> /\ stop = Reading /\ at = 0 /\ end = 0 /\ phase = "forward"
    BY <2>1 DEF BracketsInv
  <2>3. \A c : Read(c) => c \in Opening \cup {"<"}
    BY <2>1 DEF Read
  <2>4. ASSUME NEW c \in Opening, Read(c), GoOn(Append(brackets, c)) PROVE BracketsInv'
    <3>1. /\ Len(text') = n + 1 /\ text' \in Seq(Symbol) /\ text'[n + 1] = c /\ from' = from /\ at' = at
          /\ Len(text') >= from' - 1 /\ Len(text') # from' - 1
      BY <2>4, RoundStays
    <3>2. brackets' = Append(brackets, c) /\ phase' = "forward" /\ end' = 0
      BY <2>2, <2>4 DEF GoOn
    <3>3. inside' = <<Closer[c]>> /\ stop' = Reading
      BY <2>1, <2>2, <2>4 DEF Read, Inside
    <3>4. Shadow(brackets', inside', "<", Closer)
      <4>1. Shadow(Append(<< >>, c), Append(<< >>, Closer[c]), "<", Closer)
        BY Brackets, ShadowEmpty, ShadowPush
      <4> QED
        BY <2>2, <3>2, <3>3, <4>1
    <3>5. \E h : History(h, text', from') /\ h[Len(text')] = inside'
      <4> DEFINE h == [i \in from .. from |-> <<Closer[c]>>]
      <4>1. <<Closer[c]>> \in Seq(Closing)
        <5>1. Closer[c] \in Closing
          BY Brackets
        <5> QED
          BY <5>1
      <4>2. from \in from .. from /\ \A i \in from .. from : i = from
        BY <1>1
      <4>3. h \in [from .. from -> Seq(Closing)] /\ h[from] = <<Closer[c]>>
        BY <4>1, <4>2
      <4> HIDE DEF h
      <4>4. (\A i \in from + 1 .. from : FALSE) /\ (\A i \in from .. from - 1 : FALSE)
        BY <1>1
      <4>5. Len(text') = from /\ text'[from] = c
        BY <2>1, <3>1
      <4>6. History(h, text', from)
        BY <4>3, <4>4, <4>5 DEF History
      <4> QED
        BY <3>1, <3>3, <4>3, <4>5, <4>6
    <3>6. ForwardInv'
      BY <2>2, <3>1, <3>2, <3>3, <3>4, <3>5 DEF ForwardInv
    <3> QED
      BY <1>1, <3>1, <3>2, <3>6 DEF BracketsInv
  <2>5. CASE ReadLess
    <3>1. Read("<") /\ phase' \in Phases
      BY <1>2, <1>3, <1>4, <2>5 DEF ReadLess
    <3>2. "<" \in Symbol
      BY <3>1 DEF Read
    <3>a. text'[n + 1] = "<" /\ from' = from
      BY <3>1, <3>2, RoundStays
    <3>b. text'[from'] = "<"
      BY <2>1, <3>a
    <3>3. ~Round'
      BY <3>b DEF Round, Opening
    <3> QED
      BY <3>1, <3>2, <3>3, ReadElse
  <2>6. ~(ReadClosing \/ ReadGreater \/ ReadSemicolon \/ ReadOther \/ ReadNewline)
    <3>1. \A c : Read(c) => c \notin Closing /\ c \notin {">", ";", "NL", "-", "=", " ", "op", "x"}
      BY <2>3 DEF Opening, Closing
    <3> QED
      BY <3>1 DEF ReadClosing, ReadGreater, ReadSemicolon, ReadOther, ReadNewline
  <2>7. ~NoBracket
    BY <1>1, <1>6 DEF NoBracket
  <2> QED
    BY <2>4, <2>5, <2>6, <2>7 DEF Forward, ReadOpening
\* Inside another one, or beyond a "<".
<1>7. CASE n >= from /\ ~Round
  <2>1. ASSUME NEW c, Read(c), phase' \in Phases PROVE BracketsInv'
    <3>1. ~Round'
      BY <1>7, <2>1, RoundStays
    <3> QED
      BY <2>1, <3>1, ReadElse
  <2>2. NoBracket => BracketsInv'
    BY <1>7 DEF NoBracket, GiveUp, BracketsInv, Round
  <2>3. CASE NoBracket
    BY <2>2, <2>3
  <2>4. CASE \E c : Read(c) /\ phase' \in Phases
    BY <2>1, <2>4
  <2>5. (\E c : Read(c) /\ phase' \in Phases) \/ NoBracket
    BY <1>2, <1>3, <1>4, <1>5
       DEF Forward, ReadOpening, ReadLess, ReadClosing, ReadGreater, ReadSemicolon, ReadOther, ReadNewline
  <2> QED
    BY <2>3, <2>4, <2>5
<1>8. CASE n >= from /\ Round
  <2> DEFINE open == Without(brackets, "<")
  <2>1. phase = "forward"
    BY <1>2 DEF Forward, ReadOpening, ReadLess, ReadClosing, ReadGreater, ReadSemicolon, ReadOther,
                ReadNewline, NoBracket
  <2>2. /\ stop = Reading /\ inside # << >> /\ Shadow(brackets, inside, "<", Closer)
    BY <1>8, <2>1 DEF BracketsInv, ForwardInv
  <2>3. inside \in Seq(Closing) /\ brackets # << >> /\ brackets \in Seq(Opening \cup {"<"}) /\ brackets[1] # "<"
    <3>1. DOMAIN Closer = Opening
      BY Brackets
    <3>2. brackets # << >>
      BY <2>2, ShadowSame
    <3> QED
      BY <2>2, <3>1, <3>2 DEF Shadow
  <2>4. n + 1 # from
    BY <1>1, <1>8
  <2>5. ASSUME NEW c, Read(c)
        PROVE  /\ c \in Opening => inside' = Append(inside, Closer[c]) /\ stop' = Reading
               /\ c \in Closing /\ Last(inside) = c =>
                    /\ inside' = Front(inside)
                    /\ stop' = IF Len(inside) = 1 THEN Len(text) + 1 ELSE Reading
               /\ c \in Closing /\ Last(inside) # c => stop' = Nothing
               /\ c \notin Opening \cup Closing => inside' = inside /\ stop' = Reading
    <3>1. Inside(c)
      BY <2>5 DEF Read
    <3> QED
      BY <2>2, <2>3, <2>4, <3>1, InsideSteps
\* A symbol that is no round, square or curly bracket.
  <2>6. ASSUME NEW c, Read(c), c \notin Opening \cup Closing, NEW s, GoOn(s), Shadow(s, inside, "<", Closer)
        PROVE  BracketsInv'
    <3>1. inside' = inside /\ stop' = Reading
      BY <2>5, <2>6
    <3>2. Stacked(inside, c, inside') /\ Shadow(s, inside', "<", Closer) /\ inside' # << >>
      BY <2>2, <2>6, <3>1 DEF Stacked
    <3> QED
      BY <1>8, <2>6, <3>1, <3>2, ReadOn
  <2>7. Shadow(open, inside, "<", Closer) /\ open # << >> /\ ~Ends(open, "<")
    BY <2>2, <2>3, ShadowWithout, Brackets
  <2>8. Ends(brackets, "<") => Shadow(Front(brackets), inside, "<", Closer) /\ Front(brackets) # << >>
    BY <2>2, ShadowPopAngle, Brackets
  <2>9. ASSUME NEW c \in Opening, Read(c), GoOn(Append(brackets, c)) PROVE BracketsInv'
    <3>1. inside' = Append(inside, Closer[c]) /\ stop' = Reading
      BY <2>5, <2>9
    <3>2. Shadow(Append(brackets, c), Append(inside, Closer[c]), "<", Closer)
      BY <2>2, ShadowPush, Brackets
    <3>3. Stacked(inside, c, inside')
      BY <3>1 DEF Stacked
    <3>4. Closer[c] \in Closing
      BY Brackets
    <3>5. inside' # << >>
      BY <2>3, <3>1, <3>4, Appended
    <3>6. Shadow(Append(brackets, c), inside', "<", Closer)
      BY <3>1, <3>2
    <3> QED
      BY <1>8, <2>9, <3>1, <3>3, <3>5, <3>6, ReadOn
  <2>10. CASE ReadLess
    <3>1. Read("<")
      BY <2>10 DEF ReadLess
    <3>2. "<" \notin Opening \cup Closing
      BY Brackets
    <3>3. brackets # <<"<">>
      BY <2>3
    <3>4. \/ GoOn(brackets)
          \/ Ends(brackets, "<") /\ GoOn(Front(brackets))
          \/ GoOn(Append(brackets, "<"))
      BY <2>10, <3>3 DEF ReadLess
    <3>5. Shadow(Append(brackets, "<"), inside, "<", Closer)
      BY <2>2, <2>3, ShadowPushAngle, Brackets
    <3> QED
      BY <2>2, <2>6, <2>8, <3>1, <3>2, <3>4, <3>5
  <2>11. ASSUME NEW c \in Closing, Read(c),
                IF ~Ends(open, Opener[c]) THEN GiveUp
                ELSE IF Len(open) = 1 THEN CloseAt(n + 1)
                ELSE GoOn(Front(open))
         PROVE  BracketsInv'
    <3>1. /\ Last(open) \in Opening /\ Last(inside) = Closer[Last(open)]
          /\ Shadow(Front(open), Front(inside), "<", Closer)
          /\ Len(open) = 1 <=> Len(inside) = 1
      <4>1. Matching(Closer, "<") /\ DOMAIN Closer = Opening
        BY Brackets
      <4> HIDE DEF open
      <4>2. /\ Last(open) \in DOMAIN Closer /\ Last(inside) = Closer[Last(open)]
            /\ Shadow(Front(open), Front(inside), "<", Closer)
            /\ Len(open) = 1 <=> Len(inside) = 1
        BY <2>7, <4>1, ShadowPop
      <4> QED
        BY <4>1, <4>2
    <3>2. Ends(open, Opener[c]) <=> Last(inside) = c
      BY <2>7, <3>1, Brackets DEF Ends
    <3> HIDE DEF open
    <3>3. CASE Last(inside) # c
      <4>1. GiveUp /\ stop' = Nothing
        BY <2>5, <2>11, <3>2, <3>3
      <4> QED
        BY <1>8, <2>11, <4>1, ReadNothing
    <3>4. CASE Last(inside) = c
      <4>1. inside' = Front(inside) /\ stop' = IF Len(inside) = 1 THEN n + 1 ELSE Reading
        BY <2>5, <2>11, <3>4
      <4>2. Stacked(inside, c, inside')
        BY <2>2, <2>11, <3>4, <4>1, Brackets DEF Stacked
      <4>3. /\ Front(inside) \in Seq(Closing) /\ Len(Front(inside)) = Len(inside) - 1
            /\ Len(inside) \in Nat \ {0}
        BY <2>2, <2>3, LastFront
      <4>4. CASE Len(inside) = 1
        <5>1. CloseAt(n + 1) /\ stop' = n + 1
          BY <2>11, <3>1, <3>2, <3>4, <4>1, <4>4
        <5>2. inside' = << >>
          BY <4>1, <4>3, <4>4
        <5> QED
          BY <1>8, <2>11, <4>2, <5>1, <5>2, ReadEnd
      <4>5. CASE Len(inside) # 1
        <5>1. GoOn(Front(open)) /\ stop' = Reading
          BY <2>11, <3>1, <3>2, <3>4, <4>1, <4>5
        <5>2. inside' # << >>
          BY <4>1, <4>3, <4>5
        <5>3. Shadow(Front(open), inside', "<", Closer)
          BY <3>1, <4>1
        <5> QED
          BY <1>8, <2>11, <4>2, <5>1, <5>2, <5>3, ReadOn
      <4> QED
        BY <4>4, <4>5
    <3> QED
      BY <3>3, <3>4
  <2>12. CASE ReadGreater
    <3>1. Read(">") /\ ">" \notin Opening \cup Closing
      BY <2>12, Brackets DEF ReadGreater
    <3>2. GoOn(brackets) \/ (Ends(brackets, "<") /\ Len(brackets) # 1 /\ GoOn(Front(brackets)))
      <4>1. Ends(brackets, "<") => Len(brackets) # 1
        BY <2>3 DEF Ends, Last
      <4> QED
        BY <2>12, <4>1 DEF ReadGreater
    <3> QED
      BY <2>2, <2>6, <2>8, <3>1, <3>2
  <2>13. CASE ReadSemicolon
    <3>1. Read(";") /\ ";" \notin Opening \cup Closing
      BY <2>13, Brackets DEF ReadSemicolon
    <3>2. GoOn(open)
      BY <2>7, <2>13 DEF ReadSemicolon
    <3> HIDE DEF open
    <3> QED
      BY <2>6, <2>7, <3>1, <3>2
  <2>14. CASE ReadOther
    <3>1. PICK c \in {"-", "=", " ", "op", "x"} : Read(c) /\ GoOn(brackets)
      BY <2>14 DEF ReadOther
    <3>2. c \notin Opening \cup Closing
      BY DEF Opening, Closing
    <3> QED
      BY <2>2, <2>6, <3>1, <3>2
  <2>15. CASE ReadNewline
    <3>1. Read("NL") /\ "NL" \notin Opening \cup Closing /\ GoOn(brackets)
      BY <2>3, <2>15, Brackets DEF ReadNewline
    <3> QED
      BY <2>2, <2>6, <3>1
  <2>16. ~NoBracket
    BY <1>8 DEF NoBracket, Round, Sym, Opening
  <2>17. CASE ReadClosing
    BY <2>11, <2>17 DEF ReadClosing
  <2>18. CASE ReadOpening
    BY <2>9, <2>18 DEF ReadOpening
  <2> QED
    BY <2>10, <2>12, <2>13, <2>14, <2>15, <2>16, <2>17, <2>18 DEF Forward
<1> QED
  BY <1>1, <1>6, <1>7, <1>8

LEMMA AppendFront ==
  ASSUME NEW S, NEW s \in Seq(S), NEW x \in S
  PROVE  /\ Front(Append(s, x)) = s /\ Last(Append(s, x)) = x
         /\ s # << >> => s = Append(Front(s), Last(s))
<1>1. Front(Append(s, x)) = s /\ Last(Append(s, x)) = x
  BY DEF Front, Last
<1>2. ASSUME s # << >> PROVE s = Append(Front(s), Last(s))
  <2> DEFINE f == Front(s)
             y == Last(s)
  <2>1. /\ y \in S /\ y = s[Len(s)] /\ f \in Seq(S) /\ Len(f) = Len(s) - 1 /\ Len(s) \in Nat \ {0}
        /\ \A i \in 1 .. Len(s) - 1 : f[i] = s[i]
    BY <1>2, LastFront
  <2> HIDE DEF f, y
  <2>2. Append(f, y) \in Seq(S) /\ Len(Append(f, y)) = Len(s)
    BY <2>1, Appended
  <2>3. ASSUME NEW i \in 1 .. Len(s) PROVE Append(f, y)[i] = s[i]
    BY <2>1
  <2>4. Append(f, y) = s
    BY <2>2, <2>3
  <2> QED
    BY <2>4 DEF f, y
<1> QED
  BY <1>1, <1>2

LEMMA SameBrackets == Matching(Same, ">") /\ DOMAIN Same = Closing /\ \A c \in Closing : Same[c] = c
BY DEF Matching, Same, Closing

LEMMA BackwardKeeps ==
  ASSUME BracketsInv, Backward
  PROVE  BracketsInv'
<1>1. phase = "back" /\ UNCHANGED <<text, from, end, inside, stop>>
  BY DEF Backward, Turn, Back, BackClosing, BackGreater, BackLess, BackOpening, BackSemicolon, BackOther, BackNewline
<1>2. phase' \in {"back", "found", "none"}
  BY <1>1 DEF Backward, Turn, Back, BackClosing, BackGreater, BackLess, BackOpening, BackSemicolon, BackOther,
              BackNewline, Pass, Found, Stuck
<1>3. /\ text \in Seq(Symbol) /\ from \in Nat \ {0} /\ Len(text) >= from - 1 /\ Len(text) # from - 1
  BY <1>1 DEF BracketsInv
<1>4. Round' <=> Round
  BY <1>1 DEF Round
<1>5. SUFFICES ASSUME Round
               PROVE  \/ phase' = "back" /\ BackwardInv'
                      \/ phase' = "found" /\ at' = from /\ stop = end /\ end > 0
  BY <1>1, <1>2, <1>3, <1>4, <1>5 DEF BracketsInv
<1>6. BackwardInv
  BY <1>1, <1>5 DEF BracketsInv
<1> DEFINE n == end
<1>7. /\ n = Len(text) /\ n \in Nat /\ stop = n /\ from < n /\ text[n] \in Closing
      /\ at = 0 \/ at \in from .. n
  BY <1>3, <1>6 DEF BackwardInv
<1>8. PICK h : /\ History(h, text, from) /\ h[n] = << >>
               /\ IF at = 0 THEN brackets = << >> ELSE Shadow(brackets, h[at], ">", Same)
  BY <1>6 DEF BackwardInv
<1>9. /\ h \in [from .. n -> Seq(Closing)] /\ h[from] = <<Closer[text[from]]>>
      /\ \A i \in from + 1 .. n : Stacked(h[i - 1], text[i], h[i])
      /\ \A i \in from .. n - 1 : h[i] # << >>
  BY <1>7, <1>8 DEF History
<1>10. text[from] \in Opening
  BY <1>5 DEF Round
<1> HIDE DEF n
\* What a step has to do.
<1>11. ASSUME NEW k \in from .. n, at' = k, phase' = "back", Shadow(brackets', h[k], ">", Same)
       PROVE  BackwardInv'
  <2>1. k # 0
    BY <1>3, <1>7
  <2>2. /\ end' = Len(text') /\ stop' = end' /\ from' < end' /\ text'[end'] \in Closing
        /\ at' = 0 \/ at' \in from' .. end'
    BY <1>1, <1>7, <1>11 DEF n
  <2>3. History(h, text', from') /\ h[end'] = << >> /\ Shadow(brackets', h[at'], ">", Same)
    BY <1>1, <1>8, <1>11 DEF n
  <2> QED
    BY <1>11, <2>1, <2>2, <2>3 DEF BackwardInv
<1>12. CASE Turn
  <2>1. at' = n /\ phase' = "back" /\ brackets' = << >>
    BY <1>1, <1>8, <1>12 DEF Turn, n
  <2>2. n \in from .. n
    BY <1>3, <1>7
  <2>3. Shadow(brackets', h[n], ">", Same)
    BY <1>8, <2>1, ShadowEmpty
  <2> QED
    BY <1>11, <2>1, <2>2, <2>3
\* The scan is at a symbol of the text.
<1>13. ASSUME NEW c, Back(c) PROVE at \in from .. n /\ text[at] = c /\ Shadow(brackets, h[at], ">", Same)
  <2>1. at \in from .. n /\ at # 0
    BY <1>7, <1>13 DEF Back
  <2>2. DOMAIN text = 1 .. n
    BY <1>3, <1>7
  <2>3. at \in DOMAIN text
    BY <1>3, <1>7, <2>1, <2>2
  <2> QED
    BY <1>8, <1>13, <2>1, <2>3 DEF Back, Sym
<1>14. ASSUME NEW k, NEW s, Pass(k, s), at - k \in from .. n, Shadow(s, h[at - k], ">", Same) PROVE BackwardInv' /\ phase' = "back"
  <2>1. at' = at - k /\ brackets' = s
    BY <1>14 DEF Pass
  <2>2. phase' = "back"
    BY <1>1, <1>3, <1>7, <1>14, <2>1 DEF Pass
  <2> QED
    BY <1>11, <1>14, <2>1, <2>2
<1>15. ASSUME NEW i \in from .. n, text[i] \notin Opening \cup Closing
       PROVE  i - 1 \in from .. n /\ h[i - 1] = h[i] /\ i # n /\ i \in from .. n - 1
  <2>1. i # from /\ i # n
    BY <1>7, <1>10, <1>15
  <2>2. i \in from + 1 .. n /\ i - 1 \in from .. n /\ i \in from .. n - 1
    BY <1>3, <1>7, <2>1
  <2> QED
    BY <1>9, <1>15, <2>1, <2>2 DEF Stacked
\* A symbol that is no round, square or curly bracket.
<1>16. ASSUME NEW c, Back(c), c \notin Opening \cup Closing
       PROVE  /\ at - 1 \in from .. n /\ h[at - 1] = h[at] /\ brackets # << >> /\ brackets[1] # ">"
              /\ Sym(at - 1) = text[at - 1]
  <2>1. at \in from .. n /\ text[at] = c /\ Shadow(brackets, h[at], ">", Same)
    BY <1>13, <1>16
  <2>2. at - 1 \in from .. n /\ h[at - 1] = h[at] /\ at \in from .. n - 1
    BY <1>15, <1>16, <2>1
  <2>3. h[at] # << >>
    BY <1>9, <2>2
  <2>4. brackets # << >> /\ brackets[1] # ">"
    BY <2>1, <2>3, ShadowSame DEF Shadow
  <2>5. at - 1 \in DOMAIN text
    BY <1>3, <1>7, <2>2
  <2> QED
    BY <2>2, <2>4, <2>5 DEF Sym
<1>17. ASSUME NEW c, Back(c), c \notin Opening \cup Closing, NEW s, Pass(1, s), Shadow(s, h[at], ">", Same)
       PROVE  BackwardInv' /\ phase' = "back"
  <2>1. at - 1 \in from .. n /\ Shadow(s, h[at - 1], ">", Same)
    BY <1>16, <1>17
  <2> QED
    BY <1>14, <1>17, <2>1
<1>18. ASSUME NEW c, Back(c), c \notin Opening \cup Closing, Pass(2, brackets),
              text[at - 1] \notin Opening \cup Closing
       PROVE  BackwardInv' /\ phase' = "back"
  <2>1. at - 1 \in from .. n /\ h[at - 1] = h[at]
    BY <1>16, <1>18
  <2>2. (at - 1) - 1 \in from .. n /\ h[(at - 1) - 1] = h[at - 1]
    BY <1>15, <1>18, <2>1
  <2>3. (at - 1) - 1 = at - 2
    BY <1>3, <1>7
  <2>4. Shadow(brackets, h[at], ">", Same)
    BY <1>13, <1>18
  <2>5. at - 2 \in from .. n /\ Shadow(brackets, h[at - 2], ">", Same)
    BY <2>1, <2>2, <2>3, <2>4
  <2> QED
    BY <1>14, <1>18, <2>5
<1>19. CASE BackClosing
  <2>1. PICK c \in Closing : Back(c) /\ Pass(1, Append(brackets, c))
    BY <1>19 DEF BackClosing
  <2>2. at \in from .. n /\ text[at] = c /\ Shadow(brackets, h[at], ">", Same)
    BY <1>13, <2>1
  <2>3. at # from
    BY <1>10, <2>2, Brackets
  <2>4. at \in from + 1 .. n /\ at - 1 \in from .. n
    BY <1>3, <1>7, <2>2, <2>3
  <2>5. h[at - 1] # << >> /\ Last(h[at - 1]) = c /\ h[at] = Front(h[at - 1])
    BY <1>9, <2>2, <2>4, Brackets DEF Stacked
  <2>6. h[at - 1] \in Seq(Closing)
    BY <1>9, <2>4
  <2>7. h[at - 1] = Append(h[at], c)
    BY <2>1, <2>5, <2>6, AppendFront
  <2>8. Shadow(Append(brackets, c), Append(h[at], Same[c]), ">", Same)
    BY <2>2, ShadowPush, SameBrackets
  <2>9. Shadow(Append(brackets, c), h[at - 1], ">", Same)
    BY <2>7, <2>8, SameBrackets
  <2> QED
    BY <1>14, <2>1, <2>4, <2>9
<1>20. CASE BackGreater
  <2>1. Back(">") /\ ">" \notin Opening \cup Closing
    BY <1>20, Brackets DEF BackGreater
  <2>2. /\ at - 1 \in from .. n /\ brackets # << >> /\ Sym(at - 1) = text[at - 1]
        /\ Shadow(brackets, h[at], ">", Same)
    BY <1>13, <1>16, <2>1
  <2>3. CASE Pass(1, Append(brackets, ">"))
    <3>1. Shadow(Append(brackets, ">"), h[at], ">", Same)
      BY <2>2, ShadowPushAngle, SameBrackets
    <3> QED
      BY <1>17, <2>1, <2>3, <3>1
  <2>4. CASE /\ Pass(2, brackets)
             /\ text[at - 1] \in {"-", " "} \/ OperatorUpTo(at - 1)
    <3>1. OperatorUpTo(at - 1) => text[at - 1] \in {"op", " "}
      <4>1. ASSUME NEW k \in 1 .. at - 1, text[k] = "op", \A j \in k + 1 .. at - 1 : text[j] = " "
            PROVE  text[at - 1] \in {"op", " "}
        <5>1. at - 1 \in Nat
          BY <1>3, <1>7, <2>2
        <5>2. k = at - 1 \/ at - 1 \in k + 1 .. at - 1
          BY <5>1
        <5> QED
          BY <4>1, <5>2
      <4> QED
        BY <4>1 DEF OperatorUpTo
    <3>2. text[at - 1] \notin Opening \cup Closing
      <4>1. text[at - 1] \in {"-", " ", "op"}
        BY <2>4, <3>1
      <4> QED
        BY <4>1 DEF Opening, Closing
    <3> QED
      BY <1>18, <2>1, <2>4, <3>2
  <2> QED
    BY <1>20, <2>2, <2>3, <2>4 DEF BackGreater
<1>21. CASE BackLess
  <2>1. Back("<") /\ "<" \notin Opening \cup Closing
    BY <1>21, Brackets DEF BackLess
  <2>2. /\ at - 1 \in from .. n /\ brackets[1] # ">" /\ Sym(at - 1) = text[at - 1]
        /\ Shadow(brackets, h[at], ">", Same)
    BY <1>13, <1>16, <2>1
  <2>3. brackets # <<">">>
    BY <2>2
  <2>4. CASE Pass(2, brackets) /\ text[at - 1] = "<"
    BY <1>18, <2>1, <2>4
  <2>5. CASE Pass(1, IF Ends(brackets, ">") THEN Front(brackets) ELSE brackets)
    <3> DEFINE s == IF Ends(brackets, ">") THEN Front(brackets) ELSE brackets
    <3>1. Shadow(s, h[at], ">", Same)
      BY <2>2, ShadowPopAngle, SameBrackets
    <3> HIDE DEF s
    <3> QED
      BY <1>17, <2>1, <2>5, <3>1 DEF s
  <2> QED
    BY <1>21, <2>2, <2>3, <2>4, <2>5 DEF BackLess
<1>22. CASE BackSemicolon
  <2>1. Back(";") /\ ";" \notin Opening \cup Closing
    BY <1>22, Brackets DEF BackSemicolon
  <2>2. brackets # << >> /\ Shadow(brackets, h[at], ">", Same)
    BY <1>13, <1>16, <2>1
  <2>3. Without(brackets, ">") # << >> /\ Shadow(Without(brackets, ">"), h[at], ">", Same)
    BY <2>2, ShadowWithout, SameBrackets
  <2>4. Pass(1, Without(brackets, ">"))
    BY <1>22, <2>3 DEF BackSemicolon
  <2> QED
    BY <1>17, <2>1, <2>3, <2>4
<1>23. CASE BackOther
  <2>1. PICK c \in {"-", "=", " ", "op", "x"} : Back(c) /\ Pass(1, brackets)
    BY <1>23 DEF BackOther
  <2>2. c \notin Opening \cup Closing
    BY DEF Opening, Closing
  <2> QED
    BY <1>13, <1>17, <2>1, <2>2
<1>24. CASE BackNewline
  <2>1. Back("NL") /\ "NL" \notin Opening \cup Closing
    BY <1>24, Brackets DEF BackNewline
  <2>2. Pass(1, brackets)
    BY <1>16, <1>24, <2>1 DEF BackNewline
  <2> QED
    BY <1>13, <1>17, <2>1, <2>2
<1>25. CASE BackOpening
  <2> DEFINE open == Without(brackets, ">")
  <2>1. PICK c \in Opening : /\ Back(c)
                             /\ IF ~Ends(open, Closer[c]) THEN Stuck
                                ELSE IF Len(open) = 1 THEN Found
                                ELSE Pass(1, Front(open))
    BY <1>25 DEF BackOpening
  <2>2. at \in from .. n /\ text[at] = c /\ Shadow(brackets, h[at], ">", Same)
    BY <1>13, <2>1
  <2>3. at # n
    BY <1>7, <2>2, Brackets
  <2>4. h[at] # << >> /\ h[at] \in Seq(Closing)
    BY <1>3, <1>7, <1>9, <2>2, <2>3
  <2>5. open # << >> /\ Shadow(open, h[at], ">", Same) /\ ~Ends(open, ">")
    <3>1. brackets # << >>
      BY <2>2, <2>4, ShadowSame
    <3> QED
      BY <2>2, <3>1, ShadowWithout, SameBrackets
  <2> HIDE DEF open
  <2>6. /\ Last(open) \in DOMAIN Same /\ Last(h[at]) = Same[Last(open)]
        /\ Shadow(Front(open), Front(h[at]), ">", Same)
        /\ Len(open) = 1 <=> Len(h[at]) = 1
    BY <2>5, ShadowPop, SameBrackets
  <2>7. Last(open) = Last(h[at])
    BY <2>6, SameBrackets
  <2>8. Closer[c] \in Closing
    BY Brackets
  <2>9. CASE at = from
    <3>1. h[at] = <<Closer[c]>>
      BY <1>9, <2>2, <2>9
    <3>2. Len(h[at]) = 1 /\ Last(h[at]) = Closer[c]
      BY <3>1 DEF Last
    <3>3. Found
      BY <2>1, <2>5, <2>6, <2>7, <3>2 DEF Ends
    <3> QED
      BY <1>3, <1>7, <2>9, <3>3 DEF Found, n
  <2>10. CASE at # from
    <3>1. at \in from + 1 .. n /\ at - 1 \in from .. n /\ at - 1 \in from .. n - 1
      BY <1>3, <1>7, <2>2, <2>10
    <3>2. h[at] = Append(h[at - 1], Closer[c]) /\ h[at - 1] \in Seq(Closing) /\ h[at - 1] # << >>
      BY <1>9, <2>2, <3>1 DEF Stacked
    <3>3. Last(h[at]) = Closer[c] /\ Front(h[at]) = h[at - 1]
      BY <2>8, <3>2, AppendFront
    <3>4. Len(h[at]) # 1
      <4>1. Len(h[at]) = Len(h[at - 1]) + 1 /\ Len(h[at - 1]) # 0 /\ Len(h[at - 1]) \in Nat
        BY <2>8, <3>2
      <4> QED
        BY <4>1
    <3>5. Pass(1, Front(open))
      BY <2>1, <2>5, <2>6, <2>7, <3>3, <3>4 DEF Ends
    <3>6. Shadow(Front(open), h[at - 1], ">", Same)
      BY <2>6, <3>3
    <3> QED
      BY <1>14, <3>1, <3>5, <3>6
  <2> QED
    BY <2>9, <2>10
<1> QED
  BY <1>12, <1>19, <1>20, <1>21, <1>22, <1>23, <1>24, <1>25 DEF Backward, Turn

\* CloseExpression, _GetTextInside and ReverseCloseExpression agree, in every
\* text: on the bracket that closes a round, square or curly one, on there being
\* none when brackets are unbalanced, and on the way back.  What angle brackets,
\* shift and arrow operators, semicolons and ends of lines do to the parameter
\* stacks never reaches the other brackets on them.
THEOREM BracketsDoAgree == ExpressionsSpec => []BracketsAgree
<1>1. ExpressionsInit => BracketsInv
  <2> SUFFICES ASSUME ExpressionsInit PROVE BracketsInv
    OBVIOUS
  <2>1. text \in Seq(Symbol) /\ from = Len(text) + 1 /\ Len(text) \in Nat
    <3>1. text \in Leading /\ from = Len(text) + 1
      BY DEF ExpressionsInit
    <3>2. text \in Seq(Symbol)
      BY <3>1, ExpressionsAssumption
    <3> QED
      BY <3>1, <3>2
  <2>2. from \notin DOMAIN text
    BY <2>1
  <2>3. from \in Nat \ {0} /\ Len(text) = from - 1
    BY <2>1
  <2> QED
    BY <2>1, <2>2, <2>3 DEF ExpressionsInit, BracketsInv, Round
<1>2. BracketsInv /\ [ExpressionsNext]_exprVars => BracketsInv'
  <2> SUFFICES ASSUME BracketsInv, [ExpressionsNext]_exprVars PROVE BracketsInv'
    OBVIOUS
  <2>1. CASE UNCHANGED exprVars
    BY <2>1 DEF exprVars, BracketsInv, ForwardInv, BackwardInv, Round
  <2> QED
    BY <2>1, ForwardKeeps, BackwardKeeps DEF ExpressionsNext, ExpressionsDone
<1>3. BracketsInv => BracketsAgree
  <2> SUFFICES ASSUME BracketsInv, Round PROVE
                 /\ phase # "forward" => stop = IF end > 0 THEN end ELSE Nothing
                 /\ phase = "forward" => stop = Reading /\ inside # << >>
                 /\ phase = "found" => at = from
                 /\ phase = "none" => end = 0
    BY DEF BracketsAgree
  <2>1. Len(text) >= from
    <3>1. DOMAIN text = 1 .. Len(text) /\ from \in 1 .. Len(text) /\ Len(text) \in Nat
      BY DEF Round, BracketsInv
    <3> QED
      BY <3>1
  <2>2. CASE phase = "forward"
    BY <2>1, <2>2 DEF BracketsInv, ForwardInv
  <2>3. CASE phase = "back"
    <3>1. stop = end /\ from < end /\ from \in Nat \ {0} /\ end = Len(text) /\ end \in Nat
      BY <2>3 DEF BracketsInv, BackwardInv
    <3>2. end > 0
      BY <3>1
    <3> QED
      BY <2>3, <3>1, <3>2
  <2>4. CASE phase \in {"found", "none"}
    BY <2>4 DEF BracketsInv
  <2> QED
    BY <2>2, <2>3, <2>4 DEF BracketsInv
<1> QED
  BY <1>1, <1>2, <1>3, PTL DEF ExpressionsSpec

===============================================================================
