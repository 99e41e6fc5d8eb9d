-------------------------- MODULE LintExpressions --------------------------
(***************************************************************************)
(* How src/nebula/build_support/cpplint.py finds the other end of a        *)
(* bracketed expression: CloseExpression forward over the lines of a file, *)
(* ReverseCloseExpression backward, and _GetTextInside over a text that    *)
(* has been joined.  Nearly every check of the linter stands on them.      *)
(*                                                                         *)
(* The text is what the forward scan has read: one step reads one symbol,  *)
(* whatever it may be, and when the scan has found an end the backward     *)
(* scan walks over the same text.  "NL" is the end of a line, "op" the     *)
(* keyword operator, " " white space, "x" anything else.                   *)
(***************************************************************************)
EXTENDS Integers, Sequences, SequencesExt

CONSTANTS Symbol,   \* the symbols that texts are made of
          Leading,  \* what may stand before the opening bracket
          MaxText   \* bound on the symbols read

Opening == {"(", "[", "{"}
Closing == {")", "]", "}"}
Opener == [c \in Closing |-> IF c = ")" THEN "(" ELSE IF c = "]" THEN "[" ELSE "{"]
Closer == [c \in Opening |-> IF c = "(" THEN ")" ELSE IF c = "[" THEN "]" ELSE "}"]

ASSUME ExpressionsAssumption ==
  /\ Symbol \subseteq Opening \cup Closing \cup {"<", ">", ";", "-", "=", " ", "NL", "op", "x"}
  /\ Leading \subseteq Seq(Symbol)
  /\ MaxText \in Nat

VARIABLES
  text,   \* the symbols from the start of the line to where the scan is
  from,   \* the position of the bracket whose other end is wanted
  phase,  \* "forward", "back", "found" (the start again) or "none"
  brackets, \* the parameter stack of the functions that scan one line
  at,     \* the position of the backward scan
  end,    \* the position of the bracket that closes, 0 while there is none
  inside, \* punctuation_stack of _GetTextInside, called for the same bracket
  stop    \* where _GetTextInside stopped: the closing bracket, or Nothing

exprVars == <<text, from, phase, brackets, at, end, inside, stop>>

Reading == 0  \* _GetTextInside goes on
Nothing == -1    \* it has returned Nothing

ExpressionsInit ==
  /\ text \in Leading
  /\ from = Len(text) + 1
  /\ phase = "forward"
  /\ brackets = << >>
  /\ at = 0
  /\ end = 0
  /\ inside = << >>
  /\ stop = Reading

----------------------------------------------------------------------------
(***************************************************************************)
(* Helpers.                                                                *)
(***************************************************************************)

\* The symbol at position i of the text, "NL" before the first.
Sym(i) == IF i \in DOMAIN text THEN text[i] ELSE "NL"

\* Search(r'\boperator\s*$') in the line up to and including position i.
OperatorUpTo(i) ==
  \E k \in 1 .. i : text[k] = "op" /\ \A j \in k + 1 .. i : text[j] = " "

Ends(s, c) == s # << >> /\ Last(s) = c

\* A slip: of the angle brackets that were operators one only is dropped.
FaultyWithout(s, angle) == IF Ends(s, angle) THEN Front(s) ELSE s

\* The angle brackets on top were operators: they are dropped.
Without(s, angle) ==
  SubSeq(s, 1, CHOOSE n \in 0 .. Len(s) :
                 /\ n = 0 \/ s[n] # angle
                 /\ \A i \in n + 1 .. Len(s) : s[i] = angle)

----------------------------------------------------------------------------
(***************************************************************************)
(* _GetTextInside, one symbol further.                                     *)
(***************************************************************************)
Inside(c) ==
  IF stop # Reading THEN UNCHANGED <<inside, stop>>
  ELSE IF Len(text) + 1 = from
  THEN /\ inside' = IF c \in Opening THEN <<Closer[c]>> ELSE << >>
       /\ UNCHANGED stop
  ELSE IF Ends(inside, c)
  THEN /\ inside' = Front(inside)
       /\ stop' = IF Len(inside) = 1 THEN Len(text) + 1 ELSE stop
  ELSE /\ inside' = IF c \in Opening THEN Append(inside, Closer[c]) ELSE inside
       /\ stop' = IF c \in Closing THEN Nothing ELSE stop

----------------------------------------------------------------------------
(***************************************************************************)
(* CloseExpression.  The first symbol is the bracket itself; "<<" and "<=" *)
(* are not brackets, which takes one symbol more to see.                   *)
(***************************************************************************)
Read(c) ==
  /\ phase = "forward"
  /\ c \in Symbol
  /\ Len(text) < MaxText
  /\ Len(text) + 1 = from => c \in Opening \cup {"<"}
  /\ ~(Len(text) = from /\ Sym(from) = "<" /\ c \in {"<", "="})
  /\ text' = Append(text, c)
  /\ Inside(c)
  /\ UNCHANGED <<from, at>>

GoOn(s) == brackets' = s /\ UNCHANGED <<phase, end>>
GiveUp == phase' = "none" /\ brackets' = << >> /\ UNCHANGED end
CloseAt(i) == phase' = "back" /\ end' = i /\ brackets' = << >>

ReadOpening == \E c \in Opening : Read(c) /\ GoOn(Append(brackets, c))

\* A second "<" makes a shift operator of both.
ReadLess ==
  /\ Read("<")
  /\ IF Sym(Len(text)) = "<"
     THEN IF brackets = <<"<">> THEN GiveUp
          ELSE GoOn(IF Ends(brackets, "<") THEN Front(brackets) ELSE brackets)
     ELSE GoOn(IF OperatorUpTo(Len(text)) THEN brackets ELSE Append(brackets, "<"))

ReadClosing == \E c \in Closing :
  /\ Read(c)
  /\ LET open == Without(brackets, "<") IN
     IF ~Ends(open, Opener[c]) THEN GiveUp
     ELSE IF Len(open) = 1 THEN CloseAt(Len(text) + 1)
     ELSE GoOn(Front(open))

\* "->" and what follows the keyword operator are passed over; the pattern is
\* tried on line[0:i - 1], which leaves out the symbol before the ">".
ReadGreater ==
  /\ Read(">")
  /\ IF \/ Sym(Len(text)) = "-"
        \/ Sym(Len(text)) # "NL" /\ OperatorUpTo(Len(text) - 1)
        \/ ~Ends(brackets, "<")
     THEN GoOn(brackets)
     ELSE IF Len(brackets) = 1 THEN CloseAt(Len(text) + 1)
     ELSE GoOn(Front(brackets))

ReadSemicolon ==
  /\ Read(";")
  /\ IF Without(brackets, "<") = << >> THEN GiveUp ELSE GoOn(Without(brackets, "<"))

ReadOther == \E c \in {"-", "=", " ", "op", "x"} : Read(c) /\ GoOn(brackets)

\* The next line is only looked at while something is open.
ReadNewline == Read("NL") /\ IF brackets = << >> THEN GiveUp ELSE GoOn(brackets)

\* "<<" or "<=" instead of a bracket.
NoBracket ==
  /\ phase = "forward"
  /\ Len(text) = from
  /\ Sym(from) = "<"
  /\ GiveUp
  /\ UNCHANGED <<text, from, at, inside, stop>>

Forward ==
  \/ ReadOpening \/ ReadLess \/ ReadClosing \/ ReadGreater
  \/ ReadSemicolon \/ ReadOther \/ ReadNewline \/ NoBracket

----------------------------------------------------------------------------
(***************************************************************************)
(* ReverseCloseExpression, from the bracket that was found.                *)
(***************************************************************************)
Turn ==
  /\ phase = "back"
  /\ at = 0
  /\ at' = end
  /\ UNCHANGED <<text, from, phase, brackets, end, inside, stop>>

\* The scan is at symbol c, which it has not passed.
Back(c) ==
  /\ phase = "back"
  /\ at > 0
  /\ Sym(at) = c
  /\ UNCHANGED <<text, from, end, inside, stop>>

Pass(n, s) == at' = at - n /\ brackets' = s /\ phase' = IF at' <= 0 THEN "none" ELSE phase
Found == phase' = "found" /\ UNCHANGED <<at, brackets>>
Stuck == phase' = "none" /\ UNCHANGED <<at, brackets>>

BackClosing == \E c \in Closing : Back(c) /\ Pass(1, Append(brackets, c))

\* "->", " >= " and operator> are passed over together with the symbol before.
BackGreater ==
  /\ Back(">")
  /\ IF \/ Sym(at - 1) = "-"
        \/ Sym(at - 1) = " " /\ Sym(at + 1) = "=" /\ Sym(at + 2) = " "
        \/ Sym(at - 1) # "NL" /\ OperatorUpTo(at - 1)
     THEN Pass(2, brackets) ELSE Pass(1, Append(brackets, ">"))

BackLess ==
  /\ Back("<")
  /\ IF Sym(at - 1) = "<" THEN Pass(2, brackets)
     ELSE IF brackets = <<">">> THEN Found
     ELSE Pass(1, IF Ends(brackets, ">") THEN Front(brackets) ELSE brackets)

BackOpening == \E c \in Opening :
  /\ Back(c)
  /\ LET open == Without(brackets, ">") IN
     IF ~Ends(open, Closer[c]) THEN Stuck
     ELSE IF Len(open) = 1 THEN Found
     ELSE Pass(1, Front(open))

BackSemicolon ==
  /\ Back(";")
  /\ IF Without(brackets, ">") = << >> THEN Stuck ELSE Pass(1, Without(brackets, ">"))

BackOther == \E c \in {"-", "=", " ", "op", "x"} : Back(c) /\ Pass(1, brackets)

BackNewline == Back("NL") /\ IF brackets = << >> THEN Stuck ELSE Pass(1, brackets)

Backward ==
  \/ Turn \/ BackClosing \/ BackGreater \/ BackLess
  \/ BackOpening \/ BackSemicolon \/ BackOther \/ BackNewline

----------------------------------------------------------------------------
ExpressionsDone == phase \in {"found", "none"} /\ UNCHANGED exprVars

\* The text may end anywhere.
ExpressionsNext ==
  \/ Forward \/ Backward \/ ExpressionsDone
  \/ phase = "forward" /\ Len(text) = MaxText /\ UNCHANGED exprVars

ExpressionsSpec == ExpressionsInit /\ [][ExpressionsNext]_exprVars

----------------------------------------------------------------------------
(***************************************************************************)
(* Properties.                                                             *)
(***************************************************************************)
Round == from \in DOMAIN text /\ text[from] \in Opening

\* The three functions agree on what belongs to a round, square or curly
\* bracket, whatever angle brackets, operators and ends of lines are between:
\* CloseExpression finds an end exactly where _GetTextInside does, gives up on
\* unbalanced brackets with it, and from that end ReverseCloseExpression comes
\* back to the bracket it started from.
BracketsAgree ==
  Round =>
    /\ phase # "forward" => stop = IF end > 0 THEN end ELSE Nothing
    /\ phase = "forward" => stop = Reading /\ inside # << >>
    /\ phase = "found" => at = from
    /\ phase = "none" => end = 0
=============================================================================
