------------------------------- MODULE MCLint -------------------------------
(***************************************************************************)
(* LintFile on the file foo.cc of directory d, written in one of a few     *)
(* alphabets of lines, each about one subject; LintExpressions on short    *)
(* texts; and LintDriver on lists of two files below a directory of        *)
(* options.  Each is a set of behaviours of its own, chosen at the start.  *)
(***************************************************************************)
EXTENDS LintFile, LintExpressions, LintDriver

Plain == [pp |-> "none", namespaces |-> << >>, class |-> FALSE, tokens |-> << >>,
          parens |-> 0, asm |-> FALSE, indented |-> FALSE, forward |-> FALSE,
          macro |-> FALSE, function |-> "other", include |-> NoHeader, uses |-> {}]

If == [Plain EXCEPT !.pp = "if"]
Else_ == [Plain EXCEPT !.pp = "else"]
Endif == [Plain EXCEPT !.pp = "endif"]
Blank == [Plain EXCEPT !.function = "blank"]

\* Headers and the file's place.
Foo == [dir |-> "d", first |-> "foo", rest |-> "", ext |-> "h", quoted |-> TRUE]
FooBar == [Foo EXCEPT !.rest = "bar"]
FooSource == [FooBar EXCEPT !.ext = "cc", !.dir = "e"]
Other == [Foo EXCEPT !.first = "other", !.dir = ""]
Lua == [Other EXCEPT !.first = "lua"]
Stdio == [Other EXCEPT !.first = "stdio", !.quoted = FALSE]
Zlib == [Stdio EXCEPT !.first = "zlib"]
Vector == [Stdio EXCEPT !.first = "vector", !.ext = ""]

MCHeader == {Foo, FooBar, FooSource, Other, Lua, Stdio, Zlib, Vector}
MCRank == [h \in MCHeader |->
             CASE h.first = "foo" -> IF h.rest = "" THEN 1 ELSE 2
               [] h.first = "lua" -> 3
               [] h.first = "other" -> 4
               [] h.first = "stdio" -> 5
               [] h.first = "vector" -> 6
               [] h.first = "zlib" -> 7]
MCCppHeader == {Vector}
MCThirdParty == {Lua}
MCTarget == [dir |-> "d", first |-> "foo", rest |-> "", source |-> TRUE, test |-> FALSE]
MCOwnIncludes == {Stdio}

Include(h) == [Plain EXCEPT !.include = h]

\* Blocks and branches: namespace n {, namespace n, { , class C {, class C, };,
\* class C;, f(, ) {, and so on.
Scopes == {
  If, Else_, Endif,
  [Plain EXCEPT !.namespaces = <<TRUE>>],
  [Plain EXCEPT !.tokens = <<"{">>],
  [Plain EXCEPT !.tokens = <<"}">>],
  [Plain EXCEPT !.class = TRUE],
  [Plain EXCEPT !.class = TRUE, !.tokens = <<"{">>, !.indented = TRUE]}

Arguments == {
  If, Else_, Endif,
  [Plain EXCEPT !.class = TRUE, !.tokens = <<"{">>],
  [Plain EXCEPT !.parens = 1],
  [Plain EXCEPT !.class = TRUE, !.parens = -1, !.tokens = <<")", ";">>],
  [Plain EXCEPT !.class = TRUE, !.forward = TRUE, !.indented = TRUE, !.tokens = <<";">>],
  [Plain EXCEPT !.tokens = <<"extern {">>],
  [Plain EXCEPT !.tokens = <<"}", ";">>]}

Functions_ == {
  If, Else_,
  [Plain EXCEPT !.function = "begins", !.tokens = <<"{">>],
  [Plain EXCEPT !.function = "test", !.tokens = <<"{">>],
  [Plain EXCEPT !.function = "bodyless"],
  [Plain EXCEPT !.function = "closes", !.tokens = <<"}">>],
  Plain}

Assembly == {
  If, Else_, Endif,
  [Plain EXCEPT !.function = "begins", !.tokens = <<"{">>],
  [Plain EXCEPT !.asm = TRUE, !.parens = 1],
  [Plain EXCEPT !.parens = -1, !.tokens = <<")", ";">>],
  [Plain EXCEPT !.asm = TRUE, !.tokens = <<"asm {">>],
  [Plain EXCEPT !.function = "closes", !.tokens = <<"}">>]}

Orders == {Blank, If} \cup {Include(h) : h \in {Foo, FooBar, Other, Lua, Stdio, Zlib, Vector}}

Twice == {
  If, Else_, Endif, Include(Foo), Include(Stdio), Include(Vector), Include(FooSource),
  [Plain EXCEPT !.uses = {Stdio, Vector}]}

MCAlphabet == [
  scopes |-> Scopes, arguments |-> Arguments, functions |-> Functions_,
  assembly |-> Assembly, orders |-> Orders, twice |-> Twice, expression |-> {}, driver |-> {}]

\* Texts start at the bracket.
MCLeading == {<< >>}

\* Files f below d and the root, g and h below the root only.
Signed(sign, name) == [sign |-> sign, text |-> name]
Filter(fs) == [name |-> "filter", filters |-> fs]
Exclude(names) == [name |-> "exclude", excluded |-> names]
Width(n) == [name |-> "linelength", length |-> n]
NoParent == [name |-> "noparent"]

MCFileLists == {<<"f", "g">>, <<"h", "f">>, <<"g", "f">>}
MCDirsOf == [f |-> <<"d", "root">>, g |-> <<"root">>, h |-> <<"root">>]
MCCategory == {"a/x", "a/y", "legal", "readability/nolint", "whitespace/line_length"}
MCMatches == ("a" :> {"a/x", "a/y"}) @@ ("a/x" :> {"a/x"}) @@ ("a/y" :> {"a/y"}) @@ ("" :> MCCategory)
MCFlagFilters == <<Signed("-", "a/y")>>

MCSettings == {[d |-> below, root |-> above] :
  below \in {
    << >>,
    <<Filter(<<Signed("+", "a/x")>>), Filter(<<Signed("-", "a")>>)>>,
    <<NoParent, Width(3)>>,
    <<Filter(<<Signed("-", "a/x")>>), Exclude({"f"})>>},
  above \in {
    << >>,
    <<Filter(<<Signed("-", "a/x"), Signed("+", "a/x")>>)>>,
    <<Filter(<<Signed("-", "")>>), Exclude({"g", "d"})>>,
    <<Width(1), Filter(<<Signed("", "a")>>)>>}}

\* Lines with a complaint, two, one about the next line (with and without a
\* look ahead), and with comments: NOLINTNEXTLINE, one of
\* another tool, one of no tool; and the marker of a C file.
Quiet == [width |-> 2, raises |-> {}, ahead |-> FALSE, nolint |-> "no", category |-> All,
          marker |-> FALSE]
MCLine == {
  [Quiet EXCEPT !.raises = {<<"a/x", 4, 0>>}],
  [Quiet EXCEPT !.raises = {<<"a/x", 4, 0>>, <<"a/y", 1, 0>>}, !.nolint = "this", !.category = "a/x"],
  [Quiet EXCEPT !.raises = {<<"a/x", 4, 1>>}, !.ahead = TRUE],
  [Quiet EXCEPT !.raises = {<<"a/x", 4, 1>>}],
  [Quiet EXCEPT !.nolint = "next"],
  [Quiet EXCEPT !.raises = {<<"a/x", 4, 0>>}, !.nolint = "this", !.category = Legacy],
  [Quiet EXCEPT !.marker = TRUE],
  [Quiet EXCEPT !.nolint = "this", !.category = Unknown]}
MCText == {<<l, m>> : l \in MCLine, m \in MCLine}
MCEarly == {<<"legal", 5, 0>>, <<"a/x", 4, 1>>}
MCLate == {<<"a/y", 4, 1>>}

MCInit ==
  /\ Init /\ ExpressionsInit /\ DriverInit
  /\ subject # "driver" => settings = [d |-> << >>, root |-> << >>]

MCNext ==
  \/ subject \notin {"expression", "driver"} /\ Next /\ UNCHANGED <<exprVars, driverVars>>
  \/ subject = "expression" /\ ExpressionsNext /\ UNCHANGED <<vars, driverVars>>
  \/ subject = "driver" /\ DriverNext /\ UNCHANGED <<vars, exprVars>>

MCSpec == MCInit /\ [][MCNext]_<<vars, exprVars, driverVars>>
=============================================================================
