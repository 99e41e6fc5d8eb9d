-------------------------- MODULE LintDriverProofs --------------------------
(***************************************************************************)
(* What cpplint shows is what the verbosity, the filters and the comments  *)
(* say, for any number of files, configurations, filters and lines.  The   *)
(* filters in force are those of the flags followed by those of the        *)
(* configuration files from the root down, for the current file only       *)
(* (FiltersInv); read from the end, they decide as Accepted does, which    *)
(* goes from the file up.  The comments that have been read are those of   *)
(* the current file, up to the present line at least (MarksInv).           *)
(***************************************************************************)
EXTENDS LintDriver, InductionLemmas, SequenceTheorems, FiniteSetTheorems

----------------------------------------------------------------------------
(***************************************************************************)
(* The inductive invariant.                                                *)
(***************************************************************************)
AtFile == step \in {"config", "open", "lines"}

PlaceInv ==
  /\ step \in {"arguments", "next", "config", "open", "lines", "over"}
  /\ files \in Seq(DOMAIN DirsOf)
  /\ AtFile => files # << >>
  /\ settings \in Settings
  /\ step = "config" => depth \in 0 .. Len(Dirs)
  /\ cfgFilters \in Seq(FilterOption)
  /\ step = "lines" => source \in Text /\ parsed \in 0 .. Len(source)

\* What earlier files and their configurations have added is gone.
FiltersInv ==
  /\ step = "arguments" => filters = << >>
  /\ step \in {"next", "config"} => filters = FlagFilters
  /\ AtFile => backup = FlagFilters
  /\ step \in {"open", "lines"} => filters = FlagFilters \o FromConfig(cfgFilters)

\* The marks of the first n lines, and those that hold for all lines.
MarksOf(n) == Global(source) \cup UNION {Marks(source[i], i) : i \in 1 .. n}

MarksInv ==
  step = "lines" => MarksOf(parsed) \subseteq suppressed /\ suppressed \subseteq MarksOf(Len(source))

\* What is shown of the complaints of this file.
Judged(v) ==
  ~v.early => (v.shown <=> /\ v.confidence >= Verbosity
                           /\ ~Excused(v.category, v.line)
                           /\ Accepted(v.category))

VerdictInv ==
  /\ step \in {"arguments", "config", "open"} => verdicts = {}
  /\ \A v \in verdicts : Judged(v)

CountInv == errorCount \in Nat /\ shownEver \in BOOLEAN /\ (errorCount > 0 <=> shownEver)

StatusInv ==
  step = "over" /\ filters # << >> /\ WellFormed(filters) => (status = 1 <=> shownEver)

DriverInv == PlaceInv /\ FiltersInv /\ MarksInv /\ VerdictInv /\ CountInv /\ StatusInv

----------------------------------------------------------------------------
(***************************************************************************)
(* Lists of filters.                                                       *)
(***************************************************************************)
Speaks(c, f) == c \in Matches[f.text]

Silent(c, fs) == \A i \in 1 .. Len(fs) : ~Speaks(c, fs[i])

\* The last of the first n that speaks of c lets it pass, if there is one.
LetsUpTo(c, fs, n) ==
  \A i \in 1 .. n :
    Speaks(c, fs[i]) /\ (\A j \in i + 1 .. n : ~Speaks(c, fs[j])) => fs[i].sign = "+"

Lets(c, fs) == LetsUpTo(c, fs, Len(fs))

LEMMA LetsOneMore ==
  ASSUME NEW c, NEW fs, NEW n \in Nat
  PROVE  LetsUpTo(c, fs, n + 1) <=> IF Speaks(c, fs[n + 1]) THEN fs[n + 1].sign = "+"
                                    ELSE LetsUpTo(c, fs, n)
<1>1. CASE Speaks(c, fs[n + 1])
  <2>1. ASSUME NEW i \in 1 .. n PROVE ~ \A j \in i + 1 .. n + 1 : ~Speaks(c, fs[j])
    <3>1. n + 1 \in i + 1 .. n + 1
      OBVIOUS
    <3> QED
      BY <1>1, <3>1
  <2>2. \A i \in 1 .. n + 1 : i \in 1 .. n \/ i = n + 1
    OBVIOUS
  <2>3. n + 1 \in 1 .. n + 1 /\ n + 1 + 1 .. n + 1 = {}
    OBVIOUS
  <2> QED
    BY <1>1, <2>1, <2>2, <2>3 DEF LetsUpTo
<1>2. CASE ~Speaks(c, fs[n + 1])
  <2>1. ASSUME NEW i \in 1 .. n
        PROVE  (\A j \in i + 1 .. n + 1 : ~Speaks(c, fs[j])) <=> \A j \in i + 1 .. n : ~Speaks(c, fs[j])
    <3>1. \A j \in i + 1 .. n + 1 : j \in i + 1 .. n \/ j = n + 1
      OBVIOUS
    <3>2. \A j \in i + 1 .. n : j \in i + 1 .. n + 1
      OBVIOUS
    <3> QED
      BY <1>2, <3>1, <3>2
  <2>2. \A i \in 1 .. n + 1 : i \in 1 .. n \/ i = n + 1
    OBVIOUS
  <2>3. \A i \in 1 .. n : i \in 1 .. n + 1
    OBVIOUS
  <2> QED
    BY <1>2, <2>1, <2>2, <2>3 DEF LetsUpTo
<1> QED
  BY <1>1, <1>2

LEMMA PassesIs ==
  ASSUME NEW c, NEW fs \in Seq(FilterText)
  PROVE  PassesFilters(c, fs) <=> Lets(c, fs)
<1> DEFINE N == Len(fs)
           Def(g) == [n \in 0 .. N |->
                        IF n = 0 THEN TRUE
                        ELSE IF c \in Matches[fs[n].text] THEN fs[n].sign = "+" ELSE g[n - 1]]
           passes == CHOOSE g : g = Def(g)
           move == [n \in 1 .. N |-> [t \in BOOLEAN |->
                      IF c \in Matches[fs[n].text] THEN fs[n].sign = "+" ELSE t]]
<1>1. PassesFilters(c, fs) = passes[N]
  BY DEF PassesFilters
<1>2. N \in Nat
  OBVIOUS
<1> HIDE DEF N
<1>3. IsStep(move, N, BOOLEAN)
  BY DEF IsStep
<1>4. PICK f : Recursion(f, N, BOOLEAN, TRUE, move)
  <2> HIDE DEF move
  <2> QED
    BY <1>2, <1>3, RecursionExists
<1>5. ASSUME NEW n \in 1 .. N
      PROVE  f[n] = IF c \in Matches[fs[n].text] THEN fs[n].sign = "+" ELSE f[n - 1]
  <2>1. n - 1 \in 0 .. N
    BY <1>2
  <2>2. f[n - 1] \in BOOLEAN /\ f[n] = move[n][f[n - 1]]
    BY <1>4, <2>1 DEF Recursion
  <2> QED
    BY <2>2
<1> HIDE DEF move
<1>6. f = Def(f)
  <2>1. ASSUME NEW n \in 0 .. N PROVE f[n] = Def(f)[n]
    <3> DEFINE goes == IF c \in Matches[fs[n].text] THEN fs[n].sign = "+" ELSE f[n - 1]
    <3>1. Def(f)[n] = IF n = 0 THEN TRUE ELSE goes
      BY Zenon
    <3>2. CASE n = 0
      <4>1. f[0] = TRUE
        BY <1>4, Zenon DEF Recursion
      <4> QED
        BY <3>1, <3>2, <4>1, Zenon
    <3>3. CASE n \in 1 .. N
      <4>1. n # 0
        BY <3>3
      <4> QED
        BY <1>5, <3>1, <3>3, <4>1, Zenon
    <3>4. n = 0 \/ n \in 1 .. N
      BY <1>2
    <3> QED
      BY <3>2, <3>3, <3>4
  <2>2. f = [n \in 0 .. N |-> f[n]] /\ Def(f) = [n \in 0 .. N |-> Def(f)[n]]
    BY <1>4 DEF Recursion
  <2> HIDE DEF Def
  <2> QED
    BY <2>1, <2>2
<1>7. passes = Def(passes)
  <2> HIDE DEF Def
  <2> QED
    BY <1>6
<1> HIDE DEF passes
<1>8. \A n \in 0 .. N : passes[n] = IF n = 0 THEN TRUE
                                    ELSE IF c \in Matches[fs[n].text] THEN fs[n].sign = "+"
                                    ELSE passes[n - 1]
  BY <1>7
<1> HIDE DEF Def
<1> DEFINE S == {n \in 0 .. N : passes[n] = LetsUpTo(c, fs, n)}
<1>9. 0 \in S
  <2>1. LetsUpTo(c, fs, 0) = TRUE
    BY DEF LetsUpTo
  <2>2. 0 \in 0 .. N
    BY <1>2
  <2>3. passes[0] = TRUE
    BY <1>8, <2>2, Zenon
  <2> QED
    BY <2>1, <2>2, <2>3, Zenon
<1>10. ASSUME NEW n \in 0 .. N - 1, n \in S PROVE n + 1 \in S
  <2>1. n \in Nat /\ n + 1 \in 0 .. N /\ n + 1 # 0 /\ (n + 1) - 1 = n
    BY <1>2
  <2>2. passes[n + 1] = IF Speaks(c, fs[n + 1]) THEN fs[n + 1].sign = "+" ELSE LetsUpTo(c, fs, n)
    BY <1>8, <1>10, <2>1 DEF Speaks
  <2>3. LetsUpTo(c, fs, n + 1) = IF Speaks(c, fs[n + 1]) THEN fs[n + 1].sign = "+" ELSE LetsUpTo(c, fs, n)
    <3>1. LetsUpTo(c, fs, n + 1) \in BOOLEAN /\ LetsUpTo(c, fs, n) \in BOOLEAN
      BY DEF LetsUpTo
    <3> QED
      BY <2>1, <3>1, LetsOneMore
  <2> QED
    BY <2>1, <2>2, <2>3
<1>11. 0 .. N \subseteq S
  <2> HIDE DEF S
  <2> QED
    BY <1>2, <1>9, <1>10, UpToInd
<1>12. N \in 0 .. N
  BY <1>2
<1> QED
  BY <1>1, <1>11, <1>12 DEF Lets, N

LEMMA Concatenated ==
  ASSUME NEW S, NEW s \in Seq(S), NEW t \in Seq(S)
  PROVE  /\ s \o t \in Seq(S) /\ Len(s \o t) = Len(s) + Len(t)
         /\ \A i \in 1 .. Len(s) : (s \o t)[i] = s[i]
         /\ \A i \in 1 .. Len(t) : (s \o t)[Len(s) + i] = t[i]
BY ConcatProperties

LEMMA SilentConcat ==
  ASSUME NEW c, NEW s \in Seq(FilterText), NEW t \in Seq(FilterText)
  PROVE  Silent(c, s \o t) <=> Silent(c, s) /\ Silent(c, t)
<1> DEFINE st == s \o t
<1>1. /\ Len(s) \in Nat /\ Len(t) \in Nat /\ Len(st) = Len(s) + Len(t)
      /\ \A i \in 1 .. Len(s) : st[i] = s[i]
      /\ \A i \in 1 .. Len(t) : st[Len(s) + i] = t[i]
  BY Concatenated
<1>2. \A i \in 1 .. Len(st) : i \in 1 .. Len(s) \/ (i - Len(s) \in 1 .. Len(t) /\ st[i] = t[i - Len(s)])
  BY <1>1
<1>3. \A i \in 1 .. Len(t) : Len(s) + i \in 1 .. Len(st)
  BY <1>1
<1>4. \A i \in 1 .. Len(s) : i \in 1 .. Len(st)
  BY <1>1
<1> HIDE DEF st
<1>5. Silent(c, st) <=> Silent(c, s) /\ Silent(c, t)
  BY <1>1, <1>2, <1>3, <1>4 DEF Silent
<1> QED
  BY <1>5 DEF st

LEMMA LetsConcat ==
  ASSUME NEW c, NEW s \in Seq(FilterText), NEW t \in Seq(FilterText)
  PROVE  Lets(c, s \o t) <=> Lets(c, t) /\ (Silent(c, t) => Lets(c, s))
<1> DEFINE st == s \o t
           m == Len(s)
           n == Len(t)
<1>1. /\ m \in Nat /\ n \in Nat /\ Len(st) = m + n
      /\ \A i \in 1 .. m : st[i] = s[i]
      /\ \A i \in 1 .. n : st[m + i] = t[i]
  BY Concatenated
<1> HIDE DEF st, m, n
<1>2. ASSUME NEW i \in 1 .. n
      PROVE  (\A j \in m + i + 1 .. m + n : ~Speaks(c, st[j])) <=> \A j \in i + 1 .. n : ~Speaks(c, t[j])
  <2>1. ASSUME NEW j \in i + 1 .. n PROVE m + j \in m + i + 1 .. m + n /\ st[m + j] = t[j]
    BY <1>1
  <2>2. ASSUME NEW j \in m + i + 1 .. m + n PROVE j - m \in i + 1 .. n /\ st[j] = t[j - m]
    <3>1. j - m \in 1 .. n /\ j - m \in i + 1 .. n /\ m + (j - m) = j
      BY <1>1
    <3> QED
      BY <1>1, <3>1
  <2> QED
    BY <2>1, <2>2
<1>3. ASSUME NEW i \in 1 .. m
      PROVE  (\A j \in i + 1 .. m + n : ~Speaks(c, st[j]))
               <=> (\A j \in i + 1 .. m : ~Speaks(c, s[j])) /\ \A j \in 1 .. n : ~Speaks(c, t[j])
  <2>1. ASSUME NEW j \in i + 1 .. m PROVE j \in i + 1 .. m + n /\ st[j] = s[j]
    BY <1>1
  <2>2. ASSUME NEW j \in 1 .. n PROVE m + j \in i + 1 .. m + n /\ st[m + j] = t[j]
    BY <1>1
  <2>3. ASSUME NEW j \in i + 1 .. m + n
        PROVE  (j \in i + 1 .. m /\ st[j] = s[j]) \/ (j - m \in 1 .. n /\ st[j] = t[j - m])
    <3>1. CASE j <= m
      BY <1>1, <3>1
    <3>2. CASE j > m
      <4>1. j - m \in 1 .. n /\ m + (j - m) = j
        BY <1>1, <3>2
      <4> QED
        BY <1>1, <4>1
    <3> QED
      BY <1>1, <3>1, <3>2
  <2> QED
    BY <2>1, <2>2, <2>3
<1>4. /\ \A i \in 1 .. m : i \in 1 .. m + n
      /\ \A i \in 1 .. n : m + i \in 1 .. m + n
      /\ \A i \in 1 .. m + n : i \in 1 .. m \/ (i - m \in 1 .. n /\ m + (i - m) = i)
  BY <1>1
<1>5. Lets(c, t) <=> \A i \in 1 .. n : LET k == m + i IN
                        Speaks(c, st[k]) /\ (\A j \in k + 1 .. m + n : ~Speaks(c, st[j])) => st[k].sign = "+"
  BY <1>1, <1>2 DEF Lets, LetsUpTo, n
<1>6. (Silent(c, t) => Lets(c, s)) <=> \A i \in 1 .. m :
        Speaks(c, st[i]) /\ (\A j \in i + 1 .. m + n : ~Speaks(c, st[j])) => st[i].sign = "+"
  BY <1>1, <1>3 DEF Lets, LetsUpTo, Silent, m, n
<1>7. Lets(c, st) <=> \A i \in 1 .. m + n :
        Speaks(c, st[i]) /\ (\A j \in i + 1 .. m + n : ~Speaks(c, st[j])) => st[i].sign = "+"
  BY <1>1 DEF Lets, LetsUpTo
<1>8. Lets(c, st) <=> Lets(c, t) /\ (Silent(c, t) => Lets(c, s))
  BY <1>4, <1>5, <1>6, <1>7
<1> QED
  BY <1>8 DEF st

----------------------------------------------------------------------------
(***************************************************************************)
(* The filters of the configuration files.                                 *)
(***************************************************************************)

LEMMA EmptyFirst == ASSUME NEW S, NEW t \in Seq(S) PROVE << >> \o t = t
BY ConcatEmptySeq

\* A list of lists, flattened from its start.
LEMMA Flattened ==
  ASSUME NEW S, NEW lists \in Seq(Seq(S))
  PROVE  \E f : /\ f \in [0 .. Len(lists) -> Seq(S)]
                /\ f[0] = << >>
                /\ \A n \in 1 .. Len(lists) : f[n] = f[n - 1] \o lists[n]
                /\ FlattenSeq(lists) = f[Len(lists)]
<1> DEFINE N == Len(lists)
           Def(g) == [n \in 1 .. N |-> IF n = 1 THEN lists[n] ELSE g[n - 1] \o lists[n]]
           flatten == CHOOSE g : g = Def(g)
           move == [n \in 1 .. N |-> [t \in Seq(S) |-> t \o lists[n]]]
<1>1. N \in Nat /\ << >> \in Seq(S) /\ \A n \in 1 .. N : lists[n] \in Seq(S)
  OBVIOUS
<1>2. FlattenSeq(lists) = IF N = 0 THEN lists ELSE flatten[N]
  BY DEF FlattenSeq
<1>3. N = 0 => lists = << >>
  OBVIOUS
<1> HIDE DEF N
<1>4. IsStep(move, N, Seq(S))
  <2>1. \A n \in 1 .. N, t \in Seq(S) : t \o lists[n] \in Seq(S)
    BY <1>1, Concatenated
  <2> QED
    BY <2>1 DEF IsStep
<1>5. PICK f : Recursion(f, N, Seq(S), << >>, move)
  <2> HIDE DEF move
  <2> QED
    BY <1>1, <1>4, RecursionExists
<1>6. ASSUME NEW n \in 1 .. N PROVE f[n] = f[n - 1] \o lists[n]
  <2>1. n - 1 \in 0 .. N
    BY <1>1
  <2>2. f[n - 1] \in Seq(S) /\ f[n] = move[n][f[n - 1]]
    BY <1>5, <2>1 DEF Recursion
  <2> QED
    BY <2>2
<1> HIDE DEF move
<1> DEFINE h == [n \in 1 .. N |-> f[n]]
<1>7. h = Def(h)
  <2>1. ASSUME NEW n \in 1 .. N PROVE h[n] = Def(h)[n]
    <3>1. CASE n = 1
      <4>1. f[n] = f[n - 1] \o lists[n] /\ n - 1 = 0 /\ f[0] = << >> /\ lists[n] \in Seq(S)
        <5>1. f[0] = << >>
          BY <1>5 DEF Recursion
        <5>2. f[n] = f[n - 1] \o lists[n]
          BY <1>6
        <5>3. n - 1 = 0 /\ lists[n] \in Seq(S)
          BY <1>1, <3>1
        <5> QED
          BY <5>1, <5>2, <5>3
      <4>2. << >> \o lists[n] = lists[n]
        BY <4>1, EmptyFirst
      <4>3. f[n] = lists[n]
        BY <4>1, <4>2
      <4> QED
        BY <3>1, <4>3
    <3>2. CASE n # 1
      <4>1. n - 1 \in 1 .. N
        BY <1>1, <3>2
      <4> QED
        BY <1>6, <3>2, <4>1
    <3> QED
      BY <3>1, <3>2
  <2>2. h = [n \in 1 .. N |-> h[n]] /\ Def(h) = [n \in 1 .. N |-> Def(h)[n]]
    OBVIOUS
  <2> HIDE DEF Def, h
  <2> QED
    BY <2>1, <2>2
<1>8. flatten = Def(flatten)
  <2> HIDE DEF Def, h
  <2> QED
    BY <1>7
<1> HIDE DEF flatten, h
<1> DEFINE T == {n \in 0 .. N : n = 0 \/ flatten[n] = f[n]}
<1>9. ASSUME NEW n \in 0 .. N - 1, n \in T PROVE n + 1 \in T
  <2>1. n + 1 \in 1 .. N /\ n + 1 \in 0 .. N /\ (n + 1) - 1 = n /\ (n = 0 <=> n + 1 = 1)
    BY <1>1
  <2>2. flatten[n + 1] = IF n = 0 THEN lists[n + 1] ELSE flatten[n] \o lists[n + 1]
    BY <1>8, <2>1
  <2>3. f[n + 1] = f[n] \o lists[n + 1] /\ lists[n + 1] \in Seq(S)
    BY <1>1, <1>6, <2>1
  <2>4. n = 0 => f[n] \o lists[n + 1] = lists[n + 1]
    <3>1. f[0] = << >>
      BY <1>5 DEF Recursion
    <3> QED
      BY <2>3, <3>1, EmptyFirst
  <2> QED
    BY <1>9, <2>1, <2>2, <2>3, <2>4
<1>10. 0 \in T
  BY <1>1
<1>11. 0 .. N \subseteq T
  <2> HIDE DEF T
  <2> QED
    BY <1>1, <1>9, <1>10, UpToInd
<1>12. FlattenSeq(lists) = f[N]
  <2>1. CASE N = 0
    BY <1>2, <1>3, <1>5, <2>1 DEF Recursion
  <2>2. CASE N # 0
    <3>1. N \in 0 .. N
      BY <1>1
    <3> QED
      BY <1>2, <1>11, <2>2, <3>1
  <2> QED
    BY <2>1, <2>2
<1> QED
  BY <1>5, <1>6, <1>12 DEF Recursion, N

\* "The first that is not in Q is in L", from a place on.
First(a, N, Q, L) == \A i \in a .. N : (\A k \in a .. i - 1 : k \in Q) => i \in L

LEMMA FirstOneMore ==
  ASSUME NEW N \in Nat, NEW a \in 1 .. N, NEW Q, NEW L
  PROVE  First(a, N, Q, L) <=> a \in L /\ (a \in Q => First(a + 1, N, Q, L))
<1>1. a \in a .. N /\ a .. a - 1 = {}
  OBVIOUS
<1>2. \A i \in a + 1 .. N : i \in a .. N /\ a \in a .. i - 1
  OBVIOUS
<1>3. \A i \in a .. N : i = a \/ i \in a + 1 .. N
  OBVIOUS
<1>4. \A i \in a + 1 .. N : \A k \in a + 1 .. i - 1 : k \in a .. i - 1
  OBVIOUS
<1>5. \A i \in a + 1 .. N : \A k \in a .. i - 1 : k = a \/ k \in a + 1 .. i - 1
  OBVIOUS
<1> QED
  BY <1>1, <1>2, <1>3, <1>4, <1>5 DEF First

SilentAt(c, cfg) == {i \in 1 .. Len(cfg) : Silent(c, cfg[i].filters)}
LetsAt(c, cfg) == {i \in 1 .. Len(cfg) : Lets(c, cfg[i].filters)}

\* The list that was read first weighs most.
LEMMA FromConfigIs ==
  ASSUME NEW c, NEW cfg \in Seq(FilterOption)
  PROVE  /\ FromConfig(cfg) \in Seq(FilterText)
         /\ Silent(c, FromConfig(cfg)) <=> \A i \in 1 .. Len(cfg) : i \in SilentAt(c, cfg)
         /\ Lets(c, FromConfig(cfg)) <=> First(1, Len(cfg), SilentAt(c, cfg), LetsAt(c, cfg))
<1> DEFINE N == Len(cfg)
           Q == SilentAt(c, cfg)
           L == LetsAt(c, cfg)
           lists == [i \in DOMAIN cfg |-> Reverse(cfg)[i].filters]
<1>1. /\ N \in Nat /\ DOMAIN cfg = 1 .. N
      /\ \A i \in 1 .. N : cfg[i] \in FilterOption
  OBVIOUS
<1>2. \A i \in 1 .. N : cfg[i].filters \in Seq(FilterText)
  BY <1>1 DEF FilterOption
<1>3. \A i \in 1 .. N : N - i + 1 \in 1 .. N /\ lists[i] = cfg[N - i + 1].filters
  BY <1>1 DEF Reverse
<1>4. lists \in Seq(Seq(FilterText)) /\ Len(lists) = N
  <2>1. lists \in [1 .. N -> Seq(FilterText)]
    BY <1>1, <1>2, <1>3
  <2> HIDE DEF lists, N
  <2> QED
    BY <1>1, <2>1
<1>5. FromConfig(cfg) = FlattenSeq(lists)
  BY DEF FromConfig
<1> HIDE DEF N, lists
<1>6. PICK f : /\ f \in [0 .. N -> Seq(FilterText)]
               /\ f[0] = << >>
               /\ \A n \in 1 .. N : f[n] = f[n - 1] \o lists[n]
               /\ FlattenSeq(lists) = f[N]
  BY <1>4, Flattened
<1> DEFINE T == {n \in 0 .. N : /\ Silent(c, f[n]) <=> \A i \in N - n + 1 .. N : i \in Q
                                /\ Lets(c, f[n]) <=> First(N - n + 1, N, Q, L)}
<1>7. 0 \in T
  <2>1. N - 0 + 1 .. N = {} /\ 0 \in 0 .. N
    BY <1>1
  <2>2. Len(<< >>) = 0 /\ 1 .. 0 = {}
    OBVIOUS
  <2>3. Silent(c, << >>) /\ Lets(c, << >>)
    BY <2>2 DEF Silent, Lets, LetsUpTo
  <2>4. First(N - 0 + 1, N, Q, L)
    BY <2>1 DEF First
  <2> QED
    BY <1>6, <2>1, <2>3, <2>4
<1>8. ASSUME NEW n \in 0 .. N - 1, n \in T PROVE n + 1 \in T
  <2> DEFINE a == N - n
  <2>1. n + 1 \in 1 .. N /\ n + 1 \in 0 .. N /\ (n + 1) - 1 = n /\ n \in 0 .. N
    BY <1>1
  <2>2. a \in 1 .. N /\ N - (n + 1) + 1 = a /\ N - n + 1 = a + 1
    BY <1>1
  <2>3. f[n + 1] = f[n] \o cfg[a].filters
    <3>1. f[n + 1] = f[(n + 1) - 1] \o lists[n + 1]
      BY <1>6, <2>1
    <3>2. lists[n + 1] = cfg[N - (n + 1) + 1].filters
      BY <1>3, <2>1
    <3> QED
      BY <2>1, <2>2, <3>1, <3>2
  <2>4. f[n] \in Seq(FilterText) /\ cfg[a].filters \in Seq(FilterText)
    BY <1>2, <1>6, <2>1, <2>2
  <2> HIDE DEF a
  <2>5. (a \in Q <=> Silent(c, cfg[a].filters)) /\ (a \in L <=> Lets(c, cfg[a].filters))
    BY <2>2 DEF SilentAt, LetsAt, N
  <2>6. (Silent(c, f[n]) <=> \A i \in a + 1 .. N : i \in Q) /\ (Lets(c, f[n]) <=> First(a + 1, N, Q, L))
    BY <1>8, <2>2
  <2> HIDE DEF Q, L
  <2>7. Silent(c, f[n + 1]) <=> \A i \in a .. N : i \in Q
    <3>1. Silent(c, f[n + 1]) <=> a \in Q /\ \A i \in a + 1 .. N : i \in Q
      BY <2>3, <2>4, <2>5, <2>6, SilentConcat
    <3>2. /\ a \in a .. N
          /\ \A i \in a + 1 .. N : i \in a .. N
          /\ \A i \in a .. N : i = a \/ i \in a + 1 .. N
      BY <1>1, <2>2
    <3> QED
      BY <3>1, <3>2
  <2>8. Lets(c, f[n + 1]) <=> First(a, N, Q, L)
    <3>1. Lets(c, f[n + 1]) <=> a \in L /\ (a \in Q => First(a + 1, N, Q, L))
      BY <2>3, <2>4, <2>5, <2>6, LetsConcat
    <3> QED
      BY <1>1, <2>2, <3>1, FirstOneMore
  <2> QED
    BY <2>1, <2>2, <2>7, <2>8
<1>9. 0 .. N \subseteq T
  <2> HIDE DEF T
  <2> QED
    BY <1>1, <1>7, <1>8, UpToInd
<1>10. N \in 0 .. N /\ N - N + 1 = 1
  BY <1>1
<1> HIDE DEF Q, L
<1>11. /\ f[N] \in Seq(FilterText)
       /\ Silent(c, f[N]) <=> \A i \in 1 .. N : i \in Q
       /\ Lets(c, f[N]) <=> First(1, N, Q, L)
  BY <1>6, <1>9, <1>10
<1> QED
  BY <1>5, <1>6, <1>11 DEF N, Q, L

\* The filters in force decide as Accepted does.
LEMMA FiltersDecide ==
  ASSUME NEW c, cfgFilters \in Seq(FilterOption)
  PROVE  PassesFilters(c, FlagFilters \o FromConfig(cfgFilters)) <=> Accepted(c)
<1> DEFINE cfg == cfgFilters
           N == Len(cfg)
           Q == SilentAt(c, cfg)
           L == LetsAt(c, cfg)
           lists == [i \in DOMAIN cfg |-> cfg[i].filters] \o <<FlagFilters>>
           For(i) == {j \in DOMAIN lists[i] : c \in Matches[lists[i][j].text]}
<1>1. N \in Nat /\ DOMAIN cfg = 1 .. N /\ \A i \in 1 .. N : cfg[i].filters \in Seq(FilterText)
  <2>1. DOMAIN cfg = 1 .. N /\ \A i \in 1 .. N : cfg[i] \in FilterOption
    OBVIOUS
  <2> QED
    BY <2>1 DEF FilterOption
<1>2. /\ FromConfig(cfg) \in Seq(FilterText)
      /\ Silent(c, FromConfig(cfg)) <=> \A i \in 1 .. N : i \in Q
      /\ Lets(c, FromConfig(cfg)) <=> First(1, N, Q, L)
  BY FromConfigIs
<1>3. FlagFilters \in Seq(FilterText)
  BY DriverAssumption
<1>4. PassesFilters(c, FlagFilters \o FromConfig(cfg))
        <=> First(1, N, Q, L) /\ ((\A i \in 1 .. N : i \in Q) => Lets(c, FlagFilters))
  <2>1. FlagFilters \o FromConfig(cfg) \in Seq(FilterText)
    BY <1>2, <1>3, Concatenated
  <2>2. PassesFilters(c, FlagFilters \o FromConfig(cfg)) <=> Lets(c, FlagFilters \o FromConfig(cfg))
    BY <2>1, PassesIs
  <2>3. Lets(c, FlagFilters \o FromConfig(cfg))
          <=> Lets(c, FromConfig(cfg)) /\ (Silent(c, FromConfig(cfg)) => Lets(c, FlagFilters))
    BY <1>2, <1>3, LetsConcat
  <2> QED
    BY <1>2, <2>2, <2>3
<1>5. /\ DOMAIN lists = 1 .. N + 1
      /\ \A i \in 1 .. N : lists[i] = cfg[i].filters
      /\ lists[N + 1] = FlagFilters
  <2> DEFINE own == [i \in DOMAIN cfg |-> cfg[i].filters]
  <2>1. own \in Seq(Seq(FilterText)) /\ Len(own) = N /\ \A i \in 1 .. N : own[i] = cfg[i].filters
    <3> HIDE DEF N
    <3> QED
      BY <1>1
  <2>2. <<FlagFilters>> \in Seq(Seq(FilterText)) /\ Len(<<FlagFilters>>) = 1 /\ <<FlagFilters>>[1] = FlagFilters
    BY <1>3
  <2> HIDE DEF own, N
  <2>3. /\ own \o <<FlagFilters>> \in Seq(Seq(FilterText)) /\ Len(own \o <<FlagFilters>>) = N + 1
        /\ \A i \in 1 .. N : (own \o <<FlagFilters>>)[i] = own[i]
        /\ (own \o <<FlagFilters>>)[N + 1] = FlagFilters
    <3>1. 1 \in 1 .. 1
      OBVIOUS
    <3> QED
      BY <2>1, <2>2, <3>1, Concatenated
  <2> QED
    BY <2>1, <2>3 DEF own
<1>6. Accepted(c) <=> \A i \in DOMAIN lists : \A j \in For(i) :
        (\A k \in 1 .. i - 1 : For(k) = {}) /\ (\A k \in For(i) : k <= j) => lists[i][j].sign = "+"
  BY DEF Accepted
<1> HIDE DEF lists, N
<1>7. ASSUME NEW i \in 1 .. N + 1
      PROVE  /\ For(i) = {} <=> Silent(c, lists[i])
             /\ (\A j \in For(i) : (\A k \in For(i) : k <= j) => lists[i][j].sign = "+") <=> Lets(c, lists[i])
  <2>1. lists[i] \in Seq(FilterText)
    <3>1. i \in 1 .. N \/ i = N + 1
      BY <1>1
    <3> QED
      BY <1>1, <1>3, <1>5, <3>1
  <2> DEFINE fs == lists[i]
             n == Len(fs)
  <2>2. n \in Nat /\ DOMAIN fs = 1 .. n
    BY <2>1
  <2>3. For(i) = {j \in 1 .. n : Speaks(c, fs[j])}
    BY <2>2 DEF Speaks
  <2> HIDE DEF fs, n, For
  <2>4. For(i) = {} <=> Silent(c, fs)
    BY <2>3 DEF Silent, n
  <2>5. ASSUME NEW j \in 1 .. n
        PROVE  (\A k \in For(i) : k <= j) <=> \A k \in j + 1 .. n : ~Speaks(c, fs[k])
    <3>1. \A k \in j + 1 .. n : k \in 1 .. n /\ ~(k <= j)
      BY <2>2
    <3>2. \A k \in 1 .. n : k <= j \/ k \in j + 1 .. n
      BY <2>2
    <3> QED
      BY <2>3, <3>1, <3>2
  <2>6. (\A j \in For(i) : (\A k \in For(i) : k <= j) => fs[j].sign = "+") <=> Lets(c, fs)
    BY <2>3, <2>5 DEF Lets, LetsUpTo, n
  <2> QED
    BY <2>4, <2>6 DEF fs
<1> HIDE DEF For
<1>8. Accepted(c) <=> \A i \in 1 .. N + 1 : (\A k \in 1 .. i - 1 : Silent(c, lists[k])) => Lets(c, lists[i])
  <2>1. \A i \in 1 .. N + 1 : \A k \in 1 .. i - 1 : k \in 1 .. N + 1
    BY <1>1
  <2> QED
    BY <1>5, <1>6, <1>7, <2>1
<1>9. \A i \in 1 .. N : (i \in Q <=> Silent(c, lists[i])) /\ (i \in L <=> Lets(c, lists[i]))
  BY <1>5 DEF SilentAt, LetsAt, N
<1> HIDE DEF Q, L
<1>10. First(1, N, Q, L) <=> \A i \in 1 .. N : (\A k \in 1 .. i - 1 : Silent(c, lists[k])) => Lets(c, lists[i])
  <2>1. \A i \in 1 .. N : \A k \in 1 .. i - 1 : k \in 1 .. N
    BY <1>1
  <2> QED
    BY <1>9, <2>1 DEF First
<1>11. (\A i \in 1 .. N : i \in Q) <=> \A k \in 1 .. (N + 1) - 1 : Silent(c, lists[k])
  <2>1. (N + 1) - 1 = N
    BY <1>1
  <2> QED
    BY <1>9, <2>1
<1>12. /\ \A i \in 1 .. N + 1 : i \in 1 .. N \/ i = N + 1
       /\ \A i \in 1 .. N : i \in 1 .. N + 1
       /\ N + 1 \in 1 .. N + 1
  BY <1>1
<1> QED
  BY <1>4, <1>5, <1>8, <1>10, <1>11, <1>12

----------------------------------------------------------------------------
(***************************************************************************)
(* The configuration files.                                                *)
(***************************************************************************)
LEMMA StopIsNumber ==
  ASSUME NEW options \in Seq(Option)
  PROVE  /\ Stop(options) \in 1 .. Len(options) + 1
         /\ Len(options) \in Nat /\ DOMAIN options = 1 .. Len(options)
<1> DEFINE Ends(i) == options[i].name = "exclude" /\ Component \in options[i].excluded
           T == {i \in DOMAIN options : Ends(i)}
           stop == CHOOSE i \in DOMAIN options :
                     /\ options[i].name = "exclude" /\ Component \in options[i].excluded
                     /\ \A j \in 1 .. i - 1 :
                          ~(options[j].name = "exclude" /\ Component \in options[j].excluded)
<1>1. Len(options) \in Nat /\ DOMAIN options = 1 .. Len(options)
  OBVIOUS
<1>2. Stop(options) = IF T # {} THEN stop ELSE Len(options) + 1
  BY DEF Stop
<1>3. ASSUME T # {} PROVE stop \in DOMAIN options
  <2>1. T \in SUBSET Nat
    BY <1>1
  <2> HIDE DEF T
  <2>2. PICK i \in T : \A j \in T : i <= j
    BY <1>3, <2>1, NatMin
  <2> USE DEF T
  <2>3. ASSUME NEW j \in 1 .. i - 1 PROVE ~ Ends(j)
    <3>1. j \in DOMAIN options /\ ~(i <= j)
      BY <1>1, <2>2
    <3> QED
      BY <2>2, <3>1
  <2>4. i \in DOMAIN options /\ Ends(i)
    BY <2>2
  <2> QED
    BY <2>3, <2>4
<1> HIDE DEF T, stop
<1> QED
  BY <1>1, <1>2, <1>3

LEMMA NamedFilters ==
  ASSUME NEW options \in Seq(Option)
  PROVE  Named(options, "filter") \in Seq(FilterOption)
<1> DEFINE N == Stop(options) - 1
           A == Seq(FilterOption)
           Is(n) == options[n].name = "filter"
           Def(g) == [n \in 0 .. N |->
                        IF n = 0 THEN << >>
                        ELSE IF Is(n) THEN Append(g[n - 1], options[n]) ELSE g[n - 1]]
           named == CHOOSE g : g = Def(g)
           move == [n \in 1 .. N |-> [t \in A |-> IF Is(n) THEN Append(t, options[n]) ELSE t]]
<1>1. Named(options, "filter") = named[N]
  BY DEF Named
<1>2. N \in Nat /\ << >> \in A
  BY StopIsNumber
<1>3. ASSUME NEW n \in 1 .. N, Is(n), NEW t \in A PROVE Append(t, options[n]) \in A
  <2>1. n \in 1 .. Len(options)
    BY StopIsNumber
  <2>2. options[n] \in Option
    BY <2>1
  <2>3. options[n] \in FilterOption
    BY <1>3, <2>2 DEF Option
  <2> QED
    BY <2>3
<1> HIDE DEF N, A
<1>4. IsStep(move, N, A)
  BY <1>3 DEF IsStep
<1> HIDE DEF Is
<1>5. PICK f : Recursion(f, N, A, << >>, move)
  <2> HIDE DEF move
  <2> QED
    BY <1>2, <1>4, RecursionExists
<1>6. ASSUME NEW n \in 1 .. N
      PROVE  f[n] = IF Is(n) THEN Append(f[n - 1], options[n]) ELSE f[n - 1]
  <2>1. n - 1 \in 0 .. N
    BY <1>2
  <2>2. f[n - 1] \in A /\ f[n] = move[n][f[n - 1]]
    BY <1>5, <2>1 DEF Recursion
  <2> QED
    BY <2>2
<1> HIDE DEF move
<1>7. f = Def(f)
  <2>1. ASSUME NEW n \in 0 .. N PROVE f[n] = Def(f)[n]
    <3>1. n = 0 \/ (n # 0 /\ n \in 1 .. N)
      BY <1>2
    <3>2. f[0] = << >>
      BY <1>5 DEF Recursion
    <3> QED
      BY <1>6, <3>1, <3>2
  <2>2. f = [n \in 0 .. N |-> f[n]] /\ Def(f) = [n \in 0 .. N |-> Def(f)[n]]
    BY <1>5 DEF Recursion
  <2> HIDE DEF Def
  <2> QED
    BY <2>1, <2>2
<1>8. named = Def(named)
  <2> HIDE DEF Def
  <2> QED
    BY <1>7
<1> HIDE DEF named
<1>9. \A n \in 0 .. N : named[n] = IF n = 0 THEN << >>
                                   ELSE IF Is(n) THEN Append(named[n - 1], options[n]) ELSE named[n - 1]
  BY <1>8
<1> HIDE DEF Def
<1> DEFINE S == {n \in 0 .. N : named[n] \in A}
<1>10. 0 \in S
  BY <1>2, <1>9
<1>11. ASSUME NEW n \in 0 .. N - 1, n \in S PROVE n + 1 \in S
  <2>1. n + 1 \in 0 .. N /\ n + 1 \in 1 .. N /\ n + 1 # 0 /\ (n + 1) - 1 = n
    BY <1>2
  <2>2. named[n + 1] = IF Is(n + 1) THEN Append(named[n], options[n + 1]) ELSE named[n]
    BY <1>9, <2>1
  <2>3. Is(n + 1) => Append(named[n], options[n + 1]) \in A
    BY <1>3, <1>11, <2>1
  <2> QED
    BY <1>11, <2>1, <2>2, <2>3
<1>12. 0 .. N \subseteq S
  <2> HIDE DEF S
  <2> QED
    BY <1>2, <1>10, <1>11, UpToInd
<1>13. N \in 0 .. N
  BY <1>2
<1> QED
  BY <1>1, <1>12, <1>13 DEF A

----------------------------------------------------------------------------
(***************************************************************************)
(* Complaints.                                                             *)
(***************************************************************************)
LEMMA FiniteComplaints ==
  ASSUME NEW n \in Nat
  PROVE  IsFiniteSet(Category \X Confidence \X (0 .. n))
<1> DEFINE Pairs == (Category \X Confidence) \X (0 .. n)
           Triples == Category \X Confidence \X (0 .. n)
           f == [p \in Pairs |-> <<p[1][1], p[1][2], p[2]>>]
<1>1. IsFiniteSet(Pairs)
  <2>1. IsFiniteSet(Category) /\ IsFiniteSet(0 .. n) /\ IsFiniteSet(Confidence)
    <3>1. IsFiniteSet(Category)
      BY DriverAssumption
    <3>2. 0 \in Int /\ 5 \in Int /\ n \in Int
      OBVIOUS
    <3> QED
      BY <3>1, <3>2, FS_Interval, Zenon DEF Confidence
  <2>2. IsFiniteSet(Category \X Confidence)
    BY <2>1, FS_Product
  <2> QED
    BY <2>1, <2>2, FS_Product
<1>2. f \in Surjection(Pairs, Triples)
  <2>1. f \in [Pairs -> Triples]
    OBVIOUS
  <2>2. ASSUME NEW t \in Triples PROVE \E p \in Pairs : f[p] = t
    <3> DEFINE p == <<<<t[1], t[2]>>, t[3]>>
    <3>1. p \in Pairs /\ f[p] = t
      OBVIOUS
    <3> QED
      BY <3>1
  <2> HIDE DEF f, Pairs, Triples
  <2> QED
    BY <2>1, <2>2 DEF Surjection
<1> HIDE DEF f, Pairs
<1> QED
  BY <1>1, <1>2, FS_Surjection

\* The comments that have been read say of a line what those of the file do.
LEMMA SuppressedIs ==
  ASSUME source \in Seq(SourceLine), NEW c \in Category, NEW n \in Nat,
         NEW m \in 0 .. Len(source), NEW read, MarksOf(m) \subseteq read, read \subseteq MarksOf(Len(source)),
         n <= m, n = 0 => c \notin InC
  PROVE  Suppressed(c, n, read) <=> Excused(c, n)
<1> DEFINE N == Len(source)
           marked == \E i \in DOMAIN source : source[i].marker
<1>1. /\ N \in Nat /\ DOMAIN source = 1 .. N
      /\ \A i \in 1 .. N : source[i] \in SourceLine
  OBVIOUS
<1>2. c # All /\ c # Unknown /\ c # Legacy
  BY DriverAssumption
<1>3. \A i \in 1 .. N : source[i].nolint \in {"no", "this", "next"}
  BY <1>1 DEF SourceLine
<1>4. ASSUME NEW i \in 1 .. N, NEW x \in {c, All}
      PROVE  <<x, n>> \in Marks(source[i], i)
               <=> /\ source[i].category = x
                   /\ (source[i].nolint = "this" /\ i = n) \/ (source[i].nolint = "next" /\ i = n - 1)
  <2>1. x # Unknown /\ x # Legacy
    BY <1>2 DEF All, Unknown, Legacy
  <2>2. i + 1 = n <=> i = n - 1
    OBVIOUS
  <2> QED
    BY <1>3, <2>1, <2>2 DEF Marks
<1>5. ASSUME NEW i \in 1 .. N, NEW x PROVE <<x, Everywhere>> \notin Marks(source[i], i)
  BY DEF Marks, Everywhere
<1>6. ASSUME NEW x PROVE /\ <<x, n>> \notin Global(source)
                         /\ <<x, Everywhere>> \in Global(source) <=> marked /\ x \in InC
  BY DEF Global, Everywhere
<1>7. \A i \in 1 .. m : i \in 1 .. N
  BY <1>1
<1>8. ASSUME NEW x \in {c, All}
      PROVE  <<x, n>> \in read
               <=> \E i \in {n - 1, n} \cap DOMAIN source :
                     source[i].nolint = (IF i = n THEN "this" ELSE "next") /\ source[i].category = x
  <2>1. ASSUME <<x, n>> \in read
        PROVE  \E i \in {n - 1, n} \cap DOMAIN source :
                 source[i].nolint = (IF i = n THEN "this" ELSE "next") /\ source[i].category = x
    <3>1. <<x, n>> \in MarksOf(N)
      BY <2>1
    <3>2. PICK i \in 1 .. N : <<x, n>> \in Marks(source[i], i)
      BY <1>6, <3>1 DEF MarksOf
    <3>3. n - 1 # n
      OBVIOUS
    <3> QED
      BY <1>1, <1>4, <3>2, <3>3
  <2>2. ASSUME NEW i \in {n - 1, n} \cap DOMAIN source,
               source[i].nolint = (IF i = n THEN "this" ELSE "next"), source[i].category = x
        PROVE  <<x, n>> \in read
    <3>1. i \in 1 .. m /\ i \in 1 .. N
      BY <1>1
    <3>2. <<x, n>> \in Marks(source[i], i)
      BY <1>4, <2>2, <3>1
    <3>3. <<x, n>> \in MarksOf(m)
      BY <3>1, <3>2 DEF MarksOf
    <3> QED
      BY <3>3
  <2> QED
    BY <2>1, <2>2
<1>9. <<c, Everywhere>> \in read <=> n > 0 /\ c \in InC /\ marked
  <2>1. <<c, Everywhere>> \in MarksOf(m) <=> marked /\ c \in InC
    BY <1>5, <1>6, <1>7 DEF MarksOf
  <2>2. <<c, Everywhere>> \in MarksOf(N) <=> marked /\ c \in InC
    BY <1>5, <1>6 DEF MarksOf
  <2>3. <<c, Everywhere>> \in read <=> marked /\ c \in InC
    BY <2>1, <2>2
  <2> QED
    BY <2>3
<1>10. Suppressed(c, n, read) <=> <<c, n>> \in read \/ <<All, n>> \in read \/ <<c, Everywhere>> \in read
  BY DEF Suppressed
<1>11. Excused(c, n) <=>
         \/ n > 0 /\ c \in InC /\ marked
         \/ \E i \in {n - 1, n} \cap DOMAIN source :
              source[i].nolint = (IF i = n THEN "this" ELSE "next") /\ source[i].category = c
         \/ \E i \in {n - 1, n} \cap DOMAIN source :
              source[i].nolint = (IF i = n THEN "this" ELSE "next") /\ source[i].category = All
  BY DEF Excused
<1> QED
  BY <1>8, <1>9, <1>10, <1>11

\* What Complain does when the marks it is given say what the comments do.
LEMMA Complained ==
  ASSUME NEW errors, NEW marks, NEW upTo, NEW n \in Nat,
         errors \subseteq Category \X Confidence \X (0 .. n),
         Complain(errors, marks, upTo), CountInv,
         cfgFilters \in Seq(FilterOption), cfgFilters' = cfgFilters,
         filters = FlagFilters \o FromConfig(cfgFilters),
         \A e \in errors : e[3] > upTo \/ (Suppressed(e[1], e[3], marks) <=> Excused(e[1], e[3])'),
         \A v \in verdicts : Judged(v)'
  PROVE  CountInv' /\ \A v \in verdicts' : Judged(v)'
<1> DEFINE shown == {e \in errors : ShouldPrint(e, marks)}
           verdict(e) == [category |-> e[1], confidence |-> e[2], line |-> e[3],
                          early |-> e[3] > upTo, shown |-> e \in shown]
<1>1. /\ errorCount' = errorCount + Cardinality(shown)
      /\ shownEver' = (shownEver \/ shown # {})
      /\ verdicts' = verdicts \cup {verdict(e) : e \in errors}
  BY DEF Complain
<1>2. CountInv'
  <2>1. IsFiniteSet(shown)
    <3>1. shown \subseteq Category \X Confidence \X (0 .. n)
      OBVIOUS
    <3> HIDE DEF shown
    <3> QED
      BY <3>1, FiniteComplaints, FS_Subset
  <2> HIDE DEF shown
  <2>2. Cardinality(shown) \in Nat
    BY <2>1, FS_CardinalityType
  <2>3. Cardinality(shown) = 0 <=> shown = {}
    BY <2>1, FS_EmptySet
  <2>4. shownEver' \in BOOLEAN /\ (shownEver' <=> shownEver \/ shown # {})
    BY <1>1, Zenon DEF CountInv
  <2>5. errorCount' \in Nat /\ (errorCount' > 0 <=> errorCount > 0 \/ shown # {})
    BY <1>1, <2>2, <2>3 DEF CountInv
  <2> QED
    BY <2>4, <2>5, Zenon DEF CountInv
<1>3. ASSUME NEW e \in errors, NEW v, v = verdict(e) PROVE Judged(v)'
  <2> /\ v.category = e[1] /\ v.confidence = e[2] /\ v.line = e[3]
      /\ v.early = (e[3] > upTo) /\ v.shown = (e \in shown)
    BY <1>3
  <2>1. CASE e[3] > upTo
    BY <2>1 DEF Judged
  <2>2. CASE ~(e[3] > upTo)
    <3>1. Suppressed(e[1], e[3], marks) <=> Excused(e[1], e[3])'
      BY <2>2
    <3>2. PassesFilters(e[1], filters) <=> Accepted(e[1])
      BY FiltersDecide
    <3>3. Accepted(e[1]) <=> Accepted(e[1])'
      BY DEF Accepted
    <3>4. e \in shown <=> /\ ~Excused(e[1], e[3])'
                          /\ e[2] >= Verbosity
                          /\ Accepted(e[1])'
      BY <3>1, <3>2, <3>3 DEF ShouldPrint
    <3> QED
      BY <3>4 DEF Judged
  <2> QED
    BY <2>1, <2>2
<1> HIDE DEF shown, verdict
<1>4. ASSUME NEW v \in verdicts' PROVE Judged(v)'
  <2>1. v \in verdicts \/ \E e \in errors : v = verdict(e)
    BY <1>1
  <2> QED
    BY <1>3, <2>1
<1> QED
  BY <1>2, <1>4

----------------------------------------------------------------------------
(***************************************************************************)
(* The invariant is inductive.                                             *)
(***************************************************************************)
LEMMA CurrentFile ==
  ASSUME PlaceInv, AtFile
  PROVE  /\ File \in DOMAIN DirsOf /\ Dirs \in Seq(Directory)
         /\ Tail(files) \in Seq(DOMAIN DirsOf)
<1>1. files \in Seq(DOMAIN DirsOf) /\ files # << >>
  BY DEF PlaceInv
<1>2. File \in DOMAIN DirsOf /\ Tail(files) \in Seq(DOMAIN DirsOf)
  BY <1>1 DEF File
<1> QED
  BY <1>2, DriverAssumption DEF Dirs

LEMMA CurrentOptions ==
  ASSUME PlaceInv, AtFile, depth \in Nat, depth < Len(Dirs)
  PROVE  Options \in Seq(Option)
<1>1. Dirs[depth + 1] \in Directory
  BY CurrentFile
<1>2. settings \in [Directory -> Seq(Option)]
  BY DriverAssumption DEF PlaceInv
<1> QED
  BY <1>1, <1>2 DEF Options

LEMMA CurrentSource ==
  ASSUME PlaceInv, step = "lines"
  PROVE  source \in Seq(SourceLine) /\ parsed \in 0 .. Len(source) /\ Len(source) \in Nat
<1>1. source \in Text /\ parsed \in 0 .. Len(source)
  BY DEF PlaceInv
<1>2. source \in Seq(SourceLine)
  BY <1>1, DriverAssumption
<1> QED
  BY <1>1, <1>2

\* A verdict stays right while the text and the configuration stay.
LEMMA JudgedStill ==
  ASSUME source' = source, cfgFilters' = cfgFilters, NEW v
  PROVE  Judged(v)' <=> Judged(v)
<1>1. Excused(v.category, v.line)' <=> Excused(v.category, v.line)
  BY DEF Excused
<1>2. Accepted(v.category)' <=> Accepted(v.category)
  BY DEF Accepted
<1> QED
  BY <1>1, <1>2 DEF Judged

LEMMA VerdictsStill ==
  ASSUME VerdictInv, UNCHANGED <<source, cfgFilters, verdicts>>
  PROVE  \A v \in verdicts' : Judged(v)'
BY JudgedStill DEF VerdictInv

LEMMA InitDriver == DriverInit => DriverInv
<1> SUFFICES ASSUME DriverInit PROVE DriverInv
  OBVIOUS
<1> USE DEF DriverInit
<1>1. PlaceInv
  BY DEF PlaceInv, AtFile
<1>2. FiltersInv /\ MarksInv /\ VerdictInv /\ StatusInv
  BY DEF FiltersInv, MarksInv, VerdictInv, StatusInv, AtFile
<1>3. CountInv
  <2>1. errorCount \in Nat /\ ~(errorCount > 0)
    OBVIOUS
  <2>2. shownEver = FALSE
    BY Zenon
  <2> QED
    BY <2>1, <2>2, Zenon DEF CountInv
<1> QED
  BY <1>1, <1>2, <1>3 DEF DriverInv

LEMMA UsageEndsKeeps == ASSUME DriverInv, UsageEnds PROVE DriverInv'
<1> USE DEF DriverInv, UsageEnds, sourceVars, countVars
<1>1. PlaceInv'
  BY DEF PlaceInv, AtFile
<1>2. FiltersInv' /\ MarksInv' /\ CountInv'
  BY DEF FiltersInv, MarksInv, CountInv, AtFile
<1>3. VerdictInv'
  BY VerdictsStill DEF VerdictInv
<1>4. StatusInv'
  BY DEF FiltersInv, StatusInv
<1> QED
  BY <1>1, <1>2, <1>3, <1>4

LEMMA ParseArgumentsKeeps == ASSUME DriverInv, ParseArguments PROVE DriverInv'
<1> USE DEF DriverInv, ParseArguments, sourceVars, countVars
<1>1. PlaceInv'
  BY DriverAssumption DEF PlaceInv, AtFile
<1>2. FiltersInv' /\ MarksInv' /\ CountInv'
  BY DEF FiltersInv, MarksInv, CountInv, AtFile
<1>3. VerdictInv'
  BY VerdictsStill DEF VerdictInv
<1>4. StatusInv'
  BY DEF WellFormed, StatusInv
<1> QED
  BY <1>1, <1>2, <1>3, <1>4

LEMMA StartFileKeeps == ASSUME DriverInv, StartFile PROVE DriverInv'
<1> USE DEF DriverInv, StartFile, countVars
<1>1. PlaceInv'
  <2>1. files' \in Seq(DOMAIN DirsOf) /\ files' # << >> /\ settings' \in Settings
    BY DEF PlaceInv
  <2>2. Dirs' \in Seq(Directory)
    <3>1. File' \in DOMAIN DirsOf
      BY <2>1 DEF File
    <3> QED
      BY <3>1, DriverAssumption DEF Dirs
  <2>3. depth' \in 0 .. Len(Dirs)'
    BY <2>2
  <2> QED
    BY <2>1, <2>3 DEF PlaceInv, AtFile
<1>2. FiltersInv' /\ MarksInv' /\ CountInv' /\ VerdictInv' /\ StatusInv'
  BY DEF FiltersInv, MarksInv, CountInv, VerdictInv, StatusInv, AtFile
<1> QED
  BY <1>1, <1>2

\* RestoreFilters: what the configuration has added is gone with its file.
LEMMA NextFileKeeps ==
  ASSUME DriverInv, AtFile, NextFile, UNCHANGED <<settings, backup>>, cfgFilters' \in Seq(FilterOption)
  PROVE  PlaceInv' /\ FiltersInv' /\ MarksInv' /\ StatusInv'
<1> USE DEF DriverInv, NextFile
<1>1. PlaceInv'
  BY CurrentFile DEF PlaceInv, AtFile
<1>2. FiltersInv' /\ MarksInv' /\ StatusInv'
  BY DEF FiltersInv, MarksInv, StatusInv, AtFile, Restored
<1> QED
  BY <1>1, <1>2

LEMMA ReadConfigKeeps == ASSUME DriverInv, ReadConfig PROVE DriverInv'
<1> USE DEF DriverInv, ReadConfig, sourceVars, countVars
<1>0. AtFile /\ cfgFilters \in Seq(FilterOption) /\ depth \in Nat
  BY CurrentFile DEF AtFile, PlaceInv
<1>1. verdicts' = {} /\ CountInv'
  BY DEF VerdictInv, CountInv
<1>2. CASE Excludes(Options)
  <2>1. NextFile /\ UNCHANGED <<depth, cfgFilters>>
    BY <1>2
  <2>2. PlaceInv' /\ FiltersInv' /\ MarksInv' /\ StatusInv'
    BY <1>0, <2>1, NextFileKeeps
  <2> QED
    BY <1>1, <2>2 DEF VerdictInv
<1>3. CASE ~Excludes(Options)
  <2>1. /\ cfgFilters' = cfgFilters \o Named(Options, "filter")
        /\ depth' = IF Named(Options, "noparent") # << >> THEN Len(Dirs) ELSE depth + 1
        /\ UNCHANGED <<step, files, filters>>
    BY <1>3
  <2>2. cfgFilters' \in Seq(FilterOption)
    <3>1. Named(Options, "filter") \in Seq(FilterOption)
      BY <1>0, CurrentOptions, NamedFilters
    <3> QED
      BY <1>0, <2>1, <3>1, Concatenated
  <2>3. depth' \in 0 .. Len(Dirs)'
    <3>1. Len(Dirs) \in Nat /\ Len(Dirs)' = Len(Dirs)
      BY <1>0, <2>1, CurrentFile DEF Dirs, File
    <3> QED
      BY <1>0, <2>1, <3>1
  <2>4. PlaceInv'
    BY <1>0, <2>1, <2>2, <2>3 DEF PlaceInv, AtFile
  <2>5. FiltersInv' /\ MarksInv' /\ VerdictInv' /\ StatusInv'
    BY <1>1, <2>1 DEF FiltersInv, MarksInv, VerdictInv, StatusInv, AtFile
  <2> QED
    BY <1>1, <2>4, <2>5
<1> QED
  BY <1>2, <1>3

LEMMA ConfigUnreadableKeeps == ASSUME DriverInv, ConfigUnreadable PROVE DriverInv'
<1> USE DEF DriverInv, ConfigUnreadable, sourceVars, countVars
<1>1. PlaceInv'
  <2>1. Len(Dirs) \in Nat /\ Len(Dirs)' = Len(Dirs)
    BY CurrentFile DEF AtFile, Dirs, File
  <2> QED
    BY <2>1 DEF PlaceInv, AtFile
<1>2. FiltersInv' /\ MarksInv' /\ CountInv' /\ StatusInv'
  BY DEF FiltersInv, MarksInv, CountInv, StatusInv, AtFile
<1>3. VerdictInv'
  BY VerdictsStill DEF VerdictInv
<1> QED
  BY <1>1, <1>2, <1>3

LEMMA ApplyConfigKeeps == ASSUME DriverInv, ApplyConfig PROVE DriverInv'
<1> USE DEF DriverInv, ApplyConfig, sourceVars, countVars
<1>1. filters' = FlagFilters \o FromConfig(cfgFilters')
  BY DEF FiltersInv
<1>2. \/ WellFormed(filters') /\ step' = "open"
      \/ ~WellFormed(filters') /\ step' = "over"
  OBVIOUS
<1>3. PlaceInv'
  BY <1>2 DEF PlaceInv, AtFile
<1>4. FiltersInv' /\ MarksInv' /\ CountInv'
  BY <1>1, <1>2 DEF FiltersInv, MarksInv, CountInv, AtFile
<1>5. VerdictInv'
  BY VerdictsStill DEF VerdictInv
<1>6. StatusInv'
  BY <1>2 DEF StatusInv, WellFormed
<1> QED
  BY <1>3, <1>4, <1>5, <1>6

LEMMA SkipFileKeeps == ASSUME DriverInv, SkipFile PROVE DriverInv'
<1> USE DEF DriverInv, SkipFile, sourceVars, countVars
<1>1. PlaceInv' /\ FiltersInv' /\ MarksInv' /\ StatusInv'
  BY NextFileKeeps DEF AtFile, PlaceInv
<1>2. CountInv'
  BY DEF CountInv
<1>3. VerdictInv'
  BY VerdictsStill DEF VerdictInv, NextFile
<1> QED
  BY <1>1, <1>2, <1>3

\* The marks are those of some lines of the new text.  A complaint of line 0 has
\* no comment for it; one about a line that is to come is not judged.
LEMMA OpenFileKeeps == ASSUME DriverInv, OpenFile PROVE DriverInv'
<1>1. /\ step = "open" /\ source' \in Text /\ parsed' = 0 /\ step' = "lines" /\ verdicts = {}
      /\ UNCHANGED <<files, settings, depth, cfgFilters, filters, backup, lineLength, status>>
  BY DEF OpenFile, DriverInv, VerdictInv
<1>2. PICK guard \in SUBSET DOMAIN source' :
        /\ suppressed' = Forgotten \cup Global(source') \cup MarksIn(source', guard)
        /\ \E read \in {MarksIn(source', is) : is \in SUBSET guard},
              early \in SUBSET {e \in Early : e[3] <= Len(source')} :
             Complain(early \cup UNION {UnknownIn(source'[i], i) : i \in guard},
                      Forgotten \cup Global(source') \cup read, 0)
  BY DEF OpenFile
<1>0. PICK read \in {MarksIn(source', is) : is \in SUBSET guard},
           early \in SUBSET {e \in Early : e[3] <= Len(source')} :
        Complain(early \cup UNION {UnknownIn(source'[i], i) : i \in guard},
                 Forgotten \cup Global(source') \cup read, 0)
  BY <1>2
<1>3. /\ source' \in Seq(SourceLine) /\ Len(source') \in Nat
      /\ DOMAIN source' = 1 .. Len(source')
  BY <1>1, DriverAssumption
<1>4. PlaceInv' /\ FiltersInv' /\ StatusInv'
  <2>1. parsed' \in 0 .. Len(source')
    BY <1>1, <1>3
  <2> QED
    BY <1>1, <2>1 DEF DriverInv, PlaceInv, FiltersInv, StatusInv, AtFile
<1>5. MarksInv'
  <2>1. 1 .. 0 = {}
    OBVIOUS
  <2>2. MarksOf(parsed)' = Global(source')
    BY <1>1, <2>1 DEF MarksOf
  <2>3. suppressed' \subseteq MarksOf(Len(source))'
    BY <1>2, <1>3 DEF MarksOf, MarksIn, Forgotten
  <2> QED
    BY <1>2, <2>2, <2>3 DEF MarksInv
<1> DEFINE unknown == UNION {UnknownIn(source'[i], i) : i \in guard}
           errors == early \cup unknown
           marks == Forgotten \cup Global(source') \cup read
<1>6. \A e \in unknown : \E i \in 1 .. Len(source') : e = <<"readability/nolint", 5, i>>
  BY <1>3 DEF UnknownIn
<1>7. errors \subseteq Category \X Confidence \X (0 .. Len(source'))
  <2>1. early \subseteq Category \X Confidence \X (0 .. Len(source'))
    BY <1>3, DriverAssumption
  <2>2. "readability/nolint" \in Category /\ 5 \in Confidence
    BY DriverAssumption DEF Confidence
  <2> HIDE DEF unknown
  <2> QED
    BY <1>3, <1>6, <2>1, <2>2
<1>8. ASSUME NEW e \in errors, ~(e[3] > 0)
      PROVE  Suppressed(e[1], e[3], marks) <=> Excused(e[1], e[3])'
  <2>1. e[1] \in Category /\ e[3] = 0
    BY <1>3, <1>7, <1>8
  <2>2. e[1] \notin InC
    <3>1. e \in early
      BY <1>6, <1>8
    <3> QED
      BY <2>1, <3>1, DriverAssumption
  <2>3. {0 - 1, 0} \cap DOMAIN source' = {}
    BY <1>3
  <2>4. ~Excused(e[1], e[3])'
    BY <2>1, <2>3 DEF Excused
  <2>5. \A x : \A i \in DOMAIN source' :
          <<x, 0>> \notin Marks(source'[i], i) /\ <<x, Everywhere>> \notin Marks(source'[i], i)
    BY <1>3 DEF Marks, Everywhere
  <2>6. ASSUME NEW x PROVE <<x, 0>> \notin read /\ <<x, Everywhere>> \notin read
    <3>1. PICK is \in SUBSET guard : read = MarksIn(source', is)
      OBVIOUS
    <3>2. \A i \in is : i \in DOMAIN source'
      OBVIOUS
    <3> QED
      BY <2>5, <3>1, <3>2 DEF MarksIn
  <2>7. \A x : <<x, 0>> \notin Global(source') /\ (<<x, Everywhere>> \in Global(source') => x \in InC)
    BY DEF Global, Everywhere
  <2> QED
    BY <2>1, <2>2, <2>4, <2>6, <2>7 DEF Suppressed, Forgotten
<1> HIDE DEF errors, marks
<1>9. CountInv' /\ \A v \in verdicts' : Judged(v)'
  <2>1. filters = FlagFilters \o FromConfig(cfgFilters) /\ cfgFilters \in Seq(FilterOption)
    BY <1>1 DEF DriverInv, FiltersInv, PlaceInv
  <2>2. Complain(errors, marks, 0) /\ CountInv
    BY <1>0 DEF errors, marks, DriverInv
  <2>3. \A v \in verdicts : Judged(v)'
    BY <1>1
  <2> QED
    BY <1>1, <1>3, <1>7, <1>8, <2>1, <2>2, <2>3, Complained
<1> QED
  BY <1>1, <1>4, <1>5, <1>9 DEF DriverInv, VerdictInv

\* The comments of the line, and of the next for a check that looks ahead, are
\* among those that count for its complaints; none is of a line of another text.
LEMMA ProcessSourceLineKeeps == ASSUME DriverInv, ProcessSourceLine PROVE DriverInv'
<1> DEFINE n == parsed + 1
           l == source[n]
           read == suppressed \cup Marks(l, n)
                     \cup (IF l.ahead /\ n < Len(source) THEN Marks(source[n + 1], n + 1) ELSE {})
           long == IF l.width > lineLength THEN {<<"whitespace/line_length", 2, n>>} ELSE {}
           raised == {<<r[1], r[2], n + r[3]>> : r \in l.raises}
           errors == UnknownIn(l, n) \cup long \cup {e \in raised : e[3] <= Len(source)}
           upTo == IF l.ahead THEN n + 1 ELSE n
           \* The last line whose comment has been read.
           m == IF l.ahead /\ n < Len(source) THEN n + 1 ELSE n
<1>1. /\ step = "lines" /\ parsed < Len(source)
      /\ suppressed' = read /\ parsed' = n
      /\ Complain(errors, read, upTo)
      /\ UNCHANGED <<step, files, settings, depth, cfgFilters, filters, backup, lineLength, source, status>>
  BY DEF ProcessSourceLine
<1>2. source \in Seq(SourceLine) /\ parsed \in Nat /\ Len(source) \in Nat
  BY <1>1, CurrentSource DEF DriverInv
<1>3. n \in 1 .. Len(source) /\ n \in Nat /\ m \in 0 .. Len(source) /\ n <= m
  BY <1>1, <1>2
<1>4. l \in SourceLine
  BY <1>2, <1>3
<1>5. MarksOf(m) \subseteq read /\ MarksOf(n) \subseteq read /\ read \subseteq MarksOf(Len(source))
  <2>1. MarksOf(parsed) \subseteq suppressed /\ suppressed \subseteq MarksOf(Len(source))
    BY <1>1 DEF DriverInv, MarksInv
  <2>2. \A i \in 1 .. m : i \in 1 .. parsed \/ i = n \/ (i = n + 1 /\ l.ahead /\ n < Len(source))
    BY <1>2, <1>3
  <2>3. \A i \in 1 .. n : i \in 1 .. m
    BY <1>2, <1>3
  <2>4. n \in 1 .. Len(source) /\ (n < Len(source) => n + 1 \in 1 .. Len(source))
    BY <1>2, <1>3
  <2> HIDE DEF m, n
  <2>5. Marks(source[n], n) \subseteq MarksOf(Len(source))
    BY <2>4 DEF MarksOf
  <2>6. n < Len(source) => Marks(source[n + 1], n + 1) \subseteq MarksOf(Len(source))
    BY <2>4 DEF MarksOf
  <2>7. MarksOf(m) \subseteq read
    BY <2>1, <2>2 DEF MarksOf
  <2>8. MarksOf(n) \subseteq MarksOf(m)
    BY <2>3 DEF MarksOf
  <2> QED
    BY <2>1, <2>5, <2>6, <2>7, <2>8
<1>6. errors \subseteq Category \X Confidence \X (0 .. Len(source))
  <2>1. {"readability/nolint", "whitespace/line_length"} \subseteq Category
    BY DriverAssumption
  <2>2. {2, 5} \subseteq Confidence
    BY DEF Confidence
  <2>3. l.raises \subseteq Category \X Confidence \X {0, 1}
    BY <1>4 DEF SourceLine
  <2>4. ASSUME NEW e \in raised, e[3] <= Len(source)
        PROVE  e \in Category \X Confidence \X (0 .. Len(source))
    <3>1. PICK r \in l.raises : e = <<r[1], r[2], n + r[3]>>
      BY <2>4
    <3>2. r \in Category \X Confidence \X {0, 1}
      BY <2>3, <3>1
    <3>3. e[3] = n + r[3] /\ n + r[3] \in 0 .. Len(source)
      BY <1>2, <1>3, <2>4, <3>1, <3>2
    <3> QED
      BY <3>1, <3>2, <3>3
  <2>5. n \in 0 .. Len(source)
    BY <1>2, <1>3
  <2> HIDE DEF n, l, raised
  <2> QED
    BY <2>1, <2>2, <2>4, <2>5 DEF UnknownIn
<1>7. \A e \in errors : e[3] >= n /\ e[3] <= Len(source)
  <2>1. ASSUME NEW e \in raised PROVE e[3] = n \/ e[3] = n + 1
    <3>1. PICK r \in l.raises : e = <<r[1], r[2], n + r[3]>>
      OBVIOUS
    <3>2. r[3] \in {0, 1}
      BY <1>4, <3>1 DEF SourceLine
    <3> QED
      BY <1>3, <3>1, <3>2
  <2> HIDE DEF l, raised
  <2> QED
    BY <1>2, <1>3, <2>1 DEF UnknownIn
<1>8. ASSUME NEW e \in errors, ~(e[3] > upTo)
      PROVE  Suppressed(e[1], e[3], read) <=> Excused(e[1], e[3])'
  <2>1. e[1] \in Category /\ e[3] \in Nat
    BY <1>6
  <2>2. e[3] <= m /\ e[3] # 0
    BY <1>2, <1>3, <1>7, <1>8, <2>1
  <2>3. Excused(e[1], e[3])' <=> Excused(e[1], e[3])
    BY <1>1 DEF Excused
  <2> HIDE DEF read, errors, m
  <2> QED
    BY <1>2, <1>3, <1>5, <2>1, <2>2, <2>3, SuppressedIs
<1> HIDE DEF read, errors, upTo, m
<1>9. CountInv' /\ \A v \in verdicts' : Judged(v)'
  <2>1. filters = FlagFilters \o FromConfig(cfgFilters) /\ cfgFilters \in Seq(FilterOption)
    BY <1>1 DEF DriverInv, FiltersInv, PlaceInv
  <2>2. \A v \in verdicts : Judged(v)'
    BY <1>1, JudgedStill DEF DriverInv, VerdictInv
  <2>3. CountInv
    BY DEF DriverInv
  <2> QED
    BY <1>1, <1>2, <1>6, <1>8, <2>1, <2>2, <2>3, Complained
<1>10. PlaceInv'
  <2>1. parsed' \in 0 .. Len(source)
    BY <1>1, <1>2, <1>3
  <2> QED
    BY <1>1, <2>1 DEF DriverInv, PlaceInv, AtFile
<1>11. FiltersInv' /\ StatusInv'
  BY <1>1 DEF DriverInv, FiltersInv, StatusInv, AtFile
<1>12. MarksInv'
  <2>1. MarksOf(parsed)' = MarksOf(n) /\ MarksOf(Len(source))' = MarksOf(Len(source))
    BY <1>1 DEF MarksOf
  <2> QED
    BY <1>1, <1>5, <2>1 DEF MarksInv
<1>13. VerdictInv'
  BY <1>1, <1>9 DEF VerdictInv
<1> QED
  BY <1>9, <1>10, <1>11, <1>12, <1>13 DEF DriverInv

LEMMA EndOfSourceKeeps == ASSUME DriverInv, EndOfSource PROVE DriverInv'
<1>1. /\ step = "lines" /\ parsed = Len(source) /\ NextFile
      /\ UNCHANGED <<settings, depth, cfgFilters, backup, lineLength, source, parsed, suppressed, status>>
  BY DEF EndOfSource
<1>2. PICK errors \in SUBSET {e \in Late : e[3] <= Len(source)} : Complain(errors, suppressed, parsed)
  BY DEF EndOfSource
<1>3. source \in Seq(SourceLine) /\ Len(source) \in Nat
  BY <1>1, CurrentSource DEF DriverInv
<1>4. /\ errors \subseteq Category \X Confidence \X (0 .. Len(source))
      /\ \A e \in errors : e[3] = 0 => e[1] \notin InC
  <2>1. Late \subseteq Category \X Confidence \X Nat /\ \A e \in Late : e[3] = 0 => e[1] \notin InC
    BY DriverAssumption
  <2> QED
    BY <1>3, <2>1
<1>5. ASSUME NEW e \in errors
      PROVE  Suppressed(e[1], e[3], suppressed) <=> Excused(e[1], e[3])'
  <2>1. e[1] \in Category /\ e[3] \in Nat /\ e[3] <= Len(source)
    BY <1>3, <1>4
  <2>2. MarksOf(Len(source)) \subseteq suppressed /\ suppressed \subseteq MarksOf(Len(source))
    BY <1>1 DEF DriverInv, MarksInv
  <2>3. Excused(e[1], e[3])' <=> Excused(e[1], e[3])
    BY <1>1 DEF Excused
  <2>4. Len(source) \in 0 .. Len(source)
    BY <1>3
  <2> QED
    BY <1>3, <1>4, <2>1, <2>2, <2>3, <2>4, SuppressedIs
<1>6. CountInv' /\ \A v \in verdicts' : Judged(v)'
  <2>1. filters = FlagFilters \o FromConfig(cfgFilters) /\ cfgFilters \in Seq(FilterOption)
    BY <1>1 DEF DriverInv, FiltersInv, PlaceInv
  <2>2. \A v \in verdicts : Judged(v)'
    BY <1>1, JudgedStill DEF DriverInv, VerdictInv
  <2>3. CountInv
    BY DEF DriverInv
  <2> QED
    BY <1>1, <1>2, <1>3, <1>4, <1>5, <2>1, <2>2, <2>3, Complained
<1>7. PlaceInv' /\ FiltersInv' /\ MarksInv' /\ StatusInv'
  <2>1. cfgFilters' \in Seq(FilterOption) /\ AtFile
    BY <1>1 DEF DriverInv, PlaceInv, AtFile
  <2> QED
    BY <1>1, <2>1, NextFileKeeps
<1>8. VerdictInv'
  BY <1>1, <1>6 DEF VerdictInv, NextFile
<1> QED
  BY <1>6, <1>7, <1>8 DEF DriverInv

LEMMA FinishKeeps == ASSUME DriverInv, Finish PROVE DriverInv'
<1> USE DEF DriverInv, Finish, sourceVars, countVars
<1>1. PlaceInv' /\ FiltersInv' /\ MarksInv' /\ CountInv'
  BY DEF PlaceInv, FiltersInv, MarksInv, CountInv, AtFile
<1>2. VerdictInv'
  BY VerdictsStill DEF VerdictInv
<1>3. StatusInv'
  BY DEF StatusInv, CountInv, ExitCode
<1> QED
  BY <1>1, <1>2, <1>3

LEMMA DriverStutters == ASSUME DriverInv, UNCHANGED driverVars PROVE DriverInv'
<1> USE DEF DriverInv, driverVars
<1>1. PlaceInv' /\ FiltersInv' /\ MarksInv' /\ CountInv'
  <2>1. MarksOf(parsed)' = MarksOf(parsed) /\ MarksOf(Len(source))' = MarksOf(Len(source))
    BY DEF MarksOf
  <2>2. Len(Dirs)' = Len(Dirs)
    BY DEF Dirs, File
  <2> QED
    BY <2>1, <2>2 DEF PlaceInv, FiltersInv, MarksInv, CountInv, AtFile
<1>2. VerdictInv'
  BY VerdictsStill DEF VerdictInv
<1>3. StatusInv'
  BY DEF StatusInv, WellFormed
<1> QED
  BY <1>1, <1>2, <1>3

LEMMA DriverInvIsInvariant == DriverSpec => []DriverInv
<1>1. ASSUME DriverInv, [DriverNext]_driverVars PROVE DriverInv'
  <2>1. CASE UsageEnds
    BY <1>1, <2>1, UsageEndsKeeps
  <2>2. CASE ParseArguments
    BY <1>1, <2>2, ParseArgumentsKeeps
  <2>3. CASE StartFile
    BY <1>1, <2>3, StartFileKeeps
  <2>4. CASE ReadConfig
    BY <1>1, <2>4, ReadConfigKeeps
  <2>5. CASE ConfigUnreadable
    BY <1>1, <2>5, ConfigUnreadableKeeps
  <2>6. CASE ApplyConfig
    BY <1>1, <2>6, ApplyConfigKeeps
  <2>7. CASE SkipFile
    BY <1>1, <2>7, SkipFileKeeps
  <2>8. CASE OpenFile
    BY <1>1, <2>8, OpenFileKeeps
  <2>9. CASE ProcessSourceLine
    BY <1>1, <2>9, ProcessSourceLineKeeps
  <2>10. CASE EndOfSource
    BY <1>1, <2>10, EndOfSourceKeeps
  <2>11. CASE Finish
    BY <1>1, <2>11, FinishKeeps
  <2>12. CASE DriverDone \/ UNCHANGED driverVars
    BY <1>1, <2>12, DriverStutters DEF DriverDone
  <2> QED
    BY <1>1, <2>1, <2>2, <2>3, <2>4, <2>5, <2>6, <2>7, <2>8, <2>9, <2>10, <2>11, <2>12 DEF DriverNext
<1> QED
  BY <1>1, InitDriver, PTL DEF DriverSpec

\* For any files, configurations, filters and comments: whatever cpplint has
\* linted before (_error_suppressions and _global_error_suppressions at
\* cpplint.py:629 and 685, and _cpplint_state at 1168, are the module's), a
\* complaint about a line whose comment it has read is shown if and only if the
\* verbosity and the filters of the flags and of this file's directories let it
\* through and no comment of this file is for it (_ShouldPrintError, 1410); and
\* it exits with 1 if and only if it has shown one (main, 6599).
THEOREM ReportsAreExact == DriverSpec => []ReportsExact
<1>1. DriverInv => ReportsExact
  BY DEF DriverInv, VerdictInv, StatusInv, Judged, ReportsExact
<1> QED
  BY <1>1, DriverInvIsInvariant, PTL
=============================================================================
