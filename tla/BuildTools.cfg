SPECIFICATION MCSpec
CONSTANTS
  w1 = w1
  w2 = w2
  w3 = w3
  a = a
  b = b
  c = c
  x = x
  Worker = {w1, w2, w3}
  NumFiles = 5
  Matchings <- MCMatchings
  ThirdParty = {2}
  ExportFixes = TRUE
  Fix = TRUE
  MaxDeaths = 2
  Dirs <- TwoDirs
  Excluded = {x}
\* A dead thread leaves join waiting for ever.
CHECK_DEADLOCK FALSE
INVARIANTS
  TypeOK
  UnfinishedExact
  NeverExitsShort
PROPERTIES
  TidyEndsOrDrains
  StatusTells
