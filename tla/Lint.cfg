SPECIFICATION MCSpec
CONSTANTS
  Verbose = 1
  NormalTrigger = 1
  TestTrigger = 2
  Header <- MCHeader
  Rank <- MCRank
  CppHeader <- MCCppHeader
  ThirdParty <- MCThirdParty
  Target <- MCTarget
  PublicDir = "public"
  OwnHeader <- Foo
  OwnIncludes <- MCOwnIncludes
  NoHeader = NoHeader
  Alphabet <- MCAlphabet
  MaxLines = 6
  Symbol = {"(", ")", "]", "<", ">", ";", "-", "op", "NL", "x"}
  Leading <- MCLeading
  MaxText = 6
  FileLists <- MCFileLists
  DirsOf <- MCDirsOf
  Unreadable = {"h"}
  Ignored = {}
  Settings <- MCSettings
  Category <- MCCategory
  InC = {"a/x"}
  Matches <- MCMatches
  FlagFilters <- MCFlagFilters
  FlagLength = 2
  Verbosity = 1
  Text <- MCText
  Headers = {"g"}
  Early <- MCEarly
  Late <- MCLate
INVARIANTS
  TypeOK
  BranchesLeaveNoTrace
  IncludesRemembered
  OrderTold
  BracketsAgree
  ReportsExact
PROPERTIES
  LongFunctionsTold
