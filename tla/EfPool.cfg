SPECIFICATION Spec
CONSTANTS
  c1 = c1
  c2 = c2
  c3 = c3
  c4 = c4
  Coroutine = {c1, c2, c3, c4}
  Thread = Thread
  Null = Null
  LimitMin = 1
  LimitMax = 3
  Second = 2
  MaxNow = 3
  ShrinkArgs <- WholeSecondArgs
  PageSize = 3
SYMMETRY CoroutineSymmetry
INVARIANTS
  TypeOK
  StatusMatchesContext
  ReturnToResumer
  CountsMatch
  FreeListIsExited
PROPERTIES
  KeepsMinimum
  IdlestFreedFirst
  OnlyIdleFreed
  MeetsFiberContract
  ImplementsPoolSpec
