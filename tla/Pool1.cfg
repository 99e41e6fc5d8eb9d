SPECIFICATION FairSpec
CONSTANTS
  w1 = w1
  w2 = w2
  w3 = w3
  Thread = {w1, w2, w3}
  MaxThreads = 3
  Tasks = 6
  Waits = {TRUE, FALSE}
\* A full pool and a timed-out last worker stop the program: see the findings.
CHECK_DEADLOCK FALSE
INVARIANTS
  TypeOK
  CountsThreads
  InOrder
  DestroyedMeansDone
PROPERTIES
  TasksRunUnlessFull
  DestroyReturns
