SPECIFICATION Spec
CONSTANTS
  w1 = w1
  w2 = w2
  w3 = w3
  Thread = {w1, w2, w3}
  MaxThreads = 2
  Tasks = 3
  Waits = {TRUE}
CHECK_DEADLOCK FALSE
INVARIANTS
  LastWorkerTellsMain
