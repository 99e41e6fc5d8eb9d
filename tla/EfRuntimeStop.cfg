SPECIFICATION FairSpec
CONSTANTS
  c1 = c1
  c2 = c2
  c3 = c3
  forward = forward
  greeting = greeting
  Coroutine = {c1}
  Listeners <- TwoListeners
  LimitMin = 0
  LimitMax = 1
  PerShrink = 1
  LastFd = 5
  Backlog = 1
  Batch = 2
  MaxSockets = 0
  MemoryFails = FALSE
  ClosesOwn = FALSE
  Loop = Loop
  None = None
INVARIANTS
  DoneMeansClean
PROPERTIES
  StopEnds
  FirstServed
