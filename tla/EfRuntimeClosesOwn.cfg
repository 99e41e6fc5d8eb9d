SPECIFICATION Spec
CONSTANTS
  c1 = c1
  c2 = c2
  c3 = c3
  forward = forward
  greeting = greeting
  Coroutine = {c1, c2, c3}
  Listeners <- TwoListeners
  LimitMin = 1
  LimitMax = 2
  PerShrink = 1
  LastFd = 5
  Backlog = 1
  Batch = 2
  MaxSockets = 1
  MemoryFails = FALSE
  ClosesOwn = TRUE
  Loop = Loop
  None = None
INVARIANTS
  OneOwner
