SPECIFICATION Spec
CONSTANTS
  Reactors = 2
  MaxFd = 2
  MaxClients = 2
  MaxSent <- MCMaxSent
  Zero <- MCZero
CHECK_DEADLOCK FALSE
INVARIANT AssertionsHold
