SPECIFICATION SemSpec
CONSTANTS
  tA = tA
  tB = tB
  tC = tC
  tIdle = tIdle
  sem = sem
  NoThread = NoThread
  Thread <- Threads
  Idle = tIdle
  Object <- Objects
  MaxPrio = 2
  Slice <- NoSlices
  MaxDelay = 1
  Deferred = TRUE
  MaxNest = 2
  PrioChoice <- PrioOf
  Calls = {"delay"}
  IsrCalls = {}
  TakeTimeouts <- AnyTimeout
  StartVal = 0
  MaxVal = 2
INVARIANTS
  SemInv
PROPERTIES
  CountsUnits
