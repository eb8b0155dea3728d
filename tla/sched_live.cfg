SPECIFICATION FairSpec
CONSTANTS
  tA = tA
  tB = tB
  tC = tC
  tIdle = tIdle
  NoThread = NoThread
  Thread <- ThreadsABC
  Idle = tIdle
  Object = {}
  MaxPrio = 2
  Slice <- SliceABC
  MaxDelay = 1
  Deferred = TRUE
  MaxNest = 1
  PrioChoice <- PrioABC
  Calls = {"create", "delay", "yield", "suspend"}
  IsrCalls = {"resume"}
INVARIANTS
  MostUrgentRuns
  PreparedIsFirst
PROPERTIES
  ReadyOrderKept
  WaitsEnd
  UrgentRuns
  SliceEnds
