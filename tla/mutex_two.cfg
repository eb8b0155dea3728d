SPECIFICATION MutexSpec
CONSTANTS
  tH = tH
  tM = tM
  tL = tL
  tIdle = tIdle
  NoThread = NoThread
  Thread <- Threads
  Idle = tIdle
  Object = {"m", "n"}
  MaxPrio = 3
  Slice <- NoSlices
  MaxDelay = 1
  Deferred = FALSE
  MaxNest = 1
  PrioChoice <- PrioHML
  Calls = {"delay"}
  IsrCalls = {}
  LockTimeouts <- AnyTimeout
INVARIANTS
  MutexInv
  HolderOwns
  PriorityGivenBack
