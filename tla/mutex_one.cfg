SPECIFICATION FairMutexSpec
CONSTANTS
  tH = tH
  tM = tM
  tL = tL
  tIdle = tIdle
  NoThread = NoThread
  Thread <- Threads
  Idle = tIdle
  Object = {"m"}
  MaxPrio = 3
  Slice <- NoSlices
  MaxDelay = 1
  Deferred = FALSE
  MaxNest = 1
  PrioChoice <- PrioHML
  Calls = {"suspend"}
  IsrCalls = {"resume"}
  LockTimeouts <- WaitForever
INVARIANTS
  OwnerInherits
  WaitListsAgree
PROPERTIES
  UrgentLocks
