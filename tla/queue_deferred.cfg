SPECIFICATION QueueSpec
CONSTANTS
  tA = tA
  tB = tB
  tC = tC
  tIdle = tIdle
  full = full
  empty = empty
  NoThread = NoThread
  Thread <- Threads
  Idle = tIdle
  Object <- Objects
  MaxPrio = 2
  Slice <- NoSlices
  MaxDelay = 1
  Deferred = TRUE
  MaxNest = 1
  PrioChoice <- PrioOf
  Calls = {}
  IsrCalls = {}
  WaitTimeouts <- WaitForever
  MaxMsgs = 1
  PtrRange = 2
  Message = {"x"}
INVARIANTS
  LinkedOnce
