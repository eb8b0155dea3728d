SPECIFICATION QueueSpec
CONSTANTS
  tA = tA
  tB = tB
  tC = tC
  tIdle = tIdle
  full = full
  empty = empty
  NoThread = NoThread
  Thread <- Threads
  Idle = tIdle
  Object <- Objects
  MaxPrio = 2
  Slice <- NoSlices
  MaxDelay = 1
  Deferred = FALSE
  MaxNest = 1
  PrioChoice <- PrioOf
  Calls = {}
  IsrCalls = {}
  WaitTimeouts <- AnyTimeout
  MaxMsgs = 2
  PtrRange = 4
  Message = {"x", "y"}
INVARIANTS
  QueueInv
PROPERTIES
  QueueIsFifo
