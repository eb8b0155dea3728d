SPECIFICATION PoolSpec
CONSTANTS
  tA = tA
  tB = tB
  tC = tC
  tIdle = tIdle
  pool = pool
  Null = Null
  NoThread = NoThread
  Thread <- Threads
  Idle = tIdle
  Object <- Objects
  MaxPrio = 2
  Slice <- NoSlices
  MaxDelay = 1
  Deferred = FALSE
  MaxNest = 1
  PrioChoice <- PrioOf
  Calls = {}
  IsrCalls = {}
  AllocTimeouts <- AnyTimeout
  Word = 4
  BlockSize = 8
  BlockCount = 3
INVARIANTS
  PoolInv
