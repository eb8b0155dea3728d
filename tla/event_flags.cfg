SPECIFICATION EventSpec
CONSTANTS
  tA = tA
  tB = tB
  tC = tC
  tIdle = tIdle
  event = event
  NoThread = NoThread
  Thread <- Threads
  Idle = tIdle
  Object <- Objects
  MaxPrio = 2
  Slice <- NoSlices
  MaxDelay = 1
  Deferred = TRUE
  MaxNest = 1
  PrioChoice <- PrioOf
  Calls = {}
  IsrCalls = {}
  RecvTimeouts <- TickOrForever
  Flag = {"f", "g"}
  Masks <- Nested
INVARIANTS
  EventInv
PROPERTIES
  SendAccounts
