SPECIFICATION Spec
CONSTANTS
  tA = tA
  tB = tB
  tC = tC
  tIdle = tIdle
  NoThread = NoThread
  Thread <- ThreadsAB
  Idle = tIdle
  Object = {}
  MaxPrio = 2
  Slice <- SliceAB
  MaxDelay = 1
  Deferred = FALSE
  MaxNest = 1
  PrioChoice <- PrioAB
  Calls = {"create", "recreate", "abort", "return", "suspend", "resume", "delay", "yield", "join"}
  IsrCalls = {"suspend", "resume", "abort"}
INVARIANTS
  KernelInv
  ReadyQueuesAgree
  OnlyCurrentRuns
  BlockedCanWake
  TimersServeWaiters
  SliceAccountsAgree
  NoLostReschedule
