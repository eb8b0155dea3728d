SPECIFICATION FairTimerSpec
CONSTANTS
  Timer = {"s", "t"}
  None = None
  Modes <- BothModes
  Timeouts <- ShortLongForever
  TimeMax = 15
  PastFails = FALSE
  Reach = 2
  MaxNow = 4
INVARIANTS
  TimerInv
  NeverEarly
  NoneOverdue
PROPERTIES
  OverdueServed
