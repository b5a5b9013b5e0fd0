SPECIFICATION ForkSpec
CONSTANTS
  Blocks = 4
  Boot = 1
  LastPid = 3
  TimeSlice = 1
  TickMod = 2
INVARIANTS
  QueueIsReadySet
  ChildrenListed
  WakeLostOnlyInWindow
