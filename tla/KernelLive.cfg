SPECIFICATION FairSpec
CONSTANTS
  NProc = 2
  TimeSlice = 2
  TickMod = 4
  HeapSlots = 3
  Inside = 2
  Froms = {0, 2}
  SelfSend = FALSE
PROPERTIES
  ReadyRuns
