SPECIFICATION Spec
CONSTANTS
  NProc = 3
  TimeSlice = 1
  TickMod = 2
  HeapSlots = 3
  Inside = 2
  Froms = {0}
  SelfSend = FALSE
INVARIANTS
  WakesWaiting
