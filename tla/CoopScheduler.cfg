SPECIFICATION FairSpec
CONSTANTS
  MAX_PROCESS = 4
  HeapStacks = 3
  MaxPid = 8
  ExitSelf = FALSE
INVARIANTS
  QueueIsList
  SlotsExact
PROPERTIES
  EveryoneRuns
