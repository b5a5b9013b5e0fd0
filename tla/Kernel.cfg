SPECIFICATION Spec
CONSTANTS
  NProc = 3
  TimeSlice = 1
  TickMod = 2
  HeapSlots = 4
  Inside = 2
  Froms = {2}
  SelfSend = FALSE
INVARIANTS
  QueueIsReadySet
  RunningIsCurrent
  TreeConsistent
  ZombiesReapable
  WaiterNotStranded
  NothingFreedInUse
PROPERTIES
  ImplementsLifecycle
