SPECIFICATION IrqFairSpec
CONSTANT Stages = {3, 4, 9, 10, 11, 13}
INVARIANTS
  IrqsReachHandlers
  OneServiceAtATime
PROPERTIES
  ServedInTheEnd
