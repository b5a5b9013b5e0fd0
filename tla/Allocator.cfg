SPECIFICATION Spec
CONSTANTS
  HeapSize = 16
  Header = 2
  MinBlock = 2
  Align = 2
  WordMod = 32
  MaxRequest = 5
INVARIANTS
  Tiled
  Coalesced
  UsedIsExact
  OwnedAreUsed
