SPECIFICATION PagingSpec
CONSTANTS
  Pages = 10
  Reserved = 2
  PAGE_SIZE = 4
  Entries = 10
  HeapStart = 1
  HeapUnits = 34
  ClientPages <- MCClientPages
  ClientFrames = {9, 10}
  Blocks = 10
INVARIANTS
  CpuSeesWhatWasAsked
  TablesInTheirBlocks
  BlocksHaveOneOwner
  MarkedIsHeld
  HintSound
