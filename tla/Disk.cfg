SPECIFICATION FairSpec
CONSTANTS
  Positions = 2
  Attached = 2
  Sectors = 2
  MaxLba = 3
  CountMod = 3
  MaxCount = 3
  Polls = 2
  Vals = {1}
INVARIANTS
  ReadsWhatWasAsked
  AckedStays
PROPERTIES
  CallsEnd
