SPECIFICATION FairSpec
CONSTANTS
  BufSize = 2
  MaxLine = 3
INVARIANTS
  CountWithinUnread
PROPERTIES
  ImplementsFifo
  AllTypedIsRead
