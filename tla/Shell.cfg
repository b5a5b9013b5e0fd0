SPECIFICATION ShellSpec
CONSTANTS
  Names = {"a", "b"}
  MaxFiles = 2
  MaxOpen = 2
  Clusters = 4
  ClusterSize = 3
  MaxFileSize = 6
  Overlap = TRUE
  LongModes = {"write", "append"}
  Cuts = {"create", "close", "write", "delete", "sync"}
  MaxFailures = 1
  Line = 3
  Chunk = 2
INVARIANTS
  NothingLeftOpen
PROPERTIES
  KeepsTheRules
