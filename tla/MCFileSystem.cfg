SPECIFICATION Spec
CONSTANTS
  Names = {a, b}
  MaxFiles = 2
  MaxOpen = 2
  Clusters = 5
  ClusterSize = 2
  MaxFileSize = 5
  Overlap = FALSE
  LongModes = {}
  Cuts = {"create", "close", "write", "sync"}
  MaxFailures = 1
INVARIANTS
  ChainsSound
  BytesInPlace
  CursorOnChain
  NoClusterLost
  FreeCountFollows
SYMMETRY NameSymmetry
