SPECIFICATION FairSpec
CONSTANTS
  LEAF_MAX = 2
  NONLEAF_MAX = 4
  Key = {1, 2, 3, 4, 5}
  Input <- MCDistinct
  Wild <- MCWild
  UninitPid <- MCUninit
  UninitHeight = {0, 1}
  Fault = {}
  MaxOpens = 3
INVARIANTS
  TypeOK
  LookupsExact
  SavedRootFinds
PROPERTIES
  IndexSpec
  ScanLeavesTheLeaves
