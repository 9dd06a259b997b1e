SPECIFICATION Spec
CONSTANTS
  LEAF_MAX = 1
  NONLEAF_MAX = 2
  Key = {1, 2, 3, 4, 5}
  Input <- MCTwice
  Wild <- MCWild
  UninitPid <- MCUninit
  UninitHeight = {0, 1}
  Fault = {"read"}
  MaxOpens = 1
INVARIANT ChainSorted
PROPERTY ChainKeeps
