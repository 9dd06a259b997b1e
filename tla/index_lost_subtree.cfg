SPECIFICATION Spec
CONSTANTS
  LEAF_MAX = 2
  NONLEAF_MAX = 2
  Key = {1, 2, 3, 4, 5, 6, 7, 8}
  Input <- MCDistinct
  Wild <- MCWild
  UninitPid = {0}
  UninitHeight = {0, 1}
  Fault = {}
  MaxOpens = 1
INVARIANT InsertedFound
