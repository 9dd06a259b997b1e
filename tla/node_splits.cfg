SPECIFICATION Spec
CONSTANTS
  LEAF_MAX = 3
  NONLEAF_MAX = 4
  Key = {1, 2, 3}
  Val = {1, 2}
INVARIANTS
  SplitSorted
  LeafKeepsEntries
  NonLeafHandsUpMiddle
  ChildCovers
  LocateCounts
