SPECIFICATION FairSpec
CONSTANTS
  LEAF_MAX = 5
  NONLEAF_MAX = 4
  Row <- MCRow
  File <- MCFile
  Query <- MCQuery
  INT_MAX = 2
  Uninit <- MCUninit
  UninitRid = {0, 1}
  OldRow <- MCOldRow
  OldLeaf <- MCOldLeaf
  RECORDS_PER_PAGE = 3
  Fault = {"open", "read", "append", "insert", "crash"}
  MaxRows = 4
  MaxLoads = 2
  MaxAstray = 2
  NoComma = NoComma
  TooLong = TooLong
INVARIANTS
  IndexNamesRecords
  IndexComplete
  AnswerOnce
  MissesExplained
  ErrorsExplained
PROPERTY
  LoadStores
  CommandsEnd
