SPECIFICATION Spec
CONSTANTS
  RECORDS_PER_PAGE = 2
  Key = {1}
  Value = {"long", "cut"}
  Stored <- CutTo
  ZeroRec = ZeroRec
  NoRec = NoRec
  Rid <- MCRid
  SeekLimit = 3
  MaxPages = 4
  Fault = {"open", "last", "read", "write"}
INVARIANTS
  Packed
  EridExact
PROPERTIES
  RidsAreStable
