SPECIFICATION Spec
CONSTANTS
  RECORDS_PER_PAGE = 2
  Key = {1}
  Value = {"short", "long", "cut"}
  Stored <- CutTo
  ZeroRec = ZeroRec
  NoRec = NoRec
  Rid <- MCRid
  SeekLimit = 9
  MaxPages = 3
  Fault = {"last", "write"}
PROPERTIES
  LogSpec
