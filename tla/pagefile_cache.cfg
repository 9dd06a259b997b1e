SPECIFICATION NoWrapSpec
CONSTANTS
  File = {tbl}
  NoFile = NoFile
  PF = {r}
  Fd = {3}
  Page = {zero, p1}
  ZeroPage = zero
  NoPage = NoPage
  Pid <- MCPid
  SeekLimit = 3
  CACHE_COUNT = 2
  ClockMax = 7
  Fault = {"write", "close"}
INVARIANTS
  NoCachedFreeFd
  OneSlotPerPage
  CacheCoherent
PROPERTY CacheIsLRU
