SPECIFICATION Spec
CONSTANTS
  File = {tbl, idx}
  NoFile = NoFile
  PF = {r, b}
  Fd <- MCFd2
  Page = {zero, p1}
  ZeroPage = zero
  NoPage = NoPage
  Pid = {0}
  SeekLimit = 1
  CACHE_COUNT = 2
  ClockMax = 1
  Fault = {"write"}
INVARIANT EpidExact
PROPERTY StoreSpec
