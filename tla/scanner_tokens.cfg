\* Small buffers, so that every token is cut at every place.
CONSTANTS
  Input <- MCInput
  YY_BUF_SIZE = 3
  YY_READ_BUF_SIZE = 4
  Fault = {"read"}
SPECIFICATION FairSpec
INVARIANTS TypeOK BufferFits
PROPERTIES ImplementsTokens ReadsWhenNeeded ScanEnds
\* the input ends
CHECK_DEADLOCK FALSE
