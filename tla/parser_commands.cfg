\* Every sequence of tokens: selects with up to two conditions, loads, QUIT, and
\* whatever is none of them.  "b" is no attribute.
CONSTANTS
  Name = {"key", "value", "b"}
  Literal = {"1"}
  NoText = "none"
  Free = "free"
  MaxConds = 2
  String <- MCString
  Offered <- MCOffered
SPECIFICATION FairSpec
INVARIANTS TypeOK HeapExact
PROPERTIES OnlyErrorsLose ErrorsTold ImplementsGrammar LinesAnswered
\* the parser returns
CHECK_DEADLOCK FALSE
