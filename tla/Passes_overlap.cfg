SPECIFICATION Spec
CONSTANTS
  Callers = {ticker, admin}
  MaxRecords = 2
  MaxPasses = 3
CHECK_DEADLOCK FALSE
INVARIANTS OnlyNewRecords
