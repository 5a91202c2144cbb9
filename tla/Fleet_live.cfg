SPECIFICATION Spec
CONSTANTS
  Workers = {w1}
  Endpoints = {e1, e2}
  Models = {a, b}
  None = None
  Threshold = 2
  MaxEvents = 4
CHECK_DEADLOCK FALSE
INVARIANTS NoRequestsOntoReload
PROPERTIES EventuallyTruthful
