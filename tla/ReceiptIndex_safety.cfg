SPECIFICATION Spec
CONSTANTS
  Batches <- SmallBatches
  MaxFaults = 2
CHECK_DEADLOCK FALSE
INVARIANTS SettledIsFound ProofsVerify
PROPERTIES AnswersOnlyImprove
