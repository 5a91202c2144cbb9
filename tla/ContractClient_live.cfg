SPECIFICATION Spec
CONSTANTS
  NumBatches = 2
  NumEndpoints = 2
  Confirmations = 2
  MaxNotFoundStreak = 2
  BaseFee = 100
  HighFee = 200
  PoolLimit = 3
  MaxPrice = 500
  MaxFaults = 2
CHECK_DEADLOCK FALSE
INVARIANTS FinalStays NoNonceGap
PROPERTIES EveryBatchConfirmed
