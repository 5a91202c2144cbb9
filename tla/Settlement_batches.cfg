\* A plan of two batches, with two faults of any kind.
SPECIFICATION Spec
CONSTANTS
  Wallets = {1}
  SPs = {1, 2}
  Workers = {"w1", "w2"}
  Requests = {"r1", "r2"}
  WalletOf <- TwoSPsWalletOf
  WorkerOf <- TwoSPsWorkerOf
  CostOf <- TwoSPsCostOf
  SPOf <- TwoSPsSPOf
  MayUnmap = {}
  MaxBatchSize = 1
  AwaitFinality = TRUE
  MaxCost = 2
  MaxBalance = 2
  MaxCycles = 1
  MaxFaults = 2
  FaultKinds = {"crash", "read", "write", "reorg"}
INVARIANTS TotalMatchesChain EveryBatchLedgered
PROPERTIES CursorAfterChain
