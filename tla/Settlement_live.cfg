\* Liveness: one request whose SP mapping comes and goes, two cycles, a crash or a reorg.
SPECIFICATION FairSpec
CONSTANTS
  Wallets = {1}
  SPs = {1}
  Workers = {"w1"}
  Requests = {"r1"}
  WalletOf <- OneWalletOf
  WorkerOf <- OneWorkerOf
  CostOf <- BigCostOf
  SPOf <- OneSPOf
  MayUnmap = {"w1"}
  MaxBatchSize = 2
  AwaitFinality = TRUE
  MaxCost = 3
  MaxBalance = 1
  MaxCycles = 2
  MaxFaults = 1
  FaultKinds = {"crash", "reorg"}
INVARIANTS BooksBalance PendingExact
PROPERTIES WALDrains EveryRequestPassed
