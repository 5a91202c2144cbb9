\* One fault of any kind; two cycles, so that carried debt and replays meet.
SPECIFICATION Spec
CONSTANTS
  Wallets = {1}
  SPs = {1, 2}
  Workers = {"w1", "w2"}
  Requests = {"r1", "r2"}
  WalletOf <- TwoSPsWalletOf
  WorkerOf <- TwoSPsWorkerOf
  CostOf <- TwoSPsCostOf
  SPOf <- TwoSPsSPOf
  MayUnmap = {}
  MaxBatchSize = 2
  AwaitFinality = TRUE
  MaxCost = 2
  MaxBalance = 2
  MaxCycles = 2
  MaxFaults = 1
  FaultKinds = {"crash", "read", "write", "reorg"}
INVARIANTS TypeOK BooksBalance NoOvercharge TotalMatchesChain PendingExact Accounted
