\* A stream and a plain request of one wallet; two workers of which one can continue a stream; a queue of one.
SPECIFICATION Spec
CONSTANTS
  Requests = {"r1", "r2"}
  Workers = {"w1", "w2"}
  Keys = {"k"}
  Wallets = {"u"}
  KeyOf <- OneKey
  WalletOf <- OneWallet
  Streaming = {"r1"}
  PromptEstimate = 1
  MaxTokens = 2
  Reported = {0, 4}
  MaxInFlight = 2
  MaxQueueSize = 1
  StreamResume = TRUE
  StreamMaxResumes = 1
  SwitchOnOverload = TRUE
  MinBalance = 0
  MaxPending = 6
  Balances = {7}
  SelfRegistered = {"w1"}
  Supports = {"w1", "w2"}
  Capable = {"w1"}
  MayLeave = {"r1"}
  LogMayFail = FALSE
  MayDrain = FALSE
  MaxChurn = 1
  Up = {"w1", "w2"}
  Hot = {"w1"}
  None = None
CHECK_DEADLOCK FALSE
INVARIANTS TypeOK CountersExact LimitsHold PendingExact KeptIsBilled ResumedWithinEstimate
PROPERTIES NoRestartAfterBytes
