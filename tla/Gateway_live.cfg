\* A stream and a plain request, one worker, a shutdown.
SPECIFICATION FairSpec
CONSTANTS
  Requests = {"r1", "r2"}
  Workers = {"w1"}
  Keys = {"k"}
  Wallets = {"u"}
  KeyOf <- OneKey
  WalletOf <- OneWallet
  Streaming = {"r1"}
  PromptEstimate = 1
  MaxTokens = 2
  Reported = {0}
  MaxInFlight = 2
  MaxQueueSize = 1
  StreamResume = TRUE
  StreamMaxResumes = 1
  SwitchOnOverload = FALSE
  MinBalance = 0
  MaxPending = 0
  Balances = {4, 7}
  SelfRegistered = {}
  Supports = {"w1"}
  Capable = {"w1"}
  MayLeave = {}
  LogMayFail = TRUE
  MayDrain = TRUE
  MaxChurn = 1
  Up = {"w1"}
  Hot = {}
  None = None
CHECK_DEADLOCK FALSE
PROPERTIES PlainRequestsLeave NobodyWaitsForever
