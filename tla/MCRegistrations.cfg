\* Users: two wallets, one with a key of the operator, two keys to draw, signatures in two forms,
\* two requests at a time; clients up to a window ahead.
\* Providers: two miners, two registrations at a time, two challenges.
SPECIFICATION RegistrationSpec
CONSTANTS
  Wallets = {"u", "v"}
  StaticWallets = {"v"}
  KeyIDs = {k1, k2}
  Texts = {t1, t2}
  None = None
  MaxKeys = 1
  Window = 1
  Ahead = 1
  MaxTime = 2
  Handlers = {h1, h2}
  MaxEvents = 3
  Challenges = {"c1", "c2"}
  Miners = {"m1", "m2"}
  Signers = {"s1", "s2"}
  WorkerIDs = {"w1", "w2"}
  Nobody = Nobody
  NoMiner = NoMiner
  MaxSPs = 2
  SPHandlers = {"h1", "h2"}
  MaxSPEvents = 6
SYMMETRY Interchangeable
CHECK_DEADLOCK FALSE
INVARIANTS KeysDurable KeyLimit ActedOnOnce OneWorkerPerMiner AdmissionsProven
