SPECIFICATION Spec
CONSTANTS
  MaxUpdates = 3
  MaxSignups = 3
  MaxLogins = 4
  Owners = {u1, u2}
  Addresses = {a1, a2}
  Setters = {s1, s2}
  Mints = {m1, m2}
  BatchSize = 1
  MaxVersion = 2
  Watched = {m1}
  MaxReads = 1
  MaxTokens = 3
  Places = {p1, p2}
  Alerts <- MCAlerts
  Events <- MCEvents
  MaxDeliveries = 2
  MaxEdits = 1
  Holders = {w1, w2}
  Kinds = {"SWAP", "STAKE"}
  PageSize = 1
  MaxPages = 2
  LoadLimit = 1
  Cutoff = 2
  MaxTx = 3
  MaxAsides = 1
  Swaps <- MCSwaps
  SolPrices <- MCSolPrices
  MaxSwaps = 3
  LastDay = 3
  Portfolios <- MCPortfolios
  Balances = {0, 2}
  TokenPrices <- MCTokenPrices
  NameRank <- MCNameRank
  TopTokens = 1
  SolPrice = 3
  Feeds <- MCFeeds
  Details <- MCDetails
  MaxEnriched = 3
  HistoryCalls = {c1, c2}
  BatchOf = 1
  HistoryPage = 2
  MaxSigs = 3
  MaxHistory = 2
  StakePools <- MCStakePools
  ValidatorLists <- MCValidatorLists
  Lamports = {2, 4}
  NativePage = 1
  MaxBuilds = 3
  MaxEpoch = 3
  MaxBlock = 2
  SwapTxs = {t1}
  SwapRequests = {r1, r2}
  FeeTokens = {usdc}
  MaxPolls = 1
  FeeSamples <- MCFeeSamples
  Tips = {1}
  StatSwaps <- MCStatSwaps
  Day = 1
  LastInstant = 4
SYMMETRY Symmetry
INVARIANTS
  TypeOK
  DecisionsHold
  AccountHasLastPassword
  NonceLogsInOnce
  OneDefault
  KnownHasRow
  VerifiedIsProved
  AlertsAreToldOnce
  HistoryIsWhole
  PnlIsConsistent
  ShownRight
  SwapAnswerIsTrue
  WindowIsStored
  StakesAreListed
CHECK_DEADLOCK FALSE
