SPECIFICATION Spec
CONSTANTS
  Messages <- MCMessages
  MaxPrice = 4
  Readers = {r1}
  MaxJobs = 3
  Calls = {c1, c2}
  Prices <- MCPrices
  LastBucket = 3
  ChartWindows <- MCCharts
  OhlcAnswers <- MCOhlcAnswers
  SeedPrices = {0, 5}
  MaxEntries = 3
  Deals <- MCDeals
  Reports <- MCReports
  HolderPrice = 2
  MaxHandlers = 2
  MaxStarts = 3
  PriceSeries <- MCPriceSeries
  ChartStart = 2
  Today = 4
  StatsFaults = {"redis", "db"}
  LastEvent = 3
  MaxFlights = 2
  Swaps = {w1, w2, w3}
  Buys = {w1, w2}
  Trades = {t1}
  Holders = {h1, h2}
  Clients = {k1, k2}
  States = {o1, o2, o3}
  NoState = NoState
  Faults = {"disconnect", "duplicate", "redis", "restart"}
  MaxCount = 2
  MaxPipe = 3
  MaxTimers = 2
  Listed <- MCListed
  Linkable = {"a"}
  SeedBatch = 2
  UpsertTries = 2
  ResolveBatch = 2
  MarketPage = 2
  MaxSeeds = 2
  Rankings <- MCRankings
  MarketCaps <- MCMarketCaps
  WindowSize = 2
  Detailed = {"x"}
  Browsers = {b1}
  Syncs = {y1}
  MaxOffset = 1
  Limit = 2
  MaxAsks = 2
  MaxSyncs = 1
  CgCalls = {g1, g2, g3}
  Asked = {"ohlc"}
  RateLimit = 2
  Minute = 2
  MaxClock = 3
INVARIANTS
  TypeOK
  HoldersAgree
  SwapsAreCounted
  TradedMintIsActive
  TrackedIsKnown
  DiscoveryAgrees
  ChartIsWhole
  SleepersOnlyExceed
PROPERTIES
  FreshPriceIsSlotOrdered
  RowsAreFinalPrefixes
  BucketsArePersisted
  LinksAreKept
  LinkableIsLinked
CHECK_DEADLOCK FALSE
