SPECIFICATION ChatSpec
CONSTANTS
  Users = {u1}
  Sessions = {s1, s2}
  Calls = {c1, c2}
  FreeLimit = 2
  LastDay = 2
  MaxBalance = 2
  NoUser = NoUser
  NoSession = NoSession
  Runs = {r1, r2}
  Window = 4
  MaxCalls = 2
  MaxRows = 8
  Mints = {SOL, USDC}
  Sol = SOL
  UnknownToken = UnknownToken
  HighestSlippage = 3
  DefaultSlippage = 2
  RecentOutputs = 2
  ToolsCalled <- MCTools
  SlippageAsked <- MCSlippages
  MaxRowsWithOutputs = 7
SYMMETRY Symmetry
INVARIANTS
  TypeOK
  OneChargePerAnswer
  RefusedWasOvertaken
  DeniedWasExhausted
  HistoryIsReadRight
PROPERTIES
  FreeBeforePaid
CHECK_DEADLOCK FALSE
