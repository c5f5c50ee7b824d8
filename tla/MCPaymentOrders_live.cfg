SPECIFICATION FairSpec
CONSTANTS
  Users = {u1, u2}
  Orders = {o1, o2}
  Txs = {t1}
  Calls = {c1}
  Packages = {1}
  RateLimit = 1
  MaxAttempts = 1
  NoUser = NoUser
  NoOrder = NoOrder
  NoTx = NoTx
PROPERTIES
  PendingOrderSettles
  ImplementsLedger
CHECK_DEADLOCK FALSE
