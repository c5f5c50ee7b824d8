SPECIFICATION Spec
CONSTANTS
  Users = {u1}
  Orders = {o1}
  Txs = {t1}
  Calls = {c1}
  Packages = {1}
  RateLimit = 1
  MaxAttempts = 1
  NoUser = NoUser
  NoOrder = NoOrder
  NoTx = NoTx
INVARIANTS
  CompletedWasPaid
CHECK_DEADLOCK FALSE
