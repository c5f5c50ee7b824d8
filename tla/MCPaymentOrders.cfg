SPECIFICATION Spec
CONSTANTS
  Users = {u1}
  Orders = {o1, o2}
  Txs = {t1, t2}
  Calls = {c1, c2}
  Packages = {1, 2}
  RateLimit = 2
  MaxAttempts = 3
  NoUser = NoUser
  NoOrder = NoOrder
  NoTx = NoTx
SYMMETRY Symmetry
INVARIANTS
  TypeOK
  CreditsConserved
  OnePaymentOneOrder
  CompletedTxLanded
  MemoNamesOrder
CHECK_DEADLOCK FALSE
