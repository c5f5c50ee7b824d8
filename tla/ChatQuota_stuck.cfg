SPECIFICATION Spec
CONSTANTS
  Users = {u1}
  Sessions = {s1}
  Calls = {c1}
  FreeLimit = 1
  LastDay = 0
  MaxBalance = 1
  NoUser = NoUser
  NoSession = NoSession
INVARIANTS
  ActiveIsProcessing
CHECK_DEADLOCK FALSE
