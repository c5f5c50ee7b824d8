SPECIFICATION ChatHistorySpec
CONSTANTS
  Runs = {r1}
  Window = 4
  MaxCalls = 1
  MaxRows = 5
INVARIANTS
  RequestsAreComplete
CHECK_DEADLOCK FALSE
