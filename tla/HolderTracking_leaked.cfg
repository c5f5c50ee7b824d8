SPECIFICATION TrackingSpec
CONSTANTS
  Clients = {c1}
  States = {s1, s2, s3}
  NoState = NoState
  Faults = {}
  MaxCount = 2
  MaxPipe = 2
  MaxTimers = 2
PROPERTIES
  EmptyRoomIsReleased
CHECK_DEADLOCK FALSE
