CONSTANTS
  ahead = ahead
  other = other
  Peer = {ahead, other}
  Top = 3
  Start <- MCStart
  Batch = 2
  SyncThreshold = 1
  MaxAhead = 2
  MinPeers = 1
  StaleAge = 1
  JailAfter = 2
  JailTime = 1
  MaxEvents = 1
  MaxAsked = 1
  MaxDrops = 1
SPECIFICATION Spec
PROPERTIES
  CatchesUp
  LonelyStops
  SyncedMines
CHECK_DEADLOCK FALSE
