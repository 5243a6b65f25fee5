SPECIFICATION Spec
CONSTANTS
  Participants = {0, 1}
  BandBps = 0
  MaxLots = 0
  MaxNotional = 0
  MaxOpen = 0
  CbBps = 0
  Window = 2
  Cooldown = 1
  Capacity = 4
  Sessions = 2
  Frames <- MCFrames
  MaxFrames = 4
  MaxCrashes = 2
  MaxSnapshots = 0
  MaxNow = 2
  OrderIds = {1, 2}
  Prices = {2}
  Lots = {1}
INVARIANTS AppliedOnce NothingSkipped
CHECK_DEADLOCK FALSE
