SPECIFICATION Spec
CONSTANTS
  Participants = {0, 1}
  BandBps = 0
  MaxLots = 0
  MaxNotional = 0
  MaxOpen = 0
  CbBps = 0
  Window = 2
  Cooldown = 1
  Capacity = 4
  Sessions = 1
  Frames <- MCFrames
  MaxFrames = 3
  MaxCrashes = 1
  MaxSnapshots = 1
  MaxNow = 1
  OrderIds = {1, 2}
  Prices = {2, 3}
  Lots = {1}
INVARIANT NothingSkipped
CHECK_DEADLOCK FALSE
