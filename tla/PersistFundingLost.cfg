SPECIFICATION Spec
CONSTANTS
  Publishers = {d1}
  Kinds = {"data", "funding"}
  BridgeCap = 3
  MaxBatch = 2
  MaxFrames = 3
  MaxFailures = 1
  MaxLoadFailures = 0
  MaxCrashes = 0
INVARIANT FundingNotLost
CHECK_DEADLOCK FALSE
