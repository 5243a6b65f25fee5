SPECIFICATION FairSpec
CONSTANTS
  Publishers = {d1, d2}
  Kinds = {"data", "funding"}
  BridgeCap = 2
  MaxBatch = 2
  MaxFrames = 3
  MaxFailures = 2
  MaxLoadFailures = 1
  MaxCrashes = 1
INVARIANTS TypeOK  FundingAtMostOnce FundingSeesItsPoint
PROPERTIES StateNeverRegresses 
CHECK_DEADLOCK FALSE
