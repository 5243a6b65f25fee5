SPECIFICATION Spec
CONSTANTS
  Participants = {0, 1, 2}
  BandBps = 0
  MaxLots = 0
  MaxNotional = 0
  MaxOpen = 1
  CbBps = 0
  Window = 1
  Cooldown = 2
  Capacity = 3
  OrderIds = {1, 2, 3}
  Origin <- MCOrigin
  Prices = {2}
  Lots = {1, 2}
  TimesInForce = {"GTC", "IOC"}
  MaxRows = 0
  MaxNow = 1
INVARIANT CapRefusalsJustified
CHECK_DEADLOCK FALSE
