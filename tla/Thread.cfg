SPECIFICATION Spec
CONSTANTS
  Participants = {0, 1, 2}
  BandBps = 0
  MaxLots = 0
  MaxNotional = 0
  MaxOpen = 1
  CbBps = 0
  Window = 1
  Cooldown = 1
  Capacity = 4
  OrderIds = {1, 2, 3, 4}
  Origin <- MCOrigin
  Prices = {2, 3}
  Lots = {1, 2}
  TimesInForce = {"GTC", "IOC", "FOK", "PostOnly"}
  MaxRows = 0
  MaxNow = 1
INVARIANTS TypeOK RoutesKnown CountsInStep CapRespected NotCrossed FillsAreAnExecution
