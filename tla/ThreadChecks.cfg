SPECIFICATION Spec
CONSTANTS
  Participants = {0, 1, 2}
  BandBps = 2500
  MaxLots = 2
  MaxNotional = 9
  MaxOpen = 0
  CbBps = 3000
  Window = 1
  Cooldown = 2
  Capacity = 3
  OrderIds = {1, 3}
  Origin <- MCOrigin
  Prices = {3, 4, 5, 7}
  Lots = {1, 2}
  TimesInForce = {"GTC", "IOC"}
  MaxRows = 2
  MaxNow = 4
INVARIANTS  NotCrossed
PROPERTY BandedTrades
