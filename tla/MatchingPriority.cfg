SPECIFICATION HSpec
CONSTANTS
  OrderIds = {a, b, c, d}
  Prices = {1, 2}
  Lots = {1, 2}
  OrderCapacity = 3
  QueueCapacity = 2
SYMMETRY HIdSymmetry
INVARIANTS TypeOK BookConsistent CacheSound NotCrossed LevelTotals SlotsInv ErrorsAreClean FokAllOrNothing
PROPERTIES TradesAtBestPrice PriceTimePriority
CHECK_DEADLOCK TRUE
