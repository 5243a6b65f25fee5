SPECIFICATION Spec
CONSTANTS
  Procs = {p1, p2}
  MaxFaults = 1
  MaxFrames = 2
  TradeFrames = {2}
PROPERTY NoZombieTrades
CHECK_DEADLOCK FALSE
