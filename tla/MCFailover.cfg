SPECIFICATION Spec
CONSTANTS
  Procs = {p1, p2}
  MaxFaults = 2
  MaxFrames = 2
  TradeFrames = {2}
SYMMETRY ProcSymmetry
INVARIANTS TypeOK FencedStream FramesInOrder
CHECK_DEADLOCK FALSE
