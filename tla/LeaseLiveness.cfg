SPECIFICATION LeaseFairSpec
CONSTANTS
  Procs = {p1, p2, p3}
  MaxFaults = 2
INVARIANT EpochsUnique
PROPERTY LeaderEmerges
CHECK_DEADLOCK TRUE
