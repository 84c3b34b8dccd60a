CONSTANTS
  Signals <- Readings
  MaxCapacity = 2
  RampUp = 1
  RampDown = 2
  Throttled = 1
  Tight = 1
  Warm = 1
  Hot = 1
  Battery = 0
  MaxAgents = 2
  MaxProcs = 3
  MaxRestarts = 1
  MaxKeys = 2
  MaxTroubles = 1
SPECIFICATION FairSpec
CHECK_DEADLOCK FALSE
INVARIANTS ServersWithinReach
PROPERTIES NeverInOneJump LendsAtLast
