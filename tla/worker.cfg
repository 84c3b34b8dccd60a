CONSTANTS
  t1 = t1
  t2 = t2
  r1 = r1
  r2 = r2
  r3 = r3
  small = small
  split = split
  large = large
  Tasks = {t1, t2}
  Runs = {r1, r2, r3}
  Configs = {small, split}
  Model <- ModelOf
  MaxConcurrent = 1
  MaxTroubles = 2
  None = None
SPECIFICATION FairSpec
CHECK_DEADLOCK FALSE
INVARIANTS OneGeneration RunsAreRegistered LimitHeld NoStrayServer ServedByItsPeers
PROPERTY EveryRunEnds
