CONSTANTS
  r1 = r1
  r2 = r2
  r3 = r3
  t1 = t1
  t2 = t2
  small = small
  large = large
  Runs = {r1, r2, r3}
  TaskOf <- Task
  ModelOf <- Named
  Models = {small, large}
  MaxSockets = 2
  MaxActs = 2
  MaxTroubles = 1
  None = None
SPECIFICATION FairSpec
CHECK_DEADLOCK FALSE
INVARIANTS PageAndEngineAgree OneSocketOrRetry LoadedModelsHonest
PROPERTY RunsEnd
