CONSTANTS
  NumNodes = 2
  NumJobs = 1
  Items <- MCBatch
  ReduceJobs = {1}
  PipelineJobs = {}
  MinMembers = 1
  MaxTaskAttempts = 2
  MaxConcurrent = 1
  StealLimit = 3
  Disturbances = {"crash", "fail", "reject"}
  MaxDisturbances = 2
SPECIFICATION FairSpec
CHECK_DEADLOCK FALSE
PROPERTIES JobsEndOrGiveUp ImplementsTaskHandoff
