CONSTANTS
  NumNodes = 2
  NumJobs = 1
  Items <- MCBatch
  ReduceJobs = {1}
  PipelineJobs = {}
  MinMembers = 1
  MaxTaskAttempts = 3
  MaxConcurrent = 1
  StealLimit = 3
  Disturbances = {"crash", "fail"}
  MaxDisturbances = 3
SPECIFICATION FairSpec
CHECK_DEADLOCK FALSE
PROPERTY JobsEnd
