CONSTANTS
  NumNodes = 2
  NumJobs = 1
  Items <- MCBatch
  ReduceJobs = {1}
  PipelineJobs = {}
  MinMembers = 1
  MaxTaskAttempts = 2
  MaxConcurrent = 1
  StealLimit = 3
  Disturbances = {"crash", "fail", "reject", "lost", "closing", "timeout", "cancel", "pause", "heartbeat", "replaced"}
  MaxDisturbances = 2
SPECIFICATION Spec
CHECK_DEADLOCK FALSE
INVARIANTS TypeOK WorkConserving NoTaskMislaid HandedToOneNode QueuesOnRegisteredNodes CompletionsCountedOnce
PROPERTIES EndedJobsStay
