CONSTANTS
  NumNodes = 2
  NumJobs = 2
  Items <- MCTwoJobs
  ReduceJobs = {1}
  PipelineJobs = {2}
  MinMembers = 1
  MaxTaskAttempts = 2
  MaxConcurrent = 1
  StealLimit = 3
  Disturbances = {"crash", "fail", "reject", "cancel", "heartbeat"}
  MaxDisturbances = 2
SPECIFICATION Spec
CHECK_DEADLOCK FALSE
INVARIANTS BusyCountExact NeverCountedBusier PipelineTaskAtHead
PROPERTY CompletionJustified
