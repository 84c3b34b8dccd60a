CONSTANTS
  Needed = 115
  MinUseful = 26
  MaxMembers = 2
  SoloNeeded = 125
  AllowBrowsers = TRUE
  ModelParallel = TRUE
  Nodes <- NodeSet
  Readings <- ReadingSet
  Requests <- RequestSet
  Period = 6
SPECIFICATION PlanningSpec
INVARIANTS FewestMembers AssignmentFits EveryItemOnce
