CONSTANTS
  lan = lan
  local = local
  adaptive = adaptive
  fastest = fastest
  MaxJobs = 2
  Hosts <- HostSet
  Settings <- SettingSet
  Default = adaptive
  None = None
  MaxSockets = 2
  MaxQueue = 2
  MaxSent = 1
  MaxPicks = 1
  MaxTroubles = 1
SPECIFICATION FairSpec
CHECK_DEADLOCK FALSE
INVARIANTS OneLine
PROPERTIES PromptComesBack AgreesInTheEnd
