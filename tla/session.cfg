CONSTANTS
  Nodes = {n1, n2}
  Conns = {c1, c2, c3}
  Admitted = {n1}
  None = None
  MaxTroubles = 2
SPECIFICATION FairSpec
CHECK_DEADLOCK FALSE
INVARIANTS RegistryEntriesEnd HeldTasksHaveSession ConnectedOrRetrying OneSocket
PROPERTY OrphanedWorkReclaimed
