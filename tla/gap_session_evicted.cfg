CONSTANTS
  Nodes = {n1}
  Conns = {c1, c2, c3}
  Admitted = {n1}
  None = None
  MaxTroubles = 2
SPECIFICATION Spec
CHECK_DEADLOCK FALSE
PROPERTY ReconnectedStaysRegistered
