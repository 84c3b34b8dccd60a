CONSTANTS
  Nodes = {n1, n2}
  Tasks = {t1, t2, t3}
  MaxTaskAttempts = 2
  None = None
SPECIFICATION Spec
SYMMETRY Symmetry
INVARIANTS HandedToOneNode NoneStranded AttemptsCapped
