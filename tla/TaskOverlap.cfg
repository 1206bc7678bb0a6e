SPECIFICATION Spec
CONSTANTS
  Clients = {u1, u2}
  Tasks = {t1}
  Resources = {r1}
  None = None
  MaxDay = 2
  Interval = 1
  MaxRev = 3
  Calm = FALSE
SYMMETRY Symmetry
PROPERTIES UndisturbedCommitSyncs
CHECK_DEADLOCK FALSE
