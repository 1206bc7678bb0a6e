SPECIFICATION Spec
CONSTANTS
  Clients = {u1}
  Tasks = {t1, t2}
  Resources = {r1, r2}
  None = None
  MaxDay = 2
  Interval = 1
  MaxRev = 3
  Calm = TRUE
SYMMETRY Symmetry
INVARIANTS ProjectionFollowsTask
CHECK_DEADLOCK FALSE
