SPECIFICATION Spec
CONSTANTS
  Clients = {u1}
  Tasks = {t1}
  Resources = {r1, r2}
  None = None
  MaxDay = 3
  Interval = 1
  MaxRev = 3
  Calm = TRUE
SYMMETRY Symmetry
INVARIANTS NoOrphanProjection
CHECK_DEADLOCK FALSE
