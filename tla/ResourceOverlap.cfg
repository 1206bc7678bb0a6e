SPECIFICATION Spec
CONSTANTS
  Clients = {u1, u2}
  Containers = {c1}
  Items = {i1}
  Assets = {}
  Vals = {v1, v2}
  None = None
  Keep = Keep
  Overlap = TRUE
  MaxRev = 3
PROPERTIES UndisturbedCommitsAreAtomic TombstonesArePermanent DeletingEmptiesContainer
SYMMETRY ClientSymmetry
CHECK_DEADLOCK FALSE
