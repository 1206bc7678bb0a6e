SPECIFICATION Spec
CONSTANTS
  Clients = {u1, u2}
  Containers = {c1}
  Items = {i1}
  Assets = {a1}
  Vals = {v1, v2}
  None = None
  Keep = Keep
  Overlap = FALSE
  MaxRev = 3
INVARIANTS TypeOK NoDanglingItem
PROPERTIES KeepsPromise
SYMMETRY ClientSymmetry
CHECK_DEADLOCK FALSE
