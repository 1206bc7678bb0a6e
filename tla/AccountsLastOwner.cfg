SPECIFICATION Spec
CONSTANTS
  Handlers = {h1, h2}
  Users = {a, b}
  Sessions = {s1, s2}
  Roles = {"owner", "editor"}
  None = None
  Keep = Keep
  Modes = {FALSE}
SYMMETRY Symmetry
INVARIANTS OwnerRemains
