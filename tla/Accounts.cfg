SPECIFICATION Spec
CONSTANTS
  Handlers = {h1, h2}
  Users = {a, b}
  Sessions = {s1, s2}
  Roles = {"owner", "editor"}
  None = None
  Keep = Keep
  Modes = {TRUE, FALSE}
SYMMETRY Symmetry
INVARIANTS SerialDisabledHasNoSession
PROPERTIES UndisturbedUpdateKeepsOwner
CHECK_DEADLOCK FALSE
