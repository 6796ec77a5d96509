SPECIFICATION Spec
CONSTANTS
  Calls = {c1, c2}
  a = a
  h = h
  Ids = {a}
  None = None
  Thrown = Thrown
  Configured <- NoPolicy
  Requests <- DefaultRequests
  Faults = {}
  MaxLog = 1
SYMMETRY Symmetry
INVARIANT NothingLeft
CHECK_DEADLOCK FALSE
