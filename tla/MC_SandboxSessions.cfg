SPECIFICATION Spec
CONSTANTS
  Calls = {c1, c2, c3}
  a = a
  h = h
  Ids = {a}
  None = None
  Thrown = Thrown
  Configured <- NoPolicy
  Requests <- AllowlistRequests
  Faults = {"prepare", "staging", "output", "network", "proxy", "create", "exec", "copy"}
  MaxLog = 1
SYMMETRY Symmetry
INVARIANTS
  ContainersAccounted
  SessionKeepsNetwork
  InterruptClearsSession
  
CHECK_DEADLOCK FALSE
