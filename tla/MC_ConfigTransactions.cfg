SPECIFICATION Spec
CONSTANTS
  Calls = {c1, c2}
  framework = framework
  agent = agent
  old = old
  new = new
  bad = bad
  k = k
  FileOrder <- Order
  Places <- InPlaces
  Framework = framework
  Contents = {old, new, bad}
  Rejected = {bad}
  Starting = {old}
  Requests <- MCRequests
  Callers = {"serial", "free"}
  MaxFaults = 1
  Invalid = Invalid
  Absent = Absent
  Torn = Torn
  None = None
SYMMETRY Symmetry
INVARIANTS
  
  RetriesApplyOnce
PROPERTIES
  RollbackRestores
  
CHECK_DEADLOCK FALSE
