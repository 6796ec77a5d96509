SPECIFICATION DelegationSpec
CONSTANTS
  Ids = {s1, s2, s3, s4}
  NoSession = NoSession
  CallerReasons = {}
  NoReason = NoReason
  MaxRequests = 2
SYMMETRY Symmetry
INVARIANTS
  TreeSound
  RecordsTrue
  DelegationResolves
PROPERTIES
  EndsAreExact
CHECK_DEADLOCK FALSE
