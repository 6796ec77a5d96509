SPECIFICATION Spec
CONSTANTS
  Emits = {e1, e2, e3}
  Subs = {s1, s2, s3}
  GivenSequences = {0, 3}
  Froms = {0, 2}
  Throwing = {s3}
  Limits = {2, NoLimit}
  NoLimit = NoLimit
SYMMETRY Symmetry
INVARIANTS
  EventsReach
  InOrderWhenAwaited
CHECK_DEADLOCK FALSE
