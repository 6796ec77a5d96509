SPECIFICATION Spec
CONSTANTS
  Emits = {e1, e2}
  Subs = {s1, s2}
  GivenSequences = {0}
  Froms = {0}
  Throwing = {}
  Limits = {NoLimit}
  NoLimit = NoLimit
INVARIANTS
  SameOrderForAll
CHECK_DEADLOCK FALSE
