SPECIFICATION Spec
CONSTANTS
  y = y
  a1 = a1
  a2 = a2
  a3 = a3
  k1 = k1
  q1 = q1
  q2 = q2
  c = c
  p1 = p1
  p2 = p2
  i = i
  s = s
  SyncRuns = {y}
  AsyncRuns = {a1, a2, a3}
  Children = {k1}
  Meddling = {a1, y}
  Refused = {a3}
  Asks = {a1, a2}
  Questions = {q1, q2}
  Clients = {c}
  HistoryLimit = 2
  Starts = {0, 2}
  MaxEvents = 3
  Posts = {p1, p2}
  Interrupts = {i}
  Streams = {s}
  MaxCrashes = 1
INVARIANTS
  
  QuestionsTold
  ThreadTold
PROPERTIES
  PromisesSettle
  TimedOutInTheEnd
  InterruptionReaches
CHECK_DEADLOCK FALSE
