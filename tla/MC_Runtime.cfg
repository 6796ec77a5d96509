SPECIFICATION PartsSpec
CONSTANTS
  Ids = {p1, p2, p3}
  PluginCount = 2
  Runs = {r1, r2}
  Streams = {r2}
  Stops = {c1, c2}
  MayThrow = {2}
  Unprintable = {r2}
  j1 = j1
  j2 = j2
  w1 = w1
  None = None
  Closer = Closer
INVARIANTS
  OrderCorrect
  CycleIsReal
  StartupSound
  EventsTellOutcome
PROPERTIES
  CallsSettle
  EverythingSettles
CHECK_DEADLOCK FALSE
