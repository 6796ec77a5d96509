SPECIFICATION Spec
CONSTANTS
  Root = Root
  Handoffs = {h1, h2}
  Modes = {"stop-tool-loop", "single-turn"}
  MaxTurns = 2
  Artifacts = 1
  Faults = {"policy", "session", "submit", "pi", "stop", "store"}
  MaxPi <- PiBound
  h1 = h1
  h2 = h2
INVARIANTS
  EndsClean
  StopDecides
  HandoffsTold

  
CHECK_DEADLOCK FALSE
