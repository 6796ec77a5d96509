SPECIFICATION Spec
CONSTANTS
  Rejected = Rejected
  Thrown = Thrown
  WrongType = WrongType
INVARIANTS
  ToolRulesAgree
  WorkRulesAgree
  
  EvidenceRulesAgree
  
  StoredRulesAgree
  ConfigRulesAgree
CHECK_DEADLOCK FALSE
