SPECIFICATION Spec
CONSTANTS
  MaxQuery = 2
  MaxReset = 1
  MaxSay = 0
  StreamCap = 2
  Collisions = FALSE
INVARIANTS
  ResumeOnlyCreated
CHECK_DEADLOCK FALSE
