SPECIFICATION FairSpec
CONSTANTS
  MaxQuery = 2
  MaxReset = 1
  MaxSay = 1
  StreamCap = 2
  Collisions = TRUE
INVARIANTS
  SuggestionsArrive
  ResumeIsSafe
PROPERTIES
  QueryEnds
CHECK_DEADLOCK FALSE
