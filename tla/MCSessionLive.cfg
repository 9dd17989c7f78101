SPECIFICATION FairSpec
CONSTANTS
  RingSlots = 2
  MaxOutput = 1
  MaxIdle = 1
  OutputKind = {"IMAGE"}
  Caller = {a}
  MaxCmd = 2
  Query = {}
  Collisions = FALSE
INVARIANTS
  RingKeepsRequests
PROPERTIES
  EveryCommandEnds
  PassthroughEnds
  QuitEnds
CHECK_DEADLOCK FALSE
