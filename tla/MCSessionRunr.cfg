SPECIFICATION FairSpec
CONSTANTS
  RingSlots = 3
  MaxOutput = 1
  MaxIdle = 0
  OutputKind = {"STDOUT"}
  Caller = {a}
  MaxCmd = 2
  Query = {}
  Collisions = FALSE
PROPERTIES
  SandboxedCallReturns
CHECK_DEADLOCK FALSE
