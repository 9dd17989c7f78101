SPECIFICATION FairSpec
CONSTANTS
  RingSlots = 3
  MaxOutput = 1
  MaxIdle = 0
  OutputKind = {"STDOUT"}
  Caller = {}
  MaxCmd = 3
  Query = {}
  Collisions = FALSE
PROPERTIES
  AwaitedResponseComes
CHECK_DEADLOCK FALSE
