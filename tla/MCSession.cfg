SPECIFICATION Spec
CONSTANTS
  RingSlots = 1
  MaxOutput = 1
  MaxIdle = 0
  OutputKind = {"STDOUT"}
  Caller = {}
  MaxCmd = 3
  Query = {q}
  Collisions = TRUE
INVARIANTS
  TypeOK
  BusyInStep
  RingKeepsRequests
  OnlyBackgroundHidden
  DoneMeansIdle
  GatesInStep
  NobodyWaitsUnasked
  LogIsHonest
  InterruptsAreFresh
PROPERTIES
  ImplementsExecutor
CHECK_DEADLOCK FALSE
