SPECIFICATION FairSpec
CONSTANTS
  Producer = {r}
  Consumer = {ui}
  NoThread = NoThread
  Capacity = 8
  OutCap = 4
  MaxDropped = 2
  Frame <- FewFrames
INVARIANTS
  TypeOK
  Layout
  ShouldntHappen
PROPERTIES
  DropsOnlyForRoom
  ImplementsFrameQueue
  LockIsReleased
