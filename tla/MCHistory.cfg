SPECIFICATION Spec
CONSTANTS
  Draft <- MCDraft
  Query <- MCQuery
  MaxHistory = 2
  MaxMatches = 2
  MaxRows = 3
  MaxSession = 2
INVARIANTS
  TypeOK
  OneRowIsOpen
  MemoryIsTable
  DownUndoesUp
  SearchIsExact
PROPERTIES
  RecallSurvivesRestart
CHECK_DEADLOCK FALSE
