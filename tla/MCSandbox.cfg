SPECIFICATION FairSpec
CONSTANTS
  Dirs <- MCDirs
  Files <- MCFiles
  Leads <- MCLeads
  Setting <- MCSetting
  PipeSlots = 1
  MaxOut = 2
INVARIANTS
  CodeIsConfined
  DataIsReadable
  UnmarkedIsWhole
PROPERTIES
  WorkerComesBack
CHECK_DEADLOCK FALSE
