SPECIFICATION Spec
CONSTANTS
  Entries <- MCEntries
  Pastes <- MCPastes
  Widths = {2}
  Labels = {1, 3}
  Indents = {0}
  MaxLine <- MCMaxLine
  MaxLines = 3
  MaxToken = 3
  MaxAsking = 1
  Answers = {"R"}
INVARIANTS
  Asserted
CHECK_DEADLOCK FALSE
