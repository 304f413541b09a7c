SPECIFICATION Spec
CONSTANTS
  Callers = {c1, c2}
  Entries = {e1, e2}
  MaxRecords = 3
  MaxLines = 1
  Null = Null
INVARIANTS
  ChainIntact
  NoFalseAlarm
  FileFollows
  LossExplained
PROPERTY
  LogImplemented
