SPECIFICATION LiveSpec
CONSTANTS
  Attempts = 3
  MaxFaults = 4
CHECK_DEADLOCK FALSE
INVARIANTS
  MetersTrue
  MoneyBounded
  RefusedNeverRuns
  ShowsWhatItShould
PROPERTIES
  WorkflowEnds
  SessionAdmits
