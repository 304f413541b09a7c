SPECIFICATION LiveSpec
CONSTANTS
  py = py
  ts = ts
  Clients = {py, ts}
  TimingOut = {py}
  Attempts <- MCAttempts
  Kinds = {"open", "call", "amend"}
  MaxOps = 2
  MaxFlights = 4
  MaxRestarts = 1
  Ceilings <- MCCeilings
  Null = Null
CHECK_DEADLOCK FALSE
PROPERTY
  OperationEnds
INVARIANTS
  ExecutedWithinCeiling
  ServedMeansExecuted
  AtMostPerAttempt
