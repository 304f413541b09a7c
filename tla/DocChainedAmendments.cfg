SPECIFICATION Spec
CONSTANTS
  py = py
  ts = ts
  Clients = {py}
  TimingOut = {py}
  Attempts <- MCAttempts
  Kinds = {"open", "amend"}
  MaxOps = 2
  MaxFlights = 6
  MaxRestarts = 1
  Ceilings <- MCCeilings
  Null = Null
CHECK_DEADLOCK FALSE
INVARIANTS
  ChainedAmendments
