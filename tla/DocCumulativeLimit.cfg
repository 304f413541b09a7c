SPECIFICATION Spec
CONSTANTS
  Attempts = 3
  MaxFaults = 0
CHECK_DEADLOCK FALSE
INVARIANT
  LimitIsMaximum
