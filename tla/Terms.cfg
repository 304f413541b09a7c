SPECIFICATION Spec
CONSTANTS
  Threads = {t1, t2}
  all = all
  refunds = refunds
  lookups = lookups
  oddp = oddp
  refund = refund
  lookup = lookup
  oddt = oddt
  Tools = {refund, lookup}
  Meters <- MCMeters
  Patterns <- MCPatterns
  Covers <- MCCovers
  OddPattern = oddp
  OddTool = oddt
  Openings <- MCOpenings
  Amendments <- MCAmendments
  MaxRequests = 4
  None = None
  Odd = Odd
  Null = Null
SYMMETRY Handlers
INVARIANTS
  CeilingsExplained
  
PROPERTIES
  CheckComplete
  RefusalStands
CHECK_DEADLOCK FALSE
