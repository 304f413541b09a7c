SPECIFICATION Spec
CONSTANTS
  Threads = {t1, t2}
  Sids = {s1}
  Objs = {o1, o2}
  Serial = TRUE
  MaxRequests = 4
  Commitments <- SerialCommitments
  Amendments <- AllAmendments
  Tools <- MCTools
  DeleteTool = "delete"
  Patterns <- MCPatterns
  Covers <- MCCovers
  Goals <- MCGoals
  Plans <- MCPlans
  Meters <- MCMeters
  TokensMeter = "tokens"
  Estimate <- MCEstimate
  Reports <- MCReports
  JudgeTokens <- MCJudgeTokens
  DefaultMaxCalls = 2
  DefaultLimits <- Uncapped
  Null = Null
SYMMETRY Handlers
INVARIANTS
  TypeOK
  CallCeiling
  BoundedOvershoot
  LedgerExact
  AcceptedDigest
  CacheFresh
PROPERTY
  AdmissionImplemented
CHECK_DEADLOCK FALSE
