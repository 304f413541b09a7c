SPECIFICATION Spec
CONSTANTS
  Threads = {t1, t2}
  Sids = {s1}
  Objs = {o1, o2}
  Serial = FALSE
  MaxRequests = 3
  Commitments <- ThreadedCommitments
  Amendments <- OneAmendment
  Tools <- MCTools
  DeleteTool = "delete"
  Patterns <- MCPatterns
  Covers <- MCCovers
  Goals <- MCGoals
  Plans <- MCPlans
  Meters <- MCMeters
  TokensMeter = "tokens"
  Estimate <- MCEstimate
  Reports <- MCReports
  JudgeTokens = {1}
  DefaultMaxCalls = 2
  DefaultLimits <- Uncapped
  Null = Null
PROPERTY
  Answered
INVARIANTS
  NeverOvercharged
  ResultsPaired
CHECK_DEADLOCK FALSE
