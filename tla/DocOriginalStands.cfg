SPECIFICATION Spec
CONSTANTS
  Threads = {t1}
  Sids = {s1}
  Objs = {o1, o2}
  Serial = TRUE
  MaxRequests = 2
  Commitments <- SerialCommitments
  Amendments <- AllAmendments
  Tools <- MCTools
  DeleteTool = "delete"
  Patterns <- MCPatterns
  Covers <- MCCovers
  Goals <- MCGoals
  Plans <- MCPlans
  Meters <- MCMeters
  TokensMeter = "tokens"
  Estimate <- MCEstimate
  Reports <- MCReports
  JudgeTokens <- MCJudgeTokens
  DefaultMaxCalls = 2
  DefaultLimits <- Uncapped
  Null = Null
INVARIANT
  OriginalStands
CHECK_DEADLOCK FALSE
