SPECIFICATION Spec
CONSTANTS
  Calls <- MCCalls
  Effect <- MCEffect
  Estimate <- MCEstimate
  Charges <- MCCharges
  Rules <- MCRules
  MaxCost = 9
  MaxCalls = 5
  InvokeAt = 5000
  Sampling = {FALSE, TRUE}
  Judge = "llm"
  FailOpen = FALSE
  GoalDeletes = TRUE
  MaxDecisions = 4
  Null = Null
CHECK_DEADLOCK FALSE
INVARIANTS
  JudgedOnce
  FailsSafe
  CountsServed
  LoopsJudged
  TriggerTrue
