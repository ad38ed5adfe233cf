SPECIFICATION FairSpec
CONSTANTS
  IntMax <- MCIntMax
  Configs <- MCConfigs
  Responses <- MCResponses
  Errors = {"transport", "timeout"}
  NoResp = NoResp
  MaxAttempts = 3
INVARIANTS
  BudgetIsExact
  BodyOwnership
  AbandonedOnlyOverCap
  ResultNamesDecidingRule
  InterruptIsNotMasked
PROPERTIES
  ImplementsContract
  EndedContextReturns
  FiniteBudgetReturns
