SPECIFICATION Spec
CONSTANTS
  IntMax <- MCIntMax
  Configs <- MCConfigs
  Responses <- MCResponses
  Errors = {"transport", "timeout"}
  NoResp = NoResp
  MaxAttempts = 3
INVARIANTS
  TimeoutIsRetried
