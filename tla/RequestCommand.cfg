SPECIFICATION FairCommandSpec
CONSTANTS
  IntMax <- MCIntMax
  Configs <- MCConfigs
  Responses <- MCResponses
  Errors = {"transport", "timeout"}
  NoResp = NoResp
  NoExit = NoExit
  MaxAttempts = 2
INVARIANTS
  StdoutIsTheBody
  ExitCodeTellsHow
PROPERTY InterruptEndsTheCommand
