SPECIFICATION FairCommandSpec
CONSTANTS
  Absent = Absent
  NoPath = NoPath
  NoExit = NoExit
  Names = {"u", "v"}
  CallNames = {"a", "b", "c"}
  QueryKeys = {"q", "r"}
  Spellings = {"type", "Type"}
  Canonical <- MCCanonical
  Codes = {404}
  Texts <- MCTexts
  Values <- MCValues
  Runbooks = {}
  Documents <- MCDocuments
  Executed <- MCExecuted
INVARIANTS
  LoadedIsClosed
  RejectedForAReason
  ParametersDoNotLeak
  OnlyLoadedCallsAreSent
  ExitCodeTellsHow
PROPERTY InterruptEndsTheCommand
