SPECIFICATION Spec
CONSTANTS
  Names = {"u", "v"}
  NoPath = NoPath
  Runbooks <- MCRunbooks
  Values <- MCValues
INVARIANTS
  SentReferencesAreSet
  SentPathKeepsItsShape
  BodiesAreClosed
  SummaryAccounts
PROPERTIES
  ImplementsRunContract
