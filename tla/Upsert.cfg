SPECIFICATION Spec
CONSTANTS
  a = a
  b = b
  w1 = w1
  w2 = w2
  Writers = {w1, w2}
  Values = {a, b}
  Want <- MCWant
  Forced = {w2}
  SuccessWhen = {w2}
  RetryWhen = {w1}
  Defaulted = {b}
  NoDoc = NoDoc
  MaxAttempts = 2
  MaxSeq = 2
  MaxTerm = 2
INVARIANTS
  SuccessMeansStored
  ConflictsAreReal
PROPERTIES
  ReplacesOnlyWhatItRead
  NeverRewritesTheSame
CHECK_DEADLOCK FALSE
