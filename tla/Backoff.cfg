SPECIFICATION Spec
CONSTANTS
  MaxDuration = 63
  Den = 10
  MaxFraction = 9
  Precision = 50
  Settings <- MCSettings
  Samples <- MCSamples
  MaxAttempts = 8
INVARIANTS
  BaseIsSaturatedReference
  DelayIsCapped
  JitterStaysInWindow
