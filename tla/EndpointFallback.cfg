SPECIFICATION Spec
CONSTANTS
  MaxInt = 127
  Kilo = 4
  Unset = Unset
  Empty = Empty
  Malformed = Malformed
  BadFile = BadFile
  NoRequest = NoRequest
  NoExit = NoExit
  DefaultEndpoint <- MCDefaultEndpoint
  DefaultSize <- MCDefaultSize
  Fold <- MCFold
  Inputs <- MCInputs
  Targets <- MCTargets
  Typed = {Empty, "typed"}
  MaxAttempts = 2
  MaxHops = 2
INVARIANT FallsBackOnlyUnset
