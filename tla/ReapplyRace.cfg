SPECIFICATION Spec
CONSTANTS
  Indices = {1, 2, 3, 4}
  Policies = {"p", "q"}
  Id = "p"
  Unmanaged = "none"
  Scope = {1, 2, 3}
  MaxAttempts = 2
  MaxMoves = 2
PROPERTIES
  ForeignIndexKeepsItsPolicy
