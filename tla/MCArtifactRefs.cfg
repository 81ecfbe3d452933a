SPECIFICATION Spec
CONSTANTS
  Inputs <- MCTwiceOnly
  Address = "example.com:443"
  Depth = 6
INVARIANTS
  ReferencesAreUnique
