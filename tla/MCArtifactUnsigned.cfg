SPECIFICATION Spec
CONSTANTS
  Inputs <- MCEndpoints
  Address = "example.com:443"
  Depth = 6
INVARIANTS
  SignedMeansSigned
