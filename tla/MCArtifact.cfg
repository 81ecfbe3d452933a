SPECIFICATION Spec
CONSTANTS
  Inputs <- MCInputs
  Address = "example.com:443"
  Depth = 6
INVARIANTS
  EveryUseOnce
  SizesAreStated
  GapsAreUnknown
  KeyExchangeAgreesWithVerdict
  ConfiguredIsNegotiated
  LevelsAgreeWithVerdict
  ReferencesTellApart
  DecisionsFirst
