SPECIFICATION Spec
CONSTANT Inventories <- MCInventories
INVARIANTS
  NothingLeftOut
  RankedIsWhatCanTrip
  WorseIsNeverBelow
  ListingsCanBeDiffed
  PlanInv
