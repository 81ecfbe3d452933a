SPECIFICATION Spec
CONSTANTS
  Names <- MCNames
  KeySizes <- MCKeySizes
  Table <- classificationTable
INVARIANTS
  LongestFamilyWins
  CitesWhatItJudged
  HybridIsNotItsHalves
  VersionsAreNotAlgorithms
  SizesAreNotGuessed
  ScanInv
