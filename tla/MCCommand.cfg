SPECIFICATION Spec
CONSTANTS
  md5 = md5
  novel = novel
  aes128 = aes128
  mlkem = mlkem
  modA = modA
  modB = modB
  Findings <- MCFindings
  Verdict <- MCVerdict
  Modules <- MCModules
  CommandLines <- MCWellFormed
  MaxFindings = 1
  Fillable = {"stdout", "stderr", "file"}
INVARIANTS
  GateAgreesWithReader
  NothingDropped
  ModulesAccountedFor
  DocumentUnmixed
  VerdictIffTripped
  FailureIsNotAnInventory
  EarlierDocumentStands
  IInv
