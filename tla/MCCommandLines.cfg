SPECIFICATION FairSpec
CONSTANTS
  md5 = md5
  novel = novel
  aes128 = aes128
  mlkem = mlkem
  modA = modA
  modB = modB
  Findings <- MCFindings
  Verdict <- MCVerdict
  Modules <- MCOneModule
  CommandLines <- MCAnyLine
  MaxFindings = 1
  Fillable = {"file"}
PROPERTIES
  PolicyBeforeWalk
  Terminates
  ImplementsInventory
