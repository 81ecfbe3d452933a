SPECIFICATION Spec
CONSTANTS
  md5 = md5
  novel = novel
  aes128 = aes128
  mlkem = mlkem
  modA = modA
  modB = modB
  Findings <- MCBroken
  Verdict <- MCVerdict
  Modules <- MCOneModule
  CommandLines <- MCWellFormed
  MaxFindings = 1
  Fillable = {"stdout"}
INVARIANT TripHasItsReason
