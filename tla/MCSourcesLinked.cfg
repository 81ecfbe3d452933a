SPECIFICATION Spec
CONSTANTS
  Nodes <- LinkedNodes
  Entries <- LinkedAllEntries
  Kind <- LinkedKind
  Name <- LinkedName
  Root = "."
  GoMod = "go.mod"
  Vendor = "vendor"
  Required <- LinkedRequired
  Where <- LinkedWhere
  GoModText <- LinkedGoModText
  Env <- MCEnv
  OtherGoMods <- MCNoOtherGoMods
  NoDir = "nowhere"
  FirstParty = "first party"
  Disks <- LinkedDisks
  MaxChanges = 0
INVARIANT ReadMeansSearched
