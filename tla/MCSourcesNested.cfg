SPECIFICATION Spec
CONSTANTS
  Nodes <- NestedNodes
  Entries <- NestedAllEntries
  Kind <- NestedKind
  Name <- NestedName
  Root = "."
  GoMod = "go.mod"
  Vendor = "vendor"
  Required <- NestedRequired
  Where <- NestedWhere
  GoModText <- NestedGoModText
  Env <- MCEnv
  OtherGoMods <- MCNoOtherGoMods
  NoDir = "nowhere"
  FirstParty = "first party"
  Disks <- NestedDisks
  MaxChanges = 0
INVARIANT ReportedOnce
