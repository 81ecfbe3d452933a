SPECIFICATION Spec
CONSTANTS
  Nodes <- ReplacedNodes
  Entries <- ReplacedAllEntries
  Kind <- ReplacedKind
  Name <- ReplacedName
  Root = "."
  GoMod = "go.mod"
  Vendor = "vendor"
  Required <- ReplacedRequired
  Where <- ReplacedWhere
  GoModText <- ReplacedGoModText
  Env <- MCEnv
  OtherGoMods <- MCNoOtherGoMods
  NoDir = "nowhere"
  FirstParty = "first party"
  Disks <- ReplacedDisks
  MaxChanges = 0
INVARIANT MissingWasAbsent
