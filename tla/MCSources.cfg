SPECIFICATION FairSpec
CONSTANTS
  Nodes <- MCNodes
  Entries <- MCAllEntries
  Kind <- MCKind
  Name <- MCName
  Root = "."
  GoMod = "go.mod"
  Vendor = "vendor"
  Required <- MCRequired
  Where <- MCWhere
  GoModText <- MCGoModText
  Env <- MCEnv
  OtherGoMods <- MCOtherGoMods
  NoDir = "nowhere"
  FirstParty = "first party"
  Disks <- MCDisks
  MaxChanges = 2
INVARIANTS
  ReadMeansSearched
  AttributedToItsTree
  ReportedOnce
  VendorIsTheAnswer
  MissingWasAbsent
  FailureHasItsCause
  Bookkeeping
  RequirementsAnswered
PROPERTIES
  Terminates
  ImplementsCollection
