------------------------------ MODULE Sources ------------------------------
(***************************************************************************)
(* The two source collectors, run one after the other as gather runs them  *)
(* for -deps: scan.Dir (internal/scan/gosource.go) and scan.Deps           *)
(* (internal/scan/modules.go), on a file system others are changing.       *)
(*                                                                         *)
(* filepath.WalkDir takes one step per entry, so a tree may lose or gain   *)
(* entries between reading a directory and reaching them, and between      *)
(* locating a module and walking it.  A path is a node of a tree whose     *)
(* shape is constant; what is present changes.  A source file is one       *)
(* finding: what File reads in it is another module's business.            *)
(***************************************************************************)
EXTENDS Lists, FiniteSets

CONSTANTS
  Nodes,       \* every file and directory there may be
  Entries,     \* what a directory may hold, in name order
  Kind,        \* what a node is
  Name,        \* what in its name decides whether a walk enters it
  Root,        \* the directory the command was given
  GoMod,       \* Root/go.mod
  Vendor,      \* Root/vendor
  Required,    \* the modules go.mod requires, in its order
  Where,       \* where each module's source may be
  NoDir,       \* Module.Dir = ""
  FirstParty,  \* Asset.Module = ""
  Disks,       \* what may be present when the run starts
  MaxChanges   \* bound: how often others change the file system

NodeKinds == {"dir", "link", "source", "malformed", "test", "other"}
NodeNames == {"plain", "vendor", "testdata", "hidden", "underscore"}
Modules == {Required[i] : i \in DOMAIN Required}

\* local is the directory that a replace directive names, where one names a
\* directory, whether or not there may be one; vendor and cache are looked up
\* under the path and version a replace directive left.
Place == [byDirectory : BOOLEAN, local : Nodes \cup {NoDir},
          vendor : Nodes \cup {NoDir}, cache : Nodes \cup {NoDir}]

ASSUME TreeAssumption ==
  /\ Entries \in [Nodes -> Seq(Nodes)]
  /\ Kind \in [Nodes -> NodeKinds]
  /\ Name \in [Nodes -> NodeNames]
  /\ {Root, GoMod, Vendor} \subseteq Nodes
  /\ NoDir \notin Nodes
ASSUME RequiredAssumption ==
  /\ Required \in Seq(Modules)
  /\ \A i, j \in DOMAIN Required : Required[i] = Required[j] => i = j
  /\ Where \in [Modules -> Place]
  /\ FirstParty \notin Modules
ASSUME DisksAssumption == Disks \subseteq SUBSET Nodes
ASSUME MaxChangesAssumption == MaxChanges \in Nat

VARIABLES
  disk,      \* the nodes that are present
  touched,   \* history: the nodes that came or went
  changes,   \* how often that happened
  pc,        \* what the run is at
  todo,      \* the entries the walk has still to visit, the next one first
  vendored,  \* a vendor directory was seen
  located,   \* Module.Dir of the modules located so far
  at,        \* the module whose turn it is
  found,     \* the findings, with the module each is attributed to
  read,      \* DepScan.Read
  missing    \* DepScan.Missing

world == <<disk, touched, changes>>
vars == <<disk, touched, changes, pc, todo, vendored, located, at, found, read, missing>>

-----------------------------------------------------------------------------
\* The tree.

Children(n) ==
  IF Kind[n] = "dir" THEN {Entries[n][i] : i \in DOMAIN Entries[n]} ELSE {}

\* What a link stands for is its one entry.
Target(n) == IF n # NoDir /\ Kind[n] = "link" THEN Entries[n][1] ELSE n

\* n and what is below it.
Subtree ==
  LET tree[n \in Nodes] == {n} \cup UNION {tree[c] : c \in Children(n)}
  IN [n \in Nodes |-> tree[n]]

Under(n) == IF n = NoDir THEN {} ELSE Subtree[n]

\* A path has one parent and no directory is below itself; Root/vendor is below
\* Root, and no Go file.
ASSUME PathsAssumption ==
  /\ IsFiniteSet(Nodes)
  /\ \A d, e \in Nodes : Children(d) \cap Children(e) # {} => d = e
  /\ \A n \in Nodes : \A c \in Children(n) : n \notin Subtree[c]
  /\ Root \notin Subtree[Vendor]
  /\ Name[Vendor] = "vendor" /\ Kind[Vendor] \in {"dir", "link", "other"}

\* os.Stat follows a link.
isDir(n) == n \in disk /\ Target(n) \in disk /\ Kind[Target(n)] = "dir"

\* The directory whose walk is under way.
Top == IF pc = "dir" THEN Root ELSE located[at]

Walking == pc \in {"dir", "walk"} /\ todo # << >>

\* A bug: only dot-directories are left out.
SkippedHidden == {"hidden"}

\* The directories a walk does not enter, its root excepted.
SkippedNames ==
  IF pc = "dir" THEN {"vendor", "hidden"}
  ELSE {"vendor", "testdata", "hidden", "underscore"}

Skipped(n) == Kind[n] = "dir" /\ n # Top /\ Name[n] \in SkippedNames
Entered(n) == Kind[n] = "dir" /\ ~Skipped(n)

\* The files a walk hands to File: .go files, without a dependency's tests.
GoFile(n) ==
  Kind[n] \in {"source", "malformed"} \cup (IF pc = "dir" THEN {"test"} ELSE {})

Present(n) == n \in disk

-----------------------------------------------------------------------------
\* filepath.WalkDir with the two callbacks.

Fail ==
  /\ pc' = "failed"
  /\ UNCHANGED <<world, todo, vendored, located, at, found, read, missing>>

Step(rest) ==
  /\ todo' = rest
  /\ UNCHANGED <<world, pc, vendored, located, at, found, read, missing>>

\* A bug: the walk stays at an entry it has nothing to do with.
PassOverInPlace ==
  /\ Walking
  /\ ~Entered(Head(todo)) /\ ~GoFile(Head(todo))
  /\ Step(todo)

\* fs.SkipDir, or a file that is no Go source.  A root that is neither a
\* directory nor a Go file ends its walk here, without an error.
PassOver ==
  /\ Walking
  /\ ~Entered(Head(todo)) /\ ~GoFile(Head(todo))
  /\ Head(todo) = Top => Present(Head(todo))
  /\ Step(Tail(todo))

\* A bug: what stood after the directory is not returned to.
EnterDirForGood ==
  /\ Walking
  /\ Entered(Head(todo))
  /\ Present(Head(todo))
  /\ Step(Only(Entries[Head(todo)], disk))

EnterDir ==
  /\ Walking
  /\ Entered(Head(todo))
  /\ Present(Head(todo))
  /\ Step(Only(Entries[Head(todo)], disk) \o Tail(todo))

\* The directory went away between being listed and being read, or the root
\* of the walk is not there at all: the callback returns the error.
DirGone ==
  /\ Walking
  /\ Entered(Head(todo)) \/ Head(todo) = Top
  /\ ~Present(Head(todo))
  /\ Fail

ReadFile ==
  /\ Walking
  /\ GoFile(Head(todo))
  /\ Present(Head(todo))
  /\ Kind[Head(todo)] # "malformed"
  /\ found' = found \cup
       {[file |-> Head(todo),
         module |-> IF pc = "dir" THEN FirstParty ELSE Required[at]]}
  /\ todo' = Tail(todo)
  /\ UNCHANGED <<world, pc, vendored, located, at, read, missing>>

\* A bug: a file that does not parse fails the run, whoever wrote it.
ReadFileFailsAlways ==
  /\ Walking
  /\ GoFile(Head(todo))
  /\ ~Present(Head(todo)) \/ Kind[Head(todo)] = "malformed"
  /\ Fail

\* A file that does not parse or is gone fails first-party code and is
\* skipped in somebody else's.
ReadFileFails ==
  /\ Walking
  /\ GoFile(Head(todo))
  /\ Head(todo) = Top => Present(Head(todo))
  /\ ~Present(Head(todo)) \/ Kind[Head(todo)] = "malformed"
  /\ IF pc = "dir" THEN Fail ELSE Step(Tail(todo))

DirDone ==
  /\ pc = "dir" /\ todo = << >>
  /\ pc' = "gomod"
  /\ UNCHANGED <<world, todo, vendored, located, at, found, read, missing>>

-----------------------------------------------------------------------------
\* Modules: go.mod, the vendor directory, then each module in turn.

ReadGoMod ==
  /\ pc = "gomod"
  /\ Present(GoMod)
  /\ vendored' = isDir(Vendor)
  /\ pc' = "locate"
  /\ UNCHANGED <<world, todo, located, at, found, read, missing>>

ReadGoModFails == pc = "gomod" /\ ~Present(GoMod) /\ Fail

\* A bug: a replace directive that names a directory is not followed.
LocateWithoutReplace(m) ==
  LET dir == IF vendored THEN Where[m].vendor ELSE Where[m].cache
  IN IF isDir(dir) THEN dir ELSE NoDir

\* A bug: the module cache is consulted beside the vendor directory.
LocateBesideVendor(m) ==
  LET place == Where[m]
      dir == CASE place.byDirectory -> place.local
               [] ~place.byDirectory /\ isDir(place.vendor) -> place.vendor
               [] OTHER -> place.cache
  IN IF isDir(dir) THEN dir ELSE NoDir

\* replacementFor and locate.
Locate(m) ==
  LET place == Where[m]
      dir == CASE place.byDirectory -> place.local
               [] ~place.byDirectory /\ vendored -> place.vendor
               [] OTHER -> place.cache
  IN IF isDir(dir) THEN dir ELSE NoDir

LocateModule ==
  /\ pc = "locate"
  /\ Len(located) < Len(Required)
  /\ located' = Append(located, Locate(Required[Len(located) + 1]))
  /\ UNCHANGED <<world, pc, todo, vendored, at, found, read, missing>>

AllLocated ==
  /\ pc = "locate"
  /\ Len(located) = Len(Required)
  /\ pc' = "next"
  /\ UNCHANGED <<world, todo, vendored, located, at, found, read, missing>>

-----------------------------------------------------------------------------
\* Deps: one module after the other.

\* A bug: a module with no source on disk is passed over.
NameMissingSilently ==
  /\ pc = "next"
  /\ at <= Len(Required)
  /\ located[at] = NoDir
  /\ at' = at + 1
  /\ UNCHANGED <<world, pc, todo, vendored, located, found, read, missing>>

NameMissing ==
  /\ pc = "next"
  /\ at <= Len(Required)
  /\ located[at] = NoDir
  /\ missing' = missing \cup {Required[at]}
  /\ at' = at + 1
  /\ UNCHANGED <<world, pc, todo, vendored, located, found, read>>

StartModule ==
  /\ pc = "next"
  /\ at <= Len(Required)
  /\ located[at] # NoDir
  /\ todo' = <<located[at]>>
  /\ pc' = "walk"
  /\ UNCHANGED <<world, vendored, located, at, found, read, missing>>

ModuleDone ==
  /\ pc = "walk" /\ todo = << >>
  /\ read' = read \cup {Required[at]}
  /\ at' = at + 1
  /\ pc' = "next"
  /\ UNCHANGED <<world, todo, vendored, located, found, missing>>

Return ==
  /\ pc = "next"
  /\ at > Len(Required)
  /\ pc' = "done"
  /\ UNCHANGED <<world, todo, vendored, located, at, found, read, missing>>

-----------------------------------------------------------------------------
\* Others: go mod download, go clean -modcache, a checkout, an editor.

Change(ns) ==
  /\ pc \notin {"done", "failed"}
  /\ changes < MaxChanges
  /\ changes' = changes + 1
  /\ touched' = touched \cup ns
  /\ UNCHANGED <<pc, todo, vendored, located, at, found, read, missing>>

Remove ==
  \E n \in disk :
    /\ disk' = disk \ Under(n)
    /\ Change(Under(n))

\* A tree appears whole, under a directory that is there.
Appear ==
  \E n \in Nodes \ disk :
    /\ \A parent \in Nodes : n \in Children(parent) => parent \in disk
    /\ disk' = disk \cup Under(n)
    /\ Change(Under(n))

Ended == pc \in {"done", "failed"} /\ UNCHANGED vars

-----------------------------------------------------------------------------
Init ==
  /\ disk \in Disks
  /\ touched = {}
  /\ changes = 0
  /\ pc = "dir"
  /\ todo = <<Root>>
  /\ vendored = FALSE
  /\ located = << >>
  /\ at = 1
  /\ found = {}
  /\ read = {}
  /\ missing = {}

Collect ==
  \/ PassOver \/ EnterDir \/ DirGone \/ ReadFile \/ ReadFileFails \/ DirDone
  \/ ReadGoMod \/ ReadGoModFails \/ LocateModule \/ AllLocated
  \/ NameMissing \/ StartModule \/ ModuleDone \/ Return

Next == Collect \/ Remove \/ Appear \/ Ended

Spec == Init /\ [][Next]_vars

\* The program runs on; nobody has to change anything.
FairSpec == Spec /\ WF_vars(Collect)

-----------------------------------------------------------------------------
\* Properties.

TypeOK ==
  /\ disk \subseteq Nodes
  /\ touched \subseteq Nodes
  /\ changes \in 0..MaxChanges
  /\ pc \in {"dir", "gomod", "locate", "next", "walk", "done", "failed"}
  /\ vendored \in BOOLEAN
  /\ located \in Seq(Nodes \cup {NoDir})
  /\ at \in 1..(Len(Required) + 1)
  /\ found \subseteq [file : Nodes, module : Modules \cup {FirstParty}]
  /\ read \subseteq Modules
  /\ missing \subseteq Modules

DirOf(m) == located[CHOOSE i \in DOMAIN Required : Required[i] = m]

\* What a walk of top that does not enter directories with one of the names
\* may come to, and the source files among it.
Shown(top, names) ==
  {n \in Under(top) :
     \A d \in Under(top) \ {top} : n \in Under(d) /\ d # n => Name[d] \notin names}
Below(top, names) == {f \in Shown(top, names) : Kind[f] = "source"}

\* Nobody came near f or a directory on the way to it while the run lasted.
Undisturbed(top, f) ==
  \A d \in Under(top) : f \in Under(d) => d \in disk \ touched

DependencySkips == {"vendor", "testdata", "hidden", "underscore"}

\* A module that is counted as read was searched (modules.go:43-45), and so
\* was the directory itself: every source file that was there throughout is
\* among the findings, whatever others changed elsewhere in the tree.
ReadMeansSearched ==
  pc = "done" =>
    /\ \A f \in Below(Target(Root), {"vendor", "hidden"}) :
         Undisturbed(Target(Root), f) => [file |-> f, module |-> FirstParty] \in found
    /\ \A m \in read : \A f \in Below(Target(DirOf(m)), DependencySkips) :
         Undisturbed(Target(DirOf(m)), f) => [file |-> f, module |-> m] \in found

\* A walk stays in its tree, a finding is attributed to the module in whose
\* tree it stands, and nothing a consumer never links is counted: first-party
\* findings come from outside vendor, a module's from outside its tests,
\* testdata and vendor.
AttributedToItsTree ==
  /\ pc \in {"dir", "walk"} => todo \in Seq(Under(Top))
  /\ \A finding \in found :
       IF finding.module = FirstParty
       THEN finding.file \in Under(Root) \ Under(Vendor)
       ELSE finding.file \in Below(DirOf(finding.module), DependencySkips)

PlacesOf(m) == {Where[m].local, Where[m].vendor, Where[m].cache}

\* No module's tree meets another's, nor the part of Root that is walked.
TreesApart ==
  \A m \in Modules : \A p \in PlacesOf(m) :
    /\ Under(p) \cap Under(Root) \subseteq Under(Vendor)
    /\ \A other \in Modules \ {m} : \A q \in PlacesOf(other) : Under(p) \cap Under(q) = {}

\* No replace directive, vendor directory or cache entry is a link or a file.
PlacesAreDirectories ==
  \A m \in Modules : \A n \in PlacesOf(m) : n = NoDir \/ Kind[n] = "dir"

\* Each finding is attributed to the module that introduced it
\* (modules.go:49-51): no file is reported for two of them.
ReportedOnce ==
  \A one, other \in found : one.file = other.file => one = other

\* A vendor directory is the build's answer (modules.go:166-167): where one is
\* there throughout, no finding comes from the module cache.
VendorIsTheAnswer ==
  (pc = "done" /\ isDir(Vendor) /\ {Vendor, Target(Vendor)} \cap touched = {}) =>
    \A finding \in found :
      finding.module # FirstParty =>
        finding.file \in Under(Where[finding.module].local)
                       \cup Under(Where[finding.module].vendor)

\* Somebody else's broken file never fails the inventory: the run fails only
\* for what is wrong in the directory itself, or for what others took away
\* while it lasted.
FailureHasItsCause ==
  pc = "failed" =>
    \/ touched # {}
    \/ GoMod \notin disk
    \/ Root \notin disk
    \/ \E f \in Under(Root) \ Under(Vendor) : f \in disk /\ Kind[f] = "malformed"

\* Every module before the current one is read or missing, and not both.
Accounted ==
  /\ read \cup missing = {Required[i] : i \in 1..(at - 1)}
  /\ read \cap missing = {}

\* A dependency's findings come from the modules read, or from the one whose
\* walk is under way, and every module has its turn.
Counted ==
  /\ Accounted
  /\ pc \in {"dir", "gomod", "locate"} => at = 1
  /\ pc = "walk" => at <= Len(Required)
  /\ pc = "done" => at = Len(Required) + 1
  /\ \A finding \in found :
       \/ finding.module \in read \cup {FirstParty}
       \/ pc \in {"walk", "failed"} /\ at <= Len(Required)
            /\ finding.module = Required[at]

\* The inductive invariant: the state is well typed, and no module is counted
\* twice or passed over.
Bookkeeping == TypeOK /\ Counted

\* Every run ends: a walk visits finitely many entries, whatever changes.
Terminates == <>(pc \in {"done", "failed"})

Returned(s) == IF pc = "done" THEN s ELSE {}

\* The two collectors seen from gather.
Promise ==
  INSTANCE Collection WITH
    Required <- Modules,
    status <- CASE pc = "done" -> "returned"
                [] pc = "failed" -> "failed"
                [] OTHER -> "collecting",
    read <- Returned(read),
    missing <- Returned(missing),
    attributed <- Returned({finding.module : finding \in found})

\* Every run returns once, with every module accounted for, or fails.
ImplementsCollection == Promise!Spec
=============================================================================
