# A verification development of cbomscope

cbomscope inventories the cryptography of Go programs: it reads source, the source
of every module `go.mod` requires, and what a TLS endpoint negotiates; it gives each
finding a posture; it prints tables, JSON and CycloneDX documents; and its exit code
is a gate for CI. This directory holds TLA+ models of it, TLC configurations that
check them on small instances, and TLAPS proofs for every instance.

Paths and line numbers are those of the repository's `cmd/cbomscope` and `internal`.

## 1. Inventory of the system

The program is one sequential process per invocation. It keeps nothing between
invocations except the file of `cbom -o`. What moves around it is the world: the file
system it walks, the endpoint it calls, the devices it writes to, and signals.

| component | state | operations | interacts with |
|---|---|---|---|
| **command** `main.go` | findings, unread modules, judged assets, three streams, exit code | `run`, `gather`, `cmdScan/Probe/Plan/CBOM/Table`, `reportUnread`, `gate` | calls every other component |
| **gate** `main.go:475-559` | none | `parseGate`, `tripped` | read by the command only |
| **vocabulary** `internal/asset` | none | kinds, primitives, modes, postures | shared by all |
| **source collectors** `scan.Dir`, `scan.Deps` | the walk, `DepScan.Read/Missing/Assets` | `WalkDir` callbacks, `Modules`, `locate` | the file system |
| **source reading** `scan.File` | the findings of one file | `callAsset`, `tlsConfig`, `enrich` | Go's parser |
| **go.mod reading** `modules.go:240-308` | none | `parseGoMod`, `parseReplace`, `escape`, `moduleCache` | the collectors |
| **probe** `internal/probe` | none | `Endpoint`, `fromState` and its readers | a TLS endpoint, a deadline |
| **classifier** `internal/classify` | none (a table) | `Lookup`, `judge`, the size rules | every finding passes through it |
| **ranking** `internal/plan` | none | `Build` | `plan` |
| **document** `internal/cbom` | none | `Build`, `Encode` | `cbom` |
| **printed table** `main.go:347-392` | none | `report` | `scan`, `probe` |

What is hard, and what makes each part correct:

* **command.** Five commands, six flags, three sinks and several ways of failing
  share `gather`, `gate` and two note writers. Correct means: the exit code is the
  one the inventory a reader holds implies; nothing a collector returned is lost;
  a document is never mixed with notes; a failed run hands over nothing; an earlier
  document is not destroyed by a run that never had one to put there; a policy that
  cannot be read is refused before a walk; every run ends, a silent endpoint included.
* **source collectors.** Two walks with different skip rules and different error
  policies, over a file system that `go mod download`, `go clean -modcache` or an
  editor may change between two steps; modules are all located before the first is
  walked. Correct means: what counts as read was searched; every finding has the one
  module whose tree it stands in; missing means it was not there; every module is read
  or missing and not both; somebody else's broken file never fails a run.
* **classifier.** Families are prefixes of one another and rows carry three kinds of
  rule. Correct means: the row does not depend on the order somebody writes rows in;
  hybrids are not read as a half; a size nobody stated is not guessed; what is unknown
  cites nothing.
* **ranking.** One pass over the assets feeds two lists, and the order is a product of
  sums of weights that nothing ties to the gate's ladder. Correct means: every asset is
  on one list and once; ranked is exactly what some policy could trip on; what is worse
  in one respect and better in none stands above; two listings can be diffed.
* **probe.** What a handshake state says has to be read without inventing anything. The
  summary of the key exchange and the verdict on its asset come from two tables. Correct
  means: they agree for every codepoint a peer may choose; what nobody recognised is
  unknown in both; a signature is reported where something was signed.
* **source reading.** Findings come from syntax alone. Correct means: every call of a
  watched function is one finding, under any alias and at any depth, and nothing else is;
  a size stands in the call or is implied by the function; a configuration the reader
  cannot see is a gap that trips `-fail-on unknown`, and never the library's default; what
  is configured and what is negotiated is one asset.
* **go.mod reading.** The open block is carried from line to line, and `replace` has two
  forms and a precedence. Correct means: every required module is answered for under the
  coordinate of the code that ships.
* **document and table.** References tell components apart; the levels agree with the
  posture beside them; what needs a decision is printed first.

How each is modelled is in section 2, what is left out in section 3.

`PROJECT.json` lists every hazard at its line, with the property that would catch it.

## 2. Modules

| module | models | kind |
|---|---|---|
| `Assets` | `internal/asset`: kinds, primitives, postures | operators |
| `Spelling` | prefixes, parts and conversions of names | operators |
| `Findings` | `asset.Asset` and `asset.Location` as they are passed on | operators |
| `Gate` | the ladder, `parseGate`, `tripped` | operators |
| `Probe` | `probe/tls.go` (`fromState` and its readers) and `probe/config.go` | operators |
| `GoSource` | `scan.File`: imports, the walk of the tree, calls, configurations | state machine, entered by `Artifact` |
| `Document` | `cbom.Build`: components, references, levels; `report`: the order of lines | operators |
| `Artifact` | files, handshake, verdicts, table or document, one after the other | state machine |
| `GoMod` | `parseGoMod`, `parseReplace`, `replacementFor`, `escape`, `moduleCache` | operators |
| `Inventory` | what an invocation promises its caller (`main.go:46-59`) | abstract specification |
| `Command` | one invocation, from words to exit code | state machine |
| `Collection` | what reading the sources promises `gather` | abstract specification |
| `Sources` | `scan.Dir`, then `scan.Deps`, on a changing file system | state machine |
| `Dependencies` | `Sources` over the modules that `GoMod` reads in a go.mod | composition |
| `Classify` | `Lookup` and `judge`, over any table | state machine |
| `ClassificationTable` | the rows of `table.go` | data |
| `Plan` | `plan.Build`: the split, the score, the two sorts | state machine |
| `Lists` | the loop that keeps the elements of a list it has a use for | operators |
| `CommandProofs`, `SourcesProofs`, `DependenciesProofs`, `ClassifyProofs`, `PlanProofs`, `ArtifactProofs` | theorems | proofs |
| `FileProofs` | the inductive invariant of the walk of one file, which `ArtifactProofs` rests on | proofs |
| `ListProofs` | lemmas about numbers, lists and trees that several of them rest on | proofs |
| `MCCommand`, `MCSources`, `MCClassify`, `MCPlan`, `MCArtifact` | instances for TLC | instances |

How they are composed: `Command` implements `Inventory`, and `Sources` implements
`Collection`; what `Command` lets its first two collectors return is what `Collection`
says. `Dependencies` puts `GoMod` under `Sources`. `Artifact` puts the readers (`GoSource`,
`Probe`) before the classifier and the writers (`Document`) behind it. It enters the
classifier through `LongestFamilyWins`, the postcondition of `Lookup` that `ClassifyProofs`
proves for every table, with `VerdictOf` for what `judge` does to the row.

### Command

`pc` is the stage the run is in. `start` is `run` and the head of the command
(`parseArgs`, the count of positionals, `parseGate`); `dir`, `deps`, `probe` are the
collectors in `gather`'s order; `judge` is `classify.ApplyAll`; `write` and `fill` are
the table or document (`fill` stands between the two halves of `os.WriteFile`, the
truncation and the writing); `handshake` and `unread` are the notes; `gate` is `gate`.
The early returns are actions of their own: every `return ..., err` leads to `Fail`,
which prints the error on stderr as `main` does and ends the run.

`out` is what each sink holds, as chunks: a table, a document, a note, a verdict, an
error. `torn` and `full` make writing real: a device in `Fillable` may fill up between
any two steps. `writeJSON`, `cbom.Encode`, `os.WriteFile` and `cmdTable` look at what a
write returned and fail; `report`, `reportPlan`, `reportHandshake`, `reportUnread` and
`gate` do not, and go on. `collected` is a history variable. A collector is modelled by
what it may return: any sequence of at most `MaxFindings` findings, or a failure. Two
facts are kept: a completed handshake names at least one asset, and a run that read no
module has no finding from one.

A flag with an empty value counts as absent, as the code reads it (`*deps`, `*endpoint
!= ""`, `*out != ""`). An accepted line has exactly one positional argument, none for
`table`.

### Sources

`todo` is the walk: the entries still to visit, in name order, the next one first.
Entering a directory replaces it by what it holds at that moment, as
`filepath.WalkDir` reads a directory once and then visits its entries. `disk` is what
is present. `Remove` and `Appear` change it between any two steps, at most `MaxChanges`
times; `touched` records what they touched. `pc = "dir"` is `scan.Dir`; `gomod` and
`locate` are `Modules`; `next` and `walk` are the loop of `Deps` with `moduleSource`.

`Where` gives, per module, whether a `replace` directive names a directory and which, the
place under `vendor` and the place in the module cache. A module that a directory replaces
is looked for there and nowhere else, even if there is no such directory. The theorems hold for any `Required` and
`Where`; in the runs both are what `Dependencies` computes from a go.mod. Of a name only
what decides whether a walk enters it is kept, and of a file only whether it is Go source,
a test, unparsable, or something else. A file stands for its findings, which `Artifact`
looks into. Coordinates are taken to be distinct.

A node of kind `link` is a symbolic link: `os.Stat` follows it, `WalkDir` does not.
`PathsAssumption` says what makes nodes paths: there are finitely many, a path has one
parent, no directory is below itself, and `Root/vendor` is called `vendor`, does not hold
the root and is no Go file.

### Classify and ClassificationTable

`Lookup` makes two scans, first for a row whose matcher recognises the asset, then for
the longest family its name begins with; `judge` then applies the row's posture or its
size rule. The state machine keeps the two loops and their variables. Names are strings
here because what a prefix and a trailing number are is the point: a name is a sequence
of characters that `HasPrefix`, `Contains` and `trailingBits` take apart. Names are
given in capitals, as `Lookup` compares them. A row's citation is represented by its
family: a row without a size rule is cited whatever it says, one with a size rule only where
a size was found (`CitationOf`). The classification is the same for an asset whatever came before it, so one
asset is one behaviour. `Table` is a constant, so the theorems hold for any table.

### Plan

`split` is the loop of `Build`, one asset a step: `Settle` for one whose posture needs
no work, `Rank` for the others. `items` and `settled` are the two calls of
`slices.SortStableFunc`. A list holds positions of the assets `Build` was given, so that
two findings that read alike are still two. `Asset` keeps what the score and the
comparison read: name and printed position as numbers (strings are totally ordered),
posture, primitive, and whether the location names a host or a module. An asset the
classifier never saw has no posture (`NotClassified`), and is ranked as one nobody judged.

A stable sort is the function from new places to old ones that leaves nothing before
what should stand before it, and keeps the places of what neither puts first. That is
what the library promises, not how it goes about it. `Arithmetic`, which spells the
product out, and the JSON of the scale are left out.

### GoMod and Dependencies

A line of go.mod is its fields, comments cut off. `parseGoMod` folds `ReadLine` over the
lines, as the loop does: the open block, the requirements in their order and the
replacements by what they replace, `path` or `path@version`, a later one over an earlier
one. `Named` is the body of the loop in `Modules`: a replacement by a path gives the module
a new coordinate, one by a directory leaves it its name. `escape` and `moduleCache` spell
the place in the cache, upper case and list of GOPATH included. The `Indirect` flag is read
in the code and asked by nobody, and is left out.

`Dependencies` also says what directives mean without the lines they stand in (`Answers`):
the last `replace` for this version of a module, or else the last one for every version.
`RequirementsAnswered` compares the two, and what the collectors then return. In the same
words `SourcesOf` says where the source may be that is built for a requirement: in `vendor`
where there is one, under the path the module is *required* by, in the directory that
replaces it, and otherwise in the cache. `MissingWasAbsent` asks it of every module that is
named as missing, without a look at what `locate` does.

### Probe

A suite is the name `tls.CipherSuiteName` gives it, a group and a version are codepoints, a
certificate is its key, its signature algorithm and its names. A reader that returns `ok`
in the code returns a set with at most one finding. Names are in upper case, as everything
that compares them makes them. Evidence is kept as the words that vary, because references
are made of it. `cipherAsset` looks for the bulk cipher in a suite's name; no name the probe
can negotiate holds two. Certificates have one of the three key types Go's TLS stack
accepts, so the default cases of the two switches are not entered, and the suite is one that
`crypto/tls` lists (`InputsAssumption`). A
codepoint is written in decimal: 4588 is the `0x11ec` of X25519MLKEM768. The suites a
configuration is read with are those `crypto/tls` lists; it has two constants more, older
names of ChaCha20 suites, and `VersionSSL30` (`OlderConstants` in `Artifact`), which the
reader does not know. `NamesNegotiated` compares what a source file spells with
what an endpoint negotiated by the constant, and not by the name a reader gives it.

### GoSource

`stage` is where `File` is: `imports` resolves local names, `walk` is `ast.Inspect` with
the nodes still to visit in `todo`, the next one first, and `read` is its return. A visit
takes the node off and puts its children in front (`Descend`), in source order. `VisitCall`
and `VisitConfig` are the two cases of the callback, `VisitOther` every node that yields
nothing. A node keeps what the reader asks for: its kind, its line, the two halves of
`recv.name`, the value of an integer literal. A literal that
`strconv.Atoi` does not read, like `0x800`, is a node without a value.

The properties speak of what is written in a file, not of how it is walked: `Written` is
the set of its nodes, each with its place, the path of child numbers that leads to it, so
that two calls that read alike are still two. `FilesAssumption` says what a tree of Go is:
a pair has one value, a selector's identifier holds no dot and no space, and a name is
given by one import, or the file does not compile. `DepthAssumption` says that `Depth` is
deep enough. `PlacesAssumption` says that within one input a path, the module's coordinate
before it, is of one file, and that paths and lines are written apart: a path that is read
ends in `.go`, so no `path:line` is the path of another.

### Document and Artifact

A `reference` is the tuple that is hashed; SHA-256 cut to 64 bits is taken to have no
collisions. A component keeps what two of them could differ in. `report` is a stable sort
by the index in `order`, where a posture that is not listed comes first, as `slices.Index`
makes it.

`Artifact` takes the files in the order the walks reach them, at most one handshake, and
then judges and writes. `Collect` appends what `File` returned, after `Attributed` put the
module's coordinate in front of the position. `gathered`, `assets`, `listing` and
`document` are what `gather` returns, `ApplyAll` makes of it, `report` prints and `Build`
assembles. `judge` finds its row by name and kind (`RowOf`), as `Lookup` is asked, and the
size is looked at by the row's rule alone.

## 3. What is not modelled, or only in part

* **Go's own parts.** The parser and its trees, `filepath.WalkDir`, TLS handshakes, the file
  system: modelled from how the code uses them, and marked external in `PROJECT.json`.
* **Scopes.** The reader asks for no object resolution, so a local variable that has an
  import's name is read as the package. The trees here have no scopes either, and no
  property is stated about it. The same goes for fields of a configuration that are
  assigned after the literal: they are in no finding.
* **Spellings of go.mod** that do not separate by blanks, as `require(` or quoted paths: a
  line is given as its fields.
* **Signature digests of certificates.** `signatureFamily` reduces `SHA1-RSA` to `RSA`; the
  model does the same, and nothing in the repository says what should become of the digest.
* **Modes** other than those a suite's name states: no reader produces them.
* **The line of counts** under the table, and the `OfferedPostQuantum` and `OfferedSuites`
  lists of `probe -json`.
* **Left out everywhere**: wording, column widths, JSON field names, the text of errors.

## 4. Runs

| run | instance | shows |
|---|---|---|
| `command` | every well-formed line | what is handed over, on which stream, and which exit code follows |
| `command_lines` | every line a person can write | no walk under an unreadable policy, every run ends, every run is one of `Inventory` |
| `command_full` | violation | exit code 1 without a reason on any stream |
| `sources` | four modules, two outside changes, every go.mod of up to three directives | attribution, accounting, the vendor rule, how go.mod is read, termination, refinement of `Collection` |
| `sources_nested` | violation | a module inside another module's tree is reported twice |
| `sources_linked` | violation | a linked directory counts as read |
| `sources_replaced` | violation | a vendored module that is replaced is named as missing though what is built is there |
| `classify` | the real table | which row is found, what is cited, how sizes decide, that none is guessed |
| `plan` | inventories of up to three of fourteen assets | what is ranked, what is settled, in which order |
| `artifact` | seven files in a tree and in a module, every handshake | what calls, configurations and handshakes become, and that verdicts, summaries, levels and references agree |
| `artifact_refs` | violation | two calls on one line share a bom-ref |
| `artifact_unsigned` | violation | a handshake signature where nothing was signed |

### Bounds, and why they are enough

* **`MaxFindings = 1`** per collector. Three collectors then make inventories of up to
  three assets, so an answer that replaces an earlier one shows. The four findings stand
  on the four sides of the gate's decisions: at the top rung, on the rung between, on the
  lowest, and on none. Nothing in `Command` looks at the order or number of findings
  otherwise, and the theorems hold for any bound.
* **Modules.** Two in `command`, so that some may be read and others not; one in
  `command_lines`, where the lines are what varies.
* **Lines.** `command` takes every command with every set of the flags it reads, and one
  policy on each side of the default. `command_lines` takes all of `CommandLine`, with
  words that are no command, flags of other commands, values that do not parse, no or too
  many arguments, and policies nobody can read. `-timeout` is left out of both: it changes
  how long the deadline is, and the deadline may fire at any step here.
* **`Fillable`** is every sink in `command`. In `command_lines` it is the file alone:
  `ImplementsInventory` does not hold where stdout fills up, which is what `command_full`
  shows and what the hypothesis of `Implements` says.
* **`MaxChanges = 2`**: a tree may go and come back, or two trees may go, between any two
  steps. The tree has one of every kind of entry a walk decides on: hidden directory,
  `vendor`, `testdata`, test file, file that does not parse, plain file, and an entry after
  a directory that is entered. Three disks: with `vendor`, without, and with half of the
  cache. Every module of the main layout has a tree of its own and no node is a symbolic
  link; `sources_nested` and `sources_linked` are the layouts without these two
  preconditions, and there the property is violated. The go.mod of the main layout has
  both forms of every directive, a replacement by a fork whose name is spelled in capitals,
  one for every version that one for this version overrules, and one by a directory that is
  nowhere while the module stands in the cache. What another path or a directory replaces is
  not vendored there; `sources_replaced` is the layout where it is. `RequirementsAnswered` also
  reads every go.mod of up to three of eight directives: two of one module and a third that
  overrules one of them is the longest chain the reader knows.
* **Names and sizes** in `classify`: the names the collectors write, the spellings in
  deployment, and names no row was written for, among them names that end in a version, in a
  longer number or in two sizes, against no size and four sizes on the sides of 128 and 256.
* **Fourteen assets** in `plan`: every posture and none, every exposure and lifetime, equal scores
  under different names, equal names at different positions. Three at a time are enough
  for a sort that goes wrong on a pair, and for one that is not transitive.
* **Files** in `artifact`: aliases, a package nobody watches whose last element is a watched
  one, calls inside calls, arguments and configuration fields, two calls on one line, sizes
  that are literals, variables, zero or curves, configurations with constants, variables,
  lists that are no literals, older constants, a configuration inside another literal.
  Every pair of files, the second as a module's, so that positions of two trees meet.
* **Handshakes** in `artifact`: what `crypto/tls` can complete on the probe's offer: each
  suite of TLS 1.3 with each group and certificate, and each older suite with the versions,
  groups and keys it goes with. `TablesAgree` also takes every codepoint of the table, and
  one that is in none, whether the probe offers it or not.
* **`Depth = 6`** is deeper than the deepest of these trees.

### Findings

1. With stdout out of room `scan` and `plan` lose the table and the verdict, and exit 1
   with nothing on any stream: `report` and `gate` do not look at what a write returned
   (`command_full`).
2. A vendored module whose path begins with another's is walked twice and its findings
   carry both coordinates. A `replace` directive to a directory under the root has the
   same effect with `scan.Dir` (`sources_nested`).
3. A module directory that is a symbolic link is counted as read and never entered
   (`sources_linked`).
4. A module that a `replace` directive renames is looked for in `vendor` under its new
   path, where `go mod vendor` does not put it: it is named as missing, and its code is in
   no inventory (`sources_replaced`). One that a directory replaces is not looked for in
   `vendor` at all.
5. Two calls of one function on one line are two components with one `bom-ref`, which the
   document's own test takes for an error (`artifact_refs`).
6. A suite with RSA key transport is reported with a handshake signature, and an asset for
   it, though nothing is signed in such a handshake (`artifact_unsigned`).

Three disagreements between code and documentation were met on the way and have no run of
their own. A configuration that names a ChaCha20 suite by its older constant, or SSL 3.0,
gets a finding that says the value "is not a crypto/tls constant here" (`gosource.go:341`),
which it is: the reader knows the suites that `crypto/tls` lists, and `config.go:51-53`
takes them for "the suites a source file can name". `GapsAreUnknown` states the exception
(`OlderConstants`), and the files of `artifact` have both kinds: such a value is a finding
judged unknown, so the gate sees it, and what it says of the source is not so. The others:
`cbom` takes an inventory and has no `-json`, though `main.go:48` says every command that
takes one writes it two ways; and HMAC is `quantum_reduced` whatever its key
(`table.go:153`), while `README.md:228` puts it by key size beside AES and ChaCha20.

## 5. Fairness

`Command` assumes weak fairness of `Step`, the program's own next step, and of
`Deadline`. The first is a process that is scheduled. The second is
`context.WithTimeout`: the timer fires whatever the endpoint does. Nothing is assumed of
the endpoint, of a device, or of whoever may kill the run. `Sources` assumes weak
fairness of `Collect`, the walks' own step; nobody has to change the disk, and nobody has
to stop. `Classify`, `Plan` and `Artifact` claim safety only.

## 6. Proofs

All proofs are checked by TLAPS for every value of the constants. The named assumptions
are on constants and say what type they have: every finding has a verdict, lines are
lines, a tree's entries are nodes, a table's rows are rows, inventories are sequences of
assets, files are trees, a handshake is one that `crypto/tls` completes, an endpoint has an
address. `GroupsAssumption` is about a table of the code: no group in it goes without a
name. `NamesAssumption` is about names of two kinds, which are never one name,
`GoModsAssumption` about the go.mod files, which are some the go command accepts,
`PlacesAssumption` about paths, which are never written alike, and `NumeralsAssumption`
about `%d`, which writes no two sizes alike (the provers see no characters). TLC evaluates
each of them.

Some theorems hold under a hypothesis beside these, which the theorem names. Where a run
refutes the property without it, that is a finding: `TreesApart` (`sources_nested`),
`PlacesAreDirectories` (`sources_linked`) and `RedirectedAreNotVendored`
(`sources_replaced`). The others say what the program's tables have
to keep: `TablesAgree`, `GapsAreJudged` and `LevelsAgree`, `VersionsHaveTheirOwnRows`,
`HybridsAreMatched`, `RowsAnswer` and `NumbersAreRead`. TLC evaluates all of those of the
real tables.

* **`CommandProofs`.** The inductive invariant `IInv` has five named parts beside
  `TypeOK`. `LineRead`: no stage after the first runs under a line that is refused.
  `Gathered`: what is held is what the collectors returned so far, in order, and a
  collector that has had no turn has returned nothing; without it an append could not be
  told from a replacement. `HandedOver`: no listing is out before `write`, and every
  listing there is holds `assets`. `Ending`: which stages a run may end in, and the note
  that stands there. `Streams`: what stdout holds beside a document. The safety properties
  speak of runs that ended, so none is inductive alone. From `IInv` follow
  `GateAgreesWithReader`, `NothingDropped`, `ModulesAccountedFor`, `DocumentUnmixed`,
  `VerdictIffTripped`, `FailureIsNotAnInventory`, `EarlierDocumentStands` and the action
  property `PolicyBeforeWalk`. Steps are grouped by what they do to the sinks (a step that
  prints, one that notes, one that fails, one that is quiet) and each group has one lemma.
* **Refinement of `Inventory`.** `Implements`: every run is a run of the abstract
  specification, if stdout does not fill up. The map takes the listings on stdout or in
  the file for what was published and the exit code for the verdict. The step that
  completes a listing publishes, the one that ends the run answers, all others stutter.
* **`SourcesProofs`.** `Bookkeeping` says where the loop of `Deps` stands: which modules
  are counted, and that a finding names a module that is read or is being walked. It is
  inductive, whatever others do to the disk, and `CollectorsKeepTheirPromise` follows.
  `AlwaysAbsentWhereLookedFor` adds that a module located nowhere had the place it was looked
  for absent at that moment, which stays true because whatever comes back afterwards is
  `touched`. It assumes `PlacesAreDirectories`: the places a module is looked for are
  directories and neither links nor files.
* **Trees.** `Subtree` is recursive, and so are the lists a directory is read into (`Only`).
  No induction theorem with an operator as a parameter can be used here, so both are reasoned
  about through sets: a set of numbers that is not empty has a least one (`LeastNatural`, by
  well-foundedness), and a set of nodes that is not empty has one none of whose entries is in
  it (`LowestNode`, by counting what stands below). Where a law failed, it would fail at a
  least number or a lowest node, and there it does not. From `TreesExist`, that the recursive
  function there is satisfies its equation, come the laws the rest is proved from:
  `SubtreeStep`, `SubtreeIsClosed`, `ParentIsBelow`, `MeetingSubtrees`, `NoCycles`. They rest
  on `PathsAssumption`. `OnlyKeeps` is what reading a directory returns.
* **`SourcesProofs`, the walks.** What they do, whatever others do to the disk meanwhile. `Located`: a
  directory that was found is the place the build takes the module from. `Walks`: what is
  still to visit can be come to from the root of the walk without entering a directory that
  has to be left out; with `Attributions`, that every finding stands where its module was
  located, `WalksStayInTheirTrees` follows. `FilesAreReportedOnce` adds the hypothesis
  `TreesApart`, which is what `sources_nested` goes without. `VendorWasSeen`: a vendor
  directory nobody touched is one the run has seen; from it `VendorAnswersTheBuild`. `Calm`:
  while nobody touches the disk, what is to be visited and what was located is there; without
  it `FailureHasItsCause` is not inductive, because a failed run no longer says which entry
  it failed at. `Searches` is the invariant of a search: every file that stood undisturbed in
  the tree under way is found already or still below an entry to be visited, and every tree
  that is done is found whole. Only a step that takes an entry off the list can break it, and
  it either reads the file, or replaces a directory by what it holds, or passes over one that
  has to be left out, which the file is then not below. `WhatIsReadWasSearched` follows for
  layouts without links, which is what `sources_linked` has one of. `MCSources` checks that
  the main layout meets the three hypotheses.
* **`DependenciesProofs`, reading go.mod.** `parseGoMod` is a fold over lines and an entry may
  be a line of its own or stand in a block, so the proof follows the lines. `ParsedOneMore`:
  a further line is read into what was read before it (there is one function with that
  equation, by `UpTo`). `Says` is what is read agreeing with the directives so far: the
  requirements are the `require` entries in order, and under each key stands what the last
  `replace` entry of that key puts there. `OpeningLine`, `OwnLine`, `BlockLine`, `ClosingLine`
  and `OtherLine` say what each kind of line does, `BlockIsRead` and `DirectiveIsRead` that
  `Says` holds again after a directive, and `DirectivesAreRead` after all of them. `LookedUp`
  is that the two lookups, by version and then without, find what the directives mean, and
  `NamedAsShipped` that the coordinate is that of the code which ships. From these follow
  `GoModIsRead`, a statement about every go.mod without a bound, and with `Bookkeeping`
  `RequirementsAreAnswered`. `MissingModulesWereAbsent` puts the two halves together:
  `PlacesAreLookedIn` says that each place the directives leave for what is built
  (`SourcesOf`) is one `locate` asks, if what is redirected is not vendored, and
  `AlwaysAbsentWhereLookedFor` that it was empty then. The hypothesis `WellFormed` is what the go command accepts: a
  requirement is a path and a version, a replacement has its arrow after one or two words, and
  no key of one name spells another's (`SpelledApart`: no path holds the `@` that sets the
  version apart). `GoModsAssumption` says it of the constants, and TLC evaluates it for the
  585 files `sources` reads beside its own.
* **`ClassifyProofs`.** `ScanInv` is the invariant of the two scans: no row passed so far
  matched, and `best` is the longest family so far and the earliest of its length. From it
  follows `LongestFamilyWins`, for every table and so for whatever
  order rows are added in. Four theorems are about what a table has to keep, each under a
  named hypothesis that `MCClassify` checks of the real one: `VersionsAreJudgedApart` under
  `VersionsHaveTheirOwnRows`, `HybridsAreReadWhole` under `HybridsAreMatched`,
  `CitationsAreEarned` under `RowsAnswer` (a row that was itself unknown would be cited), and
  `SizesAreReadOff` under `NumbersAreRead`: `trailingBits` reads a size where the name ends in
  its digits, and the numbers at the end of a digest's name are sizes. Whoever adds a row
  knows what to look at.
* **`PlanProofs`.** `PlanInv` is that the split is complete up to the asset whose turn it
  is, each on its own side and once, and that a list that was sorted is in order. The sort
  is a function on places that takes no two to one. By finiteness it reaches every place
  (`FS_Injection`), so it loses nothing. `WorseStandsFirst` rests on
  `WeightsKeepTheOrder`: each weight falls along its scale, the sums are positive, and so
  the product falls when one factor is worse and none is better.

* **`FileProofs`, reading a file.** A walk keeps a list of nodes and says nothing of
  where they stand, so that a list may hold two equal nodes. `WrittenIsATree` gives the
  nodes their places: those below two children of a node are apart, and whatever is below a
  node is the node itself or below one of its children. `WalkInv` is the inductive
  invariant of the walk. It ties `todo` to places (`Leads`: each node of the list stands at
  its place, no place is below another) and cuts the file in two: what is still `Left`, and
  what has been passed. `Tallied` says of the second part that each call written in it is
  in `found` as often as it is written there, and `Earned` that each finding is of a
  configuration or of a call that is written, with a size that stands there or is implied.
  `Answered` says that the values the configurations in it give and the findings of
  configurations are in a one-to-one relation, in which a finding tells of its value
  (`Tells`): field, line, and what the constant says or that it is a gap. Counting would not
  do there, since a configuration may stand inside the value of another and on its line; a
  value's place says which configuration it is from (`GivenOnce`), and the pairs that are
  read keep their order (`OnlyPlaces`). Both parts together are `Accounted`. A visit moves
  one place from one part to the other (`DescendLeads`, `Visited`). From it
  follow `UsesAreReportedOnce`, `SizesAreNeverGuessed` and `GapsAreReported`, the last under
  the hypothesis `GapsAreJudged`: the reader lists the constants of `crypto/tls` but the
  three older ones, and the classifier judges a gap in each of the four fields unknown and
  none of the listed constants. That is a matter of the tables, and TLC evaluates it as the
  first part of `GapsAreUnknown`. `ReadsWhatIsImported` carries
  what the reader's map of names says over to what the file imports, which is what the
  properties ask.
* **`ArtifactProofs`, the run.** `RunInv` says what has been judged and written by the
  stage the run is in. `DecisionsStandFirst` follows by `ReportSorts`, that `report` is a
  sort that loses nothing, by `RowExists` and `Judges`, that `Lookup` has an answer and
  that every verdict is a posture, and by `RungsComeFirst`. `ProbeInv` says that everything
  gathered stands in a file until an endpoint is asked, and that what the endpoint said
  comes after that. `HandshakeSays` takes a handshake apart: one finding of it at most is a
  key exchange, and it is the one the summary names. `TransportIsVulnerable`: the row of RSA
  has a verdict that no key size changes. From these follows `SummaryAgreesWithInventory`,
  under the hypothesis `TablesAgree`, which is a matter of thirteen codepoints, a
  codepoint in no table and the name RSA, and which TLC evaluates as the first part of the
  property. `Agreed` says of each thing an endpoint says that it is the very finding a
  configuration makes of the same constant, or has another name: `VersionIsAgreed`,
  `SuiteIsAgreed`, `GroupIsAgreed`, and `TransportIsAgreed` and `CertificateIsAgreed` for what
  is never configured. In the files `InSource` says that a configured finding is the finding
  of a version, a suite, a group or a gap wherever it stands (`Setting`, which moving the
  finding to another place or module keeps). Things of different kinds are told apart by
  name alone, and that they can be is `NamesAssumption`, which TLC evaluates. `ConstantIsAgreed` is the
  same by constant: what `TraceInv` says of the evidence of a configured finding gives the
  constant it was read from, and if an endpoint negotiated that, the reading is what the
  endpoint is said to use. Equal findings are judged alike, so `ConfiguredMeetsNegotiated`
  follows. `Graded` says of every finding
  of a file and of an endpoint that an algorithm has one of the names the readers write, and
  a size only where the algorithm may have one with that primitive: `CallIsGraded` for
  whatever stands in a call, `CertificateIsAgreed` for whatever key a certificate has. A row
  that leaves nothing to the size, and quantum_vulnerable from any row, is one verdict for
  every size (`JudgedForEverySize`), so the category, the posture and the strength of a
  component are those some name and size of the tables have together (`LevelsOfAComponent`).
  `LevelsAreHonest` follows, under the hypothesis `LevelsAgree`: it lists those names and
  sizes, and TLC evaluates it as the first part of the property. Without `Graded` it would
  be false: the tables put ML-KEM-512 below an AES key of 192 bits by category and above it
  by posture, and it holds because no reader writes the name ML-KEM-512.
* **`ArtifactProofs`, references.** A bom-ref is a hash of the name, the kind, the place and
  the evidence; the size, the curve, the mode, the module and the verdict are not in it. That
  it tells things apart all the same is `ReferencesStandForOneThing`, and it rests on what
  the readers write as evidence. `OfACall`: the first two words give the row of the table, of
  which there is one (`UsesAreTold`, and the name stands for one package in the file), and
  what follows them gives the size or the curve. `OfASetting`: the field and the constant
  give the reading, or there are three words and it is the field's gap. `TraceInv` is
  inductive: what is found is of the file that is open, what is gathered is of a file of the
  input with the module put to both the place and the finding (`Traced`,
  `AttributedIsTraced`), or was said by the endpoint, whose findings each begin with words of
  their own (`HandshakeIsAgreed`, `Voiced`) that no identifier is. Two findings of one
  reference are then of one file and one call or field, or the same finding of the endpoint
  (`ReferenceIsTold`).

## 7. What is only model-checked

* Liveness under fairness (`Terminates` of `Command` and of `Sources`): out of the proof
  system's reach, as is anything with ENABLED.
* What the tables say one by one: `TablesAgree`, `GapsAreJudged`, `LevelsAgree` and
  `NumbersAreRead`, the hypotheses of four theorems. They are about names, and the provers see
  no characters.
* `SignedMeansSigned`, `ReferencesAreUnique` and `TripHasItsReason`, which are stated and
  refuted.

## 8. Plan

What is left, most useful first:

1. `Command` over `Sources` in place of its free collectors, through `Collection`.
2. Layouts of several nested and linked modules at once, with outside changes.
