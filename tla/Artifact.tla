------------------------------ MODULE Artifact ------------------------------
(***************************************************************************)
(* From the bytes to the artifact: the files of a tree and of its modules  *)
(* are read one after the other, an endpoint may be asked, what was found  *)
(* is judged, and a table is printed or a document is built.  The readers  *)
(* are GoSource and Probe, the writers Document; the classifier is entered *)
(* through what ClassifyProofs proves of it.                               *)
(***************************************************************************)
EXTENDS GoSource, Document, ClassificationTable, Gate, FiniteSets

CONSTANTS
  Inputs,    \* what there may be to read
  Address,   \* the endpoint's host:port
  Depth      \* bound: how deep a file's tree is at most

\* The files are in the order the walks reach them, and there is at most one
\* handshake.  A file of a dependency carries the module's coordinate; its path
\* is the one inside the module.
Files == UNION {{given.files[k] : k \in DOMAIN given.files} : given \in Inputs}

-----------------------------------------------------------------------------
\* What is written in a file: its nodes, each with the path of child numbers
\* that leads to it.

Top(f) == [place |-> << >>, node |-> Other(0, f.body)]
Child(w, k) == [place |-> Append(w.place, k), node |-> w.node.children[k]]

Written(f) ==
  LET level[d \in 0..Depth] ==
        IF d = 0 THEN {Top(f)}
        ELSE UNION {{Child(w, k) : k \in DOMAIN w.node.children} : w \in level[d - 1]}
  IN UNION {level[d] : d \in 0..Depth}

NodesOf(f) == {w.node : w \in Written(f)}

\* What the evidence of an endpoint's findings begins with.
HeardWords ==
  {"negotiated protocol version", "negotiated suite", "negotiated key exchange group",
   "key exchange of suite", "public key of", "signature of", "handshake signature"}

\* A pair has one value, an identifier holds no dot and no space, and a literal
\* no sign.
WellFormed(n) ==
  /\ n.node \in NodeKinds
  /\ n.value \in Nat
  /\ n.node = "field" => Len(n.children) = 1
  /\ n.recv \notin {"tls.Config"} \cup HeardWords

ASSUME DepthAssumption ==
  /\ Depth \in Nat
  /\ \A f \in Files : \A w \in Written(f) :
       Len(w.place) = Depth => w.node.children = << >>

\* A name is given by one import of a file, or the file does not compile.
ASSUME FilesAssumption ==
  \A f \in Files :
    /\ f.imports \in Seq([path : STRING, name : STRING])
    /\ \A k, l \in DOMAIN f.imports :
         /\ {f.imports[k].name, f.imports[l].name} \cap {"_", "."} = {}
         /\ local(f.imports[k]) = local(f.imports[l])
         => k = l
    /\ \A n \in NodesOf(f) : WellFormed(n) /\ n.children \in Seq(NodesOf(f))

\* crypto/tls completes a suite it lists, with a group that was offered and a
\* certificate with a key of these types; a run has one endpoint.
ASSUME InputsAssumption ==
  \A given \in Inputs :
    /\ given.files \in Seq(Files) \ {<< >>}
    /\ \A state, other \in given.handshake : state = other
    /\ \A state \in given.handshake :
         /\ state.suite \in suiteConstants
         /\ state.group = 0 \/ state.group \in DOMAIN groups
         /\ state.chain # << >> =>
              /\ Head(state.chain).key.type \in {"rsa", "ecdsa", "ed25519"}
              /\ Head(state.chain).key.bits \in Nat

\* The names a configuration's findings may have, and those that an endpoint's
\* findings have which are not its version, suite or group.
SettingVersions == {versionName(versionConstants[c]) : c \in DOMAIN versionConstants}
SettingGroups == {keyExchange(curveConstants[c]).group : c \in DOMAIN curveConstants}
Gaps == {configuredFields[field].unstated : field \in DOMAIN configuredFields}

KeyNames(state) ==
  {KeyTransport}
  \cup IF state.chain = << >> THEN {}
       ELSE LET cert == Head(state.chain)
                at == AtHost(Address)
            IN {certificateKey(cert, at).name, cert.signature,
                signatureAsset(cert, state.version, at).name}

\* No two kinds of things share a name: a version, a suite, a group, a key or
\* signature, and a value that is not stated.
ASSUME NamesAssumption ==
  \A given \in Inputs : \A state \in given.handshake :
    LET version == {versionName(state.version)}
        suite == {state.suite}
        group == {keyExchange(state.group).group}
        keys == KeyNames(state)
    IN /\ SettingVersions \cap (suite \cup group \cup keys) = {}
       /\ suiteConstants \cap (version \cup group \cup keys) = {}
       /\ SettingGroups \cap (version \cup suite \cup keys) = {}
       /\ Gaps \cap (version \cup suite \cup group \cup keys) = {}

\* Where the findings of an input stand: each has its module before its path.
FilesOf(given) == {given.files[k] : k \in DOMAIN given.files}
PathIn(f) == IF f.module = "" THEN f.path ELSE f.module \o "/" \o f.path

PlacesOf(given) ==
  UNION {{InFile(PathIn(f), n.line) : n \in NodesOf(f)} : f \in FilesOf(given)}

\* A path is of one file and ends in .go: what is written of a place tells it
\* from the others.
ASSUME PlacesAssumption ==
  \A given \in Inputs :
    /\ \A f, g \in FilesOf(given) : PathIn(f) = PathIn(g) => f = g
    /\ \A x, y \in PlacesOf(given) : Position(x) = Position(y) => x = y

\* Different sizes are written differently.
ASSUME NumeralsAssumption ==
  \A f \in Files : \A m, n \in NodesOf(f) :
    ToString(m.value) = ToString(n.value) => m.value = n.value

\* An empty -endpoint is none (main.go:152).
ASSUME AddressAssumption == Address # ""

\* Where no group is named the suite says what the key exchange was.
ASSUME GroupsAssumption == \A id \in DOMAIN groups : groups[id].name # ""

VARIABLES
  input,      \* what there is to read
  pc,         \* "files", "probe", "judge", "write" or "done"
  next,       \* the file whose turn it is
  gathered,   \* gather's list of findings
  result,     \* what the handshakes said
  assets,     \* the findings, judged
  listing,    \* the printed table
  document    \* the document's components

runVars == <<input, pc, next, gathered, result, assets, listing, document>>
vars == <<fileVars, runVars>>

-----------------------------------------------------------------------------
\* The walks: Dir appends what File returned, moduleSource attributes it first.

\* A bug: the position stays the one inside the module.
AttributedByName(a) == [a EXCEPT !.module = file.module]

Attributed(a) ==
  IF file.module = "" THEN a
  ELSE [a EXCEPT !.module = file.module,
                 !.location.file = file.module \o "/" \o @]

ReadOn ==
  /\ pc = "files"
  /\ ReadFile
  /\ UNCHANGED runVars

Collect ==
  /\ pc = "files" /\ stage = "read"
  /\ gathered' = gathered \o [k \in DOMAIN found |-> Attributed(found[k])]
  /\ next' = next + 1

CloseFile ==
  /\ Collect
  /\ next < Len(input.files)
  /\ file' = input.files[next + 1]
  /\ stage' = "imports"
  /\ packages' = << >>
  /\ todo' = << >>
  /\ found' = << >>
  /\ UNCHANGED <<input, pc, result, assets, listing, document>>

CloseLastFile ==
  /\ Collect
  /\ next = Len(input.files)
  /\ pc' = "probe"
  /\ UNCHANGED <<fileVars, input, result, assets, listing, document>>

Handshake ==
  /\ pc = "probe"
  /\ input.handshake # {}
  /\ result' = {fromState(Address, state) : state \in input.handshake}
  /\ \A r \in result' : gathered' = gathered \o r.assets
  /\ pc' = "judge"
  /\ UNCHANGED <<fileVars, input, next, assets, listing, document>>

NoEndpoint ==
  /\ pc = "probe"
  /\ input.handshake = {}
  /\ pc' = "judge"
  /\ UNCHANGED <<fileVars, input, next, gathered, result, assets, listing, document>>

-----------------------------------------------------------------------------
\* The classifier: Lookup returns the row that ClassifyProofs says it does.

\* What Classify asks of its rows.
ASSUME RowsAssumption ==
  /\ classificationTable \in
       Seq([family : STRING, protocol : BOOLEAN, matcher : BOOLEAN,
            verdict : Postures \cup {"symmetricSize", "digestSize"}])
  /\ \A k \in DOMAIN classificationTable : Len(classificationTable[k].family) \in Nat

Judging(asset, row) ==
  INSTANCE Classify WITH
    Names <- STRING, KeySizes <- Nat, Table <- classificationTable,
    pc <- "judge", i <- 1, best <- 0, posture <- "unknown", citation <- ""

\* What is judged of a finding.
Asset(name, kind, keySize) == [name |-> name, kind |-> kind, keySize |-> keySize]
AssetOf(a) == Asset(family(a), a.kind, a.keySize)

\* No key size is looked at.
RowOf(name, kind) ==
  CHOOSE row \in 0..Len(classificationTable) :
    Judging(Asset(name, kind, 0), row)!LongestFamilyWins

judge(asset) ==
  LET row == RowOf(asset.name, asset.kind)
  IN IF row = 0 THEN "unknown"
     ELSE Judging(asset, row)!VerdictOf(classificationTable[row], asset.name, asset.keySize)

cite(asset, posture) ==
  LET row == RowOf(asset.name, asset.kind)
  IN IF row = 0 THEN ""
     ELSE Judging(asset, row)!CitationOf(classificationTable[row], posture)

Apply(a) ==
  LET posture == judge(AssetOf(a))
  IN [a EXCEPT !.posture = posture, !.citation = cite(AssetOf(a), posture)]

ApplyAll(findings) == [k \in DOMAIN findings |-> Apply(findings[k])]

Judge ==
  /\ pc = "judge"
  /\ assets' = ApplyAll(gathered)
  /\ pc' = "write"
  /\ UNCHANGED <<fileVars, input, next, gathered, result, listing, document>>

-----------------------------------------------------------------------------
\* The artifact.

PrintReport ==
  /\ pc = "write"
  /\ listing' = report(assets)
  /\ pc' = "done"
  /\ UNCHANGED <<fileVars, input, next, gathered, result, assets, document>>

BuildDocument ==
  /\ pc = "write"
  /\ document' = Build(assets)
  /\ pc' = "done"
  /\ UNCHANGED <<fileVars, input, next, gathered, result, assets, listing>>

Init ==
  /\ input \in Inputs
  /\ InitFile(input.files[1])
  /\ pc = "files"
  /\ next = 1
  /\ gathered = << >>
  /\ result = {}
  /\ assets = << >>
  /\ listing = << >>
  /\ document = << >>

Ended == pc = "done" /\ UNCHANGED vars

Next ==
  ReadOn \/ CloseFile \/ CloseLastFile \/ Handshake \/ NoEndpoint \/ Judge
    \/ PrintReport \/ BuildDocument \/ Ended

Spec == Init /\ [][Next]_vars

-----------------------------------------------------------------------------
\* What the properties ask of the current file.

\* n is written as something of the package at path.
Imported(n, path) ==
  \E k \in DOMAIN file.imports :
    LET imp == file.imports[k]
    IN /\ imp.path = path
       /\ imp.name \notin {"_", "."}
       /\ n.recv = IF imp.name = "" THEN AfterLast(path, "/") ELSE imp.name

UsesOf(n) == {u \in table : n.node = "call" /\ u.function = n.name /\ Imported(n, u.path)}
Calls == {w \in Written(file) : UsesOf(w.node) # {}}

SameCall(n, m) == n.line = m.line /\ n.recv = m.recv /\ n.name = m.name

Configured(a) == a.evidence[1] = "tls.Config"

\* The finding is of a call written like n, on its line.
Reports(a, n) ==
  /\ ~Configured(a)
  /\ a.location.line = n.line
  /\ a.evidence[1] = n.recv /\ a.evidence[2] = n.name

FileRead == pc = "files" /\ stage = "read"

-----------------------------------------------------------------------------
\* Properties.

\* Every call of a watched function is reported once and nothing else is
\* (gosource.go:3-7), whatever the package is called in the file, wherever the
\* call stands and however many stand on its line.
EveryUseOnce ==
  FileRead =>
    /\ \A w \in Calls :
         Cardinality({k \in DOMAIN found : Reports(found[k], w.node)})
           = Cardinality({other \in Calls : SameCall(other.node, w.node)})
    /\ \A k \in DOMAIN found :
         ~Configured(found[k]) => \E w \in Calls : Reports(found[k], w.node)

\* A number that stands in the call: a literal, or the size of a named curve.
Says(call, size) ==
  \E arg \in DOMAIN call.children :
    LET n == call.children[arg]
    IN \/ n.node = "int" /\ n.value = size
       \/ /\ n.node = "call" /\ Imported(n, "crypto/elliptic")
          /\ n.name \in DOMAIN curveNames /\ curveNames[n.name] = size

\* A size that arrives in a variable is never guessed (gosource.go:5-7): each
\* one in the inventory is implied by the function's name or stands in the call.
SizesAreStated ==
  FileRead =>
    \A k \in DOMAIN found :
      (~Configured(found[k]) /\ found[k].keySize # 0) =>
        \E w \in Calls :
          /\ Reports(found[k], w.node)
          /\ \/ \E u \in UsesOf(w.node) : u.keySize = found[k].keySize
             \/ Says(w.node, found[k].keySize)

\* What the pair gives to its field: a value, the elements of a list, or a list
\* as a whole, where it is not written out.
ValuesOf(pair) ==
  LET value == Child(pair, 1)
      list == configuredFields[pair.node.name].list
      Given(v, whole) == [field |-> pair.node.name, value |-> v, whole |-> whole]
  IN IF list /\ value.node.node = "literal"
     THEN {Given(Child(value, k), FALSE) : k \in DOMAIN value.node.children}
     ELSE {Given(value, list)}

\* The values a tls.Config literal gives to the fields that are read.
GivenBy(w) ==
  LET pairs == {Child(w, k) : k \in DOMAIN w.node.children}
  IN UNION {ValuesOf(pair) : pair \in {p \in pairs :
              p.node.node = "field" /\ p.node.name \in DOMAIN configuredFields}}

Configs ==
  {w \in Written(file) : /\ w.node.node = "literal" /\ w.node.name = "Config"
                         /\ Imported(w.node, "crypto/tls")}

ConfiguredValues == UNION {GivenBy(w) : w \in Configs}

\* The constants of crypto/tls that belong under a field.
ConstantsOf(field) ==
  CASE field = "CipherSuites"     ->
         suiteConstants \cup {"TLS_ECDHE_RSA_WITH_CHACHA20_POLY1305",
                              "TLS_ECDHE_ECDSA_WITH_CHACHA20_POLY1305"}
    [] field = "CurvePreferences" ->
         {"CurveP256", "CurveP384", "CurveP521", "X25519", "X25519MLKEM768"}
    [] OTHER                      ->
         {"VersionSSL30", "VersionTLS10", "VersionTLS11", "VersionTLS12", "VersionTLS13"}

\* Those the reader does not know, though a source file can name them
\* (config.go:50-53 says otherwise of the suites): two suites are spelled as they
\* were before their names had a hash, which crypto/tls does not list, and one
\* version nobody speaks.
OlderConstants ==
  {"TLS_ECDHE_RSA_WITH_CHACHA20_POLY1305", "TLS_ECDHE_ECDSA_WITH_CHACHA20_POLY1305",
   "VersionSSL30"}

\* The value is one of these names of crypto/tls.
NamesOne(v, constants) ==
  LET n == v.value.node
  IN /\ ~v.whole
     /\ n.node = "selector" /\ Imported(n, "crypto/tls") /\ n.name \in constants

IsConstant(v) == NamesOne(v, ConstantsOf(v.field))
IsOlder(v) == IsConstant(v) /\ NamesOne(v, OlderConstants)

\* What is judged of a value that is no constant.
GapOf(field) == Asset(configuredFields[field].unstated, configuredFields[field].kind, 0)

\* The constants that the reader lists under a field.
ListedConstants(field) ==
  CASE field = "CipherSuites"     -> suiteConstants
    [] field = "CurvePreferences" -> DOMAIN curveConstants
    [] OTHER                      -> DOMAIN versionConstants

\* The reader lists the constants of crypto/tls but the older ones; a gap in a
\* field is judged unknown, and none of the listed constants is.
GapsAreJudged ==
  \A field \in DOMAIN configuredFields :
    /\ ListedConstants(field) = ConstantsOf(field) \ OlderConstants
    /\ judge(GapOf(field)) = "unknown"
    /\ \A constant \in ListedConstants(field) :
         \A a \in reading(field, constant, AtHost(Address)) : judge(AssetOf(a)) # "unknown"

\* What a configuration says but the reader cannot see is reported, and is
\* judged unknown rather than as the library's default (gosource.go:269-274):
\* each value that is no constant of crypto/tls is one finding that trips
\* -fail-on unknown, and each constant one that says more.  The older constants
\* are taken for gaps as well, and their findings say that they are no constants
\* of crypto/tls (gosource.go:341).
GapsAreUnknown ==
  FileRead =>
    /\ GapsAreJudged
    /\ \A v \in ConfiguredValues :
         LET Here(w) == w.field = v.field /\ w.value.node.line = v.value.node.line
             here == {k \in DOMAIN found : /\ Configured(found[k])
                                           /\ found[k].evidence[2] = v.field
                                           /\ found[k].location.line = v.value.node.line}
         IN /\ Cardinality({k \in here : Apply(found[k]).posture = "unknown"})
                 = Cardinality({w \in ConfiguredValues :
                                  Here(w) /\ (~IsConstant(w) \/ IsOlder(w))})
            /\ Cardinality(here) = Cardinality({w \in ConfiguredValues : Here(w)})

Negotiated(a) == a.location.host = Address

\* The summary of a group and the verdict on its asset: post-quantum exactly
\* where the asset settles, classical where Shor's algorithm breaks it.
OneVerdict(exchange, posture) ==
  /\ exchange = "post_quantum" <=> posture \in Settling
  /\ exchange = "classical" <=> posture = "quantum_vulnerable"
  /\ exchange = "unknown" <=> posture = "unknown"

\* A codepoint that is in no table: 0x0ABC.
Unassigned == 2748

\* Every codepoint a peer may come to choose is summarised as it is judged, and
\* so is key transport.
TablesAgree ==
  /\ \A id \in DOMAIN groups \cup {Unassigned} :
       OneVerdict(keyExchange(id).reading,
                  Apply(groupAsset([group |-> id], Address)).posture)
  /\ OneVerdict("classical", judge(Asset("RSA", "algorithm", 0)))

\* What the summary says of the key exchange and what the inventory says of it
\* are one verdict (tls.go:52-55), though each is read from a table of its own:
\* in every run, and for every codepoint a peer may come to choose, a codepoint
\* nobody recognised being unknown in both and never classical.
KeyExchangeAgreesWithVerdict ==
  pc = "done" =>
    /\ TablesAgree
    /\ \A r \in result :
         LET exchanges == {k \in DOMAIN assets :
                             /\ Negotiated(assets[k])
                             /\ assets[k].primitive \in {"key-agree", "pke"}}
         IN /\ Cardinality(exchanges) = IF r.keyExchange = "none" THEN 0 ELSE 1
            /\ \A k \in exchanges : /\ assets[k].name = r.group
                                    /\ OneVerdict(r.keyExchange, assets[k].posture)

\* A handshake signature is reported where something was signed (tls.go:72-74):
\* with RSA key transport nothing is, the premaster secret is encrypted.
SignedMeansSigned ==
  pc = "done" =>
    \A r \in result : \A state \in input.handshake :
      r.signature # "" => ~HasPrefix(state.suite, "TLS_RSA_")

\* The constant of crypto/tls that a was read from is the one b was negotiated as.
NamesNegotiated(a, b, state) ==
  /\ Len(a.evidence) > 3
  /\ LET field == a.evidence[2]
         constant == a.evidence[4]
     IN CASE field \in {"MinVersion", "MaxVersion"} ->
               /\ b.evidence[1] = "negotiated protocol version"
               /\ versionConstants[constant] = state.version
          [] field = "CipherSuites" ->
               b.evidence[1] = "negotiated suite" /\ constant = state.suite
          [] field = "CurvePreferences" ->
               /\ b.evidence[1] = "negotiated key exchange group"
               /\ curveConstants[constant] = state.group

\* A suite, a version or a group that is configured here and negotiated there
\* is one asset in the inventory and not two (config.go:10-14): two findings of
\* one constant, or of one name, differ in where they stand and what was seen,
\* and in nothing that is judged, the name included.
ConfiguredIsNegotiated ==
  pc = "done" =>
    \A k, l \in DOMAIN assets :
      LET a == assets[k]
          b == assets[l]
          AtPlaceOf(x, y) == [x EXCEPT !.location = y.location, !.evidence = y.evidence,
                                       !.module = y.module]
      IN (/\ Configured(a) /\ Negotiated(b)
          /\ a.name = b.name \/ \E state \in input.handshake : NamesNegotiated(a, b, state)) =>
           AtPlaceOf(a, b) = b

\* The algorithms of certificates, the names that findings of algorithms are
\* judged by, and the algorithms that a size may be stated of, each with what
\* it does.
keyAlgorithms == {"RSA", "ECDSA", "ED25519"}

AlgorithmNames ==
  {u.algorithm : u \in table} \cup {c.algorithm : c \in ciphers} \cup keyAlgorithms
    \cup {groups[id].name : id \in DOMAIN groups} \cup suiteConstants \cup SettingGroups \cup Gaps

SizedAlgorithms ==
  {<<u.algorithm, u.primitive>> : u \in table}
    \cup {<<c.algorithm, c.primitive>> : c \in ciphers} \cup {<<c.algorithm, "ae">> : c \in ciphers}
    \cup {<<name, primitive>> : name \in keyAlgorithms, primitive \in {"signature", "pke"}}

\* A category, and the verdict on the algorithm and the size it is of.
CategorizedBy(name, bits, category) ==
  [category |-> category, posture |-> judge(Asset(name, "algorithm", bits))]

Categorized ==
  {CategorizedBy(name, 0, nistCategory[name]) : name \in AlgorithmNames \cap DOMAIN nistCategory}
    \cup {CategorizedBy(use[1], bits, keyCategory[bits]) :
             use \in {u \in SizedAlgorithms : HasPrefix(u[1], "AES")},
             bits \in DOMAIN keyCategory}

Survives(x) == x.category \in 1..5 /\ x.posture \in {"quantum_reduced", "quantum_safe"}
NoWorse(x, y) ==
  (x.category > y.category /\ y.posture = "quantum_safe") => x.posture = "quantum_safe"

\* The tables of categories and of strengths agree with the classifier's: on
\* each category that is given, on a name with one of its own being judged by
\* that name, and on the strength of an algorithm that Shor's breaks.
LevelsAgree ==
  /\ \A x, y \in Categorized : Survives(x) /\ NoWorse(x, y)
  /\ \A name \in DOMAIN nistCategory :
       classificationTable[RowOf(name, "algorithm")].verdict # "symmetricSize"
  /\ \A bits \in DOMAIN modulusStrength : 2 * modulusStrength[bits] <= bits
  /\ \A use \in SizedAlgorithms :
       judge(Asset(use[1], "algorithm", 0)) = "quantum_vulnerable" =>
         /\ ~IsTripleDES(use[1])
         /\ HasModulus(use[1]) \/ HasCurve(use[1]) \/ use[2] \notin symmetric

\* The levels of the document agree with the posture beside them, though each
\* is read from a table of its own: a NIST category stands only by what
\* survives, a higher one never by a worse posture than a lower one, and what
\* Shor's algorithm breaks is never as strong as its key is long.
LevelsAgreeWithVerdict ==
  document # << >> => LevelsAgree /\ \A k, l \in DOMAIN document :
    LET a == document[k]
        b == document[l]
    IN /\ a.properties.quantum > 0 =>
            a.posture \in {"quantum_reduced", "quantum_safe"}
       /\ (a.properties.quantum > b.properties.quantum /\ b.properties.quantum > 0) =>
            (b.posture = "quantum_safe" => a.posture = "quantum_safe")
       /\ (a.posture = "quantum_vulnerable" /\ a.properties.parameterSet > 0) =>
            2 * a.properties.classical <= a.properties.parameterSet

\* A reference stands for one thing: two components with the same bom-ref are
\* the same line of the inventory, in whichever file and module they stand.
ReferencesTellApart ==
  \A k, l \in DOMAIN document :
    document[k].reference = document[l].reference => document[k] = document[l]

\* golden_test.go:93-95 takes a component that shares its bom-ref with an
\* earlier one for an error: no two components of a document share one.
ReferencesAreUnique ==
  \A k, l \in DOMAIN document :
    document[k].reference = document[l].reference => k = l

\* The printed table puts the postures that need a decision first
\* (main.go:348): whatever some rung of -fail-on trips on stands before
\* whatever none does, and every asset is printed.
DecisionsFirst ==
  (pc = "done" /\ document = << >>) =>
    /\ Len(listing) = Len(assets)
    /\ \A k, l \in DOMAIN listing :
         (listing[k].posture \in Rungs /\ listing[l].posture \notin Rungs) => k < l
=============================================================================
