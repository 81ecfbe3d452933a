---------------------------- MODULE Dependencies ----------------------------
(***************************************************************************)
(* The source collectors of Sources, on the modules a go.mod names: what   *)
(* they require, and where each may be, is what GoMod reads in its lines.  *)
(***************************************************************************)
EXTENDS Sources, GoMod

CONSTANTS
  GoModText,    \* go.mod, directive by directive
  Env,          \* GOMODCACHE, GOPATH and the home directory
  OtherGoMods   \* what else a go.mod may hold

\* A directive in the block form, verb ( ... ), or on a line of its own.
InBlock(verb, entries) == [verb |-> verb, block |-> TRUE, entries |-> entries]
OnLine(verb, entry) == [verb |-> verb, block |-> FALSE, entries |-> <<entry>>]

Lines(directives) ==
  Seqs!FlattenSeq(
    [k \in DOMAIN directives |->
       LET d == directives[k]
       IN IF d.block THEN <<<<d.verb, Opening>>>> \o d.entries \o <<<<Closing>>>>
          ELSE <<<<d.verb>> \o d.entries[1]>>])

\* The tree's own name of a place, where there may be something at all.
OnTree(path) == IF path \in Nodes THEN path ELSE NoDir

PlaceOf(m) ==
  [byDirectory |-> m.dir # Unset,
   local |-> IF m.dir = Unset THEN NoDir ELSE OnTree(InDirectory(m.dir)),
   vendor |-> OnTree(InVendor(m.path)),
   cache |-> OnTree(InCache(Env, m))]

RequiredBy(directives) ==
  LET ms == ModulesOf(Lines(directives)) IN [k \in DOMAIN ms |-> Coordinate(ms[k])]

WhereBy(directives) ==
  LET ms == ModulesOf(Lines(directives))
  IN [c \in {Coordinate(ms[k]) : k \in DOMAIN ms} |->
        PlaceOf(ms[CHOOSE k \in DOMAIN ms : Coordinate(ms[k]) = c])]

ASSUME GoModAssumption ==
  /\ Required = RequiredBy(GoModText)
  /\ Where = WhereBy(GoModText)

-----------------------------------------------------------------------------
\* What the directives say, without the lines they are written in.

\* The entries of the directives with this verb, in their order, and those that
\* are not blank lines.
Written(directives, verb) ==
  Seqs!FlattenSeq(
    [k \in DOMAIN directives |->
       IF directives[k].verb = verb THEN directives[k].entries ELSE << >>])

EntriesOf(directives, verb) == Only(Written(directives, verb), Seq(STRING) \ {<< >>})

\* The entry of a replace directive has these words before its arrow.
Replaces(entry, left) ==
  /\ Len(entry) > Len(left)
  /\ SubSeq(entry, 1, Len(left)) = left
  /\ entry[Len(left) + 1] = Arrow

\* What the last of them puts in the place of what the words name.
ReplacedBy(directives, left) ==
  LET replaces == EntriesOf(directives, "replace")
      hits == {k \in DOMAIN replaces : Replaces(replaces[k], left)}
      last == replaces[CHOOSE k \in hits : \A l \in hits : l <= k]
  IN IF hits = {} THEN << >> ELSE SubSeq(last, Len(left) + 2, Len(last))

\* What ships instead of a requirement: the directive for its version goes
\* before the one for every version.
InsteadOf(directives, entry) ==
  LET this == ReplacedBy(directives, entry)
  IN IF this # << >> THEN this ELSE ReplacedBy(directives, <<entry[1]>>)

\* The path and version of the code that ships for a requirement.  A directory
\* carries no version, and the module keeps its name.
CodeOf(directives, entry) ==
  LET by == InsteadOf(directives, entry) IN IF Len(by) = 2 THEN by ELSE entry

Ships(directives, entry) ==
  LET code == CodeOf(directives, entry) IN At(code[1], code[2])

Answers(directives) ==
  LET requires == EntriesOf(directives, "require")
  IN [k \in DOMAIN requires |-> Ships(directives, requires[k])]

-----------------------------------------------------------------------------
\* The go.mod files the go command accepts, as far as reading them depends on it.

Directives == [verb : STRING, block : BOOLEAN, entries : Seq(Seq(STRING))]

IsWord(word) == word \notin {Unset, Arrow, Opening, Closing}

\* path version
IsRequire(entry) == Len(entry) = 2 /\ \A i \in DOMAIN entry : IsWord(entry[i])

\* old [version] => directory, or => new version: k is where the arrow stands.
ArrowAt(entry, k) ==
  /\ Len(entry) \in {k + 1, k + 2}
  /\ entry[k] = Arrow
  /\ \A i \in DOMAIN entry \ {k} : IsWord(entry[i])

IsReplace(entry) == ArrowAt(entry, 2) \/ ArrowAt(entry, 3)

\* An entry may be blank.  In no other block does one begin like a requirement or
\* a replacement on a line of its own.
IsEntry(d, entry) ==
  \/ entry = << >>
  \/ d.verb = "require" /\ IsRequire(entry)
  \/ d.verb = "replace" /\ IsReplace(entry)
  \/ /\ d.verb \notin {"require", "replace"}
     /\ d.block => entry[1] \notin {"require", "replace"}

IsDirective(d) ==
  /\ d.block \/ Len(d.entries) = 1
  /\ \A i \in DOMAIN d.entries : IsEntry(d, d.entries[i])

\* A module or one version of it, as the words an entry begins with, and as the
\* one string parseGoMod files it under.
NamesIn(entry) == {SubSeq(entry, 1, n) : n \in {k \in 1..2 : \A i \in 1..k : IsWord(entry[i])}}
Spelled(name) == IF Len(name) = 1 THEN name[1] ELSE At(name[1], name[2])

\* No path holds the sign that sets its version apart.
SpelledApart(entries) ==
  LET names == UNION {NamesIn(entries[k]) : k \in DOMAIN entries}
  IN \A a, b \in names : Spelled(a) = Spelled(b) => a = b

WellFormed(directives) ==
  /\ directives \in Seq(Directives)
  /\ \A k \in DOMAIN directives : IsDirective(directives[k])
  /\ SpelledApart(EntriesOf(directives, "require") \o EntriesOf(directives, "replace"))

ASSUME GoModsAssumption ==
  \A directives \in OtherGoMods \cup {GoModText} : WellFormed(directives)

-----------------------------------------------------------------------------
\* Properties.

FormsAreRead == \A directives \in OtherGoMods : RequiredBy(directives) = Answers(directives)

\* Every module that go.mod requires, in whichever form it is written and
\* whatever replaces it, is answered for under the coordinate of the code that
\* ships (modules.go:24-26, 240-242): read, or named as missing.
RequirementsAnswered ==
  /\ FormsAreRead
  /\ pc = "done" =>
       LET answers == Answers(GoModText)
       IN {answers[k] : k \in DOMAIN answers} = read \cup missing

\* go mod vendor writes a module under the path it is required by, whatever
\* replaces it.
VendoredAt(entry) == OnTree(InVendor(entry[1]))

\* Where the source that is built for a requirement may be: in the vendor
\* directory where there is one, in the directory that replaces it, and
\* otherwise in the module cache.
SourcesOf(entry) ==
  LET by == InsteadOf(GoModText, entry)
      code == CodeOf(GoModText, entry)
      cached == OnTree(InCache(Env, Requirement(code[1], code[2])))
  IN {n \in {VendoredAt(entry)} : vendored}
     \cup {OnTree(InDirectory(by[k])) : k \in {l \in DOMAIN by : Len(by) = 1}}
     \cup {n \in {cached} : ~vendored /\ Len(by) # 1}

\* Missing are the required modules whose source is not on disk
\* (modules.go:43-45): where a module is named, each place that go.mod and the
\* vendor directory leave for what is built was empty at some moment of the run.
MissingWasAbsent ==
  pc = "done" =>
    LET requires == EntriesOf(GoModText, "require")
    IN \A k \in DOMAIN requires :
         Ships(GoModText, requires[k]) \in missing =>
           \A n \in SourcesOf(requires[k]) : n = NoDir \/ n \notin disk \ touched

\* What a directory or another path replaces is not in the vendor directory.
RedirectedAreNotVendored ==
  LET requires == EntriesOf(GoModText, "require")
      by(k) == InsteadOf(GoModText, requires[k])
  IN \A k \in DOMAIN requires :
       (by(k) # << >> /\ (Len(by(k)) = 1 \/ by(k)[1] # requires[k][1])) =>
         VendoredAt(requires[k]) = NoDir
=============================================================================
