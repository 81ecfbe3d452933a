----------------------------- MODULE MCSources -----------------------------
(***************************************************************************)
(* Small trees for Sources, each with its go.mod.  A node is named by its  *)
(* path, as GoMod spells it.                                               *)
(***************************************************************************)
EXTENDS Dependencies, TLC

\* The module cache is below the first directory of GOPATH.
MCEnv == [GOMODCACHE |-> "", GOPATH |-> <<"/go", "/other">>, home |-> "/home"]

\* Four modules: a is vendored and cached, B, a fork of b, cached, c replaced by
\* a directory beside the repository, and d by one that is nowhere, though d is
\* cached.
MCGoModText ==
  <<OnLine("module", <<"ours">>),
    OnLine("require", <<"a", "v1">>),
    InBlock("require", <<<<"b", "v1">>, << >>, <<"c", "v1">>, <<"d", "v1">>>>),
    InBlock("exclude", <<<<"b", "v0">>>>),
    InBlock("replace", <<<<"b", "=>", "nothing", "v1">>, <<"b", "v1", "=>", "B", "v2">>>>),
    OnLine("replace", <<"c", "=>", "../c">>),
    OnLine("replace", <<"d", "=>", "./d">>)>>

MCEntries ==
  "." :> <<".git", "go.mod", "internal", "main.go", "main_test.go", "vendor">>
  @@ ".git" :> <<".git/hook.go">>
  @@ "internal" :> <<"internal/token.go">>
  @@ "vendor" :> <<"vendor/a">>
  @@ "vendor/a" :> <<"vendor/a/a.go">>
  @@ "../c" :> <<"../c/c.go">>
  @@ "/go/pkg/mod/a@v1" :>
       <<"/go/pkg/mod/a@v1/a.go", "/go/pkg/mod/a@v1/a_test.go", "/go/pkg/mod/a@v1/testdata">>
  @@ "/go/pkg/mod/a@v1/testdata" :> <<"/go/pkg/mod/a@v1/testdata/t.go">>
  @@ "/go/pkg/mod/!b@v2" :> <<"/go/pkg/mod/!b@v2/bad.go", "/go/pkg/mod/!b@v2/sub">>
  @@ "/go/pkg/mod/!b@v2/sub" :> <<"/go/pkg/mod/!b@v2/sub/b.go">>
  @@ "/go/pkg/mod/d@v1" :> << >>

Dirs == DOMAIN MCEntries
Tree(entries) == UNION {{entries[d][i] : i \in DOMAIN entries[d]} : d \in DOMAIN entries}

MCNodes == Dirs \cup Tree(MCEntries)
Files(nodes, entries) == [n \in nodes |-> IF n \in DOMAIN entries THEN entries[n] ELSE << >>]
MCAllEntries == Files(MCNodes, MCEntries)

MCKind ==
  [n \in MCNodes |->
     CASE n \in Dirs -> "dir"
       [] n = "go.mod" -> "other"
       [] n = "/go/pkg/mod/!b@v2/bad.go" -> "malformed"
       [] n \in {"main_test.go", "/go/pkg/mod/a@v1/a_test.go"} -> "test"
       [] OTHER -> "source"]

MCName ==
  [n \in MCNodes |->
     CASE n = "vendor" -> "vendor"
       [] n = ".git" -> "hidden"
       [] n = "/go/pkg/mod/a@v1/testdata" -> "testdata"
       [] OTHER -> "plain"]

\* What go.mod comes to is worked out once: TLC keeps the value of MCModules,
\* and would evaluate the definition a constant stands for in every ENABLED.
MCModules == RequiredBy(MCGoModText)
MCRequired == MCModules
MCPlaces == WhereBy(MCGoModText)
MCWhere == MCPlaces

\* With a vendor directory, without one, and with half of the cache.
MCDisks ==
  {MCNodes, MCNodes \ Under("vendor"),
   MCNodes \ (Under("vendor") \cup Under("/go/pkg/mod/!b@v2"))}

\* Every go.mod of up to three of these directives.
MCDirectives ==
  {OnLine("go", <<"1.24">>),
   OnLine("require", <<"a", "v1">>),
   InBlock("require", <<<<"a", "v2">>, << >>, <<"b", "v1">>>>),
   OnLine("replace", <<"a", "v1", "=>", "c", "v3">>),
   OnLine("replace", <<"a", "=>", "./a">>),
   InBlock("replace", <<<<"b", "v1", "=>", "/b">>, <<"a", "=>", "d", "v4">>>>),
   InBlock("exclude", <<<<"a", "v3">>>>),
   InBlock("replace", << >>)}
MCOtherGoMods == UNION {[1..n -> MCDirectives] : n \in 0..3}
MCNoOtherGoMods == {<< >>}

\* The main layout is one the theorems with a hypothesis on layouts speak of.
ASSUME MainLayoutAssumption ==
  Where = MCPlaces =>
    /\ TreesApart /\ PlacesAreDirectories /\ Kind[Root] # "link"
    /\ RedirectedAreNotVendored

-----------------------------------------------------------------------------
\* A vendored module whose path begins with another vendored module's.
NestedGoModText ==
  <<InBlock("require", <<<<"otel", "v1">>, <<"otel/trace", "v1">>>>)>>
NestedEntries ==
  "." :> <<"go.mod", "vendor">>
  @@ "vendor" :> <<"vendor/otel">>
  @@ "vendor/otel" :> <<"vendor/otel/trace">>
  @@ "vendor/otel/trace" :> <<"vendor/otel/trace/t.go">>
NestedDirs == DOMAIN NestedEntries
NestedNodes == NestedDirs \cup Tree(NestedEntries)
NestedAllEntries == Files(NestedNodes, NestedEntries)
NestedKind ==
  [n \in NestedNodes |->
     CASE n \in NestedDirs -> "dir" [] n = "go.mod" -> "other" [] OTHER -> "source"]
NestedName == [n \in NestedNodes |-> IF n = "vendor" THEN "vendor" ELSE "plain"]
NestedRequired == RequiredBy(NestedGoModText)
NestedWhere == WhereBy(NestedGoModText)
NestedDisks == {NestedNodes}

-----------------------------------------------------------------------------
\* A module replaced by a directory that is a symbolic link.
LinkedGoModText ==
  <<OnLine("require", <<"c", "v1">>), OnLine("replace", <<"c", "=>", "../fork">>)>>
LinkedEntries ==
  "." :> <<"go.mod">>
  @@ "../fork" :> <<"../checkout">>
  @@ "../checkout" :> <<"../checkout/c.go">>
LinkedNodes == DOMAIN LinkedEntries \cup Tree(LinkedEntries) \cup {"vendor"}
LinkedAllEntries == Files(LinkedNodes, LinkedEntries)
LinkedKind ==
  [n \in LinkedNodes |->
     CASE n \in {".", "../checkout", "vendor"} -> "dir"
       [] n = "../fork" -> "link"
       [] n = "go.mod" -> "other"
       [] OTHER -> "source"]
LinkedName == [n \in LinkedNodes |-> IF n = "vendor" THEN "vendor" ELSE "plain"]
LinkedRequired == RequiredBy(LinkedGoModText)
LinkedWhere == WhereBy(LinkedGoModText)
LinkedDisks == {LinkedNodes \ {"vendor"}}

-----------------------------------------------------------------------------
\* A vendored module that is replaced by a fork, as go mod vendor leaves it.
ReplacedGoModText ==
  <<OnLine("require", <<"a", "v1">>), OnLine("replace", <<"a", "=>", "fork", "v1">>)>>
ReplacedEntries ==
  "." :> <<"go.mod", "vendor">>
  @@ "vendor" :> <<"vendor/a">>
  @@ "vendor/a" :> <<"vendor/a/a.go">>
ReplacedDirs == DOMAIN ReplacedEntries
ReplacedNodes == ReplacedDirs \cup Tree(ReplacedEntries)
ReplacedAllEntries == Files(ReplacedNodes, ReplacedEntries)
ReplacedKind ==
  [n \in ReplacedNodes |->
     CASE n \in ReplacedDirs -> "dir" [] n = "go.mod" -> "other" [] OTHER -> "source"]
ReplacedName == [n \in ReplacedNodes |-> IF n = "vendor" THEN "vendor" ELSE "plain"]
ReplacedRequired == RequiredBy(ReplacedGoModText)
ReplacedWhere == WhereBy(ReplacedGoModText)
ReplacedDisks == {ReplacedNodes}
=============================================================================
