------------------------------ MODULE Document ------------------------------
(***************************************************************************)
(* What becomes of a judged finding: a component of the CycloneDX document *)
(* (internal/cbom/cbom.go) or a line of the printed table (report of       *)
(* cmd/cbomscope/main.go).                                                 *)
(*                                                                         *)
(* A reference is what is hashed into it: SHA-256 is taken to tell any two *)
(* inputs apart.  Rationales, timestamps and the tool's name are left out. *)
(***************************************************************************)
EXTENDS Findings

-----------------------------------------------------------------------------
\* Levels.  0 stands for a level that is left out.

modulusStrength ==
  1024 :> 80 @@ 2048 :> 112 @@ 3072 :> 128 @@ 7680 :> 192 @@ 15360 :> 256

nistCategory ==
  "ML-KEM-512" :> 1 @@ "ML-KEM-768" :> 3 @@ "ML-KEM-1024" :> 5
  @@ "ML-DSA-44" :> 2 @@ "ML-DSA-65" :> 3 @@ "ML-DSA-87" :> 5
  @@ "SHA-256" :> 2 @@ "SHA3-256" :> 2 @@ "SHA-384" :> 4 @@ "SHA3-384" :> 4

keyCategory ==
  [bits \in {128, 192, 256} |-> CASE bits = 128 -> 1 [] bits = 192 -> 3 [] bits = 256 -> 5]

LevelOf(levels, x) == IF x \in DOMAIN levels THEN levels[x] ELSE 0

HasOneOf(name, prefixes) == \E part \in prefixes : HasPrefix(name, part)

IsTripleDES(name) == HasPrefix(name, "3DES") \/ Contains(name, "TRIPLEDES")
HasModulus(name) == HasOneOf(name, {"RSA", "DSA"}) \/ name = "DH"
HasCurve(name) == HasOneOf(name, {"EC", "ED", "X25519", "X448"})

\* The primitives whose key is as strong as it is long.
symmetric == {"block-cipher", "ae", "mac"}

classicalSecurityLevel(a) ==
  LET name == family(a)
  IN CASE IsTripleDES(name) -> 112
       [] HasModulus(name)  -> LevelOf(modulusStrength, a.keySize)
       [] HasCurve(name)    -> a.keySize \div 2
       [] OTHER             -> IF a.primitive \in symmetric THEN a.keySize ELSE 0

\* A bug: a key of any algorithm has the category of its size.
categoryOfAnySize(a) ==
  IF family(a) \in DOMAIN nistCategory THEN nistCategory[family(a)]
  ELSE LevelOf(keyCategory, a.keySize)

quantumSecurityLevel(a) ==
  CASE family(a) \in DOMAIN nistCategory -> nistCategory[family(a)]
    [] family(a) \notin DOMAIN nistCategory /\ HasPrefix(family(a), "AES") ->
         LevelOf(keyCategory, a.keySize)
    [] OTHER -> 0

algorithmProperties(a) ==
  [primitive |-> a.primitive, parameterSet |-> a.keySize, curve |-> a.curve,
   mode |-> a.mode, classical |-> classicalSecurityLevel(a),
   quantum |-> quantumSecurityLevel(a)]

NoProperties ==
  [primitive |-> "", parameterSet |-> 0, curve |-> "", mode |-> "",
   classical |-> 0, quantum |-> 0]

-----------------------------------------------------------------------------
\* Components.

reference(a) == <<a.name, a.kind, Position(a.location), a.evidence>>

component(a) ==
  [reference |-> reference(a), name |-> a.name, assetType |-> a.kind,
   properties |-> IF a.kind = "algorithm" THEN algorithmProperties(a) ELSE NoProperties,
   posture |-> a.posture, citation |-> a.citation, module |-> a.module,
   occurrence |-> Position(a.location)]

Build(assets) == [k \in DOMAIN assets |-> component(assets[k])]

-----------------------------------------------------------------------------
\* The printed table.

\* A bug: the list is not extended when a posture is.
orderWithoutHybrid ==
  <<"broken", "quantum_vulnerable", "quantum_reduced", "unknown", "quantum_safe",
    "not_applicable">>

order ==
  <<"broken", "quantum_vulnerable", "quantum_reduced", "unknown", "hybrid",
    "quantum_safe", "not_applicable">>

\* slices.Index, where 0 stands for its -1: not in the list comes first.
IndexOf(posture) ==
  IF \E k \in DOMAIN order : order[k] = posture
  THEN CHOOSE k \in DOMAIN order : order[k] = posture
  ELSE 0

\* A stable sort by the index: the findings of one posture keep their order.
report(assets) ==
  LET Standing(k) == {a \in {assets[l] : l \in DOMAIN assets} : IndexOf(a.posture) = k}
  IN Seqs!FlattenSeq([k \in 1..(Len(order) + 1) |-> Only(assets, Standing(k - 1))])
=============================================================================
