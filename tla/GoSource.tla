------------------------------ MODULE GoSource ------------------------------
(***************************************************************************)
(* Reading one Go file: File of internal/scan/gosource.go.  The imports    *)
(* say which local name stands for which package; then ast.Inspect visits  *)
(* the tree in source order, a node before what is inside it, and a call   *)
(* or a crypto/tls configuration literal becomes findings.                 *)
(*                                                                         *)
(* Go's parser is external: a file is its imports and a tree whose nodes   *)
(* keep what the reader asks of them.  recv and name are the two parts of  *)
(* recv.name where a call's function, a literal's type or an expression is *)
(* written that way, and "" otherwise.  What is inside such a selector is  *)
(* an identifier, which nothing is read from.                              *)
(***************************************************************************)
EXTENDS Probe

\* A call, a composite literal with its elements, a key: value pair, recv.name,
\* an integer, or anything else that holds expressions.
NodeKinds == {"call", "literal", "field", "selector", "int", "other"}

Node(node, line, recv, name, children) ==
  [node |-> node, line |-> line, recv |-> recv, name |-> name,
   value |-> 0, children |-> children]

Call(line, recv, name, args) == Node("call", line, recv, name, args)
Literal(line, recv, name, elements) == Node("literal", line, recv, name, elements)
Field(line, name, value) == Node("field", line, "", name, <<value>>)
Selector(line, recv, name) == Node("selector", line, recv, name, << >>)
Other(line, children) == Node("other", line, "", "", children)

\* An integer as strconv.Atoi reads it; one it does not read, like 0x800, is a
\* node that holds no expression.
IntLit(line, value) == [Node("int", line, "", "", << >>) EXCEPT !.value = value]

VARIABLES
  file,       \* [path, imports, body]
  stage,      \* "imports", "walk" or "read"
  packages,   \* the import path each local name stands for
  todo,       \* the nodes the walk has still to visit, the next one first
  found       \* the findings

fileVars == <<file, stage, packages, todo, found>>

-----------------------------------------------------------------------------
\* The table: import path, function, and what a call of it tells.

Uses(path, functions, algorithm, primitive, keySize) ==
  {[path |-> path, function |-> f, algorithm |-> algorithm,
    primitive |-> primitive, keySize |-> keySize] : f \in functions}

table ==
  UNION
    {Uses("crypto/rsa", {"GenerateKey", "EncryptOAEP", "EncryptPKCS1v15"}, "RSA", "pke", 0),
     Uses("crypto/rsa", {"SignPKCS1v15", "SignPSS"}, "RSA", "signature", 0),
     Uses("crypto/ecdsa", {"GenerateKey", "Sign", "SignASN1", "Verify", "VerifyASN1"},
          "ECDSA", "signature", 0),
     Uses("crypto/ed25519", {"GenerateKey", "Sign", "Verify"}, "ED25519", "signature", 256),
     Uses("crypto/ecdh", {"P256"}, "ECDH", "key-agree", 256),
     Uses("crypto/ecdh", {"P384"}, "ECDH", "key-agree", 384),
     Uses("crypto/ecdh", {"P521"}, "ECDH", "key-agree", 521),
     Uses("crypto/ecdh", {"X25519"}, "X25519", "key-agree", 256),
     Uses("crypto/aes", {"NewCipher"}, "AES", "block-cipher", 0),
     Uses("crypto/des", {"NewCipher"}, "DES", "block-cipher", 56),
     Uses("crypto/des", {"NewTripleDESCipher"}, "3DES", "block-cipher", 168),
     Uses("crypto/rc4", {"NewCipher"}, "RC4", "block-cipher", 0),
     Uses("crypto/md5", {"New", "Sum"}, "MD5", "hash", 0),
     Uses("crypto/sha1", {"New", "Sum"}, "SHA-1", "hash", 0),
     Uses("crypto/sha256", {"New", "Sum256"}, "SHA-256", "hash", 0),
     Uses("crypto/sha256", {"New224", "Sum224"}, "SHA-224", "hash", 0),
     Uses("crypto/sha512", {"New", "Sum512"}, "SHA-512", "hash", 0),
     Uses("crypto/sha512", {"New384", "Sum384"}, "SHA-384", "hash", 0),
     Uses("crypto/hmac", {"New"}, "HMAC", "mac", 0),
     Uses("golang.org/x/crypto/chacha20poly1305", {"New", "NewX"},
          "CHACHA20-POLY1305", "block-cipher", 256),
     Uses("crypto/mlkem", {"GenerateKey768"}, "ML-KEM-768", "kem", 0),
     Uses("crypto/mlkem", {"GenerateKey1024"}, "ML-KEM-1024", "kem", 0)}

curveNames ==
  [curve \in {"P224", "P256", "P384", "P521"} |->
     CASE curve = "P224" -> 224 [] curve = "P256" -> 256
       [] curve = "P384" -> 384 [] curve = "P521" -> 521]

watched(path) ==
  path \in {u.path : u \in table} \cup {"crypto/elliptic", "crypto/tls"}

-----------------------------------------------------------------------------
\* Imports.

\* The name an import is called by in the file; name is "" where none is written.
local(imp) == IF imp.name # "" THEN imp.name ELSE AfterLast(imp.path, "/")

\* A blank or dot import gives no call site to attribute.
Resolves(imp) == watched(imp.path) /\ imp.name \notin {"_", "."}

\* A name stands for what the last import that gives it says.
Resolved(imports) ==
  LET resolved == {k \in DOMAIN imports : Resolves(imports[k])}
      last(name) == CHOOSE k \in resolved :
                      /\ local(imports[k]) = name
                      /\ \A l \in resolved : local(imports[l]) = name => l <= k
  IN [name \in {local(imports[k]) : k \in resolved} |-> imports[last(name)].path]

\* The package a name stands for in this file, "" for none.
PackageOf(recv) == IF recv \in DOMAIN packages THEN packages[recv] ELSE ""

-----------------------------------------------------------------------------
\* Calls.

\* What the call of a node means: one use of the table, or none.
Meaning(n) == {u \in table : u.path = PackageOf(n.recv) /\ u.function = n.name}

\* curveArgument: elliptic.P256() written as an argument.
CurveArgument(n) ==
  {c \in DOMAIN curveNames :
     n.node = "call" /\ PackageOf(n.recv) = "crypto/elliptic" /\ n.name = c}

\* A bug: a size that is no literal is filled with the usual one.
enrichByDefault(a, u, args) ==
  IF u.path = "crypto/rsa" /\ u.function = "GenerateKey"
  THEN [a EXCEPT !.keySize = 2048, !.name = "RSA-2048"]
  ELSE a

\* Parameters are read where they are literal, and left unset elsewhere.
enrich(a, u, args) ==
  CASE /\ u.path = "crypto/rsa" /\ u.function = "GenerateKey"
       /\ Len(args) >= 2 /\ args[2].node = "int" ->
         [a EXCEPT !.keySize = args[2].value,
                   !.name = "RSA-" \o ToString(args[2].value),
                   !.evidence = @ \o <<"with", ToString(args[2].value)>>]
    [] /\ u.path = "crypto/ecdsa" /\ u.function = "GenerateKey"
       /\ Len(args) >= 1 /\ CurveArgument(args[1]) # {} ->
         LET curve == CHOOSE c \in CurveArgument(args[1]) : TRUE
         IN [a EXCEPT !.keySize = curveNames[curve], !.curve = curve,
                      !.name = "ECDSA-" \o curve,
                      !.evidence = @ \o <<"on", curve>>]
    [] OTHER -> a

callAsset(n, u) ==
  enrich([Algorithm(u.algorithm, u.primitive, u.algorithm,
                    InFile(file.path, n.line), <<n.recv, n.name>>)
            EXCEPT !.keySize = u.keySize],
         u, n.children)

-----------------------------------------------------------------------------
\* Configuration literals.

\* unstated is the finding's name where the value is no crypto/tls constant.
configuredFields ==
  [field \in {"MinVersion", "MaxVersion", "CipherSuites", "CurvePreferences"} |->
     CASE field \in {"MinVersion", "MaxVersion"} ->
            [list |-> FALSE, kind |-> "protocol", primitive |-> "",
             unstated |-> "UNSTATED TLS VERSION"]
       [] field = "CipherSuites" ->
            [list |-> TRUE, kind |-> "algorithm", primitive |-> "unknown",
             unstated |-> "UNSTATED CIPHER SUITE"]
       [] field = "CurvePreferences" ->
            [list |-> TRUE, kind |-> "algorithm", primitive |-> "key-agree",
             unstated |-> "UNSTATED KEY EXCHANGE GROUP"]]

\* The reading of the probe a field's constants get.
reading(field, constant, at) ==
  CASE field \in {"MinVersion", "MaxVersion"} -> VersionAsset(constant, at)
    [] field = "CipherSuites"                 -> SuiteAsset(constant, at)
    [] field = "CurvePreferences"             -> GroupAsset(constant, at)

unread(field, line) ==
  LET f == configuredFields[field]
  IN Finding(f.unstated, f.kind, f.primitive, "", InFile(file.path, line),
             <<"tls.Config", field, "is not a crypto/tls constant here">>)

\* One value of a field: what the constant there says, or that it says nothing.
fieldAsset(field, value) ==
  LET read == IF value.node = "selector" /\ PackageOf(value.recv) = "crypto/tls"
              THEN reading(field, value.name, InFile(file.path, value.line)) ELSE {}
  IN IF read = {} THEN unread(field, value.line)
     ELSE LET a == CHOOSE x \in read : TRUE
          IN [a EXCEPT !.evidence = <<"tls.Config", field>> \o @]

\* A bug: a list that is no literal says nothing.
fieldAssetsOfLiterals(pair) ==
  LET value == pair.children[1]
      values == CASE ~configuredFields[pair.name].list -> <<value>>
                  [] value.node = "literal" -> value.children
                  [] OTHER -> << >>
  IN [k \in DOMAIN values |-> fieldAsset(pair.name, values[k])]

fieldAssets(pair) ==
  LET value == pair.children[1]
      list == configuredFields[pair.name].list
      values == IF list /\ value.node = "literal" THEN value.children ELSE <<value>>
  IN IF list /\ value.node # "literal" THEN <<unread(pair.name, value.line)>>
     ELSE [k \in DOMAIN values |-> fieldAsset(pair.name, values[k])]

IsConfig(n) == n.name = "Config" /\ PackageOf(n.recv) = "crypto/tls"

tlsConfig(n) ==
  LET elements == {n.children[k] : k \in DOMAIN n.children}
      pairs == Only(n.children, {element \in elements :
                  element.node = "field" /\ element.name \in DOMAIN configuredFields})
  IN Seqs!FlattenSeq([k \in DOMAIN pairs |-> fieldAssets(pairs[k])])

-----------------------------------------------------------------------------
\* File.

InitFile(f) ==
  /\ file = f
  /\ stage = "imports"
  /\ packages = << >>
  /\ todo = << >>
  /\ found = << >>

\* No import of the file is watched: nothing in it is visited.
NoWatchedImport ==
  /\ stage = "imports"
  /\ DOMAIN Resolved(file.imports) = {}
  /\ stage' = "read"
  /\ UNCHANGED <<file, packages, todo, found>>

ResolveImports ==
  /\ stage = "imports"
  /\ DOMAIN Resolved(file.imports) # {}
  /\ packages' = Resolved(file.imports)
  /\ todo' = file.body
  /\ stage' = "walk"
  /\ UNCHANGED <<file, found>>

\* A bug: what is inside a call that was reported is not visited.
VisitCallWhole ==
  /\ stage = "walk" /\ todo # << >>
  /\ Head(todo).node = "call" /\ Meaning(Head(todo)) # {}
  /\ \E u \in Meaning(Head(todo)) : found' = Append(found, callAsset(Head(todo), u))
  /\ todo' = Tail(todo)
  /\ UNCHANGED <<file, stage, packages>>

\* The callback returns true whatever it found, so the children come next.
Descend ==
  /\ todo' = Head(todo).children \o Tail(todo)
  /\ UNCHANGED <<file, stage, packages>>

VisitCall ==
  /\ stage = "walk" /\ todo # << >>
  /\ Head(todo).node = "call" /\ Meaning(Head(todo)) # {}
  /\ \E u \in Meaning(Head(todo)) : found' = Append(found, callAsset(Head(todo), u))
  /\ Descend

VisitConfig ==
  /\ stage = "walk" /\ todo # << >>
  /\ Head(todo).node = "literal" /\ IsConfig(Head(todo))
  /\ found' = found \o tlsConfig(Head(todo))
  /\ Descend

VisitOther ==
  /\ stage = "walk" /\ todo # << >>
  /\ Head(todo).node = "call" => Meaning(Head(todo)) = {}
  /\ Head(todo).node = "literal" => ~IsConfig(Head(todo))
  /\ Descend
  /\ UNCHANGED found

EndOfFile ==
  /\ stage = "walk" /\ todo = << >>
  /\ stage' = "read"
  /\ UNCHANGED <<file, packages, todo, found>>

ReadFile == NoWatchedImport \/ ResolveImports \/ VisitCall \/ VisitConfig \/ VisitOther \/ EndOfFile
=============================================================================
