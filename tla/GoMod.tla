------------------------------- MODULE GoMod --------------------------------
(***************************************************************************)
(* Reading go.mod without the go command: parseGoMod, parseReplace and     *)
(* replacementFor of internal/scan/modules.go, and where the source of a   *)
(* module they name would be on disk.                                      *)
(*                                                                         *)
(* A line is its fields, comments cut off; what "// indirect" says of a    *)
(* requirement is read and then asked by nobody, and left out.             *)
(***************************************************************************)
EXTENDS Spelling, Lists

\* The zero value of a string, and what is not a word in a go.mod.
Unset == ""
Arrow == "=>"
Opening == "("
Closing == ")"

Requirement(path, version) == [path |-> path, version |-> version]

\* A module at a version.
At(path, version) == path \o "@" \o version

Coordinate(m) == IF m.version = Unset THEN m.path ELSE At(m.path, m.version)

-----------------------------------------------------------------------------
\* replace old [version] => dir, or => new version: one directive or none, as
\* what it replaces and by what.
parseReplace(fields) ==
  LET arrows == {k \in DOMAIN fields : fields[k] = Arrow}
      arrow == CHOOSE k \in arrows : \A l \in arrows : k <= l
      right == SubSeq(fields, arrow + 1, Len(fields))
      Read ==
        [from |-> IF arrow > 2 THEN At(fields[1], fields[2]) ELSE fields[1],
         to |-> IF Len(right) = 1
                THEN [dir |-> right[1], path |-> Unset, version |-> Unset]
                ELSE [dir |-> Unset, path |-> right[1], version |-> right[2]]]
  IN IF arrows = {} THEN {}
     ELSE IF arrow \in {1, Len(fields)} THEN {} ELSE {Read}

\* A later directive for the same name takes the place of an earlier one.
Put(replacements, r) ==
  [from \in DOMAIN replacements \cup {r.from} |->
     IF from = r.from THEN r.to ELSE replacements[from]]

Directive(mod, kind, fields) ==
  CASE kind = "require" ->
         IF Len(fields) < 2 THEN mod
         ELSE [mod EXCEPT !.required = Append(@, Requirement(fields[1], fields[2]))]
    [] kind = "replace" ->
         IF parseReplace(fields) = {} THEN mod
         ELSE LET r == CHOOSE x \in parseReplace(fields) : TRUE
              IN [mod EXCEPT !.replacements = Put(@, r)]

\* One line, in the block that is open or outside of any.
ReadLine(mod, fields) ==
  CASE fields # << >> /\ mod.block # Unset ->
         IF Head(fields) = Closing THEN [mod EXCEPT !.block = Unset]
         ELSE Directive(mod, mod.block, fields)
    [] /\ fields # << >> /\ mod.block = Unset
       /\ Head(fields) \in {"require", "replace"} ->
         IF Tail(fields) = <<Opening>> THEN [mod EXCEPT !.block = Head(fields)]
         ELSE Directive(mod, Head(fields), Tail(fields))
    [] OTHER -> mod

parseGoMod(lines) ==
  LET after[n \in 0..Len(lines)] ==
        IF n = 0 THEN [block |-> Unset, required |-> << >>, replacements |-> << >>]
        ELSE ReadLine(after[n - 1], lines[n])
  IN after[Len(lines)]

-----------------------------------------------------------------------------
\* A bug: a directive for one version of a module is not asked for.
replacementForAnyVersion(replacements, m) ==
  {replacements[from] : from \in {m.path} \cap DOMAIN replacements}

\* The directive for this version, then the one for every version, if any.
replacementFor(replacements, m) ==
  LET versioned == At(m.path, m.version)
      from == IF versioned \in DOMAIN replacements THEN versioned ELSE m.path
  IN {replacements[f] : f \in {from} \cap DOMAIN replacements}

\* A module as Modules names it, and the directory that replaces it, if any.
Named(replacements, m) ==
  LET rs == replacementFor(replacements, m)
      r == CHOOSE x \in rs : TRUE
  IN CASE rs = {} -> [path |-> m.path, version |-> m.version, dir |-> Unset]
       [] rs # {} /\ r.dir # Unset -> [path |-> m.path, version |-> m.version, dir |-> r.dir]
       [] rs # {} /\ r.dir = Unset ->
            [path |-> r.path, version |-> r.version, dir |-> Unset]

NamedIn(mod) == [k \in DOMAIN mod.required |-> Named(mod.replacements, mod.required[k])]

ModulesOf(lines) == NamedIn(parseGoMod(lines))

-----------------------------------------------------------------------------
\* The places of a module's source, below a root that is the directory ".".

Capitals == "ABCDEFGHIJKLMNOPQRSTUVWXYZ"
Smalls == "abcdefghijklmnopqrstuvwxyz"

\* The module cache's spelling on a case-insensitive file system.
escape(name) ==
  LET Letter(c) == CHOOSE k \in 1..26 : SubSeq(Capitals, k, k) = c
      Spelled(c) == IF Contains(Capitals, c)
                    THEN "!" \o SubSeq(Smalls, Letter(c), Letter(c)) ELSE c
      spelled[n \in 0..Len(name)] ==
        IF n = 0 THEN "" ELSE spelled[n - 1] \o Spelled(SubSeq(name, n, n))
  IN spelled[Len(name)]

\* env holds the variables and the home directory; GOPATH is a list.
moduleCache(env) ==
  CASE env.GOMODCACHE # Unset -> env.GOMODCACHE
    [] env.GOMODCACHE = Unset /\ env.GOPATH # << >> -> Head(env.GOPATH) \o "/pkg/mod"
    [] env.GOMODCACHE = Unset /\ env.GOPATH = << >> ->
         IF env.home = Unset THEN Unset ELSE env.home \o "/go/pkg/mod"

InVendor(path) == "vendor/" \o path

InCache(env, m) ==
  IF moduleCache(env) = Unset \/ m.version = Unset THEN Unset
  ELSE moduleCache(env) \o "/" \o escape(m.path) \o "@" \o escape(m.version)

\* filepath.Join(root, dir), or dir itself where it is absolute.
InDirectory(dir) == IF HasPrefix(dir, "./") THEN SubSeq(dir, 3, Len(dir)) ELSE dir
=============================================================================
