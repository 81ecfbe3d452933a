------------------------------ MODULE Classify ------------------------------
(***************************************************************************)
(* The classifier: internal/classify.  Lookup scans the table twice, once  *)
(* for the rows with a matcher of their own and once for the longest       *)
(* family the name begins with; judge then reads the verdict off the row,  *)
(* or lets a stated size decide it.                                        *)
(*                                                                         *)
(* A citation is the family of the row it stands in.  Names are in upper   *)
(* case already, which is the first thing judge makes of them; rationales  *)
(* are left out.                                                           *)
(***************************************************************************)
EXTENDS Assets, Spelling, TLC

CONSTANTS
  Names,      \* the names an asset may have
  KeySizes,   \* the key sizes a finding may state; 0 where it states none
  Table       \* the rows, in the order they are written

NoCitation == ""

Row ==
  [family : STRING,
   protocol : BOOLEAN,    \* Kind is asset.Protocol
   matcher : BOOLEAN,     \* match is set
   verdict : Postures \cup {"symmetricSize", "digestSize"}]

ASSUME TableAssumption ==
  /\ Table \in Seq(Row)
  /\ \A k \in DOMAIN Table :
       Len(Table[k].family) \in Nat /\ Table[k].family # NoCitation
ASSUME KeySizesAssumption == KeySizes \subseteq Nat

VARIABLES
  asset,     \* the asset to be judged
  pc,        \* "matchers", "families", "judge" or "done"
  i,         \* the row whose turn it is
  best,      \* the best row of the second scan, 0 for none
  row,       \* the row Lookup returned, 0 for none
  posture,
  citation

vars == <<asset, pc, i, best, row, posture, citation>>

-----------------------------------------------------------------------------
\* Names.

postQuantumHalves == {"MLKEM", "ML-KEM", "KYBER"}
classicalHalves ==
  {"X25519", "X448", "SECP", "P256", "P-256", "P384", "P-384", "P521", "P-521",
   "ECDH"}

\* The matcher of the hybrid row.
NamesBothHalves(name) ==
  \/ Contains(name, "HYBRID")
  \/ /\ \E part \in postQuantumHalves : Contains(name, part)
     /\ \E part \in classicalHalves : Contains(name, part)

\* The number a name ends in, 0 where it ends in none.
trailingNumber(name) ==
  LET IsDigit(k) == \E d \in DOMAIN Digits : SubSeq(name, k, k) = Digits[d]
      Digit(k) == (CHOOSE d \in DOMAIN Digits : SubSeq(name, k, k) = Digits[d]) - 1
      first == CHOOSE k \in 1..(Len(name) + 1) :
                 /\ \A later \in k..Len(name) : IsDigit(later)
                 /\ k > 1 => ~IsDigit(k - 1)
      upTo[k \in 0..Len(name)] ==
        IF k < first THEN 0 ELSE upTo[k - 1] * 10 + Digit(k)
  IN upTo[Len(name)]

\* The size a name ends in: a number below 64 is a version, not a size.
trailingBits(name) ==
  LET bits == trailingNumber(name)
  IN IF bits < 64 THEN 0 ELSE bits

\* A bug: whatever number a name ends in is taken for a size.
symmetricSizeOfAnyNumber(name, keySize) ==
  LET bits == CASE keySize # 0 -> keySize
                [] keySize = 0 /\ HasPrefix(name, "CHACHA") -> 256
                [] OTHER -> trailingBits(name)
  IN CASE bits = 0   -> "unknown"
       [] bits >= 256 -> "quantum_safe"
       [] OTHER      -> "quantum_reduced"

symmetricSize(name, keySize) ==
  LET bits == CASE keySize # 0 -> keySize
                [] keySize = 0 /\ HasPrefix(name, "CHACHA") -> 256
                [] OTHER -> IF trailingBits(name) \in {128, 192, 256}
                            THEN trailingBits(name) ELSE 0
  IN CASE bits = 0   -> "unknown"
       [] bits >= 256 -> "quantum_safe"
       [] OTHER      -> "quantum_reduced"

digestSize(name) ==
  CASE trailingBits(name) = 0    -> "unknown"
    [] trailingBits(name) >= 384 -> "quantum_safe"
    [] OTHER                     -> "quantum_reduced"

-----------------------------------------------------------------------------
\* Lookup.

\* A bug: the rows of a protocol are applied to an algorithm as well.
AppliesToAll(r, kind) == r.protocol \/ kind # "protocol"

Applies(r, kind) == r.protocol <=> kind = "protocol"

\* A bug: the hybrid row is looked for by its prefix like the others.
MatchedByPrefix(r) ==
  r.matcher /\ Applies(r, asset.kind) /\ HasPrefix(asset.name, r.family)

Matched(r) == r.matcher /\ Applies(r, asset.kind) /\ NamesBothHalves(asset.name)

InFamily(r) ==
  ~r.matcher /\ Applies(r, asset.kind) /\ HasPrefix(asset.name, r.family)

Longer(r, other) == Len(r.family) > Len(other.family)

TryMatcher ==
  /\ pc = "matchers"
  /\ i <= Len(Table)
  /\ IF Matched(Table[i])
     THEN row' = i /\ pc' = "judge" /\ UNCHANGED i
     ELSE i' = i + 1 /\ UNCHANGED <<row, pc>>
  /\ UNCHANGED <<asset, best, posture, citation>>

\* A bug: the second scan starts where the first one ended.
NoMatcherNoReset ==
  /\ pc = "matchers"
  /\ i > Len(Table)
  /\ pc' = "families"
  /\ UNCHANGED <<asset, i, best, row, posture, citation>>

NoMatcher ==
  /\ pc = "matchers"
  /\ i > Len(Table)
  /\ pc' = "families"
  /\ i' = 1
  /\ UNCHANGED <<asset, best, row, posture, citation>>

\* A bug: the last family that matches wins.
TryFamilyAnyLength ==
  /\ pc = "families"
  /\ i <= Len(Table)
  /\ best' = IF InFamily(Table[i]) THEN i ELSE best
  /\ i' = i + 1
  /\ UNCHANGED <<asset, pc, row, posture, citation>>

TryFamily ==
  /\ pc = "families"
  /\ i <= Len(Table)
  /\ best' = IF /\ InFamily(Table[i])
                /\ best = 0 \/ Longer(Table[i], Table[best])
             THEN i ELSE best
  /\ i' = i + 1
  /\ UNCHANGED <<asset, pc, row, posture, citation>>

LookedUp ==
  /\ pc = "families"
  /\ i > Len(Table)
  /\ row' = best
  /\ pc' = "judge"
  /\ UNCHANGED <<asset, i, best, posture, citation>>

-----------------------------------------------------------------------------
\* judge.

VerdictOf(r, name, keySize) ==
  CASE r.verdict = "symmetricSize" -> symmetricSize(name, keySize)
    [] r.verdict = "digestSize"    -> digestSize(name)
    [] OTHER                       -> r.verdict

\* A row without a size rule is returned as it is written; one whose size rule
\* found no size is not cited.
CitationOf(r, verdict) ==
  IF r.verdict \in {"symmetricSize", "digestSize"} /\ verdict = "unknown"
  THEN NoCitation ELSE r.family

\* A bug: the row is cited whatever its size rule found.
JudgeAndCite ==
  /\ pc = "judge"
  /\ row # 0
  /\ posture' = VerdictOf(Table[row], asset.name, asset.keySize)
  /\ citation' = Table[row].family
  /\ pc' = "done"
  /\ UNCHANGED <<asset, i, best, row>>

Judge ==
  /\ pc = "judge"
  /\ row # 0
  /\ posture' = VerdictOf(Table[row], asset.name, asset.keySize)
  /\ citation' = CitationOf(Table[row], posture')
  /\ pc' = "done"
  /\ UNCHANGED <<asset, i, best, row>>

NotInTable ==
  /\ pc = "judge"
  /\ row = 0
  /\ posture' = "unknown"
  /\ citation' = NoCitation
  /\ pc' = "done"
  /\ UNCHANGED <<asset, i, best, row>>

-----------------------------------------------------------------------------
Init ==
  /\ asset \in [name : Names, kind : Kinds, keySize : KeySizes]
  /\ pc = "matchers"
  /\ i = 1
  /\ best = 0
  /\ row = 0
  /\ posture = "unknown"
  /\ citation = NoCitation

Ended == pc = "done" /\ UNCHANGED vars

Next ==
  TryMatcher \/ NoMatcher \/ TryFamily \/ LookedUp \/ Judge \/ NotInTable \/ Ended

Spec == Init /\ [][Next]_vars

-----------------------------------------------------------------------------
\* Properties.

TypeOK ==
  /\ asset \in [name : Names, kind : Kinds, keySize : KeySizes]
  /\ pc \in {"matchers", "families", "judge", "done"}
  /\ i \in 1..(Len(Table) + 1)
  /\ best \in 0..Len(Table)
  /\ row \in 0..Len(Table)
  /\ posture \in Postures
  /\ citation \in {NoCitation} \cup {Table[k].family : k \in DOMAIN Table}

\* What some of the properties need of the rows and the names; the table of
\* table.go has it.

\* The rows of versions are deprecated or have no posture of their own, and no
\* other row says that of an algorithm.
VersionsHaveTheirOwnRows ==
  \A k \in DOMAIN Table :
    IF Table[k].protocol
    THEN Table[k].verdict \in {"broken", "not_applicable", "unknown"}
    ELSE Table[k].verdict # "not_applicable"

\* The rows of algorithms with a matcher are those of hybrids, and there is one.
HybridsAreMatched ==
  /\ \A k \in DOMAIN Table :
       ~Table[k].protocol => (Table[k].matcher <=> Table[k].verdict = "hybrid")
  /\ \E k \in DOMAIN Table : Table[k].matcher /\ ~Table[k].protocol

\* No row's own posture is unknown: what nobody judged has no row.
RowsAnswer == \A k \in DOMAIN Table : Table[k].verdict # "unknown"

\* name ends in the number size, and not in a longer one that ends in it.
EndsIn(name, size) ==
  LET digits == ToString(size)
      before == Len(name) - Len(digits)
  IN /\ before >= 0
     /\ SubSeq(name, before + 1, Len(name)) = digits
     /\ before > 0 => \A d \in DOMAIN Digits : SubSeq(name, before, before) # Digits[d]

\* The sizes there are of a symmetric key and of a digest.
SymmetricSizes == {128, 192, 256}
DigestSizes == {160, 224, 256, 384, 512}

\* trailingBits reads the sizes as they are written, and the name of a digest
\* ends in a size, in a version or in no number.
NumbersAreRead ==
  \A name \in Names :
    /\ \A size \in SymmetricSizes \cup DigestSizes :
         EndsIn(name, size) <=> trailingBits(name) = size
    /\ \A k \in DOMAIN Table :
         (Table[k].verdict = "digestSize"
            /\ (Table[k].matcher \/ HasPrefix(name, Table[k].family))) =>
           trailingBits(name) \in DigestSizes \cup {0}

\* r is the row for the asset: the first with a matcher that recognises it, or
\* else the first of the longest families it begins with.
IsTheRow(r) ==
  \/ /\ Matched(Table[r])
     /\ \A k \in 1..(r - 1) : ~Matched(Table[k])
  \/ /\ \A k \in DOMAIN Table : ~Matched(Table[k])
     /\ InFamily(Table[r])
     /\ \A k \in DOMAIN Table : InFamily(Table[k]) => ~Longer(Table[k], Table[r])
     /\ \A k \in 1..(r - 1) : InFamily(Table[k]) => Longer(Table[r], Table[k])

\* The longest matching family wins (table.go:44-45), a matcher before it, in
\* whatever order the rows are written; no row is returned only where no row
\* covers the asset.
LongestFamilyWins ==
  pc \in {"judge", "done"} =>
    IF row = 0
    THEN \A k \in DOMAIN Table : ~Matched(Table[k]) /\ ~InFamily(Table[k])
    ELSE IsTheRow(row)

\* A citation stands beside an answer and never beside a gap
\* (classify.go:53-57): where no row or no size was found nothing is cited, and
\* everything else cites its row.
CitesWhatItJudged ==
  pc = "done" => (posture = "unknown" <=> citation = NoCitation)

\* A hybrid is never read as one of its halves, though rows of both would
\* match; what carries a post-quantum half alone is not read as a hybrid.
HybridIsNotItsHalves ==
  (pc = "done" /\ asset.kind # "protocol") =>
    (posture = "hybrid" <=> NamesBothHalves(asset.name))

\* A protocol version is deprecated or has no posture of its own, and an
\* algorithm is never waved through as a version would be.
VersionsAreNotAlgorithms ==
  pc = "done" =>
    IF asset.kind = "protocol"
    THEN posture \in {"broken", "not_applicable", "unknown"}
    ELSE posture # "not_applicable"

\* The sizes a name states: of a digest, of ChaCha20, which has one, or of a
\* symmetric key.
SizesIn(name, verdict) ==
  CASE verdict = "digestSize" -> {size \in DigestSizes : EndsIn(name, size)}
    [] verdict # "digestSize" /\ HasPrefix(name, "CHACHA") -> {256}
    [] OTHER -> {size \in SymmetricSizes : EndsIn(name, size)}

\* The smallest size a quantum computer leaves enough of.
SafeFrom(verdict) == IF verdict = "digestSize" THEN 384 ELSE 256

\* The size that decides: the finding's, where the rule looks at it, or else the
\* one the name states.
SizesOf(a, verdict) ==
  IF verdict = "symmetricSize" /\ a.keySize # 0 THEN {a.keySize} ELSE SizesIn(a.name, verdict)

\* A size nobody stated is never guessed (classify.go:71-77, 80-81): a verdict
\* that rests on a size is that of the finding's, or else of one the name ends
\* in, and a name that states none, or ends in a fragment, a version or a longer
\* number, is a gap.
SizesAreNotGuessed ==
  (pc = "done" /\ row # 0) =>
    LET verdict == Table[row].verdict
        stated == SizesOf(asset, verdict)
    IN verdict \in {"symmetricSize", "digestSize"} =>
         /\ stated = {} => posture = "unknown"
         /\ \A size \in stated :
              posture = IF size >= SafeFrom(verdict) THEN "quantum_safe" ELSE "quantum_reduced"

\* The loop invariants of Lookup.
Scanned ==
  /\ pc = "matchers" => \A k \in 1..(i - 1) : ~Matched(Table[k])
  /\ pc = "families" =>
       /\ \A k \in DOMAIN Table : ~Matched(Table[k])
       /\ IF best = 0
          THEN \A k \in 1..(i - 1) : ~InFamily(Table[k])
          ELSE /\ best < i /\ InFamily(Table[best])
               /\ \A k \in 1..(i - 1) :
                    InFamily(Table[k]) => ~Longer(Table[k], Table[best])
               /\ \A k \in 1..(best - 1) :
                    InFamily(Table[k]) => Longer(Table[best], Table[k])
  /\ pc = "matchers" => best = 0
  /\ LongestFamilyWins

\* The inductive invariant: the state is well typed, and what the scans have
\* passed holds no better row than the one they hold.
ScanInv == TypeOK /\ Scanned
=============================================================================
