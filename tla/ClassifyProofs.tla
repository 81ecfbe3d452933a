--------------------------- MODULE ClassifyProofs ---------------------------
(***************************************************************************)
(* Lookup finds the row it promises in every table: the order of the rows  *)
(* decides nothing but ties.                                               *)
(***************************************************************************)
EXTENDS Classify, TLAPS

LEMMA TableFacts ==
  /\ Len(Table) \in Nat
  /\ DOMAIN Table = 1..Len(Table)
  /\ \A k \in 1..Len(Table) :
       /\ Table[k] \in Row
       /\ Len(Table[k].family) \in Nat
<1>1. Table \in Seq(Row)
  BY TableAssumption
<1>2. Len(Table) \in Nat /\ DOMAIN Table = 1..Len(Table)
  BY <1>1
<1>3. \A k \in 1..Len(Table) : Table[k] \in Row
  BY <1>1
<1> QED
  BY <1>2, <1>3, TableAssumption

LEMMA VerdictType ==
  ASSUME NEW r \in Row, NEW name, NEW keySize
  PROVE  VerdictOf(r, name, keySize) \in Postures
<1>1. symmetricSize(name, keySize) \in Postures
  <2> DEFINE bits == CASE keySize # 0 -> keySize
                       [] keySize = 0 /\ HasPrefix(name, "CHACHA") -> 256
                       [] OTHER -> IF trailingBits(name) \in {128, 192, 256}
                                   THEN trailingBits(name) ELSE 0
  <2>1. symmetricSize(name, keySize) =
          CASE bits = 0   -> "unknown"
            [] bits >= 256 -> "quantum_safe"
            [] OTHER      -> "quantum_reduced"
    BY DEF symmetricSize
  <2> HIDE DEF bits
  <2> QED
    BY <2>1 DEF Postures
<1>2. digestSize(name) \in Postures
  BY DEF digestSize, Postures
<1>3. r.verdict \in Postures \cup {"symmetricSize", "digestSize"}
  BY DEF Row
<1> QED
  BY <1>1, <1>2, <1>3 DEF VerdictOf

LEMMA TypeStep == TypeOK /\ [Next]_vars => TypeOK'
<1> SUFFICES ASSUME TypeOK, [Next]_vars PROVE TypeOK'
  OBVIOUS
<1>1. CASE TryMatcher
  BY <1>1, TableFacts DEF TryMatcher, TypeOK
<1>2. CASE NoMatcher
  BY <1>2, TableFacts DEF NoMatcher, TypeOK
<1>3. CASE TryFamily
  BY <1>3, TableFacts DEF TryFamily, TypeOK
<1>4. CASE LookedUp
  BY <1>4, TableFacts DEF LookedUp, TypeOK
<1>5. CASE Judge
  <2>1. row \in DOMAIN Table /\ Table[row] \in Row
    BY <1>5, TableFacts DEF Judge, TypeOK
  <2>2. posture' \in Postures
    BY <1>5, <2>1, VerdictType DEF Judge
  <2>3. citation' \in {NoCitation} \cup {Table[k].family : k \in DOMAIN Table}
    BY <1>5, <2>1 DEF Judge, CitationOf
  <2> QED
    BY <1>5, <2>2, <2>3 DEF Judge, TypeOK
<1>6. CASE NotInTable
  BY <1>6 DEF NotInTable, TypeOK, Postures
<1>7. CASE Ended \/ UNCHANGED vars
  BY <1>7 DEF Ended, vars, TypeOK
<1> QED
  BY <1>1, <1>2, <1>3, <1>4, <1>5, <1>6, <1>7 DEF Next

LEMMA ScanStep == TypeOK /\ Scanned /\ [Next]_vars => Scanned'
<1> SUFFICES ASSUME TypeOK, Scanned, [Next]_vars PROVE Scanned'
  OBVIOUS
<1>1. asset' = asset
  BY DEF Next, TryMatcher, NoMatcher, TryFamily, LookedUp, Judge, NotInTable, Ended,
         vars
<1>2. \A k : /\ Matched(Table[k])' <=> Matched(Table[k])
             /\ InFamily(Table[k])' <=> InFamily(Table[k])
  BY <1>1 DEF Matched, InFamily
<1>3. CASE TryMatcher
  <2>1. i \in 1..Len(Table) /\ i \in Nat
    BY <1>3, TableFacts DEF TryMatcher, TypeOK
  <2>2. CASE Matched(Table[i])
    <3>1. row' = i /\ row' # 0 /\ pc' = "judge"
      BY <1>3, <2>1, <2>2 DEF TryMatcher
    <3>2. IsTheRow(row)'
      BY <1>2, <1>3, <2>2, <3>1 DEF IsTheRow, Scanned, TryMatcher
    <3> QED
      BY <3>1, <3>2 DEF Scanned, LongestFamilyWins
  <2>3. CASE ~Matched(Table[i])
    <3>1. i' = i + 1 /\ pc' = pc /\ pc = "matchers" /\ best' = best
      BY <1>3, <2>3 DEF TryMatcher
    <3>2. \A k \in 1..(i' - 1) : k \in 1..(i - 1) \/ k = i
      BY <2>1, <3>1
    <3> QED
      BY <1>2, <2>3, <3>1, <3>2 DEF Scanned, LongestFamilyWins
  <2> QED
    BY <2>2, <2>3
<1>4. CASE NoMatcher
  <2>1. /\ pc = "matchers" /\ pc' = "families" /\ i' = 1 /\ best' = 0
        /\ i = Len(Table) + 1
    BY <1>4, TableFacts DEF NoMatcher, Scanned, TypeOK
  <2>2. \A k \in DOMAIN Table : ~Matched(Table[k])
    BY <2>1, TableFacts DEF Scanned
  <2> QED
    BY <1>2, <2>1, <2>2 DEF Scanned, LongestFamilyWins
<1>5. CASE TryFamily
  <2>1. /\ i \in 1..Len(Table) /\ i \in Nat
        /\ i' = i + 1 /\ pc = "families" /\ pc' = "families"
        /\ best \in 0..Len(Table) /\ best \in Nat
    BY <1>5, TableFacts DEF TryFamily, TypeOK
  <2>2. \A k \in DOMAIN Table : ~Matched(Table[k])
    BY <2>1 DEF Scanned
  <2>3. \A k \in 1..(i' - 1) : k \in 1..(i - 1) \/ k = i
    BY <2>1
  <2>4. CASE InFamily(Table[i]) /\ (best = 0 \/ Longer(Table[i], Table[best]))
    <3>1. best' = i /\ best' < i' /\ best' # 0
      BY <1>5, <2>1, <2>4 DEF TryFamily
    <3>2. \A k \in 1..(i - 1) : InFamily(Table[k]) => Longer(Table[i], Table[k])
      <4> SUFFICES ASSUME NEW k \in 1..(i - 1), InFamily(Table[k])
                   PROVE  Longer(Table[i], Table[k])
        OBVIOUS
      <4>1. best # 0 /\ best \in 1..Len(Table) /\ k \in 1..Len(Table)
        BY <2>1, TableFacts DEF Scanned
      <4>2. Longer(Table[i], Table[best]) /\ ~Longer(Table[k], Table[best])
        BY <2>1, <2>4, <4>1 DEF Scanned
      <4> QED
        BY <2>1, <4>1, <4>2, TableFacts DEF Longer
    <3>3. \A k \in 1..(i' - 1) : InFamily(Table[k]) => ~Longer(Table[k], Table[i])
      <4> SUFFICES ASSUME NEW k \in 1..(i' - 1), InFamily(Table[k])
                   PROVE  ~Longer(Table[k], Table[i])
        OBVIOUS
      <4>1. k \in 1..Len(Table)
        BY <2>1, TableFacts
      <4>2. k = i \/ Longer(Table[i], Table[k])
        BY <2>3, <3>2
      <4> QED
        BY <2>1, <4>1, <4>2, TableFacts DEF Longer
    <3> QED
      BY <1>2, <2>1, <2>2, <2>4, <3>1, <3>2, <3>3 DEF Scanned, LongestFamilyWins
  <2>5. CASE ~(InFamily(Table[i]) /\ (best = 0 \/ Longer(Table[i], Table[best])))
    <3>1. best' = best
      BY <1>5, <2>5 DEF TryFamily
    <3>2. CASE best = 0
      BY <1>2, <2>1, <2>2, <2>3, <2>5, <3>1, <3>2 DEF Scanned, LongestFamilyWins
    <3>3. CASE best # 0
      <4>1. best' < i'
        BY <2>1, <3>1, <3>3 DEF Scanned
      <4>2. \A k \in 1..(i' - 1) :
              InFamily(Table[k]) => ~Longer(Table[k], Table[best])
        BY <2>1, <2>3, <2>5, <3>3 DEF Scanned
      <4> QED
        BY <1>2, <2>1, <2>2, <3>1, <3>3, <4>1, <4>2 DEF Scanned, LongestFamilyWins
    <3> QED
      BY <3>2, <3>3
  <2> QED
    BY <2>4, <2>5
<1>6. CASE LookedUp
  <2>1. /\ pc = "families" /\ pc' = "judge" /\ row' = best
        /\ i = Len(Table) + 1 /\ best \in 0..Len(Table)
    BY <1>6, TableFacts DEF LookedUp, TypeOK
  <2>2. 1..(i - 1) = DOMAIN Table
    BY <2>1, TableFacts
  <2>3. CASE best = 0
    BY <1>2, <2>1, <2>2, <2>3 DEF Scanned, LongestFamilyWins
  <2>4. CASE best # 0
    <3>1. IsTheRow(row)'
      BY <1>2, <2>1, <2>2, <2>4 DEF Scanned, IsTheRow
    <3> QED
      BY <2>1, <2>4, <3>1 DEF Scanned, LongestFamilyWins
  <2> QED
    BY <2>3, <2>4
<1>7. CASE Judge \/ NotInTable
  <2>1. row' = row /\ pc = "judge" /\ pc' = "done"
    BY <1>7 DEF Judge, NotInTable
  <2>2. LongestFamilyWins'
    BY <1>2, <2>1 DEF Scanned, LongestFamilyWins, IsTheRow
  <2> QED
    BY <2>1, <2>2 DEF Scanned
<1>8. CASE Ended \/ UNCHANGED vars
  BY <1>8 DEF Ended, vars, Scanned, LongestFamilyWins, IsTheRow, Matched, InFamily
<1> QED
  BY <1>3, <1>4, <1>5, <1>6, <1>7, <1>8 DEF Next

LEMMA InitScan == Init => TypeOK /\ Scanned
<1> SUFFICES ASSUME Init PROVE TypeOK /\ Scanned
  OBVIOUS
<1>1. 1..(1 - 1) = {}
  OBVIOUS
<1>2. TypeOK
  BY TableFacts DEF Init, TypeOK, Postures
<1> QED
  BY <1>1, <1>2 DEF Init, Scanned, LongestFamilyWins

\* Every state of a judgement is well typed and the loops of Lookup keep their
\* invariants (table.go:165-187), for every table.
THEOREM ScansKeepTheirInvariant == Spec => []ScanInv
<1>1. Init => ScanInv
  BY InitScan DEF ScanInv
<1>2. ScanInv /\ [Next]_vars => ScanInv'
  BY TypeStep, ScanStep DEF ScanInv
<1> QED
  BY <1>1, <1>2, PTL DEF Spec

\* The longest matching family wins in every table, and a matcher before it.
THEOREM LookupFindsTheRow == Spec => []LongestFamilyWins
<1>1. ScanInv => LongestFamilyWins
  BY DEF ScanInv, Scanned
<1> QED
  BY <1>1, ScansKeepTheirInvariant, PTL

\* No size rule makes an unjudged asset carry a citation, nor a judged one go
\* without (classify.go:49-59), in every table whose rows answer.  A row that says
\* unknown itself would be cited beside it.
THEOREM CitationsAreEarned ==
  ASSUME RowsAnswer
  PROVE  Spec => []CitesWhatItJudged
<1>1. Init => CitesWhatItJudged
  BY DEF Init, CitesWhatItJudged
<1>2. TypeOK /\ CitesWhatItJudged /\ [Next]_vars => CitesWhatItJudged'
  <2> SUFFICES ASSUME TypeOK, CitesWhatItJudged, [Next]_vars
               PROVE  CitesWhatItJudged'
    OBVIOUS
  <2>1. CASE Judge
    <3> DEFINE r == Table[row]
    <3>1. row \in DOMAIN Table /\ r \in Row /\ r.family # NoCitation /\ r.verdict # "unknown"
      BY <2>1, TableFacts, TableAssumption DEF Judge, TypeOK, RowsAnswer
    <3>2. /\ posture' = VerdictOf(r, asset.name, asset.keySize)
          /\ citation' = CitationOf(r, posture')
      BY <2>1 DEF Judge
    <3> HIDE DEF r
    <3>3. posture' = "unknown" => r.verdict \in {"symmetricSize", "digestSize"}
      BY <3>1, <3>2 DEF VerdictOf
    <3>4. posture' = "unknown" <=> citation' = NoCitation
      BY <3>1, <3>2, <3>3 DEF CitationOf
    <3> QED
      BY <3>4 DEF CitesWhatItJudged
  <2>2. CASE NotInTable
    BY <2>2 DEF NotInTable, CitesWhatItJudged
  <2>3. CASE TryMatcher \/ NoMatcher \/ TryFamily \/ LookedUp
    BY <2>3 DEF TryMatcher, NoMatcher, TryFamily, LookedUp, CitesWhatItJudged
  <2>4. CASE Ended \/ UNCHANGED vars
    BY <2>4 DEF Ended, vars, CitesWhatItJudged
  <2> QED
    BY <2>1, <2>2, <2>3, <2>4 DEF Next
<1>3. Init => TypeOK
  BY InitScan
<1> QED
  BY <1>1, <1>2, <1>3, TypeStep, PTL DEF Spec

-----------------------------------------------------------------------------
\* What the verdict comes from.

\* The posture is the verdict of the row, or unknown where there is none.
Settled ==
  pc = "done" =>
    posture = IF row = 0 THEN "unknown"
              ELSE VerdictOf(Table[row], asset.name, asset.keySize)

LEMMA SettledStep == Settled /\ [Next]_vars => Settled'
<1> SUFFICES ASSUME Settled, [Next]_vars PROVE Settled'
  OBVIOUS
<1>1. CASE TryMatcher \/ NoMatcher \/ TryFamily \/ LookedUp
  BY <1>1 DEF TryMatcher, NoMatcher, TryFamily, LookedUp, Settled
<1>2. CASE Judge
  BY <1>2 DEF Judge, Settled
<1>3. CASE NotInTable
  BY <1>3 DEF NotInTable, Settled
<1>4. CASE Ended \/ UNCHANGED vars
  BY <1>4 DEF Ended, vars, Settled
<1> QED
  BY <1>1, <1>2, <1>3, <1>4 DEF Next

LEMMA VerdictsSettle == Spec => [](ScanInv /\ Settled)
<1>1. Init => Settled
  BY DEF Init, Settled
<1> QED
  BY <1>1, SettledStep, ScansKeepTheirInvariant, PTL DEF Spec

\* The row that was found applies to the asset, by its matcher or its family.
LEMMA RowApplies ==
  ASSUME ScanInv, pc = "done", row # 0
  PROVE  /\ row \in DOMAIN Table /\ Table[row] \in Row
         /\ Applies(Table[row], asset.kind)
         /\ \/ Table[row].matcher /\ NamesBothHalves(asset.name)
            \/ /\ ~Table[row].matcher /\ HasPrefix(asset.name, Table[row].family)
               /\ \A k \in DOMAIN Table : ~Matched(Table[k])
<1>1. row \in DOMAIN Table /\ Table[row] \in Row
  BY TableFacts DEF ScanInv, TypeOK
<1>2. IsTheRow(row)
  BY DEF ScanInv, Scanned, LongestFamilyWins
<1>3. CASE Matched(Table[row])
  BY <1>1, <1>3 DEF Matched
<1>4. CASE /\ \A k \in DOMAIN Table : ~Matched(Table[k])
           /\ InFamily(Table[row])
  BY <1>1, <1>4 DEF InFamily
<1> QED
  BY <1>2, <1>3, <1>4 DEF IsTheRow

\* A size rule never answers with anything else than these.
LEMMA SizedVerdicts ==
  ASSUME NEW name, NEW keySize
  PROVE  /\ symmetricSize(name, keySize) \in {"unknown", "quantum_safe", "quantum_reduced"}
         /\ digestSize(name) \in {"unknown", "quantum_safe", "quantum_reduced"}
<1> DEFINE bits == CASE keySize # 0 -> keySize
                     [] keySize = 0 /\ HasPrefix(name, "CHACHA") -> 256
                     [] OTHER -> IF trailingBits(name) \in {128, 192, 256}
                                 THEN trailingBits(name) ELSE 0
<1>1. symmetricSize(name, keySize) =
        CASE bits = 0    -> "unknown"
          [] bits >= 256 -> "quantum_safe"
          [] OTHER       -> "quantum_reduced"
  BY DEF symmetricSize
<1> HIDE DEF bits
<1>2. symmetricSize(name, keySize) \in {"unknown", "quantum_safe", "quantum_reduced"}
  BY <1>1
<1> QED
  BY <1>2 DEF digestSize

LEMMA VerdictIsTheRows ==
  ASSUME NEW r \in Row, NEW name, NEW keySize
  PROVE  \/ VerdictOf(r, name, keySize) = r.verdict
         \/ /\ r.verdict \in {"symmetricSize", "digestSize"}
            /\ VerdictOf(r, name, keySize) \in {"unknown", "quantum_safe", "quantum_reduced"}
<1>1. CASE r.verdict \in {"symmetricSize", "digestSize"}
  BY <1>1, SizedVerdicts DEF VerdictOf
<1>2. CASE r.verdict \notin {"symmetricSize", "digestSize"}
  BY <1>2 DEF VerdictOf
<1> QED
  BY <1>1, <1>2

-----------------------------------------------------------------------------
\* Versions and algorithms.

\* An algorithm is never waved through as a version would be (table.go:189-194),
\* in every table that keeps the two apart.
THEOREM VersionsAreJudgedApart ==
  ASSUME VersionsHaveTheirOwnRows
  PROVE  Spec => []VersionsAreNotAlgorithms
<1>1. ScanInv /\ Settled => VersionsAreNotAlgorithms
  <2> SUFFICES ASSUME ScanInv, Settled, pc = "done", row # 0
               PROVE  IF asset.kind = "protocol"
                      THEN posture \in {"broken", "not_applicable", "unknown"}
                      ELSE posture # "not_applicable"
    BY DEF VersionsAreNotAlgorithms, Settled
  <2> DEFINE r == Table[row]
  <2>1. row \in DOMAIN Table /\ r \in Row /\ (r.protocol <=> asset.kind = "protocol")
    BY RowApplies DEF Applies
  <2>2. posture = VerdictOf(r, asset.name, asset.keySize)
    BY DEF Settled
  <2>3. IF r.protocol THEN r.verdict \in {"broken", "not_applicable", "unknown"}
                      ELSE r.verdict # "not_applicable"
    BY <2>1 DEF VersionsHaveTheirOwnRows
  <2> HIDE DEF r
  <2> QED
    BY <2>1, <2>2, <2>3, VerdictIsTheRows
<1> QED
  BY <1>1, VerdictsSettle, PTL

-----------------------------------------------------------------------------
\* Hybrids.

\* A hybrid is never read as one of its halves (table.go:75-115), whatever rows
\* of its halves the table has and in whatever order.
THEOREM HybridsAreReadWhole ==
  ASSUME HybridsAreMatched
  PROVE  Spec => []HybridIsNotItsHalves
<1>1. ScanInv /\ Settled => HybridIsNotItsHalves
  <2> SUFFICES ASSUME ScanInv, Settled, pc = "done", asset.kind # "protocol"
               PROVE  posture = "hybrid" <=> NamesBothHalves(asset.name)
    BY DEF HybridIsNotItsHalves
  <2>1. PICK h \in DOMAIN Table : Table[h].matcher /\ ~Table[h].protocol
    BY DEF HybridsAreMatched
  <2>2. NamesBothHalves(asset.name) => Matched(Table[h])
    BY <2>1 DEF Matched, Applies
  <2>3. CASE row = 0
    <3>1. ~Matched(Table[h]) /\ posture = "unknown"
      BY <2>1, <2>3 DEF ScanInv, Scanned, LongestFamilyWins, Settled
    <3> QED
      BY <2>2, <3>1
  <2>4. CASE row # 0
    <3> DEFINE r == Table[row]
    <3>1. /\ row \in DOMAIN Table /\ r \in Row /\ ~r.protocol
          /\ r.matcher <=> NamesBothHalves(asset.name)
      BY <2>1, <2>2, <2>4, RowApplies DEF Applies
    <3>2. r.matcher <=> r.verdict = "hybrid"
      BY <3>1 DEF HybridsAreMatched
    <3>3. posture = VerdictOf(r, asset.name, asset.keySize)
      BY <2>4 DEF Settled
    <3> HIDE DEF r
    <3>4. posture = "hybrid" <=> r.verdict = "hybrid"
      BY <3>1, <3>3, VerdictIsTheRows
    <3> QED
      BY <3>1, <3>2, <3>4
  <2> QED
    BY <2>3, <2>4
<1> QED
  BY <1>1, VerdictsSettle, PTL

-----------------------------------------------------------------------------
\* Sizes.

\* What symmetricSize answers where a size is stated and where none is.
LEMMA StatedSize ==
  ASSUME NEW name, NEW size \in Nat \ {0}
  PROVE  symmetricSize(name, size) =
           IF size >= 256 THEN "quantum_safe" ELSE "quantum_reduced"
BY DEF symmetricSize

LEMMA UnstatedSize ==
  ASSUME NEW name
  PROVE  symmetricSize(name, 0) =
           CASE HasPrefix(name, "CHACHA") -> "quantum_safe"
             [] ~HasPrefix(name, "CHACHA") /\ trailingBits(name) = 256 -> "quantum_safe"
             [] ~HasPrefix(name, "CHACHA") /\ trailingBits(name) \in {128, 192} ->
                  "quantum_reduced"
             [] OTHER -> "unknown"
BY DEF symmetricSize

\* A size rule answers for the sizes the name states, and for no other.
LEMMA NamedSizes ==
  ASSUME NumbersAreRead, NEW name \in Names, NEW k \in DOMAIN Table,
         \/ Table[k].verdict = "symmetricSize"
         \/ /\ Table[k].verdict = "digestSize"
            /\ Table[k].matcher \/ HasPrefix(name, Table[k].family)
  PROVE  LET answer == VerdictOf(Table[k], name, 0)
             stated == SizesIn(name, Table[k].verdict)
         IN /\ stated = {} => answer = "unknown"
            /\ \A size \in stated : answer = IF size >= SafeFrom(Table[k].verdict)
                                           THEN "quantum_safe" ELSE "quantum_reduced"
<1> DEFINE verdict == Table[k].verdict
           answer == VerdictOf(Table[k], name, 0)
           stated == SizesIn(name, verdict)
           bits == trailingBits(name)
<1>1. \A size \in SymmetricSizes \cup DigestSizes : EndsIn(name, size) <=> bits = size
  BY DEF NumbersAreRead
<1>2. CASE verdict = "digestSize"
  <2>1. answer = digestSize(name) /\ bits \in DigestSizes \cup {0}
    BY <1>2 DEF VerdictOf, NumbersAreRead
  <2>2. stated = {size \in DigestSizes : EndsIn(name, size)} /\ SafeFrom(verdict) = 384
    BY <1>2 DEF SizesIn, SafeFrom
  <2>3. digestSize(name) = CASE bits = 0 -> "unknown"
                             [] bits >= 384 -> "quantum_safe"
                             [] OTHER -> "quantum_reduced"
    BY DEF digestSize
  <2> HIDE DEF answer, stated, bits, verdict
  <2>4. stated = {bits} \cap DigestSizes
    BY <1>1, <2>2
  <2>5. answer = CASE bits = 0 -> "unknown"
                   [] bits >= 384 -> "quantum_safe"
                   [] OTHER -> "quantum_reduced"
    BY <2>1, <2>3
  <2>6. /\ stated = {} => answer = "unknown"
        /\ \A size \in stated :
             answer = IF size >= 384 THEN "quantum_safe" ELSE "quantum_reduced"
    <3>1. CASE bits = 0
      <4>1. stated = {} /\ answer = "unknown"
        BY <2>4, <2>5, <3>1 DEF DigestSizes
      <4> QED
        BY <4>1
    <3>2. CASE bits \in DigestSizes
      <4>1. stated = {bits} /\ bits \in {160, 224, 256, 384, 512}
        <5>1. stated = {bits}
          BY <2>4, <3>2
        <5> QED
          BY <3>2, <5>1 DEF DigestSizes
      <4>2. answer = IF bits >= 384 THEN "quantum_safe" ELSE "quantum_reduced"
        BY <2>5, <4>1
      <4> QED
        BY <4>1, <4>2
    <3> QED
      BY <2>1, <3>1, <3>2
  <2> QED
    BY <2>2, <2>6 DEF answer, stated, verdict, bits
<1>3. CASE verdict = "symmetricSize"
  <2>1. answer = symmetricSize(name, 0) /\ SafeFrom(verdict) = 256
    BY <1>3 DEF VerdictOf, SafeFrom
  <2>2. CASE HasPrefix(name, "CHACHA")
    <3>1. stated = {256} /\ answer = "quantum_safe"
      BY <1>3, <2>1, <2>2, UnstatedSize DEF SizesIn
    <3> QED
      BY <2>1, <3>1
  <2>3. CASE ~HasPrefix(name, "CHACHA")
    <3>1. stated = {size \in SymmetricSizes : EndsIn(name, size)}
      BY <1>3, <2>3 DEF SizesIn
    <3>2. answer = CASE bits = 256 -> "quantum_safe"
                     [] bits \in {128, 192} -> "quantum_reduced"
                     [] OTHER -> "unknown"
      BY <2>1, <2>3, UnstatedSize
    <3> HIDE DEF answer, stated, bits, verdict
    <3>3. stated = {bits} \cap SymmetricSizes
      BY <1>1, <3>1
    <3>4. /\ stated = {} => answer = "unknown"
          /\ \A size \in stated :
               answer = IF size >= 256 THEN "quantum_safe" ELSE "quantum_reduced"
      <4>1. CASE bits \notin SymmetricSizes
        <5>1. stated = {} /\ answer = "unknown"
          BY <3>2, <3>3, <4>1 DEF SymmetricSizes
        <5> QED
          BY <5>1
      <4>2. CASE bits \in SymmetricSizes
        <5>1. stated = {bits} /\ bits \in {128, 192, 256}
          <6>1. stated = {bits}
            BY <3>3, <4>2
          <6> QED
            BY <4>2, <6>1 DEF SymmetricSizes
        <5>2. answer = IF bits = 256 THEN "quantum_safe" ELSE "quantum_reduced"
          BY <3>2, <5>1
        <5> QED
          BY <5>1, <5>2
      <4> QED
        BY <4>1, <4>2
    <3> QED
      BY <2>1, <3>4 DEF answer, stated, verdict
  <2> QED
    BY <2>2, <2>3
<1> QED
  BY <1>2, <1>3 DEF verdict

\* A size nobody stated is never guessed (classify.go:62-102), in every table,
\* for every name whose numbers are read as they are written.
THEOREM SizesAreReadOff ==
  ASSUME NumbersAreRead
  PROVE  Spec => []SizesAreNotGuessed
<1>1. ScanInv /\ Settled => SizesAreNotGuessed
  <2> DEFINE verdict == Table[row].verdict
             stated == SizesOf(asset, verdict)
             answer(size) == IF size >= SafeFrom(verdict)
                             THEN "quantum_safe" ELSE "quantum_reduced"
  <2> SUFFICES ASSUME ScanInv, Settled, pc = "done", row # 0,
                      verdict \in {"symmetricSize", "digestSize"}
               PROVE  /\ stated = {} => posture = "unknown"
                      /\ \A size \in stated : posture = answer(size)
    BY DEF SizesAreNotGuessed
  <2>1. /\ row \in DOMAIN Table /\ asset.name \in Names
        /\ Table[row].matcher \/ HasPrefix(asset.name, Table[row].family)
    BY RowApplies DEF ScanInv, TypeOK
  <2>2. CASE verdict = "symmetricSize" /\ asset.keySize # 0
    <3>1. posture = symmetricSize(asset.name, asset.keySize) /\ SafeFrom(verdict) = 256
      BY <2>2 DEF Settled, VerdictOf, SafeFrom
    <3>2. asset.keySize \in Nat \ {0}
      BY <2>2, KeySizesAssumption DEF ScanInv, TypeOK
    <3>3. stated = {asset.keySize}
      BY <2>2 DEF SizesOf
    <3>4. posture = answer(asset.keySize)
      BY <3>1, <3>2, StatedSize
    <3> QED
      BY <3>3, <3>4
  <2>3. CASE ~(verdict = "symmetricSize" /\ asset.keySize # 0)
    <3>1. posture = VerdictOf(Table[row], asset.name, 0)
      BY <2>3 DEF Settled, VerdictOf
    <3>2. stated = SizesIn(asset.name, verdict)
      BY <2>3 DEF SizesOf
    <3> QED
      BY <2>1, <3>1, <3>2, NamedSizes
  <2> QED
    BY <2>2, <2>3
<1> QED
  BY <1>1, VerdictsSettle, PTL
=============================================================================
