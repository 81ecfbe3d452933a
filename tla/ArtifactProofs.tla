--------------------------- MODULE ArtifactProofs ---------------------------
(***************************************************************************)
(* Theorems about Artifact, for every source file and every handshake: a   *)
(* walk reports every call and every configured value once and nothing     *)
(* else, the inventory says of the key exchange what the summary says, and *)
(* the printed table is in order.                                          *)
(***************************************************************************)
EXTENDS FileProofs

-----------------------------------------------------------------------------
\* The printed table.

LEMMA Indices == \A posture : IndexOf(posture) \in 0..7
  BY DEF IndexOf, order

\* A table of one posture after the other is in order and leaves nothing out.
LEMMA ReportSorts ==
  ASSUME NEW A, NEW list \in Seq(A)
  PROVE  /\ report(list) \in Seq(A)
         /\ Len(report(list)) = Len(list)
         /\ \A k, l \in 1..Len(list) : k < l =>
              IndexOf(report(list)[k].posture) <= IndexOf(report(list)[l].posture)
<1> DEFINE Rank(a) == IndexOf(a.posture)
           Standing(i) == {a \in {list[l] : l \in DOMAIN list} : IndexOf(a.posture) = i}
           lists == [i \in 1..(Len(order) + 1) |-> Only(list, Standing(i - 1))]
           Until(i) == {l \in 1..Len(list) : Rank(list[l]) < i}
           At(i) == {l \in 1..Len(list) : list[l] \in Standing(i)}
<1>1. Len(list) \in Nat /\ DOMAIN list = 1..Len(list) /\ \A l \in 1..Len(list) : list[l] \in A
  OBVIOUS
<1>2. Len(order) + 1 = 8
  BY DEF order
<1>3. \A i : /\ Only(list, Standing(i)) \in Seq(A)
             /\ \A x : Holds(Only(list, Standing(i)), x) => Rank(x) = i
             /\ IsFiniteSet(At(i)) /\ Len(Only(list, Standing(i))) = Cardinality(At(i))
  <2> SUFFICES ASSUME NEW i
               PROVE  /\ Only(list, Standing(i)) \in Seq(A)
                      /\ \A x : Holds(Only(list, Standing(i)), x) => Rank(x) = i
                      /\ IsFiniteSet(At(i))
                      /\ Len(Only(list, Standing(i))) = Cardinality(At(i))
    OBVIOUS
  <2>1. \A x \in Standing(i) : Rank(x) = i
    OBVIOUS
  <2>2. /\ IsFiniteSet(At(i))
        /\ Len(Only(list, Standing(i))) = Cardinality(At(i))
    BY OnlyCounts
  <2> HIDE DEF Standing, Rank, At
  <2>3. /\ Only(list, Standing(i)) \in Seq(A)
        /\ \A x : Holds(Only(list, Standing(i)), x) => x \in Standing(i)
    BY OnlyKeeps
  <2> QED
    BY <2>1, <2>2, <2>3
<1>4. \A l \in 1..Len(list) : Rank(list[l]) \in 0..7
  BY Indices
<1>5. /\ lists \in Seq(Seq(A)) /\ Len(lists) = 8
      /\ \A i \in 1..8 : lists[i] = Only(list, Standing(i - 1))
      /\ report(list) = Seqs!FlattenSeq(lists)
  <2>1. report(list) = Seqs!FlattenSeq(lists)
    BY DEF report
  <2>2. lists = [i \in 1..8 |-> Only(list, Standing(i - 1))]
    BY <1>2
  <2> HIDE DEF Standing, lists
  <2>3. \A i \in 1..8 : lists[i] = Only(list, Standing(i - 1)) /\ lists[i] \in Seq(A)
    BY <1>3, <2>2
  <2>4. lists \in Seq(Seq(A)) /\ Len(lists) = 8
    <3>1. lists = [i \in 1..8 |-> lists[i]]
      BY <2>2
    <3>2. lists \in [1..8 -> Seq(A)]
      BY <2>3, <3>1
    <3> QED
      BY <3>1, <3>2
  <2> QED
    BY <2>1, <2>3, <2>4
<1> HIDE DEF lists
<1>6. PICK f : /\ f[0] = << >>
               /\ \A i \in 1..8 : f[i] = f[i - 1] \o lists[i]
               /\ \A i \in 0..8 : f[i] \in Seq(A)
               /\ report(list) = f[8]
  <2>1. \E f : /\ f[0] = << >>
               /\ \A i \in 1..Len(lists) : f[i] = f[i - 1] \o lists[i]
               /\ \A i \in 0..Len(lists) : f[i] \in Seq(A)
               /\ Seqs!FlattenSeq(lists) = f[Len(lists)]
    BY <1>5, FlattenSteps
  <2> QED
    BY <1>5, <2>1
<1> DEFINE Sorted(t) == \A k, l \in 1..Len(t) : k < l => Rank(t[k]) <= Rank(t[l])
           good == {i \in Nat : /\ IsFiniteSet(Until(i))
                                /\ Len(f[i]) = Cardinality(Until(i))
                                /\ Sorted(f[i])
                                /\ \A k \in 1..Len(f[i]) : Rank(f[i][k]) < i}
<1>7. 0 \in good
  <2>1. Until(0) = {}
    BY <1>4
  <2>2. IsFiniteSet(Until(0)) /\ Cardinality(Until(0)) = 0
    BY <2>1, FS_EmptySet
  <2> HIDE DEF Until
  <2>3. f[0] = << >> /\ Len(f[0]) = 0
    BY <1>6
  <2>4. 1..Len(f[0]) = {}
    BY <2>3
  <2> QED
    BY <2>2, <2>3, <2>4
<1>8. ASSUME NEW i \in 0..7, i \in good PROVE i + 1 \in good
  <2> DEFINE s == f[i]
             t == lists[i + 1]
  <2>1. /\ i + 1 \in 1..8 /\ (i + 1) - 1 = i /\ i \in 0..8 /\ i + 1 \in Nat /\ i \in Nat
    OBVIOUS
  <2>2. f[i + 1] = s \o t /\ s \in Seq(A) /\ t = Only(list, Standing(i))
    BY <1>5, <1>6, <2>1
  <2>3. /\ t \in Seq(A) /\ IsFiniteSet(At(i)) /\ Len(t) = Cardinality(At(i))
        /\ \A k \in 1..Len(t) : Rank(t[k]) = i
    <3>1. \A k \in 1..Len(t) : Holds(t, t[k])
      BY DEF Holds
    <3> QED
      BY <1>3, <2>2, <3>1
  <2>4. Until(i + 1) = Until(i) \cup At(i) /\ Until(i) \cap At(i) = {}
    <3>1. \A l \in 1..Len(list) : list[l] \in Standing(i) <=> Rank(list[l]) = i
      BY <1>1
    <3> HIDE DEF Standing, Rank
    <3> QED
      BY <1>4, <3>1
  <2>5. /\ IsFiniteSet(Until(i)) /\ Len(s) = Cardinality(Until(i))
        /\ Sorted(s) /\ \A k \in 1..Len(s) : Rank(s[k]) < i
    BY <1>8
  <2>0. \A x : Rank(x) \in Int
    BY Indices
  <2> HIDE DEF s, t, Until, At, Rank
  <2>6. IsFiniteSet(Until(i + 1)) /\ Cardinality(Until(i + 1)) = Len(s) + Len(t)
    <3>1. Cardinality(Until(i) \cap At(i)) = 0
      BY <2>4, FS_EmptySet
    <3>2. /\ IsFiniteSet(Until(i) \cup At(i))
          /\ Cardinality(Until(i) \cup At(i))
               = Cardinality(Until(i)) + Cardinality(At(i)) - Cardinality(Until(i) \cap At(i))
      BY <2>3, <2>5, FS_Union
    <3>3. Len(s) \in Nat /\ Len(t) \in Nat
      BY <2>2, <2>3
    <3>4. Cardinality(Until(i)) = Len(s) /\ Cardinality(At(i)) = Len(t)
      BY <2>3, <2>5
    <3>5. IsFiniteSet(Until(i + 1))
      BY <2>4, <3>2
    <3>6. Cardinality(Until(i + 1)) = Len(s) + Len(t) - 0
      BY <2>4, <3>1, <3>2, <3>4
    <3> QED
      BY <3>3, <3>5, <3>6
  <2> DEFINE both == s \o t
  <2>7. /\ Len(both) = Len(s) + Len(t) /\ Len(s) \in Nat /\ Len(t) \in Nat
        /\ \A k \in 1..Len(both) :
             \/ k \in 1..Len(s) /\ both[k] = s[k]
             \/ k - Len(s) \in 1..Len(t) /\ both[k] = t[k - Len(s)]
    BY <2>2, <2>3
  <2> HIDE DEF both
  <2>8. \A k \in 1..Len(both) :
          \/ k \in 1..Len(s) /\ Rank(both[k]) = Rank(s[k]) /\ Rank(both[k]) < i
          \/ k - Len(s) \in 1..Len(t) /\ Rank(both[k]) = i
    BY <2>3, <2>5, <2>7
  <2>9. \A k \in 1..Len(both) : Rank(both[k]) < i + 1
    BY <2>0, <2>1, <2>8
  <2>10. Sorted(both)
    <3> SUFFICES ASSUME NEW k \in 1..Len(both), NEW l \in 1..Len(both), k < l
                 PROVE  Rank(both[k]) <= Rank(both[l])
      OBVIOUS
    <3>1. CASE l \in 1..Len(s) /\ Rank(both[l]) = Rank(s[l])
      <4>1. k \in 1..Len(s) /\ ~(k - Len(s) \in 1..Len(t))
        BY <2>7, <3>1
      <4> QED
        BY <2>5, <2>8, <3>1, <4>1
    <3>2. CASE Rank(both[l]) = i
      BY <2>0, <2>1, <2>8, <3>2
    <3> QED
      BY <2>8, <3>1, <3>2
  <2> QED
    BY <2>1, <2>2, <2>6, <2>7, <2>9, <2>10 DEF both
<1> HIDE DEF good
<1>9. 8 \in good
  <2>1. \A k \in 0..(8 - 1) : k \in good => k + 1 \in good
    BY <1>8
  <2>2. 0..8 \subseteq good
    BY <1>7, <2>1, UpTo
  <2> QED
    BY <2>2
<1>10. Until(8) = 1..Len(list)
  BY <1>4
<1>11. Cardinality(1..Len(list)) = Len(list)
  <2> DEFINE n == Len(list)
  <2>1. n \in Int /\ n \in Nat /\ 1 \in Int
    BY <1>1
  <2> HIDE DEF n
  <2>2. Cardinality(1..n) = IF 1 > n THEN 0 ELSE n - 1 + 1
    BY <2>1, FS_Interval
  <2>3. Cardinality(1..n) = n
    BY <2>1, <2>2
  <2> QED
    BY <2>3 DEF n
<1>12. /\ Len(f[8]) = Cardinality(Until(8))
       /\ Sorted(f[8])
  BY <1>9 DEF good
<1> HIDE DEF Until
<1>13. report(list) \in Seq(A) /\ Len(report(list)) = Len(list)
  BY <1>6, <1>10, <1>11, <1>12
<1> QED
  BY <1>6, <1>12, <1>13

-----------------------------------------------------------------------------
\* The classifier.

\* What a row covers does not depend on the row that is returned.
LEMMA CoversAlike ==
  ASSUME NEW asset, NEW row, NEW r
  PROVE  /\ Judging(asset, row)!Matched(r) <=> Judging(asset, 0)!Matched(r)
         /\ Judging(asset, row)!InFamily(r) <=> Judging(asset, 0)!InFamily(r)
<1>1. Judging(asset, row)!Matched(r) <=> Judging(asset, 0)!Matched(r)
  BY Zenon DEF Judging!Matched, Judging!Applies, Judging!NamesBothHalves, Judging!Contains,
         Judging!HasPrefix, Judging!classicalHalves, Judging!postQuantumHalves
<1>2. Judging(asset, row)!InFamily(r) <=> Judging(asset, 0)!InFamily(r)
  BY Zenon DEF Judging!InFamily, Judging!Applies, Judging!HasPrefix
<1> QED
  BY <1>1, <1>2

\* The classifier answers: there is a first row with a matcher that recognises
\* the asset, or a first of the longest families it begins with, or neither.
LEMMA RowExists ==
  ASSUME NEW asset
  PROVE  \E row \in 0..Len(classificationTable) : Judging(asset, row)!LongestFamilyWins
<1> DEFINE T == classificationTable
           size(k) == Len(T[k].family)
           M(k) == Judging(asset, 0)!Matched(T[k])
           F(k) == Judging(asset, 0)!InFamily(T[k])
           matched == {k \in 1..Len(T) : M(k)}
           inFamily == {k \in 1..Len(T) : F(k)}
<1>1. /\ Len(T) \in Nat /\ DOMAIN T = 1..Len(T)
      /\ \A k \in 1..Len(T) : size(k) \in Nat
  BY RowsAssumption
<1>2. ASSUME NEW row \in 1..Len(T), M(row), \A k \in 1..(row - 1) : ~M(k)
      PROVE  Judging(asset, row)!LongestFamilyWins
  <2>1. row # 0
    BY <1>1
  <2>2. \A k : Judging(asset, row)!Matched(T[k]) <=> M(k)
    BY CoversAlike
  <2> QED
    BY <1>2, <2>1, <2>2 DEF Judging!LongestFamilyWins, Judging!IsTheRow
<1>3. ASSUME NEW row \in 1..Len(T), F(row), \A k \in 1..Len(T) : ~M(k),
             \A k \in 1..Len(T) : F(k) => ~(size(k) > size(row)),
             \A k \in 1..(row - 1) : F(k) => size(row) > size(k)
      PROVE  Judging(asset, row)!LongestFamilyWins
  <2>1. row # 0
    BY <1>1
  <2>2. \A k : /\ Judging(asset, row)!Matched(T[k]) <=> M(k)
               /\ Judging(asset, row)!InFamily(T[k]) <=> F(k)
    BY CoversAlike
  <2> HIDE DEF M, F
  <2> QED
    BY <1>1, <1>3, <2>1, <2>2
    DEF Judging!LongestFamilyWins, Judging!IsTheRow, Judging!Longer
<1>4. ASSUME \A k \in 1..Len(T) : ~M(k) /\ ~F(k)
      PROVE  Judging(asset, 0)!LongestFamilyWins
  BY <1>1, <1>4 DEF Judging!LongestFamilyWins
<1> HIDE DEF M, F, size
<1>5. CASE matched # {}
  <2>1. PICK row \in matched : \A k \in matched : row <= k
    <3>1. matched \in SUBSET Nat
      OBVIOUS
    <3> HIDE DEF matched
    <3> QED
      BY <1>5, <3>1, LeastNatural
  <2>2. row \in 1..Len(T) /\ M(row) /\ \A k \in 1..(row - 1) : ~M(k)
    BY <1>1, <2>1
  <2> QED
    BY <1>1, <1>2, <2>2
<1>6. CASE matched = {} /\ inFamily = {}
  <2>1. \A k \in 1..Len(T) : ~M(k) /\ ~F(k)
    BY <1>6
  <2> QED
    BY <1>1, <1>4, <2>1
<1>7. CASE matched = {} /\ inFamily # {}
  <2> DEFINE Tops(n) == {k \in inFamily : k <= n /\ \A l \in inFamily : l <= n => size(l) <= size(k)}
             topped == {n \in Nat : (\E k \in inFamily : k <= n) => Tops(n) # {}}
             longest == Tops(Len(T))
  <2>1. longest # {} /\ longest \in SUBSET Nat
    <3>1. 0 \in topped
      BY <1>1
    <3>2. ASSUME NEW n \in 0..(Len(T) - 1), n \in topped PROVE n + 1 \in topped
      <4>1. n + 1 \in 1..Len(T) /\ n \in Nat
        BY <1>1
      <4>2. CASE n + 1 \notin inFamily
        <5>1. \A k \in inFamily : k <= n + 1 <=> k <= n
          BY <1>1, <4>1, <4>2
        <5>2. Tops(n + 1) = Tops(n)
          BY <5>1
        <5> HIDE DEF Tops, inFamily
        <5> QED
          BY <3>2, <4>1, <5>1, <5>2
      <4>3. CASE n + 1 \in inFamily /\ Tops(n) = {}
        <5>1. \A k \in inFamily : ~(k <= n)
          BY <3>2, <4>3
        <5>2. \A k \in inFamily : k <= n + 1 => k = n + 1
          BY <1>1, <4>1, <5>1
        <5>3. n + 1 \in Tops(n + 1)
          BY <1>1, <4>1, <4>3, <5>2
        <5> QED
          BY <4>1, <5>3
      <4>4. CASE n + 1 \in inFamily /\ Tops(n) # {}
        <5>1. PICK top \in Tops(n) : TRUE
          BY <4>4
        <5>2. /\ top \in inFamily /\ top <= n
              /\ \A l \in inFamily : l <= n => size(l) <= size(top)
          BY <5>1
        <5>3. \A l \in inFamily : l <= n + 1 => l <= n \/ l = n + 1
          BY <1>1, <4>1
        <5>4. \A l \in inFamily : size(l) \in Nat
          BY <1>1
        <5>5. CASE size(top) <= size(n + 1)
          <6>1. \A l \in inFamily : l <= n + 1 => size(l) <= size(n + 1)
            <7> HIDE DEF size
            <7> QED
              BY <4>4, <5>2, <5>3, <5>4, <5>5
          <6>2. n + 1 \in Tops(n + 1)
            BY <4>1, <4>4, <6>1
          <6> QED
            BY <4>1, <6>2
        <5>6. CASE ~(size(top) <= size(n + 1))
          <6>1. top <= n + 1
            BY <1>1, <4>1, <5>2
          <6>2. \A l \in inFamily : l <= n + 1 => size(l) <= size(top)
            <7> HIDE DEF size
            <7> QED
              BY <4>4, <5>2, <5>3, <5>4, <5>6
          <6>3. top \in Tops(n + 1)
            BY <5>2, <6>1, <6>2
          <6> QED
            BY <4>1, <6>3
        <5> QED
          BY <5>5, <5>6
      <4> QED
        BY <4>2, <4>3, <4>4
    <3> HIDE DEF topped
    <3>3. Len(T) \in topped
      <4>1. 0..Len(T) \subseteq topped
        BY <1>1, <3>1, <3>2, UpTo
      <4> QED
        BY <1>1, <4>1
    <3> QED
      BY <1>1, <1>7, <3>3 DEF topped
  <2>2. PICK row \in longest : \A k \in longest : row <= k
    <3> HIDE DEF longest
    <3> QED
      BY <2>1, LeastNatural
  <2>3. row \in 1..Len(T) /\ F(row)
    BY <2>2
  <2>4. \A k \in 1..Len(T) : F(k) => ~(size(k) > size(row))
    BY <1>1, <2>2
  <2>5. \A k \in 1..(row - 1) : F(k) => size(row) > size(k)
    <3> SUFFICES ASSUME NEW k \in 1..(row - 1), F(k), ~(size(row) > size(k)) PROVE FALSE
      OBVIOUS
    <3>1. k \in inFamily /\ k < row
      BY <1>1, <2>3
    <3>2. \A l \in inFamily : size(l) <= size(k)
      BY <1>1, <2>2, <3>1
    <3> QED
      BY <1>1, <2>2, <2>3, <3>1, <3>2
  <2> QED
    BY <1>1, <1>3, <1>7, <2>3, <2>4, <2>5
<1> QED
  BY <1>5, <1>6, <1>7

\* The verdict on a finding is one of the postures.
LEMMA Judges ==
  ASSUME NEW a, "posture" \in DOMAIN a
  PROVE  Apply(a).posture \in Postures
<1> DEFINE asset == AssetOf(a)
           row == RowOf(asset.name, asset.kind)
           verdict == Judging(asset, row)!VerdictOf(classificationTable[row],
                                                    asset.name, asset.keySize)
           posture == IF row = 0 THEN "unknown" ELSE verdict
           citation == cite(asset, posture)
<1>1. row \in 0..Len(classificationTable)
  BY RowExists DEF RowOf
<1>2. Apply(a) = [a EXCEPT !.posture = posture, !.citation = citation]
  BY DEF Apply, judge
<1> HIDE DEF row, asset, citation
<1>3. row # 0 => classificationTable[row].verdict \in Postures \cup {"symmetricSize", "digestSize"}
  <2> DEFINE T == classificationTable
             Verdicts == Postures \cup {"symmetricSize", "digestSize"}
             Rows == [family : STRING, protocol : BOOLEAN, matcher : BOOLEAN, verdict : Verdicts]
  <2>1. T \in Seq(Rows)
    BY RowsAssumption
  <2>0. \A r \in Rows : r.verdict \in Verdicts
    OBVIOUS
  <2> HIDE DEF T, Verdicts, Rows
  <2>2. Len(T) \in Nat /\ \A k \in 1..Len(T) : T[k].verdict \in Verdicts
    BY <2>0, <2>1
  <2>3. row \in 0..Len(T)
    BY <1>1 DEF T
  <2>4. row # 0 => row \in 1..Len(T)
    BY <2>2, <2>3
  <2> QED
    BY <2>2, <2>4 DEF T, Verdicts
<1>4. row # 0 => verdict \in Postures
  BY <1>3 DEF Judging!VerdictOf, Judging!symmetricSize, Judging!digestSize, Postures
<1>5. posture \in Postures
  BY <1>4 DEF Postures
<1> HIDE DEF posture
<1> QED
  BY <1>2, <1>5

-----------------------------------------------------------------------------
\* The run.

\* The postures some rung trips on come first in the order of the table.
LEMMA RungsComeFirst ==
  ASSUME NEW posture \in Postures
  PROVE  posture \in Rungs <=> IndexOf(posture) < 5
<1>1. Rungs = {"broken", "quantum_vulnerable", "unknown", "quantum_reduced"}
  <2>1. DOMAIN gateLadder = 1..4
    BY DEF gateLadder
  <2>2. 1..4 = {1, 2, 3, 4}
    OBVIOUS
  <2> QED
    BY <2>1, <2>2 DEF Rungs, gateLadder
<1>2. /\ DOMAIN order = 1..7
      /\ order[1] = "broken" /\ order[2] = "quantum_vulnerable" /\ order[3] = "quantum_reduced"
      /\ order[4] = "unknown" /\ order[5] = "hybrid" /\ order[6] = "quantum_safe"
      /\ order[7] = "not_applicable"
  BY DEF order
<1>3. \A k, l \in 1..7 : order[k] = order[l] => k = l
  <2>1. 1..7 = {1, 2, 3, 4, 5, 6, 7}
    OBVIOUS
  <2> QED
    BY <1>2, <2>1
<1>4. ASSUME NEW k \in 1..7, order[k] = posture PROVE IndexOf(posture) = k
  BY <1>2, <1>3, <1>4 DEF IndexOf
<1>5. CASE posture \in Rungs
  <2>1. order[1] = posture \/ order[2] = posture \/ order[3] = posture \/ order[4] = posture
    BY <1>1, <1>2, <1>5
  <2> QED
    BY <1>4, <1>5, <2>1
<1>6. CASE posture \notin Rungs
  <2>1. order[5] = posture \/ order[6] = posture \/ order[7] = posture
    BY <1>1, <1>2, <1>6 DEF Postures
  <2> QED
    BY <1>4, <1>6, <2>1
<1> QED
  BY <1>5, <1>6

LEMMA AttributedListed ==
  ASSUME NEW list, Listed(list)
  PROVE  Listed([k \in DOMAIN list |-> Attributed(list[k])])
<1>1. PICK A : list \in Seq(A) /\ \A a \in A : "posture" \in DOMAIN a
  BY DEF Listed
<1> DEFINE B == {Attributed(a) : a \in A}
<1>2. \A b \in B : "posture" \in DOMAIN b
  BY <1>1 DEF Attributed
<1>3. [k \in DOMAIN list |-> Attributed(list[k])] \in Seq(B)
  BY <1>1
<1> HIDE DEF B
<1> QED
  BY <1>2, <1>3 DEF Listed

LEMMA KeyIsListed ==
  ASSUME NEW cert, NEW at, cert.key.type \in {"rsa", "ecdsa", "ed25519"}
  PROVE  "posture" \in DOMAIN certificateKey(cert, at)
BY DEF certificateKey, Algorithm, Finding

LEMMA HandshakeListed ==
  ASSUME NEW address, NEW state,
         state.chain # << >> => Head(state.chain).key.type \in {"rsa", "ecdsa", "ed25519"}
  PROVE  Listed(fromState(address, state).assets)
<1> DEFINE at == AtHost(address)
           named == keyExchange(state.group)
           transport == keyTransportAsset(state.suite, state.chain, at)
           exchange == CASE named.group # "" -> <<groupAsset(state, at)>>
                         [] named.group = "" /\ transport # {} -> <<CHOOSE a \in transport : TRUE>>
                         [] OTHER -> << >>
           signed == state.chain # << >>
           signature == signatureAsset(Head(state.chain), state.version, at)
           version == Finding(versionName(state.version), "protocol", "", "", at,
                              <<"negotiated protocol version">>)
           opening == <<version, cipherAsset(state.suite, at)>>
           certified == certificateAssets(Head(state.chain), at)
           closing == IF signed THEN Append(certified, signature) ELSE << >>
<1>1. ASSUME NEW a, "posture" \in DOMAIN a PROVE Listed(<<a>>)
  <2> DEFINE A == {a}
  <2>1. <<a>> \in Seq(A) /\ \A b \in A : "posture" \in DOMAIN b
    BY <1>1
  <2> HIDE DEF A
  <2> QED
    BY <2>1 DEF Listed
<1>2. ASSUME NEW a, NEW b, "posture" \in DOMAIN a, "posture" \in DOMAIN b PROVE Listed(<<a, b>>)
  <2> DEFINE A == {a, b}
  <2>1. <<a, b>> \in Seq(A) /\ \A c \in A : "posture" \in DOMAIN c
    BY <1>2
  <2> HIDE DEF A
  <2> QED
    BY <2>1 DEF Listed
<1>3. Listed(opening)
  <2>1. "posture" \in DOMAIN version
    BY DEF Finding
  <2>2. "posture" \in DOMAIN cipherAsset(state.suite, at)
    BY DEF cipherAsset, Algorithm, Finding
  <2> HIDE DEF version
  <2> QED
    BY <1>2, <2>1, <2>2
<1>4. Listed(exchange)
  <2>1. "posture" \in DOMAIN groupAsset(state, at)
    BY DEF groupAsset, Algorithm, Finding
  <2>2. \A a \in transport : "posture" \in DOMAIN a
    BY DEF keyTransportAsset, Algorithm, Finding
  <2> HIDE DEF transport, named, at
  <2>3. CASE named.group # ""
    BY <1>1, <2>1, <2>3
  <2>4. CASE named.group = "" /\ transport # {}
    <3>1. (CHOOSE a \in transport : TRUE) \in transport
      BY <2>4
    <3>2. Listed(<<CHOOSE a \in transport : TRUE>>)
      BY <1>1, <2>2, <3>1
    <3> QED
      BY <2>4, <3>2
  <2>5. CASE named.group = "" /\ transport = {}
    BY <2>5, EmptyList
  <2> QED
    BY <2>3, <2>4, <2>5
<1>5. Listed(closing)
  <2>1. CASE signed
    <3>1. "posture" \in DOMAIN certificateKey(Head(state.chain), at)
      BY <2>1, KeyIsListed
    <3>2. "posture" \in DOMAIN signature
      BY DEF signatureAsset, Algorithm, Finding
    <3>3. Listed(certified)
      BY <1>2, <3>1 DEF certificateAssets, Finding
    <3> HIDE DEF certified, signature
    <3>4. Listed(Append(certified, signature))
      BY <3>2, <3>3, ListedAppend
    <3> QED
      BY <2>1, <3>4
  <2>2. CASE ~signed
    BY <2>2, EmptyList
  <2> QED
    BY <2>1, <2>2
<1>6. fromState(address, state).assets = opening \o exchange \o closing
  BY DEF fromState
<1> HIDE DEF opening, exchange, closing
<1>7. Listed(opening \o exchange \o closing)
  BY <1>3, <1>4, <1>5, ListedConcat
<1> QED
  BY <1>6, <1>7

\* What the run has gathered, judged and written, by how far it is.
RunInv ==
  /\ input \in Inputs
  /\ Listed(gathered)
  /\ \/ /\ pc = "files" /\ next \in 1..Len(input.files)
        /\ listing = << >> /\ document = << >>
     \/ pc \in {"probe", "judge"} /\ listing = << >> /\ document = << >>
     \/ pc = "write" /\ listing = << >> /\ document = << >> /\ assets = ApplyAll(gathered)
     \/ /\ pc = "done" /\ assets = ApplyAll(gathered)
        /\ \/ listing = report(assets) /\ document = << >>
           \/ listing = << >> /\ document = Build(assets)

Inv == WalkInv /\ RunInv

LEMMA FilesAreGiven ==
  ASSUME NEW given \in Inputs, NEW k \in 1..Len(given.files)
  PROVE  given.files[k] \in Files
<1>1. given.files \in Seq(Files)
  BY InputsAssumption
<1> QED
  BY <1>1

LEMMA InitInv == Init => Inv
<1> SUFFICES ASSUME Init PROVE Inv
  OBVIOUS
<1>1. /\ input \in Inputs /\ pc = "files" /\ next = 1 /\ gathered = << >>
      /\ listing = << >> /\ document = << >>
      /\ file = input.files[1] /\ stage = "imports" /\ found = << >>
  BY DEF Init, InitFile
<1>2. 1 \in 1..Len(input.files)
  <2>1. input.files \in Seq(Files) /\ input.files # << >>
    BY <1>1, InputsAssumption
  <2> QED
    BY <2>1
<1>3. file \in Files
  BY <1>1, <1>2, FilesAreGiven
<1>4. Listed(found) /\ Listed(gathered) /\ DOMAIN found = {}
  BY <1>1, EmptyList
<1>5. WalkInv
  BY <1>1, <1>3, <1>4 DEF WalkInv
<1>6. RunInv
  BY <1>1, <1>2, <1>4 DEF RunInv
<1> QED
  BY <1>5, <1>6 DEF Inv

LEMMA CollectKeeps == ASSUME Listed(found), Listed(gathered), Collect PROVE Listed(gathered')
<1> DEFINE more == [k \in DOMAIN found |-> Attributed(found[k])]
<1>1. Listed(more)
  BY AttributedListed
<1>2. gathered' = gathered \o more
  BY DEF Collect
<1> HIDE DEF more
<1> QED
  BY <1>1, <1>2, ListedConcat

LEMMA NextKeeps == Inv /\ [Next]_vars => Inv'
<1> SUFFICES ASSUME WalkInv, RunInv, [Next]_vars PROVE WalkInv' /\ RunInv'
  BY DEF Inv
<1>0. Listed(found)
  BY DEF WalkInv
<1>1. CASE ReadOn
  <2>1. WalkInv'
    BY <1>1, ReadingKeeps DEF ReadOn
  <2>2. UNCHANGED runVars
    BY <1>1 DEF ReadOn
  <2> QED
    BY <2>1, <2>2 DEF RunInv, runVars, ApplyAll
<1>2. CASE CloseFile
  <2>1. /\ pc = "files" /\ next < Len(input.files) /\ next' = next + 1 /\ pc' = pc /\ input' = input
        /\ file' = input.files[next + 1] /\ stage' = "imports" /\ found' = << >>
        /\ listing' = listing /\ document' = document /\ Collect
    BY <1>2 DEF CloseFile, Collect
  <2>2. input \in Inputs /\ next \in 1..Len(input.files) /\ listing = << >> /\ document = << >>
    BY <2>1 DEF RunInv
  <2>3. next + 1 \in 1..Len(input.files)
    <3>1. Len(input.files) \in Nat
      BY <2>2, InputsAssumption
    <3> QED
      BY <2>1, <2>2, <3>1
  <2>4. file' \in Files
    BY <2>1, <2>2, <2>3, FilesAreGiven
  <2>5. Listed(gathered')
    BY <1>0, <2>1, CollectKeeps DEF RunInv
  <2>6. WalkInv'
    BY <2>1, <2>4, FileOpened
  <2> QED
    BY <2>1, <2>2, <2>3, <2>5, <2>6 DEF RunInv
<1>3. CASE CloseLastFile
  <2>1. /\ pc = "files" /\ pc' = "probe" /\ UNCHANGED fileVars /\ input' = input
        /\ listing' = listing /\ document' = document /\ Collect
    BY <1>3 DEF CloseLastFile, Collect
  <2>2. Listed(gathered')
    BY <1>0, <2>1, CollectKeeps DEF RunInv
  <2>3. WalkInv'
    BY <2>1, WalkStutters
  <2> QED
    BY <2>1, <2>2, <2>3 DEF RunInv
<1>4. CASE Handshake
  <2>1. /\ pc = "probe" /\ pc' = "judge" /\ UNCHANGED fileVars /\ input' = input
        /\ listing' = listing /\ document' = document /\ input.handshake # {}
        /\ result' = {fromState(Address, state) : state \in input.handshake}
        /\ \A r \in result' : gathered' = gathered \o r.assets
    BY <1>4 DEF Handshake
  <2>2. PICK state \in input.handshake : TRUE
    BY <2>1
  <2>3. gathered' = gathered \o fromState(Address, state).assets
    BY <2>1, <2>2
  <2>4. Listed(fromState(Address, state).assets)
    BY <2>2, InputsAssumption, HandshakeListed DEF RunInv
  <2>5. Listed(gathered')
    BY <2>3, <2>4, ListedConcat DEF RunInv
  <2>6. WalkInv'
    BY <2>1, WalkStutters
  <2> QED
    BY <2>1, <2>5, <2>6 DEF RunInv
<1>5. CASE NoEndpoint
  <2>1. WalkInv'
    BY <1>5, WalkStutters DEF NoEndpoint
  <2> QED
    BY <1>5, <2>1 DEF NoEndpoint, RunInv
<1>6. CASE Judge
  <2>1. WalkInv'
    BY <1>6, WalkStutters DEF Judge
  <2>2. /\ pc = "judge" /\ pc' = "write" /\ input' = input /\ gathered' = gathered
        /\ listing' = listing /\ document' = document /\ assets' = ApplyAll(gathered)
    BY <1>6 DEF Judge
  <2>3. assets' = ApplyAll(gathered)'
    BY <2>2
  <2> QED
    BY <2>1, <2>2, <2>3 DEF RunInv, ApplyAll
<1>7. CASE PrintReport \/ BuildDocument
  <2>1. WalkInv'
    BY <1>7, WalkStutters DEF PrintReport, BuildDocument
  <2>2. /\ pc = "write" /\ pc' = "done" /\ input' = input /\ gathered' = gathered
        /\ assets' = assets
        /\ \/ listing' = report(assets) /\ document' = document
           \/ listing' = listing /\ document' = Build(assets)
    BY <1>7 DEF PrintReport, BuildDocument
  <2>3. /\ input \in Inputs /\ Listed(gathered)
        /\ listing = << >> /\ document = << >> /\ assets = ApplyAll(gathered)
    BY <2>2 DEF RunInv
  <2>4. assets' = ApplyAll(gathered)' /\ (listing' = report(assets') \/ document' = Build(assets'))
    BY <2>2, <2>3
  <2> QED
    BY <2>1, <2>2, <2>3, <2>4 DEF RunInv, ApplyAll, report, Build
<1>8. CASE UNCHANGED vars
  <2>1. WalkInv'
    BY <1>8, WalkStutters DEF vars
  <2> QED
    BY <1>8, <2>1 DEF RunInv, vars, runVars, ApplyAll
<1> QED
  BY <1>1, <1>2, <1>3, <1>4, <1>5, <1>6, <1>7, <1>8 DEF Next, Ended

LEMMA InvAlways == Spec => []Inv
BY InitInv, NextKeeps, PTL DEF Spec

-----------------------------------------------------------------------------
\* What stands in a file, and what an endpoint said.

\* A list of findings of files.
Sourced(list) == \E A : list \in Seq(A) /\ \A a \in A : InSource(a)

LEMMA SourcedConcat ==
  ASSUME NEW list, Sourced(list), NEW more, Sourced(more)
  PROVE  Sourced(list \o more)
<1>1. PICK A : list \in Seq(A) /\ \A b \in A : InSource(b)
  BY DEF Sourced
<1>2. PICK B : more \in Seq(B) /\ \A b \in B : InSource(b)
  BY DEF Sourced
<1> DEFINE C == A \cup B
<1>3. list \in Seq(C) /\ more \in Seq(C) /\ \A b \in C : InSource(b)
  BY <1>1, <1>2
<1> HIDE DEF C
<1>4. list \o more \in Seq(C)
  BY <1>3
<1> QED
  BY <1>3, <1>4 DEF Sourced

LEMMA SourcedAppend ==
  ASSUME NEW list, Sourced(list), NEW a, InSource(a)
  PROVE  Sourced(Append(list, a))
<1>1. PICK A : list \in Seq(A) /\ \A b \in A : InSource(b)
  BY DEF Sourced
<1> DEFINE B == A \cup {a}
<1>2. list \in Seq(B) /\ a \in B /\ \A b \in B : InSource(b)
  BY <1>1
<1> HIDE DEF B
<1>3. Append(list, a) \in Seq(B)
  BY <1>2
<1> QED
  BY <1>2, <1>3 DEF Sourced

LEMMA NothingSourced == Sourced(<< >>)
<1> DEFINE A == {}
<1>1. << >> \in Seq(A) /\ \A a \in A : InSource(a)
  OBVIOUS
<1> HIDE DEF A
<1> QED
  BY <1>1 DEF Sourced

LEMMA CallIsInSource ==
  ASSUME file \in Files, NEW n, n.recv # "tls.Config", n.children \in Seq(NodesOf(file)),
         NEW u \in table
  PROVE  InSource(callAsset(n, u))
<1> DEFINE a == [Algorithm(u.algorithm, u.primitive, u.algorithm,
                           InFile(file.path, n.line), <<n.recv, n.name>>)
                   EXCEPT !.keySize = u.keySize]
<1>0. ~Configured(callAsset(n, u))
  BY CallIsReported
<1>1. "location" \in DOMAIN a /\ a.location = InFile(file.path, n.line)
  BY DEF Algorithm, Finding
<1>2. callAsset(n, u) = enrich(a, u, n.children)
  BY DEF callAsset
<1> HIDE DEF a
<1>3. enrich(a, u, n.children).location = a.location
  BY <1>1 DEF enrich
<1> QED
  BY <1>0, <1>1, <1>2, <1>3, CallIsGraded DEF InSource

\* The walk of a dependency puts the module before the path.
LEMMA AttributedIsSourced ==
  ASSUME NEW list, Sourced(list)
  PROVE  Sourced([k \in DOMAIN list |-> Attributed(list[k])])
<1>1. PICK A : list \in Seq(A) /\ \A a \in A : InSource(a)
  BY DEF Sourced
<1> DEFINE B == {Attributed(a) : a \in A}
<1>2. ASSUME NEW a \in A PROVE InSource(Attributed(a))
  <2>1. PICK path, line : a.location = InFile(path, line)
    BY <1>1 DEF InSource
  <2>2. Graded(a) /\ DOMAIN a = Fields /\ (Configured(a) => Setting(a))
    BY <1>1 DEF InSource, Graded
  <2>3. PICK prefixed : Attributed(a) =
                          IF file.module = "" THEN a
                          ELSE [a EXCEPT !.module = file.module,
                                         !.location.file = prefixed]
    BY Zenon DEF Attributed
  <2>4. [InFile(path, line) EXCEPT !.file = prefixed] = InFile(prefixed, line)
    <3>1. PICK host : \A f, l : InFile(f, l) = [file |-> f, line |-> l, host |-> host]
      BY Zenon DEF InFile
    <3> QED
      BY <3>1
  <2>5. \/ Attributed(a) = a
        \/ Attributed(a) = [a EXCEPT !.module = file.module, !.location.file = prefixed]
    BY Zenon, <2>3
  <2>6. [a EXCEPT !.module = file.module, !.location.file = prefixed]
          = [a EXCEPT !.module = file.module, !.location = InFile(prefixed, line)]
    BY <2>1, <2>2, <2>4 DEF Fields
  <2> DEFINE b == Attributed(a)
             at == InFile(prefixed, line)
             module == file.module
  <2>7. CASE b = [a EXCEPT !.module = module, !.location = at]
    <3> SUFFICES InSource(b)
      OBVIOUS
    <3> HIDE DEF b, at, module
    <3>1. Same(b, a)
      BY <2>2, <2>7, SameElsewhere
    <3>2. b.location = at /\ b.evidence = a.evidence
      BY <2>2, <2>7 DEF Fields
    <3>3. Graded(b) /\ (Setting(a) => Setting(b))
      BY <2>2, <3>1, GradedStays, SettingStays
    <3> QED
      BY <2>2, <3>2, <3>3 DEF InSource, Configured, at
  <2> QED
    BY <1>1, <2>5, <2>6, <2>7
<1>3. \A b \in B : InSource(b)
  BY <1>2
<1>4. [k \in DOMAIN list |-> Attributed(list[k])] \in Seq(B)
  BY <1>1
<1> HIDE DEF B
<1> QED
  BY <1>3, <1>4 DEF Sourced

\* Until an endpoint is asked everything stands in a file; what it said comes
\* after that.
Asked ==
  \E prior : \E state \in input.handshake :
    /\ Sourced(prior)
    /\ gathered = prior \o fromState(Address, state).assets
    /\ result = {fromState(Address, state)}

ProbeInv ==
  /\ Sourced(found)
  /\ pc \in {"files", "probe"} => Sourced(gathered) /\ result = {}
  /\ pc \notin {"files", "probe"} => (Sourced(gathered) /\ result = {}) \/ Asked

LEMMA ReadingIsSourced ==
  ASSUME WalkInv, Sourced(found), ReadFile
  PROVE  Sourced(found')
<1>1. CASE VisitCall
  <2>1. PICK u \in table : found' = Append(found, callAsset(Head(todo), u))
    BY <1>1 DEF VisitCall, Meaning
  <2>2. file \in Files /\ todo \in Seq(NodesOf(file)) /\ todo # << >>
    BY <1>1 DEF VisitCall, WalkInv
  <2>3. Head(todo) \in NodesOf(file)
    BY <2>2
  <2>4. Head(todo).recv # "tls.Config" /\ Head(todo).children \in Seq(NodesOf(file))
    BY <2>2, <2>3, FilesAssumption DEF WellFormed
  <2> QED
    BY <2>1, <2>2, <2>4, CallIsInSource, SourcedAppend
<1>2. CASE VisitConfig
  <2>1. found' = found \o tlsConfig(Head(todo)) /\ stage = "walk" /\ todo # << >>
    BY <1>2 DEF VisitConfig
  <2>2. file \in Files /\ todo \in Seq(NodesOf(file))
    BY <2>1 DEF WalkInv
  <2>3. Head(todo) \in NodesOf(file)
    BY <2>1, <2>2
  <2>4. Sourced(tlsConfig(Head(todo)))
    BY <2>2, <2>3, ConfigIsReported DEF Sourced
  <2> QED
    BY <2>1, <2>4, SourcedConcat
<1>3. CASE found' = found
  BY <1>3
<1> QED
  BY <1>1, <1>2, <1>3 DEF ReadFile, NoWatchedImport, ResolveImports, VisitOther, EndOfFile

LEMMA InitProbeInv == Init => ProbeInv
BY NothingSourced DEF Init, InitFile, ProbeInv

LEMMA NextProbeInv == Inv /\ ProbeInv /\ [Next]_vars => ProbeInv'
<1> SUFFICES ASSUME Inv, ProbeInv, [Next]_vars PROVE ProbeInv'
  OBVIOUS
<1>0. Sourced(found) /\ WalkInv /\ RunInv
  BY DEF Inv, ProbeInv
<1>1. CASE ReadOn
  <2>1. Sourced(found')
    BY <1>0, <1>1, ReadingIsSourced DEF ReadOn
  <2>2. UNCHANGED runVars
    BY <1>1 DEF ReadOn
  <2> QED
    BY <2>1, <2>2 DEF ProbeInv, Asked, runVars
<1>2. CASE Collect /\ (CloseFile \/ CloseLastFile)
  <2> DEFINE more == [k \in DOMAIN found |-> Attributed(found[k])]
  <2>1. Sourced(more)
    BY <1>0, AttributedIsSourced
  <2>2. gathered' = gathered \o more /\ pc = "files"
    BY <1>2 DEF Collect
  <2> HIDE DEF more
  <2>3. Sourced(gathered') /\ result = {}
    BY <2>1, <2>2, SourcedConcat DEF ProbeInv
  <2>4. pc' \in {"files", "probe"} /\ result' = result /\ (found' = found \/ found' = << >>)
    BY <1>2, <2>2 DEF CloseFile, CloseLastFile, fileVars
  <2> QED
    BY <1>0, <2>3, <2>4, NothingSourced DEF ProbeInv
<1>3. CASE Handshake
  <2>1. /\ pc = "probe" /\ pc' = "judge" /\ UNCHANGED <<fileVars, input>>
        /\ input.handshake # {}
        /\ result' = {fromState(Address, state) : state \in input.handshake}
        /\ \A r \in result' : gathered' = gathered \o r.assets
    BY <1>3 DEF Handshake
  <2>2. PICK state \in input.handshake : TRUE
    BY <2>1
  <2>3. input.handshake = {state}
    BY <1>0, <2>2, InputsAssumption DEF RunInv
  <2>4. result' = {fromState(Address, state)}
    BY <2>1, <2>3
  <2>5. gathered' = gathered \o fromState(Address, state).assets
    BY <2>1, <2>4
  <2>6. Sourced(gathered) /\ input' = input /\ found' = found
    BY <2>1 DEF ProbeInv, fileVars
  <2>7. Asked'
    BY <2>2, <2>4, <2>5, <2>6 DEF Asked
  <2> QED
    BY <1>0, <2>1, <2>6, <2>7 DEF ProbeInv
<1>4. CASE NoEndpoint
  BY <1>0, <1>4 DEF NoEndpoint, fileVars, ProbeInv
<1>5. CASE Judge \/ PrintReport \/ BuildDocument \/ UNCHANGED vars
  <2>1. /\ found' = found /\ gathered' = gathered /\ result' = result /\ input' = input
        /\ pc' = pc \/ (pc \notin {"files", "probe"} /\ pc' \notin {"files", "probe"})
    BY <1>5 DEF Judge, PrintReport, BuildDocument, vars, fileVars, runVars
  <2> QED
    BY <1>0, <2>1 DEF ProbeInv, Asked
<1> QED
  BY <1>1, <1>2, <1>3, <1>4, <1>5 DEF Next, Ended, CloseFile, CloseLastFile

LEMMA ProbeInvAlways == Spec => []ProbeInv
BY InvAlways, InitProbeInv, NextProbeInv, PTL DEF Spec

-----------------------------------------------------------------------------
\* What a handshake says.

\* A finding of an endpoint.
Heard(a, at) == DOMAIN a = Fields /\ a.location = at

\* What stands for a key exchange.
Exchange(a) == a.primitive \in {"key-agree", "pke"}

LEMMA FindingIsHeard ==
  ASSUME NEW name, NEW kind, NEW primitive, NEW algorithm, NEW at, NEW evidence,
         primitive \notin {"key-agree", "pke"}
  PROVE  LET a == Finding(name, kind, primitive, algorithm, at, evidence)
         IN Heard(a, at) /\ ~Exchange(a)
<1> DEFINE a == Finding(name, kind, primitive, algorithm, at, evidence)
<1>1. DOMAIN a = Fields /\ a.location = at /\ a.primitive = primitive
  BY FindingFields
<1> HIDE DEF a
<1>2. Heard(a, at) /\ ~Exchange(a)
  BY <1>1 DEF Heard, Exchange
<1> QED
  BY <1>2 DEF a

\* A size, a curve or a mode that is filled in changes nothing of that.
LEMMA HeardStays ==
  ASSUME NEW a, NEW at, Heard(a, at), ~Exchange(a), NEW bits, NEW x
  PROVE  /\ LET b == [a EXCEPT !.keySize = bits] IN Heard(b, at) /\ ~Exchange(b)
         /\ LET b == [a EXCEPT !.keySize = bits, !.curve = x] IN Heard(b, at) /\ ~Exchange(b)
         /\ LET b == [a EXCEPT !.keySize = bits, !.mode = x] IN Heard(b, at) /\ ~Exchange(b)
BY DEF Heard, Exchange, Fields

LEMMA VersionIsHeard ==
  ASSUME NEW name, NEW at, NEW evidence
  PROVE  LET a == Finding(name, "protocol", "", "", at, evidence)
         IN Heard(a, at) /\ ~Exchange(a)
<1>1. \A primitive \in {"key-agree", "pke"} : primitive # ""
  BY Zenon
<1>2. PICK unset : unset = ""
  BY Zenon
<1>3. unset \notin {"key-agree", "pke"}
  BY <1>1, <1>2, Zenon
<1>4. LET a == Finding(name, "protocol", unset, unset, at, evidence)
      IN Heard(a, at) /\ ~Exchange(a)
  BY <1>3, FindingIsHeard
<1> QED
  BY <1>2, <1>4, Zenon

LEMMA CipherIsHeard ==
  ASSUME NEW suite, NEW at
  PROVE  Heard(cipherAsset(suite, at), at) /\ ~Exchange(cipherAsset(suite, at))
<1> DEFINE named == {c \in ciphers : Contains(suite, c.part)}
           chosen == CHOOSE c \in named : TRUE
           Bulk == {"block-cipher", "ae", "stream-cipher"}
<1>1. PICK cipher, mode :
        /\ cipher = chosen \/ \E part : cipher = Cipher(part, suite, 0, "block-cipher")
        /\ named # {} \/ cipher # chosen \/ \E part : cipher = Cipher(part, suite, 0, "block-cipher")
        /\ cipherAsset(suite, at) =
             [Algorithm(suite, IF mode \in {"gcm", "ccm"} THEN "ae" ELSE cipher.primitive,
                        cipher.algorithm, at, <<"negotiated suite", suite>>)
                EXCEPT !.keySize = cipher.bits, !.mode = mode]
  BY Zenon DEF cipherAsset
<1>2. \A c \in ciphers : c.primitive \in Bulk
  BY DEF ciphers, Cipher
<1>3. \A part : Cipher(part, suite, 0, "block-cipher").primitive \in Bulk
  BY DEF Cipher
<1>4. named # {} => chosen \in ciphers
  OBVIOUS
<1> HIDE DEF named, chosen
<1>5. cipher.primitive \in Bulk
  BY <1>1, <1>2, <1>3, <1>4
<1> DEFINE primitive == IF mode \in {"gcm", "ccm"} THEN "ae" ELSE cipher.primitive
<1>6. primitive \in Bulk
  BY <1>5
<1>7. cipherAsset(suite, at) =
        [Algorithm(suite, primitive, cipher.algorithm, at, <<"negotiated suite", suite>>)
           EXCEPT !.keySize = cipher.bits, !.mode = mode]
  BY <1>1
<1> HIDE DEF primitive
<1> DEFINE a == Algorithm(suite, primitive, cipher.algorithm, at, <<"negotiated suite", suite>>)
<1>8. Heard(a, at) /\ ~Exchange(a)
  BY <1>6, FindingIsHeard DEF Algorithm
<1> HIDE DEF a
<1>9. LET b == [a EXCEPT !.keySize = cipher.bits, !.mode = mode] IN Heard(b, at) /\ ~Exchange(b)
  BY <1>8, HeardStays
<1> QED
  BY <1>7, <1>9 DEF a

LEMMA CertificateIsHeard ==
  ASSUME NEW cert, NEW version, NEW at, cert.key.type \in {"rsa", "ecdsa", "ed25519"}
  PROVE  LET list == Append(certificateAssets(cert, at), signatureAsset(cert, version, at))
         IN \E A : list \in Seq(A) /\ \A a \in A : Heard(a, at) /\ ~Exchange(a)
<1> DEFINE key == certificateKey(cert, at)
           signed == Finding(cert.signature, "certificate", "signature",
                             signatureFamily(cert.signature), at,
                             <<"signature of", certificateSubject(cert)>>)
           signature == signatureAsset(cert, version, at)
           A == {key, signed, signature}
<1> DEFINE Signing(name, algorithm, evidence) ==
             Algorithm(name, "signature", algorithm, at, evidence)
<1>0. ASSUME NEW name, NEW algorithm, NEW evidence
      PROVE  Heard(Signing(name, algorithm, evidence), at)
             /\ ~Exchange(Signing(name, algorithm, evidence))
  BY FindingIsHeard DEF Algorithm
<1>1. Heard(key, at) /\ ~Exchange(key)
  <2> DEFINE seen == <<"public key of", certificateSubject(cert)>>
             rsa == "RSA-" \o ToString(cert.key.bits)
             ecdsa == "ECDSA-" \o cert.key.curve
             size == 256
  <2>1. \/ key = [Signing(rsa, "RSA", seen) EXCEPT !.keySize = cert.key.bits]
        \/ key = [Signing(ecdsa, "ECDSA", seen) EXCEPT
                    !.keySize = cert.key.bits, !.curve = cert.key.curve]
        \/ key = [Signing("ED25519", "ED25519", seen) EXCEPT !.keySize = size]
    BY Zenon DEF certificateKey
  <2> HIDE DEF key, seen, rsa, ecdsa, size, Signing
  <2>2. ASSUME NEW name, NEW algorithm, NEW bits, NEW curve
        PROVE  LET a == Signing(name, algorithm, seen)
                   b == [a EXCEPT !.keySize = bits]
                   c == [a EXCEPT !.keySize = bits, !.curve = curve]
               IN Heard(b, at) /\ ~Exchange(b) /\ Heard(c, at) /\ ~Exchange(c)
    BY <1>0, HeardStays
  <2>3. CASE key = [Signing(rsa, "RSA", seen) EXCEPT !.keySize = cert.key.bits]
    BY <2>2, <2>3
  <2>4. CASE key = [Signing(ecdsa, "ECDSA", seen) EXCEPT
                      !.keySize = cert.key.bits, !.curve = cert.key.curve]
    BY <2>2, <2>4
  <2>5. CASE key = [Signing("ED25519", "ED25519", seen) EXCEPT !.keySize = size]
    BY <2>2, <2>5
  <2> QED
    BY <2>1, <2>3, <2>4, <2>5
<1>2. Heard(signed, at) /\ ~Exchange(signed)
  BY FindingIsHeard
<1>3. Heard(signature, at) /\ ~Exchange(signature)
  <2>1. PICK name, algorithm, evidence, bits, curve :
          signature = [Signing(name, algorithm, evidence) EXCEPT !.keySize = bits, !.curve = curve]
    BY DEF signatureAsset
  <2> HIDE DEF signature, Signing
  <2> QED
    BY <1>0, <2>1, HeardStays
<1>4. certificateAssets(cert, at) = <<key, signed>>
  BY DEF certificateAssets
<1> HIDE DEF key, signed, signature
<1>5. Append(<<key, signed>>, signature) \in Seq(A)
  OBVIOUS
<1>6. \A a \in A : Heard(a, at) /\ ~Exchange(a)
  BY <1>1, <1>2, <1>3
<1> HIDE DEF A
<1> QED
  BY <1>4, <1>5, <1>6 DEF signature

LEMMA GroupIsHeard ==
  ASSUME NEW state, NEW at
  PROVE  LET a == groupAsset(state, at)
             group == keyExchange(state.group).group
         IN /\ Heard(a, at) /\ Exchange(a) /\ a.name = group /\ a.algorithm = group
            /\ a.kind = "algorithm" /\ a.keySize = 0
<1> DEFINE group == keyExchange(state.group).group
           evidence == <<"negotiated key exchange group", Hex4(state.group)>> \o Offered
<1>1. groupAsset(state, at) = Finding(group, "algorithm", "key-agree", group, at, evidence)
  BY DEF groupAsset, Algorithm
<1> HIDE DEF group, evidence
<1>2. /\ Heard(groupAsset(state, at), at) /\ Exchange(groupAsset(state, at))
      /\ groupAsset(state, at).name = group /\ groupAsset(state, at).algorithm = group
      /\ groupAsset(state, at).kind = "algorithm" /\ groupAsset(state, at).keySize = 0
  BY <1>1, FindingFields DEF Heard, Exchange
<1> QED
  BY <1>2 DEF group

LEMMA TransportIsHeard ==
  ASSUME NEW suite, NEW chain, NEW at, NEW a \in keyTransportAsset(suite, chain, at)
  PROVE  /\ Heard(a, at) /\ Exchange(a) /\ a.name = KeyTransport /\ a.algorithm = "RSA"
         /\ a.kind = "algorithm"
<1> DEFINE seen == <<"key exchange of suite", suite>>
           b == Finding(KeyTransport, "algorithm", "pke", "RSA", at, seen)
<1>1. PICK bits : a = [b EXCEPT !.keySize = bits]
  BY DEF keyTransportAsset, Algorithm
<1> HIDE DEF seen
<1>2. /\ DOMAIN b = Fields /\ b.name = KeyTransport /\ b.kind = "algorithm"
      /\ b.primitive = "pke" /\ b.algorithm = "RSA" /\ b.location = at
  BY FindingFields
<1> HIDE DEF b
<1> QED
  BY <1>1, <1>2 DEF Heard, Exchange, Fields

\* A group that was negotiated has a name, and is read as one thing or the other.
LEMMA GroupIsRead ==
  ASSUME NEW id \in DOMAIN groups, id # 0
  PROVE  /\ keyExchange(id).group # "" /\ keyExchange(id).reading # "none"
         /\ keyExchange(id).group = groups[id].name
<1>1. keyExchange(id) = [group |-> groups[id].name,
                         reading |-> IF groups[id].postQuantum THEN "post_quantum" ELSE "classical"]
  BY Zenon DEF keyExchange
<1>2. keyExchange(id).group = groups[id].name /\ keyExchange(id).reading # "none"
  BY <1>1
<1> QED
  BY <1>2, GroupsAssumption, Zenon

LEMMA NoGroupIsRead == keyExchange(0).group = "" /\ keyExchange(0).reading = "none"
<1>1. keyExchange(0) = [group |-> "", reading |-> "none"]
  BY Zenon DEF keyExchange
<1>2. \A unset : LET read == [group |-> unset, reading |-> "none"]
                  IN read.group = unset /\ read.reading = "none"
  OBVIOUS
<1> QED
  BY <1>1, <1>2, Zenon

\* A handshake's findings hold one key exchange, the one its summary names, or
\* none where the summary says there was none.
LEMMA HandshakeSays ==
  ASSUME NEW address, NEW state,
         state.chain # << >> => Head(state.chain).key.type \in {"rsa", "ecdsa", "ed25519"},
         state.group = 0 \/ state.group \in DOMAIN groups
  PROVE  LET said == fromState(address, state)
             at == AtHost(address)
         IN \E A, opening, exchange, closing :
              /\ said.assets = opening \o exchange \o closing
              /\ opening \in Seq(A) /\ closing \in Seq(A)
              /\ \A a \in A : Heard(a, at) /\ ~Exchange(a)
              /\ \/ exchange = << >> /\ said.keyExchange = "none"
                 \/ \E a : /\ exchange = <<a>> /\ said.keyExchange # "none"
                           /\ Heard(a, at) /\ Exchange(a) /\ a.name = said.group
                           /\ \/ /\ state.group \in DOMAIN groups /\ a = groupAsset(state, at)
                                 /\ said.keyExchange = keyExchange(state.group).reading
                              \/ /\ a \in keyTransportAsset(state.suite, state.chain, at)
                                 /\ said.keyExchange = "classical"
<1> DEFINE at == AtHost(address)
           named == keyExchange(state.group)
           transport == keyTransportAsset(state.suite, state.chain, at)
           exchange == CASE named.group # "" -> <<groupAsset(state, at)>>
                         [] named.group = "" /\ transport # {} -> <<CHOOSE a \in transport : TRUE>>
                         [] OTHER -> << >>
           version == Finding(versionName(state.version), "protocol", "", "", at,
                              <<"negotiated protocol version">>)
           opening == <<version, cipherAsset(state.suite, at)>>
           closing == IF state.chain # << >>
                      THEN Append(certificateAssets(Head(state.chain), at),
                                  signatureAsset(Head(state.chain), state.version, at))
                      ELSE << >>
           said == fromState(address, state)
<1>1. /\ said.assets = opening \o exchange \o closing
      /\ said.group = IF transport # {} /\ named.group = "" THEN KeyTransport ELSE named.group
      /\ said.keyExchange = IF transport # {} /\ named.group = "" THEN "classical" ELSE named.reading
  BY Zenon DEF fromState
<1>2. \E A : opening \in Seq(A) /\ \A a \in A : Heard(a, at) /\ ~Exchange(a)
  <2> DEFINE A == {version, cipherAsset(state.suite, at)}
  <2>1. \A a \in A : Heard(a, at) /\ ~Exchange(a)
    BY VersionIsHeard, CipherIsHeard
  <2> HIDE DEF version
  <2>2. opening \in Seq(A)
    OBVIOUS
  <2> HIDE DEF A
  <2> QED
    BY <2>1, <2>2
<1>3. \E A : closing \in Seq(A) /\ \A a \in A : Heard(a, at) /\ ~Exchange(a)
  <2>1. CASE state.chain # << >>
    <3> DEFINE cert == Head(state.chain)
               agreed == state.version
    <3>1. closing = Append(certificateAssets(cert, at), signatureAsset(cert, agreed, at))
      BY <2>1
    <3>2. cert.key.type \in {"rsa", "ecdsa", "ed25519"}
      BY <2>1
    <3> HIDE DEF closing, cert, at, agreed
    <3> QED
      BY <3>1, <3>2, CertificateIsHeard
  <2>2. CASE state.chain = << >>
    <3> DEFINE A == {}
    <3>1. closing \in Seq(A) /\ \A a \in A : Heard(a, at) /\ ~Exchange(a)
      BY <2>2
    <3> HIDE DEF A
    <3> QED
      BY <3>1
  <2> QED
    BY <2>1, <2>2
<1>4. \/ exchange = << >> /\ said.keyExchange = "none"
      \/ \E a : /\ exchange = <<a>> /\ said.keyExchange # "none"
                /\ Heard(a, at) /\ Exchange(a) /\ a.name = said.group
                /\ \/ /\ state.group \in DOMAIN groups /\ a = groupAsset(state, at)
                      /\ said.keyExchange = keyExchange(state.group).reading
                   \/ a \in transport /\ said.keyExchange = "classical"
  <2> HIDE DEF said, transport, at
  <2>1. CASE state.group # 0
    <3>1. /\ exchange = <<groupAsset(state, at)>> /\ said.group = named.group
          /\ said.keyExchange = named.reading /\ named.reading # "none"
      BY <1>1, <2>1, GroupIsRead, Zenon
    <3> HIDE DEF exchange
    <3> QED
      BY <2>1, <3>1, GroupIsHeard
  <2>2. CASE state.group = 0 /\ transport # {}
    <3> DEFINE a == CHOOSE b \in transport : TRUE
    <3>1. /\ exchange = <<a>> /\ said.group = KeyTransport /\ said.keyExchange = "classical"
      BY <1>1, <2>2, NoGroupIsRead, Zenon
    <3>2. a \in transport
      BY <2>2
    <3> HIDE DEF exchange, a
    <3>3. Heard(a, at) /\ Exchange(a) /\ a.name = KeyTransport
      BY <3>2, TransportIsHeard DEF transport
    <3> QED
      BY <3>1, <3>2, <3>3
  <2>3. CASE state.group = 0 /\ transport = {}
    BY <1>1, <2>3, NoGroupIsRead, Zenon
  <2> QED
    BY <2>1, <2>2, <2>3
<1> HIDE DEF opening, exchange, closing, said
<1>5. PICK A : opening \in Seq(A) /\ \A a \in A : Heard(a, at) /\ ~Exchange(a)
  BY <1>2
<1>6. PICK B : closing \in Seq(B) /\ \A a \in B : Heard(a, at) /\ ~Exchange(a)
  BY <1>3
<1> DEFINE C == A \cup B
<1>7. opening \in Seq(C) /\ closing \in Seq(C) /\ \A a \in C : Heard(a, at) /\ ~Exchange(a)
  BY <1>5, <1>6
<1> HIDE DEF C
<1> QED
  BY <1>1, <1>4, <1>7 DEF said

\* The classifier leaves what it was given, and judges what it is judged by.
LEMMA ApplyKeeps ==
  ASSUME NEW a
  PROVE  /\ \A field \in DOMAIN a \ {"posture", "citation"} : Apply(a)[field] = a[field]
         /\ "posture" \in DOMAIN a => Apply(a).posture = judge(AssetOf(a))
<1>1. PICK citation : Apply(a) = [a EXCEPT !.posture = judge(AssetOf(a)), !.citation = citation]
  BY Zenon DEF Apply
<1> QED
  BY <1>1

LEMMA JudgedAlike ==
  ASSUME NEW a, NEW b, "posture" \in DOMAIN a, "posture" \in DOMAIN b,
         a.name = b.name, a.algorithm = b.algorithm, a.kind = b.kind, a.keySize = b.keySize
  PROVE  Apply(a).posture = Apply(b).posture
<1>1. AssetOf(a) = AssetOf(b)
  BY Zenon DEF AssetOf, family
<1> QED
  BY <1>1, ApplyKeeps

\* A verdict that no row leaves to the size is the same for every size, and so is
\* quantum_vulnerable.
LEMMA JudgedForEverySize ==
  ASSUME NEW name, NEW kind, NEW size,
         \/ classificationTable[RowOf(name, kind)].verdict # "symmetricSize"
         \/ judge(Asset(name, kind, size)) = "quantum_vulnerable"
  PROVE  \A other : judge(Asset(name, kind, other)) = judge(Asset(name, kind, size))
<1> DEFINE row == RowOf(name, kind)
           r == classificationTable[row]
           verdict(bits) == Judging(Asset(name, kind, bits), row)!VerdictOf(r, name, bits)
<1>1. ASSUME NEW bits
      PROVE  judge(Asset(name, kind, bits)) = IF row = 0 THEN "unknown" ELSE verdict(bits)
  BY DEF judge, Asset
<1> HIDE DEF row
<1>2. r.verdict = "symmetricSize" => verdict(size) # "quantum_vulnerable"
  BY DEF Judging!VerdictOf, Judging!symmetricSize
<1>3. r.verdict # "symmetricSize" => \A bits : verdict(bits) = verdict(size)
  <2>1. ASSUME NEW bits
        PROVE  Judging(Asset(name, kind, bits), row)!digestSize(name)
                 = Judging(Asset(name, kind, size), row)!digestSize(name)
    BY Zenon DEF Judging!digestSize, Judging!trailingBits, Judging!trailingNumber, Judging!Digits
  <2> QED
    BY <2>1 DEF Judging!VerdictOf
<1>4. row = 0 \/ r.verdict # "symmetricSize"
  <2>1. CASE r.verdict # "symmetricSize"
    BY <2>1
  <2>2. CASE judge(Asset(name, kind, size)) = "quantum_vulnerable"
    BY <1>1, <1>2, <2>2
  <2> QED
    BY <2>1, <2>2 DEF row
<1> HIDE DEF verdict
<1> QED
  BY <1>1, <1>3, <1>4

LEMMA TransportIsVulnerable ==
  ASSUME TablesAgree, NEW bits
  PROVE  judge(Asset("RSA", "algorithm", bits)) = "quantum_vulnerable"
<1>1. judge(Asset("RSA", "algorithm", 0)) = "quantum_vulnerable"
  BY DEF TablesAgree, OneVerdict
<1> QED
  BY <1>1, JudgedForEverySize

\* What a handshake's key exchange is judged is what its summary says of it.
LEMMA ExchangeIsJudged ==
  ASSUME TablesAgree, NEW state, NEW at, NEW a, NEW verdict,
         \/ /\ state.group \in DOMAIN groups /\ a = groupAsset(state, at)
            /\ verdict = keyExchange(state.group).reading
         \/ /\ a \in keyTransportAsset(state.suite, state.chain, at)
            /\ verdict = "classical"
  PROVE  OneVerdict(verdict, Apply(a).posture)
<1>1. CASE state.group \in DOMAIN groups /\ a = groupAsset(state, at)
                 /\ verdict = keyExchange(state.group).reading
  <2> DEFINE alone == [group |-> state.group]
             b == groupAsset(alone, Address)
  <2>0. alone.group = state.group
    OBVIOUS
  <2>1. OneVerdict(verdict, Apply(b).posture)
    BY <1>1 DEF TablesAgree
  <2> HIDE DEF alone
  <2>2. /\ Heard(a, at) /\ Heard(b, Address)
        /\ a.name = b.name /\ a.algorithm = b.algorithm /\ a.kind = b.kind /\ a.keySize = b.keySize
    BY <1>1, <2>0, GroupIsHeard
  <2> HIDE DEF b
  <2>3. "posture" \in DOMAIN a /\ "posture" \in DOMAIN b
    BY <2>2 DEF Heard, Fields
  <2> QED
    BY <2>1, <2>2, <2>3, JudgedAlike
<1>2. CASE a \in keyTransportAsset(state.suite, state.chain, at) /\ verdict = "classical"
  <2>1. Heard(a, at) /\ a.algorithm = "RSA" /\ a.kind = "algorithm"
    BY <1>2, TransportIsHeard
  <2>2. \A empty : empty = "" => "RSA" # empty
    BY Zenon
  <2>3. family(a) = "RSA"
    BY <2>1, <2>2, Zenon DEF family
  <2>4. AssetOf(a) = Asset("RSA", "algorithm", a.keySize)
    BY <2>1, <2>3 DEF AssetOf
  <2>5. Apply(a).posture = "quantum_vulnerable"
    BY <2>1, <2>4, ApplyKeeps, TransportIsVulnerable DEF Heard, Fields
  <2> QED
    BY <1>2, <2>5 DEF OneVerdict, Settling
<1> QED
  BY <1>1, <1>2

LEMMA NotHeardInSource == ASSUME NEW a, InSource(a) PROVE ~Negotiated(a)
<1>1. PICK path, line : a.location = InFile(path, line)
  BY DEF InSource
<1>2. PICK host : \A f, l : InFile(f, l) = [file |-> f, line |-> l, host |-> host] /\ host # Address
  BY AddressAssumption, Zenon DEF InFile
<1> QED
  BY <1>1, <1>2 DEF Negotiated

LEMMA HeardIsNegotiated == ASSUME NEW a, Heard(a, AtHost(Address)) PROVE Negotiated(a)
<1>1. PICK none : AtHost(Address) = [file |-> none, line |-> 0, host |-> Address]
  BY Zenon DEF AtHost
<1> QED
  BY <1>1 DEF Heard, Negotiated

\* The key exchanges of the endpoint in an inventory, and that they are what the
\* summary says.
Exchanges(judged) ==
  {k \in DOMAIN judged : /\ Negotiated(judged[k])
                         /\ judged[k].primitive \in {"key-agree", "pke"}}

OneExchange(said, judged) ==
  /\ Cardinality(Exchanges(judged)) = IF said.keyExchange = "none" THEN 0 ELSE 1
  /\ \A k \in Exchanges(judged) : /\ judged[k].name = said.group
                                  /\ OneVerdict(said.keyExchange, judged[k].posture)

\* In an inventory that is files first and a handshake after them, the key
\* exchanges of the endpoint are those of the handshake.
LEMMA ExchangesOfARun ==
  ASSUME TablesAgree, NEW prior, Sourced(prior), NEW state,
         state.chain # << >> => Head(state.chain).key.type \in {"rsa", "ecdsa", "ed25519"},
         state.group = 0 \/ state.group \in DOMAIN groups
  PROVE  LET said == fromState(Address, state)
         IN OneExchange(said, ApplyAll(prior \o said.assets))
<1> DEFINE said == fromState(Address, state)
           at == AtHost(Address)
           list == prior \o said.assets
           judged == ApplyAll(list)
           exchanges == Exchanges(judged)
<1>1. PICK A, opening, exchange, closing :
        /\ said.assets = opening \o exchange \o closing
        /\ opening \in Seq(A) /\ closing \in Seq(A)
        /\ \A a \in A : Heard(a, at) /\ ~Exchange(a)
        /\ \/ exchange = << >> /\ said.keyExchange = "none"
           \/ \E a : /\ exchange = <<a>> /\ said.keyExchange # "none"
                     /\ Heard(a, at) /\ Exchange(a) /\ a.name = said.group
                     /\ \/ /\ state.group \in DOMAIN groups /\ a = groupAsset(state, at)
                           /\ said.keyExchange = keyExchange(state.group).reading
                        \/ /\ a \in keyTransportAsset(state.suite, state.chain, at)
                           /\ said.keyExchange = "classical"
  BY HandshakeSays
<1>2. PICK B : prior \in Seq(B) /\ \A a \in B : InSource(a)
  BY DEF Sourced
<1> HIDE DEF said, at
\* What is no key exchange of the endpoint before it is judged is none after.
<1>3. ASSUME NEW a, InSource(a) PROVE ~Negotiated(Apply(a))
  <2>1. "location" \in DOMAIN a
    BY <1>3 DEF InSource, Graded, Fields
  <2>2. Apply(a).location = a.location
    BY <2>1, ApplyKeeps
  <2> QED
    BY <1>3, <2>2, NotHeardInSource DEF Negotiated
<1>4. ASSUME NEW a, Heard(a, at)
      PROVE  /\ Negotiated(Apply(a)) /\ Apply(a).primitive = a.primitive
             /\ Apply(a).name = a.name
  <2>1. Apply(a).location = a.location /\ Apply(a).primitive = a.primitive /\ Apply(a).name = a.name
    BY <1>4, ApplyKeeps DEF Heard, Fields
  <2> QED
    BY <1>4, <2>1, HeardIsNegotiated DEF Negotiated, at
<1>5. ASSUME exchange = << >>, said.keyExchange = "none"
      PROVE  OneExchange(said, judged)
  <2> DEFINE C == A \cup B
  <2>1. prior \in Seq(C) /\ opening \in Seq(C) /\ exchange \in Seq(C) /\ closing \in Seq(C)
    BY <1>1, <1>2, <1>5
  <2>2. \A a \in C : InSource(a) \/ (Heard(a, at) /\ ~Exchange(a))
    BY <1>1, <1>2
  <2> HIDE DEF C
  <2>3. list \in Seq(C)
    BY <1>1, <2>1
  <2> HIDE DEF list
  <2>4. ASSUME NEW k \in DOMAIN judged PROVE k \notin exchanges
    <3>1. list[k] \in C /\ judged[k] = Apply(list[k])
      BY <2>3, <2>4 DEF ApplyAll
    <3> QED
      BY <1>3, <1>4, <2>2, <3>1 DEF Exchange, Exchanges
  <2>5. exchanges = {}
    BY <2>4 DEF Exchanges
  <2> HIDE DEF judged
  <2> QED
    BY <1>5, <2>5, FS_EmptySet DEF OneExchange
<1>6. ASSUME NEW x, exchange = <<x>>, said.keyExchange # "none",
             Heard(x, at), Exchange(x), x.name = said.group,
             \/ /\ state.group \in DOMAIN groups /\ x = groupAsset(state, at)
                /\ said.keyExchange = keyExchange(state.group).reading
             \/ /\ x \in keyTransportAsset(state.suite, state.chain, at)
                /\ said.keyExchange = "classical"
      PROVE  OneExchange(said, judged)
  <2> DEFINE C == A \cup B
             D == C \cup {x}
             before == prior \o opening
             j == Len(before) + 1
  <2>1. /\ prior \in Seq(C) /\ opening \in Seq(C) /\ closing \in Seq(C) /\ before \in Seq(C)
        /\ \A a \in C : InSource(a) \/ (Heard(a, at) /\ ~Exchange(a))
    BY <1>1, <1>2
  <2>2. list = (before \o <<x>>) \o closing
    <3>1. /\ prior \in Seq(D) /\ opening \in Seq(D) /\ closing \in Seq(D) /\ <<x>> \in Seq(D)
      BY <2>1
    <3> DEFINE one == <<x>>
    <3>2. list = prior \o ((opening \o one) \o closing)
      BY <1>1, <1>6
    <3> HIDE DEF C, D, one, list
    <3>3. opening \o one \in Seq(D)
      BY <3>1 DEF one
    <3>4. prior \o ((opening \o one) \o closing) = (prior \o (opening \o one)) \o closing
      BY <3>1, <3>3, ConcatAssociative, SMTT(20)
    <3>5. prior \o (opening \o one) = (prior \o opening) \o one
      BY <3>1, ConcatAssociative DEF one
    <3> QED
      BY <3>2, <3>4, <3>5 DEF one
  <2> HIDE DEF C, before, list
  <2>3. /\ DOMAIN list = 1..Len(list) /\ j \in 1..Len(list) /\ list[j] = x
        /\ \A k \in 1..Len(list) : k # j => list[k] \in C
    <3>1. /\ before \in Seq(D) /\ closing \in Seq(D) /\ <<x>> \in Seq(D) /\ Len(<<x>>) = 1
          /\ <<x>>[1] = x
      BY <2>1
    <3> DEFINE one == <<x>>
    <3> HIDE DEF D, one
    <3>2. /\ before \o one \in Seq(D) /\ Len(before \o one) = Len(before) + 1
          /\ (before \o one)[j] = x
          /\ \A i \in 1..Len(before) : (before \o one)[i] = before[i]
          /\ Len(before) \in Nat /\ Len(closing) \in Nat
      BY <3>1, ConcatAt DEF one
    <3>3. /\ list \in Seq(D) /\ Len(list) = j + Len(closing)
          /\ \A i \in 1..j : list[i] = (before \o one)[i]
          /\ \A i \in (j + 1)..Len(list) : i - j \in 1..Len(closing) /\ list[i] = closing[i - j]
      BY <2>2, <3>1, <3>2, ConcatAt DEF one
    <3>4. ASSUME NEW k \in 1..Len(list), k # j PROVE list[k] \in C
      <4>1. CASE k \in 1..Len(before)
        <5>1. before[k] \in C
          BY <2>1, <4>1
        <5>2. k \in 1..j
          BY <3>2, <4>1
        <5>3. list[k] = (before \o one)[k]
          BY <3>3, <5>2
        <5>4. (before \o one)[k] = before[k]
          BY <3>2, <4>1
        <5> QED
          BY <5>1, <5>3, <5>4
      <4>2. CASE k \in (j + 1)..Len(list)
        <5>1. k - j \in 1..Len(closing) /\ list[k] = closing[k - j]
          BY <3>3, <4>2
        <5>2. \A i \in 1..Len(closing) : closing[i] \in C
          BY <2>1
        <5> QED
          BY <5>1, <5>2
      <4> QED
        BY <3>2, <3>3, <3>4, <4>1, <4>2
    <3> QED
      BY <3>2, <3>3, <3>4
  <2> HIDE DEF j
  <2>4. DOMAIN judged = DOMAIN list /\ \A k \in DOMAIN judged : judged[k] = Apply(list[k])
    BY DEF ApplyAll
  <2>5. ASSUME NEW k \in DOMAIN judged PROVE k \in exchanges <=> k = j
    <3>1. CASE k = j
      <4>1. judged[k] = Apply(x)
        BY <2>3, <2>4, <3>1
      <4> QED
        BY <1>4, <1>6, <3>1, <4>1 DEF Exchange, Exchanges
    <3>2. CASE k # j
      <4>1. list[k] \in C /\ judged[k] = Apply(list[k])
        BY <2>3, <2>4, <3>2
      <4> QED
        BY <1>3, <1>4, <2>1, <3>2, <4>1 DEF Exchange, Exchanges
    <3> QED
      BY <3>1, <3>2
  <2>6. exchanges = {j}
    <3>1. exchanges \subseteq DOMAIN judged
      BY DEF Exchanges
    <3> HIDE DEF judged
    <3> QED
      BY <2>3, <2>4, <2>5, <3>1
  <2>7. judged[j].name = said.group /\ OneVerdict(said.keyExchange, judged[j].posture)
    <3>1. judged[j] = Apply(x)
      BY <2>3, <2>4
    <3> QED
      BY <1>4, <1>6, <3>1, ExchangeIsJudged
  <2> HIDE DEF judged
  <2> QED
    BY <1>6, <2>6, <2>7, FS_Singleton DEF OneExchange
<1>7. OneExchange(said, judged)
  <2> HIDE DEF judged
  <2> QED
    BY <1>1, <1>5, <1>6
<1> QED
  BY <1>7 DEF said

-----------------------------------------------------------------------------
\* What is configured and what is negotiated.

\* What an endpoint says: its version, its suite, its group, or something that
\* has another name.
Agreed(a, state) ==
  /\ Graded(a) /\ ~Configured(a)
  /\ \/ /\ a.evidence[1] = "negotiated protocol version"
        /\ a.name = versionName(state.version) /\ Same(a, VersionFinding(a.name))
     \/ /\ a.evidence[1] = "negotiated suite"
        /\ a.name = state.suite /\ Same(a, SuiteFinding(a.name))
     \/ /\ a.evidence[1] = "negotiated key exchange group"
        /\ a.name = keyExchange(state.group).group /\ Same(a, GroupFinding(a.name))
     \/ /\ a.evidence[1] \in {"key exchange of suite", "public key of", "signature of",
                              "handshake signature"}
        /\ a.name \in KeyNames(state)

\* The endpoint said a, and the evidence begins with these words.
HeardAs(a, words) == a.location = AtHost(Address) /\ a.evidence[1] = words
Spoken(a) == \E words \in HeardWords : HeardAs(a, words)

LEMMA WordsAreHeard ==
  /\ \A a : HeardAs(a, "negotiated protocol version") => Spoken(a)
  /\ \A a : HeardAs(a, "negotiated suite") => Spoken(a)
  /\ \A a : HeardAs(a, "negotiated key exchange group") => Spoken(a)
  /\ \A a : HeardAs(a, "key exchange of suite") => Spoken(a)
  /\ \A a : HeardAs(a, "public key of") => Spoken(a)
  /\ \A a : HeardAs(a, "signature of") => Spoken(a)
  /\ \A a : HeardAs(a, "handshake signature") => Spoken(a)
BY DEF Spoken, HeardWords

LEMMA VersionIsAgreed ==
  ASSUME NEW state
  PROVE  LET a == Finding(versionName(state.version), "protocol", "", "", AtHost(Address),
                          <<"negotiated protocol version">>)
         IN Agreed(a, state) /\ HeardAs(a, "negotiated protocol version")
<1> DEFINE name == versionName(state.version)
           seen == <<"negotiated protocol version">>
           at == AtHost(Address)
           a == Finding(name, "protocol", "", "", at, seen)
<1>1. PICK unset : /\ a = Finding(name, "protocol", unset, unset, at, seen)
                   /\ VersionFinding(name) = Finding(name, "protocol", unset, unset, at, << >>)
  BY Zenon DEF VersionFinding
<1>2. seen[1] = "negotiated protocol version"
  BY SMT
<1> HIDE DEF name, seen, a, at
<1>3. /\ Same(a, VersionFinding(name)) /\ a.name = name /\ DOMAIN a = Fields /\ a.evidence = seen
      /\ a.location = at
      /\ a.kind = "protocol" /\ a.keySize = 0
  BY <1>1, FindingsAreSame, FindingFields
<1>4. Agreed(a, state) /\ HeardAs(a, "negotiated protocol version")
  BY <1>2, <1>3, VersionIsGraded DEF Agreed, Configured, HeardAs, name, at
<1> QED
  BY <1>4 DEF a, name, seen, at

LEMMA SuiteIsAgreed ==
  ASSUME NEW state, state.suite \in suiteConstants
  PROVE  LET a == cipherAsset(state.suite, AtHost(Address))
         IN Agreed(a, state) /\ HeardAs(a, "negotiated suite")
<1> DEFINE suite == state.suite
           at == AtHost(Address)
           a == cipherAsset(suite, at)
           seen == <<"negotiated suite", suite>>
<1>1. PICK primitive, algorithm, bits, mode :
        a = [Algorithm(suite, primitive, algorithm, at, seen)
               EXCEPT !.keySize = bits, !.mode = mode]
  BY Zenon DEF cipherAsset
<1>2. seen[1] = "negotiated suite"
  BY SMT
<1> DEFINE b == Finding(suite, "algorithm", primitive, algorithm, at, seen)
<1>3. a = [b EXCEPT !.keySize = bits, !.mode = mode]
  BY <1>1 DEF Algorithm
<1>8. Graded(a)
  BY SuiteIsGraded
<1> HIDE DEF suite, at, a, seen
<1>4. DOMAIN b = Fields /\ b.evidence = seen /\ b.location = at
  BY FindingFields
<1> HIDE DEF b
<1>5. a.evidence = seen /\ a.location = at
  BY <1>3, <1>4 DEF Fields
<1>6. Same(a, SuiteFinding(suite)) /\ a.name = suite
  BY SuitesAreSame DEF SuiteFinding, a, at
<1>7. Agreed(a, state) /\ HeardAs(a, "negotiated suite")
  BY <1>2, <1>5, <1>6, <1>8 DEF Agreed, Configured, HeardAs, suite, at
<1> QED
  BY <1>7 DEF a, suite, at

LEMMA OfferedIsAList == \E B : Offered \in Seq(B)
<1> DEFINE B == {groups[offeredGroups[k]].name : k \in DOMAIN offeredGroups}
<1>1. Len(offeredGroups) = 5 /\ DOMAIN offeredGroups = 1..5
  BY DEF offeredGroups
<1>2. Offered = [k \in 1..5 |-> groups[offeredGroups[k]].name]
  BY <1>1 DEF Offered
<1>3. \A k \in 1..5 : groups[offeredGroups[k]].name \in B
  BY <1>1
<1> HIDE DEF B
<1>4. Offered \in Seq(B)
  BY <1>2, <1>3
<1> QED
  BY <1>4

LEMMA GroupIsAgreed ==
  ASSUME NEW state, state.group \in DOMAIN groups, state.group # 0
  PROVE  LET a == groupAsset(state, AtHost(Address))
         IN Agreed(a, state) /\ HeardAs(a, "negotiated key exchange group")
<1> DEFINE name == keyExchange(state.group).group
           at == AtHost(Address)
           first == <<"negotiated key exchange group", Hex4(state.group)>>
           seen == first \o Offered
           a == groupAsset(state, at)
<1>1. a = Algorithm(name, "key-agree", name, at, seen)
  BY Zenon DEF groupAsset
<1>2. seen[1] = "negotiated key exchange group"
  <2>1. PICK B : Offered \in Seq(B)
    BY OfferedIsAList
  <2> QED
    BY <2>1, InFront
<1>5. name \in AlgorithmNames
  BY GroupIsRead DEF AlgorithmNames
<1> HIDE DEF name, at, first, seen, a
<1>3. /\ Same(a, GroupFinding(name)) /\ a.name = name /\ DOMAIN a = Fields
      /\ a.evidence = seen /\ a.algorithm = name /\ a.keySize = 0 /\ a.location = at
  BY <1>1, FindingsAreSame, FindingFields DEF Algorithm, GroupFinding
<1>6. Graded(a)
  BY <1>3, <1>5, FamilyIsTheName, NameIsGraded
<1>4. Agreed(a, state) /\ HeardAs(a, "negotiated key exchange group")
  BY <1>2, <1>3, <1>6 DEF Agreed, Configured, HeardAs, name, at
<1> QED
  BY <1>4 DEF a, at

\* A key's algorithm has a size.
LEMMA KeyIsGraded ==
  ASSUME NEW a, DOMAIN a = Fields, a.keySize \in Nat, a.algorithm \in keyAlgorithms,
         a.primitive \in {"signature", "pke"}
  PROVE  Graded(a)
<1>1. Stated(a.algorithm)
  BY Zenon DEF keyAlgorithms, Stated
<1>2. family(a) = a.algorithm
  BY <1>1, FamilyIsStated
<1>3. a.algorithm \in AlgorithmNames /\ <<a.algorithm, a.primitive>> \in SizedAlgorithms
  BY DEF AlgorithmNames, SizedAlgorithms
<1> QED
  BY <1>2, <1>3 DEF Graded

LEMMA TransportIsAgreed ==
  ASSUME NEW state, state.chain # << >> => Head(state.chain).key.bits \in Nat,
         NEW a \in keyTransportAsset(state.suite, state.chain, AtHost(Address))
  PROVE  Agreed(a, state) /\ HeardAs(a, "key exchange of suite")
<1> DEFINE at == AtHost(Address)
           seen == <<"key exchange of suite", state.suite>>
           b == Finding(KeyTransport, "algorithm", "pke", "RSA", at, seen)
<1>1. PICK bits \in Nat : a = [b EXCEPT !.keySize = bits]
  BY DEF keyTransportAsset, Algorithm
<1>2. seen[1] = "key exchange of suite"
  BY SMT
<1> HIDE DEF seen, at
<1>3. /\ DOMAIN b = Fields /\ b.name = KeyTransport /\ b.evidence = seen
      /\ b.location = at /\ b.algorithm = "RSA" /\ b.primitive = "pke"
  BY FindingFields
<1> HIDE DEF b
<1>4. /\ DOMAIN a = Fields /\ a.name = KeyTransport /\ a.evidence = seen
      /\ a.location = at /\ a.algorithm = "RSA" /\ a.primitive = "pke" /\ a.keySize \in Nat
  BY <1>1, <1>3 DEF Fields
<1>5. KeyTransport \in KeyNames(state)
  BY DEF KeyNames
<1>6. Graded(a)
  BY <1>4, KeyIsGraded DEF keyAlgorithms
<1> QED
  BY <1>2, <1>4, <1>5, <1>6 DEF Agreed, Configured, HeardAs, at

LEMMA CertificateIsAgreed ==
  ASSUME NEW state, state.chain # << >>,
         Head(state.chain).key.type \in {"rsa", "ecdsa", "ed25519"},
         Head(state.chain).key.bits \in Nat
  PROVE  LET at == AtHost(Address)
             cert == Head(state.chain)
             list == Append(certificateAssets(cert, at), signatureAsset(cert, state.version, at))
             key == certificateKey(cert, at)
             signed == certificateAssets(cert, at)[2]
             signature == signatureAsset(cert, state.version, at)
         IN /\ list \in Seq({key, signed, signature})
            /\ \A a \in {key, signed, signature} : Agreed(a, state)
            /\ HeardAs(key, "public key of") /\ HeardAs(signed, "signature of")
            /\ HeardAs(signature, "handshake signature")
<1> DEFINE at == AtHost(Address)
           cert == Head(state.chain)
           subject == certificateSubject(cert)
           key == certificateKey(cert, at)
           seenSigned == <<"signature of", subject>>
           signed == Finding(cert.signature, "certificate", "signature",
                             signatureFamily(cert.signature), at, seenSigned)
           signature == signatureAsset(cert, state.version, at)
           A == {key, signed, signature}
           Signing(name, algorithm, seen) == Algorithm(name, "signature", algorithm, at, seen)
<1>1. {key.name, cert.signature, signature.name} \subseteq KeyNames(state)
  BY DEF KeyNames
<1> DEFINE OfAKey(a) == /\ DOMAIN a = Fields /\ a.keySize \in Nat /\ a.location = at
                        /\ a.algorithm \in keyAlgorithms /\ a.primitive \in {"signature", "pke"}
<1>2. ASSUME NEW name, NEW algorithm, NEW seen
      PROVE  /\ DOMAIN Signing(name, algorithm, seen) = Fields
             /\ Signing(name, algorithm, seen).evidence = seen
             /\ Signing(name, algorithm, seen).algorithm = algorithm
             /\ Signing(name, algorithm, seen).primitive \in {"signature", "pke"}
             /\ Signing(name, algorithm, seen).location = at
  BY FindingFields DEF Algorithm
<1>0. ASSUME NEW b, DOMAIN b = Fields, b.algorithm \in keyAlgorithms,
             b.primitive \in {"signature", "pke"}, b.location = at, NEW bits \in Nat
      PROVE  OfAKey([b EXCEPT !.keySize = bits]) /\ [b EXCEPT !.keySize = bits].evidence = b.evidence
  BY <1>0 DEF Fields
<1>10. ASSUME NEW b, OfAKey(b), NEW curve
       PROVE  OfAKey([b EXCEPT !.curve = curve]) /\ [b EXCEPT !.curve = curve].evidence = b.evidence
  BY <1>10 DEF Fields
<1>3. OfAKey(key) /\ key.evidence[1] = "public key of"
  <2> DEFINE seen == <<"public key of", subject>>
             rsa == "RSA-" \o ToString(cert.key.bits)
             ecdsa == "ECDSA-" \o cert.key.curve
             size == 256
  <2>1. \/ key = [Signing(rsa, "RSA", seen) EXCEPT !.keySize = cert.key.bits]
        \/ key = [Signing(ecdsa, "ECDSA", seen) EXCEPT
                    !.keySize = cert.key.bits, !.curve = cert.key.curve]
        \/ key = [Signing("ED25519", "ED25519", seen) EXCEPT !.keySize = size]
    BY Zenon DEF certificateKey
  <2>2. seen[1] = "public key of"
    BY SMT
  <2>3. size \in Nat /\ {"RSA", "ECDSA", "ED25519"} \subseteq keyAlgorithms
    BY DEF keyAlgorithms
  <2> HIDE DEF key, seen, rsa, ecdsa, size, OfAKey
  <2> DEFINE x == Signing(rsa, "RSA", seen)
             y == Signing(ecdsa, "ECDSA", seen)
             z == Signing("ED25519", "ED25519", seen)
             bits == cert.key.bits
             curve == cert.key.curve
  <2>4. \A b \in {x, y, z} : /\ DOMAIN b = Fields /\ b.algorithm \in keyAlgorithms
                             /\ b.primitive \in {"signature", "pke"} /\ b.evidence = seen
                             /\ b.location = at
    <3> HIDE DEF Signing
    <3> QED
      BY <1>2, <2>3
  <2>5. bits \in Nat
    OBVIOUS
  <2> HIDE DEF Signing, x, y, z, bits, curve
  <2>6. /\ OfAKey([x EXCEPT !.keySize = bits]) /\ [x EXCEPT !.keySize = bits].evidence = seen
        /\ OfAKey([z EXCEPT !.keySize = size]) /\ [z EXCEPT !.keySize = size].evidence = seen
    BY <1>0, <2>3, <2>4, <2>5
  <2>7. /\ OfAKey([y EXCEPT !.keySize = bits, !.curve = curve])
        /\ [y EXCEPT !.keySize = bits, !.curve = curve].evidence = seen
    <3> DEFINE sized == [y EXCEPT !.keySize = bits]
    <3>1. OfAKey(sized) /\ sized.evidence = seen
      BY <1>0, <2>4, <2>5
    <3> HIDE DEF sized
    <3>2. OfAKey([sized EXCEPT !.curve = curve]) /\ [sized EXCEPT !.curve = curve].evidence = seen
      BY <1>10, <3>1
    <3> QED
      BY <3>2 DEF sized
  <2>8. \/ key = [x EXCEPT !.keySize = bits]
        \/ key = [y EXCEPT !.keySize = bits, !.curve = curve]
        \/ key = [z EXCEPT !.keySize = size]
    BY <2>1 DEF x, y, z, bits, curve
  <2> QED
    BY <2>2, <2>6, <2>7, <2>8
<1>4. /\ Graded(signed) /\ signed.evidence[1] = "signature of" /\ signed.name = cert.signature
      /\ signed.location = at
  <2>1. seenSigned[1] = "signature of"
    BY SMT
  <2> HIDE DEF seenSigned
  <2>2. /\ DOMAIN signed = Fields /\ signed.evidence = seenSigned /\ signed.name = cert.signature
        /\ signed.kind = "certificate" /\ signed.keySize = 0 /\ signed.location = at
    BY FindingFields
  <2> HIDE DEF signed
  <2>3. Graded(signed)
    BY <2>2 DEF Graded
  <2> QED
    BY <2>1, <2>2, <2>3
<1>5. OfAKey(signature) /\ signature.evidence[1] = "handshake signature"
  <2> DEFINE seen == <<"handshake signature", versionName(state.version)>>
             algorithm == key.algorithm
             bits == key.keySize
  <2>1. PICK name, curve :
          signature = [Signing(name, algorithm, seen) EXCEPT !.keySize = bits, !.curve = curve]
    BY DEF signatureAsset
  <2>2. seen[1] = "handshake signature"
    BY SMT
  <2>3. algorithm \in keyAlgorithms /\ bits \in Nat
    BY <1>3
  <2> DEFINE b == Signing(name, algorithm, seen)
  <2> HIDE DEF signature, seen, algorithm, bits, OfAKey
  <2>5. /\ DOMAIN b = Fields /\ b.algorithm \in keyAlgorithms
        /\ b.primitive \in {"signature", "pke"} /\ b.evidence = seen /\ b.location = at
    <3> HIDE DEF Signing
    <3> QED
      BY <1>2, <2>3
  <2>6. signature = [b EXCEPT !.keySize = bits, !.curve = curve]
    BY <2>1
  <2> HIDE DEF b
  <2>4. signature.evidence = seen /\ OfAKey(signature)
    <3> DEFINE sized == [b EXCEPT !.keySize = bits]
    <3>1. OfAKey(sized) /\ sized.evidence = seen
      BY <1>0, <2>3, <2>5
    <3>2. signature = [sized EXCEPT !.curve = curve]
      BY <2>6
    <3> HIDE DEF sized
    <3> QED
      BY <1>10, <3>1, <3>2
  <2> QED
    BY <2>2, <2>4
<1>9. Graded(key) /\ Graded(signature)
  <2> HIDE DEF key, signature
  <2> QED
    BY <1>3, <1>5, KeyIsGraded
<1>6. certificateAssets(cert, at) = <<key, signed>> /\ certificateAssets(cert, at)[2] = signed
  BY DEF certificateAssets
<1> HIDE DEF key, signed, signature, OfAKey
<1>7. Append(<<key, signed>>, signature) \in Seq(A)
  OBVIOUS
<1>8. \A a \in A : Agreed(a, state)
  <2> SUFFICES ASSUME NEW a \in A PROVE Agreed(a, state)
    OBVIOUS
  <2>1. /\ Graded(a) /\ a.name \in KeyNames(state)
        /\ a.evidence[1] \in {"public key of", "signature of", "handshake signature"}
    BY <1>1, <1>3, <1>4, <1>5, <1>9
  <2> QED
    BY <2>1 DEF Agreed, Configured
<1>11. /\ HeardAs(key, "public key of") /\ HeardAs(signed, "signature of")
       /\ HeardAs(signature, "handshake signature")
  BY <1>3, <1>4, <1>5 DEF HeardAs, OfAKey
<1>12. Append(certificateAssets(cert, at), signature) \in Seq(A)
  BY <1>6, <1>7
<1> QED
  BY <1>6, <1>8, <1>11, <1>12 DEF signature, key, A

\* Whatever an endpoint says, it says it of itself and in words of its own.
LEMMA HandshakeIsAgreed ==
  ASSUME NEW given \in Inputs, NEW state \in given.handshake
  PROVE  \E A : /\ fromState(Address, state).assets \in Seq(A)
                /\ \A a \in A : Agreed(a, state) /\ Spoken(a)
                /\ \A a, b \in A : a.evidence = b.evidence => a = b
<1> DEFINE at == AtHost(Address)
           named == keyExchange(state.group)
           transport == keyTransportAsset(state.suite, state.chain, at)
           exchange == CASE named.group # "" -> <<groupAsset(state, at)>>
                         [] named.group = "" /\ transport # {} -> <<CHOOSE a \in transport : TRUE>>
                         [] OTHER -> << >>
           version == Finding(versionName(state.version), "protocol", "", "", at,
                              <<"negotiated protocol version">>)
           opening == <<version, cipherAsset(state.suite, at)>>
           closing == IF state.chain # << >>
                      THEN Append(certificateAssets(Head(state.chain), at),
                                  signatureAsset(Head(state.chain), state.version, at))
                      ELSE << >>
           O == {version, cipherAsset(state.suite, at)}
           E == (IF state.group = 0 THEN {} ELSE {groupAsset(state, at)}) \cup transport
<1>0. /\ state.suite \in suiteConstants
      /\ state.group = 0 \/ state.group \in DOMAIN groups
      /\ state.chain # << >> =>
           /\ Head(state.chain).key.type \in {"rsa", "ecdsa", "ed25519"}
           /\ Head(state.chain).key.bits \in Nat
  BY InputsAssumption
<1>1. fromState(Address, state).assets = opening \o exchange \o closing
  BY Zenon DEF fromState
<1>2. /\ opening \in Seq(O) /\ \A a \in O : Agreed(a, state)
      /\ \E v, c : /\ HeardAs(v, "negotiated protocol version") /\ HeardAs(c, "negotiated suite")
                   /\ O = {v, c}
  <2>1. \A a \in O : Agreed(a, state)
    BY <1>0, VersionIsAgreed, SuiteIsAgreed
  <2>2. /\ HeardAs(version, "negotiated protocol version")
        /\ HeardAs(cipherAsset(state.suite, at), "negotiated suite")
    BY <1>0, VersionIsAgreed, SuiteIsAgreed
  <2> DEFINE c == cipherAsset(state.suite, at)
  <2>3. O = {version, c} /\ opening = <<version, c>>
    OBVIOUS
  <2>4. HeardAs(c, "negotiated suite")
    BY <2>2
  <2> HIDE DEF version, c, O, opening
  <2>5. opening \in Seq(O)
    BY <2>3
  <2> QED
    BY <2>1, <2>2, <2>3, <2>4, <2>5
<1>3. /\ exchange \in Seq(E) /\ \A a \in E : Agreed(a, state)
      /\ \A a \in E : \/ HeardAs(a, "negotiated key exchange group")
                      \/ HeardAs(a, "key exchange of suite")
      /\ \A a, b \in E : a # b => a.evidence[1] # b.evidence[1]
  <2>1. \A a \in E : Agreed(a, state)
    BY <1>0, GroupIsAgreed, TransportIsAgreed
  <2>9. /\ \A a \in E \ transport : HeardAs(a, "negotiated key exchange group")
        /\ \A a \in transport : HeardAs(a, "key exchange of suite")
        /\ \A a, b \in E \ transport : a = b
        /\ \A a, b \in transport : a = b
    <3>1. \A a \in E \ transport : HeardAs(a, "negotiated key exchange group")
      BY <1>0, GroupIsAgreed
    <3>2. \A a \in transport : HeardAs(a, "key exchange of suite")
      BY <1>0, TransportIsAgreed
    <3>3. \A a, b \in transport : a = b
      BY DEF keyTransportAsset
    <3>4. \A a, b \in E \ transport : a = b
      OBVIOUS
    <3> QED
      BY <3>1, <3>2, <3>3, <3>4
  <2>10. \A a, b \in E : a # b => a.evidence[1] # b.evidence[1]
    <3> HIDE DEF E, transport
    <3>1. /\ \A a \in E \ transport : a.evidence[1] = "negotiated key exchange group"
          /\ \A a \in transport : a.evidence[1] = "key exchange of suite"
      BY <2>9 DEF HeardAs
    <3> QED
      BY <2>9, <3>1
  <2>7. state.group = 0 => named.group = ""
    BY NoGroupIsRead, Zenon
  <2> HIDE DEF transport, named
  <2>2. transport # {} => (CHOOSE a \in transport : TRUE) \in transport
    OBVIOUS
  <2> DEFINE group == groupAsset(state, at)
             a == CHOOSE b \in transport : TRUE
  <2>3. \/ named.group # "" /\ exchange = <<group>>
        \/ transport # {} /\ exchange = <<a>>
        \/ exchange = << >>
    BY Zenon
  <2>8. \/ state.group # 0 /\ exchange = <<group>>
        \/ transport # {} /\ exchange = <<a>>
        \/ exchange = << >>
    BY <2>3, <2>7, Zenon
  <2>4. (state.group # 0 => group \in E) /\ (transport # {} => a \in E)
    BY <2>2
  <2> HIDE DEF exchange, group, a, E
  <2>5. exchange \in Seq(E)
    <3>1. /\ state.group # 0 => <<group>> \in Seq(E)
          /\ << >> \in Seq(E)
          /\ transport # {} => <<a>> \in Seq(E)
      BY <2>4
    <3> QED
      BY <2>8, <3>1
  <2> HIDE DEF E, transport
  <2> QED
    BY <2>1, <2>5, <2>9, <2>10
<1>4. \E B : /\ closing \in Seq(B) /\ \A a \in B : Agreed(a, state)
             /\ B = {} \/ \E key, signed, signature :
                  /\ B = {key, signed, signature}
                  /\ HeardAs(key, "public key of") /\ HeardAs(signed, "signature of")
                  /\ HeardAs(signature, "handshake signature")
  <2>1. CASE state.chain # << >>
    <3> DEFINE cert == Head(state.chain)
               key == certificateKey(cert, at)
               signed == certificateAssets(cert, at)[2]
               signature == signatureAsset(cert, state.version, at)
               B == {key, signed, signature}
    <3>1. Append(certificateAssets(cert, at), signature) \in Seq(B)
      BY <1>0, <2>1, CertificateIsAgreed
    <3>2. \A a \in B : Agreed(a, state)
      BY <1>0, <2>1, CertificateIsAgreed
    <3>3. /\ HeardAs(key, "public key of") /\ HeardAs(signed, "signature of")
          /\ HeardAs(signature, "handshake signature")
      BY <1>0, <2>1, CertificateIsAgreed
    <3>4. closing = Append(certificateAssets(cert, at), signature)
      BY <2>1
    <3> HIDE DEF closing, key, signed, signature
    <3> QED
      BY <3>1, <3>2, <3>3, <3>4
  <2>2. CASE state.chain = << >>
    <3> DEFINE B == {}
    <3>1. closing \in Seq(B) /\ \A a \in B : Agreed(a, state)
      BY <2>2
    <3>2. B = {}
      OBVIOUS
    <3> HIDE DEF B, closing
    <3> QED
      BY <3>1, <3>2
  <2> QED
    BY <2>1, <2>2
<1> HIDE DEF opening, exchange, closing, O, E
<1>5. PICK B : /\ closing \in Seq(B) /\ \A a \in B : Agreed(a, state)
               /\ B = {} \/ \E key, signed, signature :
                    /\ B = {key, signed, signature}
                    /\ HeardAs(key, "public key of") /\ HeardAs(signed, "signature of")
                    /\ HeardAs(signature, "handshake signature")
  BY <1>4
<1> DEFINE A == O \cup E \cup B
<1>6. \A a \in A : Agreed(a, state)
  BY <1>2, <1>3, <1>5
<1>9. \A a \in A : Spoken(a)
  <2>1. \A a \in O : Spoken(a)
    BY <1>2, WordsAreHeard
  <2>2. \A a \in E : Spoken(a)
    BY <1>3, WordsAreHeard
  <2>3. \A a \in B : Spoken(a)
    BY <1>5, WordsAreHeard
  <2> QED
    BY <2>1, <2>2, <2>3
<1>10. \A a, b \in A : a # b => a.evidence[1] # b.evidence[1]
  <2> DEFINE early == {"negotiated protocol version", "negotiated suite"}
             middle == {"negotiated key exchange group", "key exchange of suite"}
             late == {"public key of", "signature of", "handshake signature"}
  <2>1. \A a, b \in O : a.evidence[1] \in early /\ (a # b => a.evidence[1] # b.evidence[1])
    BY <1>2 DEF HeardAs
  <2>2. \A a, b \in E : a.evidence[1] \in middle /\ (a # b => a.evidence[1] # b.evidence[1])
    BY <1>3 DEF HeardAs
  <2>3. \A a, b \in B : a.evidence[1] \in late /\ (a # b => a.evidence[1] # b.evidence[1])
    <3>1. CASE B # {}
      <4>1. PICK key, signed, signature :
                  /\ B = {key, signed, signature}
                  /\ HeardAs(key, "public key of") /\ HeardAs(signed, "signature of")
                  /\ HeardAs(signature, "handshake signature")
        BY <1>5, <3>1
      <4> QED
        BY <4>1 DEF HeardAs
    <3> QED
      BY <3>1
  <2>4. early \cap middle = {} /\ early \cap late = {} /\ middle \cap late = {}
    OBVIOUS
  <2> HIDE DEF early, middle, late
  <2> QED
    BY <2>1, <2>2, <2>3, <2>4
<1>7. opening \in Seq(A) /\ exchange \in Seq(A) /\ closing \in Seq(A)
  <2>1. opening \in Seq(O) /\ exchange \in Seq(E) /\ closing \in Seq(B)
    BY <1>2, <1>3, <1>5
  <2> QED
    BY <2>1
<1> HIDE DEF A
<1>8. opening \o exchange \o closing \in Seq(A)
  BY <1>7
<1> QED
  BY <1>1, <1>6, <1>8, <1>9, <1>10

\* A name says what kind of thing it is of, and then what that is.
LEMMA SettingIsAgreed ==
  ASSUME NEW given \in Inputs, NEW state \in given.handshake,
         NEW a, Setting(a), NEW b, Agreed(b, state), a.name = b.name
  PROVE  Same(a, b)
<1> DEFINE name == a.name
           version == versionName(state.version)
           suite == state.suite
           group == keyExchange(state.group).group
           keys == KeyNames(state)
<1>1. /\ name \in SettingVersions => name # suite /\ name # group /\ name \notin keys
      /\ name \in suiteConstants => name # version /\ name # group /\ name \notin keys
      /\ name \in SettingGroups => name # version /\ name # suite /\ name \notin keys
      /\ name \in Gaps => name # version /\ name # suite /\ name # group /\ name \notin keys
  <2> DEFINE V == {version}  S == {suite}  G == {group}
  <2>1. /\ SettingVersions \cap (S \cup G \cup keys) = {}
        /\ suiteConstants \cap (V \cup G \cup keys) = {}
        /\ SettingGroups \cap (V \cup S \cup keys) = {}
        /\ Gaps \cap (V \cup S \cup G \cup keys) = {}
    BY NamesAssumption, Zenon
  <2> HIDE DEF name, version, suite, group, keys
  <2> QED
    BY <2>1
<1>2. \/ name = version /\ Same(b, VersionFinding(name))
      \/ name = suite /\ Same(b, SuiteFinding(name))
      \/ name = group /\ Same(b, GroupFinding(name))
      \/ name \in keys
  BY Zenon DEF Agreed
<1>3. \/ name \in SettingVersions /\ Same(a, VersionFinding(name))
      \/ name \in suiteConstants /\ Same(a, SuiteFinding(name))
      \/ name \in SettingGroups /\ Same(a, GroupFinding(name))
      \/ name \in Gaps
  BY Zenon DEF Setting
<1> HIDE DEF name, version, suite, group, keys
<1> QED
  BY <1>1, <1>2, <1>3, SameOfOne

\* Two findings of one thing are judged alike, and stay findings of one thing.
LEMMA SameIsJudgedAlike ==
  ASSUME NEW a, NEW b, Same(a, b)
  PROVE  LET x == Apply(a)
             y == Apply(b)
         IN [x EXCEPT !.location = y.location, !.evidence = y.evidence, !.module = y.module] = y
<1>1. /\ DOMAIN a = Fields /\ DOMAIN b = Fields
      /\ \A field \in Fields \ {"location", "evidence", "module"} : a[field] = b[field]
  BY DEF Same
<1>2. family(a) = family(b) /\ a.kind = b.kind /\ AssetOf(a) = AssetOf(b)
  <2>1. a.name = b.name /\ a.algorithm = b.algorithm /\ a.kind = b.kind /\ a.keySize = b.keySize
    BY <1>1 DEF Fields
  <2> QED
    BY <2>1, Zenon DEF family, AssetOf
<1> DEFINE posture == judge(AssetOf(a))
           citation == cite(AssetOf(a), posture)
<1>3. /\ Apply(a) = [a EXCEPT !.posture = posture, !.citation = citation]
      /\ Apply(b) = [b EXCEPT !.posture = posture, !.citation = citation]
  BY <1>2, Zenon DEF Apply
<1> HIDE DEF posture, citation
<1> DEFINE x == Apply(a)
           y == Apply(b)
           z == [x EXCEPT !.location = y.location, !.evidence = y.evidence, !.module = y.module]
<1>4. DOMAIN x = Fields /\ DOMAIN y = Fields /\ DOMAIN z = Fields
  BY <1>1, <1>3
<1>5. \A field \in Fields : z[field] = y[field]
  <2> SUFFICES ASSUME NEW field \in Fields PROVE z[field] = y[field]
    OBVIOUS
  <2>1. CASE field \in {"location", "evidence", "module"}
    BY <1>4, <2>1
  <2>2. CASE field \notin {"location", "evidence", "module"}
    <3>1. z[field] = x[field]
      BY <1>4, <2>2
    <3>2. x[field] = y[field]
      BY <1>1, <1>3, <2>2
    <3> QED
      BY <3>1, <3>2
  <2> QED
    BY <2>1, <2>2
<1>6. y = [field \in Fields |-> y[field]] /\ z = [field \in Fields |-> z[field]]
  BY <1>1, <1>3, <1>4
<1> QED
  BY <1>5, <1>6

\* What is judged is of the source, or of the endpoint that was asked.
LEMMA GatheredHasASource ==
  ASSUME RunInv, ProbeInv, pc = "done", NEW k \in DOMAIN gathered
  PROVE  \/ InSource(gathered[k])
         \/ \E state \in input.handshake : Agreed(gathered[k], state)
<1>1. CASE Sourced(gathered)
  BY <1>1 DEF Sourced
<1>2. CASE Asked
  <2>1. PICK prior : \E state \in input.handshake :
               /\ Sourced(prior)
               /\ gathered = prior \o fromState(Address, state).assets
    BY <1>2 DEF Asked
  <2>2. PICK state \in input.handshake :
               /\ Sourced(prior)
               /\ gathered = prior \o fromState(Address, state).assets
    BY <2>1
  <2> DEFINE heard == fromState(Address, state).assets
  <2>3. PICK A : prior \in Seq(A) /\ \A x \in A : InSource(x)
    BY <2>2 DEF Sourced
  <2>4. PICK B : heard \in Seq(B) /\ \A x \in B : Agreed(x, state)
    BY HandshakeIsAgreed DEF RunInv
  <2>5. gathered = prior \o heard
    BY <2>2
  <2> HIDE DEF heard
  <2>6. InSource(gathered[k]) \/ Agreed(gathered[k], state)
    BY <2>3, <2>4, <2>5, ConcatHolds
  <2> QED
    BY <2>6
<1> QED
  BY <1>1, <1>2 DEF ProbeInv

-----------------------------------------------------------------------------
\* What a finding's name and evidence say of it.

\* The package at path is what recv stands for in f.
Stands(f, recv, path) ==
  recv \in DOMAIN Resolved(f.imports) /\ Resolved(f.imports)[recv] = path

\* A use before the parameters of a call are read.
Plain(u) == Algorithm(u.algorithm, u.primitive, u.algorithm, AtHost(Address), << >>)

\* What the parameters of a call and its place decide.
Specifics == {"name", "keySize", "curve", "location", "evidence", "module"}

OfUse(a, u) ==
  DOMAIN a = Fields /\ \A field \in Fields \ Specifics : a[field] = Plain(u)[field]

\* The evidence holds the parameters that were read of a call in f.
Parameters(a, u, f) ==
  \/ Len(a.evidence) = 2 /\ a.keySize = u.keySize /\ a.curve = Plain(u).curve
  \/ /\ Len(a.evidence) = 4 /\ a.evidence[3] = "with" /\ a.curve = Plain(u).curve
     /\ \E n \in NodesOf(f) : a.keySize = n.value /\ a.evidence[4] = ToString(n.value)
  \/ /\ Len(a.evidence) = 4 /\ a.evidence[3] = "on"
     /\ a.curve = a.evidence[4] /\ a.keySize = curveNames[a.curve]

OfACall(a, f) ==
  /\ ~Configured(a)
  /\ \E u \in table : /\ Stands(f, a.evidence[1], u.path) /\ u.function = a.evidence[2]
                      /\ OfUse(a, u) /\ Parameters(a, u, f)

GapFinding(field) ==
  LET f == configuredFields[field]
  IN Finding(f.unstated, f.kind, f.primitive, "", AtHost(Address), << >>)

OfASetting(a) ==
  \E field \in DOMAIN configuredFields :
    /\ Configured(a) /\ a.evidence[2] = field
    /\ \/ Len(a.evidence) = 3 /\ Same(a, GapFinding(field))
       \/ /\ Len(a.evidence) > 3
          /\ \E x \in reading(field, a.evidence[4], AtHost(Address)) : Same(a, x)

\* What is configured by the constant an endpoint negotiated is what it said.
LEMMA ConstantIsAgreed ==
  ASSUME NEW state, NEW a, OfASetting(a), NEW b, Agreed(b, state),
         NamesNegotiated(a, b, state)
  PROVE  Same(a, b)
<1> DEFINE constant == a.evidence[4]
<1>1. PICK field \in DOMAIN configuredFields :
        /\ a.evidence[2] = field /\ Len(a.evidence) > 3
        /\ \E x \in reading(field, constant, AtHost(Address)) : Same(a, x)
  <2>1. Len(a.evidence) > 3
    BY Zenon DEF NamesNegotiated
  <2>2. ~(3 > 3)
    BY SMT
  <2>3. Len(a.evidence) # 3
    BY <2>1, <2>2, Zenon
  <2> QED
    BY <2>1, <2>3, Zenon DEF OfASetting
<1>2. PICK x \in reading(field, constant, AtHost(Address)) : Same(a, x)
  BY <1>1
<1>3. \A c : Same(x, c) => Same(a, c)
  BY <1>2 DEF Same
<1>4. field \in {"MinVersion", "MaxVersion", "CipherSuites", "CurvePreferences"}
  BY DEF configuredFields
<1>5. CASE field \in {"MinVersion", "MaxVersion"}
  <2>1. /\ b.evidence[1] = "negotiated protocol version"
        /\ versionConstants[constant] = state.version
    BY <1>1, <1>5 DEF NamesNegotiated
  <2> DEFINE name == versionName(state.version)
  <2>2. x \in VersionAsset(constant, AtHost(Address))
    BY <1>2, <1>5, Zenon DEF reading
  <2>3. PICK seen, unset : /\ x = Finding(name, "protocol", unset, unset, AtHost(Address), seen)
                           /\ VersionFinding(name)
                                = Finding(name, "protocol", unset, unset, AtHost(Address), << >>)
    BY <2>1, <2>2, Zenon DEF VersionAsset, VersionFinding
  <2>4. Same(x, VersionFinding(name))
    BY <2>3, FindingsAreSame
  <2>5. Same(b, VersionFinding(name))
    BY <2>1 DEF Agreed
  <2> QED
    BY <1>3, <2>4, <2>5, SameOfOne
<1>6. CASE field = "CipherSuites"
  <2>1. b.evidence[1] = "negotiated suite" /\ constant = state.suite
    BY <1>1, <1>6 DEF NamesNegotiated
  <2>2. x \in SuiteAsset(constant, AtHost(Address))
    BY <1>2, <1>6 DEF reading
  <2>3. Same(x, SuiteFinding(constant))
    <3> DEFINE y == cipherAsset(constant, AtHost(Address))
    <3>1. PICK seen : x = [y EXCEPT !.evidence = seen]
      BY <2>2, Zenon DEF SuiteAsset
    <3>2. Same(y, SuiteFinding(constant))
      BY SuitesAreSame DEF SuiteFinding
    <3> HIDE DEF y
    <3> QED
      BY <3>1, <3>2 DEF Same
  <2>4. Same(b, SuiteFinding(constant))
    BY <2>1 DEF Agreed
  <2> QED
    BY <1>3, <2>3, <2>4, SameOfOne
<1>7. CASE field = "CurvePreferences"
  <2>1. /\ b.evidence[1] = "negotiated key exchange group"
        /\ curveConstants[constant] = state.group
    BY <1>1, <1>7 DEF NamesNegotiated
  <2> DEFINE name == keyExchange(state.group).group
  <2>2. x \in GroupAsset(constant, AtHost(Address))
    BY <1>2, <1>7 DEF reading
  <2>3. PICK seen : x = Algorithm(name, "key-agree", name, AtHost(Address), seen)
    BY <2>1, <2>2, Zenon DEF GroupAsset
  <2>4. Same(x, GroupFinding(name))
    BY <2>3, FindingsAreSame DEF Algorithm, GroupFinding
  <2>5. Same(b, GroupFinding(name))
    BY <2>1 DEF Agreed
  <2> QED
    BY <1>3, <2>4, <2>5, SameOfOne
<1> QED
  BY <1>4, <1>5, <1>6, <1>7

\* No function of a package is in two rows.
LEMMA UsesAreTold ==
  ASSUME NEW u \in table, NEW v \in table, u.path = v.path, u.function = v.function
  PROVE  u = v
BY DEF table, Uses

LEMMA CallsAreTold ==
  ASSUME NEW f \in Files, NEW a, OfACall(a, f), NEW b, OfACall(b, f),
         a.name = b.name, a.evidence = b.evidence
  PROVE  Same(a, b)
<1>1. PICK u \in table : /\ Stands(f, a.evidence[1], u.path) /\ u.function = a.evidence[2]
                         /\ OfUse(a, u) /\ Parameters(a, u, f)
  BY DEF OfACall
<1>2. PICK v \in table : /\ Stands(f, b.evidence[1], v.path) /\ v.function = b.evidence[2]
                         /\ OfUse(b, v) /\ Parameters(b, v, f)
  BY DEF OfACall
<1>3. u = v
  BY <1>1, <1>2, UsesAreTold DEF Stands
<1>4. a.keySize = b.keySize /\ a.curve = b.curve
  <2>1. ASSUME NEW m \in NodesOf(f), NEW n \in NodesOf(f), ToString(m.value) = ToString(n.value)
        PROVE  m.value = n.value
    BY <2>1, NumeralsAssumption
  <2> QED
    BY <1>1, <1>2, <1>3, <2>1 DEF Parameters
<1> QED
  BY <1>1, <1>2, <1>3, <1>4 DEF OfUse, Same, Fields, Specifics

\* A constant has one reading.
LEMMA ReadingIsOne ==
  ASSUME NEW field, NEW constant, NEW at,
         NEW x \in reading(field, constant, at), NEW y \in reading(field, constant, at),
         field \in DOMAIN configuredFields
  PROVE  x = y
<1>1. field \in {"MinVersion", "MaxVersion", "CipherSuites", "CurvePreferences"}
  BY DEF configuredFields
<1>2. \A p, q \in VersionAsset(constant, at) : p = q
  BY DEF VersionAsset
<1>3. \A p, q \in SuiteAsset(constant, at) : p = q
  BY DEF SuiteAsset
<1>4. \A p, q \in GroupAsset(constant, at) : p = q
  BY DEF GroupAsset
<1> QED
  BY <1>1, <1>2, <1>3, <1>4 DEF reading

LEMMA SettingsAreTold ==
  ASSUME NEW a, OfASetting(a), NEW b, OfASetting(b), a.evidence = b.evidence
  PROVE  Same(a, b)
<1>1. PICK field \in DOMAIN configuredFields :
        /\ a.evidence[2] = field
        /\ \/ Len(a.evidence) = 3 /\ Same(a, GapFinding(field))
           \/ /\ Len(a.evidence) > 3
              /\ \E x \in reading(field, a.evidence[4], AtHost(Address)) : Same(a, x)
  BY Zenon DEF OfASetting
<1>2. /\ b.evidence[2] = field
      /\ \/ Len(b.evidence) = 3 /\ Same(b, GapFinding(field))
         \/ /\ Len(b.evidence) > 3
            /\ \E x \in reading(field, b.evidence[4], AtHost(Address)) : Same(b, x)
  BY <1>1, Zenon DEF OfASetting
<1>3. CASE Len(a.evidence) = 3
  BY <1>1, <1>2, <1>3, SameOfOne
<1>4. CASE Len(a.evidence) # 3
  <2>1. PICK x \in reading(field, a.evidence[4], AtHost(Address)) : Same(a, x)
    BY <1>1, <1>4
  <2>2. PICK y \in reading(field, a.evidence[4], AtHost(Address)) : Same(b, y)
    BY <1>2, <1>4
  <2>3. x = y
    BY ReadingIsOne
  <2> QED
    BY <2>1, <2>2, <2>3, SameOfOne
<1> QED
  BY <1>3, <1>4

-----------------------------------------------------------------------------
\* What the readers of a file make.

\* A finding of the file, before its module is put to it.
Unattributed(a) == a.module = ""

OfTheFile(a, f) ==
  /\ OfACall(a, f) \/ OfASetting(a)
  /\ \E n \in NodesOf(f) : a.location = InFile(f.path, n.line)
  /\ a.evidence[1] \notin HeardWords
  /\ Unattributed(a)

LEMMA PlainIsAFinding ==
  ASSUME NEW u, NEW at, NEW seen
  PROVE  LET b == Algorithm(u.algorithm, u.primitive, u.algorithm, at, seen)
         IN /\ DOMAIN b = Fields /\ DOMAIN Plain(u) = Fields
            /\ \A field \in Fields \ {"location", "evidence"} : b[field] = Plain(u)[field]
            /\ b.location = at /\ b.evidence = seen /\ Unattributed(b)
<1>1. PICK unset : /\ \A b : Unattributed(b) <=> b.module = unset
                   /\ \A name, primitive, algorithm, x, y :
                        Finding(name, "algorithm", primitive, algorithm, x, y)
                          = [name |-> name, kind |-> "algorithm", primitive |-> primitive,
                             algorithm |-> algorithm, keySize |-> 0, curve |-> unset,
                             mode |-> unset, location |-> x, module |-> unset,
                             evidence |-> y, posture |-> unset, citation |-> unset]
  BY Zenon DEF Finding, Unattributed
<1> QED
  BY <1>1 DEF Algorithm, Plain, Fields

LEMMA CallIsOfACall ==
  ASSUME file \in Files, packages = Resolved(file.imports),
         NEW n \in NodesOf(file), NEW u \in Meaning(n)
  PROVE  OfTheFile(callAsset(n, u), file)
<1> DEFINE at == InFile(file.path, n.line)
           seen == <<n.recv, n.name>>
           plain == Algorithm(u.algorithm, u.primitive, u.algorithm, at, seen)
           base == [plain EXCEPT !.keySize = u.keySize]
           a == callAsset(n, u)
           args == n.children
           With(b, size, name, more) ==
             [b EXCEPT !.keySize = size, !.name = name, !.evidence = @ \o more]
           On(b, size, curve, name, more) ==
             [b EXCEPT !.keySize = size, !.curve = curve, !.name = name, !.evidence = @ \o more]
<1>1. u \in table /\ u.function = n.name /\ Stands(file, n.recv, u.path)
  <2>1. u \in table /\ u.path = PackageOf(n.recv) /\ u.function = n.name
    BY DEF Meaning
  <2>2. PICK none : /\ none \notin {v.path : v \in table}
                    /\ PackageOf(n.recv) = IF n.recv \in DOMAIN packages THEN packages[n.recv]
                                           ELSE none
    BY PathsAreWritten, Zenon DEF PackageOf
  <2> QED
    BY <2>1, <2>2 DEF Stands
<1>2. /\ DOMAIN plain = Fields /\ DOMAIN Plain(u) = Fields
      /\ \A field \in Fields \ {"location", "evidence"} : plain[field] = Plain(u)[field]
      /\ plain.location = at /\ plain.evidence = seen /\ Unattributed(plain)
  BY PlainIsAFinding
<1>3. a = enrich(base, u, args)
  BY DEF callAsset
<1>4. n.recv \notin {"tls.Config"} \cup HeardWords /\ args \in Seq(NodesOf(file))
  BY FilesAssumption DEF WellFormed
<1>5. \/ a = base
      \/ /\ Len(args) >= 2
         /\ a = With(base, args[2].value, "RSA-" \o ToString(args[2].value),
                     <<"with", ToString(args[2].value)>>)
      \/ \E curve : a = On(base, curveNames[curve], curve, "ECDSA-" \o curve, <<"on", curve>>)
  BY <1>3, Zenon DEF enrich
<1>6. seen[1] = n.recv /\ seen[2] = n.name /\ Len(seen) = 2
  OBVIOUS
<1>7. ASSUME NEW x, NEW y
      PROVE  LET more == seen \o <<x, y>>
             IN /\ more[1] = n.recv /\ more[2] = n.name /\ more[3] = x /\ more[4] = y
                /\ Len(more) = 4
  OBVIOUS
<1> DEFINE Good(b) == /\ OfUse(b, u) /\ Parameters(b, u, file) /\ b.evidence[1] = n.recv
                      /\ b.evidence[2] = n.name /\ b.location = at /\ Unattributed(b)
<1> HIDE DEF plain, at, seen, args, a
<1>8. Good(base)
  BY <1>2, <1>6 DEF OfUse, Parameters, Fields, Specifics, Unattributed
<1>9. ASSUME NEW m \in NodesOf(file), NEW name
      PROVE  Good(With(base, m.value, name, <<"with", ToString(m.value)>>))
  <2> DEFINE x == ToString(m.value)
             more == seen \o <<"with", x>>
             b == [plain EXCEPT !.keySize = m.value, !.name = name, !.evidence = more]
  <2>1. With(base, m.value, name, <<"with", x>>) = b
    BY <1>2 DEF Fields
  <2>2. /\ more[1] = n.recv /\ more[2] = n.name /\ more[3] = "with" /\ more[4] = x
        /\ Len(more) = 4
    BY <1>7
  <2> HIDE DEF x, more
  <2>3. /\ DOMAIN b = Fields /\ b.evidence = more /\ b.keySize = m.value
        /\ \A field \in Fields \ {"name", "keySize", "evidence"} : b[field] = plain[field]
    BY <1>2 DEF Fields
  <2> HIDE DEF b
  <2>4. OfUse(b, u)
    BY <1>2, <2>3 DEF OfUse, Specifics
  <2>5. Parameters(b, u, file)
    BY <1>2, <2>2, <2>3 DEF Parameters, Fields, x
  <2>6. b.location = at /\ Unattributed(b)
    BY <1>2, <2>3 DEF Unattributed, Fields
  <2> QED
    BY <2>1, <2>2, <2>3, <2>4, <2>5, <2>6 DEF x
<1>10. ASSUME NEW curve, NEW name
       PROVE  Good(On(base, curveNames[curve], curve, name, <<"on", curve>>))
  <2> DEFINE more == seen \o <<"on", curve>>
             size == curveNames[curve]
             b == [plain EXCEPT !.keySize = size, !.curve = curve, !.name = name, !.evidence = more]
  <2>2. /\ more[1] = n.recv /\ more[2] = n.name /\ more[3] = "on" /\ more[4] = curve
        /\ Len(more) = 4
    BY <1>7
  <2> HIDE DEF size
  <2>1. On(base, size, curve, name, <<"on", curve>>) = b
    BY <1>2 DEF Fields
  <2> HIDE DEF more
  <2>3. /\ DOMAIN b = Fields /\ b.evidence = more /\ b.keySize = size /\ b.curve = curve
        /\ \A field \in Fields \ {"name", "keySize", "curve", "evidence"} : b[field] = plain[field]
    BY <1>2 DEF Fields
  <2> HIDE DEF b
  <2>4. OfUse(b, u)
    BY <1>2, <2>3 DEF OfUse, Specifics
  <2>5. Parameters(b, u, file)
    BY <2>2, <2>3 DEF Parameters, size
  <2>6. b.location = at /\ Unattributed(b)
    BY <1>2, <2>3 DEF Unattributed, Fields
  <2> QED
    BY <2>1, <2>2, <2>3, <2>4, <2>5, <2>6 DEF size
<1>11. Good(a)
  <2>1. Len(args) >= 2 => args[2] \in NodesOf(file)
    BY <1>4
  <2> HIDE DEF Good, With, On, base
  <2> QED
    BY <1>5, <1>8, <1>9, <1>10, <2>1
<1>12. OfACall(a, file)
  BY <1>1, <1>4, <1>11 DEF OfACall, Configured
<1>13. OfTheFile(a, file)
  BY <1>4, <1>11, <1>12 DEF OfTheFile, at
<1> QED
  BY <1>13 DEF a

\* A reading says in its evidence what constant it is of, wherever it stands.
LEMMA ReadingIsTold ==
  ASSUME NEW field \in DOMAIN configuredFields, NEW constant, NEW at,
         NEW a \in reading(field, constant, at)
  PROVE  /\ a.location = at /\ Unattributed(a)
         /\ \E x \in reading(field, constant, AtHost(Address)) : Same(a, x)
         /\ Len(a.evidence) >= 2 /\ a.evidence[2] = constant
         /\ \E A : a.evidence \in Seq(A)
<1> DEFINE host == AtHost(Address)
           Seen(s) == Len(s) >= 2 /\ s[2] = constant /\ \E A : s \in Seq(A)
<1>1. field \in {"MinVersion", "MaxVersion", "CipherSuites", "CurvePreferences"}
  BY DEF configuredFields
<1>2. \A x, y : Seen(<<x, constant>>) /\ Seen(<<x, constant, y>>)
  <2> SUFFICES ASSUME NEW x, NEW y PROVE Seen(<<x, constant>>) /\ Seen(<<x, constant, y>>)
    OBVIOUS
  <2>1. <<x, constant>> \in Seq({x, constant}) /\ <<x, constant, y>> \in Seq({x, constant, y})
    OBVIOUS
  <2> DEFINE s == <<x, constant>>
             t == <<x, constant, y>>
  <2>2. Len(s) = 2 /\ s[2] = constant /\ Len(t) = 3 /\ t[2] = constant
    OBVIOUS
  <2>3. (\E A : s \in Seq(A)) /\ \E A : t \in Seq(A)
    BY <2>1
  <2> HIDE DEF s, t
  <2>4. Seen(s) /\ Seen(t)
    BY <2>2, <2>3
  <2> QED
    BY <2>4 DEF s, t
<1>3. ASSUME NEW name, NEW kind, NEW primitive, NEW algorithm, NEW seen
      PROVE  LET b == Finding(name, kind, primitive, algorithm, at, seen)
             IN b.location = at /\ b.evidence = seen /\ Unattributed(b) /\ DOMAIN b = Fields
  BY Zenon, FindingFields DEF Finding, Unattributed
<1> HIDE DEF Seen
<1> DEFINE Good(b) == b.location = at /\ Unattributed(b) /\ Seen(b.evidence)
<1>4. ASSUME a \in VersionAsset(constant, at)
      PROVE  Good(a) /\ \E x \in VersionAsset(constant, host) : Same(a, x)
  <2> DEFINE name == versionName(versionConstants[constant])
             seen == <<"protocol version", constant>>
             Bare(y) == Finding(name, "protocol", "", "", y, seen)
  <2>1. a = Bare(at) /\ Bare(host) \in VersionAsset(constant, host)
    BY <1>4 DEF VersionAsset
  <2>2. Seen(seen)
    BY <1>2
  <2>3. PICK unset : \A y : Bare(y) = Finding(name, "protocol", unset, unset, y, seen)
    BY Zenon
  <2> HIDE DEF Bare, seen, name, host, Seen
  <2>4. Same(Bare(at), Bare(host))
    BY <2>3, FindingsAreSame
  <2>5. Good(Bare(at))
    BY <1>3, <2>2, <2>3
  <2> QED
    BY <2>1, <2>4, <2>5
<1>5. ASSUME a \in SuiteAsset(constant, at)
      PROVE  Good(a) /\ \E x \in SuiteAsset(constant, host) : Same(a, x)
  <2> DEFINE seen == <<"cipher suite", constant>>
             b == cipherAsset(constant, at)
             c == cipherAsset(constant, host)
             d == [c EXCEPT !.evidence = seen]
  <2>1. a = [b EXCEPT !.evidence = seen] /\ d \in SuiteAsset(constant, host)
    BY <1>5 DEF SuiteAsset
  <2>2. Seen(seen)
    BY <1>2
  <2>3. Same(b, c)
    BY SuitesAreSame
  <2>6. b.location = at /\ Unattributed(b)
    <3> DEFINE named == {e \in ciphers : Contains(constant, e.part)}
               cipher == IF named = {} THEN Cipher("", constant, 0, "block-cipher")
                         ELSE CHOOSE e \in named : TRUE
               mode == cipherMode(constant)
               primitive == IF mode \in {"gcm", "ccm"} THEN "ae" ELSE cipher.primitive
               said == <<"negotiated suite", constant>>
               bare == Finding(constant, "algorithm", primitive, cipher.algorithm, at, said)
    <3>1. b = [bare EXCEPT !.keySize = cipher.bits, !.mode = mode]
      BY Zenon DEF cipherAsset, Algorithm
    <3> HIDE DEF cipher, mode, primitive, said
    <3>2. DOMAIN bare = Fields /\ bare.location = at /\ Unattributed(bare)
      BY <1>3
    <3> HIDE DEF bare, b
    <3> QED
      BY <3>1, <3>2 DEF Fields, Unattributed
  <2> HIDE DEF seen, host, Seen, b, c
  <2>4. Same(a, b) /\ Same(d, c) /\ DOMAIN b = Fields /\ DOMAIN d = Fields
    <3>1. DOMAIN b = Fields /\ DOMAIN c = Fields
      BY <2>3 DEF Same
    <3> QED
      BY <2>1, <3>1, SameSeen
  <2>7. Same(a, d)
    BY <2>3, <2>4 DEF Same
  <2>5. Good(a)
    BY <2>1, <2>2, <2>4, <2>6 DEF Fields, Unattributed
  <2> QED
    BY <2>1, <2>5, <2>7
<1>6. ASSUME a \in GroupAsset(constant, at)
      PROVE  Good(a) /\ \E x \in GroupAsset(constant, host) : Same(a, x)
  <2> DEFINE name == keyExchange(curveConstants[constant]).group
             seen == <<"key exchange group", constant, Hex4(curveConstants[constant])>>
             Bare(y) == Finding(name, "algorithm", "key-agree", name, y, seen)
  <2>1. a = Bare(at) /\ Bare(host) \in GroupAsset(constant, host)
    BY <1>6 DEF GroupAsset, Algorithm
  <2>2. Seen(seen)
    BY <1>2
  <2>4. Same(Bare(at), Bare(host))
    BY FindingsAreSame
  <2> HIDE DEF seen, name, host, Seen
  <2>5. Good(Bare(at))
    BY <1>3, <2>2
  <2> HIDE DEF Bare
  <2> QED
    BY <2>1, <2>4, <2>5
<1>7. \/ a \in VersionAsset(constant, at) /\ reading(field, constant, host) = VersionAsset(constant, host)
      \/ a \in SuiteAsset(constant, at) /\ reading(field, constant, host) = SuiteAsset(constant, host)
      \/ a \in GroupAsset(constant, at) /\ reading(field, constant, host) = GroupAsset(constant, host)
  BY <1>1 DEF reading
<1>8. Good(a) /\ \E x \in reading(field, constant, host) : Same(a, x)
  <2> HIDE DEF Good, host
  <2> QED
    BY <1>4, <1>5, <1>6, <1>7
<1> QED
  BY <1>8 DEF Seen

LEMMA FieldIsOfASetting ==
  ASSUME file \in Files, NEW a, OfAField(a)
  PROVE  OfTheFile(a, file)
<1>1. PICK field \in DOMAIN configuredFields, value \in NodesOf(file) :
        a = fieldAsset(field, value) \/ a = unread(field, value.line)
  BY DEF OfAField
<1> DEFINE at == InFile(file.path, value.line)
           host == AtHost(Address)
           constants == IF value.node = "selector" /\ PackageOf(value.recv) = "crypto/tls"
                        THEN reading(field, value.name, at) ELSE {}
           x == CHOOSE y \in constants : TRUE
           f == configuredFields[field]
<1>0. "tls.Config" \notin HeardWords
  BY DEF HeardWords
<1>2. CASE a = unread(field, value.line)
  <2> DEFINE seen == <<"tls.Config", field, "is not a crypto/tls constant here">>
  <2>1. PICK unset :
          /\ a = Finding(f.unstated, f.kind, f.primitive, unset, at, seen)
          /\ GapFinding(field) = Finding(f.unstated, f.kind, f.primitive, unset, host, << >>)
          /\ Unattributed(a)
    BY <1>2, Zenon DEF unread, GapFinding, Finding, Unattributed
  <2>2. seen[1] = "tls.Config" /\ seen[2] = field /\ Len(seen) = 3
    OBVIOUS
  <2> HIDE DEF f, at, host, seen
  <2>3. Same(a, GapFinding(field)) /\ a.evidence = seen /\ a.location = at
    BY <2>1, FindingsAreSame, FindingFields
  <2>4. OfASetting(a)
    BY <2>2, <2>3 DEF OfASetting, Configured
  <2> QED
    BY <1>0, <2>1, <2>2, <2>3, <2>4 DEF OfTheFile, at
<1>3. CASE a = [x EXCEPT !.evidence = <<"tls.Config", field>> \o @] /\ constants # {}
  <2>1. x \in reading(field, value.name, at)
    BY <1>3
  <2> HIDE DEF x, constants, at
  <2>2. /\ x.location = at /\ Unattributed(x)
        /\ Len(x.evidence) >= 2 /\ x.evidence[2] = value.name
    BY <2>1, ReadingIsTold
  <2>3. PICK y \in reading(field, value.name, host) : Same(x, y)
    BY <2>1, ReadingIsTold
  <2>4. PICK A : x.evidence \in Seq(A)
    BY <2>1, ReadingIsTold
  <2> DEFINE seen == <<"tls.Config", field>> \o x.evidence
  <2>5. DOMAIN x = Fields
    BY <2>3 DEF Same
  <2>6. /\ seen[1] = "tls.Config" /\ seen[2] = field /\ Len(seen) > 3
        /\ seen[4] = value.name
    <3> DEFINE front == <<"tls.Config", field>>
               words == x.evidence
               B == {"tls.Config", field} \cup A
    <3>1. front \in Seq({"tls.Config", field}) /\ Len(front) = 2
          /\ front[1] = "tls.Config" /\ front[2] = field
      OBVIOUS
    <3> HIDE DEF front
    <3>2. front \in Seq(B) /\ words \in Seq(B) /\ 2 \in 1..Len(words)
      <4>1. 2 \in 1..Len(words)
        <5>1. Len(words) \in Nat /\ Len(words) >= 2
          BY <2>2, <2>4
        <5> HIDE DEF words
        <5> QED
          BY <5>1
      <4> QED
        BY <2>4, <3>1, <4>1
    <3> HIDE DEF words, B
    <3>3. /\ Len(front \o words) = Len(front) + Len(words)
          /\ \A k \in 1..Len(front) : (front \o words)[k] = front[k]
          /\ \A k \in Len(front) + 1..Len(front) + Len(words) :
               (front \o words)[k] = words[k - Len(front)]
      BY <3>2, ConcatAt
    <3>4. /\ (front \o words)[1] = front[1] /\ (front \o words)[2] = front[2]
          /\ (front \o words)[4] = words[4 - 2]
      <4>1. 1 \in 1..Len(front) /\ 2 \in 1..Len(front)
        BY <3>1
      <4>2. 4 \in Len(front) + 1..Len(front) + Len(words)
        BY <3>1, <3>2
      <4> QED
        BY <3>1, <3>3, <4>1, <4>2
    <3>5. Len(words) \in Nat /\ Len(words) >= 2
      BY <3>2
    <3> QED
      BY <2>2, <3>1, <3>3, <3>4, <3>5 DEF front, words
  <2> HIDE DEF seen
  <2>7. a = [x EXCEPT !.evidence = seen]
    BY <1>3, <2>5 DEF seen, Fields
  <2>8. Same(a, x) /\ a.evidence = seen /\ a.location = at /\ Unattributed(a)
    BY <2>2, <2>5, <2>7, SameSeen DEF Fields, Unattributed
  <2>9. Same(a, y)
    BY <2>3, <2>8 DEF Same
  <2>10. OfASetting(a)
    BY <2>6, <2>8, <2>9 DEF OfASetting, Configured
  <2> QED
    BY <1>0, <2>6, <2>8, <2>10 DEF OfTheFile, at
<1>4. fieldAsset(field, value) = IF constants = {} THEN unread(field, value.line)
                                 ELSE [x EXCEPT !.evidence = <<"tls.Config", field>> \o @]
  BY DEF fieldAsset
<1> QED
  BY <1>1, <1>2, <1>3, <1>4, Zenon

\* A finding of a file as it is gathered: the module stands before its path.
Traced(a, f) ==
  /\ OfACall(a, f) \/ OfASetting(a)
  /\ \E n \in NodesOf(f) : a.location = InFile(PathIn(f), n.line)
  /\ a.evidence[1] \notin HeardWords
  /\ a.module = f.module

LEMMA TracedStays ==
  ASSUME NEW f, NEW a, OfACall(a, f) \/ OfASetting(a), NEW b, Same(b, a),
         b.evidence = a.evidence
  PROVE  OfACall(b, f) \/ OfASetting(b)
<1>1. CASE OfACall(a, f)
  <2>1. PICK u \in table : /\ Stands(f, a.evidence[1], u.path) /\ u.function = a.evidence[2]
                           /\ OfUse(a, u) /\ Parameters(a, u, f)
    BY <1>1 DEF OfACall
  <2>2. OfUse(b, u)
    BY <2>1 DEF OfUse, Same, Specifics
  <2>3. a.keySize = b.keySize /\ a.curve = b.curve
    BY DEF Same, Fields
  <2>4. Parameters(b, u, f)
    BY <2>1, <2>3 DEF Parameters
  <2> QED
    BY <1>1, <2>1, <2>2, <2>4 DEF OfACall, Configured
<1>2. CASE OfASetting(a)
  <2>1. \A c : Same(a, c) => Same(b, c)
    BY DEF Same
  <2>2. OfASetting(b)
    BY <1>2, <2>1, Zenon DEF OfASetting, Configured
  <2> QED
    BY <2>2
<1> QED
  BY <1>1, <1>2

LEMMA AttributedIsTraced ==
  ASSUME NEW a, OfTheFile(a, file), DOMAIN a = Fields
  PROVE  Traced(Attributed(a), file)
<1> DEFINE f == file
           b == Attributed(a)
           module == f.module
           path == PathIn(f)
<1>1. PICK n \in NodesOf(f) : a.location = InFile(f.path, n.line)
  BY DEF OfTheFile
<1> DEFINE at == InFile(path, n.line)
<1>2. \/ b = a /\ a.module = module /\ path = f.path
      \/ b = [a EXCEPT !.module = module, !.location.file = path]
  <2>1. PICK none, slash :
          /\ b = IF module = none THEN a
                 ELSE [a EXCEPT !.module = module, !.location.file = module \o slash \o @]
          /\ a.module = none
          /\ path = IF module = none THEN f.path ELSE module \o slash \o f.path
    BY Zenon DEF Attributed, OfTheFile, Unattributed, PathIn
  <2>2. a.location.file = f.path
    <3>1. PICK host : \A p, l : InFile(p, l) = [file |-> p, line |-> l, host |-> host]
      BY Zenon DEF InFile
    <3> QED
      BY <1>1, <3>1
  <2>3. CASE module = none
    BY <2>1, <2>3
  <2>4. CASE module # none
    <3>1. path = module \o slash \o f.path
      BY <2>1, <2>4
    <3>2. b = [a EXCEPT !.module = module, !.location.file = module \o slash \o f.path]
      <4>1. b = [a EXCEPT !.module = module, !.location.file = module \o slash \o @]
        BY <2>1, <2>4
      <4> HIDE DEF b, module
      <4> QED
        BY <2>2, <4>1
    <3> HIDE DEF b, path, module
    <3> QED
      BY <3>1, <3>2
  <2> QED
    BY <2>3, <2>4
<1>3. CASE b = a /\ a.module = module /\ path = f.path
  BY <1>1, <1>3 DEF OfTheFile, Traced
<1>4. CASE b = [a EXCEPT !.module = module, !.location.file = path]
  <2>1. [InFile(f.path, n.line) EXCEPT !.file = path] = at
    <3>1. PICK host : \A p, l : InFile(p, l) = [file |-> p, line |-> l, host |-> host]
      BY Zenon DEF InFile
    <3> HIDE DEF path
    <3> QED
      BY <3>1
  <2> HIDE DEF b, module, path
  <2>2. b = [a EXCEPT !.module = module, !.location = at]
    BY <1>1, <1>4, <2>1 DEF Fields
  <2> HIDE DEF at
  <2>3. /\ Same(b, a) /\ b.location = at /\ b.module = module /\ b.evidence = a.evidence
    BY <2>2, SameElsewhere DEF Fields
  <2>4. OfACall(b, f) \/ OfASetting(b)
    BY <2>3, TracedStays DEF OfTheFile
  <2>5. b.evidence[1] \notin HeardWords
    BY <2>3 DEF OfTheFile
  <2>6. Traced(b, f)
    BY <2>3, <2>4, <2>5 DEF Traced, at, module, path
  <2> QED
    BY <2>6 DEF b
<1> QED
  BY <1>2, <1>3, <1>4

-----------------------------------------------------------------------------
\* Where what is gathered comes from.

\* What one endpoint said, told apart by its words.
Voiced(B) ==
  /\ \A a \in B : DOMAIN a = Fields /\ a.evidence[1] \in HeardWords
  /\ \A a, b \in B : a.evidence = b.evidence => a = b

\* Each finding is of a file of the input, or is what the endpoint said.
Originate(list, B) ==
  \A k \in DOMAIN list : list[k] \in B \/ \E f \in FilesOf(input) : Traced(list[k], f)

TraceInv ==
  /\ file \in FilesOf(input)
  /\ \A k \in DOMAIN found : OfTheFile(found[k], file)
  /\ \E B : /\ Voiced(B) /\ Originate(gathered, B)
            /\ pc \in {"files", "probe"} => B = {}

LEMMA InitTraceInv == Init => TraceInv
<1> SUFFICES ASSUME Init PROVE TraceInv
  OBVIOUS
<1>1. /\ input \in Inputs /\ file = input.files[1] /\ found = << >> /\ gathered = << >>
  BY DEF Init, InitFile
<1>2. file \in FilesOf(input)
  <2>1. input.files \in Seq(Files) /\ input.files # << >>
    BY <1>1, InputsAssumption
  <2>2. 1 \in DOMAIN input.files
    BY <2>1
  <2> QED
    BY <1>1, <2>2 DEF FilesOf
<1>3. DOMAIN found = {} /\ DOMAIN gathered = {}
  BY <1>1, EmptyList
<1>4. Voiced({}) /\ Originate(gathered, {})
  BY <1>3 DEF Voiced, Originate
<1> QED
  BY <1>2, <1>3, <1>4 DEF TraceInv

LEMMA ReadingIsTraced ==
  ASSUME WalkInv, ReadFile, \A k \in DOMAIN found : OfTheFile(found[k], file)
  PROVE  /\ file' = file
         /\ \A k \in DOMAIN found' : OfTheFile(found'[k], file)
<1>0. file' = file
  BY DEF ReadFile, NoWatchedImport, ResolveImports, VisitCall, VisitConfig, VisitOther, EndOfFile,
         Descend
<1>1. PICK A : found \in Seq(A)
  BY DEF WalkInv, Listed
<1>2. CASE VisitCall
  <2> DEFINE n == Head(todo)
  <2>1. PICK u \in Meaning(n) : found' = Append(found, callAsset(n, u))
    BY <1>2 DEF VisitCall
  <2>2. /\ file \in Files /\ packages = Resolved(file.imports) /\ n \in NodesOf(file)
    <3>1. file \in Files /\ packages = Resolved(file.imports) /\ todo \in Seq(NodesOf(file))
          /\ todo # << >>
      BY <1>2 DEF VisitCall, WalkInv
    <3> QED
      BY <3>1
  <2>3. OfTheFile(callAsset(n, u), file)
    BY <2>2, CallIsOfACall
  <2> DEFINE a == callAsset(n, u)
             list == Append(found, a)
  <2>4. \A k \in DOMAIN list : list[k] = a \/ (k \in DOMAIN found /\ list[k] = found[k])
    <3> HIDE DEF a
    <3> QED
      BY <1>1
  <2>5. found' = list /\ OfTheFile(a, file)
    BY <2>1, <2>3
  <2> HIDE DEF a, list
  <2> QED
    BY <1>0, <2>4, <2>5
<1>3. CASE VisitConfig
  <2> DEFINE n == Head(todo)
             more == tlsConfig(n)
  <2>1. found' = found \o more /\ stage = "walk" /\ todo # << >>
    BY <1>3 DEF VisitConfig
  <2>2. file \in Files /\ n \in NodesOf(file)
    <3>1. file \in Files /\ todo \in Seq(NodesOf(file))
      BY <2>1 DEF WalkInv
    <3> QED
      BY <2>1, <3>1
  <2>3. PICK B : more \in Seq(B) /\ \A a \in B : OfAField(a)
    BY <2>2, ConfigIsReported
  <2>4. \A a \in B : OfTheFile(a, file)
    BY <2>2, <2>3, FieldIsOfASetting
  <2> HIDE DEF n, more
  <2> QED
    BY <1>0, <1>1, <2>1, <2>3, <2>4, ConcatHolds
<1>4. CASE found' = found
  BY <1>0, <1>4
<1> QED
  BY <1>0, <1>2, <1>3, <1>4 DEF ReadFile, NoWatchedImport, ResolveImports, VisitOther, EndOfFile

LEMMA CollectIsTraced ==
  ASSUME Inv, TraceInv, Collect, NEW B, Originate(gathered, B), input' = input
  PROVE  Originate(gathered, B)'
<1> DEFINE more == [k \in DOMAIN found |-> Attributed(found[k])]
<1>1. PICK A : found \in Seq(A)
  BY DEF Inv, WalkInv, Listed
<1>2. PICK C : gathered \in Seq(C)
  BY DEF Inv, RunInv, Listed
<1>3. \A k \in DOMAIN found : Traced(Attributed(found[k]), file)
  <2> SUFFICES ASSUME NEW k \in DOMAIN found PROVE Traced(Attributed(found[k]), file)
    OBVIOUS
  <2>1. OfTheFile(found[k], file)
    BY DEF TraceInv
  <2>2. DOMAIN found[k] = Fields
    BY <2>1 DEF OfTheFile, OfACall, OfUse, OfASetting, Same
  <2> QED
    BY <2>1, <2>2, AttributedIsTraced
<1> DEFINE D == {Attributed(found[k]) : k \in DOMAIN found}
<1>4. more \in Seq(D) /\ \A k \in DOMAIN more : Traced(more[k], file)
  BY <1>1, <1>3
<1>5. gathered' = gathered \o more /\ file \in FilesOf(input)
  BY DEF Collect, TraceInv
<1> HIDE DEF more, D
<1>6. \A k \in DOMAIN (gathered \o more) :
        \/ \E i \in DOMAIN gathered : (gathered \o more)[k] = gathered[i]
        \/ \E i \in DOMAIN more : (gathered \o more)[k] = more[i]
  BY <1>2, <1>4, ConcatHolds DEF Holds
<1>7. \A k \in DOMAIN (gathered \o more) :
        \/ (gathered \o more)[k] \in B
        \/ \E f \in FilesOf(input) : Traced((gathered \o more)[k], f)
  BY <1>4, <1>5, <1>6 DEF Originate
<1> QED
  BY <1>5, <1>7 DEF Originate

LEMMA NextTraceInv == Inv /\ TraceInv /\ [Next]_vars => TraceInv'
<1> SUFFICES ASSUME Inv, TraceInv, [Next]_vars PROVE TraceInv'
  OBVIOUS
<1>0. WalkInv /\ RunInv
  BY DEF Inv
<1>1. PICK B : /\ Voiced(B) /\ Originate(gathered, B)
               /\ pc \in {"files", "probe"} => B = {}
  BY DEF TraceInv
<1>2. CASE ReadOn
  <2>1. UNCHANGED runVars /\ ReadFile
    BY <1>2 DEF ReadOn
  <2>2. file' = file /\ \A k \in DOMAIN found' : OfTheFile(found'[k], file)
    BY <1>0, <2>1, ReadingIsTraced DEF TraceInv
  <2>3. /\ input' = input /\ gathered' = gathered /\ pc' = pc
    BY <2>1 DEF runVars
  <2>4. Originate(gathered, B)'
    BY <1>1, <2>3 DEF Originate
  <2> QED
    BY <1>1, <2>2, <2>3, <2>4 DEF TraceInv
<1>3. CASE CloseFile
  <2>1. /\ Collect /\ next < Len(input.files) /\ file' = input.files[next + 1] /\ found' = << >>
        /\ input' = input /\ pc' = pc
    BY <1>3 DEF CloseFile
  <2>2. Originate(gathered, B)'
    BY <1>1, <2>1, CollectIsTraced
  <2>3. file' \in FilesOf(input')
    <3>1. input.files \in Seq(Files) /\ next \in 1..Len(input.files)
      <4>1. input \in Inputs /\ pc = "files" /\ next \in 1..Len(input.files)
        BY <1>0, <2>1 DEF RunInv, Collect
      <4> QED
        BY <4>1, InputsAssumption
    <3>2. next + 1 \in DOMAIN input.files
      BY <2>1, <3>1
    <3> QED
      BY <2>1, <3>2 DEF FilesOf
  <2>4. DOMAIN found' = {}
    BY <2>1, EmptyList
  <2> QED
    BY <1>1, <2>1, <2>2, <2>3, <2>4 DEF TraceInv
<1>4. CASE CloseLastFile
  <2>1. Collect /\ UNCHANGED fileVars /\ input' = input /\ pc = "files"
    BY <1>4 DEF CloseLastFile, Collect
  <2>2. Originate(gathered, B)'
    BY <1>1, <2>1, CollectIsTraced
  <2>3. file' = file /\ found' = found
    BY <2>1 DEF fileVars
  <2> QED
    BY <1>1, <2>1, <2>2, <2>3 DEF TraceInv
<1>5. CASE Handshake
  <2>1. /\ pc = "probe" /\ pc' = "judge" /\ UNCHANGED <<fileVars, input>>
        /\ input.handshake # {}
        /\ result' = {fromState(Address, state) : state \in input.handshake}
        /\ \A r \in result' : gathered' = gathered \o r.assets
    BY <1>5 DEF Handshake
  <2>2. PICK state \in input.handshake : TRUE
    BY <2>1
  <2> DEFINE heard == fromState(Address, state).assets
  <2>3. gathered' = gathered \o heard
    BY <2>1, <2>2
  <2>4. PICK A : /\ heard \in Seq(A) /\ \A a \in A : Agreed(a, state) /\ Spoken(a)
                 /\ \A a, b \in A : a.evidence = b.evidence => a = b
    BY <1>0, HandshakeIsAgreed DEF RunInv
  <2>5. Voiced(A)
    BY <2>4 DEF Voiced, Agreed, Graded, Spoken, HeardAs
  <2>6. PICK C : gathered \in Seq(C)
    BY <1>0 DEF RunInv, Listed
  <2> HIDE DEF heard
  <2>7. \A k \in DOMAIN gathered' : \/ \E i \in DOMAIN gathered : gathered'[k] = gathered[i]
                                    \/ gathered'[k] \in A
    BY <2>3, <2>4, <2>6, ConcatHolds DEF Holds
  <2>8. B = {} /\ input' = input /\ file' = file /\ found' = found
    BY <1>1, <2>1 DEF fileVars
  <2>9. Originate(gathered, A)'
    BY <1>1, <2>7, <2>8 DEF Originate
  <2> QED
    BY <2>1, <2>5, <2>8, <2>9 DEF TraceInv
<1>6. CASE NoEndpoint \/ Judge \/ PrintReport \/ BuildDocument \/ UNCHANGED vars
  <2>1. /\ file' = file /\ found' = found /\ gathered' = gathered /\ input' = input
        /\ pc' = pc \/ pc' \notin {"files", "probe"}
    BY <1>6 DEF NoEndpoint, Judge, PrintReport, BuildDocument, vars, fileVars, runVars
  <2>2. Originate(gathered, B)'
    BY <1>1, <2>1 DEF Originate
  <2> QED
    BY <1>1, <2>1, <2>2 DEF TraceInv
<1> QED
  BY <1>2, <1>3, <1>4, <1>5, <1>6 DEF Next, Ended

LEMMA TraceInvAlways == Spec => []TraceInv
BY InvAlways, InitTraceInv, NextTraceInv, PTL DEF Spec

\* What is configured is read from a constant, or is a gap.
LEMMA ConfiguredIsOfASetting ==
  ASSUME TraceInv, NEW k \in DOMAIN gathered, Configured(gathered[k])
  PROVE  OfASetting(gathered[k])
<1>1. PICK B : Voiced(B) /\ Originate(gathered, B)
  BY DEF TraceInv
<1>2. gathered[k] \notin B
  BY <1>1 DEF Voiced, Configured, HeardWords
<1>3. \E f \in FilesOf(input) : Traced(gathered[k], f)
  BY <1>1, <1>2 DEF Originate
<1> QED
  BY <1>3 DEF Traced, OfACall

\* What goes into a reference tells a finding from every other.
LEMMA ReferenceIsTold ==
  ASSUME input \in Inputs, NEW B, Voiced(B),
         NEW a, a \in B \/ \E f \in FilesOf(input) : Traced(a, f),
         NEW b, b \in B \/ \E f \in FilesOf(input) : Traced(b, f),
         a.name = b.name, a.evidence = b.evidence, Position(a.location) = Position(b.location)
  PROVE  Same(a, b) /\ a.location = b.location /\ a.module = b.module
<1>1. CASE a \in B /\ b \in B
  BY <1>1 DEF Voiced, Same
<1>2. CASE a \notin B /\ b \notin B
  <2>1. PICK f \in FilesOf(input) : Traced(a, f)
    BY <1>2
  <2>2. PICK g \in FilesOf(input) : Traced(b, g)
    BY <1>2
  <2>3. PICK m \in NodesOf(f) : a.location = InFile(PathIn(f), m.line)
    BY <2>1 DEF Traced
  <2>4. PICK n \in NodesOf(g) : b.location = InFile(PathIn(g), n.line)
    BY <2>2 DEF Traced
  <2>5. a.location \in PlacesOf(input) /\ b.location \in PlacesOf(input)
    BY <2>3, <2>4 DEF PlacesOf
  <2>6. a.location = b.location
    BY <2>5, PlacesAssumption
  <2>7. PathIn(f) = PathIn(g)
    <3>1. PICK host : \A p, l : InFile(p, l) = [file |-> p, line |-> l, host |-> host]
      BY Zenon DEF InFile
    <3> DEFINE p == PathIn(f)
               q == PathIn(g)
    <3>2. [file |-> p, line |-> m.line, host |-> host] = [file |-> q, line |-> n.line, host |-> host]
      BY <2>3, <2>4, <2>6, <3>1
    <3> HIDE DEF p, q
    <3>3. p = q
      BY <3>2
    <3> QED
      BY <3>3 DEF p, q
  <2>8. f = g
    BY <2>7, PlacesAssumption
  <2>9. f \in Files
    BY FilesAreGiven, InputsAssumption DEF FilesOf
  <2>10. Same(a, b)
    <3>1. CASE Configured(a)
      <4>1. OfASetting(a) /\ OfASetting(b)
        BY <2>1, <2>2, <3>1 DEF Traced, OfACall, Configured
      <4> QED
        BY <4>1, SettingsAreTold
    <3>2. CASE ~Configured(a)
      <4>1. OfACall(a, f) /\ OfACall(b, f)
        BY <2>1, <2>2, <2>8, <3>2 DEF Traced, OfASetting, Configured
      <4> QED
        BY <2>9, <4>1, CallsAreTold
    <3> QED
      BY <3>1, <3>2
  <2>11. a.module = b.module
    BY <2>1, <2>2, <2>8 DEF Traced
  <2> QED
    BY <2>6, <2>10, <2>11
<1>3. \A c \in B : c.evidence[1] \in HeardWords
  BY DEF Voiced
<1>4. \A c, f : Traced(c, f) => c.evidence[1] \notin HeardWords
  BY DEF Traced
<1> QED
  BY <1>1, <1>2, <1>3, <1>4

-----------------------------------------------------------------------------
\* Levels.

LEMMA CategoryIsGiven ==
  ASSUME LevelsAgree, NEW a, Graded(a), a.kind = "algorithm", quantumSecurityLevel(a) # 0
  PROVE  [category |-> quantumSecurityLevel(a), posture |-> judge(AssetOf(a))] \in Categorized
<1> DEFINE name == family(a)
           bits == a.keySize
           category == quantumSecurityLevel(a)
<1>1. AssetOf(a) = Asset(name, "algorithm", bits) /\ name \in AlgorithmNames
  BY DEF AssetOf, Graded
<1> HIDE DEF name
<1>2. CASE name \in DOMAIN nistCategory
  <2>1. category = nistCategory[name]
    BY <1>2 DEF quantumSecurityLevel, name
  <2>2. judge(Asset(name, "algorithm", 0)) = judge(Asset(name, "algorithm", bits))
    BY <1>2, JudgedForEverySize DEF LevelsAgree
  <2> HIDE DEF category, bits
  <2>3. [category |-> category, posture |-> judge(AssetOf(a))]
          = CategorizedBy(name, 0, nistCategory[name])
    BY <1>1, <2>1, <2>2 DEF CategorizedBy
  <2>4. CategorizedBy(name, 0, nistCategory[name]) \in Categorized
    BY <1>1, <1>2 DEF Categorized
  <2> QED
    BY <2>3, <2>4 DEF category
<1>3. CASE name \notin DOMAIN nistCategory
  <2>1. HasPrefix(name, "AES") /\ bits \in DOMAIN keyCategory /\ category = keyCategory[bits]
    BY <1>3 DEF quantumSecurityLevel, LevelOf, name
  <2>2. bits # 0
    BY <2>1 DEF keyCategory
  <2> DEFINE use == <<name, a.primitive>>
  <2>3. use \in SizedAlgorithms /\ use[1] = name
    BY <2>2 DEF Graded, name
  <2> HIDE DEF category, bits, use
  <2>4. [category |-> category, posture |-> judge(AssetOf(a))]
          = CategorizedBy(use[1], bits, keyCategory[bits])
    BY <1>1, <2>1, <2>3 DEF CategorizedBy
  <2>5. CategorizedBy(use[1], bits, keyCategory[bits]) \in Categorized
    BY <2>1, <2>3 DEF Categorized
  <2> QED
    BY <2>4, <2>5 DEF category
<1> QED
  BY <1>2, <1>3

LEMMA StrengthIsHalf ==
  ASSUME LevelsAgree, NEW a, Graded(a), a.kind = "algorithm",
         judge(AssetOf(a)) = "quantum_vulnerable", a.keySize > 0
  PROVE  2 * classicalSecurityLevel(a) <= a.keySize
<1> DEFINE name == family(a)
           bits == a.keySize
           use == <<name, a.primitive>>
<1>1. AssetOf(a) = Asset(name, "algorithm", bits) /\ bits \in Nat
  BY DEF AssetOf, Graded
<1>2. use \in SizedAlgorithms /\ use[1] = name /\ use[2] = a.primitive
  BY DEF Graded
<1> HIDE DEF name, use
<1>3. judge(Asset(name, "algorithm", 0)) = "quantum_vulnerable"
  BY <1>1, JudgedForEverySize
<1>4. /\ ~IsTripleDES(name)
      /\ HasModulus(name) \/ HasCurve(name) \/ a.primitive \notin symmetric
  BY <1>2, <1>3 DEF LevelsAgree
<1>5. bits \in DOMAIN modulusStrength => 2 * modulusStrength[bits] <= bits
  BY DEF LevelsAgree
<1>6. \/ classicalSecurityLevel(a) = LevelOf(modulusStrength, bits)
      \/ classicalSecurityLevel(a) = bits \div 2
      \/ classicalSecurityLevel(a) = 0
  BY <1>4 DEF classicalSecurityLevel, name
<1>7. 2 * LevelOf(modulusStrength, bits) <= bits
  BY <1>1, <1>5 DEF LevelOf
<1>8. 2 * (bits \div 2) <= bits
  BY <1>1
<1> QED
  BY <1>1, <1>6, <1>7, <1>8

\* The classifier leaves what the levels and the posture are read from.
LEMMA GradedIsJudged ==
  ASSUME NEW a, Graded(a)
  PROVE  Graded(Apply(a)) /\ Apply(a).posture = judge(AssetOf(Apply(a)))
<1> DEFINE b == Apply(a)
<1>1. DOMAIN a = Fields /\ DOMAIN b = Fields
  <2>1. DOMAIN b = DOMAIN a
    BY DEF Apply
  <2> QED
    BY <2>1 DEF Graded
<1>2. /\ b.name = a.name /\ b.algorithm = a.algorithm /\ b.kind = a.kind
      /\ b.keySize = a.keySize /\ b.primitive = a.primitive
      /\ b.posture = judge(AssetOf(a))
  BY <1>1, ApplyKeeps DEF Fields
<1> HIDE DEF b
<1>3. family(b) = family(a)
  BY <1>2, Zenon DEF family
<1>4. AssetOf(b) = AssetOf(a)
  BY <1>2, <1>3, Zenon DEF AssetOf
<1>5. Graded(b)
  BY <1>1, <1>2, <1>3 DEF Graded
<1> QED
  BY <1>2, <1>4, <1>5 DEF b

\* Of what is no algorithm no level is given, and a category, a posture and a
\* strength stand together as the tables have them.
LEMMA LevelsOfAComponent ==
  ASSUME LevelsAgree, NEW a, Graded(a), a.posture = judge(AssetOf(a))
  PROVE  LET properties == component(a).properties
         IN /\ component(a).posture = a.posture
            /\ properties.quantum # 0 =>
                 [category |-> properties.quantum, posture |-> a.posture] \in Categorized
            /\ (a.posture = "quantum_vulnerable" /\ properties.parameterSet > 0) =>
                 2 * properties.classical <= properties.parameterSet
<1> DEFINE properties == component(a).properties
<1>1. component(a).posture = a.posture
  BY DEF component
<1>2. CASE a.kind = "algorithm"
  <2>1. /\ properties.quantum = quantumSecurityLevel(a)
        /\ properties.classical = classicalSecurityLevel(a)
        /\ properties.parameterSet = a.keySize
    BY <1>2 DEF component, algorithmProperties
  <2> HIDE DEF properties
  <2>2. properties.quantum # 0 =>
          [category |-> properties.quantum, posture |-> a.posture] \in Categorized
    BY <1>2, <2>1, CategoryIsGiven
  <2>3. (a.posture = "quantum_vulnerable" /\ properties.parameterSet > 0) =>
          2 * properties.classical <= properties.parameterSet
    BY <1>2, <2>1, StrengthIsHalf
  <2> QED
    BY <1>1, <2>2, <2>3 DEF properties
<1>3. CASE a.kind # "algorithm"
  <2>1. properties.quantum = 0 /\ properties.parameterSet = 0
    BY <1>3 DEF component, NoProperties
  <2> QED
    BY <1>1, <2>1
<1> QED
  BY <1>2, <1>3

-----------------------------------------------------------------------------
\* What a configuration gives.

\* Each value of T is told of by one finding.
LEMMA MatchedOnce ==
  ASSUME NEW A, NEW list \in Seq(A), NEW S, NEW at, Matches(S, list, at), NEW T \in SUBSET S
  PROVE  LET here == {k \in DOMAIN list : Configured(list[k]) /\ at[k] \in T}
         IN Cardinality(here) = Cardinality(T)
<1> DEFINE here == {k \in DOMAIN list : Configured(list[k]) /\ at[k] \in T}
           f == [k \in here |-> at[k]]
<1>1. IsFiniteSet(here)
  <2>1. IsFiniteSet(1..Len(list)) /\ here \in SUBSET (1..Len(list))
    BY FS_Interval
  <2> HIDE DEF here
  <2> QED
    BY <2>1, FS_Subset
<1>2. /\ \A k, l \in here : at[k] = at[l] => k = l
      /\ \A v \in T : \E k \in here : at[k] = v
      /\ \A k \in here : at[k] \in T
  BY DEF Matches
<1> HIDE DEF here
<1>3. f \in Bijection(here, T)
  BY <1>2 DEF Bijection, Injection, Surjection, IsInjective
<1>4. ExistsBijection(here, T)
  BY <1>3 DEF ExistsBijection
<1> QED
  BY <1>1, <1>4, FS_Bijection DEF here

\* A finding is judged unknown exactly where it tells of a gap.
LEMMA GapIsUnknown ==
  ASSUME GapsAreJudged, NEW v, v.field \in DOMAIN configuredFields,
         NEW a, "posture" \in DOMAIN a, Tells(a, v)
  PROVE  Apply(a).posture = "unknown" <=> ~IsConstant(v) \/ IsOlder(v)
<1>1. Apply(a).posture = judge(AssetOf(a))
  BY ApplyKeeps
<1>2. ASSUME IsListed(v) PROVE Apply(a).posture # "unknown"
  <2>1. PICK x \in reading(v.field, v.value.node.name, AtHost(Address)) : AssetOf(a) = AssetOf(x)
    BY <1>2 DEF Tells
  <2>2. v.value.node.name \in ListedConstants(v.field)
    BY <1>2 DEF IsListed, NamesOne
  <2> QED
    BY <1>1, <1>2, <2>1, <2>2 DEF GapsAreJudged
<1>3. ASSUME ~IsListed(v) PROVE Apply(a).posture = "unknown"
  BY <1>1, <1>3 DEF Tells, GapsAreJudged
<1>4. ~IsListed(v) <=> ~IsConstant(v) \/ IsOlder(v)
  <2>1. \A constant : constant \in ListedConstants(v.field) <=>
          constant \in ConstantsOf(v.field) /\ constant \notin OlderConstants
    BY DEF GapsAreJudged
  <2> QED
    BY <2>1, Zenon DEF IsListed, IsConstant, IsOlder, NamesOne
<1> QED
  BY <1>2, <1>3, <1>4

-----------------------------------------------------------------------------
\* The theorems.

\* However the packages are called in a file, however deep its calls stand and
\* however many stand on a line, the walk of File reports each call of a watched
\* function once, and reports no call that is not written.
THEOREM UsesAreReportedOnce == Spec => []EveryUseOnce
<1>1. Inv => EveryUseOnce
  <2> SUFFICES ASSUME WalkInv, FileRead
               PROVE  /\ \A w \in Calls :
                           Cardinality({k \in DOMAIN found : Reports(found[k], w.node)})
                             = Cardinality({other \in Calls : SameCall(other.node, w.node)})
                      /\ \A k \in DOMAIN found :
                           ~Configured(found[k]) => \E w \in Calls : Reports(found[k], w.node)
    BY DEF Inv, EveryUseOnce
  <2>1. Tallied(Written(file), found) /\ \A k \in DOMAIN found : Earned(found[k])
    BY DEF WalkInv, FileRead, Accounted
  <2>2. Calls \cap Written(file) = Calls
    BY DEF Calls
  <2> QED
    BY <2>1, <2>2 DEF Tallied, Earned
<1> QED
  BY <1>1, InvAlways, PTL

\* For every argument a call may be written with, the key size that callAsset
\* reports is implied by the function's name or stands in the call.
THEOREM SizesAreNeverGuessed == Spec => []SizesAreStated
<1>1. Inv => SizesAreStated
  <2> SUFFICES ASSUME WalkInv, FileRead, NEW k \in DOMAIN found,
                      ~Configured(found[k]), found[k].keySize # 0
               PROVE  \E w \in Calls :
                        /\ Reports(found[k], w.node)
                        /\ \/ \E u \in UsesOf(w.node) : u.keySize = found[k].keySize
                           \/ Says(w.node, found[k].keySize)
    BY DEF Inv, SizesAreStated
  <2>1. Earned(found[k])
    BY DEF WalkInv
  <2> QED
    BY <2>1 DEF Earned
<1> QED
  BY <1>1, InvAlways, PTL

\* However a configuration is written, inside of which other it stands and
\* however many values share a line, the walk of File reports each value once,
\* the ones it cannot read as what is judged unknown and the others not: where
\* the reader lists the constants of crypto/tls but the older ones, and the
\* tables judge a gap unknown and a constant not, which TLC evaluates.
THEOREM GapsAreReported == Spec => [](GapsAreJudged => GapsAreUnknown)
<1>1. Inv => (GapsAreJudged => GapsAreUnknown)
  <2> SUFFICES ASSUME WalkInv, FileRead, GapsAreJudged, NEW v \in ConfiguredValues
               PROVE  LET Here(w) == w.field = v.field /\ w.value.node.line = v.value.node.line
                          here == {k \in DOMAIN found : /\ Configured(found[k])
                                                        /\ found[k].evidence[2] = v.field
                                                        /\ found[k].location.line = v.value.node.line}
                      IN /\ Cardinality({k \in here : Apply(found[k]).posture = "unknown"})
                              = Cardinality({w \in ConfiguredValues :
                                               Here(w) /\ (~IsConstant(w) \/ IsOlder(w))})
                         /\ Cardinality(here) = Cardinality({w \in ConfiguredValues : Here(w)})
    BY DEF Inv, GapsAreUnknown
  <2> DEFINE Here(w) == w.field = v.field /\ w.value.node.line = v.value.node.line
             here == {k \in DOMAIN found : /\ Configured(found[k])
                                           /\ found[k].evidence[2] = v.field
                                           /\ found[k].location.line = v.value.node.line}
             values == {w \in ConfiguredValues : Here(w)}
             gaps == {w \in ConfiguredValues : Here(w) /\ (~IsConstant(w) \/ IsOlder(w))}
             At(at, T) == {k \in DOMAIN found : Configured(found[k]) /\ at[k] \in T}
  <2>1. Accounted(Written(file), found) /\ Listed(found)
    BY DEF WalkInv, FileRead
  <2>2. Said(Written(file)) = ConfiguredValues
    BY DEF Said, ConfiguredValues, Configs
  <2>3. PICK at : Matches(ConfiguredValues, found, at)
    BY <2>1, <2>2 DEF Accounted, Answered
  <2>4. PICK A : found \in Seq(A) /\ \A a \in A : "posture" \in DOMAIN a
    BY <2>1 DEF Listed
  <2>5. \A k \in DOMAIN found :
          Configured(found[k]) =>
            /\ at[k] \in ConfiguredValues /\ Tells(found[k], at[k])
            /\ "posture" \in DOMAIN found[k]
    BY <2>3, <2>4 DEF Matches
  <2>6. \A w \in ConfiguredValues : w.field \in DOMAIN configuredFields
    BY DEF ConfiguredValues, GivenBy, ValuesOf
  <2>7. here = At(at, values)
    BY <2>5 DEF Tells
  <2>8. {k \in here : Apply(found[k]).posture = "unknown"} = At(at, gaps)
    <3>1. \A k \in DOMAIN found :
            Configured(found[k]) =>
              (Apply(found[k]).posture = "unknown" <=> ~IsConstant(at[k]) \/ IsOlder(at[k]))
      BY <2>5, <2>6, GapIsUnknown
    <3> QED
      BY <2>5, <3>1 DEF Tells
  <2>9. values \in SUBSET ConfiguredValues /\ gaps \in SUBSET ConfiguredValues
    OBVIOUS
  <2> HIDE DEF values, gaps
  <2>10. /\ Cardinality(At(at, values)) = Cardinality(values)
         /\ Cardinality(At(at, gaps)) = Cardinality(gaps)
    BY <2>3, <2>4, <2>9, MatchedOnce
  <2> QED
    BY <2>7, <2>8, <2>10 DEF values, gaps
<1> QED
  BY <1>1, InvAlways, PTL

\* For every inventory, the table that report prints leaves nothing out and puts
\* what some rung of -fail-on trips on before whatever none does.
THEOREM DecisionsStandFirst == Spec => []DecisionsFirst
<1>1. Inv => DecisionsFirst
  <2> SUFFICES ASSUME RunInv, pc = "done", document = << >>
               PROVE  /\ Len(listing) = Len(assets)
                      /\ \A k, l \in DOMAIN listing :
                           (listing[k].posture \in Rungs /\ listing[l].posture \notin Rungs) => k < l
    BY DEF Inv, DecisionsFirst
  <2>1. /\ assets = ApplyAll(gathered) /\ Listed(gathered)
        /\ listing = report(assets) \/ (listing = << >> /\ Build(assets) = << >>)
    BY DEF RunInv
  <2>2. PICK A : gathered \in Seq(A) /\ \A a \in A : "posture" \in DOMAIN a
    BY <2>1 DEF Listed
  <2> DEFINE B == {Apply(a) : a \in A}
             list == assets
  <2>3. list \in Seq(B)
    BY <2>1, <2>2 DEF ApplyAll
  <2>4. \A b \in B : b.posture \in Postures
    BY <2>2, Judges
  <2> HIDE DEF B, list
  <2>5. CASE listing = report(list)
    <3>1. /\ listing \in Seq(B) /\ Len(listing) = Len(list)
          /\ \A k, l \in 1..Len(listing) : k < l =>
               IndexOf(listing[k].posture) <= IndexOf(listing[l].posture)
      BY <2>3, <2>5, ReportSorts
    <3>2. DOMAIN listing = 1..Len(listing) /\ \A k \in DOMAIN listing : listing[k].posture \in Postures
      BY <2>4, <3>1
    <3>3. ASSUME NEW k \in DOMAIN listing, NEW l \in DOMAIN listing,
                 listing[k].posture \in Rungs, listing[l].posture \notin Rungs
          PROVE  k < l
      <4>1. /\ IndexOf(listing[k].posture) \in 0..7 /\ IndexOf(listing[k].posture) < 5
            /\ IndexOf(listing[l].posture) \in 0..7 /\ ~(IndexOf(listing[l].posture) < 5)
        BY <3>2, <3>3, Indices, RungsComeFirst
      <4>2. k # l
        BY <3>3
      <4>3. ~(l < k)
        BY <3>1, <3>2, <3>3, <4>1
      <4> QED
        BY <3>1, <3>2, <3>3, <4>2, <4>3
    <3> QED
      BY <3>1, <3>3 DEF list
  <2>6. CASE listing = << >> /\ Build(list) = << >>
    <3>1. DOMAIN list = {}
      BY <2>6, EmptyList DEF Build
    <3>2. Len(list) = 0
      BY <2>3, <3>1
    <3> QED
      BY <2>6, <3>2, EmptyList DEF list
  <2> QED
    BY <2>1, <2>5, <2>6 DEF list
<1> QED
  BY <1>1, InvAlways, PTL
\* For every endpoint and whatever the tree holds, what the summary says of the
\* key exchange is what the inventory says of it, exactly once, where the tables
\* agree on each codepoint: TLC evaluates that part of the property, the theorem
\* is about every certificate, key size and list of findings around it.
THEOREM SummaryAgreesWithInventory == Spec => [](TablesAgree => KeyExchangeAgreesWithVerdict)
<1>1. Inv /\ ProbeInv => (TablesAgree => KeyExchangeAgreesWithVerdict)
  <2> SUFFICES ASSUME RunInv, ProbeInv, TablesAgree, pc = "done", NEW r \in result
               PROVE  OneExchange(r, assets)
    BY DEF Inv, KeyExchangeAgreesWithVerdict, OneExchange, Exchanges
  <2>1. assets = ApplyAll(gathered) /\ input \in Inputs
    BY DEF RunInv
  <2>2. PICK prior : \E state \in input.handshake :
               /\ Sourced(prior)
               /\ gathered = prior \o fromState(Address, state).assets
               /\ result = {fromState(Address, state)}
    BY DEF ProbeInv, Asked
  <2>3. PICK state \in input.handshake :
               /\ Sourced(prior)
               /\ gathered = prior \o fromState(Address, state).assets
               /\ result = {fromState(Address, state)}
    BY <2>2
  <2>4. /\ state.chain # << >> => Head(state.chain).key.type \in {"rsa", "ecdsa", "ed25519"}
        /\ state.group = 0 \/ state.group \in DOMAIN groups
    BY <2>1, InputsAssumption
  <2>5. r = fromState(Address, state) /\ assets = ApplyAll(prior \o r.assets)
    BY <2>1, <2>3
  <2> QED
    BY <2>3, <2>4, <2>5, ExchangesOfARun
<1> QED
  BY <1>1, InvAlways, ProbeInvAlways, PTL

\* For every source file and every endpoint, whatever walk of whichever module a
\* configuration is found in: where it has a version, a suite or a group with the
\* name of a negotiated one, the two stand for one asset and get one verdict,
\* although fieldAsset and fromState come to them on different ways.  It rests on
\* NamesAssumption, that the names of different kinds of things are different.
THEOREM ConfiguredMeetsNegotiated == Spec => []ConfiguredIsNegotiated
<1>1. Inv /\ ProbeInv /\ TraceInv => ConfiguredIsNegotiated
  <2> SUFFICES ASSUME RunInv, ProbeInv, TraceInv, pc = "done",
                      NEW k \in DOMAIN assets, NEW l \in DOMAIN assets,
                      Configured(assets[k]), Negotiated(assets[l]),
                      \/ assets[k].name = assets[l].name
                      \/ \E state \in input.handshake :
                           NamesNegotiated(assets[k], assets[l], state)
               PROVE  [assets[k] EXCEPT !.location = assets[l].location,
                                        !.evidence = assets[l].evidence,
                                        !.module = assets[l].module] = assets[l]
    BY Zenon DEF Inv, ConfiguredIsNegotiated
  <2> DEFINE a == gathered[k]
             b == gathered[l]
  <2>1. assets = ApplyAll(gathered) /\ input \in Inputs
    BY DEF RunInv
  <2>2. k \in DOMAIN gathered /\ l \in DOMAIN gathered /\ assets[k] = Apply(a) /\ assets[l] = Apply(b)
    BY <2>1 DEF ApplyAll
  <2>3. ASSUME NEW x, InSource(x) PROVE ~Negotiated(Apply(x))
    <3>1. "location" \in DOMAIN x /\ ~Negotiated(x)
      <4>1. "location" \in DOMAIN x
        BY <2>3 DEF InSource, Graded, Fields
      <4> QED
        BY <2>3, <4>1, NotHeardInSource
    <3>2. Apply(x).location = x.location
      BY <3>1, ApplyKeeps
    <3> QED
      BY <3>1, <3>2 DEF Negotiated
  <2>4. PICK state \in input.handshake : Agreed(b, state)
    BY <2>2, <2>3, GatheredHasASource
  <2>5. InSource(a) /\ Configured(a)
    <3>1. InSource(a) \/ \E other \in input.handshake : Agreed(a, other)
      BY <2>2, GatheredHasASource
    <3> HIDE DEF a
    <3>2. "evidence" \in DOMAIN a
      BY <3>1 DEF InSource, Agreed, Graded, Fields
    <3>3. Apply(a).evidence = a.evidence
      BY <3>2, ApplyKeeps
    <3> QED
      BY <2>2, <3>1, <3>3 DEF Configured, Agreed
  <2>6. Setting(a)
    BY <2>5 DEF InSource
  <2> HIDE DEF a, b
  <2>7. \/ a.name = b.name
        \/ \E other \in input.handshake : NamesNegotiated(a, b, other)
    <3>1. /\ "name" \in DOMAIN a /\ "name" \in DOMAIN b
          /\ "evidence" \in DOMAIN a /\ "evidence" \in DOMAIN b
      BY <2>4, <2>6, Zenon DEF Agreed, Setting, Graded, Fields
    <3>2. /\ Apply(a).name = a.name /\ Apply(b).name = b.name
          /\ Apply(a).evidence = a.evidence /\ Apply(b).evidence = b.evidence
      BY <3>1, ApplyKeeps
    <3>3. assets[k].name = a.name /\ assets[l].name = b.name
      BY <2>2, <3>2
    <3>4. assets[k].evidence = a.evidence /\ assets[l].evidence = b.evidence
      BY <2>2, <3>2
    <3>5. \A other : NamesNegotiated(assets[k], assets[l], other) <=> NamesNegotiated(a, b, other)
      BY <3>4, Zenon DEF NamesNegotiated
    <3> QED
      BY <3>3, <3>5
  <2>8. Same(a, b)
    <3>1. CASE a.name = b.name
      BY <2>1, <2>4, <2>6, <3>1, SettingIsAgreed
    <3>2. CASE \E other \in input.handshake : NamesNegotiated(a, b, other)
      <4>1. PICK other \in input.handshake : NamesNegotiated(a, b, other)
        BY <3>2
      <4>2. other = state
        BY <2>1, <2>4, InputsAssumption
      <4>3. OfASetting(a)
        BY <2>2, <2>5, ConfiguredIsOfASetting DEF a
      <4> QED
        BY <2>4, <4>1, <4>2, <4>3, ConstantIsAgreed
    <3> QED
      BY <2>7, <3>1, <3>2
  <2> DEFINE x == Apply(a)
             y == Apply(b)
  <2>9. [x EXCEPT !.location = y.location, !.evidence = y.evidence, !.module = y.module] = y
    BY <2>8, SameIsJudgedAlike, Zenon
  <2>10. assets[k] = x /\ assets[l] = y
    BY <2>2
  <2> HIDE DEF x, y
  <2> QED
    BY <2>9, <2>10, Zenon
<1> QED
  BY <1>1, InvAlways, ProbeInvAlways, TraceInvAlways, PTL

\* For every source file, module and endpoint, each algorithm of the document has
\* the category, the strength and the posture that the tables give it together:
\* where the tables agree on each algorithm and size, which TLC evaluates, no
\* document says of an algorithm that it survives and that it does not.  A size
\* that stands in a call or a certificate is one of an algorithm that has sizes.
THEOREM LevelsAreHonest == Spec => [](LevelsAgree => LevelsAgreeWithVerdict)
<1>1. Inv /\ ProbeInv => (LevelsAgree => LevelsAgreeWithVerdict)
  <2> SUFFICES ASSUME RunInv, ProbeInv, LevelsAgree, document # << >>,
                      NEW k \in DOMAIN document, NEW l \in DOMAIN document
               PROVE  LET a == document[k]
                          b == document[l]
                      IN /\ a.properties.quantum > 0 =>
                              a.posture \in {"quantum_reduced", "quantum_safe"}
                         /\ (a.properties.quantum > b.properties.quantum
                               /\ b.properties.quantum > 0) =>
                              (b.posture = "quantum_safe" => a.posture = "quantum_safe")
                         /\ (a.posture = "quantum_vulnerable" /\ a.properties.parameterSet > 0) =>
                              2 * a.properties.classical <= a.properties.parameterSet
    BY Zenon DEF Inv, LevelsAgreeWithVerdict
  <2>1. pc = "done" /\ document = Build(assets) /\ assets = ApplyAll(gathered)
    BY DEF RunInv
  <2>2. ASSUME NEW j \in DOMAIN document
        PROVE  /\ document[j] = component(assets[j])
               /\ Graded(assets[j]) /\ assets[j].posture = judge(AssetOf(assets[j]))
    <3>1. j \in DOMAIN gathered /\ document[j] = component(assets[j]) /\ assets[j] = Apply(gathered[j])
      BY <2>1 DEF Build, ApplyAll
    <3>2. Graded(gathered[j])
      BY <2>1, <3>1, GatheredHasASource DEF InSource, Agreed
    <3> QED
      BY <3>1, <3>2, GradedIsJudged
  <2> DEFINE a == document[k]
             b == document[l]
             Given(c) == [category |-> c.properties.quantum, posture |-> c.posture]
  <2>3. ASSUME NEW j \in DOMAIN document
        PROVE  LET c == document[j]
               IN /\ c.properties.quantum # 0 => Given(c) \in Categorized
                  /\ (c.posture = "quantum_vulnerable" /\ c.properties.parameterSet > 0) =>
                       2 * c.properties.classical <= c.properties.parameterSet
    <3> DEFINE x == assets[j]
    <3>1. document[j] = component(x) /\ Graded(x) /\ x.posture = judge(AssetOf(x))
      BY <2>2
    <3> HIDE DEF x
    <3>2. /\ component(x).posture = x.posture
          /\ component(x).properties.quantum # 0 =>
               [category |-> component(x).properties.quantum, posture |-> x.posture] \in Categorized
          /\ (x.posture = "quantum_vulnerable" /\ component(x).properties.parameterSet > 0) =>
               2 * component(x).properties.classical <= component(x).properties.parameterSet
      BY <3>1, LevelsOfAComponent
    <3> QED
      BY <3>1, <3>2
  <2>4. \A x, y \in Categorized : Survives(x) /\ NoWorse(x, y)
    BY DEF LevelsAgree
  <2>5. \A c : Survives(Given(c)) =>
          c.properties.quantum \in 1..5 /\ c.posture \in {"quantum_reduced", "quantum_safe"}
    BY DEF Survives
  <2>6. \A c, d : (NoWorse(Given(c), Given(d)) /\ c.properties.quantum > d.properties.quantum) =>
          (d.posture = "quantum_safe" => c.posture = "quantum_safe")
    BY DEF NoWorse
  <2> HIDE DEF Given
  <2>7. \A j \in DOMAIN document :
           LET c == document[j]
           IN c.properties.quantum = 0 \/
                /\ c.properties.quantum \in 1..5 /\ Given(c) \in Categorized
                /\ c.posture \in {"quantum_reduced", "quantum_safe"}
    BY <2>3, <2>4, <2>5
  <2>8. a.properties.quantum > 0 => a.posture \in {"quantum_reduced", "quantum_safe"}
    BY <2>7
  <2>9. ASSUME a.properties.quantum > b.properties.quantum, b.properties.quantum > 0,
               b.posture = "quantum_safe"
        PROVE  a.posture = "quantum_safe"
    <3>1. Given(a) \in Categorized /\ Given(b) \in Categorized
      BY <2>9, <2>7
    <3>2. NoWorse(Given(a), Given(b))
      BY <2>4, <3>1
    <3> HIDE DEF a, b
    <3> QED
      BY <2>6, <2>9, <3>2
  <2>10. (a.posture = "quantum_vulnerable" /\ a.properties.parameterSet > 0) =>
          2 * a.properties.classical <= a.properties.parameterSet
    BY <2>3
  <2> QED
    BY <2>8, <2>9, <2>10
<1> QED
  BY <1>1, InvAlways, ProbeInvAlways, PTL

\* For every tree, module and endpoint, two components of a document that share
\* their bom-ref are the same component: what goes into the hash (the name, the
\* kind, the place and the evidence) tells any two findings apart, though it
\* leaves out the size, the curve, the mode, the module and the verdict.
THEOREM ReferencesStandForOneThing == Spec => []ReferencesTellApart
<1>1. Inv /\ TraceInv => ReferencesTellApart
  <2> SUFFICES ASSUME RunInv, TraceInv, NEW k \in DOMAIN document, NEW l \in DOMAIN document,
                      document[k].reference = document[l].reference
               PROVE  document[k] = document[l]
    BY Zenon DEF Inv, ReferencesTellApart
  <2>1. document = Build(assets) /\ assets = ApplyAll(gathered) /\ input \in Inputs
    BY EmptyList DEF RunInv
  <2> DEFINE a == gathered[k]
             b == gathered[l]
  <2>2. /\ document[k] = component(Apply(a)) /\ document[l] = component(Apply(b))
        /\ k \in DOMAIN gathered /\ l \in DOMAIN gathered
    BY <2>1 DEF Build, ApplyAll
  <2>3. PICK B : Voiced(B) /\ Originate(gathered, B)
    BY DEF TraceInv
  <2>4. /\ a \in B \/ \E f \in FilesOf(input) : Traced(a, f)
        /\ b \in B \/ \E f \in FilesOf(input) : Traced(b, f)
    BY <2>2, <2>3 DEF Originate
  <2> HIDE DEF a, b
  <2>5. DOMAIN a = Fields /\ DOMAIN b = Fields
    BY <2>3, <2>4 DEF Voiced, Traced, OfACall, OfUse, OfASetting, Same
  <2>6. /\ Apply(a).name = a.name /\ Apply(b).name = b.name
        /\ Apply(a).evidence = a.evidence /\ Apply(b).evidence = b.evidence
        /\ Apply(a).location = a.location /\ Apply(b).location = b.location
    BY <2>5, ApplyKeeps DEF Fields
  <2>7. component(Apply(a)).reference = component(Apply(b)).reference
    BY <2>2
  <2>8. \A x : component(x).reference = <<x.name, x.kind, Position(x.location), x.evidence>>
    BY DEF component, reference
  <2>9. a.name = b.name /\ a.evidence = b.evidence /\ Position(a.location) = Position(b.location)
    BY <2>6, <2>7, <2>8
  <2>10. Same(a, b) /\ a.location = b.location /\ a.module = b.module
    BY <2>1, <2>3, <2>4, <2>9, ReferenceIsTold
  <2>11. Apply(a) = Apply(b)
    <3> DEFINE x == Apply(a)
               y == Apply(b)
    <3>1. [x EXCEPT !.location = y.location, !.evidence = y.evidence, !.module = y.module] = y
      BY <2>10, SameIsJudgedAlike
    <3>2. /\ x.location = y.location /\ x.evidence = y.evidence /\ x.module = y.module
      <4>1. x.module = a.module /\ y.module = b.module
        BY <2>5, ApplyKeeps DEF Fields
      <4> QED
        BY <2>6, <2>9, <2>10, <4>1
    <3>3. PICK posture, citation : x = [a EXCEPT !.posture = posture, !.citation = citation]
      BY Zenon DEF Apply
    <3> HIDE DEF x, y
    <3>4. [x EXCEPT !.location = x.location, !.evidence = x.evidence, !.module = x.module] = x
      BY <3>3
    <3>5. x = y
      BY <3>1, <3>2, <3>4
    <3> QED
      BY <3>5 DEF x, y
  <2> QED
    BY <2>2, <2>11
<1> QED
  BY <1>1, InvAlways, TraceInvAlways, PTL
=============================================================================
