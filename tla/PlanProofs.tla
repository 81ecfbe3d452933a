----------------------------- MODULE PlanProofs -----------------------------
(***************************************************************************)
(* Theorems about Plan, for every inventory.  The inductive invariant is   *)
(* PlanInv; the one argument about data in it is that a stable sort        *)
(* rearranges: a function on 1..n that sorts is injective, so it reaches   *)
(* every place.                                                            *)
(***************************************************************************)
EXTENDS Plan, TLAPS, FiniteSetTheorems

(***************************************************************************)
(* A list read through an injection of its places holds what it held, and  *)
(* holds it as often.                                                      *)
(***************************************************************************)
LEMMA Rearranged ==
  ASSUME NEW n \in Nat, NEW list \in Seq(1..n),
         NEW p \in [DOMAIN list -> DOMAIN list],
         \A k, l \in DOMAIN list : k < l => p[k] # p[l],
         NEW t, t = [k \in DOMAIN list |-> list[p[k]]]
  PROVE  /\ t \in Seq(1..n)
         /\ DOMAIN t = DOMAIN list
         /\ In(t) = In(list)
         /\ Once(list) => Once(t)
<1> DEFINE D == DOMAIN list
<1>1. D = 1..Len(list) /\ Len(list) \in Nat
  OBVIOUS
<1>2. \A k, l \in D : p[k] = p[l] => k = l
  BY <1>1
<1>3. IsFiniteSet(D)
  BY <1>1, FS_Interval
<1>4. p \in Injection(D, D)
  BY <1>2 DEF Injection, IsInjective
<1>5. p \in Surjection(D, D)
  BY <1>3, <1>4, FS_Injection
<1>6. \A k \in D : \E l \in D : p[l] = k
  BY <1>5 DEF Surjection
<1>7. t \in Seq(1..n)
  BY <1>1
<1>8. DOMAIN t = D
  OBVIOUS
<1>9. In(t) = In(list)
  BY <1>6, <1>8 DEF In
<1>10. Once(list) => Once(t)
  BY <1>2, <1>8 DEF Once
<1> QED
  BY <1>7, <1>8, <1>9, <1>10

(***************************************************************************)
(* Appending a position that is not in a list yet.                         *)
(***************************************************************************)
LEMMA Appended ==
  ASSUME NEW n \in Nat, NEW list \in Seq(1..n), NEW x \in 1..n
  PROVE  /\ Append(list, x) \in Seq(1..n)
         /\ In(Append(list, x)) = In(list) \cup {x}
         /\ Once(list) /\ x \notin In(list) => Once(Append(list, x))
<1> DEFINE longer == Append(list, x)
<1>1. /\ longer \in Seq(1..n)
      /\ DOMAIN longer = DOMAIN list \cup {Len(list) + 1}
      /\ \A k \in DOMAIN list : longer[k] = list[k]
      /\ longer[Len(list) + 1] = x
      /\ Len(list) + 1 \notin DOMAIN list
  OBVIOUS
<1> HIDE DEF longer
<1>2. In(longer) = In(list) \cup {x}
  BY <1>1 DEF In
<1>3. Once(list) /\ x \notin In(list) => Once(longer)
  BY <1>1 DEF In, Once
<1> QED
  BY <1>1, <1>2, <1>3 DEF longer

(***************************************************************************)
(* What the places of two lists hold as numbers: a score is a natural.     *)
(***************************************************************************)
LEMMA ScoreIsNatural ==
  ASSUME NEW a \in Asset
  PROVE  /\ postureWeight(a) \in 1..4
         /\ Exposure(a) \in Exposures /\ exposureWeight(Exposure(a)) \in 1..3
         /\ Lifetime(a) \in Lifetimes /\ lifetimeWeight(Lifetime(a)) \in 1..3
         /\ Score(a) \in Nat
<1>1. postureWeight(a) \in 1..4
  BY DEF postureWeight
<1>2. Exposure(a) \in Exposures
  BY DEF Exposure, Exposures, Asset
<1>3. \A e \in Exposures : exposureWeight(e) \in 1..3
  <2>1. /\ exposureWeight("endpoint") = 3 /\ exposureWeight("first party") = 2
        /\ exposureWeight("dependency") = 1
    BY DEF exposureWeight
  <2>2. \A e \in Exposures : exposureWeight(e) \in {1, 2, 3}
    BY <2>1 DEF Exposures
  <2> QED
    BY <2>2
<1>4. Lifetime(a) \in Lifetimes
  BY DEF Lifetime, Lifetimes
<1>5. \A l \in Lifetimes : lifetimeWeight(l) \in 1..3
  <2>1. /\ lifetimeWeight("key exchange") = 3 /\ lifetimeWeight("stored data") = 2
        /\ lifetimeWeight("signature") = 1
    BY DEF lifetimeWeight
  <2>2. \A l \in Lifetimes : lifetimeWeight(l) \in {1, 2, 3}
    BY <2>1 DEF Lifetimes
  <2> QED
    BY <2>2
<1>6. \A w \in 1..4, e, l \in 1..3 : w * (e + l) \in Nat
  OBVIOUS
<1> QED
  BY <1>1, <1>2, <1>3, <1>4, <1>5, <1>6 DEF Score

-----------------------------------------------------------------------------
LEMMA PlanInvInit == Init => PlanInv
<1> SUFFICES ASSUME Init PROVE PlanInv
  OBVIOUS
<1>1. assets \in Inventories /\ assets \in Seq(Asset)
  BY InventoriesAssumption DEF Init
<1>2. << >> \in Seq(1..Len(assets))
  OBVIOUS
<1>3. TypeOK
  BY <1>1, <1>2 DEF Init, TypeOK
<1>4. Split
  BY DEF Init, Split, In, Once
<1>5. InOrder
  BY DEF Init, InOrder
<1> QED
  BY <1>3, <1>4, <1>5 DEF PlanInv

LEMMA PlanInvStep == PlanInv /\ [Next]_vars => PlanInv'
<1> SUFFICES ASSUME PlanInv, [Next]_vars PROVE PlanInv'
  OBVIOUS
<1> USE DEF PlanInv
<1>0. /\ assets \in Inventories /\ assets \in Seq(Asset) /\ Len(assets) \in Nat
      /\ i \in 1..(Len(assets) + 1)
      /\ items \in Seq(1..Len(assets))
      /\ settled \in Seq(1..Len(assets))
  BY InventoriesAssumption DEF TypeOK
<1>1. CASE Settle
  <2>1. /\ i \in 1..Len(assets) /\ i' = i + 1 /\ settled' = Append(settled, i)
        /\ UNCHANGED <<assets, pc, items>> /\ pc = "split"
        /\ ~Ranked(assets[i])
    BY <1>0, <1>1 DEF Settle
  <2>2. i \notin In(settled) /\ i \notin In(items)
    BY <1>0 DEF Split
  <2>3. /\ settled' \in Seq(1..Len(assets))
        /\ In(settled)' = In(settled) \cup {i}
        /\ Once(settled)'
    <3> DEFINE n == Len(assets)
    <3>1. n \in Nat /\ settled \in Seq(1..n) /\ i \in 1..n
      BY <1>0, <2>1
    <3> HIDE DEF n
    <3>2. /\ Append(settled, i) \in Seq(1..n)
          /\ In(Append(settled, i)) = In(settled) \cup {i}
          /\ Once(settled) /\ i \notin In(settled) => Once(Append(settled, i))
      BY <3>1, Appended
    <3>3. Once(settled)
      BY DEF Split
    <3> QED
      BY <3>2, <3>3, <2>1, <2>2 DEF n
  <2>4. TypeOK'
    BY <1>0, <2>1, <2>3 DEF TypeOK
  <2>5. 1..(i' - 1) = (1..(i - 1)) \cup {i}
    BY <1>0, <2>1
  <2>6. Split'
    <3>1. /\ In(items) = {k \in 1..(i - 1) : Ranked(assets[k])}
          /\ In(settled) = {k \in 1..(i - 1) : ~Ranked(assets[k])}
          /\ Once(items) /\ Once(settled)
      BY DEF Split
    <3>2. In(settled)' = {k \in 1..(i' - 1) : ~Ranked(assets[k])}
      BY <3>1, <2>1, <2>3, <2>5
    <3>3. In(items)' = {k \in 1..(i' - 1) : Ranked(assets[k])}
      <4>1. In(items)' = In(items)
        BY <2>1 DEF In
      <4> QED
        BY <4>1, <3>1, <2>1, <2>5
    <3>4. Once(items)'
      BY <3>1, <2>1 DEF Once
    <3> QED
      BY <3>2, <3>3, <3>4, <2>1, <2>3 DEF Split
  <2>7. InOrder'
    BY <2>1 DEF InOrder
  <2> QED
    BY <2>4, <2>6, <2>7
<1>2. CASE Rank
  <2>1. /\ i \in 1..Len(assets) /\ i' = i + 1 /\ items' = Append(items, i)
        /\ UNCHANGED <<assets, pc, settled>> /\ pc = "split"
        /\ Ranked(assets[i])
    BY <1>0, <1>2 DEF Rank
  <2>2. i \notin In(settled) /\ i \notin In(items)
    BY <1>0 DEF Split
  <2>3. /\ items' \in Seq(1..Len(assets))
        /\ In(items)' = In(items) \cup {i}
        /\ Once(items)'
    <3> DEFINE n == Len(assets)
    <3>1. n \in Nat /\ items \in Seq(1..n) /\ i \in 1..n
      BY <1>0, <2>1
    <3> HIDE DEF n
    <3>2. /\ Append(items, i) \in Seq(1..n)
          /\ In(Append(items, i)) = In(items) \cup {i}
          /\ Once(items) /\ i \notin In(items) => Once(Append(items, i))
      BY <3>1, Appended
    <3>3. Once(items)
      BY DEF Split
    <3> QED
      BY <3>2, <3>3, <2>1, <2>2 DEF n
  <2>4. TypeOK'
    BY <1>0, <2>1, <2>3 DEF TypeOK
  <2>5. 1..(i' - 1) = (1..(i - 1)) \cup {i}
    BY <1>0, <2>1
  <2>6. Split'
    <3>1. /\ In(items) = {k \in 1..(i - 1) : Ranked(assets[k])}
          /\ In(settled) = {k \in 1..(i - 1) : ~Ranked(assets[k])}
          /\ Once(items) /\ Once(settled)
      BY DEF Split
    <3>2. In(items)' = {k \in 1..(i' - 1) : Ranked(assets[k])}
      BY <3>1, <2>1, <2>3, <2>5
    <3>3. In(settled)' = {k \in 1..(i' - 1) : ~Ranked(assets[k])}
      <4>1. In(settled)' = In(settled)
        BY <2>1 DEF In
      <4> QED
        BY <4>1, <3>1, <2>1, <2>5
    <3>4. Once(settled)'
      BY <3>1, <2>1 DEF Once
    <3> QED
      BY <3>2, <3>3, <3>4, <2>1, <2>3 DEF Split
  <2>7. InOrder'
    BY <2>1 DEF InOrder
  <2> QED
    BY <2>4, <2>6, <2>7
<1>3. CASE AllSplit
  <2>1. TypeOK'
    BY <1>3, <1>0 DEF AllSplit, TypeOK
  <2>2. Split'
    <3>1. UNCHANGED <<assets, i, items, settled>> /\ i = Len(assets) + 1
      BY <1>3, <1>0 DEF AllSplit
    <3>2. In(items)' = In(items) /\ In(settled)' = In(settled)
      BY <3>1 DEF In
    <3>3. (Once(items) /\ Once(settled)) => (Once(items) /\ Once(settled))'
      BY <3>1 DEF Once
    <3>4. Split
      OBVIOUS
    <3> QED
      BY <3>1, <3>2, <3>3, <3>4 DEF Split
  <2>3. InOrder'
    BY <1>3 DEF AllSplit, InOrder
  <2> QED
    BY <2>1, <2>2, <2>3
<1>4. CASE SortItems
  <2>1. PICK p \in [DOMAIN items -> DOMAIN items] :
          /\ Sorts(p, items, Ahead)
          /\ items' = [k \in DOMAIN items |-> items[p[k]]]
    BY <1>4 DEF SortItems
  <2>2. pc = "items" /\ pc' = "settled" /\ UNCHANGED <<assets, i, settled>>
    BY <1>4 DEF SortItems
  <2>3. \A k, l \in DOMAIN items : k < l =>
          /\ ~Ahead(assets[items[p[l]]], assets[items[p[k]]])
          /\ Ahead(assets[items[p[k]]], assets[items[p[l]]]) \/ p[k] < p[l]
    BY <2>1 DEF Sorts
  <2>4. \A k, l \in DOMAIN items : k < l => p[k] # p[l]
    BY <1>0, <2>1, <2>3
  <2>5. /\ items' \in Seq(1..Len(assets))
        /\ DOMAIN items' = DOMAIN items
        /\ In(items') = In(items)
        /\ Once(items) => Once(items')
    <3> DEFINE n == Len(assets)
    <3>1. n \in Nat /\ items \in Seq(1..n)
      BY <1>0
    <3> HIDE DEF n
    <3>2. \A t : t = [k \in DOMAIN items |-> items[p[k]]] =>
            /\ t \in Seq(1..n)
            /\ DOMAIN t = DOMAIN items
            /\ In(t) = In(items)
            /\ Once(items) => Once(t)
      BY <3>1, <2>4, Rearranged
    <3> QED
      BY <3>2, <2>1 DEF n
  <2>6. TypeOK'
    BY <1>0, <2>2, <2>5 DEF TypeOK
  <2>7. Split'
    <3>1. In(items)' = In(items) /\ In(settled)' = In(settled)
      BY <2>2, <2>5 DEF In
    <3>2. (Once(items) /\ Once(settled)) => (Once(items) /\ Once(settled))'
      BY <2>2, <2>5 DEF Once
    <3>3. Split
      OBVIOUS
    <3> QED
      BY <3>1, <3>2, <3>3, <2>2, <1>0 DEF Split
  <2>8. \A k, l \in DOMAIN items' :
          k < l => ~Ahead(assets[items'[l]], assets[items'[k]])
    BY <2>1, <2>3, <2>5
  <2>9. InOrder'
    BY <2>2, <2>8 DEF InOrder, Ahead, Score, compareAssets
  <2> QED
    BY <2>6, <2>7, <2>9
<1>5. CASE SortSettled
  <2>1. PICK p \in [DOMAIN settled -> DOMAIN settled] :
          /\ Sorts(p, settled, compareAssets)
          /\ settled' = [k \in DOMAIN settled |-> settled[p[k]]]
    BY <1>5 DEF SortSettled
  <2>2. pc = "settled" /\ pc' = "done" /\ UNCHANGED <<assets, i, items>>
    BY <1>5 DEF SortSettled
  <2>3. \A k, l \in DOMAIN settled : k < l =>
          /\ ~compareAssets(assets[settled[p[l]]], assets[settled[p[k]]])
          /\ \/ compareAssets(assets[settled[p[k]]], assets[settled[p[l]]])
             \/ p[k] < p[l]
    BY <2>1 DEF Sorts
  <2>4. \A k, l \in DOMAIN settled : k < l => p[k] # p[l]
    BY <1>0, <2>1, <2>3
  <2>5. /\ settled' \in Seq(1..Len(assets))
        /\ DOMAIN settled' = DOMAIN settled
        /\ In(settled') = In(settled)
        /\ Once(settled) => Once(settled')
    <3> DEFINE n == Len(assets)
    <3>1. n \in Nat /\ settled \in Seq(1..n)
      BY <1>0
    <3> HIDE DEF n
    <3>2. \A t : t = [k \in DOMAIN settled |-> settled[p[k]]] =>
            /\ t \in Seq(1..n)
            /\ DOMAIN t = DOMAIN settled
            /\ In(t) = In(settled)
            /\ Once(settled) => Once(t)
      BY <3>1, <2>4, Rearranged
    <3> QED
      BY <3>2, <2>1 DEF n
  <2>6. TypeOK'
    BY <1>0, <2>2, <2>5 DEF TypeOK
  <2>7. Split'
    <3>1. In(items)' = In(items) /\ In(settled)' = In(settled)
      BY <2>2, <2>5 DEF In
    <3>2. (Once(items) /\ Once(settled)) => (Once(items) /\ Once(settled))'
      BY <2>2, <2>5 DEF Once
    <3>3. Split
      OBVIOUS
    <3> QED
      BY <3>1, <3>2, <3>3, <2>2, <1>0 DEF Split
  <2>8. \A k, l \in DOMAIN settled' :
          k < l => ~compareAssets(assets[settled'[l]], assets[settled'[k]])
    BY <2>1, <2>3, <2>5
  <2>9. InOrder'
    BY <2>2, <2>8 DEF InOrder, Ahead, Score, compareAssets
  <2> QED
    BY <2>6, <2>7, <2>9
<1>6. CASE Ended \/ UNCHANGED vars
  <2>1. UNCHANGED <<assets, pc, i, items, settled>>
    BY <1>6 DEF Ended, vars
  <2>2. TypeOK'
    BY <2>1 DEF TypeOK
  <2>3. Split'
    BY <2>1 DEF Split, In, Once
  <2>4. InOrder'
    BY <2>1 DEF InOrder
  <2> QED
    BY <2>2, <2>3, <2>4
<1> QED
  BY <1>1, <1>2, <1>3, <1>4, <1>5, <1>6 DEF Next

(***************************************************************************)
(* For every inventory, the split accounts for each asset and the lists    *)
(* are in order: what the theorems below are read off.                     *)
(***************************************************************************)
THEOREM Inductive == Spec => []PlanInv
<1>1. Init => PlanInv
  BY PlanInvInit
<1>2. PlanInv /\ [Next]_vars => PlanInv'
  BY PlanInvStep
<1> QED
  BY <1>1, <1>2, PTL DEF Spec

(***************************************************************************)
(* Every asset stands at one place of one list.                            *)
(***************************************************************************)
THEOREM NothingIsLeftOut == Spec => []NothingLeftOut
<1>1. PlanInv => NothingLeftOut
  <2> SUFFICES ASSUME PlanInv, pc = "done"
               PROVE  /\ In(items) \cup In(settled) = 1..Len(assets)
                      /\ In(items) \cap In(settled) = {}
                      /\ Once(items) /\ Once(settled)
    BY DEF NothingLeftOut
  <2>1. i - 1 = Len(assets)
    BY InventoriesAssumption DEF PlanInv, Split, TypeOK
  <2>2. Split
    BY DEF PlanInv
  <2> QED
    BY <2>1, <2>2 DEF Split
<1> QED
  BY <1>1, Inductive, PTL

(***************************************************************************)
(* The ranking and the gate agree on what is work, for every inventory,    *)
(* with what never reached the classifier ranked as nobody's judgement.    *)
(***************************************************************************)
THEOREM GateAndRankingAgree == Spec => []RankedIsWhatCanTrip
<1>1. Rungs = {"broken", "quantum_vulnerable", "unknown", "quantum_reduced"}
  <2>1. DOMAIN gateLadder = {1, 2, 3, 4}
    BY DEF gateLadder
  <2> QED
    BY <2>1 DEF Rungs, gateLadder
<1>2. \A posture \in Postures : posture \notin Settling <=> posture \in Rungs
  BY <1>1 DEF Postures, Settling
<1>3. \A posture \in Rungs : AtOrAbove(posture, posture)
  <2> SUFFICES ASSUME NEW posture \in Rungs
               PROVE  AtOrAbove(posture, posture)
    OBVIOUS
  <2>1. posture # GateOff
    BY <1>1 DEF GateOff
  <2>2. RungOf(posture) \in DOMAIN gateLadder
    BY DEF Rungs, RungOf
  <2>3. DOMAIN gateLadder \subseteq Nat
    BY DEF gateLadder
  <2> QED
    BY <2>1, <2>2, <2>3 DEF AtOrAbove
<1>4. PlanInv => RankedIsWhatCanTrip
  <2> SUFFICES ASSUME PlanInv, pc = "done", NEW k \in 1..Len(assets)
               PROVE  k \in In(items) <=>
                        \/ assets[k].posture = NotClassified
                        \/ \E rung \in Rungs : k \in tripped(assets, rung)
    BY DEF RankedIsWhatCanTrip
  <2>1. assets \in Seq(Asset) /\ i - 1 = Len(assets)
    BY InventoriesAssumption DEF PlanInv, Split, TypeOK
  <2>2. k \in In(items) <=> Ranked(assets[k])
    BY <2>1 DEF PlanInv, Split
  <2>3. assets[k].posture \in Postures \cup {NotClassified}
    <3>1. assets[k] \in Asset
      BY <2>1
    <3> QED
      BY <3>1 DEF Asset
  <2>4. Ranked(assets[k]) <=> assets[k].posture \in Rungs \cup {NotClassified}
    BY <1>2, <2>3 DEF Ranked, NotClassified, Settling
  <2>5. \A rung : k \in tripped(assets, rung) <=> AtOrAbove(assets[k].posture, rung)
    BY <2>1 DEF tripped
  <2>6. \A rung : AtOrAbove(assets[k].posture, rung) => assets[k].posture \in Rungs
    BY DEF AtOrAbove
  <2> QED
    BY <2>2, <2>4, <2>5, <2>6, <1>3
<1> QED
  BY <1>4, Inductive, PTL
(***************************************************************************)
(* Where the score does not decide, the name does and then the position.   *)
(***************************************************************************)
THEOREM ListingsAreReproducible == Spec => []ListingsCanBeDiffed
<1>1. PlanInv => ListingsCanBeDiffed
  <2> SUFFICES ASSUME PlanInv, pc = "done" PROVE ListingsCanBeDiffed
    BY DEF ListingsCanBeDiffed
  <2>1. /\ assets \in Seq(Asset)
        /\ items \in Seq(1..Len(assets)) /\ settled \in Seq(1..Len(assets))
    BY InventoriesAssumption DEF PlanInv, TypeOK
  <2>2. \A list \in {items, settled} : \A k \in DOMAIN list : assets[list[k]] \in Asset
    BY <2>1
  <2>3. \A a, b \in Asset :
          ~compareAssets(b, a) =>
            a.name < b.name \/ (a.name = b.name /\ a.location <= b.location)
    <3>1. \A a \in Asset : a.name \in Nat /\ a.location \in Nat
      BY DEF Asset
    <3> QED
      BY <3>1 DEF compareAssets
  <2>4. \A a, b \in Asset : ~Ahead(b, a) /\ Score(a) = Score(b) => ~compareAssets(b, a)
    BY DEF Ahead
  <2>5. /\ \A k, l \in DOMAIN items : k < l => ~Ahead(assets[items[l]], assets[items[k]])
        /\ \A k, l \in DOMAIN settled :
             k < l => ~compareAssets(assets[settled[l]], assets[settled[k]])
    BY DEF PlanInv, InOrder
  <2> QED
    BY <2>2, <2>3, <2>4, <2>5 DEF ListingsCanBeDiffed
<1> QED
  BY <1>1, Inductive, PTL

(***************************************************************************)
(* The weights keep the order of the three scales.                         *)
(***************************************************************************)
LEMMA WeightsKeepTheOrder ==
  ASSUME NEW a \in Asset, NEW b \in Asset, Ranked(a), Ranked(b)
  PROVE  /\ StandsOn(a) <= StandsOn(b) <=> postureWeight(a) >= postureWeight(b)
         /\ PlaceOf(Exposure(a), exposureOrder) <= PlaceOf(Exposure(b), exposureOrder)
              <=> exposureWeight(Exposure(a)) >= exposureWeight(Exposure(b))
         /\ PlaceOf(Lifetime(a), lifetimeOrder) <= PlaceOf(Lifetime(b), lifetimeOrder)
              <=> lifetimeWeight(Lifetime(a)) >= lifetimeWeight(Lifetime(b))
<1>1. /\ RungOf("broken") = 1 /\ RungOf("quantum_vulnerable") = 2
      /\ RungOf("unknown") = 3 /\ RungOf("quantum_reduced") = 4
  <2>1. DOMAIN gateLadder = {1, 2, 3, 4}
    BY DEF gateLadder
  <2>2. /\ gateLadder[1] = "broken" /\ gateLadder[2] = "quantum_vulnerable"
        /\ gateLadder[3] = "unknown" /\ gateLadder[4] = "quantum_reduced"
    BY DEF gateLadder
  <2>3. \A k \in DOMAIN gateLadder : RungOf(gateLadder[k]) = k
    <3>1. \A k, l \in DOMAIN gateLadder : gateLadder[l] = gateLadder[k] => l = k
      BY <2>1, <2>2
    <3> QED
      BY <3>1 DEF RungOf
  <2>4. /\ RungOf(gateLadder[1]) = 1 /\ RungOf(gateLadder[2]) = 2
        /\ RungOf(gateLadder[3]) = 3 /\ RungOf(gateLadder[4]) = 4
    BY <2>1, <2>3
  <2> QED
    BY <2>2, <2>4
<1>2. \A c \in {a, b} : c.posture \in (Postures \cup {NotClassified}) \ Settling
  BY DEF Ranked, Asset
<1>3. \A c \in {a, b} :
        \/ c.posture = "broken" /\ postureWeight(c) = 4 /\ StandsOn(c) = 1
        \/ c.posture = "quantum_vulnerable" /\ postureWeight(c) = 3 /\ StandsOn(c) = 2
        \/ c.posture \in {"unknown", NotClassified} /\ postureWeight(c) = 2 /\ StandsOn(c) = 3
        \/ c.posture = "quantum_reduced" /\ postureWeight(c) = 1 /\ StandsOn(c) = 4
  BY <1>1, <1>2 DEF Postures, Settling, postureWeight, StandsOn, NotClassified
<1>4. /\ PlaceOf("endpoint", exposureOrder) = 1
      /\ PlaceOf("first party", exposureOrder) = 2
      /\ PlaceOf("dependency", exposureOrder) = 3
  <2>1. DOMAIN exposureOrder = {1, 2, 3}
    BY DEF exposureOrder
  <2>2. /\ exposureOrder[1] = "endpoint" /\ exposureOrder[2] = "first party"
        /\ exposureOrder[3] = "dependency"
    BY DEF exposureOrder
  <2>3. \A k \in DOMAIN exposureOrder : PlaceOf(exposureOrder[k], exposureOrder) = k
    <3>1. \A k, l \in DOMAIN exposureOrder : exposureOrder[l] = exposureOrder[k] => l = k
      BY <2>1, <2>2
    <3> QED
      BY <3>1 DEF PlaceOf
  <2>4. /\ PlaceOf(exposureOrder[1], exposureOrder) = 1
        /\ PlaceOf(exposureOrder[2], exposureOrder) = 2
        /\ PlaceOf(exposureOrder[3], exposureOrder) = 3
    BY <2>1, <2>3
  <2> QED
    BY <2>2, <2>4
<1>5. /\ PlaceOf("key exchange", lifetimeOrder) = 1
      /\ PlaceOf("stored data", lifetimeOrder) = 2
      /\ PlaceOf("signature", lifetimeOrder) = 3
  <2>1. DOMAIN lifetimeOrder = {1, 2, 3}
    BY DEF lifetimeOrder
  <2>2. /\ lifetimeOrder[1] = "key exchange" /\ lifetimeOrder[2] = "stored data"
        /\ lifetimeOrder[3] = "signature"
    BY DEF lifetimeOrder
  <2>3. \A k \in DOMAIN lifetimeOrder : PlaceOf(lifetimeOrder[k], lifetimeOrder) = k
    <3>1. \A k, l \in DOMAIN lifetimeOrder : lifetimeOrder[l] = lifetimeOrder[k] => l = k
      BY <2>1, <2>2
    <3> QED
      BY <3>1 DEF PlaceOf
  <2>4. /\ PlaceOf(lifetimeOrder[1], lifetimeOrder) = 1
        /\ PlaceOf(lifetimeOrder[2], lifetimeOrder) = 2
        /\ PlaceOf(lifetimeOrder[3], lifetimeOrder) = 3
    BY <2>1, <2>3
  <2> QED
    BY <2>2, <2>4
<1>6. \A c \in {a, b} : Exposure(c) \in Exposures /\ Lifetime(c) \in Lifetimes
  BY ScoreIsNatural
<1>7. \A e \in Exposures : PlaceOf(e, exposureOrder) = 4 - exposureWeight(e)
  <2>1. /\ exposureWeight("endpoint") = 3 /\ exposureWeight("first party") = 2
        /\ exposureWeight("dependency") = 1
    BY DEF exposureWeight
  <2>2. \A e \in Exposures : e = "endpoint" \/ e = "first party" \/ e = "dependency"
    BY DEF Exposures
  <2>3. ASSUME NEW e \in Exposures
        PROVE  PlaceOf(e, exposureOrder) = 4 - exposureWeight(e)
    <3>1. CASE e = "endpoint"
      <4>1. PlaceOf(e, exposureOrder) = 1 /\ exposureWeight(e) = 3
        BY <3>1, <2>1, <1>4
      <4> QED
        BY <4>1
    <3>2. CASE e = "first party"
      <4>1. PlaceOf(e, exposureOrder) = 2 /\ exposureWeight(e) = 2
        BY <3>2, <2>1, <1>4
      <4> QED
        BY <4>1
    <3>3. CASE e = "dependency"
      <4>1. PlaceOf(e, exposureOrder) = 3 /\ exposureWeight(e) = 1
        BY <3>3, <2>1, <1>4
      <4> QED
        BY <4>1
    <3> QED
      BY <3>1, <3>2, <3>3, <2>2
  <2> QED
    BY <2>3
<1>8. \A l \in Lifetimes : PlaceOf(l, lifetimeOrder) = 4 - lifetimeWeight(l)
  <2>1. /\ lifetimeWeight("key exchange") = 3 /\ lifetimeWeight("stored data") = 2
        /\ lifetimeWeight("signature") = 1
    BY DEF lifetimeWeight
  <2>2. \A l \in Lifetimes : l = "key exchange" \/ l = "stored data" \/ l = "signature"
    BY DEF Lifetimes
  <2>3. ASSUME NEW l \in Lifetimes
        PROVE  PlaceOf(l, lifetimeOrder) = 4 - lifetimeWeight(l)
    <3>1. CASE l = "key exchange"
      <4>1. PlaceOf(l, lifetimeOrder) = 1 /\ lifetimeWeight(l) = 3
        BY <3>1, <2>1, <1>5
      <4> QED
        BY <4>1
    <3>2. CASE l = "stored data"
      <4>1. PlaceOf(l, lifetimeOrder) = 2 /\ lifetimeWeight(l) = 2
        BY <3>2, <2>1, <1>5
      <4> QED
        BY <4>1
    <3>3. CASE l = "signature"
      <4>1. PlaceOf(l, lifetimeOrder) = 3 /\ lifetimeWeight(l) = 1
        BY <3>3, <2>1, <1>5
      <4> QED
        BY <4>1
    <3> QED
      BY <3>1, <3>2, <3>3, <2>2
  <2> QED
    BY <2>3
<1>9. /\ postureWeight(a) \in 1..4 /\ postureWeight(b) \in 1..4
       /\ exposureWeight(Exposure(a)) \in 1..3 /\ exposureWeight(Exposure(b)) \in 1..3
       /\ lifetimeWeight(Lifetime(a)) \in 1..3 /\ lifetimeWeight(Lifetime(b)) \in 1..3
  BY ScoreIsNatural
<1>10. StandsOn(a) = 5 - postureWeight(a) /\ StandsOn(b) = 5 - postureWeight(b)
  BY <1>3
<1>11. /\ PlaceOf(Exposure(a), exposureOrder) = 4 - exposureWeight(Exposure(a))
       /\ PlaceOf(Exposure(b), exposureOrder) = 4 - exposureWeight(Exposure(b))
       /\ PlaceOf(Lifetime(a), lifetimeOrder) = 4 - lifetimeWeight(Lifetime(a))
       /\ PlaceOf(Lifetime(b), lifetimeOrder) = 4 - lifetimeWeight(Lifetime(b))
  BY <1>6, <1>7, <1>8
<1> QED
  BY <1>9, <1>10, <1>11

(***************************************************************************)
(* A product of positive weights keeps their order: what is worse in one   *)
(* respect and better in none is never listed below.                       *)
(***************************************************************************)
THEOREM WorseStandsFirst == Spec => []WorseIsNeverBelow
<1>1. ASSUME NEW a \in Asset, NEW b \in Asset, Ranked(a), Ranked(b),
             AsSerious(a, b), ~AsSerious(b, a)
      PROVE  Score(a) > Score(b)
  <2> DEFINE wa == postureWeight(a)
             wb == postureWeight(b)
             sa == exposureWeight(Exposure(a)) + lifetimeWeight(Lifetime(a))
             sb == exposureWeight(Exposure(b)) + lifetimeWeight(Lifetime(b))
  <2>1. /\ wa \in 1..4 /\ wb \in 1..4 /\ sa \in 2..6 /\ sb \in 2..6
        /\ wa >= wb /\ sa >= sb /\ (wa > wb \/ sa > sb)
    BY <1>1, ScoreIsNatural, WeightsKeepTheOrder DEF AsSerious
  <2> HIDE DEF wa, wb, sa, sb
  <2>2. wa * sa > wb * sb
    BY <2>1
  <2> QED
    BY <2>2 DEF Score, wa, wb, sa, sb
<1>2. PlanInv => WorseIsNeverBelow
  <2> SUFFICES ASSUME PlanInv, pc = "done", NEW k \in DOMAIN items, NEW l \in DOMAIN items,
                      AsSerious(assets[items[k]], assets[items[l]]),
                      ~AsSerious(assets[items[l]], assets[items[k]])
               PROVE  k < l
    BY DEF WorseIsNeverBelow
  <2>1. assets \in Seq(Asset) /\ items \in Seq(1..Len(assets))
    BY InventoriesAssumption DEF PlanInv, TypeOK
  <2>2. assets[items[k]] \in Asset /\ assets[items[l]] \in Asset
    BY <2>1
  <2>3. Ranked(assets[items[k]]) /\ Ranked(assets[items[l]])
    BY DEF PlanInv, Split, In
  <2>4. Ahead(assets[items[k]], assets[items[l]])
    BY <1>1, <2>2, <2>3 DEF Ahead
  <2>5. ~(l < k)
    BY <2>4 DEF PlanInv, InOrder
  <2>6. k # l
    OBVIOUS
  <2>7. k \in Nat /\ l \in Nat
    BY <2>1
  <2> QED
    BY <2>5, <2>6, <2>7
<1> QED
  BY <1>2, Inductive, PTL
=============================================================================
