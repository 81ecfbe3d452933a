-------------------------------- MODULE Plan --------------------------------
(***************************************************************************)
(* The order of a migration: Build of internal/plan/plan.go.  One pass     *)
(* splits the judged assets into items with a score and assets that need   *)
(* no work; two stable sorts put both in an order that can be recomputed.  *)
(*                                                                         *)
(* An item is the position of its asset in what Build was given: the asset *)
(* and the factors of its score are read off it.  Names and printed        *)
(* positions are compared as strings, which is a total order, so they are  *)
(* numbers here.                                                           *)
(***************************************************************************)
EXTENDS Gate

CONSTANT Inventories   \* what Build may be given

Exposures == {"endpoint", "first party", "dependency"}
Lifetimes == {"key exchange", "stored data", "signature"}

\* The posture of an asset that never reached the classifier.
NotClassified == ""

\* host and module stand for Location.Host and Module being set.
Asset ==
  [name : Nat, location : Nat, posture : Postures \cup {NotClassified},
   primitive : Primitives \cup {""},    \* empty for a protocol version
   host : BOOLEAN, module : BOOLEAN]

ASSUME InventoriesAssumption == Inventories \subseteq Seq(Asset)

VARIABLES
  assets,    \* what Build was given
  pc,        \* "split", "items", "settled" or "done"
  i,         \* the asset whose turn it is
  items,     \* Report.Items
  settled    \* Report.Settled

vars == <<assets, pc, i, items, settled>>

-----------------------------------------------------------------------------
\* The scale.

\* A bug: the weights follow the order of the printed table, not the ladder's.
postureWeightOfTable(a) ==
  CASE a.posture = "broken"             -> 4
    [] a.posture = "quantum_vulnerable" -> 3
    [] a.posture = "quantum_reduced"    -> 2
    [] OTHER                            -> 1

postureWeight(a) ==
  CASE a.posture = "broken"             -> 4
    [] a.posture = "quantum_vulnerable" -> 3
    [] a.posture = "quantum_reduced"    -> 1
    [] OTHER                            -> 2

\* A bug: a posture nobody could give needs no work.
UnjudgedIsSettled(a) == a.posture \notin Settling \cup {"unknown"}

\* The second result of postureFactor.
Ranked(a) == a.posture \notin Settling

Exposure(a) ==
  CASE a.host                -> "endpoint"
    [] ~a.host /\ a.module   -> "dependency"
    [] ~a.host /\ ~a.module  -> "first party"

exposureWeight(e) ==
  CASE e = "endpoint" -> 3 [] e = "first party" -> 2 [] e = "dependency" -> 1

Lifetime(a) ==
  CASE a.primitive \in {"kem", "key-agree", "pke"} -> "key exchange"
    [] a.primitive = "signature"                   -> "signature"
    [] OTHER                                       -> "stored data"

lifetimeWeight(l) ==
  CASE l = "key exchange" -> 3 [] l = "stored data" -> 2 [] l = "signature" -> 1

Score(a) ==
  postureWeight(a) * (exposureWeight(Exposure(a)) + lifetimeWeight(Lifetime(a)))

\* compareAssets(a, b) < 0.
compareAssets(a, b) ==
  a.name < b.name \/ (a.name = b.name /\ a.location < b.location)

\* A bug: what is equal in score stays as it was found.
AheadByScore(a, b) == Score(a) > Score(b)

\* a is listed ahead of b whatever stands between them.
Ahead(a, b) ==
  Score(a) > Score(b) \/ (Score(a) = Score(b) /\ compareAssets(a, b))

\* p puts the positions of list in the order slices.SortStableFunc leaves
\* them in under Before: what neither puts before the other stays in place.
Sorts(p, list, Before(_, _)) ==
  \A k, l \in DOMAIN list : k < l =>
    /\ ~Before(assets[list[p[l]]], assets[list[p[k]]])
    /\ Before(assets[list[p[k]]], assets[list[p[l]]]) \/ p[k] < p[l]

-----------------------------------------------------------------------------
\* Build.

\* A bug: a settled asset falls through to the ranking.
SettleAndRank ==
  /\ pc = "split" /\ i <= Len(assets)
  /\ ~Ranked(assets[i])
  /\ settled' = Append(settled, i)
  /\ items' = Append(items, i)
  /\ i' = i + 1
  /\ UNCHANGED <<assets, pc>>

Settle ==
  /\ pc = "split" /\ i <= Len(assets)
  /\ ~Ranked(assets[i])
  /\ settled' = Append(settled, i)
  /\ i' = i + 1
  /\ UNCHANGED <<assets, pc, items>>

Rank ==
  /\ pc = "split" /\ i <= Len(assets)
  /\ Ranked(assets[i])
  /\ items' = Append(items, i)
  /\ i' = i + 1
  /\ UNCHANGED <<assets, pc, settled>>

\* A bug: the loop leaves the last asset out.
AllSplitButOne ==
  /\ pc = "split" /\ i >= Len(assets)
  /\ pc' = "items"
  /\ UNCHANGED <<assets, i, items, settled>>

AllSplit ==
  /\ pc = "split" /\ i > Len(assets)
  /\ pc' = "items"
  /\ UNCHANGED <<assets, i, items, settled>>

SortItems ==
  /\ pc = "items"
  /\ \E p \in [DOMAIN items -> DOMAIN items] :
       /\ Sorts(p, items, Ahead)
       /\ items' = [k \in DOMAIN items |-> items[p[k]]]
  /\ pc' = "settled"
  /\ UNCHANGED <<assets, i, settled>>

SortSettled ==
  /\ pc = "settled"
  /\ \E p \in [DOMAIN settled -> DOMAIN settled] :
       /\ Sorts(p, settled, compareAssets)
       /\ settled' = [k \in DOMAIN settled |-> settled[p[k]]]
  /\ pc' = "done"
  /\ UNCHANGED <<assets, i, items>>

-----------------------------------------------------------------------------
Init ==
  /\ assets \in Inventories
  /\ pc = "split"
  /\ i = 1
  /\ items = << >>
  /\ settled = << >>

Ended == pc = "done" /\ UNCHANGED vars

Next == Settle \/ Rank \/ AllSplit \/ SortItems \/ SortSettled \/ Ended

Spec == Init /\ [][Next]_vars

-----------------------------------------------------------------------------
\* Properties.

TypeOK ==
  /\ assets \in Inventories
  /\ pc \in {"split", "items", "settled", "done"}
  /\ i \in 1..(Len(assets) + 1)
  /\ items \in Seq(1..Len(assets))
  /\ settled \in Seq(1..Len(assets))

In(list) == {list[k] : k \in DOMAIN list}

Once(list) == \A k, l \in DOMAIN list : list[k] = list[l] => k = l

\* Nothing is left out and nothing is listed twice (plan.go:97-100): every
\* asset stands at exactly one place of one of the two lists.
NothingLeftOut ==
  pc = "done" =>
    /\ In(items) \cup In(settled) = 1..Len(assets)
    /\ In(items) \cap In(settled) = {}
    /\ Once(items) /\ Once(settled)

\* The ranking and the gate agree on what is work: a classified asset is ranked
\* exactly when some policy of -fail-on trips on it, though each reads its own
\* list of postures, and one that was never classified is ranked as well
\* (plan.go:139-141), though no policy trips on it.
RankedIsWhatCanTrip ==
  pc = "done" =>
    \A k \in 1..Len(assets) :
      k \in In(items) <=>
        \/ assets[k].posture = NotClassified
        \/ \E rung \in Rungs : k \in tripped(assets, rung)

exposureOrder == <<"endpoint", "first party", "dependency">>
lifetimeOrder == <<"key exchange", "stored data", "signature">>
PlaceOf(x, order) == CHOOSE k \in DOMAIN order : order[k] = x

\* Where an asset stands on the gate's ladder: nobody has judged what was never
\* classified.
StandsOn(a) == RungOf(IF a.posture = NotClassified THEN "unknown" ELSE a.posture)

\* Each factor of a as serious as b's, on the gate's ladder, in reach and in
\* how long it has to last.
AsSerious(a, b) ==
  /\ StandsOn(a) <= StandsOn(b)
  /\ PlaceOf(Exposure(a), exposureOrder) <= PlaceOf(Exposure(b), exposureOrder)
  /\ PlaceOf(Lifetime(a), lifetimeOrder) <= PlaceOf(Lifetime(b), lifetimeOrder)

\* What is worse in one respect and better in none is never listed below: the
\* product of weights keeps the order of the gate's ladder, and that of each
\* of the other two scales.
WorseIsNeverBelow ==
  pc = "done" =>
    \A k, l \in DOMAIN items :
      LET a == assets[items[k]]
          b == assets[items[l]]
      IN AsSerious(a, b) /\ ~AsSerious(b, a) => k < l

\* Two listings over unchanged code can be diffed (plan.go:126-127): where the
\* score does not decide, the name does and then the position, in both lists,
\* so what order the findings came in shows only between lines that read alike.
ListingsCanBeDiffed ==
  pc = "done" =>
    /\ \A k, l \in DOMAIN items :
         LET a == assets[items[k]]
             b == assets[items[l]]
         IN k < l /\ Score(a) = Score(b) =>
              a.name < b.name \/ (a.name = b.name /\ a.location <= b.location)
    /\ \A k, l \in DOMAIN settled :
         LET a == assets[settled[k]]
             b == assets[settled[l]]
         IN k < l => a.name < b.name \/ (a.name = b.name /\ a.location <= b.location)

\* The inductive invariant: the split is complete up to asset i, with every
\* asset on its side of it, and what was sorted is in order.
Split ==
  /\ pc # "split" => i = Len(assets) + 1
  /\ In(items) = {k \in 1..(i - 1) : Ranked(assets[k])}
  /\ In(settled) = {k \in 1..(i - 1) : ~Ranked(assets[k])}
  /\ Once(items) /\ Once(settled)

InOrder ==
  /\ pc \in {"settled", "done"} =>
       \A k, l \in DOMAIN items : k < l => ~Ahead(assets[items[l]], assets[items[k]])
  /\ pc = "done" =>
       \A k, l \in DOMAIN settled :
         k < l => ~compareAssets(assets[settled[l]], assets[settled[k]])

PlanInv == TypeOK /\ Split /\ InOrder
=============================================================================
