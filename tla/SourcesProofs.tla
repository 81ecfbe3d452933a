--------------------------- MODULE SourcesProofs ---------------------------
(***************************************************************************)
(* Whatever the trees hold and whatever others change while they are       *)
(* walked, Deps returns with every required module accounted for, or       *)
(* fails.                                                                  *)
(*                                                                         *)
(* First the tree: what Subtree is, by its equation and by induction from  *)
(* the leaves up.                                                          *)
(***************************************************************************)
EXTENDS Sources, ListProofs, FiniteSetTheorems

-----------------------------------------------------------------------------
\* The tree.

LEMMA ChildrenAreNodes == \A n \in Nodes : Children(n) \subseteq Nodes
  BY TreeAssumption DEF Children

Trees(f) == f = [n \in Nodes |-> {n} \cup UNION {f[c] : c \in Children(n)}]

\* There is such a function: the smallest sets that are closed under Children.
LEMMA TreesExist == \E f : Trees(f)
<1> DEFINE Closed(S) == \A d \in S : Children(d) \subseteq S
           least == [n \in Nodes |-> {x \in Nodes : \A S \in SUBSET Nodes :
                                        n \in S /\ Closed(S) => x \in S}]
           parts(n) == {n} \cup UNION {least[c] : c \in Children(n)}
<1>1. ASSUME NEW n \in Nodes PROVE parts(n) \subseteq least[n]
  <2>1. n \in least[n]
    OBVIOUS
  <2>2. ASSUME NEW c \in Children(n), NEW x \in least[c] PROVE x \in least[n]
    <3>1. c \in Nodes
      BY ChildrenAreNodes
    <3>2. x \in Nodes
      BY <3>1
    <3>3. ASSUME NEW S \in SUBSET Nodes, n \in S, Closed(S) PROVE x \in S
      <4>1. c \in S
        BY <3>3
      <4> QED
        BY <3>1, <3>3, <4>1
    <3> QED
      BY <3>2, <3>3
  <2> HIDE DEF least
  <2> QED
    BY <2>1, <2>2
<1>2. ASSUME NEW n \in Nodes PROVE least[n] \subseteq parts(n)
  <2>1. \A c \in Children(n) : c \in Nodes /\ least[c] \subseteq Nodes
    BY ChildrenAreNodes
  <2>2. parts(n) \in SUBSET Nodes
    BY <2>1
  <2>3. n \in parts(n)
    OBVIOUS
  <2>4. ASSUME NEW d \in parts(n), NEW x \in Children(d) PROVE x \in parts(n)
    <3>1. CASE d = n
      <4>1. x \in least[x]
        BY <2>1, <2>4, <3>1
      <4> QED
        BY <2>4, <3>1, <4>1
    <3>2. ASSUME NEW c \in Children(n), d \in least[c] PROVE x \in least[c]
      <4>1. c \in Nodes /\ d \in Nodes
        BY <2>1, <3>2
      <4>2. x \in Nodes
        BY <2>4, <4>1, ChildrenAreNodes
      <4>3. ASSUME NEW S \in SUBSET Nodes, c \in S, Closed(S) PROVE x \in S
        <5>1. d \in S
          BY <3>2, <4>1, <4>3
        <5> QED
          BY <2>4, <4>3, <5>1
      <4> QED
        BY <4>1, <4>2, <4>3
    <3> HIDE DEF least
    <3>3. d = n \/ \E c \in Children(n) : d \in least[c]
      BY <2>4
    <3> QED
      BY <3>1, <3>2, <3>3
  <2>5. Closed(parts(n))
    BY <2>4
  <2> HIDE DEF parts, Closed
  <2> QED
    BY <2>2, <2>3, <2>5
<1>3. \A n \in Nodes : least[n] = parts(n)
  BY <1>1, <1>2
<1>4. least = [n \in Nodes |-> least[n]]
  OBVIOUS
<1> HIDE DEF least
<1>5. Trees(least)
  BY <1>3, <1>4 DEF Trees
<1> QED
  BY <1>5

LEMMA SubtreeParts ==
  ASSUME NEW n \in Nodes
  PROVE  Subtree[n] = {n} \cup UNION {Subtree[c] : c \in Children(n)}
<1> DEFINE tree == CHOOSE f : Trees(f)
<1>1. Trees(tree)
  BY TreesExist
<1>2. Subtree = [m \in Nodes |-> tree[m]]
  BY DEF Subtree, Trees
<1> HIDE DEF tree
<1>3. \A m \in Nodes : Subtree[m] = tree[m]
  BY <1>2
<1>4. tree[n] = {n} \cup UNION {tree[c] : c \in Children(n)}
  BY <1>1 DEF Trees
<1> QED
  BY <1>3, <1>4, ChildrenAreNodes
\* A set of nodes has one with no child in the set.
LEMMA LowestNode ==
  ASSUME NEW S \in SUBSET Nodes, S # {}
  PROVE  \E n \in S : \A c \in Children(n) : c \notin S
<1> DEFINE below(n) == Subtree[n] \cap Nodes
           sizes == {Cardinality(below(n)) : n \in S}
<1>1. \A n \in S : IsFiniteSet(below(n)) /\ Cardinality(below(n)) \in Nat
  <2>1. ASSUME NEW n \in S PROVE IsFiniteSet(below(n)) /\ Cardinality(below(n)) \in Nat
    <3>1. below(n) \in SUBSET Nodes /\ IsFiniteSet(Nodes)
      BY PathsAssumption
    <3>2. IsFiniteSet(below(n))
      BY <3>1, FS_Subset
    <3> QED
      BY <3>2, FS_CardinalityType
  <2> QED
    BY <2>1
<1>2. sizes \in SUBSET Nat /\ sizes # {}
  BY <1>1
<1>3. PICK n \in S : \A m \in S : Cardinality(below(n)) <= Cardinality(below(m))
  <2>1. PICK size \in sizes : \A other \in sizes : size <= other
    BY <1>2, LeastNatural
  <2>2. PICK n \in S : size = Cardinality(below(n))
    BY <2>1
  <2>3. \A m \in S : Cardinality(below(m)) \in sizes
    OBVIOUS
  <2> HIDE DEF below, sizes
  <2> QED
    BY <2>1, <2>2, <2>3
<1>4. ASSUME NEW c \in Children(n), c \in S PROVE FALSE
  <2>1. n \in below(n) /\ below(c) \subseteq below(n) /\ n \notin below(c)
    BY <1>4, SubtreeParts, PathsAssumption
  <2> HIDE DEF below
  <2>2. below(c) \in SUBSET below(n) /\ below(c) # below(n)
    BY <2>1
  <2>3. /\ Cardinality(below(c)) <= Cardinality(below(n))
        /\ Cardinality(below(c)) # Cardinality(below(n))
    BY <1>1, <2>2, FS_Subset
  <2>4. Cardinality(below(n)) <= Cardinality(below(c))
    BY <1>3, <1>4
  <2>5. Cardinality(below(n)) \in Nat /\ Cardinality(below(c)) \in Nat
    BY <1>1, <1>4
  <2> QED
    BY <2>3, <2>4, <2>5
<1> QED
  BY <1>4

LEMMA SubtreeStep ==
  ASSUME NEW n \in Nodes
  PROVE  /\ n \in Subtree[n]
         /\ \A c \in Children(n) : c \in Nodes /\ c \in Subtree[n]
                                 /\ Subtree[c] \subseteq Subtree[n]
         /\ \A x \in Subtree[n] : x = n \/ \E c \in Children(n) : x \in Subtree[c]
<1>1. \A c \in Children(n) : c \in Nodes /\ c \in Subtree[c]
  BY SubtreeParts, ChildrenAreNodes
<1> QED
  BY <1>1, SubtreeParts

LEMMA SubtreeIsNodes == \A n \in Nodes : Subtree[n] \subseteq Nodes
<1> DEFINE bad == {n \in Nodes : ~(Subtree[n] \subseteq Nodes)}
<1>1. ASSUME NEW n \in bad, \A c \in Children(n) : c \notin bad PROVE FALSE
  BY <1>1, SubtreeStep
<1> QED
  BY <1>1, LowestNode

LEMMA SubtreeIsClosed ==
  \A n \in Nodes : \A x \in Subtree[n] : Subtree[x] \subseteq Subtree[n]
<1> DEFINE bad == {n \in Nodes : \E x \in Subtree[n] : ~(Subtree[x] \subseteq Subtree[n])}
<1>1. ASSUME NEW n \in bad, \A c \in Children(n) : c \notin bad PROVE FALSE
  <2>1. PICK x \in Subtree[n] : ~(Subtree[x] \subseteq Subtree[n])
    OBVIOUS
  <2>2. PICK c \in Children(n) : x \in Subtree[c]
    BY <2>1, SubtreeStep
  <2>3. Subtree[x] \subseteq Subtree[c] /\ Subtree[c] \subseteq Subtree[n]
    BY <1>1, <2>2, SubtreeStep
  <2> QED
    BY <2>1, <2>3
<1> QED
  BY <1>1, LowestNode

\* The directory a node stands in is below whatever the node is below.
LEMMA ParentIsBelow ==
  ASSUME NEW n \in Nodes, NEW p \in Nodes, NEW x \in Subtree[n], x # n, x \in Children(p)
  PROVE  p \in Subtree[n]
<1> DEFINE bad == {m \in Nodes : x \in Subtree[m] /\ x # m /\ p \notin Subtree[m]}
<1>1. ASSUME NEW m \in bad, \A c \in Children(m) : c \notin bad PROVE FALSE
  <2>1. PICK c \in Children(m) : x \in Subtree[c]
    BY SubtreeStep
  <2>2. CASE x = c
    <3>1. p = m
      BY <2>1, <2>2, PathsAssumption
    <3> QED
      BY <3>1, SubtreeStep
  <2>3. CASE x # c
    BY <1>1, <2>1, <2>3, SubtreeStep
  <2> QED
    BY <2>2, <2>3
<1>2. bad = {}
  BY <1>1, LowestNode, ZenonT(40)
<1> QED
  BY <1>2

\* Two subtrees that meet are one inside the other.
LEMMA MeetingSubtrees ==
  ASSUME NEW a \in Nodes, NEW b \in Nodes, NEW x \in Subtree[a], x \in Subtree[b]
  PROVE  a \in Subtree[b] \/ b \in Subtree[a]
<1> DEFINE bad == {m \in Nodes : x \in Subtree[m] /\ m \notin Subtree[b] /\ b \notin Subtree[m]}
<1>1. ASSUME NEW m \in bad, \A c \in Children(m) : c \notin bad PROVE FALSE
  <2>1. PICK c \in Children(m) : x \in Subtree[c]
    BY SubtreeStep
  <2>2. c \in Nodes /\ Subtree[c] \subseteq Subtree[m] /\ c \in Subtree[m]
    BY <2>1, SubtreeStep
  <2>3. c \in Subtree[b]
    BY <1>1, <2>1, <2>2
  <2>4. c # b
    BY <2>2
  <2>5. m \in Subtree[b]
    BY <2>1, <2>3, <2>4, ParentIsBelow
  <2> QED
    BY <2>5
<1>2. bad = {}
  BY <1>1, LowestNode
<1> QED
  BY <1>2

LEMMA OnlyDirectoriesHold == \A n \in Nodes : Kind[n] # "dir" => Subtree[n] = {n}
  BY SubtreeParts DEF Children
LEMMA NoCycles ==
  ASSUME NEW n \in Nodes, NEW x \in Subtree[n], n \in Subtree[x]
  PROVE  x = n
<1> SUFFICES ASSUME x # n PROVE FALSE
  OBVIOUS
<1>1. PICK c \in Children(n) : x \in Subtree[c]
  BY SubtreeStep
<1>2. n \in Subtree[c]
  BY <1>1, SubtreeStep, SubtreeIsClosed
<1> QED
  BY <1>1, <1>2, PathsAssumption

LEMMA UnderIsSubtree == \A n \in Nodes : Under(n) = Subtree[n]
  BY TreeAssumption DEF Under

-----------------------------------------------------------------------------
\* Types and bookkeeping.

USE DEF world

LEMMA TypeInit == Init => TypeOK
<1> SUFFICES ASSUME Init PROVE TypeOK
  OBVIOUS
<1>1. Len(Required) \in Nat /\ 1 \in 1..(Len(Required) + 1)
  BY RequiredAssumption
<1>2. disk \subseteq Nodes /\ changes \in 0..MaxChanges
  BY DisksAssumption, MaxChangesAssumption DEF Init
<1>3. located \in Seq(Nodes \cup {NoDir})
  BY DEF Init
<1> QED
  BY <1>1, <1>2, <1>3 DEF Init, TypeOK

\* The walk: what is still to visit is no part of TypeOK.
LEMMA WalkKeepsTypes ==
  ASSUME TypeOK,
         PassOver \/ EnterDir \/ DirGone \/ ReadFile \/ ReadFileFails \/ DirDone,
         Accounted, pc = "walk" => at <= Len(Required)
  PROVE  TypeOK'
<1>1. CASE PassOver \/ EnterDir
  BY <1>1 DEF PassOver, EnterDir, Step, TypeOK
<1>2. CASE DirGone \/ ReadFileFails
  BY <1>2 DEF DirGone, ReadFileFails, Fail, Step, TypeOK
<1>3. CASE ReadFile
  <2> DEFINE module == IF pc = "dir" THEN FirstParty ELSE Required[at]
  <2>1. /\ found' = found \cup {[file |-> Head(todo), module |-> module]}
        /\ Head(todo) \in disk /\ pc \in {"dir", "walk"}
        /\ UNCHANGED <<world, pc, vendored, located, at, read, missing>>
    BY <1>3 DEF ReadFile, Walking, Present
  <2>2. module \in Modules \cup {FirstParty}
    BY <2>1, RequiredAssumption DEF TypeOK, Modules
  <2>3. Head(todo) \in Nodes
    BY <2>1 DEF TypeOK
  <2> HIDE DEF module
  <2>4. found' \subseteq [file : Nodes, module : Modules \cup {FirstParty}]
    BY <2>1, <2>2, <2>3 DEF TypeOK
  <2> QED
    BY <2>1, <2>4 DEF TypeOK
<1>4. CASE DirDone
  BY <1>4 DEF DirDone, TypeOK
<1> QED
  BY <1>1, <1>2, <1>3, <1>4

LEMMA DepsKeepTypes ==
  ASSUME TypeOK,
         ReadGoMod \/ ReadGoModFails \/ LocateModule \/ AllLocated \/ NameMissing
           \/ StartModule \/ ModuleDone \/ Return,
         pc = "walk" => at <= Len(Required)
  PROVE  TypeOK'
<1>1. Len(Required) \in Nat /\ DOMAIN Required = 1..Len(Required)
  BY RequiredAssumption
<1>2. CASE ReadGoMod
  BY <1>2 DEF ReadGoMod, isDir, TypeOK
<1>3. CASE ReadGoModFails \/ AllLocated \/ StartModule \/ Return
  BY <1>3 DEF ReadGoModFails, AllLocated, StartModule, Return, Fail, TypeOK
<1>4. CASE LocateModule
  <2>1. \A m : Locate(m) \in Nodes \cup {NoDir}
    BY DEF Locate, isDir, TypeOK
  <2>2. located' \in Seq(Nodes \cup {NoDir})
    BY <1>4, <2>1 DEF LocateModule, TypeOK
  <2>3. UNCHANGED <<world, pc, todo, vendored, at, found, read, missing>>
    BY <1>4 DEF LocateModule
  <2> QED
    BY <2>2, <2>3 DEF TypeOK
<1>5. CASE NameMissing
  <2>1. at \in 1..Len(Required) /\ at' = at + 1 /\ missing' = missing \cup {Required[at]}
    BY <1>1, <1>5 DEF NameMissing, TypeOK
  <2>2. at' \in 1..(Len(Required) + 1) /\ missing' \subseteq Modules
    BY <1>1, <2>1 DEF TypeOK, Modules
  <2> QED
    BY <1>5, <2>2 DEF NameMissing, TypeOK
<1>6. CASE ModuleDone
  <2>1. at \in 1..Len(Required) /\ at' = at + 1 /\ read' = read \cup {Required[at]}
    BY <1>1, <1>6 DEF ModuleDone, TypeOK
  <2>2. at' \in 1..(Len(Required) + 1) /\ read' \subseteq Modules
    BY <1>1, <2>1 DEF TypeOK, Modules
  <2> QED
    BY <1>6, <2>2 DEF ModuleDone, TypeOK
<1> QED
  BY <1>2, <1>3, <1>4, <1>5, <1>6

LEMMA OthersKeepTypes == ASSUME TypeOK, Remove \/ Appear PROVE TypeOK'
<1>1. PICK n \in Nodes : /\ disk' \subseteq disk \cup Under(n)
                        /\ Change(Under(n))
  BY DEF Remove, Appear, TypeOK
<1>2. Under(n) \subseteq Nodes
  BY <1>1, UnderIsSubtree, SubtreeIsNodes
<1>3. disk' \subseteq Nodes /\ touched' \subseteq Nodes /\ changes' \in 0..MaxChanges
  BY <1>1, <1>2, MaxChangesAssumption DEF Change, TypeOK
<1>4. UNCHANGED <<pc, todo, vendored, located, at, found, read, missing>>
  BY <1>1 DEF Change
<1> QED
  BY <1>3, <1>4 DEF TypeOK

LEMMA TypeStep == Bookkeeping /\ [Next]_vars => TypeOK'
<1>1. CASE UNCHANGED vars
  BY <1>1 DEF vars, Bookkeeping, TypeOK
<1>2. CASE Ended
  BY <1>1, <1>2 DEF Ended
<1> QED
  BY <1>1, <1>2, WalkKeepsTypes, DepsKeepTypes, OthersKeepTypes
     DEF Bookkeeping, Counted, Next, Collect

LEMMA CountedInit == Init => Counted
<1> SUFFICES ASSUME Init PROVE Counted
  OBVIOUS
<1>1. Len(Required) \in Nat
  BY RequiredAssumption
<1>2. 1..(1 - 1) = {}
  OBVIOUS
<1>3. {Required[i] : i \in 1..(1 - 1)} = {}
  BY <1>2
<1> QED
  BY <1>1, <1>3 DEF Init, Counted, Accounted

\* A module's turn adds it, and nothing else, to the modules accounted for.
LEMMA NextModule ==
  ASSUME NEW n \in 1..Len(Required)
  PROVE  /\ {Required[i] : i \in 1..((n + 1) - 1)}
              = {Required[i] : i \in 1..(n - 1)} \cup {Required[n]}
         /\ Required[n] \notin {Required[i] : i \in 1..(n - 1)}
         /\ Required[n] \in Modules
<1>1. Len(Required) \in Nat /\ DOMAIN Required = 1..Len(Required)
  BY RequiredAssumption
<1>2. n \in Nat /\ 1..((n + 1) - 1) = 1..(n - 1) \cup {n}
  BY <1>1
<1>3. \A i \in 1..(n - 1) : i \in 1..Len(Required) /\ i # n
  BY <1>1, <1>2
<1>4. Required[n] \notin {Required[i] : i \in 1..(n - 1)}
  BY <1>1, <1>3, RequiredAssumption
<1> QED
  BY <1>1, <1>2, <1>4 DEF Modules

LEMMA CountedStep == Bookkeeping /\ [Next]_vars => Counted'
<1> SUFFICES ASSUME Counted, at \in 1..(Len(Required) + 1), [Next]_vars PROVE Counted'
  BY DEF Bookkeeping, TypeOK
<1>1. Len(Required) \in Nat
  BY RequiredAssumption
<1>2. CASE UNCHANGED vars
  BY <1>2 DEF vars, Counted, Accounted
<1>3. CASE Remove \/ Appear
  BY <1>3 DEF Remove, Appear, Change, Counted, Accounted
<1>4. CASE PassOver \/ EnterDir
  BY <1>4 DEF PassOver, EnterDir, Step, Counted, Accounted
<1>5. CASE DirGone \/ ReadGoModFails
  BY <1>5 DEF DirGone, ReadGoModFails, Fail, Walking, Counted, Accounted
<1>6. CASE ReadFileFails
  BY <1>6 DEF ReadFileFails, Fail, Step, Walking, Counted, Accounted
<1>7. CASE ReadFile
  <2> DEFINE finding ==
        [file |-> Head(todo), module |-> IF pc = "dir" THEN FirstParty ELSE Required[at]]
  <2>1. /\ found' = found \cup {finding}
        /\ pc = "dir" => finding.module = FirstParty
        /\ pc = "walk" => finding.module = Required[at]
    BY <1>7 DEF ReadFile
  <2> HIDE DEF finding
  <2>2. UNCHANGED <<pc, at, read, missing>> /\ pc \in {"dir", "walk"}
    BY <1>7 DEF ReadFile, Walking
  <2> QED
    BY <2>1, <2>2 DEF Counted, Accounted
<1>8. CASE DirDone \/ ReadGoMod \/ LocateModule \/ AllLocated
  BY <1>8 DEF DirDone, ReadGoMod, LocateModule, AllLocated, Counted, Accounted
<1>9. CASE StartModule
  BY <1>1, <1>9 DEF StartModule, Counted, Accounted
<1>10. CASE NameMissing
  <2>1. /\ at \in 1..Len(Required)
        /\ at' = at + 1 /\ missing' = missing \cup {Required[at]}
        /\ pc = "next" /\ UNCHANGED <<pc, found, read>>
    BY <1>1, <1>10 DEF NameMissing, Counted
  <2>2. /\ read' \cup missing' = {Required[i] : i \in 1..(at' - 1)}
        /\ read' \cap missing' = {}
    BY <2>1, NextModule DEF Counted, Accounted
  <2>3. at' \in 1..(Len(Required) + 1)
    BY <1>1, <2>1
  <2> QED
    BY <2>1, <2>2, <2>3 DEF Counted, Accounted
<1>11. CASE ModuleDone
  <2>1. /\ at \in 1..Len(Required)
        /\ at' = at + 1 /\ read' = read \cup {Required[at]}
        /\ pc = "walk" /\ pc' = "next" /\ UNCHANGED <<found, missing>>
    BY <1>1, <1>11 DEF ModuleDone, Counted
  <2>2. /\ read' \cup missing' = {Required[i] : i \in 1..(at' - 1)}
        /\ read' \cap missing' = {}
    BY <2>1, NextModule DEF Counted, Accounted
  <2>3. at' \in 1..(Len(Required) + 1)
    BY <1>1, <2>1
  <2>4. \A finding \in found' : finding.module \in read' \cup {FirstParty}
    BY <2>1 DEF Counted
  <2> QED
    BY <2>1, <2>2, <2>3, <2>4 DEF Counted, Accounted
<1>12. CASE Return
  BY <1>1, <1>12 DEF Return, Counted, Accounted
<1>13. CASE Ended
  BY <1>2, <1>13 DEF Ended
<1> QED
  BY <1>2, <1>3, <1>4, <1>5, <1>6, <1>7, <1>8, <1>9, <1>10, <1>11, <1>12, <1>13
     DEF Next, Collect

\* No module is counted twice or passed over, at any moment of a run.
THEOREM ModulesAreCountedOnce == Spec => []Bookkeeping
<1>1. Init => Bookkeeping
  BY TypeInit, CountedInit DEF Bookkeeping
<1>2. Bookkeeping /\ [Next]_vars => Bookkeeping'
  BY TypeStep, CountedStep DEF Bookkeeping
<1> QED
  BY <1>1, <1>2, PTL DEF Spec

-----------------------------------------------------------------------------
\* The refinement.

LEMMA PromiseInit == Init => Promise!Init
  BY DEF Init, Promise!Init, Returned

LEMMA PromiseStep ==
  ASSUME Bookkeeping, [Next]_vars
  PROVE  [Promise!Next]_Promise!cvars
<1>1. Len(Required) \in Nat /\ DOMAIN Required = 1..Len(Required)
  BY RequiredAssumption
<1>2. CASE Return
  <2>1. /\ pc = "next" /\ pc' = "done" /\ at > Len(Required)
        /\ UNCHANGED <<at, found, read, missing>>
    BY <1>2 DEF Return
  <2>2. at - 1 = Len(Required)
    BY <1>1, <2>1 DEF Bookkeeping, Counted, TypeOK
  <2>3. read \cup missing = Modules /\ read \cap missing = {}
    BY <1>1, <2>2 DEF Bookkeeping, Counted, Accounted, Modules
  <2>4. {finding.module : finding \in found} \subseteq read \cup {FirstParty}
    BY <2>1 DEF Bookkeeping, Counted
  <2>5. Promise!Return
    BY <2>1, <2>3, <2>4 DEF Promise!Return, Returned
  <2> QED
    BY <2>5 DEF Promise!Next
<1>3. CASE pc \notin {"done", "failed"} /\ pc' = "failed"
  <2>1. Promise!Fail
    BY <1>3 DEF Promise!Fail, Returned
  <2> QED
    BY <2>1 DEF Promise!Next
<1>4. CASE pc \notin {"done", "failed"} /\ pc' \notin {"done", "failed"}
  BY <1>4 DEF Promise!cvars, Returned
<1>5. CASE UNCHANGED vars
  BY <1>5 DEF vars, Promise!cvars, Returned
<1>6. CASE Remove \/ Appear
  BY <1>4, <1>6 DEF Remove, Appear, Change
<1>7. CASE PassOver \/ EnterDir \/ DirGone \/ ReadFile \/ ReadFileFails
  BY <1>3, <1>4, <1>7
     DEF PassOver, EnterDir, DirGone, ReadFile, ReadFileFails, Walking, Fail, Step
<1>8. CASE DirDone \/ ReadGoMod \/ ReadGoModFails \/ LocateModule \/ AllLocated
  BY <1>3, <1>4, <1>8
     DEF DirDone, ReadGoMod, ReadGoModFails, LocateModule, AllLocated, Fail
<1>9. CASE NameMissing \/ StartModule \/ ModuleDone
  BY <1>4, <1>9 DEF NameMissing, StartModule, ModuleDone
<1> QED
  BY <1>2, <1>5, <1>6, <1>7, <1>8, <1>9 DEF Next, Collect, Ended

\* Whatever the trees hold and others change, the collectors return once, with
\* every required module read or named, or they fail (main.go:138).
THEOREM CollectorsKeepTheirPromise == Spec => ImplementsCollection
<1>1. Bookkeeping /\ [Next]_vars => [Promise!Next]_Promise!cvars
  BY PromiseStep
<1> QED
  BY <1>1, PromiseInit, ModulesAreCountedOnce, PTL
     DEF Spec, ImplementsCollection, Promise!Spec

-----------------------------------------------------------------------------
\* Missing modules.

\* The place where Locate looks for a module.
LooksIn(m) ==
  LET place == Where[m]
  IN CASE place.byDirectory -> place.local
       [] ~place.byDirectory /\ vendored -> place.vendor
       [] OTHER -> place.cache

AbsentOnce(m) == LooksIn(m) = NoDir \/ LooksIn(m) \notin disk \ touched

\* The strengthening: a module that was not found was absent already then, and
\* the way the build goes is settled before the first module is looked for.
NotFoundWasAbsent ==
  /\ pc \in {"dir", "gomod"} => located = << >> /\ missing = {}
  /\ Len(located) <= Len(Required)
  /\ pc \in {"next", "walk"} => Len(located) = Len(Required)
  /\ \A i \in 1..Len(located) : located[i] = NoDir => AbsentOnce(Required[i])
  /\ \A m \in missing : AbsentOnce(m)

LEMMA NotFoundInit == Init => NotFoundWasAbsent
<1>1. Len(Required) \in Nat
  BY RequiredAssumption
<1> QED
  BY <1>1 DEF Init, NotFoundWasAbsent

\* LooksIn by its three ways.
LEMMA LooksInCases ==
  ASSUME NEW m
  PROVE  /\ Where[m].byDirectory => LooksIn(m) = Where[m].local
         /\ (~Where[m].byDirectory /\ vendored) => LooksIn(m) = Where[m].vendor
         /\ (~Where[m].byDirectory /\ ~vendored) => LooksIn(m) = Where[m].cache
         /\ Locate(m) = IF isDir(LooksIn(m)) THEN LooksIn(m) ELSE NoDir
BY Zenon DEF LooksIn, Locate

LEMMA LooksInStays ==
  ASSUME NEW m, vendored' = vendored
  PROVE  LooksIn(m)' = LooksIn(m)
BY DEF LooksIn

\* What comes or goes is touched, so what was absent once stays so.
LEMMA AbsenceStays ==
  ASSUME NEW m, AbsentOnce(m), vendored' = vendored,
         Remove \/ Appear \/ UNCHANGED world
  PROVE  AbsentOnce(m)'
<1>1. disk' \ touched' \subseteq disk \ touched
  BY DEF Remove, Appear, Change
<1> QED
  BY <1>1, LooksInStays DEF AbsentOnce

LEMMA NotLocatedIsAbsent ==
  ASSUME PlacesAreDirectories, NEW m \in Modules, Locate(m) = NoDir
  PROVE  AbsentOnce(m)
<1>1. LooksIn(m) \in PlacesOf(m)
  BY LooksInCases DEF PlacesOf
<1>2. CASE LooksIn(m) = NoDir
  BY <1>2 DEF AbsentOnce
<1>3. CASE LooksIn(m) # NoDir
  <2>1. Kind[LooksIn(m)] = "dir"
    BY <1>1, <1>3 DEF PlacesAreDirectories
  <2>2. ~isDir(LooksIn(m))
    BY <1>3, LooksInCases
  <2>3. LooksIn(m) \notin disk
    BY <2>1, <2>2 DEF isDir, Target
  <2> QED
    BY <2>3 DEF AbsentOnce
<1> QED
  BY <1>2, <1>3

LEMMA NotFoundStep ==
  ASSUME PlacesAreDirectories, Bookkeeping, NotFoundWasAbsent, [Next]_vars
  PROVE  NotFoundWasAbsent'
<1>1. /\ Len(Required) \in Nat /\ DOMAIN Required = 1..Len(Required)
      /\ \A i \in 1..Len(Required) : Required[i] \in Modules
  BY RequiredAssumption DEF Modules
<1>2. located \in Seq(Nodes \cup {NoDir}) /\ at \in 1..(Len(Required) + 1)
  BY DEF Bookkeeping, TypeOK
\* Every step that leaves the lists and the way the build goes alone.
<1>3. ASSUME UNCHANGED <<located, missing, vendored>>,
             Remove \/ Appear \/ UNCHANGED world,
             pc' \in {"dir", "gomod"} => pc \in {"dir", "gomod"},
             pc' \in {"next", "walk"} => Len(located) = Len(Required)
      PROVE  NotFoundWasAbsent'
  <2>1. \A m : AbsentOnce(m) => AbsentOnce(m)'
    BY <1>3, AbsenceStays
  <2> QED
    BY <1>3, <2>1 DEF NotFoundWasAbsent
<1>4. CASE UNCHANGED vars
  BY <1>3, <1>4 DEF vars, NotFoundWasAbsent
<1>5. CASE Remove \/ Appear
  BY <1>3, <1>5 DEF Remove, Appear, Change, NotFoundWasAbsent
<1>6. CASE PassOver \/ EnterDir \/ ReadFile
  BY <1>3, <1>6 DEF PassOver, EnterDir, ReadFile, Step, NotFoundWasAbsent
<1>7. CASE DirGone \/ ReadFileFails \/ ReadGoModFails
  BY <1>3, <1>7 DEF DirGone, ReadFileFails, ReadGoModFails, Step, Fail, NotFoundWasAbsent
<1>8. CASE DirDone \/ AllLocated \/ StartModule \/ Return
  BY <1>3, <1>8 DEF DirDone, AllLocated, StartModule, Return, NotFoundWasAbsent
<1>9. CASE ReadGoMod
  BY <1>1, <1>9 DEF ReadGoMod, NotFoundWasAbsent
<1>10. CASE LocateModule
  <2> DEFINE n == Len(located) + 1
  <2>1. /\ pc = "locate" /\ Len(located) < Len(Required)
        /\ located' = Append(located, Locate(Required[n]))
        /\ UNCHANGED <<world, pc, vendored, missing>>
    BY <1>10 DEF LocateModule
  <2>2. /\ Len(located') = n /\ n \in 1..Len(Required)
        /\ located'[n] = Locate(Required[n])
        /\ \A i \in 1..n : i # n => i \in 1..Len(located) /\ located'[i] = located[i]
    BY <1>1, <1>2, <2>1
  <2> HIDE DEF n
  <2>3. \A m : AbsentOnce(m) => AbsentOnce(m)'
    BY <2>1, AbsenceStays
  <2>4. Locate(Required[n]) = NoDir => AbsentOnce(Required[n])
    BY <1>1, <2>2, NotLocatedIsAbsent
  <2>5. \A i \in 1..Len(located') : located'[i] = NoDir => AbsentOnce(Required[i])'
    BY <2>2, <2>3, <2>4 DEF NotFoundWasAbsent
  <2>6. \A m \in missing' : AbsentOnce(m)'
    BY <2>1, <2>3 DEF NotFoundWasAbsent
  <2> QED
    BY <1>1, <2>1, <2>2, <2>5, <2>6 DEF NotFoundWasAbsent
<1>11. CASE NameMissing
  <2>1. /\ pc = "next" /\ at \in 1..Len(Required) /\ located[at] = NoDir
        /\ missing' = missing \cup {Required[at]}
        /\ UNCHANGED <<world, pc, vendored, located>>
    BY <1>1, <1>2, <1>11 DEF NameMissing
  <2>2. AbsentOnce(Required[at])
    BY <2>1 DEF NotFoundWasAbsent
  <2>3. \A m : AbsentOnce(m) => AbsentOnce(m)'
    BY <2>1, AbsenceStays
  <2>4. \A m \in missing' : AbsentOnce(m)'
    BY <2>1, <2>2, <2>3 DEF NotFoundWasAbsent
  <2> QED
    BY <2>1, <2>3, <2>4 DEF NotFoundWasAbsent
<1>12. CASE ModuleDone
  BY <1>3, <1>12 DEF ModuleDone, NotFoundWasAbsent
<1>13. CASE Ended
  BY <1>4, <1>13 DEF Ended
<1> QED
  BY <1>4, <1>5, <1>6, <1>7, <1>8, <1>9, <1>10, <1>11, <1>12, <1>13 DEF Next, Collect

LEMMA AlwaysAbsentWhereLookedFor ==
  ASSUME PlacesAreDirectories
  PROVE  Spec => []NotFoundWasAbsent
<1>1. Bookkeeping /\ NotFoundWasAbsent /\ [Next]_vars => NotFoundWasAbsent'
  BY NotFoundStep
<1> QED
  BY <1>1, NotFoundInit, ModulesAreCountedOnce, PTL DEF Spec

-----------------------------------------------------------------------------
\* What the walks of Sources reach, for every tree and whatever others change
\* while they last: a walk stays in its tree, misses nothing that was there
\* throughout, and fails for a reason of its own.

USE DEF world

-----------------------------------------------------------------------------
\* What a walk comes to.

LEMMA TopIsShown == \A top \in Nodes : \A names : top \in Shown(top, names)
  BY SubtreeStep, SubtreeIsNodes, NoCycles, UnderIsSubtree DEF Shown

LEMMA ShownChildren ==
  ASSUME NEW top \in Nodes, NEW names, NEW h \in Shown(top, names),
         h = top \/ Name[h] \notin names, NEW c \in Children(h)
  PROVE  c \in Shown(top, names)
<1>1. h \in Subtree[top] /\ h \in Nodes
  BY UnderIsSubtree, SubtreeIsNodes DEF Shown
<1>2. c \in Subtree[top] /\ c \in Nodes
  BY <1>1, SubtreeStep, SubtreeIsClosed
<1>3. ASSUME NEW d \in Subtree[top], d # top, c \in Subtree[d], d # c
      PROVE  Name[d] \notin names
  <2>1. d \in Nodes
    BY SubtreeIsNodes
  <2>2. h \in Subtree[d]
    BY <1>1, <1>3, <2>1, ParentIsBelow
  <2>3. CASE d = h
    BY <1>3, <2>3
  <2>4. CASE d # h
    BY <1>3, <2>1, <2>2, <2>4, UnderIsSubtree DEF Shown
  <2> QED
    BY <2>3, <2>4
<1>4. \A d \in Subtree[top] : Under(d) = Subtree[d]
  BY SubtreeIsNodes, UnderIsSubtree
<1> QED
  BY <1>2, <1>3, <1>4, UnderIsSubtree DEF Shown
-----------------------------------------------------------------------------
\* Where the modules are: what was found is where the build takes it from.

Located ==
  /\ pc \in {"dir", "gomod"} => located = << >>
  /\ Len(located) <= Len(Required)
  /\ pc \in {"next", "walk", "done"} => Len(located) = Len(Required)
  /\ \A i \in 1..Len(located) : located[i] # NoDir => located[i] = LooksIn(Required[i])
  /\ pc = "walk" => located[at] # NoDir

LEMMA LocatedInit == Init => Located
<1>1. Len(Required) \in Nat
  BY RequiredAssumption
<1> QED
  BY <1>1 DEF Init, Located

LEMMA LocatedStep == ASSUME Bookkeeping, Located, [Next]_vars PROVE Located'
<1>1. Len(Required) \in Nat /\ located \in Seq(Nodes \cup {NoDir})
  BY RequiredAssumption DEF Bookkeeping, TypeOK
\* Every step that leaves the list and the way the build goes alone.
<1>2. ASSUME UNCHANGED <<located, vendored>>,
             pc' \in {"dir", "gomod"} => pc \in {"dir", "gomod"},
             pc' \in {"next", "walk", "done"} => Len(located) = Len(Required),
             pc' = "walk" => located[at'] # NoDir
      PROVE  Located'
  <2>1. \A m : LooksIn(m)' = LooksIn(m)
    BY <1>2, LooksInStays
  <2> QED
    BY <1>2, <2>1 DEF Located
<1>3. CASE UNCHANGED vars
  BY <1>2, <1>3 DEF vars, Located
<1>4. CASE Remove \/ Appear
  BY <1>2, <1>4 DEF Remove, Appear, Change, Located
<1>5. CASE PassOver \/ EnterDir \/ ReadFile
  BY <1>2, <1>5 DEF PassOver, EnterDir, ReadFile, Step, Located
<1>6. CASE DirGone \/ ReadFileFails \/ ReadGoModFails
  BY <1>2, <1>6 DEF DirGone, ReadFileFails, ReadGoModFails, Step, Fail, Located
<1>7. CASE DirDone \/ AllLocated \/ StartModule \/ ModuleDone \/ Return \/ NameMissing
  BY <1>2, <1>7
     DEF DirDone, AllLocated, StartModule, ModuleDone, Return, NameMissing, Located
<1>8. CASE ReadGoMod
  BY <1>1, <1>8 DEF ReadGoMod, Located
<1>9. CASE LocateModule
  <2> DEFINE n == Len(located) + 1
  <2>1. /\ pc = "locate" /\ Len(located) < Len(Required)
        /\ located' = Append(located, Locate(Required[n]))
        /\ UNCHANGED <<pc, vendored>>
    BY <1>9 DEF LocateModule
  <2>2. /\ Len(located') = n /\ located'[n] = Locate(Required[n])
        /\ \A i \in 1..n : i # n => i \in 1..Len(located) /\ located'[i] = located[i]
        /\ n <= Len(Required)
    BY <1>1, <2>1
  <2> HIDE DEF n
  <2>3. \A m : LooksIn(m)' = LooksIn(m)
    BY <2>1, LooksInStays
  <2>4. Locate(Required[n]) # NoDir => Locate(Required[n]) = LooksIn(Required[n])
    BY LooksInCases
  <2> QED
    BY <2>1, <2>2, <2>3, <2>4 DEF Located
<1>10. CASE Ended
  BY <1>3, <1>10 DEF Ended
<1> QED
  BY <1>3, <1>4, <1>5, <1>6, <1>7, <1>8, <1>9, <1>10 DEF Next, Collect

LEMMA AlwaysLocated == Spec => []Located
<1>1. Bookkeeping /\ Located /\ [Next]_vars => Located'
  BY LocatedStep
<1> QED
  BY <1>1, LocatedInit, ModulesAreCountedOnce, PTL DEF Spec

-----------------------------------------------------------------------------
\* Where a walk is, and where what it found stands.

\* What is still to visit can be come to from the root of the walk, and what
\* was found stands where its module is.
Walks ==
  /\ todo \in Seq(Nodes)
  /\ pc \in {"dir", "walk"} =>
       \A n : Holds(todo, n) => n \in Shown(Top, SkippedNames)

Attributions ==
  \A finding \in found :
    IF finding.module = FirstParty
    THEN finding.file \in Under(Root) \ Under(Vendor)
    ELSE \E i \in 1..Len(located) :
           /\ Required[i] = finding.module
           /\ finding.file \in Below(located[i], DependencySkips)

LEMMA WalksInit == Init => Walks
<1> SUFFICES ASSUME Init PROVE Walks
  OBVIOUS
<1>1. Root \in Nodes /\ todo = <<Root>> /\ pc = "dir"
  BY TreeAssumption DEF Init
<1>2. \A n : Holds(todo, n) => n = Root
  BY <1>1 DEF Holds
<1> QED
  BY <1>1, <1>2, TopIsShown DEF Walks, Top

LEMMA TopIsANode ==
  ASSUME Bookkeeping, Located, pc \in {"dir", "walk"}
  PROVE  Top \in Nodes
<1>1. at \in 1..Len(Required) \/ pc = "dir"
  BY DEF Bookkeeping, Counted, TypeOK
<1>2. pc = "walk" => located[at] \in Nodes \cup {NoDir}
  BY <1>1 DEF Bookkeeping, TypeOK, Located
<1> QED
  BY <1>2, TreeAssumption DEF Top, Located

LEMMA WalksStep == ASSUME Bookkeeping, Located, Walks, [Next]_vars PROVE Walks'
<1>1. CASE UNCHANGED <<pc, todo, located, at>>
  BY <1>1 DEF Walks, Top, SkippedNames, Shown, Under
<1>2. CASE pc' \notin {"dir", "walk"} /\ todo' = todo
  BY <1>2 DEF Walks
\* A step of a walk puts something else in the place of its next entry.
<1>3. ASSUME Walking, NEW more \in Seq(Nodes),
             todo' = more \o Tail(todo), UNCHANGED <<pc, located, at>>,
             \A n : Holds(more, n) => n \in Shown(Top, SkippedNames)
      PROVE  Walks'
  <2>1. /\ Tail(todo) \in Seq(Nodes)
        /\ \A n : Holds(Tail(todo), n) => Holds(todo, n)
    BY <1>3, TailHolds DEF Walking, Walks
  <2>2. /\ todo' \in Seq(Nodes)
        /\ \A n : Holds(todo', n) <=> Holds(more, n) \/ Holds(Tail(todo), n)
    BY <1>3, <2>1, ConcatHolds
  <2>3. Top' = Top /\ SkippedNames' = SkippedNames
    BY <1>3 DEF Top, SkippedNames
  <2>4. \A top, names : Shown(top, names)' = Shown(top, names)
    BY DEF Shown, Under
  <2>5. \A n : Holds(todo', n) => n \in Shown(Top, SkippedNames)
    BY <1>3, <2>1, <2>2 DEF Walking, Walks
  <2> QED
    BY <2>2, <2>3, <2>4, <2>5 DEF Walks
<1>4. CASE Walking /\ todo' = Tail(todo) /\ UNCHANGED <<pc, located, at>>
  <2>1. Tail(todo) \in Seq(Nodes)
    BY <1>4, TailHolds DEF Walking, Walks
  <2>2. todo' = << >> \o Tail(todo) /\ << >> \in Seq(Nodes) /\ \A n : ~Holds(<< >>, n)
    BY <1>4, <2>1 DEF Holds
  <2> QED
    BY <1>3, <1>4, <2>2
<1>5. CASE PassOver \/ ReadFile
  BY <1>4, <1>5 DEF PassOver, ReadFile, Step
<1>6. CASE ReadFileFails
  BY <1>2, <1>4, <1>6 DEF ReadFileFails, Fail, Step
<1>7. CASE EnterDir
  <2> DEFINE h == Head(todo)
             more == Only(Entries[h], disk)
  <2>1. /\ Walking /\ Entered(h) /\ todo' = more \o Tail(todo)
        /\ UNCHANGED <<pc, located, at>>
    BY <1>7 DEF EnterDir, Step
  <2>2. h \in Shown(Top, SkippedNames) /\ h \in Nodes
    BY <2>1, TailHolds DEF Walking, Walks
  <2>3. Entries[h] \in Seq(Nodes)
    BY <2>2, TreeAssumption
  <2>4. /\ more \in Seq(Nodes)
        /\ \A n : Holds(more, n) => Holds(Entries[h], n)
    BY <2>3, OnlyKeeps
  <2>5. \A n : Holds(Entries[h], n) => n \in Children(h)
    BY <2>1, <2>3 DEF Holds, Children, Entered
  <2>6. h = Top \/ Name[h] \notin SkippedNames
    BY <2>1 DEF Entered, Skipped
  <2>7. Top \in Nodes
    BY <2>1, TopIsANode DEF Walking
  <2> HIDE DEF h, more
  <2>8. \A n : Holds(more, n) => n \in Shown(Top, SkippedNames)
    BY <2>2, <2>4, <2>5, <2>6, <2>7, ShownChildren
  <2> QED
    BY <1>3, <2>1, <2>4, <2>8
<1>8. CASE DirGone \/ DirDone \/ ReadGoModFails \/ ModuleDone \/ Return \/ AllLocated
  BY <1>2, <1>8 DEF DirGone, DirDone, ReadGoModFails, ModuleDone, Return, AllLocated, Fail
<1>9. CASE ReadGoMod \/ LocateModule \/ NameMissing
  BY <1>2, <1>9 DEF ReadGoMod, LocateModule, NameMissing
<1>10. CASE StartModule
  <2>1. /\ pc = "next" /\ pc' = "walk" /\ todo' = <<located[at]>> /\ at <= Len(Required)
        /\ UNCHANGED <<located, at>> /\ located[at] # NoDir
    BY <1>10 DEF StartModule
  <2>2. located[at] \in Nodes
    <3>1. at \in 1..Len(located) /\ located \in Seq(Nodes \cup {NoDir})
      BY <2>1, RequiredAssumption DEF Bookkeeping, TypeOK, Located
    <3> QED
      BY <2>1, <3>1
  <2>3. Top' = located[at]
    BY <2>1 DEF Top
  <2>4. \A n : Holds(todo', n) => n = located[at]
    BY <2>1 DEF Holds
  <2>5. todo' \in Seq(Nodes)
    BY <2>1, <2>2
  <2>6. \A n : Holds(todo', n) => n \in Shown(located[at], SkippedNames')
    BY <2>2, <2>4, TopIsShown
  <2>7. \A top, names : Shown(top, names)' = Shown(top, names)
    BY DEF Shown, Under
  <2> QED
    BY <2>3, <2>5, <2>6, <2>7 DEF Walks
<1>11. CASE Remove \/ Appear
  BY <1>1, <1>11 DEF Remove, Appear, Change
<1>12. CASE UNCHANGED vars
  BY <1>1, <1>12 DEF vars
<1> QED
  BY <1>5, <1>6, <1>7, <1>8, <1>9, <1>10, <1>11, <1>12 DEF Next, Collect, Ended
LEMMA AlwaysWalks == Spec => []Walks
<1>1. Bookkeeping /\ Located /\ Walks /\ [Next]_vars => Walks'
  BY WalksStep
<1> QED
  BY <1>1, WalksInit, ModulesAreCountedOnce, AlwaysLocated, PTL DEF Spec

\* The directory's own walk does not come to Go files below vendor.
LEMMA VendorIsHidden ==
  ASSUME NEW f \in Shown(Root, {"vendor", "hidden"}),
         Kind[f] \in {"source", "malformed", "test"}
  PROVE  f \in Under(Root) \ Under(Vendor)
<1>1. Root \in Nodes /\ Vendor \in Nodes /\ Root \notin Subtree[Vendor]
  BY TreeAssumption, PathsAssumption
<1>2. f \in Subtree[Root]
  BY <1>1, UnderIsSubtree DEF Shown
<1> SUFFICES ASSUME f \in Subtree[Vendor] PROVE FALSE
  BY <1>1, <1>2, UnderIsSubtree
<1>3. Vendor \in Subtree[Root] \ {Root}
  BY <1>1, <1>2, MeetingSubtrees, SubtreeStep
<1>4. f # Vendor /\ Name[Vendor] = "vendor"
  BY PathsAssumption
<1> QED
  BY <1>1, <1>3, <1>4, UnderIsSubtree DEF Shown

LEMMA AttributionsStep ==
  ASSUME Bookkeeping, Located, Walks, Attributions, [Next]_vars
  PROVE  Attributions'
<1>1. \A top, names : Below(top, names)' = Below(top, names)
  BY DEF Below, Shown, Under
<1>2. CASE UNCHANGED <<found, located>>
  BY <1>1, <1>2 DEF Attributions, Under
<1>3. CASE ReadFile
  <2> DEFINE h == Head(todo)
             finding == [file |-> h, module |-> IF pc = "dir" THEN FirstParty ELSE Required[at]]
  <2>1. /\ found' = found \cup {finding} /\ UNCHANGED located
        /\ Walking /\ GoFile(h) /\ Kind[h] # "malformed"
    BY <1>3 DEF ReadFile
  <2>2. h \in Shown(Top, SkippedNames) /\ pc \in {"dir", "walk"}
    BY <2>1, TailHolds DEF Walking, Walks
  <2>3. CASE pc = "dir"
    <3>1. h \in Shown(Root, {"vendor", "hidden"}) /\ Kind[h] \in {"source", "test"}
      BY <2>1, <2>2, <2>3 DEF Top, SkippedNames, GoFile
    <3>2. finding.module = FirstParty /\ finding.file \in Under(Root) \ Under(Vendor)
      BY <2>3, <3>1, VendorIsHidden
    <3> HIDE DEF finding
    <3> QED
      BY <1>1, <2>1, <3>2 DEF Attributions, Under
  <2>4. CASE pc = "walk"
    <3>1. at \in 1..Len(Required) /\ at \in 1..Len(located)
      BY <2>4, RequiredAssumption DEF Bookkeeping, Counted, TypeOK, Located
    <3>2. Required[at] # FirstParty
      BY <3>1, RequiredAssumption DEF Modules
    <3>3. h \in Below(located[at], DependencySkips)
      BY <2>1, <2>2, <2>4 DEF Top, SkippedNames, DependencySkips, GoFile, Below
    <3>4. /\ finding.module = Required[at] /\ finding.module # FirstParty
          /\ finding.file \in Below(located[at], DependencySkips)
      BY <2>4, <3>2, <3>3
    <3> HIDE DEF finding
    <3> QED
      BY <1>1, <2>1, <3>1, <3>4 DEF Attributions, Under
  <2> QED
    BY <2>2, <2>3, <2>4
<1>4. CASE LocateModule
  <2>1. found' = found /\ located' = Append(located, Locate(Required[Len(located) + 1]))
    BY <1>4 DEF LocateModule
  <2>2. \A i \in 1..Len(located) : i \in 1..Len(located') /\ located'[i] = located[i]
    BY <2>1 DEF Bookkeeping, TypeOK
  <2> QED
    BY <1>1, <2>1, <2>2 DEF Attributions, Under
<1>5. CASE PassOver \/ EnterDir \/ DirGone \/ ReadFileFails
  BY <1>2, <1>5 DEF PassOver, EnterDir, DirGone, ReadFileFails, Step, Fail
<1>6. CASE DirDone \/ ReadGoMod \/ ReadGoModFails \/ AllLocated
  BY <1>2, <1>6 DEF DirDone, ReadGoMod, ReadGoModFails, AllLocated, Fail
<1>7. CASE NameMissing \/ StartModule \/ ModuleDone \/ Return
  BY <1>2, <1>7 DEF NameMissing, StartModule, ModuleDone, Return
<1>8. CASE Remove \/ Appear
  BY <1>2, <1>8 DEF Remove, Appear, Change
<1>9. CASE UNCHANGED vars
  BY <1>2, <1>9 DEF vars
<1> QED
  BY <1>3, <1>4, <1>5, <1>6, <1>7, <1>8, <1>9 DEF Next, Collect, Ended

LEMMA AlwaysAttributed == Spec => []Attributions
<1>1. Init => Attributions
  BY DEF Init, Attributions
<1>2. Bookkeeping /\ Located /\ Walks /\ Attributions /\ [Next]_vars => Attributions'
  BY AttributionsStep
<1> QED
  BY <1>1, <1>2, ModulesAreCountedOnce, AlwaysLocated, AlwaysWalks, PTL DEF Spec

LEMMA DirOfRequired ==
  ASSUME NEW i \in 1..Len(Required) PROVE DirOf(Required[i]) = located[i]
<1>1. i \in DOMAIN Required
  BY RequiredAssumption
<1>2. \A j \in DOMAIN Required : Required[j] = Required[i] => j = i
  BY <1>1, RequiredAssumption
<1>3. (CHOOSE j \in DOMAIN Required : Required[j] = Required[i]) = i
  BY <1>1, <1>2
<1> QED
  BY <1>3 DEF DirOf

\* A walk stays in its tree, and a finding stands in the tree of the module it
\* is attributed to, outside what no consumer links (modules.go:49-51).
THEOREM WalksStayInTheirTrees == Spec => []AttributedToItsTree
<1>1. ASSUME Bookkeeping, Located, Walks, Attributions PROVE AttributedToItsTree
  <2>1. pc \in {"dir", "walk"} => todo \in Seq(Under(Top))
    <3>1. pc \in {"dir", "walk"} => \A n : Holds(todo, n) => n \in Under(Top)
      BY <1>1 DEF Walks, Shown
    <3> QED
      BY <1>1, <3>1, HoldsOnly DEF Walks
  <2>2. ASSUME NEW finding \in found, finding.module # FirstParty
        PROVE  finding.file \in Below(DirOf(finding.module), DependencySkips)
    <3>1. PICK i \in 1..Len(located) :
            /\ Required[i] = finding.module
            /\ finding.file \in Below(located[i], DependencySkips)
      BY <1>1, <2>2 DEF Attributions
    <3>2. i \in 1..Len(Required)
      BY <1>1, RequiredAssumption DEF Located, Bookkeeping, TypeOK
    <3> QED
      BY <3>1, <3>2, DirOfRequired
  <2>3. \A finding \in found : finding.module = FirstParty =>
                                finding.file \in Under(Root) \ Under(Vendor)
    BY <1>1 DEF Attributions
  <2> QED
    BY <2>1, <2>2, <2>3 DEF AttributedToItsTree
<1> QED
  BY <1>1, ModulesAreCountedOnce, AlwaysLocated, AlwaysWalks, AlwaysAttributed, PTL

-----------------------------------------------------------------------------
\* Where the trees are apart.

\* Where the modules are kept outside each other, and outside the directory
\* unless they are vendored, no file is in the inventory twice.
THEOREM FilesAreReportedOnce ==
  ASSUME TreesApart
  PROVE  Spec => []ReportedOnce
<1>1. ASSUME Bookkeeping, Located, Attributions PROVE ReportedOnce
  <2>1. ASSUME NEW finding \in found, finding.module # FirstParty
        PROVE  /\ finding.module \in Modules
               /\ \E p \in PlacesOf(finding.module) : finding.file \in Under(p)
    <3>1. PICK i \in 1..Len(located) :
            /\ Required[i] = finding.module
            /\ finding.file \in Below(located[i], DependencySkips)
      BY <1>1, <2>1 DEF Attributions
    <3>2. i \in DOMAIN Required /\ finding.file \in Under(located[i])
      BY <1>1, <3>1, RequiredAssumption DEF Located, Bookkeeping, TypeOK, Below, Shown
    <3>3. located[i] = LooksIn(Required[i])
      BY <1>1, <3>2 DEF Located, Under
    <3>4. located[i] \in PlacesOf(finding.module)
      BY <3>1, <3>3, LooksInCases DEF PlacesOf
    <3> QED
      BY <3>1, <3>2, <3>4 DEF Modules
  <2>2. \A finding \in found : finding = [file |-> finding.file, module |-> finding.module]
    BY <1>1 DEF Bookkeeping, TypeOK
  <2>3. ASSUME NEW one \in found, NEW other \in found, one.file = other.file
        PROVE  one.module = other.module
    <3>1. CASE one.module # FirstParty /\ other.module # FirstParty
      BY <2>1, <2>3, <3>1 DEF TreesApart
    <3>2. CASE one.module = FirstParty \/ other.module = FirstParty
      <4>1. \A finding \in found : finding.module = FirstParty =>
                                    finding.file \in Under(Root) \ Under(Vendor)
        BY <1>1 DEF Attributions
      <4> QED
        BY <2>1, <2>3, <3>2, <4>1 DEF TreesApart
    <3> QED
      BY <3>1, <3>2
  <2> QED
    BY <2>2, <2>3 DEF ReportedOnce
<1> QED
  BY <1>1, ModulesAreCountedOnce, AlwaysLocated, AlwaysAttributed, PTL
-----------------------------------------------------------------------------
\* The vendor directory.

VendorThroughout == isDir(Vendor) /\ {Vendor, Target(Vendor)} \cap touched = {}

\* A vendor directory that has been there all the time was seen.
VendorWasSeen ==
  (pc \in {"locate", "next", "walk", "done"} /\ VendorThroughout) => vendored

LEMMA VendorWasSeenStep == VendorWasSeen /\ [Next]_vars => VendorWasSeen'
<1> SUFFICES ASSUME VendorWasSeen, [Next]_vars PROVE VendorWasSeen'
  OBVIOUS
<1>1. CASE UNCHANGED <<world, vendored>> /\ pc \in {"locate", "next", "walk", "done"}
  BY <1>1 DEF VendorWasSeen, VendorThroughout, isDir
<1>2. CASE pc' \notin {"locate", "next", "walk", "done"}
  BY <1>2 DEF VendorWasSeen
<1>3. CASE Remove \/ Appear
  <2>1. disk' \ touched' \subseteq disk \ touched /\ UNCHANGED <<pc, vendored>>
    BY <1>3 DEF Remove, Appear, Change
  <2>2. VendorThroughout' => VendorThroughout
    BY <2>1 DEF VendorThroughout, isDir
  <2> QED
    BY <2>1, <2>2 DEF VendorWasSeen
<1>4. CASE ReadGoMod
  BY <1>4 DEF ReadGoMod, VendorWasSeen, VendorThroughout, isDir
<1>5. CASE PassOver \/ EnterDir \/ ReadFile
  BY <1>1, <1>2, <1>5 DEF PassOver, EnterDir, ReadFile, Step, Walking
<1>6. CASE DirGone \/ ReadFileFails \/ DirDone \/ ReadGoModFails
  BY <1>1, <1>2, <1>6
     DEF DirGone, ReadFileFails, DirDone, ReadGoModFails, Step, Fail, Walking
<1>7. CASE LocateModule \/ AllLocated \/ NameMissing \/ StartModule \/ ModuleDone \/ Return
  BY <1>1, <1>7 DEF LocateModule, AllLocated, NameMissing, StartModule, ModuleDone, Return
<1>8. CASE UNCHANGED vars
  BY <1>1, <1>2, <1>8 DEF vars
<1> QED
  BY <1>3, <1>4, <1>5, <1>6, <1>7, <1>8 DEF Next, Collect, Ended

\* Where there is a vendor directory throughout, it or a replace directive is
\* where every dependency's finding stands (modules.go:166-167).
THEOREM VendorAnswersTheBuild == Spec => []VendorIsTheAnswer
<1>1. Init => VendorWasSeen
  BY DEF Init, VendorWasSeen
<1>2. ASSUME Bookkeeping, Located, Attributions, VendorWasSeen PROVE VendorIsTheAnswer
  <2> SUFFICES ASSUME pc = "done", VendorThroughout,
                      NEW finding \in found, finding.module # FirstParty
               PROVE  finding.file \in Under(Where[finding.module].local)
                                      \cup Under(Where[finding.module].vendor)
    BY DEF VendorIsTheAnswer, VendorThroughout
  <2>1. PICK i \in 1..Len(located) :
          /\ Required[i] = finding.module
          /\ finding.file \in Below(located[i], DependencySkips)
    BY <1>2 DEF Attributions
  <2>2. vendored
    BY <1>2 DEF VendorWasSeen
  <2>3. finding.file \in Under(located[i]) /\ located[i] # NoDir
    BY <2>1 DEF Below, Shown, Under
  <2>4. located[i] = LooksIn(finding.module)
    BY <1>2, <2>1, <2>3 DEF Located
  <2> QED
    BY <2>2, <2>3, <2>4, LooksInCases
<1> QED
  BY <1>1, <1>2, VendorWasSeenStep, ModulesAreCountedOnce, AlwaysLocated,
     AlwaysAttributed, PTL DEF Spec

-----------------------------------------------------------------------------
\* Why a run fails.

\* As long as nobody changes anything, what is to be visited is there, but for
\* a Root that never was.
Calm ==
  touched = {} =>
    /\ \A i \in 1..Len(located) : located[i] # NoDir => located[i] \in disk
    /\ pc \in {"dir", "walk"} =>
         \A n : Holds(todo, n) => n \in disk \/ (pc = "dir" /\ n = Root)

CalmOrFailed == Calm /\ FailureHasItsCause

LEMMA CalmInit == Init => CalmOrFailed
<1> SUFFICES ASSUME Init PROVE CalmOrFailed
  OBVIOUS
<1>1. \A n : Holds(todo, n) => n = Root
  BY DEF Init, Holds
<1> QED
  BY <1>1 DEF Init, CalmOrFailed, Calm, FailureHasItsCause

LEMMA CalmStep ==
  ASSUME Bookkeeping, Located, Walks, CalmOrFailed, [Next]_vars
  PROVE  CalmOrFailed'
<1>1. CASE UNCHANGED vars
  BY <1>1 DEF vars, CalmOrFailed, Calm, FailureHasItsCause, Under
<1>2. CASE Remove \/ Appear
  <2>1. PICK n \in Nodes : touched' = touched \cup Under(n) /\ pc' = pc /\ pc # "failed"
    BY <1>2 DEF Remove, Appear, Change, Bookkeeping, TypeOK
  <2>2. n \in Under(n)
    BY SubtreeStep, UnderIsSubtree
  <2> QED
    BY <2>1, <2>2 DEF CalmOrFailed, Calm, FailureHasItsCause
<1> USE DEF CalmOrFailed, Calm
<1>3. ASSUME UNCHANGED <<world, located>>, pc' \notin {"dir", "walk", "failed"}
      PROVE  CalmOrFailed'
  BY <1>3 DEF FailureHasItsCause
<1>4. ASSUME Walking, UNCHANGED <<world, located, pc>>, NEW more \in Seq(Nodes),
             todo' = more \o Tail(todo), \A n : Holds(more, n) => n \in disk
      PROVE  CalmOrFailed'
  <2>1. /\ Tail(todo) \in Seq(Nodes)
        /\ \A n : Holds(Tail(todo), n) => Holds(todo, n)
    BY <1>4, TailHolds DEF Walking, Walks
  <2>2. \A n : Holds(todo', n) <=> Holds(more, n) \/ Holds(Tail(todo), n)
    BY <1>4, <2>1, ConcatHolds
  <2> QED
    BY <1>4, <2>1, <2>2 DEF Walking, FailureHasItsCause
<1>5. CASE Walking /\ todo' = Tail(todo) /\ UNCHANGED <<world, located, pc>>
  <2>1. Tail(todo) \in Seq(Nodes)
    BY <1>5, TailHolds DEF Walking, Walks
  <2>2. todo' = << >> \o Tail(todo) /\ << >> \in Seq(Nodes) /\ \A n : ~Holds(<< >>, n)
    BY <1>5, <2>1 DEF Holds
  <2> QED
    BY <1>4, <1>5, <2>2
<1>6. CASE PassOver \/ ReadFile
  BY <1>5, <1>6 DEF PassOver, ReadFile, Step
<1>7. CASE EnterDir
  <2> DEFINE h == Head(todo)
             more == Only(Entries[h], disk)
  <2>1. Walking /\ todo' = more \o Tail(todo) /\ UNCHANGED <<world, located, pc>>
    BY <1>7 DEF EnterDir, Step
  <2>2. Entries[h] \in Seq(Nodes)
    BY <2>1, TailHolds, TreeAssumption DEF Walking, Walks
  <2>3. more \in Seq(Nodes) /\ \A n : Holds(more, n) => n \in disk
    BY <2>2, OnlyKeeps
  <2> HIDE DEF h, more
  <2> QED
    BY <1>4, <2>1, <2>3
\* The next entry is there, but for a Root that never was.
<1>8. Walking /\ touched = {} => Head(todo) \in disk \/ (pc = "dir" /\ Head(todo) = Root)
  BY TailHolds DEF Walking, Walks
<1>9. CASE DirGone
  BY <1>8, <1>9 DEF DirGone, Fail, Present, FailureHasItsCause
<1>10. CASE ReadFileFails
  <2>1. CASE pc = "walk"
    BY <1>5, <1>10, <2>1 DEF ReadFileFails, Step
  <2>2. CASE pc = "dir"
    <3> DEFINE h == Head(todo)
    <3>1. /\ Walking /\ GoFile(h)
          /\ h = Root => h \in disk
          /\ h \notin disk \/ Kind[h] = "malformed"
          /\ pc' = "failed" /\ UNCHANGED <<world, located>>
      BY <1>10, <2>2 DEF ReadFileFails, Fail, Top, Present
    <3>2. h \in Shown(Root, {"vendor", "hidden"})
      BY <2>2, <3>1, TailHolds DEF Walking, Walks, Top, SkippedNames
    <3>3. Kind[h] = "malformed" => h \in Under(Root) \ Under(Vendor)
      BY <3>2, VendorIsHidden
    <3> HIDE DEF h
    <3>4. touched = {} => h \in disk /\ Kind[h] = "malformed"
      BY <1>8, <3>1 DEF h
    <3> QED
      BY <3>1, <3>3, <3>4 DEF FailureHasItsCause, Under
  <2> QED
    BY <1>10, <2>1, <2>2 DEF ReadFileFails, Walking
<1>11. CASE ReadGoModFails
  BY <1>11 DEF ReadGoModFails, Fail, Present, FailureHasItsCause
<1>12. CASE LocateModule
  <2> DEFINE n == Len(located) + 1
  <2>1. /\ pc = "locate" /\ located' = Append(located, Locate(Required[n]))
        /\ UNCHANGED <<world, pc, todo>>
    BY <1>12 DEF LocateModule
  <2>2. /\ Len(located') = n /\ located'[n] = Locate(Required[n])
        /\ \A i \in 1..n : i # n => i \in 1..Len(located) /\ located'[i] = located[i]
    BY <2>1 DEF Bookkeeping, TypeOK
  <2> HIDE DEF n
  <2>3. Locate(Required[n]) # NoDir => Locate(Required[n]) \in disk
    BY LooksInCases DEF isDir
  <2> QED
    BY <2>1, <2>2, <2>3 DEF FailureHasItsCause
<1>13. CASE StartModule
  <2>1. /\ pc = "next" /\ pc' = "walk" /\ todo' = <<located[at]>> /\ located[at] # NoDir
        /\ UNCHANGED <<world, located>> /\ at <= Len(Required)
    BY <1>13 DEF StartModule
  <2>2. at \in 1..Len(located)
    BY <2>1, RequiredAssumption DEF Bookkeeping, TypeOK, Located
  <2>3. \A m : Holds(todo', m) => m = located[at]
    BY <2>1 DEF Holds
  <2> QED
    BY <2>1, <2>2, <2>3 DEF FailureHasItsCause
<1>14. CASE DirDone \/ ReadGoMod \/ AllLocated \/ NameMissing \/ ModuleDone \/ Return
  BY <1>3, <1>14 DEF DirDone, ReadGoMod, AllLocated, NameMissing, ModuleDone, Return
<1> QED
  BY <1>1, <1>2, <1>6, <1>7, <1>9, <1>10, <1>11, <1>12, <1>13, <1>14
     DEF Next, Collect, Ended

\* Somebody else's broken file never fails the inventory: a run fails for what
\* is wrong in the directory itself, or for what others changed meanwhile.
THEOREM FailuresHaveTheirCause == Spec => []FailureHasItsCause
<1>1. Bookkeeping /\ Located /\ Walks /\ CalmOrFailed /\ [Next]_vars => CalmOrFailed'
  BY CalmStep
<1>2. CalmOrFailed => FailureHasItsCause
  BY DEF CalmOrFailed
<1> QED
  BY <1>1, <1>2, CalmInit, ModulesAreCountedOnce, AlwaysLocated, AlwaysWalks, PTL DEF Spec
-----------------------------------------------------------------------------
\* What was read was searched.

Searched(top, names, module) ==
  \A f \in Below(top, names) :
    Undisturbed(top, f) => [file |-> f, module |-> module] \in found

\* What has not been found yet is below an entry that is still to be visited.
BeingSearched(top, names, module) ==
  \A f \in Below(top, names) :
    Undisturbed(top, f) =>
      \/ [file |-> f, module |-> module] \in found
      \/ \E n : Holds(todo, n) /\ f \in Subtree[n]

\* Whose code the walk under way is in.
Whose == IF pc = "dir" THEN FirstParty ELSE Required[at]

Searches ==
  /\ pc \in {"dir", "walk"} => BeingSearched(Top, SkippedNames, Whose)
  /\ pc \notin {"dir", "failed"} => Searched(Root, {"vendor", "hidden"}, FirstParty)
  /\ \A m \in read : \E i \in 1..Len(located) :
       Required[i] = m /\ located[i] # NoDir /\ Searched(located[i], DependencySkips, m)

LEMMA TreesStandStill ==
  /\ \A top, names : Below(top, names)' = Below(top, names)
  /\ \A n : Under(n)' = Under(n)
  BY DEF Below, Shown, Under

\* What was searched stays so: nothing found is lost, and what is undisturbed
\* was undisturbed before.
LEMMA SearchedStays ==
  ASSUME found \subseteq found', Remove \/ Appear \/ UNCHANGED world
  PROVE  /\ \A top, f : Undisturbed(top, f)' => Undisturbed(top, f)
         /\ \A top, names, m : Searched(top, names, m) => Searched(top, names, m)'
<1>1. disk' \ touched' \subseteq disk \ touched
  BY DEF Remove, Appear, Change
<1>2. \A top, f : Undisturbed(top, f)' => Undisturbed(top, f)
  BY <1>1, TreesStandStill DEF Undisturbed
<1> QED
  BY <1>2, TreesStandStill DEF Searched

LEMMA SearchesInit == Init => Searches
<1> SUFFICES ASSUME Init PROVE Searches
  OBVIOUS
<1>1. pc = "dir" /\ todo = <<Root>> /\ read = {} /\ Root \in Nodes
  BY TreeAssumption DEF Init
<1>2. Holds(todo, Root) /\ Top = Root
  BY <1>1 DEF Holds, Top
<1>3. \A f \in Below(Root, SkippedNames) : f \in Subtree[Root]
  BY <1>1, UnderIsSubtree DEF Below, Shown
<1> QED
  BY <1>1, <1>2, <1>3 DEF Searches, BeingSearched

LEMMA SearchesStep ==
  ASSUME Bookkeeping, Located, Walks, Searches, [Next]_vars
  PROVE  Searches'
\* Every step of a walk that loses nothing of what is below its next entry.
<1>1. ASSUME Walking, UNCHANGED <<world, pc, located, at, read>>, found \subseteq found',
             \A n : Holds(Tail(todo), n) => Holds(todo', n),
             \A f \in Below(Top, SkippedNames) :
               Undisturbed(Top, f) /\ f \in Subtree[Head(todo)] =>
                 \/ [file |-> f, module |-> Whose] \in found'
                 \/ \E n : Holds(todo', n) /\ f \in Subtree[n]
      PROVE  Searches'
  <2>1. /\ \A top, f : Undisturbed(top, f)' => Undisturbed(top, f)
        /\ \A top, names, m : Searched(top, names, m) => Searched(top, names, m)'
    BY <1>1, SearchedStays
  <2>2. Top' = Top /\ SkippedNames' = SkippedNames /\ Whose' = Whose
    BY <1>1 DEF Top, SkippedNames, Whose
  <2>3. \A n : Holds(todo, n) <=> n = Head(todo) \/ Holds(Tail(todo), n)
    BY <1>1, TailHolds DEF Walking, Walks
  <2>4. pc \in {"dir", "walk"} /\ BeingSearched(Top, SkippedNames, Whose)
    BY <1>1 DEF Walking, Searches
  <2>5. \A f \in Below(Top, SkippedNames) : Undisturbed(Top, f) =>
          \/ [file |-> f, module |-> Whose] \in found'
          \/ \E n : Holds(todo', n) /\ f \in Subtree[n]
    BY <1>1, <2>3, <2>4 DEF BeingSearched
  <2>6. BeingSearched(Top, SkippedNames, Whose)'
    BY <2>1, <2>2, <2>5, TreesStandStill DEF BeingSearched
  <2> QED
    BY <1>1, <2>1, <2>6 DEF Searches
\* Every step outside a walk that leaves what was found alone.
<1>2. ASSUME UNCHANGED <<found, read>>, Remove \/ Appear \/ UNCHANGED world,
             \A i \in 1..Len(located) : i \in 1..Len(located') /\ located'[i] = located[i],
             pc' \notin {"dir", "walk"}, pc # "dir" \/ pc' = "failed",
             pc = "failed" => pc' = "failed"
      PROVE  Searches'
  <2>1. \A top, names, m : Searched(top, names, m) => Searched(top, names, m)'
    BY <1>2, SearchedStays
  <2> QED
    BY <1>2, <2>1 DEF Searches
<1>3. CASE /\ UNCHANGED <<pc, todo, located, at, found, read>>
           /\ Remove \/ Appear \/ UNCHANGED world
  <2>1. /\ \A top, f : Undisturbed(top, f)' => Undisturbed(top, f)
        /\ \A top, names, m : Searched(top, names, m) => Searched(top, names, m)'
    BY <1>3, SearchedStays
  <2>2. Top' = Top /\ SkippedNames' = SkippedNames /\ Whose' = Whose
    BY <1>3 DEF Top, SkippedNames, Whose
  <2>3. BeingSearched(Top, SkippedNames, Whose) => BeingSearched(Top, SkippedNames, Whose)'
    BY <1>3, <2>1, <2>2, TreesStandStill DEF BeingSearched
  <2> QED
    BY <1>3, <2>1, <2>3 DEF Searches
<1>4. ASSUME Walking
      PROVE  /\ Top \in Nodes
             /\ Head(todo) \in Subtree[Top] /\ Head(todo) \in Nodes
             /\ Tail(todo) \in Seq(Nodes)
  <2>1. Top \in Nodes
    BY <1>4, TopIsANode DEF Walking
  <2>2. /\ Head(todo) \in Shown(Top, SkippedNames)
        /\ Head(todo) \in Nodes /\ Tail(todo) \in Seq(Nodes)
    BY <1>4, TailHolds DEF Walking, Walks
  <2> QED
    BY <2>1, <2>2, UnderIsSubtree DEF Shown
\* A source file below an entry that is no directory is that entry.
<1>5. ASSUME Walking, NEW f \in Below(Top, SkippedNames), f \in Subtree[Head(todo)]
      PROVE  /\ GoFile(f)
             /\ f = Head(todo) \/ (Kind[Head(todo)] = "dir" /\ Entered(Head(todo)))
  <2>1. Kind[f] = "source" /\ GoFile(f)
    BY <1>5 DEF Below, GoFile
  <2>2. f # Head(todo) => Kind[Head(todo)] = "dir"
    BY <1>4, <1>5, OnlyDirectoriesHold
  <2>3. f # Head(todo) => Head(todo) = Top \/ Name[Head(todo)] \notin SkippedNames
    BY <1>4, <1>5, UnderIsSubtree DEF Below, Shown
  <2> QED
    BY <2>1, <2>2, <2>3 DEF Entered, Skipped
<1>6. CASE PassOver
  <2>1. /\ Walking /\ todo' = Tail(todo) /\ UNCHANGED <<world, pc, located, at, read, found>>
        /\ ~Entered(Head(todo)) /\ ~GoFile(Head(todo))
    BY <1>6 DEF PassOver, Step
  <2> QED
    BY <1>1, <1>5, <2>1
<1>7. CASE EnterDir
  <2> DEFINE h == Head(todo)
             more == Only(Entries[h], disk)
  <2>1. /\ Walking /\ Entered(h) /\ todo' = more \o Tail(todo)
        /\ UNCHANGED <<world, pc, located, at, read, found>>
    BY <1>7 DEF EnterDir, Step
  <2>2. Entries[h] \in Seq(Nodes)
    BY <1>4, <2>1, TreeAssumption
  <2>3. more \in Seq(Nodes) /\ \A n : Holds(more, n) <=> Holds(Entries[h], n) /\ n \in disk
    BY <2>2, OnlyKeeps
  <2>4. \A n \in Children(h) : Holds(Entries[h], n)
    BY <2>2 DEF Holds, Children
  <2>5. \A n : Holds(todo', n) <=> Holds(more, n) \/ Holds(Tail(todo), n)
    BY <1>4, <2>1, <2>3, ConcatHolds
  <2>6. ASSUME NEW f \in Below(Top, SkippedNames), Undisturbed(Top, f), f \in Subtree[h]
        PROVE  \E n : Holds(todo', n) /\ f \in Subtree[n]
    <3>1. Kind[h] = "dir" /\ Kind[f] = "source"
      BY <2>1, <2>6 DEF Entered, Below
    <3>2. PICK c \in Children(h) : f \in Subtree[c]
      BY <1>4, <2>1, <2>6, <3>1, SubtreeStep
    <3>3. c \in Subtree[Top] /\ c \in Nodes
      BY <1>4, <2>1, <3>2, SubtreeStep, SubtreeIsClosed
    <3>4. c \in disk
      BY <1>4, <2>1, <2>6, <3>2, <3>3, UnderIsSubtree DEF Undisturbed
    <3> HIDE DEF h, more
    <3> QED
      BY <2>3, <2>4, <2>5, <3>2, <3>4
  <2> QED
    BY <1>1, <2>1, <2>5, <2>6
<1>8. CASE ReadFile
  <2>1. /\ Walking /\ todo' = Tail(todo) /\ GoFile(Head(todo))
        /\ found' = found \cup {[file |-> Head(todo), module |-> Whose]}
        /\ UNCHANGED <<world, pc, located, at, read>>
    BY <1>8 DEF ReadFile, Whose
  <2>2. Kind[Head(todo)] # "dir"
    BY <2>1 DEF GoFile
  <2>3. \A f \in Below(Top, SkippedNames) :
          f \in Subtree[Head(todo)] => [file |-> f, module |-> Whose] \in found'
    BY <1>5, <2>1, <2>2
  <2> QED
    BY <1>1, <2>1, <2>3
<1>9. CASE ReadFileFails
  <2>1. /\ Walking /\ GoFile(Head(todo))
        /\ Head(todo) \notin disk \/ Kind[Head(todo)] = "malformed"
        /\ UNCHANGED <<world, located, at, read, found>>
    BY <1>9 DEF ReadFileFails, Present, Fail, Step
  <2>2. CASE pc = "dir"
    BY <1>2, <1>9, <2>1, <2>2 DEF ReadFileFails, Fail
  <2>3. CASE pc = "walk"
    <3>1. pc' = pc /\ todo' = Tail(todo)
      BY <1>9, <2>3 DEF ReadFileFails, Step
    <3>2. ASSUME NEW f \in Below(Top, SkippedNames), Undisturbed(Top, f),
                 f \in Subtree[Head(todo)]
          PROVE  FALSE
      <4>1. f = Head(todo)
        BY <1>5, <2>1, <3>2 DEF GoFile
      <4>2. f \in disk
        BY <1>4, <2>1, <3>2, <4>1, UnderIsSubtree DEF Undisturbed
      <4>3. Kind[f] = "source"
        BY <3>2 DEF Below
      <4> QED
        BY <2>1, <4>1, <4>2, <4>3
    <3> QED
      BY <1>1, <2>1, <3>1, <3>2
  <2> QED
    BY <2>1, <2>2, <2>3 DEF Walking
<1>10. CASE DirDone
  <2>1. /\ pc = "dir" /\ todo = << >> /\ pc' = "gomod"
        /\ UNCHANGED <<world, located, found, read>>
    BY <1>10 DEF DirDone
  <2>2. \A n : ~Holds(todo, n)
    BY <2>1 DEF Holds
  <2>3. Searched(Root, {"vendor", "hidden"}, FirstParty)
    BY <2>1, <2>2 DEF Searches, BeingSearched, Searched, Top, SkippedNames, Whose
  <2>4. \A top, names, m : Searched(top, names, m) => Searched(top, names, m)'
    BY <2>1, SearchedStays
  <2> QED
    BY <2>1, <2>3, <2>4 DEF Searches
<1>11. CASE DirGone \/ ReadGoMod \/ ReadGoModFails \/ AllLocated \/ NameMissing \/ Return
  BY <1>2, <1>11
     DEF DirGone, ReadGoMod, ReadGoModFails, AllLocated, NameMissing, Return, Fail
<1>12. CASE LocateModule
  <2>1. /\ pc = "locate" /\ located' = Append(located, Locate(Required[Len(located) + 1]))
        /\ UNCHANGED <<world, pc, found, read>>
    BY <1>12 DEF LocateModule
  <2>2. \A i \in 1..Len(located) : i \in 1..Len(located') /\ located'[i] = located[i]
    BY <2>1 DEF Bookkeeping, TypeOK
  <2> QED
    BY <1>2, <2>1, <2>2
<1>13. at <= Len(Required) /\ pc \in {"next", "walk"} =>
         at \in 1..Len(located) /\ (located[at] # NoDir => located[at] \in Nodes)
  BY RequiredAssumption DEF Bookkeeping, TypeOK, Located
<1>14. CASE StartModule
  <2>1. /\ pc = "next" /\ pc' = "walk" /\ todo' = <<located[at]>>
        /\ at <= Len(Required) /\ located[at] # NoDir
        /\ UNCHANGED <<world, located, at, found, read>>
    BY <1>14 DEF StartModule
  <2>2. Holds(todo', located[at]) /\ Top' = located[at]
    BY <2>1 DEF Holds, Top
  <2>3. \A names : \A f \in Below(located[at], names) : f \in Subtree[located[at]]
    BY <1>13, <2>1, UnderIsSubtree DEF Below, Shown
  <2>4. BeingSearched(Top, SkippedNames, Whose)'
    BY <2>2, <2>3, TreesStandStill DEF BeingSearched
  <2>5. \A top, names, m : Searched(top, names, m) => Searched(top, names, m)'
    BY <2>1, SearchedStays
  <2> QED
    BY <2>1, <2>4, <2>5 DEF Searches
<1>15. CASE ModuleDone
  <2>1. /\ pc = "walk" /\ todo = << >> /\ pc' = "next"
        /\ read' = read \cup {Required[at]}
        /\ UNCHANGED <<world, located, found>>
    BY <1>15 DEF ModuleDone
  <2>2. \A n : ~Holds(todo, n)
    BY <2>1 DEF Holds
  <2>3. Searched(located[at], DependencySkips, Required[at])
    BY <2>1, <2>2 DEF Searches, BeingSearched, Searched, Top, SkippedNames,
                      DependencySkips, Whose
  <2>4. at \in 1..Len(located) /\ located[at] # NoDir
    BY <1>13, <2>1 DEF Bookkeeping, Counted, Located
  <2>5. \A top, names, m : Searched(top, names, m) => Searched(top, names, m)'
    BY <2>1, SearchedStays
  <2> QED
    BY <2>1, <2>3, <2>4, <2>5 DEF Searches
<1>16. CASE Remove \/ Appear
  BY <1>3, <1>16 DEF Remove, Appear, Change
<1>17. CASE UNCHANGED vars
  BY <1>3, <1>17 DEF vars
<1> QED
  BY <1>6, <1>7, <1>8, <1>9, <1>10, <1>11, <1>12, <1>14, <1>15, <1>16, <1>17
     DEF Next, Collect, Ended

\* A module that is counted as read was searched, and so was the directory:
\* whatever others change elsewhere, a source file that was there throughout is
\* among the findings (modules.go:43-45), where no link stands for a tree.
THEOREM WhatIsReadWasSearched ==
  ASSUME PlacesAreDirectories, Kind[Root] # "link"
  PROVE  Spec => []ReadMeansSearched
<1>1. Bookkeeping /\ Located /\ Walks /\ Searches /\ [Next]_vars => Searches'
  BY SearchesStep
<1>2. ASSUME Bookkeeping, Located, Searches PROVE ReadMeansSearched
  <2> SUFFICES ASSUME pc = "done" PROVE ReadMeansSearched
    BY DEF ReadMeansSearched
  <2>1. Searched(Target(Root), {"vendor", "hidden"}, FirstParty)
    BY <1>2 DEF Searches, Target
  <2>2. ASSUME NEW m \in read PROVE Searched(Target(DirOf(m)), DependencySkips, m)
    <3>1. PICK i \in 1..Len(located) :
            Required[i] = m /\ located[i] # NoDir /\ Searched(located[i], DependencySkips, m)
      BY <1>2 DEF Searches
    <3>2. i \in DOMAIN Required /\ i \in 1..Len(Required) /\ m \in Modules
      BY <1>2, <3>1, RequiredAssumption DEF Located, Bookkeeping, TypeOK
    <3>3. DirOf(m) = located[i]
      BY <3>1, <3>2, DirOfRequired
    <3>4. located[i] \in PlacesOf(m)
      BY <1>2, <3>1, LooksInCases DEF Located, PlacesOf
    <3>5. Target(located[i]) = located[i]
      BY <3>1, <3>2, <3>4 DEF PlacesAreDirectories, Target
    <3> QED
      BY <3>1, <3>3, <3>5
  <2> QED
    BY <2>1, <2>2 DEF ReadMeansSearched, Searched
<1> QED
  BY <1>1, <1>2, SearchesInit, ModulesAreCountedOnce, AlwaysLocated, AlwaysWalks, PTL
     DEF Spec
=============================================================================
