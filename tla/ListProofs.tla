----------------------------- MODULE ListProofs ------------------------------
(***************************************************************************)
(* What Only returns, for every list and every set: the elements of the    *)
(* list that are in the set.  A recursive function is what its equation    *)
(* says once it is shown that there is one; both that and what it returns  *)
(* are shown of the least number for which it fails.                       *)
(***************************************************************************)
EXTENDS Lists, SequenceTheorems, WellFoundedInduction, FiniteSetTheorems, TLAPS

LEMMA LeastNatural ==
  ASSUME NEW S \in SUBSET Nat, S # {}
  PROVE  \E n \in S : \A m \in S : n <= m
<1>1. IsWellFoundedOn(OpToRel(<, Nat), Nat)
  BY NatLessThanWellFounded
<1>2. \E n \in S : \A m \in S : <<m, n>> \notin OpToRel(<, Nat)
  BY <1>1, WFMin, Zenon
<1>3. PICK n \in S : \A m \in S : <<m, n>> \notin OpToRel(<, Nat)
  BY <1>2
<1>4. \A m \in S : ~(m < n)
  BY <1>3 DEF OpToRel
<1> QED
  BY <1>4

LEMMA GreatestPosition ==
  ASSUME NEW n \in Nat, NEW S \in SUBSET (1..n), S # {}
  PROVE  \E k \in S : \A l \in S : l <= k
<1> DEFINE left == {n - k : k \in S}
<1>1. left \in SUBSET Nat /\ left # {}
  <2>1. \A k \in S : n - k \in Nat
    OBVIOUS
  <2> QED
    BY <2>1
<1>2. PICK m \in left : \A l \in left : m <= l
  BY <1>1, LeastNatural
<1>3. PICK k \in S : m = n - k
  BY <1>2
<1>4. ASSUME NEW l \in S PROVE l <= k
  <2>1. m <= n - l
    BY <1>2
  <2> QED
    BY <1>3, <2>1
<1> QED
  BY <1>4

\* A set of numbers that holds 0, and the next number with every number below
\* a bound, holds every number up to the bound.
LEMMA UpTo ==
  ASSUME NEW n \in Nat, NEW S, 0 \in S,
         \A k \in 0..(n - 1) : k \in S => k + 1 \in S
  PROVE  0..n \subseteq S
<1> DEFINE left == (0..n) \ S
<1> SUFFICES ASSUME left # {} PROVE FALSE
  OBVIOUS
<1>1. left \in SUBSET Nat
  OBVIOUS
<1>2. PICK m \in left : \A k \in left : m <= k
  BY <1>1, LeastNatural
<1>3. m \in 0..n /\ m # 0 /\ m \notin S
  BY <1>2
<1>4. m - 1 \in 0..(n - 1) /\ m - 1 \in 0..n /\ ~(m <= m - 1)
  BY <1>3
<1>5. m - 1 \in S
  BY <1>2, <1>4
<1>6. (m - 1) + 1 \in S
  BY <1>4, <1>5
<1> QED
  BY <1>3, <1>6
-----------------------------------------------------------------------------
\* One turn of the loop, after which k elements have been looked at.
Turn(s, S, f, k) ==
  IF k = 0 THEN << >>
  ELSE IF s[k] \in S THEN Append(f[k - 1], s[k]) ELSE f[k - 1]

Turns(s, S, f, n) == f = [k \in 0..n |-> Turn(s, S, f, k)]

LEMMA TurnsExist == ASSUME NEW s, NEW S, NEW n \in Nat PROVE \E f : Turns(s, S, f, n)
<1> DEFINE reached == {m \in Nat : \E f : Turns(s, S, f, m)}
<1>1. 0 \in reached
  <2> DEFINE f == [k \in 0..0 |-> << >>]
  <2>1. Turns(s, S, f, 0)
    BY DEF Turns, Turn
  <2> QED
    BY <2>1
<1>2. ASSUME NEW m \in 0..(n - 1), m \in reached PROVE m + 1 \in reached
  <2>1. PICK f : Turns(s, S, f, m)
    BY <1>2
  <2> DEFINE g == [k \in 0..(m + 1) |-> IF k <= m THEN f[k] ELSE Turn(s, S, f, k)]
  <2>2. \A k \in 0..m : g[k] = f[k] /\ f[k] = Turn(s, S, f, k)
    BY <2>1 DEF Turns
  <2>3. \A k \in 0..(m + 1) : g[k] = Turn(s, S, f, k)
    <3>1. \A k \in 0..(m + 1) : g[k] = IF k <= m THEN f[k] ELSE Turn(s, S, f, k)
      BY Zenon
    <3>2. \A k \in 0..(m + 1) : k <= m => k \in 0..m
      OBVIOUS
    <3> HIDE DEF g
    <3> QED
      BY <2>2, <3>1, <3>2
  <2>4. \A k \in 0..(m + 1) : Turn(s, S, g, k) = Turn(s, S, f, k)
    BY <2>2 DEF Turn
  <2>5. g = [k \in 0..(m + 1) |-> g[k]]
    OBVIOUS
  <2> HIDE DEF g
  <2>6. Turns(s, S, g, m + 1)
    BY <2>3, <2>4, <2>5 DEF Turns
  <2> QED
    BY <2>6
<1> HIDE DEF reached
<1>3. 0..n \subseteq reached
  BY <1>1, <1>2, UpTo
<1> QED
  BY <1>3 DEF reached

LEMMA OnlyTurns ==
  ASSUME NEW s, NEW S, Len(s) \in Nat
  PROVE  \E f : Turns(s, S, f, Len(s)) /\ Only(s, S) = f[Len(s)]
<1> DEFINE f == CHOOSE f : Turns(s, S, f, Len(s))
<1>1. Turns(s, S, f, Len(s))
  BY TurnsExist
<1>2. Only(s, S) = f[Len(s)]
  BY DEF Only, Turns, Turn
<1> QED
  BY <1>1, <1>2

Holds(list, x) == \E i \in 1..Len(list) : list[i] = x

LEMMA AppendHolds ==
  ASSUME NEW A, NEW list \in Seq(A), NEW e \in A
  PROVE  /\ Append(list, e) \in Seq(A)
         /\ \A x : Holds(Append(list, e), x) <=> Holds(list, x) \/ x = e
BY DEF Holds

LEMMA TailHolds ==
  ASSUME NEW A, NEW list \in Seq(A), list # << >>
  PROVE  /\ Head(list) \in A /\ Tail(list) \in Seq(A)
         /\ \A x : Holds(list, x) <=> x = Head(list) \/ Holds(Tail(list), x)
<1>1. /\ Head(list) \in A /\ Tail(list) \in Seq(A)
      /\ Len(list) \in Nat /\ Len(list) >= 1 /\ Len(Tail(list)) = Len(list) - 1
      /\ Head(list) = list[1]
  OBVIOUS
<1>2. \A i \in 1..Len(Tail(list)) : Tail(list)[i] = list[i + 1] /\ i + 1 \in 1..Len(list)
  BY <1>1
<1>3. \A i \in 1..Len(list) : i # 1 => i - 1 \in 1..Len(Tail(list))
                                     /\ Tail(list)[i - 1] = list[i]
  BY <1>1, <1>2
<1>4. ASSUME NEW x, Holds(list, x) PROVE x = Head(list) \/ Holds(Tail(list), x)
  BY <1>1, <1>3, <1>4 DEF Holds
<1>5. ASSUME NEW x, x = Head(list) \/ Holds(Tail(list), x) PROVE Holds(list, x)
  BY <1>1, <1>2, <1>5 DEF Holds
<1> QED
  BY <1>1, <1>4, <1>5

LEMMA ConcatHolds ==
  ASSUME NEW A, NEW list \in Seq(A), NEW other \in Seq(A)
  PROVE  /\ list \o other \in Seq(A)
         /\ \A x : Holds(list \o other, x) <=> Holds(list, x) \/ Holds(other, x)
<1> DEFINE both == list \o other
<1>1. /\ both \in Seq(A) /\ Len(both) = Len(list) + Len(other)
      /\ Len(list) \in Nat /\ Len(other) \in Nat
  OBVIOUS
<1>2. \A i \in 1..Len(list) : both[i] = list[i] /\ i \in 1..Len(both)
  BY <1>1
<1>3. \A i \in 1..Len(other) : both[Len(list) + i] = other[i]
                              /\ Len(list) + i \in 1..Len(both)
  BY <1>1
<1>4. \A i \in 1..Len(both) : i \in 1..Len(list) \/ i - Len(list) \in 1..Len(other)
  BY <1>1
<1>5. \A i \in 1..Len(both) : i - Len(list) \in 1..Len(other) =>
                              both[i] = other[i - Len(list)]
  BY <1>1
<1> HIDE DEF both
<1>6. ASSUME NEW x, Holds(both, x) PROVE Holds(list, x) \/ Holds(other, x)
  BY <1>2, <1>4, <1>5, <1>6 DEF Holds
<1>7. ASSUME NEW x, Holds(list, x) \/ Holds(other, x) PROVE Holds(both, x)
  BY <1>2, <1>3, <1>7 DEF Holds
<1> QED
  BY <1>1, <1>6, <1>7 DEF both

LEMMA ConcatAt ==
  ASSUME NEW A, NEW s \in Seq(A), NEW t \in Seq(A)
  PROVE  /\ s \o t \in Seq(A) /\ Len(s \o t) = Len(s) + Len(t)
         /\ \A i \in 1..Len(s) : (s \o t)[i] = s[i]
         /\ \A i \in (Len(s) + 1)..(Len(s) + Len(t)) :
              i - Len(s) \in 1..Len(t) /\ (s \o t)[i] = t[i - Len(s)]
<1>1. Len(s) \in Nat /\ Len(t) \in Nat /\ s \o t \in Seq(A) /\ Len(s \o t) = Len(s) + Len(t)
  OBVIOUS
<1>2. ASSUME NEW i \in 1..Len(s) PROVE (s \o t)[i] = s[i]
  BY <1>1
<1>3. ASSUME NEW i \in (Len(s) + 1)..(Len(s) + Len(t))
      PROVE  i - Len(s) \in 1..Len(t) /\ (s \o t)[i] = t[i - Len(s)]
  <2>1. i - Len(s) \in 1..Len(t) /\ i \in 1..(Len(s) + Len(t)) /\ ~(i <= Len(s))
    BY <1>1
  <2> QED
    BY <1>1, <2>1
<1> QED
  BY <1>1, <1>2, <1>3

LEMMA HoldsOnly ==
  ASSUME NEW A, NEW list \in Seq(A), NEW B, \A x : Holds(list, x) => x \in B
  PROVE  list \in Seq(B)
BY DEF Holds

\* What Only keeps is what the list holds of the set.
LEMMA OnlyKeeps ==
  ASSUME NEW A, NEW s \in Seq(A), NEW S
  PROVE  /\ Only(s, S) \in Seq(A)
         /\ \A x : Holds(Only(s, S), x) <=> Holds(s, x) /\ x \in S
<1>1. Len(s) \in Nat
  OBVIOUS
<1>2. PICK f : Turns(s, S, f, Len(s)) /\ Only(s, S) = f[Len(s)]
  BY <1>1, OnlyTurns
<1> DEFINE Before(k, x) == \E i \in 1..k : s[i] = x
           kept == {k \in Nat : /\ f[k] \in Seq(A)
                                /\ \A x : Holds(f[k], x) <=> Before(k, x) /\ x \in S}
<1>3. \A k \in 0..Len(s) : f[k] = Turn(s, S, f, k)
  BY <1>2 DEF Turns
<1>4. 0 \in kept
  <2>1. f[0] = << >>
    BY <1>1, <1>3 DEF Turn
  <2>2. << >> \in Seq(A) /\ \A x : ~Holds(<< >>, x)
    BY DEF Holds
  <2>3. \A x : ~Before(0, x)
    OBVIOUS
  <2> HIDE DEF Before
  <2> QED
    BY <2>1, <2>2, <2>3
<1>5. ASSUME NEW k \in 0..(Len(s) - 1), k \in kept PROVE k + 1 \in kept
  <2>1. f[k + 1] = IF s[k + 1] \in S THEN Append(f[k], s[k + 1]) ELSE f[k]
    BY <1>1, <1>3 DEF Turn
  <2>2. s[k + 1] \in A /\ f[k] \in Seq(A)
    BY <1>1, <1>5
  <2>3. \A x : Before(k + 1, x) <=> Before(k, x) \/ x = s[k + 1]
    BY <1>1
  <2> HIDE DEF Before
  <2>4. f[k + 1] \in Seq(A)
    BY <2>1, <2>2
  <2>5. \A x : Holds(f[k + 1], x) <=> Before(k + 1, x) /\ x \in S
    BY <1>5, <2>1, <2>2, <2>3, AppendHolds
  <2> QED
    BY <2>4, <2>5
<1> HIDE DEF kept
<1>6. 0..Len(s) \subseteq kept
  BY <1>1, <1>4, <1>5, UpTo
<1>7. Len(s) \in kept
  BY <1>1, <1>6
<1> QED
  BY <1>2, <1>7 DEF kept, Holds

\* and how many.
LEMMA OnlyCounts ==
  ASSUME NEW A, NEW s \in Seq(A), NEW S
  PROVE  /\ IsFiniteSet({i \in 1..Len(s) : s[i] \in S})
         /\ Len(Only(s, S)) = Cardinality({i \in 1..Len(s) : s[i] \in S})
<1>1. Len(s) \in Nat
  OBVIOUS
<1>2. PICK f : Turns(s, S, f, Len(s)) /\ Only(s, S) = f[Len(s)]
  BY <1>1, OnlyTurns
<1> DEFINE Kept(k) == {i \in 1..k : s[i] \in S}
           counted == {k \in Nat : /\ f[k] \in Seq(A)
                                   /\ IsFiniteSet(Kept(k))
                                   /\ Len(f[k]) = Cardinality(Kept(k))}
<1>3. \A k \in 0..Len(s) : f[k] = Turn(s, S, f, k)
  BY <1>2 DEF Turns
<1>4. 0 \in counted
  <2>0. << >> \in Seq(A) /\ Len(<< >>) = 0
    OBVIOUS
  <2>1. f[0] = << >>
    BY <1>1, <1>3 DEF Turn
  <2>2. Kept(0) = {}
    OBVIOUS
  <2>3. IsFiniteSet(Kept(0)) /\ Cardinality(Kept(0)) = 0
    BY <2>2, FS_EmptySet
  <2> HIDE DEF Kept
  <2> QED
    BY <2>0, <2>1, <2>3
<1>5. ASSUME NEW k \in 0..(Len(s) - 1), k \in counted PROVE k + 1 \in counted
  <2>1. f[k + 1] = IF s[k + 1] \in S THEN Append(f[k], s[k + 1]) ELSE f[k]
    BY <1>1, <1>3 DEF Turn
  <2>2. s[k + 1] \in A /\ f[k] \in Seq(A) /\ k + 1 \in Nat
    BY <1>1, <1>5
  <2>3. CASE s[k + 1] \in S
    <3>1. Kept(k + 1) = Kept(k) \cup {k + 1} /\ k + 1 \notin Kept(k)
      BY <1>1, <2>3
    <3>2. IsFiniteSet(Kept(k)) /\ Len(f[k]) = Cardinality(Kept(k))
      BY <1>5
    <3> HIDE DEF Kept
    <3>3. /\ IsFiniteSet(Kept(k + 1))
          /\ Cardinality(Kept(k + 1)) = Cardinality(Kept(k)) + 1
      BY <3>1, <3>2, FS_AddElement
    <3>4. f[k + 1] \in Seq(A) /\ Len(f[k + 1]) = Len(f[k]) + 1
      BY <2>1, <2>2, <2>3
    <3> QED
      BY <2>2, <3>2, <3>3, <3>4
  <2>4. CASE s[k + 1] \notin S
    <3>1. Kept(k + 1) = Kept(k)
      BY <1>1, <2>4
    <3>2. f[k + 1] = f[k]
      BY <2>1, <2>4
    <3> HIDE DEF Kept
    <3> QED
      BY <1>5, <2>2, <3>1, <3>2
  <2> QED
    BY <2>3, <2>4
<1> HIDE DEF counted
<1>6. 0..Len(s) \subseteq counted
  BY <1>1, <1>4, <1>5, UpTo
<1>7. Len(s) \in counted
  BY <1>1, <1>6
<1> QED
  BY <1>2, <1>7 DEF counted

\* pos says which element of s each element of t is: those among the first n
\* that are in S, once each.
Placed(s, S, t, pos, n) ==
  /\ \A i \in 1..Len(t) : pos[i] \in 1..n /\ t[i] = s[pos[i]] /\ s[pos[i]] \in S
  /\ \A i, j \in 1..Len(t) : pos[i] = pos[j] => i = j
  /\ \A k \in 1..n : s[k] \in S => \E i \in 1..Len(t) : pos[i] = k

\* and each element from a place of its own.
LEMMA OnlyPlaces ==
  ASSUME NEW A, NEW s \in Seq(A), NEW S
  PROVE  \E pos : Placed(s, S, Only(s, S), pos, Len(s))
<1>1. Len(s) \in Nat
  OBVIOUS
<1>2. PICK f : Turns(s, S, f, Len(s)) /\ Only(s, S) = f[Len(s)]
  BY <1>1, OnlyTurns
<1> DEFINE placed == {k \in Nat : f[k] \in Seq(A) /\ \E pos : Placed(s, S, f[k], pos, k)}
<1>3. \A k \in 0..Len(s) : f[k] = Turn(s, S, f, k)
  BY <1>2 DEF Turns
<1>4. 0 \in placed
  <2>1. f[0] = << >>
    BY <1>1, <1>3 DEF Turn
  <2>2. << >> \in Seq(A) /\ Len(<< >>) = 0
    OBVIOUS
  <2>3. f[0] \in Seq(A) /\ Placed(s, S, f[0], s, 0)
    BY <2>1, <2>2 DEF Placed
  <2> QED
    BY <2>3
<1>5. ASSUME NEW k \in 0..(Len(s) - 1), k \in placed PROVE k + 1 \in placed
  <2> DEFINE t == f[k]
             e == s[k + 1]
  <2>1. f[k + 1] = IF e \in S THEN Append(t, e) ELSE t
    BY <1>1, <1>3 DEF Turn
  <2>2. e \in A /\ t \in Seq(A) /\ k \in Nat /\ k + 1 \in Nat
    BY <1>1, <1>5
  <2>3. PICK pos : Placed(s, S, t, pos, k)
    BY <1>5
  <2>4. \A l \in 1..(k + 1) : l \in 1..k \/ l = k + 1
    BY <2>2
  <2>5. \A l \in 1..k : l \in 1..(k + 1) /\ l # k + 1
    BY <2>2
  <2> HIDE DEF placed
  <2>6. CASE e \in S
    <3> DEFINE n == Len(t)
               longer == Append(t, e)
               at == [i \in 1..(n + 1) |-> IF i = n + 1 THEN k + 1 ELSE pos[i]]
    <3>1. /\ n \in Nat /\ longer \in Seq(A) /\ Len(longer) = n + 1
          /\ longer[n + 1] = e /\ \A i \in 1..n : longer[i] = t[i]
      BY <2>2
    <3>2. \A i \in 1..(n + 1) : i \in 1..n \/ i = n + 1
      BY <3>1
    <3>3. \A i \in 1..n : i \in 1..(n + 1) /\ i # n + 1
      BY <3>1
    <3>4. at[n + 1] = k + 1 /\ \A i \in 1..n : at[i] = pos[i]
      BY <3>1, <3>3
    <3> HIDE DEF at
    <3>5. \A i \in 1..n : pos[i] \in 1..k /\ t[i] = s[pos[i]] /\ s[pos[i]] \in S
      BY <2>3 DEF Placed
    <3>6. \A i, j \in 1..n : pos[i] = pos[j] => i = j
      BY <2>3 DEF Placed
    <3>7. \A l \in 1..k : s[l] \in S => \E i \in 1..n : pos[i] = l
      BY <2>3 DEF Placed
    <3> HIDE DEF t, n, longer, e
    <3>8. \A i \in 1..(n + 1) : /\ at[i] \in 1..(k + 1) /\ longer[i] = s[at[i]]
                                /\ s[at[i]] \in S
      <4>1. k + 1 \in 1..(k + 1)
        BY <2>2
      <4> QED
        BY <2>5, <2>6, <3>1, <3>2, <3>4, <3>5, <4>1 DEF e
    <3>9. \A i, j \in 1..(n + 1) : at[i] = at[j] => i = j
      BY <2>5, <3>2, <3>4, <3>5, <3>6
    <3>10. \A l \in 1..(k + 1) : s[l] \in S => \E i \in 1..(n + 1) : at[i] = l
      <4>1. n + 1 \in 1..(n + 1)
        BY <3>1
      <4> QED
        BY <2>4, <3>3, <3>4, <3>7, <4>1
    <3>11. Placed(s, S, longer, at, k + 1)
      BY <3>1, <3>8, <3>9, <3>10 DEF Placed
    <3> QED
      BY <2>1, <2>2, <2>6, <3>1, <3>11 DEF placed, longer
  <2>7. CASE e \notin S
    <3>1. Placed(s, S, t, pos, k + 1)
      BY <2>3, <2>4, <2>5, <2>7 DEF Placed
    <3> QED
      BY <2>1, <2>2, <2>7, <3>1 DEF placed
  <2> QED
    BY <2>6, <2>7
<1> HIDE DEF placed
<1>6. 0..Len(s) \subseteq placed
  BY <1>1, <1>4, <1>5, UpTo
<1>7. Len(s) \in placed
  BY <1>1, <1>6
<1> QED
  BY <1>2, <1>7 DEF placed

\* The loop on nothing.
LEMMA OnlyOfNothing == \A S : Only(<< >>, S) = << >>
<1> TAKE S
<1>1. Len(<< >>) = 0
  OBVIOUS
<1>2. PICK f : Turns(<< >>, S, f, 0) /\ Only(<< >>, S) = f[0]
  BY <1>1, OnlyTurns
<1> QED
  BY <1>2 DEF Turns, Turn

\* One element more.
LEMMA OnlyOfOneMore ==
  ASSUME NEW A, NEW s \in Seq(A), NEW x \in A, NEW S
  PROVE  Only(Append(s, x), S) = IF x \in S THEN Append(Only(s, S), x) ELSE Only(s, S)
<1> DEFINE t == Append(s, x)
           n == Len(s)
<1>1. n \in Nat /\ Len(t) = n + 1 /\ t[n + 1] = x /\ \A k \in 1..n : t[k] = s[k]
  OBVIOUS
<1>2. PICK f : Turns(s, S, f, n) /\ Only(s, S) = f[n]
  BY <1>1, OnlyTurns
<1> HIDE DEF t
<1>3. PICK g : Turns(t, S, g, n + 1) /\ Only(t, S) = g[n + 1]
  BY <1>1, OnlyTurns
<1> DEFINE same == {k \in Nat : g[k] = f[k]}
<1> HIDE DEF n
<1>4. \A k \in 0..n : f[k] = Turn(s, S, f, k)
  BY <1>2 DEF Turns
<1>5. \A k \in 0..(n + 1) : g[k] = Turn(t, S, g, k)
  BY <1>3 DEF Turns
<1>6. 0 \in same
  BY <1>1, <1>4, <1>5 DEF Turn
<1>7. ASSUME NEW k \in 0..(n - 1), k \in same PROVE k + 1 \in same
  BY <1>1, <1>4, <1>5, <1>7 DEF Turn
<1> HIDE DEF same
<1>8. 0..n \subseteq same
  BY <1>1, <1>6, <1>7, UpTo
<1>9. g[n] = f[n]
  BY <1>1, <1>8 DEF same
<1>10. g[n + 1] = IF x \in S THEN Append(g[n], x) ELSE g[n]
  BY <1>1, <1>5 DEF Turn
<1> QED
  BY <1>2, <1>3, <1>9, <1>10 DEF t

-----------------------------------------------------------------------------
\* The elements a list begins with, and the ones behind them.
LEMMA FirstElement ==
  ASSUME NEW A, NEW s \in Seq(A), Len(s) >= 1 PROVE SubSeq(s, 1, 1) = <<s[1]>>
<1>1. /\ SubSeq(s, 1, 1) \in Seq(A) /\ Len(SubSeq(s, 1, 1)) = 1
      /\ \A i \in 1..1 : SubSeq(s, 1, 1)[i] = s[i]
  OBVIOUS
<1>2. <<s[1]>> \in Seq(A) /\ Len(<<s[1]>>) = 1 /\ <<s[1]>>[1] = s[1]
  OBVIOUS
<1>3. \A i \in 1..1 : SubSeq(s, 1, 1)[i] = <<s[1]>>[i]
  BY <1>1, <1>2
<1> QED
  BY <1>1, <1>2, <1>3, SeqEqual

LEMMA FirstElements ==
  ASSUME NEW A, NEW s \in Seq(A), Len(s) >= 2 PROVE SubSeq(s, 1, 2) = <<s[1], s[2]>>
<1> DEFINE pair == <<s[1], s[2]>>
<1>1. /\ SubSeq(s, 1, 2) \in Seq(A) /\ Len(SubSeq(s, 1, 2)) = 2
      /\ \A i \in 1..2 : SubSeq(s, 1, 2)[i] = s[i]
  OBVIOUS
<1>2. pair \in Seq(A) /\ Len(pair) = 2 /\ pair[1] = s[1] /\ pair[2] = s[2]
  OBVIOUS
<1> HIDE DEF pair
<1>3. \A i \in 1..2 : i = 1 \/ i = 2
  OBVIOUS
<1>4. \A i \in 1..2 : SubSeq(s, 1, 2)[i] = pair[i]
  BY <1>1, <1>2, <1>3
<1>5. SubSeq(s, 1, 2) = pair
  BY <1>1, <1>2, <1>4, SeqEqual
<1> QED
  BY <1>5 DEF pair

LEMMA WholeList == ASSUME NEW A, NEW s \in Seq(A) PROVE SubSeq(s, 1, Len(s)) = s
  OBVIOUS

LEMMA LaterElements ==
  ASSUME NEW A, NEW s \in Seq(A), NEW k \in 0..Len(s)
  PROVE  /\ Len(SubSeq(s, k + 1, Len(s))) = Len(s) - k
         /\ \A i \in 1..(Len(s) - k) : SubSeq(s, k + 1, Len(s))[i] = s[k + i]
  OBVIOUS

-----------------------------------------------------------------------------
\* A list that is put behind another one element at a time.
LEMMA ConcatByElement ==
  ASSUME NEW A, NEW s \in Seq(A), NEW t \in Seq(A)
  PROVE  /\ s \o SubSeq(t, 1, 0) = s
         /\ s \o SubSeq(t, 1, Len(t)) = s \o t
         /\ \A k \in 0..(Len(t) - 1) :
              s \o SubSeq(t, 1, k + 1) = Append(s \o SubSeq(t, 1, k), t[k + 1])
         /\ \A k \in 0..Len(t) : s \o SubSeq(t, 1, k) \in Seq(A)
<1>1. SubSeq(t, 1, 0) = << >> /\ SubSeq(t, 1, Len(t)) = t
  OBVIOUS
<1>2. s \o << >> = s
  OBVIOUS
<1>3. ASSUME NEW k \in 0..(Len(t) - 1)
      PROVE  s \o SubSeq(t, 1, k + 1) = Append(s \o SubSeq(t, 1, k), t[k + 1])
  <2> DEFINE a == SubSeq(t, 1, k)
             b == SubSeq(t, 1, k + 1)
  <2>1. a \in Seq(A) /\ Len(a) = k /\ \A i \in 1..k : a[i] = t[i]
    OBVIOUS
  <2>2. b \in Seq(A) /\ Len(b) = k + 1 /\ \A i \in 1..(k + 1) : b[i] = t[i]
    OBVIOUS
  <2>3. t[k + 1] \in A
    OBVIOUS
  <2> HIDE DEF a, b
  <2>4. b = Append(a, t[k + 1])
    BY <2>1, <2>2, <2>3
  <2>5. s \o Append(a, t[k + 1]) = Append(s \o a, t[k + 1])
    BY <2>1, <2>3
  <2> QED
    BY <2>4, <2>5 DEF a, b
<1>4. ASSUME NEW k \in 0..Len(t) PROVE s \o SubSeq(t, 1, k) \in Seq(A)
  <2>1. SubSeq(t, 1, k) \in Seq(A)
    OBVIOUS
  <2> QED
    BY <2>1
<1> QED
  BY <1>1, <1>2, <1>3, <1>4

LEMMA NextElement ==
  ASSUME NEW A, NEW s \in Seq(A), NEW t \in Seq(A), NEW k \in 0..(Len(t) - 1)
  PROVE  s \o SubSeq(t, 1, k + 1) = Append(s \o SubSeq(t, 1, k), t[k + 1])
  BY ConcatByElement

-----------------------------------------------------------------------------
\* FlattenSeq of the community modules, one list at a time.

Joins(lists, f, n) ==
  f = [i \in 1..n |-> IF i = 1 THEN lists[i] ELSE f[i - 1] \o lists[i]]

LEMMA JoinsExist ==
  ASSUME NEW lists, NEW n \in Nat, n >= 1 PROVE \E f : Joins(lists, f, n)
<1> DEFINE Turned(f, i) == IF i = 1 THEN lists[i] ELSE f[i - 1] \o lists[i]
           reached == {m \in Nat : m >= 1 => \E f : Joins(lists, f, m)}
<1>1. 0 \in reached
  OBVIOUS
<1>2. ASSUME NEW m \in 0..(n - 1), m \in reached PROVE m + 1 \in reached
  <2>1. CASE m = 0
    <3> DEFINE f == [i \in 1..1 |-> lists[1]]
    <3>1. Joins(lists, f, 1)
      BY DEF Joins
    <3> QED
      BY <2>1, <3>1
  <2>2. CASE m # 0
    <3>1. m \in Nat /\ m >= 1
      BY <2>2
    <3>2. PICK f : Joins(lists, f, m)
      BY <1>2, <3>1
    <3> DEFINE g == [i \in 1..(m + 1) |-> IF i <= m THEN f[i] ELSE Turned(f, i)]
    <3>3. \A i \in 1..m : f[i] = Turned(f, i)
      BY <3>2 DEF Joins
    <3>4. \A i \in 1..(m + 1) : g[i] = IF i <= m THEN f[i] ELSE Turned(f, i)
      BY Zenon
    <3>5. g = [i \in 1..(m + 1) |-> g[i]]
      OBVIOUS
    <3> HIDE DEF g
    <3>6. \A i \in 1..m : g[i] = f[i] /\ i \in 1..(m + 1)
      BY <3>1, <3>4
    <3>7. \A i \in 1..(m + 1) : i = 1 \/ (i - 1 \in 1..m)
      BY <3>1
    <3>8. \A i \in 1..(m + 1) : Turned(g, i) = Turned(f, i)
      BY <3>6, <3>7
    <3>9. \A i \in 1..(m + 1) : ~(i <= m) \/ i \in 1..m
      BY <3>1
    <3> HIDE DEF Turned
    <3>10. \A i \in 1..(m + 1) : g[i] = Turned(g, i)
      BY <3>3, <3>4, <3>8, <3>9
    <3>11. g = [i \in 1..(m + 1) |-> Turned(g, i)]
      BY <3>5, <3>10
    <3>12. Joins(lists, g, m + 1)
      BY <3>11 DEF Joins, Turned
    <3> QED
      BY <3>1, <3>12
  <2> QED
    BY <2>1, <2>2
<1> HIDE DEF reached
<1>3. 0..n \subseteq reached
  BY <1>1, <1>2, UpTo
<1> QED
  BY <1>3 DEF reached

\* The lists before the next one, put together.
LEMMA FlattenSteps ==
  ASSUME NEW A, NEW lists \in Seq(Seq(A))
  PROVE  \E f : /\ f[0] = << >>
                /\ \A i \in 1..Len(lists) : f[i] = f[i - 1] \o lists[i]
                /\ \A i \in 0..Len(lists) : f[i] \in Seq(A)
                /\ Seqs!FlattenSeq(lists) = f[Len(lists)]
<1> DEFINE n == Len(lists)
<1>1. n \in Nat /\ \A i \in 1..n : lists[i] \in Seq(A)
  OBVIOUS
<1>0. /\ << >> \in Seq(A)
      /\ \A l \in Seq(A) : << >> \o l = l
      /\ \A l, m \in Seq(A) : l \o m \in Seq(A)
  OBVIOUS
<1>2. CASE n = 0
  <2> DEFINE f == [i \in 0..0 |-> << >>]
  <2>1. Seqs!FlattenSeq(lists) = lists /\ lists = << >>
    BY <1>2 DEF Seqs!FlattenSeq
  <2>2. f[0] = << >>
    OBVIOUS
  <2> HIDE DEF f
  <2>3. \A i \in 0..0 : f[i] \in Seq(A)
    <3>1. f[0] \in Seq(A)
      BY <1>0, <2>2, Zenon
    <3>2. \A i \in 0..0 : i = 0
      OBVIOUS
    <3> QED
      BY <3>1, <3>2, Zenon
  <2>4. Seqs!FlattenSeq(lists) = f[0]
    BY <2>1, <2>2
  <2>5. \A i \in 1..0 : f[i] = f[i - 1] \o lists[i]
    OBVIOUS
  <2> QED
    BY <1>2, <2>2, <2>3, <2>4, <2>5, Zenon
<1>3. CASE n # 0
  <2> DEFINE g == CHOOSE g : Joins(lists, g, n)
             f == [i \in 0..n |-> IF i = 0 THEN << >> ELSE g[i]]
             typed == {i \in Nat : f[i] \in Seq(A)}
  <2>1. Joins(lists, g, n)
    <3>1. n >= 1
      BY <1>1, <1>3
    <3> QED
      BY <1>1, <3>1, JoinsExist
  <2>2. Seqs!FlattenSeq(lists) = g[n]
    BY <1>3 DEF Seqs!FlattenSeq, Joins
  <2> HIDE DEF g
  <2>3. \A i \in 1..n : g[i] = IF i = 1 THEN lists[i] ELSE g[i - 1] \o lists[i]
    BY <2>1 DEF Joins
  <2>4. f[0] = << >> /\ \A i \in 1..n : f[i] = g[i]
    BY <1>1
  <2>5. \A i \in 1..n : i # 1 => i - 1 \in 1..n
    BY <1>1
  <2> HIDE DEF f, n
  <2>6. \A i \in 1..n : f[i] = f[i - 1] \o lists[i]
    <3> SUFFICES ASSUME NEW i \in 1..n PROVE f[i] = f[i - 1] \o lists[i]
      OBVIOUS
    <3>1. CASE i = 1
      <4>1. f[1] = lists[1] /\ lists[1] \in Seq(A) /\ 1 - 1 = 0
        BY <1>1, <2>3, <2>4, <3>1
      <4> QED
        BY <1>0, <2>4, <3>1, <4>1
    <3>2. CASE i # 1
      BY <2>3, <2>4, <2>5, <3>2
    <3> QED
      BY <3>1, <3>2
  <2>7. 0 \in typed
    BY <1>0, <2>4
  <2>8. ASSUME NEW i \in 0..(n - 1), i \in typed PROVE i + 1 \in typed
    <3>1. i + 1 \in 1..n /\ i + 1 \in Nat /\ (i + 1) - 1 = i
      BY <1>1
    <3>2. f[i + 1] = f[i] \o lists[i + 1]
      BY <2>6, <3>1
    <3>3. f[i] \in Seq(A) /\ lists[i + 1] \in Seq(A)
      BY <1>1, <2>8, <3>1
    <3>4. f[i + 1] \in Seq(A)
      BY <1>0, <3>2, <3>3
    <3> QED
      BY <3>1, <3>4
  <2> HIDE DEF typed
  <2>9. 0..n \subseteq typed
    BY <1>1, <2>7, <2>8, UpTo
  <2>10. \A i \in 0..n : f[i] \in Seq(A)
    BY <2>9 DEF typed
  <2>11. Seqs!FlattenSeq(lists) = f[n]
    <3>1. n \in 1..n
      BY <1>1, <1>3
    <3> QED
      BY <2>2, <2>4, <3>1
  <2> QED
    BY <2>4, <2>6, <2>10, <2>11 DEF n
<1> QED
  BY <1>2, <1>3

=============================================================================
