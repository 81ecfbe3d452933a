----------------------------- MODULE FileProofs -----------------------------
(***************************************************************************)
(* Reading one file, for every file: the walk keeps a list of nodes and    *)
(* says nothing of where they stand.  Here they get their places back, and *)
(* what the walk has passed is tied to what it has found.                  *)
(***************************************************************************)
EXTENDS Artifact, ListProofs

-----------------------------------------------------------------------------
\* A file's tree.

\* One level of the tree after the other, down to level n.
Level(f, g, d) ==
  IF d = 0 THEN {Top(f)}
  ELSE UNION {{Child(w, k) : k \in DOMAIN w.node.children} : w \in g[d - 1]}

Levels(f, g, n) == g = [d \in 0..n |-> Level(f, g, d)]

LEMMA LevelsExist == ASSUME NEW f, NEW n \in Nat PROVE \E g : Levels(f, g, n)
<1> DEFINE reached == {m \in Nat : \E g : Levels(f, g, m)}
<1>1. 0 \in reached
  <2> DEFINE g == [d \in 0..0 |-> {Top(f)}]
  <2>1. Levels(f, g, 0)
    BY DEF Levels, Level
  <2> QED
    BY <2>1
<1>2. ASSUME NEW m \in 0..(n - 1), m \in reached PROVE m + 1 \in reached
  <2>1. PICK g : Levels(f, g, m)
    BY <1>2
  <2> DEFINE h == [d \in 0..(m + 1) |-> IF d <= m THEN g[d] ELSE Level(f, g, d)]
  <2>2. \A d \in 0..m : h[d] = g[d] /\ g[d] = Level(f, g, d)
    BY <2>1 DEF Levels
  <2>3. \A d \in 0..(m + 1) : h[d] = Level(f, g, d)
    <3>1. \A d \in 0..(m + 1) : h[d] = IF d <= m THEN g[d] ELSE Level(f, g, d)
      BY Zenon
    <3>2. \A d \in 0..(m + 1) : d <= m => d \in 0..m
      OBVIOUS
    <3> HIDE DEF h
    <3> QED
      BY <2>2, <3>1, <3>2
  <2>4. h = [d \in 0..(m + 1) |-> h[d]]
    OBVIOUS
  <2> HIDE DEF h
  <2>5. \A d \in 0..(m + 1) : Level(f, h, d) = Level(f, g, d)
    <3> SUFFICES ASSUME NEW d \in 0..(m + 1), d # 0 PROVE Level(f, h, d) = Level(f, g, d)
      BY DEF Level
    <3>1. d - 1 \in 0..m
      OBVIOUS
    <3>2. h[d - 1] = g[d - 1]
      BY <2>2, <3>1
    <3> QED
      BY <3>2 DEF Level
  <2>6. Levels(f, h, m + 1)
    BY <2>3, <2>4, <2>5 DEF Levels
  <2> QED
    BY <2>6
<1> HIDE DEF reached
<1>3. 0..n \subseteq reached
  BY <1>1, <1>2, UpTo
<1> QED
  BY <1>3 DEF reached

LEMMA AppendApart ==
  ASSUME NEW A, NEW s \in Seq(A), NEW t \in Seq(A), NEW a \in A, NEW b \in A,
         Append(s, a) = Append(t, b)
  PROVE  s = t /\ a = b
<1>1. Len(s) = Len(t) /\ Len(s) \in Nat
  <2>1. Len(Append(s, a)) = Len(s) + 1 /\ Len(Append(t, b)) = Len(t) + 1
    OBVIOUS
  <2> QED
    BY <2>1
<1>2. a = b
  BY <1>1
<1>3. \A i \in 1..Len(s) : s[i] = t[i]
  <2>1. \A i \in 1..Len(s) : Append(s, a)[i] = s[i] /\ Append(t, b)[i] = t[i]
    BY <1>1
  <2> QED
    BY <2>1
<1> QED
  BY <1>1, <1>2, <1>3

\* What the levels hold: the whole file from the top down, and a place leads to
\* one node.
LEMMA WrittenIsATree ==
  ASSUME NEW f \in Files
  PROVE  LET W == Written(f)
         IN /\ Top(f) \in W
            /\ \A w \in W : /\ w.place \in Seq(Nat)
                            /\ WellFormed(w.node)
                            /\ w.node.children \in Seq(NodesOf(f))
                            /\ \A k \in DOMAIN w.node.children : Child(w, k) \in W
                            /\ \/ w = Top(f)
                               \/ \E v \in W : \E k \in DOMAIN v.node.children : w = Child(v, k)
            /\ \A v, w \in W : v.place = w.place => v = w
<1> DEFINE W == Written(f)
           g == CHOOSE g : Levels(f, g, Depth)
           Holding(d) == \A w \in g[d] : w.place \in Seq(Nat) /\ Len(w.place) = d
           OneEach(d) == \A v, w \in g[d] : v.place = w.place => v = w
           good == {d \in Nat : d <= Depth => Holding(d) /\ OneEach(d)}
<1>1. Depth \in Nat /\ \A w \in W : Len(w.place) = Depth => w.node.children = << >>
  BY DepthAssumption
<1>2. Levels(f, g, Depth)
  BY <1>1, LevelsExist
<1>3. W = UNION {g[d] : d \in 0..Depth}
  BY DEF Written, Levels, Level
<1> HIDE DEF g
<1>4. /\ g[0] = {Top(f)}
      /\ \A d \in 1..Depth :
           g[d] = UNION {{Child(w, k) : k \in DOMAIN w.node.children} : w \in g[d - 1]}
  <2>1. \A d \in 0..Depth : g[d] = Level(f, g, d)
    BY <1>2 DEF Levels
  <2>2. 0 \in 0..Depth /\ \A d \in 1..Depth : d \in 0..Depth /\ d # 0
    BY <1>1
  <2>3. \A d \in 1..Depth : g[d] = Level(f, g, d) /\ d # 0
    BY <2>1, <2>2
  <2> QED
    BY <2>1, <2>2, <2>3, Zenon DEF Level
<1>5. \A w \in W : /\ WellFormed(w.node)
                   /\ w.node.children \in Seq(NodesOf(f))
                   /\ DOMAIN w.node.children \subseteq Nat
  <2>1. \A w \in W : w.node \in NodesOf(f)
    BY DEF NodesOf
  <2>2. \A n \in NodesOf(f) : WellFormed(n) /\ n.children \in Seq(NodesOf(f))
    BY FilesAssumption
  <2>3. \A s \in Seq(NodesOf(f)) : DOMAIN s \subseteq Nat
    OBVIOUS
  <2> QED
    BY <2>1, <2>2, <2>3
<1> HIDE DEF W
<1>6. 0 \in good
  <2>1. Top(f).place = << >> /\ << >> \in Seq(Nat) /\ Len(<< >>) = 0
    BY DEF Top
  <2> QED
    BY <1>4, <2>1
<1>7. ASSUME NEW d \in 0..(Depth - 1), d \in good PROVE d + 1 \in good
  <2>1. d + 1 \in 1..Depth /\ (d + 1) - 1 = d /\ d \in 0..Depth /\ d \in Nat
    BY <1>1
  <2>2. Holding(d) /\ OneEach(d)
    BY <1>1, <1>7
  <2>3. \A w \in g[d + 1] : \E v \in g[d] : \E k \in DOMAIN v.node.children : w = Child(v, k)
    BY <1>4, <2>1
  <2>4. \A v \in g[d] : /\ v.place \in Seq(Nat) /\ Len(v.place) = d
                        /\ DOMAIN v.node.children \subseteq Nat
    BY <1>3, <1>5, <2>1, <2>2
  <2>5. ASSUME NEW w \in g[d + 1] PROVE w.place \in Seq(Nat) /\ Len(w.place) = d + 1
    <3>0. PICK v \in g[d] : \E k \in DOMAIN v.node.children : w = Child(v, k)
      BY <2>3
    <3>1. PICK k \in DOMAIN v.node.children : w = Child(v, k)
      BY <3>0
    <3>2. w.place = Append(v.place, k) /\ k \in Nat
      BY <2>4, <3>1 DEF Child
    <3> QED
      BY <2>4, <3>2
  <2>6. ASSUME NEW w \in g[d + 1], NEW x \in g[d + 1], w.place = x.place PROVE w = x
    <3>0. PICK v \in g[d], u \in g[d] : /\ \E k \in DOMAIN v.node.children : w = Child(v, k)
                                       /\ \E l \in DOMAIN u.node.children : x = Child(u, l)
      BY <2>3
    <3>1. PICK k \in DOMAIN v.node.children : w = Child(v, k)
      BY <3>0
    <3>2. PICK l \in DOMAIN u.node.children : x = Child(u, l)
      BY <3>0
    <3>3. /\ Append(v.place, k) = Append(u.place, l)
          /\ v.place \in Seq(Nat) /\ u.place \in Seq(Nat) /\ k \in Nat /\ l \in Nat
      BY <2>4, <2>6, <3>1, <3>2 DEF Child
    <3>4. v.place = u.place /\ k = l
      <4> DEFINE A == Nat
                 s == v.place
                 t == u.place
      <4>1. /\ s \in Seq(A) /\ t \in Seq(A) /\ k \in A /\ l \in A
            /\ Append(s, k) = Append(t, l)
        BY <3>3
      <4> HIDE DEF A, s, t
      <4>2. s = t /\ k = l
        BY <4>1, AppendApart
      <4> QED
        BY <4>2 DEF s, t
    <3> QED
      BY <2>2, <3>1, <3>2, <3>4
  <2> QED
    BY <2>1, <2>5, <2>6
<1>8. \A d \in 0..Depth : Holding(d) /\ OneEach(d)
  <2> HIDE DEF good
  <2>1. 0..Depth \subseteq good
    BY <1>1, <1>6, <1>7, UpTo
  <2> QED
    BY <2>1 DEF good
<1>9. \A w \in W : w.place \in Seq(Nat) /\ Len(w.place) \in 0..Depth /\ w \in g[Len(w.place)]
  BY <1>3, <1>8
<1>10. Top(f) \in W
  BY <1>1, <1>3, <1>4
<1>11. ASSUME NEW w \in W, NEW k \in DOMAIN w.node.children PROVE Child(w, k) \in W
  <2>1. Len(w.place) # Depth
    BY <1>1, <1>11 DEF W
  <2>2. Len(w.place) + 1 \in 1..Depth /\ Len(w.place) + 1 \in 0..Depth
    BY <1>1, <1>9, <2>1
  <2>3. Child(w, k) \in g[Len(w.place) + 1]
    BY <1>4, <1>9, <1>11, <2>2
  <2> QED
    BY <1>3, <2>2, <2>3
<1>12. ASSUME NEW w \in W, w # Top(f)
       PROVE  \E v \in W : \E k \in DOMAIN v.node.children : w = Child(v, k)
  <2>1. PICK d \in 0..Depth : w \in g[d]
    BY <1>3
  <2>2. d \in 1..Depth /\ d - 1 \in 0..Depth
    BY <1>1, <1>4, <1>12, <2>1
  <2>3. PICK v \in g[d - 1] : \E k \in DOMAIN v.node.children : w = Child(v, k)
    BY <1>4, <2>1, <2>2
  <2> QED
    BY <1>3, <2>2, <2>3
<1>13. \A v, w \in W : v.place = w.place => v = w
  BY <1>8, <1>9
<1> QED
  BY <1>5, <1>9, <1>10, <1>11, <1>12, <1>13 DEF W

\* v stands at w or inside of it.
Under(w, v) ==
  /\ Len(w.place) <= Len(v.place)
  /\ \A i \in 1..Len(w.place) : v.place[i] = w.place[i]

LEMMA ChildPlace ==
  ASSUME NEW f \in Files, NEW w \in Written(f), NEW k \in DOMAIN w.node.children
  PROVE  /\ Len(w.place) \in Nat /\ Len(Child(w, k).place) = Len(w.place) + 1
         /\ \A i \in 1..Len(w.place) : Child(w, k).place[i] = w.place[i]
         /\ Child(w, k).place[Len(w.place) + 1] = k
         /\ Child(w, k).node = w.node.children[k]
<1>1. w.place \in Seq(Nat) /\ k \in Nat
  <2>1. w.node.children \in Seq(NodesOf(f)) /\ w.place \in Seq(Nat)
    BY WrittenIsATree
  <2> QED
    BY <2>1
<1> DEFINE s == w.place
<1>2. Child(w, k).place = Append(s, k) /\ Child(w, k).node = w.node.children[k]
  BY DEF Child
<1>3. s \in Seq(Nat)
  BY <1>1
<1> HIDE DEF s
<1>4. /\ Len(Append(s, k)) = Len(s) + 1 /\ Len(s) \in Nat
      /\ \A i \in 1..Len(s) : Append(s, k)[i] = s[i]
      /\ Append(s, k)[Len(s) + 1] = k
  BY <1>1, <1>3
<1> QED
  BY <1>2, <1>4 DEF s

\* A place is one node's.
LEMMA SamePlace ==
  ASSUME NEW f \in Files, NEW y \in Written(f), NEW z \in Written(f),
         Len(y.place) = Len(z.place), \A i \in 1..Len(y.place) : y.place[i] = z.place[i]
  PROVE  y = z
<1>1. y.place \in Seq(Nat) /\ z.place \in Seq(Nat)
  BY WrittenIsATree
<1>2. y.place = z.place
  BY <1>1, SeqEqual
<1> QED
  BY <1>2, WrittenIsATree

\* Inside of a node is what is inside its children, each in one of them.
LEMMA UnderSplits ==
  ASSUME NEW f \in Files, NEW w \in Written(f), NEW v \in Written(f)
  PROVE  Under(w, v) <=> v = w \/ \E k \in DOMAIN w.node.children : Under(Child(w, k), v)
<1> DEFINE W == Written(f)
           good == {d \in Nat : \A x \in W :
                      (Len(x.place) = d /\ Under(w, x) /\ x # w) =>
                        \E k \in DOMAIN w.node.children : Under(Child(w, k), x)}
<1>0. \A x \in W : /\ x.place \in Seq(Nat)
                   /\ Len(x.place) \in Nat
                   /\ \/ x = Top(f)
                      \/ \E y \in W : \E k \in DOMAIN y.node.children : x = Child(y, k)
                   /\ \A y \in W : x.place = y.place => x = y
  BY WrittenIsATree
<1>1. ASSUME NEW x \in W, Under(w, x), Len(x.place) = Len(w.place) PROVE x = w
  <2>1. \A i \in 1..Len(x.place) : x.place[i] = w.place[i]
    BY <1>1 DEF Under
  <2> QED
    BY <1>1, <2>1, SamePlace
<1>2. 0 \in good
  <2> SUFFICES ASSUME NEW x \in W, Len(x.place) = 0, Under(w, x), x # w PROVE FALSE
    OBVIOUS
  <2>1. Len(x.place) = Len(w.place)
    BY <1>0 DEF Under
  <2> QED
    BY <1>1, <2>1
<1>3. ASSUME NEW d \in 0..(Len(v.place) - 1), d \in good PROVE d + 1 \in good
  <2> SUFFICES ASSUME NEW x \in W, Len(x.place) = d + 1, Under(w, x), x # w
               PROVE  \E k \in DOMAIN w.node.children : Under(Child(w, k), x)
    OBVIOUS
  <2>1. x # Top(f)
    BY DEF Top
  <2>2. PICK y \in W : \E j \in DOMAIN y.node.children : x = Child(y, j)
    BY <1>0, <2>1
  <2>3. PICK j \in DOMAIN y.node.children : x = Child(y, j)
    BY <2>2
  <2>4. /\ Len(y.place) = d
        /\ \A i \in 1..Len(y.place) : x.place[i] = y.place[i]
        /\ Len(y.place) \in Nat /\ Len(w.place) \in Nat
    <3>1. /\ Len(y.place) \in Nat /\ Len(Child(y, j).place) = Len(y.place) + 1
          /\ \A i \in 1..Len(y.place) : Child(y, j).place[i] = y.place[i]
      BY <2>3, ChildPlace
    <3>2. Len(w.place) \in Nat
      BY <1>0
    <3>3. Len(y.place) + 1 = d + 1 /\ d \in Nat
      BY <2>3, <3>1
    <3>4. Len(y.place) = d
      BY <3>1, <3>3
    <3> QED
      BY <2>3, <3>1, <3>2, <3>4
  <2>5. Len(w.place) # Len(x.place)
    BY <1>1
  <2>6. Under(w, y)
    BY <2>4, <2>5 DEF Under
  <2>7. CASE y = w
    <3>1. Under(x, x)
      BY <1>0 DEF Under
    <3> QED
      BY <2>3, <2>7, <3>1
  <2>8. CASE y # w
    <3>1. PICK k \in DOMAIN w.node.children : Under(Child(w, k), y)
      BY <1>3, <2>4, <2>6, <2>8
    <3>2. Len(Child(w, k).place) \in Nat
      BY ChildPlace
    <3>3. Under(Child(w, k), x)
      BY <2>4, <3>1, <3>2 DEF Under
    <3> QED
      BY <3>3
  <2> QED
    BY <2>7, <2>8
<1>4. ASSUME Under(w, v), v # w
      PROVE  \E k \in DOMAIN w.node.children : Under(Child(w, k), v)
  <2>1. Len(v.place) \in Nat
    BY <1>0
  <2> HIDE DEF good
  <2>2. 0..Len(v.place) \subseteq good
    BY <1>2, <1>3, <2>1, UpTo
  <2>3. Len(v.place) \in good
    BY <2>1, <2>2
  <2> QED
    BY <1>4, <2>3 DEF good
<1>5. ASSUME NEW k \in DOMAIN w.node.children, Under(Child(w, k), v) PROVE Under(w, v)
  <2>1. /\ Len(w.place) \in Nat /\ Len(Child(w, k).place) = Len(w.place) + 1
        /\ \A i \in 1..Len(w.place) : Child(w, k).place[i] = w.place[i]
    BY ChildPlace
  <2>2. Len(v.place) \in Nat
    BY <1>0
  <2> QED
    BY <1>5, <2>1, <2>2 DEF Under
<1>6. Under(w, w)
  BY <1>0 DEF Under
<1> QED
  BY <1>4, <1>5, <1>6

LEMMA UnderOne ==
  ASSUME NEW f \in Files, NEW w \in Written(f), NEW k \in DOMAIN w.node.children
  PROVE  /\ ~Under(Child(w, k), w)
         /\ \A l \in DOMAIN w.node.children : \A v \in Written(f) :
              Under(Child(w, k), v) /\ Under(Child(w, l), v) => k = l
<1>1. ~Under(Child(w, k), w)
  BY ChildPlace DEF Under
<1>2. ASSUME NEW l \in DOMAIN w.node.children, NEW v,
             Under(Child(w, k), v), Under(Child(w, l), v)
      PROVE  k = l
  <2> DEFINE n == Len(w.place)
  <2>1. /\ n \in Nat
        /\ Len(Child(w, k).place) = n + 1 /\ Child(w, k).place[n + 1] = k
        /\ Len(Child(w, l).place) = n + 1 /\ Child(w, l).place[n + 1] = l
    BY ChildPlace
  <2>2. n + 1 \in 1..(n + 1)
    BY <2>1
  <2>3. v.place[n + 1] = k
    BY <1>2, <2>1, <2>2 DEF Under
  <2>4. v.place[n + 1] = l
    BY <1>2, <2>1, <2>2 DEF Under
  <2> QED
    BY <2>3, <2>4
<1> QED
  BY <1>1, <1>2

LEMMA UnderTop == ASSUME NEW f \in Files, NEW v \in Written(f) PROVE Under(Top(f), v)
<1>1. Len(v.place) \in Nat
  BY WrittenIsATree
<1> QED
  BY <1>1 DEF Under, Top

\* The places of the nodes still to be visited: no two share what is inside.
Leads(f, pl, list) ==
  /\ pl \in Seq(Written(f))
  /\ Len(pl) = Len(list)
  /\ \A i \in 1..Len(pl) : list[i] = pl[i].node
  /\ \A i, j \in 1..Len(pl) : \A v \in Written(f) :
       Under(pl[i], v) /\ Under(pl[j], v) => i = j

\* What is still to be visited.
Left(f, pl) == {v \in Written(f) : \E i \in 1..Len(pl) : Under(pl[i], v)}

LEMMA BodyLeads ==
  ASSUME NEW f \in Files
  PROVE  /\ f.body \in Seq(NodesOf(f))
         /\ \E pl : Leads(f, pl, f.body) /\ Left(f, pl) = Written(f) \ {Top(f)}
<1> DEFINE W == Written(f)
           top == Top(f)
           n == Len(f.body)
           pl == [k \in 1..n |-> Child(top, k)]
<1>1. /\ top \in W /\ top.node.children = f.body
      /\ f.body \in Seq(NodesOf(f)) /\ n \in Nat /\ DOMAIN f.body = 1..n
      /\ \A k \in 1..n : Child(top, k) \in W
  <2>1. top.node.children = f.body
    BY DEF Top, Other, Node
  <2>2. /\ top \in W /\ top.node.children \in Seq(NodesOf(f))
        /\ \A k \in DOMAIN top.node.children : Child(top, k) \in W
    BY WrittenIsATree
  <2> QED
    BY <2>1, <2>2
<1>2. \A k \in 1..n : pl[k] = Child(top, k) /\ pl[k].node = f.body[k]
  BY <1>1, ChildPlace
<1>3. pl \in Seq(W) /\ Len(pl) = n
  BY <1>1
<1> HIDE DEF pl, top, W
<1>4. \A v \in W : v = top \/ \E k \in 1..n : Under(pl[k], v)
  BY <1>1, <1>2, UnderSplits, UnderTop DEF W, top
<1>5. \A k \in 1..n : ~Under(pl[k], top)
  BY <1>1, <1>2, UnderOne DEF W, top
<1>6. \A i, j \in 1..n : \A v \in W : Under(pl[i], v) /\ Under(pl[j], v) => i = j
  BY <1>1, <1>2, UnderOne DEF W, top
<1>7. Leads(f, pl, f.body)
  BY <1>2, <1>3, <1>6 DEF Leads, W
<1>8. Left(f, pl) = W \ {top}
  BY <1>3, <1>4, <1>5 DEF Left, W
<1> QED
  BY <1>1, <1>7, <1>8 DEF W, top

LEMMA DescendLeads ==
  ASSUME NEW f \in Files, NEW list \in Seq(NodesOf(f)), list # << >>,
         NEW pl, Leads(f, pl, list)
  PROVE  LET w == pl[1]
             rest == Head(list).children \o Tail(list)
         IN /\ w \in Written(f) /\ w.node = Head(list) /\ w \in Left(f, pl)
            /\ rest \in Seq(NodesOf(f))
            /\ \E kids : Leads(f, kids, rest) /\ Left(f, kids) = Left(f, pl) \ {w}
<1> DEFINE W == Written(f)
           w == pl[1]
           n == Len(w.node.children)
           kids == [k \in 1..n |-> Child(w, k)]
           others == Tail(pl)
           both == kids \o others
           rest == Head(list).children \o Tail(list)
<1>1. /\ pl \in Seq(W) /\ Len(pl) = Len(list) /\ Len(pl) \in Nat /\ Len(pl) >= 1
      /\ \A i \in 1..Len(pl) : list[i] = pl[i].node
      /\ \A i, j \in 1..Len(pl) : \A v \in W : Under(pl[i], v) /\ Under(pl[j], v) => i = j
  BY DEF Leads
<1>2. /\ w \in W /\ w.node = Head(list)
      /\ w.node.children \in Seq(NodesOf(f)) /\ n \in Nat /\ DOMAIN w.node.children = 1..n
      /\ \A k \in 1..n : Child(w, k) \in W
  <2>1. w \in W /\ w.node = Head(list)
    BY <1>1
  <2>2. w.node.children \in Seq(NodesOf(f)) /\ \A k \in DOMAIN w.node.children : Child(w, k) \in W
    BY <2>1, WrittenIsATree
  <2> QED
    BY <2>1, <2>2
<1>3. Under(w, w) /\ \A v \in W : Under(w, v) <=> v = w \/ \E k \in 1..n : Under(Child(w, k), v)
  BY <1>2, UnderSplits
<1>4. /\ \A k \in 1..n : ~Under(Child(w, k), w)
      /\ \A k, l \in 1..n : \A v \in W : Under(Child(w, k), v) /\ Under(Child(w, l), v) => k = l
      /\ \A k \in 1..n : Child(w, k).node = w.node.children[k]
  <2>1. \A k \in 1..n : ~Under(Child(w, k), w)
    BY <1>2, UnderOne
  <2>2. \A k, l \in 1..n : \A v \in W : Under(Child(w, k), v) /\ Under(Child(w, l), v) => k = l
    BY <1>2, UnderOne
  <2>3. \A k \in 1..n : Child(w, k).node = w.node.children[k]
    BY DEF Child
  <2> QED
    BY <2>1, <2>2, <2>3
<1>5. /\ kids \in Seq(W) /\ Len(kids) = n
      /\ \A k \in 1..n : kids[k] = Child(w, k)
  BY <1>2
<1>6. /\ others \in Seq(W) /\ Len(others) = Len(pl) - 1
      /\ \A i \in 1..Len(others) : others[i] = pl[i + 1] /\ i + 1 \in 1..Len(pl)
      /\ \A i \in 2..Len(pl) : i - 1 \in 1..Len(others) /\ others[i - 1] = pl[i]
  <2>1. /\ others \in Seq(W) /\ Len(others) = Len(pl) - 1
        /\ \A i \in 1..(Len(pl) - 1) : others[i] = pl[i + 1]
    <3> HIDE DEF W
    <3> QED
      BY <1>1
  <2> HIDE DEF others, W
  <2>2. \A i \in 1..Len(others) : others[i] = pl[i + 1] /\ i + 1 \in 1..Len(pl)
    BY <1>1, <2>1
  <2>3. \A i \in 2..Len(pl) : i - 1 \in 1..Len(others) /\ i = (i - 1) + 1
    BY <1>1, <2>1
  <2>4. \A i \in 2..Len(pl) : others[i - 1] = pl[i]
    BY <2>2, <2>3
  <2> QED
    BY <2>1, <2>2, <2>3, <2>4
<1>7. /\ Head(list).children = w.node.children
      /\ Tail(list) \in Seq(NodesOf(f)) /\ Len(Tail(list)) = Len(others)
      /\ \A i \in 1..Len(others) : Tail(list)[i] = others[i].node
      /\ rest \in Seq(NodesOf(f))
  <2>1. /\ Tail(list) \in Seq(NodesOf(f)) /\ Len(Tail(list)) = Len(list) - 1
        /\ \A i \in 1..(Len(list) - 1) : Tail(list)[i] = list[i + 1]
    OBVIOUS
  <2> QED
    BY <1>1, <1>2, <1>6, <2>1
<1> DEFINE m == Len(others)
           rests == Tail(list)
<1>8. m \in Nat
  BY <1>1, <1>6
<1>9. /\ both \in Seq(W) /\ Len(both) = n + m
      /\ \A i \in 1..n : both[i] = Child(w, i)
      /\ \A i \in (n + 1)..(n + m) : both[i] = others[i - n] /\ i - n \in 1..m
  <2> HIDE DEF kids, others
  <2>1. /\ Len(others) = m /\ Len(kids) = n /\ kids \in Seq(W) /\ others \in Seq(W)
        /\ both = kids \o others
    BY <1>5, <1>6
  <2> HIDE DEF both, n, m, W
  <2>2. /\ both \in Seq(W) /\ Len(both) = n + m
        /\ \A i \in 1..n : both[i] = kids[i]
        /\ \A i \in (n + 1)..(n + m) : both[i] = others[i - n] /\ i - n \in 1..m
    BY <2>1, ConcatAt, ZenonT(40)
  <2> QED
    BY <1>5, <2>2
<1>10. /\ Len(rest) = n + m
       /\ \A i \in 1..n : rest[i] = w.node.children[i]
       /\ \A i \in (n + 1)..(n + m) : rest[i] = rests[i - n]
  <2> DEFINE first == w.node.children
  <2>1. first \in Seq(NodesOf(f)) /\ rests \in Seq(NodesOf(f)) /\ rest = first \o rests
        /\ Len(first) = n /\ Len(rests) = m
    BY <1>2, <1>7
  <2> HIDE DEF first, rests, rest, n, m
  <2>2. /\ Len(rest) = n + m
        /\ \A i \in 1..n : rest[i] = first[i]
        /\ \A i \in (n + 1)..(n + m) : rest[i] = rests[i - n]
    BY <2>1, ConcatAt, ZenonT(40)
  <2> QED
    BY <2>2 DEF first
<1> HIDE DEF both, rest, kids, others, rests, m, n, w, W
<1>11. \A i \in 1..(n + m) : i \in 1..n \/ i \in (n + 1)..(n + m)
  BY <1>2, <1>8
<1>12. \A i \in 1..n : ~(i \in (n + 1)..(n + m)) /\ i \in 1..(n + m)
  BY <1>2, <1>8
<1>13. \A i \in (n + 1)..(n + m) : i \in 1..(n + m) /\ (i - n) + 1 \in 2..Len(pl) /\ both[i] = pl[(i - n) + 1]
  BY <1>1, <1>2, <1>6, <1>8, <1>9 DEF m
<1>14. \A i \in 1..(n + m) : rest[i] = both[i].node
  <2> SUFFICES ASSUME NEW i \in 1..(n + m) PROVE rest[i] = both[i].node
    OBVIOUS
  <2>1. CASE i \in 1..n
    BY <1>4, <1>9, <1>10, <2>1
  <2>2. CASE i \in (n + 1)..(n + m)
    BY <1>7, <1>9, <1>10, <2>2 DEF rests, m
  <2> QED
    BY <1>11, <2>1, <2>2
<1>15. \A j \in 2..Len(pl) : \A v \in W : Under(pl[j], v) => ~Under(w, v)
  BY <1>1 DEF w
<1>16. ASSUME NEW i \in 1..(n + m), NEW j \in 1..(n + m), NEW v \in W,
              Under(both[i], v), Under(both[j], v)
       PROVE  i = j
  <2>1. CASE i \in 1..n /\ j \in 1..n
    BY <1>4, <1>9, <1>16, <2>1
  <2>2. CASE i \in 1..n /\ j \in (n + 1)..(n + m)
    <3>1. Under(w, v)
      BY <1>3, <1>9, <1>16, <2>2
    <3> QED
      BY <1>13, <1>15, <1>16, <2>2, <3>1
  <2>3. CASE j \in 1..n /\ i \in (n + 1)..(n + m)
    <3>1. Under(w, v)
      BY <1>3, <1>9, <1>16, <2>3
    <3> QED
      BY <1>13, <1>15, <1>16, <2>3, <3>1
  <2>4. CASE i \in (n + 1)..(n + m) /\ j \in (n + 1)..(n + m)
    <3>1. (i - n) + 1 \in 1..Len(pl) /\ (j - n) + 1 \in 1..Len(pl)
      BY <1>1, <1>13, <2>4
    <3>2. (i - n) + 1 = (j - n) + 1
      BY <1>1, <1>13, <1>16, <2>4, <3>1
    <3> QED
      BY <1>2, <1>8, <3>2
  <2> QED
    BY <1>11, <2>1, <2>2, <2>3, <2>4
<1>17. Leads(f, both, rest)
  BY <1>9, <1>10, <1>14, <1>16 DEF Leads, W
<1>18. ASSUME NEW v \in W
       PROVE  (\E i \in 1..(n + m) : Under(both[i], v))
                <=> (\E i \in 1..Len(pl) : Under(pl[i], v)) /\ v # w
  <2>1. ASSUME NEW i \in 1..(n + m), Under(both[i], v)
        PROVE  (\E j \in 1..Len(pl) : Under(pl[j], v)) /\ v # w
    <3>1. CASE i \in 1..n
      BY <1>1, <1>3, <1>4, <1>9, <2>1, <3>1 DEF w
    <3>2. CASE i \in (n + 1)..(n + m)
      BY <1>1, <1>3, <1>13, <1>15, <2>1, <3>2
    <3> QED
      BY <1>11, <3>1, <3>2
  <2>2. ASSUME NEW j \in 1..Len(pl), Under(pl[j], v), v # w
        PROVE  \E i \in 1..(n + m) : Under(both[i], v)
    <3>1. CASE j = 1
      <4>1. PICK k \in 1..n : Under(Child(w, k), v)
        BY <1>3, <2>2, <3>1 DEF w
      <4> QED
        BY <1>9, <1>12, <4>1
    <3>2. CASE j # 1
      <4>1. j \in 2..Len(pl)
        BY <1>1, <3>2
      <4>2. /\ n + (j - 1) \in (n + 1)..(n + m)
            /\ ((n + (j - 1)) - n) + 1 = j
        BY <1>1, <1>2, <1>6, <1>8, <4>1 DEF m
      <4>3. n + (j - 1) \in 1..(n + m) /\ both[n + (j - 1)] = pl[j]
        BY <1>13, <4>2
      <4> QED
        BY <2>2, <4>3
    <3> QED
      BY <3>1, <3>2
  <2> QED
    BY <2>1, <2>2
<1>19. Left(f, both) = Left(f, pl) \ {w}
  BY <1>9, <1>18 DEF Left, W
<1>20. w \in Left(f, pl)
  BY <1>1, <1>2, <1>3 DEF Left, W, w
<1> QED
  BY <1>2, <1>7, <1>17, <1>19, <1>20 DEF W, w, rest

-----------------------------------------------------------------------------
\* Names.

LEMMA UsesOfOnePath ==
  ASSUME NEW path, NEW functions, NEW algorithm, NEW primitive, NEW keySize,
         NEW u \in Uses(path, functions, algorithm, primitive, keySize)
  PROVE  u.path = path
<1>1. PICK f \in functions :
        u = [path |-> path, function |-> f, algorithm |-> algorithm,
             primitive |-> primitive, keySize |-> keySize]
  BY DEF Uses
<1> QED
  BY <1>1

LEMMA PathsAreWritten == \A u \in table : u.path # ""
<1> DEFINE paths == {"crypto/rsa", "crypto/ecdsa", "crypto/ed25519", "crypto/ecdh", "crypto/aes",
                     "crypto/des", "crypto/rc4", "crypto/md5", "crypto/sha1", "crypto/sha256",
                     "crypto/sha512", "crypto/hmac", "golang.org/x/crypto/chacha20poly1305",
                     "crypto/mlkem"}
<1> SUFFICES ASSUME NEW u \in table PROVE u.path # ""
  OBVIOUS
<1>1. \A path, functions, algorithm, primitive, keySize :
        u \in Uses(path, functions, algorithm, primitive, keySize) => u.path = path
  BY UsesOfOnePath, Zenon
<1>2. u.path \in paths
  BY <1>1, SMTT(60) DEF table
<1> QED
  BY <1>2, Zenon

\* The walk reads a name as what the file imports by it, for the packages that
\* are watched.
LEMMA ReadsWhatIsImported ==
  ASSUME file \in Files, packages = Resolved(file.imports), NEW n, NEW path, watched(path)
  PROVE  PackageOf(n.recv) = path <=> Imported(n, path)
<1> DEFINE imports == file.imports
           resolved == {k \in DOMAIN imports : Resolves(imports[k])}
           last(name) == CHOOSE k \in resolved :
                           /\ local(imports[k]) = name
                           /\ \A l \in resolved : local(imports[l]) = name => l <= k
           Names == {local(imports[k]) : k \in resolved}
<1>1. packages = [name \in Names |-> imports[last(name)].path]
  BY DEF Resolved
<1>2. \A k, l \in resolved : local(imports[k]) = local(imports[l]) => k = l
  <2>1. \A k, l \in DOMAIN imports :
          /\ {imports[k].name, imports[l].name} \cap {"_", "."} = {}
          /\ local(imports[k]) = local(imports[l])
          => k = l
    BY FilesAssumption
  <2> QED
    BY <2>1 DEF Resolves
<1>3. DOMAIN imports \subseteq Nat
  <2>1. imports \in Seq([path : STRING, name : STRING])
    BY FilesAssumption
  <2> QED
    BY <2>1
<1>4. path # ""
  BY PathsAreWritten DEF watched
<1> HIDE DEF imports
<1>5. ASSUME NEW k \in resolved PROVE last(local(imports[k])) = k
  <2>1. k <= k /\ \A l \in resolved : local(imports[l]) = local(imports[k]) => l <= k
    BY <1>2, <1>3
  <2>2. \E l \in resolved : /\ local(imports[l]) = local(imports[k])
                            /\ \A m \in resolved : local(imports[m]) = local(imports[k]) => m <= l
    BY <2>1
  <2> HIDE DEF resolved
  <2>3. /\ last(local(imports[k])) \in resolved
        /\ local(imports[last(local(imports[k]))]) = local(imports[k])
    BY <2>2
  <2> QED
    BY <1>2, <2>3
<1> HIDE DEF last
<1>6. ASSUME NEW k \in resolved
      PROVE  /\ local(imports[k]) \in DOMAIN packages
             /\ packages[local(imports[k])] = imports[k].path
  BY <1>1, <1>5
<1>7. DOMAIN packages = Names
  BY <1>1
<1>8. ASSUME PackageOf(n.recv) = path PROVE Imported(n, path)
  <2>1. n.recv \in Names /\ packages[n.recv] = path
    BY <1>4, <1>7, <1>8 DEF PackageOf
  <2>2. PICK k \in resolved : n.recv = local(imports[k])
    BY <2>1
  <2>3. imports[k].path = path
    BY <1>6, <2>1, <2>2
  <2> QED
    BY <2>2, <2>3 DEF Imported, Resolves, local, imports
<1>9. ASSUME Imported(n, path) PROVE PackageOf(n.recv) = path
  <2>1. PICK k \in DOMAIN imports :
          /\ imports[k].path = path
          /\ imports[k].name \notin {"_", "."}
          /\ n.recv = IF imports[k].name = "" THEN AfterLast(path, "/") ELSE imports[k].name
    BY <1>9 DEF Imported, imports
  <2>2. k \in resolved /\ n.recv = local(imports[k])
    BY <2>1 DEF Resolves, local
  <2> QED
    BY <1>6, <2>1, <2>2 DEF PackageOf
<1> QED
  BY <1>8, <1>9

LEMMA MeansItsUses ==
  ASSUME file \in Files, packages = Resolved(file.imports), NEW n, n.node = "call"
  PROVE  Meaning(n) = UsesOf(n)
<1>1. \A u \in table : watched(u.path)
  BY DEF watched
<1>2. \A u \in table : PackageOf(n.recv) = u.path <=> Imported(n, u.path)
  BY <1>1, ReadsWhatIsImported
<1> QED
  BY <1>2 DEF Meaning, UsesOf

LEMMA ReadsTls ==
  ASSUME file \in Files, packages = Resolved(file.imports), NEW n
  PROVE  PackageOf(n.recv) = "crypto/tls" <=> Imported(n, "crypto/tls")
<1>1. watched("crypto/tls")
  BY DEF watched
<1> QED
  BY <1>1, ReadsWhatIsImported

\* Where no import is watched, no call is and no configuration.
LEMMA NothingWatched ==
  ASSUME DOMAIN Resolved(file.imports) = {}
  PROVE  Calls = {} /\ Configs = {}
<1>1. \A k \in DOMAIN file.imports : ~Resolves(file.imports[k])
  BY DEF Resolved
<1>2. watched("crypto/tls") /\ \A u \in table : watched(u.path)
  BY DEF watched
<1>3. \A n : UsesOf(n) = {}
  BY <1>1, <1>2 DEF UsesOf, Imported, Resolves
<1>4. \A n : ~Imported(n, "crypto/tls")
  BY <1>1, <1>2 DEF Imported, Resolves
<1> QED
  BY <1>3, <1>4 DEF Calls, Configs

-----------------------------------------------------------------------------
\* Findings.

\* The fields every finding has.
Fields ==
  {"name", "kind", "primitive", "algorithm", "keySize", "curve", "mode", "location",
   "module", "evidence", "posture", "citation"}

LEMMA FindingFields ==
  ASSUME NEW name, NEW kind, NEW primitive, NEW algorithm, NEW location, NEW evidence
  PROVE  LET a == Finding(name, kind, primitive, algorithm, location, evidence)
         IN /\ DOMAIN a = Fields
            /\ a.name = name /\ a.kind = kind /\ a.primitive = primitive
            /\ a.algorithm = algorithm /\ a.location = location /\ a.evidence = evidence
            /\ a.keySize = 0
<1>1. PICK unset : Finding(name, kind, primitive, algorithm, location, evidence)
                     = [name |-> name, kind |-> kind, primitive |-> primitive,
                        algorithm |-> algorithm, keySize |-> 0, curve |-> unset,
                        mode |-> unset, location |-> location, module |-> unset,
                        evidence |-> evidence, posture |-> unset, citation |-> unset]
  BY Zenon DEF Finding
<1> QED
  BY <1>1 DEF Fields

LEMMA InFront ==
  ASSUME NEW x, NEW y, NEW B, NEW tail \in Seq(B)
  PROVE  (<<x, y>> \o tail)[1] = x /\ (<<x, y>> \o tail)[2] = y
<1> DEFINE A == B \cup {x, y}
<1>1. <<x, y>> \in Seq(A) /\ tail \in Seq(A) /\ Len(<<x, y>>) = 2
  OBVIOUS
<1> HIDE DEF A
<1> QED
  BY <1>1

\* The finding of a call says where it is and how it is written.
LEMMA CallIsReported ==
  ASSUME NEW n, NEW u, n.recv # "tls.Config"
  PROVE  /\ "posture" \in DOMAIN callAsset(n, u)
         /\ ~Configured(callAsset(n, u))
         /\ \A m : Reports(callAsset(n, u), m) <=> SameCall(n, m)
<1> DEFINE base == [Algorithm(u.algorithm, u.primitive, u.algorithm,
                              InFile(file.path, n.line), <<n.recv, n.name>>)
                      EXCEPT !.keySize = u.keySize]
           a == callAsset(n, u)
           Sees(b) == /\ "posture" \in DOMAIN b
                      /\ b.location.line = n.line
                      /\ b.evidence[1] = n.recv
                      /\ b.evidence[2] = n.name
<1>1. /\ DOMAIN base = {"name", "kind", "primitive", "algorithm", "keySize", "curve", "mode",
                        "location", "module", "evidence", "posture", "citation"}
      /\ base.location.line = n.line
      /\ base.evidence = <<n.recv, n.name>>
  BY DEF Algorithm, Finding, InFile
<1>2. \A x, y : /\ (<<n.recv, n.name>> \o <<x, y>>)[1] = n.recv
                /\ (<<n.recv, n.name>> \o <<x, y>>)[2] = n.name
  <2> SUFFICES ASSUME NEW x, NEW y
               PROVE  /\ (<<n.recv, n.name>> \o <<x, y>>)[1] = n.recv
                      /\ (<<n.recv, n.name>> \o <<x, y>>)[2] = n.name
    OBVIOUS
  <2>1. <<x, y>> \in Seq({x, y})
    OBVIOUS
  <2> QED
    BY <2>1, InFront
<1>3. a = enrich(base, u, n.children)
  BY DEF callAsset
<1> HIDE DEF base
<1>4. Sees(base)
  BY <1>1
<1>5. ASSUME NEW size, NEW name, NEW x, NEW y
      PROVE  Sees([base EXCEPT !.keySize = size, !.name = name, !.evidence = @ \o <<x, y>>])
  BY <1>1, <1>2
<1>6. ASSUME NEW size, NEW curve, NEW name, NEW x, NEW y
      PROVE  Sees([base EXCEPT !.keySize = size, !.curve = curve, !.name = name,
                               !.evidence = @ \o <<x, y>>])
  BY <1>1, <1>2
<1> HIDE DEF Sees, a
<1>7. Sees(a)
  BY <1>3, <1>4, <1>5, <1>6, Zenon DEF enrich
<1>8. ~Configured(a)
  BY <1>7 DEF Configured, Sees
<1>9. \A m : Reports(a, m) <=> SameCall(n, m)
  BY <1>7, <1>8 DEF Reports, SameCall, Sees
<1> QED
  BY <1>7, <1>8, <1>9 DEF a, Sees

\* Its size is implied by the function's name or stands in the call.
LEMMA SizeIsStated ==
  ASSUME file \in Files, packages = Resolved(file.imports),
         NEW n, NEW u, n.children \in Seq(NodesOf(file))
  PROVE  callAsset(n, u).keySize = u.keySize \/ Says(n, callAsset(n, u).keySize)
<1> DEFINE base == [Algorithm(u.algorithm, u.primitive, u.algorithm,
                              InFile(file.path, n.line), <<n.recv, n.name>>)
                      EXCEPT !.keySize = u.keySize]
           args == n.children
           a == callAsset(n, u)
           rsa == /\ u.path = "crypto/rsa" /\ u.function = "GenerateKey"
                  /\ Len(args) >= 2 /\ args[2].node = "int"
           ecdsa == /\ u.path = "crypto/ecdsa" /\ u.function = "GenerateKey"
                    /\ Len(args) >= 1 /\ CurveArgument(args[1]) # {}
<1>1. /\ "keySize" \in DOMAIN base /\ "name" \in DOMAIN base /\ "evidence" \in DOMAIN base
      /\ "curve" \in DOMAIN base /\ base.keySize = u.keySize
  BY DEF Algorithm, Finding
<1>2. a = enrich(base, u, args)
  BY DEF callAsset
<1>3. Len(args) \in Nat /\ DOMAIN args = 1..Len(args)
  OBVIOUS
<1> HIDE DEF base, a
<1>4. CASE rsa
  <2>1. a.keySize = args[2].value
    <3>1. ~(u.path = "crypto/ecdsa")
      BY <1>4
    <3> QED
      BY <1>1, <1>2, <1>4, <3>1 DEF enrich
  <2>2. 2 \in DOMAIN args
    BY <1>3, <1>4
  <2>3. Says(n, a.keySize)
    BY <1>4, <2>1, <2>2 DEF Says
  <2> QED
    BY <2>3 DEF a
<1>5. CASE ecdsa
  <2> DEFINE curve == CHOOSE c \in CurveArgument(args[1]) : TRUE
  <2>1. curve \in CurveArgument(args[1])
    BY <1>5
  <2>2. a.keySize = curveNames[curve]
    <3>1. ~(u.path = "crypto/rsa")
      BY <1>5
    <3> QED
      BY <1>1, <1>2, <1>5, <3>1 DEF enrich
  <2> HIDE DEF curve
  <2>3. 1 \in DOMAIN args
    BY <1>3, <1>5
  <2>4. /\ curve \in DOMAIN curveNames /\ args[1].node = "call"
        /\ PackageOf(args[1].recv) = "crypto/elliptic" /\ args[1].name = curve
    BY <2>1 DEF CurveArgument
  <2>5. watched("crypto/elliptic")
    BY DEF watched
  <2>6. Imported(args[1], "crypto/elliptic")
    BY <2>4, <2>5, ReadsWhatIsImported
  <2>7. Says(n, a.keySize)
    BY <2>2, <2>3, <2>4, <2>6 DEF Says
  <2> QED
    BY <2>7 DEF a
<1>6. CASE ~rsa /\ ~ecdsa
  <2>1. a = base
    BY <1>2, <1>6, Zenon DEF enrich
  <2> QED
    BY <1>1, <2>1 DEF a
<1> QED
  BY <1>4, <1>5, <1>6

\* Two findings of one thing: they differ in where it stands and what was seen.
Same(a, b) ==
  /\ DOMAIN a = Fields /\ DOMAIN b = Fields
  /\ \A field \in Fields \ {"location", "evidence", "module"} : a[field] = b[field]

LEMMA SameOfOne ==
  ASSUME NEW a, NEW b, NEW c, Same(a, c), Same(b, c)
  PROVE  Same(a, b)
BY DEF Same

LEMMA FindingsAreSame ==
  ASSUME NEW name, NEW kind, NEW primitive, NEW algorithm, NEW at, NEW evidence,
         NEW other, NEW seen
  PROVE  LET a == Finding(name, kind, primitive, algorithm, at, evidence)
         IN Same(a, Finding(name, kind, primitive, algorithm, other, seen)) /\ a.name = name
<1>1. PICK unset : \A x, y : Finding(name, kind, primitive, algorithm, x, y)
                     = [name |-> name, kind |-> kind, primitive |-> primitive,
                        algorithm |-> algorithm, keySize |-> 0, curve |-> unset,
                        mode |-> unset, location |-> x, module |-> unset,
                        evidence |-> y, posture |-> unset, citation |-> unset]
  BY Zenon DEF Finding
<1> QED
  BY <1>1 DEF Same, Fields

\* The same may be filled in.
LEMMA FilledIsSame ==
  ASSUME NEW a, NEW b, Same(a, b), NEW bits, NEW mode
  PROVE  Same([a EXCEPT !.keySize = bits, !.mode = mode], [b EXCEPT !.keySize = bits, !.mode = mode])
BY DEF Same

LEMMA SameElsewhere ==
  ASSUME NEW a, DOMAIN a = Fields, NEW location, NEW module
  PROVE  Same([a EXCEPT !.module = module, !.location = location], a)
BY DEF Same, Fields

LEMMA SameSeen ==
  ASSUME NEW a, DOMAIN a = Fields, NEW evidence
  PROVE  Same([a EXCEPT !.evidence = evidence], a)
BY DEF Same, Fields

\* What an algorithm is judged by is a name the readers write, and where a size
\* is stated it is of an algorithm that has one.
Graded(a) ==
  /\ DOMAIN a = Fields /\ a.keySize \in Nat
  /\ a.kind = "algorithm" => family(a) \in AlgorithmNames
  /\ a.keySize # 0 => <<family(a), a.primitive>> \in SizedAlgorithms

LEMMA GradedStays == ASSUME NEW a, NEW b, Graded(a), Same(b, a) PROVE Graded(b)
<1>1. /\ DOMAIN b = Fields /\ b.keySize = a.keySize /\ b.kind = a.kind
      /\ b.primitive = a.primitive /\ b.name = a.name /\ b.algorithm = a.algorithm
  BY DEF Same, Fields
<1>2. family(b) = family(a)
  BY <1>1, Zenon DEF family
<1> QED
  BY <1>1, <1>2 DEF Graded

Stated(algorithm) == algorithm # ""

LEMMA FamilyIsStated == ASSUME NEW a, Stated(a.algorithm) PROVE family(a) = a.algorithm
BY Zenon DEF family, Stated

LEMMA FamilyIsTheName == ASSUME NEW a, a.algorithm = a.name PROVE family(a) = a.name
BY Zenon DEF family

LEMMA UsesAreStated == \A u \in table : Stated(u.algorithm) /\ u.keySize \in Nat
<1> DEFINE algorithms == {"RSA", "ECDSA", "ED25519", "ECDH", "X25519", "AES", "DES", "3DES", "RC4",
                          "MD5", "SHA-1", "SHA-256", "SHA-224", "SHA-512", "SHA-384", "HMAC",
                          "CHACHA20-POLY1305", "ML-KEM-768", "ML-KEM-1024"}
<1> SUFFICES ASSUME NEW u \in table PROVE Stated(u.algorithm) /\ u.keySize \in Nat
  OBVIOUS
<1>1. \A path, functions, algorithm, primitive, keySize :
        u \in Uses(path, functions, algorithm, primitive, keySize) =>
          u.algorithm = algorithm /\ u.keySize = keySize
  BY DEF Uses
<1>2. u.algorithm \in algorithms /\ u.keySize \in {0, 56, 168, 256, 384, 521}
  BY <1>1, SMTT(60) DEF table
<1>3. Stated(u.algorithm)
  BY <1>2, Zenon DEF Stated
<1>4. u.keySize \in Nat
  BY <1>2
<1> QED
  BY <1>3, <1>4

LEMMA CurvesHaveSizes == \A curve \in DOMAIN curveNames : curveNames[curve] \in Nat
BY DEF curveNames

LEMMA CiphersAreStated == \A c \in ciphers : Stated(c.algorithm) /\ c.bits \in Nat
<1>1. \A c \in ciphers : c.algorithm \in {"AES", "CHACHA20-POLY1305", "3DES", "RC4"} /\ c.bits \in Nat
  BY DEF ciphers, Cipher
<1> QED
  BY <1>1, Zenon DEF Stated

\* What a version, a suite and a group are, wherever they stand.
VersionFinding(name) == Finding(name, "protocol", "", "", AtHost(Address), << >>)
SuiteFinding(suite) == cipherAsset(suite, AtHost(Address))
GroupFinding(name) == Algorithm(name, "key-agree", name, AtHost(Address), << >>)

\* What a configuration says: one of those, or that it does not say.
Setting(a) ==
  /\ Graded(a)
  /\ \/ a.name \in SettingVersions /\ Same(a, VersionFinding(a.name))
     \/ a.name \in suiteConstants /\ Same(a, SuiteFinding(a.name))
     \/ a.name \in SettingGroups /\ Same(a, GroupFinding(a.name))
     \/ a.name \in Gaps

LEMMA SettingStays == ASSUME NEW a, NEW b, Setting(a), Same(b, a) PROVE Setting(b)
<1>1. b.name = a.name /\ Graded(b)
  BY GradedStays DEF Setting, Same, Fields
<1>2. \A c : Same(a, c) => Same(b, c)
  BY DEF Same
<1> QED
  BY <1>1, <1>2, Zenon DEF Setting

\* A suite is the same wherever it stands.
LEMMA SuitesAreSame ==
  ASSUME NEW suite, NEW at, NEW other
  PROVE  /\ Same(cipherAsset(suite, at), cipherAsset(suite, other))
         /\ cipherAsset(suite, at).name = suite
<1> DEFINE named == {d \in ciphers : Contains(suite, d.part)}
           cipher == IF named = {} THEN Cipher("", suite, 0, "block-cipher")
                     ELSE CHOOSE d \in named : TRUE
           mode == cipherMode(suite)
           primitive == IF mode \in {"gcm", "ccm"} THEN "ae" ELSE cipher.primitive
           seen == <<"negotiated suite", suite>>
           Bare(y) == Finding(suite, "algorithm", primitive, cipher.algorithm, y, seen)
<1>1. \A y : cipherAsset(suite, y) = [Bare(y) EXCEPT !.keySize = cipher.bits, !.mode = mode]
  BY Zenon DEF cipherAsset, Algorithm
<1> HIDE DEF cipher, mode, primitive, seen
<1>2. /\ DOMAIN Bare(at) = Fields /\ Bare(at).name = suite
      /\ Same([Bare(at) EXCEPT !.keySize = cipher.bits, !.mode = mode],
              [Bare(other) EXCEPT !.keySize = cipher.bits, !.mode = mode])
  <2>1. DOMAIN Bare(at) = Fields /\ Bare(at).name = suite
    BY FindingFields
  <2>2. Same([Bare(at) EXCEPT !.keySize = cipher.bits, !.mode = mode],
             [Bare(other) EXCEPT !.keySize = cipher.bits, !.mode = mode])
    BY FindingsAreSame, FilledIsSame
  <2> QED
    BY <2>1, <2>2
<1> DEFINE b == Bare(at)
<1>3. DOMAIN b = Fields /\ b.name = suite
  BY <1>2
<1> HIDE DEF b
<1>4. [b EXCEPT !.keySize = cipher.bits, !.mode = mode].name = suite
  BY <1>3 DEF Fields
<1> QED
  BY <1>1, <1>2, <1>4 DEF b

\* A suite is judged by its cipher, which has a size, or by its name.
LEMMA SuiteIsGraded ==
  ASSUME NEW suite \in suiteConstants, NEW at
  PROVE  Graded(cipherAsset(suite, at))
<1> DEFINE named == {c \in ciphers : Contains(suite, c.part)}
           cipher == IF named = {} THEN Cipher("", suite, 0, "block-cipher")
                     ELSE CHOOSE c \in named : TRUE
           mode == cipherMode(suite)
           primitive == IF mode \in {"gcm", "ccm"} THEN "ae" ELSE cipher.primitive
           seen == <<"negotiated suite", suite>>
           b == Finding(suite, "algorithm", primitive, cipher.algorithm, at, seen)
           a == [b EXCEPT !.keySize = cipher.bits, !.mode = mode]
<1>1. cipherAsset(suite, at) = a
  BY Zenon DEF cipherAsset, Algorithm
<1>2. \/ cipher \in ciphers
      \/ \E part : cipher = Cipher(part, suite, 0, "block-cipher")
  <2>1. CASE named = {}
    BY <2>1, Zenon
  <2>2. CASE named # {}
    <3>1. (CHOOSE c \in named : TRUE) \in ciphers
      BY <2>2
    <3> QED
      BY <2>2, <3>1, Zenon
  <2> QED
    BY <2>1, <2>2
<1> HIDE DEF named, cipher, mode, seen
<1>3. primitive \in {"ae", cipher.primitive}
  OBVIOUS
<1> HIDE DEF primitive
<1>4. /\ DOMAIN b = Fields /\ b.name = suite /\ b.kind = "algorithm" /\ b.primitive = primitive
      /\ b.algorithm = cipher.algorithm
  BY FindingFields
<1> HIDE DEF b
<1>5. /\ DOMAIN a = Fields /\ a.name = suite /\ a.kind = "algorithm" /\ a.primitive = primitive
      /\ a.algorithm = cipher.algorithm /\ a.keySize = cipher.bits
  BY <1>4 DEF Fields
<1> HIDE DEF a
<1> SUFFICES Graded(a)
  BY <1>1
<1>6. CASE cipher \in ciphers
  <2>1. family(a) = cipher.algorithm /\ cipher.bits \in Nat
    BY <1>5, <1>6, CiphersAreStated, FamilyIsStated
  <2>2. cipher.algorithm \in AlgorithmNames
    BY <1>6 DEF AlgorithmNames
  <2>3. <<cipher.algorithm, primitive>> \in SizedAlgorithms
    BY <1>3, <1>6 DEF SizedAlgorithms
  <2> QED
    BY <1>5, <2>1, <2>2, <2>3 DEF Graded
<1>7. CASE \E part : cipher = Cipher(part, suite, 0, "block-cipher")
  <2>1. cipher.algorithm = suite /\ cipher.bits = 0
    BY <1>7 DEF Cipher
  <2>2. family(a) = suite
    BY <1>5, <2>1, FamilyIsTheName
  <2>3. suite \in AlgorithmNames
    BY DEF AlgorithmNames
  <2> QED
    BY <1>5, <2>1, <2>2, <2>3 DEF Graded
<1> QED
  BY <1>2, <1>6, <1>7

\* A version has no size, and a group is judged by its name.
LEMMA VersionIsGraded ==
  ASSUME NEW a, DOMAIN a = Fields, a.kind = "protocol", a.keySize = 0
  PROVE  Graded(a)
BY DEF Graded

LEMMA NameIsGraded ==
  ASSUME NEW a, DOMAIN a = Fields, a.keySize = 0, family(a) = a.name, a.name \in AlgorithmNames
  PROVE  Graded(a)
BY DEF Graded

LEMMA CallIsGraded ==
  ASSUME file \in Files, NEW n, n.children \in Seq(NodesOf(file)), NEW u \in table
  PROVE  Graded(callAsset(n, u))
<1> DEFINE base == [Algorithm(u.algorithm, u.primitive, u.algorithm,
                              InFile(file.path, n.line), <<n.recv, n.name>>)
                      EXCEPT !.keySize = u.keySize]
           args == n.children
           rsa == /\ u.path = "crypto/rsa" /\ u.function = "GenerateKey"
                  /\ Len(args) >= 2 /\ args[2].node = "int"
           ecdsa == /\ u.path = "crypto/ecdsa" /\ u.function = "GenerateKey"
                    /\ Len(args) >= 1 /\ CurveArgument(args[1]) # {}
           OfTheUse(b) == /\ DOMAIN b = Fields /\ b.algorithm = u.algorithm
                          /\ b.kind = "algorithm"
                          /\ b.primitive = u.primitive /\ b.keySize \in Nat
           a == callAsset(n, u)
<1>1. Stated(u.algorithm) /\ u.keySize \in Nat
  BY UsesAreStated
<1>0. SUFFICES OfTheUse(a)
  <2> SUFFICES ASSUME OfTheUse(a) PROVE Graded(a)
    OBVIOUS
  <2> HIDE DEF a
  <2>1. family(a) = u.algorithm
    BY <1>1, FamilyIsStated
  <2>2. u.algorithm \in AlgorithmNames
    BY DEF AlgorithmNames
  <2>3. <<u.algorithm, u.primitive>> \in SizedAlgorithms
    BY DEF SizedAlgorithms
  <2> QED
    BY <2>1, <2>2, <2>3 DEF Graded
<1>2. OfTheUse(base)
  <2> DEFINE at == InFile(file.path, n.line)
             seen == <<n.recv, n.name>>
             bare == Finding(u.algorithm, "algorithm", u.primitive, u.algorithm, at, seen)
  <2>1. base = [bare EXCEPT !.keySize = u.keySize]
    BY DEF Algorithm
  <2> HIDE DEF at, seen, base
  <2>2. /\ DOMAIN bare = Fields /\ bare.primitive = u.primitive /\ bare.algorithm = u.algorithm
        /\ bare.kind = "algorithm"
    BY FindingFields
  <2> HIDE DEF bare
  <2> QED
    BY <1>1, <2>1, <2>2 DEF Fields
<1>3. callAsset(n, u) = enrich(base, u, args)
  BY DEF callAsset
<1> HIDE DEF base
<1>4. ASSUME NEW bits \in Nat, NEW name, NEW curve, NEW seen
      PROVE  /\ OfTheUse([base EXCEPT !.keySize = bits, !.name = name, !.evidence = seen])
             /\ OfTheUse([base EXCEPT !.keySize = bits, !.curve = curve, !.name = name,
                                      !.evidence = seen])
  BY <1>2 DEF Fields
<1>5. Len(args) \in Nat /\ DOMAIN args = 1..Len(args)
  OBVIOUS
<1>6. CASE rsa
  <2>1. ~(u.path = "crypto/ecdsa")
    BY <1>6
  <2>2. PICK name, seen : enrich(base, u, args) =
          [base EXCEPT !.keySize = args[2].value, !.name = name, !.evidence = @ \o seen]
    BY <1>6, <2>1 DEF enrich
  <2>3. args[2] \in NodesOf(file)
    BY <1>5, <1>6
  <2>4. args[2].value \in Nat
    BY <2>3, FilesAssumption DEF WellFormed
  <2> QED
    BY <1>3, <1>4, <2>2, <2>4
<1>7. CASE ecdsa
  <2> DEFINE curve == CHOOSE c \in CurveArgument(args[1]) : TRUE
  <2>1. ~(u.path = "crypto/rsa")
    BY <1>7
  <2>2. PICK name, seen : enrich(base, u, args) =
          [base EXCEPT !.keySize = curveNames[curve], !.curve = curve, !.name = name,
                       !.evidence = @ \o seen]
    BY <1>7, <2>1 DEF enrich
  <2>3. curve \in DOMAIN curveNames
    BY <1>7 DEF CurveArgument
  <2> HIDE DEF curve
  <2>4. curveNames[curve] \in Nat
    BY <2>3, CurvesHaveSizes
  <2> QED
    BY <1>3, <1>4, <2>2, <2>4
<1>8. CASE ~rsa /\ ~ecdsa
  <2>1. enrich(base, u, args) = base
    BY <1>8, Zenon DEF enrich
  <2> QED
    BY <1>2, <1>3, <2>1
<1> QED
  BY <1>6, <1>7, <1>8

\* A finding that stands in a file.
InSource(a) ==
  /\ Graded(a)
  /\ \E path, line : a.location = InFile(path, line)
  /\ Configured(a) => Setting(a)

\* What a constant is read as.
LEMMA ReadingsAreFindings ==
  ASSUME NEW field \in DOMAIN configuredFields, NEW constant, NEW at,
         NEW a \in reading(field, constant, at)
  PROVE  /\ {"posture", "evidence", "location", "module"} \subseteq DOMAIN a
         /\ a.location = at
         /\ \E A : a.evidence \in Seq(A)
<1> DEFINE fields == {"posture", "evidence", "location", "module"}
<1>1. field \in {"MinVersion", "MaxVersion", "CipherSuites", "CurvePreferences"}
  BY DEF configuredFields
<1>2. CASE a \in VersionAsset(constant, at)
  <2>1. PICK c : a = Finding(versionName(versionConstants[c]), "protocol", "", "", at,
                             <<"protocol version", c>>)
    BY <1>2 DEF VersionAsset
  <2>2. a.evidence = <<"protocol version", c>> /\ fields \subseteq DOMAIN a /\ a.location = at
    BY <2>1 DEF Finding
  <2>3. <<"protocol version", c>> \in Seq({"protocol version", c})
    OBVIOUS
  <2> QED
    BY <2>2, <2>3
<1>3. CASE a \in SuiteAsset(constant, at)
  <2>1. PICK c : a = [cipherAsset(c, at) EXCEPT !.evidence = <<"cipher suite", c>>]
    BY <1>3 DEF SuiteAsset
  <2>2. fields \subseteq DOMAIN cipherAsset(c, at) /\ cipherAsset(c, at).location = at
    BY DEF cipherAsset, Algorithm, Finding
  <2>3. a.evidence = <<"cipher suite", c>> /\ fields \subseteq DOMAIN a /\ a.location = at
    BY <2>1, <2>2
  <2>4. <<"cipher suite", c>> \in Seq({"cipher suite", c})
    OBVIOUS
  <2> QED
    BY <2>3, <2>4
<1>4. CASE a \in GroupAsset(constant, at)
  <2>1. PICK c, name : a = Algorithm(name, "key-agree", name, at,
                                     <<"key exchange group", c, Hex4(curveConstants[c])>>)
    BY <1>4 DEF GroupAsset
  <2> DEFINE evidence == <<"key exchange group", c, Hex4(curveConstants[c])>>
  <2>2. a.evidence = evidence /\ fields \subseteq DOMAIN a /\ a.location = at
    BY <2>1 DEF Algorithm, Finding
  <2>3. evidence \in Seq({"key exchange group", c, Hex4(curveConstants[c])})
    OBVIOUS
  <2> QED
    BY <2>2, <2>3
<1>5. \/ a \in VersionAsset(constant, at)
      \/ a \in SuiteAsset(constant, at)
      \/ a \in GroupAsset(constant, at)
  BY <1>1 DEF reading
<1> QED
  BY <1>2, <1>3, <1>4, <1>5

LEMMA ReadingIsASetting ==
  ASSUME NEW field \in DOMAIN configuredFields, NEW constant, NEW at,
         NEW a \in reading(field, constant, at)
  PROVE  Setting(a)
<1>1. field \in {"MinVersion", "MaxVersion", "CipherSuites", "CurvePreferences"}
  BY DEF configuredFields
<1>2. CASE a \in VersionAsset(constant, at)
  <2>1. PICK c \in DOMAIN versionConstants :
          a = Finding(versionName(versionConstants[c]), "protocol", "", "", at,
                      <<"protocol version", c>>)
    BY <1>2 DEF VersionAsset
  <2> DEFINE name == versionName(versionConstants[c])
             seen == <<"protocol version", c>>
  <2>2. name \in SettingVersions
    BY DEF SettingVersions
  <2>3. PICK unset : unset = ""
    BY Zenon
  <2>4. /\ a = Finding(name, "protocol", unset, unset, at, seen)
        /\ VersionFinding(name) = Finding(name, "protocol", unset, unset, AtHost(Address), << >>)
    BY <2>1, <2>3, Zenon DEF VersionFinding
  <2> HIDE DEF name, seen
  <2>5. Same(a, VersionFinding(name)) /\ a.name = name
    BY <2>4, FindingsAreSame
  <2>6. DOMAIN a = Fields /\ a.kind = "protocol" /\ a.keySize = 0
    BY <2>4, FindingFields
  <2> QED
    BY <2>2, <2>5, <2>6, VersionIsGraded DEF Setting
<1>3. CASE a \in SuiteAsset(constant, at)
  <2>1. PICK c \in suiteConstants : a = [cipherAsset(c, at) EXCEPT !.evidence = <<"cipher suite", c>>]
    BY <1>3 DEF SuiteAsset
  <2> DEFINE b == cipherAsset(c, at)
  <2>2. Same(b, SuiteFinding(c)) /\ b.name = c
    BY SuitesAreSame DEF SuiteFinding
  <2>3. a = [b EXCEPT !.evidence = <<"cipher suite", c>>]
    BY <2>1
  <2> HIDE DEF b
  <2>4. Same(a, b) /\ DOMAIN b = Fields
    BY <2>2, <2>3, SameSeen DEF Same
  <2>5. Setting(b)
    BY <2>2, SuiteIsGraded DEF Setting, b
  <2> QED
    BY <2>4, <2>5, SettingStays
<1>4. CASE a \in GroupAsset(constant, at)
  <2> DEFINE Name(c) == keyExchange(curveConstants[c]).group
             Seen(c) == <<"key exchange group", c, Hex4(curveConstants[c])>>
  <2>1. PICK c \in DOMAIN curveConstants :
          a = Algorithm(Name(c), "key-agree", Name(c), at, Seen(c))
    BY <1>4 DEF GroupAsset
  <2>2. Name(c) \in SettingGroups
    BY DEF SettingGroups
  <2> HIDE DEF Name, Seen
  <2>3. Same(a, GroupFinding(Name(c))) /\ a.name = Name(c)
    BY <2>1, FindingsAreSame DEF Algorithm, GroupFinding
  <2>4. DOMAIN a = Fields /\ a.algorithm = a.name /\ a.keySize = 0
    BY <2>1, FindingFields DEF Algorithm
  <2>5. Graded(a)
    BY <2>2, <2>3, <2>4, FamilyIsTheName, NameIsGraded DEF AlgorithmNames
  <2> QED
    BY <2>2, <2>3, <2>5 DEF Setting
<1>5. \/ a \in VersionAsset(constant, at)
      \/ a \in SuiteAsset(constant, at)
      \/ a \in GroupAsset(constant, at)
  BY <1>1 DEF reading
<1> QED
  BY <1>2, <1>3, <1>4, <1>5

LEMMA UnreadIsASetting ==
  ASSUME NEW field \in DOMAIN configuredFields, NEW line
  PROVE  Setting(unread(field, line))
<1> DEFINE f == configuredFields[field]
           seen == <<"tls.Config", field, "is not a crypto/tls constant here">>
           at == InFile(file.path, line)
           a == unread(field, line)
<1>1. PICK unset : a = Finding(f.unstated, f.kind, f.primitive, unset, at, seen) /\ ~Stated(unset)
  BY Zenon DEF unread, Stated
<1>2. f.unstated \in Gaps
  BY DEF Gaps
<1> HIDE DEF f, seen, at, a
<1>3. DOMAIN a = Fields /\ a.name = f.unstated /\ a.keySize = 0 /\ a.algorithm = unset
  BY <1>1, FindingFields
<1>4. family(a) = a.name
  BY <1>1, <1>3, Zenon DEF family, Stated
<1>5. Graded(a)
  BY <1>2, <1>3, <1>4, NameIsGraded DEF AlgorithmNames
<1>6. Setting(a)
  BY <1>2, <1>3, <1>5 DEF Setting
<1> QED
  BY <1>6 DEF a

LEMMA FieldIsReported ==
  ASSUME NEW field \in DOMAIN configuredFields, NEW value
  PROVE  /\ "posture" \in DOMAIN fieldAsset(field, value)
         /\ Configured(fieldAsset(field, value))
         /\ "posture" \in DOMAIN unread(field, value.line)
         /\ Configured(unread(field, value.line))
         /\ InSource(fieldAsset(field, value)) /\ InSource(unread(field, value.line))
<1> DEFINE at == InFile(file.path, value.line)
           constants == IF value.node = "selector" /\ PackageOf(value.recv) = "crypto/tls"
                        THEN reading(field, value.name, at) ELSE {}
           a == CHOOSE x \in constants : TRUE
<1>1. /\ "posture" \in DOMAIN unread(field, value.line)
      /\ Configured(unread(field, value.line)) /\ InSource(unread(field, value.line))
  <2> DEFINE u == unread(field, value.line)
  <2>1. /\ {"posture", "location", "module", "evidence"} \subseteq DOMAIN u
        /\ Configured(u) /\ \E path, line : u.location = InFile(path, line)
    BY DEF unread, Finding, Configured
  <2> HIDE DEF u
  <2>2. Setting(u)
    BY UnreadIsASetting DEF u
  <2>3. InSource(u)
    BY <2>1, <2>2 DEF InSource, Setting
  <2> QED
    BY <2>1, <2>3 DEF u
<1>2. ASSUME constants # {}
      PROVE  LET b == [a EXCEPT !.evidence = <<"tls.Config", field>> \o @]
             IN "posture" \in DOMAIN b /\ Configured(b) /\ InSource(b)
  <2>1. a \in reading(field, value.name, at)
    BY <1>2
  <2> HIDE DEF a, at
  <2>2. {"posture", "evidence", "location", "module"} \subseteq DOMAIN a /\ a.location = at
    BY <2>1, ReadingsAreFindings
  <2>3. PICK A : a.evidence \in Seq(A)
    BY <2>1, ReadingsAreFindings
  <2>4. (<<"tls.Config", field>> \o a.evidence)[1] = "tls.Config"
    BY <2>3, InFront
  <2> DEFINE seen == <<"tls.Config", field>> \o a.evidence
             b == [a EXCEPT !.evidence = seen]
  <2>5. seen[1] = "tls.Config" /\ Setting(a) /\ DOMAIN a = Fields
    BY <2>1, <2>4, ReadingIsASetting DEF Setting, Graded
  <2> HIDE DEF seen
  <2>6. /\ DOMAIN b = Fields /\ b.evidence = seen /\ b.location = at
        /\ b = [a EXCEPT !.evidence = <<"tls.Config", field>> \o @]
    BY <2>2, <2>5 DEF seen, Fields
  <2>7. Same(b, a)
    BY <2>5, SameSeen
  <2> HIDE DEF b
  <2>8. Setting(b) /\ Configured(b)
    BY <2>5, <2>6, <2>7, SettingStays DEF Configured
  <2>9. InSource(b) /\ "posture" \in DOMAIN b
    BY <2>6, <2>8 DEF InSource, Setting, Fields, at
  <2> QED
    BY <2>6, <2>8, <2>9
<1>3. fieldAsset(field, value) = IF constants = {} THEN unread(field, value.line)
                                 ELSE [a EXCEPT !.evidence = <<"tls.Config", field>> \o @]
  BY DEF fieldAsset
<1> HIDE DEF constants, a
<1> QED
  BY <1>1, <1>2, <1>3

\* A finding of a field of some configuration, as the walk of the file makes it.
OfAField(a) ==
  \E field \in DOMAIN configuredFields : \E value \in NodesOf(file) :
    a = fieldAsset(field, value) \/ a = unread(field, value.line)

\* The pairs of a configuration that are read, and the findings of each.
Read(n) ==
  {element \in {n.children[k] : k \in DOMAIN n.children} :
     element.node = "field" /\ element.name \in DOMAIN configuredFields}

PairsOf(n) == Only(n.children, Read(n))
ListsOf(n) == [k \in DOMAIN PairsOf(n) |-> fieldAssets(PairsOf(n)[k])]

LEMMA ConfigIsItsPairs == ASSUME NEW n PROVE tlsConfig(n) = Seqs!FlattenSeq(ListsOf(n))
BY DEF tlsConfig, ListsOf, PairsOf, Read

\* A configuration becomes findings of a configuration.
LEMMA PairsAreReported ==
  ASSUME file \in Files, NEW n \in NodesOf(file)
  PROVE  \E A : /\ ListsOf(n) \in Seq(Seq(A))
                /\ \A a \in A : /\ "posture" \in DOMAIN a /\ Configured(a)
                             /\ InSource(a) /\ OfAField(a)
<1> DEFINE N == NodesOf(file)
           read == Read(n)
           pairs == PairsOf(n)
           lists == ListsOf(n)
           A == UNION {{fieldAsset(field, value) : value \in N}
                         \cup {unread(field, value.line) : value \in N} :
                           field \in DOMAIN configuredFields}
<1>1. \A m \in N : m.children \in Seq(N) /\ (m.node = "field" => Len(m.children) = 1)
  BY FilesAssumption DEF WellFormed
<1>2. pairs \in Seq(N) /\ \A x : Holds(pairs, x) => x \in read
  BY <1>1, OnlyKeeps DEF PairsOf
<1>3. \A a \in A : "posture" \in DOMAIN a /\ Configured(a) /\ InSource(a)
  BY FieldIsReported
<1>7. \A a \in A : OfAField(a)
  BY Zenon DEF OfAField
<1>4. \A field \in DOMAIN configuredFields : \A value \in N :
        fieldAsset(field, value) \in A /\ unread(field, value.line) \in A
  OBVIOUS
<1>9. lists = [k \in DOMAIN pairs |-> fieldAssets(pairs[k])]
  BY DEF ListsOf
<1> HIDE DEF pairs, A, N, lists
<1>5. ASSUME NEW k \in DOMAIN pairs PROVE fieldAssets(pairs[k]) \in Seq(A)
  <2> DEFINE pair == pairs[k]
             value == pair.children[1]
             list == configuredFields[pair.name].list
             values == IF list /\ value.node = "literal" THEN value.children ELSE <<value>>
  <2>1. pair \in N /\ pair.node = "field" /\ pair.name \in DOMAIN configuredFields
    <3>1. pairs[k] \in N /\ Holds(pairs, pairs[k])
      BY <1>2 DEF Holds
    <3> QED
      BY <1>2, <3>1 DEF Read
  <2>2. value \in N
    <3>1. pair.children \in Seq(N) /\ Len(pair.children) = 1
      BY <1>1, <2>1
    <3> QED
      BY <3>1
  <2>3. values \in Seq(N)
    BY <1>1, <2>2
  <2>4. fieldAssets(pair) = IF list /\ value.node # "literal" THEN <<unread(pair.name, value.line)>>
                            ELSE [j \in DOMAIN values |-> fieldAsset(pair.name, values[j])]
    BY DEF fieldAssets
  <2> HIDE DEF pair, value, values, list
  <2>5. <<unread(pair.name, value.line)>> \in Seq(A)
    BY <1>4, <2>1, <2>2
  <2>6. [j \in DOMAIN values |-> fieldAsset(pair.name, values[j])] \in Seq(A)
    <3>1. \A j \in DOMAIN values : fieldAsset(pair.name, values[j]) \in A
      BY <1>4, <2>1, <2>3
    <3>2. DOMAIN values = 1..Len(values) /\ Len(values) \in Nat
      BY <2>3
    <3> QED
      BY <3>1, <3>2
  <2>7. fieldAssets(pair) \in Seq(A)
    BY <2>4, <2>5, <2>6
  <2> QED
    BY <2>7 DEF pair
<1>6. lists \in Seq(Seq(A))
  <2>1. DOMAIN pairs = 1..Len(pairs) /\ Len(pairs) \in Nat
    BY <1>2
  <2> QED
    BY <1>5, <1>9, <2>1
<1> QED
  BY <1>3, <1>6, <1>7 DEF lists

LEMMA ConfigIsReported ==
  ASSUME file \in Files, NEW n \in NodesOf(file)
  PROVE  \E A : /\ tlsConfig(n) \in Seq(A)
                /\ \A a \in A : /\ "posture" \in DOMAIN a /\ Configured(a)
                                /\ InSource(a) /\ OfAField(a)
<1> DEFINE lists == ListsOf(n)
<1>1. PICK A : /\ lists \in Seq(Seq(A))
               /\ \A a \in A : /\ "posture" \in DOMAIN a /\ Configured(a)
                               /\ InSource(a) /\ OfAField(a)
  BY PairsAreReported
<1> HIDE DEF lists
<1>2. Seqs!FlattenSeq(lists) \in Seq(A)
  <2>1. PICK f : /\ \A i \in 0..Len(lists) : f[i] \in Seq(A)
                 /\ Seqs!FlattenSeq(lists) = f[Len(lists)]
    BY <1>1, FlattenSteps
  <2>2. Len(lists) \in 0..Len(lists)
    BY <1>1
  <2> QED
    BY <2>1, <2>2
<1> QED
  BY <1>1, <1>2, ConfigIsItsPairs DEF lists

-----------------------------------------------------------------------------
\* Values of configurations.

\* a and b are judged alike.
Alike(a, b) ==
  a.name = b.name /\ a.algorithm = b.algorithm /\ a.kind = b.kind /\ a.keySize = b.keySize

LEMMA AssetsAlike == ASSUME NEW a, NEW b, Alike(a, b) PROVE AssetOf(a) = AssetOf(b)
BY Zenon DEF AssetOf, family, Alike

\* Where a finding stands changes nothing of what is judged.
LEMMA FindingsAlike ==
  ASSUME NEW name, NEW kind, NEW primitive, NEW algorithm, NEW evidence, NEW at, NEW other
  PROVE  Alike(Finding(name, kind, primitive, algorithm, at, evidence),
               Finding(name, kind, primitive, algorithm, other, evidence))
BY FindingFields DEF Alike

\* What is judged of a constant does not depend on where it stands, and only
\* the constants that belong under a field are read there.
LEMMA ReadingsAreAlike ==
  ASSUME NEW field \in DOMAIN configuredFields, NEW constant, NEW at, NEW other
  PROVE  /\ \A a \in reading(field, constant, at) :
              \E b \in reading(field, constant, other) : Alike(a, b)
         /\ reading(field, constant, at) # {} <=> constant \in ListedConstants(field)
<1>1. field \in {"MinVersion", "MaxVersion", "CipherSuites", "CurvePreferences"}
  BY DEF configuredFields
<1>2. CASE field \in {"MinVersion", "MaxVersion"}
  <2> DEFINE Of(c, x) == Finding(versionName(versionConstants[c]), "protocol", "", "", x,
                                 <<"protocol version", c>>)
  <2>1. /\ ListedConstants(field) = DOMAIN versionConstants
        /\ \A x : reading(field, constant, x)
                    = {Of(c, x) : c \in {constant} \cap DOMAIN versionConstants}
    <3>1. ListedConstants(field) = DOMAIN versionConstants
      BY <1>2 DEF ListedConstants
    <3>2. \A x : reading(field, constant, x) = VersionAsset(constant, x)
      BY <1>2 DEF reading
    <3> QED
      BY <3>1, <3>2 DEF VersionAsset
  <2>2. \A c, x : Alike(Of(c, x), Of(c, other))
    BY FindingsAlike, Zenon
  <2> HIDE DEF Of
  <2> QED
    BY <2>1, <2>2
<1>3. CASE field = "CipherSuites"
  <2> DEFINE Of(c, x) == [cipherAsset(c, x) EXCEPT !.evidence = <<"cipher suite", c>>]
  <2>1. /\ ListedConstants(field) = suiteConstants
        /\ \A x : reading(field, constant, x)
                    = {Of(c, x) : c \in {constant} \cap suiteConstants}
    <3>1. ListedConstants(field) = suiteConstants
      BY <1>3 DEF ListedConstants
    <3>2. \A x : reading(field, constant, x) = SuiteAsset(constant, x)
      BY <1>3 DEF reading
    <3> QED
      BY <3>1, <3>2 DEF SuiteAsset
  <2>2. ASSUME NEW c, NEW x PROVE Alike(Of(c, x), Of(c, other))
    <3> DEFINE named == {d \in ciphers : Contains(c, d.part)}
               cipher == IF named = {} THEN Cipher("", c, 0, "block-cipher")
                         ELSE CHOOSE d \in named : TRUE
               mode == cipherMode(c)
               primitive == IF mode \in {"gcm", "ccm"} THEN "ae" ELSE cipher.primitive
               evidence == <<"negotiated suite", c>>
               Bare(y) == Finding(c, "algorithm", primitive, cipher.algorithm, y, evidence)
    <3>1. \A y : cipherAsset(c, y) = [Bare(y) EXCEPT !.keySize = cipher.bits, !.mode = mode]
      BY Zenon DEF cipherAsset, Algorithm
    <3> HIDE DEF cipher, mode, primitive, evidence
    <3>2. ASSUME NEW y
          PROVE  /\ Of(c, y).name = c /\ Of(c, y).algorithm = cipher.algorithm
                 /\ Of(c, y).kind = "algorithm" /\ Of(c, y).keySize = cipher.bits
      <4> DEFINE b == Bare(y)
      <4>1. /\ DOMAIN b = Fields /\ b.name = c /\ b.algorithm = cipher.algorithm
            /\ b.kind = "algorithm"
        BY FindingFields
      <4>2. cipherAsset(c, y) = [b EXCEPT !.keySize = cipher.bits, !.mode = mode]
        BY <3>1
      <4> HIDE DEF b
      <4> QED
        BY <4>1, <4>2 DEF Fields
    <3> HIDE DEF Of
    <3> QED
      BY <3>2 DEF Alike
  <2> HIDE DEF Of
  <2> QED
    BY <2>1, <2>2
<1>4. CASE field = "CurvePreferences"
  <2> DEFINE Of(c, x) ==
               Finding(keyExchange(curveConstants[c]).group, "algorithm", "key-agree",
                       keyExchange(curveConstants[c]).group, x,
                       <<"key exchange group", c, Hex4(curveConstants[c])>>)
  <2>1. /\ ListedConstants(field) = DOMAIN curveConstants
        /\ \A x : reading(field, constant, x)
                    = {Of(c, x) : c \in {constant} \cap DOMAIN curveConstants}
    <3>1. ListedConstants(field) = DOMAIN curveConstants
      BY <1>4 DEF ListedConstants
    <3>2. \A x : reading(field, constant, x) = GroupAsset(constant, x)
      BY <1>4 DEF reading
    <3> QED
      BY <3>1, <3>2 DEF GroupAsset, Algorithm
  <2>2. \A c, x : Alike(Of(c, x), Of(c, other))
    BY FindingsAlike, Zenon
  <2> HIDE DEF Of
  <2> QED
    BY <2>1, <2>2
<1> QED
  BY <1>1, <1>2, <1>3, <1>4

\* The reader lists the constant that the value names.
IsListed(v) == NamesOne(v, ListedConstants(v.field))

\* The finding tells of the value: under which field and where it stands, and
\* what its constant says, or that it is a gap.
Tells(a, v) ==
  /\ a.evidence[2] = v.field
  /\ a.location.line = v.value.node.line
  /\ IF IsListed(v)
     THEN \E x \in reading(v.field, v.value.node.name, AtHost(Address)) : AssetOf(a) = AssetOf(x)
     ELSE AssetOf(a) = GapOf(v.field)

LEMMA LineOf == \A path, line : InFile(path, line).line = line
<1>1. PICK host : \A path, line : InFile(path, line) = [file |-> path, line |-> line, host |-> host]
  BY Zenon DEF InFile
<1> QED
  BY <1>1

LEMMA UnreadIsAGap ==
  ASSUME NEW field \in DOMAIN configuredFields, NEW line
  PROVE  LET a == unread(field, line)
         IN a.evidence[2] = field /\ a.location.line = line /\ AssetOf(a) = GapOf(field)
<1> DEFINE f == configuredFields[field]
           evidence == <<"tls.Config", field, "is not a crypto/tls constant here">>
           at == InFile(file.path, line)
           a == unread(field, line)
<1>1. PICK unset : unset = ""
  BY Zenon
<1>2. a = Finding(f.unstated, f.kind, f.primitive, unset, at, evidence)
  BY <1>1, Zenon DEF unread
<1>3. evidence[2] = field /\ at.line = line
  BY LineOf
<1> HIDE DEF f, evidence, at, a
<1>4. /\ a.name = f.unstated /\ a.kind = f.kind /\ a.algorithm = unset
      /\ a.location = at /\ a.evidence = evidence /\ a.keySize = 0
  BY <1>2, FindingFields
<1>5. family(a) = f.unstated
  BY <1>1, <1>4, Zenon DEF family
<1>6. AssetOf(a) = GapOf(field)
  BY <1>4, <1>5 DEF AssetOf, GapOf, f
<1> QED
  BY <1>3, <1>4, <1>6 DEF a

\* A value's finding tells of it.
LEMMA FieldTells ==
  ASSUME file \in Files, packages = Resolved(file.imports),
         NEW field \in DOMAIN configuredFields, NEW w
  PROVE  /\ Tells(fieldAsset(field, w.node), [field |-> field, value |-> w, whole |-> FALSE])
         /\ Tells(unread(field, w.node.line), [field |-> field, value |-> w, whole |-> TRUE])
<1> DEFINE value == w.node
           here == InFile(file.path, value.line)
           there == AtHost(Address)
           v == [field |-> field, value |-> w, whole |-> FALSE]
           u == [field |-> field, value |-> w, whole |-> TRUE]
           constants == IF value.node = "selector" /\ PackageOf(value.recv) = "crypto/tls"
                        THEN reading(field, value.name, here) ELSE {}
           a == CHOOSE x \in constants : TRUE
<1>2. PackageOf(value.recv) = "crypto/tls" <=> Imported(value, "crypto/tls")
  BY ReadsTls
<1>3. ~IsListed(u) /\ (IsListed(v) <=> constants # {})
  <2>1. reading(field, value.name, here) # {} <=> value.name \in ListedConstants(field)
    BY ReadingsAreAlike
  <2>2. /\ v.value.node = value /\ v.field = field /\ ~v.whole
        /\ u.whole
    OBVIOUS
  <2> HIDE DEF v, u, value, here
  <2> QED
    BY <1>2, <2>1, <2>2 DEF IsListed, NamesOne
<1>4. Tells(unread(field, value.line), u)
  BY <1>3, UnreadIsAGap DEF Tells
<1>5. fieldAsset(field, value) = IF constants = {} THEN unread(field, value.line)
                                 ELSE [a EXCEPT !.evidence = <<"tls.Config", field>> \o @]
  BY DEF fieldAsset
<1>6. CASE constants = {}
  <2>1. Tells(unread(field, value.line), v)
    BY <1>3, <1>6, UnreadIsAGap DEF Tells
  <2> QED
    BY <1>4, <1>5, <1>6, <2>1
<1>7. CASE constants # {}
  <2> DEFINE b == [a EXCEPT !.evidence = <<"tls.Config", field>> \o @]
  <2>1. a \in reading(field, value.name, here) /\ here.line = value.line
    BY <1>7, LineOf
  <2> HIDE DEF a, here, there, constants
  <2>2. {"posture", "evidence", "location", "module"} \subseteq DOMAIN a /\ a.location = here
    BY <2>1, ReadingsAreFindings
  <2>3. PICK A : a.evidence \in Seq(A)
    BY <2>1, ReadingsAreFindings
  <2>4. (<<"tls.Config", field>> \o a.evidence)[2] = field
    BY <2>3, InFront
  <2>5. /\ b.evidence[2] = field /\ b.location.line = value.line
        /\ b.name = a.name /\ b.algorithm = a.algorithm
        /\ b.kind = a.kind /\ b.keySize = a.keySize
    BY <2>1, <2>2, <2>4
  <2>6. PICK x \in reading(field, value.name, there) : Alike(a, x)
    BY <2>1, ReadingsAreAlike
  <2> HIDE DEF b
  <2>7. AssetOf(b) = AssetOf(x)
    BY <2>5, <2>6, AssetsAlike DEF Alike
  <2>8. v.field = field /\ v.value.node = value
    OBVIOUS
  <2> HIDE DEF v, value
  <2>9. Tells(b, v)
    BY <1>3, <1>7, <2>5, <2>6, <2>7, <2>8 DEF Tells, there
  <2> QED
    BY <1>4, <1>5, <1>7, <2>9 DEF b, v, value
<1> QED
  BY <1>6, <1>7

\* Each value of S is in the list once: at says which value a finding is of.
Matches(S, list, at) ==
  /\ \A k \in DOMAIN list : Configured(list[k]) => at[k] \in S /\ Tells(list[k], at[k])
  /\ \A k, l \in DOMAIN list :
       Configured(list[k]) /\ Configured(list[l]) /\ at[k] = at[l] => k = l
  /\ \A v \in S : \E k \in DOMAIN list : Configured(list[k]) /\ at[k] = v

Answered(S, list) == \E at : Matches(S, list, at)

LEMMA NothingAnswered == Answered({}, << >>)
<1>1. DOMAIN << >> = {}
  OBVIOUS
<1>2. Matches({}, << >>, << >>)
  BY <1>1 DEF Matches
<1> QED
  BY <1>2 DEF Answered

\* Values that are apart, one list after the other.
LEMMA AnswersConcat ==
  ASSUME NEW A, NEW list \in Seq(A), NEW more \in Seq(A), NEW S, NEW T, S \cap T = {},
         Answered(S, list), Answered(T, more)
  PROVE  Answered(S \cup T, list \o more)
<1> DEFINE m == Len(list)
           n == Len(more)
           both == list \o more
<1>1. PICK first : Matches(S, list, first)
  BY DEF Answered
<1>2. PICK second : Matches(T, more, second)
  BY DEF Answered
<1> DEFINE at == [k \in 1..(m + n) |-> IF k <= m THEN first[k] ELSE second[k - m]]
<1>3. /\ m \in Nat /\ n \in Nat /\ DOMAIN list = 1..m /\ DOMAIN more = 1..n
      /\ DOMAIN both = 1..(m + n)
      /\ \A k \in 1..m : both[k] = list[k]
      /\ \A k \in (m + 1)..(m + n) : k - m \in 1..n /\ both[k] = more[k - m]
  <2>1. /\ both \in Seq(A) /\ Len(both) = m + n
        /\ \A k \in 1..m : both[k] = list[k]
        /\ \A k \in (m + 1)..(m + n) : k - m \in 1..n /\ both[k] = more[k - m]
    BY ConcatAt
  <2> HIDE DEF both
  <2> QED
    BY <2>1
<1> HIDE DEF m, n, both
<1>4. /\ \A k \in 1..m : k \in 1..(m + n) /\ at[k] = first[k]
      /\ \A k \in (m + 1)..(m + n) : k \in 1..(m + n) /\ at[k] = second[k - m]
  BY <1>3
<1> HIDE DEF at
<1>5. \A k \in 1..(m + n) : k \in 1..m \/ k \in (m + 1)..(m + n)
  BY <1>3
<1>6. \A k \in 1..m : Configured(list[k]) => first[k] \in S /\ Tells(list[k], first[k])
  BY <1>1, <1>3 DEF Matches
<1>7. \A k \in 1..n : Configured(more[k]) => second[k] \in T /\ Tells(more[k], second[k])
  BY <1>2, <1>3 DEF Matches
<1>8. \A k \in 1..m : Configured(both[k]) => at[k] \in S /\ Tells(both[k], at[k])
  BY <1>3, <1>4, <1>6
<1>9. \A k \in (m + 1)..(m + n) : Configured(both[k]) => at[k] \in T /\ Tells(both[k], at[k])
  BY <1>3, <1>4, <1>7
<1>10. ASSUME NEW k \in 1..(m + n), NEW l \in 1..(m + n),
              Configured(both[k]), Configured(both[l]), at[k] = at[l]
       PROVE  k = l
  <2>1. CASE k \in 1..m /\ l \in 1..m
    BY <1>1, <1>3, <1>4, <1>10, <2>1 DEF Matches
  <2>2. CASE k \in (m + 1)..(m + n) /\ l \in (m + 1)..(m + n)
    <3>1. k - m = l - m
      BY <1>2, <1>3, <1>4, <1>10, <2>2 DEF Matches
    <3>2. k \in Int /\ l \in Int /\ m \in Int
      BY <1>3
    <3> QED
      BY <3>1, <3>2
  <2>3. ~(k \in 1..m /\ l \in (m + 1)..(m + n)) /\ ~(l \in 1..m /\ k \in (m + 1)..(m + n))
    BY <1>8, <1>9, <1>10
  <2> QED
    BY <1>5, <2>1, <2>2, <2>3
<1>11. ASSUME NEW v \in S PROVE \E k \in 1..(m + n) : Configured(both[k]) /\ at[k] = v
  <2>1. PICK k \in 1..m : Configured(list[k]) /\ first[k] = v
    BY <1>1, <1>3 DEF Matches
  <2> QED
    BY <1>3, <1>4, <2>1
<1>12. ASSUME NEW v \in T PROVE \E k \in 1..(m + n) : Configured(both[k]) /\ at[k] = v
  <2>1. PICK k \in 1..n : Configured(more[k]) /\ second[k] = v
    BY <1>2, <1>3 DEF Matches
  <2>2. k + m \in (m + 1)..(m + n) /\ (k + m) - m = k
    BY <1>3
  <2> QED
    BY <1>3, <1>4, <2>1, <2>2
<1>13. Matches(S \cup T, both, at)
  <2>1. \A k \in 1..(m + n) : Configured(both[k]) => at[k] \in S \cup T /\ Tells(both[k], at[k])
    BY <1>5, <1>8, <1>9
  <2> QED
    BY <1>3, <1>10, <1>11, <1>12, <2>1 DEF Matches
<1> QED
  BY <1>13 DEF Answered, both

\* The finding of a call is of no value.
LEMMA AnswersCall ==
  ASSUME NEW A, NEW list \in Seq(A), NEW S, Answered(S, list), NEW a, ~Configured(a)
  PROVE  Answered(S, Append(list, a))
<1> DEFINE n == Len(list)
           longer == Append(list, a)
           B == A \cup {a}
<1>1. PICK at : Matches(S, list, at)
  BY DEF Answered
<1>2. list \in Seq(B) /\ a \in B
  OBVIOUS
<1> HIDE DEF B
<1>3. /\ n \in Nat /\ DOMAIN list = 1..n /\ DOMAIN longer = 1..(n + 1)
      /\ longer[n + 1] = a /\ \A k \in 1..n : longer[k] = list[k]
  BY <1>2
<1> HIDE DEF n, longer
<1>4. \A k \in 1..(n + 1) : Configured(longer[k]) => k \in 1..n
  BY <1>3
<1>5. \A k \in 1..n : k \in 1..(n + 1)
  BY <1>3
<1>6. Matches(S, longer, at)
  BY <1>1, <1>3, <1>4, <1>5 DEF Matches
<1> QED
  BY <1>6 DEF Answered, longer

\* What a pair gives is what its findings tell of.
LEMMA PairIsAnswered ==
  ASSUME file \in Files, packages = Resolved(file.imports),
         NEW pair \in Written(file), pair.node.node = "field",
         pair.node.name \in DOMAIN configuredFields
  PROVE  Answered(ValuesOf(pair), fieldAssets(pair.node))
<1> DEFINE field == pair.node.name
           value == Child(pair, 1)
           list == configuredFields[field].list
           kids == value.node.children
           Given(v, whole) == [field |-> field, value |-> v, whole |-> whole]
<1>1. value.node = pair.node.children[1] /\ value \in Written(file)
  <2>1. WellFormed(pair.node) /\ pair.node.children \in Seq(NodesOf(file))
    BY WrittenIsATree
  <2>2. 1 \in DOMAIN pair.node.children
    BY <2>1 DEF WellFormed
  <2> QED
    BY <2>2, ChildPlace, WrittenIsATree
<1>2. DOMAIN kids = 1..Len(kids) /\ Len(kids) \in Nat
  <2>1. kids \in Seq(NodesOf(file))
    BY <1>1, WrittenIsATree
  <2> QED
    BY <2>1
<1>3. \A w : /\ Tells(fieldAsset(field, w.node), Given(w, FALSE))
             /\ Tells(unread(field, w.node.line), Given(w, TRUE))
             /\ Configured(fieldAsset(field, w.node)) /\ Configured(unread(field, w.node.line))
  BY FieldTells, FieldIsReported
<1>4. ValuesOf(pair) = IF list /\ value.node.node = "literal"
                       THEN {Given(Child(value, k), FALSE) : k \in DOMAIN kids}
                       ELSE {Given(value, list)}
  BY DEF ValuesOf
<1>5. fieldAssets(pair.node) =
        IF list /\ value.node.node # "literal" THEN <<unread(field, value.node.line)>>
        ELSE [k \in DOMAIN (IF list /\ value.node.node = "literal" THEN kids ELSE <<value.node>>) |->
                fieldAsset(field, (IF list /\ value.node.node = "literal" THEN kids ELSE <<value.node>>)[k])]
  BY <1>1 DEF fieldAssets
<1>6. list \in BOOLEAN
  BY DEF configuredFields
<1>7. CASE list /\ value.node.node = "literal"
  <2> DEFINE at == [k \in DOMAIN kids |-> Given(Child(value, k), FALSE)]
             told == [k \in DOMAIN kids |-> fieldAsset(field, kids[k])]
  <2>1. \A k \in DOMAIN kids : Child(value, k).node = kids[k]
    BY <1>1, ChildPlace
  <2>2. \A k, l \in DOMAIN kids : at[k] = at[l] => k = l
    <3> SUFFICES ASSUME NEW k \in DOMAIN kids, NEW l \in DOMAIN kids, at[k] = at[l] PROVE k = l
      OBVIOUS
    <3>1. Given(Child(value, k), FALSE).value = Given(Child(value, l), FALSE).value
      OBVIOUS
    <3>2. Child(value, k) = Child(value, l)
      BY <3>1
    <3> HIDE DEF value
    <3> QED
      BY <1>1, <3>2, ChildPlace
  <2>3. fieldAssets(pair.node) = told
    BY <1>5, <1>7
  <2>4. ValuesOf(pair) = {Given(Child(value, k), FALSE) : k \in DOMAIN kids}
    BY <1>4, <1>7
  <2>5. \A k \in DOMAIN kids : Configured(told[k]) /\ Tells(told[k], at[k])
    <3> SUFFICES ASSUME NEW k \in DOMAIN kids PROVE Configured(told[k]) /\ Tells(told[k], at[k])
      OBVIOUS
    <3>1. told[k] = fieldAsset(field, Child(value, k).node)
      BY <2>1
    <3>2. at[k] = Given(Child(value, k), FALSE)
      OBVIOUS
    <3> HIDE DEF told, at, Given
    <3> QED
      BY <1>3, <3>1, <3>2
  <2>6. DOMAIN told = DOMAIN kids
    OBVIOUS
  <2>7. /\ \A k \in DOMAIN kids : at[k] \in ValuesOf(pair)
        /\ \A v \in ValuesOf(pair) : \E k \in DOMAIN kids : at[k] = v
    BY <2>4
  <2> HIDE DEF told, at
  <2>8. Matches(ValuesOf(pair), told, at)
    BY <2>2, <2>5, <2>6, <2>7 DEF Matches
  <2> QED
    BY <2>3, <2>8 DEF Answered
<1> DEFINE OneTold(a, v) == Configured(a) /\ Tells(a, v)
<1>8. ASSUME NEW a, NEW v, OneTold(a, v) PROVE Answered({v}, <<a>>)
  <2>1. DOMAIN <<a>> = {1} /\ <<a>>[1] = a /\ <<v>>[1] = v
    OBVIOUS
  <2>2. Matches({v}, <<a>>, <<v>>)
    BY <1>8, <2>1 DEF Matches
  <2> QED
    BY <2>2 DEF Answered
<1>9. CASE list /\ value.node.node # "literal"
  <2>1. /\ ValuesOf(pair) = {Given(value, TRUE)}
        /\ fieldAssets(pair.node) = <<unread(field, value.node.line)>>
    BY <1>4, <1>5, <1>6, <1>9
  <2>2. OneTold(unread(field, value.node.line), Given(value, TRUE))
    BY <1>3
  <2> QED
    BY <1>8, <2>1, <2>2
<1>10. CASE ~list
  <2>1. ValuesOf(pair) = {Given(value, FALSE)}
    BY <1>4, <1>6, <1>10
  <2>2. fieldAssets(pair.node) = <<fieldAsset(field, value.node)>>
    <3>1. fieldAssets(pair.node) = [k \in DOMAIN <<value.node>> |-> fieldAsset(field, <<value.node>>[k])]
      BY <1>5, <1>10
    <3> QED
      BY <3>1
  <2>3. OneTold(fieldAsset(field, value.node), Given(value, FALSE))
    BY <1>3
  <2> QED
    BY <1>8, <2>1, <2>2, <2>3
<1> QED
  BY <1>6, <1>7, <1>9, <1>10

\* A value stands below its pair, at most two steps.
LEMMA ValuePlace ==
  ASSUME file \in Files, NEW w \in Written(file), NEW k \in DOMAIN w.node.children,
         Child(w, k).node.node = "field", NEW v \in ValuesOf(Child(w, k))
  PROVE  /\ Len(w.place) \in Nat
         /\ Len(v.value.place) \in {Len(w.place) + 2, Len(w.place) + 3}
         /\ \A i \in 1..(Len(w.place) + 1) : v.value.place[i] = Child(w, k).place[i]
<1> DEFINE pair == Child(w, k)
           value == Child(pair, 1)
           n == Len(w.place)
<1>1. pair \in Written(file) /\ n \in Nat /\ Len(pair.place) = n + 1
  BY ChildPlace, WrittenIsATree
<1>2. 1 \in DOMAIN pair.node.children
  <2>1. WellFormed(pair.node) /\ pair.node.children \in Seq(NodesOf(file))
    BY <1>1, WrittenIsATree
  <2> QED
    BY <2>1 DEF WellFormed
<1> HIDE DEF pair
<1>3. /\ value \in Written(file) /\ Len(value.place) = (n + 1) + 1
      /\ \A i \in 1..(n + 1) : value.place[i] = pair.place[i]
  <2>1. /\ Len(value.place) = Len(pair.place) + 1
        /\ \A i \in 1..Len(pair.place) : value.place[i] = pair.place[i]
    BY <1>1, <1>2, ChildPlace
  <2>2. value \in Written(file)
    BY <1>1, <1>2, WrittenIsATree
  <2> QED
    BY <1>1, <2>1, <2>2
<1>4. v.value = value \/ \E j \in DOMAIN value.node.children : v.value = Child(value, j)
  BY DEF ValuesOf, pair
<1> HIDE DEF value
<1>5. CASE v.value = value
  BY <1>1, <1>3, <1>5 DEF pair
<1>6. ASSUME NEW j \in DOMAIN value.node.children, v.value = Child(value, j)
      PROVE  /\ Len(v.value.place) = n + 3
             /\ \A i \in 1..(n + 1) : v.value.place[i] = pair.place[i]
  <2>1. /\ Len(v.value.place) = ((n + 1) + 1) + 1
        /\ \A i \in 1..((n + 1) + 1) : v.value.place[i] = value.place[i]
    BY <1>3, <1>6, ChildPlace
  <2> QED
    BY <1>1, <1>3, <2>1
<1> QED
  BY <1>1, <1>4, <1>5, <1>6 DEF pair

\* The pair a value comes from.
LEMMA GivenByPair ==
  ASSUME NEW w, NEW v \in GivenBy(w)
  PROVE  \E k \in DOMAIN w.node.children :
           /\ Child(w, k).node.node = "field"
           /\ Child(w, k).node.name \in DOMAIN configuredFields
           /\ v \in ValuesOf(Child(w, k))
BY DEF GivenBy

\* No value is given by two configurations, one inside of the other included.
LEMMA GivenOnce ==
  ASSUME file \in Files, NEW w \in Configs, NEW x \in Configs,
         NEW v, v \in GivenBy(w), v \in GivenBy(x)
  PROVE  w = x
<1> DEFINE m == Len(w.place)
           n == Len(x.place)
<1>1. w \in Written(file) /\ x \in Written(file)
  BY DEF Configs
<1>2. PICK k \in DOMAIN w.node.children :
        Child(w, k).node.node = "field" /\ v \in ValuesOf(Child(w, k))
  BY GivenByPair
<1>3. PICK l \in DOMAIN x.node.children :
        Child(x, l).node.node = "field" /\ v \in ValuesOf(Child(x, l))
  BY GivenByPair
<1>4. /\ m \in Nat /\ n \in Nat
      /\ Len(v.value.place) \in {m + 2, m + 3} /\ Len(v.value.place) \in {n + 2, n + 3}
      /\ \A i \in 1..(m + 1) : v.value.place[i] = Child(w, k).place[i]
      /\ \A i \in 1..(n + 1) : v.value.place[i] = Child(x, l).place[i]
  BY <1>1, <1>2, <1>3, ValuePlace
<1>5. /\ \A i \in 1..m : Child(w, k).place[i] = w.place[i]
      /\ \A i \in 1..n : Child(x, l).place[i] = x.place[i]
  BY <1>1, ChildPlace
<1>6. ASSUME NEW y \in Written(file), NEW z \in Written(file), Len(y.place) = Len(z.place),
             \A i \in 1..Len(y.place) : y.place[i] = z.place[i]
      PROVE  y = z
  BY <1>6, SamePlace
<1>7. ASSUME NEW y \in Configs, NEW z \in Configs, NEW j \in DOMAIN z.node.children,
             Child(z, j).node.node = "field", Len(y.place) = Len(z.place) + 1,
             \A i \in 1..Len(y.place) : y.place[i] = Child(z, j).place[i]
      PROVE  FALSE
  <2>1. y \in Written(file) /\ z \in Written(file) /\ y.node.node = "literal"
    BY DEF Configs
  <2>2. Child(z, j) \in Written(file) /\ Len(Child(z, j).place) = Len(z.place) + 1
    BY <2>1, ChildPlace, WrittenIsATree
  <2>3. y = Child(z, j)
    BY <1>6, <1>7, <2>1, <2>2
  <2> QED
    BY <1>7, <2>1, <2>3
<1>8. m = n \/ m = n + 1 \/ n = m + 1
  <2> DEFINE depth == Len(v.value.place)
  <2>1. m \in Nat /\ n \in Nat /\ depth \in {m + 2, m + 3} /\ depth \in {n + 2, n + 3}
    BY <1>4
  <2> HIDE DEF m, n, depth
  <2> QED
    BY <2>1
<1>9. CASE m = n
  <2>1. \A i \in 1..m : i \in 1..(m + 1)
    BY <1>4
  <2>2. \A i \in 1..m : w.place[i] = x.place[i]
    BY <1>4, <1>5, <1>9, <2>1
  <2> QED
    BY <1>1, <1>6, <1>9, <2>2
<1>10. CASE m = n + 1
  <2>1. \A i \in 1..m : w.place[i] = Child(x, l).place[i]
    <3>1. \A i \in 1..m : i \in 1..(m + 1) /\ i \in 1..(n + 1)
      BY <1>4, <1>10
    <3> QED
      BY <1>4, <1>5, <3>1
  <2> QED
    BY <1>3, <1>7, <1>10, <2>1
<1>11. CASE n = m + 1
  <2>1. \A i \in 1..n : x.place[i] = Child(w, k).place[i]
    <3>1. \A i \in 1..n : i \in 1..(n + 1) /\ i \in 1..(m + 1)
      BY <1>4, <1>11
    <3> QED
      BY <1>4, <1>5, <3>1
  <2> QED
    BY <1>2, <1>7, <1>11, <2>1
<1> QED
  BY <1>8, <1>9, <1>10, <1>11

\* What a configuration gives is what its findings tell of.
LEMMA ConfigIsAnswered ==
  ASSUME file \in Files, packages = Resolved(file.imports), NEW w \in Configs
  PROVE  Answered(GivenBy(w), tlsConfig(w.node))
<1> DEFINE n == w.node
           kids == n.children
           pairs == PairsOf(n)
           lists == ListsOf(n)
<1>1. w \in Written(file) /\ n \in NodesOf(file) /\ kids \in Seq(NodesOf(file))
  <2>1. w \in Written(file)
    BY DEF Configs
  <2> QED
    BY <2>1, WrittenIsATree DEF NodesOf
<1>2. PICK pos : Placed(kids, Read(n), pairs, pos, Len(kids))
  BY <1>1, OnlyPlaces DEF PairsOf
<1>3. pairs \in Seq(NodesOf(file)) /\ Len(pairs) \in Nat /\ DOMAIN pairs = 1..Len(pairs)
  <2>1. pairs \in Seq(NodesOf(file))
    BY <1>1, OnlyKeeps DEF PairsOf
  <2> QED
    BY <2>1
<1>4. DOMAIN kids = 1..Len(kids) /\ Len(kids) \in Nat
  BY <1>1
<1>5. lists = [i \in 1..Len(pairs) |-> fieldAssets(pairs[i])]
  BY <1>3 DEF ListsOf
<1>6. PICK A : lists \in Seq(Seq(A))
  BY <1>1, PairsAreReported
<1>7. Len(lists) = Len(pairs)
  BY <1>3, <1>5
<1>8. \A i \in 1..Len(pairs) : lists[i] = fieldAssets(pairs[i])
  BY <1>5
<1> HIDE DEF lists, pairs, n
<1>9. PICK f : /\ f[0] = << >>
               /\ \A i \in 1..Len(lists) : f[i] = f[i - 1] \o lists[i]
               /\ \A i \in 0..Len(lists) : f[i] \in Seq(A)
               /\ Seqs!FlattenSeq(lists) = f[Len(lists)]
  BY <1>6, FlattenSteps
<1> DEFINE Pair(i) == Child(w, pos[i])
           size == Len(pairs)
           Told(i) == UNION {ValuesOf(Pair(j)) : j \in 1..i}
           good == {i \in Nat : Answered(Told(i), f[i])}
<1>10. ASSUME NEW i \in 1..size
       PROVE  /\ pos[i] \in DOMAIN kids
              /\ Pair(i) \in Written(file) /\ Pair(i).node = pairs[i]
              /\ Pair(i).node.node = "field" /\ Pair(i).node.name \in DOMAIN configuredFields
  <2>1. pos[i] \in DOMAIN kids /\ pairs[i] = kids[pos[i]] /\ kids[pos[i]] \in Read(n)
    BY <1>2, <1>4 DEF Placed
  <2>2. pos[i] \in DOMAIN w.node.children
    BY <2>1 DEF n
  <2>3. Pair(i) \in Written(file) /\ Pair(i).node = kids[pos[i]]
    BY <1>1, <2>2, ChildPlace, WrittenIsATree DEF n
  <2> QED
    BY <2>1, <2>3 DEF Read
<1>11. ASSUME NEW i \in 1..size
       PROVE  Answered(ValuesOf(Pair(i)), lists[i])
  BY <1>8, <1>10, PairIsAnswered
<1>12. ASSUME NEW i \in 1..size, NEW j \in 1..size, NEW v,
              v \in ValuesOf(Pair(i)), v \in ValuesOf(Pair(j))
       PROVE  i = j
  <2> DEFINE l == Len(w.place) + 1
  <2>1. pos[i] \in DOMAIN w.node.children /\ pos[j] \in DOMAIN w.node.children
    BY <1>10 DEF n
  <2>2. l \in 1..l /\ v.value.place[l] = Pair(i).place[l] /\ v.value.place[l] = Pair(j).place[l]
    <3>1. Pair(i).node.node = "field" /\ Pair(j).node.node = "field"
      BY <1>10
    <3>2. /\ Len(w.place) \in Nat
          /\ \A x \in 1..(Len(w.place) + 1) : v.value.place[x] = Pair(i).place[x]
      BY <1>1, <1>12, <2>1, <3>1, ValuePlace
    <3>3. \A x \in 1..(Len(w.place) + 1) : v.value.place[x] = Pair(j).place[x]
      BY <1>1, <1>12, <2>1, <3>1, ValuePlace
    <3>4. l \in 1..l
      BY <3>2
    <3> QED
      BY <3>2, <3>3, <3>4
  <2>3. Pair(i).place[l] = pos[i] /\ Pair(j).place[l] = pos[j]
    BY <1>1, <2>1, ChildPlace
  <2>4. pos[i] = pos[j]
    BY <2>2, <2>3
  <2> QED
    BY <1>2, <2>4 DEF Placed
<1> HIDE DEF Pair
<1>13. 0 \in good
  <2>1. Told(0) = {}
    OBVIOUS
  <2> HIDE DEF Told
  <2> QED
    BY <1>9, <2>1, NothingAnswered
<1>14. ASSUME NEW i \in 0..(size - 1), i \in good PROVE i + 1 \in good
  <2>1. i + 1 \in 1..size /\ (i + 1) - 1 = i /\ i \in 0..size /\ i + 1 \in Nat /\ i \in Nat
    BY <1>3
  <2>2. f[i + 1] = f[i] \o lists[i + 1] /\ f[i] \in Seq(A) /\ lists[i + 1] \in Seq(A)
    <3>1. lists[i + 1] \in Seq(A)
      BY <1>6, <1>7, <2>1
    <3> QED
      BY <1>7, <1>9, <2>1, <3>1
  <2>3. Told(i + 1) = Told(i) \cup ValuesOf(Pair(i + 1))
    <3>1. 1..(i + 1) = (1..i) \cup {i + 1}
      BY <2>1
    <3> QED
      BY <3>1
  <2>4. Told(i) \cap ValuesOf(Pair(i + 1)) = {}
    <3>1. \A j \in 1..i : j \in 1..size /\ j # i + 1
      BY <1>3, <2>1
    <3>2. \A j \in 1..i : ValuesOf(Pair(j)) \cap ValuesOf(Pair(i + 1)) = {}
      BY <1>12, <2>1, <3>1
    <3> QED
      BY <3>2
  <2>5. Answered(Told(i), f[i]) /\ Answered(ValuesOf(Pair(i + 1)), lists[i + 1])
    BY <1>11, <1>14, <2>1
  <2> HIDE DEF Told
  <2>6. Answered(Told(i) \cup ValuesOf(Pair(i + 1)), f[i] \o lists[i + 1])
    BY <2>2, <2>4, <2>5, AnswersConcat
  <2> QED
    BY <2>1, <2>2, <2>3, <2>6
<1>15. size \in good
  <2> HIDE DEF good
  <2>1. 0..size \subseteq good
    BY <1>3, <1>13, <1>14, UpTo
  <2> QED
    BY <1>3, <2>1
<1>16. Told(size) = GivenBy(w)
  <2>1. GivenBy(w) = UNION {ValuesOf(Child(w, k)) : k \in {l \in DOMAIN kids : kids[l] \in Read(n)}}
    <3>1. \A l \in DOMAIN kids :
            kids[l] \in Read(n) <=> /\ Child(w, l).node.node = "field"
                                    /\ Child(w, l).node.name \in DOMAIN configuredFields
      <4>1. \A l \in DOMAIN kids : Child(w, l).node = kids[l]
        BY <1>1, ChildPlace DEF n
      <4> QED
        BY <4>1 DEF Read
    <3> QED
      BY <3>1 DEF GivenBy, n
  <2>2. \A i \in 1..size : pos[i] \in DOMAIN kids /\ kids[pos[i]] \in Read(n)
    BY <1>2, <1>4 DEF Placed
  <2>3. \A k \in DOMAIN kids : kids[k] \in Read(n) => \E i \in 1..size : pos[i] = k
    BY <1>2, <1>4 DEF Placed
  <2> HIDE DEF kids, size
  <2> QED
    BY <2>1, <2>2, <2>3 DEF Pair
<1>17. Answered(GivenBy(w), Seqs!FlattenSeq(lists))
  <2>1. Answered(Told(size), f[size])
    BY <1>15
  <2> HIDE DEF Told
  <2> QED
    BY <1>7, <1>9, <1>16, <2>1
<1> QED
  BY <1>17, ConfigIsItsPairs DEF lists, n

-----------------------------------------------------------------------------
\* What has been found.

\* A list of findings.
Listed(list) == \E A : list \in Seq(A) /\ \A a \in A : "posture" \in DOMAIN a

LEMMA ListedAppend ==
  ASSUME NEW list, Listed(list), NEW a, "posture" \in DOMAIN a
  PROVE  Listed(Append(list, a))
<1>1. PICK A : list \in Seq(A) /\ \A b \in A : "posture" \in DOMAIN b
  BY DEF Listed
<1> DEFINE B == A \cup {a}
<1>2. list \in Seq(B) /\ a \in B /\ \A b \in B : "posture" \in DOMAIN b
  BY <1>1
<1> HIDE DEF B
<1>3. Append(list, a) \in Seq(B)
  BY <1>2
<1> QED
  BY <1>2, <1>3 DEF Listed

LEMMA ListedConcat ==
  ASSUME NEW list, Listed(list), NEW more, Listed(more)
  PROVE  Listed(list \o more)
<1>1. PICK A : list \in Seq(A) /\ \A b \in A : "posture" \in DOMAIN b
  BY DEF Listed
<1>2. PICK B : more \in Seq(B) /\ \A b \in B : "posture" \in DOMAIN b
  BY DEF Listed
<1> DEFINE C == A \cup B
<1>3. list \in Seq(C) /\ more \in Seq(C) /\ \A b \in C : "posture" \in DOMAIN b
  BY <1>1, <1>2
<1> HIDE DEF C
<1>4. list \o more \in Seq(C)
  BY <1>3
<1> QED
  BY <1>3, <1>4 DEF Listed

\* Each call of the part V of the file is in the list once.
Tallied(V, list) ==
  \A n : LET here == {w \in Calls \cap V : SameCall(w.node, n)}
         IN /\ IsFiniteSet(here)
            /\ Cardinality({k \in DOMAIN list : Reports(list[k], n)}) = Cardinality(here)

\* What the configurations of the part V of the file give.
Said(V) == UNION {GivenBy(w) : w \in Configs \cap V}

\* What is written in the part V of the file is in the list.
Accounted(V, list) == Tallied(V, list) /\ Answered(Said(V), list)

\* A finding that is not of a configuration is of a call that states its size.
Earned(a) ==
  \/ Configured(a)
  \/ \E w \in Calls :
       /\ Reports(a, w.node)
       /\ a.keySize # 0 => \/ \E u \in UsesOf(w.node) : u.keySize = a.keySize
                           \/ Says(w.node, a.keySize)

LEMMA NothingTallied == Tallied({}, << >>)
<1> SUFFICES ASSUME NEW n
             PROVE  LET here == {w \in Calls \cap {} : SameCall(w.node, n)}
                    IN /\ IsFiniteSet(here)
                       /\ Cardinality({k \in DOMAIN << >> : Reports(<< >>[k], n)})
                            = Cardinality(here)
  BY DEF Tallied
<1>1. {w \in Calls \cap {} : SameCall(w.node, n)} = {}
  OBVIOUS
<1>2. {k \in DOMAIN << >> : Reports(<< >>[k], n)} = {}
  OBVIOUS
<1> QED
  BY <1>1, <1>2, FS_EmptySet

LEMMA TallyCall ==
  ASSUME NEW V, NEW list, Listed(list), Tallied(V, list),
         NEW w \in Calls, w \notin V,
         NEW a, \A m : Reports(a, m) <=> SameCall(w.node, m)
  PROVE  Tallied(V \cup {w}, Append(list, a))
<1> SUFFICES ASSUME NEW n
             PROVE  LET here == {x \in Calls \cap (V \cup {w}) : SameCall(x.node, n)}
                    IN /\ IsFiniteSet(here)
                       /\ Cardinality({k \in DOMAIN Append(list, a) : Reports(Append(list, a)[k], n)})
                            = Cardinality(here)
  BY DEF Tallied
<1> DEFINE was == {x \in Calls \cap V : SameCall(x.node, n)}
           here == {x \in Calls \cap (V \cup {w}) : SameCall(x.node, n)}
           Told(l) == {k \in DOMAIN l : Reports(l[k], n)}
           longer == Append(list, a)
           last == Len(list) + 1
<1>1. IsFiniteSet(was) /\ Cardinality(Told(list)) = Cardinality(was)
  BY DEF Tallied
<1>2. /\ Len(list) \in Nat /\ DOMAIN list = 1..Len(list)
      /\ DOMAIN longer = 1..last /\ longer[last] = a
      /\ \A k \in 1..Len(list) : longer[k] = list[k]
  <2>1. PICK A : list \in Seq(A)
    BY DEF Listed
  <2> DEFINE B == A \cup {a}
  <2>2. list \in Seq(B) /\ a \in B
    BY <2>1
  <2> HIDE DEF B
  <2> QED
    BY <2>2
<1> HIDE DEF longer
<1>3. IsFiniteSet(Told(list)) /\ last \notin Told(list)
  <2>1. IsFiniteSet(1..Len(list))
    BY <1>2, FS_Interval
  <2>2. Told(list) \in SUBSET (1..Len(list))
    BY <1>2
  <2>3. last \notin 1..Len(list)
    BY <1>2
  <2> HIDE DEF Told
  <2> QED
    BY <2>1, <2>2, <2>3, FS_Subset
<1>4. CASE SameCall(w.node, n)
  <2>1. here = was \cup {w} /\ w \notin was
    BY <1>4
  <2>2. Told(longer) = Told(list) \cup {last}
    BY <1>2, <1>4
  <2> HIDE DEF here, was, Told, last
  <2>3. IsFiniteSet(here) /\ Cardinality(here) = Cardinality(was) + 1
    BY <1>1, <2>1, FS_AddElement
  <2>4. Cardinality(Told(longer)) = Cardinality(Told(list)) + 1
    BY <1>3, <2>2, FS_AddElement
  <2> QED
    BY <1>1, <2>3, <2>4 DEF here, Told, longer
<1>5. CASE ~SameCall(w.node, n)
  <2>1. here = was
    BY <1>5
  <2>2. Told(longer) = Told(list)
    <3>1. \A k \in 1..last : k \in 1..Len(list) \/ k = last
      BY <1>2
    <3>2. \A k \in 1..Len(list) : k \in 1..last
      BY <1>2
    <3> QED
      BY <1>2, <1>5, <3>1, <3>2
  <2> HIDE DEF here, was, Told
  <2> QED
    BY <1>1, <2>1, <2>2 DEF here, Told, longer
<1> QED
  BY <1>4, <1>5

LEMMA TallyConfig ==
  ASSUME NEW V, NEW list, Listed(list), Tallied(V, list), NEW w, w \notin Calls,
         NEW B, NEW more \in Seq(B), \A a \in B : Configured(a)
  PROVE  Tallied(V \cup {w}, list \o more)
<1> DEFINE both == list \o more
<1>1. /\ Len(list) \in Nat /\ Len(more) \in Nat /\ DOMAIN list = 1..Len(list)
      /\ DOMAIN both = 1..(Len(list) + Len(more))
      /\ \A k \in 1..Len(list) : both[k] = list[k]
      /\ \A k \in (Len(list) + 1)..(Len(list) + Len(more)) : Configured(both[k])
  <2>1. PICK A : list \in Seq(A)
    BY DEF Listed
  <2> DEFINE C == A \cup B
  <2>2. list \in Seq(C) /\ more \in Seq(C)
    BY <2>1
  <2> HIDE DEF C, both
  <2>3. /\ both \in Seq(C) /\ Len(both) = Len(list) + Len(more)
        /\ \A k \in 1..Len(list) : both[k] = list[k]
        /\ \A k \in (Len(list) + 1)..(Len(list) + Len(more)) :
             k - Len(list) \in 1..Len(more) /\ both[k] = more[k - Len(list)]
    BY <2>2, ConcatAt DEF both
  <2>4. \A k \in 1..Len(more) : Configured(more[k])
    OBVIOUS
  <2> QED
    BY <2>2, <2>3, <2>4
<1> HIDE DEF both
<1>2. ASSUME NEW n PROVE {k \in DOMAIN both : Reports(both[k], n)} = {k \in DOMAIN list : Reports(list[k], n)}
  <2>1. \A k \in DOMAIN both : \/ k \in DOMAIN list /\ both[k] = list[k]
                               \/ k \notin DOMAIN list /\ ~Reports(both[k], n)
    BY <1>1 DEF Reports
  <2>2. \A k \in DOMAIN list : k \in DOMAIN both
    BY <1>1
  <2> QED
    BY <2>1, <2>2
<1>3. Calls \cap (V \cup {w}) = Calls \cap V
  OBVIOUS
<1> QED
  BY <1>2, <1>3 DEF Tallied, both

LEMMA TallyNothing ==
  ASSUME NEW V, NEW list, Tallied(V, list), NEW w, w \notin Calls
  PROVE  Tallied(V \cup {w}, list)
<1>1. Calls \cap (V \cup {w}) = Calls \cap V
  OBVIOUS
<1> QED
  BY <1>1 DEF Tallied

\* A node that is no configuration says nothing.
LEMMA SaysNothing == ASSUME NEW V, NEW w, w \notin Configs PROVE Said(V \cup {w}) = Said(V)
<1>1. Configs \cap (V \cup {w}) = Configs \cap V
  OBVIOUS
<1> QED
  BY <1>1 DEF Said

\* A configuration says what nothing else says.
LEMMA SaysMore ==
  ASSUME file \in Files, NEW V, NEW w \in Configs, w \notin V
  PROVE  Said(V \cup {w}) = Said(V) \cup GivenBy(w) /\ Said(V) \cap GivenBy(w) = {}
<1>1. Configs \cap (V \cup {w}) = (Configs \cap V) \cup {w}
  OBVIOUS
<1>2. Said(V \cup {w}) = Said(V) \cup GivenBy(w)
  BY <1>1 DEF Said
<1>3. ASSUME NEW v, v \in Said(V), v \in GivenBy(w) PROVE FALSE
  <2>1. PICK x \in Configs \cap V : v \in GivenBy(x)
    BY <1>3 DEF Said
  <2> QED
    BY <1>3, <2>1, GivenOnce
<1> QED
  BY <1>2, <1>3

LEMMA NothingAccounted == Accounted({}, << >>)
<1>1. Said({}) = {}
  BY DEF Said
<1> QED
  BY <1>1, NothingTallied, NothingAnswered DEF Accounted

-----------------------------------------------------------------------------
\* The walk.

\* What has been visited of the file is found once; the rest is what stands
\* under the nodes still to be visited.
WalkInv ==
  /\ file \in Files
  /\ stage \in {"imports", "walk", "read"}
  /\ Listed(found)
  /\ \A k \in DOMAIN found : Earned(found[k])
  /\ stage = "imports" => found = << >>
  /\ stage = "walk" =>
       /\ packages = Resolved(file.imports)
       /\ todo \in Seq(NodesOf(file))
       /\ \E pl : Leads(file, pl, todo) /\ Accounted(Written(file) \ Left(file, pl), found)
  /\ stage = "read" => Accounted(Written(file), found)

LEMMA SameFile ==
  ASSUME file' = file
  PROVE  /\ \A V, list : Accounted(V, list) => Accounted(V, list)'
         /\ \A a : Earned(a) => Earned(a)'
<1>1. \A n : UsesOf(n)' = UsesOf(n)
  BY DEF UsesOf, Imported
<1>2. Calls' = Calls
  BY <1>1 DEF Calls
<1>3. \A n, size : Says(n, size)' <=> Says(n, size)
  BY DEF Says, Imported
<1>4. Configs' = Configs
  BY DEF Configs, Imported
<1>5. \A V : Said(V)' = Said(V)
  BY <1>4 DEF Said, GivenBy, ValuesOf
<1>6. \A v : IsListed(v)' <=> IsListed(v)
  BY DEF IsListed, NamesOne, Imported
<1>7. \A S, list : Answered(S, list)' <=> Answered(S, list)
  BY <1>6 DEF Answered, Matches, Tells, Configured
<1> QED
  BY <1>1, <1>2, <1>3, <1>5, <1>7 DEF Accounted, Tallied, Earned, Reports, SameCall, Configured

LEMMA EmptyList == Listed(<< >>) /\ DOMAIN << >> = {}
<1>1. DOMAIN << >> = {}
  OBVIOUS
<1> DEFINE A == {}
<1>2. << >> \in Seq(A) /\ \A a \in A : "posture" \in DOMAIN a
  OBVIOUS
<1> HIDE DEF A
<1>3. Listed(<< >>)
  BY <1>2 DEF Listed
<1> QED
  BY <1>1, <1>3

LEMMA FileOpened ==
  ASSUME file' \in Files, stage' = "imports", found' = << >>
  PROVE  WalkInv'
BY EmptyList DEF WalkInv

LEMMA WalkStutters == ASSUME WalkInv, UNCHANGED fileVars PROVE WalkInv'
<1>1. /\ file' = file /\ stage' = stage /\ packages' = packages
      /\ todo' = todo /\ found' = found
  BY DEF fileVars
<1> QED
  BY <1>1, SameFile DEF WalkInv

\* One node is visited: what it has to tell is in the list, and its children
\* are next.
LEMMA Visited ==
  ASSUME WalkInv, stage = "walk", todo # << >>, Descend,
         Listed(found'), \A k \in DOMAIN found' : Earned(found'[k]),
         ASSUME NEW V, NEW w \in Written(file), w \notin V, w.node = Head(todo),
                Accounted(V, found)
         PROVE  Accounted(V \cup {w}, found')
  PROVE  WalkInv'
<1>1. /\ file' = file /\ stage' = stage /\ packages' = packages
      /\ todo' = Head(todo).children \o Tail(todo)
  BY DEF Descend
<1>2. /\ file \in Files /\ packages = Resolved(file.imports)
      /\ todo \in Seq(NodesOf(file))
  BY DEF WalkInv
<1>3. PICK pl : Leads(file, pl, todo) /\ Accounted(Written(file) \ Left(file, pl), found)
  BY DEF WalkInv
<1> DEFINE w == pl[1]
           V == Written(file) \ Left(file, pl)
<1>4. /\ w \in Written(file) /\ w.node = Head(todo) /\ w \in Left(file, pl)
      /\ todo' \in Seq(NodesOf(file))
      /\ \E kids : Leads(file, kids, todo') /\ Left(file, kids) = Left(file, pl) \ {w}
  BY <1>1, <1>2, <1>3, DescendLeads
<1>5. PICK kids : Leads(file, kids, todo') /\ Left(file, kids) = Left(file, pl) \ {w}
  BY <1>4
<1> HIDE DEF w
<1>6. Accounted(V \cup {w}, found')
  BY <1>3, <1>4
<1>7. V \cup {w} = Written(file) \ Left(file, kids)
  BY <1>4, <1>5
<1>8. PICK list, seen : list = found' /\ seen = Written(file) \ Left(file, kids)
  OBVIOUS
<1>9. Accounted(seen, list)
  BY <1>6, <1>7, <1>8
<1>10. Accounted(seen, list)'
  BY <1>1, <1>9, SameFile
<1>11. Accounted(Written(file) \ Left(file, kids), found)'
  BY <1>1, <1>8, <1>10
<1>12. \A k \in DOMAIN found' : Earned(found[k])'
  BY <1>1, SameFile
<1> QED
  BY <1>1, <1>2, <1>4, <1>5, <1>11, <1>12 DEF WalkInv

LEMMA NothingIsWatched ==
  ASSUME WalkInv, NoWatchedImport
  PROVE  WalkInv'
<1>1. /\ file' = file /\ stage = "imports" /\ stage' = "read" /\ found' = found
      /\ DOMAIN Resolved(file.imports) = {}
  BY DEF NoWatchedImport
<1>2. file \in Files /\ found = << >> /\ Listed(found)
  BY <1>1 DEF WalkInv
<1>3. Calls = {} /\ Configs = {}
  BY <1>1, NothingWatched
<1>4. PICK list, all : list = found /\ all = Written(file)
  OBVIOUS
<1>5. Accounted(all, list)
  BY <1>2, <1>3, <1>4, NothingAccounted DEF Accounted, Tallied, Said
<1>6. Accounted(all, list)'
  BY <1>1, <1>5, SameFile
<1>7. Accounted(Written(file), found)'
  BY <1>1, <1>4, <1>6
<1>8. DOMAIN found' = {}
  BY <1>1, <1>2, EmptyList
<1> QED
  BY <1>1, <1>2, <1>7, <1>8 DEF WalkInv

LEMMA ImportsAreResolved ==
  ASSUME WalkInv, ResolveImports
  PROVE  WalkInv'
<1>1. /\ file' = file /\ stage = "imports" /\ stage' = "walk" /\ found' = found
      /\ packages' = Resolved(file.imports) /\ todo' = file.body
  BY DEF ResolveImports
<1>2. file \in Files /\ found = << >> /\ Listed(found)
  BY <1>1 DEF WalkInv
<1>3. file.body \in Seq(NodesOf(file))
  BY <1>2, BodyLeads
<1>4. PICK pl : Leads(file, pl, file.body) /\ Left(file, pl) = Written(file) \ {Top(file)}
  BY <1>2, BodyLeads
<1>5. Top(file) \in Written(file) /\ Top(file) \notin Calls /\ Top(file) \notin Configs
  <2>1. Top(file).node.node = "other"
    BY DEF Top, Other, Node
  <2> QED
    BY <1>2, <2>1, WrittenIsATree DEF Calls, UsesOf, Configs
<1>6. Accounted({} \cup {Top(file)}, << >>)
  <2>1. Said({} \cup {Top(file)}) = Said({})
    BY <1>5, SaysNothing
  <2>2. Tallied({} \cup {Top(file)}, << >>)
    BY <1>5, NothingTallied, TallyNothing
  <2> QED
    BY <2>1, <2>2, NothingAccounted DEF Accounted
<1>7. PICK list, seen : list = found /\ seen = Written(file) \ Left(file, pl)
  OBVIOUS
<1>8. seen = {} \cup {Top(file)}
  BY <1>4, <1>5, <1>7
<1>9. Accounted(seen, list)'
  <2>1. Accounted(seen, list)
    BY <1>2, <1>6, <1>7, <1>8
  <2> QED
    BY <1>1, <2>1, SameFile
<1>10. Accounted(Written(file) \ Left(file, pl), found)'
  BY <1>1, <1>7, <1>9
<1>11. DOMAIN found' = {}
  BY <1>1, <1>2, EmptyList
<1> QED
  BY <1>1, <1>2, <1>3, <1>4, <1>10, <1>11 DEF WalkInv

LEMMA CallIsVisited ==
  ASSUME WalkInv, VisitCall
  PROVE  WalkInv'
<1> DEFINE n == Head(todo)
<1>1. /\ stage = "walk" /\ todo # << >> /\ Descend /\ n.node = "call"
      /\ \E u \in Meaning(n) : found' = Append(found, callAsset(n, u))
  BY DEF VisitCall
<1>2. PICK u \in Meaning(n) : found' = Append(found, callAsset(n, u))
  BY <1>1
<1>3. /\ file \in Files /\ packages = Resolved(file.imports)
      /\ todo \in Seq(NodesOf(file)) /\ Listed(found)
      /\ \A k \in DOMAIN found : Earned(found[k])
      /\ \E pl : Leads(file, pl, todo)
  BY <1>1 DEF WalkInv
<1>4. PICK w \in Written(file) : w.node = n
  BY <1>1, <1>3, DescendLeads
<1>5. n.recv # "tls.Config" /\ n.children \in Seq(NodesOf(file))
  BY <1>3, <1>4, WrittenIsATree DEF WellFormed
<1> DEFINE a == callAsset(n, u)
<1> HIDE DEF n
<1>6. u \in UsesOf(n)
  BY <1>1, <1>2, <1>3, MeansItsUses
<1>7. /\ "posture" \in DOMAIN a /\ ~Configured(a)
      /\ \A m : Reports(a, m) <=> SameCall(n, m)
  BY <1>5, CallIsReported
<1>8. a.keySize = u.keySize \/ Says(n, a.keySize)
  BY <1>3, <1>5, SizeIsStated
<1> HIDE DEF a
<1>9. Earned(a)
  <2>1. w \in Calls
    BY <1>4, <1>6 DEF Calls
  <2>2. Reports(a, n)
    BY <1>7 DEF SameCall
  <2> QED
    BY <1>4, <1>6, <1>8, <2>1, <2>2 DEF Earned
<1>10. Listed(found') /\ \A k \in DOMAIN found' : Earned(found'[k])
  <2>1. found' = Append(found, a)
    BY <1>2 DEF a
  <2>2. Listed(found')
    BY <1>3, <1>7, <2>1, ListedAppend
  <2>3. PICK A : found \in Seq(A)
    BY <1>3 DEF Listed
  <2> DEFINE s == found
             B == A \cup {a}
  <2>4. s \in Seq(B) /\ a \in B
    BY <2>3
  <2>5. \A k \in DOMAIN s : Earned(s[k])
    BY <1>3
  <2> HIDE DEF s, B
  <2>6. \A k \in DOMAIN Append(s, a) : Append(s, a)[k] = a \/ (k \in DOMAIN s /\ Append(s, a)[k] = s[k])
    BY <2>4
  <2>7. \A k \in DOMAIN Append(s, a) : Earned(Append(s, a)[k])
    BY <1>9, <2>5, <2>6
  <2> QED
    BY <2>1, <2>2, <2>7 DEF s
<1>11. ASSUME NEW V, NEW x \in Written(file), x \notin V, x.node = Head(todo), Accounted(V, found)
       PROVE  Accounted(V \cup {x}, found')
  <2>1. x \in Calls /\ x \notin Configs
    BY <1>1, <1>6, <1>11 DEF Calls, Configs, n
  <2>2. \A m : Reports(a, m) <=> SameCall(x.node, m)
    BY <1>7, <1>11 DEF n
  <2>3. Tallied(V, found) /\ Answered(Said(V), found)
    BY <1>11 DEF Accounted
  <2>4. Tallied(V \cup {x}, Append(found, a))
    BY <1>3, <1>11, <2>1, <2>2, <2>3, TallyCall
  <2>5. Answered(Said(V), Append(found, a))
    <3>1. PICK A : found \in Seq(A)
      BY <1>3 DEF Listed
    <3> QED
      BY <1>7, <2>3, <3>1, AnswersCall
  <2>6. Said(V \cup {x}) = Said(V)
    BY <2>1, SaysNothing
  <2> QED
    BY <1>2, <2>4, <2>5, <2>6 DEF Accounted, a
<1> QED
  BY <1>1, <1>10, <1>11, Visited

LEMMA ConfigIsVisited ==
  ASSUME WalkInv, VisitConfig
  PROVE  WalkInv'
<1> DEFINE n == Head(todo)
<1>1. /\ stage = "walk" /\ todo # << >> /\ Descend /\ n.node = "literal" /\ IsConfig(n)
      /\ found' = found \o tlsConfig(n)
  BY DEF VisitConfig
<1>2. /\ file \in Files /\ packages = Resolved(file.imports)
      /\ todo \in Seq(NodesOf(file)) /\ Listed(found)
      /\ \A k \in DOMAIN found : Earned(found[k])
  BY <1>1 DEF WalkInv
<1>3. n \in NodesOf(file)
  BY <1>1, <1>2
<1> HIDE DEF n
<1>4. PICK B : /\ tlsConfig(n) \in Seq(B)
               /\ \A a \in B : "posture" \in DOMAIN a /\ Configured(a)
  BY <1>2, <1>3, ConfigIsReported
<1> DEFINE more == tlsConfig(n)
<1>5. more \in Seq(B) /\ found' = found \o more
  BY <1>1, <1>4
<1> HIDE DEF more
<1>6. Listed(found')
  BY <1>2, <1>4, <1>5, ListedConcat DEF Listed
<1>7. \A k \in DOMAIN found' : Earned(found'[k])
  <2>1. PICK A : found \in Seq(A)
    BY <1>2 DEF Listed
  <2> DEFINE s == found
             C == A \cup B
  <2>2. s \in Seq(C) /\ more \in Seq(C)
    BY <1>5, <2>1
  <2>3. \A k \in DOMAIN s : Earned(s[k])
    BY <1>2
  <2>4. \A k \in 1..Len(more) : Earned(more[k])
    BY <1>4, <1>5 DEF Earned
  <2> HIDE DEF s, C
  <2>5. /\ DOMAIN (s \o more) = 1..(Len(s) + Len(more)) /\ DOMAIN s = 1..Len(s)
        /\ Len(s) \in Nat /\ Len(more) \in Nat
    BY <2>2
  <2>6. /\ \A k \in 1..Len(s) : (s \o more)[k] = s[k]
        /\ \A k \in (Len(s) + 1)..(Len(s) + Len(more)) :
             k - Len(s) \in 1..Len(more) /\ (s \o more)[k] = more[k - Len(s)]
    BY <2>2, ConcatAt
  <2>7. \A k \in 1..(Len(s) + Len(more)) : Earned((s \o more)[k])
    BY <2>3, <2>4, <2>5, <2>6
  <2> QED
    BY <1>5, <2>5, <2>7 DEF s
<1>8. ASSUME NEW V, NEW x \in Written(file), x \notin V, x.node = Head(todo), Accounted(V, found)
      PROVE  Accounted(V \cup {x}, found')
  <2>1. x \notin Calls
    BY <1>1, <1>8 DEF Calls, UsesOf, n
  <2>2. x \in Configs
    <3>1. x.node = n
      BY <1>8 DEF n
    <3>2. Imported(n, "crypto/tls") /\ n.name = "Config"
      BY <1>1, <1>2, ReadsTls DEF IsConfig
    <3> QED
      BY <1>1, <1>8, <3>1, <3>2 DEF Configs
  <2>3. Tallied(V, found) /\ Answered(Said(V), found)
    BY <1>8 DEF Accounted
  <2>4. Tallied(V \cup {x}, found \o more)
    BY <1>2, <1>4, <1>5, <2>1, <2>3, TallyConfig
  <2>5. Said(V \cup {x}) = Said(V) \cup GivenBy(x) /\ Said(V) \cap GivenBy(x) = {}
    BY <1>2, <1>8, <2>2, SaysMore
  <2>6. Answered(GivenBy(x), more)
    BY <1>2, <1>8, <2>2, ConfigIsAnswered DEF more, n
  <2>7. Answered(Said(V) \cup GivenBy(x), found \o more)
    <3>1. PICK A : found \in Seq(A)
      BY <1>2 DEF Listed
    <3> DEFINE s == found
               C == A \cup B
    <3>2. s \in Seq(C) /\ more \in Seq(C)
      BY <1>5, <3>1
    <3>3. Answered(Said(V), s)
      BY <2>3
    <3> HIDE DEF s, C
    <3>4. Answered(Said(V) \cup GivenBy(x), s \o more)
      BY <2>5, <2>6, <3>2, <3>3, AnswersConcat
    <3> QED
      BY <3>4 DEF s
  <2> QED
    BY <1>5, <2>4, <2>5, <2>7 DEF Accounted
<1> QED
  BY <1>1, <1>6, <1>7, <1>8, Visited

LEMMA OtherIsVisited ==
  ASSUME WalkInv, VisitOther
  PROVE  WalkInv'
<1>1. /\ stage = "walk" /\ todo # << >> /\ Descend /\ found' = found
      /\ Head(todo).node = "call" => Meaning(Head(todo)) = {}
      /\ Head(todo).node = "literal" => ~IsConfig(Head(todo))
  BY DEF VisitOther
<1>2. /\ file \in Files /\ packages = Resolved(file.imports) /\ Listed(found)
      /\ \A k \in DOMAIN found : Earned(found[k])
  BY <1>1 DEF WalkInv
<1>3. ASSUME NEW V, NEW x \in Written(file), x \notin V, x.node = Head(todo), Accounted(V, found)
      PROVE  Accounted(V \cup {x}, found')
  <2>1. UsesOf(x.node) = {}
    <3>1. CASE x.node.node = "call"
      BY <1>1, <1>2, <1>3, <3>1, MeansItsUses
    <3>2. CASE x.node.node # "call"
      BY <3>2 DEF UsesOf
    <3> QED
      BY <3>1, <3>2
  <2>2. x \notin Configs
    BY <1>1, <1>2, <1>3, ReadsTls DEF Configs, IsConfig
  <2>3. Said(V \cup {x}) = Said(V)
    BY <2>2, SaysNothing
  <2>4. Tallied(V \cup {x}, found)
    BY <1>3, <2>1, TallyNothing DEF Calls, Accounted
  <2> QED
    BY <1>1, <1>3, <2>3, <2>4 DEF Accounted
<1> QED
  BY <1>1, <1>2, <1>3, Visited

LEMMA FileIsRead ==
  ASSUME WalkInv, EndOfFile
  PROVE  WalkInv'
<1>1. /\ file' = file /\ stage = "walk" /\ stage' = "read" /\ found' = found /\ todo = << >>
  BY DEF EndOfFile
<1>2. /\ file \in Files /\ Listed(found) /\ \A k \in DOMAIN found : Earned(found[k])
  BY DEF WalkInv
<1>3. PICK pl : Leads(file, pl, todo) /\ Accounted(Written(file) \ Left(file, pl), found)
  BY <1>1 DEF WalkInv
<1>4. Left(file, pl) = {}
  <2>1. Len(pl) = 0
    BY <1>1, <1>3 DEF Leads
  <2> QED
    BY <2>1 DEF Left
<1>5. PICK list, all : list = found /\ all = Written(file)
  OBVIOUS
<1>6. Accounted(all, list)'
  <2>1. Accounted(all, list)
    BY <1>3, <1>4, <1>5
  <2> QED
    BY <1>1, <2>1, SameFile
<1>7. Accounted(Written(file), found)'
  BY <1>1, <1>5, <1>6
<1>8. \A k \in DOMAIN found' : Earned(found[k])'
  BY <1>1, <1>2, SameFile
<1> QED
  BY <1>1, <1>2, <1>7, <1>8 DEF WalkInv

LEMMA ReadingKeeps == ASSUME WalkInv, ReadFile PROVE WalkInv'
<1>1. CASE NoWatchedImport
  BY <1>1, NothingIsWatched
<1>2. CASE ResolveImports
  BY <1>2, ImportsAreResolved
<1>3. CASE VisitCall
  BY <1>3, CallIsVisited
<1>4. CASE VisitConfig
  BY <1>4, ConfigIsVisited
<1>5. CASE VisitOther
  BY <1>5, OtherIsVisited
<1>6. CASE EndOfFile
  BY <1>6, FileIsRead
<1> QED
  BY <1>1, <1>2, <1>3, <1>4, <1>5, <1>6 DEF ReadFile
=============================================================================
