---------------------------- MODULE DList_proofs -----------------------------
(***************************************************************************)
(* What every call on the doubly linked lists leaves behind, for every set *)
(* of lists, nodes and values.                                             *)
(*                                                                         *)
(* A list is where its head leads.  The proofs name that: c, a sequence of *)
(* nodes per list, and At(c, l, i), the places of list l from its head,    *)
(* at 0, to its tail.  Every call makes another c of c, which is written   *)
(* down, and what a walk along the pointers finds afterwards is that.      *)
(***************************************************************************)
EXTENDS DList, Walk_proofs, FunctionTheorems

(* The dummies are told from each other, from the nodes and from NULL.     *)
LEMMA Dummies ==
  /\ \A l \in List : /\ HeadOf(l) \in Place /\ TailOf(l) \in Place
                     /\ HeadOf(l) \notin Node /\ TailOf(l) \notin Node
  /\ \A l, k \in List : /\ HeadOf(l) # TailOf(k)
                        /\ HeadOf(l) = HeadOf(k) => l = k
                        /\ TailOf(l) = TailOf(k) => l = k
  /\ NULL \notin Place /\ NULL \notin Node
  /\ Node \subseteq Place
BY NodeAssumption DEF HeadOf, TailOf, Dummy, Place

-----------------------------------------------------------------------------
(* The lists as sequences of nodes.                                        *)

At(c, l, i) == IF i = 0 THEN HeadOf(l)
               ELSE IF i = Len(c[l]) + 1 THEN TailOf(l) ELSE c[l][i]

(* From its head, a list leads along c to its tail; and c misses no node.  *)
Paths(c) ==
  /\ c \in [List -> Seq(Node)]
  /\ \A l \in created : \A i \in 0..Len(c[l]) :
       next[At(c, l, i)] = At(c, l, i + 1)
  /\ \A l \in List : l \notin created => Len(c[l]) = 0
  /\ \A n \in allocated :
       \E l \in created : \E i \in 1..Len(c[l]) : n = c[l][i]

(* A place of a list is its head, its tail, or a node in between.          *)
LEMMA Places ==
  ASSUME NEW c \in [List -> Seq(Node)], NEW l \in List
  PROVE  /\ Len(c[l]) \in Nat
         /\ At(c, l, 0) = HeadOf(l)
         /\ At(c, l, Len(c[l]) + 1) = TailOf(l)
         /\ \A i \in 1..Len(c[l]) : /\ At(c, l, i) = c[l][i]
                                    /\ At(c, l, i) \in Node
         /\ \A i \in 0..(Len(c[l]) + 1) : At(c, l, i) \in Place
<1>1. Len(c[l]) \in Nat
  OBVIOUS
<1>2. /\ At(c, l, 0) = HeadOf(l)
      /\ At(c, l, Len(c[l]) + 1) = TailOf(l)
  BY <1>1 DEF At
<1>3. \A i \in 1..Len(c[l]) : At(c, l, i) = c[l][i] /\ At(c, l, i) \in Node
  BY <1>1 DEF At
<1>4. \A i \in 0..(Len(c[l]) + 1) : At(c, l, i) \in Place
  <2> SUFFICES ASSUME NEW i \in 0..(Len(c[l]) + 1)
               PROVE  At(c, l, i) \in Place
    OBVIOUS
  <2>1. i = 0 \/ i = Len(c[l]) + 1 \/ i \in 1..Len(c[l])
    BY <1>1
  <2>2. QED
    BY <1>2, <1>3, <2>1, Dummies
<1>5. QED
  BY <1>1, <1>2, <1>3, <1>4

(* The way back along a path.                                              *)
LEMMA Back ==
  ASSUME TypeOK, Mirrored, NEW c, Paths(c), NEW l \in created
  PROVE  \A i \in 0..Len(c[l]) : prev[At(c, l, i + 1)] = At(c, l, i)
<1>1. l \in List /\ c \in [List -> Seq(Node)]
  BY DEF TypeOK, Paths
<1>2. ASSUME NEW i \in 0..Len(c[l])
      PROVE  prev[At(c, l, i + 1)] = At(c, l, i)
  <2>1. i + 1 \in 0..(Len(c[l]) + 1) /\ i \in 0..(Len(c[l]) + 1)
    BY <1>1, Places
  <2>2. At(c, l, i) \in Place /\ At(c, l, i + 1) \in Place
    BY <1>1, <2>1, Places
  <2>3. next[At(c, l, i)] = At(c, l, i + 1)
    BY DEF Paths
  <2>4. QED
    BY <2>2, <2>3, Dummies DEF Mirrored
<1>3. QED
  BY <1>2

(* The lists are apart from each other, and none comes back to itself: two *)
(* paths that met would lead back to the same head.                        *)
LEMMA Apart ==
  ASSUME TypeOK, Mirrored, NEW c, Paths(c)
  PROVE  \A l, k \in created :
         \A i \in 0..(Len(c[l]) + 1), j \in 0..(Len(c[k]) + 1) :
           At(c, l, i) = At(c, k, j) => l = k /\ i = j
<1> SUFFICES ASSUME NEW l \in created, NEW k \in created,
                    NEW i \in 0..(Len(c[l]) + 1),
                    NEW j \in 0..(Len(c[k]) + 1),
                    At(c, l, i) = At(c, k, j)
             PROVE  l = k /\ i = j
  OBVIOUS
<1> DEFINE S == {m \in 0..(Len(c[l]) + 1) : \A q \in 0..(Len(c[k]) + 1) :
                   At(c, l, m) = At(c, k, q) => l = k /\ m = q}
           n == Len(c[l])
<1>1. /\ l \in List /\ k \in List /\ c \in [List -> Seq(Node)]
      /\ n \in Nat /\ Len(c[k]) \in Nat
  BY Places DEF TypeOK, Paths
<1>2. \A h, g \in created : \A q \in 0..(Len(c[g]) + 1) :
        At(c, h, 0) = At(c, g, q) => h = g /\ q = 0
  <2> SUFFICES ASSUME NEW h \in created, NEW g \in created,
                      NEW q \in 0..(Len(c[g]) + 1), At(c, h, 0) = At(c, g, q)
               PROVE  h = g /\ q = 0
    OBVIOUS
  <2>1. h \in List /\ g \in List /\ Len(c[g]) \in Nat
    BY <1>1, Places DEF TypeOK
  <2>2. q = 0 \/ q = Len(c[g]) + 1 \/ q \in 1..Len(c[g])
    BY <2>1
  <2>3. At(c, g, q) = HeadOf(h)
    BY <1>1, <2>1, Places
  <2>4. q = 0
    <3>1. q # Len(c[g]) + 1
      <4>1. At(c, g, Len(c[g]) + 1) = TailOf(g)
        BY <1>1, <2>1, Places
      <4>2. TailOf(g) # HeadOf(h)
        BY <2>1, Dummies
      <4>3. QED
        BY <2>3, <4>1, <4>2
    <3>2. q \in 1..Len(c[g]) => At(c, g, q) \in Node
      BY <1>1, <2>1, Places
    <3>3. HeadOf(h) \notin Node
      BY <2>1, Dummies
    <3>4. QED
      BY <2>2, <2>3, <3>1, <3>2, <3>3
  <2>5. QED
    BY <1>1, <2>1, <2>3, <2>4, Places, Dummies
<1>3. 0 \in S
  BY <1>1, <1>2
<1>4. ASSUME NEW m \in 0..((n + 1) - 1), m \in S
      PROVE  m + 1 \in S
  <2>1. m \in 0..n /\ m + 1 \in 0..(n + 1) /\ m + 1 # 0
    BY <1>1
  <2>2. ASSUME NEW q \in 0..(Len(c[k]) + 1), At(c, l, m + 1) = At(c, k, q)
        PROVE  l = k /\ m + 1 = q
    <3>1. q # 0
      BY <1>2, <2>1, <2>2
    <3>2. q - 1 \in 0..Len(c[k]) /\ q - 1 \in 0..(Len(c[k]) + 1)
          /\ (q - 1) + 1 = q
      BY <1>1, <3>1
    <3>3. prev[At(c, l, m + 1)] = At(c, l, m)
      BY <2>1, Back
    <3>4. prev[At(c, k, q)] = At(c, k, q - 1)
      BY <3>2, Back
    <3>5. At(c, l, m) = At(c, k, q - 1)
      BY <2>2, <3>3, <3>4
    <3>6. l = k /\ m = q - 1
      BY <1>4, <3>2, <3>5
    <3>7. QED
      BY <3>2, <3>6
  <2>3. QED
    BY <2>1, <2>2
<1>5. \A m \in 0..(n + 1) : m \in S
  <2>1. n + 1 \in Nat
    BY <1>1
  <2> HIDE DEF S, n
  <2>2. QED
    BY <1>3, <1>4, <2>1, UpTo
<1>6. QED
  BY <1>5

(* A path has no more nodes than there are.                                *)
LEMMA Short ==
  ASSUME TypeOK, Mirrored, NEW c, Paths(c), NEW l \in created
  PROVE  /\ Len(c[l]) <= Cardinality(Node)
         /\ \A i, j \in 1..Len(c[l]) : c[l][i] = c[l][j] => i = j
<1> DEFINE n == Len(c[l])
<1>1. l \in List /\ c \in [List -> Seq(Node)] /\ n \in Nat
  BY Places DEF TypeOK, Paths
<1>2. \A i, j \in 1..n : c[l][i] = c[l][j] => i = j
  <2> SUFFICES ASSUME NEW i \in 1..n, NEW j \in 1..n, c[l][i] = c[l][j]
               PROVE  i = j
    OBVIOUS
  <2>1. i \in 0..(n + 1) /\ j \in 0..(n + 1)
    BY <1>1
  <2>2. At(c, l, i) = At(c, l, j)
    BY <1>1, Places
  <2>3. QED
    BY <2>1, <2>2, Apart
<1>3. c[l] \in Injection(1..n, Node)
  BY <1>1, <1>2 DEF Injection, IsInjective
<1>4. Cardinality(1..n) <= Cardinality(Node)
  BY <1>3, NodeIsFinite, FS_Injection
<1>5. Cardinality(1..n) = n
  BY <1>1, FS_Interval, SMTT(30)
<1>6. QED
  BY <1>2, <1>4, <1>5

(* What a walk along the pointers finds is the path.                       *)
LEMMA Walked ==
  ASSUME TypeOK, Mirrored, NEW c, Paths(c), NEW l \in List
  PROVE  Elements(l) = c[l]
<1> DEFINE n == Len(c[l])
<1>1. c \in [List -> Seq(Node)] /\ n \in Nat /\ c[l] \in Seq(Node)
  BY Places DEF Paths
<1>2. CASE l \in created
  <2>1. /\ n <= Cardinality(Node)
        /\ IsFiniteSet(Node)
        /\ TailOf(l) \notin Node
    BY <1>2, Short, NodeIsFinite, Dummies
  <2>2. \A i \in 1..n : next[c[l][i]] = IF i = n THEN TailOf(l)
                                        ELSE c[l][i + 1]
    <3> SUFFICES ASSUME NEW i \in 1..n
                 PROVE  next[c[l][i]] = IF i = n THEN TailOf(l)
                                        ELSE c[l][i + 1]
      OBVIOUS
    <3>1. i \in 0..n /\ (i + 1 = n + 1 <=> i = n) /\ i + 1 # 0
      BY <1>1
    <3>2. next[At(c, l, i)] = At(c, l, i + 1)
      BY <1>2, <3>1 DEF Paths
    <3>3. At(c, l, i) = c[l][i]
      BY <1>1, Places
    <3>4. At(c, l, i + 1) = IF i = n THEN TailOf(l) ELSE c[l][i + 1]
      BY <3>1 DEF At
    <3>5. QED
      BY <3>2, <3>3, <3>4
  <2>3. next[HeadOf(l)] = IF n = 0 THEN TailOf(l) ELSE c[l][1]
    <3>1. next[At(c, l, 0)] = At(c, l, 0 + 1)
      BY <1>1, <1>2 DEF Paths
    <3>2. At(c, l, 0) = HeadOf(l)
      BY DEF At
    <3>3. At(c, l, 0 + 1) = IF n = 0 THEN TailOf(l) ELSE c[l][1]
      BY <1>1 DEF At
    <3>4. QED
      BY <3>1, <3>2, <3>3
  <2>4. WalkIn(Node, next, IF n = 0 THEN TailOf(l) ELSE c[l][1]) = c[l]
    BY <1>1, <2>1, <2>2, WalkIs
  <2>5. QED
    BY <2>3, <2>4 DEF Elements
<1>3. CASE l \notin created
  <2>1. Len(c[l]) = 0
    BY <1>3 DEF Paths
  <2>2. next[HeadOf(l)] = NULL
    <3>1. HeadOf(l) \notin allocated
      BY Dummies DEF TypeOK
    <3>2. HeadOf(l) \notin {HeadOf(k) : k \in created}
      BY <1>3, Dummies DEF TypeOK
    <3>3. QED
      BY <3>1, <3>2, Dummies DEF TypeOK
  <2>3. \A i \in 1..n : next[c[l][i]] = IF i = n THEN NULL ELSE c[l][i + 1]
    BY <2>1
  <2>4. n <= Cardinality(Node)
    BY <2>1, NodeIsFinite, FS_CardinalityType
  <2>5. WalkIn(Node, next, IF n = 0 THEN NULL ELSE c[l][1]) = c[l]
    BY <1>1, <2>3, <2>4, NodeIsFinite, Dummies, WalkIs
  <2>6. QED
    BY <2>1, <2>2, <2>5 DEF Elements
<1>4. QED
  BY <1>2, <1>3

(* Whoever knows the paths of the lists knows the invariant.               *)
LEMMA PathsToInv ==
  ASSUME TypeOK, Mirrored, NEW c, Paths(c)
  PROVE  IInv
<1>1. /\ c \in [List -> Seq(Node)]
      /\ created \subseteq List
      /\ \A l \in List : Elements(l) = c[l]
  BY Walked DEF TypeOK, Paths
<1>2. ASSUME NEW l \in List
      PROVE  Cardinality(ToSet(Elements(l))) = Len(Elements(l))
  <2> DEFINE n == Len(c[l])
             T == ToSet(c[l])
  <2>1. n \in Nat /\ c[l] \in Seq(Node)
    BY <1>1, Places
  <2>2. \A i, j \in 1..n : c[l][i] = c[l][j] => i = j
    <3>1. CASE l \in created
      BY <3>1, Short
    <3>2. CASE l \notin created
      BY <3>2 DEF Paths
    <3>3. QED
      BY <3>1, <3>2
  <2>3. T = {c[l][i] : i \in 1..n}
    BY <2>1 DEF ToSet
  <2>4. c[l] \in [1..n -> T]
    BY <2>1, <2>3
  <2>5. c[l] \in Injection(1..n, T)
    BY <2>2, <2>4 DEF Injection, IsInjective
  <2>6. c[l] \in Surjection(1..n, T)
    BY <2>3, <2>4 DEF Surjection
  <2>7. IsFiniteSet(1..n) /\ Cardinality(1..n) = n
    BY <2>1, FS_Interval
  <2> HIDE DEF T, n
  <2>8. Cardinality(T) = Cardinality(1..n)
    BY <2>5, <2>6, <2>7, FS_Surjection
  <2>9. QED
    BY <1>1, <2>7, <2>8 DEF T, n
<1>3. ASSUME NEW l \in List, NEW k \in List, l # k
      PROVE  ToSet(Elements(l)) \cap ToSet(Elements(k)) = {}
  <2> SUFFICES ASSUME NEW i \in 1..Len(c[l]), NEW j \in 1..Len(c[k]),
                      c[l][i] = c[k][j]
               PROVE  FALSE
    <3>1. /\ ToSet(Elements(l)) = {c[l][i] : i \in 1..Len(c[l])}
          /\ ToSet(Elements(k)) = {c[k][j] : j \in 1..Len(c[k])}
      BY <1>1 DEF ToSet
    <3>2. QED
      BY <3>1
  <2>1. Len(c[l]) \in Nat /\ Len(c[k]) \in Nat
    BY <1>1, Places
  <2>2. l \in created /\ k \in created
    BY <2>1 DEF Paths
  <2>3. i \in 0..(Len(c[l]) + 1) /\ j \in 0..(Len(c[k]) + 1)
    BY <2>1
  <2>4. At(c, l, i) = At(c, k, j)
    BY <1>1, Places
  <2>5. QED
    BY <1>3, <2>2, <2>3, <2>4, Apart
<1>4. ASSUME NEW l \in created, NEW i \in 1..Len(c[l])
      PROVE  c[l][i] \in allocated
  <2>1. l \in List /\ Len(c[l]) \in Nat
    BY <1>1, Places
  <2>2. i \in 0..Len(c[l]) /\ i + 1 \in 0..(Len(c[l]) + 1)
    BY <2>1
  <2>3. /\ At(c, l, i) = c[l][i] /\ At(c, l, i) \in Node
        /\ At(c, l, i + 1) \in Place
    BY <1>1, <2>1, <2>2, Places
  <2>4. next[c[l][i]] # NULL
    BY <2>2, <2>3, Dummies DEF Paths
  <2>5. c[l][i] \notin {HeadOf(k) : k \in created}
    BY <1>1, <2>3, Dummies
  <2>6. QED
    BY <2>3, <2>4, <2>5, Dummies DEF TypeOK
<1>5. allocated = UNION {ToSet(Elements(l)) : l \in created}
  <2>1. \A l \in created : ToSet(Elements(l)) = {c[l][i] : i \in 1..Len(c[l])}
    BY <1>1 DEF ToSet
  <2>2. \A n \in allocated : \E l \in created : n \in ToSet(Elements(l))
    BY <2>1 DEF Paths
  <2>3. \A l \in created : ToSet(Elements(l)) \subseteq allocated
    BY <1>4, <2>1
  <2>4. QED
    BY <2>2, <2>3
<1>6. ASSUME NEW l \in created
      PROVE  next[Last(<<HeadOf(l)>> \o Elements(l))] = TailOf(l)
  <2> DEFINE n == Len(c[l])
  <2>1. l \in List /\ n \in Nat /\ c[l] \in Seq(Node) /\ Elements(l) = c[l]
    BY <1>1, Places
  <2>2. Last(<<HeadOf(l)>> \o c[l]) = At(c, l, n)
    <3>1. Len(<<HeadOf(l)>> \o c[l]) = n + 1
      BY <2>1
    <3>2. CASE n = 0
      BY <2>1, <3>1, <3>2 DEF Last, At
    <3>3. CASE n # 0
      <4>1. (<<HeadOf(l)>> \o c[l])[n + 1] = c[l][n]
        BY <2>1, <3>3
      <4>2. QED
        BY <2>1, <3>1, <3>3, <4>1 DEF Last, At
    <3>4. QED
      BY <3>2, <3>3
  <2>3. next[At(c, l, n)] = At(c, l, n + 1)
    BY <2>1 DEF Paths
  <2>4. At(c, l, n + 1) = TailOf(l)
    BY <1>1, <2>1, Places
  <2>5. QED
    BY <2>1, <2>2, <2>3, <2>4
<1>7. NodesAreOwned /\ EndsAtTail
  BY <1>2, <1>3, <1>5, <1>6 DEF NodesAreOwned, EndsAtTail
<1>8. QED
  BY <1>7 DEF IInv

(* The same after a step.                                                  *)
LEMMA PathsToInvNext ==
  ASSUME NEW c
  PROVE  (TypeOK /\ Mirrored /\ Paths(c) => IInv)'
<1>1. TypeOK /\ Mirrored /\ Paths(c) => IInv
  BY PathsToInv
<1>2. QED
  BY <1>1, PTL

\* The paths of the lists, if the invariant holds.
Chain == [l \in List |-> Elements(l)]

(* When a call starts, the elements of the lists are such paths.           *)
LEMMA InvToPaths ==
  ASSUME IInv
  PROVE  /\ Paths(Chain)
         /\ \A l \in List : Chain[l] = Elements(l)
<1> DEFINE c == Chain
<1>1. TypeOK /\ Mirrored /\ NodesAreOwned /\ EndsAtTail
  BY DEF IInv
<1>2. IsFiniteSet(Node) /\ created \subseteq List
  BY <1>1, NodeIsFinite DEF TypeOK
<1>3. ASSUME NEW l \in List
      PROVE  /\ c[l] = Elements(l)
             /\ c[l] \in Seq(Node)
             /\ next[HeadOf(l)] \in Node <=> Len(c[l]) # 0
             /\ next[HeadOf(l)] \in Node => c[l][1] = next[HeadOf(l)]
             /\ \A i \in 1..(Len(c[l]) - 1) : next[c[l][i]] = c[l][i + 1]
  <2>1. c[l] = WalkIn(Node, next, next[HeadOf(l)]) /\ c[l] = Elements(l)
    BY DEF Chain, Elements
  <2> DEFINE p == next[HeadOf(l)]
             s == WalkIn(Node, next, p)
  <2>2. /\ s \in Seq(Node)
        /\ p \in Node <=> Len(s) # 0
        /\ p \in Node => s[1] = p
        /\ \A i \in 1..(Len(s) - 1) : next[s[i]] = s[i + 1]
    <3> HIDE DEF p
    <3>1. QED
      BY <1>2, WalkLinks
  <2>3. QED
    BY <2>1, <2>2
<1>4. c \in [List -> Seq(Node)]
  BY <1>3 DEF Chain
<1> HIDE DEF c
<1>5. ASSUME NEW l \in created, NEW i \in 0..Len(c[l])
      PROVE  next[At(c, l, i)] = At(c, l, i + 1)
  <2> DEFINE n == Len(c[l])
  <2>1. l \in List /\ n \in Nat /\ c[l] \in Seq(Node)
    BY <1>2, <1>4, Places
  <2>2. next[Last(<<HeadOf(l)>> \o c[l])] = TailOf(l)
    BY <1>1, <1>3, <2>1 DEF EndsAtTail
  <2>3. Len(<<HeadOf(l)>> \o c[l]) = n + 1
    BY <2>1
  <2>4. CASE i = 0 /\ n = 0
    <3>1. (<<HeadOf(l)>> \o c[l])[n + 1] = HeadOf(l)
      BY <2>1, <2>4
    <3>2. At(c, l, i) = HeadOf(l) /\ At(c, l, i + 1) = TailOf(l)
      BY <2>4 DEF At
    <3>3. QED
      BY <2>2, <2>3, <3>1, <3>2 DEF Last
  <2>5. CASE i = 0 /\ n # 0
    <3>1. At(c, l, i) = HeadOf(l) /\ At(c, l, i + 1) = c[l][1]
      BY <2>1, <2>5 DEF At
    <3>2. QED
      BY <1>3, <2>1, <2>5, <3>1
  <2>6. CASE i # 0 /\ i # n
    <3>1. /\ i \in 1..(n - 1)
          /\ At(c, l, i) = c[l][i] /\ At(c, l, i + 1) = c[l][i + 1]
      BY <2>1, <2>6 DEF At
    <3>2. QED
      BY <1>3, <2>1, <3>1
  <2>7. CASE i # 0 /\ i = n
    <3>1. At(c, l, i) = c[l][n] /\ At(c, l, i + 1) = TailOf(l)
      BY <2>1, <2>7 DEF At
    <3>2. (<<HeadOf(l)>> \o c[l])[n + 1] = c[l][n]
      BY <2>1, <2>7
    <3>3. QED
      BY <2>2, <2>3, <3>1, <3>2 DEF Last
  <2>8. QED
    BY <2>4, <2>5, <2>6, <2>7
<1>6. ASSUME NEW l \in List, l \notin created
      PROVE  Len(c[l]) = 0
  <2>1. HeadOf(l) \notin allocated
    BY <1>1, Dummies DEF TypeOK
  <2>2. HeadOf(l) \notin {HeadOf(k) : k \in created}
    BY <1>2, <1>6, Dummies
  <2>3. next[HeadOf(l)] = NULL
    BY <1>1, <2>1, <2>2, Dummies DEF TypeOK
  <2>4. QED
    BY <1>3, <2>3, Dummies
<1>7. ASSUME NEW n \in allocated
      PROVE  \E l \in created : \E i \in 1..Len(c[l]) : n = c[l][i]
  <2>1. PICK l \in created : n \in ToSet(Elements(l))
    BY <1>1 DEF NodesAreOwned
  <2>2. l \in List /\ c[l] \in Seq(Node) /\ n \in ToSet(c[l])
    BY <1>2, <1>3, <2>1
  <2>3. QED
    BY <2>2 DEF ToSet
<1>8. Paths(c)
  BY <1>4, <1>5, <1>6, <1>7 DEF Paths
<1>9. QED
  BY <1>3, <1>8 DEF c

(* Where an iterator is in its list, and who is before it.                 *)
LEMMA Placed ==
  ASSUME IInv, NEW l \in created, NEW iter \in Iter(l)
  PROVE  /\ Position(l, iter) \in 1..(Len(Chain[l]) + 1)
         /\ At(Chain, l, Position(l, iter)) = iter
         /\ prev[iter] = At(Chain, l, Position(l, iter) - 1)
         /\ iter \in ToSet(Elements(l)) =>
              Position(l, iter) \in 1..Len(Chain[l])
<1> DEFINE n == Len(Chain[l])
           i == Position(l, iter)
<1>1. TypeOK /\ Mirrored /\ Paths(Chain) /\ Elements(l) = Chain[l]
  BY InvToPaths DEF IInv, TypeOK
<1>2. /\ l \in List /\ Chain \in [List -> Seq(Node)]
      /\ Chain[l] \in Seq(Node) /\ n \in Nat
  BY <1>1, Places DEF TypeOK, Paths
<1>3. ToSet(Elements(l)) = {Chain[l][j] : j \in 1..n}
  BY <1>1, <1>2 DEF ToSet
<1>4. TailOf(l) \notin ToSet(Elements(l))
  BY <1>2, <1>3, Dummies
<1>5. i \in 1..(n + 1) /\ At(Chain, l, i) = iter
      /\ (iter \in ToSet(Elements(l)) => i \in 1..n)
  <2>1. CASE iter = TailOf(l)
    BY <1>1, <1>2, <1>4, <2>1, Places DEF Position
  <2>2. CASE iter # TailOf(l)
    <3>1. i = CHOOSE j \in 1..n : Chain[l][j] = iter
      BY <1>1, <2>2 DEF Position
    <3>2. \E j \in 1..n : Chain[l][j] = iter
      BY <1>3, <2>2 DEF Iter
    <3>3. i \in 1..n /\ Chain[l][i] = iter
      BY <3>1, <3>2
    <3>4. QED
      BY <1>2, <3>3, Places
  <2>3. QED
    BY <2>1, <2>2
<1>6. prev[iter] = At(Chain, l, i - 1)
  <2>1. i - 1 \in 0..n /\ (i - 1) + 1 = i
    BY <1>2, <1>5
  <2>2. prev[At(Chain, l, (i - 1) + 1)] = At(Chain, l, i - 1)
    BY <1>1, <2>1, Back
  <2>3. QED
    BY <1>5, <2>1, <2>2
<1>7. QED
  BY <1>5, <1>6

-----------------------------------------------------------------------------
(* What the calls do to the pointers, wherever in the lists they do it.    *)

\* The places that have a next, and those that have a prev.
HasNext == allocated \cup {HeadOf(l) : l \in created}
HasPrev == allocated \cup {TailOf(l) : l \in created}

(* Pointers lead from places that have a next to places that have a prev.  *)
LEMMA Pointers ==
  ASSUME TypeOK, Mirrored
  PROVE  /\ HasNext \subseteq Place /\ HasPrev \subseteq Place
         /\ \A p \in HasNext : next[p] \in HasPrev /\ prev[next[p]] = p
         /\ \A p \in HasPrev : prev[p] \in HasNext /\ next[prev[p]] = p
         /\ \A p \in Place : p \notin HasNext => next[p] = NULL
         /\ \A p \in Place : p \notin HasPrev => prev[p] = NULL
         /\ NULL \notin HasNext /\ NULL \notin HasPrev
<1>1. HasNext \subseteq Place /\ HasPrev \subseteq Place
  BY Dummies DEF HasNext, HasPrev, TypeOK
<1>2. /\ \A p \in Place : next[p] = NULL <=> p \notin HasNext
      /\ \A p \in Place : prev[p] = NULL <=> p \notin HasPrev
      /\ \A p \in Place : next[p] \in Place \cup {NULL}
      /\ \A p \in Place : prev[p] \in Place \cup {NULL}
  BY DEF TypeOK, HasNext, HasPrev
<1>3. /\ \A p \in Place : next[p] # NULL => prev[next[p]] = p
      /\ \A p \in Place : prev[p] # NULL => next[prev[p]] = p
  BY DEF Mirrored
<1>4. QED
  BY <1>1, <1>2, <1>3, Dummies

\* Pointers lead from N to P and back, after a step.
Rewires(N, P) ==
  /\ next' \in [Place -> Place \cup {NULL}]
  /\ prev' \in [Place -> Place \cup {NULL}]
  /\ N \subseteq Place /\ P \subseteq Place
  /\ \A p \in N : next'[p] \in P /\ prev'[next'[p]] = p
  /\ \A p \in P : prev'[p] \in N /\ next'[prev'[p]] = p
  /\ \A p \in Place : p \notin N => next'[p] = NULL
  /\ \A p \in Place : p \notin P => prev'[p] = NULL

(* What is enough to keep the pointers so.                                 *)
LEMMA Rewired ==
  ASSUME data' \in [Node -> Value \cup {NULL}],
         allocated' \subseteq Node, created' \subseteq List,
         NEW N, NEW P, N = HasNext', P = HasPrev', Rewires(N, P)
  PROVE  TypeOK' /\ Mirrored'
<1>1. NULL \notin N /\ NULL \notin P
  BY Dummies DEF Rewires
<1>2. /\ \A p \in Place : next'[p] = NULL <=> p \notin N
      /\ \A p \in Place : prev'[p] = NULL <=> p \notin P
  BY <1>1 DEF Rewires
<1>3. /\ N = allocated' \cup {HeadOf(l) : l \in created'}
      /\ P = allocated' \cup {TailOf(l) : l \in created'}
  BY DEF HasNext, HasPrev, HeadOf, TailOf
<1>4. TypeOK'
  BY <1>2, <1>3 DEF Rewires, TypeOK, HeadOf, TailOf
<1>5. Mirrored'
  BY <1>2 DEF Rewires, Mirrored
<1>6. QED
  BY <1>4, <1>5

(* A new node before one that has a prev.                                  *)
LEMMA InsertRewires ==
  ASSUME TypeOK, Mirrored, NEW iter \in HasPrev, NEW n \in Free,
         NEW v \in Value, DListInsertBefore(iter, n, v)
  PROVE  TypeOK' /\ Mirrored'
<1> DEFINE N == HasNext \cup {n}
           P == HasPrev \cup {n}
<1>1. /\ n \in Node /\ n \in Place /\ n \notin allocated /\ n # NULL
      /\ n \notin HasNext /\ n \notin HasPrev
  BY Dummies DEF Free, HasNext, HasPrev, TypeOK
<1>2. /\ N = HasNext' /\ P = HasPrev'
      /\ allocated' \subseteq Node /\ created' \subseteq List
      /\ data' \in [Node -> Value \cup {NULL}]
  BY <1>1 DEF DListInsertBefore, HasNext, HasPrev, TypeOK, HeadOf, TailOf
<1>3. /\ iter \in Place /\ prev[iter] \in HasNext /\ prev[iter] \in Place
      /\ iter # n /\ prev[iter] # n
      /\ next \in [Place -> Place \cup {NULL}]
      /\ prev \in [Place -> Place \cup {NULL}]
  BY <1>1, Pointers DEF TypeOK
<1>4. /\ next' = [next EXCEPT ![n] = iter, ![prev[iter]] = n]
      /\ prev' = [prev EXCEPT ![n] = prev[iter], ![iter] = n]
  BY DEF DListInsertBefore
<1>5. /\ next' \in [Place -> Place \cup {NULL}]
      /\ prev' \in [Place -> Place \cup {NULL}]
      /\ \A p \in Place : next'[p] = IF p = prev[iter] THEN n
                                     ELSE IF p = n THEN iter ELSE next[p]
      /\ \A p \in Place : prev'[p] = IF p = iter THEN n
                                     ELSE IF p = n THEN prev[iter] ELSE prev[p]
  BY <1>1, <1>3, <1>4
<1>6. N \subseteq Place /\ P \subseteq Place
  BY <1>1, Pointers
<1>7. \A p \in N : next'[p] \in P /\ prev'[next'[p]] = p
  BY <1>1, <1>3, <1>5, <1>6, Pointers
<1>8. \A p \in P : prev'[p] \in N /\ next'[prev'[p]] = p
  BY <1>1, <1>3, <1>5, <1>6, Pointers
<1>9. /\ \A p \in Place : p \notin N => next'[p] = NULL
      /\ \A p \in Place : p \notin P => prev'[p] = NULL
  BY <1>3, <1>5, Pointers
<1> HIDE DEF N, P
<1>10. QED
  <2>1. Rewires(N, P)
    BY <1>5, <1>6, <1>7, <1>8, <1>9 DEF Rewires
  <2>2. QED
    BY <1>2, <2>1, Rewired

(* A node is taken out.                                                    *)
LEMMA RemoveRewires ==
  ASSUME TypeOK, Mirrored, NEW iter \in allocated, DListRemove(iter)
  PROVE  TypeOK' /\ Mirrored'
<1> DEFINE N == HasNext \ {iter}
           P == HasPrev \ {iter}
<1>1. /\ iter \in Node /\ iter \in Place
      /\ iter \in HasNext /\ iter \in HasPrev
      /\ \A l \in List : HeadOf(l) # iter /\ TailOf(l) # iter
  BY Dummies DEF HasNext, HasPrev, TypeOK
<1>2. /\ N = HasNext' /\ P = HasPrev'
      /\ allocated' \subseteq Node /\ created' \subseteq List
      /\ data' \in [Node -> Value \cup {NULL}]
  BY <1>1 DEF DListRemove, HasNext, HasPrev, TypeOK, HeadOf, TailOf
<1>3. /\ prev[iter] \in HasNext /\ prev[iter] \in Place
      /\ next[iter] \in HasPrev /\ next[iter] \in Place
      /\ next \in [Place -> Place \cup {NULL}]
      /\ prev \in [Place -> Place \cup {NULL}]
  BY <1>1, Pointers DEF TypeOK
<1>4. /\ next' = [next EXCEPT ![prev[iter]] = next[iter], ![iter] = NULL]
      /\ prev' = [prev EXCEPT ![next[iter]] = prev[iter], ![iter] = NULL]
  BY DEF DListRemove
<1>5. /\ next' \in [Place -> Place \cup {NULL}]
      /\ prev' \in [Place -> Place \cup {NULL}]
      /\ \A p \in Place : next'[p] = IF p = iter THEN NULL
                                     ELSE IF p = prev[iter] THEN next[iter]
                                          ELSE next[p]
      /\ \A p \in Place : prev'[p] = IF p = iter THEN NULL
                                     ELSE IF p = next[iter] THEN prev[iter]
                                          ELSE prev[p]
  BY <1>1, <1>3, <1>4
<1>6. N \subseteq Place /\ P \subseteq Place
  BY Pointers
<1>7. \A p \in N : next'[p] \in P /\ prev'[next'[p]] = p
  BY <1>1, <1>3, <1>5, <1>6, Pointers
<1>8. \A p \in P : prev'[p] \in N /\ next'[prev'[p]] = p
  BY <1>1, <1>3, <1>5, <1>6, Pointers
<1>9. /\ \A p \in Place : p \notin N => next'[p] = NULL
      /\ \A p \in Place : p \notin P => prev'[p] = NULL
  BY <1>3, <1>5, Pointers
<1> HIDE DEF N, P
<1>10. QED
  <2>1. Rewires(N, P)
    BY <1>5, <1>6, <1>7, <1>8, <1>9 DEF Rewires
  <2>2. QED
    BY <1>2, <2>1, Rewired

(* Three places change the ones that are before them.                      *)
LEMMA SpliceRewires ==
  ASSUME TypeOK, Mirrored, NEW dest \in HasPrev, NEW from \in HasPrev,
         NEW to \in HasPrev, dest # from, from # to, dest # to,
         DListSplice(dest, from, to)
  PROVE  /\ TypeOK' /\ Mirrored'
         /\ next'[prev[from]] = to
         /\ next'[prev[dest]] = from
         /\ next'[prev[to]] = dest
         /\ \A p \in Place : p \notin {prev[from], prev[dest], prev[to]} =>
              next'[p] = next[p]
<1>1. /\ HasNext = HasNext' /\ HasPrev = HasPrev'
      /\ allocated' \subseteq Node /\ created' \subseteq List
      /\ data' \in [Node -> Value \cup {NULL}]
  BY DEF DListSplice, HasNext, HasPrev, TypeOK, HeadOf, TailOf
<1>2. /\ prev[from] \in HasNext /\ prev[dest] \in HasNext
      /\ prev[to] \in HasNext /\ HasNext \subseteq Place
      /\ HasPrev \subseteq Place
      /\ next \in [Place -> Place \cup {NULL}]
      /\ prev \in [Place -> Place \cup {NULL}]
      /\ prev[from] # prev[dest] /\ prev[from] # prev[to]
      /\ prev[dest] # prev[to]
  BY Pointers DEF TypeOK
<1>3. /\ next' = [next EXCEPT ![prev[from]] = to,
                              ![prev[dest]] = from,
                              ![prev[to]] = dest]
      /\ prev' = [prev EXCEPT ![to] = prev[from],
                              ![from] = prev[dest],
                              ![dest] = prev[to]]
  BY DEF DListSplice
<1>4. /\ next' \in [Place -> Place \cup {NULL}]
      /\ prev' \in [Place -> Place \cup {NULL}]
  BY <1>2, <1>3
<1>5. \A p \in Place : next'[p] = IF p = prev[from] THEN to
                                  ELSE IF p = prev[dest] THEN from
                                  ELSE IF p = prev[to] THEN dest
                                  ELSE next[p]
  BY <1>2, <1>3
<1>6. \A p \in Place : prev'[p] = IF p = to THEN prev[from]
                                  ELSE IF p = from THEN prev[dest]
                                  ELSE IF p = dest THEN prev[to]
                                  ELSE prev[p]
  BY <1>2, <1>3
<1>7. \A p \in HasNext : next'[p] \in HasPrev /\ prev'[next'[p]] = p
  BY <1>2, <1>5, <1>6, Pointers
<1>8. \A p \in HasPrev : prev'[p] \in HasNext /\ next'[prev'[p]] = p
  BY <1>2, <1>5, <1>6, Pointers
<1>9. /\ \A p \in Place : p \notin HasNext => next'[p] = NULL
      /\ \A p \in Place : p \notin HasPrev => prev'[p] = NULL
  BY <1>2, <1>5, <1>6, Pointers
<1>10. TypeOK' /\ Mirrored'
  <2>1. Rewires(HasNext, HasPrev)
    BY <1>2, <1>4, <1>7, <1>8, <1>9 DEF Rewires
  <2>2. QED
    BY <1>1, <2>1, Rewired
<1>11. QED
  BY <1>2, <1>5, <1>10

(* A new list joins its dummies.                                           *)
LEMMA CreateRewires ==
  ASSUME TypeOK, Mirrored, NEW l \in List, DListCreate(l)
  PROVE  /\ TypeOK' /\ Mirrored'
         /\ next'[HeadOf(l)] = TailOf(l)
         /\ \A p \in HasNext : next'[p] = next[p]
<1> DEFINE h == HeadOf(l)
           t == TailOf(l)
           N == HasNext \cup {h}
           P == HasPrev \cup {t}
<1>1. h \in Place /\ t \in Place /\ h # t
  BY Dummies
<1>2. /\ h \notin HasNext /\ h \notin HasPrev
      /\ t \notin HasNext /\ t \notin HasPrev
  BY Dummies DEF DListCreate, HasNext, HasPrev, TypeOK
<1>3. /\ N = HasNext' /\ P = HasPrev'
      /\ allocated' \subseteq Node /\ created' \subseteq List
      /\ data' \in [Node -> Value \cup {NULL}]
      /\ next \in [Place -> Place \cup {NULL}]
      /\ prev \in [Place -> Place \cup {NULL}]
  BY DEF DListCreate, HasNext, HasPrev, TypeOK, HeadOf, TailOf
<1>4. /\ next' = [next EXCEPT ![h] = t, ![t] = NULL]
      /\ prev' = [prev EXCEPT ![t] = h, ![h] = NULL]
  BY DEF DListCreate
<1> HIDE DEF h, t
<1>5. /\ next' \in [Place -> Place \cup {NULL}]
      /\ prev' \in [Place -> Place \cup {NULL}]
      /\ \A p \in Place : next'[p] = IF p = h THEN t
                                     ELSE IF p = t THEN NULL ELSE next[p]
      /\ \A p \in Place : prev'[p] = IF p = t THEN h
                                     ELSE IF p = h THEN NULL ELSE prev[p]
  BY <1>1, <1>3, <1>4
<1>6. N \subseteq Place /\ P \subseteq Place
  BY <1>1, Pointers
<1>7. \A p \in N : next'[p] \in P /\ prev'[next'[p]] = p
  BY <1>1, <1>2, <1>5, <1>6, Pointers
<1>8. \A p \in P : prev'[p] \in N /\ next'[prev'[p]] = p
  BY <1>1, <1>2, <1>5, <1>6, Pointers
<1>9. /\ \A p \in Place : p \notin N => next'[p] = NULL
      /\ \A p \in Place : p \notin P => prev'[p] = NULL
  BY <1>5, Pointers
<1>10. \A p \in HasNext : next'[p] = next[p]
  BY <1>2, <1>5, Pointers
<1>11. TypeOK' /\ Mirrored'
  <2> HIDE DEF N, P
  <2>1. QED
    <3>1. Rewires(N, P)
      BY <1>5, <1>6, <1>7, <1>8, <1>9 DEF Rewires
    <3>2. QED
      BY <1>3, <3>1, Rewired
<1>12. QED
  BY <1>1, <1>5, <1>10, <1>11 DEF h, t

(* A list goes, with the nodes that lead from its head to its tail.        *)
LEMMA DestroyRewires ==
  ASSUME TypeOK, Mirrored, NEW l \in created, NEW freed,
         freed \subseteq allocated,
         \A q \in freed \cup {HeadOf(l)} : next[q] \in freed \cup {TailOf(l)},
         \A q \in freed \cup {TailOf(l)} : prev[q] \in freed \cup {HeadOf(l)},
         next' = [p \in Place |-> IF p \in freed \cup {HeadOf(l)} THEN NULL
                                  ELSE next[p]],
         prev' = [p \in Place |-> IF p \in freed \cup {TailOf(l)} THEN NULL
                                  ELSE prev[p]],
         data' = [n \in Node |-> IF n \in freed THEN NULL ELSE data[n]],
         allocated' = allocated \ freed,
         created' = created \ {l}
  PROVE  TypeOK' /\ Mirrored'
<1> DEFINE h == HeadOf(l)
           t == TailOf(l)
           N == HasNext \ (freed \cup {h})
           P == HasPrev \ (freed \cup {t})
<1>1. /\ l \in List /\ h \in Place /\ t \in Place /\ freed \subseteq Node
      /\ next \in [Place -> Place \cup {NULL}]
      /\ prev \in [Place -> Place \cup {NULL}]
  BY Dummies DEF TypeOK
<1>2. /\ \A k \in List : HeadOf(k) \notin freed /\ TailOf(k) \notin freed
      /\ \A k \in List : HeadOf(k) = h <=> k = l
      /\ \A k \in List : TailOf(k) = t <=> k = l
      /\ \A n \in Node : n # h /\ n # t
      /\ allocated \subseteq Node /\ created \subseteq List
  BY <1>1, Dummies DEF TypeOK
<1>3. N = HasNext' /\ P = HasPrev'
  BY <1>2 DEF HasNext, HasPrev, HeadOf, TailOf
<1>4. /\ allocated' \subseteq Node /\ created' \subseteq List
      /\ data' \in [Node -> Value \cup {NULL}]
  BY DEF TypeOK
<1> HIDE DEF h, t
<1>5. /\ \A q \in freed \cup {h} : next[q] \in freed \cup {t}
      /\ \A q \in freed \cup {t} : prev[q] \in freed \cup {h}
      /\ next' = [p \in Place |-> IF p \in freed \cup {h} THEN NULL
                                  ELSE next[p]]
      /\ prev' = [p \in Place |-> IF p \in freed \cup {t} THEN NULL
                                  ELSE prev[p]]
  BY DEF h, t
<1>6. /\ next' \in [Place -> Place \cup {NULL}]
      /\ prev' \in [Place -> Place \cup {NULL}]
      /\ N \subseteq Place /\ P \subseteq Place
  BY <1>1, <1>5, Pointers
<1>7. \A p \in N : next'[p] \in P /\ prev'[next'[p]] = p
  BY <1>5, <1>6, Pointers
<1>8. \A p \in P : prev'[p] \in N /\ next'[prev'[p]] = p
  BY <1>5, <1>6, Pointers
<1>9. /\ \A p \in Place : p \notin N => next'[p] = NULL
      /\ \A p \in Place : p \notin P => prev'[p] = NULL
  BY <1>5, Pointers
<1> HIDE DEF N, P
<1>10. QED
  <2>1. Rewires(N, P)
    BY <1>6, <1>7, <1>8, <1>9 DEF Rewires
  <2>2. QED
    BY <1>3, <1>4, <2>1, Rewired

-----------------------------------------------------------------------------
(* What the calls do to the paths.                                         *)

(* A function on 1..n is a sequence.                                       *)
LEMMA Listed ==
  ASSUME NEW S, NEW n \in Nat, NEW s \in [1..n -> S]
  PROVE  s \in Seq(S) /\ Len(s) = n
OBVIOUS

\* The place before place i of a list, the nodes t, and place i.
Gap(c, l, i, t) ==
  [x \in 0..(Len(t) + 1) |-> IF x = 0 THEN At(c, l, i - 1)
                             ELSE IF x = Len(t) + 1 THEN At(c, l, i)
                             ELSE t[x]]

\* What a call that puts the nodes t there does.
Inserts(c, l, i, t) ==
  /\ \A x \in 0..Len(t) : next'[Gap(c, l, i, t)[x]] = Gap(c, l, i, t)[x + 1]
  /\ \A p \in Place : (\A x \in 0..Len(t) : p # Gap(c, l, i, t)[x]) =>
                       next'[p] = next[p]
  /\ allocated' = allocated \cup {t[x] : x \in 1..Len(t)}
  /\ created' = created

(* New nodes t are put before place i of a list.                           *)
LEMMA InsertPath ==
  ASSUME TypeOK, Mirrored, NEW c, Paths(c), NEW l \in created,
         NEW n \in Nat, n = Len(c[l]), NEW i \in 1..(n + 1),
         NEW t \in Seq(Node), NEW m \in Nat, m = Len(t),
         \A x \in 1..m : t[x] \in Free, Inserts(c, l, i, t)
  PROVE  \E d : /\ Paths(d)'
                /\ d = [c EXCEPT ![l] = Opened(@, i, t, 1, m)]
<1> PICK T : T = Gap(c, l, i, t)
  OBVIOUS
<1> DEFINE s == [x \in 1..(n + m) |->
                   IF x < i THEN c[l][x]
                   ELSE IF x < i + m THEN t[x - i + 1] ELSE c[l][x - m]]
<1>1. /\ c \in [List -> Seq(Node)] /\ l \in List /\ c[l] \in Seq(Node)
      /\ created \subseteq List /\ n + m \in Nat
      /\ allocated' = allocated \cup {t[x] : x \in 1..m}
      /\ created' = created
  BY Places DEF TypeOK, Paths, Inserts
<1>2. s \in Seq(Node) /\ Len(s) = n + m
  <2>1. ASSUME NEW x \in 1..(n + m)
        PROVE  s[x] \in Node
    <3>1. CASE x < i
      BY <1>1, <3>1
    <3>2. CASE ~(x < i) /\ x < i + m
      <4>1. x - i + 1 \in 1..m
        BY <1>1, <3>2
      <4>2. QED
        BY <3>2, <4>1
    <3>3. CASE ~(x < i + m)
      <4>1. x - m \in 1..n /\ ~(x < i)
        BY <1>1, <3>3
      <4>2. QED
        BY <1>1, <3>3, <4>1
    <3>4. QED
      BY <3>1, <3>2, <3>3
  <2>2. s \in [1..(n + m) -> Node]
    BY <2>1
  <2> HIDE DEF s
  <2>3. QED
    BY <1>1, <2>2, Listed, Zenon
<1>3. PICK d : d = [c EXCEPT ![l] = s]
  OBVIOUS
<1>4. /\ d \in [List -> Seq(Node)] /\ d[l] = s
      /\ \A k \in List : k # l => d[k] = c[k]
  <2> HIDE DEF s
  <2>1. QED
    BY <1>1, <1>2, <1>3
<1>5. \A x \in 0..(n + m + 1) :
        At(d, l, x) = IF x < i THEN At(c, l, x)
                      ELSE IF x < i + m THEN t[x - i + 1]
                      ELSE At(c, l, x - m)
  <2> SUFFICES ASSUME NEW x \in 0..(n + m + 1)
               PROVE  At(d, l, x) = IF x < i THEN At(c, l, x)
                                    ELSE IF x < i + m THEN t[x - i + 1]
                                    ELSE At(c, l, x - m)
    OBVIOUS
  <2>1. CASE x = 0
    BY <1>1, <2>1 DEF At
  <2>2. CASE x = n + m + 1
    <3>1. ~(x < i) /\ ~(x < i + m) /\ x - m = n + 1 /\ x # 0
      BY <1>1, <2>2
    <3>2. At(d, l, x) = TailOf(l)
      BY <1>2, <1>4, <2>2, <3>1 DEF At
    <3>3. At(c, l, x - m) = TailOf(l)
      BY <1>1, <3>1, Places
    <3>4. QED
      BY <3>1, <3>2, <3>3
  <2>3. CASE x \in 1..(n + m)
    <3>1. At(d, l, x) = s[x]
      BY <1>1, <1>2, <1>4, <2>3 DEF At
    <3>2. x < i => At(c, l, x) = c[l][x]
      BY <1>1, <2>3 DEF At
    <3>3. ~(x < i + m) => At(c, l, x - m) = c[l][x - m]
      BY <1>1, <2>3 DEF At
    <3>4. ~(x < i + m) => ~(x < i)
      BY <1>1
    <3>5. QED
      BY <2>3, <3>1, <3>2, <3>3, <3>4
  <2>4. x = 0 \/ x = n + m + 1 \/ x \in 1..(n + m)
    BY <1>1
  <2>5. QED
    BY <2>1, <2>2, <2>3, <2>4
<1>6. /\ \A x \in 0..(m + 1) : T[x] = IF x = 0 THEN At(c, l, i - 1)
                                     ELSE IF x = m + 1 THEN At(c, l, i)
                                     ELSE t[x]
      /\ m + 1 \in 0..(m + 1) /\ 0 \in 0..(m + 1)
      /\ T[m + 1] = At(c, l, i)
      /\ \A x \in 0..m : next'[T[x]] = T[x + 1]
      /\ \A p \in Place : (\A x \in 0..m : p # T[x]) => next'[p] = next[p]
  <2>1. DOMAIN T = 0..(m + 1)
    BY DEF Gap
  <2>2. \A x \in 0..(m + 1) : T[x] = IF x = 0 THEN At(c, l, i - 1)
                                   ELSE IF x = m + 1 THEN At(c, l, i)
                                   ELSE t[x]
    BY DEF Gap
  <2>3. m + 1 \in 0..(m + 1) /\ 0 \in 0..(m + 1) /\ m + 1 # 0
    OBVIOUS
  <2>4. /\ \A x \in 0..m : next'[T[x]] = T[x + 1]
        /\ \A p \in Place : (\A x \in 0..m : p # T[x]) => next'[p] = next[p]
    BY DEF Inserts
  <2>5. QED
    BY <2>2, <2>3, <2>4
<1>7. ASSUME NEW k \in created, NEW x \in 0..Len(c[k]), k # l \/ x # i - 1
      PROVE  next'[At(c, k, x)] = At(c, k, x + 1)
  <2>1. k \in List /\ Len(c[k]) \in Nat
    BY <1>1, Places
  <2>2. x \in 0..(Len(c[k]) + 1) /\ i - 1 \in 0..(n + 1)
    BY <1>1, <2>1
  <2>3. At(c, k, x) # At(c, l, i - 1)
    BY <1>7, <2>2, Apart
  <2>4. next[At(c, k, x)] = At(c, k, x + 1)
    BY DEF Paths
  <2>5. ASSUME NEW y \in 1..m
        PROVE  At(c, k, x) # t[y]
    <3>1. t[y] \in Free /\ t[y] \in Place
      BY Dummies DEF Free
    <3>2. t[y] \notin HasNext
      BY <1>1, <3>1, Dummies DEF Free, HasNext
    <3>3. At(c, k, x + 1) # NULL
      <4>1. x + 1 \in 0..(Len(c[k]) + 1)
        BY <2>1
      <4>2. At(c, k, x + 1) \in Place
        BY <1>1, <2>1, <4>1, Places
      <4>3. QED
        BY <4>2, Dummies
    <3>4. QED
      BY <2>4, <3>1, <3>2, <3>3, Pointers
  <2>6. ASSUME NEW y \in 0..m
        PROVE  At(c, k, x) # T[y]
    <3>1. y \in 0..(m + 1) /\ y # m + 1 /\ (y # 0 => y \in 1..m)
      BY <1>1
    <3>2. QED
      BY <1>6, <2>3, <2>5, <3>1
  <2>7. At(c, k, x) \in Place
    BY <1>1, <2>1, <2>2, Places
  <2>8. QED
    BY <1>6, <2>4, <2>6, <2>7
<1>8. ASSUME NEW x \in 0..(n + m)
      PROVE  next'[At(d, l, x)] = At(d, l, x + 1)
  <2>1. x \in 0..(n + m + 1) /\ x + 1 \in 0..(n + m + 1)
    BY <1>1
  <2>2. CASE x < i - 1
    <3>1. x \in 0..n /\ x # i - 1 /\ x < i /\ x + 1 < i
      BY <1>1, <2>2
    <3>2. QED
      BY <1>5, <1>7, <2>1, <3>1
  <2>3. CASE x >= i - 1 /\ x < i + m
    <3>1. x - i + 1 \in 0..m /\ x = (i - 1) + (x - i + 1)
      BY <2>3
    <3> PICK y \in 0..m : x = (i - 1) + y /\ x - i + 1 = y
      BY <3>1
    <3>2. y \in 0..(m + 1) /\ y + 1 \in 0..(m + 1) /\ y # m + 1 /\ y + 1 # 0
      OBVIOUS
    <3>3. At(d, l, x) = T[y]
      <4>1. CASE y = 0
        <5>1. x = i - 1 /\ x < i
          BY <4>1
        <5>2. At(d, l, x) = At(c, l, i - 1)
          BY <1>5, <2>1, <5>1
        <5>3. QED
          BY <1>6, <4>1, <5>2
      <4>2. CASE y # 0
        <5>1. ~(x < i) /\ x < i + m
          BY <4>2
        <5>2. At(d, l, x) = t[x - i + 1]
          BY <1>5, <2>1, <5>1
        <5>3. T[y] = t[y]
          BY <1>6, <3>2, <4>2
        <5>4. QED
          BY <5>2, <5>3
      <4>3. QED
        BY <4>1, <4>2
    <3>4. At(d, l, x + 1) = T[y + 1]
      <4>1. CASE y = m
        <5>1. ~(x + 1 < i) /\ ~(x + 1 < i + m) /\ (x + 1) - m = i
          BY <4>1
        <5>2. At(d, l, x + 1) = At(c, l, (x + 1) - m)
          BY <1>5, <2>1, <5>1
        <5>3. T[y + 1] = At(c, l, i)
          BY <1>6, <4>1
        <5>4. QED
          BY <5>1, <5>2, <5>3
      <4>2. CASE y # m
        <5>1. ~(x + 1 < i) /\ x + 1 < i + m /\ (x + 1) - i + 1 = y + 1
              /\ y + 1 # m + 1
          BY <4>2
        <5>2. At(d, l, x + 1) = t[(x + 1) - i + 1]
          BY <1>5, <2>1, <5>1
        <5>3. T[y + 1] = t[y + 1]
          BY <1>6, <3>2, <5>1
        <5>4. QED
          BY <5>1, <5>2, <5>3
      <4>3. QED
        BY <4>1, <4>2
    <3>5. next'[T[y]] = T[y + 1]
      BY <1>6
    <3>6. QED
      BY <3>3, <3>4, <3>5
  <2>4. CASE x >= i + m
    <3>1. /\ ~(x < i) /\ ~(x < i + m) /\ ~(x + 1 < i) /\ ~(x + 1 < i + m)
          /\ x - m \in 0..n /\ x - m # i - 1 /\ (x + 1) - m = (x - m) + 1
      BY <1>1, <2>4
    <3>2. At(d, l, x) = At(c, l, x - m)
      BY <1>5, <2>1, <3>1
    <3>3. At(d, l, x + 1) = At(c, l, (x - m) + 1)
      BY <1>5, <2>1, <3>1
    <3>4. QED
      BY <1>7, <3>1, <3>2, <3>3
  <2>5. QED
    BY <1>1, <2>2, <2>3, <2>4
<1>9. ASSUME NEW k \in created, NEW x \in 0..Len(d[k])
      PROVE  next'[At(d, k, x)] = At(d, k, x + 1)
  <2>1. CASE k = l
    BY <1>2, <1>4, <1>8, <2>1
  <2>2. CASE k # l
    <3>1. d[k] = c[k]
      BY <1>1, <1>4, <2>2
    <3>2. At(d, k, x) = At(c, k, x) /\ At(d, k, x + 1) = At(c, k, x + 1)
      BY <3>1 DEF At
    <3>3. QED
      BY <1>7, <2>2, <3>1, <3>2
  <2>3. QED
    BY <2>1, <2>2
<1>10. ASSUME NEW p \in allocated'
       PROVE  \E k \in created : \E x \in 1..Len(d[k]) : p = d[k][x]
  <2>1. CASE \E y \in 1..m : p = t[y]
    <3>1. PICK y \in 1..m : p = t[y]
      BY <2>1
    <3>2. i + y - 1 \in 1..(n + m) /\ ~(i + y - 1 < i) /\ i + y - 1 < i + m
          /\ (i + y - 1) - i + 1 = y
      BY <1>1, <3>1
    <3>3. s[i + y - 1] = p
      BY <3>1, <3>2
    <3> HIDE DEF s
    <3>4. QED
      BY <1>2, <1>4, <3>2, <3>3
  <2>2. CASE p \in allocated
    <3>1. PICK k \in created : \E x \in 1..Len(c[k]) : p = c[k][x]
      BY <2>2 DEF Paths
    <3>2. PICK x \in 1..Len(c[k]) : p = c[k][x]
      BY <3>1
    <3>3. CASE k # l
      BY <1>1, <1>4, <3>2, <3>3
    <3>4. CASE k = l /\ x < i
      <4>1. x \in 1..(n + m) /\ s[x] = p
        BY <1>1, <3>2, <3>4
      <4> HIDE DEF s
      <4>2. QED
        BY <1>2, <1>4, <4>1
    <3>5. CASE k = l /\ ~(x < i)
      <4>1. /\ x + m \in 1..(n + m) /\ ~(x + m < i + m) /\ ~(x + m < i)
            /\ (x + m) - m = x
        BY <1>1, <3>2, <3>5
      <4>2. s[x + m] = p
        BY <3>2, <3>5, <4>1
      <4> HIDE DEF s
      <4>3. QED
        BY <1>2, <1>4, <4>1, <4>2
    <3>6. QED
      BY <3>3, <3>4, <3>5
  <2>3. QED
    BY <1>1, <2>1, <2>2
<1>11. \A k \in List : k \notin created => Len(d[k]) = 0
  BY <1>4 DEF Paths
<1>12. Paths(d)'
  BY <1>1, <1>4, <1>9, <1>10, <1>11 DEF Paths, At, HeadOf, TailOf
<1>13. s = Opened(c[l], i, t, 1, m)
  BY DEF Opened
<1>14. d = [c EXCEPT ![l] = Opened(@, i, t, 1, m)]
  <2> HIDE DEF s
  <2>1. QED
    BY <1>3, <1>13
<1>15. QED
  BY <1>12, <1>14

(* The node at place i of a list is taken out.                             *)
LEMMA RemovePath ==
  ASSUME TypeOK, Mirrored, NEW c, Paths(c),
         NEW l \in created, NEW i \in 1..Len(c[l]),
         next'[At(c, l, i - 1)] = At(c, l, i + 1),
         \A p \in Place : p # At(c, l, i - 1) /\ p # At(c, l, i) =>
                            next'[p] = next[p],
         allocated' = allocated \ {At(c, l, i)},
         created' = created
  PROVE  \E d : Paths(d)' /\ d = [c EXCEPT ![l] = Closed(@, i, 1)]
<1> DEFINE n == Len(c[l])
           s == [x \in 1..(n - 1) |-> IF x < i THEN c[l][x] ELSE c[l][x + 1]]
<1>1. /\ c \in [List -> Seq(Node)] /\ l \in List /\ c[l] \in Seq(Node)
      /\ n \in Nat /\ created \subseteq List /\ i \in 1..n
      /\ n - 1 \in Nat
  BY Places DEF TypeOK, Paths
<1>2. s \in Seq(Node) /\ Len(s) = n - 1
  <2>1. ASSUME NEW x \in 1..(n - 1)
        PROVE  s[x] \in Node
    BY <1>1
  <2>2. s \in [1..(n - 1) -> Node]
    BY <2>1
  <2> HIDE DEF s, n
  <2>3. QED
    BY <1>1, <2>2
<1>3. PICK d : d = [c EXCEPT ![l] = s]
  OBVIOUS
<1>4. /\ d \in [List -> Seq(Node)] /\ d[l] = s
      /\ \A k \in List : k # l => d[k] = c[k]
  <2> HIDE DEF s
  <2>1. QED
    BY <1>1, <1>2, <1>3
<1>5. \A x \in 0..n :
        At(d, l, x) = IF x < i THEN At(c, l, x) ELSE At(c, l, x + 1)
  <2> SUFFICES ASSUME NEW x \in 0..n
               PROVE  At(d, l, x) = IF x < i THEN At(c, l, x)
                                    ELSE At(c, l, x + 1)
    OBVIOUS
  <2>1. CASE x = 0
    BY <1>1, <2>1 DEF At
  <2>2. CASE x = n
    <3>1. ~(x < i) /\ x = (n - 1) + 1 /\ x # 0
      BY <1>1, <2>2
    <3>2. At(d, l, x) = TailOf(l)
      BY <1>2, <1>4, <2>2, <3>1 DEF At
    <3>3. At(c, l, x + 1) = TailOf(l)
      BY <1>1, <2>2, Places
    <3>4. QED
      BY <3>1, <3>2, <3>3
  <2>3. CASE x \in 1..(n - 1)
    <3>1. At(d, l, x) = s[x]
      BY <1>1, <1>2, <1>4, <2>3 DEF At
    <3>2. x < i => At(c, l, x) = c[l][x]
      BY <1>1, <2>3 DEF At
    <3>3. At(c, l, x + 1) = c[l][x + 1]
      BY <1>1, <2>3 DEF At
    <3>4. QED
      BY <2>3, <3>1, <3>2, <3>3
  <2>4. x = 0 \/ x = n \/ x \in 1..(n - 1)
    <3> HIDE DEF n
    <3>1. QED
      BY <1>1
  <2>5. QED
    BY <2>1, <2>2, <2>3, <2>4
<1>6. ASSUME NEW k \in created, NEW x \in 0..Len(c[k]),
             k # l \/ (x # i - 1 /\ x # i)
      PROVE  next'[At(c, k, x)] = At(c, k, x + 1)
  <2>1. k \in List /\ Len(c[k]) \in Nat
    BY <1>1, Places
  <2>2. /\ x \in 0..(Len(c[k]) + 1)
        /\ i - 1 \in 0..(n + 1) /\ i \in 0..(n + 1)
    BY <1>1, <2>1
  <2>3. At(c, k, x) # At(c, l, i - 1) /\ At(c, k, x) # At(c, l, i)
    BY <1>6, <2>2, Apart
  <2>4. next[At(c, k, x)] = At(c, k, x + 1) /\ At(c, k, x) \in Place
    BY <1>1, <2>1, <2>2, Places DEF Paths
  <2>5. QED
    BY <2>3, <2>4
<1>7. ASSUME NEW x \in 0..(n - 1)
      PROVE  next'[At(d, l, x)] = At(d, l, x + 1)
  <2>1. x \in 0..n /\ x + 1 \in 0..n
    BY <1>1
  <2>2. CASE x < i - 1
    <3>1. x # i - 1 /\ x # i /\ x < i /\ x + 1 < i
      BY <1>1, <2>2
    <3>2. QED
      BY <1>5, <1>6, <2>1, <3>1
  <2>3. CASE x = i - 1
    <3>1. x < i /\ ~(x + 1 < i) /\ x + 1 + 1 = i + 1
      BY <1>1, <2>3
    <3>2. At(d, l, x) = At(c, l, i - 1) /\ At(d, l, x + 1) = At(c, l, i + 1)
      BY <1>5, <2>1, <2>3, <3>1
    <3>3. QED
      BY <3>2
  <2>4. CASE x > i - 1
    <3>1. ~(x < i) /\ ~(x + 1 < i) /\ x + 1 # i - 1 /\ x + 1 # i
      BY <1>1, <2>4
    <3>2. At(d, l, x) = At(c, l, x + 1)
          /\ At(d, l, x + 1) = At(c, l, (x + 1) + 1)
      BY <1>5, <2>1, <3>1
    <3>3. QED
      BY <1>6, <2>1, <3>1, <3>2
  <2>5. x < i - 1 \/ x = i - 1 \/ x > i - 1
    BY <1>1
  <2>6. QED
    BY <2>2, <2>3, <2>4, <2>5
<1>8. ASSUME NEW k \in created, NEW x \in 0..Len(d[k])
      PROVE  next'[At(d, k, x)] = At(d, k, x + 1)
  <2>1. CASE k = l
    BY <1>2, <1>4, <1>7, <2>1
  <2>2. CASE k # l
    <3>1. d[k] = c[k]
      BY <1>1, <1>4, <2>2
    <3>2. At(d, k, x) = At(c, k, x) /\ At(d, k, x + 1) = At(c, k, x + 1)
      BY <3>1 DEF At
    <3>3. QED
      BY <1>6, <2>2, <3>1, <3>2
  <2>3. QED
    BY <2>1, <2>2
<1>9. ASSUME NEW p \in allocated'
      PROVE  \E k \in created : \E x \in 1..Len(d[k]) : p = d[k][x]
  <2>1. p \in allocated /\ p # c[l][i]
    BY <1>1, Places
  <2>2. PICK k \in created : \E x \in 1..Len(c[k]) : p = c[k][x]
    BY <2>1 DEF Paths
  <2>3. PICK x \in 1..Len(c[k]) : p = c[k][x]
    BY <2>2
  <2>4. CASE k # l
    BY <1>1, <1>4, <2>3, <2>4
  <2>5. CASE k = l /\ x < i
    <3>1. x \in 1..(n - 1) /\ s[x] = p
      BY <1>1, <2>3, <2>5
    <3> HIDE DEF s
    <3>2. QED
      BY <1>2, <1>4, <3>1
  <2>6. CASE k = l /\ x > i
    <3>1. x - 1 \in 1..(n - 1) /\ ~(x - 1 < i) /\ (x - 1) + 1 = x
      BY <1>1, <2>3, <2>6
    <3>2. s[x - 1] = p
      BY <2>3, <2>6, <3>1
    <3> HIDE DEF s
    <3>3. QED
      BY <1>2, <1>4, <3>1, <3>2
  <2>7. k # l \/ x < i \/ x > i
    BY <1>1, <2>1, <2>3
  <2>8. QED
    BY <2>4, <2>5, <2>6, <2>7
<1>10. \A k \in List : k \notin created => Len(d[k]) = 0
  BY <1>4 DEF Paths
<1>11. Paths(d)'
  BY <1>4, <1>8, <1>9, <1>10 DEF Paths, At, HeadOf, TailOf
<1>12. s = Closed(c[l], i, 1)
  BY DEF Closed
<1>13. d = [c EXCEPT ![l] = Closed(@, i, 1)]
  <2> HIDE DEF s
  <2>1. QED
    BY <1>3, <1>12
<1>14. QED
  BY <1>11, <1>13

\* What a splice that swaps places a to b and places b to e of a list does.
Swaps(c, l, a, b, e) ==
  /\ next'[At(c, l, a - 1)] = At(c, l, b)
  /\ next'[At(c, l, e - 1)] = At(c, l, a)
  /\ next'[At(c, l, b - 1)] = At(c, l, e)
  /\ \A p \in Place :
       p \notin {At(c, l, a - 1), At(c, l, b - 1), At(c, l, e - 1)} =>
         next'[p] = next[p]
  /\ allocated' = allocated
  /\ created' = created

(* The segment between places a and b of a list, and the one between b and *)
(* e, change their places.                                                 *)
LEMMA SwapPath ==
  ASSUME TypeOK, Mirrored, NEW c, Paths(c), NEW l \in created,
         NEW n \in Nat, n = Len(c[l]),
         NEW a \in 1..(n + 1), NEW b \in 1..(n + 1), NEW e \in 1..(n + 1),
         a < b, b < e, Swaps(c, l, a, b, e)
  PROVE  \E d : Paths(d)' /\ d = [c EXCEPT ![l] = Swapped(@, a, b, e)]
<1> DEFINE Old(x) == IF x < a THEN x
                     ELSE IF x < a + e - b THEN x + b - a
                     ELSE IF x < e THEN x - e + b ELSE x
           s == [x \in 1..n |-> c[l][Old(x)]]
<1>1. /\ c \in [List -> Seq(Node)] /\ l \in List /\ c[l] \in Seq(Node)
      /\ created \subseteq List
      /\ allocated' = allocated /\ created' = created
  BY Places DEF TypeOK, Paths, Swaps
<1>2. \A x \in 1..n : Old(x) \in 1..n
  BY <1>1
<1>3. s \in Seq(Node) /\ Len(s) = n
  <2> HIDE DEF Old
  <2>1. \A x \in 1..n : s[x] \in Node
    BY <1>1, <1>2
  <2>2. s \in [1..n -> Node]
    BY <2>1
  <2> HIDE DEF s
  <2>3. QED
    BY <1>1, <2>2
<1>4. PICK d : d = [c EXCEPT ![l] = s]
  OBVIOUS
<1>5. /\ d \in [List -> Seq(Node)] /\ d[l] = s
      /\ \A k \in List : k # l => d[k] = c[k]
  <2> HIDE DEF s
  <2>1. QED
    BY <1>1, <1>3, <1>4
<1>6. \A x \in 0..(n + 1) : At(d, l, x) = At(c, l, Old(x))
  <2> SUFFICES ASSUME NEW x \in 0..(n + 1)
               PROVE  At(d, l, x) = At(c, l, Old(x))
    OBVIOUS
  <2>1. CASE x = 0
    <3>1. Old(0) = 0
      BY <1>1
    <3>2. QED
      BY <2>1, <3>1 DEF At
  <2>2. CASE x = n + 1
    <3>1. Old(n + 1) = n + 1 /\ x # 0
      BY <1>1, <2>2
    <3>2. At(d, l, x) = TailOf(l)
      BY <1>3, <1>5, <2>2, <3>1 DEF At
    <3>3. At(c, l, x) = TailOf(l)
      BY <1>1, <2>2, Places
    <3>4. QED
      BY <2>2, <3>1, <3>2, <3>3
  <2>3. CASE x \in 1..n
    <3>1. At(d, l, x) = s[x]
      BY <1>1, <1>3, <1>5, <2>3 DEF At
    <3>2. At(c, l, Old(x)) = c[l][Old(x)]
      <4> HIDE DEF Old
      <4>1. QED
        BY <1>1, <1>2, <2>3, Places
    <3>3. QED
      BY <2>3, <3>1, <3>2
  <2>4. x = 0 \/ x = n + 1 \/ x \in 1..n
    BY <1>1
  <2>5. QED
    BY <2>1, <2>2, <2>3, <2>4
<1>7. ASSUME NEW k \in created, NEW x \in 0..Len(c[k]),
             k # l \/ (x # a - 1 /\ x # b - 1 /\ x # e - 1)
      PROVE  next'[At(c, k, x)] = At(c, k, x + 1)
  <2>1. k \in List /\ Len(c[k]) \in Nat
    BY <1>1, Places
  <2>2. /\ x \in 0..(Len(c[k]) + 1) /\ a - 1 \in 0..(n + 1)
        /\ b - 1 \in 0..(n + 1) /\ e - 1 \in 0..(n + 1)
    BY <1>1, <2>1
  <2>3. /\ At(c, k, x) # At(c, l, a - 1) /\ At(c, k, x) # At(c, l, b - 1)
        /\ At(c, k, x) # At(c, l, e - 1)
    <3>1. \A y \in 0..(n + 1) :
            At(c, k, x) = At(c, l, y) => k = l /\ x = y
      BY <2>2, Apart
    <3>2. QED
      BY <1>7, <2>2, <3>1
  <2>4. next[At(c, k, x)] = At(c, k, x + 1) /\ At(c, k, x) \in Place
    BY <1>1, <2>1, <2>2, Places DEF Paths
  <2>5. QED
    BY <2>3, <2>4 DEF Swaps
<1>8. ASSUME NEW x \in 0..n
      PROVE  next'[At(d, l, x)] = At(d, l, x + 1)
  <2>1. x \in 0..(n + 1) /\ x + 1 \in 0..(n + 1)
    BY <1>1
  <2>2. At(d, l, x) = At(c, l, Old(x)) /\ At(d, l, x + 1) = At(c, l, Old(x + 1))
    <3> HIDE DEF Old
    <3>1. QED
      BY <1>6, <2>1
  <2>3. CASE x = a - 1
    <3>1. Old(x) = a - 1 /\ Old(x + 1) = b
      BY <1>1, <2>3
    <3> HIDE DEF Old
    <3>2. QED
      BY <2>2, <2>3, <3>1 DEF Swaps
  <2>4. CASE x = a + e - b - 1
    <3>1. Old(x) = e - 1 /\ Old(x + 1) = a
      BY <1>1, <2>4
    <3> HIDE DEF Old
    <3>2. QED
      BY <2>2, <2>4, <3>1 DEF Swaps
  <2>5. CASE x = e - 1
    <3>1. Old(x) = b - 1 /\ Old(x + 1) = e
      BY <1>1, <2>5
    <3> HIDE DEF Old
    <3>2. QED
      BY <2>2, <2>5, <3>1 DEF Swaps
  <2>6. CASE x # a - 1 /\ x # a + e - b - 1 /\ x # e - 1
    <3>1. /\ Old(x + 1) = Old(x) + 1 /\ Old(x) \in 0..n
          /\ Old(x) # a - 1 /\ Old(x) # b - 1 /\ Old(x) # e - 1
      BY <1>1, <2>6
    <3> HIDE DEF Old
    <3>2. QED
      BY <1>7, <2>2, <3>1
  <2>7. QED
    BY <2>3, <2>4, <2>5, <2>6
<1>9. ASSUME NEW k \in created, NEW x \in 0..Len(d[k])
      PROVE  next'[At(d, k, x)] = At(d, k, x + 1)
  <2>1. CASE k = l
    BY <1>3, <1>5, <1>8, <2>1
  <2>2. CASE k # l
    <3>1. d[k] = c[k]
      BY <1>1, <1>5, <2>2
    <3>2. At(d, k, x) = At(c, k, x) /\ At(d, k, x + 1) = At(c, k, x + 1)
      BY <3>1 DEF At
    <3>3. QED
      BY <1>7, <2>2, <3>1, <3>2
  <2>3. QED
    BY <2>1, <2>2
<1>10. ASSUME NEW p \in allocated'
       PROVE  \E k \in created : \E x \in 1..Len(d[k]) : p = d[k][x]
  <2>1. PICK k \in created : \E x \in 1..Len(c[k]) : p = c[k][x]
    BY <1>1 DEF Paths
  <2>2. PICK y \in 1..Len(c[k]) : p = c[k][y]
    BY <2>1
  <2>3. CASE k # l
    BY <1>1, <1>5, <2>2, <2>3
  <2>4. CASE k = l
    <3>1. y \in 1..n
      BY <2>2, <2>4
    <3>2. \E x \in 1..n : Old(x) = y
      <4>1. CASE y < a \/ y >= e
        <5>1. Old(y) = y
          BY <1>1, <3>1, <4>1
        <5>2. QED
          BY <3>1, <5>1
      <4>2. CASE a <= y /\ y < b
        <5>1. y - b + e \in 1..n /\ Old(y - b + e) = y
          BY <1>1, <3>1, <4>2
        <5>2. QED
          BY <5>1
      <4>3. CASE b <= y /\ y < e
        <5>1. y - b + a \in 1..n /\ Old(y - b + a) = y
          BY <1>1, <3>1, <4>3
        <5>2. QED
          BY <5>1
      <4>4. QED
        BY <1>1, <3>1, <4>1, <4>2, <4>3
    <3>3. PICK x \in 1..n : Old(x) = y
      BY <3>2
    <3> HIDE DEF Old
    <3>4. s[x] = p
      BY <2>2, <2>4, <3>3
    <3> HIDE DEF s
    <3>5. QED
      BY <1>3, <1>5, <2>4, <3>4
  <2>5. QED
    BY <2>3, <2>4
<1>11. \A k \in List : k \notin created => Len(d[k]) = 0
  BY <1>5 DEF Paths
<1>12. Paths(d)'
  BY <1>1, <1>5, <1>9, <1>10, <1>11 DEF Paths, At, HeadOf, TailOf
<1>13. s = Swapped(c[l], a, b, e)
  BY DEF Swapped
<1>14. d = [c EXCEPT ![l] = Swapped(@, a, b, e)]
  <2> HIDE DEF s
  <2>1. QED
    BY <1>4, <1>13
<1>15. QED
  BY <1>12, <1>14

\* What a splice of places i to j of list k before place a of list l does.
Splices(c, l, a, k, i, j) ==
  /\ next'[At(c, k, i - 1)] = At(c, k, j)
  /\ next'[At(c, l, a - 1)] = At(c, k, i)
  /\ next'[At(c, k, j - 1)] = At(c, l, a)
  /\ \A p \in Place :
       p \notin {At(c, k, i - 1), At(c, l, a - 1), At(c, k, j - 1)} =>
         next'[p] = next[p]
  /\ allocated' = allocated
  /\ created' = created

(* The m nodes from place i on of a list are put before place a of another *)
(* one.                                                                    *)
LEMMA MovePath ==
  ASSUME TypeOK, Mirrored, NEW c, Paths(c), NEW l \in created,
         NEW k \in created, l # k, NEW n \in Nat, NEW o \in Nat,
         n = Len(c[l]), o = Len(c[k]), NEW a \in 1..(n + 1),
         NEW i \in 1..(o + 1), NEW j \in 1..(o + 1), NEW m \in 1..o,
         j = i + m, Splices(c, l, a, k, i, j)
  PROVE  \E d : /\ Paths(d)'
                /\ d = [c EXCEPT ![l] = Opened(@, a, c[k], i, m),
                                 ![k] = Closed(@, i, m)]
<1>1. /\ c \in [List -> Seq(Node)] /\ l \in List /\ k \in List
      /\ c[l] \in Seq(Node) /\ c[k] \in Seq(Node)
      /\ created \subseteq List
      /\ allocated' = allocated /\ created' = created
  BY Places DEF TypeOK, Paths, Splices
<1> DEFINE s == [x \in 1..(n + m) |->
                   IF x < a THEN c[l][x]
                   ELSE IF x < a + m THEN c[k][x - a + i] ELSE c[l][x - m]]
           r == [x \in 1..(o - m) |-> IF x < i THEN c[k][x] ELSE c[k][x + m]]
<1>2. /\ a \in 1..(n + 1) /\ i \in 1..(o + 1) /\ j \in 1..(o + 1)
      /\ m \in 1..o /\ j = i + m /\ o - m \in Nat /\ n + m \in Nat
  OBVIOUS
<1>3. s \in Seq(Node) /\ Len(s) = n + m
  <2>1. ASSUME NEW x \in 1..(n + m)
        PROVE  s[x] \in Node
    <3>1. CASE x < a
      <4>1. x \in 1..n
        BY <1>1, <3>1
      <4>2. QED
        BY <1>1, <3>1, <4>1
    <3>2. CASE ~(x < a) /\ x < a + m
      <4>1. x - a + i \in 1..o
        BY <1>1, <3>2
      <4>2. QED
        BY <1>1, <3>2, <4>1
    <3>3. CASE ~(x < a + m)
      <4>1. x - m \in 1..n /\ ~(x < a)
        BY <1>2, <3>3
      <4>2. QED
        BY <1>1, <3>3, <4>1
    <3>4. QED
      BY <3>1, <3>2, <3>3
  <2>2. s \in [1..(n + m) -> Node]
    BY <2>1
  <2> HIDE DEF s
  <2>3. QED
    BY <1>2, <2>2, Listed, Zenon
<1>4. r \in Seq(Node) /\ Len(r) = o - m
  <2>1. ASSUME NEW x \in 1..(o - m)
        PROVE  r[x] \in Node
    <3>1. x \in 1..o /\ x + m \in 1..o
      BY <1>2
    <3>2. QED
      BY <1>1, <3>1
  <2>2. r \in [1..(o - m) -> Node]
    BY <2>1
  <2> HIDE DEF r
  <2>3. QED
    BY <1>2, <2>2, Listed, Zenon
<1>5. PICK d : d = [c EXCEPT ![l] = s, ![k] = r]
  OBVIOUS
<1>6. /\ d \in [List -> Seq(Node)] /\ d[l] = s /\ d[k] = r
      /\ \A g \in List : g # l /\ g # k => d[g] = c[g]
  <2> HIDE DEF s, r
  <2>1. QED
    BY <1>1, <1>3, <1>4, <1>5
<1>7. \A x \in 0..(n + m + 1) :
        At(d, l, x) = IF x < a THEN At(c, l, x)
                      ELSE IF x < a + m THEN At(c, k, x - a + i)
                      ELSE At(c, l, x - m)
  <2> SUFFICES ASSUME NEW x \in 0..(n + m + 1)
               PROVE  At(d, l, x) = IF x < a THEN At(c, l, x)
                                    ELSE IF x < a + m THEN At(c, k, x - a + i)
                                    ELSE At(c, l, x - m)
    OBVIOUS
  <2>1. CASE x = 0
    BY <1>1, <2>1 DEF At
  <2>2. CASE x = n + m + 1
    <3>1. ~(x < a) /\ ~(x < a + m) /\ x - m = n + 1 /\ x # 0
      BY <1>2, <2>2, SMTT(30)
    <3>2. At(d, l, x) = TailOf(l)
      <4> HIDE DEF s
      <4>1. QED
        BY <1>3, <1>6, <2>2, <3>1 DEF At
    <3>3. At(c, l, x - m) = TailOf(l)
      BY <1>1, <3>1, Places
    <3>4. QED
      BY <3>1, <3>2, <3>3
  <2>3. CASE x \in 1..(n + m)
    <3>1. At(d, l, x) = s[x]
      <4>1. x # 0 /\ x # n + m + 1
        BY <1>2, <2>3
      <4> HIDE DEF s
      <4>2. QED
        BY <1>3, <1>6, <4>1 DEF At
    <3>2. CASE x < a
      <4>1. x \in 1..n
        BY <1>1, <2>3, <3>2
      <4>2. At(c, l, x) = c[l][x]
        BY <1>1, <4>1, Places
      <4>3. QED
        BY <2>3, <3>1, <3>2, <4>2
    <3>3. CASE ~(x < a) /\ x < a + m
      <4>1. x - a + i \in 1..o
        BY <1>1, <2>3, <3>3
      <4>2. At(c, k, x - a + i) = c[k][x - a + i]
        BY <1>1, <4>1, Places
      <4>3. QED
        BY <2>3, <3>1, <3>3, <4>2
    <3>4. CASE ~(x < a + m)
      <4>1. x - m \in 1..n /\ ~(x < a)
        BY <1>2, <2>3, <3>4
      <4>2. At(c, l, x - m) = c[l][x - m]
        BY <1>1, <4>1, Places
      <4>3. QED
        BY <2>3, <3>1, <3>4, <4>1, <4>2
    <3>5. QED
      BY <3>2, <3>3, <3>4
  <2>4. x = 0 \/ x = n + m + 1 \/ x \in 1..(n + m)
    BY <1>2, SMTT(30)
  <2>5. QED
    BY <2>1, <2>2, <2>3, <2>4
<1>8. \A x \in 0..(o - m + 1) :
        At(d, k, x) = IF x < i THEN At(c, k, x) ELSE At(c, k, x + m)
  <2> SUFFICES ASSUME NEW x \in 0..(o - m + 1)
               PROVE  At(d, k, x) = IF x < i THEN At(c, k, x)
                                    ELSE At(c, k, x + m)
    OBVIOUS
  <2>1. CASE x = 0
    BY <1>1, <2>1 DEF At
  <2>2. CASE x = o - m + 1
    <3>1. ~(x < i) /\ x + m = o + 1 /\ x # 0
      BY <1>1, <2>2
    <3>2. At(d, k, x) = TailOf(k)
      <4> HIDE DEF r
      <4>1. QED
        BY <1>4, <1>6, <2>2, <3>1 DEF At
    <3>3. At(c, k, x + m) = TailOf(k)
      BY <1>1, <3>1, Places
    <3>4. QED
      BY <3>1, <3>2, <3>3
  <2>3. CASE x \in 1..(o - m)
    <3>1. At(d, k, x) = r[x]
      <4>1. x # 0 /\ x # o - m + 1
        BY <1>2, <2>3
      <4> HIDE DEF r
      <4>2. QED
        BY <1>4, <1>6, <4>1 DEF At
    <3>2. x \in 1..o /\ x + m \in 1..o
      BY <1>2, <2>3
    <3>3. At(c, k, x) = c[k][x] /\ At(c, k, x + m) = c[k][x + m]
      BY <1>1, <3>2, Places
    <3>4. QED
      BY <2>3, <3>1, <3>3
  <2>4. x = 0 \/ x = o - m + 1 \/ x \in 1..(o - m)
    BY <1>2
  <2>5. QED
    BY <2>1, <2>2, <2>3, <2>4
<1>9. ASSUME NEW g \in created, NEW x \in 0..Len(c[g]),
             g # l \/ x # a - 1, g # k \/ (x # i - 1 /\ x # j - 1)
      PROVE  next'[At(c, g, x)] = At(c, g, x + 1)
  <2>1. g \in List /\ Len(c[g]) \in Nat
    BY <1>1, Places
  <2>2. /\ x \in 0..(Len(c[g]) + 1) /\ a - 1 \in 0..(Len(c[l]) + 1)
        /\ i - 1 \in 0..(Len(c[k]) + 1) /\ j - 1 \in 0..(Len(c[k]) + 1)
    BY <1>1, <2>1
  <2>3. /\ At(c, g, x) # At(c, l, a - 1) /\ At(c, g, x) # At(c, k, i - 1)
        /\ At(c, g, x) # At(c, k, j - 1)
    <3>1. \A h \in created : \A y \in 0..(Len(c[h]) + 1) :
            At(c, g, x) = At(c, h, y) => g = h /\ x = y
      <4>1. \A f, h \in created :
            \A z \in 0..(Len(c[f]) + 1), y \in 0..(Len(c[h]) + 1) :
              At(c, f, z) = At(c, h, y) => f = h /\ z = y
        BY Apart
      <4>2. \A h \in created :
            \A z \in 0..(Len(c[g]) + 1), y \in 0..(Len(c[h]) + 1) :
              At(c, g, z) = At(c, h, y) => g = h /\ z = y
        BY <1>9, <4>1, Zenon
      <4>3. QED
        BY <2>2, <4>2, Zenon
    <3>2. At(c, g, x) = At(c, l, a - 1) => g = l /\ x = a - 1
      BY <2>2, <3>1
    <3>3. At(c, g, x) = At(c, k, i - 1) => g = k /\ x = i - 1
      BY <2>2, <3>1
    <3>4. At(c, g, x) = At(c, k, j - 1) => g = k /\ x = j - 1
      BY <2>2, <3>1
    <3>5. QED
      BY <1>9, <3>2, <3>3, <3>4
  <2>4. next[At(c, g, x)] = At(c, g, x + 1) /\ At(c, g, x) \in Place
    BY <1>1, <2>1, <2>2, Places DEF Paths
  <2>5. QED
    BY <2>3, <2>4 DEF Splices
<1>10. ASSUME NEW x \in 0..(n + m)
       PROVE  next'[At(d, l, x)] = At(d, l, x + 1)
  <2>1. x \in 0..(n + m + 1) /\ x + 1 \in 0..(n + m + 1)
    BY <1>2
  <2>2. CASE x < a - 1
    <3>1. x \in 0..n /\ x # a - 1 /\ x < a /\ x + 1 < a
      BY <1>1, <2>2
    <3>2. At(d, l, x) = At(c, l, x) /\ At(d, l, x + 1) = At(c, l, x + 1)
      BY <1>7, <2>1, <3>1
    <3>3. QED
      BY <1>9, <3>1, <3>2
  <2>3. CASE x = a - 1
    <3>1. x < a /\ ~(x + 1 < a) /\ x + 1 < a + m /\ x + 1 - a + i = i
      BY <1>2, <2>3
    <3>2. At(d, l, x) = At(c, l, a - 1) /\ At(d, l, x + 1) = At(c, k, i)
      BY <1>7, <2>1, <2>3, <3>1
    <3>3. QED
      BY <3>2 DEF Splices
  <2>4. CASE x >= a /\ x < a + m - 1
    <3>1. /\ ~(x < a) /\ x < a + m /\ ~(x + 1 < a) /\ x + 1 < a + m
          /\ (x + 1) - a + i = (x - a + i) + 1
          /\ x - a + i \in 0..o /\ x - a + i # i - 1 /\ x - a + i # j - 1
      BY <1>1, <2>4
    <3>2. /\ At(d, l, x) = At(c, k, x - a + i)
          /\ At(d, l, x + 1) = At(c, k, (x - a + i) + 1)
      BY <1>7, <2>1, <3>1
    <3>3. QED
      BY <1>9, <3>1, <3>2
  <2>5. CASE x = a + m - 1
    <3>1. /\ ~(x < a) /\ x < a + m /\ ~(x + 1 < a) /\ ~(x + 1 < a + m)
          /\ x - a + i = j - 1 /\ (x + 1) - m = a
      BY <1>1, <2>5
    <3>2. /\ At(d, l, x) = At(c, k, j - 1)
          /\ At(d, l, x + 1) = At(c, l, a)
      BY <1>7, <2>1, <3>1
    <3>3. QED
      BY <3>2 DEF Splices
  <2>6. CASE x >= a + m
    <3>1. /\ ~(x < a) /\ ~(x < a + m) /\ ~(x + 1 < a) /\ ~(x + 1 < a + m)
          /\ x - m \in 0..n /\ x - m # a - 1 /\ (x + 1) - m = (x - m) + 1
      BY <1>2, <2>6
    <3>2. At(d, l, x) = At(c, l, x - m)
          /\ At(d, l, x + 1) = At(c, l, (x - m) + 1)
      BY <1>7, <2>1, <3>1
    <3>3. QED
      BY <1>9, <3>1, <3>2
  <2>7. \/ x < a - 1 \/ x = a - 1 \/ (x >= a /\ x < a + m - 1)
        \/ x = a + m - 1 \/ x >= a + m
    BY <1>2
  <2>8. QED
    BY <2>2, <2>3, <2>4, <2>5, <2>6, <2>7
<1>11. ASSUME NEW x \in 0..(o - m)
       PROVE  next'[At(d, k, x)] = At(d, k, x + 1)
  <2>1. x \in 0..(o - m + 1) /\ x + 1 \in 0..(o - m + 1)
    BY <1>2
  <2>2. CASE x < i - 1
    <3>1. x \in 0..o /\ x # i - 1 /\ x # j - 1 /\ x < i /\ x + 1 < i
      BY <1>1, <2>2
    <3>2. At(d, k, x) = At(c, k, x) /\ At(d, k, x + 1) = At(c, k, x + 1)
      BY <1>8, <2>1, <3>1
    <3>3. QED
      BY <1>9, <3>1, <3>2
  <2>3. CASE x = i - 1
    <3>1. x < i /\ ~(x + 1 < i) /\ x + 1 + m = j
      BY <1>1, <2>3
    <3>2. At(d, k, x) = At(c, k, i - 1) /\ At(d, k, x + 1) = At(c, k, j)
      BY <1>8, <2>1, <2>3, <3>1
    <3>3. QED
      BY <3>2 DEF Splices
  <2>4. CASE x > i - 1
    <3>1. /\ ~(x < i) /\ ~(x + 1 < i) /\ x + m # i - 1 /\ x + m # j - 1
          /\ x + m \in 0..o /\ (x + 1) + m = (x + m) + 1
      BY <1>1, <2>4
    <3>2. At(d, k, x) = At(c, k, x + m)
          /\ At(d, k, x + 1) = At(c, k, (x + m) + 1)
      BY <1>8, <2>1, <3>1
    <3>3. QED
      BY <1>9, <3>1, <3>2
  <2>5. x < i - 1 \/ x = i - 1 \/ x > i - 1
    BY <1>1
  <2>6. QED
    BY <2>2, <2>3, <2>4, <2>5
<1>12. ASSUME NEW g \in created, NEW x \in 0..Len(d[g])
       PROVE  next'[At(d, g, x)] = At(d, g, x + 1)
  <2>1. CASE g = l
    <3> HIDE DEF s, r
    <3>1. QED
      BY <1>3, <1>6, <1>10, <2>1
  <2>2. CASE g = k
    <3> HIDE DEF s, r
    <3>1. QED
      BY <1>4, <1>6, <1>11, <2>2
  <2>3. CASE g # l /\ g # k
    <3>1. d[g] = c[g]
      BY <1>1, <1>6, <2>3
    <3>2. At(d, g, x) = At(c, g, x) /\ At(d, g, x + 1) = At(c, g, x + 1)
      BY <3>1 DEF At
    <3>3. QED
      BY <1>9, <2>3, <3>1, <3>2
  <2>4. QED
    BY <2>1, <2>2, <2>3
<1>13. ASSUME NEW p \in allocated'
       PROVE  \E g \in created : \E x \in 1..Len(d[g]) : p = d[g][x]
  <2>1. PICK g \in created : \E x \in 1..Len(c[g]) : p = c[g][x]
    BY <1>1 DEF Paths
  <2>2. PICK y \in 1..Len(c[g]) : p = c[g][y]
    BY <2>1
  <2>3. CASE g # l /\ g # k
    BY <1>1, <1>6, <2>2, <2>3
  <2>4. CASE g = l
    <3>1. y \in 1..n
      BY <2>2, <2>4
    <3>2. \E x \in 1..(n + m) : s[x] = p
      <4>1. CASE y < a
        <5>1. y \in 1..(n + m)
          BY <1>2, <2>2, <2>4
        <5>2. s[y] = p
          BY <2>2, <2>4, <4>1, <5>1
        <5> HIDE DEF s
        <5>3. QED
          BY <5>1, <5>2
      <4>2. CASE y >= a
        <5>1. /\ y + m \in 1..(n + m) /\ ~(y + m < a) /\ ~(y + m < a + m)
              /\ (y + m) - m = y
          BY <1>2, <2>2, <2>4, <4>2
        <5>2. s[y + m] = p
          BY <2>2, <2>4, <5>1
        <5> HIDE DEF s
        <5>3. QED
          BY <5>1, <5>2
      <4>3. y < a \/ y >= a
        BY <3>1
      <4> HIDE DEF s
      <4>4. QED
        BY <4>1, <4>2, <4>3
    <3> HIDE DEF s
    <3>3. QED
      BY <1>3, <1>6, <2>4, <3>2
  <2>5. CASE g = k
    <3>1. y \in 1..o
      BY <2>2, <2>5
    <3>2. CASE y < i
      <4>1. y \in 1..(o - m)
        BY <1>1, <3>1, <3>2
      <4>2. r[y] = p
        BY <2>2, <2>5, <3>2, <4>1
      <4> HIDE DEF r
      <4>3. QED
        BY <1>4, <1>6, <2>5, <4>1, <4>2
    <3>3. CASE i <= y /\ y < j
      <4>1. /\ y - i + a \in 1..(n + m) /\ ~(y - i + a < a)
            /\ y - i + a < a + m /\ (y - i + a) - a + i = y
        BY <1>1, <3>1, <3>3
      <4>2. s[y - i + a] = p
        BY <2>2, <2>5, <4>1
      <4> HIDE DEF s
      <4>3. QED
        BY <1>3, <1>6, <4>1, <4>2
    <3>4. CASE j <= y
      <4>1. /\ y - m \in 1..(o - m) /\ ~(y - m < i) /\ (y - m) + m = y
        BY <1>1, <3>1, <3>4
      <4>2. r[y - m] = p
        BY <2>2, <2>5, <4>1
      <4> HIDE DEF r
      <4>3. QED
        BY <1>4, <1>6, <2>5, <4>1, <4>2
    <3>5. QED
      BY <1>1, <3>1, <3>2, <3>3, <3>4
  <2>6. QED
    BY <2>3, <2>4, <2>5
<1>14. \A g \in List : g \notin created => Len(d[g]) = 0
  BY <1>6 DEF Paths
<1>15. Paths(d)'
  BY <1>1, <1>6, <1>12, <1>13, <1>14 DEF Paths, At, HeadOf, TailOf
<1>16. s = Opened(c[l], a, c[k], i, m) /\ r = Closed(c[k], i, m)
  BY DEF Opened, Closed
<1>17. d = [c EXCEPT ![l] = Opened(@, a, c[k], i, m), ![k] = Closed(@, i, m)]
  <2> HIDE DEF s, r
  <2>1. QED
    BY <1>5, <1>16
<1>18. QED
  BY <1>15, <1>17

-----------------------------------------------------------------------------
(* What DListMultiFind finds, a recursive function like a walk.            *)

\* The places of the values of t that match.
Hits(t, match) == {x \in 1..Len(t) : t[x] \in match}

\* f is a function that Found may choose.
Finding(f, s, match) ==
  f = [i \in 0..Len(s) |-> IF i = 0 THEN << >>
                           ELSE IF data[s[i]] \in match
                                THEN Append(f[i - 1], s[i]) ELSE f[i - 1]]

(* What is found is what is picked at the places that match.               *)
LEMMA FoundPicks ==
  ASSUME NEW s, Len(s) \in Nat, NEW match
  PROVE  \E f : /\ Picks(f, s, Hits(Mapped(s, data), match), Len(s))
                /\ Found(s, match) = f[Len(s)]
<1> DEFINE H == Hits(Mapped(s, data), match)
<1>1. \A i \in 1..Len(s) : i \in H <=> data[s[i]] \in match
  <2>1. PICK t : t = Mapped(s, data)
    OBVIOUS
  <2>2. Len(t) = Len(s) /\ \A i \in 1..Len(s) : t[i] = data[s[i]]
    BY <2>1 DEF Mapped
  <2>3. QED
    BY <2>1, <2>2 DEF Hits
<1>2. \A i \in 0..Len(s) : i # 0 => i \in 1..Len(s)
  OBVIOUS
<1> HIDE DEF H
<1>3. ASSUME NEW f
      PROVE  Finding(f, s, match) <=> Picks(f, s, H, Len(s))
  <2>1. \A i \in 0..Len(s) :
          (IF i = 0 THEN << >>
           ELSE IF data[s[i]] \in match
                THEN Append(f[i - 1], s[i]) ELSE f[i - 1])
          = (IF i = 0 THEN << >>
             ELSE IF i \in H THEN Append(f[i - 1], s[i]) ELSE f[i - 1])
    BY <1>1, <1>2
  <2>2. [i \in 0..Len(s) |->
           IF i = 0 THEN << >>
           ELSE IF data[s[i]] \in match
                THEN Append(f[i - 1], s[i]) ELSE f[i - 1]]
          = [i \in 0..Len(s) |->
               IF i = 0 THEN << >>
               ELSE IF i \in H THEN Append(f[i - 1], s[i]) ELSE f[i - 1]]
    BY <2>1, Zenon
  <2>3. QED
    BY <2>2 DEF Finding, Picks
<1> DEFINE g == CHOOSE f : Finding(f, s, match)
<1>4. Finding(g, s, match)
  <2>1. \E f : Picks(f, s, H, Len(s))
    BY PicksExists
  <2>2. \E f : Finding(f, s, match)
    BY <1>3, <2>1
  <2>3. QED
    BY <2>2
<1>5. Found(s, match) = g[Len(s)]
  BY DEF Found, Finding
<1> HIDE DEF g
<1>6. Picks(g, s, H, Len(s))
  BY <1>3, <1>4
<1>7. QED
  BY <1>5, <1>6 DEF H

(* What is found are nodes.                                                *)
LEMMA FoundTyped ==
  ASSUME NEW s \in Seq(Node), NEW match
  PROVE  Found(s, match) \in Seq(Node)
<1>1. Len(s) \in Nat /\ Len(s) \in 0..Len(s)
  OBVIOUS
<1>2. PICK f : /\ Picks(f, s, Hits(Mapped(s, data), match), Len(s))
               /\ Found(s, match) = f[Len(s)]
  BY <1>1, FoundPicks
<1>3. \A m \in 0..Len(s) : f[m] \in Seq(Node)
  BY <1>2, PicksTyped
<1>4. QED
  BY <1>1, <1>2, <1>3

\* The node before the end of a list, the new nodes, and the end.
Ending(l, new) ==
  [x \in 0..(Len(new) + 1) |-> IF x = 0 THEN prev[TailOf(l)]
                               ELSE IF x = Len(new) + 1 THEN TailOf(l)
                               ELSE new[x]]

\* These places are told from each other, and the new ones are new.
IsApart(T, l, new) ==
  /\ T \in [0..(Len(new) + 1) -> Place]
  /\ \A x, y \in 0..(Len(new) + 1) : T[x] = T[y] => x = y
  /\ T[0] = prev[TailOf(l)] /\ T[Len(new) + 1] = TailOf(l)
  /\ TailOf(l) \in HasPrev /\ T[0] \in HasNext
  /\ \A x \in 1..Len(new) : /\ T[x] = new[x] /\ T[x] \in Free
                            /\ T[x] \notin HasNext
                            /\ T[x] \notin HasPrev

(* New nodes are told from each other and from the places around them.     *)
LEMMA EndingApart ==
  ASSUME TypeOK, Mirrored, NEW l \in created, NEW new \in Seq(Free),
         \A x, y \in 1..Len(new) : new[x] = new[y] => x = y,
         NEW T, T = Ending(l, new)
  PROVE  IsApart(T, l, new)
<1> PICK n \in Nat : n = Len(new)
  OBVIOUS
<1>1. l \in List /\ TailOf(l) \in HasPrev
  BY DEF TypeOK, HasPrev
<1>2. prev[TailOf(l)] \in HasNext /\ HasNext \subseteq Place
      /\ HasPrev \subseteq Place
  BY <1>1, Pointers
<1>3. /\ T[0] = prev[TailOf(l)] /\ T[n + 1] = TailOf(l)
      /\ \A x \in 1..n : T[x] = new[x]
      /\ DOMAIN T = 0..(n + 1)
      /\ T = [x \in 0..(n + 1) |-> T[x]]
  BY DEF Ending
<1>4. ASSUME NEW x \in 1..n
      PROVE  /\ T[x] \in Free /\ T[x] \in Place /\ T[x] # TailOf(l)
             /\ T[x] \notin HasNext /\ T[x] \notin HasPrev
  <2>1. T[x] \in Free
    <3>1. T[x] = new[x] /\ x \in 1..Len(new)
      BY <1>3
    <3>2. QED
      BY <3>1
  <2>2. T[x] \in Node /\ T[x] \notin allocated
    BY <2>1 DEF Free
  <2>3. QED
    BY <1>1, <2>1, <2>2, Dummies DEF HasNext, HasPrev, TypeOK
<1>5. TailOf(l) \notin HasNext
  BY <1>1, Dummies DEF HasNext, TypeOK
<1>6. \A x \in 0..(n + 1) : x = 0 \/ x = n + 1 \/ x \in 1..n
  OBVIOUS
<1>7. \A x \in 0..(n + 1) : T[x] \in Place
  BY <1>1, <1>2, <1>3, <1>4, <1>6
<1>8. ASSUME NEW x \in 0..(n + 1), NEW y \in 0..(n + 1), T[x] = T[y]
      PROVE  x = y
  <2>1. \A z \in 1..n : T[z] # T[0] /\ T[z] # T[n + 1]
    BY <1>2, <1>3, <1>4
  <2>2. T[0] # T[n + 1]
    BY <1>2, <1>3, <1>5
  <2>3. x \in 1..n /\ y \in 1..n => x = y
    BY <1>3, <1>8
  <2>4. QED
    BY <1>6, <1>8, <2>1, <2>2, <2>3
<1>9. T \in [0..(n + 1) -> Place]
  BY <1>3, <1>7
<1>10. QED
  BY <1>1, <1>2, <1>3, <1>4, <1>8, <1>9 DEF IsApart

\* What a call that puts new nodes there does.
Extends(l, new) ==
  LET T == Ending(l, new) IN
  /\ \A x \in 0..Len(new) : next'[T[x]] = T[x + 1]
  /\ \A x \in 1..(Len(new) + 1) : prev'[T[x]] = T[x - 1]
  /\ \A p \in Place : (\A x \in 0..Len(new) : p # T[x]) => next'[p] = next[p]
  /\ \A p \in Place : (\A x \in 1..(Len(new) + 1) : p # T[x]) =>
                       prev'[p] = prev[p]
  /\ next' = [p \in Place |-> next'[p]]
  /\ prev' = [p \in Place |-> prev'[p]]
  /\ data' \in [Node -> Value \cup {NULL}]
  /\ allocated' = allocated \cup {new[x] : x \in 1..Len(new)}
  /\ created' = created

\* The new nodes get the data of the nodes found, or of the first of them.
Copies(new, found) ==
  /\ Len(new) <= Len(found)
  /\ \A x \in 1..Len(new) : data'[new[x]] = data[found[x]]
  /\ \A n \in Node : (\A x \in 1..Len(new) : n # new[x]) => data'[n] = data[n]

(* The values found are put into new nodes behind the last of a list.      *)
LEMMA MultiFinds ==
  ASSUME TypeOK, Mirrored, NEW l \in created,
         NEW segment \in Seq(Node), NEW match, NEW new \in Seq(Free),
         \A x, y \in 1..Len(new) : new[x] = new[y] => x = y,
         DListMultiFind(l, segment, match, new)
  PROVE  Extends(l, new) /\ Copies(new, Found(segment, match))
<1> PICK T : T = Ending(l, new)
  OBVIOUS
<1> PICK n \in Nat : n = Len(new)
  OBVIOUS
<1> DEFINE chain == <<prev[TailOf(l)]>> \o new \o <<TailOf(l)>>
           Where(p) == CHOOSE i \in DOMAIN chain : chain[i] = p
           found == Found(segment, match)
<1>1. /\ Len(new) <= Len(found)
      /\ next' = [p \in Place |-> IF p \in ToSet(chain) \ {TailOf(l)}
                                  THEN chain[Where(p) + 1] ELSE next[p]]
      /\ prev' = [p \in Place |->
                    IF p \in ToSet(chain) \ {prev[TailOf(l)]}
                    THEN chain[Where(p) - 1] ELSE prev[p]]
      /\ data' = [m \in Node |->
                    IF m \in ToSet(new) THEN data[found[Where(m) - 1]]
                    ELSE data[m]]
      /\ allocated' = allocated \cup ToSet(new)
      /\ created' = created
  BY DEF DListMultiFind
<1>2. /\ T \in [0..(n + 1) -> Place]
      /\ \A x, y \in 0..(n + 1) : T[x] = T[y] => x = y
      /\ T[0] = prev[TailOf(l)] /\ T[n + 1] = TailOf(l)
      /\ \A x \in 1..n : T[x] = new[x]
  <2>1. IsApart(T, l, new)
    BY EndingApart
  <2>2. QED
    BY <2>1 DEF IsApart
<1>3. /\ DOMAIN chain = 1..(n + 2)
      /\ \A x \in 0..(n + 1) : chain[x + 1] = T[x]
  <2>1. DOMAIN chain = 1..(n + 2)
    OBVIOUS
  <2>2. chain[1] = T[0] /\ chain[n + 2] = T[n + 1]
    BY <1>2
  <2>3. \A x \in 1..n : chain[x + 1] = T[x]
    BY <1>2
  <2> HIDE DEF chain
  <2>4. ASSUME NEW x \in 0..(n + 1)
        PROVE  chain[x + 1] = T[x]
    <3>1. CASE x = 0
      BY <2>2, <3>1
    <3>2. CASE x = n + 1
      BY <2>2, <3>2
    <3>3. CASE x \in 1..n
      BY <2>3, <3>3
    <3>4. QED
      BY <3>1, <3>2, <3>3
  <2>5. QED
    BY <2>1, <2>4
<1> HIDE DEF chain
<1>4. \A x \in 0..(n + 1) : Where(T[x]) = x + 1
  BY <1>2, <1>3
<1>5. ToSet(chain) = {T[x] : x \in 0..(n + 1)}
  <2>1. ToSet(chain) = {chain[i] : i \in 1..(n + 2)}
    BY <1>3 DEF ToSet
  <2>2. \A x \in 0..(n + 1) : x + 1 \in 1..(n + 2)
    OBVIOUS
  <2>3. \A i \in 1..(n + 2) : i - 1 \in 0..(n + 1) /\ (i - 1) + 1 = i
    OBVIOUS
  <2>4. \A i \in 1..(n + 2) : chain[i] = T[i - 1]
    BY <1>3, <2>3
  <2>5. ASSUME NEW z \in ToSet(chain)
        PROVE  z \in {T[x] : x \in 0..(n + 1)}
    <3>1. PICK i \in 1..(n + 2) : z = chain[i]
      BY <2>1
    <3>2. i - 1 \in 0..(n + 1) /\ z = T[i - 1]
      BY <2>3, <2>4, <3>1
    <3>3. QED
      BY <3>2
  <2>6. ASSUME NEW x \in 0..(n + 1)
        PROVE  T[x] \in ToSet(chain)
    <3>1. T[x] = chain[x + 1] /\ x + 1 \in 1..(n + 2)
      BY <1>3, <2>2
    <3>2. QED
      BY <2>1, <3>1
  <2>7. QED
    BY <2>5, <2>6
<1> HIDE DEF Where
<1>6. ASSUME NEW x \in 0..n
      PROVE  next'[T[x]] = T[x + 1]
  <2>1. /\ x \in 0..(n + 1) /\ x # n + 1 /\ n + 1 \in 0..(n + 1)
        /\ x + 1 \in 0..(n + 1)
    OBVIOUS
  <2>2. T[x] \in ToSet(chain) \ {TailOf(l)} /\ T[x] \in Place
    BY <1>2, <1>5, <2>1
  <2>3. next'[T[x]] = chain[Where(T[x]) + 1]
    BY <1>1, <2>2
  <2>4. chain[(x + 1) + 1] = T[x + 1]
    BY <1>3, <2>1
  <2>5. QED
    BY <1>4, <2>1, <2>3, <2>4
<1>7. ASSUME NEW x \in 1..(n + 1)
      PROVE  prev'[T[x]] = T[x - 1]
  <2>1. /\ x \in 0..(n + 1) /\ x # 0 /\ 0 \in 0..(n + 1)
        /\ x - 1 \in 0..(n + 1) /\ (x - 1) + 1 = (x + 1) - 1
    OBVIOUS
  <2>2. T[x] \in ToSet(chain) \ {prev[TailOf(l)]} /\ T[x] \in Place
    BY <1>2, <1>5, <2>1
  <2>3. prev'[T[x]] = chain[Where(T[x]) - 1]
    BY <1>1, <2>2
  <2>4. chain[(x - 1) + 1] = T[x - 1]
    BY <1>3, <2>1
  <2>5. QED
    BY <1>4, <2>1, <2>3, <2>4
<1>8. ASSUME NEW p \in Place, \A x \in 0..n : p # T[x]
      PROVE  next'[p] = next[p]
  BY <1>1, <1>2, <1>5, <1>8
<1>9. ASSUME NEW p \in Place, \A x \in 1..(n + 1) : p # T[x]
      PROVE  prev'[p] = prev[p]
  BY <1>1, <1>2, <1>5, <1>9
<1>10. ToSet(new) = {new[x] : x \in 1..n}
  BY DEF ToSet
<1>11. found \in Seq(Node) /\ Len(found) \in Nat
  BY FoundTyped
<1> HIDE DEF found
<1>12. \A x \in 1..n : Where(new[x]) - 1 = x
  <2> SUFFICES ASSUME NEW x \in 1..n
               PROVE  Where(new[x]) - 1 = x
    OBVIOUS
  <2>1. x \in 0..(n + 1) /\ T[x] = new[x] /\ (x + 1) - 1 = x
    BY <1>2
  <2>2. Where(T[x]) = x + 1
    BY <1>4, <2>1
  <2>3. QED
    BY <2>1, <2>2
<1>13. \A x \in 1..n : x \in 1..Len(found) /\ found[x] \in Node
  <2> SUFFICES ASSUME NEW x \in 1..n
               PROVE  x \in 1..Len(found) /\ found[x] \in Node
    OBVIOUS
  <2>1. x \in 1..Len(found)
    BY <1>1, <1>11
  <2>2. QED
    BY <1>11, <2>1
<1>14. data' \in [Node -> Value \cup {NULL}]
  <2>1. ASSUME NEW x \in 1..n
        PROVE  data[found[Where(new[x]) - 1]] \in Value \cup {NULL}
    BY <1>12, <1>13 DEF TypeOK
  <2>2. \A m \in Node : (IF m \in ToSet(new) THEN data[found[Where(m) - 1]]
                        ELSE data[m]) \in Value \cup {NULL}
    BY <1>10, <2>1 DEF TypeOK
  <2>3. QED
    BY <1>1, <2>2, Zenon
<1>15. Copies(new, found)
  <2>1. ASSUME NEW x \in 1..n
        PROVE  data'[new[x]] = data[found[x]]
    <3>1. new[x] \in ToSet(new) /\ new[x] \in Node
      <4>1. x \in 1..Len(new)
        OBVIOUS
      <4>2. new[x] \in Free
        BY <4>1, ElementIn, Zenon
      <4>3. QED
        BY <1>10, <4>2 DEF Free
    <3>2. data'[new[x]] = data[found[Where(new[x]) - 1]]
      BY <1>1, <3>1
    <3>3. QED
      BY <1>12, <3>2
  <2>2. ASSUME NEW m \in Node, \A x \in 1..n : m # new[x]
        PROVE  data'[m] = data[m]
    BY <1>1, <1>10, <2>2
  <2>3. QED
    BY <1>1, <2>1, <2>2 DEF Copies
<1>16. next' = [p \in Place |-> next'[p]] /\ prev' = [p \in Place |-> prev'[p]]
  BY <1>1
<1>17. Extends(l, new)
  BY <1>1, <1>6, <1>7, <1>8, <1>9, <1>10, <1>14, <1>16 DEF Extends
<1>18. QED
  BY <1>15, <1>17 DEF found

(* New nodes behind the last one keep the pointers in order.               *)
LEMMA MultiFindRewires ==
  ASSUME TypeOK, Mirrored, NEW l \in created,
         NEW segment \in Seq(Node), NEW match, NEW new \in Seq(Free),
         \A x, y \in 1..Len(new) : new[x] = new[y] => x = y,
         DListMultiFind(l, segment, match, new)
  PROVE  TypeOK' /\ Mirrored'
<1> PICK T : T = Ending(l, new)
  OBVIOUS
<1> DEFINE n == Len(new)
           F == {new[x] : x \in 1..n}
           N == HasNext \cup F
           P == HasPrev \cup F
<1>1. /\ T \in [0..(n + 1) -> Place]
      /\ \A x, y \in 0..(n + 1) : T[x] = T[y] => x = y
      /\ T[0] = prev[TailOf(l)] /\ T[n + 1] = TailOf(l)
      /\ TailOf(l) \in HasPrev /\ T[0] \in HasNext
      /\ \A x \in 1..n : /\ T[x] = new[x] /\ T[x] \in Free
                         /\ T[x] \notin HasNext
                         /\ T[x] \notin HasPrev
  <2>1. IsApart(T, l, new)
    BY EndingApart
  <2>2. QED
    BY <2>1 DEF IsApart
<1>2. /\ \A x \in 0..n : next'[T[x]] = T[x + 1]
      /\ \A x \in 1..(n + 1) : prev'[T[x]] = T[x - 1]
      /\ \A p \in Place : (\A x \in 0..n : p # T[x]) => next'[p] = next[p]
      /\ \A p \in Place : (\A x \in 1..(n + 1) : p # T[x]) =>
                           prev'[p] = prev[p]
      /\ next' = [p \in Place |-> next'[p]]
      /\ prev' = [p \in Place |-> prev'[p]]
      /\ data' \in [Node -> Value \cup {NULL}]
      /\ allocated' = allocated \cup F /\ created' = created
  <2>1. Extends(l, new)
    BY MultiFinds
  <2>2. QED
    BY <2>1 DEF Extends
<1>3. F = {T[x] : x \in 1..n} /\ F \subseteq Node /\ F \subseteq Place
  <2>1. \A x \in 1..n : T[x] = new[x]
    BY <1>1
  <2>2. F = {T[x] : x \in 1..n}
    <3>1. \A z : z \in F <=> \E x \in 1..n : z = new[x]
      OBVIOUS
    <3>2. \A z : z \in F <=> \E x \in 1..n : z = T[x]
      <4> HIDE DEF F
      <4>1. QED
        BY <2>1, <3>1
    <3> HIDE DEF F
    <3>3. QED
      BY <3>2
  <2>3. \A x \in 1..n : T[x] \in Node
    BY <1>1 DEF Free
  <2> HIDE DEF F
  <2>4. F \subseteq Node
    BY <2>2, <2>3
  <2>5. QED
    BY <2>2, <2>4, Dummies
<1>4. /\ N = HasNext' /\ P = HasPrev'
      /\ allocated' \subseteq Node /\ created' \subseteq List
  <2> HIDE DEF F
  <2>1. QED
    BY <1>2, <1>3 DEF HasNext, HasPrev, HeadOf, TailOf, TypeOK
<1>5. n \in Nat /\ 0 \in 0..n /\ n + 1 \in 1..(n + 1)
      /\ \A x \in 1..n : x \in 0..n /\ x \in 1..(n + 1)
  OBVIOUS
<1> HIDE DEF F, n
<1>6. N \subseteq Place /\ P \subseteq Place
  BY <1>3, Pointers
<1>7. ASSUME NEW p \in N
      PROVE  next'[p] \in P /\ prev'[next'[p]] = p
  <2>1. CASE \E x \in 0..n : p = T[x]
    <3>1. PICK x \in 0..n : p = T[x]
      BY <2>1
    <3>2. x + 1 \in 1..(n + 1) /\ (x + 1) - 1 = x
          /\ (x + 1 = n + 1 \/ x + 1 \in 1..n)
      BY <1>5
    <3>3. next'[p] = T[x + 1] /\ prev'[T[x + 1]] = T[(x + 1) - 1]
      BY <1>2, <3>1, <3>2
    <3>4. T[x + 1] \in P
      BY <1>1, <1>3, <3>2
    <3>5. QED
      BY <3>1, <3>2, <3>3, <3>4
  <2>2. CASE ~(\E x \in 0..n : p = T[x])
    <3>1. p \in HasNext /\ p # T[0]
      <4>1. p \notin F
        BY <1>3, <1>5, <2>2
      <4>2. QED
        BY <1>5, <2>2, <4>1
    <3>2. next'[p] = next[p]
      BY <1>2, <1>6, <2>2
    <3>3. next[p] \in HasPrev /\ prev[next[p]] = p /\ next[p] \in Place
      BY <3>1, Pointers
    <3>4. ASSUME NEW x \in 1..(n + 1)
          PROVE  next[p] # T[x]
      <4>1. x = n + 1 \/ x \in 1..n
        BY <1>5
      <4>2. QED
        BY <1>1, <3>1, <3>3, <4>1
    <3>5. prev'[next[p]] = prev[next[p]]
      BY <1>2, <3>3, <3>4
    <3>6. QED
      BY <3>2, <3>3, <3>5
  <2>3. QED
    BY <2>1, <2>2
<1>8. ASSUME NEW p \in P
      PROVE  prev'[p] \in N /\ next'[prev'[p]] = p
  <2>1. CASE \E x \in 1..(n + 1) : p = T[x]
    <3>1. PICK x \in 1..(n + 1) : p = T[x]
      BY <2>1
    <3>2. x - 1 \in 0..n /\ (x - 1) + 1 = x
          /\ (x - 1 = 0 \/ x - 1 \in 1..n)
      BY <1>5
    <3>3. prev'[p] = T[x - 1] /\ next'[T[x - 1]] = T[(x - 1) + 1]
      BY <1>2, <3>1, <3>2
    <3>4. T[x - 1] \in N
      BY <1>1, <1>3, <3>2
    <3>5. QED
      BY <3>1, <3>2, <3>3, <3>4
  <2>2. CASE ~(\E x \in 1..(n + 1) : p = T[x])
    <3>1. p \in HasPrev /\ p # TailOf(l)
      <4>1. p \notin F
        BY <1>3, <1>5, <2>2
      <4>2. QED
        BY <1>1, <1>5, <2>2, <4>1
    <3>2. prev'[p] = prev[p]
      BY <1>2, <1>6, <2>2
    <3>3. prev[p] \in HasNext /\ next[prev[p]] = p /\ prev[p] \in Place
      BY <3>1, Pointers
    <3>4. ASSUME NEW x \in 0..n
          PROVE  prev[p] # T[x]
      <4>1. x = 0 \/ x \in 1..n
        BY <1>5
      <4>2. next[T[0]] = TailOf(l)
        BY <1>1, Pointers
      <4>3. QED
        BY <1>1, <3>1, <3>3, <4>1, <4>2
    <3>5. next'[prev[p]] = next[prev[p]]
      BY <1>2, <3>3, <3>4
    <3>6. QED
      BY <3>2, <3>3, <3>5
  <2>3. QED
    BY <2>1, <2>2
<1>9. ASSUME NEW p \in Place, p \notin N
      PROVE  next'[p] = NULL
  <2>1. ASSUME NEW x \in 0..n
        PROVE  p # T[x]
    <3>1. x = 0 \/ x \in 1..n
      BY <1>5
    <3>2. QED
      BY <1>1, <1>3, <1>9, <3>1
  <2>2. QED
    BY <1>2, <1>9, <2>1, Pointers
<1>10. ASSUME NEW p \in Place, p \notin P
      PROVE  prev'[p] = NULL
  <2>1. ASSUME NEW x \in 1..(n + 1)
        PROVE  p # T[x]
    <3>1. x = n + 1 \/ x \in 1..n
      BY <1>5
    <3>2. QED
      BY <1>1, <1>3, <1>10, <3>1
  <2>2. QED
    BY <1>2, <1>10, <2>1, Pointers
<1>11. /\ next' \in [Place -> Place \cup {NULL}]
       /\ prev' \in [Place -> Place \cup {NULL}]
  <2>1. \A p \in Place : next'[p] \in Place \cup {NULL}
    BY <1>6, <1>7, <1>9
  <2>2. \A p \in Place : prev'[p] \in Place \cup {NULL}
    BY <1>6, <1>8, <1>10
  <2>3. QED
    BY <1>2, <2>1, <2>2
<1> HIDE DEF N, P
<1>12. QED
  <2>1. Rewires(N, P)
    BY <1>6, <1>7, <1>8, <1>9, <1>10, <1>11 DEF Rewires
  <2>2. QED
    BY <1>2, <1>4, <2>1, Rewired

-----------------------------------------------------------------------------
(* What the lists hold.                                                    *)

\* What the paths c hold, if D has the data of the nodes.
Held(c, D) == [l \in List |-> Mapped(c[l], D)]

\* The same with t in l.
Put(h, l, t) == [h EXCEPT ![l] = t]

(* What the elements of the lists hold is what stands along the paths,     *)
LEMMA Reads ==
  ASSUME TypeOK, Mirrored, NEW c, Paths(c)
  PROVE  Contents = Held(c, data)
<1>1. ASSUME NEW l \in List
      PROVE  Content(l) = Mapped(c[l], data)
  <2>1. Elements(l) = c[l] /\ c[l] \in Seq(Node)
    BY Walked DEF Paths
  <2>2. DOMAIN c[l] = 1..Len(c[l])
    BY <2>1
  <2>3. QED
    BY <2>1, <2>2 DEF Content, Mapped
<1>2. QED
  BY <1>1 DEF Contents, Held

(* and so after a step.                                                    *)
LEMMA ReadsNext ==
  ASSUME NEW c
  PROVE  (TypeOK /\ Mirrored /\ Paths(c) => Contents = Held(c, data))'
<1>1. TypeOK /\ Mirrored /\ Paths(c) => Contents = Held(c, data)
  BY Reads
<1>2. QED
  BY <1>1, PTL

(* The values of a list are as many as its nodes.                          *)
LEMMA ValuesTyped ==
  ASSUME TypeOK, NEW c \in [List -> Seq(Node)], NEW l \in List
  PROVE  /\ Held(c, data)[l] = Mapped(c[l], data)
         /\ Mapped(c[l], data) \in Seq(Value \cup {NULL})
         /\ Len(Mapped(c[l], data)) = Len(c[l])
         /\ \A x \in 1..Len(c[l]) : Mapped(c[l], data)[x] = data[c[l][x]]
<1>1. Len(c[l]) \in Nat
  OBVIOUS
<1>2. \A x \in 1..Len(c[l]) : data[c[l][x]] \in Value \cup {NULL}
  <2>1. \A x \in 1..Len(c[l]) : c[l][x] \in Node
    OBVIOUS
  <2>2. QED
    BY <2>1 DEF TypeOK
<1>3. QED
  BY <1>1, <1>2, MappedTyped DEF Held

\* With the paths d for c, and D for the data, another list than l is as it
\* was.
OnlyIn(c, d, l, D) ==
  \A k \in List : k # l =>
    d[k] = c[k] /\ Mapped(c[k], D) = Mapped(c[k], data)

(* A call that changes only one list does that to what the lists hold.     *)
LEMMA OneChanges ==
  ASSUME NEW c, NEW d, NEW l \in List, NEW D, OnlyIn(c, d, l, D)
  PROVE  Held(d, D) = Put(Held(c, data), l, Mapped(d[l], D))
<1>1. \A k \in List :
        Mapped(d[k], D) = IF k = l THEN Mapped(d[l], D)
                          ELSE Mapped(c[k], data)
  BY DEF OnlyIn
<1>2. Put(Held(c, data), l, Mapped(d[l], D)) =
        [k \in List |-> IF k = l THEN Mapped(d[l], D)
                        ELSE Mapped(c[k], data)]
  BY DEF Held, Put
<1>3. QED
  BY <1>1, <1>2, Zenon DEF Held

(* A list whose nodes keep their values reads the same.                    *)
LEMMA SameRead ==
  ASSUME NEW q, \A x \in 1..Len(q) : data'[q[x]] = data[q[x]]
  PROVE  Mapped(q, data') = Mapped(q, data)
BY DEF Mapped

(* Every node of a list is allocated, and in no other place of a list.     *)
LEMMA Standing ==
  ASSUME TypeOK, Mirrored, NodesAreOwned, NEW c, Paths(c),
         NEW l \in List, NEW x \in 1..Len(c[l])
  PROVE  /\ l \in created /\ c[l][x] \in allocated /\ c[l][x] \in Node
         /\ \A k \in List : \A y \in 1..Len(c[k]) :
              c[l][x] = c[k][y] => l = k /\ x = y
<1>1. c \in [List -> Seq(Node)] /\ Elements(l) = c[l]
  BY Walked DEF Paths
<1>2. Len(c[l]) \in Nat /\ c[l] \in Seq(Node)
  BY <1>1
<1>3. l \in created
  BY <1>2 DEF Paths
<1>4. c[l][x] \in allocated /\ c[l][x] \in Node
  <2>1. DOMAIN c[l] = 1..Len(c[l])
    BY <1>2
  <2>2. c[l][x] \in ToSet(Elements(l))
    BY <1>1, <2>1 DEF ToSet
  <2>3. QED
    BY <1>2, <1>3, <2>2 DEF NodesAreOwned
<1>5. ASSUME NEW k \in List, NEW y \in 1..Len(c[k]), c[l][x] = c[k][y]
      PROVE  l = k /\ x = y
  <2>1. Len(c[k]) \in Nat
    BY <1>1
  <2>2. k \in created
    BY <2>1 DEF Paths
  <2>3. x \in 0..(Len(c[l]) + 1) /\ y \in 0..(Len(c[k]) + 1)
    BY <1>2, <2>1
  <2>4. At(c, l, x) = At(c, k, y)
    BY <1>1, <1>5, Places
  <2>5. QED
    BY <1>3, <2>2, <2>3, <2>4, Apart
<1>6. QED
  BY <1>3, <1>4, <1>5

-----------------------------------------------------------------------------
(* What every call makes of the lists: it keeps the invariant, and their   *)
(* values change as the header says.                                       *)

(* A call that leaves pointers in order, and paths, keeps the invariant;   *)
(* and the lists hold what stands along the paths.                         *)
LEMMA Kept ==
  ASSUME TypeOK', Mirrored', NEW v,
         \E d : Paths(d)' /\ Held(d, data') = v
  PROVE  IInv' /\ Contents' = v
<1>1. PICK d : Paths(d)' /\ Held(d, data') = v
  OBVIOUS
<1>2. IInv'
  BY <1>1, PathsToInvNext
<1>3. Contents' = Held(d, data)'
  BY <1>1, ReadsNext
<1>4. Held(d, data)' = Held(d, data')
  BY DEF Held, Mapped
<1>5. QED
  BY <1>1, <1>2, <1>3, <1>4

(* What is known of the lists when a call starts, with a name for it.      *)
LEMMA Before ==
  ASSUME IInv, NEW c, c = Chain
  PROVE  /\ TypeOK /\ Mirrored /\ NodesAreOwned /\ Paths(c)
         /\ c \in [List -> Seq(Node)] /\ created \subseteq List
         /\ \A l \in List : Elements(l) = c[l] /\ Len(c[l]) \in Nat
         /\ Contents = Held(c, data)
<1>1. TypeOK /\ Mirrored /\ NodesAreOwned
  BY DEF IInv
<1>2. Paths(c) /\ \A l \in List : Elements(l) = c[l]
  BY InvToPaths
<1>3. c \in [List -> Seq(Node)] /\ created \subseteq List
  BY <1>1, <1>2 DEF Paths, TypeOK
<1>4. \A l \in List : Len(c[l]) \in Nat
  BY <1>3
<1>5. Contents = Held(c, data)
  BY <1>1, <1>2, Reads
<1>6. QED
  BY <1>1, <1>2, <1>3, <1>4, <1>5

(* DListCreate: the new list is empty.                                     *)
LEMMA CreateKeeps ==
  ASSUME IInv, NEW l \in List, DListCreate(l)
  PROVE  IInv' /\ Contents' = L!Destroy(Contents, l)
<1> PICK c : c = Chain
  OBVIOUS
<1>1. /\ TypeOK /\ Mirrored /\ Paths(c)
      /\ c \in [List -> Seq(Node)] /\ created \subseteq List
  BY Before
<1>2. /\ TypeOK' /\ Mirrored'
      /\ next'[HeadOf(l)] = TailOf(l)
      /\ \A p \in HasNext : next'[p] = next[p]
  BY <1>1, CreateRewires
<1>3. /\ l \notin created /\ created' = created \cup {l}
      /\ allocated' = allocated
  BY DEF DListCreate
<1>4. Len(c[l]) = 0
  BY <1>1, <1>3 DEF Paths
<1>5. ASSUME NEW k \in created', NEW x \in 0..Len(c[k])
      PROVE  next'[At(c, k, x)] = At(c, k, x + 1)
  <2>1. CASE k = l
    <3>1. x = 0
      BY <1>4, <2>1
    <3>2. At(c, l, x) = HeadOf(l) /\ At(c, l, x + 1) = TailOf(l)
      BY <1>4, <3>1 DEF At
    <3>3. QED
      BY <1>2, <2>1, <3>2
  <2>2. CASE k # l
    <3>1. k \in created /\ k \in List
      BY <1>1, <1>3, <2>2
    <3>2. /\ x \in 0..(Len(c[k]) + 1) /\ x + 1 \in 0..(Len(c[k]) + 1)
      BY <1>1, <3>1, Places
    <3>3. /\ next[At(c, k, x)] = At(c, k, x + 1)
          /\ At(c, k, x) \in Place /\ At(c, k, x + 1) \in Place
      BY <1>1, <3>1, <3>2, Places DEF Paths
    <3>4. At(c, k, x) \in HasNext
      BY <1>1, <3>3, Pointers, Dummies
    <3>5. QED
      BY <1>2, <3>3, <3>4
  <2>3. QED
    BY <2>1, <2>2
<1>6. /\ \A k \in List : k \notin created' => Len(c[k]) = 0
      /\ \A p \in allocated' :
           \E k \in created' : \E x \in 1..Len(c[k]) : p = c[k][x]
  BY <1>1, <1>3 DEF Paths
<1>7. Paths(c)'
  BY <1>1, <1>5, <1>6 DEF Paths, At, HeadOf, TailOf
<1>8. Held(c, data') = L!Destroy(Contents, l)
  <2>1. data' = data
    BY DEF DListCreate
  <2>2. Mapped(c[l], data') = << >>
    BY <1>4 DEF Mapped
  <2>3. Held(c, data') = Put(Held(c, data), l, << >>)
    <3>1. OnlyIn(c, c, l, data')
      BY <2>1 DEF OnlyIn
    <3>2. Held(c, data') = Put(Held(c, data), l, Mapped(c[l], data'))
      BY <3>1, OneChanges, ZenonT(40)
    <3>3. QED
      BY <2>2, <3>2
  <2>4. QED
    BY <2>3, Before DEF L!Destroy, Put
<1>9. QED
  BY <1>2, <1>7, <1>8, Kept

(* DListDestroy: the nodes of the list go, and no others.                  *)
LEMMA DestroyKeeps ==
  ASSUME IInv, NEW l \in List, DListDestroy(l)
  PROVE  IInv' /\ Contents' = L!Destroy(Contents, l)
<1> PICK c : c = Chain
  OBVIOUS
<1> PICK n \in Nat : n = Len(c[l])
  BY Before
<1> PICK freed : freed = Freed(l)
  OBVIOUS
<1>1. /\ TypeOK /\ Mirrored /\ NodesAreOwned /\ Paths(c)
      /\ c \in [List -> Seq(Node)] /\ created \subseteq List
  BY Before
<1>2. freed = {c[l][i] : i \in 1..n} /\ freed = ToSet(Elements(l))
  <2>1. Elements(l) = c[l] /\ c[l] \in Seq(Node)
    BY <1>1, Before
  <2>2. DOMAIN c[l] = 1..n
    BY <2>1
  <2>3. QED
    BY <2>1, <2>2 DEF Freed, ToSet
<1>3. /\ l \in created
      /\ next' = [p \in Place |-> IF p \in freed \cup {HeadOf(l)} THEN NULL
                                  ELSE next[p]]
      /\ prev' = [p \in Place |-> IF p \in freed \cup {TailOf(l)} THEN NULL
                                  ELSE prev[p]]
      /\ data' = [m \in Node |-> IF m \in freed THEN NULL ELSE data[m]]
      /\ allocated' = allocated \ freed
      /\ created' = created \ {l}
  BY DEF DListDestroy
<1>4. /\ freed \cup {HeadOf(l)} = {At(c, l, i) : i \in 0..n}
      /\ freed \cup {TailOf(l)} = {At(c, l, i) : i \in 1..(n + 1)}
  <2>1. /\ \A i \in 1..n : At(c, l, i) = c[l][i]
        /\ At(c, l, 0) = HeadOf(l) /\ At(c, l, n + 1) = TailOf(l)
    BY <1>1, Places
  <2>2. /\ \A i \in 0..n : i = 0 \/ i \in 1..n
        /\ \A i \in 1..(n + 1) : i = n + 1 \/ i \in 1..n
        /\ \A i \in 1..n : i \in 0..n /\ i \in 1..(n + 1)
        /\ 0 \in 0..n /\ n + 1 \in 1..(n + 1)
    OBVIOUS
  <2>3. QED
    BY <1>2, <2>1, <2>2
<1>5. \A q \in freed \cup {HeadOf(l)} : next[q] \in freed \cup {TailOf(l)}
  <2>1. \A i \in 0..n : i + 1 \in 1..(n + 1)
    OBVIOUS
  <2>2. \A i \in 0..n : next[At(c, l, i)] = At(c, l, i + 1)
    BY <1>1, <1>3 DEF Paths
  <2>3. QED
    BY <1>4, <2>1, <2>2
<1>6. \A q \in freed \cup {TailOf(l)} : prev[q] \in freed \cup {HeadOf(l)}
  <2>1. \A i \in 1..(n + 1) : i - 1 \in 0..n /\ (i - 1) + 1 = i
    OBVIOUS
  <2>2. \A i \in 0..n : prev[At(c, l, i + 1)] = At(c, l, i)
    BY <1>1, <1>3, Back
  <2>3. \A i \in 1..(n + 1) : prev[At(c, l, i)] = At(c, l, i - 1)
    BY <2>1, <2>2
  <2>4. \A i \in 1..(n + 1) : prev[At(c, l, i)] \in freed \cup {HeadOf(l)}
    BY <1>4, <2>1, <2>3
  <2>5. QED
    BY <1>4, <2>4
<1>7. freed \subseteq allocated
  BY <1>1, <1>2, <1>3 DEF NodesAreOwned
<1>8. TypeOK' /\ Mirrored'
  BY <1>1, <1>3, <1>5, <1>6, <1>7, DestroyRewires
<1>9. PICK d : d = [c EXCEPT ![l] = << >>]
  OBVIOUS
<1>10. /\ d \in [List -> Seq(Node)] /\ Len(d[l]) = 0
       /\ \A k \in List : k # l => d[k] = c[k]
  BY <1>1, <1>9
<1>11. ASSUME NEW k \in created', NEW x \in 0..Len(d[k])
       PROVE  next'[At(d, k, x)] = At(d, k, x + 1)
  <2>1. k \in created /\ k \in List /\ k # l /\ d[k] = c[k]
    BY <1>1, <1>3, <1>10
  <2>2. At(d, k, x) = At(c, k, x) /\ At(d, k, x + 1) = At(c, k, x + 1)
    BY <2>1 DEF At
  <2>3. x \in 0..(Len(c[k]) + 1)
    BY <1>1, <2>1, Places
  <2>4. next[At(c, k, x)] = At(c, k, x + 1) /\ At(c, k, x) \in Place
    BY <1>1, <2>1, <2>3, Places DEF Paths
  <2>5. At(c, k, x) \notin freed \cup {HeadOf(l)}
    <3>1. ASSUME NEW i \in 0..n
          PROVE  At(c, k, x) # At(c, l, i)
      <4>1. i \in 0..(Len(c[l]) + 1)
        OBVIOUS
      <4>2. QED
        BY <1>1, <1>3, <2>1, <2>3, <4>1, Apart
    <3>2. QED
      BY <1>4, <3>1
  <2>6. QED
    BY <1>3, <2>2, <2>4, <2>5
<1>12. ASSUME NEW p \in allocated'
       PROVE  \E k \in created' : \E x \in 1..Len(d[k]) : p = d[k][x]
  <2>1. p \in allocated /\ p \notin freed
    BY <1>3
  <2>2. PICK k \in created : \E x \in 1..Len(c[k]) : p = c[k][x]
    BY <1>1, <2>1 DEF Paths
  <2>3. k # l
    BY <1>2, <2>1, <2>2
  <2>4. k \in created' /\ d[k] = c[k]
    BY <1>1, <1>3, <1>10, <2>3
  <2>5. QED
    BY <2>2, <2>4
<1>13. \A k \in List : k \notin created' => Len(d[k]) = 0
  BY <1>1, <1>3, <1>10 DEF Paths
<1>14. Paths(d)'
  BY <1>10, <1>11, <1>12, <1>13 DEF Paths, At, HeadOf, TailOf
<1>15. Held(d, data') = L!Destroy(Contents, l)
  <2>1. \A k \in List : k # l => Mapped(c[k], data') = Mapped(c[k], data)
    <3> SUFFICES ASSUME NEW k \in List, k # l
                 PROVE  Mapped(c[k], data') = Mapped(c[k], data)
      OBVIOUS
    <3>1. ASSUME NEW x \in 1..Len(c[k])
          PROVE  data'[c[k][x]] = data[c[k][x]]
      <4>1. c[k][x] \in Node /\ \A y \in 1..n : c[k][x] # c[l][y]
        BY <1>1, Standing
      <4>2. c[k][x] \notin freed
        BY <1>2, <4>1
      <4>3. QED
        BY <1>3, <4>1, <4>2
    <3>2. QED
      BY <3>1, SameRead
  <2>2. Mapped(d[l], data') = << >>
    BY <1>10 DEF Mapped
  <2>3. Held(d, data') = Put(Held(c, data), l, << >>)
    <3>1. OnlyIn(c, d, l, data')
      BY <1>10, <2>1 DEF OnlyIn
    <3>2. Held(d, data') = Put(Held(c, data), l, Mapped(d[l], data'))
      BY <3>1, OneChanges
    <3>3. QED
      BY <2>2, <3>2
  <2>4. QED
    BY <2>3, Before DEF L!Destroy, Put
<1>16. QED
  BY <1>8, <1>14, <1>15, Kept

(* DListInsertBefore, at any iterator of a list.                           *)
LEMMA InsertKeeps ==
  ASSUME IInv, NEW l \in created, NEW iter \in Iter(l), NEW n \in Node,
         NEW v \in Value, DListInsertBefore(iter, n, v)
  PROVE  IInv' /\ Contents' = L!Insert(Contents, l, Position(l, iter), v)
<1> PICK c : c = Chain
  OBVIOUS
<1> PICK i : i = Position(l, iter)
  OBVIOUS
<1>1. /\ TypeOK /\ Mirrored /\ Paths(c) /\ NodesAreOwned
      /\ c \in [List -> Seq(Node)] /\ l \in List
      /\ Len(c[l]) \in Nat /\ Contents = Held(c, data)
  BY Before
<1>2. /\ i \in 1..(Len(c[l]) + 1) /\ At(c, l, i) = iter
      /\ prev[iter] = At(c, l, i - 1)
  BY Placed
<1>3. /\ n \in Free
      /\ next' = [next EXCEPT ![n] = iter, ![prev[iter]] = n]
      /\ allocated' = allocated \cup {n} /\ created' = created
      /\ data' = [data EXCEPT ![n] = v]
  BY DEF DListInsertBefore
<1>4. i - 1 \in 0..Len(c[l]) /\ (i - 1) + 1 = i
      /\ i - 1 \in 0..(Len(c[l]) + 1) /\ i \in 0..(Len(c[l]) + 1)
  BY <1>1, <1>2
<1>5. /\ next[prev[iter]] = iter /\ iter \in Place /\ prev[iter] \in Place
  BY <1>1, <1>2, <1>4, Places DEF Paths
<1>6. iter \in HasPrev /\ prev[iter] \in HasNext
  BY <1>1, <1>5, Pointers, Dummies
<1>7. TypeOK' /\ Mirrored'
  BY <1>1, <1>3, <1>6, InsertRewires
<1>8. n \in Place /\ n \notin HasNext /\ n # prev[iter]
  BY <1>1, <1>3, <1>6, Dummies DEF Free, HasNext, TypeOK
<1>9. /\ next'[prev[iter]] = n /\ next'[n] = iter
      /\ \A p \in Place : p # n /\ p # prev[iter] => next'[p] = next[p]
  BY <1>1, <1>3, <1>5, <1>8 DEF TypeOK
<1>10. PICK t : t = <<n>>
  OBVIOUS
<1>11. /\ t \in Seq(Node) /\ Len(t) = 1 /\ t[1] = n
  BY <1>10
<1> PICK T : T = Gap(c, l, i, t)
  OBVIOUS
<1>12. T[0] = prev[iter] /\ T[1] = n /\ T[2] = iter
  BY <1>2, <1>11 DEF Gap
<1>13. /\ \A x \in 0..Len(t) : x = 0 \/ x = 1
       /\ 0 \in 0..Len(t) /\ 1 \in 0..Len(t)
       /\ \A x \in 1..Len(t) : x = 1
       /\ 1 \in 1..Len(t)
  BY <1>11
<1>14. Inserts(c, l, i, t)
  <2>1. \A x \in 0..Len(t) : next'[T[x]] = T[x + 1]
    BY <1>9, <1>12, <1>13
  <2>2. {t[x] : x \in 1..Len(t)} = {n}
    BY <1>11, <1>13
  <2>3. \A p \in Place : (\A x \in 0..Len(t) : p # T[x]) =>
                         next'[p] = next[p]
    BY <1>9, <1>12, <1>13
  <2>4. /\ allocated' = allocated \cup {t[x] : x \in 1..Len(t)}
        /\ created' = created
    BY <1>3, <2>2
  <2>5. QED
    BY <2>1, <2>3, <2>4 DEF Inserts
<1>15. PICK d : Paths(d)' /\ d = [c EXCEPT ![l] = Opened(@, i, t, 1, 1)]
  <2>1. i \in 1..(Len(c[l]) + 1) /\ t \in Seq(Node) /\ Len(t) \in Nat
    BY <1>2, <1>11
  <2>2. \A x \in 1..Len(t) : t[x] \in Free
    BY <1>3, <1>11, <1>13
  <2>3. PICK m \in Nat : m = Len(t)
    BY <2>1
  <2>4. \E d : Paths(d)' /\ d = [c EXCEPT ![l] = Opened(@, i, t, 1, m)]
    BY <1>1, <1>14, <2>1, <2>2, <2>3, InsertPath
  <2>5. QED
    BY <1>11, <2>3, <2>4, Zenon
<1>16. Held(d, data') = L!Insert(Contents, l, i, v)
  <2>1. PICK q \in Seq(Node) : q = c[l]
    BY <1>1
  <2>2. \A k \in List : \A x \in 1..Len(c[k]) :
          data'[c[k][x]] = data[c[k][x]]
    <3> SUFFICES ASSUME NEW k \in List, NEW x \in 1..Len(c[k])
                 PROVE  data'[c[k][x]] = data[c[k][x]]
      OBVIOUS
    <3>1. c[k][x] \in Node /\ c[k][x] \in allocated
      BY <1>1, Standing
    <3>2. c[k][x] # n
      BY <1>3, <3>1 DEF Free
    <3>3. QED
      BY <1>1, <1>3, <3>1, <3>2 DEF TypeOK
  <2>3. Mapped(Opened(q, i, t, 1, 1), data')
          = Opened(Mapped(q, data), i, <<v>>, 1, 1)
    <3>1. i \in 1..(Len(q) + 1)
      BY <1>2, <2>1
    <3>2. \A x \in 1..Len(q) : data'[q[x]] = data[q[x]]
      BY <1>1, <2>2, <2>1
    <3>3. data'[n] = v
      BY <1>1, <1>3 DEF TypeOK
    <3>4. Mapped(Opened(q, i, <<n>>, 1, 1), data')
            = Opened(Mapped(q, data), i, <<v>>, 1, 1)
      BY <3>1, <3>2, <3>3, OneMapped
    <3>5. QED
      BY <1>10, <3>4
  <2>4. InsertAt(Mapped(q, data), i, v)
          = Opened(Mapped(q, data), i, <<v>>, 1, 1)
    <3>1. /\ Mapped(q, data) \in Seq(Value \cup {NULL})
          /\ Len(Mapped(q, data)) = Len(q)
      BY <1>1, <2>1, ValuesTyped
    <3>2. i \in 1..(Len(Mapped(q, data)) + 1) /\ v \in Value \cup {NULL}
      BY <1>2, <2>1, <3>1
    <3>3. QED
      BY <3>1, <3>2, InsertAtOpens
  <2>5. Held(d, data') = Put(Held(c, data), l,
                           InsertAt(Mapped(q, data), i, v))
    <3>1. d[l] = Opened(q, i, t, 1, 1)
      BY <1>1, <1>15, <2>1
    <3>2. Mapped(d[l], data') = InsertAt(Mapped(q, data), i, v)
      BY <2>3, <2>4, <3>1
    <3>3. OnlyIn(c, d, l, data')
      BY <1>1, <1>15, <2>2, SameRead DEF OnlyIn
    <3>4. l \in List
      BY <1>1
    <3>5. Held(d, data') = Put(Held(c, data), l, Mapped(d[l], data'))
      BY <3>3, <3>4, OneChanges
    <3>6. QED
      BY <3>2, <3>5
  <2>6. Held(c, data)[l] = Mapped(q, data)
    BY <1>1, <2>1, ValuesTyped
  <2>7. QED
    BY <1>1, <2>5, <2>6 DEF L!Insert, L!InsertAt, InsertAt, Put
<1>17. QED
  BY <1>7, <1>15, <1>16, Kept

(* DListRemove, of any element of a list.                                  *)
LEMMA RemoveKeeps ==
  ASSUME IInv, NEW l \in created, NEW iter \in ToSet(Elements(l)),
         DListRemove(iter)
  PROVE  IInv' /\ Contents' = L!Erase(Contents, l, Position(l, iter))
<1> PICK c : c = Chain
  OBVIOUS
<1> PICK i : i = Position(l, iter)
  OBVIOUS
<1>1. /\ TypeOK /\ Mirrored /\ Paths(c) /\ NodesAreOwned
      /\ c \in [List -> Seq(Node)] /\ l \in List
      /\ Len(c[l]) \in Nat /\ Contents = Held(c, data)
  BY Before
<1>2. /\ i \in 1..Len(c[l]) /\ At(c, l, i) = iter
      /\ prev[iter] = At(c, l, i - 1)
  BY Placed DEF Iter
<1>3. /\ next' = [next EXCEPT ![prev[iter]] = next[iter], ![iter] = NULL]
      /\ allocated' = allocated \ {iter} /\ created' = created
      /\ data' = [data EXCEPT ![iter] = NULL]
  BY DEF DListRemove
<1>4. /\ i - 1 \in 0..Len(c[l]) /\ (i - 1) + 1 = i
      /\ i - 1 \in 0..(Len(c[l]) + 1) /\ i \in 0..(Len(c[l]) + 1)
      /\ i \in 0..Len(c[l]) /\ i # i - 1
  BY <1>1, <1>2
<1>5. /\ next[iter] = At(c, l, i + 1) /\ iter \in Place
      /\ prev[iter] \in Place
  BY <1>1, <1>2, <1>4, Places DEF Paths
<1>6. iter \in allocated
  BY <1>1 DEF NodesAreOwned
<1>7. TypeOK' /\ Mirrored'
  BY <1>1, <1>6, RemoveRewires
<1>8. prev[iter] # iter
  BY <1>1, <1>2, <1>4, Apart
<1>9. /\ next'[prev[iter]] = next[iter]
      /\ \A p \in Place : p # prev[iter] /\ p # iter => next'[p] = next[p]
  BY <1>1, <1>3, <1>5, <1>8 DEF TypeOK
<1>10. PICK d : Paths(d)' /\ d = [c EXCEPT ![l] = Closed(@, i, 1)]
  <2>1. /\ next'[At(c, l, i - 1)] = At(c, l, i + 1)
        /\ \A p \in Place : p # At(c, l, i - 1) /\ p # At(c, l, i) =>
                             next'[p] = next[p]
    BY <1>2, <1>5, <1>9
  <2>2. /\ i \in 1..Len(c[l]) /\ allocated' = allocated \ {At(c, l, i)}
        /\ created' = created
    BY <1>2, <1>3
  <2>3. QED
    BY <1>1, <2>1, <2>2, RemovePath
<1>11. Held(d, data') = L!Erase(Contents, l, i)
  <2>1. PICK q \in Seq(Node) : q = c[l]
    BY <1>1
  <2>2. ASSUME NEW k \in List, NEW x \in 1..Len(c[k]), k # l \/ x # i
        PROVE  data'[c[k][x]] = data[c[k][x]]
    <3>1. c[l][i] = iter
      BY <1>1, <1>2, Places
    <3>2. c[k][x] \in Node /\ c[k][x] # iter
      BY <1>1, <1>2, <2>2, <3>1, Standing
    <3>3. QED
      BY <1>1, <1>3, <3>2 DEF TypeOK
  <2>3. Mapped(Closed(q, i, 1), data') = Closed(Mapped(q, data), i, 1)
    <3>1. i \in 1..Len(q)
      BY <1>2, <2>1
    <3>2. \A x \in 1..Len(q) : x # i => data'[q[x]] = data[q[x]]
      BY <1>1, <2>2, <2>1
    <3>3. QED
      BY <3>1, <3>2, OneLessMapped
  <2>4. RemoveAt(Mapped(q, data), i) = Closed(Mapped(q, data), i, 1)
    <3>1. /\ Mapped(q, data) \in Seq(Value \cup {NULL})
          /\ Len(Mapped(q, data)) = Len(q)
      BY <1>1, <2>1, ValuesTyped
    <3>2. i \in 1..Len(Mapped(q, data))
      BY <1>2, <2>1, <3>1
    <3>3. QED
      BY <3>1, <3>2, RemoveAtCloses
  <2>5. Held(d, data') = Put(Held(c, data), l,
                             RemoveAt(Mapped(q, data), i))
    <3>1. d[l] = Closed(q, i, 1)
      BY <1>1, <1>10, <2>1
    <3>2. Mapped(d[l], data') = RemoveAt(Mapped(q, data), i)
      BY <2>3, <2>4, <3>1
    <3>3. OnlyIn(c, d, l, data')
      BY <1>1, <1>10, <2>2, SameRead DEF OnlyIn
    <3>4. l \in List
      BY <1>1
    <3>5. Held(d, data') = Put(Held(c, data), l, Mapped(d[l], data'))
      BY <3>3, <3>4, OneChanges
    <3>6. QED
      BY <3>2, <3>5
  <2>6. Held(c, data)[l] = Mapped(q, data)
    BY <1>1, <2>1, ValuesTyped
  <2>7. QED
    BY <1>1, <2>5, <2>6 DEF L!Erase, L!RemoveAt, RemoveAt, Put
<1>12. QED
  BY <1>7, <1>10, <1>11, Kept

(* What stands between two places of a sequence is in its segment.         *)
LEMMA InSegment ==
  ASSUME NEW S, NEW s \in Seq(S), NEW i \in 1..(Len(s) + 1),
         NEW j \in 1..(Len(s) + 1), NEW a \in i..(j - 1)
  PROVE  s[a] \in ToSet(SubSeq(s, i, j - 1))
<1> PICK o \in Nat : o = Len(s)
  OBVIOUS
<1> PICK u : u = SubSeq(s, i, j - 1)
  OBVIOUS
<1>1. i \in 1..o /\ j - 1 \in 1..o /\ a - i + 1 \in 1..(j - i)
      /\ i + (a - i + 1) - 1 = a /\ (j - 1) - i + 1 = j - i
  OBVIOUS
<1>2. DOMAIN u = 1..(j - i)
  BY <1>1
<1>3. u[a - i + 1] = s[a]
  BY <1>1
<1>4. QED
  BY <1>1, <1>2, <1>3 DEF ToSet

(* The pieces that Lists takes of sequences, and puts together.            *)
LEMMA Pieces ==
  ASSUME NEW S, NEW q \in Seq(S), NEW r \in Seq(S)
  PROVE  /\ \A a \in 1..(Len(q) + 1), i, j \in 1..(Len(r) + 1) : i <= j =>
              L!Before(q, a) \o L!Part(r, i, j) \o L!From(q, a)
                = Opened(q, a, r, i, j - i)
         /\ \A i, j \in 1..(Len(q) + 1) : i <= j =>
              L!Before(q, i) \o L!From(q, j) = Closed(q, i, j - i)
         /\ \A a, b, e \in 1..(Len(q) + 1) : a <= b /\ b <= e =>
              L!Before(q, a) \o L!Part(q, b, e) \o L!Part(q, a, b)
                \o L!From(q, e) = Swapped(q, a, b, e)
<1>1. /\ Len(q) \in Nat /\ Len(r) \in Nat
      /\ (Len(q) + 1) - 1 = Len(q)
  OBVIOUS
<1>2. /\ \A i : L!Before(q, i) = SubSeq(q, 1, i - 1)
      /\ \A j : L!From(q, j) = SubSeq(q, j, Len(q))
      /\ \A i, j : L!Part(q, i, j) = SubSeq(q, i, j - 1)
      /\ \A i, j : L!Part(r, i, j) = SubSeq(r, i, j - 1)
  <2>1. \A j : L!From(q, j) = SubSeq(q, j, (Len(q) + 1) - 1)
    BY DEF L!From, L!Part
  <2>2. QED
    BY <1>1, <2>1 DEF L!Before, L!Part
<1>3. ASSUME NEW a \in 1..(Len(q) + 1), NEW i \in 1..(Len(r) + 1),
             NEW j \in 1..(Len(r) + 1), i <= j
      PROVE  L!Before(q, a) \o L!Part(r, i, j) \o L!From(q, a)
               = Opened(q, a, r, i, j - i)
  <2>1. PICK m \in Nat : m = j - i
    BY <1>3
  <2>2. m \in 0..(Len(r) + 1 - i)
    BY <1>1, <1>3, <2>1
  <2>3. SubSeq(q, 1, a - 1) \o SubSeq(r, i, i + m - 1)
          \o SubSeq(q, a, Len(q)) = Opened(q, a, r, i, m)
    BY <2>2, OpenedIs, ZenonT(40)
  <2>4. i + m - 1 = j - 1
    BY <1>3, <2>1
  <2>5. QED
    BY <1>2, <2>1, <2>3, <2>4
<1>4. ASSUME NEW i \in 1..(Len(q) + 1), NEW j \in 1..(Len(q) + 1), i <= j
      PROVE  L!Before(q, i) \o L!From(q, j) = Closed(q, i, j - i)
  <2>1. PICK m \in Nat : m = j - i
    BY <1>4
  <2>2. m \in 0..(Len(q) + 1 - i)
    BY <1>1, <1>4, <2>1
  <2>3. SubSeq(q, 1, i - 1) \o SubSeq(q, i + m, Len(q)) = Closed(q, i, m)
    BY <2>2, ClosedIs
  <2>4. i + m = j
    BY <1>4, <2>1
  <2>5. QED
    BY <1>2, <2>1, <2>3, <2>4
<1>5. ASSUME NEW a \in 1..(Len(q) + 1), NEW b \in 1..(Len(q) + 1),
             NEW e \in 1..(Len(q) + 1), a <= b, b <= e
      PROVE  L!Before(q, a) \o L!Part(q, b, e) \o L!Part(q, a, b)
               \o L!From(q, e) = Swapped(q, a, b, e)
  <2>1. SubSeq(q, 1, a - 1) \o SubSeq(q, b, e - 1) \o SubSeq(q, a, b - 1)
          \o SubSeq(q, e, Len(q)) = Swapped(q, a, b, e)
    BY <1>5, SwappedIs
  <2>2. QED
    BY <1>2, <2>1
<1>6. QED
  BY <1>3, <1>4, <1>5

\* The paths d are the paths c with s for l and t for k.
OnlyTwo(c, d, l, s, k, t) ==
  /\ l # k /\ d[l] = s /\ d[k] = t
  /\ \A h \in List : h # l /\ h # k => d[h] = c[h]

(* If a call changes the paths of two lists, and no data, that is how the  *)
(* lists change.                                                           *)
LEMMA TwoChange ==
  ASSUME NEW c, NEW d, NEW l \in List, NEW k \in List, NEW s, NEW t,
         OnlyTwo(c, d, l, s, k, t)
  PROVE  Held(d, data) = Put(Put(Held(c, data), k, Mapped(t, data)),
                             l, Mapped(s, data))
<1>1. l # k /\ d[l] = s /\ d[k] = t
      /\ \A h \in List : h # l /\ h # k => d[h] = c[h]
  BY DEF OnlyTwo
<1>2. \A h \in List : Mapped(d[h], data) =
        IF h = l THEN Mapped(s, data)
        ELSE IF h = k THEN Mapped(t, data) ELSE Mapped(c[h], data)
  BY <1>1
<1>3. Put(Put(Held(c, data), k, Mapped(t, data)), l, Mapped(s, data)) =
        [h \in List |-> IF h = l THEN Mapped(s, data)
                        ELSE IF h = k THEN Mapped(t, data)
                        ELSE Mapped(c[h], data)]
  BY DEF Held, Put
<1>4. QED
  BY <1>2, <1>3, Zenon DEF Held

(* A segment that goes from one list to another.                           *)
LEMMA SpliceReads ==
  ASSUME TypeOK, NEW c \in [List -> Seq(Node)], NEW l \in List,
         NEW k \in List, NEW a \in 1..(Len(c[l]) + 1),
         NEW i \in 1..(Len(c[k]) + 1), NEW j \in 1..(Len(c[k]) + 1),
         NEW m \in 0..(Len(c[k]) + 1 - i), i <= j, j - i = m, NEW d,
         OnlyTwo(c, d, l, Opened(c[l], a, c[k], i, m), k, Closed(c[k], i, m))
  PROVE  Held(d, data) = L!Splice(Held(c, data), l, a, k, i, j)
<1> PICK q \in Seq(Node), r \in Seq(Node) : q = c[l] /\ r = c[k]
  OBVIOUS
<1> DEFINE V == Value \cup {NULL}
<1>1. /\ Mapped(q, data) \in Seq(V) /\ Mapped(r, data) \in Seq(V)
      /\ Len(Mapped(q, data)) = Len(q) /\ Len(Mapped(r, data)) = Len(r)
      /\ Held(c, data)[l] = Mapped(q, data)
      /\ Held(c, data)[k] = Mapped(r, data)
  BY ValuesTyped
<1> HIDE DEF V
<1>2. Mapped(Opened(q, a, r, i, m), data)
        = Opened(Mapped(q, data), a, Mapped(r, data), i, m)
  BY MappedOpened
<1>3. Mapped(Closed(r, i, m), data) = Closed(Mapped(r, data), i, m)
  BY MappedClosed
<1>4. Held(d, data) =
        Put(Put(Held(c, data), k, Mapped(Closed(r, i, m), data)),
            l, Mapped(Opened(q, a, r, i, m), data))
  BY TwoChange
<1>5. PICK u \in Seq(V), w \in Seq(V) :
        u = Mapped(q, data) /\ w = Mapped(r, data)
  BY <1>1
<1>6. Len(u) = Len(q) /\ Len(w) = Len(r)
  BY <1>1, <1>5
<1>7. /\ L!Before(w, i) \o L!From(w, j) = Closed(w, i, m)
      /\ L!Before(u, a) \o L!Part(w, i, j) \o L!From(u, a)
           = Opened(u, a, w, i, m)
  <2>1. /\ a \in 1..(Len(u) + 1) /\ i \in 1..(Len(w) + 1)
        /\ j \in 1..(Len(w) + 1)
    BY <1>6
  <2>2. L!Before(w, i) \o L!From(w, j) = Closed(w, i, j - i)
    BY <2>1, Pieces
  <2>3. \A b \in 1..(Len(u) + 1), x, y \in 1..(Len(w) + 1) : x <= y =>
          L!Before(u, b) \o L!Part(w, x, y) \o L!From(u, b)
            = Opened(u, b, w, x, y - x)
    BY Pieces, ZenonT(40)
  <2>4. L!Before(u, a) \o L!Part(w, i, j) \o L!From(u, a)
          = Opened(u, a, w, i, j - i)
    BY <2>1, <2>3, Zenon
  <2>5. QED
    BY <2>2, <2>4
<1>8. L!Splice(Held(c, data), l, a, k, i, j) =
        Put(Put(Held(c, data), k, L!Before(w, i) \o L!From(w, j)),
            l, L!Before(u, a) \o L!Part(w, i, j) \o L!From(u, a))
  <2>1. PICK h : h = Held(c, data)
    OBVIOUS
  <2>2. h[l] = u /\ h[k] = w /\ l # k
    BY <1>1, <1>5, <2>1 DEF OnlyTwo
  <2>3. h \in [List -> {h[g] : g \in List}]
    BY <2>1 DEF Held
  <2>4. L!Splice(h, l, a, k, i, j) =
          Put(Put(h, k, L!Before(w, i) \o L!From(w, j)),
              l, L!Before(u, a) \o L!Part(w, i, j) \o L!From(u, a))
    BY <2>2, <2>3 DEF L!Splice, Put
  <2>5. QED
    BY <2>1, <2>4
<1>9. QED
  BY <1>2, <1>3, <1>4, <1>5, <1>7, <1>8

(* A segment that goes to another place of its list.                       *)
LEMMA SwapReads ==
  ASSUME TypeOK, NEW c \in [List -> Seq(Node)], NEW l \in List,
         NEW q \in Seq(Node), q = c[l],
         NEW a \in 1..(Len(q) + 1), NEW b \in 1..(Len(q) + 1),
         NEW e \in 1..(Len(q) + 1), a <= b, b <= e, NEW d,
         OnlyIn(c, d, l, data), d[l] = Swapped(q, a, b, e)
  PROVE  /\ Held(d, data) = L!MoveDown(Held(c, data), l, a, b, e)
         /\ Held(d, data) = L!MoveUp(Held(c, data), l, e, a, b)
<1> DEFINE V == Value \cup {NULL}
<1>1. /\ Mapped(q, data) \in Seq(V) /\ Len(Mapped(q, data)) = Len(q)
      /\ Held(c, data)[l] = Mapped(q, data)
  BY ValuesTyped
<1> HIDE DEF V
<1>2. Mapped(Swapped(q, a, b, e), data)
        = Swapped(Mapped(q, data), a, b, e)
  BY SwappedMapped
<1>3. Held(d, data) = Put(Held(c, data), l, Mapped(d[l], data))
  BY OneChanges, ZenonT(40)
<1>4. PICK u \in Seq(V) : u = Mapped(q, data)
  BY <1>1
<1>5. L!Before(u, a) \o L!Part(u, b, e) \o L!Part(u, a, b) \o L!From(u, e)
        = Swapped(u, a, b, e)
  <2>1. /\ a \in 1..(Len(u) + 1) /\ b \in 1..(Len(u) + 1)
        /\ e \in 1..(Len(u) + 1)
    BY <1>1, <1>4
  <2>2. QED
    BY <2>1, Pieces
<1>6. /\ L!MoveDown(Held(c, data), l, a, b, e) =
           Put(Held(c, data), l,
               L!Before(u, a) \o L!Part(u, b, e)
                 \o L!Part(u, a, b) \o L!From(u, e))
      /\ L!MoveUp(Held(c, data), l, e, a, b) =
           Put(Held(c, data), l,
               L!Before(u, a) \o L!Part(u, b, e)
                 \o L!Part(u, a, b) \o L!From(u, e))
  <2>1. PICK h : h = Held(c, data)
    OBVIOUS
  <2>2. h[l] = u
    BY <1>1, <1>4, <2>1
  <2>3. /\ L!MoveDown(h, l, a, b, e) =
             Put(h, l, L!Before(u, a) \o L!Part(u, b, e)
                         \o L!Part(u, a, b) \o L!From(u, e))
        /\ L!MoveUp(h, l, e, a, b) =
             Put(h, l, L!Before(u, a) \o L!Part(u, b, e)
                         \o L!Part(u, a, b) \o L!From(u, e))
    BY <2>2 DEF L!MoveDown, L!MoveUp, Put
  <2>4. QED
    BY <2>1, <2>3
<1>7. QED
  BY <1>2, <1>3, <1>4, <1>5, <1>6

(* So the values move as the nodes do: to another list,                    *)
LEMMA SpliceMoves ==
  ASSUME TypeOK, Mirrored, NEW c, Paths(c), NEW l \in created,
         NEW k \in created, l # k, NEW a \in 1..(Len(c[l]) + 1),
         NEW i \in 1..(Len(c[k]) + 1), NEW j \in 1..(Len(c[k]) + 1), i < j,
         Splices(c, l, a, k, i, j)
  PROVE  \E d : /\ Paths(d)'
                /\ Held(d, data) = L!Splice(Held(c, data), l, a, k, i, j)
<1>1. /\ c \in [List -> Seq(Node)] /\ l \in List /\ k \in List
      /\ c[l] \in Seq(Node) /\ c[k] \in Seq(Node)
      /\ Len(c[l]) \in Nat /\ Len(c[k]) \in Nat
  BY DEF TypeOK, Paths
<1>2. PICK n \in Nat, o \in Nat : n = Len(c[l]) /\ o = Len(c[k])
  BY <1>1
<1>3. PICK m \in 1..o : j = i + m
  <2>1. j - i \in 1..o /\ j = i + (j - i)
    BY <1>2
  <2>2. QED
    BY <2>1
<1>4. a \in 1..(n + 1) /\ i \in 1..(o + 1) /\ j \in 1..(o + 1)
  BY <1>2
<1>5. PICK d : /\ Paths(d)'
               /\ d = [c EXCEPT ![l] = Opened(@, a, c[k], i, m),
                                ![k] = Closed(@, i, m)]
  BY <1>2, <1>3, <1>4, MovePath
<1>6. OnlyTwo(c, d, l, Opened(c[l], a, c[k], i, m),
              k, Closed(c[k], i, m))
  BY <1>1, <1>5 DEF OnlyTwo
<1>7. m \in 0..(Len(c[k]) + 1 - i) /\ i <= j /\ j - i = m
  BY <1>2, <1>3
<1>8. Held(d, data) = L!Splice(Held(c, data), l, a, k, i, j)
  BY <1>1, <1>6, <1>7, SpliceReads
<1>9. QED
  BY <1>5, <1>8

(* and to another place of their own.                                      *)
LEMMA SwapMoves ==
  ASSUME TypeOK, Mirrored, NEW c, Paths(c), NEW l \in created,
         NEW a \in 1..(Len(c[l]) + 1), NEW b \in 1..(Len(c[l]) + 1),
         NEW e \in 1..(Len(c[l]) + 1), a < b, b < e, Swaps(c, l, a, b, e)
  PROVE  \E d : /\ Paths(d)'
                /\ Held(d, data) = L!MoveDown(Held(c, data), l, a, b, e)
                /\ Held(d, data) = L!MoveUp(Held(c, data), l, e, a, b)
<1>1. /\ c \in [List -> Seq(Node)] /\ l \in List
      /\ c[l] \in Seq(Node) /\ Len(c[l]) \in Nat
  BY DEF TypeOK, Paths
<1>2. PICK q \in Seq(Node) : q = c[l]
  BY <1>1
<1>3. PICK n \in Nat : n = Len(c[l])
  BY <1>1
<1>4. a \in 1..(n + 1) /\ b \in 1..(n + 1) /\ e \in 1..(n + 1)
  BY <1>3
<1>5. PICK d : Paths(d)' /\ d = [c EXCEPT ![l] = Swapped(@, a, b, e)]
  BY <1>3, <1>4, SwapPath
<1>6. d[l] = Swapped(q, a, b, e) /\ OnlyIn(c, d, l, data)
  BY <1>1, <1>2, <1>5 DEF OnlyIn
<1>7. /\ a \in 1..(Len(q) + 1) /\ b \in 1..(Len(q) + 1)
      /\ e \in 1..(Len(q) + 1) /\ a <= b /\ b <= e
  BY <1>2
<1>8. /\ Held(d, data) = L!MoveDown(Held(c, data), l, a, b, e)
      /\ Held(d, data) = L!MoveUp(Held(c, data), l, e, a, b)
  BY <1>1, <1>2, <1>6, <1>7, SwapReads
<1>9. QED
  BY <1>5, <1>8

(* DListSplice, within a list and between two.                             *)
LEMMA SpliceKeeps ==
  ASSUME IInv, NEW l \in created, NEW k \in created,
         NEW dest \in Iter(l), NEW from \in Iter(k), NEW to \in Iter(k),
         MaySplice(l, dest, k, from, to), DListSplice(dest, from, to),
         from # to, dest # to,
         NEW a, NEW i, NEW j, a = Position(l, dest),
         i = Position(k, from), j = Position(k, to)
  PROVE  /\ IInv'
         /\ l # k => Contents' = L!Splice(Contents, l, a, k, i, j)
         /\ l = k /\ a < i => Contents' = L!MoveDown(Contents, l, a, i, j)
         /\ l = k /\ ~(a < i) => Contents' = L!MoveUp(Contents, l, a, i, j)
         /\ i < j
         /\ l = k => a < i \/ j < a
<1> PICK c : c = Chain
  OBVIOUS
<1>1. /\ TypeOK /\ Mirrored /\ Paths(c)
      /\ c \in [List -> Seq(Node)] /\ created \subseteq List
      /\ l \in List /\ k \in List
  BY Before
<1> PICK n \in Nat, o \in Nat : n = Len(c[l]) /\ o = Len(c[k])
  BY <1>1, Before
<1>2. /\ a \in 1..(n + 1) /\ At(c, l, a) = dest
      /\ prev[dest] = At(c, l, a - 1)
  BY Placed
<1>3. /\ i \in 1..(o + 1) /\ At(c, k, i) = from
      /\ prev[from] = At(c, k, i - 1)
  BY Placed
<1>4. /\ j \in 1..(o + 1) /\ At(c, k, j) = to
      /\ prev[to] = At(c, k, j - 1)
  BY Placed
<1>5. i < j /\ from # to
  <2>1. i <= j /\ from # to
    BY DEF MaySplice, InOrder
  <2>2. QED
    BY <1>3, <1>4, <2>1
<1>6. l = k => dest # to /\ (a < i \/ j < a)
  <2> SUFFICES ASSUME l = k
               PROVE  dest # to /\ (a < i \/ j < a)
    OBVIOUS
  <2>1. dest # to /\ dest \notin ToSet(Segment(k, from, to))
    BY DEF MaySplice
  <2>2. a # j /\ a \in 1..(o + 1)
    BY <1>2, <1>4, <2>1
  <2>3. ASSUME i <= a, a < j
        PROVE  FALSE
    <3>1. Segment(k, from, to) = SubSeq(c[k], i, j - 1)
      BY <1>1, Before DEF Segment
    <3>2. i \in 1..(Len(c[k]) + 1) /\ j \in 1..(Len(c[k]) + 1)
      BY <1>3, <1>4
    <3>3. a \in i..(j - 1) /\ a \in 1..Len(c[k])
      BY <2>2, <2>3, <3>2
    <3>4. dest = c[k][a]
      BY <1>1, <1>2, <3>3, Places
    <3>5. c[k][a] \in ToSet(SubSeq(c[k], i, j - 1))
      BY <1>1, <3>2, <3>3, InSegment
    <3>6. QED
      BY <2>1, <3>1, <3>4, <3>5
  <2>4. QED
    BY <1>3, <1>4, <2>1, <2>2, <2>3
<1>7. dest # from /\ dest # to
  <2>1. a \in 0..(Len(c[l]) + 1)
    BY <1>2
  <2>2. i \in 0..(Len(c[k]) + 1) /\ j \in 0..(Len(c[k]) + 1)
    BY <1>3, <1>4
  <2>3. dest = from => l = k /\ a = i
    BY <1>1, <1>2, <1>3, <2>1, <2>2, Apart
  <2>4. dest = to => l = k /\ a = j
    BY <1>1, <1>2, <1>4, <2>1, <2>2, Apart
  <2>5. a = i => ~(a < i) /\ ~(j < a)
    BY <1>3, <1>4, <1>5
  <2>6. QED
    BY <1>6, <2>3, <2>4, <2>5
<1>8. dest \in HasPrev /\ from \in HasPrev /\ to \in HasPrev
  <2>1. \A g \in created : \A x \in 1..(Len(c[g]) + 1) : At(c, g, x) \in HasPrev
    <3> SUFFICES ASSUME NEW g \in created, NEW x \in 1..(Len(c[g]) + 1)
                 PROVE  At(c, g, x) \in HasPrev
      OBVIOUS
    <3>1. /\ x - 1 \in 0..Len(c[g]) /\ (x - 1) + 1 = x
          /\ x - 1 \in 0..(Len(c[g]) + 1) /\ x \in 0..(Len(c[g]) + 1)
      BY <1>1, Places
    <3>2. next[At(c, g, x - 1)] = At(c, g, x)
      BY <1>1, <3>1 DEF Paths
    <3>3. At(c, g, x - 1) \in Place /\ At(c, g, x) \in Place
      BY <1>1, <3>1, Places
    <3>4. QED
      BY <1>1, <3>2, <3>3, Pointers, Dummies
  <2>2. QED
    BY <1>2, <1>3, <1>4, <2>1
<1>9. /\ TypeOK' /\ Mirrored'
      /\ next'[prev[from]] = to
      /\ next'[prev[dest]] = from
      /\ next'[prev[to]] = dest
      /\ \A p \in Place : p \notin {prev[from], prev[dest], prev[to]} =>
           next'[p] = next[p]
  BY <1>1, <1>5, <1>7, <1>8, SpliceRewires
<1>10. allocated' = allocated /\ created' = created
  BY DEF DListSplice
<1>11. Splices(c, l, a, k, i, j)
  BY <1>2, <1>3, <1>4, <1>9, <1>10 DEF Splices
<1>12. data' = data /\ Contents = Held(c, data)
  BY Before DEF DListSplice
<1>13. /\ a \in 1..(Len(c[l]) + 1) /\ i \in 1..(Len(c[k]) + 1)
       /\ j \in 1..(Len(c[k]) + 1)
  BY <1>2, <1>3, <1>4
<1>14. ASSUME l # k
       PROVE  \E d : /\ Paths(d)'
                     /\ Held(d, data) = L!Splice(Contents, l, a, k, i, j)
  BY <1>1, <1>5, <1>11, <1>12, <1>13, <1>14, SpliceMoves
<1>15. ASSUME l = k, a < i
       PROVE  \E d : /\ Paths(d)'
                     /\ Held(d, data) = L!MoveDown(Contents, l, a, i, j)
  <2>1. Swaps(c, l, a, i, j)
    BY <1>11, <1>15 DEF Splices, Swaps
  <2>2. QED
    BY <1>1, <1>5, <1>12, <1>13, <1>15, <2>1, SwapMoves
<1>16. ASSUME l = k, j < a
       PROVE  \E d : /\ Paths(d)'
                     /\ Held(d, data) = L!MoveUp(Contents, l, a, i, j)
  <2>1. Swaps(c, l, i, j, a)
    BY <1>11, <1>16 DEF Splices, Swaps
  <2>2. QED
    BY <1>1, <1>5, <1>12, <1>13, <1>16, <2>1, SwapMoves
<1>17. CASE l # k
  <2>1. IInv' /\ Contents' = L!Splice(Contents, l, a, k, i, j)
    BY <1>9, <1>12, <1>14, <1>17, Kept
  <2>2. QED
    BY <1>5, <1>17, <2>1
<1>18. CASE l = k /\ a < i
  <2>1. IInv' /\ Contents' = L!MoveDown(Contents, l, a, i, j)
    BY <1>9, <1>12, <1>15, <1>18, Kept
  <2>2. QED
    BY <1>5, <1>18, <2>1
<1>19. CASE l = k /\ j < a
  <2>1. IInv' /\ Contents' = L!MoveUp(Contents, l, a, i, j)
    BY <1>9, <1>12, <1>16, <1>19, Kept
  <2>2. ~(a < i)
    BY <1>5, <1>13, <1>19
  <2>3. QED
    BY <1>5, <1>19, <2>1, <2>2
<1>20. QED
  BY <1>6, <1>17, <1>18, <1>19

\* g is a function that Found of Lists may choose.
Matching(g, t, match) ==
  g = [n \in 0..Len(t) |-> IF n = 0 THEN << >>
                           ELSE IF t[n] \in match
                                THEN Append(g[n - 1], t[n]) ELSE g[n - 1]]

\* What Lists finds is what is picked.
IsPicked(h, k, i, j, match) ==
  LET t == L!Part(h[k], i, j) IN
  \E g : /\ Picks(g, t, Hits(t, match), Len(t))
         /\ L!Found(h, k, i, j, match) = g[Len(t)]

(* What Lists finds among values is what is picked of them.                *)
LEMMA MatchPicks ==
  ASSUME NEW h, NEW k, NEW i, NEW j, NEW match,
         Len(L!Part(h[k], i, j)) \in Nat
  PROVE  IsPicked(h, k, i, j, match)
<1>1. PICK t : t = L!Part(h[k], i, j)
  OBVIOUS
<1>2. Len(t) \in Nat
  BY <1>1
<1>3. \A n \in 0..Len(t) : n # 0 => n \in 1..Len(t)
  BY <1>2
<1> DEFINE H == Hits(t, match)
<1>4. \A n \in 1..Len(t) : n \in H <=> t[n] \in match
  BY DEF Hits
<1> HIDE DEF H
<1>5. ASSUME NEW g
      PROVE  Matching(g, t, match) <=> Picks(g, t, H, Len(t))
  <2>1. \A n \in 0..Len(t) :
          (IF n = 0 THEN << >>
           ELSE IF t[n] \in match THEN Append(g[n - 1], t[n]) ELSE g[n - 1])
          = (IF n = 0 THEN << >>
             ELSE IF n \in H THEN Append(g[n - 1], t[n]) ELSE g[n - 1])
    BY <1>3, <1>4
  <2>2. [n \in 0..Len(t) |->
           IF n = 0 THEN << >>
           ELSE IF t[n] \in match THEN Append(g[n - 1], t[n]) ELSE g[n - 1]]
          = [n \in 0..Len(t) |->
               IF n = 0 THEN << >>
               ELSE IF n \in H THEN Append(g[n - 1], t[n]) ELSE g[n - 1]]
    BY <2>1, Zenon
  <2>3. QED
    BY <2>2 DEF Matching, Picks
<1> DEFINE f == CHOOSE g : Matching(g, t, match)
<1>6. Matching(f, t, match)
  <2>1. \E g : Picks(g, t, H, Len(t))
    BY <1>2, PicksExists
  <2>2. \E g : Matching(g, t, match)
    BY <1>5, <2>1
  <2>3. QED
    BY <2>2
<1>7. L!Found(h, k, i, j, match) = f[Len(t)]
  BY <1>1 DEF L!Found, Matching
<1> HIDE DEF f
<1>8. Picks(f, t, H, Len(t))
  BY <1>5, <1>6
<1>9. \E g : /\ Picks(g, t, Hits(t, match), Len(t))
             /\ L!Found(h, k, i, j, match) = g[Len(t)]
  BY <1>7, <1>8 DEF H
<1>10. QED
  BY <1>1, <1>9 DEF IsPicked

\* The values g are those of the nodes f.
AreValues(g, f) ==
  /\ f \in Seq(Node) /\ g \in Seq(Value \cup {NULL})
  /\ Len(g) = Len(f)
  /\ \A x \in 1..Len(f) : g[x] = data[f[x]]

(* So it is the values of the nodes that are found.                        *)
LEMMA FoundReads ==
  ASSUME TypeOK, NEW c \in [List -> Seq(Node)], NEW k \in List,
         NEW i \in 1..(Len(c[k]) + 1), NEW j \in 1..(Len(c[k]) + 1), i <= j,
         NEW match
  PROVE  AreValues(L!Found(Held(c, data), k, i, j, match),
                   Found(SubSeq(c[k], i, j - 1), match))
<1> DEFINE V == Value \cup {NULL}
<1>1. PICK s : s = SubSeq(c[k], i, j - 1)
  OBVIOUS
<1>2. PICK q \in Seq(Node) : q = c[k]
  OBVIOUS
<1>3. /\ Held(c, data)[k] = Mapped(q, data) /\ Mapped(q, data) \in Seq(V)
      /\ Len(Mapped(q, data)) = Len(q)
      /\ \A x \in 1..Len(q) : Mapped(q, data)[x] = data[q[x]]
  BY <1>2, ValuesTyped
<1>4. PICK w \in Seq(V) : w = Mapped(q, data)
  BY <1>3
<1>5. PICK t : t = SubSeq(w, i, j - 1)
  OBVIOUS
<1>6. /\ i \in 1..(Len(q) + 1) /\ j - 1 \in 0..Len(q) /\ i <= (j - 1) + 1
      /\ (j - 1) - i + 1 \in Nat
  BY <1>2
<1>7. PICK n \in Nat : n = (j - 1) - i + 1
  BY <1>6
<1>8. /\ s \in Seq(Node) /\ Len(s) = n
      /\ \A x \in 1..n : s[x] = q[i + x - 1]
  <2>1. s = SubSeq(q, i, j - 1)
    BY <1>2, <1>1
  <2>2. QED
    BY <1>6, <1>7, <2>1, PieceIs
<1>9. /\ t \in Seq(V) /\ Len(t) = n
      /\ \A x \in 1..n : t[x] = w[i + x - 1]
  <2>1. i \in 1..(Len(w) + 1) /\ j - 1 \in 0..Len(w)
    BY <1>3, <1>4, <1>6
  <2> HIDE DEF V
  <2>2. QED
    BY <1>5, <1>6, <1>7, <2>1, PieceIs
<1>10. t = Mapped(s, data)
  <2>1. ASSUME NEW x \in 1..n
        PROVE  t[x] = data[s[x]]
    <3>1. i + x - 1 \in 1..Len(q)
      BY <1>6, <1>7
    <3>2. w[i + x - 1] = data[q[i + x - 1]]
      BY <1>3, <1>4, <3>1
    <3>3. QED
      BY <1>8, <1>9, <3>2
  <2>2. t = [x \in 1..n |-> t[x]]
    BY <1>9, SeqIs
  <2>3. Mapped(s, data) = [x \in 1..n |-> data[s[x]]]
    BY <1>8 DEF Mapped
  <2>4. QED
    BY <2>1, <2>2, <2>3, Zenon
<1> DEFINE H == Hits(Mapped(s, data), match)
<1>11. PICK y : Picks(y, s, H, Len(s)) /\ Found(s, match) = y[Len(s)]
  BY <1>8, FoundPicks
<1>12. PICK z : /\ Picks(z, Mapped(s, data), H, Len(s))
                /\ L!Found(Held(c, data), k, i, j, match) = z[Len(s)]
  <2>1. L!Part(Held(c, data)[k], i, j) = Mapped(s, data)
    BY <1>3, <1>4, <1>5, <1>10 DEF L!Part
  <2>2. Len(Mapped(s, data)) = Len(s) /\ Len(s) \in Nat
    BY <1>8, <1>9, <1>10
  <2>3. PICK h : h = Held(c, data)
    OBVIOUS
  <2>4. L!Part(h[k], i, j) = Mapped(s, data)
    BY <2>1, <2>3
  <2>5. Len(L!Part(h[k], i, j)) \in Nat
    BY <2>2, <2>4
  <2>6. IsPicked(h, k, i, j, match)
    BY <2>5, MatchPicks
  <2>7. PICK z : /\ Picks(z, Mapped(s, data), Hits(Mapped(s, data), match),
                          Len(Mapped(s, data)))
                 /\ L!Found(h, k, i, j, match) = z[Len(Mapped(s, data))]
    BY <2>4, <2>6 DEF IsPicked
  <2>8. QED
    BY <2>2, <2>3, <2>7
<1> HIDE DEF H
<1>13. Mapped(s, data) \in Seq(V) /\ s \in Seq(Node)
  BY <1>8, <1>9, <1>10
<1> HIDE DEF V
<1>14. Len(s) \in 0..Len(s)
  BY <1>8
<1>15. /\ Len(z[Len(s)]) = Len(y[Len(s)])
       /\ \A x \in 1..Len(y[Len(s)]) : z[Len(s)][x] = data[y[Len(s)][x]]
  BY <1>11, <1>12, <1>13, <1>14, PicksMapped
<1>16. y[Len(s)] \in Seq(Node)
  BY <1>11, <1>13, <1>14, PicksTyped
<1>17. z[Len(s)] \in Seq(V)
  <2>1. Len(Mapped(s, data)) = Len(s)
    BY <1>8, <1>9, <1>10
  <2>2. QED
    BY <1>12, <1>13, <1>14, <2>1, PicksTyped
<1>18. Found(SubSeq(c[k], i, j - 1), match) = y[Len(s)]
  BY <1>1, <1>11
<1>19. QED
  BY <1>12, <1>15, <1>16, <1>17, <1>18 DEF V, AreValues

\* What a copy of the first m values of g to the end of l makes of them.
Copied(h, l, g, m) == Put(h, l, h[l] \o SubSeq(g, 1, m))

(* New nodes at the end of a list, with the values of nodes that were      *)
(* found, are that many values found at the end of what it holds.          *)
LEMMA CopyReads ==
  ASSUME TypeOK, Mirrored, NodesAreOwned, NEW c, Paths(c),
         NEW l \in created, NEW new \in Seq(Free), new \in Seq(Node),
         NEW f, NEW g, AreValues(g, f), Copies(new, f), NEW d,
         OnlyIn(c, d, l, data),
         d[l] = Opened(c[l], Len(c[l]) + 1, new, 1, Len(new))
  PROVE  /\ Held(d, data') = Copied(Held(c, data), l, g, Len(new))
         /\ Len(new) \in 0..Len(g)
<1>1. c \in [List -> Seq(Node)] /\ l \in List
  BY DEF Paths, TypeOK
<1>2. PICK q \in Seq(Node) : q = c[l]
  BY <1>1
<1>3. PICK m \in Nat : m = Len(new)
  OBVIOUS
<1> DEFINE V == Value \cup {NULL}
<1>4. /\ g \in Seq(V) /\ m <= Len(g) /\ Len(g) \in Nat
      /\ \A x \in 1..m : data'[new[x]] = g[x]
  BY <1>3 DEF AreValues, Copies
<1>5. \A k \in List : \A x \in 1..Len(c[k]) :
        data'[c[k][x]] = data[c[k][x]]
  <2> SUFFICES ASSUME NEW k \in List, NEW x \in 1..Len(c[k])
               PROVE  data'[c[k][x]] = data[c[k][x]]
    OBVIOUS
  <2>1. c[k][x] \in Node /\ c[k][x] \in allocated
    BY Standing
  <2>2. \A y \in 1..Len(new) : new[y] \in Free
    BY ElementIn, Zenon
  <2>3. \A y \in 1..Len(new) : c[k][x] # new[y]
    BY <2>1, <2>2 DEF Free
  <2>4. QED
    BY <2>1, <2>3 DEF Copies
<1>6. /\ Held(c, data)[l] = Mapped(q, data) /\ Mapped(q, data) \in Seq(V)
      /\ Len(Mapped(q, data)) = Len(q) /\ Len(q) \in Nat
  BY <1>1, <1>2, ValuesTyped
<1> HIDE DEF V
<1>7. PICK t \in Seq(V) : t = Mapped(new, data') /\ t = SubSeq(g, 1, m)
  <2>1. /\ SubSeq(g, 1, m) \in Seq(V) /\ Len(SubSeq(g, 1, m)) = m
        /\ \A x \in 1..m : SubSeq(g, 1, m)[x] = g[x]
    BY <1>4
  <2>2. SubSeq(g, 1, m) = [x \in 1..m |-> SubSeq(g, 1, m)[x]]
    BY <2>1, SeqIs
  <2>3. Mapped(new, data') = [x \in 1..m |-> data'[new[x]]]
    BY <1>3 DEF Mapped
  <2>4. Mapped(new, data') = SubSeq(g, 1, m)
    BY <1>4, <2>1, <2>2, <2>3, Zenon
  <2>5. QED
    BY <2>1, <2>4
<1>8. Mapped(Opened(q, Len(q) + 1, new, 1, m), data')
        = Mapped(q, data) \o t
  <2>1. PICK D : D = data'
    OBVIOUS
  <2>2. PICK i : i = 1
    OBVIOUS
  <2>3. PICK a : a = Len(q) + 1
    OBVIOUS
  <2>4. /\ a \in 1..(Len(q) + 1) /\ i \in 1..(Len(new) + 1)
        /\ m \in 0..(Len(new) + 1 - i)
    BY <1>3, <1>6, <2>2, <2>3
  <2>5. Mapped(Opened(q, a, new, i, m), D)
          = Opened(Mapped(q, D), a, Mapped(new, D), i, m)
    BY <2>4, MappedOpened
  <2>6. Mapped(q, data') = Mapped(q, data)
    BY <1>1, <1>2, <1>5, SameRead
  <2>7. PICK u \in Seq(V) : u = Mapped(q, data) /\ Len(u) = Len(q)
    BY <1>6
  <2>8. Len(t) = m /\ SubSeq(t, 1, m) = t
    BY <1>4, <1>7
  <2>9. u \o SubSeq(t, 1, m) = Opened(u, Len(u) + 1, t, 1, m)
    <3>1. m \in 0..Len(t)
      BY <2>8
    <3>2. QED
      BY <3>1, EndOpens
  <2>10. u \o t = Opened(u, a, t, i, m)
    BY <2>2, <2>3, <2>7, <2>8, <2>9
  <2>11. QED
    BY <1>7, <2>1, <2>2, <2>3, <2>5, <2>6, <2>7, <2>10
<1>9. Mapped(d[l], data') = Held(c, data)[l] \o SubSeq(g, 1, m)
  BY <1>2, <1>3, <1>6, <1>7, <1>8
<1>10. OnlyIn(c, d, l, data')
  BY <1>5, SameRead DEF OnlyIn
<1>11. Held(d, data') = Put(Held(c, data), l, Mapped(d[l], data'))
  BY <1>1, <1>10, OneChanges
<1>12. QED
  BY <1>3, <1>4, <1>9, <1>11 DEF Copied

(* DListMultiFind, however far it comes.                                   *)
LEMMA MultiFindKeeps ==
  ASSUME IInv, NEW l \in created, NEW k \in created,
         NEW from \in Iter(k), NEW to \in Iter(k), InOrder(k, from, to),
         NEW match, NEW nodes \in SUBSET Free, NEW new \in SetToSeqs(nodes),
         DListMultiFind(l, Segment(k, from, to), match, new),
         NEW i, NEW j, i = Position(k, from), j = Position(k, to),
         NEW g, g = L!Found(Contents, k, i, j, match)
  PROVE  /\ IInv'
         /\ Contents' = L!MultiFind(Contents, l, g, Len(new))
         /\ Len(new) \in 0..Len(g)
<1> PICK c : c = Chain
  OBVIOUS
<1> PICK segment : segment = Segment(k, from, to)
  OBVIOUS
<1> PICK f : f = Found(segment, match)
  OBVIOUS
<1>1. /\ TypeOK /\ Mirrored /\ NodesAreOwned /\ Paths(c)
      /\ c \in [List -> Seq(Node)] /\ created \subseteq List
      /\ l \in List /\ k \in List /\ Contents = Held(c, data)
      /\ Elements(k) = c[k]
  BY Before
<1> PICK n \in Nat : n = Len(c[l])
  BY <1>1, Before
<1>2. segment = SubSeq(c[k], i, j - 1) /\ i <= j
      /\ i \in 1..(Len(c[k]) + 1) /\ j \in 1..(Len(c[k]) + 1)
  BY <1>1, Placed DEF Segment, InOrder
<1>3. segment \in Seq(Node)
  <2>1. c[k] \in Seq(Node)
    BY <1>1
  <2>2. PICK q \in Seq(Node) : q = c[k]
    BY <2>1
  <2>3. SubSeq(q, i, j - 1) \in Seq(Node)
    <3>1. i \in 1..(Len(q) + 1) /\ j \in 1..(Len(q) + 1)
      BY <1>2, <2>2
    <3>2. QED
      BY <3>1
  <2>4. QED
    BY <1>2, <2>2, <2>3
<1>4. AreValues(g, f)
  BY <1>1, <1>2, FoundReads
<1> PICK m \in Nat : m = Cardinality(nodes)
  <2>1. nodes \subseteq Node
    BY DEF Free
  <2>2. IsFiniteSet(nodes)
    BY <2>1, NodeIsFinite, FS_Subset
  <2>3. QED
    BY <2>2, FS_CardinalityType
<1>5. new \in [1..m -> nodes] /\ \A x, y \in 1..m : x # y => new[x] # new[y]
  BY DEF SetToSeqs
<1>6. /\ new \in Seq(Free) /\ Len(new) = m /\ new \in Seq(Node)
      /\ \A x, y \in 1..Len(new) : new[x] = new[y] => x = y
  <2>1. new \in [1..m -> Free] /\ new \in [1..m -> Node]
    BY <1>5 DEF Free
  <2>2. /\ new \in Seq(Free) /\ Len(new) = m /\ new \in Seq(Node)
    BY <2>1, Listed
  <2>3. QED
    BY <1>5, <2>2
<1>7. TypeOK' /\ Mirrored'
  BY <1>1, <1>3, <1>6, MultiFindRewires
<1> PICK T : T = Ending(l, new)
  OBVIOUS
<1>8. T = Gap(c, l, n + 1, new)
  <2>1. At(c, l, n + 1) = TailOf(l)
    BY <1>1, Places
  <2>2. prev[At(c, l, n + 1)] = At(c, l, n)
    BY <1>1, Back
  <2>3. (n + 1) - 1 = n
    OBVIOUS
  <2>4. QED
    BY <2>1, <2>2, <2>3 DEF Ending, Gap
<1>9. Extends(l, new) /\ Copies(new, f)
  BY <1>1, <1>3, <1>6, MultiFinds
<1>10. Inserts(c, l, n + 1, new)
  BY <1>8, <1>9 DEF Inserts, Extends
<1>11. PICK d : Paths(d)' /\ d = [c EXCEPT ![l] = Opened(@, n + 1, new, 1, m)]
  <2>1. n + 1 \in 1..(n + 1) /\ \A x \in 1..m : new[x] \in Free
    BY <1>6
  <2>2. QED
    BY <1>1, <1>6, <1>10, <2>1, InsertPath
<1>12. /\ OnlyIn(c, d, l, data)
       /\ d[l] = Opened(c[l], Len(c[l]) + 1, new, 1, Len(new))
  BY <1>1, <1>6, <1>11 DEF OnlyIn
<1>13. /\ Held(d, data') = Copied(Held(c, data), l, g, Len(new))
       /\ Len(new) \in 0..Len(g)
  BY <1>1, <1>4, <1>6, <1>9, <1>12, CopyReads
<1>14. L!MultiFind(Contents, l, g, Len(new))
         = Copied(Contents, l, g, Len(new))
  BY DEF L!MultiFind, Copied, Put
<1>15. QED
  BY <1>1, <1>7, <1>11, <1>13, <1>14, Kept

(* A call that changes no pointer keeps the invariant.                     *)
LEMMA DataKeeps ==
  ASSUME IInv, UNCHANGED <<next, prev, allocated, created>>,
         data' \in [Node -> Value \cup {NULL}], NEW c, c = Chain
  PROVE  IInv' /\ Contents' = Held(c, data')
<1>1. TypeOK /\ Mirrored /\ Paths(c)
  BY Before
<1>2. TypeOK'
  BY <1>1 DEF TypeOK, HeadOf, TailOf
<1>3. Mirrored'
  BY <1>1 DEF Mirrored
<1>4. Paths(c)'
  BY <1>1 DEF Paths, At, HeadOf, TailOf
<1>5. QED
  BY <1>2, <1>3, <1>4, Kept

(* And if it changes nothing, the lists hold what they held.               *)
LEMMA NothingKeeps ==
  ASSUME IInv, UNCHANGED vars
  PROVE  IInv' /\ Contents' = Contents
<1>1. PICK c : c = Chain
  OBVIOUS
<1>2. Contents = Held(c, data) /\ TypeOK
  BY <1>1, Before
<1>3. data' = data /\ UNCHANGED <<next, prev, allocated, created>>
  BY DEF vars
<1>4. data' \in [Node -> Value \cup {NULL}]
  BY <1>2, <1>3 DEF TypeOK
<1>5. QED
  BY <1>1, <1>2, <1>3, <1>4, DataKeeps

(* DListIterSetData, of any element of a list.                             *)
LEMMA SetKeeps ==
  ASSUME IInv, NEW l \in created, NEW iter \in ToSet(Elements(l)),
         NEW v \in Value, DListIterSetData(iter, v)
  PROVE  IInv' /\ Contents' = L!SetData(Contents, l, Position(l, iter), v)
<1>1. PICK c : c = Chain
  OBVIOUS
<1>2. PICK i : i = Position(l, iter)
  OBVIOUS
<1>3. /\ TypeOK /\ Mirrored /\ Paths(c) /\ NodesAreOwned
      /\ c \in [List -> Seq(Node)] /\ l \in List
      /\ Len(c[l]) \in Nat /\ Contents = Held(c, data)
  BY <1>1, Before
<1>4. i \in 1..Len(c[l]) /\ c[l][i] = iter
  <2>1. i \in 1..Len(c[l]) /\ At(c, l, i) = iter
    BY <1>1, <1>2, Placed DEF Iter
  <2>2. QED
    BY <1>3, <2>1, Places
<1>5. /\ data' = [data EXCEPT ![iter] = v]
      /\ UNCHANGED <<next, prev, allocated, created>>
  BY DEF DListIterSetData
<1>6. iter \in Node /\ data \in [Node -> Value \cup {NULL}]
  BY <1>3, <1>4, Standing DEF TypeOK
<1>7. data' \in [Node -> Value \cup {NULL}]
  BY <1>5, <1>6
<1>8. IInv' /\ Contents' = Held(c, data')
  BY <1>1, <1>5, <1>7, DataKeeps
<1>9. ASSUME NEW k \in List, NEW x \in 1..Len(c[k])
      PROVE  data'[c[k][x]] = IF k = l /\ x = i THEN v ELSE data[c[k][x]]
  <2>1. CASE k = l /\ x = i
    BY <1>4, <1>5, <1>6, <2>1
  <2>2. CASE ~(k = l /\ x = i)
    <3>1. c[k][x] \in Node /\ c[k][x] # iter
      BY <1>3, <1>4, <2>2, Standing
    <3>2. QED
      BY <1>5, <1>6, <2>2, <3>1
  <2>3. QED
    BY <2>1, <2>2
<1>10. PICK q \in Seq(Node) : q = c[l]
  BY <1>3
<1>11. Mapped(q, data') = [Mapped(q, data) EXCEPT ![i] = v]
  <2>1. \A x \in 1..Len(q) : data'[q[x]] = IF x = i THEN v ELSE data[q[x]]
    BY <1>3, <1>9, <1>10
  <2>2. [Mapped(q, data) EXCEPT ![i] = v]
          = [x \in 1..Len(q) |-> IF x = i THEN v ELSE data[q[x]]]
    BY DEF Mapped
  <2>3. QED
    BY <2>1, <2>2 DEF Mapped
<1>12. OnlyIn(c, c, l, data')
  <2>1. \A k \in List : k # l =>
          \A x \in 1..Len(c[k]) : data'[c[k][x]] = data[c[k][x]]
    BY <1>9
  <2>2. QED
    BY <2>1, SameRead DEF OnlyIn
<1>13. Held(c, data') = Put(Held(c, data), l, Mapped(c[l], data'))
  BY <1>3, <1>12, OneChanges
<1>14. Held(c, data)[l] = Mapped(q, data)
  BY <1>3, <1>10 DEF Held
<1>15. Held(c, data') = L!SetData(Held(c, data), l, i, v)
  <2>1. PICK h : h = Held(c, data)
    OBVIOUS
  <2>2. Held(c, data') = Put(h, l, [h[l] EXCEPT ![i] = v])
    BY <1>10, <1>11, <1>13, <1>14, <2>1
  <2>3. L!SetData(h, l, i, v) = Put(h, l, [h[l] EXCEPT ![i] = v])
    BY DEF L!SetData, Put
  <2>4. QED
    BY <2>1, <2>2, <2>3
<1>16. QED
  BY <1>2, <1>3, <1>8, <1>15

(* The place of an iterator is a place in what the list holds.             *)
LEMMA PlacedIn ==
  ASSUME IInv, NEW l \in created, NEW iter \in Iter(l)
  PROVE  /\ Position(l, iter) \in L!Iter(Contents, l)
         /\ iter \in ToSet(Elements(l)) =>
              Position(l, iter) \in L!Index(Contents, l)
<1>1. PICK c : c = Chain
  OBVIOUS
<1>2. /\ TypeOK /\ c \in [List -> Seq(Node)] /\ l \in List
      /\ Contents = Held(c, data)
  BY <1>1, Before
<1>3. Len(Contents[l]) = Len(c[l])
  BY <1>2, ValuesTyped
<1>4. /\ Position(l, iter) \in 1..(Len(c[l]) + 1)
      /\ iter \in ToSet(Elements(l)) => Position(l, iter) \in 1..Len(c[l])
  BY <1>1, Placed
<1>5. QED
  BY <1>3, <1>4 DEF L!Iter, L!Index

(* The ends of a list are places in it.                                    *)
LEMMA Ends ==
  ASSUME IInv, NEW l \in created
  PROVE  /\ TailOf(l) \in Iter(l)
         /\ next[HeadOf(l)] \in Iter(l)
         /\ next[HeadOf(l)] \in Node =>
              next[HeadOf(l)] \in ToSet(Elements(l))
         /\ prev[TailOf(l)] \in Node =>
              prev[TailOf(l)] \in ToSet(Elements(l))
         /\ Position(l, TailOf(l)) = Len(Contents[l]) + 1
         /\ Position(l, next[HeadOf(l)]) = 1
         /\ prev[TailOf(l)] \in Node =>
              Position(l, prev[TailOf(l)]) = Len(Contents[l])
<1> PICK c : c = Chain
  OBVIOUS
<1>1. /\ TypeOK /\ Mirrored /\ Paths(c)
      /\ c \in [List -> Seq(Node)] /\ l \in List
      /\ Elements(l) = c[l] /\ Contents = Held(c, data)
  BY Before
<1> PICK n \in Nat : n = Len(c[l])
  BY <1>1, Before
<1>2. \A i \in 1..n : At(c, l, i) \in ToSet(Elements(l))
  <2>1. DOMAIN c[l] = 1..n
    BY <1>1
  <2>2. \A i \in 1..n : At(c, l, i) = c[l][i]
    BY <1>1, Places
  <2>3. QED
    BY <1>1, <2>1, <2>2 DEF ToSet
<1>3. At(c, l, 0) = HeadOf(l) /\ At(c, l, n + 1) = TailOf(l)
  BY <1>1, Places
<1>4. next[HeadOf(l)] = At(c, l, 1)
  <2>1. 0 \in 0..n /\ 0 + 1 = 1
    OBVIOUS
  <2>2. next[At(c, l, 0)] = At(c, l, 0 + 1)
    BY <1>1, <2>1 DEF Paths
  <2>3. QED
    BY <1>3, <2>1, <2>2
<1>5. prev[TailOf(l)] = At(c, l, n)
  BY <1>1, <1>3, Back
<1>6. TailOf(l) \in Iter(l) /\ ToSet(Elements(l)) \subseteq Iter(l)
  BY DEF Iter
<1>7. HeadOf(l) \notin Node /\ TailOf(l) \notin Node
  BY <1>1, Dummies
<1>8. Len(Contents[l]) = n
  BY <1>1, ValuesTyped
<1>9. \A x \in 1..(n + 1) :
        At(c, l, x) \in Iter(l) => Position(l, At(c, l, x)) = x
  <2> SUFFICES ASSUME NEW x \in 1..(n + 1), At(c, l, x) \in Iter(l)
               PROVE  Position(l, At(c, l, x)) = x
    OBVIOUS
  <2>1. PICK i : i = Position(l, At(c, l, x))
    OBVIOUS
  <2>2. i \in 1..(n + 1) /\ At(c, l, i) = At(c, l, x)
    BY <2>1, Placed
  <2>3. i \in 0..(Len(c[l]) + 1) /\ x \in 0..(Len(c[l]) + 1)
    BY <2>2
  <2>4. i = x
    BY <1>1, <2>2, <2>3, Apart
  <2>5. QED
    BY <2>1, <2>4
<1>10. /\ next[HeadOf(l)] \in Iter(l)
       /\ next[HeadOf(l)] \in Node =>
            next[HeadOf(l)] \in ToSet(Elements(l))
       /\ prev[TailOf(l)] \in Node =>
            prev[TailOf(l)] \in ToSet(Elements(l)) /\ n \in 1..(n + 1)
  <2>1. CASE n = 0
    BY <1>3, <1>4, <1>5, <1>6, <1>7, <2>1
  <2>2. CASE n # 0
    <3>1. 1 \in 1..n /\ n \in 1..n /\ n \in 1..(n + 1)
      BY <2>2
    <3>2. QED
      BY <1>2, <1>4, <1>5, <1>6, <3>1
  <2>3. QED
    BY <2>1, <2>2
<1>11. Position(l, TailOf(l)) = n + 1
  BY <1>3, <1>6, <1>9
<1>12. Position(l, next[HeadOf(l)]) = 1
  <2>1. 1 \in 1..(n + 1)
    OBVIOUS
  <2>2. QED
    BY <1>4, <1>9, <1>10, <2>1
<1>13. prev[TailOf(l)] \in Node => Position(l, prev[TailOf(l)]) = n
  BY <1>5, <1>6, <1>9, <1>10
<1>14. QED
  BY <1>6, <1>8, <1>10, <1>11, <1>12, <1>13

(* Every step keeps the invariant, and is a call that Lists describes -    *)
(* if every splice has something to move.                                  *)
LEMMA NextKeeps ==
  ASSUME MovesNothing = FALSE, IInv, [Next]_vars
  PROVE  IInv' /\ (L!Call(Contents, Contents') \/ Contents' = Contents)
<1>1. created \subseteq List
  BY DEF IInv, TypeOK
<1>2. \A l \in List : L!Change(Contents, Contents', l) =>
        L!Call(Contents, Contents')
  BY DEF L!Call
<1>3. \A l, k \in List : l # k /\ L!Exchange(Contents, Contents', l, k) =>
        L!Call(Contents, Contents')
  BY DEF L!Call
<1>4. ASSUME NEW l \in List, DListCreate(l) \/ DListDestroy(l)
      PROVE  IInv' /\ L!Call(Contents, Contents')
  <2>1. IInv' /\ Contents' = L!Destroy(Contents, l)
    BY <1>4, CreateKeeps, DestroyKeeps
  <2>2. QED
    BY <1>2, <2>1 DEF L!Change
<1>5. ASSUME NEW l \in created, Insertion(l)
      PROVE  IInv' /\ L!Call(Contents, Contents')
  <2> PICK n \in Node, v \in Value :
        \/ \E iter \in Iter(l) : DListInsertBefore(iter, n, v)
        \/ DListPushBack(l, n, v)
        \/ DListPushFront(l, n, v)
    BY <1>5 DEF Insertion
  <2>1. PICK iter \in Iter(l) : DListInsertBefore(iter, n, v)
    BY Ends DEF DListPushBack, DListPushFront
  <2>2. IInv' /\ Contents' = L!Insert(Contents, l, Position(l, iter), v)
    BY <2>1, InsertKeeps
  <2>3. Position(l, iter) \in L!Iter(Contents, l)
    BY PlacedIn
  <2>4. L!Change(Contents, Contents', l)
    BY <2>2, <2>3 DEF L!Change
  <2>5. QED
    BY <1>1, <1>2, <2>2, <2>4
<1>6. ASSUME NEW l \in created, Removal(l)
      PROVE  IInv' /\ L!Call(Contents, Contents')
  <2>1. PICK iter \in ToSet(Elements(l)) : DListRemove(iter)
    BY <1>6, Ends DEF Removal, DListPopBack, DListPopFront
  <2>2. IInv' /\ Contents' = L!Erase(Contents, l, Position(l, iter))
    BY <2>1, RemoveKeeps
  <2>3. Position(l, iter) \in L!Index(Contents, l)
    BY PlacedIn DEF Iter
  <2>4. L!Change(Contents, Contents', l)
    BY <2>2, <2>3 DEF L!Change
  <2>5. QED
    BY <1>1, <1>2, <2>2, <2>4
<1>7. ASSUME NEW l \in created, NEW n \in ToSet(Elements(l)), NEW v \in Value,
             DListIterSetData(n, v)
      PROVE  IInv' /\ L!Call(Contents, Contents')
  <2>1. IInv' /\ Contents' = L!SetData(Contents, l, Position(l, n), v)
    BY <1>7, SetKeeps
  <2>2. Position(l, n) \in L!Index(Contents, l)
    BY PlacedIn DEF Iter
  <2>3. L!Change(Contents, Contents', l)
    BY <2>1, <2>2 DEF L!Change
  <2>4. QED
    BY <1>1, <1>2, <2>1, <2>3
<1>8. ASSUME NEW l \in created, NEW k \in created, Splicing(l, k)
      PROVE  IInv' /\ L!Call(Contents, Contents')
  <2>1. PICK dest \in Iter(l), from \in Iter(k), to \in Iter(k) :
          MaySplice(l, dest, k, from, to) /\ DListSplice(dest, from, to)
    BY <1>8 DEF Splicing
  <2>2. PICK a, i, j : /\ a = Position(l, dest) /\ i = Position(k, from)
                       /\ j = Position(k, to)
    OBVIOUS
  <2>3. /\ a \in L!Iter(Contents, l) /\ i \in L!Iter(Contents, k)
        /\ j \in L!Iter(Contents, k)
    BY <2>2, PlacedIn
  <2>4. /\ IInv' /\ i < j
        /\ l # k => Contents' = L!Splice(Contents, l, a, k, i, j)
        /\ l = k /\ a < i => Contents' = L!MoveDown(Contents, l, a, i, j)
        /\ l = k /\ ~(a < i) => Contents' = L!MoveUp(Contents, l, a, i, j)
        /\ l = k => a < i \/ j < a
    <3>1. from # to /\ dest # to
      BY <2>1 DEF MaySplice
    <3>2. QED
      BY <2>1, <2>2, <3>1, SpliceKeeps
  <2>5. i <= j /\ (j < a => ~(a < i))
    BY <2>3, <2>4 DEF L!Iter
  <2>6. CASE l # k
    <3>1. L!Exchange(Contents, Contents', l, k)
      BY <2>3, <2>4, <2>5, <2>6 DEF L!Exchange
    <3>2. QED
      BY <1>1, <1>3, <2>4, <2>6, <3>1
  <2>7. CASE l = k
    <3>1. L!Change(Contents, Contents', l)
      BY <2>3, <2>4, <2>5, <2>7 DEF L!Change
    <3>2. QED
      BY <1>1, <1>2, <2>4, <3>1
  <2>8. QED
    BY <2>6, <2>7
<1>9. ASSUME NEW l \in created, NEW k \in created, MultiFinding(l, k)
      PROVE  IInv' /\ L!Call(Contents, Contents')
  <2> PICK from \in Iter(k), to \in Iter(k), match \in SUBSET Value,
           nodes \in SUBSET Free :
        \E new \in SetToSeqs(nodes) :
          /\ l # k
          /\ InOrder(k, from, to)
          /\ DListMultiFind(l, Segment(k, from, to), match, new)
    BY <1>9 DEF MultiFinding
  <2>1. PICK new \in SetToSeqs(nodes) :
          /\ l # k
          /\ InOrder(k, from, to)
          /\ DListMultiFind(l, Segment(k, from, to), match, new)
    OBVIOUS
  <2>2. PICK i, j : i = Position(k, from) /\ j = Position(k, to)
    OBVIOUS
  <2>3. PICK g : g = L!Found(Contents, k, i, j, match)
    OBVIOUS
  <2>4. /\ i \in L!Iter(Contents, k) /\ j \in L!Iter(Contents, k)
        /\ i <= j
    BY <2>1, <2>2, PlacedIn DEF InOrder
  <2>5. /\ IInv' /\ Contents' = L!MultiFind(Contents, l, g, Len(new))
        /\ Len(new) \in 0..Len(g)
    BY <2>1, <2>2, <2>3, MultiFindKeeps
  <2>6. L!Exchange(Contents, Contents', l, k)
    BY <2>3, <2>4, <2>5 DEF L!Exchange
  <2>7. QED
    BY <1>1, <1>3, <2>1, <2>5, <2>6
<1>10. CASE UNCHANGED vars
  BY <1>10, NothingKeeps
<1>11. QED
  BY <1>4, <1>5, <1>6, <1>7, <1>8, <1>9, <1>10 DEF Next

(* Before the first call nothing is linked.                                *)
LEMMA InitPaths ==
  ASSUME Init
  PROVE  TypeOK /\ Mirrored /\ Paths([l \in List |-> << >>])
<1>1. /\ next = [p \in Place |-> NULL] /\ prev = [p \in Place |-> NULL]
      /\ data = [n \in Node |-> NULL]
      /\ allocated = {} /\ created = {}
  BY DEF Init
<1>2. TypeOK
  BY <1>1 DEF TypeOK
<1>3. Mirrored
  BY <1>1 DEF Mirrored
<1>4. Paths([l \in List |-> << >>])
  BY <1>1 DEF Paths
<1>5. QED
  BY <1>2, <1>3, <1>4

(* Whatever calls come, in whatever order, each finds the lists in order,  *)
(* if every splice has something to move - what dlist.h does not ask for.  *)
THEOREM Invariance ==
  ASSUME MovesNothing = FALSE
  PROVE  Spec => []IInv
<1>1. Init => IInv
  BY InitPaths, PathsToInv
<1>2. IInv /\ [Next]_vars => IInv'
  BY NextKeeps
<1>3. QED
  BY <1>1, <1>2, PTL DEF Spec

(* From begin to end, a list is the sequence of values that some calls of  *)
(* the header would make it, if every splice has something to move.        *)
THEOREM ListsImplemented ==
  ASSUME MovesNothing = FALSE
  PROVE  Spec => IsLists
<1>1. Init => L!Init
  <2> SUFFICES ASSUME Init
               PROVE  Contents = [l \in List |-> << >>]
    BY DEF L!Init
  <2>1. PICK c : c = [l \in List |-> << >>]
    OBVIOUS
  <2>2. TypeOK /\ Mirrored /\ Paths(c)
    BY <2>1, InitPaths
  <2>3. Contents = Held(c, data)
    BY <2>2, Reads
  <2>4. \A l \in List : Mapped(c[l], data) = << >>
    BY <2>1 DEF Mapped
  <2>5. QED
    BY <2>3, <2>4 DEF Held
<1>2. IInv /\ [Next]_vars => [L!Call(Contents, Contents')]_Contents
  BY NextKeeps
<1>3. Spec => []IInv
  BY Invariance
<1>4. QED
  BY <1>1, <1>2, <1>3, PTL DEF Spec, IsLists, L!Spec

(* Each call does to its list, at the place of its iterator, what the      *)
(* header says of it, and nothing to another list, if every splice has     *)
(* something to move.                                                      *)
THEOREM CallsDo ==
  ASSUME MovesNothing = FALSE
  PROVE  Spec => CallsDoAsTheySay
<1>1. IInv => DoesAsItSays
  <2> SUFFICES ASSUME IInv
               PROVE  DoesAsItSays
    OBVIOUS
  <2>1. \A l \in List :
          DListCreate(l) \/ DListDestroy(l) =>
            Contents' = L!Destroy(Contents, l)
    BY CreateKeeps, DestroyKeeps
  <2>2. ASSUME NEW l \in created, NEW n \in Free, NEW v \in Value
        PROVE  /\ DListPushFront(l, n, v) =>
                    Contents' = L!Insert(Contents, l, 1, v)
               /\ DListPushBack(l, n, v) =>
                    Contents' = L!Insert(Contents, l, Len(Contents[l]) + 1, v)
               /\ \A iter \in Iter(l) :
                    DListInsertBefore(iter, n, v) =>
                      Contents' = L!Insert(Contents, l, Position(l, iter), v)
    <3>1. n \in Node
      BY DEF Free
    <3>2. \A iter \in Iter(l) :
            DListInsertBefore(iter, n, v) =>
              Contents' = L!Insert(Contents, l, Position(l, iter), v)
      BY <3>1, InsertKeeps
    <3>3. /\ TailOf(l) \in Iter(l) /\ next[HeadOf(l)] \in Iter(l)
          /\ Position(l, TailOf(l)) = Len(Contents[l]) + 1
          /\ Position(l, next[HeadOf(l)]) = 1
      BY Ends
    <3>4. QED
      BY <3>2, <3>3 DEF DListPushFront, DListPushBack
  <2>3. ASSUME NEW l \in created
        PROVE  /\ DListPopFront(l) => Contents' = L!Erase(Contents, l, 1)
               /\ DListPopBack(l) =>
                    Contents' = L!Erase(Contents, l, Len(Contents[l]))
               /\ \A iter \in ToSet(Elements(l)) :
                    /\ DListRemove(iter) =>
                         Contents' = L!Erase(Contents, l, Position(l, iter))
                    /\ \A v \in Value :
                         DListIterSetData(iter, v) =>
                           Contents' = L!SetData(Contents, l,
                                                 Position(l, iter), v)
    <3>1. \A iter \in ToSet(Elements(l)) :
            DListRemove(iter) =>
              Contents' = L!Erase(Contents, l, Position(l, iter))
      BY RemoveKeeps
    <3>2. \A iter \in ToSet(Elements(l)), v \in Value :
            DListIterSetData(iter, v) =>
              Contents' = L!SetData(Contents, l, Position(l, iter), v)
      BY SetKeeps
    <3>3. /\ next[HeadOf(l)] \in Node =>
               next[HeadOf(l)] \in ToSet(Elements(l))
          /\ prev[TailOf(l)] \in Node =>
               /\ prev[TailOf(l)] \in ToSet(Elements(l))
               /\ Position(l, prev[TailOf(l)]) = Len(Contents[l])
          /\ Position(l, next[HeadOf(l)]) = 1
      BY Ends
    <3>4. QED
      BY <3>1, <3>2, <3>3 DEF DListPopFront, DListPopBack
  <2>4. ASSUME NEW l \in created, NEW k \in created, NEW dest \in Iter(l),
               NEW from \in Iter(k), NEW to \in Iter(k),
               MaySplice(l, dest, k, from, to), DListSplice(dest, from, to),
               NEW a, NEW i, NEW j, a = Position(l, dest),
               i = Position(k, from), j = Position(k, to)
        PROVE  Contents' = IF l # k THEN L!Splice(Contents, l, a, k, i, j)
                           ELSE IF a < i THEN L!MoveDown(Contents, l, a, i, j)
                           ELSE L!MoveUp(Contents, l, a, i, j)
    <3>1. /\ l # k => Contents' = L!Splice(Contents, l, a, k, i, j)
          /\ l = k /\ a < i => Contents' = L!MoveDown(Contents, l, a, i, j)
          /\ l = k /\ ~(a < i) => Contents' = L!MoveUp(Contents, l, a, i, j)
      <4>1. from # to /\ dest # to
        BY <2>4 DEF MaySplice
      <4>2. QED
        BY <2>4, <4>1, SpliceKeeps
    <3>2. QED
      BY <3>1
  <2>5. QED
    BY <2>1, <2>2, <2>3, <2>4 DEF DoesAsItSays
<1>2. Spec => []IInv
  BY Invariance
<1>3. QED
  BY <1>1, <1>2, PTL DEF CallsDoAsTheySay

(* Every element, every head and no tail has a next, and so with prev, if  *)
(* every splice has something to move.                                     *)
THEOREM TypeCorrect ==
  ASSUME MovesNothing = FALSE
  PROVE  Spec => []TypeOK
<1>1. Spec => []IInv
  BY Invariance
<1>2. IInv => TypeOK
  BY DEF IInv
<1>3. QED
  BY <1>1, <1>2, PTL

(* Whoever is somebody's next has it as its prev: no insertion, removal or *)
(* splice that has something to move, and no copy that runs out of memory, *)
(* leaves a link one-way.                                                  *)
THEOREM MirroredCorrect ==
  ASSUME MovesNothing = FALSE
  PROVE  Spec => []Mirrored
<1>1. Spec => []IInv
  BY Invariance
<1>2. IInv => Mirrored
  BY DEF IInv
<1>3. QED
  BY <1>1, <1>2, PTL

(* Every node that malloc returned is in one list, once, until it is freed *)
(* with it or alone: no call loses a node or leaves it in two lists, if    *)
(* every splice has something to move.                                     *)
THEOREM NodesAreOwnedCorrect ==
  ASSUME MovesNothing = FALSE
  PROVE  Spec => []NodesAreOwned
<1>1. Spec => []IInv
  BY Invariance
<1>2. IInv => NodesAreOwned
  BY DEF IInv
<1>3. QED
  BY <1>1, <1>2, PTL

(* A walk along a list ends at the list's own tail, if every splice has    *)
(* something to move.                                                      *)
THEOREM EndsAtTailCorrect ==
  ASSUME MovesNothing = FALSE
  PROVE  Spec => []EndsAtTail
<1>1. Spec => []IInv
  BY Invariance
<1>2. IInv => EndsAtTail
  BY DEF IInv
<1>3. QED
  BY <1>1, <1>2, PTL

=============================================================================
