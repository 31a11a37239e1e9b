---------------------------- MODULE SList_proofs -----------------------------
(***************************************************************************)
(* What every call on the singly linked lists leaves behind, for every set *)
(* of lists, nodes and values, if no empty list is appended to another one *)
(* (then it is false, see the run slist_append).                           *)
(*                                                                         *)
(* The proofs name where a list leads: c, a sequence of nodes per list,    *)
(* from its head to its tail, the dummy included.  Every call makes        *)
(* another c of c, which is written down; and from c one reads what walks  *)
(* along the pointers find, and what stands in the lists.                  *)
(***************************************************************************)
EXTENDS SList, Walk_proofs, FunctionTheorems

-----------------------------------------------------------------------------
(* The lists as sequences of nodes.                                        *)

(* From its head, a list leads along c to its tail, which knows its list;  *)
(* and c is all that is allocated.                                         *)
Paths(c) ==
  /\ c \in [List -> Seq(Node)]
  /\ \A l \in List : l \notin Created => Len(c[l]) = 0
  /\ \A l \in Created :
       /\ Len(c[l]) # 0
       /\ c[l][1] = head[l]
       /\ c[l][Len(c[l])] = tail[l]
       /\ data[tail[l]] = l
       /\ \A i \in 1..Len(c[l]) :
            next[c[l][i]] = IF i = Len(c[l]) THEN NULL ELSE c[l][i + 1]
  /\ \A l \in List : \A i \in 1..Len(c[l]) : c[l][i] \in allocated
  /\ \A n \in allocated : \E l \in List : \E i \in 1..Len(c[l]) : n = c[l][i]

(* A node is followed by as many nodes as itself: two paths that meet end  *)
(* together.                                                               *)
LEMMA Meets ==
  ASSUME NEW c, Paths(c), NEW l \in Created, NEW k \in Created,
         NEW i \in 1..Len(c[l]), NEW j \in 1..Len(c[k]),
         c[l][i] = c[k][j], Len(c[l]) - i <= Len(c[k]) - j
  PROVE  l = k /\ i = j
<1> DEFINE n == Len(c[l])
           o == Len(c[k])
           S == {m \in 0..(n - i) : c[l][i + m] = c[k][j + m]}
<1>1. /\ l \in List /\ k \in List /\ c[l] \in Seq(Node) /\ c[k] \in Seq(Node)
      /\ n \in Nat /\ o \in Nat /\ n - i \in Nat /\ n - i <= o - j
  BY DEF Paths, Created
<1>2. 0 \in S
  BY <1>1
<1>3. ASSUME NEW m \in 0..((n - i) - 1), m \in S
      PROVE  m + 1 \in S
  <2>1. /\ i + m \in 1..n /\ i + m # n /\ j + m \in 1..o /\ j + m # o
        /\ i + (m + 1) = (i + m) + 1 /\ j + (m + 1) = (j + m) + 1
        /\ m + 1 \in 0..(n - i)
    <3> HIDE DEF S
    <3>1. i \in 1..n /\ j \in 1..o /\ m \in 0..((n - i) - 1)
      OBVIOUS
    <3> HIDE DEF n, o
    <3>2. QED
      BY <1>1, <3>1
  <2>2. /\ next[c[l][i + m]] = c[l][(i + m) + 1]
        /\ next[c[k][j + m]] = c[k][(j + m) + 1]
    BY <2>1 DEF Paths
  <2>3. QED
    BY <1>3, <2>1, <2>2
<1>4. n - i \in S
  <2>1. \A m \in 0..(n - i) : m \in S
    <3> HIDE DEF S, n, o
    <3>1. QED
      BY <1>1, <1>2, <1>3, UpTo
  <2>2. n - i \in 0..(n - i)
    <3> HIDE DEF n, S
    <3>1. QED
      BY <1>1
  <2> HIDE DEF n, S
  <2>3. QED
    BY <2>1, <2>2, Zenon
<1>5. /\ j + (n - i) \in 1..o /\ i + (n - i) = n /\ n \in 1..n
      /\ c[l][n] = c[k][j + (n - i)]
  <2>1. i \in 1..n /\ j \in 1..o
    OBVIOUS
  <2>2. c[l][i + (n - i)] = c[k][j + (n - i)]
    BY <1>4
  <2> HIDE DEF n, o, S
  <2>3. i + (n - i) = n /\ n \in 1..n
    BY <1>1, <2>1
  <2>4. j + (n - i) \in 1..o
    BY <1>1, <2>1
  <2>5. QED
    BY <2>2, <2>3, <2>4
<1>6. next[c[l][n]] = NULL
  BY <1>5 DEF Paths
<1>7. j + (n - i) = o
  <2> SUFFICES ASSUME j + (n - i) # o
               PROVE  FALSE
    OBVIOUS
  <2>1. (j + (n - i)) + 1 \in 1..o
    BY <1>1, <1>5
  <2>2. next[c[k][j + (n - i)]] = c[k][(j + (n - i)) + 1]
    BY <1>5 DEF Paths
  <2>3. c[k][(j + (n - i)) + 1] \in Node
    BY <1>1, <2>1
  <2>4. QED
    BY <1>5, <1>6, <2>2, <2>3, NodeAssumption
<1>8. c[l][n] = tail[l] /\ c[k][o] = tail[k]
  BY DEF Paths
<1>9. tail[l] = tail[k]
  BY <1>5, <1>7, <1>8
<1>10. l = k
  BY <1>9 DEF Paths
<1>11. QED
  BY <1>1, <1>7, <1>10

(* The lists are apart from each other, and none comes back to itself.     *)
LEMMA Apart ==
  ASSUME NEW c, Paths(c)
  PROVE  \A l, k \in Created :
         \A i \in 1..Len(c[l]), j \in 1..Len(c[k]) :
           c[l][i] = c[k][j] => l = k /\ i = j
<1> SUFFICES ASSUME NEW l \in Created, NEW k \in Created,
                    NEW i \in 1..Len(c[l]), NEW j \in 1..Len(c[k]),
                    c[l][i] = c[k][j]
             PROVE  l = k /\ i = j
  OBVIOUS
<1>1. Len(c[l]) \in Nat /\ Len(c[k]) \in Nat
  BY DEF Paths, Created
<1>2. CASE Len(c[l]) - i <= Len(c[k]) - j
  BY <1>2, Meets
<1>3. CASE Len(c[k]) - j <= Len(c[l]) - i
  <2>1. k = l /\ j = i
    BY <1>3, Meets
  <2>2. QED
    BY <2>1
<1>4. QED
  BY <1>1, <1>2, <1>3

(* What a path is made of.                                                 *)
LEMMA PathIs ==
  ASSUME NEW c, Paths(c), NEW l \in List
  PROVE  /\ c \in [List -> Seq(Node)] /\ c[l] \in Seq(Node)
         /\ Len(c[l]) \in Nat
         /\ l \in Created <=> Len(c[l]) # 0
         /\ \A i \in 1..Len(c[l]) : c[l][i] \in Node
<1>1. c \in [List -> Seq(Node)] /\ c[l] \in Seq(Node) /\ Len(c[l]) \in Nat
  BY DEF Paths
<1>2. l \in Created <=> Len(c[l]) # 0
  BY DEF Paths
<1>3. \A i \in 1..Len(c[l]) : c[l][i] \in Node
  BY <1>1
<1>4. QED
  BY <1>1, <1>2, <1>3

(* A path has no more nodes than there are, and without its last one no    *)
(* more than there are others.                                             *)
LEMMA Short ==
  ASSUME NEW c, Paths(c), NEW l \in Created
  PROVE  /\ Len(c[l]) <= Cardinality(Node)
         /\ Len(c[l]) - 1 <= Cardinality(Node \ {tail[l]})
         /\ \A i \in 1..(Len(c[l]) - 1) : c[l][i] \in Node \ {tail[l]}
<1> DEFINE n == Len(c[l])
           s == [i \in 1..n |-> c[l][i]]
           t == [i \in 1..(n - 1) |-> c[l][i]]
<1>1. l \in List
  BY DEF Created
<1>2. /\ n \in Nat /\ n # 0 /\ c[l][n] = tail[l]
      /\ \A i \in 1..n : c[l][i] \in Node
  BY <1>1, PathIs DEF Paths
<1>3. \A i, j \in 1..n : c[l][i] = c[l][j] => i = j
  BY Apart
<1>4. \A i \in 1..(n - 1) : c[l][i] \in Node \ {tail[l]}
  <2> SUFFICES ASSUME NEW i \in 1..(n - 1)
               PROVE  c[l][i] \in Node \ {tail[l]}
    OBVIOUS
  <2>1. i \in 1..n /\ n \in 1..n /\ i # n
    BY <1>2
  <2>2. QED
    BY <1>2, <1>3, <2>1
<1>5. s \in Injection(1..n, Node)
  BY <1>2, <1>3 DEF Injection, IsInjective
<1>6. t \in Injection(1..(n - 1), Node \ {tail[l]})
  <2>1. 1..(n - 1) \subseteq 1..n
    BY <1>2
  <2>2. t \in [1..(n - 1) -> Node \ {tail[l]}]
    BY <1>4
  <2>3. \A i, j \in 1..(n - 1) : t[i] = t[j] => i = j
    BY <1>3, <2>1
  <2>4. QED
    BY <2>2, <2>3 DEF Injection, IsInjective
<1>7. IsFiniteSet(Node) /\ IsFiniteSet(Node \ {tail[l]})
  BY NodeIsFinite, FS_Subset
<1>8. Cardinality(1..n) = n /\ Cardinality(1..(n - 1)) = n - 1
  <2>1. 1 \in Int /\ n \in Int /\ n - 1 \in Int /\ 1 <= n
    BY <1>2
  <2> HIDE DEF n
  <2>2. Cardinality(1..n) = n - 1 + 1
    BY <2>1, FS_Interval
  <2>3. Cardinality(1..(n - 1)) = n - 1
    BY <2>1, FS_Interval
  <2>4. QED
    BY <2>1, <2>2, <2>3
<1>9. Cardinality(1..n) <= Cardinality(Node)
  BY <1>5, <1>7, FS_Injection
<1>10. Cardinality(1..(n - 1)) <= Cardinality(Node \ {tail[l]})
  BY <1>6, <1>7, FS_Injection
<1>11. QED
  BY <1>4, <1>8, <1>9, <1>10

(* What a walk along the pointers finds is the path, and up to the tail    *)
(* all of it but the tail.                                                 *)
LEMMA Walked ==
  ASSUME TypeOK, NEW c, Paths(c), NEW l \in List
  PROVE  /\ Nodes(l) = {c[l][i] : i \in 1..Len(c[l])}
         /\ Elements(l) = [i \in 1..(Len(c[l]) - 1) |-> c[l][i]]
<1> DEFINE n == Len(c[l])
           t == [i \in 1..(n - 1) |-> c[l][i]]
<1>1. /\ c[l] \in Seq(Node) /\ n \in Nat /\ (l \in Created <=> n # 0)
      /\ \A i \in 1..n : c[l][i] \in Node
  BY PathIs
<1>2. IsFiniteSet(Node) /\ IsFiniteSet(Node \ {tail[l]}) /\ NULL \notin Node
  BY NodeIsFinite, NodeAssumption, FS_Subset
<1>3. ASSUME l \in Created
      PROVE  /\ WalkIn(Node, next, head[l]) = c[l]
             /\ Elements(l) = t
  <2>1. /\ n # 0 /\ c[l][1] = head[l] /\ c[l][n] = tail[l]
        /\ \A i \in 1..n :
             next[c[l][i]] = IF i = n THEN NULL ELSE c[l][i + 1]
    BY <1>3 DEF Paths
  <2>2. n <= Cardinality(Node)
    BY <1>3, Short
  <2>3. WalkIn(Node, next, IF n = 0 THEN NULL ELSE c[l][1]) = c[l]
    BY <1>1, <1>2, <2>1, <2>2, WalkIs
  <2>4. /\ n - 1 <= Cardinality(Node \ {tail[l]})
        /\ \A i \in 1..(n - 1) : c[l][i] \in Node \ {tail[l]}
    BY <1>3, Short
  <2>5. t \in Seq(Node \ {tail[l]}) /\ Len(t) = n - 1
    BY <1>1, <2>1, <2>4
  <2>6. \A i \in 1..Len(t) :
          next[t[i]] = IF i = Len(t) THEN tail[l] ELSE t[i + 1]
    <3> SUFFICES ASSUME NEW i \in 1..Len(t)
                 PROVE  next[t[i]] = IF i = Len(t) THEN tail[l] ELSE t[i + 1]
      OBVIOUS
    <3>1. /\ i \in 1..n /\ i # n /\ i \in 1..(n - 1)
          /\ i # n - 1 => i + 1 \in 1..(n - 1)
          /\ i = n - 1 => i + 1 = n
      BY <1>1, <2>1, <2>5
    <3>2. next[t[i]] = c[l][i + 1]
      BY <2>1, <3>1
    <3>3. QED
      BY <2>1, <2>5, <3>1, <3>2
  <2>7. /\ tail[l] \notin Node \ {tail[l]}
        /\ Len(t) <= Cardinality(Node \ {tail[l]})
    BY <2>4, <2>5
  <2>8. WalkIn(Node \ {tail[l]}, next, IF Len(t) = 0 THEN tail[l] ELSE t[1])
          = t
    <3> HIDE DEF t
    <3>1. QED
      BY <1>2, <2>5, <2>6, <2>7, WalkIs
  <2>9. (IF Len(t) = 0 THEN tail[l] ELSE t[1]) = head[l]
    <3>1. n \in Nat /\ n # 0
      BY <1>1, <2>1
    <3>2. (n - 1 # 0 => 1 \in 1..(n - 1)) /\ (n - 1 = 0 => n = 1)
      <4> HIDE DEF n, t
      <4>1. QED
        BY <3>1
    <3>3. QED
      BY <2>1, <2>5, <3>2
  <2>10. QED
    BY <2>1, <2>3, <2>8, <2>9 DEF Elements
<1>4. ASSUME l \notin Created
      PROVE  /\ WalkIn(Node, next, head[l]) = c[l]
             /\ Elements(l) = t
  <2>1. head[l] = NULL /\ n = 0
    BY <1>1, <1>4 DEF Created
  <2>2. ASSUME NEW nodes, nodes \subseteq Node, IsFiniteSet(nodes)
        PROVE  WalkIn(nodes, next, head[l]) = << >>
    <3> DEFINE s == WalkIn(nodes, next, head[l])
    <3>1. s \in Seq(nodes) /\ (head[l] \in nodes <=> Len(s) # 0)
      BY <2>2, WalkLinks
    <3>2. Len(s) = 0
      BY <1>2, <2>1, <2>2, <3>1
    <3> HIDE DEF s
    <3>3. s = << >>
      BY <3>1, <3>2
    <3>4. QED
      BY <3>3 DEF s
  <2>3. t = << >> /\ c[l] = << >>
    BY <1>1, <2>1
  <2>4. QED
    BY <1>2, <2>2, <2>3 DEF Elements
<1>5. Nodes(l) = ToSet(c[l]) /\ Elements(l) = t
  BY <1>3, <1>4 DEF Nodes
<1>6. ToSet(c[l]) = {c[l][i] : i \in 1..n}
  BY <1>1 DEF ToSet
<1>7. QED
  BY <1>5, <1>6

(* Whoever knows the paths of the lists knows the invariant.               *)
LEMMA PathsToInv ==
  ASSUME TypeOK, NEW c, Paths(c)
  PROVE  IInv
<1>1. TailIsLast
  <2> SUFFICES ASSUME NEW l \in Created
               PROVE  /\ tail[l] \in Nodes(l)
                      /\ next[tail[l]] = NULL
                      /\ data[tail[l]] = l
    BY DEF TailIsLast
  <2>1. l \in List
    BY DEF Created
  <2>2. Len(c[l]) \in Nat /\ Len(c[l]) # 0
    BY <2>1, PathIs
  <2>3. Len(c[l]) \in 1..Len(c[l])
    BY <2>2
  <2>4. /\ c[l][Len(c[l])] = tail[l] /\ data[tail[l]] = l
        /\ next[c[l][Len(c[l])]] = NULL
    BY <2>3 DEF Paths
  <2>5. Nodes(l) = {c[l][i] : i \in 1..Len(c[l])}
    BY <2>1, Walked
  <2>6. QED
    BY <2>3, <2>4, <2>5
<1>2. ASSUME NEW l \in Created, NEW k \in Created, l # k
      PROVE  Nodes(l) \cap Nodes(k) = {}
  <2>1. l \in List /\ k \in List
    BY DEF Created
  <2>2. /\ Nodes(l) = {c[l][i] : i \in 1..Len(c[l])}
        /\ Nodes(k) = {c[k][i] : i \in 1..Len(c[k])}
    BY <2>1, Walked
  <2>3. QED
    BY <1>2, <2>2, Apart
<1>3. allocated = UNION {Nodes(l) : l \in Created}
  <2>1. ASSUME NEW n \in allocated
        PROVE  \E l \in Created : n \in Nodes(l)
    <3>1. PICK l \in List : \E i \in 1..Len(c[l]) : n = c[l][i]
      BY DEF Paths
    <3>2. Len(c[l]) # 0
      BY <3>1, PathIs
    <3>3. QED
      BY <3>1, <3>2, PathIs, Walked
  <2>2. ASSUME NEW l \in Created
        PROVE  Nodes(l) \subseteq allocated
    <3>1. l \in List
      BY DEF Created
    <3>2. Nodes(l) = {c[l][i] : i \in 1..Len(c[l])}
      BY <3>1, Walked
    <3>3. QED
      BY <3>1, <3>2 DEF Paths
  <2>3. QED
    BY <2>1, <2>2
<1>4. QED
  BY <1>1, <1>2, <1>3 DEF IInv, NodesAreOwned

(* The same after a step.                                                  *)
LEMMA PathsToInvNext ==
  ASSUME NEW c
  PROVE  (TypeOK /\ Paths(c) => IInv)'
<1>1. TypeOK /\ Paths(c) => IInv
  BY PathsToInv
<1>2. QED
  BY <1>1, PTL

\* The paths of the lists, if the invariant holds.
Chain == [l \in List |-> WalkIn(Node, next, head[l])]

(* Whoever knows the invariant knows the paths of the lists.               *)
LEMMA InvToPaths ==
  ASSUME IInv
  PROVE  Paths(Chain)
<1> PICK c : c = Chain
  OBVIOUS
<1>1. TypeOK /\ TailIsLast /\ NodesAreOwned
  BY DEF IInv
<1>2. IsFiniteSet(Node) /\ NULL \notin Node
  BY NodeIsFinite, NodeAssumption
<1>3. ASSUME NEW l \in List
      PROVE  /\ c[l] \in Seq(Node) /\ Len(c[l]) \in Nat
             /\ head[l] \in Node <=> Len(c[l]) # 0
             /\ head[l] \in Node => c[l][1] = head[l]
             /\ \A i \in 1..(Len(c[l]) - 1) : next[c[l][i]] = c[l][i + 1]
             /\ Nodes(l) = {c[l][i] : i \in 1..Len(c[l])}
  <2>1. c[l] = WalkIn(Node, next, head[l])
    BY DEF Chain
  <2>2. /\ c[l] \in Seq(Node)
        /\ head[l] \in Node <=> Len(c[l]) # 0
        /\ head[l] \in Node => c[l][1] = head[l]
        /\ \A i \in 1..(Len(c[l]) - 1) : next[c[l][i]] = c[l][i + 1]
    BY <1>2, <2>1, WalkLinks
  <2>3. Nodes(l) = {c[l][i] : i \in 1..Len(c[l])}
    BY <2>1, <2>2 DEF Nodes, ToSet
  <2>4. Len(c[l]) \in Nat
    BY <2>2
  <2>5. QED
    BY <2>2, <2>3, <2>4, Zenon
<1>4. c \in [List -> Seq(Node)]
  BY <1>3 DEF Chain
<1>5. ASSUME NEW l \in List
      PROVE  l \in Created <=> Len(c[l]) # 0
  BY <1>1, <1>2, <1>3 DEF Created, TypeOK
<1>6. ASSUME NEW l \in Created
      PROVE  /\ Len(c[l]) # 0
             /\ c[l][1] = head[l]
             /\ c[l][Len(c[l])] = tail[l]
             /\ data[tail[l]] = l
             /\ \A i \in 1..Len(c[l]) :
                  next[c[l][i]] = IF i = Len(c[l]) THEN NULL ELSE c[l][i + 1]
  <2> DEFINE n == Len(c[l])
  <2>1. l \in List /\ n \in Nat /\ n # 0 /\ c[l] \in Seq(Node)
    BY <1>3, <1>5 DEF Created
  <2>2. c[l][1] = head[l]
    BY <1>3, <2>1
  <2>3. /\ tail[l] \in Nodes(l) /\ next[tail[l]] = NULL /\ data[tail[l]] = l
    BY <1>1 DEF TailIsLast
  <2>4. PICK j \in 1..n : tail[l] = c[l][j]
    BY <1>3, <2>1, <2>3
  <2>5. j = n
    <3> SUFFICES ASSUME j # n
                 PROVE  FALSE
      OBVIOUS
    <3>1. j \in 1..(n - 1) /\ j + 1 \in 1..n
      BY <2>1
    <3>2. next[c[l][j]] = c[l][j + 1]
      BY <1>3, <2>1, <3>1
    <3>3. c[l][j + 1] \in Node
      BY <2>1, <3>1
    <3>4. QED
      BY <1>2, <2>3, <2>4, <3>2, <3>3
  <2>6. \A i \in 1..n :
          next[c[l][i]] = IF i = n THEN NULL ELSE c[l][i + 1]
    <3> SUFFICES ASSUME NEW i \in 1..n, i # n
                 PROVE  next[c[l][i]] = c[l][i + 1]
      BY <2>3, <2>4, <2>5
    <3>1. i \in 1..(n - 1)
      BY <2>1
    <3>2. QED
      BY <1>3, <2>1, <3>1
  <2>7. QED
    BY <2>1, <2>2, <2>3, <2>4, <2>5, <2>6
<1>7. \A l \in List : l \notin Created => Len(c[l]) = 0
  BY <1>5
<1>8. \A l \in List : \A i \in 1..Len(c[l]) : c[l][i] \in allocated
  <2> SUFFICES ASSUME NEW l \in List, NEW i \in 1..Len(c[l])
               PROVE  c[l][i] \in allocated
    OBVIOUS
  <2>1. l \in Created
    BY <1>3, <1>5
  <2>2. c[l][i] \in Nodes(l)
    BY <1>3
  <2>3. QED
    BY <1>1, <2>1, <2>2 DEF NodesAreOwned
<1>9. \A n \in allocated :
        \E l \in List : \E i \in 1..Len(c[l]) : n = c[l][i]
  <2> SUFFICES ASSUME NEW n \in allocated
               PROVE  \E l \in List : \E i \in 1..Len(c[l]) : n = c[l][i]
    OBVIOUS
  <2>1. PICK l \in Created : n \in Nodes(l)
    BY <1>1 DEF NodesAreOwned
  <2>2. l \in List
    BY DEF Created
  <2>3. QED
    BY <1>3, <2>1, <2>2
<1>10. Paths(c)
  BY <1>4, <1>6, <1>7, <1>8, <1>9 DEF Paths
<1>11. QED
  BY <1>10

-----------------------------------------------------------------------------
(* What stands in the lists, and where.                                    *)

\* The values along a path, and all: the tail's own is no element.
Along(s)  == [i \in 1..(Len(s) - 1) |-> data[s[i]]]
Values(c) == [l \in List |-> Along(c[l])]

(* The contents are read off the paths.                                    *)
LEMMA Reads ==
  ASSUME TypeOK, NEW c, Paths(c)
  PROVE  Contents = Values(c)
<1>1. ASSUME NEW l \in List
      PROVE  Content(l) = Along(c[l])
  <2>1. Elements(l) = [i \in 1..(Len(c[l]) - 1) |-> c[l][i]]
    BY Walked
  <2>2. QED
    BY <2>1 DEF Content, Along
<1>2. QED
  BY <1>1 DEF Contents, Values

(* The same after a step.                                                  *)
LEMMA ReadsNext ==
  ASSUME NEW c
  PROVE  (TypeOK /\ Paths(c) => Contents = Values(c))'
<1>1. TypeOK /\ Paths(c) => Contents = Values(c)
  BY Reads
<1>2. QED
  BY <1>1, PTL

(* The values of a list are a sequence, one shorter than its path.         *)
LEMMA ValuesIs ==
  ASSUME TypeOK, NEW c, Paths(c), NEW l \in List
  PROVE  /\ Values(c)[l] \in Seq(Value \cup List \cup {NULL})
         /\ l \in Created => Len(Values(c)[l]) = Len(c[l]) - 1
         /\ l \notin Created => Values(c)[l] = << >>
         /\ \A i \in 1..(Len(c[l]) - 1) : Values(c)[l][i] = data[c[l][i]]
<1> DEFINE n == Len(c[l])
<1>1. /\ n \in Nat /\ (l \in Created <=> n # 0)
      /\ \A i \in 1..n : c[l][i] \in Node
  BY PathIs
<1>2. Values(c)[l] = [i \in 1..(n - 1) |-> data[c[l][i]]]
  BY DEF Values, Along
<1>3. CASE l \in Created
  <2>1. n - 1 \in Nat /\ 1..(n - 1) \subseteq 1..n
    BY <1>1, <1>3
  <2>2. \A i \in 1..(n - 1) : data[c[l][i]] \in Value \cup List \cup {NULL}
    BY <1>1, <2>1 DEF TypeOK
  <2> DEFINE W == Value \cup List \cup {NULL}
  <2> HIDE DEF n, W
  <2>3. PICK s : s = [i \in 1..(n - 1) |-> data[c[l][i]]]
    OBVIOUS
  <2>4. \A i \in 1..(n - 1) : data[c[l][i]] \in W
    BY <2>2 DEF W
  <2>5. s \in Seq(W) /\ Len(s) = n - 1
    BY <2>1, <2>3, <2>4
  <2>6. \A i \in 1..(n - 1) : s[i] = data[c[l][i]]
    BY <2>3
  <2>7. Values(c)[l] = s
    BY <1>2, <2>3
  <2>8. QED
    BY <1>3, <2>5, <2>6, <2>7 DEF n, W
<1>4. CASE l \notin Created
  <2>1. 1..(n - 1) = {}
    BY <1>1, <1>4
  <2>2. Values(c)[l] = << >>
    <3>1. Values(c)[l] = [i \in {} |-> data[c[l][i]]]
      BY <1>2, <2>1
    <3> HIDE DEF n
    <3>2. QED
      BY <3>1
  <2>3. << >> \in Seq(Value \cup List \cup {NULL})
    OBVIOUS
  <2>4. \A i \in 1..(n - 1) : Values(c)[l][i] = data[c[l][i]]
    BY <2>1
  <2>5. QED
    BY <1>4, <2>2, <2>3, <2>4
<1>5. QED
  BY <1>3, <1>4

(* An iterator is at its place in the path.                                *)
LEMMA Located ==
  ASSUME TypeOK, NEW c, Paths(c), NEW l \in Created, NEW iter \in Iter(l)
  PROVE  \E p \in 1..Len(c[l]) :
           /\ iter = c[l][p]
           /\ Position(l, iter) = p
           /\ iter \in ToSet(Elements(l)) => p # Len(c[l])
<1> DEFINE n == Len(c[l])
<1>1. l \in List
  BY DEF Created
<1>2. /\ n \in Nat /\ n # 0 /\ c[l][n] = tail[l]
      /\ \A i, j \in 1..n : c[l][i] = c[l][j] => i = j
  <2>1. n \in Nat /\ n # 0 /\ c[l][n] = tail[l]
    BY <1>1, PathIs DEF Paths
  <2>2. QED
    BY <2>1, Apart
<1>3. Elements(l) = [i \in 1..(n - 1) |-> c[l][i]]
  BY <1>1, Walked
<1>4. /\ Len(Elements(l)) = n - 1
      /\ \A i \in 1..(n - 1) : Elements(l)[i] = c[l][i]
      /\ ToSet(Elements(l)) = {c[l][i] : i \in 1..(n - 1)}
  <2>1. n - 1 \in Nat
    BY <1>2
  <2> HIDE DEF n
  <2>2. QED
    BY <1>3, <2>1 DEF ToSet
<1>5. \A i \in 1..(n - 1) : i \in 1..n /\ i # n /\ n \in 1..n
  BY <1>2
<1>6. tail[l] \notin ToSet(Elements(l))
  BY <1>2, <1>4, <1>5
<1>7. CASE iter = tail[l]
  <2>1. Position(l, iter) = (n - 1) + 1 /\ (n - 1) + 1 = n /\ n \in 1..n
    BY <1>2, <1>4, <1>7 DEF Position
  <2>2. QED
    BY <1>2, <1>6, <1>7, <2>1
<1>8. CASE iter # tail[l]
  <2>1. iter \in ToSet(Elements(l))
    BY <1>8 DEF Iter
  <2>2. PICK p \in 1..(n - 1) : iter = c[l][p]
    BY <1>4, <2>1
  <2>3. Position(l, iter) = CHOOSE i \in 1..(n - 1) : c[l][i] = iter
    BY <1>4, <1>8 DEF Position
  <2>4. \A i \in 1..(n - 1) : c[l][i] = iter <=> i = p
    BY <1>2, <1>5, <2>2
  <2>5. Position(l, iter) = p
    BY <2>2, <2>3, <2>4
  <2>6. QED
    BY <1>5, <2>2, <2>5
<1>9. QED
  BY <1>7, <1>8

-----------------------------------------------------------------------------
(* What the calls do to the paths.                                         *)

\* List k leads along s, if it leads anywhere.
Leads(k, s) ==
  /\ k \in Created <=> Len(s) # 0
  /\ Len(s) # 0 => s[1] = head[k] /\ s[Len(s)] = tail[k] /\ data[tail[k]] = k
  /\ \A i \in 1..Len(s) : next[s[i]] = IF i = Len(s) THEN NULL ELSE s[i + 1]

\* A call leaves the path of k alone.
Keeps(c, k) ==
  /\ head'[k] = head[k] /\ tail'[k] = tail[k]
  /\ \A i \in 1..Len(c[k]) :
       next'[c[k][i]] = next[c[k][i]] /\ data'[c[k][i]] = data[c[k][i]]

\* A call makes d of c, and leaves alone what is not in changed.
Becomes(c, d, changed) ==
  /\ \A k \in List \ changed : Keeps(c, k) /\ d[k] = c[k]
  /\ \A k \in changed : Leads(k, d[k])'
  /\ allocated' =
       (allocated \ UNION {{c[k][i] : i \in 1..Len(c[k])} : k \in changed})
         \cup UNION {{d[k][i] : i \in 1..Len(d[k])} : k \in changed}

(* The paths, and the values that stand in the other lists.                *)
LEMMA SomePaths ==
  ASSUME NEW c, Paths(c), NEW changed \in SUBSET List,
         NEW d \in [List -> Seq(Node)], Becomes(c, d, changed)
  PROVE  /\ Paths(d)'
         /\ \A k \in List \ changed : Values(d)'[k] = Values(c)[k]
<1> USE DEF Becomes
<1>1. ASSUME NEW k \in List \ changed
      PROVE  Leads(k, d[k])'
  <2>1. d[k] = c[k] /\ (k \in Created' <=> k \in Created) /\ Keeps(c, k)
    BY DEF Created, Keeps
  <2>2. CASE k \in Created
    <3>1. /\ Len(c[k]) \in Nat /\ Len(c[k]) # 0
          /\ c[k][1] = head[k] /\ c[k][Len(c[k])] = tail[k]
          /\ data[tail[k]] = k
      BY <2>2, PathIs DEF Paths
    <3>2. Len(c[k]) \in 1..Len(c[k])
      BY <3>1
    <3>3. data'[tail[k]] = data[tail[k]]
      BY <2>1, <3>1, <3>2 DEF Keeps
    <3>4. \A i \in 1..Len(c[k]) :
            next[c[k][i]] = IF i = Len(c[k]) THEN NULL ELSE c[k][i + 1]
      BY <2>2 DEF Paths
    <3>5. \A i \in 1..Len(c[k]) : next'[c[k][i]] = next[c[k][i]]
      BY <2>1 DEF Keeps
    <3>6. head'[k] = head[k] /\ tail'[k] = tail[k]
      BY <2>1 DEF Keeps
    <3>7. QED
      BY <2>1, <2>2, <3>1, <3>3, <3>4, <3>5, <3>6 DEF Leads
  <2>3. CASE k \notin Created
    <3>1. Len(c[k]) = 0 /\ 1..Len(c[k]) = {}
      BY <2>3 DEF Paths
    <3>2. QED
      BY <2>1, <2>3, <3>1 DEF Leads
  <2>4. QED
    BY <2>2, <2>3
<1>2. \A k \in List : Leads(k, d[k])'
  BY <1>1
<1>3. ASSUME NEW k \in List, NEW i \in 1..Len(d[k])
      PROVE  d[k][i] \in allocated'
  <2>1. CASE k \in changed
    BY <2>1
  <2>2. CASE k \notin changed
    <3>1. d[k] = c[k]
      BY <2>2
    <3>2. c[k][i] \in allocated /\ k \in Created
      BY <3>1, PathIs DEF Paths
    <3>3. ASSUME NEW l \in changed, NEW j \in 1..Len(c[l])
          PROVE  c[l][j] # c[k][i]
      <4>1. l \in Created
        BY PathIs
      <4>2. QED
        BY <2>2, <3>1, <3>2, <4>1, Apart
    <3>4. QED
      BY <3>1, <3>2, <3>3
  <2>3. QED
    BY <2>1, <2>2
<1>4. ASSUME NEW m \in allocated'
      PROVE  \E k \in List : \E i \in 1..Len(d[k]) : m = d[k][i]
  <2>1. CASE m \in UNION {{d[k][i] : i \in 1..Len(d[k])} : k \in changed}
    BY <2>1
  <2>2. CASE m \notin UNION {{d[k][i] : i \in 1..Len(d[k])} : k \in changed}
    <3>1. m \in allocated /\ \A k \in changed : \A i \in 1..Len(c[k]) :
                                m # c[k][i]
      BY <2>2
    <3>2. PICK k \in List : \E i \in 1..Len(c[k]) : m = c[k][i]
      BY <3>1 DEF Paths
    <3>3. k \notin changed
      BY <3>1, <3>2
    <3>4. QED
      BY <3>2, <3>3
  <2>3. QED
    BY <2>1, <2>2
<1>5. Paths(d)'
  BY <1>2, <1>3, <1>4 DEF Paths, Leads, Created
<1>6. ASSUME NEW k \in List \ changed
      PROVE  Values(d)'[k] = Values(c)[k]
  <2>1. d[k] = c[k] /\ Len(c[k]) \in Nat
    BY PathIs
  <2>2. \A i \in 1..(Len(c[k]) - 1) : i \in 1..Len(c[k])
    BY <2>1
  <2>3. \A i \in 1..(Len(c[k]) - 1) : data'[c[k][i]] = data[c[k][i]]
    BY <2>2 DEF Keeps
  <2>4. QED
    BY <2>1, <2>3 DEF Values, Along
<1>7. QED
  BY <1>5, <1>6

\* Most calls do that to one path.
BecomesOne(c, l, s) ==
  /\ \A k \in List \ {l} : Keeps(c, k)
  /\ Leads(l, s)'
  /\ allocated' = (allocated \ {c[l][i] : i \in 1..Len(c[l])})
                    \cup {s[i] : i \in 1..Len(s)}

(* Then they do the same to the values of one list.                        *)
LEMMA OnePath ==
  ASSUME NEW c, Paths(c), NEW l \in List, NEW s \in Seq(Node),
         BecomesOne(c, l, s)
  PROVE  \E d : /\ Paths(d)'
                /\ Values(d)' = [Values(c) EXCEPT ![l] = Along(s)']
<1> PICK d : d = [c EXCEPT ![l] = s]
  OBVIOUS
<1>1. /\ d \in [List -> Seq(Node)] /\ d[l] = s
      /\ \A k \in List \ {l} : d[k] = c[k]
  BY DEF Paths
<1>2. \A k \in List \ {l} : Keeps(c, k) /\ d[k] = c[k]
  BY <1>1 DEF BecomesOne
<1>3. \A k \in {l} : Leads(k, d[k])'
  BY <1>1 DEF BecomesOne
<1>4. allocated' =
        (allocated \ UNION {{c[k][i] : i \in 1..Len(c[k])} : k \in {l}})
          \cup UNION {{d[k][i] : i \in 1..Len(d[k])} : k \in {l}}
  BY <1>1 DEF BecomesOne
<1>5. Paths(d)' /\ \A k \in List \ {l} : Values(d)'[k] = Values(c)[k]
  <2>1. {l} \in SUBSET List
    OBVIOUS
  <2>2. QED
    <3>1. Becomes(c, d, {l})
      BY <1>2, <1>3, <1>4 DEF Becomes
    <3>2. QED
      BY <1>1, <2>1, <3>1, SomePaths, ZenonT(40)
<1>6. Values(d)' = [Values(c) EXCEPT ![l] = Along(s)']
  BY <1>1, <1>5 DEF Values
<1>7. QED
  BY <1>5, <1>6

(* What the new node and that of the iterator get is of their types.       *)
LEMMA InsertTypeOK ==
  ASSUME TypeOK, NEW l \in List, NEW iter \in allocated, NEW n \in Free,
         NEW v \in Value, SListInsertBefore(l, iter, n, v)
  PROVE  TypeOK'
<1>1. n \in Node /\ iter \in Node /\ n # iter /\ n \notin allocated
  BY DEF TypeOK, Free
<1>2. v # NULL /\ data[iter] # NULL
  BY <1>1, ValueAssumption DEF TypeOK
<1>3. next' \in [Node -> Node \cup {NULL}]
  BY <1>1 DEF SListInsertBefore, TypeOK
<1>4. data' \in [Node -> Value \cup List \cup {NULL}]
  BY <1>1 DEF SListInsertBefore, TypeOK
<1>5. TailAfterInsert(l, iter, n) \in Node \cup {NULL}
  BY <1>1 DEF TailAfterInsert, TypeOK
<1>6. tail' \in [List -> Node \cup {NULL}]
  BY <1>5 DEF SListInsertBefore, TypeOK
<1>7. \A m \in Node : data'[m] = NULL <=> m \notin allocated'
  BY <1>1, <1>2 DEF SListInsertBefore, TypeOK
<1>8. QED
  BY <1>1, <1>3, <1>4, <1>6, <1>7 DEF SListInsertBefore, TypeOK

(* The new node comes behind that of the iterator, whose value it takes.   *)
LEMMA InsertPath ==
  ASSUME TypeOK, NEW c, Paths(c), NEW l \in Created,
         NEW p \in 1..Len(c[l]), NEW n \in Free, NEW v \in Value,
         SListInsertBefore(l, c[l][p], n, v)
  PROVE  \E d : /\ Paths(d)'
                /\ Values(d)' = [Values(c) EXCEPT ![l] = InsertAt(@, p, v)]
<1> DEFINE o == Len(c[l])
           s == [x \in 1..(o + 1) |->
                  IF x <= p THEN c[l][x] ELSE IF x = p + 1 THEN n
                  ELSE c[l][x - 1]]
           iter == c[l][p]
<1>1. /\ l \in List /\ o \in Nat /\ p \in Nat /\ 1 <= p /\ p <= o
      /\ \A i \in 1..o : c[l][i] \in Node
      /\ c \in [List -> Seq(Node)]
  BY PathIs DEF Created
<1>2. n \in Node /\ n \notin allocated
  BY DEF Free
<1>3. s \in Seq(Node) /\ Len(s) = o + 1
  <2>1. ASSUME NEW x \in 1..(o + 1)
        PROVE  s[x] \in Node
    <3>1. x <= p \/ x = p + 1 \/ (x > p + 1 /\ x - 1 \in 1..o)
      BY <1>1
    <3>2. QED
      BY <1>1, <1>2, <3>1
  <2>2. o + 1 \in Nat /\ s \in [1..(o + 1) -> Node]
    BY <1>1, <2>1
  <2>3. QED
    BY <2>2
<1>4. \A k \in Created : \A i \in 1..Len(c[k]) :
        c[k][i] \in allocated /\ c[k][i] # n
  BY <1>2 DEF Paths, Created
<1>5. iter \in allocated /\ iter \in Node /\ iter # n
  BY <1>1, <1>4
<1>6. \A k \in Created : \A i \in 1..Len(c[k]) :
        c[k][i] = iter <=> k = l /\ i = p
  BY Apart
<1>7. /\ next' = [next EXCEPT ![n] = next[iter], ![iter] = n]
      /\ data' = [data EXCEPT ![n] = data[iter], ![iter] = v]
      /\ tail' = [tail EXCEPT ![l] = IF next[iter] = NULL THEN n ELSE tail[l]]
      /\ allocated' = allocated \cup {n}
      /\ head' = head /\ Created' = Created
  BY DEF SListInsertBefore, TailAfterInsert, Created
<1>8. /\ next'[n] = next[iter] /\ next'[iter] = n
      /\ data'[n] = data[iter] /\ data'[iter] = v
      /\ \A m \in Node : m # n /\ m # iter =>
           next'[m] = next[m] /\ data'[m] = data[m]
      /\ \A k \in List : k # l => tail'[k] = tail[k]
      /\ tail'[l] = IF next[iter] = NULL THEN n ELSE tail[l]
  BY <1>1, <1>2, <1>5, <1>7 DEF TypeOK
<1>9. ASSUME NEW k \in List \ {l}
      PROVE  Keeps(c, k)
  <2>1. \A i \in 1..Len(c[k]) :
          c[k][i] \in Node /\ c[k][i] # n /\ c[k][i] # iter
    BY <1>4, <1>6, PathIs
  <2>2. head'[k] = head[k] /\ tail'[k] = tail[k]
    BY <1>7, <1>8
  <2>3. QED
    BY <1>8, <2>1, <2>2 DEF Keeps
<1>10. /\ o # 0 /\ c[l][1] = head[l] /\ c[l][o] = tail[l] /\ data[tail[l]] = l
       /\ \A i \in 1..o : next[c[l][i]] = IF i = o THEN NULL ELSE c[l][i + 1]
  BY DEF Paths
<1>11. next[iter] = NULL <=> p = o
  <2>1. p # o => p + 1 \in 1..o
    BY <1>1
  <2>2. QED
    BY <1>1, <1>10, <2>1, NodeAssumption
<1>12. /\ \A x \in 1..p : s[x] = c[l][x] /\ x \in 1..o
       /\ s[p + 1] = n
       /\ \A x \in (p + 2)..(o + 1) : s[x] = c[l][x - 1] /\ x - 1 \in (p + 1)..o
  BY <1>1
<1>13. ASSUME NEW x \in 1..(o + 1)
       PROVE  next'[s[x]] = IF x = o + 1 THEN NULL ELSE s[x + 1]
  <2>1. CASE x < p
    <3>1. x \in 1..p /\ x + 1 \in 1..p /\ x # p /\ x # o /\ x # o + 1
      BY <1>1, <2>1
    <3>2. s[x] = c[l][x] /\ s[x + 1] = c[l][x + 1] /\ x \in 1..o
      BY <1>12, <3>1
    <3>3. next'[c[l][x]] = next[c[l][x]]
      BY <1>1, <1>4, <1>6, <1>8, <3>1, <3>2
    <3>4. QED
      BY <1>10, <3>1, <3>2, <3>3
  <2>2. CASE x = p
    <3>1. s[x] = iter /\ s[x + 1] = n /\ x # o + 1
      BY <1>1, <1>12, <2>2
    <3>2. QED
      BY <1>8, <3>1
  <2>3. CASE x = p + 1
    <3>1. s[x] = n /\ next'[s[x]] = next[iter]
      BY <1>8, <1>12, <2>3
    <3>2. CASE p = o
      <4>1. x = o + 1
        BY <2>3, <3>2
      <4>2. QED
        BY <1>11, <3>1, <3>2, <4>1
    <3>3. CASE p # o
      <4>1. /\ p + 2 \in (p + 2)..(o + 1) /\ x + 1 = p + 2 /\ x # o + 1
            /\ (p + 2) - 1 = p + 1
        BY <1>1, <2>3, <3>3
      <4>2. s[x + 1] = c[l][p + 1]
        BY <1>12, <4>1
      <4>3. QED
        BY <1>10, <3>1, <3>3, <4>1, <4>2
    <3>4. QED
      BY <3>2, <3>3
  <2>4. CASE x > p + 1
    <3>1. /\ x \in (p + 2)..(o + 1) /\ x - 1 \in 1..o /\ x - 1 # p
          /\ x # o + 1 => /\ x + 1 \in (p + 2)..(o + 1)
                          /\ (x + 1) - 1 = (x - 1) + 1
          /\ x = o + 1 <=> x - 1 = o
      <4> HIDE DEF s, iter, o
      <4>1. QED
        BY <1>1, <2>4
    <3>2. s[x] = c[l][x - 1] /\ (x # o + 1 => s[x + 1] = c[l][(x - 1) + 1])
      BY <1>12, <3>1
    <3>3. next'[c[l][x - 1]] = next[c[l][x - 1]]
      BY <1>1, <1>4, <1>6, <1>8, <3>1
    <3>4. QED
      BY <1>10, <3>1, <3>2, <3>3
  <2>5. QED
    BY <1>1, <2>1, <2>2, <2>3, <2>4
<1>14. /\ s[1] = head[l]
       /\ s[o + 1] = tail'[l]
       /\ data'[tail'[l]] = l
  <2>1. s[1] = c[l][1]
    BY <1>1, <1>12
  <2>2. CASE p = o
    <3>1. s[o + 1] = n /\ tail'[l] = n
      BY <1>8, <1>11, <1>12, <2>2
    <3>2. QED
      BY <1>8, <1>10, <2>1, <2>2, <3>1
  <2>3. CASE p # o
    <3>1. o + 1 \in (p + 2)..(o + 1) /\ (o + 1) - 1 = o /\ o \in 1..o
      BY <1>1, <2>3
    <3>2. s[o + 1] = tail[l] /\ tail'[l] = tail[l]
      BY <1>8, <1>10, <1>11, <1>12, <2>3, <3>1
    <3>3. tail[l] \in Node /\ tail[l] # n /\ tail[l] # iter
      BY <1>1, <1>4, <1>6, <1>10, <2>3, <3>1
    <3>4. QED
      BY <1>8, <1>10, <2>1, <3>2, <3>3
  <2>4. QED
    BY <2>2, <2>3
<1>15. {s[i] : i \in 1..(o + 1)} = {c[l][i] : i \in 1..o} \cup {n}
  <2>1. ASSUME NEW i \in 1..(o + 1)
        PROVE  s[i] = n \/ \E j \in 1..o : s[i] = c[l][j]
    <3>1. i \in 1..p \/ i = p + 1 \/ i \in (p + 2)..(o + 1)
      BY <1>1
    <3>2. \A j \in (p + 1)..o : j \in 1..o
      BY <1>1
    <3>3. QED
      BY <1>12, <3>1, <3>2
  <2>2. ASSUME NEW j \in 1..o
        PROVE  \E i \in 1..(o + 1) : s[i] = c[l][j]
    <3>1. CASE j <= p
      <4>1. j \in 1..p /\ j \in 1..(o + 1)
        BY <1>1, <3>1
      <4>2. QED
        BY <1>12, <4>1
    <3>2. CASE ~(j <= p)
      <4>1. /\ j + 1 \in (p + 2)..(o + 1) /\ j + 1 \in 1..(o + 1)
            /\ (j + 1) - 1 = j
        BY <1>1, <3>2
      <4>2. s[j + 1] = c[l][j]
        BY <1>12, <4>1
      <4>3. QED
        BY <4>1, <4>2
    <3>3. QED
      BY <3>1, <3>2
  <2>3. p + 1 \in 1..(o + 1) /\ s[p + 1] = n
    BY <1>1, <1>12
  <2> HIDE DEF s, o
  <2>4. {s[i] : i \in 1..(o + 1)} \subseteq {c[l][i] : i \in 1..o} \cup {n}
    BY <2>1
  <2>5. {c[l][i] : i \in 1..o} \subseteq {s[i] : i \in 1..(o + 1)}
    BY <2>2
  <2>6. QED
    BY <2>3, <2>4, <2>5
<1> HIDE DEF s, iter
<1>16. allocated' = (allocated \ {c[l][i] : i \in 1..o})
                      \cup {s[i] : i \in 1..(o + 1)}
  BY <1>4, <1>7, <1>15, ZenonT(40)
<1>17. \E d : /\ Paths(d)'
             /\ Values(d)' = [Values(c) EXCEPT ![l] =
                                [i \in 1..o |-> data'[s[i]]]]
  <2>1. Len(s) # 0 /\ Len(s) - 1 = o
    BY <1>1, <1>3
  <2>2. Leads(l, s)'
    BY <1>3, <1>7, <1>13, <1>14, <2>1 DEF Leads
  <2>3. allocated' = (allocated \ {c[l][i] : i \in 1..Len(c[l])})
                       \cup {s[i] : i \in 1..Len(s)}
    BY <1>3, <1>16
  <2>4. BecomesOne(c, l, s)
    BY <1>9, <2>2, <2>3 DEF BecomesOne
  <2>5. PICK t : t = s
    OBVIOUS
  <2>6. l \in List /\ t \in Seq(Node) /\ BecomesOne(c, l, t)
    BY <1>1, <1>3, <2>4, <2>5
  <2>7. \E d : Paths(d)' /\ Values(d)' = [Values(c) EXCEPT ![l] = Along(t)']
    BY <2>6, OnePath
  <2>8. Along(t)' = [i \in 1..o |-> data'[s[i]]]
    BY <2>1, <2>5 DEF Along
  <2>9. QED
    BY <2>7, <2>8
<1>18. [i \in 1..o |-> data'[s[i]]] = InsertAt(Values(c)[l], p, v)
  <2> DEFINE q == Values(c)[l]
             W == Value \cup List \cup {NULL}
  <2>1. /\ q \in Seq(W) /\ Len(q) = o - 1
        /\ \A i \in 1..(o - 1) : q[i] = data[c[l][i]]
    <3>1. l \in List
      BY <1>1
    <3>2. QED
      BY <3>1, ValuesIs
  <2>2. InsertAt(q, p, v) =
          [i \in 1..o |-> IF i < p THEN q[i] ELSE IF i = p THEN v ELSE q[i - 1]]
    <3>1. p \in 1..(Len(q) + 1) /\ v \in W /\ Len(q) + 1 = o
      BY <1>1, <2>1
    <3> HIDE DEF q, W
    <3>2. QED
      BY <2>1, <3>1, InsertAtIs
  <2> HIDE DEF q
  <2>3. ASSUME NEW i \in 1..o
        PROVE  data'[s[i]] = IF i < p THEN q[i] ELSE IF i = p THEN v
                             ELSE q[i - 1]
    <3>1. CASE i < p
      <4>1. i \in 1..p /\ i \in 1..(o - 1) /\ i # p
        BY <1>1, <3>1
      <4>2. s[i] = c[l][i] /\ data'[c[l][i]] = data[c[l][i]]
        BY <1>1, <1>4, <1>6, <1>8, <1>12, <4>1
      <4>3. QED
        BY <2>1, <3>1, <4>1, <4>2
    <3>2. CASE i = p
      <4>1. i \in 1..p
        BY <1>1, <3>2
      <4>2. s[i] = iter
        BY <1>12, <3>2, <4>1 DEF iter
      <4>3. QED
        BY <1>1, <1>8, <3>2, <4>2
    <3>3. CASE i = p + 1
      <4>1. s[i] = n /\ i - 1 = p /\ p \in 1..(o - 1) /\ ~(i < p) /\ i # p
        BY <1>1, <1>12, <3>3
      <4>2. data'[n] = data[iter] /\ q[p] = data[iter]
        BY <1>8, <2>1, <4>1 DEF iter
      <4>3. QED
        BY <4>1, <4>2
    <3>4. CASE i > p + 1
      <4>1. /\ i \in (p + 2)..(o + 1) /\ i - 1 \in 1..(o - 1) /\ i - 1 \in 1..o
            /\ i - 1 # p /\ ~(i < p) /\ i # p
        BY <1>1, <3>4
      <4>2. s[i] = c[l][i - 1] /\ data'[c[l][i - 1]] = data[c[l][i - 1]]
        BY <1>1, <1>4, <1>6, <1>8, <1>12, <4>1
      <4>3. QED
        BY <2>1, <4>1, <4>2
    <3>5. QED
      BY <1>1, <3>1, <3>2, <3>3, <3>4
  <2>4. QED
    BY <2>2, <2>3 DEF q
<1>19. [Values(c) EXCEPT ![l] = InsertAt(@, p, v)] =
         [Values(c) EXCEPT ![l] = [i \in 1..o |-> data'[s[i]]]]
  BY <1>18 DEF Values
<1>20. QED
  BY <1>17, <1>19

(* The place of the tail may be taken by the iterator of any element.      *)
LEMMA RemoveIs ==
  ASSUME TypeOK, NEW c, Paths(c), NEW l \in Created,
         NEW p \in 1..(Len(c[l]) - 1), SListRemove(c[l][p])
  PROVE  LET iter == c[l][p]  second == c[l][p + 1] IN
         /\ p + 1 \in 1..Len(c[l])
         /\ next' = [next EXCEPT ![iter] = next[second], ![second] = NULL]
         /\ data' = [data EXCEPT ![iter] = data[second], ![second] = NULL]
         /\ tail' = [tail EXCEPT ![l] = IF p + 1 = Len(c[l]) THEN iter
                                       ELSE tail[l]]
         /\ allocated' = allocated \ {second}
         /\ head' = head /\ Created' = Created
<1> DEFINE o == Len(c[l])
           iter == c[l][p]
           second == c[l][p + 1]
<1>1. /\ l \in List /\ o \in Nat /\ p \in Nat /\ 1 <= p /\ p < o
      /\ p \in 1..o /\ p + 1 \in 1..o /\ p # o
      /\ \A i \in 1..o : c[l][i] \in Node
  BY PathIs DEF Created
<1>2. /\ c[l][o] = tail[l] /\ data[tail[l]] = l
      /\ \A i \in 1..o : next[c[l][i]] = IF i = o THEN NULL ELSE c[l][i + 1]
  BY DEF Paths
<1>3. next[iter] = second
  BY <1>1, <1>2
<1>4. next[second] = NULL <=> p + 1 = o
  <2>1. p + 1 # o => (p + 1) + 1 \in 1..o
    BY <1>1
  <2>2. QED
    BY <1>1, <1>2, <2>1, NodeAssumption
<1>5. tail' = [tail EXCEPT ![l] = IF p + 1 = o THEN iter ELSE tail[l]]
  <2>1. CASE p + 1 = o
    BY <1>2, <1>3, <1>4, <2>1 DEF SListRemove
  <2>2. CASE p + 1 # o
    <3>1. tail' = tail
      BY <1>3, <1>4, <2>2 DEF SListRemove
    <3>2. QED
      BY <2>2, <3>1 DEF TypeOK
  <2>3. QED
    BY <2>1, <2>2
<1>6. QED
  BY <1>1, <1>3, <1>5 DEF SListRemove, Created

(* What the node of the iterator gets is of its type.                      *)
LEMMA RemoveTypeOK ==
  ASSUME TypeOK, NEW c, Paths(c), NEW l \in Created,
         NEW p \in 1..(Len(c[l]) - 1), SListRemove(c[l][p])
  PROVE  TypeOK'
<1> PICK iter, second : iter = c[l][p] /\ second = c[l][p + 1]
  OBVIOUS
<1>1. /\ next' = [next EXCEPT ![iter] = next[second], ![second] = NULL]
      /\ data' = [data EXCEPT ![iter] = data[second], ![second] = NULL]
      /\ tail' = [tail EXCEPT ![l] = IF p + 1 = Len(c[l]) THEN iter
                                    ELSE tail[l]]
      /\ allocated' = allocated \ {second}
      /\ head' = head
  BY RemoveIs
<1>2. /\ l \in List /\ p \in 1..Len(c[l]) /\ p + 1 \in 1..Len(c[l]) /\ p # p + 1
  <2>1. l \in List
    BY DEF Created
  <2>2. Len(c[l]) \in Nat
    BY <2>1, PathIs
  <2>3. QED
    BY <2>1, <2>2
<1>3. /\ iter \in Node /\ second \in Node /\ iter # second
      /\ iter \in allocated /\ second \in allocated
  <2>1. iter \in Node /\ second \in Node
    BY <1>2, PathIs
  <2>2. iter # second
    BY <1>2, Apart
  <2>3. iter \in allocated /\ second \in allocated
    BY <1>2 DEF Paths
  <2>4. QED
    BY <2>1, <2>2, <2>3
<1>4. next' \in [Node -> Node \cup {NULL}]
  BY <1>1, <1>3 DEF TypeOK
<1>5. data' \in [Node -> Value \cup List \cup {NULL}]
  BY <1>1, <1>3 DEF TypeOK
<1>6. tail' \in [List -> Node \cup {NULL}]
  BY <1>1, <1>2, <1>3 DEF TypeOK
<1>7. \A m \in Node : data'[m] = NULL <=> m \notin allocated'
  BY <1>1, <1>3 DEF TypeOK
<1>8. QED
  BY <1>1, <1>4, <1>5, <1>6, <1>7 DEF TypeOK

(* The node behind that of the iterator goes, and its value is kept.       *)
LEMMA RemovePath ==
  ASSUME TypeOK, NEW c, Paths(c), NEW l \in Created,
         NEW p \in 1..(Len(c[l]) - 1), SListRemove(c[l][p])
  PROVE  \E d : /\ Paths(d)'
                /\ Values(d)' = [Values(c) EXCEPT ![l] = RemoveAt(@, p)]
<1> DEFINE o == Len(c[l])
           s == [x \in 1..(o - 1) |->
                  IF x <= p THEN c[l][x] ELSE c[l][x + 1]]
<1> PICK iter, second : iter = c[l][p] /\ second = c[l][p + 1]
  OBVIOUS
<1>1. /\ l \in List /\ o \in Nat /\ p \in Nat /\ 1 <= p /\ p < o
      /\ p \in 1..o /\ p + 1 \in 1..o /\ p # o
      /\ \A i \in 1..o : c[l][i] \in Node
      /\ c \in [List -> Seq(Node)]
  BY PathIs DEF Created
<1>2. s \in Seq(Node) /\ Len(s) = o - 1
  <2>1. ASSUME NEW x \in 1..(o - 1)
        PROVE  s[x] \in Node
    <3>1. x \in 1..o /\ x + 1 \in 1..o
      BY <1>1
    <3>2. QED
      BY <1>1, <3>1
  <2>2. o - 1 \in Nat /\ s \in [1..(o - 1) -> Node]
    BY <1>1, <2>1
  <2> HIDE DEF s, o
  <2>3. QED
    BY <2>2
<1>3. \A k \in Created : \A i \in 1..Len(c[k]) :
        /\ c[k][i] \in allocated
        /\ c[k][i] = iter <=> k = l /\ i = p
        /\ c[k][i] = second <=> k = l /\ i = p + 1
  <2>1. \A k \in Created : \A i \in 1..Len(c[k]) : c[k][i] \in allocated
    BY DEF Paths, Created
  <2>2. \A k \in Created : \A i \in 1..Len(c[k]), j \in 1..Len(c[l]) :
          c[k][i] = c[l][j] => k = l /\ i = j
    BY Apart
  <2>3. QED
    BY <1>1, <2>1, <2>2
<1>4. iter \in Node /\ second \in Node /\ iter # second
  <2>1. p # p + 1
    BY <1>1
  <2>2. QED
    BY <1>1, <1>3, <2>1
<1>5. /\ next' = [next EXCEPT ![iter] = next[second], ![second] = NULL]
      /\ data' = [data EXCEPT ![iter] = data[second], ![second] = NULL]
      /\ tail' = [tail EXCEPT ![l] = IF p + 1 = o THEN iter ELSE tail[l]]
      /\ allocated' = allocated \ {second}
      /\ head' = head /\ Created' = Created
  BY RemoveIs
<1>6. /\ next'[iter] = next[second] /\ data'[iter] = data[second]
      /\ \A m \in Node : m # second /\ m # iter =>
           next'[m] = next[m] /\ data'[m] = data[m]
      /\ \A k \in List : k # l => tail'[k] = tail[k]
      /\ tail'[l] = IF p + 1 = o THEN iter ELSE tail[l]
  BY <1>1, <1>4, <1>5 DEF TypeOK
<1>7. /\ c[l][1] = head[l] /\ c[l][o] = tail[l] /\ data[tail[l]] = l
      /\ \A i \in 1..o : next[c[l][i]] = IF i = o THEN NULL ELSE c[l][i + 1]
  BY DEF Paths
<1>8. ASSUME NEW k \in List \ {l}
      PROVE  Keeps(c, k)
  <2>1. \A i \in 1..Len(c[k]) :
          c[k][i] \in Node /\ c[k][i] # second /\ c[k][i] # iter
    BY <1>3, PathIs
  <2>2. head'[k] = head[k] /\ tail'[k] = tail[k]
    BY <1>5, <1>6
  <2>3. QED
    BY <1>6, <2>1, <2>2 DEF Keeps
<1>9. /\ \A x \in 1..p : s[x] = c[l][x] /\ x \in 1..o
      /\ \A x \in (p + 1)..(o - 1) : /\ s[x] = c[l][x + 1]
                                     /\ x + 1 \in (p + 2)..o /\ x + 1 \in 1..o
  BY <1>1
<1>10. ASSUME NEW x \in 1..(o - 1)
       PROVE  next'[s[x]] = IF x = o - 1 THEN NULL ELSE s[x + 1]
  <2>1. CASE x < p
    <3>1. /\ x \in 1..p /\ x + 1 \in 1..p /\ x # p /\ x # p + 1 /\ x # o
          /\ x # o - 1 /\ x \in 1..o
      BY <1>1, <2>1
    <3>2. s[x] = c[l][x] /\ s[x + 1] = c[l][x + 1]
      BY <1>9, <3>1
    <3>3. next'[c[l][x]] = next[c[l][x]]
      BY <1>1, <1>3, <1>6, <3>1
    <3>4. QED
      BY <1>7, <3>1, <3>2, <3>3
  <2>2. CASE x = p
    <3>1. p \in 1..p /\ s[x] = iter /\ next'[s[x]] = next[second]
      BY <1>1, <1>6, <1>9, <2>2
    <3>2. CASE p + 1 = o
      <4>1. x = o - 1
        BY <1>1, <2>2, <3>2
      <4>2. QED
        BY <1>1, <1>7, <3>1, <3>2, <4>1
    <3>3. CASE p + 1 # o
      <4>1. x + 1 \in (p + 1)..(o - 1) /\ x # o - 1 /\ x + 1 = p + 1
        BY <1>1, <2>2, <3>3
      <4>2. s[x + 1] = c[l][(p + 1) + 1]
        BY <1>9, <4>1
      <4>3. QED
        BY <1>1, <1>7, <3>1, <3>3, <4>1, <4>2
    <3>4. QED
      BY <3>2, <3>3
  <2>3. CASE x > p
    <3>1. /\ x \in (p + 1)..(o - 1) /\ x + 1 \in 1..o
          /\ x + 1 # p /\ x + 1 # p + 1
          /\ x # o - 1 => x + 1 \in (p + 1)..(o - 1)
          /\ x = o - 1 <=> x + 1 = o
      <4> HIDE DEF s, o
      <4>1. QED
        BY <1>1, <2>3
    <3>2. s[x] = c[l][x + 1] /\ (x # o - 1 => s[x + 1] = c[l][(x + 1) + 1])
      BY <1>9, <3>1
    <3>3. next'[c[l][x + 1]] = next[c[l][x + 1]]
      BY <1>1, <1>3, <1>6, <3>1
    <3>4. QED
      BY <1>7, <3>1, <3>2, <3>3
  <2>4. QED
    BY <1>1, <2>1, <2>2, <2>3
<1>11. /\ s[1] = head[l]
       /\ s[o - 1] = tail'[l]
       /\ data'[tail'[l]] = l
  <2>1. s[1] = c[l][1]
    BY <1>1, <1>9
  <2>2. CASE p + 1 = o
    <3>1. o - 1 = p /\ p \in 1..p
      BY <1>1, <2>2
    <3>2. s[o - 1] = iter /\ tail'[l] = iter
      BY <1>6, <1>9, <2>2, <3>1
    <3>3. second = tail[l]
      BY <1>7, <2>2
    <3>4. QED
      BY <1>6, <1>7, <2>1, <3>2, <3>3
  <2>3. CASE p + 1 # o
    <3>1. o - 1 \in (p + 1)..(o - 1) /\ (o - 1) + 1 = o /\ o \in 1..o
      BY <1>1, <2>3
    <3>2. s[o - 1] = tail[l] /\ tail'[l] = tail[l]
      BY <1>6, <1>7, <1>9, <2>3, <3>1
    <3>3. tail[l] \in Node /\ tail[l] # second /\ tail[l] # iter
      BY <1>1, <1>3, <1>7, <2>3, <3>1
    <3>4. QED
      BY <1>6, <1>7, <2>1, <3>2, <3>3
  <2>4. QED
    BY <2>2, <2>3
<1>12. {s[i] : i \in 1..(o - 1)} = {c[l][i] : i \in 1..o} \ {second}
  <2>1. ASSUME NEW i \in 1..(o - 1)
        PROVE  \E j \in 1..o : s[i] = c[l][j] /\ c[l][j] # second
    <3>1. i \in 1..p \/ i \in (p + 1)..(o - 1)
      BY <1>1
    <3>2. CASE i \in 1..p
      <4>1. i # p + 1
        BY <1>1, <3>2
      <4>2. QED
        BY <1>3, <1>9, <3>2, <4>1
    <3>3. CASE i \in (p + 1)..(o - 1)
      <4>1. i + 1 # p + 1
        BY <1>1, <3>3
      <4>2. QED
        BY <1>3, <1>9, <3>3, <4>1
    <3>4. QED
      BY <3>1, <3>2, <3>3
  <2>2. ASSUME NEW j \in 1..o, c[l][j] # second
        PROVE  \E i \in 1..(o - 1) : s[i] = c[l][j]
    <3>1. j # p + 1
      BY <1>3, <2>2
    <3>2. CASE j <= p
      <4>1. j \in 1..p /\ j \in 1..(o - 1)
        BY <1>1, <3>2
      <4>2. QED
        BY <1>9, <4>1
    <3>3. CASE ~(j <= p)
      <4>1. /\ j - 1 \in (p + 1)..(o - 1) /\ j - 1 \in 1..(o - 1)
            /\ (j - 1) + 1 = j
        BY <1>1, <3>1, <3>3
      <4>2. s[j - 1] = c[l][j]
        BY <1>9, <4>1
      <4>3. QED
        BY <4>1, <4>2
    <3>4. QED
      BY <3>2, <3>3
  <2> HIDE DEF s, o
  <2>3. {s[i] : i \in 1..(o - 1)} \subseteq {c[l][i] : i \in 1..o} \ {second}
    BY <2>1
  <2>4. {c[l][i] : i \in 1..o} \ {second} \subseteq {s[i] : i \in 1..(o - 1)}
    BY <2>2
  <2>5. QED
    BY <2>3, <2>4
<1> HIDE DEF s
<1>13. allocated' = (allocated \ {c[l][i] : i \in 1..o})
                      \cup {s[i] : i \in 1..(o - 1)}
  <2>1. {c[l][i] : i \in 1..o} \subseteq allocated
    BY <1>3
  <2>2. second \in {c[l][i] : i \in 1..o}
    BY <1>1
  <2>3. QED
    BY <1>5, <1>12, <2>1, <2>2
<1>14. \E d : /\ Paths(d)'
             /\ Values(d)' = [Values(c) EXCEPT ![l] =
                                [i \in 1..(o - 2) |-> data'[s[i]]]]
  <2>1. Len(s) # 0 /\ Len(s) - 1 = o - 2
    BY <1>1, <1>2
  <2>2. Leads(l, s)'
    BY <1>2, <1>5, <1>10, <1>11, <2>1 DEF Leads
  <2>3. allocated' = (allocated \ {c[l][i] : i \in 1..Len(c[l])})
                       \cup {s[i] : i \in 1..Len(s)}
    BY <1>2, <1>13
  <2>4. BecomesOne(c, l, s)
    BY <1>8, <2>2, <2>3 DEF BecomesOne
  <2>5. PICK t : t = s
    OBVIOUS
  <2>6. l \in List /\ t \in Seq(Node) /\ BecomesOne(c, l, t)
    BY <1>1, <1>2, <2>4, <2>5
  <2>7. \E d : Paths(d)' /\ Values(d)' = [Values(c) EXCEPT ![l] = Along(t)']
    BY <2>6, OnePath
  <2>8. Along(t)' = [i \in 1..(o - 2) |-> data'[s[i]]]
    BY <2>1, <2>5 DEF Along
  <2>9. QED
    BY <2>7, <2>8
<1>15. [i \in 1..(o - 2) |-> data'[s[i]]] = RemoveAt(Values(c)[l], p)
  <2> DEFINE q == Values(c)[l]
             W == Value \cup List \cup {NULL}
  <2>1. /\ q \in Seq(W) /\ Len(q) = o - 1
        /\ \A i \in 1..(o - 1) : q[i] = data[c[l][i]]
    <3>1. l \in List
      BY <1>1
    <3>2. QED
      BY <3>1, ValuesIs, SMTT(30)
  <2>2. RemoveAt(q, p) =
          [i \in 1..(o - 2) |-> IF i < p THEN q[i] ELSE q[i + 1]]
    <3>1. p \in 1..Len(q) /\ Len(q) - 1 = o - 2
      BY <1>1, <2>1
    <3> HIDE DEF q, W
    <3>2. QED
      BY <2>1, <3>1, RemoveAtIs
  <2> HIDE DEF q
  <2>3. ASSUME NEW i \in 1..(o - 2)
        PROVE  data'[s[i]] = IF i < p THEN q[i] ELSE q[i + 1]
    <3>1. CASE i < p
      <4>1. i \in 1..p /\ i \in 1..(o - 1) /\ i # p /\ i # p + 1 /\ i \in 1..o
        BY <1>1, <3>1
      <4>2. s[i] = c[l][i] /\ data'[c[l][i]] = data[c[l][i]]
        BY <1>1, <1>3, <1>6, <1>9, <4>1
      <4>3. QED
        BY <2>1, <3>1, <4>1, <4>2
    <3>2. CASE i = p
      <4>1. i \in 1..p /\ i + 1 \in 1..(o - 1) /\ ~(i < p)
        BY <1>1, <3>2
      <4>2. data'[s[i]] = data[second]
        BY <1>6, <1>9, <3>2, <4>1
      <4>3. QED
        BY <2>1, <3>2, <4>1, <4>2
    <3>3. CASE i > p
      <4>1. /\ i \in (p + 1)..(o - 1) /\ i + 1 \in 1..(o - 1) /\ i + 1 \in 1..o
            /\ i + 1 # p /\ i + 1 # p + 1 /\ ~(i < p)
        BY <1>1, <3>3
      <4>2. s[i] = c[l][i + 1] /\ data'[c[l][i + 1]] = data[c[l][i + 1]]
        BY <1>1, <1>3, <1>6, <1>9, <4>1
      <4>3. QED
        BY <2>1, <4>1, <4>2
    <3>4. QED
      BY <1>1, <3>1, <3>2, <3>3
  <2>4. QED
    BY <2>2, <2>3 DEF q
<1>16. [Values(c) EXCEPT ![l] = RemoveAt(@, p)] =
         [Values(c) EXCEPT ![l] = [i \in 1..(o - 2) |-> data'[s[i]]]]
  BY <1>15 DEF Values
<1>17. QED
  BY <1>14, <1>16

(* The path of a new list is its dummy.                                    *)
LEMMA CreatePath ==
  ASSUME TypeOK, NEW c, Paths(c), NEW l \in List, NEW n \in Node,
         SListCreate(l, n)
  PROVE  /\ TypeOK'
         /\ \E d : /\ Paths(d)'
                   /\ Values(d)' = [Values(c) EXCEPT ![l] = << >>]
<1>1. /\ n \notin allocated /\ l \notin Created /\ Len(c[l]) = 0
  BY PathIs DEF SListCreate, Free
<1>2. /\ head' = [head EXCEPT ![l] = n] /\ tail' = [tail EXCEPT ![l] = n]
      /\ next' = [next EXCEPT ![n] = NULL] /\ data' = [data EXCEPT ![n] = l]
      /\ allocated' = allocated \cup {n}
  BY DEF SListCreate
<1>3. TypeOK'
  BY <1>1, <1>2, NodeAssumption DEF TypeOK
<1>4. <<n>> \in Seq(Node) /\ Len(<<n>>) = 1 /\ <<n>>[1] = n /\ 1..1 = {1}
  OBVIOUS
<1>5. ASSUME NEW k \in List \ {l}
      PROVE  Keeps(c, k)
  <2>1. \A i \in 1..Len(c[k]) : c[k][i] \in Node /\ c[k][i] # n
    BY <1>1, PathIs DEF Paths
  <2>2. \A i \in 1..Len(c[k]) : /\ next'[c[k][i]] = next[c[k][i]]
                               /\ data'[c[k][i]] = data[c[k][i]]
    BY <1>2, <2>1 DEF TypeOK
  <2>3. head'[k] = head[k] /\ tail'[k] = tail[k]
    BY <1>2 DEF TypeOK
  <2>4. QED
    BY <2>2, <2>3 DEF Keeps
<1>6. head'[l] = n /\ tail'[l] = n /\ next'[n] = NULL /\ data'[n] = l
  BY <1>2 DEF TypeOK
<1>7. Leads(l, <<n>>)'
  BY <1>4, <1>6, NodeAssumption DEF Leads, Created
<1>8. /\ {c[l][i] : i \in 1..Len(c[l])} = {}
      /\ {<<n>>[i] : i \in 1..Len(<<n>>)} = {n}
  BY <1>1, <1>4
<1>9. BecomesOne(c, l, <<n>>)
  BY <1>2, <1>5, <1>7, <1>8 DEF BecomesOne
<1>10. PICK s : s = <<n>>
  OBVIOUS
<1>11. s \in Seq(Node) /\ BecomesOne(c, l, s)
  BY <1>4, <1>9, <1>10
<1>12. \E d : Paths(d)' /\ Values(d)' = [Values(c) EXCEPT ![l] = Along(s)']
  BY <1>11, OnePath
<1>13. Along(s)' = << >>
  BY <1>4, <1>10 DEF Along
<1>14. QED
  BY <1>3, <1>12, <1>13

(* The path of a destroyed list is empty, and its nodes are free.          *)
LEMMA DestroyPath ==
  ASSUME TypeOK, NEW c, Paths(c), NEW l \in List, SListDestroy(l)
  PROVE  /\ TypeOK'
         /\ \E d : /\ Paths(d)'
                   /\ Values(d)' = [Values(c) EXCEPT ![l] = << >>]
<1> PICK freed : freed = {c[l][i] : i \in 1..Len(c[l])}
  OBVIOUS
<1>1. Freed(l) = freed /\ freed \subseteq Node
  BY Walked, PathIs DEF Freed
<1>2. /\ l \in Created
      /\ head' = [head EXCEPT ![l] = NULL] /\ tail' = [tail EXCEPT ![l] = NULL]
      /\ next' = [n \in Node |-> IF n \in freed THEN NULL ELSE next[n]]
      /\ data' = [n \in Node |-> IF n \in freed THEN NULL ELSE data[n]]
      /\ allocated' = allocated \ freed
  BY <1>1 DEF SListDestroy
<1>3. TypeOK'
  BY <1>2 DEF TypeOK
<1>4. ASSUME NEW k \in List \ {l}
      PROVE  Keeps(c, k)
  <2>1. \A i \in 1..Len(c[k]) : c[k][i] \in Node /\ c[k][i] \notin freed
    <3> SUFFICES ASSUME NEW i \in 1..Len(c[k]), NEW j \in 1..Len(c[l]),
                        c[k][i] = c[l][j]
                 PROVE  FALSE
      BY PathIs
    <3>1. k \in Created
      BY PathIs
    <3>2. QED
      BY <1>2, <3>1, Apart
  <2>2. \A i \in 1..Len(c[k]) : /\ next'[c[k][i]] = next[c[k][i]]
                               /\ data'[c[k][i]] = data[c[k][i]]
    BY <1>2, <2>1
  <2>3. head'[k] = head[k] /\ tail'[k] = tail[k]
    BY <1>2 DEF TypeOK
  <2>4. QED
    BY <2>2, <2>3 DEF Keeps
<1>5. PICK s : s = << >>
  OBVIOUS
<1>6. s \in Seq(Node) /\ Len(s) = 0 /\ 1..Len(s) = {}
  BY <1>5
<1>7. head'[l] = NULL
  BY <1>2 DEF TypeOK
<1>8. Leads(l, s)'
  BY <1>6, <1>7 DEF Leads, Created
<1>9. {s[i] : i \in 1..Len(s)} = {}
  BY <1>6
<1>10. BecomesOne(c, l, s)
  BY <1>2, <1>4, <1>8, <1>9 DEF BecomesOne
<1>11. \E d : Paths(d)' /\ Values(d)' = [Values(c) EXCEPT ![l] = Along(s)']
  BY <1>6, <1>10, OnePath
<1>12. Along(s)' = << >>
  BY <1>5 DEF Along
<1>13. QED
  BY <1>3, <1>11, <1>12

(* No path changes, and one value does.                                    *)
LEMMA SetDataPath ==
  ASSUME TypeOK, NEW c, Paths(c), NEW l \in Created,
         NEW p \in 1..(Len(c[l]) - 1), NEW v \in Value,
         SListIterSetData(c[l][p], v)
  PROVE  /\ TypeOK' /\ Paths(c)'
         /\ Values(c)' = [Values(c) EXCEPT ![l][p] = v]
<1> PICK iter, o : iter = c[l][p] /\ o = Len(c[l])
  OBVIOUS
<1>1. l \in List
  BY DEF Created
<1>2. o \in Nat /\ c[l][o] = tail[l]
  BY <1>1, PathIs DEF Paths
<1>3. p \in 1..o /\ p # o /\ o \in 1..o /\ iter \in Node /\ iter \in allocated
  <2>1. p \in 1..o /\ p # o /\ o \in 1..o
    BY <1>2
  <2>2. QED
    BY <1>1, <2>1, PathIs DEF Paths
<1>4. \A k \in Created : \A i \in 1..Len(c[k]) :
        c[k][i] = iter <=> k = l /\ i = p
  BY <1>3, Apart
<1>5. /\ data' = [data EXCEPT ![iter] = v]
      /\ head' = head /\ tail' = tail /\ next' = next /\ allocated' = allocated
      /\ Created' = Created
  BY DEF SListIterSetData, Created
<1>6. data'[iter] = v /\ \A m \in Node : m # iter => data'[m] = data[m]
  BY <1>3, <1>5 DEF TypeOK
<1>7. v # NULL
  BY ValueAssumption
<1>8. TypeOK'
  BY <1>3, <1>5, <1>7 DEF TypeOK
<1>9. \A k \in Created : data'[tail[k]] = data[tail[k]]
  <2> SUFFICES ASSUME NEW k \in Created
               PROVE  data'[tail[k]] = data[tail[k]]
    OBVIOUS
  <2>1. k \in List
    BY DEF Created
  <2>2. Len(c[k]) \in Nat /\ Len(c[k]) # 0 /\ c[k][Len(c[k])] = tail[k]
    BY <2>1, PathIs DEF Paths
  <2>3. Len(c[k]) \in 1..Len(c[k])
    BY <2>2
  <2>4. tail[k] # iter /\ tail[k] \in Node
    BY <1>3, <1>4, <2>1, <2>2, <2>3, PathIs
  <2>5. QED
    BY <1>6, <2>4
<1>10. Paths(c)'
  BY <1>5, <1>9, ZenonT(40) DEF Paths
<1>11. ASSUME NEW k \in List, NEW i \in 1..(Len(c[k]) - 1)
       PROVE  data'[c[k][i]] = IF k = l /\ i = p THEN v ELSE data[c[k][i]]
  <2>1. Len(c[k]) \in Nat
    BY PathIs
  <2>2. i \in 1..Len(c[k]) /\ Len(c[k]) # 0
    BY <2>1
  <2>3. k \in Created /\ c[k][i] \in Node
    BY <2>2, PathIs
  <2>4. QED
    BY <1>4, <1>6, <2>2, <2>3
<1>12. [i \in 1..(o - 1) |-> data'[c[l][i]]] = [Values(c)[l] EXCEPT ![p] = v]
  <2>1. Values(c)[l] = [i \in 1..(o - 1) |-> data[c[l][i]]]
    BY <1>1 DEF Values, Along
  <2>2. \A i \in 1..(o - 1) :
          data'[c[l][i]] = IF i = p THEN v ELSE data[c[l][i]]
    BY <1>1, <1>11
  <2>3. QED
    BY <2>1, <2>2
<1>13. \A k \in List : k # l =>
         [i \in 1..(Len(c[k]) - 1) |-> data'[c[k][i]]] = Values(c)[k]
  BY <1>11 DEF Values, Along
<1>14. Values(c)' = [Values(c) EXCEPT ![l][p] = v]
  BY <1>1, <1>12, <1>13, ZenonT(40) DEF Values, Along
<1>15. QED
  BY <1>8, <1>10, <1>14

(* The paths are joined at the dummy of dest, which becomes an element;    *)
(* what is left to src is its first node.                                  *)
LEMMA AppendPath ==
  ASSUME TypeOK, NEW c, Paths(c), NEW dest \in Created, NEW src \in Created,
         dest # src, Elements(src) # << >>, SListAppend(dest, src)
  PROVE  /\ TypeOK'
         /\ \E d : /\ Paths(d)'
                   /\ Values(d)' = [Values(c) EXCEPT
                                      ![dest] = @ \o Values(c)[src],
                                      ![src] = << >>]
<1> DEFINE a == Len(c[dest])
           b == Len(c[src])
           s == [x \in 1..((a + b) - 1) |->
                  IF x <= a THEN c[dest][x] ELSE c[src][(x - a) + 1]]
           W == Value \cup List \cup {NULL}
<1> PICK first, last, join : /\ first = c[src][1]
                             /\ last = c[src][b]
                             /\ join = c[dest][a]
  OBVIOUS
<1>1. /\ dest \in List /\ src \in List
      /\ a \in Nat /\ 1 <= a /\ b \in Nat /\ 2 <= b
      /\ \A i \in 1..a : c[dest][i] \in Node
      /\ \A i \in 1..b : c[src][i] \in Node
  <2>1. dest \in List /\ src \in List
    BY DEF Created
  <2>2. /\ a \in Nat /\ a # 0 /\ b \in Nat /\ b # 0
        /\ \A i \in 1..a : c[dest][i] \in Node
        /\ \A i \in 1..b : c[src][i] \in Node
    BY <2>1, PathIs
  <2>3. b # 1
    <3>1. Elements(src) = [i \in 1..(b - 1) |-> c[src][i]]
      BY <2>1, Walked
    <3> SUFFICES ASSUME b = 1
                 PROVE  FALSE
      OBVIOUS
    <3>2. 1..(b - 1) = {}
      OBVIOUS
    <3>3. QED
      BY <3>1, <3>2
  <2> HIDE DEF a, b
  <2>4. QED
    BY <2>1, <2>2, <2>3
<1> HIDE DEF s, W
<1>2. /\ 1 \in 1..b /\ b \in 1..b /\ b # 1 /\ 2 \in 1..b
      /\ a \in 1..a /\ (a + b) - 1 \in Nat
  <2> HIDE DEF a, b
  <2>1. QED
    BY <1>1
<1>3. /\ head[src] = first /\ tail[src] = last /\ data[last] = src
      /\ \A i \in 1..b : next[c[src][i]] = IF i = b THEN NULL ELSE c[src][i + 1]
      /\ head[dest] = c[dest][1] /\ tail[dest] = join /\ data[join] = dest
      /\ \A i \in 1..a :
           next[c[dest][i]] = IF i = a THEN NULL ELSE c[dest][i + 1]
  BY DEF Paths
<1>4. \A k \in Created : \A i \in 1..Len(c[k]) :
        /\ c[k][i] \in allocated
        /\ c[k][i] = first <=> k = src /\ i = 1
        /\ c[k][i] = last <=> k = src /\ i = b
        /\ c[k][i] = join <=> k = dest /\ i = a
  <2>1. \A k \in Created : \A i \in 1..Len(c[k]) : c[k][i] \in allocated
    BY DEF Paths, Created
  <2>2. \A k \in Created : \A i \in 1..Len(c[k]) :
          /\ \A j \in 1..b : c[k][i] = c[src][j] => k = src /\ i = j
          /\ \A j \in 1..a : c[k][i] = c[dest][j] => k = dest /\ i = j
    BY Apart
  <2>3. QED
    BY <1>2, <2>1, <2>2
<1>5. /\ first \in Node /\ last \in Node /\ join \in Node
      /\ first \in allocated /\ last \in allocated /\ join \in allocated
      /\ first # last /\ first # join /\ last # join
  BY <1>1, <1>2, <1>4
<1>6. /\ next' = [next EXCEPT ![join] = next[first], ![first] = NULL]
      /\ data' = [data EXCEPT ![join] = data[first], ![last] = dest,
                              ![first] = src]
      /\ tail' = [tail EXCEPT ![dest] = last, ![src] = first]
      /\ head' = head /\ allocated' = allocated /\ Created' = Created
  BY <1>3 DEF SListAppend, Created
<1>7. /\ next'[join] = next[first] /\ next'[first] = NULL
      /\ data'[join] = data[first] /\ data'[last] = dest /\ data'[first] = src
      /\ \A m \in Node :
           /\ m # join /\ m # first => next'[m] = next[m]
           /\ m # join /\ m # first /\ m # last => data'[m] = data[m]
      /\ tail'[dest] = last /\ tail'[src] = first
      /\ \A k \in List : k # dest /\ k # src => tail'[k] = tail[k]
  BY <1>1, <1>5, <1>6 DEF TypeOK
<1>8. TypeOK'
  <2>1. next' \in [Node -> Node \cup {NULL}]
    BY <1>5, <1>6 DEF TypeOK
  <2>2. data' \in [Node -> W]
    BY <1>1, <1>5, <1>6 DEF TypeOK, W
  <2>3. tail' \in [List -> Node \cup {NULL}]
    BY <1>1, <1>5, <1>6 DEF TypeOK
  <2>4. \A m \in Node : data'[m] = NULL <=> m \notin allocated'
    BY <1>1, <1>5, <1>6, <1>7, NodeAssumption, ZenonT(40) DEF TypeOK
  <2>5. QED
    BY <1>6, <2>1, <2>2, <2>3, <2>4 DEF TypeOK, W
<1>9. s \in Seq(Node) /\ Len(s) = (a + b) - 1
  <2>1. ASSUME NEW x \in 1..((a + b) - 1)
        PROVE  s[x] \in Node
    <3>1. (x <= a /\ x \in 1..a) \/ (~(x <= a) /\ (x - a) + 1 \in 1..b)
      <4> HIDE DEF a, b
      <4>1. QED
        BY <1>1
    <3>2. QED
      BY <1>1, <3>1 DEF s
  <2>2. s \in [1..((a + b) - 1) -> Node]
    BY <2>1 DEF s
  <2> HIDE DEF a, b
  <2>3. QED
    BY <1>2, <2>2
<1>10. /\ \A x \in 1..a : s[x] = c[dest][x]
       /\ \A x \in (a + 1)..((a + b) - 1) : /\ s[x] = c[src][(x - a) + 1]
                                           /\ (x - a) + 1 \in 2..b
       /\ \A x \in 1..((a + b) - 1) :
            x \in 1..a \/ x \in (a + 1)..((a + b) - 1)
  <2> HIDE DEF a, b
  <2>1. \A x \in 1..a : s[x] = c[dest][x]
    BY <1>1 DEF s
  <2>2. \A x \in (a + 1)..((a + b) - 1) :
          /\ x \in 1..((a + b) - 1) /\ ~(x <= a)
          /\ (x - a) + 1 \in 2..b
    BY <1>1
  <2>3. \A x \in (a + 1)..((a + b) - 1) : s[x] = c[src][(x - a) + 1]
    BY <2>2 DEF s
  <2>4. \A x \in 1..((a + b) - 1) :
          x \in 1..a \/ x \in (a + 1)..((a + b) - 1)
    BY <1>1
  <2>5. QED
    BY <2>1, <2>2, <2>3, <2>4
<1>11. ASSUME NEW x \in 1..((a + b) - 1)
       PROVE  next'[s[x]] = IF x = (a + b) - 1 THEN NULL ELSE s[x + 1]
  <2>1. CASE x < a
    <3>1. x \in 1..a /\ x + 1 \in 1..a /\ x # a /\ x # (a + b) - 1
      <4> HIDE DEF a, b
      <4>1. QED
        BY <1>1, <2>1
    <3>2. next'[c[dest][x]] = next[c[dest][x]]
      BY <1>1, <1>4, <1>7, <3>1
    <3>3. QED
      BY <1>3, <1>10, <3>1, <3>2
  <2>2. CASE x = a
    <3>1. /\ x \in 1..a /\ x + 1 \in (a + 1)..((a + b) - 1)
          /\ x # (a + b) - 1 /\ ((x + 1) - a) + 1 = 2 /\ 1 # b /\ 1 + 1 = 2
      <4> HIDE DEF a, b
      <4>1. QED
        BY <1>1, <2>2
    <3>2. s[x] = join /\ s[x + 1] = c[src][2]
      BY <1>10, <2>2, <3>1
    <3>3. next[first] = c[src][2]
      BY <1>2, <1>3, <3>1
    <3>4. QED
      BY <1>7, <3>1, <3>2, <3>3
  <2>3. CASE x > a
    <3>1. /\ x \in (a + 1)..((a + b) - 1) /\ (x - a) + 1 \in 1..b
          /\ (x - a) + 1 # 1
          /\ x = (a + b) - 1 <=> (x - a) + 1 = b
          /\ x # (a + b) - 1 => x + 1 \in (a + 1)..((a + b) - 1)
          /\ ((x + 1) - a) + 1 = ((x - a) + 1) + 1
      <4> HIDE DEF a, b
      <4>1. QED
        BY <1>1, <2>3, SMTT(30)
    <3>2. /\ s[x] = c[src][(x - a) + 1]
          /\ x # (a + b) - 1 => s[x + 1] = c[src][((x - a) + 1) + 1]
      BY <1>10, <3>1
    <3>3. next'[c[src][(x - a) + 1]] = next[c[src][(x - a) + 1]]
      BY <1>1, <1>4, <1>7, <3>1, ZenonT(40)
    <3>4. QED
      BY <1>3, <3>1, <3>2, <3>3, ZenonT(40)
  <2>4. x < a \/ x = a \/ x > a
    BY <1>1
  <2>5. QED
    BY <2>1, <2>2, <2>3, <2>4
<1>12. s[1] = head[dest] /\ s[(a + b) - 1] = last
  <2>1. 1 \in 1..a /\ (a + b) - 1 \in (a + 1)..((a + b) - 1)
        /\ (((a + b) - 1) - a) + 1 = b
    <3> HIDE DEF a, b
    <3>1. QED
      BY <1>1
  <2>2. QED
    BY <1>3, <1>10, <2>1, ZenonT(40)
<1>13. {s[i] : i \in 1..((a + b) - 1)} \cup {first} =
         {c[dest][i] : i \in 1..a} \cup {c[src][i] : i \in 1..b}
  <2>1. ASSUME NEW i \in 1..((a + b) - 1)
        PROVE  (\E j \in 1..a : s[i] = c[dest][j])
                 \/ \E j \in 1..b : s[i] = c[src][j]
    <3>1. \A j \in 2..b : j \in 1..b
      BY <1>1
    <3>2. QED
      BY <1>10, <3>1
  <2>2. ASSUME NEW j \in 1..a
        PROVE  \E i \in 1..((a + b) - 1) : s[i] = c[dest][j]
    <3>1. j \in 1..((a + b) - 1)
      <4> HIDE DEF a, b
      <4>1. QED
        BY <1>1
    <3>2. QED
      BY <1>10, <3>1
  <2>3. ASSUME NEW j \in 1..b, j # 1
        PROVE  \E i \in 1..((a + b) - 1) : s[i] = c[src][j]
    <3>1. /\ (a + j) - 1 \in (a + 1)..((a + b) - 1)
          /\ (a + j) - 1 \in 1..((a + b) - 1) /\ (((a + j) - 1) - a) + 1 = j
      <4> HIDE DEF a, b
      <4>1. QED
        BY <1>1, <2>3
    <3>2. s[(a + j) - 1] = c[src][j]
      BY <1>10, <3>1
    <3>3. QED
      BY <3>1, <3>2
  <2>4. first \in {c[src][i] : i \in 1..b}
    BY <1>2
  <2>5. \A j \in 1..b :
          c[src][j] \in {s[i] : i \in 1..((a + b) - 1)} \cup {first}
    BY <2>3
  <2> HIDE DEF a, b
  <2>6. {s[i] : i \in 1..((a + b) - 1)}
          \subseteq {c[dest][i] : i \in 1..a} \cup {c[src][i] : i \in 1..b}
    BY <2>1
  <2>7. {c[dest][i] : i \in 1..a} \cup {c[src][i] : i \in 1..b}
          \subseteq {s[i] : i \in 1..((a + b) - 1)} \cup {first}
    BY <2>2, <2>5
  <2>8. QED
    BY <2>4, <2>6, <2>7
<1>14. PICK d : d = [c EXCEPT ![dest] = s, ![src] = <<first>>]
  OBVIOUS
<1>15. /\ d \in [List -> Seq(Node)] /\ d[dest] = s /\ d[src] = <<first>>
       /\ \A k \in List \ {dest, src} : d[k] = c[k]
  <2>1. c \in [List -> Seq(Node)] /\ <<first>> \in Seq(Node)
    BY <1>5 DEF Paths
  <2>2. QED
    BY <1>1, <1>9, <1>14, <2>1
<1>16. Becomes(c, d, {dest, src})
  <2>1. ASSUME NEW k \in List \ {dest, src}
        PROVE  Keeps(c, k) /\ d[k] = c[k]
    <3>1. \A i \in 1..Len(c[k]) : /\ c[k][i] \in Node /\ c[k][i] # first
                                 /\ c[k][i] # last /\ c[k][i] # join
      BY <1>4, PathIs
    <3>2. head'[k] = head[k] /\ tail'[k] = tail[k]
      BY <1>6, <1>7
    <3>3. QED
      BY <1>7, <1>15, <3>1, <3>2 DEF Keeps
  <2>2. Leads(dest, d[dest])'
    <3>1. (a + b) - 1 # 0
      <4> HIDE DEF a, b
      <4>1. QED
        BY <1>1
    <3>2. Len(s) = (a + b) - 1 /\ head'[dest] = head[dest]
      BY <1>6, <1>9
    <3> HIDE DEF a, b
    <3>3. dest \in Created' /\ Len(s) # 0
      BY <1>6, <3>1, <3>2
    <3>4. /\ s[1] = head'[dest] /\ s[Len(s)] = tail'[dest]
          /\ data'[tail'[dest]] = dest
      BY <1>7, <1>12, <3>2
    <3>5. \A i \in 1..Len(s) :
            next'[s[i]] = IF i = Len(s) THEN NULL ELSE s[i + 1]
      BY <1>11, <3>2
    <3>6. Leads(dest, s)'
      BY <3>3, <3>4, <3>5 DEF Leads
    <3>7. QED
      BY <1>15, <3>6
  <2>3. Leads(src, d[src])'
    <3>1. /\ Len(<<first>>) = 1 /\ <<first>>[1] = first
          /\ \A i \in 1..Len(<<first>>) : i = 1
      OBVIOUS
    <3>2. head'[src] = first
      BY <1>3, <1>6
    <3>3. src \in Created' /\ tail'[src] = first /\ data'[first] = src
          /\ next'[first] = NULL
      BY <1>6, <1>7
    <3>4. PICK t : t = <<first>>
      OBVIOUS
    <3>5. /\ Len(t) = 1 /\ t[1] = first
          /\ \A i \in 1..Len(t) : i = 1
      BY <3>1, <3>4
    <3>6. Leads(src, t)'
      BY <3>2, <3>3, <3>5 DEF Leads
    <3>7. QED
      BY <1>15, <3>4, <3>6
  <2>4. /\ {d[dest][i] : i \in 1..Len(d[dest])} =
             {s[i] : i \in 1..((a + b) - 1)}
        /\ {d[src][i] : i \in 1..Len(d[src])} = {first}
    <3>1. 1..Len(d[src]) = {1} /\ d[src][1] = first
      BY <1>15
    <3>2. {d[src][i] : i \in 1..Len(d[src])} = {first}
      BY <3>1
    <3>3. Len(d[dest]) = (a + b) - 1
      BY <1>9, <1>15
    <3>4. {d[dest][i] : i \in 1..Len(d[dest])} =
            {s[i] : i \in 1..((a + b) - 1)}
      BY <1>15, <3>3
    <3>5. QED
      BY <3>2, <3>4
  <2>5. UNION {{d[k][i] : i \in 1..Len(d[k])} : k \in {dest, src}} =
          UNION {{c[k][i] : i \in 1..Len(c[k])} : k \in {dest, src}}
    <3>1. UNION {{d[k][i] : i \in 1..Len(d[k])} : k \in {dest, src}} =
            {s[i] : i \in 1..((a + b) - 1)} \cup {first}
      <4>1. UNION {{d[k][i] : i \in 1..Len(d[k])} : k \in {dest, src}} =
              {d[dest][i] : i \in 1..Len(d[dest])}
                \cup {d[src][i] : i \in 1..Len(d[src])}
        OBVIOUS
      <4>2. QED
        BY <2>4, <4>1
    <3>2. UNION {{c[k][i] : i \in 1..Len(c[k])} : k \in {dest, src}} =
            {c[dest][i] : i \in 1..a} \cup {c[src][i] : i \in 1..b}
      OBVIOUS
    <3>3. QED
      BY <1>13, <3>1, <3>2
  <2>6. UNION {{c[k][i] : i \in 1..Len(c[k])} : k \in {dest, src}}
          \subseteq allocated
    BY <1>4
  <2>7. \A k \in {dest, src} : Leads(k, d[k])'
    BY <2>2, <2>3
  <2>8. QED
    BY <1>6, <2>1, <2>5, <2>6, <2>7 DEF Becomes
<1>17. /\ Paths(d)'
       /\ \A k \in List \ {dest, src} : Values(d)'[k] = Values(c)[k]
  <2>1. {dest, src} \in SUBSET List
    BY <1>1
  <2>2. QED
    BY <1>15, <1>16, <2>1, SomePaths
<1>18. Along(<<first>>)' = << >>
  BY DEF Along
<1>19. Along(s)' = Values(c)[dest] \o Values(c)[src]
  <2> DEFINE q == Values(c)[dest]
             r == Values(c)[src]
             z == [i \in 1..((a + b) - 2) |-> data'[s[i]]]
  <2>1. /\ q \in Seq(W) /\ Len(q) = a - 1
        /\ \A i \in 1..(a - 1) : q[i] = data[c[dest][i]]
    <3>1. dest \in List /\ dest \in Created
      BY <1>1
    <3>2. QED
      BY <3>1, ValuesIs DEF W
  <2>2. /\ r \in Seq(W) /\ Len(r) = b - 1
        /\ \A i \in 1..(b - 1) : r[i] = data[c[src][i]]
    <3>1. src \in List /\ src \in Created
      BY <1>1
    <3>2. QED
      BY <3>1, ValuesIs DEF W
  <2> HIDE DEF q, r
  <2>3. /\ (q \o r) \in Seq(W) /\ Len(q \o r) = (a + b) - 2
        /\ \A i \in 1..((a + b) - 2) :
             (q \o r)[i] = IF i <= a - 1 THEN q[i] ELSE r[i - (a - 1)]
    <3>1. Len(q) + Len(r) = (a + b) - 2
      BY <1>1, <2>1, <2>2
    <3>2. /\ (q \o r) \in Seq(W) /\ Len(q \o r) = Len(q) + Len(r)
          /\ \A i \in 1..Len(q) + Len(r) :
               (q \o r)[i] = IF i <= Len(q) THEN q[i] ELSE r[i - Len(q)]
      BY <2>1, <2>2, ConcatProperties
    <3>3. QED
      BY <2>1, <3>1, <3>2
  <2>4. ASSUME NEW i \in 1..((a + b) - 2)
        PROVE  data'[s[i]] = (q \o r)[i]
    <3>1. CASE i < a
      <4>1. i \in 1..a /\ i \in 1..(a - 1) /\ i <= a - 1 /\ i # a
        BY <1>1, <3>1
      <4>2. s[i] = c[dest][i] /\ data'[c[dest][i]] = data[c[dest][i]]
        BY <1>1, <1>4, <1>7, <1>10, <4>1
      <4>3. QED
        BY <2>1, <2>3, <4>1, <4>2
    <3>2. CASE i = a
      <4>1. i \in 1..a /\ ~(i <= a - 1) /\ i - (a - 1) = 1 /\ 1 \in 1..(b - 1)
        BY <1>1, <3>2
      <4>2. data'[s[i]] = data[first]
        BY <1>7, <1>10, <3>2, <4>1
      <4>3. QED
        BY <2>2, <2>3, <4>1, <4>2
    <3>3. CASE i > a
      <4>1. /\ i \in (a + 1)..((a + b) - 1) /\ ~(i <= a - 1)
            /\ i - (a - 1) = (i - a) + 1
            /\ (i - a) + 1 \in 1..(b - 1) /\ (i - a) + 1 \in 1..b
            /\ (i - a) + 1 # 1 /\ (i - a) + 1 # b
        <5> HIDE DEF a, b
        <5>1. QED
          BY <1>1, <3>3
      <4>2. /\ s[i] = c[src][(i - a) + 1]
            /\ data'[c[src][(i - a) + 1]] = data[c[src][(i - a) + 1]]
        BY <1>1, <1>4, <1>7, <1>10, <4>1, ZenonT(40)
      <4>3. QED
        BY <2>2, <2>3, <4>1, <4>2
    <3>4. i < a \/ i = a \/ i > a
      BY <1>1
    <3>5. QED
      BY <3>1, <3>2, <3>3, <3>4
  <2>5. Along(s)' = z
    <3>1. Len(s) - 1 = (a + b) - 2
      BY <1>1, <1>9
    <3>2. QED
      BY <3>1 DEF Along
  <2>6. PICK e, m : e = q \o r /\ m = (a + b) - 2
    OBVIOUS
  <2>7. z = e
    <3>1. m \in Nat
      <4> HIDE DEF a, b
      <4>1. QED
        BY <1>1, <2>6
    <3>2. e \in Seq(W) /\ Len(e) = m
      BY <2>3, <2>6
    <3>3. z = [i \in 1..m |-> e[i]]
      BY <2>4, <2>6
    <3>4. e = [i \in 1..m |-> e[i]]
      BY <3>1, <3>2
    <3>5. QED
      BY <3>3, <3>4
  <2>8. QED
    BY <2>5, <2>6, <2>7 DEF q, r
<1>20. Values(d)' = [Values(c) EXCEPT ![dest] = @ \o Values(c)[src],
                                      ![src] = << >>]
  BY <1>1, <1>15, <1>17, <1>18, <1>19 DEF Values
<1>21. QED
  BY <1>8, <1>17, <1>20

-----------------------------------------------------------------------------
(* The invariant.                                                          *)

(* Before the first call there is no list, and no node.                    *)
LEMMA InitInv ==
  ASSUME Init
  PROVE  IInv
<1>1. Created = {}
  BY DEF Init, Created
<1>2. TypeOK
  BY DEF Init, TypeOK
<1>3. allocated = UNION {Nodes(l) : l \in Created}
  BY <1>1 DEF Init
<1>4. QED
  BY <1>1, <1>2, <1>3 DEF IInv, TailIsLast, NodesAreOwned

(* After a call on the list l.                                             *)
LEMMA CallKeeps ==
  ASSUME TypeOK, NEW c, Paths(c), NEW l \in Created, CallOn(l)
  PROVE  TypeOK' /\ \E d : Paths(d)'
<1>1. l \in List /\ Len(c[l]) \in Nat
  BY PathIs DEF Created
<1>2. CASE SListDestroy(l)
  <2>1. /\ TypeOK'
        /\ \E d : /\ Paths(d)'
                  /\ Values(d)' = [Values(c) EXCEPT ![l] = << >>]
    BY <1>1, <1>2, DestroyPath
  <2>2. QED
    BY <2>1
<1>3. ASSUME NEW iter \in Iter(l), NEW n \in Free, NEW v \in Value,
             SListInsertBefore(l, iter, n, v)
      PROVE  TypeOK' /\ \E d : Paths(d)'
  <2>1. PICK p \in 1..Len(c[l]) : iter = c[l][p]
    BY Located
  <2>2. iter \in allocated
    BY <1>1, <2>1 DEF Paths
  <2>3. TypeOK'
    BY <1>1, <1>3, <2>2, InsertTypeOK
  <2>4. SListInsertBefore(l, c[l][p], n, v)
    BY <1>3, <2>1
  <2>5. \E d : /\ Paths(d)'
               /\ Values(d)' = [Values(c) EXCEPT ![l] = InsertAt(@, p, v)]
    BY <2>4, InsertPath
  <2>6. QED
    BY <2>3, <2>5
<1>4. ASSUME NEW iter \in ToSet(Elements(l))
      PROVE  \E p \in 1..(Len(c[l]) - 1) : iter = c[l][p]
  <2>1. iter \in Iter(l)
    BY DEF Iter
  <2>2. PICK p \in 1..Len(c[l]) : iter = c[l][p] /\ p # Len(c[l])
    BY <2>1, Located
  <2>3. p \in 1..(Len(c[l]) - 1)
    BY <1>1, <2>2
  <2>4. QED
    BY <2>2, <2>3
<1>5. ASSUME NEW iter \in ToSet(Elements(l)), SListRemove(iter)
      PROVE  TypeOK' /\ \E d : Paths(d)'
  <2>1. PICK p \in 1..(Len(c[l]) - 1) : iter = c[l][p]
    BY <1>4
  <2>2. SListRemove(c[l][p])
    BY <1>5, <2>1
  <2>3. TypeOK'
    BY <2>2, RemoveTypeOK
  <2>4. \E d : /\ Paths(d)'
               /\ Values(d)' = [Values(c) EXCEPT ![l] = RemoveAt(@, p)]
    BY <2>2, RemovePath
  <2>5. QED
    BY <2>3, <2>4
<1>6. ASSUME NEW iter \in ToSet(Elements(l)), NEW v \in Value,
             SListIterSetData(iter, v)
      PROVE  TypeOK' /\ \E d : Paths(d)'
  <2>1. PICK p \in 1..(Len(c[l]) - 1) : iter = c[l][p]
    BY <1>4
  <2>2. SListIterSetData(c[l][p], v)
    BY <1>6, <2>1
  <2>3. TypeOK' /\ Paths(c)'
    BY <2>2, SetDataPath
  <2>4. QED
    BY <2>3
<1>7. QED
  BY <1>2, <1>3, <1>5, <1>6 DEF CallOn

(* After any call, if no empty list is appended.                           *)
LEMMA NextInv ==
  ASSUME AppendsEmpty = FALSE, IInv, [Next]_vars
  PROVE  IInv'
<1>1. PICK c : c = Chain
  OBVIOUS
<1>2. TypeOK /\ Paths(c)
  BY <1>1, InvToPaths DEF IInv
<1>3. SUFFICES TypeOK' /\ \E d : Paths(d)'
  <2>1. SUFFICES ASSUME TypeOK', NEW d, Paths(d)'
                 PROVE  IInv'
    BY <1>3
  <2>2. (TypeOK /\ Paths(d) => IInv)'
    BY PathsToInvNext
  <2>3. QED
    BY <2>1, <2>2
<1>4. ASSUME NEW l \in List, NEW n \in Node, SListCreate(l, n)
      PROVE  TypeOK' /\ \E d : Paths(d)'
  <2>1. /\ TypeOK'
        /\ \E d : /\ Paths(d)'
                  /\ Values(d)' = [Values(c) EXCEPT ![l] = << >>]
    BY <1>2, <1>4, CreatePath
  <2>2. QED
    BY <2>1
<1>5. ASSUME NEW l \in Created, CallOn(l)
      PROVE  TypeOK' /\ \E d : Paths(d)'
  BY <1>2, <1>5, CallKeeps
<1>6. ASSUME NEW dest \in Created, NEW src \in Created,
             MayAppend(dest, src), SListAppend(dest, src)
      PROVE  TypeOK' /\ \E d : Paths(d)'
  <2>1. dest # src /\ Elements(src) # << >>
    BY <1>6 DEF MayAppend
  <2>2. /\ TypeOK'
        /\ \E d : /\ Paths(d)'
                  /\ Values(d)' = [Values(c) EXCEPT
                                     ![dest] = @ \o Values(c)[src],
                                     ![src] = << >>]
    BY <1>2, <1>6, <2>1, AppendPath
  <2>3. QED
    BY <2>2
<1>7. CASE UNCHANGED vars
  <2>1. TypeOK'
    BY <1>2, <1>7 DEF vars, TypeOK
  <2>2. Paths(c)'
    BY <1>2, <1>7 DEF vars, Paths, Created
  <2>3. QED
    BY <2>1, <2>2
<1>8. QED
  BY <1>4, <1>5, <1>6, <1>7 DEF Next

(* The invariant holds between any two calls, if no empty list is          *)
(* appended.                                                               *)
LEMMA Invariant ==
  ASSUME AppendsEmpty = FALSE
  PROVE  Spec => []IInv
<1>1. Init => IInv
  BY InitInv
<1>2. IInv /\ [Next]_vars => IInv'
  BY NextInv
<1>3. QED
  BY <1>1, <1>2, PTL DEF Spec

(* Pointers lead to nodes or nowhere, and exactly what malloc returned and *)
(* nobody freed has data, whatever slist.c copies between nodes.           *)
THEOREM TypeCorrect ==
  ASSUME AppendsEmpty = FALSE
  PROVE  Spec => []TypeOK
<1>1. Spec => []IInv
  BY Invariant
<1>2. IInv => TypeOK
  BY DEF IInv
<1>3. QED
  BY <1>1, <1>2, PTL

(* However the dummy of a list moved, its tail is the last node a walk     *)
(* from its head finds, and knows its list.                                *)
THEOREM TailIsLastAlways ==
  ASSUME AppendsEmpty = FALSE
  PROVE  Spec => []TailIsLast
<1>1. Spec => []IInv
  BY Invariant
<1>2. IInv => TailIsLast
  BY DEF IInv
<1>3. QED
  BY <1>1, <1>2, PTL

(* No node is lost, and none is in two lists.                              *)
THEOREM NodesAreOwnedAlways ==
  ASSUME AppendsEmpty = FALSE
  PROVE  Spec => []NodesAreOwned
<1>1. Spec => []IInv
  BY Invariant
<1>2. IInv => NodesAreOwned
  BY DEF IInv
<1>3. QED
  BY <1>1, <1>2, PTL

-----------------------------------------------------------------------------
(* What the calls do to the sequences of values that the lists stand for.  *)

(* What is known of the paths after a call is known of the contents.       *)
LEMMA MadeOf ==
  ASSUME TypeOK', NEW x, \E d : Paths(d)' /\ Values(d)' = x
  PROVE  Contents' = x
<1>1. PICK d : Paths(d)' /\ Values(d)' = x
  OBVIOUS
<1>2. (TypeOK /\ Paths(d) => Contents = Values(d))'
  BY ReadsNext
<1>3. QED
  BY <1>1, <1>2

(* Every call does to the values of the lists what Lists says.             *)
LEMMA Does ==
  ASSUME AppendsEmpty = FALSE, IInv
  PROVE  DoesAsItSays
<1>1. PICK c : c = Chain
  OBVIOUS
<1>2. TypeOK /\ Paths(c)
  BY <1>1, InvToPaths DEF IInv
<1>3. PICK now : now = Values(c)
  OBVIOUS
<1>4. Contents = now
  BY <1>2, <1>3, Reads
<1>5. ASSUME NEW l \in List, \/ \E n \in Node : SListCreate(l, n)
                            \/ SListDestroy(l)
      PROVE  Contents' = L!Destroy(Contents, l)
  <2>1. /\ TypeOK'
        /\ \E d : /\ Paths(d)'
                  /\ Values(d)' = [Values(c) EXCEPT ![l] = << >>]
    BY <1>2, <1>5, CreatePath, DestroyPath
  <2>2. Contents' = [Values(c) EXCEPT ![l] = << >>]
    BY <2>1, MadeOf
  <2>3. QED
    BY <1>3, <1>4, <2>2 DEF L!Destroy
<1>6. ASSUME NEW l \in Created, NEW iter \in Iter(l)
      PROVE  \E p \in 1..Len(c[l]) :
               /\ iter = c[l][p]
               /\ Position(l, iter) = p
               /\ iter \in ToSet(Elements(l)) => p \in 1..(Len(c[l]) - 1)
  <2>1. PICK p \in 1..Len(c[l]) :
               /\ iter = c[l][p]
               /\ Position(l, iter) = p
               /\ iter \in ToSet(Elements(l)) => p # Len(c[l])
    BY <1>2, Located
  <2>2. Len(c[l]) \in Nat
    BY <1>2, PathIs DEF Created
  <2>3. p # Len(c[l]) => p \in 1..(Len(c[l]) - 1)
    BY <2>2
  <2>4. QED
    BY <2>1, <2>3
<1>7. ASSUME NEW l \in Created, NEW iter \in Iter(l), NEW n \in Free,
             NEW v \in Value, SListInsertBefore(l, iter, n, v)
      PROVE  Contents' = L!Insert(Contents, l, Position(l, iter), v)
  <2>1. PICK p \in 1..Len(c[l]) : iter = c[l][p] /\ Position(l, iter) = p
    BY <1>6
  <2>2. l \in List /\ iter \in allocated
    BY <1>2, <2>1 DEF Paths, Created
  <2>3. TypeOK'
    BY <1>2, <1>7, <2>2, InsertTypeOK
  <2>4. SListInsertBefore(l, c[l][p], n, v)
    BY <1>7, <2>1
  <2>5. \E d : /\ Paths(d)'
               /\ Values(d)' = [Values(c) EXCEPT ![l] = InsertAt(@, p, v)]
    BY <1>2, <2>4, InsertPath
  <2>6. Contents' = [Values(c) EXCEPT ![l] = InsertAt(@, p, v)]
    BY <2>3, <2>5, MadeOf
  <2>7. QED
    BY <1>3, <1>4, <2>1, <2>6 DEF L!Insert, L!InsertAt, InsertAt
<1>8. ASSUME NEW l \in Created, NEW iter \in ToSet(Elements(l))
      PROVE  \E p \in 1..(Len(c[l]) - 1) :
               iter = c[l][p] /\ Position(l, iter) = p
  <2>1. iter \in Iter(l)
    BY DEF Iter
  <2>2. QED
    BY <1>6, <2>1
<1>9. ASSUME NEW l \in Created, NEW iter \in ToSet(Elements(l)),
             SListRemove(iter)
      PROVE  Contents' = L!Erase(Contents, l, Position(l, iter))
  <2>1. PICK p \in 1..(Len(c[l]) - 1) :
               iter = c[l][p] /\ Position(l, iter) = p
    BY <1>8
  <2>2. SListRemove(c[l][p])
    BY <1>9, <2>1
  <2>3. TypeOK'
    BY <1>2, <2>2, RemoveTypeOK
  <2>4. \E d : /\ Paths(d)'
               /\ Values(d)' = [Values(c) EXCEPT ![l] = RemoveAt(@, p)]
    BY <1>2, <2>2, RemovePath
  <2>5. Contents' = [Values(c) EXCEPT ![l] = RemoveAt(@, p)]
    BY <2>3, <2>4, MadeOf
  <2>6. QED
    BY <1>3, <1>4, <2>1, <2>5 DEF L!Erase, L!RemoveAt, RemoveAt
<1>10. ASSUME NEW l \in Created, NEW iter \in ToSet(Elements(l)),
              NEW v \in Value, SListIterSetData(iter, v)
       PROVE  Contents' = L!SetData(Contents, l, Position(l, iter), v)
  <2>1. PICK p \in 1..(Len(c[l]) - 1) :
               iter = c[l][p] /\ Position(l, iter) = p
    BY <1>8
  <2>2. SListIterSetData(c[l][p], v)
    BY <1>10, <2>1
  <2>3. /\ TypeOK' /\ Paths(c)'
        /\ Values(c)' = [Values(c) EXCEPT ![l][p] = v]
    BY <1>2, <2>2, SetDataPath
  <2>4. Contents' = [Values(c) EXCEPT ![l][p] = v]
    <3>1. (TypeOK /\ Paths(c) => Contents = Values(c))'
      BY ReadsNext
    <3>2. QED
      BY <2>3, <3>1
  <2>5. QED
    BY <1>3, <1>4, <2>1, <2>4 DEF L!SetData
<1>11. ASSUME NEW dest \in Created, NEW src \in Created,
              MayAppend(dest, src), SListAppend(dest, src)
       PROVE  Contents' = L!Join(Contents, dest, src)
  <2>1. dest # src /\ Elements(src) # << >>
    BY <1>11 DEF MayAppend
  <2>2. /\ TypeOK'
        /\ \E d : /\ Paths(d)'
                  /\ Values(d)' = [Values(c) EXCEPT
                                     ![dest] = @ \o Values(c)[src],
                                     ![src] = << >>]
    BY <1>2, <1>11, <2>1, AppendPath
  <2>3. Contents' = [Values(c) EXCEPT ![dest] = @ \o Values(c)[src],
                                      ![src] = << >>]
    BY <2>2, MadeOf
  <2>4. QED
    BY <1>3, <1>4, <2>3 DEF L!Join
<1>12. QED
  BY <1>5, <1>7, <1>9, <1>10, <1>11 DEF DoesAsItSays

(* A list is the sequence of values that the calls make it, at the place   *)
(* of the iterator, though slist.c moves the neighbour's node there.       *)
THEOREM CallsDo ==
  ASSUME AppendsEmpty = FALSE
  PROVE  Spec => CallsDoAsTheySay
<1>1. Spec => []IInv
  BY Invariant
<1>2. IInv => DoesAsItSays
  BY Does
<1>3. QED
  BY <1>1, <1>2, PTL DEF CallsDoAsTheySay

=============================================================================
