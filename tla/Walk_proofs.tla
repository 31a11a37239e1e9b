----------------------------- MODULE Walk_proofs -----------------------------
(***************************************************************************)
(* What a walk along the nodes of a list finds, whatever the nodes and     *)
(* their links are.  The walk is a recursive function; what it computes is *)
(* proved by an induction that speaks of a set of numbers, because one     *)
(* that speaks of an operator on them cannot be used here.                 *)
(***************************************************************************)
EXTENDS Walk, SequencesExt, TLAPS, WellFoundedInduction, NaturalsInduction,
        FiniteSetTheorems, SequenceTheorems

(* A set of numbers that is not empty has a least element.                 *)
LEMMA NatMin ==
  ASSUME NEW T \in SUBSET Nat, T # {}
  PROVE  \E m \in T : \A k \in T : m <= k
<1>1. PICK R : R = OpToRel(<, Nat)
  OBVIOUS
<1>2. R = {ss \in Nat \X Nat : ss[1] < ss[2]}
  BY <1>1 DEF OpToRel
<1>3. IsWellFoundedOn(R, Nat)
  BY <1>1, NatLessThanWellFounded
<1>4. PICK m \in T : \A k \in T : ~(<<k, m>> \in R)
  BY <1>3, WFMin
<1>5. \A k \in T : ~(k < m)
  BY <1>2, <1>4
<1>6. QED
  BY <1>5

(* A set with 0, and with the next number of each number in it that is     *)
(* less than n, has every number up to n.                                  *)
LEMMA UpTo ==
  ASSUME NEW n \in Nat, NEW S, 0 \in S,
         \A m \in 0..(n - 1) : m \in S => m + 1 \in S
  PROVE  \A m \in 0..n : m \in S
<1> DEFINE T == {m \in 0..n : m \notin S}
<1> SUFFICES ASSUME T # {}
             PROVE  FALSE
  OBVIOUS
<1>1. T \in SUBSET Nat
  OBVIOUS
<1>2. PICK m \in T : \A k \in T : m <= k
  <2> HIDE DEF T
  <2>1. QED
    BY <1>1, NatMin
<1>3. m \in Nat /\ m # 0 /\ m <= n /\ m \notin S
  BY <1>2
<1>4. m - 1 \in 0..(n - 1) /\ m - 1 \in 0..n /\ ~(m <= m - 1)
  BY <1>3
<1>5. m - 1 \in S
  BY <1>2, <1>4
<1>6. (m - 1) + 1 \in S
  BY <1>4, <1>5
<1>7. QED
  BY <1>3, <1>6

-----------------------------------------------------------------------------
(* found is a function that WalkIn may choose, for the places P and for up *)
(* to n nodes.                                                             *)
Finds(found, nodes, nx, P, n) ==
  found = [left \in 0..n |->
             [q \in P |->
                IF q \in nodes /\ left > 0
                THEN <<q>> \o found[left - 1][nx[q]] ELSE << >>]]

(* There is such a function.                                               *)
LEMMA FindsExists ==
  ASSUME NEW nodes, NEW nx, NEW P, NEW n \in Nat
  PROVE  \E found : Finds(found, nodes, nx, P, n)
<1> DEFINE S == {m \in 0..n : \E found : Finds(found, nodes, nx, P, m)}
<1>1. 0 \in S
  <2> DEFINE zero == [left \in 0..0 |-> [q \in P |-> << >>]]
  <2>1. Finds(zero, nodes, nx, P, 0)
    BY DEF Finds
  <2>2. QED
    BY <2>1
<1>2. ASSUME NEW m \in 0..(n - 1), m \in S
      PROVE  m + 1 \in S
  <2>1. PICK old : Finds(old, nodes, nx, P, m)
    BY <1>2
  <2> DEFINE
    end == [q \in P |->
              IF q \in nodes THEN <<q>> \o old[m][nx[q]] ELSE << >>]
    new == [left \in 0..(m + 1) |-> IF left = m + 1 THEN end ELSE old[left]]
  <2>2. ASSUME NEW left \in 0..(m + 1)
        PROVE  new[left] =
                 [q \in P |->
                    IF q \in nodes /\ left > 0
                    THEN <<q>> \o new[left - 1][nx[q]] ELSE << >>]
    <3>1. CASE left = m + 1
      <4>1. left - 1 = m /\ left > 0 /\ m \in 0..(m + 1) /\ m # m + 1
        BY <3>1
      <4>2. new[left - 1] = old[m] /\ new[left] = end
        BY <3>1, <4>1
      <4> HIDE DEF new
      <4>3. QED
        BY <4>1, <4>2
    <3>2. CASE left # m + 1
      <4>1. left \in 0..m
        BY <3>2
      <4>2. new[left] = old[left]
        BY <3>2
      <4>3. left > 0 => new[left - 1] = old[left - 1]
        BY <4>1
      <4>4. old[left] = [q \in P |->
                           IF q \in nodes /\ left > 0
                           THEN <<q>> \o old[left - 1][nx[q]] ELSE << >>]
        BY <2>1, <4>1 DEF Finds
      <4> HIDE DEF new
      <4>5. QED
        BY <4>2, <4>3, <4>4
    <3>3. QED
      BY <3>1, <3>2
  <2>3. Finds(new, nodes, nx, P, m + 1)
    <3>1. new = [left \in 0..(m + 1) |-> new[left]]
      OBVIOUS
    <3> HIDE DEF new
    <3>2. QED
      BY <2>2, <3>1 DEF Finds
  <2>4. QED
    BY <2>3
<1>3. n \in S
  <2> HIDE DEF S
  <2>1. QED
    BY <1>1, <1>2, UpTo
<1>4. QED
  BY <1>3

(* found[left][q] is what left steps from q find, for every place that the *)
(* walk from p may come to.                                                *)
IsWalk(found, P, nodes, nx, p) ==
  LET N == Cardinality(nodes) IN
  /\ p \in P /\ nodes \subseteq P
  /\ \A q \in nodes : nx[q] \in P
  /\ found \in [0..N -> [P -> Seq(nodes)]]
  /\ \A left \in 0..N, q \in P :
       found[left][q] = IF q \in nodes /\ left > 0
                        THEN <<q>> \o found[left - 1][nx[q]] ELSE << >>
  /\ WalkIn(nodes, nx, p) = found[N][p]

(* What WalkIn chooses does that.                                          *)
LEMMA WalkDef ==
  ASSUME NEW nodes, IsFiniteSet(nodes), NEW nx, NEW p
  PROVE  \E P, found : IsWalk(found, P, nodes, nx, p)
<1> DEFINE N == Cardinality(nodes)
           P == {p} \cup nodes \cup {nx[q] : q \in nodes}
           found == CHOOSE f : Finds(f, nodes, nx, P, N)
<1>1. N \in Nat
  BY FS_CardinalityType
<1>2. WalkIn(nodes, nx, p) = found[N][p]
  BY DEF WalkIn, Finds
<1>3. p \in P /\ nodes \subseteq P /\ \A q \in nodes : nx[q] \in P
  OBVIOUS
<1> HIDE DEF P
<1> HIDE DEF N
<1>4. Finds(found, nodes, nx, P, N)
  BY <1>1, FindsExists
<1> HIDE DEF found
<1> DEFINE S == {m \in 0..N : found[m] \in [P -> Seq(nodes)]}
<1>5. \A m \in 0..N :
        found[m] = [q \in P |->
                      IF q \in nodes /\ m > 0
                      THEN <<q>> \o found[m - 1][nx[q]] ELSE << >>]
  BY <1>4 DEF Finds
<1>6. 0 \in S
  <2>1. 0 \in 0..N /\ ~(0 > 0)
    BY <1>1
  <2>2. found[0] = [q \in P |->
                      IF q \in nodes /\ 0 > 0
                      THEN <<q>> \o found[0 - 1][nx[q]] ELSE << >>]
    BY <1>5, <2>1
  <2>3. ASSUME NEW q \in P
        PROVE  (IF q \in nodes /\ 0 > 0
                THEN <<q>> \o found[0 - 1][nx[q]] ELSE << >>) \in Seq(nodes)
    OBVIOUS
  <2>4. found[0] \in [P -> Seq(nodes)]
    BY <2>2, <2>3, Zenon
  <2>5. QED
    BY <2>1, <2>4
<1>7. ASSUME NEW m \in 0..(N - 1), m \in S
      PROVE  m + 1 \in S
  <2>1. m + 1 \in 0..N /\ m + 1 > 0 /\ (m + 1) - 1 = m
    BY <1>1
  <2>2. found[m + 1] = [q \in P |->
                          IF q \in nodes
                          THEN <<q>> \o found[m][nx[q]] ELSE << >>]
    BY <1>5, <2>1
  <2>3. \A q \in nodes : <<q>> \o found[m][nx[q]] \in Seq(nodes)
    BY <1>3, <1>7
  <2>4. ASSUME NEW q \in P
        PROVE  (IF q \in nodes THEN <<q>> \o found[m][nx[q]] ELSE << >>)
                 \in Seq(nodes)
    <3>1. << >> \in Seq(nodes)
      OBVIOUS
    <3>2. QED
      BY <2>3, <3>1, Zenon
  <2>5. found[m + 1] \in [P -> Seq(nodes)]
    BY <2>2, <2>4, Zenon
  <2>6. QED
    BY <2>1, <2>5
<1>8. \A m \in 0..N : found[m] \in [P -> Seq(nodes)]
  <2>1. \A m \in 0..N : m \in S
    <3> HIDE DEF S
    <3>1. QED
      BY <1>1, <1>6, <1>7, UpTo
  <2>2. QED
    BY <2>1
<1>9. found \in [0..N -> [P -> Seq(nodes)]]
  BY <1>4, <1>8 DEF Finds
<1>10. \A m \in 0..N, q \in P :
        found[m][q] = IF q \in nodes /\ m > 0
                      THEN <<q>> \o found[m - 1][nx[q]] ELSE << >>
  BY <1>5, Zenon
<1>11. IsWalk(found, P, nodes, nx, p)
  BY <1>2, <1>3, <1>9, <1>10 DEF N, IsWalk
<1>12. QED
  BY <1>11

(* A sequence of linked found that something else ends is what a walk from *)
(* its beginning finds.                                                    *)
LEMMA WalkIs ==
  ASSUME NEW nodes, IsFiniteSet(nodes), NEW nx,
         NEW s \in Seq(nodes), Len(s) <= Cardinality(nodes),
         NEW e, e \notin nodes,
         \A i \in 1..Len(s) :
           nx[s[i]] = IF i = Len(s) THEN e ELSE s[i + 1]
  PROVE  WalkIn(nodes, nx, IF Len(s) = 0 THEN e ELSE s[1]) = s
<1> DEFINE N == Cardinality(nodes)
           n == Len(s)
           From(i) == IF i = n + 1 THEN e ELSE s[i]
           p == IF Len(s) = 0 THEN e ELSE s[1]
<1>1. PICK P, found : IsWalk(found, P, nodes, nx, p)
  <2> HIDE DEF p
  <2>1. QED
    BY WalkDef, Zenon
<1>2. /\ p \in P /\ nodes \subseteq P
      /\ \A q \in nodes : nx[q] \in P
      /\ found \in [0..N -> [P -> Seq(nodes)]]
      /\ WalkIn(nodes, nx, p) = found[N][p]
  BY <1>1 DEF IsWalk
<1>3. N \in Nat /\ n \in Nat /\ n <= N
  BY FS_CardinalityType
<1>4. \A left \in 0..N, q \in P :
        found[left][q] = IF q \in nodes /\ left > 0
                         THEN <<q>> \o found[left - 1][nx[q]] ELSE << >>
  BY <1>1 DEF IsWalk
<1> HIDE DEF N
<1> DEFINE Done(i, left) == found[left][From(i)] = SubSeq(s, i, n)
           S == {m \in 0..n : \A left \in m..N, i \in 1..(n + 1) :
                                i = n - m + 1 => Done(i, left)}
<1>5. 0 \in S
  <2>1. ASSUME NEW left \in 0..N
        PROVE  Done(n + 1, left)
    <3>1. e \in P
      <4>1. CASE n = 0
        BY <1>2, <4>1
      <4>2. CASE n # 0
        <5>1. n \in 1..n
          BY <1>3, <4>2
        <5>2. s[n] \in nodes /\ nx[s[n]] = e
          BY <5>1
        <5>3. QED
          BY <1>2, <5>2
      <4>3. QED
        BY <4>1, <4>2
    <3>2. found[left][e] = << >>
      BY <1>4, <3>1, Zenon
    <3>3. SubSeq(s, n + 1, n) = << >>
      BY <1>3
    <3>4. QED
      BY <3>2, <3>3
  <2> HIDE DEF Done, n
  <2>2. QED
    BY <1>3, <2>1
<1>6. ASSUME NEW m \in 0..(n - 1), m \in S
      PROVE  m + 1 \in S
  <2>1. ASSUME NEW left \in (m + 1)..N, NEW i \in 1..(n + 1),
               i = n - (m + 1) + 1
        PROVE  Done(i, left)
    <3>1. /\ left \in 0..N /\ left > 0 /\ left - 1 \in m..N
          /\ i \in 1..n /\ i # n + 1 /\ i + 1 = n - m + 1
          /\ i + 1 \in 1..(n + 1) /\ (i = n <=> i + 1 = n + 1)
      BY <1>3, <2>1
    <3>2. From(i) = s[i] /\ s[i] \in nodes
      BY <3>1
    <3>3. nx[s[i]] = From(i + 1)
      BY <3>1
    <3>4. Done(i + 1, left - 1)
      <4> HIDE DEF Done
      <4>1. QED
        BY <1>6, <3>1
    <3>5. s[i] \in P
      BY <1>2, <3>2
    <3>6. found[left][s[i]] = <<s[i]>> \o found[left - 1][nx[s[i]]]
      BY <1>4, <3>1, <3>2, <3>5
    <3>7. found[left - 1][nx[s[i]]] = SubSeq(s, i + 1, n)
      BY <3>3, <3>4, Zenon
    <3>8. SubSeq(s, i, n) = <<s[i]>> \o SubSeq(s, i + 1, n)
      BY <1>3, <3>1
    <3>9. QED
      BY <3>2, <3>6, <3>7, <3>8, Zenon
  <2> HIDE DEF Done
  <2>2. m + 1 \in 0..n
    BY <1>3
  <2>3. QED
    BY <2>1, <2>2
<1>7. n \in S
  <2> HIDE DEF S, n
  <2>1. \A m \in 0..n : m \in S
    BY <1>3, <1>5, <1>6, UpTo
  <2>2. QED
    BY <1>3, <2>1
<1>8. found[N][From(1)] = SubSeq(s, 1, n)
  <2>1. 1 \in 1..(n + 1) /\ 1 = n - n + 1 /\ N \in n..N
    BY <1>3
  <2>2. Done(1, N)
    <3> HIDE DEF Done
    <3>1. QED
      BY <1>7, <2>1
  <2>3. QED
    BY <2>2
<1>9. From(1) = (IF Len(s) = 0 THEN e ELSE s[1])
  BY <1>3
<1>10. SubSeq(s, 1, n) = s
  BY <1>3
<1>11. QED
  BY <1>2, <1>8, <1>9, <1>10

(* And what a walk finds is linked.                                        *)
LEMMA WalkLinks ==
  ASSUME NEW nodes, IsFiniteSet(nodes), NEW nx, NEW p
  PROVE  LET s == WalkIn(nodes, nx, p) IN
         /\ s \in Seq(nodes)
         /\ p \in nodes <=> Len(s) # 0
         /\ p \in nodes => s[1] = p
         /\ \A i \in 1..(Len(s) - 1) : nx[s[i]] = s[i + 1]
<1> DEFINE N == Cardinality(nodes)
           Linked(s) == \A i \in 1..(Len(s) - 1) : nx[s[i]] = s[i + 1]
           Starts(s, q) == Len(s) # 0 => s[1] = q
<1>1. PICK P, found : IsWalk(found, P, nodes, nx, p)
  BY WalkDef, Zenon
<1>2. /\ p \in P /\ nodes \subseteq P
      /\ \A q \in nodes : nx[q] \in P
      /\ found \in [0..N -> [P -> Seq(nodes)]]
      /\ WalkIn(nodes, nx, p) = found[N][p]
  BY <1>1 DEF IsWalk
<1>3. N \in Nat
  BY FS_CardinalityType
<1>4. \A left \in 0..N, q \in P :
        found[left][q] = IF q \in nodes /\ left > 0
                         THEN <<q>> \o found[left - 1][nx[q]] ELSE << >>
  BY <1>1 DEF IsWalk
<1>5. p \in nodes => N # 0
  BY FS_EmptySet
<1> HIDE DEF N
<1> DEFINE S == {m \in 0..N : \A q \in P :
                   Linked(found[m][q]) /\ Starts(found[m][q], q)}
<1>6. 0 \in S
  <2>1. ASSUME NEW q \in P
        PROVE  found[0][q] = << >>
    <3>1. 0 \in 0..N /\ ~(0 > 0)
      BY <1>3
    <3>2. QED
      BY <1>4, <3>1, Zenon
  <2>2. Linked(<< >>) /\ \A q : Starts(<< >>, q)
    OBVIOUS
  <2> HIDE DEF Linked, Starts
  <2>3. QED
    BY <1>3, <2>1, <2>2
<1>7. ASSUME NEW m \in 0..(N - 1), m \in S
      PROVE  m + 1 \in S
  <2>1. m + 1 \in 0..N /\ m + 1 > 0 /\ (m + 1) - 1 = m /\ m \in 0..N
    BY <1>3
  <2>2. ASSUME NEW q \in P
        PROVE  Linked(found[m + 1][q]) /\ Starts(found[m + 1][q], q)
    <3>1. CASE q \notin nodes
      <4>1. found[m + 1][q] = << >>
        BY <1>4, <2>1, <3>1
      <4>2. QED
        BY <4>1
    <3>2. CASE q \in nodes
      <4>1. nx[q] \in P
        BY <1>2, <3>2
      <4> DEFINE t == found[m][nx[q]]
      <4>2. t \in Seq(nodes) /\ Linked(t) /\ Starts(t, nx[q])
        BY <1>2, <1>7, <2>1, <4>1
      <4>3. found[m + 1][q] = <<q>> \o t
        BY <1>4, <2>1, <3>2
      <4> HIDE DEF t
      <4>4. /\ <<q>> \o t \in Seq(nodes) /\ Len(<<q>> \o t) = Len(t) + 1
            /\ (<<q>> \o t)[1] = q
            /\ \A i \in 1..Len(t) : (<<q>> \o t)[i + 1] = t[i]
        BY <3>2, <4>2
      <4> DEFINE u == <<q>> \o t
      <4>5. ASSUME NEW i \in 1..(Len(u) - 1)
            PROVE  nx[u[i]] = u[i + 1]
        <5>1. Len(u) - 1 = Len(t) /\ i \in 1..Len(t) /\ Len(t) \in Nat
          BY <4>2, <4>4
        <5>2. CASE i = 1
          BY <4>2, <4>4, <5>1, <5>2
        <5>3. CASE i # 1
          <6>1. i - 1 \in 1..(Len(t) - 1) /\ i - 1 \in 1..Len(t)
                /\ (i - 1) + 1 = i
            BY <5>1, <5>3
          <6>2. u[i] = t[i - 1] /\ u[i + 1] = t[i]
            BY <4>4, <5>1, <6>1
          <6>3. nx[t[i - 1]] = t[i]
            BY <4>2, <6>1
          <6>4. QED
            BY <6>2, <6>3
        <5>4. QED
          BY <5>2, <5>3
      <4>6. QED
        BY <4>3, <4>4, <4>5
    <3>3. QED
      BY <3>1, <3>2
  <2>3. QED
    BY <2>1, <2>2
<1>8. N \in S
  <2> HIDE DEF S
  <2>1. \A m \in 0..N : m \in S
    BY <1>3, <1>6, <1>7, UpTo
  <2>2. QED
    BY <1>3, <2>1
<1>9. Linked(WalkIn(nodes, nx, p)) /\ Starts(WalkIn(nodes, nx, p), p)
  BY <1>2, <1>8
<1>10. WalkIn(nodes, nx, p) \in Seq(nodes)
  BY <1>2, <1>3
<1>11. p \in nodes <=> Len(WalkIn(nodes, nx, p)) # 0
  <2>1. CASE p \notin nodes
    <3>1. N \in 0..N /\ p \in P
      BY <1>2, <1>3
    <3>2. found[N][p] = << >>
      BY <1>4, <2>1, <3>1, Zenon
    <3>3. QED
      BY <1>2, <2>1, <3>2
  <2>2. CASE p \in nodes
    <3>1. nx[p] \in P /\ N > 0 /\ N - 1 \in 0..N
          /\ N \in 0..N /\ p \in P
      BY <1>2, <1>3, <1>5, <2>2
    <3>2. found[N][p] = <<p>> \o found[N - 1][nx[p]]
      BY <1>4, <2>2, <3>1, Zenon
    <3>3. found[N - 1][nx[p]] \in Seq(nodes)
      BY <1>2, <3>1
    <3>4. QED
      BY <1>2, <2>2, <3>2, <3>3
  <2>3. QED
    BY <2>1, <2>2
<1>12. QED
  BY <1>9, <1>10, <1>11

-----------------------------------------------------------------------------
(* Sequences, element by element.                                          *)

(* What is inserted at p pushes the rest one place on.                     *)
LEMMA InsertAtIs ==
  ASSUME NEW S, NEW q \in Seq(S), NEW v \in S, NEW p \in 1..(Len(q) + 1)
  PROVE  InsertAt(q, p, v) =
           [i \in 1..(Len(q) + 1) |-> IF i < p THEN q[i]
                                     ELSE IF i = p THEN v ELSE q[i - 1]]
<1> DEFINE n == Len(q)
           a == SubSeq(q, 1, p - 1)
           b == SubSeq(q, p, n)
<1>1. n \in Nat /\ p \in Nat /\ 1 <= p /\ p <= n + 1
  OBVIOUS
<1>2. /\ a \in Seq(S) /\ Len(a) = p - 1
      /\ \A i \in 1..(p - 1) : a[i] = q[i]
  BY <1>1
<1>3. /\ b \in Seq(S) /\ Len(b) = (n - p) + 1
      /\ \A i \in 1..((n - p) + 1) : b[i] = q[(p - 1) + i]
  BY <1>1
<1>4. InsertAt(q, p, v) = a \o <<v>> \o b
  BY DEF InsertAt
<1> HIDE DEF a, b
<1>5. /\ (a \o <<v>>) \in Seq(S) /\ Len(a \o <<v>>) = p
      /\ \A i \in 1..(p - 1) : (a \o <<v>>)[i] = q[i]
      /\ (a \o <<v>>)[p] = v
  BY <1>1, <1>2
<1> DEFINE e == a \o <<v>>
<1> HIDE DEF e
<1>6. /\ e \in Seq(S) /\ Len(e) = p /\ e[p] = v
      /\ \A i \in 1..(p - 1) : e[i] = q[i]
  BY <1>5 DEF e
<1>7. /\ (e \o b) \in Seq(S) /\ Len(e \o b) = n + 1
      /\ \A i \in 1..p : (e \o b)[i] = e[i]
      /\ \A i \in (p + 1)..(n + 1) : (e \o b)[i] = b[i - p]
  BY <1>1, <1>3, <1>6
<1>8. ASSUME NEW i \in 1..(n + 1)
      PROVE  (e \o b)[i] = IF i < p THEN q[i] ELSE IF i = p THEN v
                           ELSE q[i - 1]
  <2>1. CASE i <= p
    BY <1>1, <1>6, <1>7, <2>1
  <2>2. CASE i > p
    <3>1. /\ i \in (p + 1)..(n + 1) /\ i - p \in 1..((n - p) + 1)
          /\ (p - 1) + (i - p) = i - 1
      BY <1>1, <2>2
    <3>2. QED
      BY <1>3, <1>7, <2>2, <3>1
  <2>3. i <= p \/ i > p
    BY <1>1
  <2>4. QED
    BY <2>1, <2>2, <2>3
<1> DEFINE t == [i \in 1..(n + 1) |-> IF i < p THEN q[i] ELSE IF i = p THEN v
                                     ELSE q[i - 1]]
<1>9. t \in Seq(S) /\ Len(t) = n + 1
  <2>1. ASSUME NEW i \in 1..(n + 1)
        PROVE  t[i] \in S
    <3>1. i < p \/ i = p \/ (i > p /\ i - 1 \in 1..n)
      BY <1>1
    <3>2. i < p => i \in 1..n
      BY <1>1
    <3>3. QED
      BY <3>1, <3>2
  <2>2. n + 1 \in Nat /\ t \in [1..(n + 1) -> S]
    BY <1>1, <2>1
  <2>3. QED
    BY <2>2
<1>10. \A i \in 1..Len(e \o b) : (e \o b)[i] = t[i]
  BY <1>7, <1>8
<1> HIDE DEF t
<1>11. e \o b = t
  BY <1>7, <1>9, <1>10, SeqEqual
<1>12. QED
  BY <1>4, <1>11 DEF e, t

(* What is removed at p lets the rest come one place back.                 *)
LEMMA RemoveAtIs ==
  ASSUME NEW S, NEW q \in Seq(S), NEW p \in 1..Len(q)
  PROVE  RemoveAt(q, p) =
           [i \in 1..(Len(q) - 1) |-> IF i < p THEN q[i] ELSE q[i + 1]]
<1> DEFINE n == Len(q)
           a == SubSeq(q, 1, p - 1)
           b == SubSeq(q, p + 1, n)
<1>1. n \in Nat /\ p \in Nat /\ 1 <= p /\ p <= n
  OBVIOUS
<1>2. /\ a \in Seq(S) /\ Len(a) = p - 1
      /\ \A i \in 1..(p - 1) : a[i] = q[i]
  BY <1>1
<1>3. /\ b \in Seq(S) /\ Len(b) = n - p
      /\ \A i \in 1..(n - p) : b[i] = q[p + i]
  BY <1>1
<1>4. RemoveAt(q, p) = a \o b
  BY DEF RemoveAt
<1> HIDE DEF a, b
<1>5. /\ (a \o b) \in Seq(S) /\ Len(a \o b) = n - 1
      /\ \A i \in 1..(n - 1) :
           (a \o b)[i] = IF i <= p - 1 THEN a[i] ELSE b[i - (p - 1)]
  <2>1. Len(a) + Len(b) = n - 1
    BY <1>1, <1>2, <1>3
  <2>2. /\ (a \o b) \in Seq(S) /\ Len(a \o b) = Len(a) + Len(b)
        /\ \A i \in 1..Len(a) + Len(b) :
             (a \o b)[i] = IF i <= Len(a) THEN a[i] ELSE b[i - Len(a)]
    BY <1>2, <1>3, ConcatProperties
  <2>3. QED
    BY <1>2, <2>1, <2>2
<1>6. ASSUME NEW i \in 1..(n - 1)
      PROVE  (a \o b)[i] = IF i < p THEN q[i] ELSE q[i + 1]
  <2>1. CASE i < p
    <3>1. i \in 1..(p - 1) /\ i <= p - 1
      BY <1>1, <2>1
    <3>2. QED
      BY <1>2, <1>5, <2>1, <3>1
  <2>2. CASE i >= p
    <3>1. /\ i - (p - 1) \in 1..(n - p) /\ p + (i - (p - 1)) = i + 1
          /\ ~(i <= p - 1) /\ ~(i < p)
      BY <1>1, <2>2
    <3>2. QED
      BY <1>3, <1>5, <3>1
  <2>3. i < p \/ i >= p
    BY <1>1
  <2>4. QED
    BY <2>1, <2>2, <2>3
<1> DEFINE t == [i \in 1..(n - 1) |-> IF i < p THEN q[i] ELSE q[i + 1]]
<1>7. t \in Seq(S) /\ Len(t) = n - 1
  <2>1. ASSUME NEW i \in 1..(n - 1)
        PROVE  t[i] \in S
    <3>1. i \in 1..n /\ i + 1 \in 1..n
      BY <1>1
    <3>2. QED
      BY <3>1
  <2>2. n - 1 \in Nat /\ t \in [1..(n - 1) -> S]
    BY <1>1, <2>1
  <2>3. QED
    BY <2>2
<1>8. \A i \in 1..Len(a \o b) : (a \o b)[i] = t[i]
  BY <1>5, <1>6
<1> HIDE DEF t
<1>9. a \o b = t
  BY <1>5, <1>7, <1>8, SeqEqual
<1>10. QED
  BY <1>4, <1>9 DEF t

\* The m elements of r from i on are put into q before its place a; m
\* elements of q are taken out from place i on; and the elements from a and
\* those from b on, up to e, change their places.
Opened(q, a, r, i, m) ==
  [x \in 1..(Len(q) + m) |-> IF x < a THEN q[x]
                             ELSE IF x < a + m THEN r[x - a + i]
                             ELSE q[x - m]]
Closed(q, i, m) ==
  [x \in 1..(Len(q) - m) |-> IF x < i THEN q[x] ELSE q[x + m]]
Swapped(q, a, b, e) ==
  [x \in 1..Len(q) |-> q[IF x < a THEN x
                         ELSE IF x < a + e - b THEN x + b - a
                         ELSE IF x < e THEN x - e + b ELSE x]]

\* What the function D has for the elements of q.
Mapped(q, D) == [x \in 1..Len(q) |-> D[q[x]]]

(* A piece of a sequence.                                                  *)
LEMMA PieceIs ==
  ASSUME NEW S, NEW q \in Seq(S), NEW i \in 1..(Len(q) + 1),
         NEW j \in 0..Len(q), i <= j + 1
  PROVE  /\ SubSeq(q, i, j) \in Seq(S) /\ Len(SubSeq(q, i, j)) = j - i + 1
         /\ \A x \in 1..(j - i + 1) : SubSeq(q, i, j)[x] = q[i + x - 1]
<1>1. Len(q) \in Nat /\ i \in Nat /\ j \in Nat
  OBVIOUS
<1>2. CASE i <= j
  BY <1>1, <1>2
<1>3. CASE i = j + 1
  <2>1. SubSeq(q, i, j) = << >> /\ j - i + 1 = 0
    BY <1>1, <1>3
  <2>2. QED
    BY <2>1
<1>4. QED
  BY <1>1, <1>2, <1>3

(* Two sequences, one behind the other.                                    *)
LEMMA JoinedIs ==
  ASSUME NEW S, NEW u \in Seq(S), NEW w \in Seq(S)
  PROVE  /\ (u \o w) \in Seq(S) /\ Len(u \o w) = Len(u) + Len(w)
         /\ \A x \in 1..(Len(u) + Len(w)) :
              (u \o w)[x] = IF x <= Len(u) THEN u[x] ELSE w[x - Len(u)]
BY ConcatProperties

(* A sequence is the function on its places.                               *)
LEMMA SeqIs ==
  ASSUME NEW S, NEW t \in Seq(S), NEW m \in Nat, Len(t) = m
  PROVE  t = [x \in 1..m |-> t[x]]
OBVIOUS

(* Three pieces and what they make.                                        *)
LEMMA OpenedIs ==
  ASSUME NEW S, NEW q \in Seq(S), NEW r \in Seq(S),
         NEW a \in 1..(Len(q) + 1), NEW i \in 1..(Len(r) + 1),
         NEW m \in 0..(Len(r) + 1 - i)
  PROVE  /\ SubSeq(q, 1, a - 1) \o SubSeq(r, i, i + m - 1)
              \o SubSeq(q, a, Len(q)) = Opened(q, a, r, i, m)
         /\ Opened(q, a, r, i, m) \in Seq(S)
         /\ Len(Opened(q, a, r, i, m)) = Len(q) + m
<1> PICK n \in Nat : n = Len(q)
  OBVIOUS
<1>1. PICK u : u = SubSeq(q, 1, a - 1)
  OBVIOUS
<1>2. PICK v : v = SubSeq(r, i, i + m - 1)
  OBVIOUS
<1>3. PICK w : w = SubSeq(q, a, Len(q))
  OBVIOUS
<1>4. /\ a \in Nat /\ i \in Nat /\ m \in Nat /\ Len(r) \in Nat
      /\ 1 <= a /\ a <= n + 1 /\ n = Len(q)
  OBVIOUS
<1>5. /\ u \in Seq(S) /\ Len(u) = a - 1
      /\ \A x \in 1..(a - 1) : u[x] = q[x]
  <2>1. 1 \in 1..(Len(q) + 1) /\ a - 1 \in 0..Len(q) /\ 1 <= (a - 1) + 1
        /\ (a - 1) - 1 + 1 = a - 1
    BY <1>4
  <2>2. \A x \in 1..(a - 1) : 1 + x - 1 = x
    BY <1>4
  <2>3. QED
    BY <1>1, <2>1, <2>2, PieceIs, SMTT(30)
<1>6. /\ v \in Seq(S) /\ Len(v) = m
      /\ \A x \in 1..m : v[x] = r[i + x - 1]
  <2>1. i + m - 1 \in 0..Len(r) /\ i <= (i + m - 1) + 1
        /\ (i + m - 1) - i + 1 = m
    BY <1>4
  <2>2. QED
    BY <1>2, <2>1, PieceIs
<1>7. /\ w \in Seq(S) /\ Len(w) = n - a + 1
      /\ \A x \in 1..(n - a + 1) : w[x] = q[a + x - 1]
  <2>1. Len(q) \in 0..Len(q) /\ a <= Len(q) + 1
    BY <1>4
  <2>2. QED
    BY <1>3, <2>1, PieceIs
<1>8. PICK uv : uv = u \o v
  OBVIOUS
<1>9. /\ uv \in Seq(S) /\ Len(uv) = a - 1 + m
      /\ \A x \in 1..(a - 1 + m) :
           uv[x] = IF x <= a - 1 THEN u[x] ELSE v[x - (a - 1)]
  <2>1. /\ (u \o v) \in Seq(S) /\ Len(u \o v) = Len(u) + Len(v)
        /\ \A x \in 1..(Len(u) + Len(v)) :
             (u \o v)[x] = IF x <= Len(u) THEN u[x] ELSE v[x - Len(u)]
    BY <1>5, <1>6, JoinedIs
  <2>2. QED
    BY <1>8, <1>5, <1>6, <2>1
<1>10. PICK t : t = uv \o w
  OBVIOUS
<1>11. /\ t \in Seq(S) /\ Len(t) = a - 1 + m + (n - a + 1)
       /\ \A x \in 1..(a - 1 + m + (n - a + 1)) :
            t[x] = IF x <= a - 1 + m THEN uv[x] ELSE w[x - (a - 1 + m)]
  <2>1. /\ (uv \o w) \in Seq(S) /\ Len(uv \o w) = Len(uv) + Len(w)
        /\ \A x \in 1..(Len(uv) + Len(w)) :
             (uv \o w)[x] = IF x <= Len(uv) THEN uv[x] ELSE w[x - Len(uv)]
    BY <1>7, <1>9, JoinedIs
  <2>2. QED
    BY <1>10, <1>7, <1>9, <2>1
<1>12. a - 1 + m + (n - a + 1) = n + m /\ n + m \in Nat
  BY <1>4
<1>13. ASSUME NEW x \in 1..(n + m)
       PROVE  t[x] = IF x < a THEN q[x]
                     ELSE IF x < a + m THEN r[x - a + i] ELSE q[x - m]
  <2>1. CASE x < a
    <3>1. x \in 1..(a - 1) /\ x <= a - 1 + m /\ x <= a - 1
          /\ x \in 1..(a - 1 + m)
      BY <1>4, <2>1
    <3>2. QED
      BY <1>5, <1>9, <1>11, <1>12, <2>1, <3>1
  <2>2. CASE ~(x < a) /\ x < a + m
    <3>1. /\ x <= a - 1 + m /\ ~(x <= a - 1) /\ x \in 1..(a - 1 + m)
          /\ x - (a - 1) \in 1..m /\ i + (x - (a - 1)) - 1 = x - a + i
      BY <1>4, <2>2
    <3>2. QED
      BY <1>6, <1>9, <1>11, <1>12, <2>2, <3>1
  <2>3. CASE ~(x < a + m)
    <3>1. /\ ~(x <= a - 1 + m) /\ ~(x < a)
          /\ x - (a - 1 + m) \in 1..(n - a + 1)
          /\ a + (x - (a - 1 + m)) - 1 = x - m
      BY <1>4, <2>3
    <3>2. QED
      BY <1>7, <1>11, <1>12, <2>3, <3>1
  <2>4. QED
    BY <2>1, <2>2, <2>3
<1>14. t = [x \in 1..(n + m) |-> t[x]]
  BY <1>11, <1>12, SeqIs
<1>15. t = [x \in 1..(n + m) |->
              IF x < a THEN q[x]
              ELSE IF x < a + m THEN r[x - a + i] ELSE q[x - m]]
  BY <1>13, <1>14, Zenon
<1>16. t = Opened(q, a, r, i, m)
  BY <1>15, <1>4 DEF Opened
<1>17. QED
  BY <1>1, <1>2, <1>3, <1>8, <1>10, <1>11, <1>12, <1>16

(* Two pieces.                                                             *)
LEMMA ClosedIs ==
  ASSUME NEW S, NEW q \in Seq(S), NEW i \in 1..(Len(q) + 1),
         NEW m \in 0..(Len(q) + 1 - i)
  PROVE  /\ SubSeq(q, 1, i - 1) \o SubSeq(q, i + m, Len(q)) = Closed(q, i, m)
         /\ Closed(q, i, m) \in Seq(S)
         /\ Len(Closed(q, i, m)) = Len(q) - m
<1> PICK n \in Nat : n = Len(q)
  OBVIOUS
<1>1. PICK u : u = SubSeq(q, 1, i - 1)
  OBVIOUS
<1>2. PICK w : w = SubSeq(q, i + m, Len(q))
  OBVIOUS
<1>3. /\ i \in Nat /\ m \in Nat /\ 1 <= i /\ i + m <= n + 1 /\ n = Len(q)
  OBVIOUS
<1>4. /\ u \in Seq(S) /\ Len(u) = i - 1
      /\ \A x \in 1..(i - 1) : u[x] = q[x]
  <2>1. 1 \in 1..(Len(q) + 1) /\ i - 1 \in 0..Len(q) /\ 1 <= (i - 1) + 1
        /\ (i - 1) - 1 + 1 = i - 1
    BY <1>3
  <2>2. \A x \in 1..(i - 1) : 1 + x - 1 = x
    BY <1>3
  <2>3. QED
    BY <1>1, <2>1, <2>2, PieceIs
<1>5. /\ w \in Seq(S) /\ Len(w) = n - (i + m) + 1
      /\ \A x \in 1..(n - (i + m) + 1) : w[x] = q[(i + m) + x - 1]
  <2>1. /\ Len(q) \in 0..Len(q) /\ i + m <= Len(q) + 1
        /\ i + m \in 1..(Len(q) + 1)
    BY <1>3
  <2>2. QED
    BY <1>2, <2>1, PieceIs
<1>6. PICK t : t = u \o w
  OBVIOUS
<1>7. /\ t \in Seq(S) /\ Len(t) = i - 1 + (n - (i + m) + 1)
      /\ \A x \in 1..(i - 1 + (n - (i + m) + 1)) :
           t[x] = IF x <= i - 1 THEN u[x] ELSE w[x - (i - 1)]
  <2>1. /\ (u \o w) \in Seq(S) /\ Len(u \o w) = Len(u) + Len(w)
        /\ \A x \in 1..(Len(u) + Len(w)) :
             (u \o w)[x] = IF x <= Len(u) THEN u[x] ELSE w[x - Len(u)]
    BY <1>4, <1>5, JoinedIs
  <2>2. QED
    BY <1>6, <1>4, <1>5, <2>1
<1>8. i - 1 + (n - (i + m) + 1) = n - m /\ n - m \in Nat
  BY <1>3
<1>9. ASSUME NEW x \in 1..(n - m)
      PROVE  t[x] = IF x < i THEN q[x] ELSE q[x + m]
  <2>1. CASE x < i
    <3>1. x \in 1..(i - 1) /\ x <= i - 1
      BY <1>3, <2>1
    <3>2. QED
      BY <1>4, <1>7, <1>8, <2>1, <3>1
  <2>2. CASE ~(x < i)
    <3>1. /\ ~(x <= i - 1) /\ x - (i - 1) \in 1..(n - (i + m) + 1)
          /\ (i + m) + (x - (i - 1)) - 1 = x + m
      BY <1>3, <2>2
    <3>2. QED
      BY <1>5, <1>7, <1>8, <2>2, <3>1
  <2>3. QED
    BY <2>1, <2>2
<1>10. t = [x \in 1..(n - m) |-> t[x]]
  BY <1>7, <1>8, SeqIs
<1>11. t = [x \in 1..(n - m) |-> IF x < i THEN q[x] ELSE q[x + m]]
  BY <1>9, <1>10, Zenon
<1>12. t = Closed(q, i, m)
  BY <1>11, <1>3 DEF Closed
<1>13. QED
  BY <1>1, <1>2, <1>6, <1>7, <1>8, <1>12

(* Four pieces, of which two have changed places.                          *)
LEMMA SwappedIs ==
  ASSUME NEW S, NEW q \in Seq(S), NEW a \in 1..(Len(q) + 1),
         NEW b \in 1..(Len(q) + 1), NEW e \in 1..(Len(q) + 1),
         a <= b, b <= e
  PROVE  /\ SubSeq(q, 1, a - 1) \o SubSeq(q, b, e - 1)
              \o SubSeq(q, a, b - 1) \o SubSeq(q, e, Len(q))
              = Swapped(q, a, b, e)
         /\ Swapped(q, a, b, e) \in Seq(S)
         /\ Len(Swapped(q, a, b, e)) = Len(q)
<1> PICK n \in Nat : n = Len(q)
  OBVIOUS
<1>1. PICK u : u = SubSeq(q, 1, a - 1)
  OBVIOUS
<1>2. PICK v : v = SubSeq(q, b, e - 1)
  OBVIOUS
<1>3. PICK w : w = SubSeq(q, a, b - 1)
  OBVIOUS
<1>4. PICK z : z = SubSeq(q, e, Len(q))
  OBVIOUS
<1>5. /\ a \in Nat /\ b \in Nat /\ e \in Nat
      /\ 1 <= a /\ a <= b /\ b <= e /\ e <= n + 1 /\ n = Len(q)
  OBVIOUS
<1>6. /\ u \in Seq(S) /\ Len(u) = a - 1
      /\ \A x \in 1..(a - 1) : u[x] = q[x]
  <2>1. 1 \in 1..(Len(q) + 1) /\ a - 1 \in 0..Len(q) /\ 1 <= (a - 1) + 1
        /\ (a - 1) - 1 + 1 = a - 1
    BY <1>5
  <2>2. \A x \in 1..(a - 1) : 1 + x - 1 = x
    BY <1>5
  <2>3. QED
    BY <1>1, <2>1, <2>2, PieceIs
<1>7. /\ v \in Seq(S) /\ Len(v) = e - b
      /\ \A x \in 1..(e - b) : v[x] = q[b + x - 1]
  <2>1. e - 1 \in 0..Len(q) /\ b <= (e - 1) + 1 /\ (e - 1) - b + 1 = e - b
    BY <1>5
  <2>2. QED
    BY <1>2, <2>1, PieceIs
<1>8. /\ w \in Seq(S) /\ Len(w) = b - a
      /\ \A x \in 1..(b - a) : w[x] = q[a + x - 1]
  <2>1. b - 1 \in 0..Len(q) /\ a <= (b - 1) + 1 /\ (b - 1) - a + 1 = b - a
    BY <1>5
  <2>2. QED
    BY <1>3, <2>1, PieceIs
<1>9. /\ z \in Seq(S) /\ Len(z) = n - e + 1
      /\ \A x \in 1..(n - e + 1) : z[x] = q[e + x - 1]
  <2>1. Len(q) \in 0..Len(q) /\ e <= Len(q) + 1
    BY <1>5
  <2>2. QED
    BY <1>4, <2>1, PieceIs
<1>10. PICK uv : uv = u \o v
  OBVIOUS
<1>11. /\ uv \in Seq(S) /\ Len(uv) = a - 1 + (e - b)
       /\ \A x \in 1..(a - 1 + (e - b)) :
            uv[x] = IF x <= a - 1 THEN u[x] ELSE v[x - (a - 1)]
  <2>1. /\ (u \o v) \in Seq(S) /\ Len(u \o v) = Len(u) + Len(v)
        /\ \A x \in 1..(Len(u) + Len(v)) :
             (u \o v)[x] = IF x <= Len(u) THEN u[x] ELSE v[x - Len(u)]
    BY <1>6, <1>7, JoinedIs
  <2>2. QED
    BY <1>10, <1>6, <1>7, <2>1
<1>12. PICK uw : uw = uv \o w
  OBVIOUS
<1>13. /\ uw \in Seq(S) /\ Len(uw) = a - 1 + (e - b) + (b - a)
       /\ \A x \in 1..(a - 1 + (e - b) + (b - a)) :
            uw[x] = IF x <= a - 1 + (e - b) THEN uv[x]
                    ELSE w[x - (a - 1 + (e - b))]
  <2>1. /\ (uv \o w) \in Seq(S) /\ Len(uv \o w) = Len(uv) + Len(w)
        /\ \A x \in 1..(Len(uv) + Len(w)) :
             (uv \o w)[x] = IF x <= Len(uv) THEN uv[x] ELSE w[x - Len(uv)]
    BY <1>8, <1>11, JoinedIs
  <2>2. QED
    BY <1>12, <1>8, <1>11, <2>1
<1>14. a - 1 + (e - b) + (b - a) = e - 1
  BY <1>5
<1>15. PICK t : t = uw \o z
  OBVIOUS
<1>16. /\ t \in Seq(S) /\ Len(t) = e - 1 + (n - e + 1)
       /\ \A x \in 1..(e - 1 + (n - e + 1)) :
            t[x] = IF x <= e - 1 THEN uw[x] ELSE z[x - (e - 1)]
  <2>1. /\ (uw \o z) \in Seq(S) /\ Len(uw \o z) = Len(uw) + Len(z)
        /\ \A x \in 1..(Len(uw) + Len(z)) :
             (uw \o z)[x] = IF x <= Len(uw) THEN uw[x] ELSE z[x - Len(uw)]
    BY <1>9, <1>13, JoinedIs
  <2>2. Len(uw) = e - 1 /\ uw \in Seq(S)
    BY <1>13, <1>14
  <2>3. Len(z) = n - e + 1
    BY <1>9
  <2>4. QED
    BY <1>15, <2>1, <2>2, <2>3, SMTT(30)
<1>17. e - 1 + (n - e + 1) = n
  BY <1>5
<1>18. ASSUME NEW x \in 1..n
       PROVE  t[x] = q[IF x < a THEN x
                       ELSE IF x < a + e - b THEN x + b - a
                       ELSE IF x < e THEN x - e + b ELSE x]
  <2>1. CASE x < a
    <3>1. /\ x \in 1..(a - 1) /\ x <= a - 1 /\ x <= a - 1 + (e - b)
          /\ x <= e - 1 /\ x \in 1..(a - 1 + (e - b)) /\ x \in 1..(e - 1)
      BY <1>5, <2>1
    <3>2. QED
      BY <1>6, <1>11, <1>13, <1>14, <1>16, <1>17, <2>1, <3>1
  <2>2. CASE ~(x < a) /\ x < a + e - b
    <3>1. /\ ~(x <= a - 1) /\ x <= a - 1 + (e - b)
          /\ x <= e - 1 /\ x \in 1..(a - 1 + (e - b)) /\ x \in 1..(e - 1)
          /\ x - (a - 1) \in 1..(e - b) /\ b + (x - (a - 1)) - 1 = x + b - a
      BY <1>5, <2>2
    <3>2. uv[x] = q[x + b - a]
      BY <1>7, <1>11, <3>1
    <3>3. uw[x] = uv[x]
      BY <1>13, <1>14, <3>1
    <3>4. t[x] = q[x + b - a]
      BY <1>16, <1>17, <3>1, <3>2, <3>3
    <3>5. QED
      BY <2>2, <3>4
  <2>3. CASE ~(x < a + e - b) /\ x < e
    <3>1. /\ ~(x <= a - 1 + (e - b)) /\ x <= e - 1 /\ x \in 1..(e - 1)
          /\ x - (a - 1 + (e - b)) \in 1..(b - a) /\ ~(x < a)
          /\ a + (x - (a - 1 + (e - b))) - 1 = x - e + b
      BY <1>5, <2>3
    <3>2. t[x] = q[x - e + b]
      BY <1>8, <1>13, <1>14, <1>16, <1>17, <3>1
    <3>3. QED
      BY <2>3, <3>1, <3>2
  <2>4. CASE ~(x < e)
    <3>1. /\ ~(x <= e - 1) /\ x - (e - 1) \in 1..(n - e + 1)
          /\ e + (x - (e - 1)) - 1 = x /\ ~(x < a) /\ ~(x < a + e - b)
      BY <1>5, <2>4
    <3>2. t[x] = q[x]
      BY <1>9, <1>16, <1>17, <3>1
    <3>3. QED
      BY <2>4, <3>1, <3>2
  <2>5. QED
    BY <2>1, <2>2, <2>3, <2>4
<1>19. t = [x \in 1..n |-> t[x]]
  BY <1>16, <1>17, SeqIs
<1>20. t = [x \in 1..n |-> q[IF x < a THEN x
                       ELSE IF x < a + e - b THEN x + b - a
                       ELSE IF x < e THEN x - e + b ELSE x]]
  BY <1>18, <1>19, Zenon
<1>21. t = Swapped(q, a, b, e)
  BY <1>20, <1>5 DEF Swapped
<1>22. QED
  BY <1>1, <1>2, <1>3, <1>4, <1>10, <1>12, <1>15, <1>16, <1>17, <1>21


(* One element that comes, one that goes, and some that come at the end.   *)
LEMMA InsertAtOpens ==
  ASSUME NEW S, NEW q \in Seq(S), NEW v \in S, NEW p \in 1..(Len(q) + 1)
  PROVE  InsertAt(q, p, v) = Opened(q, p, <<v>>, 1, 1)
<1>1. p \in Nat /\ Len(q) \in Nat
  OBVIOUS
<1>2. ASSUME NEW i \in 1..(Len(q) + 1)
      PROVE  (IF i < p THEN q[i] ELSE IF i = p THEN v ELSE q[i - 1])
               = IF i < p THEN q[i]
                 ELSE IF i < p + 1 THEN <<v>>[i - p + 1] ELSE q[i - 1]
  <2>1. i < p \/ (i = p /\ i - p + 1 = 1) \/ (i > p /\ ~(i < p + 1))
    BY <1>1
  <2>2. <<v>>[1] = v
    OBVIOUS
  <2>3. ~(i = p /\ i < p) /\ (i = p => i < p + 1) /\ (i < p => i # p)
        /\ ~(i > p /\ i = p) /\ ~(i > p /\ i < p)
    BY <1>1
  <2>4. QED
    BY <2>1, <2>2, <2>3
<1>3. [i \in 1..(Len(q) + 1) |-> IF i < p THEN q[i]
                                ELSE IF i = p THEN v ELSE q[i - 1]]
        = [i \in 1..(Len(q) + 1) |->
             IF i < p THEN q[i]
             ELSE IF i < p + 1 THEN <<v>>[i - p + 1] ELSE q[i - 1]]
  BY <1>2, Zenon
<1>4. QED
  BY <1>3, InsertAtIs DEF Opened

(* RemoveAt takes one element out.                                         *)
LEMMA RemoveAtCloses ==
  ASSUME NEW S, NEW q \in Seq(S), NEW p \in 1..Len(q)
  PROVE  RemoveAt(q, p) = Closed(q, p, 1)
BY RemoveAtIs DEF Closed

(* To put elements behind the last one is to open the end.                 *)
LEMMA EndOpens ==
  ASSUME NEW S, NEW q \in Seq(S), NEW f \in Seq(S), NEW n \in 0..Len(f)
  PROVE  q \o SubSeq(f, 1, n) = Opened(q, Len(q) + 1, f, 1, n)
<1>1. Len(q) \in Nat /\ Len(f) \in Nat /\ n \in Nat
  OBVIOUS
<1>2. /\ Len(q) + 1 \in 1..(Len(q) + 1) /\ 1 \in 1..(Len(f) + 1)
      /\ n \in 0..(Len(f) + 1 - 1)
      /\ (Len(q) + 1) - 1 = Len(q) /\ 1 + n - 1 = n
  BY <1>1
<1>3. SubSeq(q, 1, Len(q)) \o SubSeq(f, 1, n)
        \o SubSeq(q, Len(q) + 1, Len(q)) = Opened(q, Len(q) + 1, f, 1, n)
  <2>1. SubSeq(q, 1, (Len(q) + 1) - 1) \o SubSeq(f, 1, 1 + n - 1)
          \o SubSeq(q, Len(q) + 1, Len(q)) = Opened(q, Len(q) + 1, f, 1, n)
    <3>1. /\ Len(q) + 1 \in 1..(Len(q) + 1) /\ 1 \in 1..(Len(f) + 1)
          /\ n \in 0..(Len(f) + 1 - 1)
      BY <1>1
    <3>2. QED
      BY <3>1, OpenedIs, ZenonT(40)
  <2>2. QED
    BY <1>2, <2>1
<1>4. SubSeq(q, 1, Len(q)) = q /\ SubSeq(q, Len(q) + 1, Len(q)) = << >>
  BY <1>1
<1>5. SubSeq(f, 1, n) \in Seq(S)
  BY <1>1
<1>6. (q \o SubSeq(f, 1, n)) \in Seq(S)
  BY <1>5
<1>7. (q \o SubSeq(f, 1, n)) \o << >> = q \o SubSeq(f, 1, n)
  BY <1>6
<1>8. QED
  BY <1>3, <1>4, <1>7

(* What a function has for the elements of a sequence is a sequence.       *)
LEMMA MappedTyped ==
  ASSUME NEW q, Len(q) \in Nat, NEW D, NEW V,
         \A x \in 1..Len(q) : D[q[x]] \in V
  PROVE  /\ Mapped(q, D) \in Seq(V) /\ Len(Mapped(q, D)) = Len(q)
         /\ \A x \in 1..Len(q) : Mapped(q, D)[x] = D[q[x]]
<1>1. Mapped(q, D) \in [1..Len(q) -> V]
  BY DEF Mapped
<1>2. QED
  BY <1>1 DEF Mapped

(* What functions have for the elements is opened and closed with them, if *)
(* the functions agree on those that stay.                                 *)
LEMMA OpenedMapped ==
  ASSUME NEW S, NEW q \in Seq(S), NEW r \in Seq(S),
         NEW a \in 1..(Len(q) + 1), NEW i \in 1..(Len(r) + 1),
         NEW m \in 0..(Len(r) + 1 - i), NEW D, NEW E, NEW f,
         \A x \in 1..Len(q) : D[q[x]] = E[q[x]],
         \A x \in i..(i + m - 1) : D[r[x]] = f[x]
  PROVE  Mapped(Opened(q, a, r, i, m), D) = Opened(Mapped(q, E), a, f, i, m)
<1> PICK n \in Nat : n = Len(q)
  OBVIOUS
<1>1. /\ a \in Nat /\ i \in Nat /\ m \in Nat /\ n = Len(q)
      /\ 1 <= a /\ a <= n + 1 /\ n + m \in Nat
  OBVIOUS
<1>2. Len(Mapped(q, E)) = n /\ \A x \in 1..n : Mapped(q, E)[x] = E[q[x]]
  <2>1. Mapped(q, E) \in [1..n -> {E[q[x]] : x \in 1..n}]
    BY <1>1 DEF Mapped
  <2>2. QED
    BY <1>1, <2>1 DEF Mapped
<1>3. /\ Len(Opened(q, a, r, i, m)) = n + m
      /\ \A x \in 1..(n + m) :
           Opened(q, a, r, i, m)[x] = IF x < a THEN q[x]
                                      ELSE IF x < a + m THEN r[x - a + i]
                                      ELSE q[x - m]
  <2>1. Len(Opened(q, a, r, i, m)) = Len(q) + m
    BY OpenedIs, ZenonT(40)
  <2>2. QED
    BY <1>1, <2>1 DEF Opened
<1>4. ASSUME NEW x \in 1..(n + m)
      PROVE  D[Opened(q, a, r, i, m)[x]]
               = IF x < a THEN Mapped(q, E)[x]
                 ELSE IF x < a + m THEN f[x - a + i]
                 ELSE Mapped(q, E)[x - m]
  <2>1. CASE x < a
    <3>1. x \in 1..n
      BY <1>1, <2>1
    <3>2. QED
      BY <1>1, <1>2, <1>3, <2>1, <3>1
  <2>2. CASE ~(x < a) /\ x < a + m
    <3>1. x - a + i \in i..(i + m - 1)
      BY <1>1, <2>2
    <3>2. QED
      BY <1>3, <2>2, <3>1
  <2>3. CASE ~(x < a) /\ ~(x < a + m)
    <3>1. x - m \in 1..n
      BY <1>1, <2>3
    <3>2. QED
      BY <1>1, <1>2, <1>3, <2>3, <3>1
  <2>4. QED
    BY <2>1, <2>2, <2>3
<1>5. Mapped(Opened(q, a, r, i, m), D) =
        [x \in 1..(n + m) |-> D[Opened(q, a, r, i, m)[x]]]
  BY <1>3 DEF Mapped
<1>6. Opened(Mapped(q, E), a, f, i, m) =
        [x \in 1..(n + m) |-> IF x < a THEN Mapped(q, E)[x]
                              ELSE IF x < a + m THEN f[x - a + i]
                              ELSE Mapped(q, E)[x - m]]
  BY <1>2 DEF Opened
<1>7. QED
  BY <1>4, <1>5, <1>6, SMTT(30)

(* This is so when one element is put in,                                  *)
LEMMA OneMapped ==
  ASSUME NEW S, NEW q \in Seq(S), NEW n \in S, NEW v,
         NEW a \in 1..(Len(q) + 1), NEW D, NEW E,
         \A x \in 1..Len(q) : D[q[x]] = E[q[x]], D[n] = v
  PROVE  Mapped(Opened(q, a, <<n>>, 1, 1), D)
           = Opened(Mapped(q, E), a, <<v>>, 1, 1)
<1>1. PICK r : r = <<n>>
  OBVIOUS
<1>2. PICK f : f = <<v>>
  OBVIOUS
<1>3. PICK i : i = 1
  OBVIOUS
<1>4. /\ r \in Seq(S)
      /\ i \in 1..(Len(r) + 1) /\ i \in 0..(Len(r) + 1 - i)
  BY <1>1, <1>3
<1>5. \A x \in i..(i + i - 1) : D[r[x]] = f[x]
  BY <1>1, <1>2, <1>3
<1>6. Mapped(Opened(q, a, r, i, i), D) = Opened(Mapped(q, E), a, f, i, i)
  BY <1>4, <1>5, OpenedMapped
<1>7. QED
  BY <1>1, <1>2, <1>3, <1>6

(* when some are taken out,                                                *)
LEMMA ClosedMapped ==
  ASSUME NEW S, NEW q \in Seq(S), NEW i \in 1..(Len(q) + 1),
         NEW m \in 0..(Len(q) + 1 - i), NEW D, NEW E,
         \A x \in 1..Len(q) : x < i \/ i + m <= x => D[q[x]] = E[q[x]]
  PROVE  Mapped(Closed(q, i, m), D) = Closed(Mapped(q, E), i, m)
<1> PICK n \in Nat : n = Len(q)
  OBVIOUS
<1>1. /\ i \in Nat /\ m \in Nat /\ n = Len(q)
      /\ 1 <= i /\ i + m <= n + 1 /\ n - m \in Nat
  OBVIOUS
<1>2. Len(Mapped(q, E)) = n /\ \A x \in 1..n : Mapped(q, E)[x] = E[q[x]]
  <2>1. Mapped(q, E) \in [1..n -> {E[q[x]] : x \in 1..n}]
    BY <1>1 DEF Mapped
  <2>2. QED
    BY <1>1, <2>1 DEF Mapped
<1>3. /\ Len(Closed(q, i, m)) = n - m
      /\ \A x \in 1..(n - m) :
           Closed(q, i, m)[x] = IF x < i THEN q[x] ELSE q[x + m]
  <2>1. Len(Closed(q, i, m)) = n - m
    BY <1>1, ClosedIs
  <2>2. QED
    BY <1>1, <2>1 DEF Closed
<1>4. ASSUME NEW x \in 1..(n - m)
      PROVE  D[Closed(q, i, m)[x]]
               = IF x < i THEN Mapped(q, E)[x] ELSE Mapped(q, E)[x + m]
  <2>1. CASE x < i
    <3>1. x \in 1..n
      BY <1>1, <2>1
    <3>2. QED
      BY <1>1, <1>2, <1>3, <2>1, <3>1
  <2>2. CASE ~(x < i)
    <3>1. x + m \in 1..n /\ i + m <= x + m
      BY <1>1, <2>2
    <3>2. QED
      BY <1>1, <1>2, <1>3, <2>2, <3>1
  <2>3. QED
    BY <2>1, <2>2
<1>5. Mapped(Closed(q, i, m), D) =
        [x \in 1..(n - m) |-> D[Closed(q, i, m)[x]]]
  BY <1>3 DEF Mapped
<1>6. Closed(Mapped(q, E), i, m) =
        [x \in 1..(n - m) |-> IF x < i THEN Mapped(q, E)[x]
                              ELSE Mapped(q, E)[x + m]]
  BY <1>2 DEF Closed
<1>7. QED
  BY <1>4, <1>5, <1>6, Zenon

(* and when one is taken out.                                              *)
LEMMA OneLessMapped ==
  ASSUME NEW S, NEW q \in Seq(S), NEW i \in 1..Len(q), NEW D, NEW E,
         \A x \in 1..Len(q) : x # i => D[q[x]] = E[q[x]]
  PROVE  Mapped(Closed(q, i, 1), D) = Closed(Mapped(q, E), i, 1)
<1>1. PICK m : m = 1
  OBVIOUS
<1>2. i \in 1..(Len(q) + 1) /\ m \in 0..(Len(q) + 1 - i)
  BY <1>1
<1>3. \A x \in 1..Len(q) : x < i \/ i + m <= x => x # i
  BY <1>1
<1>4. \A x \in 1..Len(q) : x < i \/ i + m <= x => D[q[x]] = E[q[x]]
  BY <1>3
<1>5. Mapped(Closed(q, i, m), D) = Closed(Mapped(q, E), i, m)
  BY <1>2, <1>4, ClosedMapped
<1>6. QED
  BY <1>1, <1>5

(* The same with one function throughout, for pieces of any length.        *)
LEMMA MappedOpened ==
  ASSUME NEW S, NEW q \in Seq(S), NEW r \in Seq(S),
         NEW a \in 1..(Len(q) + 1), NEW i \in 1..(Len(r) + 1),
         NEW m \in 0..(Len(r) + 1 - i), NEW D
  PROVE  Mapped(Opened(q, a, r, i, m), D)
           = Opened(Mapped(q, D), a, Mapped(r, D), i, m)
<1>1. PICK f : f = Mapped(r, D)
  OBVIOUS
<1>2. \A x \in i..(i + m - 1) : D[r[x]] = f[x]
  <2>1. \A x \in i..(i + m - 1) : x \in 1..Len(r)
    OBVIOUS
  <2>2. \A x \in 1..Len(r) : f[x] = D[r[x]]
    BY <1>1 DEF Mapped
  <2>3. QED
    BY <2>1, <2>2
<1>3. \A x \in 1..Len(q) : D[q[x]] = D[q[x]]
  OBVIOUS
<1>4. Mapped(Opened(q, a, r, i, m), D) = Opened(Mapped(q, D), a, f, i, m)
  BY <1>2, <1>3, OpenedMapped
<1>5. QED
  BY <1>1, <1>4

(* And when some are taken out.                                            *)
LEMMA MappedClosed ==
  ASSUME NEW S, NEW q \in Seq(S), NEW i \in 1..(Len(q) + 1),
         NEW m \in 0..(Len(q) + 1 - i), NEW D
  PROVE  Mapped(Closed(q, i, m), D) = Closed(Mapped(q, D), i, m)
<1>1. PICK E : E = D
  OBVIOUS
<1>2. \A x \in 1..Len(q) : x < i \/ i + m <= x => D[q[x]] = E[q[x]]
  BY <1>1
<1>3. Mapped(Closed(q, i, m), D) = Closed(Mapped(q, E), i, m)
  <2>1. q \in Seq(S) /\ i \in 1..(Len(q) + 1)
        /\ m \in 0..(Len(q) + 1 - i)
    OBVIOUS
  <2>2. QED
    BY <1>2, <2>1, ClosedMapped
<1>4. QED
  BY <1>1, <1>3

(* And when two pieces change their places.                                *)
LEMMA SwappedMapped ==
  ASSUME NEW S, NEW q \in Seq(S), NEW a \in 1..(Len(q) + 1),
         NEW b \in 1..(Len(q) + 1), NEW e \in 1..(Len(q) + 1),
         a <= b, b <= e, NEW D
  PROVE  Mapped(Swapped(q, a, b, e), D) = Swapped(Mapped(q, D), a, b, e)
<1> DEFINE at(x) == IF x < a THEN x
                    ELSE IF x < a + e - b THEN x + b - a
                    ELSE IF x < e THEN x - e + b ELSE x
<1> PICK n \in Nat : n = Len(q)
  OBVIOUS
<1>1. /\ a \in Nat /\ b \in Nat /\ e \in Nat /\ n = Len(q)
      /\ 1 <= a /\ e <= n + 1
  OBVIOUS
<1>2. Len(Mapped(q, D)) = n /\ \A x \in 1..n : Mapped(q, D)[x] = D[q[x]]
  <2>1. Mapped(q, D) \in [1..n -> {D[q[x]] : x \in 1..n}]
    BY <1>1 DEF Mapped
  <2>2. QED
    BY <1>1, <2>1 DEF Mapped
<1>3. ASSUME NEW x \in 1..n
      PROVE  at(x) \in 1..n
  BY <1>1
<1>4. Swapped(q, a, b, e) = [x \in 1..n |-> q[at(x)]]
  BY <1>1 DEF Swapped
<1>5. Len(Swapped(q, a, b, e)) = n
  BY <1>1, SwappedIs
<1>6. Swapped(Mapped(q, D), a, b, e) = [x \in 1..n |-> Mapped(q, D)[at(x)]]
  BY <1>2 DEF Swapped
<1> HIDE DEF at
<1>7. ASSUME NEW x \in 1..n
      PROVE  D[Swapped(q, a, b, e)[x]] = Mapped(q, D)[at(x)]
  BY <1>2, <1>3, <1>4
<1>8. Mapped(Swapped(q, a, b, e), D) =
        [x \in 1..n |-> D[Swapped(q, a, b, e)[x]]]
  BY <1>5 DEF Mapped
<1>9. QED
  BY <1>6, <1>7, <1>8, Zenon


(* f[i] are those of the first i elements of s that are at places in hits: *)
(* a recursive function like a walk.                                       *)
Picks(f, s, hits, n) ==
  f = [i \in 0..n |-> IF i = 0 THEN << >>
                      ELSE IF i \in hits
                           THEN Append(f[i - 1], s[i]) ELSE f[i - 1]]

(* There is such a function.                                               *)
LEMMA PicksExists ==
  ASSUME NEW s, NEW hits, NEW n \in Nat
  PROVE  \E f : Picks(f, s, hits, n)
<1> DEFINE S == {m \in 0..n : \E f : Picks(f, s, hits, m)}
<1>1. 0 \in S
  <2> DEFINE zero == [i \in 0..0 |-> << >>]
  <2>1. Picks(zero, s, hits, 0)
    BY DEF Picks
  <2>2. QED
    BY <2>1
<1>2. ASSUME NEW m \in 0..(n - 1), m \in S
      PROVE  m + 1 \in S
  <2>1. PICK old : Picks(old, s, hits, m)
    BY <1>2
  <2> DEFINE
    end == IF m + 1 \in hits THEN Append(old[m], s[m + 1]) ELSE old[m]
    new == [i \in 0..(m + 1) |-> IF i = m + 1 THEN end ELSE old[i]]
  <2>2. ASSUME NEW i \in 0..(m + 1)
        PROVE  new[i] = IF i = 0 THEN << >>
                        ELSE IF i \in hits
                             THEN Append(new[i - 1], s[i]) ELSE new[i - 1]
    <3>1. CASE i = m + 1
      <4>1. i - 1 = m /\ i # 0 /\ m \in 0..(m + 1) /\ m # m + 1
        BY <3>1
      <4>2. new[i - 1] = old[m] /\ new[i] = end
        BY <3>1, <4>1
      <4> HIDE DEF new
      <4>3. QED
        BY <3>1, <4>1, <4>2
    <3>2. CASE i # m + 1
      <4>1. i \in 0..m
        BY <3>2
      <4>2. new[i] = old[i]
        BY <3>2
      <4>3. i # 0 => new[i - 1] = old[i - 1]
        BY <4>1
      <4>4. old[i] = IF i = 0 THEN << >>
                     ELSE IF i \in hits
                          THEN Append(old[i - 1], s[i]) ELSE old[i - 1]
        BY <2>1, <4>1 DEF Picks
      <4> HIDE DEF new
      <4>5. QED
        BY <4>2, <4>3, <4>4
    <3>3. QED
      BY <3>1, <3>2
  <2>3. Picks(new, s, hits, m + 1)
    <3>1. new = [i \in 0..(m + 1) |-> new[i]]
      OBVIOUS
    <3> HIDE DEF new
    <3>2. QED
      BY <2>2, <3>1 DEF Picks
  <2>4. QED
    BY <2>3
<1>3. n \in S
  <2> HIDE DEF S
  <2>1. QED
    BY <1>1, <1>2, UpTo
<1>4. QED
  BY <1>3

(* What is picked of s are elements of s.                                  *)
LEMMA PicksTyped ==
  ASSUME NEW S, NEW s \in Seq(S), NEW hits, NEW f, Picks(f, s, hits, Len(s))
  PROVE  \A m \in 0..Len(s) : f[m] \in Seq(S)
<1> DEFINE n == Len(s)
           T == {m \in 0..n : f[m] \in Seq(S)}
<1>1. n \in Nat
  OBVIOUS
<1>2. \A m \in 0..n :
        f[m] = IF m = 0 THEN << >>
               ELSE IF m \in hits THEN Append(f[m - 1], s[m]) ELSE f[m - 1]
  BY DEF Picks
<1>3. 0 \in T
  <2>1. 0 \in 0..n
    BY <1>1
  <2>2. f[0] = << >>
    BY <1>2, <2>1, Zenon
  <2>3. << >> \in Seq(S)
    OBVIOUS
  <2>4. QED
    BY <2>1, <2>2, <2>3
<1>4. ASSUME NEW m \in 0..(n - 1), m \in T
      PROVE  m + 1 \in T
  <2>1. m + 1 \in 0..n /\ m + 1 # 0 /\ (m + 1) - 1 = m /\ m + 1 \in 1..n
    BY <1>1
  <2>2. s[m + 1] \in S
    BY <2>1
  <2>3. f[m + 1] = Append(f[m], s[m + 1]) \/ f[m + 1] = f[m]
    BY <1>2, <2>1
  <2>4. Append(f[m], s[m + 1]) \in Seq(S)
    BY <1>4, <2>2
  <2>5. f[m + 1] \in Seq(S)
    BY <1>4, <2>3, <2>4, Zenon
  <2>6. QED
    BY <2>1, <2>5
<1>5. \A m \in 0..n : m \in T
  <2> HIDE DEF T, n
  <2>1. QED
    BY <1>1, <1>3, <1>4, UpTo
<1>6. QED
  BY <1>5

(* What stands at a place of a sequence is one of its elements.            *)
LEMMA ElementIn ==
  ASSUME NEW S, NEW s \in Seq(S), NEW i \in 1..Len(s)
  PROVE  s[i] \in S
OBVIOUS

(* What is picked of the values that a function has for some elements are  *)
(* the values of what is picked of the elements.                           *)
LEMMA PicksMapped ==
  ASSUME NEW S, NEW V, NEW s \in Seq(S), NEW D, Mapped(s, D) \in Seq(V),
         NEW hits, NEW f, Picks(f, s, hits, Len(s)),
         NEW g, Picks(g, Mapped(s, D), hits, Len(s))
  PROVE  \A m \in 0..Len(s) :
           /\ Len(g[m]) = Len(f[m])
           /\ \A x \in 1..Len(f[m]) : g[m][x] = D[f[m][x]]
<1> PICK n \in Nat : n = Len(s)
  OBVIOUS
<1> PICK t : t = Mapped(s, D)
  OBVIOUS
<1>1. t \in Seq(V) /\ Len(t) = n /\ \A x \in 1..n : t[x] = D[s[x]]
  BY DEF Mapped
<1> DEFINE Same(m) == /\ Len(g[m]) = Len(f[m])
                      /\ \A x \in 1..Len(f[m]) : g[m][x] = D[f[m][x]]
           T == {m \in 0..n : Same(m)}
<1>2. /\ \A m \in 0..n :
           f[m] = IF m = 0 THEN << >>
                  ELSE IF m \in hits THEN Append(f[m - 1], s[m])
                  ELSE f[m - 1]
      /\ \A m \in 0..n :
           g[m] = IF m = 0 THEN << >>
                  ELSE IF m \in hits THEN Append(g[m - 1], t[m])
                  ELSE g[m - 1]
  BY DEF Picks
<1>3. \A m \in 0..n : f[m] \in Seq(S) /\ g[m] \in Seq(V)
  BY <1>1, PicksTyped
<1>4. 0 \in T
  <2>1. 0 \in 0..n
    OBVIOUS
  <2>2. f[0] = << >> /\ g[0] = << >>
    BY <1>2, <2>1, Zenon
  <2>3. QED
    BY <2>1, <2>2
<1>5. ASSUME NEW m \in 0..(n - 1), m \in T
      PROVE  m + 1 \in T
  <2>1. m + 1 \in 0..n /\ m + 1 # 0 /\ (m + 1) - 1 = m /\ m + 1 \in 1..n
        /\ m \in 0..n
    OBVIOUS
  <2>2. Same(m)
    BY <1>5
  <2>3. s[m + 1] \in S /\ t[m + 1] \in V /\ t[m + 1] = D[s[m + 1]]
    <3>1. m + 1 \in 1..Len(s) /\ m + 1 \in 1..Len(t)
      BY <1>1, <2>1
    <3>2. s[m + 1] \in S
      BY <3>1, ElementIn, Zenon
    <3>3. t[m + 1] \in V
      BY <1>1, <3>1, ElementIn, Zenon
    <3>4. QED
      BY <1>1, <2>1, <3>2, <3>3
  <2>4. CASE m + 1 \notin hits
    <3>1. f[m + 1] = f[m] /\ g[m + 1] = g[m]
      BY <1>2, <2>1, <2>4
    <3>2. QED
      BY <2>1, <2>2, <3>1
  <2>5. CASE m + 1 \in hits
    <3>1. /\ f[m + 1] = Append(f[m], s[m + 1])
          /\ g[m + 1] = Append(g[m], t[m + 1])
      BY <1>2, <2>1, <2>5
    <3> PICK u \in Seq(S), w \in Seq(V) : u = f[m] /\ w = g[m]
      BY <1>3, <2>1
    <3> PICK o \in Nat : o = Len(u)
      OBVIOUS
    <3>2. Len(w) = o /\ \A x \in 1..o : w[x] = D[u[x]]
      BY <2>2
    <3>3. /\ Len(Append(u, s[m + 1])) = o + 1
          /\ Len(Append(w, t[m + 1])) = o + 1
          /\ \A x \in 1..o : Append(u, s[m + 1])[x] = u[x]
          /\ \A x \in 1..o : Append(w, t[m + 1])[x] = w[x]
          /\ Append(u, s[m + 1])[o + 1] = s[m + 1]
          /\ Append(w, t[m + 1])[o + 1] = t[m + 1]
      BY <2>3, <3>2, SMTT(30)
    <3>4. \A x \in 1..(o + 1) : x \in 1..o \/ x = o + 1
      OBVIOUS
    <3>5. \A x \in 1..(o + 1) :
            Append(w, t[m + 1])[x] = D[Append(u, s[m + 1])[x]]
      BY <2>3, <3>2, <3>3, <3>4
    <3>6. Same(m + 1)
      BY <3>1, <3>3, <3>5, SMTT(30)
    <3>7. QED
      BY <2>1, <3>6
  <2>6. QED
    BY <2>4, <2>5
<1>6. \A m \in 0..n : m \in T
  <2> HIDE DEF T
  <2>1. QED
    BY <1>4, <1>5, UpTo
<1>7. QED
  BY <1>6

=============================================================================
