----------------------------- MODULE Heap_proofs -----------------------------
(***************************************************************************)
(* What the calls of Heap do, for any elements, keys and sizes.            *)
(* HeapifyUp and HeapifyDown are the same recursion with another way to    *)
(* choose the next index, so one lemma on such recursions serves both.     *)
(***************************************************************************)
EXTENDS Heap, TLAPS, WellFoundedInduction, FiniteSetTheorems,
        SequenceTheorems

(* The vectors of n elements.                                              *)
Arrays(n) == [1..n -> Element]

(* f sifts: it swaps an element with the next one until that is itself.    *)
(* next says which one follows i in the vector b.                          *)
Sifts(n, next, f) ==
  f = [i \in 1..n |-> [b \in Arrays(n) |->
         IF next[i][b] = i THEN b
         ELSE f[next[i][b]][SwapData(b, i, next[i][b])]]]

(* next stays in the vector, and rank, which becomes smaller from index to *)
(* index, bounds the number of its steps.                                  *)
Descends(n, next, rank) ==
  /\ next \in [1..n -> [Arrays(n) -> 1..n]]
  /\ rank \in [1..n -> 0..n]
  /\ \A i \in 1..n, b \in Arrays(n) :
       next[i][b] # i => rank[next[i][b]] < rank[i]

(* A set of numbers that is not empty has a least element.                 *)
LEMMA LeastOf ==
  ASSUME NEW T \in SUBSET Nat, T # {}
  PROVE  \E m \in T : \A k \in T : m <= k
<1>1. PICK R : R = OpToRel(<, Nat)
  OBVIOUS
<1>2. R = {ss \in Nat \X Nat : ss[1] < ss[2]}
  BY <1>1 DEF OpToRel
<1>3. IsWellFoundedOn(R, Nat)
  BY <1>1, NatLessThanWellFounded
<1>4. PICK m \in T : \A k \in T : ~(<<k, m>> \in R)
  BY <1>3, WFMin
<1>5. \A k \in T : ~(k < m)
  BY <1>2, <1>4
<1>6. QED
  BY <1>5

(* Two elements of a vector that change places are a vector again.         *)
LEMMA SwapTyped ==
  ASSUME NEW n \in Nat, NEW b \in Arrays(n), NEW i \in 1..n, NEW j \in 1..n
  PROVE  /\ SwapData(b, i, j) \in Arrays(n)
         /\ SwapData(b, i, j)[i] = b[j]
         /\ SwapData(b, i, j)[j] = b[i]
         /\ \A k \in 1..n \ {i, j} : SwapData(b, i, j)[k] = b[k]
BY DEF SwapData, Arrays

(* One step of a sifting.                                                  *)
LEMMA SiftStep ==
  ASSUME NEW n, NEW next, NEW f, Sifts(n, next, f),
         NEW i \in 1..n, NEW b \in Arrays(n)
  PROVE  f[i][b] = IF next[i][b] = i THEN b
                   ELSE f[next[i][b]][SwapData(b, i, next[i][b])]
<1>1. f[i] = [c \in Arrays(n) |->
                IF next[i][c] = i THEN c
                ELSE f[next[i][c]][SwapData(c, i, next[i][c])]]
  BY DEF Sifts
<1>2. QED
  BY <1>1

(* A sifting from indexes of a rank below m, and a typed one at that.      *)
SiftsBelow(n, next, rank, m, f) ==
  \A i \in 1..n : rank[i] < m =>
    \A b \in Arrays(n) :
      f[i][b] = IF next[i][b] = i THEN b
                ELSE f[next[i][b]][SwapData(b, i, next[i][b])]

(* One more rank: an element that is swapped once is of a lower rank.      *)
LEMMA SiftsOneMore ==
  ASSUME NEW n \in Nat, NEW next, NEW rank, Descends(n, next, rank),
         NEW m \in Nat, NEW f, SiftsBelow(n, next, rank, m, f),
         NEW w,
         w = [i \in 1..n |-> [b \in Arrays(n) |->
                IF next[i][b] = i THEN b
                ELSE f[next[i][b]][SwapData(b, i, next[i][b])]]]
  PROVE  SiftsBelow(n, next, rank, m + 1, w)
<1> SUFFICES ASSUME NEW i \in 1..n, rank[i] < m + 1, NEW b \in Arrays(n)
             PROVE  w[i][b] = IF next[i][b] = i THEN b
                              ELSE w[next[i][b]][SwapData(b, i, next[i][b])]
  BY DEF SiftsBelow
<1>1. w[i][b] = IF next[i][b] = i THEN b
                ELSE f[next[i][b]][SwapData(b, i, next[i][b])]
  OBVIOUS
<1>2. CASE next[i][b] = i
  BY <1>1, <1>2
<1>3. CASE next[i][b] # i
  <2> DEFINE k == next[i][b]
             c == SwapData(b, i, k)
  <2>1. k \in 1..n /\ rank[k] < rank[i] /\ rank[k] \in Int /\ rank[i] \in Int
    BY <1>3 DEF Descends
  <2>2. c \in Arrays(n)
    BY <2>1, SwapTyped
  <2>3. rank[k] < m
    BY <2>1
  <2> HIDE DEF k, c
  <2>4. f[k][c] = IF next[k][c] = k THEN c
                  ELSE f[next[k][c]][SwapData(c, k, next[k][c])]
    BY <2>1, <2>2, <2>3 DEF SiftsBelow
  <2>5. w[k][c] = IF next[k][c] = k THEN c
                  ELSE f[next[k][c]][SwapData(c, k, next[k][c])]
    BY <2>1, <2>2
  <2>6. w[i][b] = f[k][c]
    BY <1>1, <1>3 DEF k, c
  <2>7. w[i][b] = w[k][c]
    BY <2>4, <2>5, <2>6
  <2>8. QED
    BY <2>7, <1>3 DEF k, c
<1>4. QED
  BY <1>2, <1>3

(* A sifting exists.                                                       *)
LEMMA SiftExists ==
  ASSUME NEW n \in Nat, NEW next, NEW rank, Descends(n, next, rank)
  PROVE  \E f : Sifts(n, next, f)
<1> DEFINE Has(m) == \E f : SiftsBelow(n, next, rank, m, f)
<1> DEFINE T == {m \in Nat : ~Has(m)}
<1>1. T = {}
  <2>1. SUFFICES ASSUME T # {}  PROVE FALSE
    OBVIOUS
  <2>2. PICK m \in T : \A k \in T : m <= k
    <3>1. T \in SUBSET Nat
      OBVIOUS
    <3> HIDE DEF T
    <3>2. QED
      BY <2>1, <3>1, LeastOf
  <2>3. m \in Nat /\ ~Has(m)
    OBVIOUS
  <2>4. Has(0)
    <3>1. \A i \in 1..n : ~(rank[i] < 0)
      BY DEF Descends
    <3>2. SiftsBelow(n, next, rank, 0, << >>)
      BY <3>1 DEF SiftsBelow
    <3>3. QED
      BY <3>2
  <2>5. m # 0
    BY <2>3, <2>4
  <2>6. Has(m - 1)
    <3>1. m - 1 \in Nat /\ ~(m <= m - 1)
      BY <2>3, <2>5
    <3> HIDE DEF Has
    <3>2. QED
      BY <2>2, <3>1
  <2>7. PICK f : SiftsBelow(n, next, rank, m - 1, f)
    BY <2>6
  <2>8. SiftsBelow(n, next, rank, (m - 1) + 1,
          [i \in 1..n |-> [b \in Arrays(n) |->
             IF next[i][b] = i THEN b
             ELSE f[next[i][b]][SwapData(b, i, next[i][b])]]])
    <3>1. m - 1 \in Nat
      BY <2>3, <2>5
    <3>2. QED
      BY <2>7, <3>1, SiftsOneMore
  <2>9. (m - 1) + 1 = m
    BY <2>3
  <2>10. Has(m)
    BY <2>8, <2>9
  <2>11. QED
    BY <2>3, <2>10
<1>2. Has(n + 1)
  <2>1. n + 1 \in Nat
    OBVIOUS
  <2> HIDE DEF Has
  <2>2. QED
    BY <1>1, <2>1
<1>3. PICK f : SiftsBelow(n, next, rank, n + 1, f)
  BY <1>2
<1> DEFINE w == [i \in 1..n |-> [b \in Arrays(n) |->
                   IF next[i][b] = i THEN b
                   ELSE f[next[i][b]][SwapData(b, i, next[i][b])]]]
<1>4. SiftsBelow(n, next, rank, (n + 1) + 1, w)
  <2>1. n + 1 \in Nat
    OBVIOUS
  <2>2. QED
    BY <1>3, <2>1, SiftsOneMore
<1>5. \A i \in 1..n : rank[i] < (n + 1) + 1
  BY DEF Descends
<1>6. \A i \in 1..n : \A b \in Arrays(n) :
        w[i][b] = IF next[i][b] = i THEN b
                  ELSE w[next[i][b]][SwapData(b, i, next[i][b])]
  <2> HIDE DEF w
  <2>1. QED
    BY <1>4, <1>5 DEF SiftsBelow
<1>7. w = [i \in 1..n |-> [b \in Arrays(n) |-> w[i][b]]]
  OBVIOUS
<1>8. Sifts(n, next, w)
  <2> HIDE DEF w
  <2>1. [i \in 1..n |-> [b \in Arrays(n) |-> w[i][b]]]
        = [i \in 1..n |-> [b \in Arrays(n) |->
             IF next[i][b] = i THEN b
             ELSE w[next[i][b]][SwapData(b, i, next[i][b])]]]
    BY <1>6
  <2>2. QED
    BY <1>7, <2>1 DEF Sifts
<1>9. QED
  BY <1>8

(* What every swap of a sifting keeps its result has: before[i] are the    *)
(* vectors it may find at index i, after those at which it may stop.       *)
LEMMA SiftKeeps ==
  ASSUME NEW n \in Nat, NEW next, NEW rank, Descends(n, next, rank),
         NEW f, Sifts(n, next, f),
         NEW before, NEW after,
         \A i \in 1..n : before[i] \subseteq Arrays(n),
         \A i \in 1..n : \A b \in before[i] :
           IF next[i][b] = i THEN b \in after
           ELSE SwapData(b, i, next[i][b]) \in before[next[i][b]],
         NEW i \in 1..n, NEW b \in before[i]
  PROVE  f[i][b] \in after
<1> DEFINE Done(m) == \A k \in 1..n : rank[k] = m =>
                        \A c \in before[k] : f[k][c] \in after
<1> DEFINE T == {m \in 0..n : ~Done(m)}
<1>1. T = {}
  <2>1. SUFFICES ASSUME T # {}  PROVE FALSE
    OBVIOUS
  <2>2. PICK m \in T : \A k \in T : m <= k
    <3>1. T \in SUBSET Nat
      OBVIOUS
    <3> HIDE DEF T
    <3>2. QED
      BY <2>1, <3>1, LeastOf
  <2>3. m \in 0..n /\ ~Done(m)
    OBVIOUS
  <2>4. PICK k \in 1..n :
          rank[k] = m /\ \E c \in before[k] : f[k][c] \notin after
    BY <2>3
  <2>5. PICK c \in before[k] : f[k][c] \notin after
    BY <2>4
  <2>6. c \in Arrays(n)
    OBVIOUS
  <2>7. f[k][c] = IF next[k][c] = k THEN c
                  ELSE f[next[k][c]][SwapData(c, k, next[k][c])]
    BY <2>6, SiftStep
  <2>8. next[k][c] # k
    BY <2>5, <2>7
  <2>9. /\ next[k][c] \in 1..n
        /\ rank[next[k][c]] \in 0..n
        /\ rank[next[k][c]] < m
    BY <2>4, <2>6, <2>8 DEF Descends
  <2>10. Done(rank[next[k][c]])
    <3>1. ~(m <= rank[next[k][c]])
      BY <2>3, <2>9
    <3>2. rank[next[k][c]] \notin T
      BY <2>2, <3>1
    <3> HIDE DEF Done
    <3>3. QED
      BY <2>9, <3>2
  <2>11. SwapData(c, k, next[k][c]) \in before[next[k][c]]
    BY <2>8
  <2>12. f[next[k][c]][SwapData(c, k, next[k][c])] \in after
    BY <2>9, <2>10, <2>11
  <2>13. QED
    BY <2>5, <2>7, <2>8, <2>12
<1>2. Done(rank[i])
  <2>1. rank[i] \in 0..n
    BY DEF Descends
  <2> HIDE DEF Done
  <2>2. QED
    BY <1>1, <2>1
<1>3. QED
  BY <1>2

(* What HeapifyUp does next, and HeapifyDown.                              *)
UpNext(n) ==
  [i \in 1..n |-> [b \in Arrays(n) |->
     IF i = 1 \/ 0 >= Cmp(b[i], b[i \div 2]) THEN i ELSE i \div 2]]
DownNext(n) == [i \in 1..n |-> [b \in Arrays(n) |-> BestOfThree(b, i)]]

(* The rank of an index for either.                                        *)
UpRank(n)   == [i \in 1..n |-> i]
DownRank(n) == [i \in 1..n |-> n - i]

(* The parent of an index is a smaller one.                                *)
LEMMA Parent ==
  ASSUME NEW i \in Nat, i > 1
  PROVE  i \div 2 \in 1..i - 1
OBVIOUS

(* HeapifyUp descends, with smaller and smaller indexes.                   *)
LEMMA UpDescends ==
  ASSUME NEW n \in Nat
  PROVE  Descends(n, UpNext(n), UpRank(n))
<1>1. ASSUME NEW i \in 1..n, NEW b \in Arrays(n)
      PROVE  /\ UpNext(n)[i][b] \in 1..n
             /\ UpNext(n)[i][b] # i => UpNext(n)[i][b] < i
  <2>1. CASE UpNext(n)[i][b] = i
    BY <2>1
  <2>2. CASE UpNext(n)[i][b] # i
    <3>1. UpNext(n)[i][b] = i \div 2 /\ i > 1
      BY <2>2 DEF UpNext
    <3>2. i \div 2 \in 1..i - 1
      BY <3>1, Parent
    <3>3. QED
      BY <3>1, <3>2
  <2>3. QED
    BY <2>1, <2>2
<1>2. UpNext(n) \in [1..n -> [Arrays(n) -> 1..n]]
  <2>1. ASSUME NEW i \in 1..n
        PROVE  UpNext(n)[i] \in [Arrays(n) -> 1..n]
    <3>1. UpNext(n)[i] = [b \in Arrays(n) |-> UpNext(n)[i][b]]
      BY DEF UpNext
    <3>2. QED
      BY <1>1, <3>1
  <2>2. UpNext(n) = [i \in 1..n |-> UpNext(n)[i]]
    BY DEF UpNext
  <2>3. QED
    BY <2>1, <2>2
<1>3. /\ UpRank(n) \in [1..n -> 0..n]
      /\ \A i \in 1..n : UpRank(n)[i] = i
  BY DEF UpRank
<1>4. QED
  BY <1>1, <1>2, <1>3 DEF Descends

(* The best of three is an index of the vector and not a smaller one.      *)
LEMMA BestIs ==
  ASSUME NEW n \in Nat, NEW b \in Arrays(n), NEW i \in 1..n
  PROVE  BestOfThree(b, i) \in i..n
<1>1. HPQSize(b) = n
  BY DEF HPQSize, Arrays
<1>2. QED
  BY <1>1 DEF BestOfThree

(* HeapifyDown descends, with larger and larger indexes.                   *)
LEMMA DownDescends ==
  ASSUME NEW n \in Nat
  PROVE  Descends(n, DownNext(n), DownRank(n))
<1>1. ASSUME NEW i \in 1..n, NEW b \in Arrays(n)
      PROVE  DownNext(n)[i][b] \in i..n
  BY <1>1, BestIs DEF DownNext
<1>2. DownNext(n) \in [1..n -> [Arrays(n) -> 1..n]]
  <2>1. ASSUME NEW i \in 1..n
        PROVE  DownNext(n)[i] \in [Arrays(n) -> 1..n]
    <3>1. DownNext(n)[i] = [b \in Arrays(n) |-> DownNext(n)[i][b]]
      BY DEF DownNext
    <3>2. \A b \in Arrays(n) : DownNext(n)[i][b] \in 1..n
      BY <1>1
    <3>3. QED
      BY <3>1, <3>2
  <2>2. DownNext(n) = [i \in 1..n |-> DownNext(n)[i]]
    BY DEF DownNext
  <2>3. QED
    BY <2>1, <2>2
<1>3. /\ DownRank(n) \in [1..n -> 0..n]
      /\ \A i \in 1..n : DownRank(n)[i] = n - i
  BY DEF DownRank
<1>4. \A i \in 1..n, b \in Arrays(n) :
        DownNext(n)[i][b] # i => DownRank(n)[DownNext(n)[i][b]] < DownRank(n)[i]
  <2> TAKE i \in 1..n, b \in Arrays(n)
  <2>1. DownNext(n)[i][b] \in i..n /\ DownNext(n)[i][b] \in 1..n
    BY <1>1
  <2>2. DownRank(n)[DownNext(n)[i][b]] = n - DownNext(n)[i][b]
    BY <1>3, <2>1
  <2>3. QED
    BY <1>3, <2>1, <2>2
<1>5. QED
  BY <1>2, <1>3, <1>4 DEF Descends

(* HeapifyUp is the sifting that it looks like.                            *)
LEMMA UpSifts ==
  ASSUME NEW n \in Nat, NEW a \in Arrays(n), NEW index
  PROVE  \E f : Sifts(n, UpNext(n), f) /\ HeapifyUp(a, index) = f[index][a]
<1> DEFINE Up(f) ==
      f = [i \in DOMAIN a |-> [b \in [DOMAIN a -> Element] |->
             IF i = 1 \/ 0 >= Cmp(b[i], b[i \div 2]) THEN b
             ELSE f[i \div 2][SwapData(b, i, i \div 2)]]]
<1>1. DOMAIN a = 1..n
  BY DEF Arrays
<1>2. ASSUME NEW f  PROVE Up(f) <=> Sifts(n, UpNext(n), f)
  <2>1. ASSUME NEW i \in 1..n, NEW b \in Arrays(n)
        PROVE  (IF i = 1 \/ 0 >= Cmp(b[i], b[i \div 2]) THEN b
                ELSE f[i \div 2][SwapData(b, i, i \div 2)])
               = (IF UpNext(n)[i][b] = i THEN b
                  ELSE f[UpNext(n)[i][b]][SwapData(b, i, UpNext(n)[i][b])])
    <3>1. UpNext(n)[i][b]
          = IF i = 1 \/ 0 >= Cmp(b[i], b[i \div 2]) THEN i ELSE i \div 2
      BY DEF UpNext
    <3>2. i # 1 => i \div 2 # i
      BY Parent
    <3>3. QED
      BY <3>1, <3>2
  <2>2. [i \in 1..n |-> [b \in Arrays(n) |->
           IF i = 1 \/ 0 >= Cmp(b[i], b[i \div 2]) THEN b
           ELSE f[i \div 2][SwapData(b, i, i \div 2)]]]
        = [i \in 1..n |-> [b \in Arrays(n) |->
             IF UpNext(n)[i][b] = i THEN b
             ELSE f[UpNext(n)[i][b]][SwapData(b, i, UpNext(n)[i][b])]]]
    BY <2>1
  <2>3. QED
    BY <1>1, <2>2 DEF Sifts, Arrays
<1>3. PICK g : Sifts(n, UpNext(n), g)
  BY UpDescends, SiftExists
<1>4. Up(CHOOSE f : Up(f))
  <2>1. Up(g)
    BY <1>2, <1>3
  <2> HIDE DEF Up
  <2>2. QED
    BY <2>1
<1>5. HeapifyUp(a, index) = (CHOOSE f : Up(f))[index][a]
  BY DEF HeapifyUp
<1>6. QED
  <2> HIDE DEF Up
  <2>1. QED
    BY <1>2, <1>4, <1>5

(* So is HeapifyDown.                                                      *)
LEMMA DownSifts ==
  ASSUME NEW n \in Nat, NEW a \in Arrays(n), NEW index
  PROVE  \E f : Sifts(n, DownNext(n), f) /\ HeapifyDown(a, index) = f[index][a]
<1> DEFINE Down(f) ==
      f = [i \in DOMAIN a |-> [b \in [DOMAIN a -> Element] |->
             IF BestOfThree(b, i) = i THEN b
             ELSE f[BestOfThree(b, i)][SwapData(b, i, BestOfThree(b, i))]]]
<1>1. DOMAIN a = 1..n
  BY DEF Arrays
<1>2. ASSUME NEW f  PROVE Down(f) <=> Sifts(n, DownNext(n), f)
  <2>1. ASSUME NEW i \in 1..n, NEW b \in Arrays(n)
        PROVE  DownNext(n)[i][b] = BestOfThree(b, i)
    BY DEF DownNext
  <2>2. [i \in 1..n |-> [b \in Arrays(n) |->
           IF BestOfThree(b, i) = i THEN b
           ELSE f[BestOfThree(b, i)][SwapData(b, i, BestOfThree(b, i))]]]
        = [i \in 1..n |-> [b \in Arrays(n) |->
             IF DownNext(n)[i][b] = i THEN b
             ELSE f[DownNext(n)[i][b]][SwapData(b, i, DownNext(n)[i][b])]]]
    BY <2>1
  <2>3. QED
    BY <1>1, <2>2 DEF Sifts, Arrays
<1>3. PICK g : Sifts(n, DownNext(n), g)
  BY DownDescends, SiftExists
<1>4. Down(CHOOSE f : Down(f))
  <2>1. Down(g)
    BY <1>2, <1>3
  <2> HIDE DEF Down
  <2>2. QED
    BY <2>1
<1>5. HeapifyDown(a, index) = (CHOOSE f : Down(f))[index][a]
  BY DEF HeapifyDown
<1>6. QED
  <2> HIDE DEF Down
  <2>1. QED
    BY <1>2, <1>4, <1>5

(* Where x is in s.                                                        *)
Places(s, x) == {i \in DOMAIN s : s[i] = x}

(* What ToBag counts.                                                      *)
LEMMA BagsAgree ==
  ASSUME NEW s, NEW t, Range(s) = Range(t),
         \A x \in Range(s) :
           Cardinality(Places(s, x)) = Cardinality(Places(t, x))
  PROVE  ToBag(s) = ToBag(t)
BY DEF ToBag, Places

(* Two elements that change places do not change the bag.                  *)
LEMMA SwapKeepsBag ==
  ASSUME NEW n \in Nat, NEW b \in Arrays(n), NEW i \in 1..n, NEW j \in 1..n
  PROVE  ToBag(SwapData(b, i, j)) = ToBag(b)
<1> DEFINE c == SwapData(b, i, j)
           p(k) == IF k = i THEN j ELSE IF k = j THEN i ELSE k
<1>1. /\ c \in Arrays(n)
      /\ DOMAIN c = 1..n /\ DOMAIN b = 1..n
      /\ \A k \in 1..n : p(k) \in 1..n /\ p(p(k)) = k /\ c[p(k)] = b[k]
  <2>1. c \in Arrays(n)
    BY SwapTyped
  <2>2. \A k \in 1..n : c[p(k)] = b[k]
    BY SwapTyped, SMTT(30)
  <2>3. QED
    BY <2>1, <2>2 DEF Arrays
<1> HIDE DEF c
<1>2. Range(c) = Range(b)
  <2>1. \A x \in Range(b) : x \in Range(c)
    BY <1>1 DEF Range
  <2>2. \A k \in 1..n : c[k] = b[p(k)]
    BY <1>1
  <2>3. \A x \in Range(c) : x \in Range(b)
    <3> HIDE DEF p
    <3>1. QED
      BY <1>1, <2>2 DEF Range
  <2>4. QED
    BY <2>1, <2>3
<1>3. ASSUME NEW x
      PROVE  Cardinality(Places(c, x)) = Cardinality(Places(b, x))
  <2> DEFINE m == [k \in Places(b, x) |-> p(k)]
  <2>1. IsFiniteSet(Places(b, x))
    <3>1. Places(b, x) \in SUBSET (1..n)
      BY <1>1 DEF Places
    <3>2. IsFiniteSet(1..n)
      BY FS_Interval
    <3>3. QED
      BY <3>1, <3>2, FS_Subset
  <2>2. \A k \in Places(b, x) : p(k) \in Places(c, x)
    <3> HIDE DEF p
    <3>1. QED
      BY <1>1 DEF Places
  <2>3. \A k \in Places(c, x) : p(k) \in Places(b, x) /\ p(p(k)) = k
    <3>1. \A k \in 1..n : c[k] = b[p(k)]
      BY <1>1
    <3> HIDE DEF p
    <3>2. QED
      BY <1>1, <3>1 DEF Places
  <2>4. m \in [Places(b, x) -> Places(c, x)]
    BY <2>2
  <2>5. \A k, l \in Places(b, x) : m[k] = m[l] => k = l
    BY <1>1 DEF Places
  <2>6. \A k \in Places(c, x) : \E l \in Places(b, x) : m[l] = k
    <3> TAKE k \in Places(c, x)
    <3>1. p(k) \in Places(b, x) /\ p(p(k)) = k
      BY <2>3
    <3>2. m[p(k)] = k
      BY <3>1
    <3>3. QED
      BY <3>1, <3>2
  <2> HIDE DEF m
  <2>7. m \in Bijection(Places(b, x), Places(c, x))
    <3>1. DOMAIN m = Places(b, x)
      BY <2>4
    <3>2. IsInjective(m)
      BY <2>5, <3>1 DEF IsInjective
    <3>3. QED
      BY <2>4, <2>6, <3>2 DEF Bijection, Injection, Surjection
  <2>8. ExistsBijection(Places(b, x), Places(c, x))
    BY <2>7 DEF ExistsBijection
  <2>9. QED
    BY <2>1, <2>8, FS_Bijection
<1>4. QED
  BY <1>2, <1>3, BagsAgree DEF c

(* What one more element at the end does to a bag depends on the bag only. *)
LEMMA AppendKeepsBag ==
  ASSUME NEW n \in Nat, NEW a \in Arrays(n), NEW b \in Arrays(n),
         ToBag(a) = ToBag(b), NEW e \in Element
  PROVE  ToBag(Append(a, e)) = ToBag(Append(b, e))
<1>1. /\ a \in Seq(Element) /\ Len(a) = n /\ DOMAIN a = 1..n
      /\ b \in Seq(Element) /\ Len(b) = n /\ DOMAIN b = 1..n
  BY DEF Arrays
<1>2. Range(a) = Range(b)
  <2>1. DOMAIN ToBag(a) = Range(a) /\ DOMAIN ToBag(b) = Range(b)
    BY DEF ToBag
  <2>2. QED
    BY <2>1
<1>3. ASSUME NEW x
      PROVE  Cardinality(Places(a, x)) = Cardinality(Places(b, x))
  <2>1. CASE x \in Range(a)
    <3>1. /\ ToBag(a)[x] = Cardinality(Places(a, x))
          /\ ToBag(b)[x] = Cardinality(Places(b, x))
      BY <1>2, <2>1 DEF ToBag, Places
    <3>2. QED
      BY <3>1
  <2>2. CASE x \notin Range(a)
    <3>1. Places(a, x) = {} /\ Places(b, x) = {}
      BY <1>2, <2>2 DEF Range, Places
    <3>2. QED
      BY <3>1
  <2>3. QED
    BY <2>1, <2>2
<1>4. ASSUME NEW s \in Arrays(n), NEW x
      PROVE  Cardinality(Places(Append(s, e), x))
             = Cardinality(Places(s, x)) + (IF x = e THEN 1 ELSE 0)
  <2>1. /\ DOMAIN s = 1..n /\ s \in Seq(Element) /\ Len(s) = n
        /\ DOMAIN Append(s, e) = 1..n + 1
        /\ Append(s, e)[n + 1] = e
        /\ \A i \in 1..n : Append(s, e)[i] = s[i]
    BY DEF Arrays
  <2>2. IsFiniteSet(Places(s, x)) /\ n + 1 \notin Places(s, x)
    <3>1. Places(s, x) \in SUBSET (1..n)
      BY <2>1 DEF Places
    <3>2. IsFiniteSet(1..n)
      BY FS_Interval
    <3>3. QED
      BY <3>1, <3>2, FS_Subset
  <2>3. CASE x = e
    <3>1. Places(Append(s, e), x) = Places(s, x) \cup {n + 1}
      BY <2>1, <2>3 DEF Places
    <3>2. QED
      BY <2>2, <2>3, <3>1, FS_AddElement
  <2>4. CASE x # e
    <3>1. Places(Append(s, e), x) = Places(s, x)
      BY <2>1, <2>4 DEF Places
    <3>2. Cardinality(Places(s, x)) \in Nat
      BY <2>2, FS_CardinalityType
    <3>3. QED
      BY <2>4, <3>1, <3>2
  <2>5. QED
    BY <2>3, <2>4
<1>5. ASSUME NEW s \in Arrays(n)
      PROVE  Range(Append(s, e)) = Range(s) \cup {e}
  <2>1. /\ DOMAIN s = 1..n /\ s \in Seq(Element) /\ Len(s) = n
        /\ DOMAIN Append(s, e) = 1..n + 1
        /\ Append(s, e)[n + 1] = e
        /\ \A i \in 1..n : Append(s, e)[i] = s[i]
    BY DEF Arrays
  <2>2. QED
    BY <2>1 DEF Range
<1>6. Range(Append(a, e)) = Range(Append(b, e))
  BY <1>2, <1>5
<1>7. \A x : Cardinality(Places(Append(a, e), x))
             = Cardinality(Places(Append(b, e), x))
  BY <1>3, <1>4
<1>8. QED
  BY <1>6, <1>7, BagsAgree

(* HeapifyUp gives a vector of the same elements.                          *)
LEMMA UpKeepsBag ==
  ASSUME NEW n \in Nat, NEW a \in Arrays(n), NEW index \in 1..n
  PROVE  /\ HeapifyUp(a, index) \in Arrays(n)
         /\ ToBag(HeapifyUp(a, index)) = ToBag(a)
<1> DEFINE same == {b \in Arrays(n) : ToBag(b) = ToBag(a)}
           before == [i \in 1..n |-> same]
           next == UpNext(n)
<1>1. PICK f : Sifts(n, next, f) /\ HeapifyUp(a, index) = f[index][a]
  BY UpSifts
<1>2. Descends(n, next, UpRank(n))
  BY UpDescends
<1>3. ASSUME NEW i \in 1..n, NEW b \in same, next[i][b] # i
      PROVE  SwapData(b, i, next[i][b]) \in same /\ next[i][b] \in 1..n
  <2>1. b \in Arrays(n) /\ next[i][b] \in 1..n
    BY <1>2 DEF Descends
  <2>2. QED
    BY <2>1, SwapTyped, SwapKeepsBag, ZenonT(40)
<1>4. a \in before[index]
  OBVIOUS
<1>5. /\ \A i \in 1..n : before[i] \subseteq Arrays(n)
      /\ \A i \in 1..n : before[i] = same
  OBVIOUS
<1> HIDE DEF before, same, next
<1>6. \A i \in 1..n : \A b \in before[i] :
        IF next[i][b] = i THEN b \in same
        ELSE SwapData(b, i, next[i][b]) \in before[next[i][b]]
  BY <1>3, <1>5
<1>7. f[index][a] \in same
  BY <1>1, <1>2, <1>4, <1>5, <1>6, SiftKeeps
<1>8. QED
  BY <1>1, <1>7 DEF same

(* So does HeapifyDown.                                                    *)
LEMMA DownKeepsBag ==
  ASSUME NEW n \in Nat, NEW a \in Arrays(n), NEW index \in 1..n
  PROVE  /\ HeapifyDown(a, index) \in Arrays(n)
         /\ ToBag(HeapifyDown(a, index)) = ToBag(a)
<1> DEFINE same == {b \in Arrays(n) : ToBag(b) = ToBag(a)}
           before == [i \in 1..n |-> same]
           next == DownNext(n)
<1>1. PICK f : Sifts(n, next, f) /\ HeapifyDown(a, index) = f[index][a]
  BY DownSifts
<1>2. Descends(n, next, DownRank(n))
  BY DownDescends
<1>3. ASSUME NEW i \in 1..n, NEW b \in same, next[i][b] # i
      PROVE  SwapData(b, i, next[i][b]) \in same /\ next[i][b] \in 1..n
  <2>1. b \in Arrays(n) /\ next[i][b] \in 1..n
    BY <1>2 DEF Descends
  <2>2. QED
    BY <2>1, SwapTyped, SwapKeepsBag, ZenonT(40)
<1>4. a \in before[index]
  OBVIOUS
<1>5. /\ \A i \in 1..n : before[i] \subseteq Arrays(n)
      /\ \A i \in 1..n : before[i] = same
  OBVIOUS
<1> HIDE DEF before, same, next
<1>6. \A i \in 1..n : \A b \in before[i] :
        IF next[i][b] = i THEN b \in same
        ELSE SwapData(b, i, next[i][b]) \in before[next[i][b]]
  BY <1>3, <1>5
<1>7. f[index][a] \in same
  BY <1>1, <1>2, <1>4, <1>5, <1>6, SiftKeeps
<1>8. QED
  BY <1>1, <1>7 DEF same

(* b is in order but for i, which may belong further up; its children are  *)
(* no reason for that.                                                     *)
OrderBut(b, n, i) ==
  /\ \A j \in 2..n : j # i => Key[b[j]] <= Key[b[j \div 2]]
  /\ i > 1 => \A j \in 2..n : j \div 2 = i => Key[b[j]] <= Key[b[i \div 2]]

(* The order in terms of keys.                                             *)
LEMMA OrderOfKeys ==
  ASSUME NEW n \in Nat, NEW b \in Arrays(n)
  PROVE  HeapOrder(b) <=> \A j \in 2..n : Key[b[j]] <= Key[b[j \div 2]]
<1>1. Len(b) = n
  BY DEF Arrays
<1>2. ASSUME NEW j \in 2..n
      PROVE  Cmp(b[j], b[j \div 2]) <= 0 <=> Key[b[j]] <= Key[b[j \div 2]]
  <2>1. j \in 1..n /\ j \div 2 \in 1..n
    BY Parent
  <2>2. Key[b[j]] \in Int /\ Key[b[j \div 2]] \in Int
    BY <2>1, KeyAssumption DEF Arrays
  <2>3. QED
    BY <2>2 DEF Cmp
<1>3. QED
  BY <1>1, <1>2 DEF HeapOrder

(* A swap with a smaller parent moves the one exception to the parent.     *)
LEMMA SwapMovesException ==
  ASSUME NEW n \in Nat, NEW b \in Arrays(n), NEW i \in 2..n,
         OrderBut(b, n, i), Key[b[i]] > Key[b[i \div 2]]
  PROVE  OrderBut(SwapData(b, i, i \div 2), n, i \div 2)
<1> DEFINE p == i \div 2
           c == SwapData(b, i, p)
           k == [j \in 1..n |-> Key[b[j]]]
           l == [j \in 1..n |-> Key[c[j]]]
<1>1. i \in 1..n /\ i > 1 /\ p \in 1..i - 1 /\ p \in 1..n /\ p # i
  BY Parent
<1>2. k \in [1..n -> Int]
  BY KeyAssumption DEF Arrays
<1>3. /\ l[i] = k[p]
      /\ l[p] = k[i]
      /\ \A j \in 1..n : j # i /\ j # p => l[j] = k[j]
  <2>1. c[i] = b[p] /\ c[p] = b[i] /\ \A j \in 1..n \ {i, p} : c[j] = b[j]
    BY <1>1, SwapTyped
  <2> HIDE DEF c, p
  <2>2. QED
    BY <1>1, <2>1
<1>4. \A j \in 2..n : j \in 1..n /\ j \div 2 \in 1..n /\ j \div 2 # j
  BY Parent
<1>5. /\ \A j \in 2..n : j # i => k[j] <= k[j \div 2]
      /\ \A j \in 2..n : j \div 2 = i => k[j] <= k[p]
      /\ k[i] > k[p]
  BY <1>1, <1>4 DEF OrderBut
<1> HIDE DEF c, k
<1>6. ASSUME NEW j \in 2..n, j # p
      PROVE  l[j] <= l[j \div 2]
  <2> HIDE DEF l, p
  <2>1. j \in 1..n /\ j \div 2 \in 1..n /\ j \div 2 # j
    BY <1>4
  <2>2. k[j] \in Int /\ k[j \div 2] \in Int /\ k[i] \in Int /\ k[p] \in Int
    BY <1>1, <1>2, <2>1
  <2>3. CASE j = i
    <3>1. j \div 2 = p
      BY <2>3 DEF p
    <3>2. QED
      BY <1>3, <1>5, <2>2, <2>3, <3>1
  <2>4. CASE j # i /\ j \div 2 = p
    BY <1>1, <1>3, <1>5, <1>6, <2>1, <2>2, <2>4
  <2>5. CASE j # i /\ j \div 2 = i
    BY <1>1, <1>3, <1>5, <1>6, <2>1, <2>2, <2>5
  <2>6. CASE j # i /\ j \div 2 # p /\ j \div 2 # i
    BY <1>3, <1>5, <1>6, <2>1, <2>6
  <2>7. QED
    BY <2>3, <2>4, <2>5, <2>6
<1>7. ASSUME p > 1, NEW j \in 2..n, j \div 2 = p
      PROVE  l[j] <= l[p \div 2]
  <2>1. p \in 2..n /\ p \div 2 \in 1..p - 1
    BY <1>1, <1>7, Parent
  <2> HIDE DEF l, p
  <2>2. p \div 2 \in 1..n /\ p \div 2 # p /\ p \div 2 # i
    BY <1>1, <2>1
  <2>3. l[p \div 2] = k[p \div 2] /\ k[p] <= k[p \div 2]
    BY <1>1, <1>3, <1>5, <2>1, <2>2
  <2>4. j \in 1..n /\ j # p
    BY <1>4, <1>7
  <2>5. k[j] \in Int /\ k[p] \in Int /\ k[p \div 2] \in Int
    BY <1>1, <1>2, <2>2, <2>4
  <2>6. l[j] <= k[p]
    <3>1. CASE j = i
      BY <1>3, <2>5, <3>1
    <3>2. CASE j # i
      BY <1>3, <1>5, <1>7, <2>4, <3>2
    <3>3. QED
      BY <3>1, <3>2
  <2>7. l[j] \in Int
    BY <1>1, <1>2, <1>3, <2>4
  <2>8. QED
    BY <2>3, <2>5, <2>6, <2>7
<1>8. /\ \A j \in 1..n : l[j] = Key[c[j]]
      /\ p > 1 => p \div 2 \in 1..n
  BY <1>1, Parent
<1>9. OrderBut(c, n, p)
  <2> HIDE DEF l, p
  <2>1. QED
    BY <1>4, <1>6, <1>7, <1>8 DEF OrderBut
<1>10. QED
  BY <1>9 DEF c

(* HeapifyUp from the exception leaves none.                               *)
LEMMA UpOrders ==
  ASSUME NEW n \in Nat, NEW a \in Arrays(n), NEW index \in 1..n,
         OrderBut(a, n, index)
  PROVE  HeapOrder(HeapifyUp(a, index))
<1> DEFINE before == [i \in 1..n |-> {b \in Arrays(n) : OrderBut(b, n, i)}]
           after == {b \in Arrays(n) : HeapOrder(b)}
           next == UpNext(n)
<1>1. PICK f : Sifts(n, next, f) /\ HeapifyUp(a, index) = f[index][a]
  BY UpSifts
<1>2. Descends(n, next, UpRank(n))
  BY UpDescends
<1>3. ASSUME NEW i \in 1..n, NEW b \in before[i]
      PROVE  IF next[i][b] = i THEN b \in after
             ELSE SwapData(b, i, next[i][b]) \in before[next[i][b]]
  <2>1. b \in Arrays(n) /\ OrderBut(b, n, i)
    OBVIOUS
  <2>2. next[i][b]
        = IF i = 1 \/ 0 >= Cmp(b[i], b[i \div 2]) THEN i ELSE i \div 2
    BY <2>1 DEF UpNext
  <2> HIDE DEF next
  <2>3. CASE i = 1
    <3>1. \A j \in 2..n : j # i
      BY <2>3
    <3>2. \A j \in 2..n : Key[b[j]] <= Key[b[j \div 2]]
      BY <2>1, <3>1 DEF OrderBut
    <3>3. HeapOrder(b)
      BY <2>1, <3>2, OrderOfKeys
    <3>4. QED
      BY <2>1, <2>2, <2>3, <3>3
  <2>4. CASE i # 1
    <3>1. i \in 2..n /\ i \div 2 \in 1..n /\ i \div 2 # i
      BY <2>4, Parent
    <3>2. Key[b[i]] \in Int /\ Key[b[i \div 2]] \in Int
      BY <2>1, <3>1, KeyAssumption DEF Arrays
    <3>3. CASE Key[b[i]] <= Key[b[i \div 2]]
      <4>1. \A j \in 2..n : Key[b[j]] <= Key[b[j \div 2]]
        BY <2>1, <3>3 DEF OrderBut
      <4>2. HeapOrder(b)
        BY <2>1, <4>1, OrderOfKeys
      <4>3. next[i][b] = i
        BY <2>2, <3>2, <3>3 DEF Cmp
      <4>4. QED
        BY <2>1, <4>2, <4>3
    <3>4. CASE Key[b[i]] > Key[b[i \div 2]]
      <4>1. next[i][b] = i \div 2
        BY <2>2, <2>4, <3>2, <3>4 DEF Cmp
      <4>2. OrderBut(SwapData(b, i, i \div 2), n, i \div 2)
        BY <2>1, <3>1, <3>4, SwapMovesException
      <4>3. SwapData(b, i, i \div 2) \in Arrays(n)
        BY <2>1, <3>1, SwapTyped
      <4>4. QED
        BY <3>1, <4>1, <4>2, <4>3
    <3>5. QED
      BY <3>2, <3>3, <3>4
  <2>5. QED
    BY <2>3, <2>4
<1>4. a \in before[index] /\ \A i \in 1..n : before[i] \subseteq Arrays(n)
  OBVIOUS
<1> HIDE DEF before, after, next
<1>5. f[index][a] \in after
  BY <1>1, <1>2, <1>3, <1>4, SiftKeeps
<1>6. QED
  BY <1>1, <1>5 DEF after

(* The type of the state.                                                  *)
TypeOK ==
  /\ arr \in Seq(Element)
  /\ aborted \in BOOLEAN

(* A sequence is a vector of its length, and the other way round.          *)
LEMMA ArraysAreSeqs ==
  /\ \A s \in Seq(Element) : Len(s) \in Nat /\ s \in Arrays(Len(s))
  /\ \A n \in Nat : \A b \in Arrays(n) : b \in Seq(Element) /\ Len(b) = n
BY DEF Arrays

(* What is found is in the vector, and matches.                            *)
LEMMA FoundMatches ==
  ASSUME TypeOK, NEW match
  PROVE  /\ Found(match) \in 0..Len(arr)
         /\ Found(match) # 0 => arr[Found(match)] \in match
<1> DEFINE I == {i \in 1..Len(arr) : arr[i] \in match}
<1>1. Found(match) = IF I # {} THEN Min(I) ELSE 0
  BY DEF Found, SelectInSeq
<1>2. Len(arr) \in Nat
  BY DEF TypeOK
<1>3. CASE I = {}
  BY <1>1, <1>2, <1>3
<1>4. CASE I # {}
  <2>1. I \in SUBSET Nat
    BY <1>2
  <2>2. \E m \in I : \A k \in I : m <= k
    <3> HIDE DEF I
    <3>1. QED
      BY <1>4, <2>1, LeastOf
  <2>3. Min(I) \in I
    <3> HIDE DEF I
    <3>1. QED
      BY <2>2 DEF Min
  <2>4. QED
    BY <1>1, <1>2, <1>4, <2>3
<1>5. QED
  BY <1>3, <1>4

(* Once the last element has taken the place of the one at i, the one that *)
(* was at i is all that is missing.                                        *)
LEMMA FilledIs ==
  ASSUME TypeOK, NEW i \in 1..Len(arr)
  PROVE  /\ Len(arr) - 1 \in Nat
         /\ Filled(i) \in Arrays(Len(arr) - 1)
         /\ ToBag(arr) = ToBag(Append(Filled(i), arr[i]))
<1> DEFINE n == Len(arr)
           s == [arr EXCEPT ![i] = arr[n]]
<1>1. n \in Nat /\ n - 1 \in Nat /\ n \in 1..n /\ arr \in Seq(Element)
  BY DEF TypeOK
<1>2. arr \in Arrays(n)
  BY <1>1, ArraysAreSeqs
<1>3. s \in Seq(Element) /\ Len(s) = n /\ s[i] = arr[n]
      /\ \A j \in 1..n : j # i => s[j] = arr[j]
  <2>1. s \in Arrays(n)
    BY <1>1, <1>2 DEF Arrays
  <2>2. s[i] = arr[n] /\ \A j \in 1..n : j # i => s[j] = arr[j]
    BY <1>1, <1>2 DEF Arrays
  <2> HIDE DEF s
  <2>3. QED
    BY <1>1, <2>1, <2>2, ArraysAreSeqs
<1>4. Filled(i) = SubSeq(s, 1, n - 1)
  <2>1. Filled(i) = Front(s)
    BY DEF Filled, Last
  <2> HIDE DEF s
  <2>2. QED
    BY <1>3, <2>1 DEF Front
<1> HIDE DEF s
<1>5. /\ Filled(i) \in Seq(Element)
      /\ Len(Filled(i)) = n - 1
      /\ \A j \in 1..n - 1 : Filled(i)[j] = s[j]
  <2>1. \A j \in 1..n - 1 : s[j] \in Element
    BY <1>1, <1>3
  <2>2. SubSeq(s, 1, n - 1) \in Seq(Element)
        /\ Len(SubSeq(s, 1, n - 1)) = n - 1
        /\ \A j \in 1..n - 1 : SubSeq(s, 1, n - 1)[j] = s[j]
    BY <1>1, <1>3, <2>1
  <2>3. QED
    BY <1>4, <2>2
<1>6. Filled(i) \in Arrays(n - 1)
  BY <1>1, <1>5, ArraysAreSeqs
<1>7. Append(Filled(i), arr[i]) = SwapData(arr, i, n)
  <2> DEFINE t == Append(Filled(i), arr[i])
             c == SwapData(arr, i, n)
  <2>1. arr[i] \in Element
    BY <1>1
  <2>2. /\ t \in Seq(Element) /\ Len(t) = n
        /\ t[n] = arr[i] /\ \A j \in 1..n - 1 : t[j] = Filled(i)[j]
    BY <1>1, <1>5, <2>1
  <2>3. t \in Arrays(n)
    BY <1>1, <2>2, ArraysAreSeqs
  <2>4. /\ c \in Arrays(n)
        /\ c[i] = arr[n] /\ c[n] = arr[i]
        /\ \A j \in 1..n \ {i, n} : c[j] = arr[j]
    BY <1>1, <1>2, SwapTyped
  <2> HIDE DEF t, c
  <2>5. \A j \in 1..n : t[j] = c[j]
    <3> TAKE j \in 1..n
    <3>1. CASE j = n
      BY <2>2, <2>4, <3>1
    <3>2. CASE j # n /\ j = i
      BY <1>1, <1>3, <1>5, <2>2, <2>4, <3>2, SMTT(30)
    <3>3. CASE j # n /\ j # i
      BY <1>1, <1>3, <1>5, <2>2, <2>4, <3>3, SMTT(30)
    <3>4. QED
      BY <3>1, <3>2, <3>3
  <2>6. t = c
    BY <2>3, <2>4, <2>5 DEF Arrays
  <2>7. QED
    BY <2>6 DEF t, c
<1>8. ToBag(SwapData(arr, i, n)) = ToBag(arr)
  BY <1>1, <1>2, SwapKeepsBag
<1>9. QED
  BY <1>1, <1>6, <1>7, <1>8

(* An enqueue: one more element, and the order is kept.                    *)
LEMMA EnqueueDoes ==
  ASSUME TypeOK, NEW e \in Element, HPQEnqueue(e)
  PROVE  /\ arr' \in Seq(Element)
         /\ ToBag(arr') = ToBag(Append(arr, e))
         /\ HeapOrder(arr) => HeapOrder(arr')
<1> DEFINE n == Len(arr) + 1
           a == Append(arr, e)
<1>1. Len(arr) \in Nat /\ n \in Nat /\ n \in 1..n /\ arr \in Seq(Element)
  BY DEF TypeOK
<1>2. /\ a \in Seq(Element) /\ Len(a) = n
      /\ \A j \in 1..Len(arr) : a[j] = arr[j]
  BY <1>1
<1>3. a \in Arrays(n) /\ arr \in Arrays(Len(arr))
  BY <1>1, <1>2, ArraysAreSeqs
<1>4. arr' = HeapifyUp(a, n)
  BY DEF HPQEnqueue
<1> HIDE DEF a
<1>5. arr' \in Arrays(n) /\ ToBag(arr') = ToBag(a)
  BY <1>1, <1>3, <1>4, UpKeepsBag
<1>6. ASSUME HeapOrder(arr)  PROVE HeapOrder(arr')
  <2>1. \A j \in 2..Len(arr) : Key[arr[j]] <= Key[arr[j \div 2]]
    BY <1>1, <1>3, <1>6, OrderOfKeys
  <2>2. ASSUME NEW j \in 2..n
        PROVE  /\ j # n => Key[a[j]] <= Key[a[j \div 2]]
               /\ j \div 2 # n
    <3>1. j \div 2 \in 1..j - 1
      BY Parent
    <3>2. CASE j # n
      <4>1. j \in 2..Len(arr) /\ j \in 1..Len(arr) /\ j \div 2 \in 1..Len(arr)
        BY <1>1, <3>1, <3>2
      <4>2. QED
        BY <1>1, <1>2, <2>1, <3>1, <4>1
    <3>3. QED
      BY <1>1, <3>1, <3>2
  <2>3. OrderBut(a, n, n)
    BY <2>2 DEF OrderBut
  <2>4. QED
    BY <1>1, <1>3, <1>4, <2>3, UpOrders
<1>7. QED
  BY <1>1, <1>5, <1>6, ArraysAreSeqs DEF a

(* A dequeue: what HPQPeek showed is missing.                              *)
LEMMA DequeueDoes ==
  ASSUME TypeOK, HPQDequeue
  PROVE  /\ arr' \in Seq(Element)
         /\ ToBag(arr) = ToBag(Append(arr', HPQPeek))
<1> DEFINE n == Len(arr)
<1>1. n \in Nat /\ n # 0 /\ 1 \in 1..n
  BY DEF TypeOK, HPQDequeue, HPQIsEmpty, HPQSize
<1>2. /\ n - 1 \in Nat
      /\ Filled(1) \in Arrays(n - 1)
      /\ ToBag(arr) = ToBag(Append(Filled(1), arr[1]))
  BY <1>1, FilledIs
<1>3. arr[1] \in Element
  BY <1>1 DEF TypeOK
<1>4. arr' = IF Filled(1) = << >> THEN Filled(1) ELSE HeapifyDown(Filled(1), 1)
  BY DEF HPQDequeue, Filled
<1>5. arr' \in Arrays(n - 1) /\ ToBag(arr') = ToBag(Filled(1))
  <2>1. CASE Filled(1) = << >>
    BY <1>2, <1>4, <2>1
  <2>2. CASE Filled(1) # << >>
    <3>1. Filled(1) \in Seq(Element) /\ Len(Filled(1)) = n - 1
      BY <1>2, ArraysAreSeqs
    <3>2. 1 \in 1..n - 1
      BY <1>1, <2>2, <3>1
    <3>3. QED
      BY <1>2, <1>4, <2>2, <3>2, DownKeepsBag
  <2>3. QED
    BY <2>1, <2>2
<1>6. ToBag(Append(arr', arr[1])) = ToBag(Append(Filled(1), arr[1]))
  BY <1>2, <1>3, <1>5, AppendKeepsBag
<1>7. QED
  BY <1>2, <1>5, <1>6, ArraysAreSeqs DEF HPQPeek

(* A removal: one element that matches is missing.                         *)
LEMMA RemoveDoes ==
  ASSUME TypeOK, NEW match, HPQRemove(match)
  PROVE  /\ arr' \in Seq(Element)
         /\ \E e \in match : ToBag(arr) = ToBag(Append(arr', e))
<1> DEFINE n == Len(arr)
           curr == Found(match)
<1>1. curr \in 0..n /\ curr # 0 /\ arr[curr] \in match /\ n \in Nat
  BY FoundMatches DEF HPQRemove, TypeOK
<1>2. curr \in 1..n
  BY <1>1
<1> HIDE DEF curr
<1>3. /\ n - 1 \in Nat
      /\ Filled(curr) \in Arrays(n - 1)
      /\ ToBag(arr) = ToBag(Append(Filled(curr), arr[curr]))
  BY <1>2, FilledIs
<1>4. Len(Filled(curr)) = n - 1
  BY <1>3, ArraysAreSeqs
<1>5. curr \in 1..n - 1
  BY <1>1, <1>2, <1>3, <1>4 DEF HPQRemove, IndexInBounds, HPQSize, curr
<1> DEFINE up == HeapifyUp(Filled(curr), curr)
<1>6. up \in Arrays(n - 1) /\ ToBag(up) = ToBag(Filled(curr))
  BY <1>3, <1>5, UpKeepsBag
<1>7. arr' = HeapifyDown(up, curr)
  BY DEF HPQRemove, curr
<1> HIDE DEF up
<1>8. arr' \in Arrays(n - 1) /\ ToBag(arr') = ToBag(Filled(curr))
  BY <1>3, <1>5, <1>6, <1>7, DownKeepsBag
<1>9. arr[curr] \in Element
  BY <1>2 DEF TypeOK
<1>10. ToBag(arr) = ToBag(Append(arr', arr[curr]))
  BY <1>3, <1>8, <1>9, AppendKeepsBag
<1>11. QED
  BY <1>1, <1>3, <1>8, <1>10, ArraysAreSeqs

(* A removal that fails its assertion leaves a vector, too.                *)
LEMMA RemoveAssertsDoes ==
  ASSUME TypeOK, NEW match, HPQRemoveAsserts(match)
  PROVE  arr' \in Seq(Element) /\ aborted' = TRUE
<1> DEFINE curr == Found(match)
<1>1. curr \in 0..Len(arr) /\ curr # 0 /\ Len(arr) \in Nat
  BY FoundMatches DEF HPQRemoveAsserts, TypeOK
<1>2. curr \in 1..Len(arr)
  BY <1>1
<1> HIDE DEF curr
<1>3. Len(arr) - 1 \in Nat /\ Filled(curr) \in Arrays(Len(arr) - 1)
  BY <1>2, FilledIs
<1>4. Filled(curr) \in Seq(Element)
  BY <1>3, ArraysAreSeqs
<1>5. QED
  BY <1>4 DEF HPQRemoveAsserts, curr

-----------------------------------------------------------------------------
(* The vector holds pointers to elements and nothing else.                 *)
THEOREM TypeCorrect == Spec => []TypeOK
<1>1. Init => TypeOK
  <2>1. << >> \in Seq(Element)
    OBVIOUS
  <2>2. QED
    BY <2>1 DEF Init, TypeOK
<1>2. TypeOK /\ [Next]_vars => TypeOK'
  <2> SUFFICES ASSUME TypeOK, [Next]_vars  PROVE TypeOK'
    OBVIOUS
  <2>1. CASE \E e \in Element : HPQEnqueue(e)
    BY <2>1, EnqueueDoes DEF TypeOK, HPQEnqueue
  <2>2. CASE HPQDequeue
    BY <2>2, DequeueDoes DEF TypeOK, HPQDequeue
  <2>3. CASE \E match \in SUBSET Element : HPQRemove(match)
    BY <2>3, RemoveDoes DEF TypeOK, HPQRemove
  <2>4. CASE \E match \in SUBSET Element : HPQRemoveAsserts(match)
    BY <2>4, RemoveAssertsDoes DEF TypeOK
  <2>5. CASE UNCHANGED vars
    BY <2>5 DEF TypeOK, vars
  <2>6. QED
    BY <2>1, <2>2, <2>3, <2>4, <2>5 DEF Next
<1>3. QED
  BY <1>1, <1>2, PTL DEF Spec

(* A call of the heap adds or takes one element, the one it says, and      *)
(* loses or doubles no other, whatever it swaps.                           *)
THEOREM TakesWhatItShowsCorrect == Spec => TakesWhatItShows
<1> DEFINE Step ==
      /\ \A e \in Element :
           HPQEnqueue(e) => ToBag(arr') = ToBag(Append(arr, e))
      /\ HPQDequeue => ToBag(arr) = ToBag(Append(arr', HPQPeek))
      /\ \A match \in SUBSET Element : HPQRemove(match) =>
           \E e \in match : ToBag(arr) = ToBag(Append(arr', e))
<1>1. TypeOK => [Step]_vars
  BY EnqueueDoes, DequeueDoes, RemoveDoes
<1>2. Spec => [][Step]_vars
  <2> HIDE DEF Step
  <2>1. QED
    BY <1>1, TypeCorrect, PTL
<1>3. QED
  BY <1>2 DEF TakesWhatItShows

(* HPQEnqueue keeps the order of a heap that is in order, of any size and  *)
(* with equal keys or without.                                             *)
THEOREM EnqueueKeepsOrderCorrect == Spec => EnqueueKeepsOrder
<1> DEFINE Step ==
      \A e \in Element :
        HeapOrder(arr) /\ HPQEnqueue(e) => HeapOrder(arr')
<1>1. TypeOK => [Step]_vars
  BY EnqueueDoes
<1>2. Spec => [][Step]_vars
  <2> HIDE DEF Step
  <2>1. QED
    BY <1>1, TypeCorrect, PTL
<1>3. QED
  BY <1>2 DEF EnqueueKeepsOrder

=============================================================================
