------------------------ MODULE WatchdogMemory_proofs ------------------------
(***************************************************************************)
(* What every step of Watchdog keeps about the memory of the single        *)
(* process: the type of the state (StepTyped) and what its counter, its    *)
(* scheduler's list and its stop flag say of each other (StepCounts).      *)
(* Nothing here relates two processes; that is Watchdog_proofs.            *)
(*                                                                         *)
(* First the arguments that client and WD hand to each other through exec: *)
(* what Atoi, ItoaIMP and CreateArgv compute, for every number and every   *)
(* vector.  The two conversions are recursive functions; what they compute *)
(* is proved by taking the least counterexample.                           *)
(***************************************************************************)
EXTENDS WatchdogInvariant, TLAPS, WellFoundedInduction, SequenceTheorems

(* A set of numbers that is not empty has a least element. Used in place   *)
(* of an induction: the least number for which a claim fails is not 0, and *)
(* the claim holds for the numbers below it.                               *)
LEMMA NatMin ==
  ASSUME NEW T \in SUBSET Nat, T # {}
  PROVE  \E m \in T : \A k \in T : m <= k
<1>1. PICK R : R = OpToRel(<, Nat)
  OBVIOUS
<1>2. R = {ss \in Nat \X Nat : ss[1] < ss[2]}
  BY <1>1 DEF OpToRel
<1>3. IsWellFoundedOn(R, Nat)
  BY <1>1, NatLessThanWellFounded
<1>4. PICK m \in T : \A k \in T : ~(<<k, m>> \in R)
  BY <1>3, WFMin
<1>5. \A k \in T : ~(k < m)
  BY <1>2, <1>4
<1>6. QED
  BY <1>5

(* v is the function that Atoi chooses for s, for the first n digits.      *)
ValueUpTo(s, n, v) ==
  v = [i \in 0..n |-> IF i = 0 THEN 0 ELSE 10 * v[i - 1] + s[i]]

(* The function that Atoi chooses exists, for every sequence of digits.    *)
LEMMA ValueExists ==
  ASSUME NEW s \in Seq(Nat)
  PROVE  \E v \in [0..Len(s) -> Nat] : ValueUpTo(s, Len(s), v)
<1> DEFINE Has(n) == \E v \in [0..n -> Nat] : ValueUpTo(s, n, v)
<1> DEFINE T == {n \in 0..Len(s) : ~Has(n)}
<1>1. Len(s) \in Nat
  OBVIOUS
<1>2. SUFFICES ASSUME T # {}  PROVE FALSE
  BY <1>1
<1>3. PICK m \in T : \A k \in T : m <= k
  <2>1. T \in SUBSET Nat
    BY <1>1
  <2> HIDE DEF T
  <2>2. QED
    BY <1>2, <2>1, NatMin
<1>4. m \in 0..Len(s) /\ m \in Nat /\ ~Has(m)
  BY <1>1
<1>5. m # 0
  <2> DEFINE zero == [i \in 0..0 |-> 0]
  <2>1. zero \in [0..0 -> Nat] /\ ValueUpTo(s, 0, zero)
    BY DEF ValueUpTo
  <2>2. QED
    BY <2>1, <1>4
<1>6. Has(m - 1)
  <2>1. m - 1 \in 0..Len(s) /\ ~(m <= m - 1)
    BY <1>1, <1>4, <1>5
  <2> HIDE DEF Has
  <2>2. QED
    BY <1>3, <2>1
<1>7. PICK v \in [0..(m - 1) -> Nat] : ValueUpTo(s, m - 1, v)
  BY <1>6
<1> DEFINE w == [i \in 0..m |->
                   IF i = m THEN 10 * v[m - 1] + s[m] ELSE v[i]]
<1>8. w \in [0..m -> Nat]
  BY <1>1, <1>4, <1>5
<1>9. \A i \in 0..m : w[i] = IF i = 0 THEN 0 ELSE 10 * w[i - 1] + s[i]
  <2>1. \A i \in 0..(m - 1) : v[i] = IF i = 0 THEN 0 ELSE 10 * v[i - 1] + s[i]
    BY <1>7 DEF ValueUpTo
  <2>2. w[m] = 10 * w[m - 1] + s[m]
    BY <1>4, <1>5
  <2>3. \A i \in 0..(m - 1) : w[i] = v[i]
    BY <1>4
  <2>4. \A i \in 1..(m - 1) : w[i - 1] = v[i - 1]
    BY <1>4
  <2> HIDE DEF w
  <2>5. ASSUME NEW i \in 0..m
        PROVE  w[i] = IF i = 0 THEN 0 ELSE 10 * w[i - 1] + s[i]
    <3>1. CASE i = m
      BY <1>5, <2>2, <3>1
    <3>2. CASE i # m
      <4>1. i \in 0..(m - 1) /\ (i # 0 => i \in 1..(m - 1))
        BY <1>4, <3>2
      <4>2. w[i] = v[i] /\ (i # 0 => w[i - 1] = v[i - 1])
        BY <2>3, <2>4, <4>1
      <4>3. v[i] = IF i = 0 THEN 0 ELSE 10 * v[i - 1] + s[i]
        BY <2>1, <4>1
      <4>4. QED
        BY <4>2, <4>3
    <3>3. QED
      BY <3>1, <3>2
  <2>6. QED
    BY <2>5
<1>10. ValueUpTo(s, m, w)
  BY <1>9 DEF ValueUpTo
<1>11. QED
  BY <1>8, <1>10, <1>4

(* s and t have the same first n elements.                                 *)
Same(n, s, t) == \A i \in 1..n : s[i] = t[i]

(* Two such functions agree as far as their sequences do.                  *)
LEMMA ValueAgrees ==
  ASSUME NEW s, NEW t, NEW v, NEW u, NEW n \in Nat, NEW k \in Nat,
         n <= k, ValueUpTo(s, n, v), ValueUpTo(t, k, u), Same(n, s, t)
  PROVE  v[n] = u[n]
<1> SUFFICES \A i \in 0..n : v[i] = u[i]
  OBVIOUS
<1> DEFINE T == {i \in 0..n : v[i] # u[i]}
<1>1. SUFFICES ASSUME T # {}  PROVE FALSE
  OBVIOUS
<1>2. PICK m \in T : \A i \in T : m <= i
  <2>1. T \in SUBSET Nat
    OBVIOUS
  <2> HIDE DEF T
  <2>2. QED
    BY <1>1, <2>1, NatMin
<1>3. m \in 0..n /\ v[m] # u[m]
  OBVIOUS
<1>4. v[0] = 0 /\ u[0] = 0
  BY DEF ValueUpTo
<1>5. m - 1 \in 0..n /\ m - 1 \notin T
  BY <1>2, <1>3, <1>4
<1>6. v[m - 1] = u[m - 1]
  BY <1>5
<1>7. /\ v[m] = 10 * v[m - 1] + s[m]
      /\ u[m] = 10 * u[m - 1] + t[m]
      /\ s[m] = t[m]
  BY <1>3, <1>4 DEF ValueUpTo, Same
<1>8. QED
  BY <1>3, <1>6, <1>7

(* Atoi is the last value of such a function.                              *)
LEMMA AtoiValue ==
  ASSUME NEW s \in Seq(Nat)
  PROVE  \E v \in [0..Len(s) -> Nat] :
           ValueUpTo(s, Len(s), v) /\ Atoi(s) = v[Len(s)]
<1> DEFINE value == CHOOSE v : ValueUpTo(s, Len(s), v)
<1>1. Atoi(s) = value[Len(s)]
  BY DEF Atoi, ValueUpTo
<1>2. PICK v \in [0..Len(s) -> Nat] : ValueUpTo(s, Len(s), v)
  BY ValueExists
<1>3. ValueUpTo(s, Len(s), value)
  BY <1>2
<1>4. Len(s) \in Nat
  OBVIOUS
<1> HIDE DEF value
<1>5. Same(Len(s), s, s)
  BY DEF Same
<1>6. value[Len(s)] = v[Len(s)]
  BY <1>2, <1>3, <1>4, <1>5, ValueAgrees
<1>7. QED
  BY <1>1, <1>2, <1>6

(* What one more digit at the end does to the number that Atoi reads.      *)
LEMMA AtoiAppend ==
  ASSUME NEW s \in Seq(Nat), NEW d \in Nat
  PROVE  Atoi(s) \in Nat /\ Atoi(Append(s, d)) = 10 * Atoi(s) + d
<1>1. PICK t : t = Append(s, d)
  OBVIOUS
<1>2. /\ t \in Seq(Nat)
      /\ Len(t) = Len(s) + 1
      /\ t[Len(s) + 1] = d
      /\ Len(s) \in Nat
  BY <1>1
<1>3. Same(Len(s), s, t)
  BY <1>1 DEF Same
<1>4. PICK v \in [0..Len(s) -> Nat] :
        ValueUpTo(s, Len(s), v) /\ Atoi(s) = v[Len(s)]
  BY AtoiValue
<1>5. PICK u \in [0..Len(t) -> Nat] :
        ValueUpTo(t, Len(t), u) /\ Atoi(t) = u[Len(t)]
  BY <1>2, AtoiValue
<1>6. v[Len(s)] = u[Len(s)]
  <2>1. Len(t) \in Nat /\ Len(s) <= Len(t)
    BY <1>2
  <2>2. QED
    BY <2>1, <1>2, <1>3, <1>4, <1>5, ValueAgrees
<1>7. u[Len(t)] = 10 * u[Len(s)] + d
  BY <1>2, <1>5 DEF ValueUpTo
<1>8. QED
  BY <1>1, <1>2, <1>4, <1>5, <1>6, <1>7

(* Atoi reads 0 where there is no digit.                                   *)
LEMMA AtoiEmpty == Atoi(<< >>) = 0
<1>1. << >> \in Seq(Nat) /\ Len(<< >>) = 0
  OBVIOUS
<1>2. PICK v \in [0..0 -> Nat] : ValueUpTo(<< >>, 0, v) /\ Atoi(<< >>) = v[0]
  BY <1>1, AtoiValue
<1>3. v[0] = 0
  BY <1>2 DEF ValueUpTo
<1>4. QED
  BY <1>2, <1>3

(* g is the function that ItoaIMP chooses, for the numbers up to N.        *)
DigitsUpTo(N, g) ==
  g = [n \in 0..N |->
        IF n = 0 THEN << >> ELSE Append(g[n \div 10], n % 10)]

(* The function that ItoaIMP chooses exists, for every number.             *)
LEMMA DigitsExist ==
  ASSUME NEW N \in Nat
  PROVE  \E g : DigitsUpTo(N, g)
<1> DEFINE Has(n) == \E g : DigitsUpTo(n, g)
<1> DEFINE T == {n \in 0..N : ~Has(n)}
<1>1. SUFFICES ASSUME T # {}  PROVE FALSE
  OBVIOUS
<1>2. PICK m \in T : \A k \in T : m <= k
  <2>1. T \in SUBSET Nat
    OBVIOUS
  <2> HIDE DEF T
  <2>2. QED
    BY <1>1, <2>1, NatMin
<1>3. m \in 0..N /\ m \in Nat /\ ~Has(m)
  OBVIOUS
<1>4. m # 0
  <2> DEFINE zero == [i \in 0..0 |-> << >>]
  <2>1. DigitsUpTo(0, zero)
    BY DEF DigitsUpTo
  <2>2. QED
    BY <2>1, <1>3
<1>5. Has(m - 1)
  <2>1. m - 1 \in 0..N /\ ~(m <= m - 1)
    BY <1>3, <1>4
  <2> HIDE DEF Has
  <2>2. QED
    BY <1>2, <2>1
<1>6. PICK g : DigitsUpTo(m - 1, g)
  BY <1>5
<1> DEFINE h == [n \in 0..m |->
                   IF n = m THEN Append(g[m \div 10], m % 10) ELSE g[n]]
<1>7. \A n \in 1..m : n \div 10 \in 0..(n - 1)
  BY <1>3
<1>8. \A n \in 0..m : h[n] =
        IF n = 0 THEN << >> ELSE Append(h[n \div 10], n % 10)
  <2> SUFFICES ASSUME NEW n \in 0..m
               PROVE  h[n] = IF n = 0 THEN << >>
                             ELSE Append(h[n \div 10], n % 10)
    OBVIOUS
  <2>1. CASE n = 0
    BY <2>1, <1>3, <1>4, <1>6 DEF DigitsUpTo
  <2>2. CASE n # 0
    <3>1. n \div 10 \in 0..(m - 1) /\ n \div 10 # m
      BY <2>2, <1>3, <1>7
    <3>2. h[n \div 10] = g[n \div 10]
      BY <3>1, <1>3
    <3>3. CASE n = m
      BY <3>2, <3>3, <1>4
    <3>4. CASE n # m
      <4>1. n \in 0..(m - 1)
        BY <3>4, <1>3
      <4>2. g[n] = Append(g[n \div 10], n % 10)
        BY <4>1, <2>2, <1>6 DEF DigitsUpTo
      <4>3. QED
        BY <4>2, <3>2, <3>4, <2>2
    <3>5. QED
      BY <3>3, <3>4
  <2>3. QED
    BY <2>1, <2>2
<1>9. DigitsUpTo(m, h)
  BY <1>8 DEF DigitsUpTo
<1>10. QED
  BY <1>9, <1>3

(* Atoi reads back every number that ItoaIMP writes: a number on the       *)
(* command line survives the conversion to decimal digits and back         *)
(* (watchdog.c:419-443).                                                   *)
THEOREM AtoiOfItoa ==
  \A num \in Nat : ItoaIMP(num) \in Seq(0..9) /\ Atoi(ItoaIMP(num)) = num
<1> SUFFICES ASSUME NEW N \in Nat
             PROVE  ItoaIMP(N) \in Seq(0..9) /\ Atoi(ItoaIMP(N)) = N
  OBVIOUS
<1> DEFINE g == CHOOSE f : DigitsUpTo(N, f)
<1>1. ItoaIMP(N) = g[N]
  BY DEF ItoaIMP, DigitsUpTo
<1>2. DigitsUpTo(N, g)
  BY DigitsExist
<1> HIDE DEF g
<1> DEFINE Good(n) == g[n] \in Seq(0..9) /\ Atoi(g[n]) = n
<1> DEFINE T == {n \in 0..N : ~Good(n)}
<1>3. SUFFICES ASSUME T # {}  PROVE FALSE
  BY <1>1
<1>4. PICK m \in T : \A k \in T : m <= k
  <2>1. T \in SUBSET Nat
    OBVIOUS
  <2> HIDE DEF T
  <2>2. QED
    BY <1>3, <2>1, NatMin
<1>5. m \in 0..N /\ m \in Nat /\ ~Good(m)
  OBVIOUS
<1>6. g[0] = << >>
  BY <1>2 DEF DigitsUpTo
<1>7. m # 0
  <2>1. Good(0)
    BY <1>6, AtoiEmpty
  <2>2. QED
    BY <2>1, <1>5
<1>8. Good(m \div 10)
  <2>1. m \div 10 \in 0..N /\ ~(m <= m \div 10)
    BY <1>5, <1>7
  <2> HIDE DEF Good
  <2>2. QED
    BY <1>4, <2>1
<1>9. g[m] = Append(g[m \div 10], m % 10)
  BY <1>2, <1>5, <1>7 DEF DigitsUpTo
<1>10. m % 10 \in 0..9 /\ m = 10 * (m \div 10) + (m % 10)
  BY <1>5
<1> DEFINE rest == g[m \div 10]
           last == m % 10
<1>11. rest \in Seq(0..9) /\ Atoi(rest) = m \div 10 /\ g[m] = Append(rest, last)
  BY <1>8, <1>9
<1>12. last \in 0..9 /\ last \in Nat /\ m = 10 * (m \div 10) + last
  BY <1>10
<1> HIDE DEF rest, last
<1>13. g[m] \in Seq(0..9)
  BY <1>11, <1>12
<1>14. Atoi(g[m]) = m
  <2>1. rest \in Seq(Nat)
    BY <1>11
  <2>2. Atoi(Append(rest, last)) = 10 * Atoi(rest) + last
    BY <2>1, <1>12, AtoiAppend
  <2>3. QED
    BY <2>2, <1>11, <1>12
<1>15. QED
  BY <1>5, <1>13, <1>14

(* What CreateArgv puts in front of the client's arguments is read back by *)
(* the WD as the numbers that went in, and what follows them is the        *)
(* client's vector (watchdog.c:352-403, watchdog_app.c:57-64).             *)
LEMMA CreateArgvProperties ==
  ASSUME NEW argv \in Seq(Arg)
  PROVE  /\ CreateArgv(argv) \in Seq(Arg)
         /\ Atoi(CreateArgv(argv)[2]) = Seconds
         /\ Atoi(CreateArgv(argv)[3]) = MaxMissed
         /\ Atoi(CreateArgv(argv)[4]) = Len(argv)
         /\ SubSeq(CreateArgv(argv), 5, Len(CreateArgv(argv))) = argv
<1>1. Seconds \in Nat /\ MaxMissed \in Nat /\ Len(argv) \in Nat
  <2>1. Len(argv) \in Nat
    BY LenProperties
  <2>2. MaxMissed \in Nat
    BY MaxMissedAssumption
  <2>3. Seconds \in Nat
    BY SecondsAssumption
  <2>4. QED
    BY <2>1, <2>2, <2>3
<1>2. PICK a, b, c : a = ItoaIMP(Seconds) /\ b = ItoaIMP(MaxMissed)
                     /\ c = ItoaIMP(Len(argv))
  OBVIOUS
<1>3. Atoi(a) = Seconds /\ Atoi(b) = MaxMissed /\ Atoi(c) = Len(argv)
  BY <1>1, <1>2, AtoiOfItoa
<1>4. WdPath \in Arg /\ a \in Arg /\ b \in Arg /\ c \in Arg
  BY <1>1, <1>2, AtoiOfItoa DEF Arg
<1> DEFINE own == <<WdPath, a, b, c>>
           wd  == CreateArgv(argv)
<1>5. wd = own \o argv
  BY <1>2 DEF CreateArgv
<1>6. own \in Seq(Arg) /\ Len(own) = 4
  BY <1>4
<1>7. own[2] = a /\ own[3] = b /\ own[4] = c
  OBVIOUS
<1> HIDE DEF own, wd
<1>8. /\ wd \in Seq(Arg)
      /\ Len(wd) = 4 + Len(argv)
      /\ \A i \in 1..4 + Len(argv) :
           wd[i] = IF i <= 4 THEN own[i] ELSE argv[i - 4]
  <2>1. own \o argv \in Seq(Arg)
    BY <1>6, ConcatProperties
  <2>2. Len(own \o argv) = Len(own) + Len(argv)
    BY <1>6, ConcatProperties, Zenon
  <2>3. \A i \in 1..Len(own) + Len(argv) :
           (own \o argv)[i] =
             IF i <= Len(own) THEN own[i] ELSE argv[i - Len(own)]
    BY <1>6, ConcatProperties, Zenon
  <2>4. QED
    BY <1>5, <1>6, <2>1, <2>2, <2>3
<1>9. wd[2] = a /\ wd[3] = b /\ wd[4] = c
  BY <1>1, <1>7, <1>8
<1>10. SubSeq(wd, 5, Len(wd)) = argv
  <2> DEFINE rest == SubSeq(wd, 5, Len(wd))
  <2>1. 5 \in Int /\ Len(wd) \in Int /\ \A i \in 5..Len(wd) : wd[i] \in Arg
    BY <1>1, <1>8, ElementOfSeq
  <2>2. /\ rest \in Seq(Arg)
        /\ Len(rest) = IF 5 <= Len(wd) THEN Len(wd) - 5 + 1 ELSE 0
        /\ \A i \in 1..Len(wd) - 5 + 1 : rest[i] = wd[5 + i - 1]
    BY <2>1, SubSeqProperties
  <2> HIDE DEF rest
  <2>3. Len(rest) = Len(argv)
    BY <1>1, <1>8, <2>2
  <2>4. \A i \in 1..Len(rest) : rest[i] = argv[i]
    BY <1>1, <1>8, <2>2, <2>3
  <2>5. rest = argv
    BY <2>2, <2>3, <2>4, SeqEqual
  <2>6. QED
    BY <2>5 DEF rest
<1>11. QED
  BY <1>3, <1>8, <1>9, <1>10 DEF wd

-----------------------------------------------------------------------------
(* What Watchdog's own constants and handlers make of argument vectors:    *)
(* they stay argument vectors, and CreateArgv adds to the client's four    *)
(* that the program of the WD takes off again.                             *)
LEMMA ArgVectors ==
  /\ << >> \in ArgVector
  /\ ClientArgv \in ArgVector
  /\ \A s \in ArgVector : CreateArgv(s) \in ArgVector
  /\ \A s \in ArgVector : SubSeq(s, 5, Len(s)) \in ArgVector
  /\ SubSeq(CreateArgv(ClientArgv), 5, Len(CreateArgv(ClientArgv))) = ClientArgv
  /\ Atoi(CreateArgv(ClientArgv)[3]) = MaxMissed
<1>1. << >> \in Seq(Arg)
  OBVIOUS
<1>2. ClientArgv \in Seq(Arg)
  <2>1. {ClientArgv[i] : i \in DOMAIN ClientArgv} \subseteq Arg
    BY DEF Arg
  <2> HIDE DEF Arg
  <2>2. QED
    BY <2>1, ArgvAssumption, SeqMonotonic
<1>3. ASSUME NEW s \in Seq(Arg)
      PROVE  SubSeq(s, 5, Len(s)) \in Seq(Arg)
  <2>1. Len(s) \in Int /\ \A i \in 5..Len(s) : s[i] \in Arg
    BY ElementOfSeq, LenProperties
  <2>2. QED
    BY <2>1, SubSeqProperties
<1>4. QED
  BY <1>1, <1>2, <1>3, CreateArgvProperties DEF ArgVector

(* The first state has the right type.                                     *)
LEMMA InitTyped == Init => TypeOK
<1> SUFFICES ASSUME Init PROVE TypeOK
  OBVIOUS
<1> USE DEF Init
<1>1. stage \in [Pid -> Stage]
  BY DEF Stage, AppStage, AppBoot
<1>2. /\ Fresh \in Memory
      /\ \A s \in ArgVector : WithArgs(s) \in Memory
  BY ArgVectors DEF Memory, Fresh, WithArgs, Target
<1>3. mem \in [Pid -> Memory]
  BY <1>2, ArgVectors
<1>4. \A p \in Pid : mem[p].todo = {} /\ mem[p].sched = {}
  BY DEF WithArgs, Fresh
<1>5. QED
  BY <1>1, <1>3, <1>4, BoundsAssumption DEF TypeOK, Target

(* The memories that exec, MakeMeImmortal and the handler of SIGUSR1 leave *)
(* behind have the right type.                                             *)
LEMMA MemoryTyped ==
  /\ Fresh \in Memory
  /\ \A s \in ArgVector : WithArgs(s) \in Memory
  /\ \A m \in Memory, b \in BOOLEAN :
       [m EXCEPT !.misses = 0, !.answered = b] \in Memory
  /\ \A s \in ArgVector, b \in BOOLEAN :
       [WithArgs(s) EXCEPT !.stop = b] \in Memory
BY ArgVectors DEF Memory, Fresh, WithArgs, Target

(* Whatever fields of a process's memory its tasks write, the memory keeps *)
(* its type. Stated once because the prover finds it at once with m a      *)
(* constant and not at all with m the value of mem at p.                   *)
LEMMA MemoryUpdated ==
  ASSUME NEW m \in Memory
  PROVE  /\ \A n \in Nat, s \in SUBSET Task :
              [m EXCEPT !.misses = n, !.sched = s] \in Memory
         /\ \A t \in Target, s \in SUBSET Task :
              [m EXCEPT !.target = t, !.sched = s] \in Memory
         /\ \A s, d \in SUBSET Task :
              [m EXCEPT !.sched = s, !.todo = d] \in Memory
         /\ \A d \in SUBSET Task : [m EXCEPT !.todo = d] \in Memory
         /\ \A d \in SUBSET Task, n \in Nat :
              [m EXCEPT !.todo = d, !.misses = n] \in Memory
         /\ \A b \in BOOLEAN : [m EXCEPT !.stop = b] \in Memory
BY DEF Memory

(* Every step keeps the type. The counts are needed because two tasks      *)
(* replace the scheduler's list of a process that has none: with tasks     *)
(* left in todo they would point outside it.                               *)
LEMMA StepTyped == TypeOK /\ Counting /\ [Next]_vars => TypeOK'
<1> SUFFICES ASSUME TypeOK, Counting, [Next]_vars
             PROVE  TypeOK'
  OBVIOUS
<1> USE DEF TypeOK, kernel, signals, bounds
<1>1. ASSUME NEW p \in Pid, HandleUser1(p) PROVE TypeOK'
  <2> DEFINE b == (stage[p] \in AppStage \ {"app_unblocked"})
  <2>1. b \in BOOLEAN
    BY SMT
  <2>2. mem' = [mem EXCEPT ![p] = [mem[p] EXCEPT !.misses = 0, !.answered = b]]
    BY <1>1 DEF HandleUser1
  <2> HIDE DEF b
  <2>3. mem' \in [Pid -> Memory]
    BY <2>1, <2>2, MemoryTyped
  <2>4. \A q \in Pid : mem'[q].todo \subseteq mem'[q].sched
    BY <2>2 DEF Memory
  <2>5. QED
    BY <1>1, <2>3, <2>4 DEF HandleUser1
<1>2. ASSUME NEW p \in Pid, NEW at, MakeMeImmortal(p, at) PROVE TypeOK'
  <2>1. PICK m : m = [WithArgs(mem[p].argv) EXCEPT !.stop = mem[p].stop]
    OBVIOUS
  <2>2. mem' = [mem EXCEPT ![p] = m]
    BY <1>2, <2>1 DEF MakeMeImmortal
  <2>3. mem[p].argv \in ArgVector /\ mem[p].stop \in BOOLEAN
    BY DEF Memory
  <2>4. m \in Memory
    BY <2>1, <2>3, MemoryTyped
  <2>5. m.todo = {}
    BY <2>1 DEF WithArgs, Fresh
  <2>6. /\ mem' \in [Pid -> Memory]
        /\ \A q \in Pid : mem'[q].todo \subseteq mem'[q].sched
    BY <2>2, <2>4, <2>5
  <2>7. stage' \in [Pid -> Stage]
    BY <1>2 DEF MakeMeImmortal, Stage, AppStage, AppBoot
  <2>8. QED
    BY <1>2, <2>6, <2>7 DEF MakeMeImmortal
<1>3. ASSUME NEW p \in Pid, Die(p), UNCHANGED <<forkfails, turn>>,
             crashes' \in 0..MaxCrashes
      PROVE  TypeOK'
  <2>1. /\ mem' \in [Pid -> Memory]
        /\ \A q \in Pid : mem'[q].todo \subseteq mem'[q].sched
    BY <1>3, MemoryTyped DEF Die, Fresh
  <2>2. stage' \in [Pid -> Stage]
    BY <1>3 DEF Die, Stage
  <2>3. sending' \in [Pid -> Target]
    BY <1>3 DEF Die, Target
  <2>4. QED
    BY <1>3, <2>1, <2>2, <2>3 DEF Die
<1>4. ASSUME NEW p \in Pid,
             DieOfUser1(p) \/ DieOfUser2(p) \/ HelloFindsInit(p)
               \/ ThreadExits(p) \/ WaitInterrupted(p)
      PROVE  TypeOK'
  BY <1>3, <1>4 DEF DieOfUser1, DieOfUser2, HelloFindsInit, ThreadExits,
                    WaitInterrupted
<1>5. ASSUME NEW p \in Pid, Crash(p) PROVE TypeOK'
  BY <1>3, <1>5, BoundsAssumption DEF Crash
<1>6. ASSUME NEW p \in Pid,
             BlockAllExceptUser(p) \/ SetInitialSH(p) \/ SetHandlers(p)
               \/ WaitFindsNoChild(p)
      PROVE  TypeOK'
  BY <1>6 DEF BlockAllExceptUser, SetInitialSH, SetHandlers,
              WaitFindsNoChild, At, Stage, AppStage, AppBoot, WdStage
<1>7. ASSUME NEW p \in Pid, RunScheduler(p) PROVE TypeOK'
  <2>1. [mem[p] EXCEPT !.misses = MaxMissed, !.sched = {"REVIVE"}] \in Memory
    <3>1. MaxMissed \in Nat /\ {"REVIVE"} \in SUBSET Task
      BY MaxMissedAssumption DEF Task
    <3>2. QED
      BY <3>1, MemoryUpdated
  <2>2. mem' = [mem EXCEPT ![p] =
                  [mem[p] EXCEPT !.misses = MaxMissed, !.sched = {"REVIVE"}]]
    BY <1>7 DEF RunScheduler
  <2>3. mem[p].todo = {}
    BY <1>7 DEF Counting, Counts, Resting, AppBoot, RunScheduler, At, Stands
  <2>4. QED
    BY <1>7, <2>1, <2>2, <2>3 DEF RunScheduler, At, Stage, AppStage, Memory
<1>8. ASSUME NEW p \in Pid, NEW at \in Stage, NEW argv \in ArgVector,
             Exec(p, at, argv), UNCHANGED bounds
      PROVE  TypeOK'
  <2>1. WithArgs(argv) \in Memory /\ WithArgs(argv).todo = {}
    BY MemoryTyped DEF WithArgs, Fresh
  <2>2. QED
    BY <1>8, <2>1 DEF Exec
<1>9. ASSUME NEW p \in Pid,
             ChildExecs(p) \/ SendFindsNobody(p) \/ HelloFindsNobody(p)
               \/ ReviveClient(p)
      PROVE  TypeOK'
  <2>1. CreateArgv(mem[p].argv) \in ArgVector /\ ClientArgs(p) \in ArgVector
    BY ArgVectors DEF Memory, ClientArgs
  <2>2. "app_exec" \in Stage /\ "wd_exec" \in Stage
    BY DEF Stage, AppStage, AppBoot, WdStage
  <2>3. QED
    BY <1>8, <1>9, <2>1, <2>2
       DEF ChildExecs, SendFindsNobody, HelloFindsNobody, ReviveClient
<1>10. ASSUME NEW p \in Pid, TargetParent(p) PROVE TypeOK'
  <2> DEFINE m == [mem[p] EXCEPT !.target = parent[p], !.sched = Monitoring]
  <2>1. m \in Memory
    <3>1. parent[p] \in Target /\ Monitoring \in SUBSET Task
      BY DEF Target, Monitoring, Task
    <3>2. QED
      BY <3>1, MemoryUpdated
  <2>2. mem' = [mem EXCEPT ![p] = m]
    BY <1>10 DEF TargetParent
  <2>3. mem[p].todo = {}
    BY <1>10 DEF Counting, Counts, Resting, TargetParent, At, Stands
  <2>4. QED
    BY <1>10, <2>1, <2>2, <2>3 DEF TargetParent, At, Stage, WdStage, Memory
<1>11. ASSUME NEW p \in Pid, Hello(p) PROVE TypeOK'
  BY <1>11 DEF Hello, SendUser1, Stage, WdStage
<1>12. ASSUME NEW p \in Pid, Round(p) PROVE TypeOK'
  BY <1>12, BoundsAssumption DEF Round, Memory
<1>13. ASSUME NEW p \in Pid, NEW receivers, NEW to \in Stage, NEW m \in Memory,
              m.todo \subseteq m.sched, SendUser2(p, receivers, to, m),
              UNCHANGED bounds
       PROVE  TypeOK'
  <2>1. Fresh \in Memory /\ Fresh.todo = {} /\ "dying" \in Stage
    BY MemoryTyped DEF Fresh, Stage
  <2>2. sending' \in [Pid -> Target]
    BY <1>13 DEF SendUser2, Memory
  <2>3. QED
    BY <1>13, <2>1, <2>2 DEF SendUser2
<1>14. ASSUME NEW p \in Pid, NEW task \in Task, WatchdogStop(p, task)
       PROVE  TypeOK'
  <2> DEFINE m == [mem[p] EXCEPT !.sched = {}, !.todo = {}]
  <2>1. m \in Memory /\ m.todo = {} /\ "app_reap" \in Stage
    BY DEF Memory, Stage, AppStage
  <2> HIDE DEF m
  <2>2. SendUser2(p, StopRequest(p), "app_reap", m) /\ UNCHANGED bounds
    BY <1>14 DEF WatchdogStop, m
  <2>3. QED
    BY <1>13, <2>1, <2>2
<1>15. ASSUME NEW p \in Pid, NEW task \in Task, StopFails(p, task)
       PROVE  TypeOK'
  <2> DEFINE sched == mem[p].sched \ {task}
             todo  == mem[p].todo \ {task}
             m     == [mem[p] EXCEPT !.sched = sched, !.todo = todo]
  <2>1. m \in Memory
    <3>1. /\ mem[p] \in Memory
          /\ sched \in SUBSET Task /\ todo \in SUBSET Task
      BY DEF Memory
    <3>2. QED
      BY <3>1, MemoryUpdated
  <2>2. m.todo \subseteq m.sched
    BY DEF Memory
  <2>3. mem' = [mem EXCEPT ![p] = m]
    BY <1>15 DEF StopFails
  <2> HIDE DEF m
  <2>4. /\ mem' \in [Pid -> Memory]
        /\ \A q \in Pid : mem'[q].todo \subseteq mem'[q].sched
    BY <2>1, <2>2, <2>3
  <2>5. stage' \in [Pid -> Stage]
    BY <1>15 DEF StopFails, Stage, AppStage
  <2>6. QED
    BY <1>15, <2>4, <2>5 DEF StopFails
<1>16. ASSUME NEW p \in Pid, NEW task, mem' = Done(p, task),
              stage' \in [Pid -> Stage], UNCHANGED <<parent, signals, bounds>>
       PROVE  TypeOK'
  <2>1. mem' = [mem EXCEPT ![p] = [mem[p] EXCEPT !.todo = mem[p].todo \ {task}]]
    BY <1>16 DEF Done
  <2>2. [mem[p] EXCEPT !.todo = mem[p].todo \ {task}] \in Memory
    <3>1. mem[p] \in Memory /\ mem[p].todo \ {task} \in SUBSET Task
      BY DEF Memory
    <3>2. QED
      BY <3>1, MemoryUpdated
  <2>3. mem' \in [Pid -> Memory]
    BY <2>1, <2>2
  <2>4. \A q \in Pid : mem'[q].todo \subseteq mem'[q].sched
    BY <2>1 DEF Memory
  <2>5. QED
    BY <1>16, <2>3, <2>4
<1>17. ASSUME NEW p \in Pid, Alright(p) \/ WdIsLate(p) PROVE TypeOK'
  BY <1>16, <1>17 DEF Alright, WdIsLate, Stage, AppStage
<1>18. ASSUME NEW p \in Pid, IncCntTSK(p) PROVE TypeOK'
  <2> DEFINE todo == mem[p].todo \ {"INC"}
             m    == [mem[p] EXCEPT !.todo = todo, !.misses = mem[p].misses + 1]
  <2>1. mem' = [mem EXCEPT ![p] = m]
    BY <1>18 DEF IncCntTSK, Done
  <2>2. m \in Memory
    <3>1. mem[p] \in Memory /\ todo \in SUBSET Task /\ mem[p].misses + 1 \in Nat
      BY DEF Memory
    <3>2. QED
      BY <3>1, MemoryUpdated
  <2>3. m.todo \subseteq m.sched
    BY DEF Memory
  <2> HIDE DEF m
  <2>4. QED
    BY <1>18, <2>1, <2>2, <2>3 DEF IncCntTSK
<1>19. ASSUME NEW p \in Pid, SendSignal1TSK(p) PROVE TypeOK'
  BY <1>19 DEF SendSignal1TSK, SendUser1, Done, Memory
<1>20. ASSUME NEW p \in Pid, Suspects(p) PROVE TypeOK'
  BY <1>20 DEF Suspects, Stage, AppStage, WdStage
<1>21. ASSUME NEW p \in Pid, KillTarget(p) PROVE TypeOK'
  <2>1. AfterKill[stage[p]] \in Stage
    BY <1>21 DEF KillTarget, Stands, AfterKill, Stage, AppStage, WdStage
  <2>2. mem[p] \in Memory /\ mem[p].todo \subseteq mem[p].sched
    OBVIOUS
  <2>3. SendUser2(p, User2Receivers(mem[p].target), AfterKill[stage[p]], mem[p])
          /\ UNCHANGED bounds
    BY <1>21 DEF KillTarget
  <2> HIDE DEF TypeOK
  <2>4. QED
    BY <1>13, <2>1, <2>2, <2>3
<1>22. ASSUME NEW p \in Pid, StartMonitoring(p) PROVE TypeOK'
  <2> DEFINE m == [mem[p] EXCEPT !.sched = Monitoring, !.todo = {}]
  <2>1. m \in Memory
    BY MemoryUpdated DEF Monitoring, Task
  <2>2. m.todo = {}
    BY DEF Memory
  <2>3. mem' = [mem EXCEPT ![p] = m]
    BY <1>22 DEF StartMonitoring
  <2> HIDE DEF m
  <2>4. QED
    BY <1>22, <2>1, <2>2, <2>3 DEF StartMonitoring
<1>23. ASSUME NEW p \in Pid, DoNotResuscitate(p) PROVE TypeOK'
  <2> DEFINE m == [mem[p] EXCEPT !.stop = TRUE]
  <2>1. m \in Memory
    BY MemoryUpdated
  <2>2. m.todo \subseteq m.sched
    BY DEF Memory
  <2>3. mem' = [mem EXCEPT ![p] = m]
    BY <1>23 DEF DoNotResuscitate
  <2> HIDE DEF m
  <2>4. QED
    BY <1>23, <2>1, <2>2, <2>3 DEF DoNotResuscitate
<1>24. ASSUME NEW p \in Pid, ThreadReturns(p) PROVE TypeOK'
  BY <1>24 DEF ThreadReturns, Reaped, Stage, AppStage
<1>25. ASSUME NEW p \in Pid, NEW q \in Pid,
              ReviveWatchdog(p, q) \/ WaitReforks(p, q)
       PROVE  TypeOK'
  <2>1. /\ parent' \in [Pid -> Pid \cup {InitPid}]
        /\ UNCHANGED <<signals, bounds>>
    BY <1>25 DEF ReviveWatchdog, WaitReforks, Fork
  <2>2. stage' \in [Pid -> Stage]
    BY <1>25 DEF ReviveWatchdog, WaitReforks, Fork, Reaped, Stage, AppStage,
                 WdStage
  <2>3. /\ mem' \in [Pid -> Memory]
        /\ \A r \in Pid : mem'[r].todo \subseteq mem'[r].sched
    BY <1>25 DEF ReviveWatchdog, WaitReforks, Copied, Waiting, Memory, Target,
                 Task
  <2>4. QED
    BY <2>1, <2>2, <2>3
<1>26. ASSUME NEW p \in Pid, ReviveWatchdogFails(p) \/ WaitForkFails(p)
       PROVE  TypeOK'
  <2>1. /\ forkfails' \in 0..MaxForkFails
        /\ UNCHANGED <<parent, signals, crashes, turn>>
    BY <1>26, BoundsAssumption DEF ReviveWatchdogFails, WaitForkFails, ForkFails
  <2>2. stage' \in [Pid -> Stage]
    BY <1>26 DEF ReviveWatchdogFails, WaitForkFails, ForkFails, Reaped, Stage,
                 AppStage
  <2>3. /\ mem' \in [Pid -> Memory]
        /\ \A r \in Pid : mem'[r].todo \subseteq mem'[r].sched
    BY <1>26 DEF ReviveWatchdogFails, WaitForkFails, Waiting, Memory, Target,
                 TargetAfterFailedFork, Task
  <2>4. QED
    BY <2>1, <2>2, <2>3
<1>27. ASSUME NEW p \in Pid, LastSignal(p) PROVE TypeOK'
  BY <1>27 DEF LastSignal, SendUser1, Target
<1>28. CASE UNCHANGED vars
  BY <1>28 DEF vars
<1> HIDE DEF TypeOK
<1>29. QED
  BY <1>1, <1>4, <1>2, <1>5, <1>6, <1>7, <1>9, <1>10, <1>11, <1>12, <1>14,
     <1>15, <1>17, <1>18, <1>19, <1>20, <1>21, <1>22, <1>24, <1>23, <1>25,
     <1>26, <1>27, <1>28, Zenon
     DEF Next, TakeSignal, Start, RunTask, Choice

(* The frame of the counts: if the process that moves keeps its own, then  *)
(* everybody does, since what a step does to the others is to kill, to     *)
(* reap or to make a copy of one that counts nothing.                      *)
LEMMA CountsKept ==
  ASSUME Counting, NEW p \in Pid,
         Counts(stage'[p], mem'[p]),
         \A q \in Pid \ {p} :
           \/ stage'[q] = stage[q] /\ mem'[q] = mem[q]
           \/ stage'[q] \in {"dying"} /\ mem'[q] = Fresh
           \/ stage[q] = "zombie" /\ stage'[q] = "free" /\ mem'[q] = mem[q]
           \/ /\ stage[q] \in {"free", "zombie"}
              /\ stage'[q] = "child"
              /\ mem'[q] = [mem[q] EXCEPT !.argv = mem[p].argv]
  PROVE  Counting'
<1>1. Counts("dying", Fresh)
  BY MaxMissedAssumption DEF Counts, Resting, Fresh, Running, Bounded, WdStage
<1>2. \A m : Counts("zombie", m) => Counts("free", m)
  BY DEF Counts, Resting, Running, WdStage
<1>3. ASSUME NEW m, NEW argv, NEW at \in {"free", "zombie"}, Counts(at, m)
      PROVE  Counts("child", [m EXCEPT !.argv = argv])
  BY <1>3 DEF Counts, Resting, Running, WdStage
<1>4. ASSUME NEW q \in Pid PROVE Counts(stage'[q], mem'[q])
  <2>1. Counts(stage[q], mem[q])
    BY DEF Counting
  <2>2. CASE q = p
    BY <2>2
  <2>3. CASE stage'[q] = stage[q] /\ mem'[q] = mem[q]
    BY <2>1, <2>3
  <2>4. CASE stage'[q] = "dying" /\ mem'[q] = Fresh
    BY <1>1, <2>4
  <2>5. CASE stage[q] = "zombie" /\ stage'[q] = "free" /\ mem'[q] = mem[q]
    BY <1>2, <2>1, <2>5
  <2>6. CASE /\ stage[q] \in {"free", "zombie"}
             /\ stage'[q] = "child"
             /\ mem'[q] = [mem[q] EXCEPT !.argv = mem[p].argv]
    BY <1>3, <2>1, <2>6
  <2>7. QED
    BY <2>2, <2>3, <2>4, <2>5, <2>6
<1>5. QED
  BY <1>4 DEF Counting

(* A process that dies leaves a memory that counts nothing.                *)
LEMMA DieCounts ==
  ASSUME TypeOK, Counting, NEW p \in Pid, Die(p)
  PROVE  Counting'
<1>1. Counts("free", Fresh) /\ Counts("zombie", Fresh)
  BY MaxMissedAssumption DEF Counts, Resting, Fresh, Running, WdStage
<1>2. Counts(stage'[p], mem'[p])
  <2>1. stage'[p] \in {"free", "zombie"} /\ mem'[p] = Fresh
    BY DEF Die, TypeOK
  <2>2. QED
    BY <1>1, <2>1
<1>3. \A q \in Pid \ {p} :
        \/ stage'[q] = stage[q] /\ mem'[q] = mem[q]
        \/ stage[q] = "zombie" /\ stage'[q] = "free" /\ mem'[q] = mem[q]
  BY DEF Die
<1>4. QED
  BY <1>2, <1>3, CountsKept

(* A program that is started anew has counted nothing.                     *)
LEMMA ExecCounts ==
  ASSUME TypeOK, Counting, NEW p \in Pid, NEW at \in {"app_exec", "wd_exec"},
         NEW argv, Exec(p, at, argv)
  PROVE  Counting'
<1>1. Counts(at, WithArgs(argv))
  BY MaxMissedAssumption
     DEF Counts, Resting, AppBoot, Fresh, WithArgs, Running, WdStage
<1>2. Counts(stage'[p], mem'[p])
  BY <1>1 DEF Exec, TypeOK
<1>3. \A q \in Pid \ {p} : stage'[q] = stage[q] /\ mem'[q] = mem[q]
  BY DEF Exec, TypeOK
<1>4. QED
  BY <1>2, <1>3, CountsKept

(* Every step keeps the counts: the counter is raised once a round only,   *)
(* after the round's REVIVE found it below the limit, and no task starts   *)
(* after one that stops the run.                                           *)
LEMMA StepCounts == TypeOK /\ Counting /\ Args /\ [Next]_vars => Counting'
<1> SUFFICES ASSUME TypeOK, Counting, Args, [Next]_vars
             PROVE  Counting'
  OBVIOUS
<1>1. ASSUME NEW p \in Pid, Counts(stage'[p], mem'[p]),
             \A q \in Pid \ {p} : stage'[q] = stage[q] /\ mem'[q] = mem[q]
      PROVE  Counting'
  BY <1>1, CountsKept
<1>2. \A p \in Pid : /\ Counts(stage[p], mem[p])
                     /\ mem[p] \in Memory
                     /\ mem[p].todo \subseteq mem[p].sched
  BY DEF Counting, TypeOK
<1>3. ASSUME NEW p \in Pid, HandleUser1(p) PROVE Counting'
  <2>1. \A q \in Pid \ {p} : stage'[q] = stage[q] /\ mem'[q] = mem[q]
    BY <1>3 DEF HandleUser1, TypeOK
  <2>2. /\ stage'[p] = stage[p]
        /\ mem'[p].misses = 0
        /\ mem'[p].sched = mem[p].sched /\ mem'[p].todo = mem[p].todo
        /\ mem'[p].stop = mem[p].stop /\ mem'[p].target = mem[p].target
    BY <1>3 DEF HandleUser1, TypeOK, Memory
  <2>3. Counts(stage'[p], mem'[p])
    BY <1>2, <2>2, MaxMissedAssumption DEF Counts, Bounded
  <2>4. QED
    BY <1>1, <2>1, <2>3
<1>4. ASSUME NEW p \in Pid,
             DieOfUser1(p) \/ DieOfUser2(p) \/ HelloFindsInit(p)
               \/ ThreadExits(p) \/ WaitInterrupted(p) \/ Crash(p)
      PROVE  Counting'
  BY <1>4, DieCounts
     DEF DieOfUser1, DieOfUser2, HelloFindsInit, ThreadExits, WaitInterrupted,
         Crash
<1>5. ASSUME NEW p \in Pid, NEW at, MakeMeImmortal(p, at) PROVE Counting'
  <2>1. \A q \in Pid \ {p} : stage'[q] = stage[q] /\ mem'[q] = mem[q]
    BY <1>5 DEF MakeMeImmortal, TypeOK
  <2>2. /\ stage'[p] = "app_blocked"
        /\ mem'[p].misses = 0 /\ mem'[p].sched = {} /\ mem'[p].todo = {}
    BY <1>5 DEF MakeMeImmortal, TypeOK, WithArgs, Fresh
  <2>3. Counts(stage'[p], mem'[p])
    BY <2>2, MaxMissedAssumption DEF Counts, Running, WdStage
  <2>4. QED
    BY <1>1, <2>1, <2>3
<1>6. ASSUME NEW p \in Pid,
             BlockAllExceptUser(p) \/ SetInitialSH(p) \/ SetHandlers(p)
               \/ WaitFindsNoChild(p)
      PROVE  Counting'
  <2>1. \A q \in Pid \ {p} : stage'[q] = stage[q] /\ mem'[q] = mem[q]
    BY <1>6 DEF BlockAllExceptUser, SetInitialSH, SetHandlers,
              WaitFindsNoChild, At, TypeOK
  <2>2. mem'[p] = mem[p] /\ <<stage[p], stage'[p]>> \in
          {<<"app_blocked", "app_unblocked">>,
           <<"app_unblocked", "app_handler">>, <<"wd_exec", "wd_boot">>,
           <<"app_wait", "app_run">>}
    BY <1>6 DEF BlockAllExceptUser, SetInitialSH, SetHandlers,
              WaitFindsNoChild, At, TypeOK, Stands
  <2>3. Counts(stage'[p], mem'[p])
    BY <1>2, <2>2 DEF Counts, Resting, AppBoot, Running, WdStage, Bounded
  <2>4. QED
    BY <1>1, <2>1, <2>3
<1>7. ASSUME NEW p \in Pid, RunScheduler(p) PROVE Counting'
  <2>1. \A q \in Pid \ {p} : stage'[q] = stage[q] /\ mem'[q] = mem[q]
    BY <1>7 DEF RunScheduler, At, TypeOK
  <2>2. /\ stage'[p] = "app_run"
        /\ mem'[p].misses = MaxMissed /\ mem'[p].sched = {"REVIVE"}
        /\ mem'[p].todo = {}
    BY <1>2, <1>7
       DEF RunScheduler, At, TypeOK, Stands, Memory, Counts, Resting, AppBoot
  <2>3. Counts(stage'[p], mem'[p])
    BY <2>2, MaxMissedAssumption
       DEF Counts, Resting, AppBoot, Running, WdStage, Bounded
  <2>4. QED
    BY <1>1, <2>1, <2>3
<1>8. ASSUME NEW p \in Pid,
             ChildExecs(p) \/ SendFindsNobody(p) \/ HelloFindsNobody(p)
               \/ ReviveClient(p)
      PROVE  Counting'
  BY <1>8, ExecCounts
     DEF ChildExecs, SendFindsNobody, HelloFindsNobody, ReviveClient
<1>9. ASSUME NEW p \in Pid, TargetParent(p) PROVE Counting'
  <2>1. \A q \in Pid \ {p} : stage'[q] = stage[q] /\ mem'[q] = mem[q]
    BY <1>9 DEF TargetParent, At, TypeOK
  <2>2. /\ stage'[p] = "wd_hello"
        /\ mem'[p].sched = Monitoring
        /\ mem'[p].misses = 0 /\ mem'[p].todo = {} /\ ~mem'[p].stop
        /\ mem'[p].target = parent[p]
    BY <1>2, <1>9 DEF TargetParent, At, TypeOK, Stands, Memory, Counts,
                      Resting, WdStage
  <2>3. parent[p] # NoPid
    BY PidAssumption DEF TypeOK
  <2>4. Counts(stage'[p], mem'[p])
    BY <2>2, <2>3, MaxMissedAssumption
       DEF Counts, Resting, AppBoot, Bounded, WdStage
  <2>5. QED
    BY <1>1, <2>1, <2>4
<1>10. ASSUME NEW p \in Pid, Hello(p) \/ Suspects(p) \/ ThreadReturns(p)
      PROVE  Counting'
  <2>1. \A q \in Pid \ {p} :
          \/ stage'[q] = stage[q] /\ mem'[q] = mem[q]
          \/ stage[q] = "zombie" /\ stage'[q] = "free" /\ mem'[q] = mem[q]
    BY <1>10 DEF Hello, Suspects, ThreadReturns, Reaped, Reapable, WaitedFor,
                Children, TypeOK
  <2>2. /\ mem'[p] = mem[p]
        /\ <<stage[p], stage'[p]>> \in
             {<<"wd_hello", "wd_run">>, <<"app_run", "app_suspect">>,
              <<"wd_run", "wd_suspect">>, <<"app_reap", "app_done">>}
    BY <1>10 DEF Hello, Suspects, ThreadReturns, Reaped, Reapable, WaitedFor,
                Children, TypeOK, Stands, Goes, Due, Running
  <2>3. Counts(stage'[p], mem'[p])
    BY <1>2, <2>2 DEF Counts, Resting, AppBoot, Running, WdStage, Bounded
  <2>4. QED
    BY <2>1, <2>3, CountsKept
<1>11. ASSUME NEW p \in Pid, Round(p) PROVE Counting'
  <2>1. \A q \in Pid \ {p} : stage'[q] = stage[q] /\ mem'[q] = mem[q]
    BY <1>11 DEF Round, kernel, TypeOK
  <2>2. /\ stage'[p] = stage[p] /\ stage[p] \in Running
        /\ mem'[p].sched = mem[p].sched /\ mem'[p].todo = mem[p].sched
        /\ mem'[p].misses = mem[p].misses /\ mem'[p].stop = mem[p].stop
        /\ mem[p].todo = {} /\ mem'[p].target = mem[p].target
    BY <1>11 DEF Round, kernel, TypeOK, Memory, Stands
  <2>3. Counts(stage'[p], mem'[p])
    BY <1>2, <2>2
       DEF Counts, Bounded, Running, Monitoring, Resting, AppBoot, WdStage
  <2>4. QED
    BY <1>1, <2>1, <2>3
<1>12. ASSUME NEW p \in Pid, NEW receivers, NEW to, NEW m,
             SendUser2(p, receivers, to, m), Counts(to, m)
      PROVE  Counting'
  <2>1. stage'[p] = to /\ mem'[p] = m
    BY <1>12 DEF SendUser2
  <2>2. \A q \in Pid \ {p} :
          \/ stage'[q] = stage[q] /\ mem'[q] = mem[q]
          \/ stage'[q] = "dying" /\ mem'[q] = Fresh
    BY <1>12 DEF SendUser2
  <2>3. Counts(stage'[p], mem'[p])
    BY <1>12, <2>1
  <2>4. QED
    BY <2>2, <2>3, CountsKept
<1>13. ASSUME NEW p \in Pid, NEW task \in Task, WatchdogStop(p, task)
       PROVE  Counting'
  <2> DEFINE m == [mem[p] EXCEPT !.sched = {}, !.todo = {}]
  <2>1. /\ m.misses = mem[p].misses /\ m.stop = mem[p].stop
        /\ m.sched = {} /\ m.todo = {}
    BY <1>2 DEF Memory
  <2>2. SendUser2(p, StopRequest(p), "app_reap", m)
    BY <1>13 DEF WatchdogStop
  <2> HIDE DEF m
  <2>3. Counts("app_reap", m)
    BY <1>2, <2>1 DEF Counts, Running, Resting, AppBoot, WdStage
  <2>4. QED
    BY <1>12, <2>2, <2>3
<1>14. ASSUME NEW p \in Pid, NEW task \in Task, StopFails(p, task)
       PROVE  Counting'
  <2>1. \A q \in Pid \ {p} : stage'[q] = stage[q] /\ mem'[q] = mem[q]
    BY <1>14 DEF StopFails, TypeOK
  <2>2. /\ stage'[p] \in {stage[p], "app_reap"}
        /\ stage[p] \in Running
        /\ mem'[p].misses = mem[p].misses
        /\ mem[p].stop /\ mem'[p].stop
    BY <1>14 DEF StopFails, Due, Stands, TypeOK, Memory
  <2>3. Counts(stage'[p], mem'[p])
    BY <1>2, <2>2 DEF Counts, Running, Resting, AppBoot, WdStage
  <2>4. QED
    BY <1>1, <2>1, <2>3
<1>15. ASSUME NEW p \in Pid, NEW task, Goes(p, task), mem' = Done(p, task)
       PROVE  /\ \A q \in Pid \ {p} : mem'[q] = mem[q]
              /\ mem'[p].misses = mem[p].misses /\ ~mem'[p].stop
              /\ mem'[p].sched = mem[p].sched
              /\ mem'[p].todo = mem[p].todo \ {task}
              /\ mem'[p].target = mem[p].target
              /\ task \in mem[p].todo /\ stage[p] \in Running /\ ~mem[p].stop
  BY <1>2, <1>15 DEF Goes, Due, Stands, Done, TypeOK, Memory
<1>16. ASSUME NEW p \in Pid, SendSignal1TSK(p) PROVE Counting'
  <2>1. mem' = Done(p, "SEND") /\ Goes(p, "SEND") /\ stage' = stage
    BY <1>16 DEF SendSignal1TSK
  <2>2. Counts(stage'[p], mem'[p])
    BY <1>2, <1>15, <2>1
       DEF Counts, Bounded, Running, Resting, AppBoot, WdStage
  <2>3. QED
    BY <1>1, <1>15, <2>1, <2>2
<1>17. ASSUME NEW p \in Pid, Alright(p) PROVE Counting'
  <2>1. /\ mem' = Done(p, "REVIVE") /\ Goes(p, "REVIVE") /\ stage' = stage
        /\ ~Missing(p)
    BY <1>17 DEF Alright, kernel
  <2>2. Limit(p) = MaxMissed
    <3>1. stage[p] \in AppStage \/ stage[p] = "wd_run"
      BY <1>15, <2>1 DEF Running, AppStage
    <3>2. stage[p] = "wd_run" => mem[p].argv = CreateArgv(ClientArgv)
      BY DEF Args, WdStage
    <3>3. QED
      BY <3>1, <3>2, ArgVectors DEF Limit
  <2>3. mem[p].misses < MaxMissed
    BY <1>2, <2>1, <2>2, MaxMissedAssumption DEF Missing, Memory
  <2>4. Counts(stage'[p], mem'[p])
    BY <1>2, <1>15, <2>1, <2>3, MaxMissedAssumption
       DEF Counts, Bounded, Running, Resting, AppBoot, WdStage, Memory
  <2>5. QED
    BY <1>1, <1>15, <2>1, <2>4
<1>18. ASSUME NEW p \in Pid, WdIsLate(p) PROVE Counting'
  <2>1. mem' = Done(p, "WAIT") /\ Goes(p, "WAIT")
    BY <1>18 DEF WdIsLate
  <2>2. /\ stage'[p] = "app_late"
        /\ \A q \in Pid \ {p} : stage'[q] = stage[q]
    BY <1>18 DEF WdIsLate, TypeOK
  <2>3. Counts(stage'[p], mem'[p])
    BY <1>2, <1>15, <2>1, <2>2
       DEF Counts, Monitoring, Running, Resting, AppBoot, WdStage
  <2>4. QED
    BY <1>1, <1>15, <2>1, <2>2, <2>3
<1>19. ASSUME NEW p \in Pid, IncCntTSK(p) PROVE Counting'
  <2>1. /\ \A q \in Pid \ {p} : stage'[q] = stage[q] /\ mem'[q] = mem[q]
        /\ stage'[p] = stage[p]
    BY <1>19 DEF IncCntTSK, Done, kernel, TypeOK
  <2>2. /\ "INC" \in mem[p].todo /\ stage[p] \in Running /\ ~mem[p].stop
    BY <1>19 DEF IncCntTSK, Goes, Due, Stands
  <2>3. /\ mem'[p].misses = mem[p].misses + 1
        /\ mem'[p].stop = mem[p].stop
        /\ mem'[p].sched = mem[p].sched
        /\ mem'[p].todo = mem[p].todo \ {"INC"}
        /\ mem'[p].target = mem[p].target
    BY <1>2, <1>19 DEF IncCntTSK, Done, TypeOK, Memory
  <2>4. Counts(stage'[p], mem'[p])
    <3>1. Bounded(mem[p]) /\ mem[p].misses \in Nat
      BY <1>2, <2>2 DEF Counts, Memory
    <3>2. mem'[p].misses <= MaxMissed + 1 /\ Bounded(mem'[p])
      BY <2>2, <2>3, <3>1, MaxMissedAssumption DEF Bounded
    <3>3. QED
      BY <1>2, <2>1, <2>2, <2>3, <3>2
         DEF Counts, Running, Resting, AppBoot, WdStage
  <2>5. QED
    BY <1>1, <2>1, <2>4
<1>20. ASSUME NEW p \in Pid, KillTarget(p) PROVE Counting'
  <2>1. Counts(AfterKill[stage[p]], mem[p])
    BY <1>2, <1>20 DEF KillTarget, Stands, AfterKill, Counts, Running, Resting,
                       AppBoot, WdStage
  <2>2. SendUser2(p, User2Receivers(mem[p].target), AfterKill[stage[p]], mem[p])
    BY <1>20 DEF KillTarget
  <2>3. QED
    BY <1>12, <2>1, <2>2
<1>21. ASSUME NEW p \in Pid, StartMonitoring(p) PROVE Counting'
  <2>1. /\ \A q \in Pid \ {p} : stage'[q] = stage[q] /\ mem'[q] = mem[q]
        /\ stage'[p] = stage[p] /\ stage[p] \in Running
    BY <1>21 DEF StartMonitoring, kernel, TypeOK, Goes, Due, Stands
  <2>2. /\ mem'[p].misses = 0 /\ ~mem'[p].stop
        /\ mem'[p].sched = Monitoring /\ mem'[p].todo = {}
        /\ mem'[p].target = mem[p].target
    BY <1>2, <1>21 DEF StartMonitoring, Goes, TypeOK, Memory
  <2>3. mem[p].target # NoPid
    BY <1>2, <1>21 DEF StartMonitoring, Goes, Due, Counts
  <2>4. Counts(stage'[p], mem'[p])
    BY <2>1, <2>2, <2>3, MaxMissedAssumption
       DEF Counts, Bounded, Running, Resting, AppBoot, WdStage
  <2>5. QED
    BY <1>1, <2>1, <2>4
<1>22. ASSUME NEW p \in Pid, DoNotResuscitate(p) PROVE Counting'
  <2>1. /\ \A q \in Pid \ {p} : stage'[q] = stage[q] /\ mem'[q] = mem[q]
        /\ stage'[p] = stage[p]
        /\ stage[p] \in {"app_run", "app_suspect", "app_revive", "app_late",
                         "app_wait"}
    BY <1>22 DEF DoNotResuscitate, kernel, TypeOK, Stands
  <2>2. mem'[p].misses = mem[p].misses /\ mem'[p].stop
    BY <1>2, <1>22 DEF DoNotResuscitate, TypeOK, Memory
  <2>3. Counts(stage'[p], mem'[p])
    BY <1>2, <2>1, <2>2 DEF Counts, Running, Resting, AppBoot, WdStage
  <2>4. QED
    BY <1>1, <2>1, <2>3
<1>23. ASSUME NEW p \in Pid, NEW q \in Pid, ReviveWatchdog(p, q)
       PROVE  Counting'
  <2>1. /\ stage[p] = "app_revive" /\ stage[q] = "free"
        /\ stage'[p] = "app_run" /\ stage'[q] = "child"
        /\ \A r \in Pid \ {p, q} : stage'[r] = stage[r]
    BY <1>23 DEF ReviveWatchdog, Fork, Stands, TypeOK
  <2>2. PICK m : m = [mem[p] EXCEPT !.target = q, !.sched = {"WAIT"},
                                    !.todo = {}]
    OBVIOUS
  <2>3. /\ m.misses = mem[p].misses /\ m.stop = mem[p].stop
        /\ m.sched = {"WAIT"} /\ m.todo = {}
        /\ m.argv = mem[p].argv /\ m.target # NoPid
    BY <1>2, <2>2, PidAssumption DEF Memory
  <2>4. p # q
    BY <2>1
  <2>5. mem' = [mem EXCEPT ![p] = m, ![q].argv = m.argv]
    BY <1>23, <2>2, <2>4 DEF ReviveWatchdog, Waiting, Copied, TypeOK
  <2>6. /\ mem'[q] = [mem[q] EXCEPT !.argv = mem[p].argv]
        /\ mem'[p] = m
        /\ \A r \in Pid \ {p, q} : mem'[r] = mem[r]
    BY <2>3, <2>4, <2>5 DEF TypeOK
  <2>7. Counts(stage'[p], mem'[p])
    BY <1>2, <2>1, <2>3, <2>6
       DEF Counts, Bounded, Running, Resting, AppBoot, WdStage
  <2>8. QED
    BY <2>1, <2>6, <2>7, CountsKept
<1>24. ASSUME NEW p \in Pid, stage[p] = "app_wait", NEW after \in Reaped(p)
      PROVE  /\ after \in [Pid -> Stage] /\ after[p] = stage[p]
             /\ \A r \in Pid : \/ after[r] = stage[r]
                               \/ after[r] = "free" /\ stage[r] = "zombie"
  BY <1>24 DEF Reaped, Reapable, WaitedFor, Children, TypeOK, Stage
<1>25. ASSUME NEW p \in Pid, NEW q \in Pid, WaitReforks(p, q)
       PROVE  Counting'
  <2>1. PICK after \in Reaped(p) : Fork(p, q, after)
    BY <1>25 DEF WaitReforks
  <2>2. stage[p] = "app_wait"
    BY <1>25 DEF WaitReforks, Stands
  <2>3. /\ stage[q] \in {"free", "zombie"}
        /\ stage'[p] = "app_run" /\ stage'[q] = "child"
        /\ \A r \in Pid \ {p, q} : \/ stage'[r] = stage[r]
                                   \/ stage[r] = "zombie" /\ stage'[r] = "free"
    BY <1>24, <2>1, <2>2 DEF Fork
  <2>4. PICK m : m = [mem[p] EXCEPT !.target = q]
    OBVIOUS
  <2>5. /\ m.misses = mem[p].misses /\ m.stop = mem[p].stop
        /\ m.sched = mem[p].sched /\ m.todo = mem[p].todo
        /\ m.argv = mem[p].argv /\ m.target # NoPid
    BY <1>2, <2>4, PidAssumption DEF Memory
  <2>6. p # q
    BY <2>2, <2>3
  <2>7. mem' = [mem EXCEPT ![p] = m, ![q].argv = m.argv]
    BY <1>25, <2>4, <2>6 DEF WaitReforks, Copied, TypeOK
  <2>8. /\ mem'[q] = [mem[q] EXCEPT !.argv = mem[p].argv]
        /\ mem'[p] = m
        /\ \A r \in Pid \ {p, q} : mem'[r] = mem[r]
    BY <2>5, <2>6, <2>7 DEF TypeOK
  <2>9. Counts(stage'[p], mem'[p])
    BY <1>2, <2>2, <2>3, <2>5, <2>8
       DEF Counts, Bounded, Running, Resting, AppBoot, WdStage
  <2>10. QED
    BY <2>3, <2>8, <2>9, CountsKept
<1>26. ASSUME NEW p \in Pid, ReviveWatchdogFails(p) PROVE Counting'
  <2>1. /\ stage[p] = "app_revive" /\ stage'[p] = "app_run"
        /\ \A r \in Pid \ {p} : stage'[r] = stage[r] /\ mem'[r] = mem[r]
    BY <1>26 DEF ReviveWatchdogFails, ForkFails, Waiting, Stands, TypeOK
  <2>2. /\ mem'[p].misses = mem[p].misses /\ mem'[p].stop = mem[p].stop
        /\ mem'[p].sched = {"WAIT"} /\ mem'[p].todo = {}
        /\ mem'[p].target # NoPid
    BY <1>2, <1>26, PidAssumption
       DEF ReviveWatchdogFails, Waiting, TargetAfterFailedFork, TypeOK, Memory
  <2>3. Counts(stage'[p], mem'[p])
    BY <1>2, <2>1, <2>2
       DEF Counts, Bounded, Running, Resting, AppBoot, WdStage
  <2>4. QED
    BY <1>1, <2>1, <2>3
<1>27. ASSUME NEW p \in Pid, WaitForkFails(p) PROVE Counting'
  <2>1. PICK after \in Reaped(p) : ForkFails(p, after)
    BY <1>27 DEF WaitForkFails
  <2>2. stage[p] = "app_wait"
    BY <1>27 DEF WaitForkFails, Stands
  <2>3. /\ stage'[p] = "app_run"
        /\ \A r \in Pid \ {p} : \/ stage'[r] = stage[r]
                                \/ stage[r] = "zombie" /\ stage'[r] = "free"
    BY <1>24, <2>1, <2>2 DEF ForkFails
  <2>4. /\ \A r \in Pid \ {p} : mem'[r] = mem[r]
        /\ mem'[p].misses = mem[p].misses /\ mem'[p].stop = mem[p].stop
        /\ mem'[p].sched = mem[p].sched /\ mem'[p].todo = mem[p].todo
        /\ mem'[p].target # NoPid
    BY <1>2, <1>27, PidAssumption
       DEF WaitForkFails, TargetAfterFailedFork, TypeOK, Memory
  <2>5. Counts(stage'[p], mem'[p])
    BY <1>2, <2>2, <2>3, <2>4
       DEF Counts, Bounded, Running, Resting, AppBoot, WdStage
  <2>6. QED
    BY <2>3, <2>4, <2>5, CountsKept
<1>28. ASSUME NEW p \in Pid, LastSignal(p) PROVE Counting'
  BY <1>28 DEF LastSignal, Counting
<1>29. CASE UNCHANGED vars
  BY <1>29 DEF vars, kernel, Counting
<1>30. QED
  BY <1>3, <1>4, <1>5, <1>6, <1>7, <1>8, <1>9, <1>10, <1>11, <1>13, <1>14,
     <1>16, <1>17, <1>18, <1>19, <1>20, <1>21, <1>22, <1>23, <1>25, <1>26,
     <1>27, <1>28, <1>29, Zenon
     DEF Next, TakeSignal, Start, RunTask, Choice
==============================================================================
