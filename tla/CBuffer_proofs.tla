--------------------------- MODULE CBuffer_proofs ----------------------------
(***************************************************************************)
(* CBuffer implements the bounded queue of Fifo, for every capacity, every *)
(* set of bytes and every length of a call, if no call writes 0 bytes.     *)
(*                                                                         *)
(* The proof looks at the buffer from where its data begins, StartOfData:  *)
(* seen from there, data and room are two intervals, and what a call does  *)
(* no longer depends on where in the array they are.                       *)
(***************************************************************************)
EXTENDS CBuffer, TLAPS, SequenceTheorems

(* The place i bytes behind a place of the array, and how many bytes a     *)
(* place is behind another one.                                            *)
LEMMA Wraps ==
  /\ \A p \in Slot, i \in 0..capacity :
       Advance(p, i) = IF p + i < capacity THEN p + i ELSE p + i - capacity
  /\ \A p, q \in Slot :
       (p - q) % capacity = IF q <= p THEN p - q ELSE p - q + capacity
<1>1. ASSUME NEW c \in Nat \ {0}, NEW x \in 0..(c - 1)
      PROVE  x % c = x
  OBVIOUS
<1>2. ASSUME NEW c \in Nat \ {0}, NEW x \in c..(2 * c - 1)
      PROVE  x % c = x - c
  OBVIOUS
<1>3. ASSUME NEW c \in Nat \ {0}, NEW x \in -c..-1
      PROVE  x % c = x + c
  OBVIOUS
<1>4. capacity \in Nat \ {0}
  BY CapacityAssumption
<1>5. ASSUME NEW p \in Slot, NEW i \in 0..capacity
      PROVE  Advance(p, i) = IF p + i < capacity THEN p + i
                             ELSE p + i - capacity
  <2>1. CASE p + i < capacity
    <3>1. p + i \in 0..(capacity - 1)
      BY <1>4, <2>1 DEF Slot
    <3>2. QED
      BY <1>1, <1>4, <2>1, <3>1 DEF Advance
  <2>2. CASE p + i >= capacity
    <3>1. PICK x : x = p + i
      OBVIOUS
    <3>2. x \in capacity..(2 * capacity - 1)
      BY <1>4, <2>2, <3>1 DEF Slot
    <3>3. x % capacity = x - capacity
      BY <1>2, <1>4, <3>2
    <3>4. Advance(p, i) = x % capacity
      BY <3>1 DEF Advance
    <3>5. ~(p + i < capacity)
      BY <1>4, <2>2 DEF Slot
    <3>6. p \in Int /\ i \in Int
      BY <1>4 DEF Slot
    <3>7. x - capacity = p + i - capacity
      BY <1>4, <3>1, <3>6
    <3>8. QED
      BY <3>3, <3>4, <3>5, <3>7
  <2>3. QED
    BY <1>4, <2>1, <2>2 DEF Slot
<1>6. ASSUME NEW p \in Slot, NEW q \in Slot
      PROVE  (p - q) % capacity = IF q <= p THEN p - q ELSE p - q + capacity
  <2>1. CASE q <= p
    <3>1. p - q \in 0..(capacity - 1)
      BY <1>4, <2>1 DEF Slot
    <3>2. QED
      BY <1>1, <1>4, <2>1, <3>1
  <2>2. CASE p < q
    <3>1. p - q \in -capacity..-1 /\ ~(q <= p)
      BY <1>4, <2>2 DEF Slot
    <3>2. QED
      BY <1>3, <1>4, <3>1
  <2>3. QED
    BY <2>1, <2>2 DEF Slot
<1>7. QED
  BY <1>5, <1>6

(* The buffer as one interval of the array: its size and its content.      *)
LEMMA Interval ==
  ASSUME TypeOK
  PROVE  /\ StartOfData \in Slot
         /\ CBuffBufSiz \in 0..capacity
         /\ CBuffBufSiz = 0 <=> read = Parked
         /\ CBuffBufSiz = capacity <=> CheckIfFull
         /\ write = Advance(StartOfData, CBuffBufSiz)
         /\ Content \in Seq(Byte)
         /\ Len(Content) = CBuffBufSiz
         /\ \A i \in 1..CBuffBufSiz :
              Content[i] = buffer[Advance(StartOfData, i - 1)]
<1>1. capacity \in Nat \ {0} /\ Parked \notin Nat
  BY CapacityAssumption, ParkedAssumption
<1>2. write \in Slot /\ read \in Slot \cup {Parked}
  BY DEF TypeOK
<1>3. StartOfData \in Slot
  BY <1>2 DEF StartOfData, CBuffIsEmpty
<1>4. /\ CBuffBufSiz \in 0..capacity
      /\ CBuffBufSiz = 0 <=> read = Parked
      /\ CBuffBufSiz = capacity <=> CheckIfFull
      /\ write = Advance(StartOfData, CBuffBufSiz)
  <2>1. CASE read = Parked
    <3>1. CBuffBufSiz = 0 /\ StartOfData = write /\ ~CheckIfFull
      BY <1>1, <1>2, <2>1
         DEF CBuffBufSiz, CheckIfFull, CBuffIsEmpty, StartOfData, Slot
    <3>2. Advance(write, 0) = write
      BY <1>1, <1>2, Wraps DEF Slot
    <3>3. QED
      BY <1>1, <2>1, <3>1, <3>2
  <2>2. CASE read # Parked
    <3>1. read \in Slot /\ StartOfData = read
      BY <1>2, <2>2 DEF StartOfData, CBuffIsEmpty
    <3>2. CBuffBufSiz = IF read = write THEN capacity
                        ELSE IF read > write THEN capacity - (read - write)
                        ELSE write - read
      BY <2>2 DEF CBuffBufSiz, CheckIfFull, CBuffIsEmpty
    <3>3. CBuffBufSiz \in 1..capacity
      BY <1>1, <1>2, <3>1, <3>2 DEF Slot
    <3>4. Advance(read, CBuffBufSiz) =
            IF read + CBuffBufSiz < capacity THEN read + CBuffBufSiz
            ELSE read + CBuffBufSiz - capacity
      BY <3>1, <3>3, Wraps
    <3>5. write = Advance(read, CBuffBufSiz)
      BY <1>1, <1>2, <3>1, <3>2, <3>4 DEF Slot
    <3>6. CBuffBufSiz = capacity <=> CheckIfFull
      BY <1>1, <1>2, <3>1, <3>2 DEF Slot, CheckIfFull
    <3>7. QED
      BY <1>1, <2>2, <3>1, <3>3, <3>5, <3>6
  <2>3. QED
    BY <2>1, <2>2
<1>5. \A i \in 1..CBuffBufSiz :
        /\ read = StartOfData
        /\ Advance(StartOfData, i - 1) \in Slot
        /\ Content[i] = buffer[Advance(StartOfData, i - 1)]
  <2> SUFFICES ASSUME NEW i \in 1..CBuffBufSiz
               PROVE  /\ read = StartOfData
                      /\ Advance(StartOfData, i - 1) \in Slot
                      /\ Content[i] = buffer[Advance(StartOfData, i - 1)]
    OBVIOUS
  <2>1. read = StartOfData
    BY <1>4 DEF StartOfData, CBuffIsEmpty
  <2>2. i - 1 \in 0..capacity /\ i - 1 < capacity
    BY <1>1, <1>4
  <2>3. Advance(StartOfData, i - 1) \in Slot
    BY <1>1, <1>3, <2>2, Wraps DEF Slot
  <2>4. read + i - 1 = read + (i - 1)
    BY <1>3, <2>1 DEF Slot
  <2>5. Content[i] = buffer[(read + (i - 1)) % capacity]
    BY <2>4 DEF Content
  <2>6. QED
    BY <2>1, <2>3, <2>5 DEF Advance
<1>6. \A i \in 1..CBuffBufSiz : Content[i] \in Byte
  BY <1>5 DEF TypeOK
<1>7. Content \in [1..CBuffBufSiz -> Byte]
  <2>1. Content = [i \in 1..CBuffBufSiz |-> Content[i]]
    BY DEF Content
  <2>2. QED
    BY <1>6, <2>1
<1>8. Content \in Seq(Byte) /\ Len(Content) = CBuffBufSiz
  BY <1>4, <1>7
<1>9. QED
  BY <1>3, <1>4, <1>5, <1>8

(* The same of the buffer after a step.                                    *)
LEMMA IntervalNext ==
  TypeOK' =>
    (/\ Content \in Seq(Byte)
     /\ Len(Content) = CBuffBufSiz
     /\ \A i \in 1..CBuffBufSiz :
          Content[i] = buffer[Advance(StartOfData, i - 1)])'
<1>1. TypeOK =>
        /\ Content \in Seq(Byte)
        /\ Len(Content) = CBuffBufSiz
        /\ \A i \in 1..CBuffBufSiz :
             Content[i] = buffer[Advance(StartOfData, i - 1)]
  BY Interval
<1>2. QED
  BY <1>1, PTL

(* What a call may do, seen from where the data begins: take n bytes of    *)
(* room, or give n bytes of data back.  Both leave the pointers where the  *)
(* interval says, and a buffer without data is parked.                     *)
LEMMA Moved ==
  ASSUME TypeOK
  PROVE  /\ \A n \in 0..CBuffFreeSpace :
              /\ Advance(write, n) = Advance(StartOfData, CBuffBufSiz + n)
              /\ Advance(write, n) \in Slot
         /\ \A n \in 0..CBuffBufSiz, i \in 0..capacity :
              n + i <= capacity =>
                Advance(Advance(StartOfData, n), i)
                = Advance(StartOfData, n + i)
<1>1. capacity \in Nat \ {0}
  BY CapacityAssumption
<1>2. /\ StartOfData \in Slot /\ CBuffBufSiz \in 0..capacity
      /\ write = Advance(StartOfData, CBuffBufSiz)
  BY Interval
<1>3. ASSUME NEW p \in Slot, NEW m \in 0..capacity, NEW i \in 0..capacity,
             m + i <= capacity
      PROVE  /\ Advance(Advance(p, m), i) = Advance(p, m + i)
             /\ Advance(p, m + i) \in Slot
  <2>1. Advance(p, m) = IF p + m < capacity THEN p + m ELSE p + m - capacity
    BY Wraps
  <2>2. Advance(p, m) \in Slot
    BY <1>1, <2>1 DEF Slot
  <2>3. Advance(Advance(p, m), i) =
          IF Advance(p, m) + i < capacity THEN Advance(p, m) + i
          ELSE Advance(p, m) + i - capacity
    BY <2>2, Wraps
  <2>4. m + i \in 0..capacity
    BY <1>1, <1>3
  <2>5. Advance(p, m + i) = IF p + (m + i) < capacity THEN p + (m + i)
                            ELSE p + (m + i) - capacity
    BY <2>4, Wraps
  <2>6. QED
    BY <1>1, <1>3, <2>1, <2>3, <2>5 DEF Slot
<1>4. ASSUME NEW n \in 0..CBuffFreeSpace
      PROVE  /\ Advance(write, n) = Advance(StartOfData, CBuffBufSiz + n)
             /\ Advance(write, n) \in Slot
  <2>1. n \in 0..capacity /\ CBuffBufSiz + n <= capacity
    BY <1>1, <1>2 DEF CBuffFreeSpace
  <2>2. QED
    BY <1>2, <1>3, <2>1
<1>5. ASSUME NEW n \in 0..CBuffBufSiz, NEW i \in 0..capacity, n + i <= capacity
      PROVE  Advance(Advance(StartOfData, n), i) = Advance(StartOfData, n + i)
  <2>1. n \in 0..capacity
    BY <1>1, <1>2
  <2>2. QED
    BY <1>2, <1>3, <1>5, <2>1
<1>6. QED
  BY <1>4, <1>5

(* How many bytes a call of CBuffWrite or CBuffRead writes or reads.       *)
LEMMA Counted ==
  ASSUME TypeOK
  PROVE  /\ \A m \in Nat : F!Least(m, CBuffFreeSpace) \in 0..CBuffFreeSpace
         /\ \A m \in Nat : F!Least(m, CBuffBufSiz) \in 0..CBuffBufSiz
         /\ \A m \in Nat : F!Least(m, CBuffFreeSpace) <= m
         /\ CBuffFreeSpace \in 0..capacity
<1>1. CBuffBufSiz \in 0..capacity /\ capacity \in Nat
  BY Interval, CapacityAssumption
<1>2. QED
  BY <1>1 DEF F!Least, CBuffFreeSpace

(* The buffers that callers write are sequences of bytes.                  *)
LEMMA Sources ==
  ASSUME NEW src \in F!Source(MinWrite)
  PROVE  /\ src \in Seq(Byte) /\ Len(src) \in Nat /\ src \in F!Source(0)
         /\ \A i \in 1..Len(src) : src[i] \in Byte
         /\ Len(src) >= MinWrite
<1>1. PICK n \in MinWrite..MaxCall : src \in [1..n -> Byte]
  BY DEF F!Source
<1>2. n \in Nat /\ n \in 0..MaxCall
  BY CallAssumption
<1>3. QED
  BY <1>1, <1>2 DEF F!Source

LEMMA InitTyped == Init => TypeOK
BY CapacityAssumption DEF Init, TypeOK, F!NoCall, F!Result, Slot

(* Every call keeps the type.                                              *)
LEMMA StepTyped == TypeOK /\ [Next]_vars => TypeOK'
<1> SUFFICES ASSUME TypeOK, [Next]_vars
             PROVE  TypeOK'
  OBVIOUS
<1>1. capacity \in Nat \ {0} /\ << >> \in Seq(Byte)
  BY CapacityAssumption
<1>2. ASSUME NEW src \in F!Source(MinWrite), CBuffWriteFull(src)
      PROVE  TypeOK'
  BY <1>1, <1>2 DEF CBuffWriteFull, TypeOK, F!Result
<1>3. ASSUME NEW src \in F!Source(MinWrite), CBuffWrite(src)
      PROVE  TypeOK'
  <2> DEFINE n == F!Least(Len(src), CBuffFreeSpace)
  <2>1. n \in 0..CBuffFreeSpace /\ n <= Len(src) /\ n \in 0..capacity
    BY <1>1, Counted, Sources
  <2>2. write' \in Slot
    BY <1>3, <2>1, Moved DEF CBuffWrite
  <2>3. read' \in Slot
    BY <1>3, Interval DEF CBuffWrite
  <2> HIDE DEF n
  <2>4. ASSUME NEW p \in Slot
        PROVE  LET i == (p - write) % capacity
               IN  (IF i < n THEN src[i + 1] ELSE buffer[p]) \in Byte
    <3>1. write \in Slot
      BY DEF TypeOK
    <3>2. (p - write) % capacity \in Nat
      BY <1>1, <3>1, Wraps DEF Slot
    <3>3. QED
      BY <2>1, <3>2, Sources DEF TypeOK
  <2>5. buffer' \in [Slot -> Byte]
    BY <1>3, <2>4 DEF CBuffWrite, Filled, n
  <2>6. last' = F!Result("write", n, << >>)
    BY <1>3 DEF CBuffWrite, n
  <2>7. QED
    BY <1>1, <2>1, <2>2, <2>3, <2>5, <2>6 DEF TypeOK, F!Result
<1>4. ASSUME NEW n_bytes \in 0..MaxCall, CBuffReadEmpty(n_bytes)
      PROVE  TypeOK'
  BY <1>1, <1>4 DEF CBuffReadEmpty, TypeOK, F!Result
<1>5. ASSUME NEW n_bytes \in 0..MaxCall, CBuffRead(n_bytes)
      PROVE  TypeOK'
  <2> DEFINE n == F!Least(n_bytes, CBuffBufSiz)
  <2>1. n \in 0..CBuffBufSiz /\ n \in 0..capacity
    BY <1>1, Counted, Interval
  <2>2. read \in Slot
    BY <1>5 DEF CBuffRead, CBuffIsEmpty, TypeOK
  <2>3. Advance(read, n) \in Slot
    BY <1>1, <2>1, <2>2, Wraps DEF Slot
  <2>4. read' \in Slot \cup {Parked}
    BY <1>5, <2>3 DEF CBuffRead, AfterRead
  <2>5. SubSeq(Content, 1, n) \in Seq(Byte)
    <3>1. Content \in Seq(Byte) /\ Len(Content) = CBuffBufSiz
      BY Interval
    <3>2. QED
      BY <1>1, <2>1, <3>1
  <2> HIDE DEF n
  <2>6. last' = F!Result("read", n, SubSeq(Content, 1, n))
    BY <1>5 DEF CBuffRead, n
  <2>7. QED
    BY <1>5, <2>1, <2>4, <2>5, <2>6 DEF TypeOK, CBuffRead, F!Result
<1>6. CASE UNCHANGED vars
  BY <1>6 DEF vars, TypeOK
<1>7. QED
  BY <1>2, <1>3, <1>4, <1>5, <1>6 DEF Next

(* Every variable keeps its type, whatever is written and read.            *)
THEOREM TypeCorrect == Spec => []TypeOK
BY InitTyped, StepTyped, PTL DEF Spec
-----------------------------------------------------------------------------
(* A write that finds room appends the bytes it reports to the content.    *)
LEMMA Appended ==
  ASSUME TypeOK, TypeOK', MinWrite = 1,
         NEW src \in F!Source(MinWrite), CBuffWrite(src)
  PROVE  F!Write(src)
<1> DEFINE n == F!Least(Len(src), CBuffFreeSpace)
           new == Content \o SubSeq(src, 1, n)
<1>1. /\ capacity \in Nat \ {0}
      /\ CBuffBufSiz \in 0..capacity /\ CBuffBufSiz # capacity
      /\ StartOfData \in Slot
      /\ write \in Slot /\ write = Advance(StartOfData, CBuffBufSiz)
      /\ Content \in Seq(Byte) /\ Len(Content) = CBuffBufSiz
  BY CapacityAssumption, Interval DEF CBuffWrite, TypeOK
<1>2. src \in Seq(Byte) /\ Len(src) \in Nat \ {0}
  BY Sources
<1>3. /\ n \in 0..CBuffFreeSpace /\ n <= Len(src) /\ n >= 1
      /\ CBuffFreeSpace = capacity - CBuffBufSiz
  BY <1>1, <1>2 DEF F!Least, CBuffFreeSpace
<1>4. read' = StartOfData /\ write' = Advance(StartOfData, CBuffBufSiz + n)
  BY <1>3, Moved DEF CBuffWrite
<1> HIDE DEF n
<1>5. CBuffBufSiz + n \in 1..capacity /\ CBuffBufSiz + n \in 0..capacity
  BY <1>1, <1>3
<1>6. StartOfData' = StartOfData /\ read' # Parked
  BY <1>1, <1>4, ParkedAssumption DEF StartOfData, CBuffIsEmpty, Slot
<1>7. CBuffBufSiz' = CBuffBufSiz + n
  <2>1. Advance(StartOfData, CBuffBufSiz + n) =
          IF StartOfData + (CBuffBufSiz + n) < capacity
          THEN StartOfData + (CBuffBufSiz + n)
          ELSE StartOfData + (CBuffBufSiz + n) - capacity
    BY <1>1, <1>5, Wraps
  <2>2. CBuffBufSiz' = IF read' = write' THEN capacity
                       ELSE IF read' > write'
                            THEN capacity - (read' - write')
                            ELSE write' - read'
    BY <1>6 DEF CBuffBufSiz, CheckIfFull, CBuffIsEmpty
  <2>3. StartOfData \in Int /\ 0 <= StartOfData /\ StartOfData < capacity
    BY <1>1 DEF Slot
  <2>4. QED
    BY <1>1, <1>4, <1>5, <2>1, <2>2, <2>3
<1>8. /\ Content' \in Seq(Byte) /\ Len(Content') = CBuffBufSiz + n
      /\ \A i \in 1..(CBuffBufSiz + n) :
           Content'[i] = buffer'[Advance(StartOfData, i - 1)]
  BY <1>6, <1>7, IntervalNext DEF Advance
<1>9. SubSeq(src, 1, n) \in Seq(Byte) /\ Len(SubSeq(src, 1, n)) = n
  BY <1>2, <1>3
<1>10. new \in Seq(Byte) /\ Len(new) = CBuffBufSiz + n
  BY <1>1, <1>3, <1>9
<1>11. ASSUME NEW i \in 1..(CBuffBufSiz + n)
       PROVE  Content'[i] = new[i]
  <2> DEFINE p == Advance(StartOfData, i - 1)
             k == (p - write) % capacity
  <2>1. i - 1 \in 0..capacity /\ i - 1 < capacity
    BY <1>1, <1>5
  <2>2. p = IF StartOfData + (i - 1) < capacity THEN StartOfData + (i - 1)
            ELSE StartOfData + (i - 1) - capacity
    BY <1>1, <2>1, Wraps
  <2>3. StartOfData \in Int /\ 0 <= StartOfData /\ StartOfData < capacity
    BY <1>1 DEF Slot
  <2>4. p \in Slot
    BY <1>1, <2>1, <2>2, <2>3 DEF Slot
  <2>5. k = IF write <= p THEN p - write ELSE p - write + capacity
    BY <1>1, <2>4, Wraps
  <2>6. write = IF StartOfData + CBuffBufSiz < capacity
                THEN StartOfData + CBuffBufSiz
                ELSE StartOfData + CBuffBufSiz - capacity
    BY <1>1, Wraps
  <2>7. buffer'[p] = IF k < n THEN src[k + 1] ELSE buffer[p]
    BY <2>4 DEF CBuffWrite, Filled, n
  <2> HIDE DEF p, k
  <2>8. CASE i <= CBuffBufSiz
    <3>1. ~(k < n)
      BY <1>1, <1>3, <2>1, <2>2, <2>3, <2>5, <2>6, <2>8
    <3>2. Content'[i] = buffer[p]
      BY <1>8, <2>7, <3>1 DEF p
    <3>3. i \in 1..CBuffBufSiz
      BY <1>1, <2>8
    <3>4. Content[i] = buffer[p]
      BY <3>3, Interval DEF p
    <3>5. new[i] = Content[i]
      BY <1>1, <1>9, <3>3
    <3>6. QED
      BY <3>2, <3>4, <3>5
  <2>9. CASE i > CBuffBufSiz
    <3>1. k = i - CBuffBufSiz - 1
      BY <1>1, <1>3, <1>5, <2>1, <2>2, <2>3, <2>5, <2>6, <2>9
    <3>2. k < n /\ i - CBuffBufSiz \in 1..n /\ k + 1 = i - CBuffBufSiz
      BY <1>1, <1>3, <2>9, <3>1
    <3>3. Content'[i] = src[i - CBuffBufSiz]
      BY <1>8, <2>7, <3>2 DEF p
    <3>4. new[i] = SubSeq(src, 1, n)[i - CBuffBufSiz]
      BY <1>1, <1>3, <1>9, <2>9
    <3>5. SubSeq(src, 1, n)[i - CBuffBufSiz] = src[i - CBuffBufSiz]
      BY <1>2, <1>3, <3>2
    <3>6. QED
      BY <3>3, <3>4, <3>5
  <2>10. i <= CBuffBufSiz \/ i > CBuffBufSiz
    BY <1>1, <1>3
  <2>11. QED
    BY <2>8, <2>9, <2>10
<1>12. Content' = new
  BY <1>8, <1>10, <1>11, SeqEqual
<1>13. n = F!Least(Len(src), capacity - Len(Content))
  BY <1>1, <1>3 DEF n
<1>14. last' = F!Result("write", n, << >>)
  BY DEF CBuffWrite, n
<1>15. QED
  BY <1>12, <1>13, <1>14 DEF F!Write

(* A read that finds data takes the bytes it reports from the content's    *)
(* front, and parks the pointer exactly when it leaves nothing.            *)
LEMMA Taken ==
  ASSUME TypeOK, TypeOK', NEW n_bytes \in 0..MaxCall, CBuffRead(n_bytes)
  PROVE  F!Read(n_bytes)
<1> DEFINE n == F!Least(n_bytes, CBuffBufSiz)
           rest == SubSeq(Content, n + 1, Len(Content))
<1>1. /\ capacity \in Nat \ {0}
      /\ CBuffBufSiz \in 1..capacity
      /\ read \in Slot /\ read = StartOfData
      /\ write \in Slot /\ write = Advance(read, CBuffBufSiz)
      /\ Content \in Seq(Byte) /\ Len(Content) = CBuffBufSiz
  <2>1. read # Parked /\ StartOfData = read
    BY DEF CBuffRead, CBuffIsEmpty, StartOfData
  <2>2. QED
    BY <2>1, CapacityAssumption, Interval DEF TypeOK
<1>2. n \in 0..CBuffBufSiz /\ n \in 0..capacity
  BY <1>1, Counted
<1>3. /\ read' = IF n > 0 /\ Advance(read, n) = write THEN Parked
                 ELSE Advance(read, n)
      /\ last' = F!Result("read", n, SubSeq(Content, 1, n))
      /\ buffer' = buffer /\ write' = write
  BY DEF CBuffRead, AfterRead
<1>4. n = F!Least(n_bytes, Len(Content))
  BY <1>1
<1> HIDE DEF n
<1>5. read \in Int /\ 0 <= read /\ read < capacity
  BY <1>1 DEF Slot
<1>6. /\ Advance(read, n) = IF read + n < capacity THEN read + n
                            ELSE read + n - capacity
      /\ write = IF read + CBuffBufSiz < capacity THEN read + CBuffBufSiz
                 ELSE read + CBuffBufSiz - capacity
  <2>1. CBuffBufSiz \in 0..capacity
    BY <1>1
  <2>2. QED
    BY <1>1, <1>2, <2>1, Wraps
<1>7. Advance(read, n) \in Slot /\ Advance(read, n) # Parked
  BY <1>1, <1>2, <1>5, <1>6, ParkedAssumption DEF Slot
<1>8. /\ CBuffBufSiz' = CBuffBufSiz - n
      /\ n < CBuffBufSiz => StartOfData' = Advance(read, n)
  <2>1. CASE n = CBuffBufSiz
    <3>1. read' = Parked
      BY <1>1, <1>3, <2>1
    <3>2. CBuffBufSiz' = 0
      BY <1>1, <1>3, <3>1, ParkedAssumption
         DEF CBuffBufSiz, CheckIfFull, CBuffIsEmpty, Slot
    <3>3. QED
      BY <1>1, <2>1, <3>2
  <2>2. CASE n < CBuffBufSiz /\ n > 0
    <3>1. Advance(read, n) # write
      BY <1>1, <1>2, <1>5, <1>6, <2>2
    <3>2. read' = Advance(read, n) /\ read' # Parked /\ read' # write'
      BY <1>3, <1>7, <3>1
    <3>3. StartOfData' = read'
      BY <3>2 DEF StartOfData, CBuffIsEmpty
    <3>4. CBuffBufSiz' = IF read' > write THEN capacity - (read' - write)
                         ELSE write - read'
      BY <1>3, <3>2 DEF CBuffBufSiz, CheckIfFull, CBuffIsEmpty
    <3>5. CBuffBufSiz' = CBuffBufSiz - n
      BY <1>1, <1>2, <1>5, <1>6, <2>2, <3>2, <3>4
    <3>6. QED
      BY <3>2, <3>3, <3>5
  <2>3. CASE n = 0
    <3>1. Advance(read, n) = read
      BY <1>1, <1>5, <1>6, <2>3
    <3>2. read' = read
      BY <1>3, <2>3, <3>1
    <3>3. CBuffBufSiz' = CBuffBufSiz /\ StartOfData' = StartOfData
      BY <1>3, <3>2
         DEF CBuffBufSiz, CheckIfFull, CBuffIsEmpty, StartOfData
    <3>4. QED
      BY <1>1, <2>3, <3>1, <3>3
  <2>4. QED
    BY <1>1, <1>2, <2>1, <2>2, <2>3
<1>9. /\ Content' \in Seq(Byte) /\ Len(Content') = CBuffBufSiz - n
      /\ \A i \in 1..(CBuffBufSiz - n) :
           Content'[i] = buffer[Advance(StartOfData', i - 1)]
  BY <1>3, <1>8, IntervalNext DEF Advance
<1>10. /\ rest \in Seq(Byte) /\ Len(rest) = CBuffBufSiz - n
       /\ \A i \in 1..(CBuffBufSiz - n) : rest[i] = Content[n + i]
  BY <1>1, <1>2
<1>11. ASSUME NEW i \in 1..(CBuffBufSiz - n)
       PROVE  Content'[i] = rest[i]
  <2>1. n < CBuffBufSiz /\ n + i \in 1..CBuffBufSiz /\ i \in Nat
    BY <1>1, <1>2
  <2>2. /\ i - 1 \in 0..capacity /\ n + (i - 1) <= capacity
        /\ (n + i) - 1 = n + (i - 1)
    BY <1>1, <1>2, <2>1
  <2>3. Advance(Advance(StartOfData, n), i - 1)
          = Advance(StartOfData, n + (i - 1))
    BY <1>2, <2>2, Moved
  <2>4. Content[n + i] = buffer[Advance(StartOfData, (n + i) - 1)]
    BY <2>1, Interval
  <2>5. Content'[i] = buffer[Advance(Advance(StartOfData, n), i - 1)]
    BY <1>1, <1>8, <1>9, <2>1
  <2>6. QED
    BY <1>10, <2>2, <2>3, <2>4, <2>5
<1>12. Content' = rest
  BY <1>9, <1>10, <1>11, SeqEqual
<1>13. QED
  BY <1>3, <1>4, <1>12 DEF F!Read

(* A call that finds no room, or no data, leaves the queue alone.          *)
LEMMA Refused ==
  ASSUME TypeOK
  PROVE  /\ \A src \in F!Source(MinWrite) :
              CBuffWriteFull(src) => F!Write(src)
         /\ \A n_bytes \in 0..MaxCall :
              CBuffReadEmpty(n_bytes) => F!Read(n_bytes)
<1>1. /\ capacity \in Nat \ {0} /\ CBuffBufSiz \in 0..capacity
      /\ Content \in Seq(Byte) /\ Len(Content) = CBuffBufSiz
  BY CapacityAssumption, Interval
<1>2. UNCHANGED <<buffer, write, read>> => Content' = Content
  BY DEF Content, CBuffBufSiz, CheckIfFull, CBuffIsEmpty
<1>3. ASSUME NEW src \in F!Source(MinWrite), CBuffWriteFull(src)
      PROVE  F!Write(src)
  <2>1. CBuffBufSiz = capacity /\ capacity - Len(Content) = 0
    BY <1>1, <1>3, Interval DEF CBuffWriteFull
  <2>2. F!Least(Len(src), capacity - Len(Content)) = 0
    BY <2>1, Sources DEF F!Least
  <2>3. Content \o SubSeq(src, 1, 0) = Content
    BY <1>1, Sources
  <2>4. Content' = Content /\ last' = F!Result("write", 0, << >>)
    BY <1>2, <1>3 DEF CBuffWriteFull
  <2>5. QED
    BY <2>2, <2>3, <2>4 DEF F!Write
<1>4. ASSUME NEW n_bytes \in 0..MaxCall, CBuffReadEmpty(n_bytes)
      PROVE  F!Read(n_bytes)
  <2>1. Len(Content) = 0
    BY <1>1, <1>4, Interval DEF CBuffReadEmpty, CBuffIsEmpty
  <2>2. F!Least(n_bytes, Len(Content)) = 0
    BY <2>1, CallAssumption DEF F!Least
  <2>3. SubSeq(Content, 0 + 1, Len(Content)) = Content
    BY <1>1, <2>1
  <2>4. SubSeq(Content, 1, 0) = << >>
    BY <1>1
  <2>5. Content' = Content /\ last' = F!Result("read", 0, << >>)
    BY <1>2, <1>4 DEF CBuffReadEmpty
  <2>6. QED
    BY <2>2, <2>3, <2>4, <2>5 DEF F!Read
<1>5. QED
  BY <1>3, <1>4

(* Every call is the call of the queue, with the same result.              *)
LEMMA StepFifo ==
  MinWrite = 1 /\ TypeOK /\ TypeOK' /\ [Next]_vars => [F!Next]_(F!vars)
<1> SUFFICES ASSUME MinWrite = 1, TypeOK, TypeOK', [Next]_vars
             PROVE  [F!Next]_(F!vars)
  OBVIOUS
<1>1. ASSUME NEW src \in F!Source(MinWrite),
             CBuffWriteFull(src) \/ CBuffWrite(src)
      PROVE  F!Next
  <2>1. F!Write(src)
    BY <1>1, Refused, Appended
  <2>2. QED
    BY <2>1, Sources DEF F!Next
<1>2. ASSUME NEW n_bytes \in 0..MaxCall,
             CBuffReadEmpty(n_bytes) \/ CBuffRead(n_bytes)
      PROVE  F!Next
  <2>1. F!Read(n_bytes)
    BY <1>2, Refused, Taken
  <2>2. QED
    BY <2>1 DEF F!Next
<1>3. CASE UNCHANGED vars
  BY <1>3 DEF vars, F!vars, Content, CBuffBufSiz, CheckIfFull, CBuffIsEmpty
<1>4. QED
  BY <1>1, <1>2, <1>3 DEF Next

(* A new buffer is an empty queue.                                         *)
LEMMA InitFifo == Init => F!Init
<1> SUFFICES ASSUME Init
             PROVE  F!Init
  OBVIOUS
<1>1. TypeOK /\ read = Parked
  BY InitTyped DEF Init
<1>2. Content \in Seq(Byte) /\ Len(Content) = 0
  BY <1>1, Interval
<1>3. Content = << >>
  BY <1>2
<1>4. QED
  BY <1>3 DEF Init, F!Init

(* The buffer implements the queue, wherever its pointers stand and        *)
(* however the data wraps round: nothing is lost, repeated or reordered,   *)
(* and every call returns what the header says.  A caller that writes 0    *)
(* bytes to an empty buffer is left out: it gets a buffer that reports     *)
(* itself full, which the run of SizeCounts shows.                         *)
THEOREM IsFifoCorrect ==
  ASSUME MinWrite = 1
  PROVE  Spec => IsFifo
<1>1. TypeOK /\ TypeOK' /\ [Next]_vars => [F!Next]_(F!vars)
  BY StepFifo
<1>2. QED
  BY <1>1, InitFifo, TypeCorrect, PTL DEF Spec, IsFifo, F!Spec
=============================================================================
