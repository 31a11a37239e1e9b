-------------------------------- MODULE Heap ---------------------------------
(***************************************************************************)
(* The heap of src/src/heap.c: a binary heap in a dynamic vector, with a   *)
(* comparison the caller provides.  The vector is not in the repository;   *)
(* it is taken to be a sequence, and its elements to be pointers.  The     *)
(* heap is used by one thread, and a call is one step.                     *)
(***************************************************************************)
EXTENDS Integers, SequencesExt

CONSTANTS
  Element,  \* the pointers that can be enqueued, more than once, too
  Key,      \* what the comparison looks at
  MaxSize   \* bound of the model: how large the heap may grow

ASSUME KeyAssumption == Key \in [Element -> Int]
ASSUME MaxSizeIsNat  == MaxSize \in Nat

VARIABLES
  arr,     \* the vector, from index 1 on
  aborted  \* an assertion has failed

vars == <<arr, aborted>>

(* Positive, zero or negative: whoever is positive goes to the top.  The   *)
(* comparison is the caller's; that of the tests is a difference of ints.  *)
Cmp(d2, d1) == Key[d2] - Key[d1]

HPQSize(a)     == Len(a)
HPQIsEmpty     == HPQSize(arr) = 0
HPQPeek        == arr[1]
SwapData(a, i, j) == [a EXCEPT ![i] = a[j], ![j] = a[i]]

-----------------------------------------------------------------------------
(* Mutant of HeapifyUp: it does not go on from the parent. *)
HeapifyUpOnce(a, index) ==
  IF index = 1 \/ 0 >= Cmp(a[index], a[index \div 2]) THEN a
  ELSE SwapData(a, index, index \div 2)

HeapifyUp(a, index) ==
  LET up[i \in DOMAIN a] == [b \in [DOMAIN a -> Element] |->
        IF i = 1 \/ 0 >= Cmp(b[i], b[i \div 2]) THEN b
        ELSE up[i \div 2][SwapData(b, i, i \div 2)]]
  IN  up[index][a]

(* Each child is compared with its parent, and not the left one with the   *)
(* right one: with both before the parent, the left one is taken.          *)
BestOfThree(a, index) ==
  LET ShouldBeBefore(child) ==
        child <= HPQSize(a) /\ 0 <= Cmp(a[child], a[index])
  IN  IF ShouldBeBefore(2 * index) THEN 2 * index
      ELSE IF ShouldBeBefore(2 * index + 1) THEN 2 * index + 1
      ELSE index

(* Mutant of HeapifyDown: copied, and not swapped. *)
HeapifyDownCopies(a, index) ==
  LET down[i \in DOMAIN a] == [b \in [DOMAIN a -> Element] |->
        LET best == BestOfThree(b, i) IN
        IF best = i THEN b ELSE down[best][[b EXCEPT ![i] = b[best]]]]
  IN  down[index][a]

HeapifyDown(a, index) ==
  LET down[i \in DOMAIN a] == [b \in [DOMAIN a -> Element] |->
        LET best == BestOfThree(b, i) IN
        IF best = i THEN b ELSE down[best][SwapData(b, i, best)]]
  IN  down[index][a]

-----------------------------------------------------------------------------
(* HPQCreate *)
Init == arr = << >> /\ aborted = FALSE

(* A failing DVectorPushBack changes nothing. *)
HPQEnqueue(e) ==
  /\ ~aborted
  /\ Len(arr) < MaxSize
  /\ arr' = HeapifyUp(Append(arr, e), Len(arr) + 1)
  /\ UNCHANGED aborted

(* The last element takes the place of the first. *)
HPQDequeue ==
  /\ ~aborted
  /\ ~HPQIsEmpty
  /\ LET rest == Front([arr EXCEPT ![1] = Last(arr)]) IN
     arr' = IF rest = << >> THEN rest ELSE HeapifyDown(rest, 1)
  /\ UNCHANGED aborted

\* The index of what HPQRemove removes, or 0.
Found(match) == SelectInSeq(arr, LAMBDA e : e \in match)

\* Without the element at i, whose place the last one has taken.
Filled(i) == Front([arr EXCEPT ![i] = Last(arr)])

(* The assertion at the head of HeapifyUp. *)
IndexInBounds(a, index) == HPQSize(a) >= index

(* Of an empty heap it is undefined: status is read and was not written.   *)
(* An element that is not found is not removed.                            *)
HPQRemove(match) ==
  LET curr == Found(match) IN
  /\ ~aborted
  /\ curr # 0
  /\ IndexInBounds(Filled(curr), curr)
  /\ arr' = HeapifyDown(HeapifyUp(Filled(curr), curr), curr)
  /\ UNCHANGED aborted

(* The last element is gone, and HeapifyUp is called all the same. *)
HPQRemoveAsserts(match) ==
  LET curr == Found(match) IN
  /\ ~aborted
  /\ curr # 0
  /\ ~IndexInBounds(Filled(curr), curr)
  /\ arr' = Filled(curr)
  /\ aborted' = TRUE

Next ==
  \/ \E e \in Element : HPQEnqueue(e)
  \/ HPQDequeue
  \/ \E match \in SUBSET Element : HPQRemove(match) \/ HPQRemoveAsserts(match)

Spec == Init /\ [][Next]_vars

-----------------------------------------------------------------------------
HeapOrder(a) == \A i \in 2..Len(a) : Cmp(a[i], a[i \div 2]) <= 0

(* Whatever is swapped, nothing is lost or doubled: HPQEnqueue adds its    *)
(* element, HPQDequeue takes what HPQPeek showed, and HPQRemove takes one  *)
(* that matches.                                                           *)
TakesWhatItShows ==
  [][/\ \A e \in Element :
          HPQEnqueue(e) => ToBag(arr') = ToBag(Append(arr, e))
     /\ HPQDequeue => ToBag(arr) = ToBag(Append(arr', HPQPeek))
     /\ \A match \in SUBSET Element : HPQRemove(match) =>
          \E e \in match : ToBag(arr) = ToBag(Append(arr', e))]_vars

(* HeapifyUp is enough for an enqueue: a heap in order stays in order. *)
EnqueueKeepsOrder ==
  [][\A e \in Element :
       HeapOrder(arr) /\ HPQEnqueue(e) => HeapOrder(arr')]_vars

(* heap.c:297 says that a child is taken if it "should be before the ret's *)
(* value", which is the best so far, so that whoever is taken is the best. *)
OrderIsKept == HeapOrder(arr)

=============================================================================
