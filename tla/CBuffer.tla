------------------------------- MODULE CBuffer -------------------------------
(***************************************************************************)
(* The circular buffer of src/src/cbuffer.c: an array of capacity bytes, a *)
(* write pointer and a read pointer.  The pointers are equal when the      *)
(* buffer is full, so an empty buffer needs another mark: its read pointer *)
(* is parked on the struct itself, outside the array.                      *)
(*                                                                         *)
(* Pointers are offsets into the array, and Parked the address of the      *)
(* struct.  A call is one step: nothing runs between two of its bytes, and *)
(* a loop of n bytes is what it does to the array and to the pointers.     *)
(* PrintBuffer only prints.  The buffer is not meant for two threads.      *)
(***************************************************************************)
EXTENDS Integers, Sequences

CONSTANTS
  Byte,      \* the values of a byte
  capacity,  \* what CBuffCreate was called with; it asserts capacity > 0
  Parked,    \* the address of the struct, a read pointer of an empty buffer
  MaxCall,   \* bound: the n_bytes of a call
  MinWrite   \* the least n_bytes a caller writes: 0, or 1 if it knows better

ASSUME CapacityAssumption == capacity \in Nat \ {0}
ASSUME ParkedAssumption   == Parked \notin Nat
ASSUME CallAssumption     == MaxCall \in Nat /\ MinWrite \in 0..1

VARIABLES
  buffer,  \* the array; malloc leaves anything in it
  write,   \* the next byte to write
  read,    \* the next byte to read, or Parked
  last     \* the last call: its name, what it returned, the bytes it read

vars == <<buffer, write, read, last>>

Slot == 0..capacity - 1

-----------------------------------------------------------------------------
CheckIfFull == read = write
CBuffIsEmpty == read = Parked

\* Full is tested first, then empty; only then are both pointers offsets.
CBuffBufSiz ==
  CASE CheckIfFull -> capacity
    [] ~CheckIfFull /\ CBuffIsEmpty -> 0
    [] OTHER -> IF read > write THEN capacity - (read - write)
                                ELSE write - read

CBuffFreeSpace == capacity - CBuffBufSiz

\* Mutant of Advance: CHECK_IS_END one byte late.
AdvanceLate(ptr, n) == (ptr + n) % (capacity + 1)

\* A pointer that reaches the end of the array is reset to its start.
Advance(ptr, n) == (ptr + n) % capacity

Content == [i \in 1..CBuffBufSiz |-> buffer[(read + i - 1) % capacity]]

F == INSTANCE Fifo WITH queue <- Content

-----------------------------------------------------------------------------
TypeOK ==
  /\ buffer \in [Slot -> Byte]
  /\ write \in Slot
  /\ read \in Slot \cup {Parked}
  /\ last.op \in {"none", "write", "read"}
  /\ last.count \in 0..capacity
  /\ last.data \in Seq(Byte)

Init ==
  /\ buffer \in [Slot -> Byte]
  /\ write = 0
  /\ read = Parked
  /\ last = F!NoCall

-----------------------------------------------------------------------------
CBuffWriteFull(src) ==
  /\ CheckIfFull
  /\ last' = F!Result("write", 0, << >>)
  /\ UNCHANGED <<buffer, write, read>>

\* Mutant of StartOfData: an empty buffer starts again at the array's start.
StartOfDataReset == IF CBuffIsEmpty THEN 0 ELSE read

\* Where the data begins once a write is under way: an empty buffer takes
\* its read pointer back before it looks at n_bytes.
StartOfData == IF CBuffIsEmpty THEN write ELSE read

Filled(src, n) ==
  [p \in Slot |-> LET i == (p - write) % capacity IN
                  IF i < n THEN src[i + 1] ELSE buffer[p]]

CBuffWrite(src) ==
  LET n == F!Least(Len(src), CBuffFreeSpace) IN
  /\ ~CheckIfFull
  /\ buffer' = Filled(src, n)
  /\ write' = Advance(write, n)
  /\ read' = StartOfData
  /\ last' = F!Result("write", n, << >>)

CBuffReadEmpty(n_bytes) ==
  /\ CBuffIsEmpty
  /\ last' = F!Result("read", 0, << >>)
  /\ UNCHANGED <<buffer, write, read>>

\* The pointer after n bytes: the byte that empties the buffer parks it.
AfterRead(n) ==
  IF n > 0 /\ Advance(read, n) = write THEN Parked ELSE Advance(read, n)

CBuffRead(n_bytes) ==
  LET n == F!Least(n_bytes, CBuffBufSiz) IN
  /\ ~CBuffIsEmpty
  /\ read' = AfterRead(n)
  /\ last' = F!Result("read", n, SubSeq(Content, 1, n))
  /\ UNCHANGED <<buffer, write>>

Next ==
  \/ \E src \in F!Source(MinWrite) : CBuffWriteFull(src) \/ CBuffWrite(src)
  \/ \E n_bytes \in 0..MaxCall : CBuffReadEmpty(n_bytes) \/ CBuffRead(n_bytes)

Spec == Init /\ [][Next]_vars

-----------------------------------------------------------------------------
(* Whatever the calls, and wherever the pointers stand in the array, the   *)
(* buffer behaves as the bounded queue of the header: nothing is lost,     *)
(* repeated or reordered where the data wraps round, where a call stops    *)
(* short, and where the buffer becomes empty or full.                      *)
IsFifo == F!Spec

(* The header says that CBuffWrite returns "The number of bytes actually   *)
(* written" (src/include/cbuffer.h:30) and CBuffBufSiz "the number of      *)
(* occupied bytes" (:48): a write adds what it returns to the size.        *)
SizeCounts ==
  [][last'.op = "write" => CBuffBufSiz' = CBuffBufSiz + last'.count]_vars

=============================================================================
