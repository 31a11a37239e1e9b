-------------------------------- MODULE Fifo --------------------------------
(***************************************************************************)
(* What src/include/cbuffer.h promises: a queue of at most capacity bytes. *)
(* A write appends as many bytes as there is room for and a read takes     *)
(* away as many as there are, both in order, and both return their number. *)
(***************************************************************************)
EXTENDS Integers, Sequences

CONSTANTS
  Byte,      \* the values of a byte
  capacity,  \* what the buffer was created with
  MaxCall    \* bound: the n_bytes of a call

VARIABLES
  queue,  \* the bytes written and not yet read
  last    \* the last call: its name, what it returned, the bytes it read

vars == <<queue, last>>

Least(m, n)         == IF m <= n THEN m ELSE n
Result(op, n, data) == [op |-> op, count |-> n, data |-> data]
NoCall              == Result("none", 0, << >>)
Source(least)       == UNION {[1..n -> Byte] : n \in least..MaxCall}

Init == queue = << >> /\ last = NoCall

Write(src) ==
  LET n == Least(Len(src), capacity - Len(queue)) IN
  /\ queue' = queue \o SubSeq(src, 1, n)
  /\ last' = Result("write", n, << >>)

Read(n_bytes) ==
  LET n == Least(n_bytes, Len(queue)) IN
  /\ queue' = SubSeq(queue, n + 1, Len(queue))
  /\ last' = Result("read", n, SubSeq(queue, 1, n))

Next == \/ \E src \in Source(0) : Write(src)
        \/ \E n_bytes \in 0..MaxCall : Read(n_bytes)

Spec == Init /\ [][Next]_vars

=============================================================================
