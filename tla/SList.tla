-------------------------------- MODULE SList --------------------------------
(***************************************************************************)
(* The singly linked list of src/src/slist.c.  A node has no way back to   *)
(* its predecessor or its list, so elements are inserted and removed by    *)
(* copying a neighbour; and the dummy node behind the last element has the *)
(* list in its data, so that a removal can move the tail of the list.      *)
(*                                                                         *)
(* The lists are used by one thread, and a call is one step.  What free    *)
(* leaves in a node is nobody's business, here NULL.                       *)
(***************************************************************************)
EXTENDS Integers, SequencesExt, Walk

CONSTANTS
  List,         \* the slist structs
  Node,         \* the nodes malloc may return
  NULL,
  Value,        \* what the data pointers of elements point to
  AppendsEmpty  \* may an empty list be appended to another one?

ASSUME NodeAssumption  == NULL \notin Node \cup List
ASSUME ValueAssumption == Value \cap (List \cup {NULL}) = {}
ASSUME FlagAssumption  == AppendsEmpty \in BOOLEAN
ASSUME NodeIsFinite    == IsFiniteSet(Node)

VARIABLES
  head,      \* per list
  tail,      \* per list
  next,      \* per node
  data,      \* per node
  allocated  \* the nodes malloc returned and nobody freed yet

vars == <<head, tail, next, data, allocated>>

Free    == Node \ allocated
Created == {l \in List : head[l] # NULL}

\* The nodes that SListForEach visits from begin to end, and all nodes.
Elements(l) == WalkIn(Node \ {tail[l]}, next, head[l])
Nodes(l)    == ToSet(WalkIn(Node, next, head[l]))

\* The iterators of a list, and where they are in it.
Iter(l) == ToSet(Elements(l)) \cup {tail[l]}
Position(l, iter) ==
  IF iter = tail[l] THEN Len(Elements(l)) + 1
  ELSE CHOOSE i \in 1..Len(Elements(l)) : Elements(l)[i] = iter

-----------------------------------------------------------------------------
(* Whatever is allocated, and nothing else, has data: every dummy, too. *)
TypeOK ==
  /\ head \in [List -> Node \cup {NULL}]
  /\ tail \in [List -> Node \cup {NULL}]
  /\ next \in [Node -> Node \cup {NULL}]
  /\ data \in [Node -> Value \cup List \cup {NULL}]
  /\ allocated \subseteq Node
  /\ \A n \in Node : data[n] = NULL <=> n \notin allocated

Init ==
  /\ head = [l \in List |-> NULL]
  /\ tail = [l \in List |-> NULL]
  /\ next = [n \in Node |-> NULL]
  /\ data = [n \in Node |-> NULL]
  /\ allocated = {}

(* Mutant of SListCreate: the dummy is not told its list. *)
SListCreateAnonymous(l, dummy) ==
  /\ l \notin Created
  /\ dummy \in Free
  /\ head' = [head EXCEPT ![l] = dummy]
  /\ tail' = [tail EXCEPT ![l] = dummy]
  /\ next' = [next EXCEPT ![dummy] = NULL]
  /\ allocated' = allocated \cup {dummy}
  /\ UNCHANGED data

(* malloc returns dummy.  If it, or the other malloc, fails nothing        *)
(* changes: the one that succeeded is freed.                               *)
SListCreate(l, dummy) ==
  /\ l \notin Created
  /\ dummy \in Free
  /\ head' = [head EXCEPT ![l] = dummy]
  /\ tail' = [tail EXCEPT ![l] = dummy]
  /\ next' = [next EXCEPT ![dummy] = NULL]
  /\ data' = [data EXCEPT ![dummy] = l]
  /\ allocated' = allocated \cup {dummy}

(* Mutant of Freed: without the free after the loop. *)
FreedInLoop(l) == {n \in Nodes(l) : next[n] # NULL}

(* The nodes that SListDestroy frees: those that have a next, in its loop, *)
(* and then the last one.                                                  *)
Freed(l) == Nodes(l)

SListDestroy(l) ==
  LET freed == Freed(l) IN
  /\ l \in Created
  /\ head' = [head EXCEPT ![l] = NULL]
  /\ tail' = [tail EXCEPT ![l] = NULL]
  /\ next' = [n \in Node |-> IF n \in freed THEN NULL ELSE next[n]]
  /\ data' = [n \in Node |-> IF n \in freed THEN NULL ELSE data[n]]
  /\ allocated' = allocated \ freed

(* Mutant of TailAfterInsert: the tail does not follow the dummy. *)
TailAfterInsertKept(l, iter, n) == tail[l]

(* The dummy has been copied to the new node if that has no next. *)
TailAfterInsert(l, iter, n) == IF next[iter] = NULL THEN n ELSE tail[l]

(* The node of iter is copied to the new node behind it, and takes the     *)
(* new element.  If malloc fails nothing changes.                          *)
SListInsertBefore(l, iter, n, v) ==
  /\ n \in Free
  /\ next' = [next EXCEPT ![n] = next[iter], ![iter] = n]
  /\ data' = [data EXCEPT ![n] = data[iter], ![iter] = v]
  /\ tail' = [tail EXCEPT ![l] = TailAfterInsert(l, iter, n)]
  /\ allocated' = allocated \cup {n}
  /\ UNCHANGED head

(* The next node is copied to that of iter and freed.  If it was a dummy,  *)
(* its data says whose tail must follow it.                                *)
SListRemove(iter) ==
  LET second == next[iter] IN
  /\ next' = [next EXCEPT ![iter] = next[second], ![second] = NULL]
  /\ data' = [data EXCEPT ![iter] = data[second], ![second] = NULL]
  /\ tail' = IF next[second] = NULL
             THEN [tail EXCEPT ![data[second]] = iter] ELSE tail
  /\ allocated' = allocated \ {second}
  /\ UNCHANGED head

SListIterSetData(iter, v) ==
  /\ data' = [data EXCEPT ![iter] = v]
  /\ UNCHANGED <<head, tail, next, allocated>>

(* Mutant of SListAppend: dest's new dummy keeps saying that it is src's.  *)
SListAppendForeignDummy(dest, src) ==
  /\ next' = [next EXCEPT ![tail[dest]] = next[head[src]],
                          ![head[src]] = NULL]
  /\ data' = [data EXCEPT ![tail[dest]] = data[head[src]],
                          ![head[src]] = src]
  /\ tail' = [tail EXCEPT ![dest] = tail[src], ![src] = head[src]]
  /\ UNCHANGED <<head, allocated>>

(* The first node of src is copied to the dummy of dest.  Then the dummy   *)
(* of src is that of dest, and the first node of src is the dummy of src.  *)
SListAppend(dest, src) ==
  /\ next' = [next EXCEPT ![tail[dest]] = next[head[src]],
                          ![head[src]] = NULL]
  /\ data' = [data EXCEPT ![tail[dest]] = data[head[src]],
                          ![tail[src]] = dest,
                          ![head[src]] = src]
  /\ tail' = [tail EXCEPT ![dest] = tail[src], ![src] = head[src]]
  /\ UNCHANGED <<head, allocated>>

MayAppend(dest, src) ==
  /\ dest # src
  /\ ~AppendsEmpty => Elements(src) # << >>

CallOn(l) ==
  \/ SListDestroy(l)
  \/ \E iter \in Iter(l), n \in Free, v \in Value :
       SListInsertBefore(l, iter, n, v)
  \/ \E iter \in ToSet(Elements(l)) : SListRemove(iter)
  \/ \E iter \in ToSet(Elements(l)), v \in Value : SListIterSetData(iter, v)

Next ==
  \/ \E l \in List, n \in Node : SListCreate(l, n)
  \/ \E l \in Created : CallOn(l)
  \/ \E dest, src \in Created : MayAppend(dest, src) /\ SListAppend(dest, src)

Spec == Init /\ [][Next]_vars

-----------------------------------------------------------------------------
(* The last node that can be reached from the head of a list is its tail,  *)
(* and knows so.  A walk from begin to end ends, SListFind, which looks    *)
(* for a node without a next, returns the end, and SListRemove moves the   *)
(* tail of the right list, although insertions, removals and appends make  *)
(* another node the dummy all the time.                                    *)
TailIsLast ==
  \A l \in Created :
    /\ tail[l] \in Nodes(l)
    /\ next[tail[l]] = NULL
    /\ data[tail[l]] = l

(* Every node that was allocated is in one list, and freed with it. *)
NodesAreOwned ==
  /\ \A l, k \in Created : l # k => Nodes(l) \cap Nodes(k) = {}
  /\ allocated = UNION {Nodes(l) : l \in Created}

(* The inductive invariant: what a call finds when it starts. *)
IInv == TypeOK /\ TailIsLast /\ NodesAreOwned

Content(l) ==
  LET nodes == Elements(l) IN [i \in DOMAIN nodes |-> data[nodes[i]]]
Contents == [l \in List |-> Content(l)]

L == INSTANCE Lists WITH seq <- Contents

DoesAsItSays ==
  LET now == Contents  then == Contents' IN
  /\ \A l \in List :
       \/ \E n \in Node : SListCreate(l, n)
       \/ SListDestroy(l)
       => then = L!Destroy(now, l)
  /\ \A l \in Created : \A iter \in Iter(l), n \in Free, v \in Value :
       SListInsertBefore(l, iter, n, v) =>
         then = L!Insert(now, l, Position(l, iter), v)
  /\ \A l \in Created : \A iter \in ToSet(Elements(l)) :
       /\ SListRemove(iter) => then = L!Erase(now, l, Position(l, iter))
       /\ \A v \in Value :
            SListIterSetData(iter, v) =>
              then = L!SetData(now, l, Position(l, iter), v)
  /\ \A dest, src \in Created :
       MayAppend(dest, src) /\ SListAppend(dest, src) =>
         then = L!Join(now, dest, src)

(* A list is the sequence of values that the calls make it, and the place  *)
(* where they do is that of the iterator, though what moves there is not   *)
(* the element but its neighbour.                                          *)
CallsDoAsTheySay == [][DoesAsItSays]_vars

(* slist.h:141 says that SListAppend appends the source list to the        *)
(* destination list, and that the source list will be empty.               *)
AppendJoins ==
  [][\A dest, src \in Created :
       MayAppend(dest, src) /\ SListAppend(dest, src) =>
         Contents' = L!Join(Contents, dest, src)]_vars

=============================================================================
