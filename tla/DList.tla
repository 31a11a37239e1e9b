-------------------------------- MODULE DList --------------------------------
(***************************************************************************)
(* The doubly linked list of src/src/dlist.c.  A list is a struct with two *)
(* dummy nodes, head and tail; an element is a node malloc returned; and   *)
(* an iterator is a pointer to an element or to the tail.                  *)
(*                                                                         *)
(* The lists are used by one thread, and a call is one step.  What free    *)
(* leaves in a node is nobody's business, here NULL.                       *)
(***************************************************************************)
EXTENDS Integers, SequencesExt, Walk

CONSTANTS
  List,         \* the dlist structs
  Node,         \* the elements malloc may return
  NULL,
  Value,        \* what the data pointers of elements point to
  MovesNothing  \* may DListSplice be called where there is nothing to move?

HeadOf(l) == <<l, "head">>
TailOf(l) == <<l, "tail">>
Dummy     == List \X {"head", "tail"}
Place     == Node \cup Dummy

ASSUME NodeAssumption == Node \cap Dummy = {} /\ NULL \notin Place
ASSUME NodeIsFinite   == IsFiniteSet(Node) /\ IsFiniteSet(List)
ASSUME FlagAssumption == MovesNothing \in BOOLEAN

VARIABLES
  next,       \* per node and dummy
  prev,       \* per node and dummy
  data,       \* per node
  allocated,  \* the nodes malloc returned and nobody freed yet
  created     \* the lists between DListCreate and DListDestroy

vars == <<next, prev, data, allocated, created>>

Free == Node \ allocated

-----------------------------------------------------------------------------
(* Walking along a list, as DListForEach, DListFind and DListCount do.     *)

Elements(l) == WalkIn(Node, next, next[HeadOf(l)])

\* The iterators of a list, and where they are in it.
Iter(l) == ToSet(Elements(l)) \cup {TailOf(l)}
Position(l, iter) ==
  IF iter = TailOf(l) THEN Len(Elements(l)) + 1
  ELSE CHOOSE i \in 1..Len(Elements(l)) : Elements(l)[i] = iter

\* The elements of [from, to), and whether they are a range at all.
Segment(l, from, to) ==
  SubSeq(Elements(l), Position(l, from), Position(l, to) - 1)
InOrder(l, from, to) == Position(l, from) <= Position(l, to)

-----------------------------------------------------------------------------
(* Every element, every head and no tail of a list has a next, and so with *)
(* prev, heads and tails swapped.                                          *)
TypeOK ==
  /\ next \in [Place -> Place \cup {NULL}]
  /\ prev \in [Place -> Place \cup {NULL}]
  /\ data \in [Node -> Value \cup {NULL}]
  /\ allocated \subseteq Node
  /\ created \subseteq List
  /\ \A p \in Place :
       /\ next[p] = NULL <=> p \notin allocated \cup {HeadOf(l) : l \in created}
       /\ prev[p] = NULL <=> p \notin allocated \cup {TailOf(l) : l \in created}

Init ==
  /\ next = [p \in Place |-> NULL]
  /\ prev = [p \in Place |-> NULL]
  /\ data = [n \in Node |-> NULL]
  /\ allocated = {}
  /\ created = {}

(* Mutant of DListCreate: the prev of the tail is not set. *)
DListCreateOneWay(l) ==
  /\ l \notin created
  /\ next' = [next EXCEPT ![HeadOf(l)] = TailOf(l), ![TailOf(l)] = NULL]
  /\ created' = created \cup {l}
  /\ UNCHANGED <<prev, data, allocated>>

DListCreate(l) ==
  /\ l \notin created
  /\ next' = [next EXCEPT ![HeadOf(l)] = TailOf(l), ![TailOf(l)] = NULL]
  /\ prev' = [prev EXCEPT ![TailOf(l)] = HeadOf(l), ![HeadOf(l)] = NULL]
  /\ created' = created \cup {l}
  /\ UNCHANGED <<data, allocated>>

(* Mutant of Freed: the loop looks one node too far ahead. *)
FreedButLast(l) == {n \in ToSet(Elements(l)) : next[n] # TailOf(l)}

(* The nodes that DListDestroy frees: those that have a next. *)
Freed(l) == ToSet(Elements(l))

DListDestroy(l) ==
  LET freed == Freed(l) IN
  /\ l \in created
  /\ next' = [p \in Place |-> IF p \in freed \cup {HeadOf(l)} THEN NULL
                              ELSE next[p]]
  /\ prev' = [p \in Place |-> IF p \in freed \cup {TailOf(l)} THEN NULL
                              ELSE prev[p]]
  /\ data' = [n \in Node |-> IF n \in freed THEN NULL ELSE data[n]]
  /\ allocated' = allocated \ freed
  /\ created' = created \ {l}

(* malloc returns n.  If it returns NULL nothing changes. *)
DListInsertBefore(iter, n, v) ==
  /\ n \in Free
  /\ next' = [next EXCEPT ![n] = iter, ![prev[iter]] = n]
  /\ prev' = [prev EXCEPT ![n] = prev[iter], ![iter] = n]
  /\ data' = [data EXCEPT ![n] = v]
  /\ allocated' = allocated \cup {n}
  /\ UNCHANGED created

(* Mutant of DListRemove: the prev of the next node stays. *)
DListRemoveOneWay(iter) ==
  /\ next' = [next EXCEPT ![prev[iter]] = next[iter], ![iter] = NULL]
  /\ prev' = [prev EXCEPT ![iter] = NULL]
  /\ data' = [data EXCEPT ![iter] = NULL]
  /\ allocated' = allocated \ {iter}
  /\ UNCHANGED created

DListRemove(iter) ==
  /\ next' = [next EXCEPT ![prev[iter]] = next[iter], ![iter] = NULL]
  /\ prev' = [prev EXCEPT ![next[iter]] = prev[iter], ![iter] = NULL]
  /\ data' = [data EXCEPT ![iter] = NULL]
  /\ allocated' = allocated \ {iter}
  /\ UNCHANGED created

(* Mutant of DListPushFront: copied from DListPushBack. *)
DListPushFrontBack(l, n, v) == DListInsertBefore(TailOf(l), n, v)

DListPushBack(l, n, v)  == DListInsertBefore(TailOf(l), n, v)
DListPushFront(l, n, v) == DListInsertBefore(next[HeadOf(l)], n, v)

\* On an empty list these would remove a dummy, which is undefined.
DListPopBack(l) == prev[TailOf(l)] \in Node /\ DListRemove(prev[TailOf(l)])
DListPopFront(l) == next[HeadOf(l)] \in Node /\ DListRemove(next[HeadOf(l)])

DListIterSetData(iter, v) ==
  /\ data' = [data EXCEPT ![iter] = v]
  /\ UNCHANGED <<next, prev, allocated, created>>

(* Mutant of DListSplice: prev[to] is read after it has been written. *)
DListSpliceLateRead(dest, from, to) ==
  /\ next' = [next EXCEPT ![prev[dest]] = from,
                          ![prev[from]] = dest]
  /\ prev' = [prev EXCEPT ![to] = prev[from],
                          ![from] = prev[dest],
                          ![dest] = prev[from]]
  /\ UNCHANGED <<data, allocated, created>>

(* The pointers are read before the first of them is written. *)
DListSplice(dest, from, to) ==
  /\ next' = [next EXCEPT ![prev[from]] = to,
                          ![prev[dest]] = from,
                          ![prev[to]] = dest]
  /\ prev' = [prev EXCEPT ![to] = prev[from],
                          ![from] = prev[dest],
                          ![dest] = prev[to]]
  /\ UNCHANGED <<data, allocated, created>>

(* The nodes of a segment whose value is in match, in their order. *)
Found(segment, match) ==
  LET found[i \in 0..Len(segment)] ==
        IF i = 0 THEN << >>
        ELSE IF data[segment[i]] \in match
             THEN Append(found[i - 1], segment[i]) ELSE found[i - 1]
  IN  found[Len(segment)]

(* DListPushBack of each value in match, until there is no memory: the     *)
(* nodes it gets are new, and all that is found if it never fails.         *)
DListMultiFind(l, segment, match, new) ==
  LET found == Found(segment, match)
      chain == <<prev[TailOf(l)]>> \o new \o <<TailOf(l)>>
      At(p) == CHOOSE i \in DOMAIN chain : chain[i] = p
  IN
  /\ Len(new) <= Len(found)
  /\ next' = [p \in Place |-> IF p \in ToSet(chain) \ {TailOf(l)}
                              THEN chain[At(p) + 1] ELSE next[p]]
  /\ prev' = [p \in Place |-> IF p \in ToSet(chain) \ {prev[TailOf(l)]}
                              THEN chain[At(p) - 1] ELSE prev[p]]
  /\ data' = [n \in Node |-> IF n \in ToSet(new) THEN data[found[At(n) - 1]]
                             ELSE data[n]]
  /\ allocated' = allocated \cup ToSet(new)
  /\ UNCHANGED created

-----------------------------------------------------------------------------
(* The calls whose behaviour the header defines.                           *)

(* src_to does not come before src_from, and dest is not one of the nodes  *)
(* that are taken out.  The header asks for no more, and so it allows an   *)
(* empty segment and one that ends at dest already: with MovesNothing.     *)
MaySplice(l, dest, k, from, to) ==
  /\ InOrder(k, from, to)
  /\ l = k => dest \notin ToSet(Segment(k, from, to))
  /\ ~MovesNothing => from # to /\ dest # to

Insertion(l) ==
  \E n \in Node, v \in Value :
    \/ \E iter \in Iter(l) : DListInsertBefore(iter, n, v)
    \/ DListPushBack(l, n, v)
    \/ DListPushFront(l, n, v)

Removal(l) ==
  \/ \E iter \in ToSet(Elements(l)) : DListRemove(iter)
  \/ DListPopBack(l)
  \/ DListPopFront(l)

Splicing(l, k) ==
  \E dest \in Iter(l), from, to \in Iter(k) :
    MaySplice(l, dest, k, from, to) /\ DListSplice(dest, from, to)

MultiFinding(l, k) ==
  \E from, to \in Iter(k), match \in SUBSET Value :
  \E nodes \in SUBSET Free : \E new \in SetToSeqs(nodes) :
    /\ l # k
    /\ InOrder(k, from, to)
    /\ DListMultiFind(l, Segment(k, from, to), match, new)

Next ==
  \/ \E l \in List : DListCreate(l) \/ DListDestroy(l)
  \/ \E l \in created :
       \/ Insertion(l)
       \/ Removal(l)
       \/ \E n \in ToSet(Elements(l)), v \in Value : DListIterSetData(n, v)
  \/ \E l, k \in created : Splicing(l, k) \/ MultiFinding(l, k)

Spec == Init /\ [][Next]_vars

-----------------------------------------------------------------------------
(* The two directions agree: whoever is somebody's next has it as its      *)
(* prev, whichever links an insertion, a removal or a splice changes - if  *)
(* there is something for the splice to move.                              *)
Mirrored ==
  /\ \A p \in Place : next[p] # NULL => prev[next[p]] = p
  /\ \A p \in Place : prev[p] # NULL => next[prev[p]] = p

(* Every node that was allocated is in one list, once, and so is freed     *)
(* with it: no copy that ran out of memory, and no splice that has         *)
(* something to move, loses a node or leaves it in two lists.              *)
NodesAreOwned ==
  /\ \A l \in List : Cardinality(ToSet(Elements(l))) = Len(Elements(l))
  /\ \A l, k \in List :
       l # k => ToSet(Elements(l)) \cap ToSet(Elements(k)) = {}
  /\ allocated = UNION {ToSet(Elements(l)) : l \in created}

(* A walk along a list ends at its own tail, not at another list's, and    *)
(* not in the middle of nowhere.  By dlist.h:107 a splice that has nothing *)
(* to move is a call like any other, and it should hold after one, too.    *)
EndsAtTail ==
  \A l \in created : next[Last(<<HeadOf(l)>> \o Elements(l))] = TailOf(l)

(* The inductive invariant: what a call finds when it starts. *)
IInv == TypeOK /\ Mirrored /\ NodesAreOwned /\ EndsAtTail

Content(l) ==
  LET nodes == Elements(l) IN [i \in DOMAIN nodes |-> data[nodes[i]]]

Contents == [l \in List |-> Content(l)]

L == INSTANCE Lists WITH seq <- Contents

(* From begin to end, a list is the sequence of values that some calls of  *)
(* the header would make it, in whatever order calls come, from whatever   *)
(* place of one list a splice moves something to a place of another.       *)
IsLists == L!Spec

DoesAsItSays ==
  LET now == Contents  then == Contents' IN
  /\ \A l \in List :
       DListCreate(l) \/ DListDestroy(l) => then = L!Destroy(now, l)
  /\ \A l \in created, n \in Free, v \in Value :
       /\ DListPushFront(l, n, v) => then = L!Insert(now, l, 1, v)
       /\ DListPushBack(l, n, v) =>
            then = L!Insert(now, l, Len(now[l]) + 1, v)
       /\ \A iter \in Iter(l) :
            DListInsertBefore(iter, n, v) =>
              then = L!Insert(now, l, Position(l, iter), v)
  /\ \A l \in created :
       /\ DListPopFront(l) => then = L!Erase(now, l, 1)
       /\ DListPopBack(l) => then = L!Erase(now, l, Len(now[l]))
       /\ \A iter \in ToSet(Elements(l)) :
            /\ DListRemove(iter) =>
                 then = L!Erase(now, l, Position(l, iter))
            /\ \A v \in Value :
                 DListIterSetData(iter, v) =>
                   then = L!SetData(now, l, Position(l, iter), v)
  /\ \A l, k \in created : \A dest \in Iter(l), from, to \in Iter(k) :
       MaySplice(l, dest, k, from, to) /\ DListSplice(dest, from, to) =>
         LET d == Position(l, dest)
             i == Position(k, from)
             j == Position(k, to)
         IN  then = IF l # k THEN L!Splice(now, l, d, k, i, j)
                    ELSE IF d < i THEN L!MoveDown(now, l, d, i, j)
                    ELSE L!MoveUp(now, l, d, i, j)

(* And it is what this very call makes it: the place of the iterator in    *)
(* the list, and no other, is where the elements come, go or change - with *)
(* a splice, if MaySplice allows it.                                       *)
CallsDoAsTheySay == [][DoesAsItSays]_vars

=============================================================================
