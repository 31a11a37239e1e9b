-------------------------------- MODULE Lists --------------------------------
(***************************************************************************)
(* What src/include/dlist.h and src/include/slist.h promise: some lists of *)
(* values, in which a place is given by an iterator.  Here an iterator is  *)
(* a position, and one past the last element is the end of the list.       *)
(*                                                                         *)
(* An operation is the lists that it leaves of the lists s it is given.    *)
(***************************************************************************)
EXTENDS Integers, SequencesExt

CONSTANTS
  List,   \* the lists
  Value   \* what the data pointers of elements point to

VARIABLE seq  \* per list, the values in it

Index(s, l) == 1..Len(s[l])
Iter(s, l)  == 1..Len(s[l]) + 1

Init == seq = [l \in List |-> << >>]

Insert(s, l, i, v)  == [s EXCEPT ![l] = InsertAt(@, i, v)]
Erase(s, l, i)      == [s EXCEPT ![l] = RemoveAt(@, i)]
SetData(s, l, i, v) == [s EXCEPT ![l][i] = v]
Destroy(s, l)       == [s EXCEPT ![l] = << >>]

\* What stands in [i, j), before i, and from j on.
Part(q, i, j) == SubSeq(q, i, j - 1)
Before(q, i)  == Part(q, 1, i)
From(q, j)    == Part(q, j, Len(q) + 1)

(* The segment [i, j) of k is moved before place d of another list. *)
Splice(s, l, d, k, i, j) ==
  [s EXCEPT ![k] = Before(@, i) \o From(@, j),
            ![l] = Before(@, d) \o Part(s[k], i, j) \o From(@, d)]

(* The segment [i, j) is moved before place d of its own list. *)
MoveDown(s, l, d, i, j) ==
  [s EXCEPT ![l] = Before(@, d) \o Part(@, i, j) \o Part(@, d, i)
                   \o From(@, j)]
MoveUp(s, l, d, i, j) ==
  [s EXCEPT ![l] = Before(@, i) \o Part(@, j, d) \o Part(@, i, j)
                   \o From(@, d)]

(* The values of [i, j) that are in match.  They are copied to the end of  *)
(* another list, or the first n of them, if there is no memory for more.   *)
Found(s, k, i, j, match) ==
  LET part == Part(s[k], i, j)
      found[n \in 0..Len(part)] ==
        IF n = 0 THEN << >>
        ELSE IF part[n] \in match
             THEN Append(found[n - 1], part[n]) ELSE found[n - 1]
  IN  found[Len(part)]
MultiFind(s, l, found, n) == [s EXCEPT ![l] = @ \o SubSeq(found, 1, n)]

Join(s, l, k) == [s EXCEPT ![l] = @ \o s[k], ![k] = << >>]

(* A call on one list, or two, makes t of s. *)
Change(s, t, l) ==
  \/ t = Destroy(s, l)
  \/ \E i \in Index(s, l) : t = Erase(s, l, i)
  \/ \E i \in Iter(s, l), v \in Value : t = Insert(s, l, i, v)
  \/ \E i \in Index(s, l), v \in Value : t = SetData(s, l, i, v)
  \/ \E i, j, d \in Iter(s, l) :
       i < j /\ \/ d < i /\ t = MoveDown(s, l, d, i, j)
                \/ j < d /\ t = MoveUp(s, l, d, i, j)

Exchange(s, t, l, k) ==
  \/ t = Join(s, l, k)
  \/ \E i, j \in Iter(s, k) :
       i <= j /\ \/ \E d \in Iter(s, l) : t = Splice(s, l, d, k, i, j)
                 \/ \E match \in SUBSET Value :
                      LET found == Found(s, k, i, j, match)
                      IN  \E n \in 0..Len(found) :
                            t = MultiFind(s, l, found, n)

Call(s, t) ==
  \/ \E l \in List : Change(s, t, l)
  \/ \E l, k \in List : l # k /\ Exchange(s, t, l, k)

Spec == Init /\ [][Call(seq, seq')]_seq

=============================================================================
