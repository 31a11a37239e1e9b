-------------------------------- MODULE Walk ---------------------------------
(***************************************************************************)
(* Walking along the nodes of a list, as the loops of src/src/dlist.c and  *)
(* src/src/slist.c do: from a pointer to the one that nx has for it, until *)
(* the pointer is to something else than one of some nodes.                *)
(***************************************************************************)
EXTENDS Integers, Sequences, FiniteSets

(* The nodes that are found from p on.  As many steps as there are nodes   *)
(* find the end of every list that has one.                                *)
WalkIn(nodes, nx, p) ==
  LET places == {p} \cup nodes \cup {nx[q] : q \in nodes}
      found[left \in 0..Cardinality(nodes)] ==
        [q \in places |->
           IF q \in nodes /\ left > 0
           THEN <<q>> \o found[left - 1][nx[q]] ELSE << >>]
  IN  found[Cardinality(nodes)][p]

=============================================================================
