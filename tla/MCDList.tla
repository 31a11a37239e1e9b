------------------------------- MODULE MCDList -------------------------------
(***************************************************************************)
(* The instance of DList that TLC checks: two lists, between which a       *)
(* segment can be spliced or copied, and enough nodes for a segment of two *)
(* in the middle of a list, or before or behind its destination.           *)
(***************************************************************************)
EXTENDS DList, TLC

CONSTANTS l1, l2, n1, n2, n3, n4, u, v

MCList  == {l1, l2}
MCNode  == {n1, n2, n3, n4}
MCValue == {u, v}

Symmetry == Permutations(MCNode)

=============================================================================
