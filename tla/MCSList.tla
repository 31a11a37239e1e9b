------------------------------- MODULE MCSList -------------------------------
(***************************************************************************)
(* The instance of SList that TLC checks: two lists, each with its dummy,  *)
(* and four elements between them, so that two can be appended to two.     *)
(***************************************************************************)
EXTENDS SList, TLC

CONSTANTS l1, l2, n1, n2, n3, n4, n5, n6, u, v

MCList  == {l1, l2}
MCNode  == {n1, n2, n3, n4, n5, n6}
MCValue == {u, v}

Symmetry == Permutations(MCNode)

=============================================================================
