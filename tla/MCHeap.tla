------------------------------- MODULE MCHeap --------------------------------
(***************************************************************************)
(* The instance of Heap that TLC checks: two elements of equal keys beside *)
(* a smaller and a larger one, in a heap of up to six: three levels, with  *)
(* an inner node that has two children and one that has one.               *)
(***************************************************************************)
EXTENDS Heap, TLC

CONSTANTS low, mid, same, high

MCElement == {low, mid, same, high}
MCKey == low :> 1 @@ mid :> 2 @@ same :> 2 @@ high :> 3

=============================================================================
