------------------------------ MODULE MCCBuffer ------------------------------
(***************************************************************************)
(* The instance of CBuffer that TLC checks: two bytes, so that an order    *)
(* can be told, in an array of three, so that full, empty, one and two     *)
(* bytes are different cases at every place of the array; and calls of up  *)
(* to one byte more than fit.                                              *)
(***************************************************************************)
EXTENDS CBuffer

CONSTANTS a, b

MCByte == {a, b}

=============================================================================
