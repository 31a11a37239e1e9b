---------------------------- MODULE MCScheduler ----------------------------
(***************************************************************************)
(* The instance of Scheduler that TLC checks: three task structs, so that  *)
(* one can run while two compete in the queue, or one be lost while        *)
(* another runs; a short and a long interval; and a clock that lets the    *)
(* short ones repeat before the long one is due.                           *)
(***************************************************************************)
EXTENDS Scheduler

CONSTANTS t1, t2, t3

MCTask     == {t1, t2, t3}
MCInterval == [t \in MCTask |-> IF t = t3 THEN 2 ELSE 1]

=============================================================================
