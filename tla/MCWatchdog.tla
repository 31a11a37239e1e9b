----------------------------- MODULE MCWatchdog ------------------------------
(***************************************************************************)
(* The instances of Watchdog that TLC checks.  Three pids hold a client,   *)
(* its WD and one more process: the WD's replacement, or the WD of the     *)
(* client that the WD becomes.  A fourth one lets predecessors pile up.    *)
(***************************************************************************)
EXTENDS WatchdogInvariant, TLC

CONSTANTS p1, p2, p3, p4, path, option

ThreePids == {p1, p2, p3}
FourPids  == {p1, p2, p3, p4}

Argv == <<path, option>>

(* Pids are compared for equality only; not used where liveness is checked.*)
PidSymmetry == Permutations(Pid)
=============================================================================
