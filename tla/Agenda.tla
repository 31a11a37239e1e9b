------------------------------- MODULE Agenda --------------------------------
(***************************************************************************)
(* What the calls of src/include/scheduler.h amount to: an agenda of       *)
(* tasks, each due at a time.  They are carried out one at a time, the     *)
(* earliest first, and one that repeats is due again an interval after it  *)
(* ended - unless it was cancelled meanwhile.                              *)
(*                                                                         *)
(* A repeat is counted as src/src/task.c:95 does, not from the time it was *)
(* due, as src/docs/architecture.md:32 has it.  How long the scheduler     *)
(* waits for a task is not said here: a signal cuts that short.            *)
(***************************************************************************)
EXTENDS Integers

CONSTANTS
  Task,
  NoTask,
  Interval  \* per task

VARIABLES
  now,
  agenda,     \* the tasks to be carried out
  due,        \* per task, when: 0 if it is not on the agenda
  current,    \* the task that is being carried out, or NoTask
  cancelled,  \* it must not come back
  added       \* the tasks there have been: each is added once

vars == <<now, agenda, due, current, cancelled, added>>

Init ==
  /\ now \in Nat
  /\ agenda = {}
  /\ due = [t \in Task |-> 0]
  /\ current = NoTask
  /\ cancelled = FALSE
  /\ added = {}

Add(t) ==
  /\ t \notin added
  /\ added' = added \cup {t}
  /\ \/ /\ agenda' = agenda \cup {t}
        /\ due' = [due EXCEPT ![t] = now + Interval[t]]
     \/ UNCHANGED <<agenda, due>>
  /\ UNCHANGED <<now, current, cancelled>>

Strike(gone) ==
  /\ agenda' = agenda \ gone
  /\ due' = [t \in Task |-> IF t \in gone THEN 0 ELSE due[t]]

Cancel(t) ==
  /\ \/ Strike({t} \cap agenda) /\ UNCHANGED cancelled
     \/ t = current /\ cancelled' = TRUE /\ UNCHANGED <<agenda, due>>
  /\ UNCHANGED <<now, current, added>>

CancelAll ==
  /\ Strike(agenda)
  /\ cancelled' = (current # NoTask)
  /\ UNCHANGED <<now, current, added>>

Dispatch(t) ==
  /\ current = NoTask
  /\ t \in agenda
  /\ \A u \in agenda : due[t] <= due[u]
  /\ Strike({t})
  /\ current' = t
  /\ UNCHANGED <<now, cancelled, added>>

Finish ==
  /\ current # NoTask
  /\ current' = NoTask
  /\ cancelled' = FALSE
  /\ UNCHANGED <<now, agenda, due, added>>

Repeat ==
  /\ current # NoTask
  /\ ~cancelled
  /\ agenda' = agenda \cup {current}
  /\ due' = [due EXCEPT ![current] = now + Interval[current]]
  /\ current' = NoTask
  /\ UNCHANGED <<now, cancelled, added>>

Tick == now' = now + 1 /\ UNCHANGED <<agenda, due, current, cancelled, added>>

Next ==
  \/ \E t \in Task : Add(t) \/ Cancel(t) \/ Dispatch(t)
  \/ CancelAll
  \/ Finish
  \/ Repeat
  \/ Tick

Spec == Init /\ [][Next]_vars

=============================================================================
