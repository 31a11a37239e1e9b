------------------------------ MODULE Scheduler ------------------------------
(***************************************************************************)
(* The task scheduler: src/src/scheduler.c on top of src/src/task.c.       *)
(*                                                                         *)
(* The scheduler is single threaded.  What makes it hard is that           *)
(* SchedulerRun calls the task, and the task calls back into the           *)
(* scheduler (add, remove, clear, stop) while SchedulerRun is on the       *)
(* stack.  So SchedulerRun is cut where other code runs or time passes:    *)
(* at the head of its loop, in sleep() and in the callback.                *)
(*                                                                         *)
(* A task struct and its UID are one identity, a member of Task: UIDs are  *)
(* never reused.  A task's repeat_interval_sec never changes and is the    *)
(* constant Interval.  The queue is a set from which a task of least       *)
(* execution time is taken; the order among equals is left open, because   *)
(* the sorted list under the queue is not part of the repository.          *)
(***************************************************************************)
EXTENDS Integers

CONSTANTS
  Task,      \* the task structs that may be allocated, one per UID
  NoTask,    \* the NULL task pointer
  Interval,  \* per task, the interval_in_sec the application adds it with
  MaxTime    \* bound: the clock stops here

ASSUME NoTaskAssumption   == NoTask \notin Task
ASSUME IntervalAssumption == Interval \in [Task -> Nat \ {0}]
ASSUME MaxTimeAssumption  == MaxTime \in Nat

VARIABLES
  now,              \* what time(NULL) returns
  pq,               \* the tasks in the priority queue
  cur_task,         \* struct scheduler: the task being run, or NoTask
  to_remove_cur,    \* struct scheduler: free cur_task when it returns
  to_stop,          \* struct scheduler: SchedulerStop was called
  next_exec_time,   \* struct task, per task
  allocated,        \* task structs malloc returned and nobody freed yet
  pc,               \* where SchedulerRun stands, "out" when it is not running
  time_to_sleep,    \* HandleExecTimeAndSleep: what is left of its sleep()
  status            \* what the last SchedulerRun returned

(* History variables: the code has no such state, the properties need it.  *)
VARIABLES
  created,      \* tasks SchedulerAddTask ever allocated
  removed,      \* tasks a remove or clear reported as gone
  lost,         \* tasks whose own call of time() failed
  signals,      \* how often a signal has cut the current sleep short
  last_due,     \* when the task dispatched last was due, by those signals
  stop_called   \* SchedulerStop was called since SchedulerRun started

structs == <<pq, cur_task, to_remove_cur, to_stop, next_exec_time, allocated>>
history == <<created, removed, lost, signals, last_due, stop_called>>
vars    == <<now, structs, pc, time_to_sleep, status, history>>

InRun    == pc \in {"loop", "sleep", "task"}
Current  == {cur_task} \ {NoTask}
Callable == pc \in {"out", "task"}   \* the application or a callback runs

-----------------------------------------------------------------------------
TypeOK ==
  /\ now \in Nat
  /\ pq \subseteq Task
  /\ cur_task \in Task \cup {NoTask}
  /\ to_remove_cur \in BOOLEAN
  /\ to_stop \in BOOLEAN
  /\ next_exec_time \in [Task -> Nat]
  /\ allocated \subseteq Task
  /\ pc \in {"out", "loop", "sleep", "task",
             "assert_task", "assert_pq", "destroyed"}
  /\ status \in {"none", "SUCCESS", "STOP", "TASK_FAIL", "SYSTEM_FAIL"}
  /\ created \subseteq Task
  /\ removed \subseteq Task
  /\ lost \subseteq Task
  /\ time_to_sleep \in Nat
  /\ signals \in Nat
  /\ last_due \in Int
  /\ stop_called \in BOOLEAN

(* SchedulerCreate *)
Init ==
  /\ now = 0
  /\ pq = {}
  /\ cur_task = NoTask
  /\ to_remove_cur = FALSE
  /\ to_stop = FALSE
  /\ next_exec_time = [t \in Task |-> 0]
  /\ allocated = {}
  /\ pc = "out"
  /\ status = "none"
  /\ created = {}
  /\ removed = {}
  /\ lost = {}
  /\ time_to_sleep = 0
  /\ signals = 0
  /\ last_due = 0
  /\ stop_called = FALSE

-----------------------------------------------------------------------------
(* The calls open to the application and to a running callback.            *)

(* SchedulerAddTask.  An attempt that fails for want of a UID or of queue  *)
(* memory gives the struct back and changes nothing.                       *)
SchedulerAddTask(t) ==
  /\ Callable
  /\ t \in Task \ created
  /\ created' = created \cup {t}
  /\ allocated' = allocated \cup {t}
  /\ pq' = pq \cup {t}
  /\ next_exec_time' = [next_exec_time EXCEPT ![t] = now + Interval[t]]
  /\ UNCHANGED <<now, cur_task, to_remove_cur, to_stop, pc, time_to_sleep,
                 status, removed, lost, signals, last_due, stop_called>>

(* SchedulerAddTask when time() fails in TaskCreate: the struct is not     *)
(* freed, and nobody holds a pointer to it.                                *)
AddTaskTimeFails(t) ==
  /\ Callable
  /\ t \in Task \ created
  /\ created' = created \cup {t}
  /\ allocated' = allocated \cup {t}
  /\ lost' = lost \cup {t}
  /\ UNCHANGED <<now, pq, cur_task, to_remove_cur, to_stop, next_exec_time, pc,
                 time_to_sleep, status, removed, signals, last_due,
                 stop_called>>

(* SchedulerRemoveTask of a queued task frees it. *)
RemoveQueued(t) ==
  /\ Callable
  /\ t \in pq
  /\ pq' = pq \ {t}
  /\ allocated' = allocated \ {t}
  /\ removed' = removed \cup {t}
  /\ UNCHANGED <<now, cur_task, to_remove_cur, to_stop, next_exec_time,
                 pc, time_to_sleep, status, created, lost, signals, last_due,
                 stop_called>>

(* Mutant of RemoveCurrent: the running task is freed at once. *)
RemoveCurrentFrees(t) ==
  /\ Callable
  /\ t \notin pq
  /\ t \in Current
  /\ allocated' = allocated \ {t}
  /\ removed' = removed \cup {t}
  /\ UNCHANGED <<now, pq, cur_task, to_remove_cur, to_stop, next_exec_time,
                 pc, time_to_sleep, status, created, lost, signals, last_due,
                 stop_called>>

(* SchedulerRemoveTask of cur_task leaves a note for SchedulerRun.  Any    *)
(* other UID is refused and changes nothing.                               *)
RemoveCurrent(t) ==
  /\ Callable
  /\ t \notin pq
  /\ t \in Current
  /\ to_remove_cur' = TRUE
  /\ removed' = removed \cup {t}
  /\ UNCHANGED <<now, pq, cur_task, to_stop, next_exec_time, allocated, pc,
                 time_to_sleep, status, created, lost, signals, last_due,
                 stop_called>>

(* Mutant of SchedulerClear: the tasks are taken out of the queue, as      *)
(* PQClear would, and not destroyed.                                       *)
SchedulerClearKeepsStructs ==
  /\ Callable
  /\ pq' = {}
  /\ to_remove_cur' = (to_remove_cur \/ cur_task # NoTask)
  /\ removed' = removed \cup pq \cup Current
  /\ UNCHANGED <<now, cur_task, to_stop, next_exec_time, allocated,
                 pc, time_to_sleep, status, created, lost, signals, last_due,
                 stop_called>>

SchedulerClear ==
  /\ Callable
  /\ pq' = {}
  /\ allocated' = allocated \ pq
  /\ to_remove_cur' = (to_remove_cur \/ cur_task # NoTask)
  /\ removed' = removed \cup pq \cup Current
  /\ UNCHANGED <<now, cur_task, to_stop, next_exec_time, pc,
                 time_to_sleep, status, created, lost, signals, last_due,
                 stop_called>>

SchedulerStop ==
  /\ Callable
  /\ to_stop' = TRUE
  /\ stop_called' = TRUE
  /\ UNCHANGED <<now, pq, cur_task, to_remove_cur, next_exec_time, allocated,
                 pc, time_to_sleep, status, created, removed, lost, signals,
                 last_due>>

(* SchedulerDestroy, which only the application may call. *)
SchedulerDestroy ==
  /\ pc = "out"
  /\ pq' = {}
  /\ allocated' = allocated \ pq
  /\ to_remove_cur' = (to_remove_cur \/ cur_task # NoTask)
  /\ removed' = removed \cup pq \cup Current
  /\ pc' = "destroyed"
  /\ UNCHANGED <<now, cur_task, to_stop, next_exec_time, time_to_sleep, status,
                 created, lost, signals, last_due, stop_called>>

-----------------------------------------------------------------------------
(* SchedulerRun.                                                           *)

SchedulerIsEmpty == pq = {} /\ cur_task = NoTask

(* Mutant of First: the operands of PriorityFunc are swapped. *)
FirstSwapped(t) == \A u \in pq : next_exec_time[u] <= next_exec_time[t]

(* PriorityFunc: a task goes before another if it is due earlier. *)
First(t) == \A u \in pq : next_exec_time[t] <= next_exec_time[u]

(* HandleExecTimeAndSleep: how long there is to sleep for a task. *)
TimeToSleep(t) ==
  IF next_exec_time[t] > now THEN next_exec_time[t] - now ELSE 0

(* Mutant of Remainder: a sleep that a signal cut short is not resumed.    *)
NoRemainder == 0

(* What sleep() returns when a signal is caught: the whole seconds that    *)
(* are left.  The fraction of a second that is left, too, is lost.         *)
Remainder == time_to_sleep - 1

(* Mutant of NoteToRemoveReset: an old note survives into the next run.    *)
NoteToRemoveKept == to_remove_cur

(* The value SchedulerRun starts to_remove_cur with. *)
NoteToRemoveReset == FALSE

RunStarts ==
  /\ pc = "out"
  /\ to_stop' = FALSE
  /\ to_remove_cur' = NoteToRemoveReset
  /\ stop_called' = FALSE
  /\ pc' = "loop"
  /\ UNCHANGED <<now, pq, cur_task, next_exec_time, allocated, time_to_sleep,
                 status, created, removed, lost, signals, last_due>>

(* SchedulerRun returns; what it leaves in the struct is up to the caller. *)
Return(s) ==
  /\ pc' = "out"
  /\ status' = s

LoopEnds ==
  /\ pc = "loop"
  /\ SchedulerIsEmpty \/ to_stop
  /\ Return("SUCCESS")
  /\ UNCHANGED <<now, structs, time_to_sleep, history>>

(* CheckAndToggleStop: time() failed. *)
LoopTimeFails ==
  /\ pc = "loop"
  /\ ~SchedulerIsEmpty /\ ~to_stop
  /\ to_stop' = TRUE
  /\ Return("SYSTEM_FAIL")
  /\ UNCHANGED <<now, pq, cur_task, to_remove_cur, next_exec_time, allocated,
                 time_to_sleep, history>>

(* PQDequeue into cur_task, whatever cur_task pointed to before. *)
LoopDequeues(t) ==
  /\ pc = "loop"
  /\ ~SchedulerIsEmpty /\ ~to_stop
  /\ t \in pq
  /\ First(t)
  /\ pq' = pq \ {t}
  /\ cur_task' = t
  /\ time_to_sleep' = TimeToSleep(t)
  /\ signals' = 0
  /\ pc' = "sleep"
  /\ UNCHANGED <<now, to_remove_cur, to_stop, next_exec_time, allocated, status,
                 created, removed, lost, last_due, stop_called>>

(* A stale cur_task hides that the queue is empty: PQPeek's assert fails.  *)
LoopAsserts ==
  /\ pc = "loop"
  /\ ~SchedulerIsEmpty /\ ~to_stop
  /\ pq = {}
  /\ pc' = "assert_pq"
  /\ UNCHANGED <<now, structs, time_to_sleep, status, history>>

(* A signal is caught during sleep(), which is called again for what it    *)
(* returns; what time it is is not looked up.                              *)
SleepInterrupted ==
  /\ pc = "sleep"
  /\ time_to_sleep > 0
  /\ time_to_sleep' = Remainder
  /\ signals' = signals + 1
  /\ UNCHANGED <<now, structs, pc, status, created, removed, lost, last_due,
                 stop_called>>

(* sleep() is over and TaskExecute calls task_op. *)
TaskStarts ==
  /\ pc = "sleep"
  /\ time_to_sleep = 0
  /\ last_due' = next_exec_time[cur_task] - signals
  /\ signals' = 0
  /\ pc' = "task"
  /\ UNCHANGED <<now, structs, time_to_sleep, status, created, removed, lost,
                 stop_called>>

(* Mutant of Kept: the note to remove the running task is overlooked.      *)
KeptIgnoringNote == cur_task

(* The task SchedulerRun goes on with once it has looked at to_remove_cur, *)
(* and the structs that are left then.                                     *)
Kept          == IF to_remove_cur THEN NoTask ELSE cur_task
AllocatedKept == IF to_remove_cur THEN allocated \ {cur_task} ELSE allocated

(* Mutants of UpdatedExecTime: swapped operands; a time left as it was.    *)
ExecTimeSwapped(t) == Interval[t] - now
ExecTimeKept(t)    == next_exec_time[t]

(* TaskUpdateExecuteTime *)
UpdatedExecTime(t) == now + Interval[t]

(* Mutant of StopOrLoop: the flag is left to the head of the loop.         *)
OnlyLoop == pc' = "loop" /\ UNCHANGED <<to_stop, status>>

(* The last statement of the loop body. *)
StopOrLoop ==
  IF to_stop
    THEN to_stop' = FALSE /\ Return("STOP")
    ELSE to_stop' = FALSE /\ pc' = "loop" /\ UNCHANGED status

(* The callback returns 0: do not repeat. *)
TaskFinishes ==
  /\ pc = "task"
  /\ allocated' = AllocatedKept \ {Kept}
  /\ cur_task' = NoTask
  /\ to_remove_cur' = FALSE
  /\ StopOrLoop
  /\ UNCHANGED <<now, pq, next_exec_time, time_to_sleep, history>>

(* The callback returns -1: failure. *)
TaskFails ==
  /\ pc = "task"
  /\ allocated' = AllocatedKept \ {Kept}
  /\ cur_task' = NoTask
  /\ to_remove_cur' = FALSE
  /\ Return("TASK_FAIL")
  /\ UNCHANGED <<now, pq, to_stop, next_exec_time, time_to_sleep, history>>

(* The callback returns 1: TaskUpdateExecuteTime and PQEnqueue. *)
TaskRepeats ==
  /\ pc = "task"
  /\ Kept # NoTask
  /\ next_exec_time' = [next_exec_time EXCEPT ![Kept] = UpdatedExecTime(Kept)]
  /\ pq' = pq \cup {Kept}
  /\ allocated' = AllocatedKept
  /\ cur_task' = NoTask
  /\ to_remove_cur' = FALSE
  /\ StopOrLoop
  /\ UNCHANGED <<now, time_to_sleep, history>>

(* ... PQEnqueue finds no memory: the task is destroyed. *)
TaskRepeatsEnqueueFails ==
  /\ pc = "task"
  /\ Kept # NoTask
  /\ next_exec_time' = [next_exec_time EXCEPT ![Kept] = UpdatedExecTime(Kept)]
  /\ allocated' = AllocatedKept \ {Kept}
  /\ cur_task' = NoTask
  /\ to_remove_cur' = FALSE
  /\ Return("SYSTEM_FAIL")
  /\ UNCHANGED <<now, pq, to_stop, time_to_sleep, history>>

(* ... time() fails: cur_task keeps pointing to a task that is not queued. *)
TaskRepeatsTimeFails ==
  /\ pc = "task"
  /\ Kept # NoTask
  /\ lost' = lost \cup {Kept}
  /\ Return("SYSTEM_FAIL")
  /\ UNCHANGED <<now, structs, time_to_sleep, created, removed, signals,
                 last_due, stop_called>>

(* ... and the task had removed itself, or cleared the scheduler: the      *)
(* assertion of TaskUpdateExecuteTime meets a NULL task.                   *)
TaskRepeatsAsserts ==
  /\ pc = "task"
  /\ Kept = NoTask
  /\ allocated' = AllocatedKept
  /\ cur_task' = NoTask
  /\ to_remove_cur' = FALSE
  /\ pc' = "assert_task"
  /\ UNCHANGED <<now, pq, to_stop, next_exec_time, time_to_sleep, status,
                 history>>

-----------------------------------------------------------------------------
(* The clock advances on its own, and sleep() by it; the process may be    *)
(* delayed for longer than it sleeps.                                      *)
Tick ==
  /\ now < MaxTime
  /\ now' = now + 1
  /\ time_to_sleep' = IF time_to_sleep > 0 THEN time_to_sleep - 1 ELSE 0
  /\ UNCHANGED <<structs, pc, status, history>>

Call ==
  \/ \E t \in Task : SchedulerAddTask(t)
  \/ \E t \in Task : AddTaskTimeFails(t)
  \/ \E t \in Task : RemoveQueued(t)
  \/ \E t \in Task : RemoveCurrent(t)
  \/ SchedulerClear
  \/ SchedulerStop
  \/ SchedulerDestroy
  \/ RunStarts

(* What SchedulerRun does without waiting for anybody but the clock. *)
RunStep ==
  \/ LoopEnds
  \/ LoopTimeFails
  \/ \E t \in Task : LoopDequeues(t)
  \/ LoopAsserts
  \/ TaskStarts

CallbackReturns ==
  \/ TaskFinishes
  \/ TaskFails
  \/ TaskRepeats
  \/ TaskRepeatsEnqueueFails
  \/ TaskRepeatsTimeFails
  \/ TaskRepeatsAsserts

Next == Call \/ RunStep \/ CallbackReturns \/ SleepInterrupted \/ Tick

(* A running process keeps running, the clock advances, and a task is "a   *)
(* short call back function" (scheduler.h): it returns.  Nobody has to     *)
(* call anything, or to send a signal.                                     *)
Fairness ==
  /\ WF_vars(RunStep)
  /\ WF_vars(CallbackReturns)
  /\ WF_vars(Tick)

Spec == Init /\ [][Next]_vars /\ Fairness

-----------------------------------------------------------------------------
(* Safety.                                                                 *)

(* Every pointer the scheduler holds is to a live struct, and to no struct *)
(* twice: the running task is out of the queue, whatever it removes,       *)
(* clears or adds in its callback.                                         *)
Ownership ==
  /\ pq \subseteq allocated
  /\ cur_task # NoTask => cur_task \in allocated \ pq

(* Every struct is reachable from the scheduler until it is freed, except  *)
(* those whose call of time() failed; after SchedulerDestroy only those    *)
(* are left.                                                               *)
NothingLeaks ==
  allocated \ (IF pc = "destroyed" THEN {} ELSE pq \cup Current) \subseteq lost

(* A task that SchedulerRemoveTask or SchedulerClear reported as gone is   *)
(* never queued, and never picked to be run, again - not even when it asks *)
(* to be repeated after it has removed itself.                             *)
RemovedStaysOut ==
  removed \cap (pq \cup (IF pc = "sleep" THEN {cur_task} ELSE {})) = {}

(* A note to remove the running task was left by that task: it never       *)
(* survives into the next task or the next run, where it would free a task *)
(* nobody removed.                                                         *)
NoteIsForCurrent ==
  pc \in {"sleep", "task"} /\ to_remove_cur => cur_task \in removed

(* Tasks are dispatched in the order of their execution times, whatever    *)
(* the callbacks add while they run; and none of them earlier than by one  *)
(* second for each signal that came while SchedulerRun slept for it.       *)
DispatchInDueOrder ==
  /\ last_due <= now
  /\ \A t \in pq \cup Current : last_due <= next_exec_time[t]

(* The assertions under SchedulerRun never fail: a task that is asked to   *)
(* be repeated is there (task.c:88), and SchedulerRun takes a task from    *)
(* the queue only if there is one (pqueue.c:104).                          *)
AssertionsHold == pc \notin {"assert_task", "assert_pq"}

-----------------------------------------------------------------------------
(* Action properties.                                                      *)

(* Once a callback has called SchedulerStop, its return ends the run: no   *)
(* other task starts, and the run does not report that all is done.        *)
StopEndsRun ==
  [][InRun /\ stop_called =>
       /\ InRun' => pc' = "task"
       /\ pc' = "out" => status' # "SUCCESS"]_vars

(* A run that reports success leaves nothing behind: no task is queued or  *)
(* current, and no struct is left but those whose call of time() failed.   *)
SuccessMeansDrained ==
  [][InRun /\ pc' = "out" /\ status' = "SUCCESS" =>
       SchedulerIsEmpty /\ allocated \subseteq lost]_vars

-----------------------------------------------------------------------------
(* The abstract specification.  A task is on the agenda while it is queued *)
(* or SchedulerRun sleeps for it, and its time matters only then.          *)

OnAgenda == pq \cup (IF pc = "sleep" THEN {cur_task} ELSE {})

Ag == INSTANCE Agenda WITH
  agenda    <- OnAgenda,
  due       <- [t \in Task |-> IF t \in OnAgenda THEN next_exec_time[t] ELSE 0],
  current   <- IF pc = "task" THEN cur_task ELSE NoTask,
  cancelled <- pc = "task" /\ to_remove_cur,
  added     <- created

(* Whatever callbacks add, remove, clear and stop, whichever system call   *)
(* fails and whatever signals come: the scheduler carries out an agenda.   *)
IsAgenda == Ag!Spec

-----------------------------------------------------------------------------
(* Liveness.                                                               *)

(* A task queued during a run leaves the queue - dispatched, or removed -  *)
(* unless the run ends first: no task starves behind tasks that repeat.    *)
NoStarvation ==
  \A t \in Task :
    (InRun /\ t \in pq /\ next_exec_time[t] <= MaxTime)
      ~> (t \notin pq \/ ~InRun)
=============================================================================
