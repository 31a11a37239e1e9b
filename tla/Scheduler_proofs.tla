-------------------------- MODULE Scheduler_proofs ---------------------------
(***************************************************************************)
(* Theorems about Scheduler, for any tasks, intervals and bound on time.   *)
(*                                                                         *)
(* The invariants are proved in layers.  Each layer is inductive once the  *)
(* layers before it are known to hold; their conjunction is the inductive  *)
(* invariant of the module.                                                *)
(***************************************************************************)
EXTENDS Scheduler, TLAPS

-----------------------------------------------------------------------------
(* The layers between the type invariant and the properties.               *)

(* What the flags and cur_task are worth at each point of SchedulerRun.    *)
Phases ==
  /\ pc \in {"sleep", "task"} => cur_task # NoTask
  /\ pc = "loop" => ~to_remove_cur /\ ~to_stop /\ ~stop_called
  /\ pc = "sleep" => ~to_remove_cur /\ ~to_stop /\ ~stop_called
  /\ pc = "task" /\ stop_called => to_stop

(* A UID is handed out once; outside a callback cur_task is NoTask or lost.*)
Bookkeeping ==
  /\ allocated \cup removed \cup lost \subseteq created
  /\ pc \notin {"sleep", "task"} => Current \subseteq lost

(* The note to remove the running task says whether it has been removed.   *)
NoteIsExact ==
  pc \in {"sleep", "task"} => (to_remove_cur <=> cur_task \in removed)

(* While SchedulerRun sleeps, nothing in the queue is due before cur_task. *)
SleepsForFirst ==
  pc = "sleep" => \A u \in pq : next_exec_time[cur_task] <= next_exec_time[u]

(* What is left to sleep leads to the time of the task, but for a second   *)
(* that each signal may have cost.                                         *)
SleepsLongEnough ==
  pc = "sleep" => next_exec_time[cur_task] <= now + time_to_sleep + signals

-----------------------------------------------------------------------------
(* Every step of the scheduler keeps the type invariant. *)
LEMMA TypeStep ==
  ASSUME TypeOK, Phases, [Next]_vars
  PROVE  TypeOK'
<1> USE NoTaskAssumption, IntervalAssumption, MaxTimeAssumption DEF TypeOK,
      Callable, Current, structs, history
<1>1. ASSUME NEW t \in Task, SchedulerAddTask(t) PROVE TypeOK'
  BY <1>1 DEF SchedulerAddTask
<1>2. ASSUME NEW t \in Task, AddTaskTimeFails(t) PROVE TypeOK'
  BY <1>2 DEF AddTaskTimeFails
<1>3. ASSUME NEW t \in Task, RemoveQueued(t) PROVE TypeOK'
  BY <1>3 DEF RemoveQueued
<1>4. ASSUME NEW t \in Task, RemoveCurrent(t) PROVE TypeOK'
  BY <1>4 DEF RemoveCurrent
<1>5. CASE SchedulerClear
  BY <1>5 DEF SchedulerClear
<1>6. CASE SchedulerStop
  BY <1>6 DEF SchedulerStop
<1>7. CASE SchedulerDestroy
  BY <1>7 DEF SchedulerDestroy
<1>8. CASE RunStarts
  BY <1>8 DEF RunStarts, NoteToRemoveReset
<1>9. CASE LoopEnds
  BY <1>9 DEF LoopEnds, Return
<1>10. CASE LoopTimeFails
  BY <1>10 DEF LoopTimeFails, Return
<1>11. ASSUME NEW t \in Task, LoopDequeues(t) PROVE TypeOK'
  BY <1>11 DEF LoopDequeues, TimeToSleep
<1>12. CASE LoopAsserts
  BY <1>12 DEF LoopAsserts
<1>13. CASE TaskStarts
  BY <1>13 DEF TaskStarts, Phases
<1>14. CASE TaskFinishes
  BY <1>14 DEF TaskFinishes, Kept, AllocatedKept, StopOrLoop, Return
<1>15. CASE TaskFails
  BY <1>15 DEF TaskFails, Kept, AllocatedKept, Return
<1>16. CASE TaskRepeats
  <2>1. Kept \in Task
    BY <1>16 DEF TaskRepeats, Kept
  <2>2. UpdatedExecTime(Kept) \in Nat
    BY <2>1 DEF UpdatedExecTime
  <2>3. next_exec_time' \in [Task -> Nat]
    BY <1>16, <2>2 DEF TaskRepeats
  <2>4. QED
    BY <1>16, <2>1, <2>3 DEF TaskRepeats, AllocatedKept, StopOrLoop, Return
<1>17. CASE TaskRepeatsEnqueueFails
  <2>1. Kept \in Task
    BY <1>17 DEF TaskRepeatsEnqueueFails, Kept
  <2>2. UpdatedExecTime(Kept) \in Nat
    BY <2>1 DEF UpdatedExecTime
  <2>3. next_exec_time' \in [Task -> Nat]
    BY <1>17, <2>2 DEF TaskRepeatsEnqueueFails
  <2>4. QED
    BY <1>17, <2>1, <2>3 DEF TaskRepeatsEnqueueFails, AllocatedKept,
       StopOrLoop, Return
<1>18. CASE TaskRepeatsTimeFails
  BY <1>18 DEF TaskRepeatsTimeFails, Kept, AllocatedKept, Return
<1>19. CASE TaskRepeatsAsserts
  BY <1>19 DEF TaskRepeatsAsserts, Kept, AllocatedKept
<1>20. CASE Tick
  BY <1>20 DEF Tick
<1>21. CASE SleepInterrupted
  BY <1>21 DEF SleepInterrupted, Remainder
<1>22. CASE UNCHANGED vars
  BY <1>22 DEF vars
<1>23. QED
  BY <1>1, <1>2, <1>3, <1>4, <1>5, <1>6, <1>7, <1>8, <1>9, <1>10, <1>11,
     <1>12, <1>13, <1>14, <1>15, <1>16, <1>17, <1>18, <1>19, <1>20, <1>21, <1>22
     DEF Next, Call, RunStep, CallbackReturns

(* Every step keeps the phases. *)
LEMMA PhasesStep ==
  ASSUME TypeOK, Phases, [Next]_vars
  PROVE  Phases'
<1> USE NoTaskAssumption DEF TypeOK, Phases, Callable, Current, structs, history
<1>1. ASSUME NEW t \in Task, SchedulerAddTask(t) PROVE Phases'
  BY <1>1 DEF SchedulerAddTask
<1>2. ASSUME NEW t \in Task, AddTaskTimeFails(t) PROVE Phases'
  BY <1>2 DEF AddTaskTimeFails
<1>3. ASSUME NEW t \in Task, RemoveQueued(t) PROVE Phases'
  BY <1>3 DEF RemoveQueued
<1>4. ASSUME NEW t \in Task, RemoveCurrent(t) PROVE Phases'
  BY <1>4 DEF RemoveCurrent
<1>5. CASE SchedulerClear
  BY <1>5 DEF SchedulerClear
<1>6. CASE SchedulerStop
  BY <1>6 DEF SchedulerStop
<1>7. CASE SchedulerDestroy
  BY <1>7 DEF SchedulerDestroy
<1>8. CASE RunStarts
  BY <1>8 DEF RunStarts, NoteToRemoveReset
<1>9. CASE LoopEnds
  BY <1>9 DEF LoopEnds, Return
<1>10. CASE LoopTimeFails
  BY <1>10 DEF LoopTimeFails, Return
<1>11. ASSUME NEW t \in Task, LoopDequeues(t) PROVE Phases'
  BY <1>11 DEF LoopDequeues
<1>12. CASE LoopAsserts
  BY <1>12 DEF LoopAsserts
<1>13. CASE TaskStarts
  BY <1>13 DEF TaskStarts
<1>14. CASE TaskFinishes
  BY <1>14 DEF TaskFinishes, Kept, AllocatedKept, StopOrLoop, Return
<1>15. CASE TaskFails
  BY <1>15 DEF TaskFails, Kept, AllocatedKept, Return
<1>16. CASE TaskRepeats
  BY <1>16 DEF TaskRepeats, Kept, AllocatedKept, StopOrLoop, Return,
     UpdatedExecTime
<1>17. CASE TaskRepeatsEnqueueFails
  BY <1>17 DEF TaskRepeatsEnqueueFails, Kept, AllocatedKept, Return,
     UpdatedExecTime
<1>18. CASE TaskRepeatsTimeFails
  BY <1>18 DEF TaskRepeatsTimeFails, Kept, AllocatedKept, Return
<1>19. CASE TaskRepeatsAsserts
  BY <1>19 DEF TaskRepeatsAsserts, Kept, AllocatedKept
<1>20. CASE Tick
  BY <1>20 DEF Tick
<1>21. CASE SleepInterrupted
  BY <1>21 DEF SleepInterrupted, Remainder
<1>22. CASE UNCHANGED vars
  BY <1>22 DEF vars
<1>23. QED
  BY <1>1, <1>2, <1>3, <1>4, <1>5, <1>6, <1>7, <1>8, <1>9, <1>10, <1>11,
     <1>12, <1>13, <1>14, <1>15, <1>16, <1>17, <1>18, <1>19, <1>20, <1>21, <1>22
     DEF Next, Call, RunStep, CallbackReturns

(* Where SchedulerCreate leaves the scheduler, the first layers hold.      *)
LEMMA TypeInit == Init => TypeOK /\ Phases
<1> SUFFICES ASSUME Init PROVE TypeOK /\ Phases
  OBVIOUS
<1>1. TypeOK
  <2>1. next_exec_time \in [Task -> Nat]
    BY DEF Init
  <2>2. last_due \in Int
    BY DEF Init
  <2>3. QED
    BY <2>1, <2>2 DEF Init, TypeOK
<1>2. Phases
  BY DEF Init, Phases
<1>3. QED
  BY <1>1, <1>2

(* The first layers hold throughout.                                       *)
LEMMA PhasesCorrect == Spec => [](TypeOK /\ Phases)
<1>1. TypeOK /\ Phases /\ [Next]_vars => (TypeOK /\ Phases)'
  BY TypeStep, PhasesStep
<1>2. QED
  BY TypeInit, <1>1, PTL DEF Spec

(* The type invariant of the scheduler: its flags, sets and times keep     *)
(* their types, whatever the application and the callbacks call.           *)
THEOREM TypeCorrect == Spec => []TypeOK
  BY PhasesCorrect, PTL

-----------------------------------------------------------------------------
(* Every step keeps the books: in particular, a cur_task left over from a  *)
(* run is one whose time() failed.                                         *)
LEMMA BookkeepingStep ==
  ASSUME TypeOK, Phases, Ownership, Bookkeeping, [Next]_vars
  PROVE  Bookkeeping'
<1> USE NoTaskAssumption DEF TypeOK, Phases, Ownership, Bookkeeping, Callable,
      Current, structs, history
<1>1. ASSUME NEW t \in Task, SchedulerAddTask(t) PROVE Bookkeeping'
  BY <1>1 DEF SchedulerAddTask
<1>2. ASSUME NEW t \in Task, AddTaskTimeFails(t) PROVE Bookkeeping'
  BY <1>2 DEF AddTaskTimeFails
<1>3. ASSUME NEW t \in Task, RemoveQueued(t) PROVE Bookkeeping'
  BY <1>3 DEF RemoveQueued
<1>4. ASSUME NEW t \in Task, RemoveCurrent(t) PROVE Bookkeeping'
  BY <1>4 DEF RemoveCurrent
<1>5. CASE SchedulerClear
  BY <1>5 DEF SchedulerClear
<1>6. CASE SchedulerStop
  BY <1>6 DEF SchedulerStop
<1>7. CASE SchedulerDestroy
  BY <1>7 DEF SchedulerDestroy
<1>8. CASE RunStarts
  BY <1>8 DEF RunStarts, NoteToRemoveReset
<1>9. CASE LoopEnds
  BY <1>9 DEF LoopEnds, Return
<1>10. CASE LoopTimeFails
  BY <1>10 DEF LoopTimeFails, Return
<1>11. ASSUME NEW t \in Task, LoopDequeues(t) PROVE Bookkeeping'
  BY <1>11 DEF LoopDequeues
<1>12. CASE LoopAsserts
  BY <1>12 DEF LoopAsserts
<1>13. CASE TaskStarts
  BY <1>13 DEF TaskStarts
<1>14. CASE TaskFinishes
  BY <1>14 DEF TaskFinishes, Kept, AllocatedKept, StopOrLoop, Return
<1>15. CASE TaskFails
  BY <1>15 DEF TaskFails, Kept, AllocatedKept, Return
<1>16. CASE TaskRepeats
  BY <1>16 DEF TaskRepeats, Kept, AllocatedKept, StopOrLoop, Return
<1>17. CASE TaskRepeatsEnqueueFails
  BY <1>17 DEF TaskRepeatsEnqueueFails, Kept, AllocatedKept, Return
<1>18. CASE TaskRepeatsTimeFails
  BY <1>18 DEF TaskRepeatsTimeFails, Kept, AllocatedKept, Return
<1>19. CASE TaskRepeatsAsserts
  BY <1>19 DEF TaskRepeatsAsserts, Kept, AllocatedKept
<1>20. CASE Tick
  BY <1>20 DEF Tick
<1>21. CASE SleepInterrupted
  BY <1>21 DEF SleepInterrupted, Remainder
<1>22. CASE UNCHANGED vars
  BY <1>22 DEF vars
<1>23. QED
  BY <1>1, <1>2, <1>3, <1>4, <1>5, <1>6, <1>7, <1>8, <1>9, <1>10, <1>11,
     <1>12, <1>13, <1>14, <1>15, <1>16, <1>17, <1>18, <1>19, <1>20, <1>21, <1>22
     DEF Next, Call, RunStep, CallbackReturns

(* Every step keeps the ownership of structs. *)
LEMMA OwnershipStep ==
  ASSUME TypeOK, Phases, Ownership, Bookkeeping, [Next]_vars
  PROVE  Ownership'
<1> USE NoTaskAssumption DEF TypeOK, Phases, Ownership, Bookkeeping, Callable,
      Current, structs, history
<1>1. ASSUME NEW t \in Task, SchedulerAddTask(t) PROVE Ownership'
  BY <1>1 DEF SchedulerAddTask
<1>2. ASSUME NEW t \in Task, AddTaskTimeFails(t) PROVE Ownership'
  BY <1>2 DEF AddTaskTimeFails
<1>3. ASSUME NEW t \in Task, RemoveQueued(t) PROVE Ownership'
  BY <1>3 DEF RemoveQueued
<1>4. ASSUME NEW t \in Task, RemoveCurrent(t) PROVE Ownership'
  BY <1>4 DEF RemoveCurrent
<1>5. CASE SchedulerClear
  BY <1>5 DEF SchedulerClear
<1>6. CASE SchedulerStop
  BY <1>6 DEF SchedulerStop
<1>7. CASE SchedulerDestroy
  BY <1>7 DEF SchedulerDestroy
<1>8. CASE RunStarts
  BY <1>8 DEF RunStarts, NoteToRemoveReset
<1>9. CASE LoopEnds
  BY <1>9 DEF LoopEnds, Return
<1>10. CASE LoopTimeFails
  BY <1>10 DEF LoopTimeFails, Return
<1>11. ASSUME NEW t \in Task, LoopDequeues(t) PROVE Ownership'
  BY <1>11 DEF LoopDequeues
<1>12. CASE LoopAsserts
  BY <1>12 DEF LoopAsserts
<1>13. CASE TaskStarts
  BY <1>13 DEF TaskStarts
<1>14. CASE TaskFinishes
  BY <1>14 DEF TaskFinishes, Kept, AllocatedKept, StopOrLoop, Return
<1>15. CASE TaskFails
  BY <1>15 DEF TaskFails, Kept, AllocatedKept, Return
<1>16. CASE TaskRepeats
  BY <1>16 DEF TaskRepeats, Kept, AllocatedKept, StopOrLoop, Return
<1>17. CASE TaskRepeatsEnqueueFails
  BY <1>17 DEF TaskRepeatsEnqueueFails, Kept, AllocatedKept, Return
<1>18. CASE TaskRepeatsTimeFails
  BY <1>18 DEF TaskRepeatsTimeFails, Kept, AllocatedKept, Return
<1>19. CASE TaskRepeatsAsserts
  BY <1>19 DEF TaskRepeatsAsserts, Kept, AllocatedKept
<1>20. CASE Tick
  BY <1>20 DEF Tick
<1>21. CASE SleepInterrupted
  BY <1>21 DEF SleepInterrupted, Remainder
<1>22. CASE UNCHANGED vars
  BY <1>22 DEF vars
<1>23. QED
  BY <1>1, <1>2, <1>3, <1>4, <1>5, <1>6, <1>7, <1>8, <1>9, <1>10, <1>11,
     <1>12, <1>13, <1>14, <1>15, <1>16, <1>17, <1>18, <1>19, <1>20, <1>21, <1>22
     DEF Next, Call, RunStep, CallbackReturns

(* No step leaks a struct. *)
LEMMA LeakStep ==
  ASSUME TypeOK, Phases, Ownership, Bookkeeping, NothingLeaks, [Next]_vars
  PROVE  NothingLeaks'
<1> USE NoTaskAssumption DEF TypeOK, Phases, Ownership, Bookkeeping,
      NothingLeaks, Callable, Current, structs, history
<1>1. ASSUME NEW t \in Task, SchedulerAddTask(t) PROVE NothingLeaks'
  BY <1>1 DEF SchedulerAddTask
<1>2. ASSUME NEW t \in Task, AddTaskTimeFails(t) PROVE NothingLeaks'
  BY <1>2 DEF AddTaskTimeFails
<1>3. ASSUME NEW t \in Task, RemoveQueued(t) PROVE NothingLeaks'
  BY <1>3 DEF RemoveQueued
<1>4. ASSUME NEW t \in Task, RemoveCurrent(t) PROVE NothingLeaks'
  BY <1>4 DEF RemoveCurrent
<1>5. CASE SchedulerClear
  BY <1>5 DEF SchedulerClear
<1>6. CASE SchedulerStop
  BY <1>6 DEF SchedulerStop
<1>7. CASE SchedulerDestroy
  BY <1>7 DEF SchedulerDestroy
<1>8. CASE RunStarts
  BY <1>8 DEF RunStarts, NoteToRemoveReset
<1>9. CASE LoopEnds
  BY <1>9 DEF LoopEnds, Return
<1>10. CASE LoopTimeFails
  BY <1>10 DEF LoopTimeFails, Return
<1>11. ASSUME NEW t \in Task, LoopDequeues(t) PROVE NothingLeaks'
  BY <1>11 DEF LoopDequeues
<1>12. CASE LoopAsserts
  BY <1>12 DEF LoopAsserts
<1>13. CASE TaskStarts
  BY <1>13 DEF TaskStarts
<1>14. CASE TaskFinishes
  BY <1>14 DEF TaskFinishes, Kept, AllocatedKept, StopOrLoop, Return
<1>15. CASE TaskFails
  BY <1>15 DEF TaskFails, Kept, AllocatedKept, Return
<1>16. CASE TaskRepeats
  BY <1>16 DEF TaskRepeats, Kept, AllocatedKept, StopOrLoop, Return
<1>17. CASE TaskRepeatsEnqueueFails
  BY <1>17 DEF TaskRepeatsEnqueueFails, Kept, AllocatedKept, Return
<1>18. CASE TaskRepeatsTimeFails
  BY <1>18 DEF TaskRepeatsTimeFails, Kept, AllocatedKept, Return
<1>19. CASE TaskRepeatsAsserts
  BY <1>19 DEF TaskRepeatsAsserts, Kept, AllocatedKept
<1>20. CASE Tick
  BY <1>20 DEF Tick
<1>21. CASE SleepInterrupted
  BY <1>21 DEF SleepInterrupted, Remainder
<1>22. CASE UNCHANGED vars
  BY <1>22 DEF vars
<1>23. QED
  BY <1>1, <1>2, <1>3, <1>4, <1>5, <1>6, <1>7, <1>8, <1>9, <1>10, <1>11,
     <1>12, <1>13, <1>14, <1>15, <1>16, <1>17, <1>18, <1>19, <1>20, <1>21, <1>22
     DEF Next, Call, RunStep, CallbackReturns

(* No step brings a removed task back, or turns its note on another task. *)
LEMMA RemovalStep ==
  ASSUME TypeOK, Phases, Ownership, Bookkeeping, RemovedStaysOut, NoteIsExact,
         [Next]_vars
  PROVE  RemovedStaysOut' /\ NoteIsExact'
<1> USE NoTaskAssumption DEF TypeOK, Phases, Ownership, Bookkeeping,
      RemovedStaysOut, NoteIsExact, Callable, Current, structs, history
<1>1. ASSUME NEW t \in Task, SchedulerAddTask(t)
      PROVE  RemovedStaysOut' /\ NoteIsExact'
  BY <1>1 DEF SchedulerAddTask
<1>2. ASSUME NEW t \in Task, AddTaskTimeFails(t)
      PROVE  RemovedStaysOut' /\ NoteIsExact'
  BY <1>2 DEF AddTaskTimeFails
<1>3. ASSUME NEW t \in Task, RemoveQueued(t)
      PROVE  RemovedStaysOut' /\ NoteIsExact'
  BY <1>3 DEF RemoveQueued
<1>4. ASSUME NEW t \in Task, RemoveCurrent(t)
      PROVE  RemovedStaysOut' /\ NoteIsExact'
  BY <1>4 DEF RemoveCurrent
<1>5. CASE SchedulerClear
  BY <1>5 DEF SchedulerClear
<1>6. CASE SchedulerStop
  BY <1>6 DEF SchedulerStop
<1>7. CASE SchedulerDestroy
  BY <1>7 DEF SchedulerDestroy
<1>8. CASE RunStarts
  BY <1>8 DEF RunStarts, NoteToRemoveReset
<1>9. CASE LoopEnds
  BY <1>9 DEF LoopEnds, Return
<1>10. CASE LoopTimeFails
  BY <1>10 DEF LoopTimeFails, Return
<1>11. ASSUME NEW t \in Task, LoopDequeues(t)
      PROVE  RemovedStaysOut' /\ NoteIsExact'
  BY <1>11 DEF LoopDequeues
<1>12. CASE LoopAsserts
  BY <1>12 DEF LoopAsserts
<1>13. CASE TaskStarts
  BY <1>13 DEF TaskStarts
<1>14. CASE TaskFinishes
  BY <1>14 DEF TaskFinishes, Kept, AllocatedKept, StopOrLoop, Return
<1>15. CASE TaskFails
  BY <1>15 DEF TaskFails, Kept, AllocatedKept, Return
<1>16. CASE TaskRepeats
  BY <1>16 DEF TaskRepeats, Kept, AllocatedKept, StopOrLoop, Return
<1>17. CASE TaskRepeatsEnqueueFails
  BY <1>17 DEF TaskRepeatsEnqueueFails, Kept, AllocatedKept, Return
<1>18. CASE TaskRepeatsTimeFails
  BY <1>18 DEF TaskRepeatsTimeFails, Kept, AllocatedKept, Return
<1>19. CASE TaskRepeatsAsserts
  BY <1>19 DEF TaskRepeatsAsserts, Kept, AllocatedKept
<1>20. CASE Tick
  BY <1>20 DEF Tick
<1>21. CASE SleepInterrupted
  BY <1>21 DEF SleepInterrupted, Remainder
<1>22. CASE UNCHANGED vars
  BY <1>22 DEF vars
<1>23. QED
  BY <1>1, <1>2, <1>3, <1>4, <1>5, <1>6, <1>7, <1>8, <1>9, <1>10, <1>11,
     <1>12, <1>13, <1>14, <1>15, <1>16, <1>17, <1>18, <1>19, <1>20, <1>21, <1>22
     DEF Next, Call, RunStep, CallbackReturns

(* No step dispatches out of order. *)
LEMMA OrderStep ==
  ASSUME TypeOK, Phases, Ownership, Bookkeeping, DispatchInDueOrder,
         SleepsForFirst, SleepsLongEnough, [Next]_vars
  PROVE  DispatchInDueOrder' /\ SleepsForFirst' /\ SleepsLongEnough'
<1> USE NoTaskAssumption, IntervalAssumption DEF TypeOK, Phases, Ownership,
      Bookkeeping, DispatchInDueOrder, SleepsForFirst, SleepsLongEnough,
      Callable, Current, structs, history
<1>1. ASSUME NEW t \in Task, SchedulerAddTask(t)
      PROVE  DispatchInDueOrder' /\ SleepsForFirst' /\ SleepsLongEnough'
  BY <1>1 DEF SchedulerAddTask
<1>2. ASSUME NEW t \in Task, AddTaskTimeFails(t)
      PROVE  DispatchInDueOrder' /\ SleepsForFirst' /\ SleepsLongEnough'
  BY <1>2 DEF AddTaskTimeFails
<1>3. ASSUME NEW t \in Task, RemoveQueued(t)
      PROVE  DispatchInDueOrder' /\ SleepsForFirst' /\ SleepsLongEnough'
  BY <1>3 DEF RemoveQueued
<1>4. ASSUME NEW t \in Task, RemoveCurrent(t)
      PROVE  DispatchInDueOrder' /\ SleepsForFirst' /\ SleepsLongEnough'
  BY <1>4 DEF RemoveCurrent
<1>5. CASE SchedulerClear
  BY <1>5 DEF SchedulerClear
<1>6. CASE SchedulerStop
  BY <1>6 DEF SchedulerStop
<1>7. CASE SchedulerDestroy
  BY <1>7 DEF SchedulerDestroy
<1>8. CASE RunStarts
  BY <1>8 DEF RunStarts, NoteToRemoveReset
<1>9. CASE LoopEnds
  BY <1>9 DEF LoopEnds, Return
<1>10. CASE LoopTimeFails
  BY <1>10 DEF LoopTimeFails, Return
<1>11. ASSUME NEW t \in Task, LoopDequeues(t)
      PROVE  DispatchInDueOrder' /\ SleepsForFirst' /\ SleepsLongEnough'
  BY <1>11 DEF LoopDequeues, First, TimeToSleep
<1>12. CASE LoopAsserts
  BY <1>12 DEF LoopAsserts
<1>13. CASE TaskStarts
  BY <1>13 DEF TaskStarts
<1>14. CASE TaskFinishes
  BY <1>14 DEF TaskFinishes, Kept, AllocatedKept, StopOrLoop, Return
<1>15. CASE TaskFails
  BY <1>15 DEF TaskFails, Kept, AllocatedKept, Return
<1>16. CASE TaskRepeats
  BY <1>16 DEF TaskRepeats, Kept, AllocatedKept, StopOrLoop, Return,
     UpdatedExecTime
<1>17. CASE TaskRepeatsEnqueueFails
  BY <1>17 DEF TaskRepeatsEnqueueFails, Kept, AllocatedKept, Return,
     UpdatedExecTime
<1>18. CASE TaskRepeatsTimeFails
  BY <1>18 DEF TaskRepeatsTimeFails, Kept, AllocatedKept, Return
<1>19. CASE TaskRepeatsAsserts
  BY <1>19 DEF TaskRepeatsAsserts, Kept, AllocatedKept
<1>20. CASE Tick
  BY <1>20 DEF Tick
<1>21. CASE SleepInterrupted
  BY <1>21 DEF SleepInterrupted, Remainder
<1>22. CASE UNCHANGED vars
  BY <1>22 DEF vars
<1>23. QED
  BY <1>1, <1>2, <1>3, <1>4, <1>5, <1>6, <1>7, <1>8, <1>9, <1>10, <1>11,
     <1>12, <1>13, <1>14, <1>15, <1>16, <1>17, <1>18, <1>19, <1>20, <1>21, <1>22
     DEF Next, Call, RunStep, CallbackReturns

-----------------------------------------------------------------------------
(* The inductive invariant. *)
IInv ==
  /\ TypeOK
  /\ Phases
  /\ Ownership
  /\ Bookkeeping
  /\ NothingLeaks
  /\ RemovedStaysOut
  /\ NoteIsExact
  /\ DispatchInDueOrder
  /\ SleepsForFirst
  /\ SleepsLongEnough

(* It holds initially, and every step keeps it. *)
LEMMA Invariance == Spec => []IInv
<1>1. Init => IInv
  <2> SUFFICES ASSUME Init PROVE IInv
    OBVIOUS
  <2>1. TypeOK /\ Phases
    BY TypeInit
  <2>2. Ownership /\ Bookkeeping /\ NothingLeaks
    BY DEF Init, Ownership, Bookkeeping, NothingLeaks, Current
  <2>3. RemovedStaysOut /\ NoteIsExact
    BY DEF Init, RemovedStaysOut, NoteIsExact
  <2>4. DispatchInDueOrder /\ SleepsForFirst /\ SleepsLongEnough
    BY DEF Init, DispatchInDueOrder, SleepsForFirst, SleepsLongEnough, Current
  <2>5. QED
    BY <2>1, <2>2, <2>3, <2>4 DEF IInv
<1>2. IInv /\ [Next]_vars => IInv'
  <2> SUFFICES ASSUME IInv, [Next]_vars PROVE IInv'
    OBVIOUS
  <2> USE DEF IInv
  <2>1. TypeOK' /\ Phases'
    BY TypeStep, PhasesStep
  <2>2. Ownership' /\ Bookkeeping'
    BY OwnershipStep, BookkeepingStep
  <2>3. NothingLeaks'
    BY LeakStep
  <2>4. RemovedStaysOut' /\ NoteIsExact'
    BY RemovalStep
  <2>5. DispatchInDueOrder' /\ SleepsForFirst' /\ SleepsLongEnough'
    BY OrderStep
  <2>6. QED
    BY <2>1, <2>2, <2>3, <2>4, <2>5
<1>3. QED
  BY <1>1, <1>2, PTL DEF Spec

(* No pointer of the scheduler dangles, and none is held twice, through    *)
(* every interleaving of SchedulerRun with what callbacks call.            *)
THEOREM OwnershipCorrect == Spec => []Ownership
<1>1. IInv => Ownership
  BY DEF IInv
<1>2. QED
  BY Invariance, <1>1, PTL

(* A struct no longer reachable from the scheduler is freed, unless the    *)
(* call of time() failed for it.                                           *)
THEOREM NothingLeaksCorrect == Spec => []NothingLeaks
<1>1. IInv => NothingLeaks
  BY DEF IInv
<1>2. QED
  BY Invariance, <1>1, PTL

(* A task reported as removed is neither queued nor picked again.          *)
THEOREM RemovedStaysOutCorrect == Spec => []RemovedStaysOut
<1>1. IInv => RemovedStaysOut
  BY DEF IInv
<1>2. QED
  BY Invariance, <1>1, PTL

(* SchedulerRun acts on a note to remove only for the task that left it.   *)
THEOREM NoteIsForCurrentCorrect == Spec => []NoteIsForCurrent
<1>1. IInv => NoteIsForCurrent
  BY DEF IInv, NoteIsExact, NoteIsForCurrent
<1>2. QED
  BY Invariance, <1>1, PTL

(* Tasks run in the order of their execution times, and none earlier than  *)
(* by one second for each signal that came while it was slept for.         *)
THEOREM DispatchInDueOrderCorrect == Spec => []DispatchInDueOrder
<1>1. IInv => DispatchInDueOrder
  BY DEF IInv
<1>2. QED
  BY Invariance, <1>1, PTL

-----------------------------------------------------------------------------
(* The action properties follow from the invariant, action by action.      *)

(* After a call of SchedulerStop the run is inside the callback that made  *)
(* it, and every way out of the callback honours the flag.                 *)
LEMMA StopStep ==
  ASSUME Phases, Next, InRun, stop_called
  PROVE  (InRun' => pc' = "task") /\ (pc' = "out" => status' # "SUCCESS")
<1>1. pc = "task" /\ to_stop
  BY DEF Phases, InRun
<1>2. CASE Call
  BY <1>1, <1>2 DEF Call, InRun, SchedulerAddTask, AddTaskTimeFails,
     RemoveQueued,
     RemoveCurrent, SchedulerClear, SchedulerStop, SchedulerDestroy, RunStarts
<1>3. CASE RunStep
  BY <1>1, <1>3 DEF RunStep, LoopEnds, LoopTimeFails, LoopDequeues, LoopAsserts,
     TaskStarts
<1>4. CASE CallbackReturns
  BY <1>1, <1>4 DEF CallbackReturns, InRun, TaskFinishes, TaskFails,
     TaskRepeats,
     TaskRepeatsEnqueueFails, TaskRepeatsTimeFails, TaskRepeatsAsserts,
            StopOrLoop,
     Return
<1>5. CASE SleepInterrupted \/ Tick
  BY <1>1, <1>5 DEF SleepInterrupted, Tick
<1>6. QED
  BY <1>2, <1>3, <1>4, <1>5 DEF Next

(* A stop requested by a callback ends the run, and not as a success.      *)
THEOREM StopEndsRunCorrect == Spec => StopEndsRun
<1>1. IInv /\ [Next]_vars =>
        [InRun /\ stop_called =>
           /\ InRun' => pc' = "task"
           /\ pc' = "out" => status' # "SUCCESS"]_vars
  BY StopStep DEF IInv
<1>2. QED
  BY Invariance, <1>1, PTL DEF Spec, StopEndsRun

(* Only the head of the loop reports success.                              *)
LEMMA DrainedStep ==
  ASSUME Phases, NothingLeaks, Next, InRun, pc' = "out", status' = "SUCCESS"
  PROVE  SchedulerIsEmpty /\ allocated \subseteq lost
<1>1. pc # "destroyed"
  BY DEF InRun
<1>2. CASE LoopEnds
  <2>1. SchedulerIsEmpty
    BY <1>2 DEF LoopEnds, Phases
  <2>2. QED
    BY <1>1, <2>1 DEF SchedulerIsEmpty, NothingLeaks, Current
<1>3. CASE Call
  BY <1>3 DEF Call, InRun, Callable, SchedulerAddTask, AddTaskTimeFails,
     RemoveQueued, RemoveCurrent, SchedulerClear, SchedulerStop,
            SchedulerDestroy,
     RunStarts
<1>4. CASE LoopTimeFails \/ LoopAsserts \/ TaskStarts
           \/ \E t \in Task : LoopDequeues(t)
  BY <1>4 DEF LoopTimeFails, LoopDequeues, LoopAsserts, TaskStarts, Return
<1>5. CASE CallbackReturns
  BY <1>5 DEF CallbackReturns, TaskFinishes, TaskFails, TaskRepeats,
     TaskRepeatsEnqueueFails, TaskRepeatsTimeFails, TaskRepeatsAsserts,
            StopOrLoop,
     Return
<1>6. CASE SleepInterrupted \/ Tick
  BY <1>6 DEF SleepInterrupted, Tick, InRun
<1>7. QED
  BY <1>2, <1>3, <1>4, <1>5, <1>6 DEF Next, RunStep

(* A run that reports success leaves no task and no struct behind.         *)
THEOREM SuccessMeansDrainedCorrect == Spec => SuccessMeansDrained
<1>1. IInv /\ [Next]_vars =>
        [InRun /\ pc' = "out" /\ status' = "SUCCESS" =>
           SchedulerIsEmpty /\ allocated \subseteq lost]_vars
  BY DrainedStep DEF IInv
<1>2. QED
  BY Invariance, <1>1, PTL DEF Spec, SuccessMeansDrained

-----------------------------------------------------------------------------
(* The scheduler implements the agenda.                                    *)

(* Every step of the scheduler is one of the agenda, or none. *)
LEMMA AgendaStep ==
  ASSUME IInv, [Next]_vars
  PROVE  [Ag!Next]_(Ag!vars)
<1> USE NoTaskAssumption, IntervalAssumption, MaxTimeAssumption DEF IInv,
      TypeOK, Phases, Callable, Current, structs, history, OnAgenda, Ag!Strike,
      Ag!vars
<1>0. TaskStarts => cur_task \in Task
  BY DEF TaskStarts
<1>1. ASSUME NEW t \in Task, SchedulerAddTask(t) PROVE Ag!Add(t)
  BY <1>1 DEF SchedulerAddTask, Ag!Add, Ownership, Bookkeeping
<1>2. ASSUME NEW t \in Task, AddTaskTimeFails(t) PROVE Ag!Add(t)
  BY <1>2 DEF AddTaskTimeFails, Ag!Add
<1>3. ASSUME NEW t \in Task, RemoveQueued(t) PROVE Ag!Cancel(t)
  BY <1>3 DEF RemoveQueued, Ag!Cancel
<1>4. ASSUME NEW t \in Task, RemoveCurrent(t)
      PROVE Ag!Cancel(t) \/ UNCHANGED Ag!vars
  BY <1>4 DEF RemoveCurrent, Ag!Cancel
<1>5. ASSUME SchedulerClear PROVE Ag!CancelAll
  BY <1>5 DEF SchedulerClear, Ag!CancelAll
<1>6. ASSUME SchedulerStop PROVE UNCHANGED Ag!vars
  BY <1>6 DEF SchedulerStop
<1>7. ASSUME SchedulerDestroy PROVE Ag!CancelAll
  BY <1>7 DEF SchedulerDestroy, Ag!CancelAll
<1>8. ASSUME RunStarts PROVE UNCHANGED Ag!vars
  BY <1>8 DEF RunStarts, NoteToRemoveReset
<1>9. ASSUME LoopEnds \/ LoopTimeFails \/ LoopAsserts
      PROVE UNCHANGED Ag!vars
  BY <1>9 DEF LoopEnds, LoopTimeFails, LoopAsserts, Return
<1>10. ASSUME NEW t \in Task, LoopDequeues(t) PROVE UNCHANGED Ag!vars
  BY <1>10 DEF LoopDequeues
<1>11. ASSUME NEW t \in Task, t = cur_task, TaskStarts PROVE Ag!Dispatch(t)
  BY <1>11 DEF TaskStarts, Ag!Dispatch, SleepsForFirst, Ownership
<1>12. ASSUME TaskFinishes \/ TaskFails \/ TaskRepeatsEnqueueFails
              \/ TaskRepeatsTimeFails \/ TaskRepeatsAsserts
       PROVE Ag!Finish
  BY <1>12 DEF TaskFinishes, TaskFails, TaskRepeatsEnqueueFails,
     TaskRepeatsTimeFails, TaskRepeatsAsserts, Kept, StopOrLoop, Return,
     Ownership, Ag!Finish
<1>13. ASSUME TaskRepeats PROVE Ag!Repeat
  BY <1>13 DEF TaskRepeats, Kept, UpdatedExecTime, StopOrLoop, Return,
     Ownership, Ag!Repeat
<1>14. ASSUME Tick PROVE Ag!Tick
  BY <1>14 DEF Tick, Ag!Tick
<1>15. ASSUME SleepInterrupted \/ UNCHANGED vars PROVE UNCHANGED Ag!vars
  BY <1>15 DEF SleepInterrupted, vars
<1> HIDE DEF IInv, TypeOK, Phases, Callable, Current, structs, history,
      OnAgenda, Ag!Strike, Ag!vars
<1> HIDE NoTaskAssumption, IntervalAssumption, MaxTimeAssumption
<1>16. CASE Call
  BY <1>1, <1>2, <1>3, <1>4, <1>5, <1>6, <1>7, <1>8, <1>16, Zenon
     DEF Call, Ag!Next
<1>17. CASE RunStep
  <2>1. CASE TaskStarts
    BY <1>0, <1>11, <2>1, Zenon DEF Ag!Next
  <2>2. CASE ~TaskStarts
    BY <1>9, <1>10, <1>17, <2>2, Zenon DEF RunStep
  <2>3. QED
    BY <2>1, <2>2
<1>18. CASE CallbackReturns
  BY <1>12, <1>13, <1>18, Zenon DEF CallbackReturns, Ag!Next
<1>19. QED
  BY <1>14, <1>15, <1>16, <1>17, <1>18, Zenon DEF Next, Ag!Next

(* Whatever callbacks do, whatever system call fails and whatever signals  *)
(* come, what the scheduler does amounts to an agenda: of the tasks that   *)
(* are added and not cancelled the earliest is next, and one that repeats  *)
(* is due an interval after its callback returned.                         *)
THEOREM AgendaCorrect == Spec => IsAgenda
<1>1. Init => Ag!Init
  BY DEF Init, Ag!Init, OnAgenda
<1>2. IInv /\ [Next]_vars => [Ag!Next]_(Ag!vars)
  BY AgendaStep
<1>3. QED
  BY Invariance, <1>1, <1>2, PTL DEF Spec, IsAgenda, Ag!Spec
=============================================================================
