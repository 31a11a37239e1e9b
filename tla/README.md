# A TLA+ model of the scheduler and the watchdog

This directory holds TLA+ specifications of ds-scheduler-watchdog, the TLC
configurations that model-check them, and proofs checked by TLAPS. Paths like
`scheduler.c` are those under `src/src/` of the repository; `watchdog_app.c` is
in `src/examples/`.

## The system

| part | state | operations | used by |
|---|---|---|---|
| scheduler (`scheduler.c`) | the queue, `cur_task`, `to_remove_cur`, `to_stop` | create, destroy, add, remove, clear, stop, run, empty?, count | application, watchdog |
| task (`task.c`) | the callback, its interval and next execution time, a UID | create, destroy, execute, update time | scheduler |
| priority queue (`pqueue.c`) | a sorted list that is not in the repository | enqueue, dequeue, peek, erase, clear | scheduler |
| UID (`uid.c`) | a counter per process | create, compare | task |
| watchdog in the client (`watchdog.c`) | `g_misses`, `g_should_stop`, a semaphore, the thread, `struct watchdog` | `MakeMeImmortal`, `DoNotResuscitate`, the thread, two tasks, a handler | application |
| watchdog tasks (`watchdog_utils.c`) | the same struct and counter | three tasks, a handler, stop | client and WD |
| WD process (`watchdog_app.c`) | the same struct and counter | boot, greeting, exec of the client, a handler | forked by the client |
| circular buffer, heap, doubly and singly linked list | themselves | containers | nobody in `src/` but their tests |

**How they interact.** `SchedulerRun` calls a task's callback, and the callback
calls the scheduler: it adds, removes (itself, too), clears and stops. The client
runs a scheduler in a thread of its own, WD in its main thread. Client and WD
share nothing but signals: SIGUSR1 says "I am alive", SIGUSR2 says "stop".
Either one that finds the other silent sends it SIGUSR2 and replaces it: the
client forks and the child executes WD, WD executes the client in its own place.

**What is hard.** Re-entrancy of the scheduler, and its early returns when a
system call fails in the middle; two processes, a thread, three handlers and the
kernel interleaved at every system call; a decision ("silent", "exists", "my
child") acted on after it has become stale; the death of a process, or a failing
fork, at any point; stopping a system that is made to resist being stopped.

**What makes each part correct.** *Scheduler*: no task struct is used after it
is freed, freed twice or lost; a removed task does not come back; tasks go in
the order of their times, none starves, and none is earlier than the signals that
cut the sleep short explain; a stop ends the run, and success means that everything
is done. *Watchdog*: silence is noticed in bounded
time; a process at work is not killed; there are never two clients nor two WDs;
only one's own child is signalled and waited for; a crash is recovered from;
`DoNotResuscitate` ends, and leaves no WD. *Containers*: each implements the
sequence, queue or order it promises.

`PROJECT.json` lists the hazards one by one, with the line where each bites
and the property that would catch it.

## The modules

### Scheduler

One scheduler, one thread. `pc` says where `SchedulerRun` stands: `"out"` (not
running), `"loop"` (loop head), `"sleep"` (in `HandleExecTimeAndSleep`),
`"task"` (in the callback), or in one of the two assertions it can hit.
Everything between two of these points is one action, because no other code can
run in between.

- `SchedulerAddTask`, `RemoveQueued`/`RemoveCurrent` (the two ways
  `SchedulerRemoveTask` can succeed), `SchedulerClear` and `SchedulerStop` may be
  called whenever the application or a callback has control (`Callable`);
  `SchedulerDestroy` and `RunStarts` only outside a run. A callback is any finite
  sequence of such calls.
- `LoopEnds`, `LoopTimeFails`, `LoopDequeues` and `LoopAsserts` are the ways
  through the head of the loop.
- `time_to_sleep` is what is left of the `sleep()` in `HandleExecTimeAndSleep`; time
  (`Tick`) shortens it, and `TaskStarts` is its end. A signal (`SleepInterrupted`) ends
  the call, which is repeated for the whole seconds that it returns: the rest of the
  current second is lost (`Remainder`), and the clock is not read again.
- `TaskFinishes`, `TaskFails` and the four `TaskRepeats...` are what follows a
  callback that returns 0, -1 or 1, each including the treatment of
  `to_remove_cur` before it and of `to_stop` after it.
- A failing `time()` is modelled at each of its three calls, a failing enqueue
  where it changes something. A failing `malloc` in `TaskCreate` is not: the code
  writes through the pointer first.
- `allocated` is the heap. `created`, `removed`, `lost`, `signals`, `last_due` and
  `stop_called` are history variables; `signals` counts those of the current sleep.

Abstracted: a UID is the identity of its task and never used twice; the queue is
a set of which *some* task of least execution time is taken, because the order
among equals is up to the missing sorted list; times are integers without a
width; the application does not call `SchedulerRun` from a callback.

### Watchdog

Any number of processes, each running one program after another. `stage` is the program
and its position, cut where another process, the main thread or a signal handler can
make a difference; `parent`, `user1` (a pending SIGUSR1) and `sending` (whom a dying
process is sending one) are the kernel's tables; `mem` is what the program remembers
(target, misses, scheduled tasks, whether WD has answered, whether to stop), and is
fresh after `execv`.

- `MakeMeImmortal`, `BlockAllExceptUser`, `SetInitialSH`, `RunScheduler`: the
  client's start. Each of them opens or closes a window in which a SIGUSR1 kills.
- `ChildExecs`, `SetHandlers`, `TargetParent`, `Hello...`: the start of WD.
- `Round` begins an interval; the tasks that are then due run once each in any
  order. All tasks are added with the same interval, so this is what module
  Scheduler gives them.
- `IncCntTSK`, `SendSignal1TSK`/`SendFindsNobody`, `Alright`/`Suspects` (the two
  branches of `ReviveIfNeededTSK`), `StartMonitoring`/`WdIsLate` (those of
  `WaitForWatchdogAppTSK`), then `KillTarget`, then `ReviveClient`, `ReviveWatchdog`,
  `WaitReforks`, `WaitFindsNoChild` or a fork failure. The look at the counter, the
  signal and the fork or exec are three steps: a handler may reset the counter
  between the first two, and others run between all of them.
- `WatchdogStop`, `StopFails`: what every task does first when `g_should_stop` is
  set. `DoNotResuscitate` sets it. `ThreadReturns` is the blocking `waitpid` of the thread
  with the join that waits for it; it fails, and `EXIT_IF_BAD` ends the client, if there
  is no child (`ThreadExits`) or a SIGUSR1 comes (`WaitInterrupted`): the handlers are
  set without `SA_RESTART`.
- `HandleUser1`, `DieOfUser1`, `DieOfUser2`: signals. They are taken some time
  after they are sent, but before the process does anything else. Nobody blocks
  SIGUSR2 or survives it, so a process that was sent one is `"dying"`: it exists and
  can be waited for, and its memory no longer matters. But it may be inside a `kill()`
  of its own: then that signal is still sent (`sending`, `LastSignal`). If that one is a
  SIGUSR2, it is for its receiver what `Crash` is.
- `Crash` and the two fork failures are the environment, up to `MaxCrashes` and
  `MaxForkFails`. `Die`, `Exec`, `Exists`, `Receivers` and `Children` are the kernel:
  zombies, adoption by init, and pids that are used again as soon as they are free.

- `argv` in `mem` is what main was given. `ChildExecs` hands WD `CreateArgv` of
  the client's (path, interval, limit and number of arguments, then these; numbers as the
  digits that `ItoaIMP` writes), `ReviveClient` hands the client what follows.

Abstracted: the interval and the limit are the same whenever the client calls
`MakeMeImmortal`; the semaphore is `answered`; signals from outside the group. A failing
`sem_init`, `sigaction` or `exec` ends the process and is in that a crash. Other failing
calls, of which the code returns FAILURE or TASK_FAILURE, are left out, see *What is not
modelled*.

### CBuffer and Fifo

`CBuffer` is `cbuffer.c`: `buffer`, and the pointers `write` and `read` as offsets into
it, `read` being `Parked` on the struct when the buffer is empty. Each call is one
action, or two where it returns early (`CBuffWriteFull`, `CBuffReadEmpty`); its loop
over bytes is what it does to the array and the pointers at once. `last` holds what the
call returned. `Fifo` is the bounded queue that `cbuffer.h` promises; `CBuffer` implements
it with `queue <- Content`, if callers do not write zero bytes (`MinWrite = 1`).

### Agenda

What the calls of `scheduler.h` amount to: tasks with due times, carried out one at a
time, the earliest first; one that repeats is due again an interval after its callback
has ended (`task.c:95`), unless it was cancelled. It does not say how long the scheduler
waits for a task: a signal cuts that short, and `DispatchInDueOrder` says by how
much. `Scheduler` implements it (`IsAgenda`) with the queue and the task it sleeps for as
the agenda, and the note to remove the running task as its cancellation. A failing
system call is an addition that does not happen, or a task that does not come back.

### DList, SList and Lists

`Lists` is what both headers promise: some sequences of values, and one operator per
call that says which sequences it makes of which. `DList` and `SList` are the two
sources: nodes that `malloc` returns, and the pointers in them, changed as the code
changes them. A list is read off by walking along `next`, as `DListForEach` and
`SListForEach` do. Each call is one action. `DListSplice` is all of its six writes with
all of its reads before them; `DListMultiFind` stops after any number of copies.

`SList` has no way back, so it inserts and removes by copying a neighbour; the dummy
at the end holds its list, and moves. That is why `tail`, and the data of the dummy,
are state of their own.

Both walk with `Walk`: `WalkIn` is what one finds from a pointer on until the
pointer is to none of the nodes, and takes as many steps as there are nodes. `Position`
of an iterator, and the part of the elements that `DListMultiFind` copies (`Found`), are
read off the result. In `Lists` an iterator is such a position, and `Found` picks values.

Abstracted: data are opaque; the callbacks of find and for-each; what a call returns,
except where it is the place of a later call. Excluded, because the header calls it
undefined or the call makes no sense: a pop from an empty list, the end of a list as
an element, lists appended to themselves, a `DListMultiFind` into the list that it
searches, a splice to a place within its own segment. A splice that moves nothing is
not undefined: the segment is empty, or ends at the destination already. It is in the
model if `MovesNothing` is TRUE, as the append of an empty list is if `AppendsEmpty` is.

### Heap

`heap.c` on a sequence, since the dynamic vector is not in the repository. The two
siftings are functions that recurse from index to index, `BestOfThree` is the code's
choice among parent and children, and a call is one action - but for `HPQRemove`, which
an assertion can end (`HPQRemoveAsserts`). `MaxSize` bounds the model, not the code.

### The MC modules, and the proofs

`MCScheduler`, `MCWatchdog`, `MCCBuffer`, `MCDList`, `MCSList` and `MCHeap` define the
sets for TLC. The proofs are in modules of their own:

| module | extends | about |
|---|---|---|
| `Scheduler_proofs` | `Scheduler` | its invariants, its action properties, `Agenda` |
| `WatchdogInvariant` | `Watchdog` | no proofs: the inductive invariant `IInv`, which a run checks too, and `Moves` |
| `WatchdogMemory_proofs` | `WatchdogInvariant` | numbers written and read, argument vectors; what one process remembers: `TypeOK`, `Counting` |
| `Watchdog_proofs` | `WatchdogMemory_proofs` | the processes and each other, and the theorems |
| `CBuffer_proofs` | `CBuffer` | its type and the refinement of `Fifo` |
| `Walk_proofs` | `Walk` | what a walk finds, and sequences taken apart, put together and mapped |
| `Heap_proofs` | `Heap` | its siftings, the elements and the order |
| `DList_proofs` | `DList`, `Walk_proofs` | the links of the lists after every call, and `Lists` |
| `SList_proofs` | `SList`, `Walk_proofs` | nodes, tails and values of the lists after every call |

Definitions whose comment says "Mutant of" are no part of the
model: each is a plausible error that a property must catch when it is put in
the place of the original; `PROJECT.json` pairs them.

## The runs

| run | instance | shows |
|---|---|---|
| `scheduler` | 3 tasks, intervals 1, 1, 2, clock to 3; 835 thousand states | all scheduler properties below but `AssertionsHold` |
| `scheduler_assert` | the same | finding: a removed task that repeats |
| `watchdog_faults` | 4 pids, limit 1, one crash, one failed fork, no timing; 1.13 million states up to symmetry | `TypeOK`, `DetectionBound`, `OneClient`, `OneWatchdog`, `TargetIsOwnChild`, `StopLeavesNoWatchdog`, `ArgsSurvive`, `IInv`, `ExitHasCause` |
| `watchdog_timely` | 3 pids, limit 4, skew 1, one crash; 111 thousand states | `NoFalseSuspicion`, `ImmortalStaysGuarded`, `StopEnds`, `StopIsNoSilence` |
| `cbuffer` | 2 byte values, capacity 3, calls of up to 4 bytes, writes of at least 1 | `TypeOK`, `IsFifo` |
| `cbuffer_zero` | the same, writes of 0 bytes too | finding: an empty buffer becomes full |
| `dlist` | 2 lists, 4 nodes, 2 values, every splice moves something; 192 states up to symmetry | `TypeOK`, `Mirrored`, `NodesAreOwned`, `EndsAtTail`, `IsLists`, `CallsDoAsTheySay` |
| `dlist_splice` | the same, with splices that move nothing | finding: two lists exchange their tails |
| `slist` | 2 lists, 6 nodes (2 of them dummies), 2 values, no empty list is appended | `TypeOK`, `TailIsLast`, `NodesAreOwned`, `CallsDoAsTheySay` |
| `slist_append` | the same, any list is appended | finding: the tail of another list |
| `heap` | 4 elements, two of the same key, up to 6 in the heap; 2.7 thousand states | `TakesWhatItShows`, `EnqueueKeepsOrder` |
| `heap_order` | the same | finding: the wrong child is moved up |

**Scheduler.** `Ownership`: no pointer of the scheduler dangles, none is held
twice. `NothingLeaks`: no struct is lost, except to a failing `time()`.
`RemovedStaysOut`, `NoteIsForCurrent`: removal is for good, and hits the right
task. `DispatchInDueOrder`: a task goes before those that are due later, and not
before its time but by one second for each signal that came while the scheduler slept
for it. `StopEndsRun`. `SuccessMeansDrained`. `NoStarvation`. `IsAgenda`: `Scheduler`
implements `Agenda`.

*Bounds.* With three tasks, one can run while two compete in the queue, or one be
lost while another runs and a third waits. The invariants relate at most two tasks.
The clock reaches 3 so that a task of interval 1 repeats before and after one of
interval 2. A task cannot be added again once freed; it would be a new struct.

*Fairness.* `WF(RunStep)`: a running thread runs. `WF(CallbackReturns)`: a
callback is short (`scheduler.h:40`). `WF(Tick)`: time goes by. No call of the
API is assumed.

**Watchdog, without timing.** Processes are arbitrarily slow, so they do suspect
each other wrongly, and replace each other in the middle of their start. Even so:
`DetectionBound`: the count never passes the limit by more than one.
`OneClient`: there are never two clients that are not dying. `OneWatchdog`: a
client has no WD but its target that is not dying. `TargetIsOwnChild`: the target
of a client is its own child, alive or zombie, so the kernel cannot have given its pid
to a stranger. `StopLeavesNoWatchdog`. `ArgsSurvive`: through any number of changes
of program the client keeps its arguments, and WD reads back the interval, the limit and
the number it was told. `ExitHasCause`: the `EXIT_IF_BAD` after
`waitpid` (`watchdog.c:208`) ends the client only after a failed fork, when
it had been made immortal anew after `DoNotResuscitate`, whose flag is never reset, or
when a last SIGUSR1 comes while the WD that was told to stop is dying.
`IInv` is the inductive invariant of the proofs below.

*Bounds.* Four pids: a client, its WD, a replacement that is starting, and a
predecessor that is dying or a zombie. When all pids are taken a fork waits for
one. Limit 1 makes suspicion most frequent. Pids are only compared for equality, and
the run checks safety: symmetry is sound.

**Watchdog, with timing.** `Timely` states what the interval is chosen for (`InTime`):
what a process does in a round, or to start, is over before another one begins its next
round but one; and no process begins more than `MaxSkew` rounds between two of another.
Nothing staggers the rounds: those of client and WD overlap, and one may read its count,
suspect or kill while the other is about to signal. Then:
`NoFalseSuspicion`: a process at work is not killed for being silent, neither by
`ReviveIfNeededTSK` nor, while it starts, by `WaitForWatchdogAppTSK`.
`ImmortalStaysGuarded`: once `MakeMeImmortal` has returned, there is again and again a
client and a WD that watch each other, unless somebody stops it. `StopEnds`:
`DoNotResuscitate` returns, or the client is gone (`ExitHasCause` says why it may be).
`StopIsNoSilence`: the WD, which hears no more signals from then on, does not kill the
client meanwhile. An interval is taken to be much longer than a second, as a signal
shortens the scheduler's sleep by up to one.

*Bounds.* Three pids: the pair, and one process that is starting or not yet reaped. The
skew is the least there is, and the limit the least for it. No fork fails: after
that none of the liveness properties is claimed, see below. Pids are not symmetric, since
liveness is checked. The two safety properties also hold with four pids, skew 2,
limit 6, two crashes and a failed fork (134 thousand states up to symmetry).

*Fairness.* Weak fairness of every process' next step, which is to take a signal if there
is one: the kernel runs every process, and main calls `MakeMeImmortal`.
Weak fairness of `Round` for *some* process: time goes by. Nothing is assumed of
crashes, forks that fail, `DoNotResuscitate` or a second `MakeMeImmortal`.

*What the limits are.* These were found by changing the constants:

- `NoFalseSuspicion` needs `MaxMissed > 2 * MaxSkew + 1`. With skew 1 and limit 3, or
  skew 2 and limit 5, a process at work is killed. The assertions at
  `watchdog.c:57-58` allow any limit from 1.
- A crash followed by a failed fork defeats `ImmortalStaysGuarded`: the target is 0,
  there is no child, `waitpid` fails, and the thread starts the same task for ever
  without forking again.
- Two crashes defeat it as well: both processes may die together, and a client that
  dies before its child asks for its parent leaves a WD that guards init, gets EPERM
  and exits (`HelloFindsInit`).

**Circular buffer.** `IsFifo`: `CBuffer` implements `Fifo` - whatever the calls,
nothing is lost, repeated or reordered where the data wraps round, where a call stops
short, and where the buffer becomes empty or full; and each call returns the number and
the bytes that the queue would. *Bounds.* In an array of three, full, empty, one byte
and two bytes are different cases at each place of the array; two byte values suffice to
tell an order, and calls of four bytes exceed the capacity. The buffer is passive and
its calls are single-threaded: no fairness.

**Lists.** For splices that move something and appended lists that are not empty:
`Mirrored`: `next` and `prev` say the same. `EndsAtTail`: a `DList` leads
from its head to its own tail. `TailIsLast`: in an `SList` a walk ends at
the tail, which knows its list. `NodesAreOwned`: each node is in one list and is freed
with it. `IsLists`: `DList` implements `Lists`. `CallsDoAsTheySay`: each call makes of
the sequences what the header says, at the place of its iterator. *Bounds.* Four
nodes allow a segment of two between two neighbours, or in another list than its
destination, so that each of the six pointers a splice writes belongs to a different
node or coincides with another one; a fifth node would only make a neighbour further
away, which no call looks at. The same holds for the three nodes an `SList` call touches.
Nodes are compared only for equality: symmetry is sound. Nothing runs concurrently and
callers may stop calling: no fairness.

**Heap.** `TakesWhatItShows`: the elements in the heap are those enqueued and not
removed. `EnqueueKeepsOrder`: an enqueue on a heap in order leaves it in order.
*Bounds.* Six elements make three levels with an incomplete last one, so that
a node has two children, one or none; three keys make parent, left and right child
all different, and the fourth element makes two of them equal. A removal of the last
element ends the program in a failed assertion: no deadlock check.

## The findings

Each is what a run expects to be violated; `PROJECT.json` quotes the line it contradicts.

- `AssertionsHold` (`scheduler.c:210`): a task that removes itself, or clears the
  scheduler, and returns 1 runs into `assert(NULL != task)` of
  `TaskUpdateExecuteTime`, because `cur_task` has been freed and set to NULL.
- `SizeCounts` (`cbuffer.c:114`): a write of zero bytes to an empty buffer takes the
  read pointer back from the struct, writes nothing, and returns 0. The pointers are
  now equal, which means full: `CBuffBufSiz` returns the capacity, writes are refused
  and reads return bytes that nobody wrote.
- `EndsAtTail`, with splices that move nothing (`dlist.c:292`): of an empty segment the
  code takes the node *before* it for its end. Between two lists their rests are
  exchanged, and a walk ends at the other list's tail; within one list what is between
  destination and segment is cut out. `dlist.h:107-111` does not exclude the call.
- `AppendJoins` (`slist.c:277`): appending an empty list makes the tail of the
  destination the dummy of the *source*; the walk from the destination's begin never
  meets its end.
- `OrderIsKept` (`heap.c:298`): `BestOfThree` compares the left child with the parent
  instead of the best so far. With the comparison against `arr[ret]`, which its comment
  describes, `OrderIsKept` holds in the same instance.

## Observations

Where code and documentation part without a run to say so. TLC finds those of the first
list in the instances above when it is asked for the formula.

- A task can run early (`scheduler.c:308-311`), against `architecture.md:27`:
  `[][pc = "sleep" /\ pc' = "task" => next_exec_time[cur_task] <= now]_vars`. WD and
  client get a signal in every interval.
- A task whose `time()` fails while it is rescheduled stays `cur_task`
  (`scheduler.c:221-224`). Once nothing else is queued, the next run dequeues from an
  empty queue, which is the other assertion in `AssertionsHold` (`pqueue.c:104`):
  `[](pc # "assert_pq")`.
- That task, and one whose `time()` fails in `TaskCreate` (`task.c:66-69`), are never
  freed, although `scheduler.h:57` says that `SchedulerDestroy` frees the memory:
  `[](pc = "destroyed" => allocated = {})`.
- `architecture.md:32` adds the period to the last execution time; `task.c:95` adds it to
  the current time, so delays add up: a task that repeats has not
  `next_exec_time' = next_exec_time + Interval`.
- `DoNotResuscitate` can end the client although no fork has failed: a SIGUSR1 that the
  stopped WD was just sending interrupts `waitpid` (`watchdog.c:207`). That is the last
  cause in `ExitHasCause`; without it TLC finds a trace.
- `HPQRemove` of the element in the last place shortens the vector and sifts the place
  that no longer exists: the assertion at `heap.c:235` fails (the build does not define
  NDEBUG), `[]~aborted`. `heap.h:41` and `test_heap.c:184` expect the element.
- `HPQRemove` takes the first match in the order of the vector, which need not be the
  "biggest" that `heap.h:41` promises.

And outside of what the models tell apart:

- `DListPushFront` (`dlist.c:396`) reports success or failure as the compiler orders
  the operands of a call.
- `test_dlist.c:360` calls `DListMultiFind` with the list that it searches as its
  destination, which `dlist.h` calls undefined and the model excludes.
- `SListIsEmpty` (`slist.c:170`) returns 1 for a list that is not empty, too.
- `HPQRemove` reads an uninitialised status if the heap is empty (`heap.c:192`), and
  returns no value if nothing matches (`heap.c:195`, `heap.h:43` promises NULL).
- `heap.h:18` says that a positive result means *lower* priority; the code puts the
  element for which it is positive on top.
- `ItoaIMP` writes a number of ten digits beyond its `ARG_LEN` bytes; `ArgsFit`
  excludes it.

## The proofs

The theorems hold for every value of the constants that the named assumptions of the
modules allow. Where a run checks a property and a theorem states it, the run is the
small instance.

### Scheduler

`Scheduler_proofs` proves, for any set of tasks, any positive intervals and any
bound of the clock, that the specification implies

`TypeOK`, `Ownership`, `NothingLeaks`, `RemovedStaysOut`, `NoteIsForCurrent`,
`DispatchInDueOrder`, `StopEndsRun`, `SuccessMeansDrained`, `IsAgenda`.

They rest on the three assumptions in `Scheduler` and nothing else.

The argument is one inductive invariant, `IInv`. The properties alone are not
inductive, for reasons that say something about the code:

- `Phases`: a task is current while `SchedulerRun` sleeps or calls it, and a stop
  request is never pending at the loop head - which is why a run that returns
  success by the head of the loop has emptied the queue.
- `Bookkeeping`: whatever is allocated, removed or lost was created. So an added
  task is new, and `RemovedStaysOut` survives an addition.
- `NoteIsExact`: during a callback the note to remove the running task is set
  *exactly* if that task has been removed. One direction is `NoteIsForCurrent`, and
  the other one keeps a removed task from being queued again.
- `SleepsForFirst`: while `SchedulerRun` sleeps for a task, every queued task is due
  no earlier: nothing can be added meanwhile. This carries `DispatchInDueOrder`
  from the dequeue to the dispatch.
- `SleepsLongEnough`: what is left of the sleep and the signals that shortened it
  reach at least up to the time the task is due. Time takes from the sleep what it adds
  to the clock, a signal what it adds to `signals`.

Each part has a lemma with one step per action; `Invariance` puts them together,
and the action properties follow from the invariant and a look at one step.

`AgendaCorrect` proves the refinement. `AgendaStep` shows for each action of the scheduler
which one of the agenda it is, or that it is none: `TaskStarts` is `Dispatch`, by
`SleepsForFirst` none is due before; `TaskRepeats` is `Repeat`, and every other way back
from a callback, including those of failing calls, is `Finish`. The note
to remove the running task is what the agenda calls cancelled.

### Watchdog

`Watchdog_proofs` proves, for any number of pids, any limit, interval and argument vector,
any number of crashes and failed forks, with or without timing,

`TypeOK`, `DetectionBound`, `OneClient`, `OneWatchdog`, `TargetIsOwnChild`,
`StopLeavesNoWatchdog`, `ArgsSurvive`, `ExitHasCause`.

*Assumptions.* The pseudo pids of init, of `kill(0)` and of "none" are told from
each other and from real pids. The limit and the interval are positive (`watchdog.c:57-58`
asserts it). The vector has an element, the path. The numbers have at most nine
digits (`ArgsFit`): that is what `ARG_LEN` bytes hold.

*The argument.* `IInv` has four parts.

- `TypeOK`.
- `Counting`, about one process. `DetectionBound` alone says nothing of *when* in a round
  the count is high. `Bounded` does: a round raises the counter once, after or before
  its check, and if before, the check still sees it at the limit and lets no further
  round begin. For that the tasks of a process must be those of one phase (start,
  waiting for WD, monitoring), and a process that has no scheduler yet none.
- `Args`: client and forked child have the client's vector, WD the one made of it.
  That WD's `argv` gives the client back its own needs no history: it is
  `CreateArgvProperties`; that the interval and the limit come back is `AtoiOfItoa`.
- `Family`, about the processes and each other. `OneClient` and `OneWatchdog` are not
  inductive: WD becomes a client by `exec`, so there must be no client when it does,
  and the reason is elsewhere. `Pair` says that a client and a WD that live at the same
  time are parent and child and each other's targets; so a WD that kills its target has
  killed the only client, and a client that kills its own the only WD. `Alone` carries that
  over the gap between the kill and the fork or exec. `Targets` says when a target is
  still nobody, init, or one's own child. It is why a crash at any point, or a
  wrong suspicion, never makes two of a kind.

`Family` knows only who changes program, target or parent. `Moves` is the coarser step
relation that is left when everything else is forgotten: seven kinds of move in place of
some thirty actions. `StepMoves` shows that every action is one, and `Family` is proved
for the moves.

`ExitHasCause` is an action property and follows from `IInv` and `Moves`. A client that
waits in vain has a target to wait for (`TargetIsOwnChild`), which is not a zombie, or the
wait would be over; not the client itself, since nobody is his own parent (`Targets`), nor
another one (`OneClient`); and not a WD at work (`Alone`). So it is dying.

### Circular buffer

`CBuffer_proofs` proves `TypeOK`, and `IsFifo` from `MinWrite = 1`. That hypothesis is not
a convenience: with writes of no bytes the run `cbuffer_zero` shows an empty buffer become
full. Everything else is arbitrary: capacity, bytes, the lengths of calls.

`TypeOK` is inductive: `read` is parked only on an empty buffer, whose `write` is anywhere.
The refinement looks at the buffer from `StartOfData`. From there, data and room
are two intervals (`Interval`), a write makes the first longer by what it takes
from the second (`Appended`), a read makes it shorter from the front (`Taken`), and where the
array wraps round is settled once, in `Wraps`.

### Doubly linked list

`DList_proofs` proves, for any finite set of lists and nodes and any values,

`TypeOK`, `Mirrored`, `NodesAreOwned`, `EndsAtTail`, `IsLists`, `CallsDoAsTheySay`,

if `MovesNothing = FALSE`. That hypothesis is needed: run `dlist_splice` shows what a
splice of nothing does. The conjunction `IInv` of the first four is inductive.
`Mirrored` and `NodesAreOwned` are not without `EndsAtTail`: two lists that each lead to
the other's tail mirror their links and own their nodes, but a splice up to the end of
one then ties a node to itself.

A list is what a recursive walk finds, so all of it rests on two lemmas of
`Walk_proofs`: a sequence whose elements are linked and that something else ends
*is* what the walk finds (`WalkIs`), and what it finds is linked (`WalkLinks`).
With them the proof leaves the walk behind. `Paths(c)` says that the lists lead along
`c`, a sequence of nodes per list; `At(c, l, i)` are the places of list `l`, dummies
included. `Apart` shows from `Mirrored` that all places of all lists differ: two paths that met
would, followed back, have the same head. `PathsToInv` and `InvToPaths` go between
`Paths` and `IInv`. For each kind of call one lemma writes down the sequences after it
and shows that the new pointers lead along them: `InsertPath`, `RemovePath`, `SwapPath`
(a splice within a list changes places of two neighbouring segments), `MovePath` (a
splice between two lists); `MultiFinds` and `Extends` do it for a copied segment of any
length, cut short wherever memory ends.

From the same lemmas follow `CallsDoAsTheySay`, and the refinement `IsLists`. Each of them
names the new sequence: `Opened`, `Closed` or `Swapped`, the old one with elements put in,
taken out or changing places. `Held(c, data)` is what stands along the paths `c`, and
`Reads` says that this is what the lists hold; `OpenedMapped` and its like carry the three
from nodes to values, where `Pieces` recognises the cuts and joins that `Lists` writes
down. A call that changes links does not change the data of an allocated node, and
`DListIterSetData` no link. `Found` is what is picked of a sequence at the places
that match (`Picks`); `Lists` picks at the same places of the values (`PicksMapped`), so
a copy that stops after any number of nodes is still a step of `Lists`.

### Singly linked list

`SList_proofs` proves, for any finite set of lists and nodes and any values,

`TypeOK`, `TailIsLast`, `NodesAreOwned`, `CallsDoAsTheySay`,

if `AppendsEmpty = FALSE`. That hypothesis is needed: run `slist_append` shows what an empty
list that is appended does to the tail of the other one.

`IInv` is the conjunction of the first three, and they need each other: that a walk from
a head ends at the *tail* of its list, whichever node has become its dummy by
now, is what keeps the copying of a neighbour's fields within the list.
`Paths` is the same idea as above, without a way back: two paths that meet at a node
agree from there on, so they end at the same dummy, whose data says whose it is
(`Meets`, `Apart`); no node is visited twice, because the rest of the walk from it would be
two lengths at once. The lemmas whose names end in `Path` name the sequences of nodes after
each call: an insertion before an element puts the new node *behind* it and swaps
their values, a removal takes out the node of the *next* element. `CallsDo` shows that on
the values the effect is nevertheless an insertion or removal at the place of the iterator.

### Heap

`Heap_proofs` proves, for any elements, any integer keys and a heap of any size,

`TakesWhatItShows`, `EnqueueKeepsOrder`.

`HeapifyUp` and `HeapifyDown` are the same recursion (`Sifts`) with another choice of the next
index, and both end: the index becomes smaller, or larger up to the size (`Descends`). So
`SiftExists` and `SiftKeeps`, by the least rank for which they fail, serve both: what every
swap keeps, the whole sifting keeps. `SwapKeepsBag` maps the places of an
element to its places after a swap one to one; that is all `TakesWhatItShows` needs, next
to `FilledIs`: the last element in the place of another is a swap and a removal at the
end. The order is kept by `HeapifyUp` because `OrderBut` is: only the sifted
element may stand too low, and its children stand no higher than its parent. No such
invariant exists for `HeapifyDown`, see `OrderIsKept` under the findings.

### Model-checked only

- Liveness, which is out of the prover's reach: `NoStarvation`,
  `ImmortalStaysGuarded`, `StopEnds`.
- `NoFalseSuspicion` and `StopIsNoSilence`, which rest on `Timely` and the limit of the run.

The library's induction theorems take an operator and cannot be used here. Where a
definition is a recursive function over numbers up to a bound (`Walk`, `Found`, `Atoi`,
`ItoaIMP`, the siftings), the proofs induct over a *set* of numbers (`UpTo`), from the least-number
principle of well-founded relations, and show first that the function exists. What remains
out of reach are RECURSIVE operators, of which the project has none.

## The plan

In this order; what is done is marked.

1. **Scheduler**, checked and proved. *Done.*
2. **Watchdog**, checked and its safety proved. *Done.*
3. **Agenda**: the abstract scheduler, implemented by Scheduler. *Done, proved.*
4. **CBuffer**: the parked read pointer as a refinement of a bounded FIFO; the
   zero-byte write. *Done, proved.*
5. **Heap**: sift up and down, enqueue, dequeue and remove; `BestOfThree`. *Done,
   proved.*
6. **DList** and **Lists**. *Done, proved for splices that move something.*
7. **SList**. *Done, proved for lists that are not empty when they are appended.*
8. The arguments of WD. *Done, proved.*

## What is not modelled

The tests, the build and `setup-repo.sh`. The sorted list, the dynamic vector and
`utils.h`, which the sources include but the repository does not hold; so the priority
queue is the set that Scheduler makes of it. `uid.c`: UIDs are compared only in the
process that made them, where the counter alone keeps them apart until it wraps. In the
watchdog, the paths on which `MakeMeImmortal` or `ChangeToWaitIMP` give up for want of
memory or of a thread (`watchdog.c:72-100`, `302`), and the restart after a run that
returned `RUN_SYSTEM_FAILURE` (`watchdog.c:190-199`). Integers without a width:
`PriorityFunc` (`scheduler.c:297`) truncates a difference of times to `int`, which
matters for tasks 68 years apart. Logging. Memory exhaustion where the code dereferences
before it checks.
