------------------------------ MODULE Watchdog -------------------------------
(***************************************************************************)
(* The mutual watchdog: src/src/watchdog.c and src/src/watchdog_utils.c in *)
(* the client application, src/examples/watchdog_app.c in the WD process.  *)
(*                                                                         *)
(* A process runs one program after another: the client forks a child, the *)
(* child executes WD, and a WD that gives up its client executes the       *)
(* client in its place.  stage says which program a process runs and where *)
(* it stands, at the points where a signal, another process or the main    *)
(* thread can come in between.  mem is what the program keeps (globals and *)
(* struct watchdog); the rest belongs to the kernel.                       *)
(*                                                                         *)
(* The scheduler under it (module Scheduler) is seen as rounds: all tasks  *)
(* have the same interval, so each of them runs once before one runs       *)
(* again, in an order the scheduler does not promise.                      *)
(***************************************************************************)
EXTENDS Naturals, Sequences

CONSTANTS
  Pid,           \* the process ids: a bound on processes and zombies
  InitPid,       \* init, or whoever is the parent of the first client
  NoPid,         \* INT_MAX: an id no process has
  ZeroPid,       \* 0, which kill() takes for the whole process group
  Seconds,       \* seconds_between_sol
  MaxMissed,     \* max_missed_sol
  ClientArgv,    \* argv of the client, its path first
  WdPath,        \* WD_APP_PATHNAME
  MaxCrashes,    \* bound: processes that die for no reason of the protocol
  MaxForkFails,  \* bound: calls of fork() that fail
  Timely,        \* TRUE: an interval is long enough for everybody to react
  MaxSkew        \* if Timely: rounds a process may do between two of another

ASSUME PidAssumption ==
  /\ Pid \cap {InitPid, NoPid, ZeroPid} = {}
  /\ InitPid # NoPid /\ InitPid # ZeroPid /\ NoPid # ZeroPid
ASSUME MaxMissedAssumption == MaxMissed \in Nat \ {0}
ASSUME SecondsAssumption == Seconds \in Nat \ {0}
ASSUME ArgvAssumption ==
  /\ ClientArgv \in Seq({ClientArgv[i] : i \in DOMAIN ClientArgv})
  /\ ClientArgv # << >>
(* What ItoaIMP writes must fit into ARG_LEN = 10 bytes. *)
ASSUME ArgsFit ==
  /\ Seconds < 10^9
  /\ MaxMissed < 10^9
  /\ Len(ClientArgv) < 10^9
ASSUME BoundsAssumption ==
  /\ MaxCrashes \in Nat /\ MaxForkFails \in Nat
  /\ Timely \in BOOLEAN /\ MaxSkew \in Nat \ {0}

VARIABLES
  stage,      \* per pid: the program and its position, or what is left of it
  parent,     \* per pid: what getppid() returns
  user1,      \* per pid: a SIGUSR1 was sent and is not yet taken
  sending,    \* per pid: whom a dying process is just sending a SIGUSR1
  mem,        \* per pid: the memory of the program it runs
  crashes,    \* crashes so far
  forkfails,  \* failed forks so far
  turn        \* if Timely: who began the last rounds, and how many in a row

signals == <<user1, sending>>
kernel  == <<stage, parent, signals>>
bounds  == <<crashes, forkfails, turn>>
vars    == <<kernel, mem, bounds>>

AppBoot  == {"app_exec", "app_blocked", "app_unblocked", "app_handler"}
AppStage == AppBoot \cup {"app_run", "app_suspect", "app_revive", "app_late",
                          "app_wait", "app_reap", "app_done"}
WdStage  == {"child", "wd_exec", "wd_boot", "wd_hello", "wd_run", "wd_suspect",
             "wd_revive"}
Stage    == {"free", "zombie", "dying"} \cup AppStage \cup WdStage
Task     == {"SEND", "REVIVE", "INC", "WAIT"}

(* Nobody blocks SIGUSR2 and nobody survives it.  Signals are taken some   *)
(* time after they are sent, but before the process does anything else; so *)
(* a process that was sent a SIGUSR2 is only dying.  But it may be in a    *)
(* kill() of its own, whose signal is sent after the SIGUSR2 was: that is  *)
(* sending.  (If its own signal is a SIGUSR2, the receiver dies, too, and  *)
(* for the receiver that is a crash.)                                      *)
Works(p) == stage[p] \notin {"free", "zombie", "dying"}

(* What a program starts with: the globals and WatchdogCreate. *)
Fresh == [argv     |-> << >>,   \* what main was given
          target   |-> NoPid,   \* wd->target_pid
          misses   |-> 0,       \* g_misses
          sched    |-> {},      \* the tasks in wd->scheduler
          todo     |-> {},      \* those of them due in this round
          answered |-> FALSE,   \* InitialSH ran: g_is_wd_active is posted
          stop     |-> FALSE]   \* g_should_stop

WithArgs(argv) == [Fresh EXCEPT !.argv = argv]

\* A path or argument of the client is opaque; a number is its digits.
Arg == {WdPath} \cup {ClientArgv[i] : i \in DOMAIN ClientArgv} \cup Seq(0..9)
ArgVector == Seq(Arg)
Target == Pid \cup {InitPid, NoPid, ZeroPid}
Memory == [argv : ArgVector, target : Target, misses : Nat,
           sched : SUBSET Task, todo : SUBSET Task, answered : BOOLEAN,
           stop : BOOLEAN]

TypeOK ==
  /\ stage \in [Pid -> Stage]
  /\ parent \in [Pid -> Pid \cup {InitPid}]
  /\ user1 \in [Pid -> BOOLEAN]
  /\ sending \in [Pid -> Target]
  /\ mem \in [Pid -> Memory]
  /\ \A p \in Pid : mem[p].todo \subseteq mem[p].sched
  /\ crashes \in 0..MaxCrashes
  /\ forkfails \in 0..MaxForkFails
  /\ turn \in [who : Pid \cup {NoPid}, rounds : 0..MaxSkew]

(* Somebody has started the client. *)
Init ==
  /\ \E p \in Pid : stage = [q \in Pid |-> IF q = p THEN "app_exec" ELSE "free"]
  /\ parent = [p \in Pid |-> InitPid]
  /\ user1 = [p \in Pid |-> FALSE]
  /\ sending = [p \in Pid |-> NoPid]
  /\ mem = [p \in Pid |-> IF stage[p] = "app_exec" THEN WithArgs(ClientArgv)
                           ELSE Fresh]
  /\ crashes = 0
  /\ forkfails = 0
  /\ turn = [who |-> NoPid, rounds |-> 0]

-----------------------------------------------------------------------------
(* The system calls.                                                       *)

(* kill(target, 0) succeeds: a zombie still counts. *)
Exists(target) ==
  \/ target = ZeroPid
  \/ target \in Pid /\ stage[target] # "free"

(* The processes that get a signal from kill(target, signal).  All belong  *)
(* to one group.                                                           *)
Receivers(target) == {q \in Pid : Works(q) /\ target \in {q, ZeroPid}}

(* Mutant of User2Receivers: one ! too few, and only the group is killed.  *)
User2ReceiversNegated(target) ==
  IF target = ZeroPid THEN Receivers(target) ELSE {}

(* The code multiplies SIGUSR2 by !!target: the group gets signal 0.       *)
User2Receivers(target) == IF target = ZeroPid THEN {} ELSE Receivers(target)

SendUser1(target) ==
  user1' = [q \in Pid |-> user1[q] \/ q \in Receivers(target)]

(* q may be in SendSignal1TSK. *)
MayBeSending(q) ==
  \/ stage[q] = "wd_hello"
  \/ stage[q] \in {"app_run", "wd_run"} /\ "SEND" \in mem[q].todo
     /\ ~mem[q].stop

(* p sends SIGUSR2 and goes on at another point with the memory m.         *)
SendUser2(p, receivers, to, m) ==
  /\ stage' = [q \in Pid |-> IF q = p THEN to
                             ELSE IF q \in receivers THEN "dying" ELSE stage[q]]
  /\ mem' = [q \in Pid |-> IF q = p THEN m
                           ELSE IF q \in receivers THEN Fresh ELSE mem[q]]
  /\ user1' = [q \in Pid |-> user1[q] /\ q \notin receivers]
  /\ \E late \in SUBSET {q \in receivers : MayBeSending(q)} :
       sending' = [q \in Pid |-> IF q \in late THEN mem[q].target
                                 ELSE sending[q]]
  /\ UNCHANGED parent

Children(p) == {q \in Pid : stage[q] # "free" /\ parent[q] = p}

(* Mutant of Die: nobody has to be waited for, as if SIGCHLD were ignored. *)
DieReaped(p) ==
  /\ stage' = [stage EXCEPT ![p] = "free"]
  /\ parent' = [q \in Pid |-> IF parent[q] = p THEN InitPid ELSE parent[q]]
  /\ user1' = [user1 EXCEPT ![p] = FALSE]
  /\ sending' = [sending EXCEPT ![p] = NoPid]
  /\ mem' = [mem EXCEPT ![p] = Fresh]

(* p ends: its zombies are reaped and its other children adopted by init,  *)
(* and it stays a zombie if its own parent is a client.                    *)
Die(p) ==
  /\ stage' = [q \in Pid |->
       IF q = p THEN IF parent[p] \in Pid THEN "zombie" ELSE "free"
       ELSE IF stage[q] = "zombie" /\ parent[q] = p THEN "free" ELSE stage[q]]
  /\ parent' = [q \in Pid |-> IF parent[q] = p THEN InitPid ELSE parent[q]]
  /\ user1' = [user1 EXCEPT ![p] = FALSE]
  /\ sending' = [q \in Pid |-> IF q = p \/ sending[q] = p THEN NoPid
                               ELSE sending[q]]
  /\ mem' = [mem EXCEPT ![p] = Fresh]

(* execv: the memory is new, pid, parent and a pending SIGUSR1 are kept.   *)
Exec(p, at, argv) ==
  /\ stage' = [stage EXCEPT ![p] = at]
  /\ mem' = [mem EXCEPT ![p] = WithArgs(argv)]
  /\ UNCHANGED <<parent, signals>>

(* p is about to go on from one of these points: it has no signal to take. *)
Stands(p, points) ==
  /\ stage[p] \in points
  /\ user1[p] => stage[p] = "app_blocked"

(* A step of the program that leaves the kernel's tables alone but for     *)
(* where p stands.                                                         *)
At(p, from, to) ==
  /\ Stands(p, {from})
  /\ stage' = [stage EXCEPT ![p] = to]
  /\ UNCHANGED <<parent, signals, bounds>>

-----------------------------------------------------------------------------
(* Taking signals.                                                         *)

(* SIGUSR1 kills a program that has neither blocked it nor set a handler.  *)
(* A client that calls MakeMeImmortal again still has the handler.         *)
User1Kills(p) ==
  \/ stage[p] \in {"app_exec", "wd_exec"}
  \/ stage[p] = "app_unblocked" /\ ~mem[p].stop
User1Handled(p) == Works(p) /\ stage[p] # "app_blocked" /\ ~User1Kills(p)

(* InitialSH and ResetCounterSH of the client, ResetCounterSH of WD.       *)
HandleUser1(p) ==
  /\ user1[p]
  /\ User1Handled(p)
  /\ user1' = [user1 EXCEPT ![p] = FALSE]
  /\ mem' = [mem EXCEPT ![p].misses = 0,
       ![p].answered = (stage[p] \in AppStage \ {"app_unblocked"})]
  /\ UNCHANGED <<stage, parent, sending, bounds>>

DieOfUser1(p) ==
  /\ user1[p]
  /\ User1Kills(p)
  /\ Die(p)
  /\ UNCHANGED bounds

(* The kill() that a dying process was in is over. *)
LastSignal(p) ==
  /\ stage[p] = "dying"
  /\ sending[p] # NoPid
  /\ SendUser1(sending[p])
  /\ sending' = [sending EXCEPT ![p] = NoPid]
  /\ UNCHANGED <<stage, parent, mem, bounds>>

(* The client has no handler; StopWatchdogSH of WD exits. *)
DieOfUser2(p) ==
  /\ stage[p] = "dying"
  /\ sending[p] = NoPid
  /\ Die(p)
  /\ UNCHANGED bounds

-----------------------------------------------------------------------------
(* The client starts, up to SchedulerRun in WatchdogThreadIMP.             *)

(* MakeMeImmortal blocks SIGUSR1, empties the semaphore and creates the    *)
(* thread.  g_should_stop keeps the value an earlier life of the client    *)
(* left in it.                                                             *)
MakeMeImmortal(p, at) ==
  /\ Stands(p, {at})
  /\ stage' = [stage EXCEPT ![p] = "app_blocked"]
  /\ mem' = [mem EXCEPT ![p] =
                [WithArgs(mem[p].argv) EXCEPT !.stop = mem[p].stop]]
  /\ UNCHANGED <<parent, signals, bounds>>

BlockAllExceptUser(p) == At(p, "app_blocked", "app_unblocked") /\ UNCHANGED mem

SetInitialSH(p) == At(p, "app_unblocked", "app_handler") /\ UNCHANGED mem

RunScheduler(p) ==
  /\ At(p, "app_handler", "app_run")
  /\ mem' = [mem EXCEPT ![p].misses = MaxMissed, ![p].sched = {"REVIVE"}]

-----------------------------------------------------------------------------
(* The child of a client becomes WD and starts.                            *)

\* The decimal digits of a number, and the number of its digits.
ItoaIMP(num) ==
  LET digits[n \in 0..num] ==
        IF n = 0 THEN << >> ELSE Append(digits[n \div 10], n % 10)
  IN  digits[num]
Atoi(digits) ==
  LET value[i \in 0..Len(digits)] ==
        IF i = 0 THEN 0 ELSE 10 * value[i - 1] + digits[i]
  IN  value[Len(digits)]

CreateArgv(argv) ==
  <<WdPath, ItoaIMP(Seconds), ItoaIMP(MaxMissed), ItoaIMP(Len(argv))>> \o argv

(* Mutant of ClientArgs: WD's last own argument is taken for the client's. *)
ClientArgsFromThree(p) == SubSeq(mem[p].argv, 4, Len(mem[p].argv))

\* argv_ + 4 in WD
ClientArgs(p) == SubSeq(mem[p].argv, 5, Len(mem[p].argv))

\* wd->max_missed_sol
Limit(p) == IF stage[p] \in AppStage THEN MaxMissed ELSE Atoi(mem[p].argv[3])

ChildExecs(p) ==
  /\ Stands(p, {"child"})
  /\ Exec(p, "wd_exec", CreateArgv(mem[p].argv))
  /\ UNCHANGED bounds

SetHandlers(p) == At(p, "wd_exec", "wd_boot") /\ UNCHANGED mem

(* Mutants of Monitoring: one of the tasks is forgotten. *)
MonitoringWithoutSend   == {"REVIVE", "INC"}
MonitoringWithoutRevive == {"SEND", "INC"}

(* SetSchedulerIMP *)
Monitoring == {"SEND", "REVIVE", "INC"}

TargetParent(p) ==
  /\ At(p, "wd_boot", "wd_hello")
  /\ mem' = [mem EXCEPT ![p].target = parent[p], ![p].sched = Monitoring]

-----------------------------------------------------------------------------
(* The tasks.                                                              *)

Running      == {"app_run", "wd_run"}
RunsTasks(p) == stage[p] \in Running

(* A process has nothing left to do before its next round. *)
AtRest(p) ==
  /\ stage[p] \in {"free", "zombie", "wd_run", "app_run", "app_reap",
                   "app_done"}
  /\ mem[p].todo = {}

(* With Timely, what a process does in a round - or to start, if another   *)
(* has made it start - is over before another process begins its next      *)
(* round but one.  So rounds of two processes may overlap.  And processes  *)
(* that run tasks do no more than MaxSkew rounds between two of another.   *)
InTime(p) ==
  /\ \A q \in Pid \ {p} : AtRest(q) \/ turn.who = q
  /\ \/ turn.who # p
     \/ turn.rounds < MaxSkew
     \/ \A q \in Pid \ {p} : ~RunsTasks(q)

(* An interval is over. *)
Round(p) ==
  /\ Stands(p, Running)
  /\ mem[p].sched # {}
  /\ mem[p].todo = {}
  /\ Timely => InTime(p)
  /\ mem' = [mem EXCEPT ![p].todo = mem[p].sched]
  /\ turn' = IF ~Timely THEN turn
             ELSE IF turn.who # p THEN [who |-> p, rounds |-> 1]
             ELSE [turn EXCEPT !.rounds = IF @ < MaxSkew THEN @ + 1 ELSE @]
  /\ UNCHANGED <<kernel, crashes, forkfails>>

Due(p, task) == Stands(p, Running) /\ task \in mem[p].todo

Done(p, task) == [mem EXCEPT ![p].todo = @ \ {task}]

(* Mutant of StopRequest: one ! too many, and only signal 0 is sent. *)
StopRequestNobody(p) == {}

StopRequest(p) == User2Receivers(mem[p].target)

(* Mutant of WatchdogStop: without SchedulerStop, and the task repeats. *)
WatchdogStopGoesOn(p, task) ==
  /\ Due(p, task)
  /\ mem[p].stop
  /\ Exists(mem[p].target)
  /\ SendUser2(p, StopRequest(p), stage[p], [mem[p] EXCEPT !.todo = @ \ {task}])
  /\ UNCHANGED bounds

(* What every task does first.  WatchdogStop passes the request on and     *)
(* ends the run ...                                                        *)
WatchdogStop(p, task) ==
  /\ Due(p, task)
  /\ mem[p].stop
  /\ Exists(mem[p].target)
  /\ SendUser2(p, StopRequest(p), "app_reap",
               [mem[p] EXCEPT !.sched = {}, !.todo = {}])
  /\ UNCHANGED bounds

(* ... or, if there is nobody to tell, fails - which the task takes for    *)
(* success: it is over, and so is the run after the last of them.          *)
StopFails(p, task) ==
  /\ Due(p, task) /\ task # "WAIT"
  /\ mem[p].stop
  /\ ~Exists(mem[p].target)
  /\ mem' = [mem EXCEPT ![p].sched = @ \ {task}, ![p].todo = @ \ {task}]
  /\ stage' = [stage EXCEPT ![p] =
       IF mem[p].sched = {task} THEN "app_reap" ELSE @]
  /\ UNCHANGED <<parent, signals, bounds>>

Goes(p, task) == Due(p, task) /\ ~mem[p].stop

IncCntTSK(p) ==
  /\ Goes(p, "INC")
  /\ mem' = [Done(p, "INC") EXCEPT ![p].misses = @ + 1]
  /\ UNCHANGED <<kernel, bounds>>

SendSignal1TSK(p) ==
  /\ Goes(p, "SEND")
  /\ Exists(mem[p].target)
  /\ SendUser1(mem[p].target)
  /\ mem' = Done(p, "SEND")
  /\ UNCHANGED <<stage, parent, sending, bounds>>

(* ESRCH: only a WD can be without its target (TargetIsOwnChild).  It      *)
(* executes the client at once.                                            *)
SendFindsNobody(p) ==
  /\ Goes(p, "SEND")
  /\ ~Exists(mem[p].target)
  /\ Exec(p, "app_exec", ClientArgs(p))
  /\ UNCHANGED bounds

(* The greeting of WD is a call of the same function before SchedulerRun.  *)
Hello(p) ==
  /\ Stands(p, {"wd_hello"})
  /\ Exists(mem[p].target)
  /\ SendUser1(mem[p].target)
  /\ stage' = [stage EXCEPT ![p] = "wd_run"]
  /\ UNCHANGED <<parent, sending, mem, bounds>>

HelloFindsNobody(p) ==
  /\ Stands(p, {"wd_hello"})
  /\ mem[p].target \in Pid
  /\ ~Exists(mem[p].target)
  /\ Exec(p, "app_exec", ClientArgs(p))
  /\ UNCHANGED bounds

(* EPERM: the client died before WD asked for its parent. *)
HelloFindsInit(p) ==
  /\ Stands(p, {"wd_hello"})
  /\ mem[p].target = InitPid
  /\ Die(p)
  /\ UNCHANGED bounds

Missing(p) == mem[p].misses >= Limit(p)

(* ReviveIfNeededTSK, up to the call of revive_func.  A signal that comes   *)
(* after the count was read is too late for the target, which is killed.   *)
Alright(p) ==
  /\ Goes(p, "REVIVE")
  /\ ~Missing(p)
  /\ mem' = Done(p, "REVIVE")
  /\ UNCHANGED <<kernel, bounds>>

Suspects(p) ==
  /\ Goes(p, "REVIVE")
  /\ Missing(p)
  /\ stage' = [stage EXCEPT ![p] =
       IF @ = "app_run" THEN "app_suspect" ELSE "wd_suspect"]
  /\ UNCHANGED <<parent, signals, mem, bounds>>

(* Where a process goes on that has decided to kill its target. *)
AfterKill == [app_suspect |-> "app_revive", wd_suspect |-> "wd_revive",
              app_late |-> "app_wait"]

KillTarget(p) ==
  /\ Stands(p, DOMAIN AfterKill)
  /\ SendUser2(p, User2Receivers(mem[p].target), AfterKill[stage[p]], mem[p])
  /\ UNCHANGED bounds

(* ReviveIfNeededTaskIMP of WD. *)
ReviveClient(p) ==
  /\ Stands(p, {"wd_revive"})
  /\ Exec(p, "app_exec", ClientArgs(p))
  /\ UNCHANGED bounds

(* ReviveAppIMP of the client, between the tables before and after the     *)
(* caller's other system calls.                                            *)
Fork(p, q, before) ==
  /\ before[q] = "free"
  /\ stage' = [before EXCEPT ![p] = "app_run", ![q] = "child"]
  /\ parent' = [parent EXCEPT ![q] = p]
  /\ UNCHANGED signals

(* Mutant of TargetAfterFailedFork: the old target is kept. *)
OldTarget(p) == mem[p].target

TargetAfterFailedFork(p) == ZeroPid

(* The child has a copy of the memory m of p, of which it uses the argv. *)
Copied(m, p, q) == [m EXCEPT ![q].argv = m[p].argv]

ForkFails(p, before) ==
  /\ forkfails < MaxForkFails
  /\ forkfails' = forkfails + 1
  /\ stage' = [before EXCEPT ![p] = "app_run"]
  /\ UNCHANGED <<parent, signals>>

(* Mutants of Waiting: ChangeToWaitIMP does not clear the scheduler; it    *)
(* adds no task to it.                                                     *)
WaitingUncleared(p, target) ==
  [mem EXCEPT ![p].target = target, ![p].sched = {"WAIT"}]
WaitingForNothing(p, target) ==
  [mem EXCEPT ![p].target = target, ![p].sched = {}, ![p].todo = {}]

(* ReviveAppIMP and ChangeToWaitIMP, which clears the scheduler. *)
Waiting(p, target) ==
  [mem EXCEPT ![p].target = target, ![p].sched = {"WAIT"}, ![p].todo = {}]

ReviveWatchdog(p, q) ==
  /\ Stands(p, {"app_revive"})
  /\ Fork(p, q, stage)
  /\ mem' = Copied(Waiting(p, q), p, q)
  /\ UNCHANGED bounds

ReviveWatchdogFails(p) ==
  /\ Stands(p, {"app_revive"})
  /\ ForkFails(p, stage)
  /\ mem' = Waiting(p, TargetAfterFailedFork(p))
  /\ UNCHANGED <<crashes, turn>>

(* WaitForWatchdogAppTSK: WD has answered ... *)
StartMonitoring(p) ==
  /\ Goes(p, "WAIT")
  /\ mem[p].misses = 0
  /\ mem' = [mem EXCEPT ![p].sched = Monitoring, ![p].todo = {}]
  /\ UNCHANGED <<kernel, bounds>>

(* ... or it has not, and is killed, reaped if already dead, and replaced. *)
WdIsLate(p) ==
  /\ Goes(p, "WAIT")
  /\ mem[p].misses # 0
  /\ stage' = [stage EXCEPT ![p] = "app_late"]
  /\ mem' = Done(p, "WAIT")
  /\ UNCHANGED <<parent, signals, bounds>>

(* The children waitpid(target) waits for, and those it can reap. *)
WaitedFor(p) ==
  {q \in Children(p) : mem[p].target \in {q, ZeroPid}}
Reapable(p) == {q \in WaitedFor(p) : stage[q] = "zombie"}

(* stage, after waitpid with WNOHANG has reaped some child, if it can. *)
Reaped(p) ==
  IF Reapable(p) = {} THEN {stage}
  ELSE {[stage EXCEPT ![q] = "free"] : q \in Reapable(p)}

WaitReforks(p, q) ==
  /\ Stands(p, {"app_wait"})
  /\ WaitedFor(p) # {}
  /\ \E after \in Reaped(p) : Fork(p, q, after)
  /\ mem' = Copied([mem EXCEPT ![p].target = q], p, q)
  /\ UNCHANGED bounds

WaitForkFails(p) ==
  /\ Stands(p, {"app_wait"})
  /\ WaitedFor(p) # {}
  /\ \E after \in Reaped(p) : ForkFails(p, after)
  /\ mem' = [mem EXCEPT ![p].target = TargetAfterFailedFork(p)]
  /\ UNCHANGED <<crashes, turn>>

(* ECHILD: the task fails, the run ends, and WatchdogThreadIMP starts it   *)
(* again with the same task.                                               *)
WaitFindsNoChild(p) ==
  /\ At(p, "app_wait", "app_run")
  /\ WaitedFor(p) = {}
  /\ UNCHANGED mem

-----------------------------------------------------------------------------
(* DoNotResuscitate.                                                       *)

DoNotResuscitate(p) ==
  /\ Stands(p, {"app_run", "app_suspect", "app_revive", "app_late", "app_wait"})
  /\ mem[p].answered
  /\ ~mem[p].stop
  /\ mem' = [mem EXCEPT ![p].stop = TRUE]
  /\ UNCHANGED <<kernel, bounds>>

(* Mutant of MayJoin: the last waitpid is called with WNOHANG, too. *)
MayJoinAtOnce(p) == WaitedFor(p) # {}

(* What the last waitpid of the thread, which blocks, waits for. *)
MayJoin(p) == Reapable(p) # {}

(* The thread has reaped a child, DoNotResuscitate joins the thread. *)
ThreadReturns(p) ==
  /\ Stands(p, {"app_reap"})
  /\ MayJoin(p)
  /\ \E after \in Reaped(p) : stage' = [after EXCEPT ![p] = "app_done"]
  /\ UNCHANGED <<parent, signals, mem, bounds>>

(* EINTR: the handler of SIGUSR1 has no SA_RESTART, and EXIT_IF_BAD ends   *)
(* the client.  (HandleUser1 is for a signal before the call of waitpid.)  *)
WaitInterrupted(p) ==
  /\ stage[p] = "app_reap"
  /\ user1[p]
  /\ WaitedFor(p) # {}
  /\ ~MayJoin(p)
  /\ Die(p)
  /\ UNCHANGED bounds

(* ECHILD: EXIT_IF_BAD ends the client. *)
ThreadExits(p) ==
  /\ Stands(p, {"app_reap"})
  /\ WaitedFor(p) = {}
  /\ Die(p)
  /\ UNCHANGED bounds

-----------------------------------------------------------------------------
(* A process dies for a reason of its own. *)
Crash(p) ==
  /\ crashes < MaxCrashes
  /\ Works(p)
  /\ crashes' = crashes + 1
  /\ Die(p)
  /\ UNCHANGED <<forkfails, turn>>

TakeSignal(p) ==
  \/ HandleUser1(p)
  \/ DieOfUser1(p)
  \/ LastSignal(p)
  \/ DieOfUser2(p)
  \/ WaitInterrupted(p)

Start(p) ==
  \/ MakeMeImmortal(p, "app_exec")
  \/ BlockAllExceptUser(p)
  \/ SetInitialSH(p)
  \/ RunScheduler(p)
  \/ ChildExecs(p)
  \/ SetHandlers(p)
  \/ TargetParent(p)
  \/ Hello(p)
  \/ HelloFindsNobody(p)
  \/ HelloFindsInit(p)

RunTask(p) ==
  \/ \E task \in Task : WatchdogStop(p, task) \/ StopFails(p, task)
  \/ IncCntTSK(p)
  \/ SendSignal1TSK(p)
  \/ SendFindsNobody(p)
  \/ Alright(p)
  \/ Suspects(p)
  \/ KillTarget(p)
  \/ ReviveClient(p)
  \/ \E q \in Pid : ReviveWatchdog(p, q)
  \/ StartMonitoring(p)
  \/ WdIsLate(p)
  \/ \E q \in Pid : WaitReforks(p, q)
  \/ WaitFindsNoChild(p)
  \/ ThreadReturns(p)
  \/ ThreadExits(p)

(* What need not happen. *)
Choice(p) ==
  \/ ReviveWatchdogFails(p)
  \/ WaitForkFails(p)
  \/ DoNotResuscitate(p)
  \/ MakeMeImmortal(p, "app_done")

Next ==
  \/ \E p \in Pid : TakeSignal(p) \/ Crash(p)
  \/ \E p \in Pid : Start(p) \/ RunTask(p) \/ Round(p) \/ Choice(p)

(* The kernel lets every process run, which takes its signals first, the   *)
(* client calls MakeMeImmortal, and time goes by.                          *)
Fairness ==
  /\ \A p \in Pid : WF_vars(TakeSignal(p) \/ Start(p) \/ RunTask(p))
  /\ WF_vars(\E p \in Pid : Round(p))

Spec == Init /\ [][Next]_vars /\ Fairness

-----------------------------------------------------------------------------
(* Safety.                                                                 *)

Client(p) == stage[p] \in AppStage
Wd(p)     == stage[p] \in WdStage

(* A silent target is noticed: the count of missed signals never passes    *)
(* the limit by more than the increment of the round in which it is        *)
(* noticed, in whatever order a round runs its tasks.                      *)
DetectionBound == \A p \in Pid : mem[p].misses <= MaxMissed + 1

(* There are never two clients: a WD that executes the client again has    *)
(* sent SIGUSR2 to the old one, or found it gone.                          *)
OneClient == \A p, q \in Pid : Client(p) /\ Client(q) => p = q

(* A client never has two WDs: whichever it replaces, in whatever state it *)
(* was, has been sent SIGUSR2.                                             *)
OneWatchdog ==
  \A p, w \in Pid :
    Client(p) /\ w \in Children(p) /\ Wd(w) => mem[p].target = w

(* While the thread of a client works, the pid it would signal or wait for *)
(* is that of its own child, dead or alive, and not one that the kernel    *)
(* may have given to a stranger since.                                     *)
TargetIsOwnChild ==
  \A p \in Pid :
    /\ stage[p] \in {"app_run", "app_suspect", "app_revive", "app_late",
                    "app_wait", "app_reap"}
    /\ mem[p].target \in Pid
    => mem[p].target \in Children(p)

(* When DoNotResuscitate returns, the WD is gone and reaped, and no other  *)
(* one is left that is not dying.                                          *)
StopLeavesNoWatchdog ==
  \A p \in Pid :
    stage[p] = "app_done" =>
      /\ mem[p].target \notin Children(p)
      /\ \A w \in Children(p) : ~Wd(w)

(* However often the client and WD replace each other, and whoever dies    *)
(* meanwhile, the client starts with the arguments of its first life, and  *)
(* WD with the interval, the limit and the arguments of its client.        *)
ArgsSurvive ==
  \A p \in Pid :
    /\ Client(p) => mem[p].argv = ClientArgv
    /\ Wd(p) /\ stage[p] # "child" =>
         LET argv == mem[p].argv IN
         /\ Atoi(argv[2]) = Seconds
         /\ Atoi(argv[3]) = MaxMissed
         /\ Atoi(argv[4]) = Len(ClientArgs(p))
         /\ ClientArgs(p) = ClientArgv

-----------------------------------------------------------------------------
(* Action properties.                                                      *)

(* The watchdog ends the client itself (EXIT_IF_BAD after waitpid) only if *)
(* a fork has failed, if MakeMeImmortal was called after DoNotResuscitate, *)
(* or by a last SIGUSR1 that comes while the WD which was told to stop is  *)
(* dying.                                                                  *)
ExitHasCause ==
  [][\A p \in Pid :
       stage[p] = "app_reap" /\ stage'[p] \in {"free", "zombie"} =>
         LET wd == mem[p].target IN
         \/ crashes' > crashes
         \/ wd \in {ZeroPid, NoPid}
         \/ user1[p] /\ wd \in Pid /\ stage[wd] = "dying"]_vars

(* Nobody who is at work is suspected: with rounds no more than MaxSkew    *)
(* apart and MaxMissed > 2 * MaxSkew + 1, a process that decides to kill   *)
(* its target, in ReviveIfNeededTSK or in WaitForWatchdogAppTSK, has a     *)
(* dead or dying target - though the target may be in the middle of its    *)
(* own round, or about to send its signal, when the count is read.         *)
NoFalseSuspicion ==
  [][\A p, q \in Pid :
       /\ RunsTasks(p)
       /\ stage'[p] \in {"app_suspect", "wd_suspect", "app_late"}
       => ~(mem[p].target = q /\ Works(q))]_vars

(* The WD, which hears no more signals once DoNotResuscitate was called,   *)
(* does not kill the client for it.                                        *)
StopIsNoSilence ==
  [][\A p \in Pid : mem[p].stop => stage'[p] # "dying"]_vars

-----------------------------------------------------------------------------
(* Liveness.                                                               *)

Guarded(p) ==
  /\ stage[p] = "app_run"
  /\ mem[p].answered
  /\ mem[p].sched = Monitoring
  /\ \E w \in Pid :
       /\ mem[p].target = w
       /\ stage[w] = "wd_run"
       /\ mem[w].target = p
       /\ mem[w].sched = Monitoring

(* Once MakeMeImmortal has returned, there is again and again a client     *)
(* whose WD watches it and that watches its WD, whichever of them dies,    *)
(* unless DoNotResuscitate is called.                                      *)
ImmortalStaysGuarded ==
  <>(\E p \in Pid : mem[p].answered) =>
    []<>(\E p \in Pid : Guarded(p)) \/ <>(\E p \in Pid : mem[p].stop)

(* DoNotResuscitate returns, unless the process ends for another reason.   *)
StopEnds ==
  \A p \in Pid :
    mem[p].stop ~> stage[p] \in {"app_done", "dying", "free", "zombie"}
=============================================================================
