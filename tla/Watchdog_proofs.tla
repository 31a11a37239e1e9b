--------------------------- MODULE Watchdog_proofs ---------------------------
(***************************************************************************)
(* The inductive invariant of Watchdog, IInv, and the properties that      *)
(* follow from it, for any number of processes, crashes and failed forks.  *)
(* StepMoves reduces the actions to the moves of WatchdogInvariant; one    *)
(* lemma per kind of move shows that the family of client and WD stays     *)
(* together.                                                               *)
(***************************************************************************)
EXTENDS WatchdogMemory_proofs

(* Every step moves the family in one of the ways that Moves lists. This   *)
(* reads the actions of the program and the kernel once; the lemmas after  *)
(* it argue about seven kinds of moves and no longer about signals,        *)
(* counters or tasks.                                                      *)
LEMMA StepMoves ==
  TypeOK /\ Counting /\ Targets /\ TargetIsOwnChild /\ [Next]_vars => Moves
<1> SUFFICES ASSUME TypeOK, Counting, Targets, TargetIsOwnChild, [Next]_vars
             PROVE  Moves
  OBVIOUS
<1> USE DEF SameFor
<1>1. /\ stage \in [Pid -> Stage] /\ parent \in [Pid -> Pid \cup {InitPid}]
      /\ mem \in [Pid -> Memory]
      /\ \A p \in Pid : /\ Counts(stage[p], mem[p])
                        /\ mem[p] \in Memory
                        /\ mem[p].todo \subseteq mem[p].sched
  BY DEF Counting, TypeOK
<1>2. ASSUME NEW p \in Pid,
             Advances(p) \/ Kills(p) \/ Executes(p) \/ Reaps(p) \/ Dies(p)
      PROVE  Moves
  BY <1>2 DEF Moves
<1>3. ASSUME NEW p \in Pid,
             HandleUser1(p) \/ Round(p) \/ IncCntTSK(p) \/ SendSignal1TSK(p)
               \/ Alright(p) \/ StartMonitoring(p) \/ DoNotResuscitate(p)
               \/ LastSignal(p)
      PROVE  Moves
  <2>1. stage' = stage /\ parent' = parent
    BY <1>3 DEF HandleUser1, Round, IncCntTSK, SendSignal1TSK, Alright,
                StartMonitoring, DoNotResuscitate, LastSignal, kernel
  <2>2. \A q \in Pid : /\ mem'[q].target = mem[q].target
                       /\ mem'[q].argv = mem[q].argv
    BY <1>3, <1>1
       DEF HandleUser1, Round, IncCntTSK, SendSignal1TSK, Alright, Done,
           StartMonitoring, DoNotResuscitate, LastSignal, Memory
  <2>3. QED
    BY <2>1, <2>2 DEF Moves, Stays
<1>4. ASSUME NEW p \in Pid,
             DieOfUser1(p) \/ DieOfUser2(p) \/ HelloFindsInit(p)
               \/ ThreadExits(p) \/ WaitInterrupted(p) \/ Crash(p)
      PROVE  Moves
  <2>1. Die(p) /\ stage[p] \notin {"free", "zombie"}
    BY <1>4 DEF DieOfUser1, DieOfUser2, HelloFindsInit, ThreadExits,
                WaitInterrupted, Crash, User1Kills, Works, Stands
  <2>2. stage[p] = "app_reap" =>
          \/ WaitedFor(p) = {}
          \/ WaitedFor(p) # {} /\ Reapable(p) = {} /\ user1[p]
          \/ crashes' = crashes + 1
    BY <1>4 DEF DieOfUser1, DieOfUser2, HelloFindsInit, ThreadExits,
                WaitInterrupted, MayJoin, Crash, User1Kills, Stands
  <2>3. crashes + 1 > crashes
    BY BoundsAssumption DEF TypeOK
  <2>4. QED
    BY <2>1, <2>2, <2>3, <1>2 DEF Dies
<1>5. ASSUME NEW p \in Pid, NEW at \in {"app_exec", "app_done"},
             MakeMeImmortal(p, at)
      PROVE  Moves
  <2>1. /\ stage[p] = at /\ stage'[p] = "app_blocked" /\ parent' = parent
        /\ mem'[p].target = NoPid /\ mem'[p].argv = mem[p].argv
        /\ \A q \in Pid \ {p} : stage'[q] = stage[q] /\ mem'[q] = mem[q]
    BY <1>5, <1>1 DEF MakeMeImmortal, Stands, WithArgs, Fresh
  <2>2. QED
    BY <2>1, <1>2 DEF Advances
<1>6. ASSUME NEW p \in Pid,
             BlockAllExceptUser(p) \/ SetInitialSH(p) \/ SetHandlers(p)
               \/ WaitFindsNoChild(p)
      PROVE  Moves
  <2>1. /\ mem' = mem /\ parent' = parent
        /\ \A q \in Pid \ {p} : stage'[q] = stage[q]
        /\ <<stage[p], stage'[p]>> \in
             {<<"app_blocked", "app_unblocked">>,
              <<"app_unblocked", "app_handler">>, <<"wd_exec", "wd_boot">>,
              <<"app_wait", "app_run">>}
    BY <1>6, <1>1 DEF BlockAllExceptUser, SetInitialSH, SetHandlers,
              WaitFindsNoChild, At, Stands
  <2>2. QED
    BY <2>1, <1>2 DEF Advances
<1>7. ASSUME NEW p \in Pid, RunScheduler(p) PROVE Moves
  <2>1. /\ parent' = parent /\ stage[p] = "app_handler" /\ stage'[p] = "app_run"
        /\ \A q \in Pid \ {p} : stage'[q] = stage[q] /\ mem'[q] = mem[q]
        /\ mem'[p].target = mem[p].target /\ mem'[p].argv = mem[p].argv
    BY <1>7, <1>1 DEF RunScheduler, At, Stands, Memory
  <2>2. QED
    BY <2>1, <1>2 DEF Advances
<1>8. ASSUME NEW p \in Pid,
             ChildExecs(p) \/ ReviveClient(p) \/ HelloFindsNobody(p)
      PROVE  Moves
  <2>1. /\ parent' = parent /\ mem'[p].target = NoPid
        /\ \A q \in Pid \ {p} : stage'[q] = stage[q] /\ mem'[q] = mem[q]
    BY <1>8, <1>1 DEF ChildExecs, ReviveClient, HelloFindsNobody, Exec,
                      WithArgs, Fresh
  <2>2. \/ /\ stage[p] = "child" /\ stage'[p] = "wd_exec"
           /\ mem'[p].argv = CreateArgv(mem[p].argv)
        \/ /\ stage[p] = "wd_revive" /\ stage'[p] = "app_exec"
           /\ mem'[p].argv = ClientArgs(p)
        \/ /\ stage[p] = "wd_hello" /\ stage'[p] = "app_exec"
           /\ mem'[p].argv = ClientArgs(p)
           /\ mem[p].target \in Pid /\ ~Exists(mem[p].target)
    BY <1>8, <1>1 DEF ChildExecs, ReviveClient, HelloFindsNobody, Exec,
                      WithArgs, Fresh, Stands
  <2>3. QED
    BY <2>1, <2>2, <1>2 DEF Executes
<1>9. ASSUME NEW p \in Pid, SendFindsNobody(p) PROVE Moves
  <2>1. /\ parent' = parent /\ mem'[p].target = NoPid
        /\ \A q \in Pid \ {p} : stage'[q] = stage[q] /\ mem'[q] = mem[q]
        /\ stage'[p] = "app_exec" /\ mem'[p].argv = ClientArgs(p)
    BY <1>9, <1>1 DEF SendFindsNobody, Exec, WithArgs, Fresh
  <2>2. ~Exists(mem[p].target)
    BY <1>9 DEF SendFindsNobody
  <2>3. stage[p] # "app_run"
    <3>1. SUFFICES ASSUME stage[p] = "app_run" PROVE FALSE
      OBVIOUS
    <3>2. mem[p].target # NoPid
      BY <1>9, <1>1 DEF SendFindsNobody, Goes, Due, Counts
    <3>3. mem[p].target # InitPid /\ mem[p].target \in Target
      BY <1>1, <3>1 DEF Targets, Client, AppStage, Memory
    <3>4. mem[p].target \notin Pid
      BY <2>2, <3>1 DEF TargetIsOwnChild, Children, Exists
    <3>5. mem[p].target # ZeroPid
      BY <2>2 DEF Exists
    <3>6. QED
      BY <3>2, <3>3, <3>4, <3>5 DEF Target
  <2>4. stage[p] = "wd_run"
    BY <1>9, <2>3 DEF SendFindsNobody, Goes, Due, Stands, Running
  <2>5. mem[p].target \in Pid
    BY <2>4 DEF Targets
  <2>6. QED
    BY <2>1, <2>2, <2>4, <2>5, <1>2 DEF Executes
<1>10. ASSUME NEW p \in Pid, TargetParent(p) PROVE Moves
  <2>1. /\ parent' = parent /\ stage[p] = "wd_boot" /\ stage'[p] = "wd_hello"
        /\ \A q \in Pid \ {p} : stage'[q] = stage[q] /\ mem'[q] = mem[q]
        /\ mem'[p].target = parent[p] /\ mem'[p].argv = mem[p].argv
    BY <1>10, <1>1 DEF TargetParent, At, Stands, Memory
  <2>2. QED
    BY <2>1, <1>2 DEF Advances
<1>11. ASSUME NEW p \in Pid, Hello(p) \/ Suspects(p) PROVE Moves
  <2>1. /\ mem' = mem /\ parent' = parent
        /\ \A q \in Pid \ {p} : stage'[q] = stage[q]
        /\ \/ <<stage[p], stage'[p]>> \in
                {<<"app_run", "app_suspect">>, <<"wd_run", "wd_suspect">>}
           \/ /\ stage[p] = "wd_hello" /\ stage'[p] = "wd_run"
              /\ Exists(mem[p].target)
    BY <1>11, <1>1 DEF Hello, Suspects, Goes, Due, Stands, Running
  <2>2. QED
    BY <2>1, <1>2 DEF Advances
<1>12. ASSUME NEW p \in Pid, NEW to, NEW m,
              SendUser2(p, User2Receivers(mem[p].target), to, m),
              m.target = mem[p].target, m.argv = mem[p].argv,
              <<stage[p], to>> \in
                {<<"app_suspect", "app_revive">>, <<"wd_suspect", "wd_revive">>,
                 <<"app_late", "app_wait">>, <<"app_run", "app_reap">>}
       PROVE  Moves
  <2>1. parent' = parent /\ stage'[p] = to /\ mem'[p] = m
    BY <1>12 DEF SendUser2
  <2>2. \A q \in Pid \ {p} :
          IF q \in User2Receivers(mem[p].target) THEN stage'[q] = "dying"
          ELSE stage'[q] = stage[q] /\ mem'[q] = mem[q]
    BY <1>12 DEF SendUser2
  <2>3. QED
    BY <2>1, <2>2, <1>12, <1>2 DEF Kills
<1>13. ASSUME NEW p \in Pid, NEW task \in Task, WatchdogStop(p, task)
       PROVE  Moves
  <2> DEFINE m == [mem[p] EXCEPT !.sched = {}, !.todo = {}]
  <2>1. m.target = mem[p].target /\ m.argv = mem[p].argv
    BY <1>1 DEF Memory
  <2>2. SendUser2(p, User2Receivers(mem[p].target), "app_reap", m)
    BY <1>13 DEF WatchdogStop, StopRequest
  <2> HIDE DEF m
  <2>3. stage[p] = "app_run"
    BY <1>1, <1>13 DEF WatchdogStop, Due, Stands, Running, Counts, WdStage
  <2>4. QED
    BY <1>12, <2>1, <2>2, <2>3
<1>14. ASSUME NEW p \in Pid, KillTarget(p) PROVE Moves
  <2>1. <<stage[p], AfterKill[stage[p]]>> \in
          {<<"app_suspect", "app_revive">>, <<"wd_suspect", "wd_revive">>,
           <<"app_late", "app_wait">>}
    BY <1>14 DEF KillTarget, Stands, AfterKill
  <2>2. QED
    BY <1>12, <1>14, <2>1 DEF KillTarget
<1>15. ASSUME NEW p \in Pid, NEW task \in Task, StopFails(p, task)
       PROVE  Moves
  <2>1. /\ parent' = parent
        /\ \A q \in Pid \ {p} : stage'[q] = stage[q] /\ mem'[q] = mem[q]
        /\ mem'[p].target = mem[p].target /\ mem'[p].argv = mem[p].argv
        /\ stage'[p] \in {stage[p], "app_reap"} /\ ~Exists(mem[p].target)
    BY <1>15, <1>1 DEF StopFails, Memory
  <2>2. stage[p] = "app_run"
    BY <1>1, <1>15 DEF StopFails, Due, Stands, Running, Counts, WdStage
  <2>3. CASE stage'[p] = stage[p]
    BY <2>1, <2>3 DEF Moves, Stays
  <2>4. CASE stage'[p] = "app_reap"
    BY <2>1, <2>2, <2>4, <1>2 DEF Advances
  <2>5. QED
    BY <2>1, <2>3, <2>4
<1>16. ASSUME NEW p \in Pid, WdIsLate(p) PROVE Moves
  <2>1. /\ parent' = parent /\ stage'[p] = "app_late"
        /\ \A q \in Pid \ {p} : stage'[q] = stage[q] /\ mem'[q] = mem[q]
        /\ mem'[p].target = mem[p].target /\ mem'[p].argv = mem[p].argv
    BY <1>16, <1>1 DEF WdIsLate, Done, Memory
  <2>2. stage[p] = "app_run"
    BY <1>1, <1>16 DEF WdIsLate, Goes, Due, Stands, Running, Counts, WdStage,
                       Monitoring
  <2>3. QED
    BY <2>1, <2>2, <1>2 DEF Advances
<1>17. ASSUME NEW p \in Pid, NEW q \in Pid, ReviveWatchdog(p, q) PROVE Moves
  <2>1. /\ stage[p] = "app_revive" /\ stage[q] = "free"
        /\ stage'[p] = "app_run" /\ stage'[q] = "child"
        /\ \A r \in Pid \ {p, q} : stage'[r] = stage[r]
        /\ parent'[q] = p /\ \A r \in Pid \ {q} : parent'[r] = parent[r]
    BY <1>17, <1>1 DEF ReviveWatchdog, Fork, Stands
  <2>2. /\ mem'[q].argv = mem[p].argv /\ mem'[p].argv = mem[p].argv
        /\ mem'[p].target = q
        /\ \A r \in Pid \ {p, q} : mem'[r] = mem[r]
    BY <1>1, <1>17, <2>1 DEF ReviveWatchdog, Copied, Waiting, Memory
  <2>3. QED
    BY <2>1, <2>2 DEF Forks, Moves, MayBeReaped
<1>18. ASSUME NEW p \in Pid, NEW after \in Reaped(p)
      PROVE  /\ after \in [Pid -> Stage]
             /\ \A r \in Pid : \/ after[r] = stage[r]
                               \/ /\ after[r] = "free" /\ stage[r] = "zombie"
                                  /\ parent[r] = p
  BY <1>18, <1>1 DEF Reaped, Reapable, WaitedFor, Children, Stage
<1>19. ASSUME NEW p \in Pid, NEW q \in Pid, WaitReforks(p, q) PROVE Moves
  <2>1. PICK after \in Reaped(p) : Fork(p, q, after)
    BY <1>19 DEF WaitReforks
  <2>2. stage[p] = "app_wait"
    BY <1>19 DEF WaitReforks, Stands
  <2>3. /\ stage[q] \in {"free", "zombie"}
        /\ stage'[p] = "app_run" /\ stage'[q] = "child"
        /\ parent'[q] = p /\ \A r \in Pid \ {q} : parent'[r] = parent[r]
        /\ \A r \in Pid \ {p, q} : \/ stage'[r] = stage[r]
                                   \/ /\ stage[r] = "zombie" /\ parent[r] = p
                                      /\ stage'[r] = "free"
    BY <1>18, <1>1, <2>1, <2>2 DEF Fork
  <2>4. /\ mem'[q].argv = mem[p].argv /\ mem'[p].argv = mem[p].argv
        /\ mem'[p].target = q
        /\ \A r \in Pid \ {p, q} : mem'[r] = mem[r]
    BY <1>1, <1>19, <2>2, <2>3 DEF WaitReforks, Copied, Memory
  <2>5. QED
    BY <2>2, <2>3, <2>4 DEF Forks, Moves, MayBeReaped
<1>20. ASSUME NEW p \in Pid, ReviveWatchdogFails(p) PROVE Moves
  <2>1. /\ stage[p] = "app_revive" /\ stage'[p] = "app_run" /\ parent' = parent
        /\ \A r \in Pid \ {p} : stage'[r] = stage[r] /\ mem'[r] = mem[r]
        /\ mem'[p].argv = mem[p].argv /\ mem'[p].target = ZeroPid
    BY <1>1, <1>20 DEF ReviveWatchdogFails, ForkFails, Waiting, Stands, Memory,
                       TargetAfterFailedFork
  <2>2. QED
    BY <2>1, <1>2 DEF Advances
<1>21. ASSUME NEW p \in Pid, WaitForkFails(p) PROVE Moves
  <2>1. PICK after \in Reaped(p) : ForkFails(p, after)
    BY <1>21 DEF WaitForkFails
  <2>2. stage[p] = "app_wait"
    BY <1>21 DEF WaitForkFails, Stands
  <2>3. /\ stage'[p] = "app_run" /\ parent' = parent
        /\ \A r \in Pid \ {p} : \/ stage'[r] = stage[r]
                                \/ /\ stage[r] = "zombie" /\ parent[r] = p
                                   /\ stage'[r] = "free"
    BY <1>18, <1>1, <2>1, <2>2 DEF ForkFails
  <2>4. /\ \A r \in Pid \ {p} : mem'[r] = mem[r]
        /\ mem'[p].target = ZeroPid /\ mem'[p].argv = mem[p].argv
    BY <1>1, <1>21 DEF WaitForkFails, TargetAfterFailedFork, Memory
  <2>5. QED
    BY <2>2, <2>3, <2>4, <1>2 DEF Reaps, MayBeReaped
<1>22. ASSUME NEW p \in Pid, ThreadReturns(p) PROVE Moves
  <2>1. PICK q \in Reapable(p) :
          stage' = [stage EXCEPT ![q] = "free", ![p] = "app_done"]
    BY <1>22 DEF ThreadReturns, MayJoin, Reaped
  <2>2. /\ q \in Pid /\ stage[q] = "zombie" /\ parent[q] = p
        /\ mem[p].target \in {q, ZeroPid} /\ stage[p] = "app_reap"
    BY <1>22, <2>1 DEF ThreadReturns, Stands, Reapable, WaitedFor, Children
  <2>3. /\ stage'[p] = "app_done" /\ stage'[q] = "free"
        /\ \A r \in Pid \ {p, q} : stage'[r] = stage[r]
        /\ mem' = mem /\ parent' = parent
    BY <1>22, <1>1, <2>1, <2>2 DEF ThreadReturns
  <2>4. mem[p].target \in Pid => mem[p].target = q
    BY <2>2, PidAssumption
  <2>5. QED
    BY <2>2, <2>3, <2>4, <1>2 DEF Reaps, MayBeReaped
<1>23. CASE UNCHANGED vars
  BY <1>23 DEF vars, kernel, Moves, Stays
<1>24. QED
  BY <1>3, <1>4, <1>5, <1>6, <1>7, <1>8, <1>9, <1>10, <1>11, <1>13, <1>14,
     <1>15, <1>16, <1>17, <1>19, <1>20, <1>21, <1>22, <1>23, Zenon
     DEF Next, TakeSignal, Start, RunTask, Choice

(* Every step keeps the arguments: only exec writes them, the child's with *)
(* what CreateArgv makes of the client's, the WD's with what ReviveClient  *)
(* takes out of its own.                                                   *)
LEMMA StepArgs == TypeOK /\ Args /\ Moves => Args'
<1> SUFFICES ASSUME TypeOK, Args, Moves PROVE Args'
  OBVIOUS
<1> DEFINE ArgsAt(q) ==
      /\ stage[q] \in AppStage \cup {"child"} => mem[q].argv = ClientArgv
      /\ stage[q] \in WdStage \ {"child"} =>
           mem[q].argv = CreateArgv(ClientArgv)
<1>1. \A q \in Pid : ArgsAt(q)
  BY DEF Args
<1>2. \A q \in Pid : SameFor(q) => ArgsAt(q)'
  BY <1>1 DEF SameFor
<1>3. \A q \in Pid : stage'[q] \in {"free", "zombie", "dying"} => ArgsAt(q)'
  BY DEF AppStage, AppBoot, WdStage
<1>4. CASE Stays
  BY <1>4, <1>2 DEF Stays, Args
<1>5. ASSUME NEW p \in Pid, Advances(p) \/ Kills(p) \/ Reaps(p) PROVE Args'
  <2>1. \A q \in Pid \ {p} : ArgsAt(q)'
    BY <1>5, <1>2, <1>3 DEF Advances, Kills, Reaps, MayBeReaped
  <2>2. ArgsAt(p)'
    BY <1>5, <1>1 DEF Advances, Kills, Reaps, AppStage, AppBoot, WdStage
  <2>3. QED
    BY <2>1, <2>2 DEF Args
<1>6. ASSUME NEW p \in Pid, Executes(p) PROVE Args'
  <2>1. \A q \in Pid \ {p} : ArgsAt(q)'
    BY <1>6, <1>2 DEF Executes
  <2>2. ArgsAt(p)'
    BY <1>6, <1>1, ArgVectors
       DEF Executes, AppStage, AppBoot, WdStage, ClientArgs
  <2>3. QED
    BY <2>1, <2>2 DEF Args
<1>7. ASSUME NEW p \in Pid, Dies(p) PROVE Args'
  <2>1. \A q \in Pid : ArgsAt(q)'
    BY <1>7, <1>1 DEF Dies, Die, AppStage, AppBoot, WdStage, TypeOK
  <2>2. QED
    BY <2>1 DEF Args
<1>8. ASSUME NEW p \in Pid, NEW q \in Pid, Forks(p, q) PROVE Args'
  <2>1. \A r \in Pid \ {p, q} : ArgsAt(r)'
    BY <1>8, <1>2, <1>3 DEF Forks, MayBeReaped
  <2>2. ArgsAt(p)' /\ ArgsAt(q)'
    BY <1>8, <1>1 DEF Forks, AppStage, AppBoot, WdStage
  <2>3. QED
    BY <2>1, <2>2 DEF Args
<1>9. QED
  BY <1>4, <1>5, <1>6, <1>7, <1>8 DEF Moves

(* Where nobody becomes a client or a WD there is still one of each at     *)
(* most.                                                                   *)
LEMMA NobodyNew ==
  ASSUME Family, \A q \in Pid : (Client(q)' => Client(q)) /\ (Wd(q)' => Wd(q))
  PROVE  OneClient' /\ OneWd'
BY DEF Family, OneClient, OneWd

(* A process that advances on its own keeps the family. Of interest are    *)
(* the moves that trust the target: from wd_hello to wd_run it exists,     *)
(* from app_run to app_reap it does not.                                   *)
LEMMA AdvancesFamily ==
  ASSUME TypeOK, Family, NEW p \in Pid, Advances(p)
  PROVE  Family'
<1> USE DEF Family, Advances, SameFor
<1>1. \A q \in Pid : (Client(q)' => Client(q)) /\ (Wd(q)' => Wd(q))
  BY DEF Client, Wd, AppStage, AppBoot, WdStage
<1>2. OneClient' /\ OneWd'
  BY <1>1, NobodyNew
<1>3. Pair'
  BY <1>1 DEF Pair, Client, Wd, AppStage, AppBoot, WdStage, Alone, Lonely
<1>4. Alone'
  BY <1>1
     DEF Pair, Client, Wd, AppStage, AppBoot, WdStage, Alone, Lonely, Exists
<1>5. Targets'
  BY PidAssumption
     DEF Targets, Client, AppStage, AppBoot, Children, TypeOK, Exists, Stage
<1>6. TargetIsOwnChild'
  BY PidAssumption DEF TargetIsOwnChild, Targets, AppBoot, Children, TypeOK
<1>7. QED
  BY <1>2, <1>3, <1>4, <1>5, <1>6

(* A SIGUSR2 keeps the family: whoever goes on to revive or to reap is     *)
(* alone, because his target was the one other process of the pair and is  *)
(* dying.                                                                  *)
LEMMA KillsFamily ==
  ASSUME TypeOK, Family, NEW p \in Pid, Kills(p)
  PROVE  Family'
<1> USE DEF Family, Kills, SameFor
<1>1. \A q \in Pid : (Client(q)' => Client(q)) /\ (Wd(q)' => Wd(q))
  BY DEF Client, Wd, AppStage, AppBoot, WdStage
<1>2. OneClient' /\ OneWd'
  BY <1>1, NobodyNew
<1>3. Pair'
  BY <1>1 DEF Pair, Client, Wd, AppStage, AppBoot, WdStage, Alone, Lonely
<1>4. \A q \in Pid : mem[p].target = q /\ (Wd(q) \/ Client(q)) /\ q # p
                       => stage'[q] = "dying"
  BY PidAssumption
     DEF User2Receivers, Receivers, Works, Wd, Client, AppStage, AppBoot,
         WdStage
<1>5. Alone'
  BY <1>1, <1>4
     DEF Pair, Client, Wd, AppStage, AppBoot, WdStage, Alone, Lonely, OneClient
<1>6. Targets'
  <2>1. \A q \in Pid : stage'[q] # "dying" =>
          /\ mem'[q].target = mem[q].target
          /\ stage'[q] = stage[q] \/ q = p
    OBVIOUS
  <2>2. \A q \in Pid : Children(q)' \subseteq Children(q)
    BY DEF Children, User2Receivers, Receivers, Works
  <2>3. QED
    BY <2>1, <2>2 DEF Targets, Client, AppStage, AppBoot
<1>7. TargetIsOwnChild'
  BY DEF TargetIsOwnChild, Children
<1>8. QED
  BY <1>2, <1>3, <1>5, <1>6, <1>7

(* exec keeps the family: the child becomes the WD its parent points at,   *)
(* and a WD becomes the client only when there is none.                    *)
LEMMA ExecutesFamily ==
  ASSUME TypeOK, Family, NEW p \in Pid, Executes(p)
  PROVE  Family'
<1> USE DEF Family, Executes, SameFor
<1>1. CASE stage[p] = "child"
  <2>1. \A q \in Pid : (Client(q)' => Client(q)) /\ (Wd(q)' => Wd(q))
    BY <1>1 DEF Client, Wd, AppStage, AppBoot, WdStage
  <2>2. OneClient' /\ OneWd'
    BY <2>1, NobodyNew
  <2>3. Pair' /\ Alone'
    BY <1>1, <2>1
       DEF Pair, Client, Wd, AppStage, AppBoot, WdStage, Alone, Lonely
  <2>4. Targets' /\ TargetIsOwnChild'
    BY <1>1 DEF Targets, TargetIsOwnChild, Client, AppStage, AppBoot, Children
  <2>5. QED
    BY <2>2, <2>3, <2>4
<1>2. CASE stage[p] # "child"
  <2>1. /\ stage'[p] = "app_exec" /\ Wd(p) /\ ~Wd(p)'
        /\ \A q \in Pid : Wd(q)' => Wd(q) /\ q # p
    BY <1>2 DEF Wd, AppStage, AppBoot, WdStage
  <2>2. \A q \in Pid : ~Client(q)
    BY <1>2 DEF Wd, WdStage, Pair, Alone, Exists, Client, AppStage, AppBoot
  <2>3. \A q \in Pid : Client(q)' => q = p
    BY <2>2 DEF Client
  <2>4. \A q \in Pid : ~Wd(q)'
    BY <2>1 DEF OneWd
  <2>5. OneClient' /\ OneWd' /\ Pair' /\ Alone'
    BY <2>3, <2>4 DEF OneClient, OneWd, Pair, Alone, Wd, WdStage
  <2>6. Targets' /\ TargetIsOwnChild'
    BY <2>1, <2>3, PidAssumption
       DEF Targets, TargetIsOwnChild, Client, AppStage, AppBoot, Children
  <2>7. QED
    BY <2>5, <2>6
<1>3. QED
  BY <1>1, <1>2

(* Reaping keeps the family: a target that was waited for is gone, and no  *)
(* longer a child of the process that waited.                              *)
LEMMA ReapsFamily ==
  ASSUME TypeOK, Family, NEW p \in Pid, Reaps(p)
  PROVE  Family'
<1> USE DEF Family, Reaps, MayBeReaped, SameFor
<1>1. \A q \in Pid : (Client(q)' => Client(q)) /\ (Wd(q)' => Wd(q))
  BY DEF Client, Wd, AppStage, AppBoot, WdStage
<1>2. OneClient' /\ OneWd'
  BY <1>1, NobodyNew
<1>3. Pair'
  BY <1>1 DEF Pair, Client, Wd, AppStage, AppBoot, WdStage, Alone, Lonely
<1>4. Alone'
  BY <1>1 DEF Client, Wd, AppStage, AppBoot, WdStage, Alone, Lonely
<1>5. \A q \in Pid : Client(q) => q = p
  BY DEF OneClient, Client, AppStage
<1>6. Targets'
  BY <1>1, <1>5, PidAssumption DEF Targets, Client, AppStage, AppBoot, Children
<1>7. TargetIsOwnChild'
  BY <1>1, <1>5, PidAssumption
     DEF TargetIsOwnChild, Client, AppStage, AppBoot, Children
<1>8. QED
  BY <1>2, <1>3, <1>4, <1>6, <1>7

(* A death keeps the family, wherever it comes from: the orphans go to     *)
(* init, whom nobody takes for a child.                                    *)
LEMMA DiesFamily ==
  ASSUME TypeOK, Family, NEW p \in Pid, Dies(p)
  PROVE  Family'
<1> USE DEF Family, TypeOK
<1>1. Die(p) /\ stage[p] \notin {"free", "zombie"}
  BY DEF Dies
<1>2. /\ stage'[p] = IF parent[p] \in Pid THEN "zombie" ELSE "free"
      /\ \A q \in Pid \ {p} :
           /\ \/ stage'[q] = stage[q]
              \/ stage'[q] = "free" /\ stage[q] = "zombie" /\ parent[q] = p
           /\ mem'[q] = mem[q]
      /\ \A q \in Pid :
           parent'[q] = IF parent[q] = p THEN InitPid ELSE parent[q]
  BY <1>1 DEF Die
<1>3. \A q \in Pid : /\ Client(q)' => Client(q) /\ q # p
                     /\ Wd(q)' => Wd(q) /\ q # p
  BY <1>2 DEF Client, Wd, AppStage, AppBoot, WdStage
<1>4. OneClient' /\ OneWd'
  BY <1>3, NobodyNew
<1>5. Pair'
  BY <1>2, <1>3 DEF Pair, Client, Wd, AppStage, AppBoot, WdStage
<1>6. Alone'
  BY <1>2, <1>3 DEF Client, Wd, AppStage, AppBoot, WdStage, Alone, Lonely
<1>7. Targets'
  <2>1. \A q \in Pid : stage'[q] \notin {"free", "zombie"} =>
          /\ mem'[q].target = mem[q].target
          /\ stage'[q] = stage[q]
    BY <1>2
  <2>2. \A q \in Pid \ {p} : Children(q)' \subseteq Children(q)
    <3>1. \A r \in Pid : parent'[r] \in Pid => parent'[r] = parent[r]
      BY <1>2, PidAssumption
    <3>2. \A r \in Pid : stage'[r] # "free" /\ parent'[r] # InitPid
                           => stage[r] # "free"
      BY <1>1, <1>2
    <3>3. QED
      BY <3>1, <3>2, PidAssumption DEF Children
  <2>3. \A q \in Pid : parent'[q] # q
    BY <1>2, PidAssumption DEF Targets
  <2>4. QED
    BY <1>2, <2>1, <2>2, <2>3 DEF Targets, Client, AppStage, AppBoot
<1>8. TargetIsOwnChild'
  BY <1>2, <1>3, PidAssumption
     DEF TargetIsOwnChild, Client, AppStage, AppBoot, Children
<1>9. QED
  BY <1>4, <1>5, <1>6, <1>7, <1>8

(* A fork keeps the family: the process that forks is one that is alone,   *)
(* and the child it makes is the target it takes.                          *)
LEMMA ForksFamily ==
  ASSUME TypeOK, Family, NEW p \in Pid, NEW q \in Pid, Forks(p, q)
  PROVE  Family'
<1> USE DEF Family, Forks, MayBeReaped, SameFor
<1>1. \A r \in Pid : ~Wd(r)
  BY DEF Alone, Lonely
<1>2. \A r \in Pid : /\ Client(r)' => r = p
                     /\ Wd(r)' => r = q
  BY <1>1 DEF OneClient, Client, Wd, AppStage, AppBoot, WdStage
<1>3. OneClient' /\ OneWd'
  BY <1>2 DEF OneClient, OneWd
<1>4. Pair' /\ Alone'
  BY <1>2 DEF Pair, Alone, Lonely, Client, Wd, AppStage, AppBoot, WdStage
<1>5. Targets' /\ TargetIsOwnChild'
  BY <1>2, PidAssumption
     DEF Targets, TargetIsOwnChild, Client, Wd, AppStage, AppBoot, WdStage,
         Children
<1>6. QED
  BY <1>3, <1>4, <1>5

(* Every move keeps the family.                                            *)
LEMMA StepFamily == TypeOK /\ Family /\ Moves => Family'
<1> SUFFICES ASSUME TypeOK, Family, Moves PROVE Family'
  OBVIOUS
<1>1. CASE Stays
  BY <1>1 DEF Stays, SameFor, Family, OneClient, OneWd, Pair, Alone, Targets,
              TargetIsOwnChild, Client, Wd, Children
<1>2. QED
  BY <1>1, AdvancesFamily, KillsFamily, ExecutesFamily, ReapsFamily, DiesFamily,
     ForksFamily DEF Moves

(* The inductive invariant holds in the first state: one client that has   *)
(* executed nothing yet.                                                   *)
LEMMA InitInv == Init => IInv
<1> SUFFICES ASSUME Init PROVE IInv
  OBVIOUS
<1>1. TypeOK
  BY InitTyped
<1>2. /\ \A p \in Pid : /\ stage[p] \in {"app_exec", "free"}
                        /\ mem[p].target = NoPid
                        /\ mem[p].misses = 0 /\ mem[p].sched = {}
                        /\ mem[p].todo = {} /\ ~mem[p].stop
                        /\ stage[p] = "app_exec" => mem[p].argv = ClientArgv
      /\ \A p, q \in Pid : stage[p] = "app_exec" /\ stage[q] = "app_exec"
                             => p = q
  BY DEF Init, WithArgs, Fresh
<1>3. Counting
  <2>1. Counts("app_exec", WithArgs(ClientArgv)) /\ Counts("free", Fresh)
    BY MaxMissedAssumption
       DEF Counts, Resting, AppBoot, Running, WdStage, WithArgs, Fresh
  <2>2. \A p \in Pid :
          \/ stage[p] = "app_exec" /\ mem[p] = WithArgs(ClientArgv)
          \/ stage[p] = "free" /\ mem[p] = Fresh
    BY DEF Init
  <2>3. QED
    BY <2>1, <2>2 DEF Counting
<1>4. Args
  BY <1>2 DEF Args, WdStage, AppStage, AppBoot
<1>5. Family
  <2>1. \A p \in Pid : parent[p] = InitPid
    BY DEF Init
  <2>2. QED
    BY <1>2, <2>1, PidAssumption
       DEF Family, OneClient, OneWd, Pair, Alone, Targets, TargetIsOwnChild,
           Client, Wd, Lonely, AppStage, AppBoot, WdStage
<1>6. QED
  BY <1>1, <1>3, <1>4, <1>5 DEF IInv

(* The inductive invariant holds in every state the program reaches,       *)
(* whoever crashes, whatever fork fails and however late a signal arrives. *)
THEOREM Invariance == Spec => []IInv
<1>1. Init => IInv
  BY InitInv
<1>2. IInv /\ [Next]_vars => IInv'
  BY StepTyped, StepCounts, StepMoves, StepArgs, StepFamily DEF IInv, Family
<1>3. QED
  BY <1>1, <1>2, PTL DEF Spec

(* Every variable keeps its type: what WatchdogCreate set up               *)
(* (watchdog_utils.c:34-74) and the tasks have changed since, and what the *)
(* kernel knows of each pid.                                               *)
THEOREM TypeCorrect == Spec => []TypeOK
BY Invariance, PTL DEF IInv

(* A silent target is noticed: no process lets its count of misses pass    *)
(* the limit by more than the increment of the round in which it is        *)
(* noticed (watchdog_utils.c:139-207).                                     *)
THEOREM DetectionBoundCorrect == Spec => []DetectionBound
<1>1. IInv => DetectionBound
  BY DEF IInv, Counting, Counts, DetectionBound
<1>2. QED
  BY <1>1, Invariance, PTL

(* There are never two clients, although every WD executes the client's    *)
(* program when it takes its own for dead (watchdog_app.c:74-88).          *)
THEOREM OneClientCorrect == Spec => []OneClient
<1>1. IInv => OneClient
  BY DEF IInv, Family
<1>2. QED
  BY <1>1, Invariance, PTL

(* A client never has two WDs, however often it forks a new one            *)
(* (watchdog.c:215-291).                                                   *)
THEOREM OneWatchdogCorrect == Spec => []OneWatchdog
<1>1. IInv => OneWatchdog
  BY DEF IInv, Family, Pair, OneWatchdog, Children
<1>2. QED
  BY <1>1, Invariance, PTL

(* While the thread of a client works, a pid that it would signal or wait  *)
(* for is that of its own child, dead or alive, never a stranger's         *)
(* (watchdog.c:246, 272-291).                                              *)
THEOREM TargetIsOwnChildCorrect == Spec => []TargetIsOwnChild
<1>1. IInv => TargetIsOwnChild
  BY DEF IInv, Family
<1>2. QED
  BY <1>1, Invariance, PTL

(* When DoNotResuscitate returns, the WD is reaped and no other is left    *)
(* that is not dying (watchdog.c:120-128, 207).                            *)
THEOREM StopLeavesNoWatchdogCorrect == Spec => []StopLeavesNoWatchdog
<1>1. IInv => StopLeavesNoWatchdog
  BY DEF IInv, Family, Targets, Alone, Lonely, StopLeavesNoWatchdog, Children
<1>2. QED
  BY <1>1, Invariance, PTL

(* However often client and WD execute each other, the client starts with  *)
(* the arguments of its first life, and the WD with the interval, the      *)
(* limit and the arguments of its client (watchdog.c:352-403,              *)
(* watchdog_app.c:57-64).                                                  *)
THEOREM ArgsSurviveCorrect == Spec => []ArgsSurvive
<1>1. IInv => ArgsSurvive
  <2> SUFFICES ASSUME IInv, NEW p \in Pid
               PROVE  /\ Client(p) => mem[p].argv = ClientArgv
                      /\ Wd(p) /\ stage[p] # "child" =>
                           /\ Atoi(mem[p].argv[2]) = Seconds
                           /\ Atoi(mem[p].argv[3]) = MaxMissed
                           /\ Atoi(mem[p].argv[4]) = Len(ClientArgs(p))
                           /\ ClientArgs(p) = ClientArgv
    BY DEF ArgsSurvive
  <2>1. Client(p) => mem[p].argv = ClientArgv
    BY DEF IInv, Args, Client
  <2>2. Wd(p) /\ stage[p] # "child" => mem[p].argv = CreateArgv(ClientArgv)
    BY DEF IInv, Args, Wd
  <2>3. /\ Atoi(CreateArgv(ClientArgv)[2]) = Seconds
        /\ Atoi(CreateArgv(ClientArgv)[3]) = MaxMissed
        /\ Atoi(CreateArgv(ClientArgv)[4]) = Len(ClientArgv)
        /\ SubSeq(CreateArgv(ClientArgv), 5, Len(CreateArgv(ClientArgv)))
             = ClientArgv
    BY ArgVectors, CreateArgvProperties DEF ArgVector
  <2>4. QED
    BY <2>1, <2>2, <2>3 DEF ClientArgs
<1>2. QED
  BY <1>1, Invariance, PTL

(* The waitpid after SchedulerRun ends the client only if a fork has       *)
(* failed, if MakeMeImmortal was called after DoNotResuscitate, or by a    *)
(* SIGUSR1 that comes while the WD is dying (watchdog.c:207-208):          *)
(* otherwise the target is a child that has not been reaped, and nobody is *)
(* left who sends a signal.                                                *)
THEOREM ExitHasCauseCorrect == Spec => ExitHasCause
<1> DEFINE Cause(p) ==
      LET wd == mem[p].target IN
      \/ crashes' > crashes
      \/ wd \in {ZeroPid, NoPid}
      \/ user1[p] /\ wd \in Pid /\ stage[wd] = "dying"
<1>1. IInv /\ [Next]_vars =>
        [\A p \in Pid :
           stage[p] = "app_reap" /\ stage'[p] \in {"free", "zombie"} =>
             Cause(p)]_vars
  <2> SUFFICES ASSUME IInv, [Next]_vars, NEW p \in Pid, stage[p] = "app_reap",
                      stage'[p] \in {"free", "zombie"}
               PROVE  Cause(p)
    OBVIOUS
  <2>1. Moves
    BY StepMoves DEF IInv, Family
  <2>2. Dies(p)
    BY <2>1 DEF Moves, Stays, SameFor, Advances, Kills, Executes, Reaps, Forks,
                MayBeReaped, Dies, Die, IInv, TypeOK
  <2>3. mem[p].target \in Target /\ mem[p].target # InitPid
    BY DEF IInv, Family, TypeOK, Memory, Targets, Client, AppStage
  <2>4. mem[p].target \in Pid => mem[p].target \in WaitedFor(p)
    BY DEF IInv, Family, TargetIsOwnChild, WaitedFor, Children
  <2>5. CASE WaitedFor(p) = {}
    BY <2>3, <2>4, <2>5 DEF Target
  <2>6. CASE Reapable(p) = {} /\ user1[p] /\ mem[p].target \in Pid
    <3> DEFINE wd == mem[p].target
    <3>1. wd \in Pid /\ parent[wd] = p /\ stage[wd] \notin {"free", "zombie"}
      BY <2>4, <2>6 DEF Reapable, WaitedFor, Children
    <3>2. wd # p
      BY <3>1 DEF IInv, Family, Targets
    <3>3. ~Client(wd) /\ ~Wd(wd)
      BY <3>1, <3>2 DEF IInv, Family, OneClient, Alone, Lonely, Client, AppStage
    <3>4. stage[wd] = "dying"
      BY <3>1, <3>3 DEF IInv, TypeOK, Stage, Client, Wd
    <3>5. QED
      BY <2>6, <3>4
  <2>7. CASE mem[p].target \notin Pid
    BY <2>3, <2>7 DEF Target
  <2>8. QED
    BY <2>2, <2>5, <2>6, <2>7 DEF Dies
<1>2. QED
  BY <1>1, Invariance, PTL DEF Spec, ExitHasCause
==============================================================================
