-------------------------- MODULE WatchdogInvariant --------------------------
(***************************************************************************)
(* Why Watchdog keeps its promises: the inductive invariant IInv, and a    *)
(* coarser view of its steps, Moves.  IInv is about single processes       *)
(* (Counting, Args) and about how the processes are related (Family); a    *)
(* step that keeps the first is checked action by action, while for the    *)
(* second all that matters of an action is the move it makes: who changes  *)
(* its program, its target or its parent.                                  *)
(***************************************************************************)
EXTENDS Watchdog

-----------------------------------------------------------------------------
(* The memory of one process.                                              *)

(* Where a process has no task and has counted nothing. *)
Resting ==
  {"free", "zombie", "dying", "child", "wd_exec", "wd_boot"} \cup AppBoot

(* The counter of a process that has not been told to stop.  A round       *)
(* raises it once, after or before its REVIVE: if before, REVIVE still     *)
(* sees it at the limit and does not let a further round begin.            *)
Bounded(m) ==
  /\ "INC" \in m.todo => m.misses <= MaxMissed
  /\ "INC" \in m.sched /\ "REVIVE" \notin m.todo => m.misses <= MaxMissed
  /\ "INC" \in m.todo /\ "REVIVE" \notin m.todo => m.misses < MaxMissed

(* The counter, the tasks and the flag of a process with memory m that     *)
(* stands at the given stage.  The tasks are those of one phase; a client  *)
(* that has never had a target only has REVIVE.                            *)
Counts(at, m) ==
  /\ m.misses <= MaxMissed + 1
  /\ at \in Running \cup {"wd_hello"} /\ ~m.stop => Bounded(m)
  /\ at \in Resting => m.sched = {} /\ m.todo = {} /\ m.misses = 0
  /\ ~m.stop => m.sched \in {{}, {"REVIVE"}, {"WAIT"}, Monitoring}
  /\ at \in {"app_late", "app_wait"} /\ ~m.stop => m.sched = {"WAIT"}
  /\ at \in WdStage => ~m.stop /\ m.sched \in {{}, Monitoring}
  /\ at \in {"free", "zombie", "dying"} => ~m.stop
  /\ ~m.stop /\ m.target = NoPid => m.sched \subseteq {"REVIVE"}

Counting == \A p \in Pid : Counts(stage[p], mem[p])

(* The client and the child it forks have the client's arguments, the WD   *)
(* has those that CreateArgv made of them.                                 *)
Args == \A p \in Pid :
  /\ stage[p] \in AppStage \cup {"child"} => mem[p].argv = ClientArgv
  /\ stage[p] \in WdStage \ {"child"} => mem[p].argv = CreateArgv(ClientArgv)

-----------------------------------------------------------------------------
(* The processes and each other.                                           *)

(* There is at most one WD. *)
OneWd == \A v, w \in Pid : Wd(v) /\ Wd(w) => v = w

(* A client and a WD that live at the same time belong together. *)
Pair == \A p, w \in Pid :
  Client(p) /\ Wd(w) =>
    /\ mem[p].target = w
    /\ parent[w] = p
    /\ stage[w] \in {"wd_hello", "wd_run", "wd_suspect", "wd_revive"} =>
         mem[w].target = p

(* Where a client has no WD: it has not begun, it has killed the old one   *)
(* or found it gone, or it has stopped it.                                 *)
Lonely == AppBoot \cup {"app_revive", "app_wait", "app_reap", "app_done"}

(* Whoever replaces its target has none that works. *)
Alone == \A p, w \in Pid :
  /\ stage[p] \in Lonely => ~Wd(w)
  /\ stage[w] = "wd_revive" => ~Client(p)

(* What a process may take for its target, and when.  Nobody is its own    *)
(* parent.                                                                 *)
Targets == \A p \in Pid :
  /\ parent[p] # p
  /\ Client(p) => mem[p].target # InitPid
  /\ stage[p] \in AppBoot => mem[p].target = NoPid
  /\ stage[p] = "app_done" => mem[p].target \notin Children(p)
  /\ stage[p] = "wd_hello" => mem[p].target \in Pid \cup {InitPid}
  /\ stage[p] \in {"wd_run", "wd_suspect", "wd_revive"} => mem[p].target \in Pid

Family == OneClient /\ OneWd /\ Pair /\ Alone /\ Targets /\ TargetIsOwnChild

IInv == TypeOK /\ Counting /\ Args /\ Family

-----------------------------------------------------------------------------
(* The moves.                                                              *)

(* A step leaves alone all that the family knows of q. *)
SameFor(q) ==
  /\ stage'[q] = stage[q]
  /\ parent'[q] = parent[q]
  /\ mem'[q].target = mem[q].target
  /\ mem'[q].argv = mem[q].argv

(* A process counts, answers or begins a round. *)
Stays == \A q \in Pid : SameFor(q)

(* A process goes on by itself, and may get another target. *)
Advances(p) ==
  /\ \A q \in Pid \ {p} : SameFor(q)
  /\ parent'[p] = parent[p]
  /\ mem'[p].argv = mem[p].argv
  /\ \/ /\ mem'[p].target = mem[p].target
        /\ <<stage[p], stage'[p]>> \in
             {<<"app_blocked", "app_unblocked">>,
              <<"app_unblocked", "app_handler">>, <<"app_handler", "app_run">>,
              <<"app_run", "app_suspect">>, <<"app_run", "app_late">>,
              <<"app_wait", "app_run">>,
              <<"wd_exec", "wd_boot">>, <<"wd_run", "wd_suspect">>}
     \/ /\ mem'[p].target = mem[p].target
        /\ \/ /\ stage[p] = "wd_hello" /\ stage'[p] = "wd_run"
              /\ Exists(mem[p].target)
           \/ /\ stage[p] = "app_run" /\ stage'[p] = "app_reap"
              /\ ~Exists(mem[p].target)
     \/ /\ mem'[p].target = NoPid
        /\ stage[p] \in {"app_exec", "app_done"} /\ stage'[p] = "app_blocked"
     \/ /\ mem'[p].target = ZeroPid
        /\ stage[p] = "app_revive" /\ stage'[p] = "app_run"
     \/ /\ mem'[p].target = parent[p]
        /\ stage[p] = "wd_boot" /\ stage'[p] = "wd_hello"

(* A process sends SIGUSR2 to its target, to replace or to stop it. *)
Kills(p) ==
  /\ \A q \in Pid \ {p} :
       IF q \in User2Receivers(mem[p].target)
       THEN stage'[q] = "dying" /\ parent'[q] = parent[q]
       ELSE SameFor(q)
  /\ parent'[p] = parent[p]
  /\ mem'[p].argv = mem[p].argv
  /\ mem'[p].target = mem[p].target
  /\ <<stage[p], stage'[p]>> \in
       {<<"app_suspect", "app_revive">>, <<"wd_suspect", "wd_revive">>,
        <<"app_late", "app_wait">>, <<"app_run", "app_reap">>}

(* The child becomes a WD, or a WD becomes the client. *)
Executes(p) ==
  /\ \A q \in Pid \ {p} : SameFor(q)
  /\ parent'[p] = parent[p]
  /\ mem'[p].target = NoPid
  /\ \/ /\ stage[p] = "child" /\ stage'[p] = "wd_exec"
        /\ mem'[p].argv = CreateArgv(mem[p].argv)
     \/ /\ stage[p] \in {"wd_hello", "wd_run", "wd_revive"}
        /\ stage[p] # "wd_revive" =>
             mem[p].target \in Pid /\ ~Exists(mem[p].target)
        /\ stage'[p] = "app_exec"
        /\ mem'[p].argv = ClientArgs(p)

(* q is left alone, or its parent p has waited for it. *)
MayBeReaped(p, q) ==
  \/ SameFor(q)
  \/ /\ stage[q] = "zombie" /\ stage'[q] = "free"
     /\ parent[q] = p /\ parent'[q] = parent[q]

(* A client whose WD is gone forks, having waited for it or not. *)
Forks(p, q) ==
  /\ \A r \in Pid \ {p, q} : MayBeReaped(p, r)
  /\ stage[p] \in {"app_revive", "app_wait"} /\ stage'[p] = "app_run"
  /\ stage[q] \in {"free", "zombie"} /\ stage'[q] = "child"
  /\ parent'[p] = parent[p] /\ parent'[q] = p
  /\ mem'[p].target = q
  /\ mem'[p].argv = mem[p].argv /\ mem'[q].argv = mem[p].argv

(* A client waits for its WD, and does not or cannot replace it. *)
Reaps(p) ==
  /\ \A q \in Pid \ {p} : MayBeReaped(p, q)
  /\ parent'[p] = parent[p]
  /\ mem'[p].argv = mem[p].argv
  /\ \/ /\ stage[p] = "app_wait" /\ stage'[p] = "app_run"
        /\ mem'[p].target = ZeroPid
     \/ /\ stage[p] = "app_reap" /\ stage'[p] = "app_done"
        /\ mem'[p].target = mem[p].target
        /\ mem[p].target \in Pid => stage'[mem[p].target] = "free"

(* A process ends; the thread of a client that waits for a WD only if      *)
(* there is none, by a signal that comes meanwhile, or in a crash.         *)
Dies(p) ==
  /\ Die(p)
  /\ stage[p] \notin {"free", "zombie"}
  /\ stage[p] = "app_reap" =>
       \/ WaitedFor(p) = {}
       \/ WaitedFor(p) # {} /\ Reapable(p) = {} /\ user1[p]
       \/ crashes' > crashes

Moves ==
  \/ Stays
  \/ \E p \in Pid :
       Advances(p) \/ Kills(p) \/ Executes(p) \/ Reaps(p) \/ Dies(p)
  \/ \E p, q \in Pid : Forks(p, q)
=============================================================================
