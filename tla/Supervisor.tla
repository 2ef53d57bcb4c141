------------------------------ MODULE Supervisor ------------------------------
(***************************************************************************)
(* The service supervisor of portman-daemon (supervisor.rs): the slots,    *)
(* the runner task of every service, the `up`, `down` and restore          *)
(* procedures that act on them concurrently, the services.json they leave  *)
(* behind, and the process groups that outlive a daemon.                   *)
(*                                                                         *)
(* One step is one critical section of the code (a hold of the slots lock, *)
(* a locked snapshot-and-write of services.json, an await that completes), *)
(* so every interleaving the tokio runtime can produce between two of them *)
(* is a behaviour.  The slot set is fixed here: sync and forget are not    *)
(* part of this module.                                                    *)
(***************************************************************************)
EXTENDS Naturals, Sequences, FiniteSets

CONSTANTS
  Service,    \* service names; numbers, so that "sorted" means <=
  Depends,    \* Depends[s]: the declared dependencies of s, in order
  Retries,    \* Retries[s]: restart policy, Limit(n) as n, Never as 0, or Always
  Always,     \* the unlimited restart policy
  Watched,    \* services that declare `watch` paths
  Runner,     \* ids of runner tasks: numbers, the bound on how many exist
  Pid,        \* ids of process groups: numbers, the bound on how many exist
  Client,     \* concurrent request handlers
  Restorer,   \* the boot-time restore task
  CanUp,      \* clients that issue `up`
  CanDown,    \* clients that issue `down`
  Ends,       \* how a daemon may end: "crash", "sigterm"
  Early,      \* what may come while restore is running: clients, "sigterm"
  Autostart,  \* --autostart-services
  FailCap,    \* where the count of consecutive failures saturates
  MaxBoots,   \* bound on daemon starts
  MaxHits,    \* bound on watch hits
  None        \* no task, no pid, no service

ASSUME ServiceAssumption == Service \subseteq Nat /\ Runner \subseteq Nat /\ Pid \subseteq Nat
ASSUME DependsAssumption == Depends \in [Service -> Seq(Service)]
ASSUME RetriesAssumption == /\ Retries \in [Service -> Nat \cup {Always}]
                            /\ Always \notin Nat
                            /\ \A s \in Service : Retries[s] = Always \/ Retries[s] < FailCap
ASSUME ActorAssumption == /\ Restorer \notin Client
                          /\ CanUp \subseteq Client
                          /\ CanDown \subseteq Client
                          /\ Early \subseteq Client \cup {"sigterm"}
                          /\ Ends \subseteq {"crash", "sigterm"}
ASSUME NoneAssumption == None \notin Nat
ASSUME BoundAssumption == /\ Watched \subseteq Service
                          /\ Autostart \in BOOLEAN
                          /\ FailCap \in Nat \ {0}
                          /\ MaxBoots \in Nat
                          /\ MaxHits \in Nat

Proc == Client \cup {Restorer}

VARIABLES
  daemon,   \* "off", "up", or "stopping" once shutdown_all has begun
  slot,     \* slot[s]: the supervisor's record of a service
  routed,   \* services whose route is in the registry
  disk,     \* services.json: desired_up and running marker of every service
  loaded,   \* markers restore read at boot and has not reconciled yet
  group,    \* group[p]: the process group p and the service it was spawned for
  runner,   \* runner[r]: control state and locals of a run_service task
  proc,     \* proc[c]: control state of a request handler or of restore
  awaited,  \* runner handles shutdown_all took and waits for
  lost,     \* history: groups no daemon can reclaim (see Halt, LeaderExits)
  boots,    \* daemon starts so far
  hits      \* watch hits so far

vars == <<daemon, slot, routed, disk, loaded, group, runner, proc, awaited, lost, boots, hits>>

StateKind == {"Pending", "Starting", "Ready", "Backoff", "Failed", "Stopped"}

RunnerPC == {"subscribe", "check", "deps", "launch", "record", "save", "gate", "serve",
             "stopping", "clear", "saveEnd", "settle", "backoff", "parked", "ending", "done"}

\* How an attempt ended: the Attempt enum, Failure split by `ran >= stable_after`.
Outcome == {"stopped", "restart", "fatal", "failed", "failedStable"}

ProcPC == {"idle", "up", "route", "down", "mark", "join", "unroute", "persist",
           "reconcile", "bootSave", "bootUp"}

-----------------------------------------------------------------------------
(* State. *)

Slot == [desired  : BOOLEAN,
         state    : StateKind,
         task     : Runner \cup {None},
         marker   : Pid \cup {None},
         watching : BOOLEAN]

Saved == [desired : BOOLEAN, marker : Pid \cup {None}]

Group == [life : {"gone", "led", "headless"}, svc : Service \cup {None}]

RunnerRec == [pc    : RunnerPC,
              svc   : Service \cup {None},
              child : Pid \cup {None},
              why   : Outcome \cup {None},
              fails : 0..FailCap,
              dep   : Nat,
              shown : {"Pending", "Failed"},
              hit   : BOOLEAN]

ProcRec == [pc : ProcPC, todo : SUBSET Service, joining : Runner \cup {None}]

FreshSlot(up) == [desired |-> up, state |-> "Stopped", task |-> None,
                  marker |-> None, watching |-> FALSE]

NoRunner == [pc |-> "done", svc |-> None, child |-> None, why |-> None,
             fails |-> 0, dep |-> 1, shown |-> "Pending", hit |-> FALSE]

NewRunner(s) == [NoRunner EXCEPT !.pc = "subscribe", !.svc = s]

IdleProc == [pc |-> "idle", todo |-> {}, joining |-> None]

Gone == [life |-> "gone", svc |-> None]

Init ==
  /\ daemon = "off"
  /\ slot = [s \in Service |-> FreshSlot(FALSE)]
  /\ routed = {}
  /\ disk = [s \in Service |-> [desired |-> FALSE, marker |-> None]]
  /\ loaded = [s \in Service |-> None]
  /\ group = [p \in Pid |-> Gone]
  /\ runner = [r \in Runner |-> NoRunner]
  /\ proc = [c \in Proc |-> IdleProc]
  /\ awaited = {}
  /\ lost = {}
  /\ boots = 0
  /\ hits = 0

-----------------------------------------------------------------------------
(* Helpers. *)

DependsOn(s) == {Depends[s][i] : i \in DOMAIN Depends[s]}

\* expand_targets with expand_deps: the least set holding `names` and closed
\* under `depends`.
Expand(names) ==
  {s \in Service : \A T \in SUBSET Service :
     names \subseteq T /\ (\A t \in T : DependsOn(t) \subseteq T) => s \in T}

Least(n, S) == n \in S /\ \A m \in S : n <= m

\* The target a procedure is at: the least name it has not dealt with.
Target(c, s) == Least(s, proc[c].todo)

\* Mutant: only the service's own flag is looked at.
StopIgnoresShutdown(s) == ~slot[s].desired

\* stop_requested: desired is down or the daemon is shutting down.  A level,
\* not an edge: a pulse nobody looked at leaves no trace.
StopRequested(s) == ~slot[s].desired \/ daemon = "stopping"

Finished(r) == runner[r].pc = "done"

\* Mutant: every `up` spawns, whatever the slot holds.
AlwaysSpawn(s) == TRUE

\* `up` spawns a runner when the slot holds no handle or a finished one.
RunnerNeeded(s) == slot[s].task = None \/ Finished(slot[s].task)

\* The id a new task for s takes: no handle to it is left anywhere else.
NewRunnerId(r, s) ==
  Least(r, {q \in Runner : /\ Finished(q)
                           /\ \A t \in Service \ {s} : slot[t].task # q
                           /\ \A c \in Proc : proc[c].joining # q
                           /\ q \notin awaited})

\* The pid the system hands out: no group has it and no marker names it.
\* (A recycled pid that a marker still names fails marker_identity_matches on
\* its start time, so it would be left alone: leaving it out loses nothing.)
FreshPid(p) ==
  Least(p, {q \in Pid : /\ group[q].life = "gone"
                        /\ \A s \in Service : q \notin {slot[s].marker, disk[s].marker, loaded[s]}
                        /\ \A r \in Runner : runner[r].child # q})

\* persisted_snapshot: what `persist` writes, here as one ordered unit
\* (PersistGate.tla is about that unit).
Snapshot == [s \in Service |-> [desired |-> slot[s].desired, marker |-> slot[s].marker]]

\* Mutant: the restart policy is never looked at.
NeverGiveUp(s, n) == FALSE

GiveUp(s, n) == Retries[s] # Always /\ n > Retries[s]

Bump(n) == IF n < FailCap THEN n + 1 ELSE FailCap

Restored == proc[Restorer].pc = "idle"

-----------------------------------------------------------------------------
(* up, down and the restore task. *)

Goto(c, l) == proc' = [proc EXCEPT ![c].pc = l]

\* Go on with the target after s, or to `last` when s was the last one.
NextTarget(c, s, first, last) ==
  LET rest == proc[c].todo \ {s} IN
  proc' = [proc EXCEPT ![c] = [pc |-> IF rest = {} THEN last ELSE first,
                               todo |-> rest, joining |-> None]]

\* A request arrives: its names are validated and, for `up`, closed over
\* dependencies, under one hold of the slots lock.
Request(c) ==
  /\ daemon # "off"
  /\ proc[c].pc = "idle"
  /\ c \in Early \/ Restored
  /\ \E names \in (SUBSET Service) \ {{}} :
       \/ /\ c \in CanUp
          /\ proc' = [proc EXCEPT ![c] = [@ EXCEPT !.pc = "up", !.todo = Expand(names)]]
       \/ /\ c \in CanDown
          /\ proc' = [proc EXCEPT ![c] = [@ EXCEPT !.pc = "down", !.todo = names]]
  /\ UNCHANGED <<daemon, slot, routed, disk, loaded, group, runner, awaited, lost, boots, hits>>

\* The decide-spawn-record section of `up`.
UpSpawn(c) ==
  \E s \in Service :
  /\ proc[c].pc = "up" /\ Target(c, s)
  /\ IF RunnerNeeded(s)
       THEN \E r \in Runner :
              /\ NewRunnerId(r, s)
              /\ runner' = [runner EXCEPT ![r] = NewRunner(s)]
              /\ slot' = [slot EXCEPT ![s] = [@ EXCEPT !.desired = TRUE, !.task = r,
                                                         !.watching = s \in Watched]]
       ELSE /\ slot' = [slot EXCEPT ![s].desired = TRUE]
            /\ UNCHANGED runner
  /\ Goto(c, "route")
  /\ UNCHANGED <<daemon, routed, disk, loaded, group, awaited, lost, boots, hits>>

UpRoute(c) ==
  \E s \in Service :
  /\ proc[c].pc = "route" /\ Target(c, s)
  /\ routed' = routed \cup {s}
  /\ NextTarget(c, s, "up", "persist")
  /\ UNCHANGED <<daemon, slot, disk, loaded, group, runner, awaited, lost, boots, hits>>

\* First half of stop_and_join: desired down, watcher aborted, handle taken.
DownStop(c) ==
  \E s \in Service :
  /\ proc[c].pc = "down" /\ Target(c, s)
  /\ slot' = [slot EXCEPT ![s] = [@ EXCEPT !.desired = FALSE, !.watching = FALSE, !.task = None]]
  /\ proc' = [proc EXCEPT ![c] = [@ EXCEPT !.pc = IF slot[s].task = None THEN "mark" ELSE "join",
                                            !.joining = slot[s].task]]
  /\ UNCHANGED <<daemon, routed, disk, loaded, group, runner, awaited, lost, boots, hits>>

\* Nothing supervised the service: show the state directly.
DownMark(c) ==
  \E s \in Service :
  /\ proc[c].pc = "mark" /\ Target(c, s)
  /\ slot' = [slot EXCEPT ![s].state = "Stopped"]
  /\ Goto(c, "unroute")
  /\ UNCHANGED <<daemon, routed, disk, loaded, group, runner, awaited, lost, boots, hits>>

\* Mutant: the handle is dropped instead of awaited.
DownLeaves(c) ==
  /\ proc[c].pc = "join"
  /\ proc' = [proc EXCEPT ![c] = [@ EXCEPT !.pc = "unroute", !.joining = None]]
  /\ UNCHANGED <<daemon, slot, routed, disk, loaded, group, runner, awaited, lost, boots, hits>>

\* The taken handle has completed.  (The 60 s join timeout is not modelled.)
DownJoined(c) ==
  /\ proc[c].pc = "join" /\ Finished(proc[c].joining)
  /\ proc' = [proc EXCEPT ![c] = [@ EXCEPT !.pc = "unroute", !.joining = None]]
  /\ UNCHANGED <<daemon, slot, routed, disk, loaded, group, runner, awaited, lost, boots, hits>>

DownUnroute(c) ==
  \E s \in Service :
  /\ proc[c].pc = "unroute" /\ Target(c, s)
  /\ routed' = routed \ {s}
  /\ NextTarget(c, s, "down", "persist")
  /\ UNCHANGED <<daemon, slot, disk, loaded, group, runner, awaited, lost, boots, hits>>

\* Mutant: the command returns without saving.
PersistNothing(c) ==
  /\ proc[c].pc = "persist"
  /\ Goto(c, "idle")
  /\ UNCHANGED <<daemon, slot, routed, disk, loaded, group, runner, awaited, lost, boots, hits>>

\* The trailing persist of `up` and `down`.
Persist(c) ==
  /\ proc[c].pc = "persist"
  /\ disk' = Snapshot
  /\ Goto(c, "idle")
  /\ UNCHANGED <<daemon, slot, routed, loaded, group, runner, awaited, lost, boots, hits>>

\* The daemon starts: restore_with fills the slots from services.json and
\* keeps the running markers aside.
Boot ==
  /\ daemon = "off" /\ boots < MaxBoots
  /\ daemon' = "up"
  /\ boots' = boots + 1
  /\ slot' = [s \in Service |-> FreshSlot(disk[s].desired /\ Autostart)]
  /\ loaded' = [s \in Service |-> disk[s].marker]
  /\ Goto(Restorer, "reconcile")
  /\ UNCHANGED <<routed, disk, group, runner, awaited, lost, hits>>

\* reconcile_marker, in name order: a group whose leader still matches the
\* marker is terminated; one whose leader is gone is left alone.
Reconcile ==
  \E s \in Service :
  /\ proc[Restorer].pc = "reconcile"
  /\ Least(s, {t \in Service : loaded[t] # None})
  /\ loaded' = [loaded EXCEPT ![s] = None]
  /\ IF group[loaded[s]].life = "led"
       THEN /\ group' = [group EXCEPT ![loaded[s]] = Gone]
            /\ lost' = lost \ {loaded[s]}
       ELSE UNCHANGED <<group, lost>>
  /\ UNCHANGED <<daemon, slot, routed, disk, runner, proc, awaited, boots, hits>>

Reconciled ==
  /\ proc[Restorer].pc = "reconcile"
  /\ \A s \in Service : loaded[s] = None
  /\ Goto(Restorer, "bootSave")
  /\ UNCHANGED <<daemon, slot, routed, disk, loaded, group, runner, awaited, lost, boots, hits>>

BootSave ==
  /\ proc[Restorer].pc = "bootSave"
  /\ disk' = Snapshot
  /\ Goto(Restorer, "bootUp")
  /\ UNCHANGED <<daemon, slot, routed, loaded, group, runner, awaited, lost, boots, hits>>

\* restore_with ends in `up` of whatever is desired by now.
BootUp ==
  /\ proc[Restorer].pc = "bootUp"
  /\ LET names == {s \in Service : slot[s].desired} IN
       IF names = {}
         THEN Goto(Restorer, "idle")
         ELSE proc' = [proc EXCEPT ![Restorer] = [@ EXCEPT !.pc = "up", !.todo = Expand(names)]]
  /\ UNCHANGED <<daemon, slot, routed, disk, loaded, group, runner, awaited, lost, boots, hits>>

-----------------------------------------------------------------------------
(* run_service: one runner task.  `s` is the service it runs. *)

At(r, l) == runner[r].pc = l

Move(r, l) == runner' = [runner EXCEPT ![r].pc = l]

SetState(s, k) == slot' = [slot EXCEPT ![s].state = k]

\* Mutant: the loop is left without set_state.
FinishSilently(r, k) ==
  /\ UNCHANGED slot
  /\ runner' = [runner EXCEPT ![r] = [NewRunner(runner[r].svc) EXCEPT !.pc = "ending"]]

\* set_state and leave the loop; the task completes a moment later (Ended).
Finish(r, k) ==
  /\ SetState(runner[r].svc, k)
  /\ runner' = [runner EXCEPT ![r] = [NewRunner(runner[r].svc) EXCEPT !.pc = "ending"]]

Ended(r) == /\ At(r, "ending")
            /\ runner' = [runner EXCEPT ![r] = NoRunner]
            /\ UNCHANGED slot

\* First poll of the task: it subscribes to the slot's channels.
Subscribe(r) == At(r, "subscribe") /\ Move(r, "check") /\ UNCHANGED slot

\* Top of the loop.
Check(r) ==
  LET s == runner[r].svc IN
  /\ At(r, "check")
  /\ IF StopRequested(s)
       THEN Finish(r, "Stopped")
       ELSE SetState(s, "Pending") /\ Move(r, "deps")

\* Mutant: a dependent that shows Failed no longer looks at its dependency.
DepReadyUnlessFailed(r) ==
  LET s == runner[r].svc
      d == runner[r].dep IN
  /\ At(r, "deps") /\ runner[r].shown = "Pending"
  /\ d <= Len(Depends[s])
  /\ slot[Depends[s][d]].state = "Ready"
  /\ runner' = [runner EXCEPT ![r].dep = d + 1]
  /\ UNCHANGED slot

\* wait_for_deps takes the dependencies one at a time, in declared order, and
\* never looks back at one it has passed.
DepReady(r) ==
  LET s == runner[r].svc
      d == runner[r].dep IN
  /\ At(r, "deps")
  /\ d <= Len(Depends[s])
  /\ slot[Depends[s][d]].state = "Ready"
  /\ runner' = [runner EXCEPT ![r].dep = d + 1]
  /\ UNCHANGED slot

\* A dependency that is not Ready: the dependent shows Failed if it failed,
\* Pending otherwise, and keeps waiting.
DepNotReady(r) ==
  LET s == runner[r].svc
      d == runner[r].dep
      show == IF slot[Depends[s][d]].state = "Failed" THEN "Failed" ELSE "Pending" IN
  /\ At(r, "deps")
  /\ d <= Len(Depends[s])
  /\ slot[Depends[s][d]].state # "Ready"
  /\ runner[r].shown # show
  /\ SetState(s, show)
  /\ runner' = [runner EXCEPT ![r].shown = show]

DepsDone(r) ==
  /\ At(r, "deps")
  /\ runner[r].dep > Len(Depends[runner[r].svc])
  /\ SetState(runner[r].svc, "Starting")
  /\ runner' = [runner EXCEPT ![r] = [@ EXCEPT !.pc = "launch", !.dep = 1, !.shown = "Pending"]]

\* Mutant: wait_for_deps does not select on stop_requested.
StopWaitingLater(r) ==
  /\ At(r, "backoff") \/ At(r, "parked")
  /\ StopRequested(runner[r].svc)
  /\ Finish(r, "Stopped")

\* stop_requested wins a select!: in wait_for_deps, in a backoff, when parked.
StopWaiting(r) ==
  LET s == runner[r].svc IN
  /\ \/ At(r, "deps") /\ runner[r].dep <= Len(Depends[s])
     \/ At(r, "backoff")
     \/ At(r, "parked")
  /\ StopRequested(s)
  /\ Finish(r, "Stopped")

WaitSteps(r) ==
  /\ Subscribe(r) \/ Check(r) \/ DepReady(r) \/ DepNotReady(r) \/ DepsDone(r)
     \/ StopWaiting(r) \/ Ended(r)
  /\ UNCHANGED <<disk, group>>

-----------------------------------------------------------------------------
(* supervise_once: one attempt. *)

\* The attempt is over: what follows is clear_running_marker.
EndAttempt(r, why) ==
  runner' = [runner EXCEPT ![r] = [@ EXCEPT !.pc = "clear", !.why = why, !.child = None]]

\* Stop the child's group; the attempt will end as `why`.
StopChild(r, why) ==
  runner' = [runner EXCEPT ![r] = [@ EXCEPT !.pc = "stopping", !.why = why]]

\* signal_group(KILL): what is left of the group dies.
Sweep(p) == group' = [group EXCEPT ![p] = Gone]

\* Secrets, environment, program lookup or the spawn itself failed.
LaunchFails(r) ==
  /\ At(r, "launch")
  /\ \E why \in {"fatal", "failed"} : EndAttempt(r, why)
  /\ UNCHANGED <<slot, disk, group>>

Spawn(r) ==
  /\ At(r, "launch")
  /\ \E p \in Pid :
       /\ FreshPid(p)
       /\ group' = [group EXCEPT ![p] = [life |-> "led", svc |-> runner[r].svc]]
       /\ runner' = [runner EXCEPT ![r] = [@ EXCEPT !.pc = "record", !.child = p]]
  /\ UNCHANGED <<slot, disk>>

Record(r) ==
  /\ At(r, "record")
  /\ slot' = [slot EXCEPT ![runner[r].svc].marker = runner[r].child]
  /\ Move(r, "save")
  /\ UNCHANGED <<disk, group>>

\* Mutant: the marker stays in memory.
SaveNothing(r) == At(r, "save") /\ Move(r, "gate") /\ UNCHANGED <<slot, disk, group>>

Save(r) ==
  /\ At(r, "save")
  /\ disk' = Snapshot
  /\ Move(r, "gate")
  /\ UNCHANGED <<slot, group>>

\* wait_ready returned Ready.
BecomeReady(r) ==
  /\ At(r, "gate")
  /\ SetState(runner[r].svc, "Ready")
  /\ Move(r, "serve")
  /\ UNCHANGED <<disk, group>>

ReadyTimeout(r) ==
  /\ At(r, "gate")
  /\ \E why \in {"failed", "failedStable"} : StopChild(r, why)
  /\ UNCHANGED <<slot, disk, group>>

\* child.wait() completed: the group is swept, so that no member outlives the
\* leader into the next attempt.
ChildExited(r) ==
  /\ At(r, "gate") \/ At(r, "serve")
  /\ group[runner[r].child].life # "led"
  /\ Sweep(runner[r].child)
  /\ \E why \in {"failed", "failedStable"} : EndAttempt(r, why)
  /\ UNCHANGED <<slot, disk>>

StopServing(r) ==
  /\ At(r, "gate") \/ At(r, "serve")
  /\ StopRequested(runner[r].svc)
  /\ StopChild(r, "stopped")
  /\ UNCHANGED <<slot, disk, group>>

WatchRestart(r) ==
  /\ At(r, "serve")
  /\ runner[r].hit
  /\ runner' = [runner EXCEPT ![r] = [@ EXCEPT !.pc = "stopping", !.why = "restart", !.hit = FALSE]]
  /\ UNCHANGED <<slot, disk, group>>

\* stop_child_group has run its course: TERM, grace, KILL, sweep.
ChildStopped(r) ==
  /\ At(r, "stopping")
  /\ Sweep(runner[r].child)
  /\ EndAttempt(r, runner[r].why)
  /\ UNCHANGED <<slot, disk>>

ClearMarker(r) ==
  /\ At(r, "clear")
  /\ slot' = [slot EXCEPT ![runner[r].svc].marker = None]
  /\ Move(r, "saveEnd")
  /\ UNCHANGED <<disk, group>>

SaveEnd(r) ==
  /\ At(r, "saveEnd")
  /\ disk' = Snapshot
  /\ Move(r, "settle")
  /\ UNCHANGED <<slot, group>>

AttemptSteps(r) ==
  \/ LaunchFails(r) \/ Spawn(r) \/ Record(r) \/ Save(r) \/ BecomeReady(r) \/ ReadyTimeout(r)
  \/ ChildExited(r) \/ StopServing(r) \/ WatchRestart(r) \/ ChildStopped(r)
  \/ ClearMarker(r) \/ SaveEnd(r)

-----------------------------------------------------------------------------
(* run_service once more: what an attempt's outcome leads to. *)

SettleStopped(r) ==
  /\ At(r, "settle") /\ runner[r].why = "stopped"
  /\ Finish(r, "Stopped")

\* An intentional respawn spends no restart budget.
SettleRestart(r) ==
  /\ At(r, "settle") /\ runner[r].why = "restart"
  /\ runner' = [runner EXCEPT ![r] = [@ EXCEPT !.pc = "check", !.why = None, !.fails = 0]]
  /\ UNCHANGED slot

\* Failed whatever the policy says, and the task ends, watched or not.
SettleFatal(r) ==
  /\ At(r, "settle") /\ runner[r].why = "fatal"
  /\ Finish(r, "Failed")

\* A failed attempt: back off and retry, or give up; a watched service that
\* gave up parks in Failed and its task lives on.
SettleFailure(r) ==
  LET s == runner[r].svc
      n == IF runner[r].why = "failedStable" THEN 1 ELSE Bump(runner[r].fails) IN
  /\ At(r, "settle") /\ runner[r].why \in {"failed", "failedStable"}
  /\ \/ /\ GiveUp(s, n)
        /\ s \notin Watched
        /\ Finish(r, "Failed")
     \/ /\ GiveUp(s, n)
        /\ s \in Watched
        /\ SetState(s, "Failed")
        /\ runner' = [runner EXCEPT ![r] = [@ EXCEPT !.pc = "parked", !.why = None, !.fails = 0]]
     \/ /\ ~GiveUp(s, n)
        /\ SetState(s, "Backoff")
        /\ runner' = [runner EXCEPT ![r] = [@ EXCEPT !.pc = "backoff", !.why = None, !.fails = n]]

BackoffElapsed(r) ==
  /\ At(r, "backoff")
  /\ Move(r, "check")
  /\ UNCHANGED slot

\* A watch hit cuts a backoff short and revives a parked service.
HitWhileWaiting(r) ==
  /\ At(r, "backoff") \/ At(r, "parked")
  /\ runner[r].hit
  /\ runner' = [runner EXCEPT ![r] = [@ EXCEPT !.pc = "check", !.hit = FALSE, !.fails = 0]]
  /\ UNCHANGED slot

SettleSteps(r) ==
  /\ SettleStopped(r) \/ SettleRestart(r) \/ SettleFatal(r) \/ SettleFailure(r)
     \/ BackoffElapsed(r) \/ HitWhileWaiting(r)
  /\ UNCHANGED <<disk, group>>

RunnerStep(r) ==
  /\ WaitSteps(r) \/ AttemptSteps(r) \/ SettleSteps(r)
  /\ UNCHANGED <<daemon, routed, loaded, proc, awaited, lost, boots, hits>>

-----------------------------------------------------------------------------
(* The surroundings: processes, files, signals, and the daemon's own end. *)

Subscribed(r) == runner[r].pc \notin {"subscribe", "ending", "done"}

\* The watcher bumps the service's generation; every subscribed runner has an
\* unseen change.
WatchHit(s) ==
  /\ slot[s].watching /\ hits < MaxHits
  /\ hits' = hits + 1
  /\ runner' = [r \in Runner |-> IF Subscribed(r) /\ runner[r].svc = s
                                   THEN [runner[r] EXCEPT !.hit = TRUE] ELSE runner[r]]
  /\ UNCHANGED <<daemon, slot, routed, disk, loaded, group, proc, awaited, lost, boots>>

Held(p) == \E r \in Runner : runner[r].child = p

\* A group leader exits, alone or with its whole group; or the rest of a
\* group whose leader is gone exits.  A group nobody holds whose leader is
\* gone can no longer be identified by its marker.
LeaderExits(p) ==
  \/ /\ group[p].life = "led"
     /\ group' = [group EXCEPT ![p].life = "headless"]
     /\ lost' = IF Held(p) THEN lost ELSE lost \cup {p}
     /\ UNCHANGED <<daemon, slot, routed, disk, loaded, runner, proc, awaited, boots, hits>>
  \/ /\ group[p].life # "gone"
     /\ group' = [group EXCEPT ![p] = Gone]
     /\ lost' = lost \ {p}
     /\ UNCHANGED <<daemon, slot, routed, disk, loaded, runner, proc, awaited, boots, hits>>

\* The process is gone and its memory with it; children keep running
\* (kill_on_drop is off).  `lost` keeps the ones no later daemon can identify:
\* spawned a moment ago and not saved yet, or already without their leader.
Halt ==
  /\ daemon' = "off"
  /\ slot' = [s \in Service |-> FreshSlot(FALSE)]
  /\ routed' = {}
  /\ loaded' = [s \in Service |-> None]
  /\ runner' = [r \in Runner |-> NoRunner]
  /\ proc' = [c \in Proc |-> IdleProc]
  /\ awaited' = {}
  /\ lost' = lost \cup {p \in Pid : \/ group[p].life = "headless"
                                    \/ /\ group[p].life = "led"
                                       /\ \E r \in Runner : /\ runner[r].child = p
                                                            /\ runner[r].pc \in {"record", "save"}
                                                            /\ disk'[runner[r].svc].marker # p}
  /\ UNCHANGED <<group, boots, hits>>

Crash == "crash" \in Ends /\ daemon # "off" /\ boots < MaxBoots /\ UNCHANGED disk /\ Halt

\* shutdown_all: raise the shutdown flag, take every handle ...
Shutdown ==
  /\ daemon = "up"
  /\ "sigterm" \in Ends
  /\ "sigterm" \in Early \/ Restored
  /\ daemon' = "stopping"
  /\ awaited' = {slot[s].task : s \in Service} \ {None}
  /\ slot' = [s \in Service |-> [slot[s] EXCEPT !.task = None]]
  /\ UNCHANGED <<routed, disk, loaded, group, runner, proc, lost, boots, hits>>

\* Mutant: the handles are taken and not awaited.
ExitAtOnce ==
  /\ daemon = "stopping"
  /\ disk' = Snapshot
  /\ Halt

\* ... and when they have all completed, persist and exit.  (The 30 s timeout
\* per handle is not modelled.)
Exit ==
  /\ daemon = "stopping"
  /\ \A r \in awaited : Finished(r)
  /\ disk' = Snapshot
  /\ Halt

\* The last daemon of a run has ended: nothing else happens.
Over == daemon = "off" /\ boots = MaxBoots /\ UNCHANGED vars

-----------------------------------------------------------------------------
ProcStep(c) ==
  \/ UpSpawn(c) \/ UpRoute(c) \/ Persist(c)
  \/ DownStop(c) \/ DownMark(c) \/ DownJoined(c) \/ DownUnroute(c)

RestoreStep == Reconcile \/ Reconciled \/ BootSave \/ BootUp

Next ==
  \/ \E c \in Client : Request(c)
  \/ \E c \in Proc : ProcStep(c)
  \/ RestoreStep
  \/ \E r \in Runner : RunnerStep(r)
  \/ \E s \in Service : WatchHit(s)
  \/ \E p \in Pid : LeaderExits(p)
  \/ Boot \/ Crash \/ Shutdown \/ Exit
  \/ Over

Spec == Init /\ [][Next]_vars

\* The tokio scheduler runs every task that can run, and `stop_child_group`
\* ends in KILL.  Nothing is assumed of clients, files, crashes or signals.
Fairness ==
  /\ \A c \in Proc : WF_vars(ProcStep(c))
  /\ WF_vars(RestoreStep)
  /\ \A r \in Runner : WF_vars(RunnerStep(r))
  /\ WF_vars(Exit)

FairSpec == Spec /\ Fairness

-----------------------------------------------------------------------------
(* Properties. *)

\* Type invariant: every variable keeps its shape.
TypeOK ==
  /\ daemon \in {"off", "up", "stopping"}
  /\ slot \in [Service -> Slot]
  /\ routed \subseteq Service
  /\ disk \in [Service -> Saved]
  /\ loaded \in [Service -> Pid \cup {None}]
  /\ group \in [Pid -> Group]
  /\ runner \in [Runner -> RunnerRec]
  /\ proc \in [Proc -> ProcRec]
  /\ awaited \subseteq Runner
  /\ lost \subseteq Pid
  /\ boots \in Nat
  /\ hits \in Nat

\* The live groups of s that some daemon can still be held to account for.
Instances(s) == {p \in Pid : group[p].life # "gone" /\ group[p].svc = s /\ p \notin lost}

\* A service never has two live process groups at once: not from two `up`s
\* (the one lock hold of `up`), not from a respawn that overtakes the sweep of
\* the previous attempt, and not from a restart that overtakes the
\* reclamation of what an earlier daemon left running.
OneInstance == \A s \in Service : \A p, q \in Instances(s) : p = q

\* Whenever the daemon may die, every live group can be reclaimed by the next
\* one: services.json names it, or restore is about to, or its runner is still
\* between the spawn and the save that follows it.
Recoverable ==
  \A s \in Service : \A p \in Instances(s) :
    \/ disk[s].marker = p
    \/ loaded[s] = p
    \/ \E r \in Runner : runner[r].child = p /\ runner[r].pc \in {"record", "save"}

\* `down` answers only after a clean exit: once it has stopped a service and
\* goes on to drop its route, no group of the service is left, unless an `up`
\* has asked for it again (supervisor.rs:1218).
DownMeansDown ==
  \A c \in Client, s \in Service :
    daemon = "up" /\ proc[c].pc = "unroute" /\ Target(c, s) /\ ~slot[s].desired
      => Instances(s) = {}

\* What `status` shows is the truth: Stopped only when nothing runs (but for
\* what restore has yet to reclaim), Ready only under a live supervisor.
HonestStatus ==
  \A s \in Service : daemon = "up" =>
    /\ slot[s].state = "Stopped" => Instances(s) \subseteq {loaded[s]}
    /\ slot[s].state = "Ready" =>
         \E r \in Runner : runner[r].svc = s /\ ~Finished(r) /\ ~At(r, "ending")

\* With no command in progress, the registry routes exactly the services that
\* are desired up, and services.json records exactly that intent.
Quiet == daemon = "up" /\ \A c \in Proc : proc[c].pc = "idle"
IntentSettled ==
  Quiet => /\ routed = {s \in Service : slot[s].desired}
           /\ \A s \in Service : disk[s].desired = slot[s].desired

\* A runner is never forgotten: it is its slot's task, or the handle a `down`
\* or the shutdown waits for.
Accounted ==
  \A r \in Runner : ~Finished(r) =>
    \/ slot[runner[r].svc].task = r
    \/ \E c \in Proc : proc[c].joining = r
    \/ r \in awaited

\* shutdown_all stops every running service: when the daemon has exited on
\* its own, no group it was running is left (supervisor.rs:1277).
ShutdownStopsAll == [][Exit => \A r \in Runner : runner[r].child = None]_vars

\* `up` revives a service that had reached Failed (supervisor.rs:1857-1860):
\* when it has dealt with the service, a runner is on its way to an attempt.
UpRevivesFailed ==
  [][\A c \in Proc : UpSpawn(c) =>
       \A s \in Service : Target(c, s) /\ slot[s].state = "Failed" =>
         \E r \in Runner : runner'[r].svc = s /\ runner'[r].pc # "parked"]_vars

(***************************************************************************)
(* Liveness, under FairSpec.                                               *)
(***************************************************************************)

\* Every command is answered: `down` waits for a runner, and a runner leaves
\* whatever it waits for (a dependency, a backoff, a child, a file change)
\* when it is told to stop.
CommandsReturn == \A c \in Client : proc[c].pc # "idle" ~> proc[c].pc = "idle"

\* A service that is told to stop stops, unless it is wanted up again.
DownSticks ==
  \A s \in Service :
    ~slot[s].desired /\ daemon = "up"
      ~> slot[s].desired \/ Instances(s) = {} \/ daemon # "up"

\* shutdown_all comes to its end.
ShutdownEnds == daemon = "stopping" ~> daemon = "off"
\* Whoever asks for a stop, a command or a signal, gets it.
StopsObeyed == DownSticks /\ ShutdownEnds

Waiting(s) == \E r \in Runner : At(r, "deps") /\ runner[r].svc = s

DepsReady(s) == \A d \in DependsOn(s) : slot[d].state = "Ready"

\* A dependent starts on its own once its dependencies are Ready, even if it
\* showed Failed because of one of them (README, "Environments are hermetic").
DependentFollows ==
  \A s \in Service : Waiting(s) /\ DepsReady(s) ~> ~(Waiting(s) /\ DepsReady(s))

\* A service that stays desired with its dependencies, under a policy that
\* gives up, becomes Ready, or it or a dependency becomes Failed: a
\* boot-looper marches to Failed, and none is left Pending, Starting or in
\* Backoff for ever.
Settles ==
  \A s \in Service :
    LET all == DependsOn(s) \cup {s}
        wanted == daemon = "up" /\ \A t \in all : slot[t].desired IN
    wanted ~> \/ ~wanted
              \/ slot[s].state = "Ready"
              \/ \E t \in all : slot[t].state = "Failed"

=============================================================================
