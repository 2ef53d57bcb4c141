--------------------------- MODULE SupervisorProofs ---------------------------
(* Proofs about Supervisor, for every set of services, clients and bounds. *)
EXTENDS Supervisor, TLAPS

\* What a step of runner r does to the slots: no task handle changes.
SlotEffect ==
  /\ slot' \in [Service -> Slot]
  /\ \A s \in Service : slot'[s].task = slot[s].task

\* What it does to the runners: only r changes, and it stays with its service
\* until it is done.
RunnerEffect(r) ==
  \E x \in RunnerRec :
    /\ runner' = [runner EXCEPT ![r] = x]
    /\ x.pc # "done" => x.svc = runner[r].svc /\ runner[r].pc # "done"

\* set_state touches no task handle.
LEMMA SetStateEffect ==
  ASSUME TypeOK, NEW s, NEW k \in StateKind, SetState(s, k)
  PROVE  SlotEffect
  BY DEF TypeOK, SetState, Slot, SlotEffect

\* A step that leaves the slots alone has no effect on the handles.
LEMMA SameSlots ==
  ASSUME TypeOK, slot' = slot
  PROVE  SlotEffect
  BY DEF TypeOK, SlotEffect

\* Moving on within the loop is a runner's own effect.
LEMMA MoveEffect ==
  ASSUME TypeOK, NEW r \in Runner, NEW l \in RunnerPC, Move(r, l), runner[r].pc # "done"
  PROVE  RunnerEffect(r)
  <1> DEFINE x == [runner[r] EXCEPT !.pc = l]
  <1>1. runner[r] \in RunnerRec
    BY DEF TypeOK
  <1>2. x \in RunnerRec /\ x.svc = runner[r].svc
    BY <1>1 DEF RunnerRec
  <1>3. runner' = [runner EXCEPT ![r] = x]
    BY DEF Move
  <1> QED BY <1>2, <1>3 DEF RunnerEffect

\* The records a runner starts with and ends in have their type.
LEMMA RunnerTypes ==
  /\ NoRunner \in RunnerRec
  /\ \A s \in Service \cup {None} :
       /\ NewRunner(s) \in RunnerRec
       /\ [NewRunner(s) EXCEPT !.pc = "ending"] \in RunnerRec
  <1>1. NoRunner \in RunnerRec
    BY BoundAssumption DEF NoRunner, RunnerRec, RunnerPC
  <1>2. ASSUME NEW s \in Service \cup {None} PROVE NewRunner(s) \in RunnerRec
    BY <1>1 DEF NewRunner, RunnerRec, RunnerPC
  <1>3. ASSUME NEW s \in Service \cup {None} PROVE [NewRunner(s) EXCEPT !.pc = "ending"] \in RunnerRec
    BY <1>2 DEF RunnerRec, RunnerPC
  <1> QED BY <1>1, <1>2, <1>3

\* Leaving the loop changes the shown state and the runner only.
LEMMA FinishEffect ==
  ASSUME TypeOK, NEW r \in Runner, NEW k \in StateKind, Finish(r, k), runner[r].pc # "done"
  PROVE  SlotEffect /\ RunnerEffect(r)
  <1> DEFINE x == [NewRunner(runner[r].svc) EXCEPT !.pc = "ending"]
  <1>1. runner[r].svc \in Service \cup {None}
    BY DEF TypeOK, RunnerRec
  <1>2. x \in RunnerRec
    BY <1>1, RunnerTypes
  <1>a. x.svc = runner[r].svc
    BY DEF NewRunner, NoRunner
  <1>3. runner' = [runner EXCEPT ![r] = x]
    BY DEF Finish
  <1>4. RunnerEffect(r)
    BY <1>2, <1>a, <1>3 DEF RunnerEffect
  <1> QED BY <1>4, SetStateEffect DEF Finish

\* The end of an attempt is the runner's own effect.
LEMMA EndAttemptEffect ==
  ASSUME TypeOK, NEW r \in Runner, NEW why \in Outcome \cup {None}, EndAttempt(r, why), runner[r].pc # "done"
  PROVE  RunnerEffect(r)
  <1> DEFINE x == [runner[r] EXCEPT !.pc = "clear", !.why = why, !.child = None]
  <1>1. runner[r] \in RunnerRec
    BY DEF TypeOK
  <1>2. x \in RunnerRec /\ x.svc = runner[r].svc
    BY <1>1 DEF RunnerRec, RunnerPC
  <1>3. runner' = [runner EXCEPT ![r] = x]
    BY DEF EndAttempt
  <1> QED BY <1>2, <1>3 DEF RunnerEffect

\* So is the decision to stop the child.
LEMMA StopChildEffect ==
  ASSUME TypeOK, NEW r \in Runner, NEW why \in Outcome, StopChild(r, why), runner[r].pc # "done"
  PROVE  RunnerEffect(r)
  <1> DEFINE x == [runner[r] EXCEPT !.pc = "stopping", !.why = why]
  <1>1. runner[r] \in RunnerRec
    BY DEF TypeOK
  <1>2. x \in RunnerRec /\ x.svc = runner[r].svc
    BY <1>1 DEF RunnerRec, RunnerPC
  <1>3. runner' = [runner EXCEPT ![r] = x]
    BY DEF StopChild
  <1> QED BY <1>2, <1>3 DEF RunnerEffect

\* What the waiting part of run_service does to slots and runners.
LEMMA WaitStepsEffect ==
  ASSUME TypeOK, NEW r \in Runner, WaitSteps(r)
  PROVE  SlotEffect /\ RunnerEffect(r)
  <1> DEFINE old == runner[r]
  <1>0. old \in RunnerRec
    BY DEF TypeOK
  <1>1. CASE Subscribe(r)
    BY <1>1, MoveEffect, SameSlots DEF Subscribe, At, RunnerPC
  <1>2. CASE Check(r)
    BY <1>2, MoveEffect, FinishEffect, SetStateEffect DEF Check, At, RunnerPC, StateKind
  <1>3. CASE DepReady(r)
    <2> DEFINE x == [old EXCEPT !.dep = old.dep + 1]
    <2>1. x \in RunnerRec /\ x.svc = old.svc
      BY <1>0 DEF RunnerRec
    <2>2. runner' = [runner EXCEPT ![r] = x] /\ old.pc # "done"
      BY <1>3 DEF DepReady, At
    <2> QED BY <1>3, <2>1, <2>2, SameSlots DEF DepReady, RunnerEffect
  <1>4. CASE DepNotReady(r)
    <2>1. PICK show \in {"Pending", "Failed"} :
            /\ SetState(old.svc, show)
            /\ runner' = [runner EXCEPT ![r].shown = show]
            /\ old.pc # "done"
      BY <1>4 DEF DepNotReady, At
    <2> DEFINE x == [old EXCEPT !.shown = show]
    <2>2. x \in RunnerRec /\ x.svc = old.svc
      BY <1>0 DEF RunnerRec
    <2> QED BY <2>1, <2>2, SetStateEffect DEF RunnerEffect, StateKind
  <1>5. CASE DepsDone(r)
    <2> DEFINE x == [old EXCEPT !.pc = "launch", !.dep = 1, !.shown = "Pending"]
    <2>1. x \in RunnerRec /\ x.svc = old.svc
      BY <1>0 DEF RunnerRec, RunnerPC
    <2>2. runner' = [runner EXCEPT ![r] = x] /\ old.pc # "done"
      BY <1>5 DEF DepsDone, At
    <2>3. SlotEffect
      BY <1>5, SetStateEffect DEF DepsDone, StateKind
    <2> QED BY <2>1, <2>2, <2>3 DEF RunnerEffect
  <1>6. CASE StopWaiting(r)
    BY <1>6, FinishEffect DEF StopWaiting, At, StateKind
  <1>7. CASE Ended(r)
    <2>1. runner' = [runner EXCEPT ![r] = NoRunner] /\ slot' = slot
      BY <1>7 DEF Ended
    <2>2. NoRunner \in RunnerRec /\ NoRunner.pc = "done"
      BY RunnerTypes DEF NoRunner
    <2> QED BY <2>1, <2>2, SameSlots DEF RunnerEffect
  <1> QED BY <1>1, <1>2, <1>3, <1>4, <1>5, <1>6, <1>7 DEF WaitSteps

\* What an attempt does to services.json and to the process groups.
StoreEffect ==
  /\ disk' \in [Service -> Saved]
  /\ group' \in [Pid -> Group]

\* A snapshot of the slots and the updates of the groups have their type.
LEMMA StoreTypes ==
  ASSUME TypeOK
  PROVE  /\ Snapshot \in [Service -> Saved]
         /\ \A p \in Pid, s \in Service \cup {None} :
              /\ [group EXCEPT ![p] = Gone] \in [Pid -> Group]
              /\ [group EXCEPT ![p] = [life |-> "led", svc |-> s]] \in [Pid -> Group]
  <1>1. Snapshot \in [Service -> Saved]
    BY DEF TypeOK, Snapshot, Slot, Saved
  <1>2. ASSUME NEW p \in Pid, NEW s \in Service \cup {None}
        PROVE  /\ [group EXCEPT ![p] = Gone] \in [Pid -> Group]
               /\ [group EXCEPT ![p] = [life |-> "led", svc |-> s]] \in [Pid -> Group]
    BY DEF TypeOK, Gone, Group
  <1> QED BY <1>1, <1>2

\* Writing or clearing the running marker touches no handle.
LEMMA SetMarkerEffect ==
  ASSUME TypeOK, NEW s, NEW m \in Pid \cup {None}, slot' = [slot EXCEPT ![s].marker = m]
  PROVE  SlotEffect
  BY DEF TypeOK, Slot, SlotEffect

\* What an attempt (supervise_once) does to slots, groups and runners.
LEMMA AttemptStepsEffect ==
  ASSUME TypeOK, NEW r \in Runner, AttemptSteps(r)
  PROVE  SlotEffect /\ RunnerEffect(r) /\ StoreEffect
  <1> DEFINE old == runner[r]
  <1>0. /\ old \in RunnerRec
        /\ old.child \in Pid \cup {None}
        /\ old.svc \in Service \cup {None}
        /\ old.why \in Outcome \cup {None}
    BY DEF TypeOK, RunnerRec
  <1>a. disk' = disk /\ group' = group => StoreEffect
    BY DEF TypeOK, StoreEffect
  <1>b. disk' = Snapshot /\ group' = group => StoreEffect
    BY StoreTypes DEF TypeOK, StoreEffect
  <1>c. disk' = disk /\ Sweep(old.child) => StoreEffect
    <2> SUFFICES ASSUME disk' = disk, group' = [group EXCEPT ![old.child] = Gone]
                 PROVE  StoreEffect
      BY DEF Sweep
    <2>1. Gone \in Group
      BY DEF Gone, Group
    <2> QED BY <2>1 DEF TypeOK, StoreEffect
  <1>1. CASE LaunchFails(r)
    BY <1>1, <1>a, EndAttemptEffect, SameSlots DEF LaunchFails, At, Outcome
  <1>2. CASE Spawn(r)
    <2>1. PICK p \in Pid : /\ group' = [group EXCEPT ![p] = [life |-> "led", svc |-> old.svc]]
                           /\ runner' = [runner EXCEPT ![r] = [@ EXCEPT !.pc = "record", !.child = p]]
      BY <1>2 DEF Spawn
    <2>2. slot' = slot /\ disk' = disk /\ old.pc # "done"
      BY <1>2 DEF Spawn, At
    <2> DEFINE x == [old EXCEPT !.pc = "record", !.child = p]
    <2>3. x \in RunnerRec /\ x.svc = old.svc
      BY <1>0 DEF RunnerRec, RunnerPC
    <2>4. RunnerEffect(r)
      BY <2>1, <2>2, <2>3 DEF RunnerEffect
    <2>5. StoreEffect
      BY <1>0, <2>1, <2>2, StoreTypes DEF TypeOK, StoreEffect
    <2> QED BY <2>2, <2>4, <2>5, SameSlots
  <1>3. CASE Record(r)
    BY <1>0, <1>3, <1>a, SetMarkerEffect, MoveEffect DEF Record, At, RunnerPC
  <1>4. CASE Save(r)
    BY <1>4, <1>b, SameSlots, MoveEffect DEF Save, At, RunnerPC
  <1>5. CASE BecomeReady(r)
    BY <1>5, <1>a, SetStateEffect, MoveEffect DEF BecomeReady, At, RunnerPC, StateKind
  <1>6. CASE ReadyTimeout(r)
    BY <1>6, <1>a, SameSlots, StopChildEffect DEF ReadyTimeout, At, Outcome
  <1>7. CASE ChildExited(r)
    BY <1>7, <1>c, SameSlots, EndAttemptEffect DEF ChildExited, At, Outcome
  <1>8. CASE StopServing(r)
    BY <1>8, <1>a, SameSlots, StopChildEffect DEF StopServing, At, Outcome
  <1>9. CASE WatchRestart(r)
    <2> DEFINE x == [old EXCEPT !.pc = "stopping", !.why = "restart", !.hit = FALSE]
    <2>1. x \in RunnerRec /\ x.svc = old.svc
      BY <1>0 DEF RunnerRec, RunnerPC, Outcome
    <2>2. runner' = [runner EXCEPT ![r] = x] /\ old.pc # "done"
      BY <1>9 DEF WatchRestart, At
    <2>3. RunnerEffect(r)
      BY <2>1, <2>2 DEF RunnerEffect
    <2> QED BY <1>9, <1>a, <2>3, SameSlots DEF WatchRestart
  <1>10. CASE ChildStopped(r)
    BY <1>0, <1>10, <1>c, SameSlots, EndAttemptEffect DEF ChildStopped, At
  <1>11. CASE ClearMarker(r)
    BY <1>11, <1>a, SetMarkerEffect, MoveEffect DEF ClearMarker, At, RunnerPC
  <1>12. CASE SaveEnd(r)
    BY <1>12, <1>b, SameSlots, MoveEffect DEF SaveEnd, At, RunnerPC
  <1> QED BY <1>1, <1>2, <1>3, <1>4, <1>5, <1>6, <1>7, <1>8, <1>9, <1>10, <1>11, <1>12 DEF AttemptSteps

\* What the outcome of an attempt leads to, for slots and runners.
LEMMA SettleStepsEffect ==
  ASSUME TypeOK, NEW r \in Runner, SettleSteps(r)
  PROVE  SlotEffect /\ RunnerEffect(r)
  <1> DEFINE old == runner[r]
  <1>0. old \in RunnerRec /\ old.fails \in 0..FailCap
    BY DEF TypeOK, RunnerRec
  <1>a. ASSUME NEW l \in RunnerPC, NEW n \in 0..FailCap, old.pc # "done",
               runner' = [runner EXCEPT ![r] = [@ EXCEPT !.pc = l, !.why = None, !.fails = n]]
        PROVE  RunnerEffect(r)
    <2> DEFINE x == [old EXCEPT !.pc = l, !.why = None, !.fails = n]
    <2>1. x \in RunnerRec /\ x.svc = old.svc
      BY <1>0 DEF RunnerRec
    <2> QED BY <1>a, <2>1 DEF RunnerEffect
  <1>1. CASE SettleStopped(r)
    BY <1>1, FinishEffect DEF SettleStopped, At, StateKind
  <1>2. CASE SettleRestart(r)
    <2>1. /\ runner' = [runner EXCEPT ![r] = [@ EXCEPT !.pc = "check", !.why = None, !.fails = 0]]
          /\ old.pc # "done" /\ slot' = slot
      BY <1>2 DEF SettleRestart, At
    <2>2. "check" \in RunnerPC /\ 0 \in 0..FailCap
      BY BoundAssumption DEF RunnerPC
    <2> QED BY <1>a, <2>1, <2>2, SameSlots
  <1>3. CASE SettleFatal(r)
    BY <1>3, FinishEffect DEF SettleFatal, At, StateKind
  <1>4. CASE SettleFailure(r)
    <2> DEFINE n == IF old.why = "failedStable" THEN 1 ELSE Bump(old.fails)
    <2>1. n \in 0..FailCap /\ 0 \in 0..FailCap
      BY <1>0, BoundAssumption DEF Bump
    <2>2. CASE Finish(r, "Failed")
      BY <1>4, <2>2, FinishEffect DEF SettleFailure, At, StateKind
    <2>3. CASE /\ SetState(old.svc, "Failed")
               /\ runner' = [runner EXCEPT ![r] = [@ EXCEPT !.pc = "parked", !.why = None, !.fails = 0]]
      BY <1>4, <1>a, <2>1, <2>3, SetStateEffect DEF SettleFailure, At, StateKind, RunnerPC
    <2>4. CASE /\ SetState(old.svc, "Backoff")
               /\ runner' = [runner EXCEPT ![r] = [@ EXCEPT !.pc = "backoff", !.why = None, !.fails = n]]
      BY <1>4, <1>a, <2>1, <2>4, SetStateEffect DEF SettleFailure, At, StateKind, RunnerPC
    <2>5. \/ Finish(r, "Failed")
          \/ /\ SetState(old.svc, "Failed")
             /\ runner' = [runner EXCEPT ![r] = [@ EXCEPT !.pc = "parked", !.why = None, !.fails = 0]]
          \/ /\ SetState(old.svc, "Backoff")
             /\ runner' = [runner EXCEPT ![r] = [@ EXCEPT !.pc = "backoff", !.why = None, !.fails = n]]
      BY <1>4 DEF SettleFailure
    <2> QED BY <2>2, <2>3, <2>4, <2>5
  <1>5. CASE BackoffElapsed(r)
    BY <1>5, SameSlots, MoveEffect DEF BackoffElapsed, At, RunnerPC
  <1>6. CASE HitWhileWaiting(r)
    <2> DEFINE x == [old EXCEPT !.pc = "check", !.hit = FALSE, !.fails = 0]
    <2>a. 0 \in 0..FailCap
      BY BoundAssumption
    <2>1. x \in RunnerRec /\ x.svc = old.svc
      BY <1>0, <2>a DEF RunnerRec, RunnerPC
    <2>2. runner' = [runner EXCEPT ![r] = x] /\ old.pc # "done" /\ slot' = slot
      BY <1>6 DEF HitWhileWaiting, At
    <2> QED BY <2>1, <2>2, SameSlots DEF RunnerEffect
  <1> QED BY <1>1, <1>2, <1>3, <1>4, <1>5, <1>6 DEF SettleSteps

\* A step of a runner changes no handle and no other runner.
LEMMA RunnerStepEffect ==
  ASSUME TypeOK, NEW r \in Runner, RunnerStep(r)
  PROVE  SlotEffect /\ RunnerEffect(r) /\ StoreEffect
  <1>1. CASE WaitSteps(r)
    BY <1>1, WaitStepsEffect DEF WaitSteps, TypeOK, StoreEffect
  <1>2. CASE AttemptSteps(r)
    BY <1>2, AttemptStepsEffect
  <1>3. CASE SettleSteps(r)
    BY <1>3, SettleStepsEffect DEF SettleSteps, TypeOK, StoreEffect
  <1> QED BY <1>1, <1>2, <1>3 DEF RunnerStep

\* A step of a runner keeps the types.
LEMMA RunnerStepType ==
  ASSUME TypeOK, NEW r \in Runner, RunnerStep(r)
  PROVE  TypeOK'
  <1>1. SlotEffect /\ RunnerEffect(r) /\ StoreEffect
    BY RunnerStepEffect
  <1>2. runner' \in [Runner -> RunnerRec]
    BY <1>1 DEF RunnerEffect, TypeOK
  <1> QED BY <1>1, <1>2 DEF RunnerStep, SlotEffect, StoreEffect, TypeOK

-----------------------------------------------------------------------------
(* The procedures. *)

\* Moving a procedure on keeps its type.
LEMMA GotoType ==
  ASSUME TypeOK, NEW c \in Proc, NEW l \in ProcPC, Goto(c, l)
  PROVE  proc' \in [Proc -> ProcRec]
  BY DEF TypeOK, Goto, ProcRec

\* So does going on with the next target.
LEMMA NextTargetType ==
  ASSUME TypeOK, NEW c \in Proc, NEW s, NEW first \in ProcPC, NEW last \in ProcPC,
         NextTarget(c, s, first, last)
  PROVE  proc' \in [Proc -> ProcRec]
  <1> DEFINE rest == proc[c].todo \ {s}
             x == [pc |-> IF rest = {} THEN last ELSE first, todo |-> rest, joining |-> None]
  <1>1. x \in ProcRec
    BY DEF TypeOK, ProcRec
  <1>2. proc' = [proc EXCEPT ![c] = x]
    BY DEF NextTarget
  <1> QED BY <1>1, <1>2 DEF TypeOK

\* So does any well-typed update of one procedure.
LEMMA ProcUpdateType ==
  ASSUME TypeOK, NEW c \in Proc, NEW x \in ProcRec, proc' = [proc EXCEPT ![c] = x]
  PROVE  proc' \in [Proc -> ProcRec]
  BY DEF TypeOK

\* A request keeps the types.
LEMMA RequestType ==
  ASSUME TypeOK, NEW c \in Client, Request(c)
  PROVE  TypeOK'
  <1>1. PICK names \in SUBSET Service :
          \/ proc' = [proc EXCEPT ![c] = [@ EXCEPT !.pc = "up", !.todo = Expand(names)]]
          \/ proc' = [proc EXCEPT ![c] = [@ EXCEPT !.pc = "down", !.todo = names]]
    BY DEF Request
  <1>2. c \in Proc /\ proc[c] \in ProcRec /\ Expand(names) \in SUBSET Service
    BY DEF TypeOK, Proc, Expand
  <1>3. [proc[c] EXCEPT !.pc = "up", !.todo = Expand(names)] \in ProcRec
    BY <1>2 DEF ProcRec, ProcPC
  <1>4. [proc[c] EXCEPT !.pc = "down", !.todo = names] \in ProcRec
    BY <1>2 DEF ProcRec, ProcPC
  <1>5. proc' \in [Proc -> ProcRec]
    BY <1>1, <1>2, <1>3, <1>4, ProcUpdateType
  <1> QED BY <1>5 DEF Request, TypeOK

\* The decide-spawn-record section of up keeps the types.
LEMMA UpSpawnType ==
  ASSUME TypeOK, NEW c \in Proc, UpSpawn(c)
  PROVE  TypeOK'
  <1>1. PICK s \in Service :
          \/ /\ slot' = [slot EXCEPT ![s].desired = TRUE]
             /\ UNCHANGED runner
          \/ \E r \in Runner :
               /\ runner' = [runner EXCEPT ![r] = NewRunner(s)]
               /\ slot' = [slot EXCEPT ![s] = [@ EXCEPT !.desired = TRUE, !.task = r,
                                                         !.watching = s \in Watched]]
    BY DEF UpSpawn, NewRunnerId, Least
  <1>2. slot[s] \in Slot /\ runner \in [Runner -> RunnerRec]
    BY DEF TypeOK
  <1>3. slot' \in [Service -> Slot] /\ runner' \in [Runner -> RunnerRec]
    <2>1. CASE slot' = [slot EXCEPT ![s].desired = TRUE] /\ UNCHANGED runner
      BY <2>1, <1>2 DEF TypeOK, Slot
    <2>2. CASE \E r \in Runner :
               /\ runner' = [runner EXCEPT ![r] = NewRunner(s)]
               /\ slot' = [slot EXCEPT ![s] = [@ EXCEPT !.desired = TRUE, !.task = r,
                                                         !.watching = s \in Watched]]
      <3>1. PICK r \in Runner :
               /\ runner' = [runner EXCEPT ![r] = NewRunner(s)]
               /\ slot' = [slot EXCEPT ![s] = [@ EXCEPT !.desired = TRUE, !.task = r,
                                                         !.watching = s \in Watched]]
        BY <2>2
      <3>2. \A w \in BOOLEAN : [slot[s] EXCEPT !.desired = TRUE, !.task = r, !.watching = w] \in Slot
        BY <1>2 DEF Slot
      <3>a. (s \in Watched) \in BOOLEAN
        OBVIOUS
      <3>3. slot' \in [Service -> Slot]
        BY <3>1, <3>2, <3>a, Zenon DEF TypeOK
      <3>4. NewRunner(s) \in RunnerRec
        BY RunnerTypes
      <3> QED BY <3>1, <3>3, <3>4, <1>2
    <2> QED BY <1>1, <2>1, <2>2
  <1>4. proc' \in [Proc -> ProcRec]
    BY GotoType DEF UpSpawn, ProcPC
  <1> QED BY <1>3, <1>4 DEF UpSpawn, TypeOK

\* The first half of stop_and_join keeps the types.
LEMMA DownStopType ==
  ASSUME TypeOK, NEW c \in Proc, DownStop(c)
  PROVE  TypeOK'
  <1>1. PICK s \in Service :
          /\ slot' = [slot EXCEPT ![s] = [@ EXCEPT !.desired = FALSE, !.watching = FALSE, !.task = None]]
          /\ proc' = [proc EXCEPT ![c] = [@ EXCEPT !.pc = IF slot[s].task = None THEN "mark" ELSE "join",
                                                    !.joining = slot[s].task]]
    BY DEF DownStop
  <1>2. slot[s] \in Slot /\ proc[c] \in ProcRec /\ slot[s].task \in Runner \cup {None}
    BY DEF TypeOK, Slot
  <1>3. [slot[s] EXCEPT !.desired = FALSE, !.watching = FALSE, !.task = None] \in Slot
    BY <1>2 DEF Slot
  <1>4. [proc[c] EXCEPT !.pc = IF slot[s].task = None THEN "mark" ELSE "join",
                        !.joining = slot[s].task] \in ProcRec
    BY <1>2 DEF ProcRec, ProcPC
  <1>5. slot' \in [Service -> Slot]
    BY <1>1, <1>3 DEF TypeOK
  <1>6. proc' \in [Proc -> ProcRec]
    BY <1>1, <1>4, ProcUpdateType
  <1> QED BY <1>5, <1>6 DEF DownStop, TypeOK

\* A step of up or down keeps the types.
LEMMA ProcStepType ==
  ASSUME TypeOK, NEW c \in Proc, ProcStep(c)
  PROVE  TypeOK'
  <1>1. CASE UpSpawn(c)
    BY <1>1, UpSpawnType
  <1>2. CASE UpRoute(c)
    BY <1>2, NextTargetType DEF UpRoute, ProcPC, TypeOK
  <1>3. CASE Persist(c)
    BY <1>3, GotoType, StoreTypes DEF Persist, ProcPC, TypeOK
  <1>4. CASE DownStop(c)
    BY <1>4, DownStopType
  <1>5. CASE DownMark(c)
    <2>1. PICK s \in Service : slot' = [slot EXCEPT ![s].state = "Stopped"]
      BY <1>5 DEF DownMark
    <2>2. slot' \in [Service -> Slot]
      BY <2>1, SetStateEffect DEF SetState, SlotEffect, StateKind
    <2> QED BY <1>5, <2>2, GotoType DEF DownMark, ProcPC, TypeOK
  <1>6. CASE DownJoined(c)
    <2>1. [proc[c] EXCEPT !.pc = "unroute", !.joining = None] \in ProcRec
      BY DEF TypeOK, ProcRec, ProcPC
    <2>2. proc' \in [Proc -> ProcRec]
      BY <1>6, <2>1, ProcUpdateType DEF DownJoined
    <2> QED BY <1>6, <2>2 DEF DownJoined, TypeOK
  <1>7. CASE DownUnroute(c)
    BY <1>7, NextTargetType DEF DownUnroute, ProcPC, TypeOK
  <1> QED BY <1>1, <1>2, <1>3, <1>4, <1>5, <1>6, <1>7 DEF ProcStep

\* A step of restore keeps the types.
LEMMA RestoreStepType ==
  ASSUME TypeOK, RestoreStep
  PROVE  TypeOK'
  <1>0. Restorer \in Proc
    BY DEF Proc
  <1>1. CASE Reconcile
    <2>1. PICK s \in Service :
            /\ loaded[s] # None
            /\ loaded' = [loaded EXCEPT ![s] = None]
            /\ group' = IF group[loaded[s]].life = "led"
                          THEN [group EXCEPT ![loaded[s]] = Gone]
                          ELSE group
      BY <1>1 DEF Reconcile, Least
    <2>2. loaded[s] \in Pid /\ loaded' \in [Service -> Pid \cup {None}]
      BY <2>1 DEF TypeOK
    <2>3. group' \in [Pid -> Group]
      BY <2>1, <2>2, StoreTypes DEF TypeOK
    <2> QED BY <1>1, <2>2, <2>3 DEF Reconcile, TypeOK
  <1>2. CASE Reconciled
    BY <1>0, <1>2, GotoType DEF Reconciled, ProcPC, TypeOK
  <1>3. CASE BootSave
    BY <1>0, <1>3, GotoType, StoreTypes DEF BootSave, ProcPC, TypeOK
  <1>4. CASE BootUp
    <2> DEFINE names == {s \in Service : slot[s].desired}
               x == [proc[Restorer] EXCEPT !.pc = "up", !.todo = Expand(names)]
    <2>1. x \in ProcRec
      BY <1>0 DEF TypeOK, ProcRec, ProcPC, Expand
    <2>2. Goto(Restorer, "idle") \/ proc' = [proc EXCEPT ![Restorer] = x]
      BY <1>4 DEF BootUp
    <2>3. proc' \in [Proc -> ProcRec]
      BY <1>0, <2>1, <2>2, GotoType, ProcUpdateType DEF ProcPC
    <2> QED BY <1>4, <2>3 DEF BootUp, TypeOK
  <1> QED BY <1>1, <1>2, <1>3, <1>4 DEF RestoreStep

\* What a daemon that is not running keeps in memory: nothing, well typed.
LEMMA EmptyTypes ==
  /\ \A b \in BOOLEAN : FreshSlot(b) \in Slot
  /\ IdleProc \in ProcRec
  /\ Gone \in Group
  BY DEF FreshSlot, Slot, StateKind, IdleProc, ProcRec, ProcPC, Gone, Group

\* The end of the daemon keeps the types.
LEMMA HaltType ==
  ASSUME TypeOK, Halt, disk' \in [Service -> Saved]
  PROVE  TypeOK'
  <1>1. slot' \in [Service -> Slot]
    BY EmptyTypes DEF Halt
  <1>2. runner' \in [Runner -> RunnerRec]
    BY RunnerTypes DEF Halt
  <1>3. proc' \in [Proc -> ProcRec]
    BY EmptyTypes DEF Halt
  <1> QED BY <1>1, <1>2, <1>3 DEF Halt, TypeOK

\* The types hold initially.
LEMMA InitTypeOK == Init => TypeOK
  <1> SUFFICES ASSUME Init PROVE TypeOK
    OBVIOUS
  <1>1. slot \in [Service -> Slot] /\ proc \in [Proc -> ProcRec] /\ group \in [Pid -> Group]
    BY EmptyTypes DEF Init
  <1>2. runner \in [Runner -> RunnerRec]
    BY RunnerTypes DEF Init
  <1>3. disk \in [Service -> Saved]
    BY DEF Init, Saved
  <1> QED BY <1>1, <1>2, <1>3 DEF Init, TypeOK

\* The start of a daemon keeps the types.
LEMMA BootType ==
  ASSUME TypeOK, Boot
  PROVE  TypeOK'
  <1>1. slot' \in [Service -> Slot]
    <2>1. \A s \in Service : disk[s].desired \in BOOLEAN
      BY DEF TypeOK, Saved
    <2>2. \A s \in Service : (disk[s].desired /\ Autostart) \in BOOLEAN
      OBVIOUS
    <2>3. slot' = [s \in Service |-> FreshSlot(disk[s].desired /\ Autostart)]
      BY DEF Boot
    <2> QED BY <2>2, <2>3, EmptyTypes, Zenon
  <1>2. proc' \in [Proc -> ProcRec]
    BY GotoType DEF Boot, Proc, ProcPC
  <1>3. loaded' \in [Service -> Pid \cup {None}]
    BY DEF Boot, TypeOK, Saved
  <1> QED BY <1>1, <1>2, <1>3 DEF Boot, TypeOK

\* A watch hit keeps the types.
LEMMA WatchHitType ==
  ASSUME TypeOK, NEW s \in Service, WatchHit(s)
  PROVE  TypeOK'
  <1>1. \A r \in Runner : [runner[r] EXCEPT !.hit = TRUE] \in RunnerRec
    BY DEF TypeOK, RunnerRec
  <1>2. runner' \in [Runner -> RunnerRec]
    BY <1>1 DEF WatchHit, TypeOK
  <1> QED BY <1>2 DEF WatchHit, TypeOK

\* The exit of a process keeps the types.
LEMMA LeaderExitsType ==
  ASSUME TypeOK, NEW p \in Pid, LeaderExits(p)
  PROVE  TypeOK'
  <1>1. [group EXCEPT ![p].life = "headless"] \in [Pid -> Group]
    BY DEF TypeOK, Group
  <1>2. [group EXCEPT ![p] = Gone] \in [Pid -> Group]
    BY EmptyTypes DEF TypeOK
  <1> QED BY <1>1, <1>2 DEF LeaderExits, TypeOK

\* The first half of shutdown_all keeps the types.
LEMMA ShutdownType ==
  ASSUME TypeOK, Shutdown
  PROVE  TypeOK'
  <1>1. \A s \in Service : [slot[s] EXCEPT !.task = None] \in Slot /\ slot[s].task \in Runner \cup {None}
    BY DEF TypeOK, Slot
  <1>2. slot' \in [Service -> Slot] /\ awaited' \subseteq Runner
    BY <1>1 DEF Shutdown
  <1> QED BY <1>2 DEF Shutdown, TypeOK

\* Every step keeps every variable in its type.
LEMMA NextTypeOK == TypeOK /\ [Next]_vars => TypeOK'
  <1> SUFFICES ASSUME TypeOK, [Next]_vars PROVE TypeOK'
    OBVIOUS
  <1>1. CASE \E c \in Client : Request(c)
    BY <1>1, RequestType
  <1>2. CASE \E c \in Proc : ProcStep(c)
    BY <1>2, ProcStepType
  <1>3. CASE RestoreStep
    BY <1>3, RestoreStepType
  <1>4. CASE \E r \in Runner : RunnerStep(r)
    BY <1>4, RunnerStepType
  <1>5. CASE \E s \in Service : WatchHit(s)
    BY <1>5, WatchHitType
  <1>6. CASE \E p \in Pid : LeaderExits(p)
    BY <1>6, LeaderExitsType
  <1>7. CASE Boot
    BY <1>7, BootType
  <1>8. CASE Crash
    BY <1>8, HaltType DEF Crash, TypeOK
  <1>9. CASE Shutdown
    BY <1>9, ShutdownType
  <1>10. CASE Exit
    BY <1>10, HaltType, StoreTypes DEF Exit
  <1>11. CASE UNCHANGED vars
    BY <1>11 DEF TypeOK, vars
  <1> QED BY <1>1, <1>2, <1>3, <1>4, <1>5, <1>6, <1>7, <1>8, <1>9, <1>10, <1>11 DEF Next, Over

\* Every variable of the supervisor keeps its shape in every execution: no
\* handle, pid or count ever leaves its range, whatever the services, their
\* dependencies and policies, the clients and the way daemons end.
THEOREM TypeCorrect == Spec => []TypeOK
  BY InitTypeOK, NextTypeOK, PTL DEF Spec

-----------------------------------------------------------------------------
(* No runner is forgotten.  Accounted is not inductive: it needs that a      *)
(* procedure holds a handle only while it joins, that nothing is awaited     *)
(* before the shutdown, and that a daemon that is off left nothing behind.   *)

Named == \A r \in Runner : ~Finished(r) => runner[r].svc \in Service

JoinHolds == \A c \in Proc : proc[c].pc # "join" => proc[c].joining = None

AwaitsNothing == daemon # "stopping" => awaited = {}

OffIsEmpty == daemon = "off" => /\ \A r \in Runner : Finished(r)
                                /\ \A c \in Proc : proc[c].pc = "idle"

AccountedInv == TypeOK /\ Accounted /\ Named /\ JoinHolds /\ AwaitsNothing /\ OffIsEmpty

\* Initially there is no runner, and so none to account for.
LEMMA InitAccounted == Init => AccountedInv
  <1> SUFFICES ASSUME Init PROVE AccountedInv
    OBVIOUS
  <1>1. \A r \in Runner : Finished(r)
    BY DEF Init, Finished, NoRunner
  <1>2. \A c \in Proc : proc[c].pc = "idle" /\ proc[c].joining = None
    BY DEF Init, IdleProc
  <1> QED BY <1>1, <1>2, InitTypeOK
        DEF Init, AccountedInv, Accounted, Named, JoinHolds, AwaitsNothing, OffIsEmpty

\* A runner's step keeps every handle where it is, and revives no runner.
LEMMA RunnerStepAccounted ==
  ASSUME AccountedInv, NEW r \in Runner, RunnerStep(r)
  PROVE  AccountedInv'
  <1>0. TypeOK /\ TypeOK'
    BY RunnerStepType DEF AccountedInv
  <1>1. SlotEffect /\ RunnerEffect(r)
    BY <1>0, RunnerStepEffect
  <1>2. \A q \in Runner : runner'[q].pc # "done" =>
          runner[q].pc # "done" /\ runner'[q].svc = runner[q].svc
    BY <1>0, <1>1 DEF RunnerEffect, TypeOK
  <1>3. UNCHANGED <<daemon, proc, awaited>>
    BY DEF RunnerStep
  <1>4. Accounted'
    BY <1>1, <1>2, <1>3 DEF AccountedInv, Accounted, Named, Finished, SlotEffect
  <1> QED BY <1>0, <1>2, <1>3, <1>4
        DEF AccountedInv, Named, JoinHolds, AwaitsNothing, OffIsEmpty, Finished

\* A step that keeps the runners, the handles and the life of the daemon.
LEMMA SameHandles ==
  ASSUME AccountedInv, TypeOK', UNCHANGED <<daemon, runner, awaited>>,
         \A s \in Service : slot'[s].task = slot[s].task,
         NEW c \in Proc, proc[c].pc # "idle", proc[c].pc # "join" \/ Finished(proc[c].joining),
         \A d \in Proc : d # c => proc'[d] = proc[d],
         proc'[c].pc # "join", proc'[c].joining = None
  PROVE  AccountedInv'
  <1>1. \A r \in Runner : ~Finished(r) => proc[c].joining # r
    BY NoneAssumption, ServiceAssumption DEF AccountedInv, JoinHolds
  <1>2. Accounted'
    BY <1>1 DEF AccountedInv, Accounted, Named, Finished
  <1>3. Named' /\ JoinHolds' /\ AwaitsNothing' /\ OffIsEmpty'
    BY DEF AccountedInv, Named, JoinHolds, AwaitsNothing, OffIsEmpty, Finished
  <1> QED BY <1>2, <1>3 DEF AccountedInv

\* `up` replaces a handle only when it is finished.
LEMMA UpSpawnAccounted ==
  ASSUME AccountedInv, NEW c \in Proc, UpSpawn(c)
  PROVE  AccountedInv'
  <1>0. TypeOK /\ TypeOK'
    BY UpSpawnType DEF AccountedInv
  <1>1. PICK s \in Service :
          /\ proc[c].pc = "up"
          /\ \/ /\ slot' = [slot EXCEPT ![s].desired = TRUE]
                /\ UNCHANGED runner
             \/ /\ RunnerNeeded(s)
                /\ \E r \in Runner :
                     /\ runner' = [runner EXCEPT ![r] = NewRunner(s)]
                     /\ slot' = [slot EXCEPT ![s] = [@ EXCEPT !.desired = TRUE, !.task = r,
                                                               !.watching = s \in Watched]]
    BY DEF UpSpawn, NewRunnerId, Least
  <1>2. proc' = [proc EXCEPT ![c].pc = "route"] /\ UNCHANGED <<daemon, awaited>>
    BY DEF UpSpawn, Goto
  <1>3. \A d \in Proc : proc'[d].joining = proc[d].joining
    BY <1>0, <1>2 DEF TypeOK, ProcRec
  <1>4. daemon # "off"
    BY <1>1 DEF AccountedInv, OffIsEmpty
  <1>5. JoinHolds' /\ AwaitsNothing' /\ OffIsEmpty'
    BY <1>0, <1>1, <1>2, <1>3, <1>4 DEF AccountedInv, JoinHolds, AwaitsNothing, OffIsEmpty, TypeOK, ProcRec
  <1>6. Accounted' /\ Named'
    <2>1. CASE slot' = [slot EXCEPT ![s].desired = TRUE] /\ UNCHANGED runner
      <3>1. \A t \in Service : slot'[t].task = slot[t].task
        BY <1>0, <2>1 DEF TypeOK, Slot
      <3> QED BY <1>2, <1>3, <2>1, <3>1 DEF AccountedInv, Accounted, Named, Finished
    <2>2. CASE RunnerNeeded(s) /\
               \E r \in Runner :
                 /\ runner' = [runner EXCEPT ![r] = NewRunner(s)]
                 /\ slot' = [slot EXCEPT ![s] = [@ EXCEPT !.desired = TRUE, !.task = r,
                                                           !.watching = s \in Watched]]
      <3>1. PICK r \in Runner :
              /\ runner' = [runner EXCEPT ![r] = NewRunner(s)]
              /\ slot' = [slot EXCEPT ![s] = [@ EXCEPT !.desired = TRUE, !.task = r,
                                                        !.watching = s \in Watched]]
        BY <2>2
      <3>2. slot[s] \in Slot /\ slot \in [Service -> Slot] /\ runner \in [Runner -> RunnerRec]
        BY <1>0 DEF TypeOK
      <3>3. slot'[s].task = r /\ \A t \in Service : t # s => slot'[t].task = slot[t].task
        <4>1. \A w : [slot[s] EXCEPT !.desired = TRUE, !.task = r, !.watching = w].task = r
          BY <3>2 DEF Slot
        <4>2. slot'[s] = [slot[s] EXCEPT !.desired = TRUE, !.task = r, !.watching = s \in Watched]
          BY <3>1, <3>2, Zenon
        <4>3. \A t \in Service : t # s => slot'[t] = slot[t]
          BY <3>1, <3>2, Zenon
        <4> QED BY <4>1, <4>2, <4>3, Zenon
      <3>4. runner'[r].svc = s /\ \A q \in Runner : q # r => runner'[q] = runner[q]
        BY <3>1, <3>2 DEF NewRunner, NoRunner
      <3>5. \A q \in Runner : runner[q].pc # "done" => slot[s].task # q
        BY <2>2, ServiceAssumption, NoneAssumption DEF RunnerNeeded, Finished
      <3>6. ASSUME NEW q \in Runner, q # r, runner'[q].pc # "done"
            PROVE  /\ runner'[q].svc \in Service
                   /\ \/ slot'[runner'[q].svc].task = q
                      \/ \E d \in Proc : proc'[d].joining = q
                      \/ q \in awaited'
        <4>1. runner[q].pc # "done" /\ runner'[q].svc = runner[q].svc /\ runner[q].svc \in Service
          BY <3>4, <3>6 DEF AccountedInv, Named, Finished
        <4>2. \/ slot[runner[q].svc].task = q
              \/ \E d \in Proc : proc[d].joining = q
              \/ q \in awaited
          BY <4>1 DEF AccountedInv, Accounted, Finished
        <4> QED BY <1>2, <1>3, <3>3, <3>5, <4>1, <4>2
      <3> QED BY <3>3, <3>4, <3>6 DEF Accounted, Named, Finished
    <2> QED BY <1>1, <2>1, <2>2
  <1> QED BY <1>0, <1>5, <1>6 DEF AccountedInv

\* `down` takes the handle it is about to wait for.
LEMMA DownStopAccounted ==
  ASSUME AccountedInv, NEW c \in Proc, DownStop(c)
  PROVE  AccountedInv'
  <1>0. TypeOK /\ TypeOK'
    BY DownStopType DEF AccountedInv
  <1>1. PICK s \in Service :
          /\ proc[c].pc = "down"
          /\ slot' = [slot EXCEPT ![s] = [@ EXCEPT !.desired = FALSE, !.watching = FALSE, !.task = None]]
          /\ proc' = [proc EXCEPT ![c] = [@ EXCEPT !.pc = IF slot[s].task = None THEN "mark" ELSE "join",
                                                    !.joining = slot[s].task]]
    BY DEF DownStop
  <1>2. UNCHANGED <<daemon, awaited, runner>>
    BY DEF DownStop
  <1>3. slot'[s].task = None /\ \A t \in Service : t # s => slot'[t].task = slot[t].task
    BY <1>0, <1>1 DEF TypeOK, Slot
  <1>4. /\ proc'[c].joining = slot[s].task
        /\ proc'[c].pc = IF slot[s].task = None THEN "mark" ELSE "join"
        /\ \A d \in Proc : d # c => proc'[d] = proc[d]
    BY <1>0, <1>1 DEF TypeOK, ProcRec
  <1>5. proc[c].joining = None
    BY <1>1 DEF AccountedInv, JoinHolds
  <1>6. Accounted'
    <2> SUFFICES ASSUME NEW q \in Runner, ~Finished(q)
                 PROVE  \/ slot'[runner[q].svc].task = q
                        \/ \E d \in Proc : proc'[d].joining = q
                        \/ q \in awaited
      BY <1>2 DEF Accounted, Finished
    <2>1. runner[q].svc \in Service /\ q # None
      BY NoneAssumption, ServiceAssumption DEF AccountedInv, Named
    <2>2. \/ slot[runner[q].svc].task = q
          \/ \E d \in Proc : proc[d].joining = q
          \/ q \in awaited
      BY DEF AccountedInv, Accounted
    <2> QED BY <1>3, <1>4, <1>5, <2>1, <2>2
  <1>7. Named' /\ AwaitsNothing' /\ OffIsEmpty' /\ JoinHolds'
    BY <1>1, <1>2, <1>4 DEF AccountedInv, Named, Finished, AwaitsNothing, OffIsEmpty, JoinHolds
  <1> QED BY <1>0, <1>6, <1>7 DEF AccountedInv

\* Moving a procedure on changes no handle it holds, and nothing another one holds.
LEMMA GotoHandles ==
  ASSUME AccountedInv, NEW c \in Proc, NEW l \in ProcPC \ {"join"}, Goto(c, l), proc[c].pc # "join"
  PROVE  /\ \A d \in Proc : d # c => proc'[d] = proc[d]
         /\ proc'[c].pc # "join" /\ proc'[c].joining = None
  BY DEF AccountedInv, TypeOK, ProcRec, Goto, JoinHolds

\* Going on with the next target drops only the handle of the procedure itself.
LEMMA NextTargetHandles ==
  ASSUME TypeOK, NEW c \in Proc, NEW s, NEW first \in ProcPC \ {"join"}, NEW last \in ProcPC \ {"join"},
         NextTarget(c, s, first, last)
  PROVE  /\ \A d \in Proc : d # c => proc'[d] = proc[d]
         /\ proc'[c].pc # "join" /\ proc'[c].joining = None
  <1> DEFINE rest == proc[c].todo \ {s}
             x == [pc |-> IF rest = {} THEN last ELSE first, todo |-> rest, joining |-> None]
  <1>1. proc' = [proc EXCEPT ![c] = x] /\ x.pc # "join" /\ x.joining = None
    BY DEF NextTarget
  <1> QED BY <1>1 DEF TypeOK

\* The invariant is kept by a step of up or down.
LEMMA ProcStepAccounted ==
  ASSUME AccountedInv, NEW c \in Proc, ProcStep(c)
  PROVE  AccountedInv'
  <1>0. TypeOK /\ TypeOK'
    BY ProcStepType DEF AccountedInv
  <1>1. CASE UpSpawn(c)
    BY <1>1, UpSpawnAccounted
  <1>2. CASE UpRoute(c)
    BY <1>0, <1>2, NextTargetHandles, SameHandles DEF UpRoute, ProcPC
  <1>3. CASE Persist(c)
    BY <1>0, <1>3, GotoHandles, SameHandles DEF Persist, ProcPC
  <1>4. CASE DownStop(c)
    BY <1>4, DownStopAccounted
  <1>5. CASE DownMark(c)
    <2>1. PICK s \in Service : slot' = [slot EXCEPT ![s].state = "Stopped"]
      BY <1>5 DEF DownMark
    <2>2. \A t \in Service : slot'[t].task = slot[t].task
      BY <1>0, <2>1, SetStateEffect DEF SetState, SlotEffect, StateKind
    <2> QED BY <1>0, <1>5, <2>2, GotoHandles, SameHandles DEF DownMark, ProcPC
  <1>6. CASE DownJoined(c)
    <2>1. /\ \A d \in Proc : d # c => proc'[d] = proc[d]
          /\ proc'[c].pc # "join" /\ proc'[c].joining = None
      BY <1>0, <1>6 DEF DownJoined, TypeOK, ProcRec
    <2> QED BY <1>0, <1>6, <2>1, SameHandles DEF DownJoined
  <1>7. CASE DownUnroute(c)
    BY <1>0, <1>7, NextTargetHandles, SameHandles DEF DownUnroute, ProcPC
  <1> QED BY <1>1, <1>2, <1>3, <1>4, <1>5, <1>6, <1>7 DEF ProcStep

\* The invariant is kept by a step of restore.
LEMMA RestoreStepAccounted ==
  ASSUME AccountedInv, RestoreStep
  PROVE  AccountedInv'
  <1>0. TypeOK /\ TypeOK' /\ Restorer \in Proc
    BY RestoreStepType DEF AccountedInv, Proc
  <1>1. CASE Reconcile
    BY <1>0, <1>1 DEF Reconcile, AccountedInv, Accounted, Named, JoinHolds, AwaitsNothing, OffIsEmpty, Finished
  <1>2. CASE Reconciled
    BY <1>0, <1>2, GotoHandles, SameHandles DEF Reconciled, ProcPC
  <1>3. CASE BootSave
    BY <1>0, <1>3, GotoHandles, SameHandles DEF BootSave, ProcPC
  <1>4. CASE BootUp
    <2> DEFINE names == {s \in Service : slot[s].desired}
               x == [proc[Restorer] EXCEPT !.pc = "up", !.todo = Expand(names)]
    <2>1. proc[Restorer].joining = None /\ proc[Restorer].pc = "bootUp"
      BY <1>0, <1>4 DEF BootUp, AccountedInv, JoinHolds
    <2>2. x.pc # "join" /\ x.joining = None
      BY <1>0, <2>1 DEF TypeOK, ProcRec
    <2>3. Goto(Restorer, "idle") \/ proc' = [proc EXCEPT ![Restorer] = x]
      BY <1>4 DEF BootUp
    <2>4. /\ \A d \in Proc : d # Restorer => proc'[d] = proc[d]
          /\ proc'[Restorer].pc # "join" /\ proc'[Restorer].joining = None
      BY <1>0, <2>1, <2>2, <2>3, GotoHandles DEF ProcPC, TypeOK
    <2> QED BY <1>0, <1>4, <2>1, <2>4, SameHandles DEF BootUp
  <1> QED BY <1>1, <1>2, <1>3, <1>4 DEF RestoreStep

\* The invariant is kept by a request.
LEMMA RequestAccounted ==
  ASSUME AccountedInv, NEW c \in Client, Request(c)
  PROVE  AccountedInv'
  <1>0. TypeOK /\ TypeOK' /\ c \in Proc
    BY RequestType DEF AccountedInv, Proc
  <1>a. PICK names \in SUBSET Service :
          \/ proc' = [proc EXCEPT ![c] = [@ EXCEPT !.pc = "up", !.todo = Expand(names)]]
          \/ proc' = [proc EXCEPT ![c] = [@ EXCEPT !.pc = "down", !.todo = names]]
    BY DEF Request
  <1>1. /\ \A d \in Proc : d # c => proc'[d] = proc[d]
        /\ proc'[c].pc # "join" /\ proc'[c].joining = proc[c].joining
    <2> DEFINE u == [proc[c] EXCEPT !.pc = "up", !.todo = Expand(names)]
               v == [proc[c] EXCEPT !.pc = "down", !.todo = names]
    <2>1. proc[c] \in ProcRec /\ proc \in [Proc -> ProcRec]
      BY <1>0 DEF TypeOK
    <2>2. /\ u.pc = "up" /\ u.joining = proc[c].joining
          /\ v.pc = "down" /\ v.joining = proc[c].joining
      BY <2>1 DEF ProcRec
    <2> HIDE DEF u, v
    <2>3. proc' = [proc EXCEPT ![c] = u] \/ proc' = [proc EXCEPT ![c] = v]
      BY <1>a DEF u, v
    <2> QED BY <1>0, <2>1, <2>2, <2>3
  <1>2. proc[c].pc = "idle" /\ daemon # "off" /\ UNCHANGED <<daemon, slot, runner, awaited>>
    BY DEF Request
  <1> QED BY <1>0, <1>1, <1>2
        DEF AccountedInv, Accounted, Named, JoinHolds, AwaitsNothing, OffIsEmpty, Finished

\* The invariant is kept by the end of the daemon: no runner is left.
LEMMA HaltAccounted ==
  ASSUME AccountedInv, Halt, TypeOK'
  PROVE  AccountedInv'
  <1>1. \A r \in Runner : runner'[r].pc = "done"
    BY DEF Halt, NoRunner
  <1>2. \A c \in Proc : proc'[c].pc = "idle" /\ proc'[c].joining = None
    BY DEF Halt, IdleProc
  <1> QED BY <1>1, <1>2
        DEF Halt, AccountedInv, Accounted, Named, JoinHolds, AwaitsNothing, OffIsEmpty, Finished

\* The invariant is kept by every step.
LEMMA NextAccounted == AccountedInv /\ [Next]_vars => AccountedInv'
  <1> SUFFICES ASSUME AccountedInv, [Next]_vars PROVE AccountedInv'
    OBVIOUS
  <1>0. TypeOK /\ TypeOK'
    BY NextTypeOK DEF AccountedInv
  <1>1. CASE \E c \in Client : Request(c)
    BY <1>1, RequestAccounted
  <1>2. CASE \E c \in Proc : ProcStep(c)
    BY <1>2, ProcStepAccounted
  <1>3. CASE RestoreStep
    BY <1>3, RestoreStepAccounted
  <1>4. CASE \E r \in Runner : RunnerStep(r)
    BY <1>4, RunnerStepAccounted
  <1>5. CASE \E s \in Service : WatchHit(s)
    <2>1. UNCHANGED <<daemon, slot, proc, awaited>>
      BY <1>5 DEF WatchHit
    <2>2. \A r \in Runner : runner'[r].pc = runner[r].pc /\ runner'[r].svc = runner[r].svc
      BY <1>0, <1>5 DEF WatchHit, TypeOK, RunnerRec
    <2> QED BY <1>0, <2>1, <2>2
          DEF AccountedInv, Accounted, Named, JoinHolds, AwaitsNothing, OffIsEmpty, Finished
  <1>6. CASE \E p \in Pid : LeaderExits(p)
    <2>1. UNCHANGED <<daemon, slot, proc, awaited, runner>>
      BY <1>6 DEF LeaderExits
    <2> QED BY <1>0, <2>1
          DEF AccountedInv, Accounted, Named, JoinHolds, AwaitsNothing, OffIsEmpty, Finished
  <1>7. CASE Boot
    <2>1. \A r \in Runner : runner'[r].pc = "done"
      BY <1>7 DEF Boot, AccountedInv, OffIsEmpty, Finished
    <2>2. \A c \in Proc : proc'[c].joining = None
      BY <1>0, <1>7 DEF Boot, Goto, AccountedInv, OffIsEmpty, JoinHolds, TypeOK, ProcRec
    <2>3. daemon' = "up" /\ awaited' = {}
      BY <1>7 DEF Boot, AccountedInv, AwaitsNothing
    <2> QED BY <1>0, <2>1, <2>2, <2>3
          DEF AccountedInv, Accounted, Named, JoinHolds, AwaitsNothing, OffIsEmpty, Finished
  <1>8. CASE Crash
    BY <1>0, <1>8, HaltAccounted DEF Crash
  <1>9. CASE Shutdown
    <2>1. /\ awaited' = {slot[s].task : s \in Service} \ {None} /\ awaited = {}
          /\ daemon' = "stopping" /\ UNCHANGED <<proc, runner>>
      BY <1>9 DEF Shutdown, AccountedInv, AwaitsNothing
    <2>2. Accounted'
      <3> SUFFICES ASSUME NEW q \in Runner, ~Finished(q)
                   PROVE  q \in awaited' \/ \E c \in Proc : proc[c].joining = q
        BY <2>1 DEF Accounted, Finished
      <3>1. runner[q].svc \in Service /\ q # None
        BY ServiceAssumption, NoneAssumption DEF AccountedInv, Named
      <3> QED BY <2>1, <3>1 DEF AccountedInv, Accounted
    <2> QED BY <1>0, <2>1, <2>2 DEF AccountedInv, Named, JoinHolds, AwaitsNothing, OffIsEmpty, Finished
  <1>10. CASE Exit
    BY <1>0, <1>10, HaltAccounted DEF Exit
  <1>11. CASE UNCHANGED vars
    BY <1>11 DEF vars, AccountedInv, TypeOK, Accounted, Named, JoinHolds, AwaitsNothing, OffIsEmpty, Finished
  <1> QED BY <1>1, <1>2, <1>3, <1>4, <1>5, <1>6, <1>7, <1>8, <1>9, <1>10, <1>11 DEF Next, Over

\* A runner task is never forgotten (supervisor.rs:1184 and 1613-1641): from
\* its spawn to its end it is the task of its slot, the handle some `down` is
\* waiting for, or one of those the shutdown waits for.
THEOREM RunnersAccounted == Spec => []Accounted
  <1>1. AccountedInv => Accounted
    BY DEF AccountedInv
  <1> QED BY <1>1, InitAccounted, NextAccounted, PTL DEF Spec

-----------------------------------------------------------------------------
(* The safety of the supervisor: one instance, honest state, settled intent.  *)
(* None of those properties is inductive; SupervisedInv, below, is, in layers *)
(* that rest on one another.                                                  *)

\* The hypothesis.  Commands come one at a time or none of them is a `down`,
\* and none comes before restore is done: an `up` that meets another client's
\* `down` half way does start a second instance (supervisor.rs:1626).
CommandsApart ==
  /\ Early = {}
  /\ CanDown = {} \/ \A c, d \in Client : c = d

\* Restore before it brings services up, and the two commands between their
\* first and their last target.
Booting == {"reconcile", "bootSave", "bootUp"}
Upping == {"up", "route"}
Downing == {"down", "join", "mark", "unroute"}
\* A runner that has no attempt under way and begins none in a shutdown.
Waking == {"subscribe", "check", "ending", "done"}
\* A runner that has a process group.
Holding == {"record", "save", "gate", "serve", "stopping"}

\* Who does what: only clients that may, only after restore, and restore
\* reclaims before there is any runner.
Roles ==
  /\ proc[Restorer].pc \notin Downing
  /\ \A c \in Client : /\ proc[c].pc \notin Booting
                       /\ c \notin CanDown => proc[c].pc \notin Downing
                       /\ proc[c].pc # "idle" => Restored
  /\ daemon = "stopping" => Restored
  /\ proc[Restorer].pc \in Booting => \A r \in Runner : Finished(r)
  /\ \A s \in Service : loaded[s] # None => daemon = "up" /\ proc[Restorer].pc = "reconcile"

\* A group is held by at most one runner, of its own service; a lost group is
\* alive and held by none, and a leaderless group that nobody holds is lost.
ChildHeld ==
  /\ \A r \in Runner : runner[r].child # None <=> runner[r].pc \in Holding
  /\ \A q, r \in Runner : runner[q].child # None /\ runner[q].child = runner[r].child => q = r
  /\ \A r \in Runner : runner[r].child # None =>
       group[runner[r].child] = Gone \/ group[runner[r].child].svc = runner[r].svc
  /\ \A p \in Pid : group[p].life = "gone" => group[p] = Gone
  /\ \A p \in lost : group[p].life # "gone" /\ ~Held(p)
  /\ \A p \in Pid : group[p].life = "headless" /\ ~Held(p) => p \in lost

\* A service has one unfinished runner.  An `up` during the shutdown may spawn
\* a second one, and then one of the two never begins an attempt.
Alone ==
  \A q, r \in Runner :
    q # r /\ ~Finished(q) /\ ~Finished(r) /\ runner[q].svc = runner[r].svc =>
      daemon = "stopping" /\ (runner[q].pc \in Waking \/ runner[r].pc \in Waking)

\* The marker of the service is the runner's child, in memory once recorded
\* and in services.json once saved.
Marked ==
  \A r \in Runner :
    /\ runner[r].pc \in {"save", "gate", "serve", "stopping"} => slot[runner[r].svc].marker = runner[r].child
    /\ runner[r].pc \in {"gate", "serve", "stopping"} => disk[runner[r].svc].marker = runner[r].child

\* A live group that is not lost is held, or read from its marker and not yet
\* reclaimed, or, with no daemon, named by services.json.
Owned ==
  \A p \in Pid : group[p].life # "gone" /\ p \notin lost =>
    LET s == group[p].svc IN
    /\ s \in Service
    /\ \/ Held(p)
       \/ loaded[s] = p
       \/ daemon = "off" /\ disk[s].marker = p

\* A marker that is not reclaimed yet is still in services.json, so that a
\* crash of restore loses nothing.
StillOnDisk == \A s \in Service : loaded[s] # None => disk[s].marker = loaded[s]

\* What a `down` has stopped stays stopped until it goes on to the next target.
Stopping ==
  daemon = "up" => \A c \in Proc, s \in Service :
    proc[c].pc \in {"join", "mark", "unroute"} /\ Target(c, s) =>
      slot[s].task = None /\ ~slot[s].desired

\* What an `up` is about to route is desired.
Starting ==
  daemon = "up" => \A c \in Proc, s \in Service :
    proc[c].pc = "route" /\ Target(c, s) => slot[s].desired

\* A route that does not match the intent is on some procedure's way.
RoutedSoon ==
  daemon = "up" => \A s \in Service :
    /\ slot[s].desired /\ s \notin routed =>
         \E c \in Proc : proc[c].pc \in Booting \/ (proc[c].pc \in Upping /\ s \in proc[c].todo)
    /\ ~slot[s].desired /\ s \in routed =>
         \E c \in Proc : proc[c].pc \in {"join", "mark", "unroute"} /\ Target(c, s)

OffUnrouted == daemon = "off" => routed = {}

\* An intent that services.json does not record has its persist ahead.
SavedSoon ==
  /\ daemon = "up" /\ (\E s \in Service : disk[s].desired # slot[s].desired) => \E c \in Proc : proc[c].pc # "idle"
  /\ proc[Restorer].pc = "bootUp" => \A s \in Service : disk[s].desired = slot[s].desired

\* During an attempt the shown state is the attempt's.
Shown ==
  daemon = "up" => \A r \in Runner :
    /\ runner[r].pc \in {"launch", "record", "save", "gate"} => slot[runner[r].svc].state = "Starting"
    /\ runner[r].pc \in {"serve", "stopping", "clear", "saveEnd", "settle"} =>
         slot[runner[r].svc].state \in {"Starting", "Ready"}

ReadyBacked ==
  daemon = "up" => \A s \in Service : slot[s].state = "Ready" =>
    \E r \in Runner : runner[r].svc = s /\ runner[r].pc \notin {"ending", "done"}

\* A runner the shutdown did not take was spawned after it began.
LateWake ==
  daemon = "stopping" => \A r \in Runner : ~Finished(r) /\ slot[runner[r].svc].task = r => runner[r].pc \in Waking

-----------------------------------------------------------------------------
(* What a step of a runner does, field by field.                            *)

\* Every step of r: nothing but r and the state and marker of its slot moves.
OwnStep(r) ==
  /\ UNCHANGED <<daemon, routed, loaded, proc, awaited, lost>>
  /\ \A q \in Runner : q # r => runner'[q] = runner[q]
  /\ \A t \in Service : t # runner[r].svc => slot'[t] = slot[t]
  /\ \A t \in Service : slot'[t].task = slot[t].task /\ slot'[t].desired = slot[t].desired
  /\ runner[r].pc # "done" /\ runner[r].svc \in Service
  /\ runner'[r].pc # "done" => runner'[r].svc = runner[r].svc

SameMarker(r) == slot'[runner[r].svc].marker = slot[runner[r].svc].marker
SameState(r) == slot'[runner[r].svc].state = slot[runner[r].svc].state
SameChild(r) == runner'[r].child = runner[r].child
From(r, before, after) == runner[r].pc \in before /\ runner'[r].pc \in after

\* The loop around the attempts, and a launch that fails.
LoopStep(r) ==
  /\ UNCHANGED <<disk, group>> /\ SameMarker(r)
  /\ From(r, RunnerPC \ (Holding \cup {"done", "clear", "saveEnd"}), RunnerPC \ (Holding \cup {"saveEnd", "settle"}))
  /\ runner'[r].child \in {None, runner[r].child}
  /\ runner'[r].pc \notin Waking => runner[r].pc \notin Waking \/ ~StopRequested(runner[r].svc)
  /\ slot'[runner[r].svc].state = "Ready" =>
       /\ SameState(r) /\ runner'[r].pc # "ending"
       /\ runner'[r].pc = "done" => runner[r].pc = "ending"
  /\ runner'[r].pc = "launch" => slot'[runner[r].svc].state = "Starting"
  /\ runner'[r].pc = "clear" => runner[r].pc = "launch" /\ SameState(r)
SpawnStep(r) ==
  /\ UNCHANGED <<slot, disk>> /\ From(r, {"launch"}, {"record"})
  /\ \E p \in Pid :
       /\ FreshPid(p) /\ runner'[r].child = p
       /\ group' = [group EXCEPT ![p] = [life |-> "led", svc |-> runner[r].svc]]
RecordStep(r) ==
  /\ UNCHANGED <<disk, group>> /\ From(r, {"record"}, {"save"}) /\ SameChild(r) /\ SameState(r)
  /\ slot'[runner[r].svc].marker = runner[r].child
SaveStep(r) ==
  /\ UNCHANGED <<slot, group>> /\ SameChild(r) /\ disk' = Snapshot
  /\ From(r, {"save"}, {"gate"}) \/ From(r, {"saveEnd"}, {"settle"})
ServeStep(r) ==
  /\ UNCHANGED <<disk, group>> /\ SameChild(r) /\ SameMarker(r)
  /\ From(r, {"gate", "serve"}, {"serve", "stopping"})
  /\ SameState(r) \/ slot'[runner[r].svc].state = "Ready"
SweepStep(r) ==
  /\ UNCHANGED <<slot, disk>> /\ From(r, {"gate", "serve", "stopping"}, {"clear"})
  /\ runner'[r].child = None
  /\ group' = [group EXCEPT ![runner[r].child] = Gone]
ClearStep(r) ==
  /\ UNCHANGED <<disk, group>> /\ From(r, {"clear"}, {"saveEnd"}) /\ SameChild(r) /\ SameState(r)
  /\ slot'[runner[r].svc].marker = None

\* A runner's new record, and its slot's, are what the action makes them.
LEMMA UpdateRunner ==
  ASSUME TypeOK, NEW r \in Runner, NEW x, runner' = [runner EXCEPT ![r] = x]
  PROVE  runner'[r] = x /\ \A q \in Runner : q # r => runner'[q] = runner[q]
  BY DEF TypeOK

\* What set_state does to the slot, and to no other.
LEMMA UpdateState ==
  ASSUME TypeOK, NEW s \in Service, NEW k, SetState(s, k)
  PROVE  /\ slot'[s].state = k /\ slot'[s].marker = slot[s].marker
         /\ slot'[s].task = slot[s].task /\ slot'[s].desired = slot[s].desired
         /\ \A t \in Service : t # s => slot'[t] = slot[t]
  BY DEF TypeOK, SetState, Slot

\* What recording or clearing a marker does to the slot, and to no other.
LEMMA UpdateMarker ==
  ASSUME TypeOK, NEW s \in Service, NEW m, slot' = [slot EXCEPT ![s].marker = m]
  PROVE  /\ slot'[s].marker = m /\ slot'[s].state = slot[s].state
         /\ slot'[s].task = slot[s].task /\ slot'[s].desired = slot[s].desired
         /\ \A t \in Service : t # s => slot'[t] = slot[t]
  BY DEF TypeOK, Slot

\* Moving on changes the place in the program and nothing else.
LEMMA MoveFields ==
  ASSUME TypeOK, NEW r \in Runner, NEW l, Move(r, l)
  PROVE  /\ runner'[r].pc = l /\ runner'[r].svc = runner[r].svc /\ SameChild(r)
         /\ \A q \in Runner : q # r => runner'[q] = runner[q]
  BY DEF TypeOK, Move, RunnerRec, SameChild

\* Leaving the loop.
LEMMA FinishFields ==
  ASSUME TypeOK, NEW r \in Runner, NEW k, Finish(r, k), runner[r].svc \in Service
  PROVE  /\ runner'[r].pc = "ending" /\ runner'[r].svc = runner[r].svc /\ runner'[r].child = None
         /\ \A q \in Runner : q # r => runner'[q] = runner[q]
         /\ SetState(runner[r].svc, k)
  <1> DEFINE x == [NewRunner(runner[r].svc) EXCEPT !.pc = "ending"]
  <1>1. x.pc = "ending" /\ x.svc = runner[r].svc /\ x.child = None
    BY DEF NewRunner, NoRunner
  <1>2. runner' = [runner EXCEPT ![r] = x]
    BY DEF Finish
  <1> HIDE DEF x
  <1> QED BY <1>1, <1>2, UpdateRunner DEF Finish

\* Whatever changes the place and the outcome of an attempt, and drops the
\* child or keeps it.
LEMMA AttemptFields ==
  ASSUME TypeOK, NEW r \in Runner, NEW why
  PROVE  /\ EndAttempt(r, why) =>
              /\ runner'[r].pc = "clear" /\ runner'[r].svc = runner[r].svc /\ runner'[r].child = None
              /\ \A q \in Runner : q # r => runner'[q] = runner[q]
         /\ StopChild(r, why) =>
              /\ runner'[r].pc = "stopping" /\ runner'[r].svc = runner[r].svc /\ SameChild(r)
              /\ \A q \in Runner : q # r => runner'[q] = runner[q]
  <1> DEFINE x == [runner[r] EXCEPT !.pc = "clear", !.why = why, !.child = None]
             y == [runner[r] EXCEPT !.pc = "stopping", !.why = why]
  <1>1. runner[r] \in RunnerRec
    BY DEF TypeOK
  <1>2. x.pc = "clear" /\ x.svc = runner[r].svc /\ x.child = None
    BY <1>1 DEF RunnerRec
  <1>3. y.pc = "stopping" /\ y.svc = runner[r].svc /\ y.child = runner[r].child
    BY <1>1 DEF RunnerRec
  <1>4. EndAttempt(r, why) => runner' = [runner EXCEPT ![r] = x]
    BY DEF EndAttempt
  <1>5. StopChild(r, why) => runner' = [runner EXCEPT ![r] = y]
    BY DEF StopChild
  <1> HIDE DEF x, y
  <1> QED BY <1>2, <1>3, <1>4, <1>5, UpdateRunner DEF SameChild


\* The steps of the loop around the attempts.
LEMMA LoopKinds ==
  ASSUME AccountedInv, ChildHeld, NEW r \in Runner, WaitSteps(r) \/ SettleSteps(r) \/ LaunchFails(r),
         UNCHANGED <<daemon, routed, loaded, proc, awaited, lost>>
  PROVE  OwnStep(r) /\ LoopStep(r)
  <1> DEFINE s == runner[r].svc
  <1>0. TypeOK /\ runner[r] \in RunnerRec
    BY DEF AccountedInv, TypeOK
  <1>a. runner[r].pc # "done" => s \in Service
    BY DEF AccountedInv, Named, Finished
  <1>b. runner[r].pc \notin Holding => runner[r].child = None
    BY DEF ChildHeld
  <1>c. UNCHANGED <<disk, group>>
    BY DEF WaitSteps, SettleSteps, LaunchFails
  <1>d. slot' = slot => \A t \in Service : slot'[t] = slot[t] /\ slot'[t].task = slot[t].task /\ slot'[t].desired = slot[t].desired
    OBVIOUS
  <1> USE DEF OwnStep, LoopStep, From, Holding, Waking, RunnerPC, SameMarker, SameState, SameChild
  <1>1. CASE Subscribe(r)
    BY <1>0, <1>a, <1>b, <1>c, <1>1, MoveFields DEF Subscribe, At
  <1>2. CASE Check(r)
    <2>0. runner[r].pc = "check" /\ s \in Service
      BY <1>a, <1>2 DEF Check, At
    <2>1. CASE StopRequested(s)
      <3>1. Finish(r, "Stopped")
        BY <1>2, <2>1 DEF Check
      <3> QED BY <1>0, <1>c, <2>0, <3>1, FinishFields, UpdateState
    <2>2. CASE ~StopRequested(s)
      <3>1. SetState(s, "Pending") /\ Move(r, "deps")
        BY <1>2, <2>2 DEF Check
      <3> QED BY <1>0, <1>b, <1>c, <2>0, <2>2, <3>1, MoveFields, UpdateState
    <2> QED BY <2>1, <2>2
  <1>3. CASE DepReady(r)
    <2> DEFINE x == [runner[r] EXCEPT !.dep = runner[r].dep + 1]
    <2>1. x.pc = runner[r].pc /\ x.svc = s /\ x.child = runner[r].child
      BY <1>0 DEF RunnerRec
    <2>2. runner' = [runner EXCEPT ![r] = x] /\ runner[r].pc = "deps" /\ slot' = slot
      BY <1>3 DEF DepReady, At
    <2> HIDE DEF x
    <2> QED BY <1>0, <1>a, <1>b, <1>c, <1>d, <2>1, <2>2, UpdateRunner
  <1>4. CASE DepNotReady(r)
    <2>1. PICK show \in {"Pending", "Failed"} :
            /\ SetState(s, show)
            /\ runner' = [runner EXCEPT ![r].shown = show]
            /\ runner[r].pc = "deps"
      BY <1>4 DEF DepNotReady, At
    <2> DEFINE x == [runner[r] EXCEPT !.shown = show]
    <2>2. x.pc = runner[r].pc /\ x.svc = s /\ x.child = runner[r].child
      BY <1>0 DEF RunnerRec
    <2>3. runner' = [runner EXCEPT ![r] = x]
      BY <2>1
    <2> HIDE DEF x
    <2> QED BY <1>0, <1>a, <1>b, <1>c, <2>1, <2>2, <2>3, UpdateRunner, UpdateState
  <1>5. CASE DepsDone(r)
    <2> DEFINE x == [runner[r] EXCEPT !.pc = "launch", !.dep = 1, !.shown = "Pending"]
    <2>1. x.pc = "launch" /\ x.svc = s /\ x.child = runner[r].child
      BY <1>0 DEF RunnerRec
    <2>2. runner' = [runner EXCEPT ![r] = x] /\ runner[r].pc = "deps" /\ SetState(s, "Starting")
      BY <1>5 DEF DepsDone, At
    <2> HIDE DEF x
    <2> QED BY <1>0, <1>a, <1>b, <1>c, <2>1, <2>2, UpdateRunner, UpdateState
  <1>6. CASE StopWaiting(r)
    <2>1. runner[r].pc \in {"deps", "backoff", "parked"} /\ Finish(r, "Stopped")
      BY <1>6 DEF StopWaiting, At
    <2> QED BY <1>0, <1>a, <1>c, <2>1, FinishFields, UpdateState
  <1>7. CASE Ended(r)
    <2>1. runner[r].pc = "ending" /\ runner' = [runner EXCEPT ![r] = NoRunner] /\ slot' = slot
      BY <1>7 DEF Ended, At
    <2>2. NoRunner.pc = "done" /\ NoRunner.child = None
      BY DEF NoRunner
    <2> QED BY <1>0, <1>a, <1>c, <1>d, <2>1, <2>2, UpdateRunner
  <1>8. CASE LaunchFails(r)
    <2>1. PICK why : EndAttempt(r, why) /\ runner[r].pc = "launch" /\ slot' = slot
      BY <1>8 DEF LaunchFails, At
    <2> QED BY <1>0, <1>a, <1>c, <1>d, <2>1, AttemptFields
  <1>9. CASE SettleStopped(r)
    <2>1. runner[r].pc = "settle" /\ Finish(r, "Stopped")
      BY <1>9 DEF SettleStopped, At
    <2> QED BY <1>0, <1>a, <1>c, <2>1, FinishFields, UpdateState
  <1>10. CASE SettleRestart(r)
    <2> DEFINE x == [runner[r] EXCEPT !.pc = "check", !.why = None, !.fails = 0]
    <2>1. x.pc = "check" /\ x.svc = s /\ x.child = runner[r].child
      BY <1>0 DEF RunnerRec
    <2>2. runner' = [runner EXCEPT ![r] = x] /\ runner[r].pc = "settle" /\ slot' = slot
      BY <1>10 DEF SettleRestart, At
    <2> HIDE DEF x
    <2> QED BY <1>0, <1>a, <1>b, <1>c, <1>d, <2>1, <2>2, UpdateRunner
  <1>11. CASE SettleFatal(r)
    <2>1. runner[r].pc = "settle" /\ Finish(r, "Failed")
      BY <1>11 DEF SettleFatal, At
    <2> QED BY <1>0, <1>a, <1>c, <2>1, FinishFields, UpdateState
  <1>12. CASE SettleFailure(r)
    <2>0. runner[r].pc = "settle" /\ s \in Service
      BY <1>12, <1>a DEF SettleFailure, At
    <2>1. CASE Finish(r, "Failed")
      BY <1>0, <1>c, <2>0, <2>1, FinishFields, UpdateState
    <2>2. CASE \E n, k, l : /\ k # "Ready" /\ l \in {"parked", "backoff"} /\ SetState(s, k)
                            /\ runner' = [runner EXCEPT ![r] = [@ EXCEPT !.pc = l, !.why = None, !.fails = n]]
      <3>1. PICK n, k, l : /\ k # "Ready" /\ l \in {"parked", "backoff"} /\ SetState(s, k)
                           /\ runner' = [runner EXCEPT ![r] = [@ EXCEPT !.pc = l, !.why = None, !.fails = n]]
        BY <2>2
      <3> DEFINE x == [runner[r] EXCEPT !.pc = l, !.why = None, !.fails = n]
      <3>2. x.pc = l /\ x.svc = s /\ x.child = runner[r].child
        BY <1>0 DEF RunnerRec
      <3>3. runner' = [runner EXCEPT ![r] = x]
        BY <3>1
      <3> HIDE DEF x
      <3>4. runner'[r] = x /\ \A q \in Runner : q # r => runner'[q] = runner[q]
        BY <1>0, <3>3, UpdateRunner
      <3>5. /\ slot'[s].state = k /\ slot'[s].marker = slot[s].marker
            /\ slot'[s].task = slot[s].task /\ slot'[s].desired = slot[s].desired
            /\ \A t \in Service : t # s => slot'[t] = slot[t]
        BY <1>0, <2>0, <3>1, UpdateState
      <3>6. OwnStep(r)
        BY <2>0, <3>2, <3>4, <3>5
      <3>7. LoopStep(r)
        BY <1>b, <1>c, <2>0, <3>1, <3>2, <3>4, <3>5
      <3> QED BY <3>6, <3>7
    <2> DEFINE n == IF runner[r].why = "failedStable" THEN 1 ELSE Bump(runner[r].fails)
    <2>3. \/ Finish(r, "Failed")
          \/ /\ SetState(s, "Failed")
             /\ runner' = [runner EXCEPT ![r] = [@ EXCEPT !.pc = "parked", !.why = None, !.fails = 0]]
          \/ /\ SetState(s, "Backoff")
             /\ runner' = [runner EXCEPT ![r] = [@ EXCEPT !.pc = "backoff", !.why = None, !.fails = n]]
      BY <1>12 DEF SettleFailure
    <2> HIDE DEF n
    <2> QED BY <2>1, <2>2, <2>3
  <1>13. CASE BackoffElapsed(r)
    BY <1>0, <1>a, <1>b, <1>c, <1>d, <1>13, MoveFields DEF BackoffElapsed, At
  <1>14. CASE HitWhileWaiting(r)
    <2> DEFINE x == [runner[r] EXCEPT !.pc = "check", !.hit = FALSE, !.fails = 0]
    <2>1. x.pc = "check" /\ x.svc = s /\ x.child = runner[r].child
      BY <1>0 DEF RunnerRec
    <2>2. runner' = [runner EXCEPT ![r] = x] /\ runner[r].pc \in {"backoff", "parked"} /\ slot' = slot
      BY <1>14 DEF HitWhileWaiting, At
    <2> HIDE DEF x
    <2> QED BY <1>0, <1>a, <1>b, <1>c, <1>d, <2>1, <2>2, UpdateRunner
  <1> QED BY <1>1, <1>2, <1>3, <1>4, <1>5, <1>6, <1>7, <1>8, <1>9, <1>10, <1>11, <1>12, <1>13, <1>14
          DEF WaitSteps, SettleSteps

\* The steps of an attempt.
LEMMA AttemptKinds ==
  ASSUME AccountedInv, NEW r \in Runner, AttemptSteps(r), ~LaunchFails(r),
         UNCHANGED <<daemon, routed, loaded, proc, awaited, lost>>
  PROVE  /\ OwnStep(r)
         /\ \/ SpawnStep(r) \/ RecordStep(r) \/ SaveStep(r) \/ ServeStep(r) \/ SweepStep(r) \/ ClearStep(r)
  <1> DEFINE s == runner[r].svc
  <1>0. TypeOK /\ runner[r] \in RunnerRec
    BY DEF AccountedInv, TypeOK
  <1>a. runner[r].pc # "done" => s \in Service
    BY DEF AccountedInv, Named, Finished
  <1>d. slot' = slot => \A t \in Service : slot'[t] = slot[t] /\ slot'[t].task = slot[t].task /\ slot'[t].desired = slot[t].desired
    OBVIOUS
  <1> USE DEF OwnStep, From, SameMarker, SameState, SameChild
  <1>1. CASE Spawn(r)
    <2>1. PICK p \in Pid : /\ FreshPid(p)
                           /\ group' = [group EXCEPT ![p] = [life |-> "led", svc |-> s]]
                           /\ runner' = [runner EXCEPT ![r] = [@ EXCEPT !.pc = "record", !.child = p]]
      BY <1>1 DEF Spawn
    <2> DEFINE x == [runner[r] EXCEPT !.pc = "record", !.child = p]
    <2>2. x.pc = "record" /\ x.svc = s /\ x.child = p
      BY <1>0 DEF RunnerRec
    <2>3. runner' = [runner EXCEPT ![r] = x] /\ runner[r].pc = "launch" /\ UNCHANGED <<slot, disk>>
      BY <1>1, <2>1 DEF Spawn, At
    <2> HIDE DEF x
    <2>4. runner'[r] = x /\ \A q \in Runner : q # r => runner'[q] = runner[q]
      BY <1>0, <2>3, UpdateRunner
    <2>5. OwnStep(r)
      BY <1>a, <1>d, <2>2, <2>3, <2>4
    <2>6. runner'[r].child = p
      BY <2>2, <2>4
    <2>7. From(r, {"launch"}, {"record"})
      BY <2>2, <2>3, <2>4
    <2> QED BY <2>1, <2>3, <2>5, <2>6, <2>7 DEF SpawnStep
  <1>2. CASE Record(r)
    <2>1. runner[r].pc = "record" /\ Move(r, "save") /\ slot' = [slot EXCEPT ![s].marker = runner[r].child]
          /\ UNCHANGED <<disk, group>>
      BY <1>2 DEF Record, At
    <2> QED BY <1>0, <1>a, <2>1, MoveFields, UpdateMarker DEF RecordStep
  <1>3. CASE Save(r)
    BY <1>0, <1>a, <1>d, <1>3, MoveFields DEF Save, SaveStep, At
  <1>4. CASE BecomeReady(r)
    <2>1. runner[r].pc = "gate" /\ Move(r, "serve") /\ SetState(s, "Ready") /\ UNCHANGED <<disk, group>>
      BY <1>4 DEF BecomeReady, At
    <2> QED BY <1>0, <1>a, <2>1, MoveFields, UpdateState DEF ServeStep
  <1>5. CASE ReadyTimeout(r) \/ StopServing(r)
    <2>1. PICK why : StopChild(r, why) /\ runner[r].pc \in {"gate", "serve"} /\ UNCHANGED <<slot, disk, group>>
      BY <1>5 DEF ReadyTimeout, StopServing, At
    <2> QED BY <1>0, <1>a, <1>d, <2>1, AttemptFields DEF ServeStep
  <1>6. CASE ChildExited(r)
    <2>1. PICK why : EndAttempt(r, why) /\ runner[r].pc \in {"gate", "serve"} /\ Sweep(runner[r].child)
                     /\ UNCHANGED <<slot, disk>>
      BY <1>6 DEF ChildExited, At
    <2> QED BY <1>0, <1>a, <1>d, <2>1, AttemptFields DEF SweepStep, Sweep
  <1>7. CASE WatchRestart(r)
    <2> DEFINE x == [runner[r] EXCEPT !.pc = "stopping", !.why = "restart", !.hit = FALSE]
    <2>1. x.pc = "stopping" /\ x.svc = s /\ x.child = runner[r].child
      BY <1>0 DEF RunnerRec
    <2>2. runner' = [runner EXCEPT ![r] = x] /\ runner[r].pc = "serve" /\ UNCHANGED <<slot, disk, group>>
      BY <1>7 DEF WatchRestart, At
    <2> HIDE DEF x
    <2> QED BY <1>0, <1>a, <1>d, <2>1, <2>2, UpdateRunner DEF ServeStep
  <1>8. CASE ChildStopped(r)
    <2>1. EndAttempt(r, runner[r].why) /\ runner[r].pc = "stopping" /\ Sweep(runner[r].child)
          /\ UNCHANGED <<slot, disk>>
      BY <1>8 DEF ChildStopped, At
    <2> QED BY <1>0, <1>a, <1>d, <2>1, AttemptFields DEF SweepStep, Sweep
  <1>9. CASE ClearMarker(r)
    <2>1. runner[r].pc = "clear" /\ Move(r, "saveEnd") /\ slot' = [slot EXCEPT ![s].marker = None]
          /\ UNCHANGED <<disk, group>>
      BY <1>9 DEF ClearMarker, At
    <2> QED BY <1>0, <1>a, <2>1, MoveFields, UpdateMarker DEF ClearStep
  <1>10. CASE SaveEnd(r)
    BY <1>0, <1>a, <1>d, <1>10, MoveFields DEF SaveEnd, SaveStep, At
  <1> QED BY <1>1, <1>2, <1>3, <1>4, <1>5, <1>6, <1>7, <1>8, <1>9, <1>10 DEF AttemptSteps

\* Every step of a runner is one of these.
LEMMA RunnerKinds ==
  ASSUME AccountedInv, ChildHeld, NEW r \in Runner, RunnerStep(r)
  PROVE  /\ OwnStep(r)
         /\ \/ LoopStep(r) \/ SpawnStep(r) \/ RecordStep(r) \/ SaveStep(r) \/ ServeStep(r)
            \/ SweepStep(r) \/ ClearStep(r)
  <1>1. UNCHANGED <<daemon, routed, loaded, proc, awaited, lost>>
    BY DEF RunnerStep
  <1>2. CASE WaitSteps(r) \/ SettleSteps(r) \/ LaunchFails(r)
    BY <1>1, <1>2, LoopKinds
  <1>3. CASE AttemptSteps(r) /\ ~LaunchFails(r)
    BY <1>1, <1>3, AttemptKinds
  <1> QED BY <1>2, <1>3 DEF RunnerStep

-----------------------------------------------------------------------------
(* What the other steps do, field by field.                                 *)

OnlyProc(c) == \A d \in Proc : d # c => proc'[d] = proc[d]
OnlySlot(s) == \A t \in Service : t # s => slot'[t] = slot[t]
SameRunners ==
  \A r \in Runner : /\ runner'[r].pc = runner[r].pc /\ runner'[r].svc = runner[r].svc
                    /\ runner'[r].child = runner[r].child
Saves == \A s \in Service : disk'[s].desired = slot[s].desired /\ disk'[s].marker = slot[s].marker

RequestKind(c) ==
  /\ UNCHANGED <<daemon, slot, routed, disk, loaded, group, runner, awaited, lost>>
  /\ daemon # "off" /\ proc[c].pc = "idle"
  /\ c \in Early \/ Restored
  /\ OnlyProc(c) /\ proc'[c].joining = proc[c].joining
  /\ proc'[c].pc = "up" \/ (c \in CanDown /\ proc'[c].pc = "down")
UpKind(c, s) ==
  /\ UNCHANGED <<daemon, routed, disk, loaded, group, awaited, lost>>
  /\ proc[c].pc = "up" /\ Target(c, s)
  /\ OnlyProc(c) /\ proc'[c].pc = "route" /\ proc'[c].todo = proc[c].todo /\ proc'[c].joining = proc[c].joining
  /\ OnlySlot(s) /\ slot'[s].desired /\ slot'[s].state = slot[s].state /\ slot'[s].marker = slot[s].marker
  /\ \/ ~RunnerNeeded(s) /\ runner' = runner /\ slot'[s].task = slot[s].task
     \/ /\ RunnerNeeded(s)
        /\ \E r \in Runner :
             /\ NewRunnerId(r, s) /\ slot'[s].task = r
             /\ runner'[r].pc = "subscribe" /\ runner'[r].svc = s /\ runner'[r].child = None
             /\ \A q \in Runner : q # r => runner'[q] = runner[q]
RouteKind(c, s) ==
  /\ UNCHANGED <<daemon, slot, disk, loaded, group, runner, awaited, lost>>
  /\ proc[c].pc = "route" /\ Target(c, s) /\ routed' = routed \cup {s}
  /\ OnlyProc(c) /\ proc'[c].pc \in {"up", "persist"} /\ proc'[c].joining = None
  /\ proc'[c].todo = proc[c].todo \ {s} /\ (proc'[c].pc = "persist" => proc'[c].todo = {})
PersistKind(c) ==
  /\ UNCHANGED <<daemon, slot, routed, loaded, group, runner, awaited, lost>>
  /\ proc[c].pc = "persist" /\ Saves
  /\ OnlyProc(c) /\ proc'[c].pc = "idle" /\ proc'[c].joining = proc[c].joining
StopKind(c, s) ==
  /\ UNCHANGED <<daemon, routed, disk, loaded, group, runner, awaited, lost>>
  /\ proc[c].pc = "down" /\ Target(c, s)
  /\ OnlySlot(s) /\ slot'[s].state = slot[s].state /\ slot'[s].marker = slot[s].marker
  /\ ~slot'[s].desired /\ slot'[s].task = None
  /\ OnlyProc(c) /\ proc'[c].todo = proc[c].todo /\ proc'[c].joining = slot[s].task
  /\ proc'[c].pc = IF slot[s].task = None THEN "mark" ELSE "join"
MarkKind(c, s) ==
  /\ UNCHANGED <<daemon, routed, disk, loaded, group, runner, awaited, lost>>
  /\ proc[c].pc = "mark" /\ Target(c, s)
  /\ SetState(s, "Stopped")
  /\ OnlyProc(c) /\ proc'[c].pc = "unroute" /\ proc'[c].todo = proc[c].todo /\ proc'[c].joining = proc[c].joining
JoinKind(c) ==
  /\ UNCHANGED <<daemon, slot, routed, disk, loaded, group, runner, awaited, lost>>
  /\ proc[c].pc = "join" /\ Finished(proc[c].joining)
  /\ OnlyProc(c) /\ proc'[c].pc = "unroute" /\ proc'[c].todo = proc[c].todo /\ proc'[c].joining = None
UnrouteKind(c, s) ==
  /\ UNCHANGED <<daemon, slot, disk, loaded, group, runner, awaited, lost>>
  /\ proc[c].pc = "unroute" /\ Target(c, s) /\ routed' = routed \ {s}
  /\ OnlyProc(c) /\ proc'[c].pc \in {"down", "persist"} /\ proc'[c].joining = None
ReconcileKind(s) ==
  /\ UNCHANGED <<daemon, slot, routed, disk, runner, proc, awaited>>
  /\ proc[Restorer].pc = "reconcile" /\ loaded[s] # None
  /\ loaded' = [loaded EXCEPT ![s] = None]
  /\ IF group[loaded[s]].life = "led"
       THEN group' = [group EXCEPT ![loaded[s]] = Gone] /\ lost' = lost \ {loaded[s]}
       ELSE UNCHANGED <<group, lost>>
ReconciledKind ==
  /\ UNCHANGED <<daemon, slot, routed, disk, loaded, group, runner, awaited, lost>>
  /\ proc[Restorer].pc = "reconcile" /\ \A s \in Service : loaded[s] = None
  /\ OnlyProc(Restorer) /\ proc'[Restorer].pc = "bootSave" /\ proc'[Restorer].joining = None
BootSaveKind ==
  /\ UNCHANGED <<daemon, slot, routed, loaded, group, runner, awaited, lost>>
  /\ proc[Restorer].pc = "bootSave" /\ Saves
  /\ OnlyProc(Restorer) /\ proc'[Restorer].pc = "bootUp" /\ proc'[Restorer].joining = None
BootUpKind ==
  /\ UNCHANGED <<daemon, slot, routed, disk, loaded, group, runner, awaited, lost>>
  /\ proc[Restorer].pc = "bootUp"
  /\ OnlyProc(Restorer) /\ proc'[Restorer].joining = None
  /\ \/ proc'[Restorer].pc = "idle" /\ \A s \in Service : ~slot[s].desired
     \/ proc'[Restorer].pc = "up" /\ \A s \in Service : slot[s].desired => s \in proc'[Restorer].todo
HitKind == UNCHANGED <<daemon, slot, routed, disk, loaded, group, proc, awaited, lost>> /\ SameRunners
LeaveKind(p) ==
  /\ UNCHANGED <<daemon, slot, routed, disk, loaded, runner, proc, awaited>>
  /\ group[p].life # "gone"
  /\ \A q \in Pid : q # p => group'[q] = group[q]
  /\ \/ group'[p].life = "headless" /\ group'[p].svc = group[p].svc /\ lost' = IF Held(p) THEN lost ELSE lost \cup {p}
     \/ group'[p] = Gone /\ lost' = lost \ {p}
BootKind ==
  /\ UNCHANGED <<routed, disk, group, runner, awaited, lost>>
  /\ daemon = "off" /\ daemon' = "up"
  /\ OnlyProc(Restorer) /\ proc'[Restorer].pc = "reconcile" /\ proc'[Restorer].joining = None
  /\ \A s \in Service : /\ loaded'[s] = disk[s].marker
                        /\ slot'[s].state = "Stopped" /\ slot'[s].task = None /\ slot'[s].marker = None
HaltKind ==
  /\ UNCHANGED group
  /\ daemon # "off" /\ daemon' = "off" /\ routed' = {} /\ awaited' = {}
  /\ \A s \in Service : /\ slot'[s].state = "Stopped" /\ slot'[s].task = None /\ slot'[s].marker = None
                        /\ ~slot'[s].desired /\ loaded'[s] = None
  /\ \A r \in Runner : runner'[r].pc = "done" /\ runner'[r].child = None
  /\ \A c \in Proc : proc'[c].pc = "idle" /\ proc'[c].joining = None
  /\ lost \subseteq lost'
  /\ \A p \in Pid : p \in lost' <=>
       \/ p \in lost
       \/ group[p].life = "headless"
       \/ /\ group[p].life = "led"
          /\ \E r \in Runner : /\ runner[r].child = p /\ runner[r].pc \in {"record", "save"}
                               /\ disk'[runner[r].svc].marker # p
  /\ \/ disk' = disk
     \/ daemon = "stopping" /\ Saves /\ \A r \in awaited : Finished(r)
ShutdownKind ==
  /\ UNCHANGED <<routed, disk, loaded, group, runner, proc, lost>>
  /\ daemon = "up" /\ daemon' = "stopping"
  /\ "sigterm" \in Early \/ Restored
  /\ \A s \in Service : /\ slot'[s].task = None /\ slot'[s].state = slot[s].state
                        /\ slot'[s].marker = slot[s].marker /\ slot'[s].desired = slot[s].desired
  /\ \A s \in Service : slot[s].task # None => slot[s].task \in awaited'

\* The steps of a procedure.
ProcKind(c) ==
  \/ PersistKind(c) \/ JoinKind(c)
  \/ \E s \in Service : UpKind(c, s) \/ RouteKind(c, s) \/ StopKind(c, s) \/ MarkKind(c, s) \/ UnrouteKind(c, s)
RunnerKind(r) ==
  /\ OwnStep(r)
  /\ LoopStep(r) \/ SpawnStep(r) \/ RecordStep(r) \/ SaveStep(r) \/ ServeStep(r) \/ SweepStep(r) \/ ClearStep(r)
RestoreKind == (\E s \in Service : ReconcileKind(s)) \/ ReconciledKind \/ BootSaveKind \/ BootUpKind
StepKind ==
  \/ \E c \in Client : RequestKind(c)
  \/ \E c \in Proc : ProcKind(c)
  \/ RestoreKind
  \/ \E r \in Runner : RunnerKind(r)
  \/ \E p \in Pid : LeaveKind(p)
  \/ HitKind \/ BootKind \/ HaltKind \/ ShutdownKind

\* A procedure's new record is what the action makes it.
LEMMA UpdateProc ==
  ASSUME TypeOK, NEW c \in Proc, NEW x, proc' = [proc EXCEPT ![c] = x]
  PROVE  proc'[c] = x /\ OnlyProc(c)
  BY DEF TypeOK, OnlyProc

\* Moving a procedure on changes its place and nothing else.
LEMMA GotoFields ==
  ASSUME TypeOK, NEW c \in Proc, NEW l, Goto(c, l)
  PROVE  /\ proc'[c].pc = l /\ proc'[c].todo = proc[c].todo /\ proc'[c].joining = proc[c].joining
         /\ OnlyProc(c)
  BY DEF TypeOK, ProcRec, Goto, OnlyProc

\* Going on with the next target drops the one that is done.
LEMMA NextTargetFields ==
  ASSUME TypeOK, NEW c \in Proc, NEW s, NEW first, NEW last, NextTarget(c, s, first, last)
  PROVE  /\ proc'[c].todo = proc[c].todo \ {s} /\ proc'[c].joining = None /\ OnlyProc(c)
         /\ proc'[c].pc = IF proc[c].todo \ {s} = {} THEN last ELSE first
  <1> DEFINE rest == proc[c].todo \ {s}
             x == [pc |-> IF rest = {} THEN last ELSE first, todo |-> rest, joining |-> None]
  <1>1. proc' = [proc EXCEPT ![c] = x]
    BY DEF NextTarget
  <1>2. x.pc = (IF rest = {} THEN last ELSE first) /\ x.todo = rest /\ x.joining = None
    OBVIOUS
  <1> HIDE DEF x
  <1> QED BY <1>1, <1>2, UpdateProc

\* persist writes what the slots hold.
LEMMA SnapshotSaves == disk' = Snapshot => Saves
  BY DEF Snapshot, Saves

\* The closure of a set of targets holds the set.
LEMMA ExpandHolds ==
  ASSUME NEW names \in SUBSET Service
  PROVE  names \subseteq Expand(names)
  BY DEF Expand

\* The steps of `up`, `down` and the end of restore.
LEMMA ProcKinds ==
  ASSUME TypeOK, NEW c \in Proc, ProcStep(c)
  PROVE  ProcKind(c)
  <1>1. CASE UpSpawn(c)
    <2>1. PICK s \in Service :
            /\ proc[c].pc = "up" /\ Target(c, s)
            /\ IF RunnerNeeded(s)
                 THEN \E r \in Runner :
                        /\ NewRunnerId(r, s)
                        /\ runner' = [runner EXCEPT ![r] = NewRunner(s)]
                        /\ slot' = [slot EXCEPT ![s] = [@ EXCEPT !.desired = TRUE, !.task = r,
                                                                   !.watching = s \in Watched]]
                 ELSE slot' = [slot EXCEPT ![s].desired = TRUE] /\ UNCHANGED runner
      BY <1>1 DEF UpSpawn
    <2>2. Goto(c, "route") /\ UNCHANGED <<daemon, routed, disk, loaded, group, awaited, lost>>
      BY <1>1 DEF UpSpawn
    <2>3. slot[s] \in Slot /\ slot \in [Service -> Slot] /\ runner \in [Runner -> RunnerRec]
      BY DEF TypeOK
    <2>4. CASE ~RunnerNeeded(s)
      <3>1. /\ slot'[s].desired /\ slot'[s].state = slot[s].state /\ slot'[s].marker = slot[s].marker
            /\ slot'[s].task = slot[s].task /\ OnlySlot(s)
        BY <2>1, <2>3, <2>4 DEF Slot, OnlySlot
      <3>2. UpKind(c, s)
        BY <2>1, <2>2, <2>4, <3>1, GotoFields DEF UpKind
      <3> QED BY <3>2 DEF ProcKind
    <2>5. CASE RunnerNeeded(s)
      <3>1. PICK r \in Runner :
              /\ NewRunnerId(r, s)
              /\ runner' = [runner EXCEPT ![r] = NewRunner(s)]
              /\ slot' = [slot EXCEPT ![s] = [@ EXCEPT !.desired = TRUE, !.task = r, !.watching = s \in Watched]]
        BY <2>1, <2>5
      <3>2. /\ runner'[r].pc = "subscribe" /\ runner'[r].svc = s /\ runner'[r].child = None
            /\ \A q \in Runner : q # r => runner'[q] = runner[q]
        BY <2>3, <3>1 DEF NewRunner, NoRunner
      <3>3. /\ slot'[s].desired /\ slot'[s].task = r /\ slot'[s].state = slot[s].state
            /\ slot'[s].marker = slot[s].marker /\ OnlySlot(s)
        <4> DEFINE x(w) == [slot[s] EXCEPT !.desired = TRUE, !.task = r, !.watching = w]
        <4>1. \A w : x(w).task = r /\ x(w).desired /\ x(w).state = slot[s].state /\ x(w).marker = slot[s].marker
          BY <2>3 DEF Slot
        <4>2. slot'[s] = x(s \in Watched)
          BY <2>3, <3>1, Zenon
        <4>3. OnlySlot(s)
          BY <2>3, <3>1, Zenon DEF OnlySlot
        <4> HIDE DEF x
        <4> QED BY <4>1, <4>2, <4>3, Zenon
      <3>4. UpKind(c, s)
        BY <2>1, <2>2, <2>5, <3>1, <3>2, <3>3, GotoFields DEF UpKind
      <3> QED BY <3>4 DEF ProcKind
    <2> QED BY <2>4, <2>5
  <1>2. CASE UpRoute(c)
    <2>1. PICK s \in Service : /\ proc[c].pc = "route" /\ Target(c, s) /\ routed' = routed \cup {s}
                               /\ NextTarget(c, s, "up", "persist")
      BY <1>2 DEF UpRoute
    <2>2. RouteKind(c, s)
      BY <1>2, <2>1, NextTargetFields DEF UpRoute, RouteKind
    <2> QED BY <2>2 DEF ProcKind
  <1>3. CASE Persist(c)
    BY <1>3, GotoFields, SnapshotSaves DEF Persist, PersistKind, ProcKind
  <1>4. CASE DownStop(c)
    <2>1. PICK s \in Service :
            /\ proc[c].pc = "down" /\ Target(c, s)
            /\ slot' = [slot EXCEPT ![s] = [@ EXCEPT !.desired = FALSE, !.watching = FALSE, !.task = None]]
            /\ proc' = [proc EXCEPT ![c] = [@ EXCEPT !.pc = IF slot[s].task = None THEN "mark" ELSE "join",
                                                      !.joining = slot[s].task]]
      BY <1>4 DEF DownStop
    <2> DEFINE l == IF slot[s].task = None THEN "mark" ELSE "join"
               x == [proc[c] EXCEPT !.pc = l, !.joining = slot[s].task]
    <2>2. x.pc = l /\ x.todo = proc[c].todo /\ x.joining = slot[s].task
      BY DEF TypeOK, ProcRec
    <2>3. proc' = [proc EXCEPT ![c] = x]
      BY <2>1
    <2> HIDE DEF x
    <2>4. /\ ~slot'[s].desired /\ slot'[s].task = None /\ slot'[s].state = slot[s].state
          /\ slot'[s].marker = slot[s].marker /\ OnlySlot(s)
      BY <2>1 DEF TypeOK, Slot, OnlySlot
    <2>5. UNCHANGED <<daemon, routed, disk, loaded, group, runner, awaited, lost>>
      BY <1>4 DEF DownStop
    <2>6. StopKind(c, s)
      BY <2>1, <2>2, <2>3, <2>4, <2>5, UpdateProc DEF StopKind
    <2> QED BY <2>6 DEF ProcKind
  <1>5. CASE DownMark(c)
    <2>1. PICK s \in Service : /\ proc[c].pc = "mark" /\ Target(c, s)
                               /\ slot' = [slot EXCEPT ![s].state = "Stopped"]
      BY <1>5 DEF DownMark
    <2>2. MarkKind(c, s)
      BY <1>5, <2>1, GotoFields DEF DownMark, MarkKind, SetState
    <2> QED BY <2>2 DEF ProcKind
  <1>6. CASE DownJoined(c)
    <2> DEFINE x == [proc[c] EXCEPT !.pc = "unroute", !.joining = None]
    <2>1. x.pc = "unroute" /\ x.todo = proc[c].todo /\ x.joining = None
      BY DEF TypeOK, ProcRec
    <2>2. proc' = [proc EXCEPT ![c] = x]
      BY <1>6 DEF DownJoined
    <2> HIDE DEF x
    <2> QED BY <1>6, <2>1, <2>2, UpdateProc DEF DownJoined, JoinKind, ProcKind
  <1>7. CASE DownUnroute(c)
    <2>1. PICK s \in Service : /\ proc[c].pc = "unroute" /\ Target(c, s) /\ routed' = routed \ {s}
                               /\ NextTarget(c, s, "down", "persist")
      BY <1>7 DEF DownUnroute
    <2>2. UnrouteKind(c, s)
      BY <1>7, <2>1, NextTargetFields DEF DownUnroute, UnrouteKind
    <2> QED BY <2>2 DEF ProcKind
  <1> QED BY <1>1, <1>2, <1>3, <1>4, <1>5, <1>6, <1>7 DEF ProcStep

\* The steps of restore before it brings anything up.
LEMMA RestoreKinds ==
  ASSUME TypeOK, JoinHolds, RestoreStep
  PROVE  RestoreKind
  <1>0. Restorer \in Proc
    BY DEF Proc
  <1>1. CASE Reconcile
    <2>1. PICK s \in Service :
            /\ Least(s, {t \in Service : loaded[t] # None})
            /\ loaded' = [loaded EXCEPT ![s] = None]
            /\ IF group[loaded[s]].life = "led"
                 THEN group' = [group EXCEPT ![loaded[s]] = Gone] /\ lost' = lost \ {loaded[s]}
                 ELSE UNCHANGED <<group, lost>>
      BY <1>1 DEF Reconcile
    <2>2. ReconcileKind(s)
      BY <1>1, <2>1 DEF Reconcile, ReconcileKind, Least
    <2> QED BY <2>2 DEF RestoreKind
  <1>2. CASE Reconciled
    BY <1>0, <1>2, GotoFields DEF Reconciled, ReconciledKind, RestoreKind, JoinHolds
  <1>3. CASE BootSave
    BY <1>0, <1>3, GotoFields, SnapshotSaves DEF BootSave, BootSaveKind, RestoreKind, JoinHolds
  <1>4. CASE BootUp
    <2> DEFINE names == {s \in Service : slot[s].desired}
               x == [proc[Restorer] EXCEPT !.pc = "up", !.todo = Expand(names)]
    <2>1. proc[Restorer].pc = "bootUp" /\ proc[Restorer].joining = None
      BY <1>0, <1>4 DEF BootUp, JoinHolds
    <2>2. x.pc = "up" /\ x.todo = Expand(names) /\ x.joining = None
      BY <1>0, <2>1 DEF TypeOK, ProcRec
    <2>3. \/ names = {} /\ Goto(Restorer, "idle")
          \/ proc' = [proc EXCEPT ![Restorer] = x]
      BY <1>4 DEF BootUp
    <2>4. names \subseteq Expand(names)
      BY ExpandHolds
    <2> HIDE DEF x
    <2>5. BootUpKind
      BY <1>0, <1>4, <2>1, <2>2, <2>3, <2>4, GotoFields, UpdateProc DEF BootUp, BootUpKind
    <2> QED BY <2>5 DEF RestoreKind
  <1> QED BY <1>1, <1>2, <1>3, <1>4 DEF RestoreStep

\* The end of the daemon.
LEMMA HaltKinds ==
  ASSUME TypeOK, daemon # "off", Halt, disk' = disk \/ (daemon = "stopping" /\ disk' = Snapshot /\ \A r \in awaited : Finished(r))
  PROVE  HaltKind
  <1>1. \A r \in Runner : runner'[r].pc = "done" /\ runner'[r].child = None
    BY DEF Halt, NoRunner
  <1>2. \A c \in Proc : proc'[c].pc = "idle" /\ proc'[c].joining = None
    BY DEF Halt, IdleProc
  <1>3. \A s \in Service : /\ slot'[s].state = "Stopped" /\ slot'[s].task = None /\ slot'[s].marker = None
                           /\ ~slot'[s].desired /\ loaded'[s] = None
    BY DEF Halt, FreshSlot
  <1>4. /\ lost \subseteq lost'
        /\ \A p \in Pid : p \in lost' <=>
             \/ p \in lost
             \/ group[p].life = "headless"
             \/ /\ group[p].life = "led"
                /\ \E r \in Runner : /\ runner[r].child = p /\ runner[r].pc \in {"record", "save"}
                                     /\ disk'[runner[r].svc].marker # p
    BY DEF Halt
  <1>5. UNCHANGED group /\ daemon' = "off" /\ routed' = {} /\ awaited' = {}
    BY DEF Halt
  <1> QED BY <1>1, <1>2, <1>3, <1>4, <1>5, SnapshotSaves DEF HaltKind

\* Every step is one of these.
LEMMA NextKinds ==
  ASSUME AccountedInv, ChildHeld, [Next]_vars
  PROVE  StepKind
  <1>0. TypeOK /\ JoinHolds /\ Restorer \in Proc
    BY DEF AccountedInv, Proc
  <1>1. CASE \E c \in Client : Request(c)
    <2>1. PICK c \in Client : Request(c)
      BY <1>1
    <2>2. PICK names \in SUBSET Service :
            \/ proc' = [proc EXCEPT ![c] = [@ EXCEPT !.pc = "up", !.todo = Expand(names)]]
            \/ c \in CanDown /\ proc' = [proc EXCEPT ![c] = [@ EXCEPT !.pc = "down", !.todo = names]]
      BY <2>1 DEF Request
    <2> DEFINE u == [proc[c] EXCEPT !.pc = "up", !.todo = Expand(names)]
               v == [proc[c] EXCEPT !.pc = "down", !.todo = names]
    <2>3. proc[c] \in ProcRec /\ c \in Proc
      BY <1>0 DEF TypeOK, Proc
    <2>4. u.pc = "up" /\ u.joining = proc[c].joining /\ v.pc = "down" /\ v.joining = proc[c].joining
      BY <2>3 DEF ProcRec
    <2> HIDE DEF u, v
    <2>5. proc' = [proc EXCEPT ![c] = u] \/ (c \in CanDown /\ proc' = [proc EXCEPT ![c] = v])
      BY <2>2 DEF u, v
    <2>6. RequestKind(c)
      BY <1>0, <2>1, <2>3, <2>4, <2>5, UpdateProc DEF Request, RequestKind
    <2> QED BY <2>6 DEF StepKind
  <1>2. CASE \E c \in Proc : ProcStep(c)
    BY <1>0, <1>2, ProcKinds DEF StepKind
  <1>3. CASE RestoreStep
    BY <1>0, <1>3, RestoreKinds DEF StepKind
  <1>4. CASE \E r \in Runner : RunnerStep(r)
    BY <1>4, RunnerKinds DEF StepKind, RunnerKind
  <1>5. CASE \E s \in Service : WatchHit(s)
    <2>1. SameRunners
      BY <1>0, <1>5 DEF WatchHit, TypeOK, RunnerRec, SameRunners
    <2> QED BY <1>5, <2>1 DEF WatchHit, HitKind, StepKind
  <1>6. CASE \E p \in Pid : LeaderExits(p)
    <2>1. PICK p \in Pid : LeaderExits(p)
      BY <1>6
    <2>2. LeaveKind(p)
      BY <1>0, <2>1 DEF LeaderExits, LeaveKind, TypeOK, Group, Gone
    <2> QED BY <2>2 DEF StepKind
  <1>7. CASE Boot
    <2>1. \A s \in Service : /\ loaded'[s] = disk[s].marker
                             /\ slot'[s].state = "Stopped" /\ slot'[s].task = None /\ slot'[s].marker = None
      BY <1>7 DEF Boot, FreshSlot
    <2>2. proc'[Restorer].joining = None
      BY <1>0, <1>7, GotoFields DEF Boot, JoinHolds, AccountedInv, OffIsEmpty
    <2> QED BY <1>0, <1>7, <2>1, <2>2, GotoFields DEF Boot, BootKind, StepKind
  <1>8. CASE Crash
    BY <1>0, <1>8, HaltKinds DEF Crash, StepKind
  <1>9. CASE Shutdown
    <2>1. \A s \in Service : /\ slot'[s].task = None /\ slot'[s].state = slot[s].state
                             /\ slot'[s].marker = slot[s].marker /\ slot'[s].desired = slot[s].desired
      BY <1>0, <1>9 DEF Shutdown, TypeOK, Slot
    <2>2. \A s \in Service : slot[s].task # None => slot[s].task \in awaited'
      BY <1>9 DEF Shutdown
    <2> QED BY <1>9, <2>1, <2>2 DEF Shutdown, ShutdownKind, StepKind
  <1>10. CASE Exit
    BY <1>0, <1>10, HaltKinds DEF Exit, StepKind
  <1>11. CASE UNCHANGED vars
    BY <1>11 DEF vars, HitKind, SameRunners, StepKind
  <1> QED BY <1>1, <1>2, <1>3, <1>4, <1>5, <1>6, <1>7, <1>8, <1>9, <1>10, <1>11 DEF Next, Over

-----------------------------------------------------------------------------
(* Layer by layer: each part of the invariant is kept by every step, given  *)
(* the parts before it.                                                     *)

\* Who does what, when nothing comes while restore is running.
LEMMA RolesKept ==
  ASSUME Early = {}, AccountedInv, Roles, StepKind
  PROVE  Roles'
  <1>0. TypeOK /\ Restorer \in Proc /\ Restorer \notin Client /\ \A c \in Client : c \in Proc
    BY ActorAssumption DEF AccountedInv, Proc
  <1> USE DEF Roles, Restored, Booting, Downing
  <1>1. CASE \E c \in Client : RequestKind(c)
    BY <1>0, <1>1 DEF RequestKind, OnlyProc, Finished
  <1>2. ASSUME NEW c \in Proc, ProcKind(c) PROVE Roles'
    <2>a. c # Restorer => c \in Client
      BY DEF Proc
    <2>1. CASE PersistKind(c)
      BY <1>0, <2>1, <2>a DEF PersistKind, OnlyProc, Finished
    <2>2. CASE JoinKind(c)
      BY <1>0, <2>2, <2>a DEF JoinKind, OnlyProc, Finished
    <2>3. ASSUME NEW s \in Service, UpKind(c, s) PROVE Roles'
      BY <1>0, <2>3, <2>a DEF UpKind, OnlyProc, Finished
    <2>4. ASSUME NEW s \in Service, RouteKind(c, s) PROVE Roles'
      BY <1>0, <2>4, <2>a DEF RouteKind, OnlyProc, Finished
    <2>5. ASSUME NEW s \in Service, StopKind(c, s) PROVE Roles'
      BY <1>0, <2>5, <2>a DEF StopKind, OnlyProc, Finished
    <2>6. ASSUME NEW s \in Service, MarkKind(c, s) PROVE Roles'
      BY <1>0, <2>6, <2>a DEF MarkKind, OnlyProc, Finished
    <2>7. ASSUME NEW s \in Service, UnrouteKind(c, s) PROVE Roles'
      BY <1>0, <2>7, <2>a DEF UnrouteKind, OnlyProc, Finished
    <2> QED BY <1>2, <2>1, <2>2, <2>3, <2>4, <2>5, <2>6, <2>7 DEF ProcKind
  <1>3. CASE RestoreKind
    <2>1. ASSUME NEW s \in Service, ReconcileKind(s) PROVE Roles'
      BY <1>0, <2>1 DEF ReconcileKind, Finished, TypeOK
    <2>2. CASE ReconciledKind
      BY <1>0, <2>2 DEF ReconciledKind, OnlyProc, Finished
    <2>3. CASE BootSaveKind
      BY <1>0, <2>3 DEF BootSaveKind, OnlyProc, Finished
    <2>4. CASE BootUpKind
      BY <1>0, <2>4 DEF BootUpKind, OnlyProc, Finished
    <2> QED BY <1>3, <2>1, <2>2, <2>3, <2>4 DEF RestoreKind
  <1>4. ASSUME NEW r \in Runner, RunnerKind(r) PROVE Roles'
    <2>1. UNCHANGED <<daemon, loaded, proc>> /\ ~Finished(r)
      BY <1>4 DEF RunnerKind, OwnStep, Finished
    <2> QED BY <1>0, <2>1
  <1>5. ASSUME NEW p \in Pid, LeaveKind(p) PROVE Roles'
    BY <1>5 DEF LeaveKind, Finished
  <1>6. CASE HitKind
    BY <1>6 DEF HitKind, SameRunners, Finished
  <1>7. CASE BootKind
    BY <1>0, <1>7 DEF BootKind, OnlyProc, AccountedInv, OffIsEmpty, Finished
  <1>8. CASE HaltKind
    BY <1>0, <1>8 DEF HaltKind, Finished
  <1>9. CASE ShutdownKind
    BY <1>0, <1>9 DEF ShutdownKind, Finished
  <1> QED BY <1>1, <1>2, <1>3, <1>4, <1>5, <1>6, <1>7, <1>8, <1>9 DEF StepKind

\* Every group that is not lost is in the hands of at most one runner.
LEMMA ChildHeldKept ==
  ASSUME AccountedInv, AccountedInv', ChildHeld, StepKind
  PROVE  ChildHeld'
  <1>0. TypeOK /\ TypeOK' /\ None \notin Pid
    BY NoneAssumption, ServiceAssumption DEF AccountedInv
  <1>a. ASSUME SameRunners, UNCHANGED <<group, lost>> PROVE ChildHeld'
    BY <1>a DEF ChildHeld, SameRunners, Held
  <1>b. runner' = runner => SameRunners
    BY DEF SameRunners
  <1>1. CASE \E c \in Client : RequestKind(c)
    BY <1>a, <1>b, <1>1 DEF RequestKind
  <1>2. ASSUME NEW c \in Proc, ProcKind(c) PROVE ChildHeld'
    <2>1. ASSUME NEW s \in Service, UpKind(c, s) PROVE ChildHeld'
      <3>1. CASE runner' = runner
        BY <1>a, <1>b, <2>1, <3>1 DEF UpKind
      <3>2. CASE \E r \in Runner :
                   /\ NewRunnerId(r, s) 
                   /\ runner'[r].pc = "subscribe" /\ runner'[r].svc = s /\ runner'[r].child = None
                   /\ \A q \in Runner : q # r => runner'[q] = runner[q]
        <4>1. PICK r \in Runner :
                   /\ Finished(r)
                   /\ runner'[r].pc = "subscribe" /\ runner'[r].svc = s /\ runner'[r].child = None
                   /\ \A q \in Runner : q # r => runner'[q] = runner[q]
          BY <3>2 DEF NewRunnerId, Least
        <4>2. runner[r].child = None
          BY <4>1 DEF ChildHeld, Holding, Finished
        <4>3. UNCHANGED <<group, lost>>
          BY <2>1 DEF UpKind
        <4>4. \A q \in Runner : runner'[q].child = runner[q].child
          BY <4>1, <4>2
        <4> QED BY <4>1, <4>2, <4>3, <4>4 DEF ChildHeld, Held, Holding, Finished
      <3> QED BY <2>1, <3>1, <3>2 DEF UpKind
    <2>2. ASSUME NEW s \in Service, RouteKind(c, s) \/ StopKind(c, s) \/ MarkKind(c, s) \/ UnrouteKind(c, s) PROVE ChildHeld'
      BY <1>a, <1>b, <2>2 DEF RouteKind, StopKind, MarkKind, UnrouteKind
    <2>3. CASE PersistKind(c) \/ JoinKind(c)
      BY <1>a, <1>b, <2>3 DEF PersistKind, JoinKind
    <2> QED BY <1>2, <2>1, <2>2, <2>3 DEF ProcKind
  <1>3. CASE RestoreKind
    <2>1. ASSUME NEW s \in Service, ReconcileKind(s) PROVE ChildHeld'
      <3>1. loaded[s] \in Pid /\ runner' = runner
        BY <1>0, <2>1 DEF ReconcileKind, TypeOK
      <3>2. CASE group' = [group EXCEPT ![loaded[s]] = Gone] /\ lost' = lost \ {loaded[s]}
        <4>1. group'[loaded[s]] = Gone /\ \A p \in Pid : p # loaded[s] => group'[p] = group[p]
          BY <1>0, <3>1, <3>2 DEF TypeOK
        <4> QED BY <1>0, <3>1, <3>2, <4>1 DEF ChildHeld, Held, Gone, TypeOK, RunnerRec
      <3>3. CASE UNCHANGED <<group, lost>>
        BY <1>a, <1>b, <3>1, <3>3
      <3> QED BY <2>1, <3>2, <3>3 DEF ReconcileKind
    <2>2. CASE ReconciledKind \/ BootSaveKind \/ BootUpKind
      BY <1>a, <1>b, <2>2 DEF ReconciledKind, BootSaveKind, BootUpKind
    <2> QED BY <1>3, <2>1, <2>2 DEF RestoreKind
  <1>4. ASSUME NEW r \in Runner, RunnerKind(r) PROVE ChildHeld'
    <2>1. /\ \A q \in Runner : q # r => runner'[q] = runner[q]
          /\ runner'[r].pc # "done" => runner'[r].svc = runner[r].svc
          /\ lost' = lost
      BY <1>4 DEF RunnerKind, OwnStep
    <2>2. CASE LoopStep(r)
      <3>1. runner[r].child = None /\ runner'[r].child = None /\ runner'[r].pc \notin Holding /\ group' = group
        BY <2>2 DEF LoopStep, ChildHeld, From
      <3>2. \A q \in Runner : runner'[q].child = runner[q].child
        BY <2>1, <3>1
      <3> QED BY <2>1, <3>1, <3>2 DEF ChildHeld, Held
    <2>3. CASE RecordStep(r) \/ SaveStep(r) \/ ServeStep(r) \/ ClearStep(r)
      <3>1. /\ runner'[r].child = runner[r].child /\ group' = group
            /\ runner'[r].pc \in Holding <=> runner[r].pc \in Holding
        BY <2>3 DEF RecordStep, SaveStep, ServeStep, ClearStep, SameChild, From, Holding
      <3>2. \A q \in Runner : runner'[q].child = runner[q].child
        BY <2>1, <3>1
      <3>3. runner'[r].child # None => runner'[r].svc = runner[r].svc
        BY <2>1, <3>1 DEF ChildHeld, Holding
      <3> QED BY <2>1, <3>1, <3>2, <3>3 DEF ChildHeld, Held
    <2>4. CASE SpawnStep(r)
      <3>1. PICK p \in Pid : /\ FreshPid(p) /\ runner'[r].child = p
                             /\ group' = [group EXCEPT ![p] = [life |-> "led", svc |-> runner[r].svc]]
        BY <2>4 DEF SpawnStep
      <3>2. group[p].life = "gone" /\ \A q \in Runner : runner[q].child # p
        BY <3>1 DEF FreshPid, Least
      <3>3. /\ group'[p].life = "led" /\ group'[p].svc = runner[r].svc
            /\ \A q \in Pid : q # p => group'[q] = group[q]
        BY <1>0, <3>1 DEF TypeOK
      <3>4. runner[r].pc = "launch" /\ runner'[r].pc = "record" /\ runner[r].child = None
        BY <2>4 DEF SpawnStep, From, ChildHeld, Holding
      <3>5. p \notin lost
        BY <3>2 DEF ChildHeld
      <3>6. \A q \in Pid : q # p => Held(q)' = Held(q)
        BY <1>0, <2>1, <3>1, <3>4 DEF Held
      <3>7. \A q, t \in Runner : runner'[q].child # None /\ runner'[q].child = runner'[t].child => q = t
        BY <2>1, <3>1, <3>2 DEF ChildHeld
      <3>8. \A q \in Runner : runner'[q].child # None <=> runner'[q].pc \in Holding
        BY <1>0, <2>1, <3>1, <3>4 DEF ChildHeld, Holding
      <3>9. \A q \in Runner : runner'[q].child # None =>
              group'[runner'[q].child] = Gone \/ group'[runner'[q].child].svc = runner'[q].svc
        BY <1>0, <2>1, <3>1, <3>2, <3>3, <3>4 DEF ChildHeld, TypeOK, RunnerRec
      <3>10. \A q \in Pid : group'[q].life = "gone" => group'[q] = Gone
        BY <3>3 DEF ChildHeld
      <3>11. \A q \in lost' : group'[q].life # "gone" /\ ~Held(q)'
        BY <1>0, <2>1, <3>3, <3>5, <3>6 DEF ChildHeld, TypeOK
      <3>12. \A q \in Pid : group'[q].life = "headless" /\ ~Held(q)' => q \in lost'
        BY <2>1, <3>3, <3>6 DEF ChildHeld
      <3> QED BY <3>7, <3>8, <3>9, <3>10, <3>11, <3>12 DEF ChildHeld
    <2>5. CASE SweepStep(r)
      <3> DEFINE p == runner[r].child
      <3>1. runner[r].pc \in Holding /\ runner'[r].pc = "clear" /\ runner'[r].child = None
            /\ group' = [group EXCEPT ![p] = Gone]
        BY <2>5 DEF SweepStep, From, Holding
      <3>2. p \in Pid
        BY <1>0, <3>1 DEF ChildHeld, TypeOK, RunnerRec
      <3>3. group'[p] = Gone /\ \A q \in Pid : q # p => group'[q] = group[q]
        BY <1>0, <3>1, <3>2 DEF TypeOK
      <3>4. p \notin lost /\ \A q \in Runner : q # r => runner[q].child # p
        BY <1>0, <3>2 DEF ChildHeld, Held
      <3> HIDE DEF p
      <3>5. Gone.life = "gone" /\ p # None
        BY <1>0, <3>2 DEF Gone
      <3>6. \A q \in Pid : q # p => Held(q)' = Held(q)
        BY <1>0, <2>1, <3>1 DEF Held, p
      <3>7. \A q, t \in Runner : runner'[q].child # None /\ runner'[q].child = runner'[t].child => q = t
        BY <2>1, <3>1 DEF ChildHeld
      <3>8. \A q \in Runner : runner'[q].child # None <=> runner'[q].pc \in Holding
        BY <2>1, <3>1 DEF ChildHeld, Holding
      <3>9. \A q \in Runner : runner'[q].child # None =>
              group'[runner'[q].child] = Gone \/ group'[runner'[q].child].svc = runner'[q].svc
        BY <1>0, <2>1, <3>1, <3>3, <3>4 DEF ChildHeld, TypeOK, RunnerRec
      <3>10. \A q \in Pid : group'[q].life = "gone" => group'[q] = Gone
        BY <3>3 DEF ChildHeld
      <3>11. \A q \in lost' : group'[q].life # "gone" /\ ~Held(q)'
        BY <1>0, <2>1, <3>3, <3>4, <3>6 DEF ChildHeld, TypeOK
      <3>12. \A q \in Pid : group'[q].life = "headless" /\ ~Held(q)' => q \in lost'
        BY <2>1, <3>3, <3>5, <3>6 DEF ChildHeld
      <3> QED BY <3>7, <3>8, <3>9, <3>10, <3>11, <3>12 DEF ChildHeld
    <2> QED BY <1>4, <2>2, <2>3, <2>4, <2>5 DEF RunnerKind
  <1>5. ASSUME NEW p \in Pid, LeaveKind(p) PROVE ChildHeld'
    <2>1. runner' = runner /\ \A q \in Pid : q # p => group'[q] = group[q]
      BY <1>5 DEF LeaveKind
    <2>2. CASE group'[p].life = "headless" /\ group'[p].svc = group[p].svc /\ lost' = IF Held(p) THEN lost ELSE lost \cup {p}
      <3>1. \A q \in Pid : Held(q)' = Held(q)
        BY <2>1 DEF Held
      <3>2. lost' \subseteq Pid /\ group[p].life # "gone"
        BY <1>0, <1>5 DEF LeaveKind, TypeOK
      <3>3. \A q \in lost' : group'[q].life # "gone" /\ ~Held(q)'
        BY <1>0, <2>1, <2>2, <3>1, <3>2 DEF ChildHeld
      <3>4. \A q \in Pid : group'[q].life = "headless" /\ ~Held(q)' => q \in lost'
        BY <2>1, <2>2, <3>1 DEF ChildHeld
      <3>5. \A q \in Pid : group'[q].life = "gone" => group'[q] = Gone
        BY <2>1, <2>2 DEF ChildHeld
      <3>6. \A r \in Runner : runner'[r].child # None =>
              group'[runner'[r].child] = Gone \/ group'[runner'[r].child].svc = runner'[r].svc
        BY <1>0, <2>1, <2>2, <3>2 DEF ChildHeld, Gone, TypeOK, RunnerRec
      <3> QED BY <2>1, <3>3, <3>4, <3>5, <3>6 DEF ChildHeld
    <2>3. CASE group'[p] = Gone /\ lost' = lost \ {p}
      BY <1>0, <1>5, <2>1, <2>3 DEF ChildHeld, Held, LeaveKind, Gone, TypeOK, RunnerRec
    <2> QED BY <1>5, <2>2, <2>3 DEF LeaveKind
  <1>6. CASE HitKind
    BY <1>a, <1>6 DEF HitKind
  <1>7. CASE BootKind
    BY <1>a, <1>b, <1>7 DEF BootKind
  <1>8. CASE HaltKind
    <2>1. \A r \in Runner : runner'[r].pc = "done" /\ runner'[r].child = None
      BY <1>8 DEF HaltKind
    <2>2. \A p \in Pid : ~Held(p)'
      BY <1>0, <2>1 DEF Held
    <2>3. \A p \in lost' : group[p].life # "gone"
      BY <1>0, <1>8 DEF HaltKind, ChildHeld, TypeOK
    <2>4. \A p \in Pid : group[p].life = "headless" => p \in lost'
      BY <1>8 DEF HaltKind
    <2>5. group' = group /\ lost' \subseteq Pid
      BY <1>0, <1>8 DEF HaltKind, TypeOK
    <2> QED BY <1>0, <2>1, <2>2, <2>3, <2>4, <2>5 DEF ChildHeld, Holding
  <1>9. CASE ShutdownKind
    BY <1>a, <1>b, <1>9 DEF ShutdownKind
  <1> QED BY <1>1, <1>2, <1>3, <1>4, <1>5, <1>6, <1>7, <1>8, <1>9 DEF StepKind

\* A service has one runner at a time; once the shutdown has begun a second one
\* may exist, and one of the two begins no attempt any more.
LEMMA AloneKept ==
  ASSUME CommandsApart, AccountedInv, Roles, Alone, StepKind
  PROVE  Alone'
  <1>0. TypeOK /\ \A r \in Runner : r # None
    BY NoneAssumption, ServiceAssumption DEF AccountedInv
  <1>a. ASSUME SameRunners, UNCHANGED daemon PROVE Alone'
    BY <1>a DEF Alone, SameRunners, Finished
  <1>b. runner' = runner => SameRunners
    BY DEF SameRunners
  <1>1. CASE \E c \in Client : RequestKind(c)
    BY <1>a, <1>b, <1>1 DEF RequestKind
  <1>2. ASSUME NEW c \in Proc, ProcKind(c) PROVE Alone'
    <2>1. ASSUME NEW s \in Service, UpKind(c, s) PROVE Alone'
      <3>1. CASE runner' = runner
        BY <1>a, <1>b, <2>1, <3>1 DEF UpKind
      <3>2. CASE RunnerNeeded(s) /\ \E r \in Runner :
                   /\ runner'[r].pc = "subscribe" /\ runner'[r].svc = s
                   /\ \A q \in Runner : q # r => runner'[q] = runner[q]
        <4>1. PICK r \in Runner :
                   /\ runner'[r].pc = "subscribe" /\ runner'[r].svc = s
                   /\ \A q \in Runner : q # r => runner'[q] = runner[q]
          BY <3>2
        <4>2. \A q \in Runner : runner[q].pc # "done" /\ runner[q].svc = s => slot[s].task # q
          BY <1>0, <3>2 DEF RunnerNeeded, Finished
        <4>3. \A d \in Proc, q \in Runner : proc[d].joining # q
          <5> SUFFICES ASSUME NEW d \in Proc, NEW q \in Runner, proc[d].joining = q PROVE FALSE
            OBVIOUS
          <5>1. proc[d].pc = "join"
            BY <1>0 DEF AccountedInv, JoinHolds
          <5>2. d \in Client /\ d \in CanDown /\ proc[Restorer].pc = "idle"
            BY <5>1 DEF Roles, Downing, Restored, Proc
          <5>3. proc[c].pc = "up"
            BY <2>1 DEF UpKind
          <5> QED BY <5>1, <5>2, <5>3 DEF CommandsApart, Proc
        <4>4. \A q \in Runner : runner[q].pc # "done" /\ runner[q].svc = s => daemon = "stopping"
          BY <4>2, <4>3 DEF AccountedInv, Accounted, AwaitsNothing, Finished
        <4>5. daemon' = daemon
          BY <2>1 DEF UpKind
        <4> QED BY <4>1, <4>4, <4>5 DEF Alone, Finished, Waking
      <3> QED BY <2>1, <3>1, <3>2 DEF UpKind
    <2>2. ASSUME NEW s \in Service, RouteKind(c, s) \/ StopKind(c, s) \/ MarkKind(c, s) \/ UnrouteKind(c, s) PROVE Alone'
      BY <1>a, <1>b, <2>2 DEF RouteKind, StopKind, MarkKind, UnrouteKind
    <2>3. CASE PersistKind(c) \/ JoinKind(c)
      BY <1>a, <1>b, <2>3 DEF PersistKind, JoinKind
    <2> QED BY <1>2, <2>1, <2>2, <2>3 DEF ProcKind
  <1>3. CASE RestoreKind
    BY <1>a, <1>b, <1>3 DEF RestoreKind, ReconcileKind, ReconciledKind, BootSaveKind, BootUpKind
  <1>4. ASSUME NEW r \in Runner, RunnerKind(r) PROVE Alone'
    <2>1. /\ \A q \in Runner : q # r => runner'[q] = runner[q]
          /\ runner'[r].pc # "done" => runner'[r].svc = runner[r].svc
          /\ runner[r].pc # "done" /\ daemon' = daemon
      BY <1>4 DEF RunnerKind, OwnStep
    <2>2. daemon = "stopping" /\ runner'[r].pc \notin Waking => runner[r].pc \notin Waking
      BY <1>4 DEF RunnerKind, LoopStep, SpawnStep, RecordStep, SaveStep, ServeStep, SweepStep, ClearStep,
                  From, Waking, StopRequested
    <2> QED BY <2>1, <2>2 DEF Alone, Finished
  <1>5. ASSUME NEW p \in Pid, LeaveKind(p) PROVE Alone'
    BY <1>a, <1>b, <1>5 DEF LeaveKind
  <1>6. CASE HitKind
    BY <1>a, <1>6 DEF HitKind
  <1>7. CASE BootKind
    BY <1>7 DEF BootKind, AccountedInv, OffIsEmpty, Finished, Alone
  <1>8. CASE HaltKind
    BY <1>8 DEF HaltKind, Finished, Alone
  <1>9. CASE ShutdownKind
    BY <1>9 DEF ShutdownKind, Finished, Alone
  <1> QED BY <1>1, <1>2, <1>3, <1>4, <1>5, <1>6, <1>7, <1>8, <1>9 DEF StepKind

\* The marker of a service is its runner's child, in memory from `record` on
\* and in services.json from the save that follows.
LEMMA MarkedKept ==
  ASSUME AccountedInv, Alone, Marked, StepKind
  PROVE  Marked'
  <1>0. /\ TypeOK
        /\ \A r \in Runner : runner[r].pc # "done" => runner[r].svc \in Service
    BY DEF AccountedInv, Named, Finished
  <1>a. ASSUME SameRunners, \A s \in Service : slot'[s].marker = slot[s].marker, UNCHANGED disk \/ Saves
        PROVE  Marked'
    BY <1>0, <1>a DEF Marked, SameRunners, Saves
  <1>b. /\ runner' = runner => SameRunners
        /\ slot' = slot => \A s \in Service : slot'[s].marker = slot[s].marker
    BY DEF SameRunners
  <1>1. CASE \E c \in Client : RequestKind(c)
    BY <1>a, <1>b, <1>1 DEF RequestKind
  <1>2. ASSUME NEW c \in Proc, ProcKind(c) PROVE Marked'
    <2>1. ASSUME NEW s \in Service, UpKind(c, s) PROVE Marked'
      <3>1. (\A t \in Service : slot'[t].marker = slot[t].marker) /\ disk' = disk
        BY <2>1 DEF UpKind, OnlySlot
      <3>2. \A q \in Runner : runner'[q] = runner[q] \/ runner'[q].pc = "subscribe"
        BY <2>1 DEF UpKind
      <3> QED BY <1>0, <3>1, <3>2 DEF Marked
    <2>2. ASSUME NEW s \in Service, RouteKind(c, s) \/ UnrouteKind(c, s) PROVE Marked'
      BY <1>a, <1>b, <2>2 DEF RouteKind, UnrouteKind
    <2>3. ASSUME NEW s \in Service, StopKind(c, s) PROVE Marked'
      BY <1>a, <1>b, <2>3 DEF StopKind, OnlySlot
    <2>4. ASSUME NEW s \in Service, MarkKind(c, s) PROVE Marked'
      <3>1. \A t \in Service : slot'[t].marker = slot[t].marker
        BY <1>0, <2>4, UpdateState DEF MarkKind
      <3> QED BY <1>a, <1>b, <2>4, <3>1 DEF MarkKind
    <2>5. CASE PersistKind(c) \/ JoinKind(c)
      BY <1>a, <1>b, <2>5 DEF PersistKind, JoinKind
    <2> QED BY <1>2, <2>1, <2>2, <2>3, <2>4, <2>5 DEF ProcKind
  <1>3. CASE RestoreKind
    BY <1>a, <1>b, <1>3 DEF RestoreKind, ReconcileKind, ReconciledKind, BootSaveKind, BootUpKind
  <1>4. ASSUME NEW r \in Runner, RunnerKind(r) PROVE Marked'
    <2> DEFINE s == runner[r].svc
    <2>1. /\ \A q \in Runner : q # r => runner'[q] = runner[q]
          /\ runner'[r].pc # "done" => runner'[r].svc = s
          /\ runner[r].pc # "done" /\ s \in Service
          /\ \A t \in Service : t # s => slot'[t] = slot[t]
      BY <1>4 DEF RunnerKind, OwnStep
    <2>2. ASSUME slot'[s].marker = slot[s].marker
          PROVE  \A t \in Service : slot'[t].marker = slot[t].marker
      BY <2>1, <2>2
    <2>3. CASE LoopStep(r)
      <3>1. /\ UNCHANGED disk /\ \A t \in Service : slot'[t].marker = slot[t].marker
            /\ runner'[r].pc \notin Holding
        BY <2>1, <2>2, <2>3 DEF LoopStep, SameMarker, From
      <3> QED BY <1>0, <2>1, <3>1 DEF Marked, Holding
    <2>4. CASE SpawnStep(r) \/ SweepStep(r)
      <3>1. UNCHANGED <<slot, disk>> /\ runner'[r].pc \in {"record", "clear"}
        BY <2>4 DEF SpawnStep, SweepStep, From
      <3> QED BY <1>0, <2>1, <3>1 DEF Marked
    <2>5. CASE RecordStep(r) \/ ClearStep(r)
      <3>1. /\ disk' = disk /\ runner[r].pc \in {"record", "clear"} /\ runner'[r].child = runner[r].child
            /\ \/ runner'[r].pc = "save" /\ slot'[s].marker = runner[r].child
               \/ runner'[r].pc = "saveEnd"
        BY <2>5 DEF RecordStep, ClearStep, From, SameChild
      <3>2. \A q \in Runner : q # r /\ runner[q].pc \in {"save", "gate", "serve", "stopping"} => runner[q].svc # s
        BY <3>1 DEF Alone, Finished, Waking
      <3> QED BY <1>0, <2>1, <3>1, <3>2 DEF Marked
    <2>6. CASE SaveStep(r)
      <3>1. /\ UNCHANGED slot /\ Saves /\ runner'[r].child = runner[r].child
            /\ \/ runner[r].pc = "save" /\ runner'[r].pc = "gate"
               \/ runner'[r].pc = "settle"
        BY <2>6, SnapshotSaves DEF SaveStep, From, SameChild
      <3> QED BY <1>0, <2>1, <3>1 DEF Marked, Saves
    <2>7. CASE ServeStep(r)
      <3>1. /\ UNCHANGED disk /\ \A t \in Service : slot'[t].marker = slot[t].marker
            /\ runner[r].pc \in {"gate", "serve"} /\ runner'[r].child = runner[r].child
        BY <2>1, <2>2, <2>7 DEF ServeStep, SameMarker, From, SameChild
      <3> QED BY <1>0, <2>1, <3>1 DEF Marked
    <2> QED BY <1>4, <2>3, <2>4, <2>5, <2>6, <2>7 DEF RunnerKind
  <1>5. ASSUME NEW p \in Pid, LeaveKind(p) PROVE Marked'
    BY <1>a, <1>b, <1>5 DEF LeaveKind
  <1>6. CASE HitKind
    BY <1>a, <1>b, <1>6 DEF HitKind
  <1>7. CASE BootKind
    BY <1>7 DEF BootKind, AccountedInv, OffIsEmpty, Finished, Marked
  <1>8. CASE HaltKind
    BY <1>8 DEF HaltKind, Marked
  <1>9. CASE ShutdownKind
    BY <1>a, <1>b, <1>9 DEF ShutdownKind
  <1> QED BY <1>1, <1>2, <1>3, <1>4, <1>5, <1>6, <1>7, <1>8, <1>9 DEF StepKind

\* While restore has a marker to reconcile, nothing writes services.json.
LEMMA StillOnDiskKept ==
  ASSUME AccountedInv, Roles, StillOnDisk, StepKind
  PROVE  StillOnDisk'
  <1>0. TypeOK /\ \A c \in Proc : c = Restorer \/ c \in Client
    BY DEF AccountedInv, Proc
  <1>a. ASSUME Saves, UNCHANGED loaded, proc[Restorer].pc # "reconcile" PROVE StillOnDisk'
    BY <1>a DEF StillOnDisk, Roles
  <1>1. CASE \E c \in Client : RequestKind(c)
    BY <1>1 DEF RequestKind, StillOnDisk
  <1>2. ASSUME NEW c \in Proc, ProcKind(c) PROVE StillOnDisk'
    <2>1. CASE PersistKind(c)
      BY <1>0, <1>a, <2>1 DEF PersistKind, Roles, Restored
    <2>2. CASE UNCHANGED <<disk, loaded>>
      BY <2>2 DEF StillOnDisk
    <2> QED BY <1>2, <2>1, <2>2 DEF ProcKind, JoinKind, UpKind, RouteKind, StopKind, MarkKind, UnrouteKind
  <1>3. CASE RestoreKind
    <2>1. CASE \E s \in Service : ReconcileKind(s)
      BY <1>0, <2>1 DEF ReconcileKind, StillOnDisk, TypeOK
    <2>2. CASE BootSaveKind
      BY <1>a, <2>2 DEF BootSaveKind
    <2>3. CASE ReconciledKind \/ BootUpKind
      BY <2>3 DEF ReconciledKind, BootUpKind, StillOnDisk
    <2> QED BY <1>3, <2>1, <2>2, <2>3 DEF RestoreKind
  <1>4. ASSUME NEW r \in Runner, RunnerKind(r) PROVE StillOnDisk'
    <2>1. loaded' = loaded /\ proc[Restorer].pc # "reconcile"
      BY <1>4 DEF RunnerKind, OwnStep, Roles, Booting, Finished
    <2>2. UNCHANGED disk \/ Saves
      BY <1>4, SnapshotSaves DEF RunnerKind, LoopStep, SpawnStep, RecordStep, SaveStep, ServeStep, SweepStep, ClearStep
    <2> QED BY <1>a, <2>1, <2>2 DEF StillOnDisk
  <1>5. CASE (\E p \in Pid : LeaveKind(p)) \/ HitKind \/ ShutdownKind
    BY <1>5 DEF LeaveKind, HitKind, ShutdownKind, StillOnDisk
  <1>6. CASE BootKind \/ HaltKind
    BY <1>6 DEF BootKind, HaltKind, StillOnDisk
  <1> QED BY <1>1, <1>2, <1>3, <1>4, <1>5, <1>6 DEF StepKind

\* Every group that is not lost is held by a runner, or named by a marker
\* restore has read, or, with no daemon, by services.json.
LEMMA OwnedKept ==
  ASSUME AccountedInv, Roles, ChildHeld, Marked, Owned, StillOnDisk, StepKind
  PROVE  Owned'
  <1>0. /\ TypeOK /\ None \notin Pid
        /\ \A r \in Runner : runner[r].pc # "done" => runner[r].svc \in Service
    BY NoneAssumption, ServiceAssumption DEF AccountedInv, Named, Finished
  <1>1. ASSUME \A p \in Pid : Held(p) => Held(p)', UNCHANGED <<group, lost, loaded>>,
               daemon # "off", daemon' # "off"
        PROVE  Owned'
    BY <1>1 DEF Owned
  <1>2. SameRunners => \A p \in Pid : Held(p) => Held(p)'
    BY DEF SameRunners, Held
  <1>3. runner' = runner => SameRunners
    BY DEF SameRunners
  <1>4. CASE \E c \in Client : RequestKind(c)
    BY <1>1, <1>2, <1>3, <1>4 DEF RequestKind
  <1>5. ASSUME NEW c \in Proc, ProcKind(c) PROVE Owned'
    <2>1. daemon # "off" /\ daemon' = daemon /\ UNCHANGED <<group, lost, loaded>>
      BY <1>5 DEF ProcKind, PersistKind, JoinKind, UpKind, RouteKind, StopKind, MarkKind, UnrouteKind,
                  AccountedInv, OffIsEmpty
    <2>2. \A p \in Pid : Held(p) => Held(p)'
      <3>1. CASE runner' = runner
        BY <1>2, <1>3, <3>1
      <3>2. CASE \E s \in Service, r \in Runner : NewRunnerId(r, s) /\ \A q \in Runner : q # r => runner'[q] = runner[q]
        <4>1. PICK r \in Runner : Finished(r) /\ \A q \in Runner : q # r => runner'[q] = runner[q]
          BY <3>2 DEF NewRunnerId, Least
        <4>2. runner[r].child = None
          BY <4>1 DEF ChildHeld, Holding, Finished
        <4> QED BY <1>0, <4>1, <4>2 DEF Held
      <3> QED BY <1>5, <3>1, <3>2 DEF ProcKind, PersistKind, JoinKind, UpKind, RouteKind, StopKind, MarkKind, UnrouteKind
    <2> QED BY <1>1, <2>1, <2>2
  <1>6. CASE RestoreKind
    <2>0. daemon # "off" /\ daemon' = daemon /\ runner' = runner
      BY <1>6 DEF RestoreKind, ReconcileKind, ReconciledKind, BootSaveKind, BootUpKind, AccountedInv, OffIsEmpty, Proc
    <2>1. ASSUME NEW s \in Service, ReconcileKind(s) PROVE Owned'
      <3>1. loaded[s] \in Pid /\ loaded'[s] = None /\ \A t \in Service : t # s => loaded'[t] = loaded[t]
        BY <1>0, <2>1 DEF ReconcileKind, TypeOK
      <3>2. CASE group' = [group EXCEPT ![loaded[s]] = Gone] /\ lost' = lost \ {loaded[s]}
        <4>1. group'[loaded[s]].life = "gone" /\ \A p \in Pid : p # loaded[s] => group'[p] = group[p]
          BY <1>0, <3>1, <3>2 DEF TypeOK, Gone
        <4> QED BY <2>0, <3>1, <3>2, <4>1 DEF Owned, Held
      <3>3. CASE group[loaded[s]].life # "led" /\ UNCHANGED <<group, lost>>
        <4>1. \A r \in Runner : runner[r].child = None
          BY <2>1 DEF ReconcileKind, Roles, Booting, ChildHeld, Holding, Finished
        <4>2. ~Held(loaded[s])
          BY <1>0, <3>1, <4>1 DEF Held
        <4>3. group[loaded[s]].life = "gone" \/ loaded[s] \in lost
          BY <1>0, <3>1, <3>3, <4>2 DEF ChildHeld, TypeOK, Group
        <4> QED BY <2>0, <3>1, <3>3, <4>3 DEF Owned, Held
      <3> QED BY <2>1, <3>2, <3>3 DEF ReconcileKind
    <2>2. CASE ReconciledKind \/ BootSaveKind \/ BootUpKind
      BY <1>1, <1>2, <1>3, <2>0, <2>2 DEF ReconciledKind, BootSaveKind, BootUpKind
    <2> QED BY <1>6, <2>1, <2>2 DEF RestoreKind
  <1>7. ASSUME NEW r \in Runner, RunnerKind(r) PROVE Owned'
    <2>1. /\ \A q \in Runner : q # r => runner'[q] = runner[q]
          /\ UNCHANGED <<daemon, loaded, lost>> /\ daemon # "off"
      BY <1>7 DEF RunnerKind, OwnStep, AccountedInv, OffIsEmpty, Finished
    <2>2. CASE LoopStep(r) \/ RecordStep(r) \/ SaveStep(r) \/ ServeStep(r) \/ ClearStep(r)
      <3>1. group' = group /\ runner'[r].child = runner[r].child
        BY <2>2 DEF LoopStep, RecordStep, SaveStep, ServeStep, ClearStep, SameChild, ChildHeld, From
      <3>2. \A p \in Pid : Held(p) => Held(p)'
        BY <2>1, <3>1 DEF Held
      <3> QED BY <1>1, <2>1, <3>1, <3>2
    <2>3. CASE SpawnStep(r)
      <3>1. PICK p \in Pid : /\ runner'[r].child = p
                             /\ group' = [group EXCEPT ![p] = [life |-> "led", svc |-> runner[r].svc]]
        BY <2>3 DEF SpawnStep
      <3>2. group'[p].svc = runner[r].svc /\ \A q \in Pid : q # p => group'[q] = group[q]
        BY <1>0, <3>1 DEF TypeOK
      <3>3. runner[r].child = None /\ runner[r].svc \in Service
        BY <1>0, <2>3 DEF SpawnStep, From, ChildHeld, Holding
      <3>4. \A q \in Pid : Held(q) => Held(q)'
        BY <1>0, <2>1, <3>3 DEF Held
      <3>5. Held(p)'
        BY <3>1 DEF Held
      <3> QED BY <2>1, <3>2, <3>3, <3>4, <3>5 DEF Owned
    <2>4. CASE SweepStep(r)
      <3> DEFINE p == runner[r].child
      <3>1. runner[r].pc \in Holding /\ group' = [group EXCEPT ![p] = Gone]
        BY <2>4 DEF SweepStep, From, Holding
      <3>2. p \in Pid
        BY <1>0, <3>1 DEF ChildHeld, TypeOK, RunnerRec
      <3>3. group'[p].life = "gone" /\ \A q \in Pid : q # p => group'[q] = group[q]
        BY <1>0, <3>1, <3>2 DEF TypeOK, Gone
      <3>4. \A q \in Pid : q # p /\ Held(q) => Held(q)'
        BY <2>1 DEF Held
      <3> HIDE DEF p
      <3> QED BY <2>1, <3>2, <3>3, <3>4 DEF Owned
    <2> QED BY <1>7, <2>2, <2>3, <2>4 DEF RunnerKind
  <1>8. ASSUME NEW p \in Pid, LeaveKind(p) PROVE Owned'
    <2>1. /\ UNCHANGED <<daemon, disk, loaded>> /\ \A q \in Pid : q # p => group'[q] = group[q]
          /\ \A q \in Pid : Held(q)' = Held(q)
      BY <1>8 DEF LeaveKind, Held
    <2>2. CASE group'[p].life = "headless" /\ group'[p].svc = group[p].svc /\ lost' = IF Held(p) THEN lost ELSE lost \cup {p}
      BY <1>8, <2>1, <2>2 DEF Owned, LeaveKind
    <2>3. CASE group'[p] = Gone /\ lost' = lost \ {p}
      BY <2>1, <2>3 DEF Owned, Gone
    <2> QED BY <1>8, <2>2, <2>3 DEF LeaveKind
  <1>9. CASE HitKind
    <2>1. \A p \in Pid : Held(p) => Held(p)'
      BY <1>2, <1>9 DEF HitKind
    <2> QED BY <1>9, <2>1 DEF HitKind, Owned
  <1>10. CASE BootKind
    <2>1. \A p \in Pid : ~Held(p)
      BY <1>0, <1>10 DEF BootKind, AccountedInv, OffIsEmpty, Finished, Held, ChildHeld, Holding
    <2>2. \A s \in Service : loaded[s] = None
      BY <1>10 DEF BootKind, Roles
    <2> QED BY <1>0, <1>10, <2>1, <2>2 DEF BootKind, Owned
  <1>11. CASE HaltKind
    <2> SUFFICES ASSUME NEW p \in Pid, group[p].life # "gone", p \notin lost'
                 PROVE  group[p].svc \in Service /\ disk'[group[p].svc].marker = p
      BY <1>11 DEF HaltKind, Owned
    <2> DEFINE s == group[p].svc
    <2>1. p \notin lost /\ group[p].life = "led" /\ daemon # "off"
      BY <1>0, <1>11 DEF HaltKind, TypeOK, Group
    <2>2. s \in Service /\ (Held(p) \/ loaded[s] = p)
      BY <2>1 DEF Owned
    <2>3. CASE Held(p)
      <3>1. PICK r \in Runner : runner[r].child = p
        BY <2>3 DEF Held
      <3>2. runner[r].pc \in Holding /\ runner[r].svc = s
        BY <1>0, <2>1, <3>1 DEF ChildHeld, Gone
      <3>3. CASE runner[r].pc \in {"record", "save"}
        BY <1>11, <2>1, <2>2, <3>1, <3>2, <3>3 DEF HaltKind
      <3>4. CASE runner[r].pc \in {"gate", "serve", "stopping"}
        BY <1>11, <2>2, <3>1, <3>2, <3>4 DEF HaltKind, Marked, Saves
      <3> QED BY <2>2, <3>2, <3>3, <3>4 DEF Holding
    <2>4. CASE loaded[s] = p
      <3>1. disk[s].marker = p /\ daemon = "up"
        BY <1>0, <2>2, <2>4 DEF StillOnDisk, Roles
      <3> QED BY <1>11, <2>2, <3>1 DEF HaltKind
    <2> QED BY <2>2, <2>3, <2>4
  <1>12. CASE ShutdownKind
    BY <1>1, <1>2, <1>3, <1>12 DEF ShutdownKind
  <1> QED BY <1>4, <1>5, <1>6, <1>7, <1>8, <1>9, <1>10, <1>11, <1>12 DEF StepKind

\* Nothing is at two targets at once.
LEMMA OneTarget ==
  ASSUME TypeOK, NEW c \in Proc, NEW s \in Service, NEW t \in Service, Target(c, s), Target(c, t)
  PROVE  s = t
  <1>1. s \in Nat /\ t \in Nat
    BY ServiceAssumption
  <1>2. s <= t /\ t <= s
    BY DEF Target, Least
  <1> HIDE DEF Target
  <1> QED BY <1>1, <1>2

\* While a `down` is under way, nothing else is.
LEMMA DownAlone ==
  ASSUME CommandsApart, Roles, NEW c \in Proc, proc[c].pc \in Downing, NEW d \in Proc, d # c
  PROVE  proc[d].pc = "idle" /\ c \in Client
  <1>1. c \in Client /\ c \in CanDown
    BY DEF Roles, Proc
  <1>2. proc[Restorer].pc = "idle"
    BY <1>1 DEF Roles, Restored, Downing
  <1> QED BY <1>1, <1>2 DEF CommandsApart, Proc

\* A `down` that has stopped its target finds it stopped until it goes on.
LEMMA StoppingKept ==
  ASSUME CommandsApart, AccountedInv, Roles, Stopping, StepKind
  PROVE  Stopping'
  <1>0. TypeOK /\ \A c \in Proc : c = Restorer \/ c \in Client
    BY DEF AccountedInv, Proc
  <1> USE DEF Stopping, Target
  <1>1. CASE \E c \in Client : RequestKind(c)
    BY <1>1 DEF RequestKind, OnlyProc
  <1>2. ASSUME NEW c \in Proc, ProcKind(c) PROVE Stopping'
    <2>a. daemon' = daemon /\ OnlyProc(c)
      BY <1>2 DEF ProcKind, PersistKind, JoinKind, UpKind, RouteKind, StopKind, MarkKind, UnrouteKind
    <2>b. proc[c].pc # "idle" => \A d \in Proc : d # c => proc[d].pc \notin {"join", "mark", "unroute"}
      BY DownAlone DEF Downing
    <2>1. CASE PersistKind(c)
      BY <2>a, <2>1 DEF PersistKind, OnlyProc
    <2>2. CASE JoinKind(c)
      BY <2>a, <2>2 DEF JoinKind, OnlyProc
    <2>3. ASSUME NEW s \in Service, UpKind(c, s) PROVE Stopping'
      BY <2>a, <2>b, <2>3 DEF UpKind, OnlyProc
    <2>4. ASSUME NEW s \in Service, RouteKind(c, s) PROVE Stopping'
      BY <2>a, <2>4 DEF RouteKind, OnlyProc
    <2>5. ASSUME NEW s \in Service, StopKind(c, s) PROVE Stopping'
      <3>1. proc'[c].todo = proc[c].todo /\ slot'[s].task = None /\ ~slot'[s].desired /\ Target(c, s)
        BY <2>5 DEF StopKind
      <3>2. \A t \in Service : Target(c, t)' => t = s
        BY <1>0, <3>1, OneTarget
      <3> QED BY <2>a, <2>b, <2>5, <3>1, <3>2 DEF StopKind, OnlyProc
    <2>6. ASSUME NEW s \in Service, MarkKind(c, s) PROVE Stopping'
      <3>1. /\ proc'[c].todo = proc[c].todo /\ proc[c].pc = "mark"
            /\ \A t \in Service : slot'[t].task = slot[t].task /\ slot'[t].desired = slot[t].desired
        BY <1>0, <2>6, UpdateState DEF MarkKind
      <3> QED BY <2>a, <3>1 DEF OnlyProc
    <2>7. ASSUME NEW s \in Service, UnrouteKind(c, s) PROVE Stopping'
      BY <2>a, <2>7 DEF UnrouteKind, OnlyProc
    <2> QED BY <1>2, <2>1, <2>2, <2>3, <2>4, <2>5, <2>6, <2>7 DEF ProcKind
  <1>3. CASE RestoreKind
    BY <1>3 DEF RestoreKind, ReconcileKind, ReconciledKind, BootSaveKind, BootUpKind, OnlyProc
  <1>4. ASSUME NEW r \in Runner, RunnerKind(r) PROVE Stopping'
    BY <1>4 DEF RunnerKind, OwnStep
  <1>5. CASE (\E p \in Pid : LeaveKind(p)) \/ HitKind
    BY <1>5 DEF LeaveKind, HitKind
  <1>6. CASE BootKind
    BY <1>0, <1>6 DEF BootKind, OnlyProc, AccountedInv, OffIsEmpty
  <1>7. CASE HaltKind \/ ShutdownKind
    BY <1>7 DEF HaltKind, ShutdownKind
  <1> QED BY <1>1, <1>2, <1>3, <1>4, <1>5, <1>6, <1>7 DEF StepKind

\* An `up` about to route its target finds it still desired.
LEMMA StartingKept ==
  ASSUME CommandsApart, AccountedInv, Roles, Starting, StepKind
  PROVE  Starting'
  <1>0. TypeOK /\ \A c \in Proc : c = Restorer \/ c \in Client
    BY DEF AccountedInv, Proc
  <1> USE DEF Starting, Target
  <1>1. CASE \E c \in Client : RequestKind(c)
    BY <1>1 DEF RequestKind, OnlyProc
  <1>2. ASSUME NEW c \in Proc, ProcKind(c) PROVE Starting'
    <2>a. daemon' = daemon /\ OnlyProc(c)
      BY <1>2 DEF ProcKind, PersistKind, JoinKind, UpKind, RouteKind, StopKind, MarkKind, UnrouteKind
    <2>1. CASE PersistKind(c) \/ JoinKind(c)
      BY <2>a, <2>1 DEF PersistKind, JoinKind, OnlyProc
    <2>3. ASSUME NEW s \in Service, UpKind(c, s) PROVE Starting'
      <3>1. proc'[c].todo = proc[c].todo /\ slot'[s].desired /\ Target(c, s)
        BY <2>3 DEF UpKind
      <3>2. \A t \in Service : Target(c, t)' => t = s
        BY <1>0, <3>1, OneTarget
      <3> QED BY <2>a, <2>3, <3>1, <3>2 DEF UpKind, OnlyProc, OnlySlot
    <2>4. ASSUME NEW s \in Service, RouteKind(c, s) \/ UnrouteKind(c, s) PROVE Starting'
      BY <2>a, <2>4 DEF RouteKind, UnrouteKind, OnlyProc
    <2>5. ASSUME NEW s \in Service, StopKind(c, s) PROVE Starting'
      <3>1. \A d \in Proc : d # c => proc[d].pc = "idle"
        BY <2>5, DownAlone DEF StopKind, Downing
      <3> QED BY <2>a, <2>5, <3>1 DEF StopKind, OnlyProc
    <2>6. ASSUME NEW s \in Service, MarkKind(c, s) PROVE Starting'
      <3>1. proc'[c].pc # "route" /\ \A t \in Service : slot'[t].desired = slot[t].desired
        BY <1>0, <2>6, UpdateState DEF MarkKind
      <3> QED BY <2>a, <3>1 DEF OnlyProc
    <2> QED BY <1>2, <2>1, <2>3, <2>4, <2>5, <2>6 DEF ProcKind
  <1>3. CASE RestoreKind
    BY <1>3 DEF RestoreKind, ReconcileKind, ReconciledKind, BootSaveKind, BootUpKind, OnlyProc
  <1>4. ASSUME NEW r \in Runner, RunnerKind(r) PROVE Starting'
    BY <1>4 DEF RunnerKind, OwnStep
  <1>5. CASE (\E p \in Pid : LeaveKind(p)) \/ HitKind
    BY <1>5 DEF LeaveKind, HitKind
  <1>6. CASE BootKind
    BY <1>0, <1>6 DEF BootKind, OnlyProc, AccountedInv, OffIsEmpty
  <1>7. CASE HaltKind \/ ShutdownKind
    BY <1>7 DEF HaltKind, ShutdownKind
  <1> QED BY <1>1, <1>2, <1>3, <1>4, <1>5, <1>6, <1>7 DEF StepKind

\* A daemon that is off routes nothing.
LEMMA OffUnroutedKept ==
  ASSUME AccountedInv, OffUnrouted, StepKind
  PROVE  OffUnrouted'
  <1>1. CASE HaltKind \/ BootKind
    BY <1>1 DEF HaltKind, BootKind, OffUnrouted
  <1>2. ASSUME NEW c \in Proc, ProcKind(c) PROVE OffUnrouted'
    BY <1>2 DEF ProcKind, PersistKind, JoinKind, UpKind, RouteKind, StopKind, MarkKind, UnrouteKind,
                AccountedInv, OffIsEmpty, OffUnrouted
  <1>3. CASE UNCHANGED <<daemon, routed>>
    BY <1>3 DEF OffUnrouted
  <1>4. ASSUME NEW r \in Runner, RunnerKind(r) PROVE OffUnrouted'
    BY <1>3, <1>4 DEF RunnerKind, OwnStep
  <1>5. CASE RestoreKind
    BY <1>3, <1>5 DEF RestoreKind, ReconcileKind, ReconciledKind, BootSaveKind, BootUpKind
  <1>6. CASE (\E c \in Client : RequestKind(c)) \/ (\E p \in Pid : LeaveKind(p)) \/ HitKind
    BY <1>3, <1>6 DEF RequestKind, LeaveKind, HitKind
  <1>7. CASE ShutdownKind
    BY <1>7 DEF ShutdownKind, OffUnrouted
  <1> QED BY <1>1, <1>2, <1>4, <1>5, <1>6, <1>7 DEF StepKind

\* A route that does not match the intent is being dealt with.
LEMMA RoutedSoonKept ==
  ASSUME AccountedInv, Roles, Stopping, Starting, RoutedSoon, OffUnrouted, StepKind
  PROVE  RoutedSoon'
  <1>0. TypeOK /\ Restorer \in Proc
    BY DEF AccountedInv, Proc
  <1> DEFINE On(c, s) == proc[c].pc \in Booting \/ (proc[c].pc \in Upping /\ s \in proc[c].todo)
             Off(c, s) == proc[c].pc \in {"join", "mark", "unroute"} /\ Target(c, s)
  <1>a. daemon = "up" => \A s \in Service :
          /\ slot[s].desired /\ s \notin routed => \E c \in Proc : On(c, s)
          /\ ~slot[s].desired /\ s \in routed => \E c \in Proc : Off(c, s)
    BY DEF RoutedSoon
  <1>b. ASSUME daemon' = "up" => \A s \in Service :
          /\ slot'[s].desired /\ s \notin routed' => \E c \in Proc : On(c, s)'
          /\ ~slot'[s].desired /\ s \in routed' => \E c \in Proc : Off(c, s)'
        PROVE RoutedSoon'
    BY <1>b DEF RoutedSoon
  <1>c. ASSUME NEW c \in Proc, OnlyProc(c)
        PROVE  \A d \in Proc, s \in Service : d # c => (On(d, s)' <=> On(d, s)) /\ (Off(d, s)' <=> Off(d, s))
    BY <1>c DEF OnlyProc, Target
  <1>d. ASSUME UNCHANGED <<daemon, routed, proc>>, \A s \in Service : slot'[s].desired = slot[s].desired
        PROVE  RoutedSoon'
    BY <1>d DEF RoutedSoon, Target
  <1>e. ASSUME NEW c \in Proc, OnlyProc(c), UNCHANGED <<daemon, routed>>,
               \A s \in Service : slot'[s].desired = slot[s].desired,
               \A s \in Service : (On(c, s) /\ slot[s].desired => On(c, s)') /\ (Off(c, s) => Off(c, s)')
        PROVE  RoutedSoon'
    <2> HIDE DEF On, Off
    <2> QED BY <1>a, <1>b, <1>c, <1>e
  <1>1. ASSUME NEW c \in Client, RequestKind(c) PROVE RoutedSoon'
    <2>1. c \in Proc /\ \A s \in Service : ~On(c, s) /\ ~Off(c, s)
      BY <1>1 DEF RequestKind, Booting, Upping, Proc
    <2> HIDE DEF On, Off
    <2> QED BY <1>1, <1>e, <2>1 DEF RequestKind
  <1>2. ASSUME NEW c \in Proc, ProcKind(c) PROVE RoutedSoon'
    <2>a. daemon' = daemon /\ OnlyProc(c)
      BY <1>2 DEF ProcKind, PersistKind, JoinKind, UpKind, RouteKind, StopKind, MarkKind, UnrouteKind
    <2>1. CASE PersistKind(c)
      <3>1. \A s \in Service : ~On(c, s) /\ ~Off(c, s)
        BY <2>1 DEF PersistKind, Booting, Upping
      <3> HIDE DEF On, Off
      <3> QED BY <1>e, <2>a, <2>1, <3>1 DEF PersistKind
    <2>2. CASE JoinKind(c)
      <3>1. \A s \in Service : ~On(c, s) /\ (Off(c, s) => Off(c, s)')
        BY <2>2 DEF JoinKind, Booting, Upping, Target
      <3> HIDE DEF On, Off
      <3> QED BY <1>e, <2>a, <2>2, <3>1 DEF JoinKind
    <2>3. ASSUME NEW s \in Service, UpKind(c, s) PROVE RoutedSoon'
      <3>1. /\ routed' = routed /\ slot'[s].desired
            /\ \A t \in Service : t # s => slot'[t].desired = slot[t].desired
        BY <2>3 DEF UpKind, OnlySlot
      <3>2. On(c, s)' /\ \A t \in Service : ~Off(c, t) /\ (On(c, t) => On(c, t)')
        BY <2>3 DEF UpKind, Upping, Booting, Target, Least
      <3> HIDE DEF On, Off
      <3> QED BY <1>a, <1>b, <1>c, <2>a, <3>1, <3>2
    <2>4. ASSUME NEW s \in Service, RouteKind(c, s) PROVE RoutedSoon'
      <3>1. routed' = routed \cup {s} /\ slot' = slot /\ (daemon = "up" => slot[s].desired)
        BY <2>4 DEF RouteKind, Starting
      <3>2. \A t \in Service : ~Off(c, t) /\ (t # s /\ On(c, t) => On(c, t)')
        BY <2>4 DEF RouteKind, Upping, Booting
      <3> HIDE DEF On, Off
      <3> QED BY <1>a, <1>b, <1>c, <2>a, <3>1, <3>2
    <2>5. ASSUME NEW s \in Service, StopKind(c, s) PROVE RoutedSoon'
      <3>1. /\ routed' = routed /\ ~slot'[s].desired
            /\ \A t \in Service : t # s => slot'[t].desired = slot[t].desired
        BY <2>5 DEF StopKind, OnlySlot
      <3>2. Off(c, s)' /\ \A t \in Service : ~Off(c, t) /\ ~On(c, t)
        BY <2>5 DEF StopKind, Upping, Booting, Target
      <3> HIDE DEF On, Off
      <3> QED BY <1>a, <1>b, <1>c, <2>a, <3>1, <3>2
    <2>6. ASSUME NEW s \in Service, MarkKind(c, s) PROVE RoutedSoon'
      <3>1. \A t \in Service : slot'[t].desired = slot[t].desired
        BY <1>0, <2>6, UpdateState DEF MarkKind
      <3>2. \A t \in Service : ~On(c, t) /\ (Off(c, t) => Off(c, t)')
        BY <2>6 DEF MarkKind, Booting, Upping, Target
      <3>3. UNCHANGED <<daemon, routed>>
        BY <2>6 DEF MarkKind
      <3> HIDE DEF On, Off
      <3> QED BY <1>e, <2>a, <3>1, <3>2, <3>3
    <2>7. ASSUME NEW s \in Service, UnrouteKind(c, s) PROVE RoutedSoon'
      <3>1. routed' = routed \ {s} /\ slot' = slot /\ (daemon = "up" => ~slot[s].desired)
        BY <2>7 DEF UnrouteKind, Stopping
      <3>2. \A t \in Service : ~On(c, t) /\ (Off(c, t) => t = s)
        BY <1>0, <2>7, OneTarget DEF UnrouteKind, Upping, Booting
      <3> HIDE DEF On, Off
      <3> QED BY <1>a, <1>b, <1>c, <2>a, <3>1, <3>2
    <2> QED BY <1>2, <2>1, <2>2, <2>3, <2>4, <2>5, <2>6, <2>7 DEF ProcKind
  <1>3. CASE RestoreKind
    <2>1. CASE \E s \in Service : ReconcileKind(s)
      BY <1>d, <2>1 DEF ReconcileKind
    <2>2. CASE ReconciledKind \/ BootSaveKind
      <3>1. \A s \in Service : On(Restorer, s)' /\ ~Off(Restorer, s)
        BY <2>2 DEF ReconciledKind, BootSaveKind, Booting
      <3>2. OnlyProc(Restorer) /\ UNCHANGED <<daemon, routed, slot>>
        BY <2>2 DEF ReconciledKind, BootSaveKind
      <3> HIDE DEF On, Off
      <3> QED BY <1>0, <1>e, <3>1, <3>2
    <2>3. CASE BootUpKind
      <3>1. \A s \in Service : (slot[s].desired => On(Restorer, s)') /\ ~Off(Restorer, s)
        BY <2>3 DEF BootUpKind, Upping
      <3>2. OnlyProc(Restorer) /\ UNCHANGED <<daemon, routed, slot>>
        BY <2>3 DEF BootUpKind
      <3> HIDE DEF On, Off
      <3> QED BY <1>0, <1>e, <3>1, <3>2
    <2> QED BY <1>3, <2>1, <2>2, <2>3 DEF RestoreKind
  <1>4. ASSUME NEW r \in Runner, RunnerKind(r) PROVE RoutedSoon'
    BY <1>d, <1>4 DEF RunnerKind, OwnStep
  <1>5. CASE (\E p \in Pid : LeaveKind(p)) \/ HitKind
    BY <1>d, <1>5 DEF LeaveKind, HitKind
  <1>6. CASE BootKind
    <2>1. On(Restorer, 0)' /\ routed' = {}
      BY <1>6 DEF BootKind, Booting, OffUnrouted
    <2> QED BY <1>0, <1>6, <2>1 DEF BootKind, RoutedSoon, Booting
  <1>7. CASE HaltKind \/ ShutdownKind
    BY <1>7 DEF HaltKind, ShutdownKind, RoutedSoon
  <1> QED BY <1>1, <1>2, <1>3, <1>4, <1>5, <1>6, <1>7 DEF StepKind

\* An intent that services.json does not record yet is about to be saved.
LEMMA SavedSoonKept ==
  ASSUME AccountedInv, Roles, SavedSoon, StepKind
  PROVE  SavedSoon'
  <1>0. TypeOK /\ Restorer \in Proc /\ \A c \in Proc : c = Restorer \/ c \in Client
    BY DEF AccountedInv, Proc
  <1>a. ASSUME Saves, slot' = slot PROVE SavedSoon'
    BY <1>a DEF Saves, SavedSoon
  <1>b. ASSUME NEW c \in Proc, proc'[c].pc # "idle", proc'[Restorer].pc # "bootUp" PROVE SavedSoon'
    BY <1>b DEF SavedSoon
  <1>1. ASSUME NEW c \in Client, RequestKind(c) PROVE SavedSoon'
    <2>1. c \in Proc /\ proc'[c].pc # "idle" /\ slot' = slot /\ disk' = disk /\ OnlyProc(c) /\ proc[c].pc = "idle"
      BY <1>1 DEF RequestKind, Proc
    <2> QED BY <1>0, <2>1, ActorAssumption DEF SavedSoon, OnlyProc, RequestKind
  <1>2. ASSUME NEW c \in Proc, ProcKind(c) PROVE SavedSoon'
    <2>1. CASE PersistKind(c)
      BY <1>a, <2>1 DEF PersistKind
    <2>2. CASE ~PersistKind(c)
      <3>1. /\ OnlyProc(c) /\ proc'[c].pc \notin {"idle", "bootUp"}
            /\ proc[c].pc \notin {"idle", "bootUp"}
        BY <1>2, <2>2 DEF ProcKind, JoinKind, UpKind, RouteKind, StopKind, MarkKind, UnrouteKind
      <3>2. proc'[Restorer].pc # "bootUp"
        BY <1>0, <3>1 DEF OnlyProc, Roles, Restored
      <3> QED BY <1>b, <3>1, <3>2
    <2> QED BY <2>1, <2>2
  <1>3. CASE RestoreKind
    <2>1. CASE BootSaveKind
      BY <1>a, <2>1 DEF BootSaveKind
    <2>2. CASE ReconciledKind
      BY <1>0, <1>b, <2>2 DEF ReconciledKind
    <2>3. CASE BootUpKind
      BY <2>3 DEF BootUpKind, SavedSoon
    <2>4. CASE \E s \in Service : ReconcileKind(s)
      BY <2>4 DEF ReconcileKind, SavedSoon
    <2> QED BY <1>3, <2>1, <2>2, <2>3, <2>4 DEF RestoreKind
  <1>4. ASSUME NEW r \in Runner, RunnerKind(r) PROVE SavedSoon'
    <2>1. /\ UNCHANGED <<daemon, proc>> /\ proc[Restorer].pc # "bootUp"
          /\ \A s \in Service : slot'[s].desired = slot[s].desired
      BY <1>4 DEF RunnerKind, OwnStep, Roles, Booting, Finished
    <2>2. UNCHANGED disk \/ (Saves /\ slot' = slot)
      BY <1>4, SnapshotSaves DEF RunnerKind, LoopStep, SpawnStep, RecordStep, SaveStep, ServeStep, SweepStep, ClearStep
    <2> QED BY <1>a, <2>1, <2>2 DEF SavedSoon
  <1>5. CASE (\E p \in Pid : LeaveKind(p)) \/ HitKind
    BY <1>5 DEF LeaveKind, HitKind, SavedSoon
  <1>6. CASE BootKind
    BY <1>0, <1>b, <1>6 DEF BootKind
  <1>7. CASE HaltKind
    BY <1>0, <1>7 DEF HaltKind, SavedSoon
  <1>8. CASE ShutdownKind
    BY <1>8 DEF ShutdownKind, SavedSoon
  <1> QED BY <1>1, <1>2, <1>3, <1>4, <1>5, <1>6, <1>7, <1>8 DEF StepKind

\* While a `down` marks its target stopped, the target has no runner.
LEMMA NothingToMark ==
  ASSUME CommandsApart, AccountedInv, Roles, Stopping, daemon = "up",
         NEW c \in Proc, NEW s \in Service, proc[c].pc \in {"mark", "unroute"}, Target(c, s),
         NEW r \in Runner, runner[r].svc = s
  PROVE  runner[r].pc = "done"
  <1> SUFFICES ASSUME runner[r].pc # "done" PROVE FALSE
    OBVIOUS
  <1>0. r # None
    BY NoneAssumption, ServiceAssumption
  <1>1. slot[s].task = None /\ awaited = {}
    BY DEF Stopping, AccountedInv, AwaitsNothing
  <1>2. \A d \in Proc : proc[d].pc # "join"
    BY DownAlone DEF Downing
  <1> QED BY <1>0, <1>1, <1>2 DEF AccountedInv, Accounted, JoinHolds, Finished

\* The shown state follows the runner through an attempt.
LEMMA ShownKept ==
  ASSUME CommandsApart, AccountedInv, Roles, Alone, Stopping, Shown, StepKind
  PROVE  Shown'
  <1>0. TypeOK /\ \A r \in Runner : runner[r].pc # "done" => runner[r].svc \in Service
    BY DEF AccountedInv, Named, Finished
  <1>a. ASSUME SameRunners, UNCHANGED daemon, \A s \in Service : slot'[s].state = slot[s].state PROVE Shown'
    BY <1>0, <1>a DEF Shown, SameRunners
  <1>b. /\ runner' = runner => SameRunners
        /\ slot' = slot => \A s \in Service : slot'[s].state = slot[s].state
    BY DEF SameRunners
  <1>1. CASE \E c \in Client : RequestKind(c)
    BY <1>a, <1>b, <1>1 DEF RequestKind
  <1>2. ASSUME NEW c \in Proc, ProcKind(c) PROVE Shown'
    <2>1. ASSUME NEW s \in Service, UpKind(c, s) PROVE Shown'
      <3>1. (\A t \in Service : slot'[t].state = slot[t].state) /\ daemon' = daemon
        BY <2>1 DEF UpKind, OnlySlot
      <3>2. \A q \in Runner : runner'[q] = runner[q] \/ runner'[q].pc = "subscribe"
        BY <2>1 DEF UpKind
      <3> QED BY <1>0, <3>1, <3>2 DEF Shown
    <2>2. ASSUME NEW s \in Service, RouteKind(c, s) \/ UnrouteKind(c, s) PROVE Shown'
      BY <1>a, <1>b, <2>2 DEF RouteKind, UnrouteKind
    <2>3. ASSUME NEW s \in Service, StopKind(c, s) PROVE Shown'
      BY <1>a, <1>b, <2>3 DEF StopKind, OnlySlot
    <2>4. ASSUME NEW s \in Service, MarkKind(c, s) PROVE Shown'
      <3>1. /\ \A t \in Service : t # s => slot'[t].state = slot[t].state
            /\ UNCHANGED <<daemon, runner>>
        BY <1>0, <2>4, UpdateState DEF MarkKind
      <3>2. daemon = "up" => \A r \in Runner : runner[r].svc = s => runner[r].pc = "done"
        BY <2>4, NothingToMark DEF MarkKind
      <3> QED BY <1>0, <3>1, <3>2 DEF Shown
    <2>5. CASE PersistKind(c) \/ JoinKind(c)
      BY <1>a, <1>b, <2>5 DEF PersistKind, JoinKind
    <2> QED BY <1>2, <2>1, <2>2, <2>3, <2>4, <2>5 DEF ProcKind
  <1>3. CASE RestoreKind
    BY <1>a, <1>b, <1>3 DEF RestoreKind, ReconcileKind, ReconciledKind, BootSaveKind, BootUpKind
  <1>4. ASSUME NEW r \in Runner, RunnerKind(r) PROVE Shown'
    <2> DEFINE s == runner[r].svc
    <2>1. /\ \A q \in Runner : q # r => runner'[q] = runner[q]
          /\ runner'[r].pc # "done" => runner'[r].svc = s
          /\ runner[r].pc # "done" /\ s \in Service /\ daemon' = daemon
          /\ \A t \in Service : t # s => slot'[t] = slot[t]
      BY <1>4 DEF RunnerKind, OwnStep
    <2>2. daemon = "up" => \A q \in Runner : q # r /\ runner[q].pc # "done" => runner[q].svc # s
      BY <2>1 DEF Alone, Finished
    <2>3. daemon = "up" =>
            /\ runner'[r].pc \in {"launch", "record", "save", "gate"} => slot'[s].state = "Starting"
            /\ runner'[r].pc \in {"serve", "stopping", "clear", "saveEnd", "settle"} =>
                 slot'[s].state \in {"Starting", "Ready"}
      <3>1. CASE LoopStep(r)
        BY <3>1 DEF LoopStep, From, Holding, SameState, Shown
      <3>2. CASE SpawnStep(r) \/ RecordStep(r) \/ SaveStep(r) \/ ServeStep(r)
        BY <3>2 DEF SpawnStep, RecordStep, SaveStep, ServeStep, From, SameState, Shown
      <3>3. CASE SweepStep(r) \/ ClearStep(r)
        BY <3>3 DEF SweepStep, ClearStep, From, SameState, Shown
      <3> QED BY <1>4, <3>1, <3>2, <3>3 DEF RunnerKind
    <2> QED BY <1>0, <2>1, <2>2, <2>3 DEF Shown
  <1>5. CASE (\E p \in Pid : LeaveKind(p)) \/ HitKind
    BY <1>a, <1>b, <1>5 DEF LeaveKind, HitKind
  <1>6. CASE BootKind
    BY <1>6 DEF BootKind, AccountedInv, OffIsEmpty, Finished, Shown
  <1>7. CASE HaltKind \/ ShutdownKind
    BY <1>7 DEF HaltKind, ShutdownKind, Shown
  <1> QED BY <1>1, <1>2, <1>3, <1>4, <1>5, <1>6, <1>7 DEF StepKind

\* Ready is shown only with a runner behind it.
LEMMA ReadyBackedKept ==
  ASSUME AccountedInv, ReadyBacked, StepKind
  PROVE  ReadyBacked'
  <1>0. TypeOK
    BY DEF AccountedInv
  <1>a. ASSUME SameRunners, UNCHANGED daemon,
               \A s \in Service : slot'[s].state = slot[s].state \/ slot'[s].state # "Ready"
        PROVE ReadyBacked'
    BY <1>a DEF ReadyBacked, SameRunners
  <1>b. /\ runner' = runner => SameRunners
        /\ slot' = slot => \A s \in Service : slot'[s].state = slot[s].state
    BY DEF SameRunners
  <1>1. CASE \E c \in Client : RequestKind(c)
    BY <1>a, <1>b, <1>1 DEF RequestKind
  <1>2. ASSUME NEW c \in Proc, ProcKind(c) PROVE ReadyBacked'
    <2>1. ASSUME NEW s \in Service, UpKind(c, s) PROVE ReadyBacked'
      <3>1. (\A t \in Service : slot'[t].state = slot[t].state) /\ daemon' = daemon
        BY <2>1 DEF UpKind, OnlySlot
      <3>2. \A q \in Runner : runner[q].pc # "done" => runner'[q] = runner[q]
        BY <2>1 DEF UpKind, NewRunnerId, Least, Finished
      <3> QED BY <3>1, <3>2 DEF ReadyBacked
    <2>2. ASSUME NEW s \in Service, RouteKind(c, s) \/ UnrouteKind(c, s) PROVE ReadyBacked'
      BY <1>a, <1>b, <2>2 DEF RouteKind, UnrouteKind
    <2>3. ASSUME NEW s \in Service, StopKind(c, s) PROVE ReadyBacked'
      BY <1>a, <1>b, <2>3 DEF StopKind, OnlySlot
    <2>4. ASSUME NEW s \in Service, MarkKind(c, s) PROVE ReadyBacked'
      <3>1. slot'[s].state = "Stopped" /\ \A t \in Service : t # s => slot'[t].state = slot[t].state
        BY <1>0, <2>4, UpdateState DEF MarkKind
      <3> QED BY <1>a, <1>b, <2>4, <3>1 DEF MarkKind
    <2>5. CASE PersistKind(c) \/ JoinKind(c)
      BY <1>a, <1>b, <2>5 DEF PersistKind, JoinKind
    <2> QED BY <1>2, <2>1, <2>2, <2>3, <2>4, <2>5 DEF ProcKind
  <1>3. CASE RestoreKind
    BY <1>a, <1>b, <1>3 DEF RestoreKind, ReconcileKind, ReconciledKind, BootSaveKind, BootUpKind
  <1>4. ASSUME NEW r \in Runner, RunnerKind(r) PROVE ReadyBacked'
    <2> DEFINE s == runner[r].svc
    <2>1. /\ \A q \in Runner : q # r => runner'[q] = runner[q]
          /\ runner'[r].pc # "done" => runner'[r].svc = s
          /\ s \in Service /\ daemon' = daemon
          /\ \A t \in Service : t # s => slot'[t] = slot[t]
      BY <1>4 DEF RunnerKind, OwnStep
    <2>2. CASE LoopStep(r)
      <3>1. slot'[s].state = "Ready" => /\ slot[s].state = "Ready"
                                        /\ runner[r].pc # "ending" => runner'[r].pc \notin {"ending", "done"}
        BY <2>2 DEF LoopStep, SameState
      <3> QED BY <2>1, <3>1 DEF ReadyBacked
    <2>3. CASE ~LoopStep(r)
      <3>1. runner'[r].pc \notin {"ending", "done"}
        BY <1>4, <2>3 DEF RunnerKind, SpawnStep, RecordStep, SaveStep, ServeStep, SweepStep, ClearStep, From
      <3> QED BY <2>1, <3>1 DEF ReadyBacked
    <2> QED BY <2>2, <2>3
  <1>5. CASE (\E p \in Pid : LeaveKind(p)) \/ HitKind
    BY <1>a, <1>b, <1>5 DEF LeaveKind, HitKind
  <1>6. CASE BootKind
    BY <1>6 DEF BootKind, ReadyBacked
  <1>7. CASE HaltKind \/ ShutdownKind
    BY <1>7 DEF HaltKind, ShutdownKind, ReadyBacked
  <1> QED BY <1>1, <1>2, <1>3, <1>4, <1>5, <1>6, <1>7 DEF StepKind

\* A runner whose handle the shutdown did not take was spawned after it began.
LEMMA LateWakeKept ==
  ASSUME AccountedInv, LateWake, StepKind
  PROVE  LateWake'
  <1>0. /\ TypeOK /\ \A r \in Runner : r # None
        /\ \A r \in Runner : runner[r].pc # "done" => runner[r].svc \in Service
    BY NoneAssumption, ServiceAssumption DEF AccountedInv, Named, Finished
  <1>a. ASSUME SameRunners, UNCHANGED daemon,
               \A s \in Service : slot'[s].task = slot[s].task \/ slot'[s].task = None
        PROVE LateWake'
    BY <1>0, <1>a DEF LateWake, SameRunners, Finished
  <1>b. /\ runner' = runner => SameRunners
        /\ slot' = slot => \A s \in Service : slot'[s].task = slot[s].task
    BY DEF SameRunners
  <1>1. CASE \E c \in Client : RequestKind(c)
    BY <1>a, <1>b, <1>1 DEF RequestKind
  <1>2. ASSUME NEW c \in Proc, ProcKind(c) PROVE LateWake'
    <2>1. ASSUME NEW s \in Service, UpKind(c, s) PROVE LateWake'
      <3>1. CASE runner' = runner /\ slot'[s].task = slot[s].task
        BY <1>a, <1>b, <2>1, <3>1 DEF UpKind, OnlySlot
      <3>2. CASE \E r \in Runner :
                   /\ slot'[s].task = r /\ runner'[r].pc = "subscribe"
                   /\ \A q \in Runner : q # r => runner'[q] = runner[q]
        <4>1. PICK r \in Runner : /\ slot'[s].task = r /\ runner'[r].pc = "subscribe"
                                  /\ \A q \in Runner : q # r => runner'[q] = runner[q]
          BY <3>2
        <4>2. daemon' = daemon /\ \A t \in Service : t # s => slot'[t] = slot[t]
          BY <2>1 DEF UpKind, OnlySlot
        <4> QED BY <1>0, <4>1, <4>2 DEF LateWake, Finished, Waking
      <3> QED BY <2>1, <3>1, <3>2 DEF UpKind
    <2>2. ASSUME NEW s \in Service, RouteKind(c, s) \/ UnrouteKind(c, s) PROVE LateWake'
      BY <1>a, <1>b, <2>2 DEF RouteKind, UnrouteKind
    <2>3. ASSUME NEW s \in Service, StopKind(c, s) PROVE LateWake'
      BY <1>a, <1>b, <2>3 DEF StopKind, OnlySlot
    <2>4. ASSUME NEW s \in Service, MarkKind(c, s) PROVE LateWake'
      <3>1. \A t \in Service : slot'[t].task = slot[t].task
        BY <1>0, <2>4, UpdateState DEF MarkKind
      <3> QED BY <1>a, <1>b, <2>4, <3>1 DEF MarkKind
    <2>5. CASE PersistKind(c) \/ JoinKind(c)
      BY <1>a, <1>b, <2>5 DEF PersistKind, JoinKind
    <2> QED BY <1>2, <2>1, <2>2, <2>3, <2>4, <2>5 DEF ProcKind
  <1>3. CASE RestoreKind
    BY <1>a, <1>b, <1>3 DEF RestoreKind, ReconcileKind, ReconciledKind, BootSaveKind, BootUpKind
  <1>4. ASSUME NEW r \in Runner, RunnerKind(r) PROVE LateWake'
    <2>1. /\ \A q \in Runner : q # r => runner'[q] = runner[q]
          /\ runner'[r].pc # "done" => runner'[r].svc = runner[r].svc
          /\ runner[r].pc # "done" /\ daemon' = daemon
          /\ \A t \in Service : slot'[t].task = slot[t].task
      BY <1>4 DEF RunnerKind, OwnStep
    <2>2. daemon = "stopping" /\ runner'[r].pc \notin Waking => runner[r].pc \notin Waking
      BY <1>4 DEF RunnerKind, LoopStep, SpawnStep, RecordStep, SaveStep, ServeStep, SweepStep, ClearStep,
                  From, Waking, StopRequested
    <2> QED BY <1>0, <2>1, <2>2 DEF LateWake, Finished
  <1>5. CASE (\E p \in Pid : LeaveKind(p)) \/ HitKind
    BY <1>a, <1>b, <1>5 DEF LeaveKind, HitKind
  <1>6. CASE BootKind \/ HaltKind
    BY <1>6 DEF BootKind, HaltKind, LateWake
  <1>7. CASE ShutdownKind
    BY <1>0, <1>7 DEF ShutdownKind, LateWake, Finished
  <1> QED BY <1>1, <1>2, <1>3, <1>4, <1>5, <1>6, <1>7 DEF StepKind

-----------------------------------------------------------------------------
(* The invariant, and what follows from it.                                 *)

SupervisedInv ==
  /\ AccountedInv /\ Roles /\ ChildHeld /\ Alone
  /\ Marked /\ StillOnDisk /\ Owned
  /\ Stopping /\ Starting /\ OffUnrouted /\ RoutedSoon /\ SavedSoon
  /\ Shown /\ ReadyBacked /\ LateWake

\* Initially there is no runner, no group and no daemon.
LEMMA InitSupervised == Init => SupervisedInv
  <1> SUFFICES ASSUME Init PROVE SupervisedInv
    OBVIOUS
  <1>1. AccountedInv /\ Restorer \in Proc /\ \A c \in Client : c \in Proc
    BY InitAccounted DEF Proc
  <1>2. \A r \in Runner : runner[r].pc = "done" /\ runner[r].child = None
    BY DEF Init, NoRunner
  <1>3. \A c \in Proc : proc[c].pc = "idle"
    BY DEF Init, IdleProc
  <1>4. \A p \in Pid : group[p] = Gone /\ group[p].life = "gone"
    BY DEF Init, Gone
  <1>5. daemon = "off" /\ lost = {} /\ routed = {} /\ \A s \in Service : loaded[s] = None
    BY DEF Init
  <1>6. \A s \in Service : disk[s].desired = FALSE /\ slot[s].desired = FALSE
    BY DEF Init, FreshSlot
  <1>7. Roles /\ ChildHeld /\ Alone /\ Marked /\ StillOnDisk /\ Owned
    BY <1>1, <1>2, <1>3, <1>4, <1>5
       DEF Roles, Restored, Booting, Downing, ChildHeld, Holding, Alone, Finished, Marked, StillOnDisk, Owned
  <1>8. Stopping /\ Starting /\ OffUnrouted /\ RoutedSoon /\ SavedSoon /\ Shown /\ ReadyBacked /\ LateWake
    BY <1>1, <1>3, <1>5, <1>6
       DEF Stopping, Starting, OffUnrouted, RoutedSoon, SavedSoon, Shown, ReadyBacked, LateWake
  <1> QED BY <1>1, <1>7, <1>8 DEF SupervisedInv

\* The invariant is kept by every step.
LEMMA NextSupervised ==
  ASSUME CommandsApart, SupervisedInv, [Next]_vars
  PROVE  SupervisedInv'
  <1>1. AccountedInv'
    BY NextAccounted DEF SupervisedInv
  <1>2. StepKind /\ Early = {}
    BY NextKinds DEF SupervisedInv, CommandsApart
  <1>3. Roles' /\ ChildHeld' /\ Alone' /\ Marked' /\ StillOnDisk' /\ Owned'
    BY <1>1, <1>2, RolesKept, ChildHeldKept, AloneKept, MarkedKept, StillOnDiskKept, OwnedKept DEF SupervisedInv
  <1>4. Stopping' /\ Starting' /\ OffUnrouted' /\ RoutedSoon' /\ SavedSoon'
    BY <1>2, StoppingKept, StartingKept, OffUnroutedKept, RoutedSoonKept, SavedSoonKept DEF SupervisedInv
  <1>5. Shown' /\ ReadyBacked' /\ LateWake'
    BY <1>2, ShownKept, ReadyBackedKept, LateWakeKept DEF SupervisedInv
  <1> QED BY <1>1, <1>3, <1>4, <1>5 DEF SupervisedInv

\* A group is owned by one thing.
LEMMA InvOneInstance == SupervisedInv => OneInstance
  <1> SUFFICES ASSUME SupervisedInv, NEW s \in Service, NEW p \in Instances(s), NEW q \in Instances(s)
               PROVE  p = q
    BY DEF OneInstance
  <1>0. TypeOK /\ None \notin Pid
    BY NoneAssumption, ServiceAssumption DEF SupervisedInv, AccountedInv
  <1>1. /\ p \in Pid /\ group[p].life # "gone" /\ group[p].svc = s /\ p \notin lost
        /\ q \in Pid /\ group[q].life # "gone" /\ group[q].svc = s /\ q \notin lost
    BY DEF Instances
  <1>2. ASSUME NEW x \in Pid, Held(x), group[x].life # "gone", group[x].svc = s
        PROVE  \E r \in Runner : /\ runner[r].child = x /\ runner[r].svc = s
                                 /\ ~Finished(r) /\ runner[r].pc \notin Waking
    BY <1>0, <1>2 DEF SupervisedInv, ChildHeld, Held, Gone, Holding, Waking, Finished
  <1>3. CASE Held(p) /\ Held(q)
    <2>1. PICK r \in Runner : runner[r].child = p /\ runner[r].svc = s /\ ~Finished(r) /\ runner[r].pc \notin Waking
      BY <1>1, <1>2, <1>3
    <2>2. PICK t \in Runner : runner[t].child = q /\ runner[t].svc = s /\ ~Finished(t) /\ runner[t].pc \notin Waking
      BY <1>1, <1>2, <1>3
    <2> QED BY <2>1, <2>2 DEF SupervisedInv, Alone
  <1>4. Held(p) \/ Held(q) => daemon # "off" /\ loaded[s] = None
    <2>1. Held(p) \/ Held(q) => \E r \in Runner : ~Finished(r)
      BY <1>1, <1>2
    <2> QED BY <2>1 DEF SupervisedInv, AccountedInv, OffIsEmpty, Roles, Booting
  <1>5. /\ Held(p) \/ loaded[s] = p \/ (daemon = "off" /\ disk[s].marker = p)
        /\ Held(q) \/ loaded[s] = q \/ (daemon = "off" /\ disk[s].marker = q)
    BY <1>1 DEF SupervisedInv, Owned
  <1>6. loaded[s] # None => daemon # "off"
    BY DEF SupervisedInv, Roles
  <1> QED BY <1>0, <1>1, <1>3, <1>4, <1>5, <1>6

\* Whoever owns a group, services.json or restore knows of it but for the
\* moment between a spawn and its save.
LEMMA InvRecoverable == SupervisedInv => Recoverable
  <1> SUFFICES ASSUME SupervisedInv, NEW s \in Service, NEW p \in Instances(s)
               PROVE  \/ disk[s].marker = p
                      \/ loaded[s] = p
                      \/ \E r \in Runner : runner[r].child = p /\ runner[r].pc \in {"record", "save"}
    BY DEF Recoverable
  <1>0. TypeOK /\ None \notin Pid
    BY NoneAssumption, ServiceAssumption DEF SupervisedInv, AccountedInv
  <1>1. p \in Pid /\ group[p].life # "gone" /\ group[p].svc = s /\ p \notin lost
    BY DEF Instances
  <1>2. CASE Held(p)
    <2>1. PICK r \in Runner : runner[r].child = p
      BY <1>2 DEF Held
    <2>2. runner[r].pc \in Holding /\ runner[r].svc = s
      BY <1>0, <1>1, <2>1 DEF SupervisedInv, ChildHeld, Gone
    <2> QED BY <2>1, <2>2 DEF SupervisedInv, Marked, Holding
  <1> QED BY <1>1, <1>2 DEF SupervisedInv, Owned

\* A service that has been stopped has no runner, and no marker left to act on.
LEMMA InvDownMeansDown == ASSUME CommandsApart PROVE SupervisedInv => DownMeansDown
  <1> SUFFICES ASSUME SupervisedInv, NEW c \in Client, NEW s \in Service, daemon = "up",
                      proc[c].pc = "unroute", Target(c, s), NEW p \in Instances(s)
               PROVE  FALSE
    BY DEF DownMeansDown
  <1>0. TypeOK /\ None \notin Pid /\ c \in Proc
    BY NoneAssumption, ServiceAssumption DEF SupervisedInv, AccountedInv, Proc
  <1>1. p \in Pid /\ group[p].life # "gone" /\ group[p].svc = s /\ p \notin lost
    BY DEF Instances
  <1>2. loaded[s] = None
    BY DEF SupervisedInv, Roles, Restored
  <1>3. Held(p)
    BY <1>0, <1>1, <1>2 DEF SupervisedInv, Owned
  <1>4. PICK r \in Runner : runner[r].child = p
    BY <1>3 DEF Held
  <1>5. runner[r].pc \in Holding /\ runner[r].svc = s
    BY <1>0, <1>1, <1>4 DEF SupervisedInv, ChildHeld, Gone
  <1>6. runner[r].pc = "done"
    BY <1>0, <1>5, NothingToMark DEF SupervisedInv
  <1> QED BY <1>5, <1>6 DEF Holding

\* The shown state is the runner's, and a runner that holds a group shows it.
LEMMA InvHonestStatus == SupervisedInv => HonestStatus
  <1> SUFFICES ASSUME SupervisedInv, NEW s \in Service, daemon = "up"
               PROVE  /\ slot[s].state = "Stopped" => Instances(s) \subseteq {loaded[s]}
                      /\ slot[s].state = "Ready" =>
                           \E r \in Runner : runner[r].svc = s /\ ~Finished(r) /\ ~At(r, "ending")
    BY DEF HonestStatus
  <1>0. TypeOK /\ None \notin Pid
    BY NoneAssumption, ServiceAssumption DEF SupervisedInv, AccountedInv
  <1>1. ASSUME slot[s].state = "Stopped", NEW p \in Instances(s) PROVE p = loaded[s]
    <2>1. p \in Pid /\ group[p].life # "gone" /\ group[p].svc = s /\ p \notin lost
      BY DEF Instances
    <2>2. CASE Held(p)
      <3>1. PICK r \in Runner : runner[r].child = p
        BY <2>2 DEF Held
      <3>2. runner[r].pc \in Holding /\ runner[r].svc = s
        BY <1>0, <2>1, <3>1 DEF SupervisedInv, ChildHeld, Gone
      <3> QED BY <1>1, <3>2 DEF SupervisedInv, Shown, Holding
    <2> QED BY <2>1, <2>2 DEF SupervisedInv, Owned
  <1>2. slot[s].state = "Ready" => \E r \in Runner : runner[r].svc = s /\ ~Finished(r) /\ ~At(r, "ending")
    BY DEF SupervisedInv, ReadyBacked, Finished, At
  <1> QED BY <1>1, <1>2

\* With no procedure under way nothing is left to route or to save.
LEMMA InvIntentSettled == SupervisedInv => IntentSettled
  <1> SUFFICES ASSUME SupervisedInv, Quiet
               PROVE  /\ routed = {s \in Service : slot[s].desired}
                      /\ \A s \in Service : disk[s].desired = slot[s].desired
    BY DEF IntentSettled
  <1>1. routed \subseteq Service
    BY DEF SupervisedInv, AccountedInv, TypeOK
  <1>2. \A s \in Service : slot[s].desired <=> s \in routed
    BY DEF SupervisedInv, RoutedSoon, Quiet, Booting, Upping
  <1>3. \A s \in Service : disk[s].desired = slot[s].desired
    BY DEF SupervisedInv, SavedSoon, Quiet
  <1> QED BY <1>1, <1>2, <1>3

\* A runner the shutdown does not wait for has no group and gets none.
LEMMA ExitStopsAll ==
  ASSUME CanDown = {}, SupervisedInv, Exit, NEW r \in Runner
  PROVE  runner[r].child = None
  <1> SUFFICES ASSUME runner[r].child # None PROVE FALSE
    OBVIOUS
  <1>0. r # None
    BY NoneAssumption, ServiceAssumption
  <1>1. runner[r].pc \in Holding /\ daemon = "stopping" /\ \A q \in awaited : Finished(q)
    BY DEF SupervisedInv, ChildHeld, Exit
  <1>2. \A d \in Proc : proc[d].pc # "join"
    BY DEF SupervisedInv, Roles, Downing, Proc
  <1>3. slot[runner[r].svc].task = r
    BY <1>0, <1>1, <1>2 DEF SupervisedInv, AccountedInv, Accounted, JoinHolds, Finished, Holding
  <1> QED BY <1>1, <1>3 DEF SupervisedInv, LateWake, Finished, Holding, Waking

\* The invariant holds in every state, if commands are apart.
THEOREM AlwaysSupervised == ASSUME CommandsApart PROVE Spec => []SupervisedInv
  <1>1. SupervisedInv /\ [Next]_vars => SupervisedInv'
    BY NextSupervised
  <1> QED BY <1>1, InitSupervised, PTL DEF Spec

\* A service never has two live process groups: the one lock hold of `up`
\* (supervisor.rs:1184) finds the runner that is there, a runner sweeps a group
\* before its next attempt, and restore reclaims before anything is started.
THEOREM NeverTwoInstances == ASSUME CommandsApart PROVE Spec => []OneInstance
  <1> QED BY AlwaysSupervised, InvOneInstance, PTL

\* Whenever the daemon may die, the next one can reclaim every live group:
\* the marker is saved right after the spawn, and is cleared only when the
\* group has been swept.
THEOREM AlwaysRecoverable == ASSUME CommandsApart PROVE Spec => []Recoverable
  <1> QED BY AlwaysSupervised, InvRecoverable, PTL

\* `down` goes on to drop the route only when no group of the service is left
\* (supervisor.rs:1218).
THEOREM DownIsDown == ASSUME CommandsApart PROVE Spec => []DownMeansDown
  <1> QED BY AlwaysSupervised, InvDownMeansDown, PTL

\* `status` shows Stopped only when nothing runs and Ready only under a live
\* runner (set_state in run_service).
THEOREM StatusIsHonest == ASSUME CommandsApart PROVE Spec => []HonestStatus
  <1> QED BY AlwaysSupervised, InvHonestStatus, PTL

\* When no command is in progress the registry and services.json agree with
\* the intent in the slots (the trailing persist of `up` and `down`).
THEOREM IntentIsSettled == ASSUME CommandsApart PROVE Spec => []IntentSettled
  <1> QED BY AlwaysSupervised, InvIntentSettled, PTL

\* shutdown_all exits with no group left (supervisor.rs:1277), whatever `up`s
\* come meanwhile.
THEOREM ShutdownIsComplete == ASSUME Early = {}, CanDown = {} PROVE Spec => ShutdownStopsAll
  <1>1. SupervisedInv /\ [Next]_vars => [Exit => \A r \in Runner : runner[r].child = None]_vars
    BY ExitStopsAll
  <1>2. Spec => []SupervisedInv
    BY AlwaysSupervised DEF CommandsApart
  <1> QED BY <1>1, <1>2, PTL DEF Spec, ShutdownStopsAll

===============================================================================
