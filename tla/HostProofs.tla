---------------------------- MODULE HostProofs --------------------------------
(***************************************************************************)
(* Proofs about Boot: a managed broker is sealed from the moment it can be  *)
(* reached, for any services, routes and connections, and any sequence of    *)
(* starts, failures, kills and saves that may or may not reach the disk.     *)
(* And about Install: what the commands run with sudo say is so, whichever   *)
(* of their steps fails, for any releases, units and TLDs.                   *)
(***************************************************************************)
EXTENDS Boot, Install, TLAPS

Steps == {"off", "stores", "configure", "docker", "restore", "token", "seed", "bind", "spawn", "running", "ending"}
Tables == [Gates -> {"absent", "open", "sealed"}]
BootRec == [step : Steps, mode : {"legacy", "managed"}, auth : BOOLEAN, bound : BOOLEAN]
OpenedRec == [jobs : SUBSET Jobs, gates : Tables, marker : BOOLEAN]
ControlRec == [pc : {"idle", "connected", "sent", "done"}, peer : {"owner", "other"},
               token : {"none", "wrong", "right"}, kind : ControlKinds,
               answer : {"none", "ok", "error", "denied", "lost"}, by : {"nobody", "legacy", "managed"}]
BootTypes ==
    /\ boot \in BootRec /\ opened \in OpenedRec
    /\ jobs \in SUBSET Jobs /\ gates \in Tables
    /\ restoring \in [step : {"none", "spawned", "read", "failed", "done"}, jobs : SUBSET Jobs, gates : Tables]
    /\ controls \in [Controls -> ControlRec]

\* Only a daemon that runs has tasks, a socket and connections.
Serving == boot.step \in {"running", "ending"}
OnlyServed ==
    /\ duties # {} => Serving
    /\ socket = "listening" => Serving
    /\ \A c \in Controls : /\ controls[c].pc \in {"connected", "sent"} => Serving
                           /\ controls[c].pc # "done" => controls[c].answer = "none"
    /\ boot.step = "off" => restoring.step = "none" /\ boot.mode = "legacy"

\* A broker past its restore has no service and no open route, it never has
\* the ordinary restore beside it, and where it spawns its tasks it is bound.
NoneOpen(table) == \A g \in Gates : table[g] # "open"
Emptied ==
    /\ Managed => restoring.step \in {"none", "done"}
    /\ Managed /\ boot.step \in {"token", "seed", "bind", "spawn", "running", "ending"} =>
           jobs = {} /\ opened.jobs = {} /\ NoneOpen(gates) /\ NoneOpen(opened.gates)
    /\ Managed /\ Reachable => boot.bound
MarkerSeen == opened.marker /\ ~Managed => boot.step \in {"off", "stores", "configure"}
AnswersEarned ==
    \A c \in Controls :
        /\ controls[c].answer = "ok" /\ controls[c].by = "managed" =>
               controls[c].token = "right" /\ controls[c].kind \notin {"bridge", "start"}
        /\ controls[c].answer \in {"ok", "error"} => controls[c].peer # "other"
BootInv == BootTypes /\ OnlyServed /\ Emptied /\ MarkerSeen /\ AnswersEarned

-----------------------------------------------------------------------------
\* It holds initially (daemon_main has not begun).
LEMMA InitSealed == BootInit => BootInv
<1> SUFFICES ASSUME BootInit PROVE BootInv
  OBVIOUS
<1>1. boot \in BootRec /\ boot.step = "off" /\ boot.mode = "legacy"
  BY DEF BootInit, Off, BootRec, Steps
<1>2. opened \in OpenedRec /\ ~opened.marker
  BY DEF BootInit, OpenedRec, Tables
<1>3. NoGate \in Tables
  BY DEF NoGate, Tables
<1>4. Unasked \in ControlRec
  BY DEF Unasked, ControlRec, ControlKinds
<1>5. BootTypes
  BY <1>1, <1>2, <1>3, <1>4 DEF BootInit, BootTypes, Unrestored
<1>6. OnlyServed /\ AnswersEarned
  BY <1>1 DEF BootInit, OnlyServed, AnswersEarned, Unasked, Unrestored
<1> QED BY <1>1, <1>2, <1>5, <1>6 DEF BootInv, Emptied, MarkerSeen, Managed, Reachable

\* However the process ends, what is left is what the next start may find.
LEMMA EndSealed ==
  ASSUME BootInv, Ends, opened' \in OpenedRec
  PROVE  BootInv'
<1>1. boot' \in BootRec /\ boot'.step = "off" /\ boot'.mode = "legacy"
  BY DEF Ends, Off, BootRec, Steps
<1>2. NoGate \in Tables
  BY DEF NoGate, Tables
<1>3. ASSUME NEW c \in Controls
      PROVE  /\ controls'[c] \in ControlRec
             /\ controls'[c].pc \notin {"connected", "sent"}
             /\ controls'[c].pc # "done" => controls'[c].answer = "none"
             /\ controls'[c].answer = "lost" \/ controls'[c] = controls[c]
  <2>1. controls[c] \in ControlRec /\ (controls[c].pc # "done" => controls[c].answer = "none")
    BY DEF BootInv, BootTypes, OnlyServed
  <2>2. CASE controls[c].pc \in {"connected", "sent"}
    <3>1. controls'[c] = [controls[c] EXCEPT !.pc = "done", !.answer = "lost"]
      BY <2>2 DEF Ends
    <3> QED BY <2>1, <3>1 DEF ControlRec
  <2>3. CASE controls[c].pc \notin {"connected", "sent"}
    BY <2>1, <2>3 DEF Ends
  <2> QED BY <2>2, <2>3
<1>4. BootTypes'
  <2>1. controls' \in [Controls -> ControlRec]
    BY <1>3 DEF Ends
  <2> QED BY <1>1, <1>2, <2>1 DEF BootTypes, Ends, Unrestored
<1>5. OnlyServed'
  BY <1>1, <1>3 DEF BootInv, BootTypes, OnlyServed, Ends, Unrestored
<1>6. AnswersEarned'
  BY <1>3 DEF BootInv, AnswersEarned
<1> QED BY <1>1, <1>4, <1>5, <1>6 DEF BootInv, Emptied, MarkerSeen, Managed, Reachable

\* The connections are as they were.
LEMMA ControlsSame ==
  ASSUME BootInv, controls' = controls, duties' # {} => Serving', socket' = "listening" => Serving',
         Serving => Serving', boot'.step = "off" => restoring'.step = "none" /\ boot'.mode = "legacy"
  PROVE  OnlyServed' /\ AnswersEarned'
  BY DEF BootInv, OnlyServed, AnswersEarned

\* What every step of the start does with boot.
Onward(to) == /\ boot' \in BootRec /\ boot'.step = to
              /\ boot'.mode = boot.mode /\ (boot.bound => boot'.bound)
LEMMA GoesOn ==
  ASSUME BootInv, NEW to \in Steps, Goes(to)
  PROVE  Onward(to)
  BY DEF BootInv, BootTypes, BootRec, Goes, Onward

\* The steps of the start that touch nothing but themselves.
LEMMA StartSealed ==
  ASSUME BootInv, StartDaemon \/ OpenStores \/ ConnectDocker \/ PrepareToken \/ BindManaged
  PROVE  BootInv'
<1>1. UNCHANGED <<opened, jobs, gates, restoring, duties, socket, controls>>
  BY DEF StartDaemon, OpenStores, ConnectDocker, PrepareToken, BindManaged, memory
<1>2. CASE StartDaemon
  <2>1. boot' \in BootRec /\ boot'.step = "stores"
    BY <1>2 DEF StartDaemon, BootRec, Steps
  <2>2. restoring.step = "none" /\ ~Serving
    BY <1>2 DEF BootInv, OnlyServed, StartDaemon, AtStep, Serving
  <2>3. OnlyServed' /\ AnswersEarned'
    BY <1>1, <2>1, <2>2, ControlsSame DEF BootInv, OnlyServed
  <2>4. BootTypes'
    BY <1>1, <2>1 DEF BootInv, BootTypes
  <2>5. Emptied' /\ MarkerSeen'
    BY <1>1, <2>1, <2>2 DEF Emptied, MarkerSeen, Reachable, Managed
  <2> QED BY <2>3, <2>4, <2>5 DEF BootInv
<1>3. CASE OpenStores
  <2>1. Onward("configure") /\ boot.step = "stores"
    BY <1>3, GoesOn DEF OpenStores, AtStep, Steps
  <2>3. OnlyServed' /\ AnswersEarned'
    BY <1>1, <2>1, ControlsSame DEF BootInv, OnlyServed, Serving, Onward
  <2> QED BY <1>1, <2>1, <2>3 DEF BootInv, BootTypes, Emptied, MarkerSeen, Reachable, Managed, Onward
<1>4. CASE ConnectDocker
  <2>1. /\ boot.step = "docker"
        /\ (Managed /\ Onward("restore")) \/ (~Managed /\ Onward("token"))
    BY <1>4, GoesOn DEF ConnectDocker, AtStep, Steps
  <2>3. OnlyServed' /\ AnswersEarned'
    BY <1>1, <2>1, ControlsSame DEF BootInv, OnlyServed, Serving, Onward
  <2> QED BY <1>1, <2>1, <2>3 DEF BootInv, BootTypes, Emptied, MarkerSeen, Reachable, Managed, Onward
<1>5. CASE PrepareToken
  <2>1. Onward("seed") /\ boot.step = "token"
    BY <1>5, GoesOn DEF PrepareToken, AtStep, Steps
  <2>3. OnlyServed' /\ AnswersEarned'
    BY <1>1, <2>1, ControlsSame DEF BootInv, OnlyServed, Serving, Onward
  <2> QED BY <1>1, <2>1, <2>3 DEF BootInv, BootTypes, Emptied, MarkerSeen, Reachable, Managed, Onward
<1>6. CASE BindManaged
  <2>1. Onward("spawn") /\ boot.step = "bind" /\ boot'.bound
    BY <1>6 DEF BindManaged, AtStep, Steps, BootInv, BootTypes, BootRec, Onward
  <2>3. OnlyServed' /\ AnswersEarned'
    BY <1>1, <2>1, ControlsSame DEF BootInv, OnlyServed, Serving, Onward
  <2> QED BY <1>1, <2>1, <2>3 DEF BootInv, BootTypes, Emptied, MarkerSeen, Reachable, Managed, Onward
<1> QED BY <1>2, <1>3, <1>4, <1>5, <1>6

\* The marker is written, or its absence checked (configure_managed_broker).
LEMMA ConfigureSealed ==
  ASSUME BootInv, ConfigureBroker
  PROVE  BootInv'
<1>1. Onward("docker") /\ boot.step = "configure" /\ UNCHANGED <<jobs, gates, restoring, duties, socket, controls>>
  BY GoesOn DEF ConfigureBroker, AtStep, Steps, memory
<1>2. opened' \in OpenedRec /\ opened'.marker = Managed
  BY DEF ConfigureBroker, BootInv, BootTypes, OpenedRec, Managed
<1>3. OnlyServed' /\ AnswersEarned'
  BY <1>1, ControlsSame DEF BootInv, OnlyServed, Serving, Onward
<1>4. MarkerSeen'
  BY <1>1, <1>2 DEF MarkerSeen, Managed, Onward
<1>5. BootTypes'
  BY <1>1, <1>2 DEF BootInv, BootTypes, Onward
<1>6. Emptied'
  BY <1>1 DEF BootInv, Emptied, Reachable, Managed, Onward
<1> QED BY <1>3, <1>4, <1>5, <1>6 DEF BootInv

\* The broker's restore seals what it finds, and refuses services.
LEMMA RestoreSealed ==
  ASSUME BootInv, RestoreBroker
  PROVE  BootInv'
<1>1. Onward("token") /\ boot.step = "restore" /\ UNCHANGED <<restoring, duties, socket, controls>>
  BY GoesOn DEF RestoreBroker, AtStep, Steps
<1>2. Sealed(opened.gates) \in Tables /\ NoneOpen(Sealed(opened.gates))
  BY DEF Sealed, Tables, NoneOpen
<1>3. /\ opened' \in OpenedRec /\ opened'.marker = opened.marker
      /\ opened'.jobs = {} /\ opened'.gates = Sealed(opened.gates)
  BY <1>2 DEF RestoreBroker, BootInv, BootTypes, OpenedRec
<1>4. jobs' = {} /\ gates' = Sealed(opened.gates)
  BY DEF RestoreBroker
<1>5. OnlyServed' /\ AnswersEarned'
  BY <1>1, ControlsSame DEF BootInv, OnlyServed, Serving, Onward
<1> QED BY <1>1, <1>2, <1>3, <1>4, <1>5 DEF BootInv, BootTypes, Emptied, MarkerSeen, Reachable, Managed, Onward

\* The ordinary restore is spawned by an ordinary daemon only.
LEMMA SeedSealed ==
  ASSUME BootInv, SeedAndRestore
  PROVE  BootInv'
<1>1. /\ boot.step = "seed" /\ UNCHANGED <<opened, jobs, gates, duties, socket, controls>>
      /\ (Managed /\ Onward("bind")) \/ (~Managed /\ Onward("spawn"))
  BY GoesOn DEF SeedAndRestore, AtStep, Steps
<1>2. /\ restoring' \in [step : {"none", "spawned", "read", "failed", "done"}, jobs : SUBSET Jobs, gates : Tables]
      /\ Managed => restoring'.step = "done"
  BY DEF SeedAndRestore, BootInv, BootTypes
<1>3. OnlyServed' /\ AnswersEarned'
  BY <1>1, ControlsSame DEF BootInv, OnlyServed, Serving, Onward
<1> QED BY <1>1, <1>2, <1>3 DEF BootInv, BootTypes, Emptied, MarkerSeen, Reachable, Managed, Onward

\* The tasks are spawned, one ends or a signal comes.
LEMMA RunSealed ==
  ASSUME BootInv, SpawnTasks \/ (\E t \in duties : TaskEnds(t)) \/ Signalled \/ BindSocket
  PROVE  BootInv'
<1>1. UNCHANGED <<opened, jobs, gates, restoring, controls>>
  BY DEF SpawnTasks, TaskEnds, Signalled, BindSocket, memory
<1>2. \/ boot.step = "spawn" /\ Onward("running") /\ socket' = socket
      \/ boot.step = "running" /\ Onward("ending")
      \/ boot' = boot /\ Serving
  BY GoesOn DEF SpawnTasks, TaskEnds, Signalled, BindSocket, AtStep, Steps, BootInv, OnlyServed
<1>3. OnlyServed' /\ AnswersEarned'
  BY <1>1, <1>2, ControlsSame DEF BootInv, OnlyServed, Serving, Onward
<1> QED BY <1>1, <1>2, <1>3 DEF BootInv, BootTypes, Emptied, MarkerSeen, Reachable, Managed, Onward, Serving

\* A save that may not reach the disk leaves what was there or what was saved.
LEMMA SavesTyped ==
  ASSUME BootInv, NEW table \in Tables, NEW believed \in SUBSET Jobs, Saves(table, believed)
  PROVE  /\ opened' \in OpenedRec /\ opened'.marker = opened.marker
         /\ opened'.jobs \in {opened.jobs, believed} /\ opened'.gates \in {opened.gates, table}
<1>1. opened \in OpenedRec
  BY DEF BootInv, BootTypes
<1>2. CASE opened' = opened
  BY <1>1, <1>2
<1>3. CASE opened' = [opened EXCEPT !.jobs = believed, !.gates = table]
  <2>1. opened' = [jobs |-> believed, gates |-> table, marker |-> opened.marker]
    BY <1>1, <1>3 DEF OpenedRec
  <2> QED BY <1>1, <2>1 DEF OpenedRec
<1> QED BY <1>2, <1>3 DEF Saves

\* The ordinary restore never runs in a broker.
LEMMA ReadSealed ==
  ASSUME BootInv, RestoreReads \/ RestoreInserts
  PROVE  BootInv'
<1>1. boot' = boot /\ UNCHANGED <<duties, socket, controls>> /\ ~Managed /\ boot.step # "off"
  BY DEF RestoreReads, RestoreInserts, BootInv, Emptied, OnlyServed
<1>2. OnlyServed' /\ AnswersEarned'
  BY <1>1, ControlsSame DEF BootInv, OnlyServed, Serving
<1>3. CASE RestoreReads
  <2>1. restoring' \in [step : {"none", "spawned", "read", "failed", "done"}, jobs : SUBSET Jobs, gates : Tables]
    BY <1>3 DEF RestoreReads, BootInv, BootTypes, OpenedRec
  <2>2. UNCHANGED <<opened, jobs, gates>>
    BY <1>3 DEF RestoreReads
  <2> QED BY <1>1, <1>2, <2>1, <2>2 DEF BootInv, BootTypes, Emptied, MarkerSeen, Managed
<1>4. CASE RestoreInserts
  <2> DEFINE believed == jobs \cup restoring.jobs
             table == [g \in Gates |-> IF restoring.gates[g] = "absent" THEN gates[g] ELSE restoring.gates[g]]
  <2>1. believed \in SUBSET Jobs /\ table \in Tables
    BY DEF BootInv, BootTypes, Tables
  <2>2. jobs' = believed /\ gates' = table /\ Saves(table, believed)
    BY <1>4 DEF RestoreInserts
  <2>3. opened' \in OpenedRec /\ opened'.marker = opened.marker
    BY <2>1, <2>2, SavesTyped
  <2>4. restoring' \in [step : {"none", "spawned", "read", "failed", "done"}, jobs : SUBSET Jobs, gates : Tables]
    <3>1. NoGate \in Tables
      BY DEF NoGate, Tables
    <3> QED BY <1>4, <3>1 DEF RestoreInserts, Unrestored
  <2> QED BY <1>1, <1>2, <2>1, <2>2, <2>3, <2>4 DEF BootInv, BootTypes, Emptied, MarkerSeen, Managed
<1> QED BY <1>3, <1>4

-----------------------------------------------------------------------------
(* The control socket. *)

\* What one connection does to itself keeps the invariant if the daemon's own
\* state stays and the answer, if there is one, is earned.
Earned(r) == /\ r.answer = "ok" /\ r.by = "managed" => r.token = "right" /\ r.kind \notin {"bridge", "start"}
             /\ r.answer \in {"ok", "error"} => r.peer # "other"
LEMMA OneControl ==
  ASSUME BootInv, NEW c \in Controls, NEW r \in ControlRec, controls' = [controls EXCEPT ![c] = r],
         UNCHANGED <<boot, restoring, duties, socket>>,
         Earned(r), r.pc \in {"connected", "sent"} => Serving, r.pc # "done" => r.answer = "none"
  PROVE  OnlyServed' /\ AnswersEarned' /\ controls' \in [Controls -> ControlRec]
<1>1. controls' \in [Controls -> ControlRec]
  BY DEF BootInv, BootTypes
<1>2. \A d \in Controls : controls'[d] = IF d = c THEN r ELSE controls[d]
  BY DEF BootInv, BootTypes
<1> QED BY <1>1, <1>2 DEF BootInv, OnlyServed, AnswersEarned, Serving, Earned

LEMMA TalkSealed ==
  ASSUME BootInv, NEW c \in Controls, Connect(c) \/ SendRequest(c) \/ Hangup(c) \/ Forgets(c)
  PROVE  BootInv'
<1>1. UNCHANGED <<boot, opened, jobs, gates, restoring, duties, socket>>
  BY DEF Connect, SendRequest, Hangup, Forgets
<1>2. controls[c] \in ControlRec
  BY DEF BootInv, BootTypes
<1>3. \E r \in ControlRec : /\ controls' = [controls EXCEPT ![c] = r] /\ Earned(r)
                            /\ r.pc \in {"connected", "sent"} => Serving
                            /\ r.pc # "done" => r.answer = "none"
  <2>1. CASE Connect(c)
    <3>1. PICK p \in {"owner", "other"} : controls' = [controls EXCEPT ![c] =
             [@ EXCEPT !.peer = p, !.pc = IF socket = "listening" THEN "connected" ELSE "done",
                       !.answer = IF socket = "listening" THEN "none" ELSE "lost"]]
      BY <2>1 DEF Connect
    <3> DEFINE r == [controls[c] EXCEPT !.peer = p, !.pc = IF socket = "listening" THEN "connected" ELSE "done",
                       !.answer = IF socket = "listening" THEN "none" ELSE "lost"]
    <3>2. r \in ControlRec /\ controls' = [controls EXCEPT ![c] = r]
      BY <1>2, <3>1 DEF ControlRec, BootInv, BootTypes
    <3>3. /\ r.pc = IF socket = "listening" THEN "connected" ELSE "done"
          /\ r.answer = IF socket = "listening" THEN "none" ELSE "lost"
      BY <1>2 DEF ControlRec
    <3>4. socket = "listening" => Serving
      BY DEF BootInv, OnlyServed
    <3> HIDE DEF r
    <3>5. Earned(r) /\ (r.pc \in {"connected", "sent"} => Serving) /\ (r.pc # "done" => r.answer = "none")
      BY <3>3, <3>4 DEF Earned
    <3> QED BY <3>2, <3>5
  <2>2. CASE SendRequest(c)
    <3>1. PICK k \in ControlKinds, t \in {"none", "wrong", "right"} :
             controls' = [controls EXCEPT ![c] = [@ EXCEPT !.pc = "sent", !.kind = k, !.token = t]]
      BY <2>2 DEF SendRequest
    <3> DEFINE r == [controls[c] EXCEPT !.pc = "sent", !.kind = k, !.token = t]
    <3>2. r \in ControlRec /\ controls' = [controls EXCEPT ![c] = r]
      BY <1>2, <3>1 DEF ControlRec, BootInv, BootTypes
    <3>3. r.pc = "sent" /\ r.answer = controls[c].answer
      BY <1>2 DEF ControlRec
    <3>4. Serving /\ controls[c].answer = "none"
      BY <2>2 DEF SendRequest, Is, BootInv, OnlyServed
    <3> QED BY <3>2, <3>3, <3>4 DEF Earned
  <2>3. CASE Hangup(c)
    <3> DEFINE r == [controls[c] EXCEPT !.pc = "done", !.answer = "lost"]
    <3>2. r \in ControlRec /\ controls' = [controls EXCEPT ![c] = r]
      BY <1>2, <2>3 DEF Hangup, ControlRec, BootInv, BootTypes
    <3>3. r.pc = "done" /\ r.answer = "lost"
      BY <1>2 DEF ControlRec
    <3> QED BY <3>2, <3>3 DEF Earned
  <2>4. CASE Forgets(c)
    <3>1. controls' = [controls EXCEPT ![c] = Unasked]
      BY <2>4 DEF Forgets
    <3>2. Unasked \in ControlRec /\ Earned(Unasked)
      BY DEF Unasked, ControlRec, ControlKinds, Earned
    <3> QED BY <3>1, <3>2 DEF Unasked
  <2> QED BY <2>1, <2>2, <2>3, <2>4
<1>4. OnlyServed' /\ AnswersEarned' /\ controls' \in [Controls -> ControlRec]
  BY <1>1, <1>3, OneControl
<1> QED BY <1>1, <1>4 DEF BootInv, BootTypes, Emptied, MarkerSeen, Managed, Reachable

LEMMA SaysEarned ==
  ASSUME BootInv, NEW c \in Controls, NEW answer \in {"ok", "error", "denied"}, Says(c, answer),
         UNCHANGED <<boot, restoring, duties, socket>>, controls[c].peer # "other",
         answer = "ok" /\ Managed => controls[c].token = "right" /\ controls[c].kind \notin {"bridge", "start"}
  PROVE  OnlyServed' /\ AnswersEarned' /\ controls' \in [Controls -> ControlRec]
<1> DEFINE r == [controls[c] EXCEPT !.pc = "done", !.answer = answer, !.by = boot.mode]
<1>1. controls[c] \in ControlRec /\ boot.mode \in {"legacy", "managed"}
  BY DEF BootInv, BootTypes, BootRec
<1>2. /\ r \in ControlRec /\ r.pc = "done" /\ r.answer = answer /\ r.by = boot.mode
      /\ r.token = controls[c].token /\ r.kind = controls[c].kind /\ r.peer = controls[c].peer
  BY <1>1 DEF ControlRec
<1>3. controls' = [controls EXCEPT ![c] = r]
  BY DEF Says, BootInv, BootTypes
<1>4. Earned(r)
  BY <1>2 DEF Earned, Managed
<1> HIDE DEF r
<1> QED BY <1>2, <1>3, <1>4, OneControl

\* What a request may do to the daemon and to services.json.
LEMMA AskedSealed ==
  ASSUME BootInv, NEW c \in Controls, controls[c].pc = "sent", controls[c].peer # "other",
         UNCHANGED <<boot, restoring, duties, socket>>, Managed => controls[c].token = "right",
         Dispatch(c)
  PROVE  BootInv'
<1>1. Serving
  BY DEF BootInv, OnlyServed
<1>2. Managed => jobs = {} /\ opened.jobs = {} /\ NoneOpen(gates) /\ NoneOpen(opened.gates)
  BY <1>1 DEF BootInv, Emptied, Serving
<1> DEFINE Kept == /\ jobs' \in SUBSET Jobs /\ gates' \in Tables
                   /\ opened' \in OpenedRec /\ opened'.marker = opened.marker
                   /\ Managed => jobs' = {} /\ opened'.jobs = {} /\ NoneOpen(gates') /\ NoneOpen(opened'.gates)
                   /\ OnlyServed' /\ AnswersEarned' /\ controls' \in [Controls -> ControlRec]
<1>3. ASSUME UNCHANGED <<opened, jobs, gates>>, NEW answer \in {"ok", "error"}, Says(c, answer),
             answer = "ok" /\ Managed => controls[c].kind \notin {"bridge", "start"}
      PROVE  Kept
  BY <1>2, <1>3, SaysEarned DEF BootInv, BootTypes
<1>4. ASSUME SyncControl(c), controls[c].kind = "sync" PROVE Kept
  <2>1. PICK believed \in SUBSET Jobs, asked \in SUBSET Gates :
          LET table == [g \in Gates |-> IF g \in asked THEN (IF Managed THEN "sealed" ELSE "open") ELSE "absent"]
          IN  IF Managed /\ believed # {} THEN Says(c, "error") /\ UNCHANGED <<opened, jobs, gates>>
              ELSE \/ /\ Says(c, "ok") /\ jobs' = believed /\ gates' = table
                      /\ IF Managed THEN opened' = [opened EXCEPT !.gates = table] ELSE Saves(table, believed)
                   \/ /\ Managed /\ Says(c, "error")
                      /\ Saves(table, {}) /\ UNCHANGED <<jobs, gates>>
    BY <1>4 DEF SyncControl
  <2> DEFINE table == [g \in Gates |-> IF g \in asked THEN (IF Managed THEN "sealed" ELSE "open") ELSE "absent"]
  <2>2. table \in Tables /\ (Managed => NoneOpen(table))
    BY DEF Tables, NoneOpen
  <2> HIDE DEF table
  <2>3. CASE Managed /\ believed # {}
    BY <1>3, <2>1, <2>3
  <2>4. CASE /\ ~(Managed /\ believed # {}) /\ Says(c, "ok") /\ jobs' = believed /\ gates' = table
             /\ IF Managed THEN opened' = [opened EXCEPT !.gates = table] ELSE Saves(table, believed)
    <3>1. OnlyServed' /\ AnswersEarned' /\ controls' \in [Controls -> ControlRec]
      BY <1>4, <2>4, SaysEarned
    <3>2. CASE Managed
      <4>1. opened' = [opened EXCEPT !.gates = table] /\ opened \in OpenedRec
        BY <2>4, <3>2 DEF BootInv, BootTypes
      <4>2. opened' \in OpenedRec /\ opened'.marker = opened.marker /\ opened'.jobs = opened.jobs /\ opened'.gates = table
        BY <2>2, <4>1 DEF OpenedRec
      <4> QED BY <1>2, <2>2, <2>4, <3>1, <3>2, <4>2
    <3>3. CASE ~Managed
      BY <2>2, <2>4, <3>1, <3>3, SavesTyped
    <3> QED BY <3>2, <3>3
  <2>5. CASE Managed /\ Says(c, "error") /\ Saves(table, {}) /\ UNCHANGED <<jobs, gates>>
    <3>1. OnlyServed' /\ AnswersEarned' /\ controls' \in [Controls -> ControlRec]
      BY <2>5, SaysEarned
    <3>2. /\ opened' \in OpenedRec /\ opened'.marker = opened.marker
          /\ opened'.jobs \in {opened.jobs, {}} /\ opened'.gates \in {opened.gates, table}
      BY <2>2, <2>5, SavesTyped
    <3> QED BY <1>2, <2>2, <2>5, <3>1, <3>2 DEF BootInv, BootTypes
  <2> QED BY <2>1, <2>3, <2>4, <2>5 DEF table
<1>5. ASSUME ForgetControl(c), controls[c].kind = "forget" PROVE Kept
  <2>1. CASE jobs = {}
    BY <1>3, <1>5, <2>1 DEF ForgetControl
  <2>2. CASE jobs # {}
    <3>1. PICK j \in jobs : Says(c, "ok") /\ jobs' = jobs \ {j} /\ Saves(gates, jobs \ {j}) /\ UNCHANGED gates
      BY <1>5, <2>2 DEF ForgetControl
    <3>2. OnlyServed' /\ AnswersEarned' /\ controls' \in [Controls -> ControlRec]
      BY <1>2, <2>2, <3>1, SaysEarned
    <3>3. gates \in Tables /\ jobs \in SUBSET Jobs
      BY DEF BootInv, BootTypes
    <3> QED BY <1>2, <2>2, <3>1, <3>2, <3>3, SavesTyped
  <2> QED BY <2>1, <2>2
<1>6. Kept
  <2>1. controls[c].kind \in ControlKinds
    BY DEF BootInv, BootTypes, ControlRec
  <2>2. CASE controls[c].kind = "sync"
    BY <1>4, <2>2 DEF Dispatch
  <2>3. CASE controls[c].kind = "forget"
    BY <1>5, <2>3 DEF Dispatch
  <2>4. CASE controls[c].kind = "bridge"
    BY <1>3, <2>4 DEF Dispatch
  <2>5. CASE controls[c].kind = "start"
    <3>1. Says(c, IF Managed \/ jobs = {} THEN "error" ELSE "ok") /\ UNCHANGED <<opened, jobs, gates>>
      BY <2>5 DEF Dispatch
    <3> QED BY <1>3, <3>1
  <2>6. CASE controls[c].kind = "read"
    BY <1>3, <2>6 DEF Dispatch
  <2> QED BY <2>1, <2>2, <2>3, <2>4, <2>5, <2>6 DEF ControlKinds
<1> QED BY <1>6 DEF BootInv, BootTypes, Emptied, MarkerSeen, Managed, Reachable

\* authenticate_control comes before everything a request does.
LEMMA HandleSealed ==
  ASSUME BootInv, NEW c \in Controls, HandleClient(c)
  PROVE  BootInv'
<1>1. controls[c].pc = "sent" /\ controls[c].peer # "other" /\ UNCHANGED <<boot, restoring, duties, socket>>
  BY DEF HandleClient, Is
<1>2. CASE authenticate_control(controls[c].token)
  <2>1. Dispatch(c) /\ (Managed => controls[c].token = "right")
    BY <1>2 DEF HandleClient, authenticate_control
  <2> QED BY <1>1, <2>1, AskedSealed
<1>3. CASE ~authenticate_control(controls[c].token)
  <2>1. Says(c, "denied") /\ UNCHANGED <<opened, jobs, gates>>
    BY <1>3 DEF HandleClient
  <2>2. OnlyServed' /\ AnswersEarned' /\ controls' \in [Controls -> ControlRec]
    BY <1>1, <2>1, SaysEarned
  <2> QED BY <1>1, <2>1, <2>2 DEF BootInv, BootTypes, Emptied, MarkerSeen, Managed, Reachable
<1> QED BY <1>2, <1>3

-----------------------------------------------------------------------------
\* The invariant holds of every state.
THEOREM BootHolds == BootSpec => []BootInv
<1>1. BootInit => BootInv
  BY InitSealed
<1>2. BootInv /\ [BootNext]_bootVars => BootInv'
  <2> SUFFICES ASSUME BootInv, [BootNext]_bootVars PROVE BootInv'
    OBVIOUS
  <2>1. ASSUME BootFails \/ Killed PROVE BootInv'
    BY <2>1, EndSealed DEF BootFails, Killed, BootInv, BootTypes
  <2>2. ASSUME ShutdownDaemon PROVE BootInv'
    <3>1. Saves(gates, jobs) /\ gates \in Tables /\ jobs \in SUBSET Jobs
      BY <2>2 DEF ShutdownDaemon, BootInv, BootTypes
    <3> QED BY <2>2, <3>1, SavesTyped, EndSealed DEF ShutdownDaemon
  <2>3. ASSUME UNCHANGED bootVars PROVE BootInv'
    BY <2>3 DEF bootVars, BootInv, BootTypes, OnlyServed, Serving, Emptied, MarkerSeen, AnswersEarned, Managed, Reachable
  <2> QED BY <2>1, <2>2, <2>3, StartSealed, ConfigureSealed, RestoreSealed, SeedSealed, RunSealed, ReadSealed,
             TalkSealed, HandleSealed DEF BootNext
<1> QED BY <1>1, <1>2, PTL DEF BootSpec

\* A managed broker that can be reached has no service and no open route, not
\* in services.json either; its directory is never an ordinary daemon's again;
\* and what it did was asked with the token (supervisor.rs:572-581, 702,
\* 1490-1500, ipc_server.rs:86-117).
THEOREM BrokerAlwaysSealed == BootSpec => []BrokerSealed
<1>1. BootInv => BrokerSealed
  <2> SUFFICES ASSUME BootInv PROVE BrokerSealed
    OBVIOUS
  <2>1. Managed /\ Reachable => /\ boot.bound /\ jobs = {} /\ opened.jobs = {}
                                /\ \A g \in Gates : gates[g] # "open" /\ opened.gates[g] # "open"
    BY DEF BootInv, Emptied, Reachable, NoneOpen
  <2> QED BY <2>1 DEF BootInv, MarkerSeen, AnswersEarned, BrokerSealed
<1> QED BY <1>1, BootHolds, PTL


-----------------------------------------------------------------------------
(* The commands run with sudo leave the machine as they say.                  *)

SetupSteps == {"idle", "binaries", "unit", "bootout", "sweep", "await", "bootstrap", "reload", "enable",
               "restart", "done", "failed", "teardown", "sweepout", "unlink", "remove", "removed"}
MachineTypes ==
    /\ os \in {"macos", "linux"}
    /\ machine \in [bin : Releases \cup {0}, unit : Units \cup {0}, loaded : Units \cup {0}]
    /\ proc \in [st : {"none", "running", "draining"}, bin : Releases \cup {0}, unit : Units \cup {0}]
    /\ setup \in [pc : SetupSteps, bin : Releases \cup {0}, unit : Units \cup {0}, refused : BOOLEAN]

\* An install that got this far has put its binary, its unit, and its unit into
\* the manager.
Installed ==
    /\ setup.pc \in {"unit", "bootout", "sweep", "await", "bootstrap", "reload", "enable", "restart", "done"} =>
           machine.bin = setup.bin
    /\ setup.pc \in {"bootout", "sweep", "await", "bootstrap", "reload", "enable", "restart", "done"} =>
           machine.unit = setup.unit
    /\ setup.pc \in {"restart", "done"} => machine.loaded = setup.unit
    /\ Doing("done") /\ proc.st # "none" =>
           proc = [st |-> "running", bin |-> setup.bin, unit |-> setup.unit]
\* An uninstall that was refused nothing so far has stopped the daemon for good,
\* and then removed the unit: after the sweep on macOS, before it on Linux.
Uninstalled ==
    ~setup.refused =>
        /\ setup.pc \in {"sweepout", "unlink", "remove", "removed"} => machine.loaded = 0 /\ proc.st # "running"
        /\ setup.pc \in {"remove", "removed"} \/ (Doing("sweepout") /\ os = "linux") => machine.unit = 0
        /\ Doing("removed") => machine.bin = 0
MachineInv == MachineTypes /\ Installed /\ Uninstalled

DomainTypes ==
    /\ resolvers \in [Domains -> {"absent", "ours", "other", "torn"}]
    /\ others \subseteq Domains /\ known \subseteq Domains /\ stale \in BOOLEAN
    /\ chore \in [pc : {"idle", "port", "file", "write", "tell"}, kind : {"add", "remove"},
                  tld : Domains \cup {CHOOSE d \in Domains : TRUE}]
    /\ ~ChoreAt("idle") => chore.tld \in Domains

\* A command's file is as it found or left it, and not another program's; the
\* daemon knows the others that are ours, and that one too but while the file
\* is ahead of what the daemon was told.
ChoreHolds ==
    /\ ChoreAt("port") => chore.kind = "add" /\ resolvers[chore.tld] \in {"absent", "ours"}
    /\ ChoreAt("file") => resolvers[chore.tld] \in (IF chore.kind = "add" THEN {"absent", "ours"} ELSE {"ours"})
    /\ ChoreAt("write") => chore.kind = "add" /\ resolvers[chore.tld] = "torn"
    /\ ChoreAt("tell") => resolvers[chore.tld] = IF chore.kind = "add" THEN "ours" ELSE "absent"
Ahead == IF chore.pc \in {"write", "tell"} THEN {chore.tld} ELSE {}
DomainInv ==
    /\ DomainTypes /\ ChoreHolds
    /\ \A d \in Domains : d \in others <=> resolvers[d] = "other"
    /\ proc.st # "none" /\ ~stale => known \ Ahead = Ours \ Ahead

\* Initially nothing is installed and no command runs.
LEMMA InitInstall == InstallInit => MachineInv /\ DomainInv
<1> SUFFICES ASSUME InstallInit PROVE MachineInv /\ DomainInv
  OBVIOUS
<1>1. MachineInv
  BY DEF InstallInit, NotRunning, NoSetup, MachineInv, MachineTypes, SetupSteps, Installed, Uninstalled, Doing
<1>2. chore.pc = "idle" /\ proc.st = "none"
  BY DEF InstallInit, NoChore, NotRunning
<1>3. DomainTypes
  BY DEF InstallInit, NoChore, DomainTypes, ChoreAt
<1> QED BY <1>1, <1>2, <1>3 DEF InstallInit, DomainInv, ChoreHolds, ChoreAt

\* A daemon that starts reads the files, or knows that it did not; one that
\* goes knows nothing.
LEMMA ManagerKeepsDomains ==
  ASSUME DomainInv,
         \/ \E u : Starts(u)
         \/ UNCHANGED domainVars /\ (proc.st = "none" => proc'.st = "none")
         \/ proc' = NotRunning /\ known' = {} /\ UNCHANGED <<resolvers, others, chore, stale>>
  PROVE  DomainInv'
<1>1. ASSUME NEW u, Starts(u) PROVE DomainInv'
  BY <1>1 DEF Starts, Ours, Ahead, DomainInv, DomainTypes, ChoreHolds, ChoreAt
<1>2. CASE UNCHANGED domainVars /\ (proc.st = "none" => proc'.st = "none")
  BY <1>2 DEF domainVars, Ours, Ahead, DomainInv, DomainTypes, ChoreHolds, ChoreAt
<1>3. CASE proc' = NotRunning /\ known' = {} /\ UNCHANGED <<resolvers, others, chore, stale>>
  BY <1>3 DEF NotRunning, Ours, Ahead, DomainInv, DomainTypes, ChoreHolds, ChoreAt
<1> QED BY <1>1, <1>2, <1>3

\* The manager and the install commands leave the resolver files alone.
LEMMA SetupKeepsDomains ==
  ASSUME MachineInv, DomainInv, Relaunch \/ DaemonGone \/ SetupNext
  PROVE  DomainInv'
<1>1. CASE Relaunch \/ DaemonGone
  BY <1>1, ManagerKeepsDomains DEF Relaunch, DaemonGone
<1>2. ASSUME NEW pc, NEW next, BootOut(pc, next) PROVE DomainInv'
  BY <1>2, ManagerKeepsDomains DEF BootOut, Bootout
<1>3. ASSUME NEW pc, NEW next, Sweep(pc, next) PROVE DomainInv'
  BY <1>3, ManagerKeepsDomains DEF Sweep, domainVars
<1>4. CASE Bootstrap \/ Enable \/ RestartUnit \/ Disable
  BY <1>4, ManagerKeepsDomains DEF Bootstrap, Enable, RestartUnit, Disable
<1>5. CASE UNCHANGED <<proc, domainVars>>
  BY <1>5, ManagerKeepsDomains
<1> QED BY <1>1, <1>2, <1>3, <1>4, <1>5 DEF SetupNext, Prepare, InstallBinaries, WriteUnit, BootoutRefused,
           AwaitExit, Reload, Uninstall, RemoveUnit, remove_installed_binaries, Removes, SetupFails

\* tld add and remove look, write, and tell the daemon.
LEMMA ChoreKeepsDomains ==
  ASSUME DomainInv, DomainNext
  PROVE  DomainInv'
<1>0. UNCHANGED proc
  BY DEF DomainNext, PeekResolver, DaemonDnsPort, FileStep, TeeWrites, TellDaemon, ChoreFails, OtherProgram, machineVars
<1>1. CASE PeekResolver
  BY <1>0, <1>1 DEF PeekResolver, Ours, Ahead, DomainInv, DomainTypes, ChoreHolds, ChoreAt
<1>2. CASE DaemonDnsPort
  BY <1>0, <1>2 DEF DaemonDnsPort, ChoreTo, Ours, Ahead, DomainInv, DomainTypes, ChoreHolds, ChoreAt
<1>3. CASE FileStep
  BY <1>0, <1>3 DEF FileStep, ChoreTo, Ours, Ahead, DomainInv, DomainTypes, ChoreHolds, ChoreAt
<1>4. CASE TeeWrites
  BY <1>0, <1>4 DEF TeeWrites, ChoreTo, Ours, Ahead, DomainInv, DomainTypes, ChoreHolds, ChoreAt
<1>5. CASE TellDaemon
  BY <1>0, <1>5 DEF TellDaemon, ChoreTo, Ours, Ahead, DomainInv, DomainTypes, ChoreHolds, ChoreAt
<1>6. CASE ChoreFails
  BY <1>0, <1>6 DEF ChoreFails, ChoreTo, Ours, Ahead, DomainInv, DomainTypes, ChoreHolds, ChoreAt
<1>7. CASE OtherProgram
  BY <1>0, <1>7 DEF OtherProgram, Ours, Ahead, DomainInv, DomainTypes, ChoreHolds, ChoreAt
<1> QED BY <1>1, <1>2, <1>3, <1>4, <1>5, <1>6, <1>7 DEF DomainNext

\* A daemon the manager starts is of the installed binary and a unit of its.
LEMMA StartsOf ==
  ASSUME NEW u, Starts(u)
  PROVE  proc' = [st |-> "running", bin |-> machine'.bin, unit |-> u]
  BY DEF Starts

\* The manager, and each step of an install.
LEMMA InstallKeepsMachine ==
  ASSUME MachineInv,
         \/ Relaunch \/ DaemonGone \/ Prepare \/ InstallBinaries \/ WriteUnit \/ BootOut("bootout", "sweep")
         \/ BootoutRefused("bootout", "sweep") \/ Sweep("sweep", "await") \/ AwaitExit \/ Bootstrap
         \/ Reload \/ Enable \/ RestartUnit \/ SetupFails
  PROVE  MachineInv'
<1> USE DEF MachineInv, MachineTypes, SetupSteps, Installed, Uninstalled, Doing, To
<1>1. CASE Relaunch
  BY <1>1, StartsOf DEF Relaunch
<1>2. CASE DaemonGone
  BY <1>2 DEF DaemonGone, NotRunning
<1>3. CASE Prepare
  BY <1>3 DEF Prepare
<1>4. CASE InstallBinaries \/ WriteUnit
  BY <1>4 DEF InstallBinaries, WriteUnit
<1>5. CASE BootOut("bootout", "sweep")
  BY <1>5 DEF BootOut, Bootout
<1>6. CASE BootoutRefused("bootout", "sweep")
  BY <1>6 DEF BootoutRefused
<1>7. CASE Sweep("sweep", "await")
  BY <1>7 DEF Sweep, NotRunning
<1>8. CASE Bootstrap
  BY <1>8, StartsOf DEF Bootstrap
<1>9. CASE Enable
  BY <1>9, StartsOf DEF Enable
<1>10. CASE RestartUnit
  BY <1>10, StartsOf DEF RestartUnit
<1>11. CASE AwaitExit \/ Reload \/ SetupFails
  BY <1>11 DEF AwaitExit, Reload, SetupFails
<1> QED BY <1>1, <1>2, <1>3, <1>4, <1>5, <1>6, <1>7, <1>8, <1>9, <1>10, <1>11

\* Each step of an uninstall.
LEMMA UninstallKeepsMachine ==
  ASSUME MachineInv,
         \/ Uninstall \/ BootOut("teardown", "sweepout") \/ Disable
         \/ BootoutRefused("teardown", IF os = "macos" THEN "sweepout" ELSE "unlink")
         \/ Sweep("sweepout", IF os = "macos" THEN "unlink" ELSE "remove")
         \/ RemoveUnit \/ remove_installed_binaries
  PROVE  MachineInv'
<1> USE DEF MachineInv, MachineTypes, SetupSteps, Installed, Uninstalled, Doing, To
<1>1. CASE Uninstall
  BY <1>1 DEF Uninstall, NoSetup
<1>2. CASE BootOut("teardown", "sweepout")
  BY <1>2 DEF BootOut, Bootout
<1>3. CASE Disable
  BY <1>3 DEF Disable, NotRunning
<1>4. CASE BootoutRefused("teardown", IF os = "macos" THEN "sweepout" ELSE "unlink")
  BY <1>4 DEF BootoutRefused
<1>5. CASE Sweep("sweepout", IF os = "macos" THEN "unlink" ELSE "remove")
  BY <1>5 DEF Sweep, NotRunning
<1>6. CASE RemoveUnit
  <2>1. UNCHANGED <<os, proc>> /\ setup.pc = "unlink"
    BY <1>6 DEF RemoveUnit, Removes
  <2>2. PICK next \in {"remove", "sweepout"} :
           \/ /\ setup' = [setup EXCEPT !.pc = next]
              /\ machine' = [machine EXCEPT !.unit = 0]
           \/ /\ setup' = [setup EXCEPT !.pc = next, !.refused = TRUE]
              /\ UNCHANGED machine
    BY <1>6 DEF RemoveUnit, Removes
  <2>3. CASE setup' = [setup EXCEPT !.pc = next] /\ machine' = [machine EXCEPT !.unit = 0]
    BY <2>1, <2>3
  <2>4. CASE setup' = [setup EXCEPT !.pc = next, !.refused = TRUE] /\ UNCHANGED machine
    BY <2>1, <2>4
  <2> QED BY <2>2, <2>3, <2>4
<1>7. CASE remove_installed_binaries
  BY <1>7 DEF remove_installed_binaries, Removes
<1> QED BY <1>1, <1>2, <1>3, <1>4, <1>5, <1>6, <1>7

\* Every step keeps both.
LEMMA NextInstall ==
  MachineInv /\ DomainInv /\ [InstallNext]_installVars => MachineInv' /\ DomainInv'
<1> SUFFICES ASSUME MachineInv, DomainInv, [InstallNext]_installVars PROVE MachineInv' /\ DomainInv'
  OBVIOUS
<1>1. CASE Relaunch \/ DaemonGone \/ SetupNext
  BY <1>1, SetupKeepsDomains, InstallKeepsMachine, UninstallKeepsMachine DEF SetupNext
<1>2. ASSUME UNCHANGED machineVars PROVE MachineInv'
  <2>1. MachineTypes'
    BY <1>2 DEF machineVars, MachineInv, MachineTypes
  <2>2. Installed' /\ Uninstalled'
    BY <1>2 DEF machineVars, MachineInv, Installed, Uninstalled, Doing
  <2> QED BY <2>1, <2>2 DEF MachineInv
<1>3. CASE DomainNext
  BY <1>2, <1>3, ChoreKeepsDomains DEF DomainNext, PeekResolver, DaemonDnsPort, FileStep, TeeWrites,
     TellDaemon, ChoreFails, OtherProgram
<1>4. CASE UNCHANGED installVars
  BY <1>2, <1>4, ManagerKeepsDomains DEF installVars, machineVars, domainVars
<1> QED BY <1>1, <1>3, <1>4 DEF InstallNext

\* Another program's resolver file is left alone, the daemon knows the TLDs
\* whose file is ours, and an install or uninstall that says it is done is
\* (cmd/tld.rs:60, 138, install.rs:107-118, 193-205), for any TLDs, releases
\* and units and any step that fails.
THEOREM MachineAlwaysTrue == InstallSpec => []MachineTrue
<1>1. MachineInv /\ DomainInv => MachineTrue
  <2> SUFFICES ASSUME MachineInv, DomainInv PROVE MachineTrue
    OBVIOUS
  <2>1. proc.st # "none" /\ ChoreAt("idle") /\ ~stale => known = Ours
    BY DEF DomainInv, Ahead, ChoreAt
  <2>2. Doing("done") => machine = [bin |-> setup.bin, unit |-> setup.unit, loaded |-> setup.unit]
    BY DEF MachineInv, MachineTypes, Installed, Doing
  <2>3. Doing("removed") /\ ~setup.refused =>
           machine = [bin |-> 0, unit |-> 0, loaded |-> 0] /\ proc.st # "running"
    BY DEF MachineInv, MachineTypes, Uninstalled, Doing
  <2> QED BY <2>1, <2>2, <2>3 DEF MachineInv, Installed, DomainInv, MachineTrue
<1> QED BY <1>1, InitInstall, NextInstall, PTL DEF InstallSpec
===============================================================================
