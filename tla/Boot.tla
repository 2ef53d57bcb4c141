-------------------------------- MODULE Boot --------------------------------
(***************************************************************************)
(* The daemon's start, its control socket and its end (lib.rs daemon_main,  *)
(* ipc_server.rs, client.rs, handlers::dispatch), in the ordinary mode and   *)
(* as a managed broker: one incarnation after another over the same data     *)
(* directory, each of which may fail at every step or be killed.  Services   *)
(* and egress routes are what the modes treat differently: a managed broker  *)
(* supervises no service, and its routes all ask their caller for a token.   *)
(***************************************************************************)
EXTENDS Naturals, FiniteSets

CONSTANTS
    Jobs,     \* supervised services
    Gates,    \* egress routes
    Controls  \* connections to the control socket

VARIABLES
    boot,      \* the daemon: its step, mode, --dashboard-auth, listeners bound early
    opened,    \* services.json, and whether managed-broker.json is there
    jobs,      \* the services the supervisor knows
    gates,     \* the egress table, and with it the registry's entries
    restoring, \* the restore an ordinary daemon runs beside its tasks
    duties,    \* the tasks that run
    socket,    \* what is at the socket's path
    controls   \* of each connection: where it is, who asks what, the answer, of whom
bootVars == <<boot, opened, jobs, gates, restoring, duties, socket, controls>>

NoGate == [g \in Gates |-> "absent"]
Unrestored == [step |-> "none", jobs |-> {}, gates |-> NoGate]
Unasked == [pc |-> "idle", peer |-> "owner", token |-> "none", kind |-> "read",
            answer |-> "none", by |-> "nobody"]
Off == [step |-> "off", mode |-> "legacy", auth |-> TRUE, bound |-> FALSE]

BootInit ==
    /\ boot = Off /\ jobs = {} /\ gates = NoGate /\ restoring = Unrestored /\ duties = {}
    /\ opened \in [jobs : SUBSET Jobs, gates : [Gates -> {"absent", "open"}], marker : {FALSE}]
    /\ socket \in {"none", "file"}
    /\ controls = [c \in Controls |-> Unasked]

-----------------------------------------------------------------------------
(* daemon_main, step by step.                                              *)
Managed == boot.mode = "managed"
AtStep(step) == boot.step = step
Goes(step) == boot' = [boot EXCEPT !.step = step]
\* The process ends, by an error of the start, on its own or killed: what it
\* held is gone, its connections break, the socket's file stays.
Ends ==
    /\ boot' = Off /\ jobs' = {} /\ gates' = NoGate /\ restoring' = Unrestored /\ duties' = {}
    /\ socket' = IF socket = "listening" THEN "stale" ELSE socket
    /\ controls' = [c \in Controls |->
           IF controls[c].pc \in {"connected", "sent"}
           THEN [controls[c] EXCEPT !.pc = "done", !.answer = "lost"] ELSE controls[c]]
memory == <<jobs, gates, restoring, duties, socket, controls>>

StartDaemon ==
    /\ AtStep("off") /\ \E m \in {"legacy", "managed"}, a \in BOOLEAN :
           boot' = [step |-> "stores", mode |-> m, auth |-> a, bound |-> FALSE]
    /\ UNCHANGED <<opened, memory>>
OpenStores == AtStep("stores") /\ Goes("configure") /\ UNCHANGED <<opened, memory>>
ConfigureBroker ==
    /\ AtStep("configure") /\ (Managed \/ ~opened.marker)
    /\ opened' = [opened EXCEPT !.marker = Managed]
    /\ Goes("docker") /\ UNCHANGED memory
\* The engine is only asked by an ordinary daemon.
ConnectDocker == AtStep("docker") /\ Goes(IF Managed THEN "restore" ELSE "token") /\ UNCHANGED <<opened, memory>>
\* Mutant: the routes come back as they were.
SealNone(table) == table
Sealed(table) == [g \in Gates |-> IF table[g] = "absent" THEN "absent" ELSE "sealed"]
RestoreBroker ==
    /\ AtStep("restore") /\ boot.auth /\ opened.jobs = {}
    /\ opened' = [opened EXCEPT !.gates = Sealed(opened.gates)]
    /\ gates' = Sealed(opened.gates) /\ jobs' = {}
    /\ Goes("token") /\ UNCHANGED <<restoring, duties, socket, controls>>
PrepareToken == AtStep("token") /\ Goes("seed") /\ UNCHANGED <<opened, memory>>
SeedAndRestore ==
    /\ AtStep("seed") /\ Goes(IF Managed THEN "bind" ELSE "spawn")
    /\ restoring' = [restoring EXCEPT !.step = IF Managed THEN "done" ELSE "spawned"]
    /\ UNCHANGED <<opened, jobs, gates, duties, socket, controls>>
BindManaged ==
    /\ AtStep("bind") /\ boot' = [boot EXCEPT !.step = "spawn", !.bound = TRUE]
    /\ UNCHANGED <<opened, memory>>
\* The tasks select! waits for; a managed broker leaves the rest pending.
\* The dashboard, the other proxies, DNS and the log sweeper are as http is,
\* and all that asks the engine is one.
BrokerDuties == {"ipc", "http"}
EngineDuties == {"engine"}
SpawnTasks ==
    /\ AtStep("spawn") /\ Goes("running")
    /\ duties' = BrokerDuties \cup (IF Managed THEN {} ELSE EngineDuties)
    /\ UNCHANGED <<opened, jobs, gates, restoring, socket, controls>>
\* Any `?` of the start.
BootFails ==
    /\ boot.step \in {"stores", "configure", "docker", "restore", "token", "seed", "bind", "spawn"}
    /\ Ends /\ UNCHANGED opened

\* restore_with beside the tasks: what it read is inserted over what came since.
\* It may fail to read, and persist() may fail: both are logged.
RestoreReads ==
    /\ restoring.step = "spawned"
    /\ restoring' \in {[step |-> "read", jobs |-> opened.jobs, gates |-> opened.gates],
                       [restoring EXCEPT !.step = "failed"]}
    /\ UNCHANGED <<boot, opened, jobs, gates, duties, socket, controls>>
Saves(table, known) == opened' \in {opened, [opened EXCEPT !.jobs = known, !.gates = table]}
RestoreInserts ==
    /\ restoring.step = "read"
    /\ LET known == jobs \cup restoring.jobs
           table == [g \in Gates |-> IF restoring.gates[g] = "absent" THEN gates[g] ELSE restoring.gates[g]]
       IN jobs' = known /\ gates' = table /\ Saves(table, known)
    /\ restoring' = [Unrestored EXCEPT !.step = "done"]
    /\ UNCHANGED <<boot, duties, socket, controls>>

-----------------------------------------------------------------------------
(* The control socket and the end.                                         *)
\* ipc_server::run up to the loop: what is at the path is removed only if it
\* is a socket.
BindSocket ==
    /\ "ipc" \in duties /\ socket \in {"none", "stale"}
    /\ socket' = "listening" /\ UNCHANGED <<boot, opened, jobs, gates, restoring, duties, controls>>
TaskEnds(t) ==
    /\ AtStep("running") /\ t \in duties
    /\ duties' = duties \ {t} /\ Goes("ending")
    /\ UNCHANGED <<opened, jobs, gates, restoring, socket, controls>>
Signalled == AtStep("running") /\ Goes("ending") /\ UNCHANGED <<opened, memory>>
\* shutdown_all ends with a save; the other tasks run until the process ends.
ShutdownDaemon == AtStep("ending") /\ Saves(gates, jobs) /\ Ends
Killed == ~AtStep("off") /\ Ends /\ UNCHANGED opened

Is(c, pc) == controls[c].pc = pc
Says(c, answer) == controls' = [controls EXCEPT ![c] =
    [@ EXCEPT !.pc = "done", !.answer = answer, !.by = boot.mode]]
ControlKinds == {"read", "bridge", "start", "sync", "forget"}
\* client::request: connect, send one request in the envelope or without.
Connect(c) ==
    /\ Is(c, "idle")
    /\ \E p \in {"owner", "other"} : controls' = [controls EXCEPT ![c] =
           [@ EXCEPT !.peer = p, !.pc = IF socket = "listening" THEN "connected" ELSE "done",
                     !.answer = IF socket = "listening" THEN "none" ELSE "lost"]]
    /\ UNCHANGED <<boot, opened, jobs, gates, restoring, duties, socket>>
SendRequest(c) ==
    /\ Is(c, "connected")
    /\ \E k \in ControlKinds, t \in {"none", "wrong", "right"} :
           controls' = [controls EXCEPT ![c] = [@ EXCEPT !.pc = "sent", !.kind = k, !.token = t]]
    /\ UNCHANGED <<boot, opened, jobs, gates, restoring, duties, socket>>
\* handle_client before the request: another user's connection is closed, as
\* is one that says nothing for READ_TIMEOUT or too much for a frame.
Hangup(c) ==
    /\ \/ Is(c, "connected")
       \/ Is(c, "sent") /\ controls[c].peer = "other"
    /\ controls' = [controls EXCEPT ![c] = [@ EXCEPT !.pc = "done", !.answer = "lost"]]
    /\ UNCHANGED <<boot, opened, jobs, gates, restoring, duties, socket>>
Forgets(c) == Is(c, "done") /\ controls' = [controls EXCEPT ![c] = Unasked]
              /\ UNCHANGED <<boot, opened, jobs, gates, restoring, duties, socket>>

authenticate_control(token) == IF token = "none" THEN ~Managed ELSE boot.auth /\ token = "right"
\* Supervisor::sync of one root: what it leaves out goes.  A managed broker
\* writes first; a write it answers an error for may have reached the disk.
SyncControl(c) ==
    \E known \in SUBSET Jobs, asked \in SUBSET Gates :
        LET table == [g \in Gates |-> IF g \in asked THEN (IF Managed THEN "sealed" ELSE "open") ELSE "absent"]
        IN
        IF Managed /\ known # {} THEN Says(c, "error") /\ UNCHANGED <<opened, jobs, gates>>
        ELSE \/ /\ Says(c, "ok") /\ jobs' = known /\ gates' = table
                /\ IF Managed THEN opened' = [opened EXCEPT !.gates = table] ELSE Saves(table, known)
             \/ /\ Managed /\ Says(c, "error")
                /\ Saves(table, {}) /\ UNCHANGED <<jobs, gates>>
ForgetControl(c) ==
    IF jobs = {} THEN Says(c, "error") /\ UNCHANGED <<opened, jobs, gates>>
    ELSE \E j \in jobs :
             /\ Says(c, "ok") /\ jobs' = jobs \ {j} /\ Saves(gates, jobs \ {j}) /\ UNCHANGED gates
\* handlers::dispatch by what the modes do differently.
Dispatch(c) ==
    CASE controls[c].kind = "sync" -> SyncControl(c)
      [] controls[c].kind = "forget" -> ForgetControl(c)
      [] controls[c].kind = "bridge" -> Says(c, IF Managed THEN "error" ELSE "ok") /\ UNCHANGED <<opened, jobs, gates>>
      [] controls[c].kind = "start" ->
             Says(c, IF Managed \/ jobs = {} THEN "error" ELSE "ok") /\ UNCHANGED <<opened, jobs, gates>>
      [] OTHER -> Says(c, "ok") /\ UNCHANGED <<opened, jobs, gates>>
HandleClient(c) ==
    /\ Is(c, "sent") /\ controls[c].peer # "other"
    /\ IF authenticate_control(controls[c].token) THEN Dispatch(c)
       ELSE Says(c, "denied") /\ UNCHANGED <<opened, jobs, gates>>
    /\ UNCHANGED <<boot, restoring, duties, socket>>

BootNext ==
    \/ StartDaemon \/ OpenStores \/ ConfigureBroker \/ ConnectDocker \/ RestoreBroker \/ PrepareToken
    \/ SeedAndRestore \/ BindManaged \/ SpawnTasks \/ BootFails \/ RestoreReads \/ RestoreInserts
    \/ BindSocket \/ (\E t \in duties : TaskEnds(t)) \/ Signalled \/ ShutdownDaemon \/ Killed
    \/ \E c \in Controls : Connect(c) \/ SendRequest(c) \/ Hangup(c) \/ HandleClient(c) \/ Forgets(c)
BootSpec == BootInit /\ [][BootNext]_bootVars

-----------------------------------------------------------------------------
Reachable == boot.step \in {"spawn", "running", "ending"}

\* A data directory once opened by a managed broker is never run by an
\* ordinary daemon (supervisor.rs:572).  From the moment a managed broker can
\* be reached, by its socket or its listeners, it has no service, and no route
\* of it goes without a caller's token, neither now nor when it is started
\* again (lib.rs:296-380, supervisor.rs:702, 1497).  It does what it was asked
\* only for a caller with the token, and never starts anything or touches the
\* container network (ipc_server.rs:95, handlers.rs:10).
BrokerSealed ==
    /\ opened.marker /\ ~Managed => boot.step \in {"off", "stores", "configure"}
    /\ Managed /\ Reachable =>
           /\ boot.bound /\ jobs = {} /\ opened.jobs = {}
           /\ \A g \in Gates : gates[g] # "open" /\ opened.gates[g] # "open"
    /\ \A c \in Controls : controls[c].answer = "ok" /\ controls[c].by = "managed" =>
           controls[c].token = "right" /\ controls[c].kind \notin {"bridge", "start"}
    /\ \A c \in Controls : controls[c].answer \in {"ok", "error"} => controls[c].peer # "other"
\* What a broker says when it refuses a directory with services in it, "stop
\* and forget services first" (supervisor.rs:1494), can be done: an ordinary
\* daemon, the only one that could forget them, still opens the directory.
RefusedCanForget ==
    AtStep("restore") /\ opened.jobs # {} => ~opened.marker
=============================================================================
