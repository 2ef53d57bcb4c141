----------------------------- MODULE Netbridge -----------------------------
(***************************************************************************)
(* The bridge into Docker's VM: the task that owns it (netbridge.rs), its   *)
(* start and end (portman-netbridge/runtime.rs) and the routes it repairs   *)
(* every five seconds.  Docker, the kernel's utun devices and routes, and a *)
(* VPN that also has devices and routes are external.  Packets and keys are *)
(* left out; the channel only delays a request until the task is idle.      *)
(***************************************************************************)
EXTENDS Naturals

CONSTANTS
    Ifaces,             \* utun names the kernel hands out and recycles
    Subnet, DockerNets, \* 192.168.99.0/24, and the subnets of other networks
    Modes,              \* a subset of {"optin", "docker", "all"}
    Uses,               \* of a network: a subset of {"unused", "used", "labelled"}
    NoIface,
    MaxAttempts,        \* 3 in the code
    DeleteIgnoresIface  \* does `route delete` also delete another device's route?

ASSUME NetbridgeAssumption ==
    /\ NoIface \notin Ifaces /\ Subnet \notin DockerNets /\ MaxAttempts \in Nat
    /\ Modes \subseteq {"optin", "docker", "all"}

VARIABLES
    task,       \* the netbridge task: where it is, the attempt, what it made,
                \* and what it does all this for
    bridge,     \* the Runtime's utun, if there is a Runtime
    bridgeMode, \* the task's mode
    stateFile,  \* netbridge.json
    shown,      \* Handle: enabled, and the ifindex upstreams are scoped to
    setup,      \* the setup container: of this start's key, of an older one
    inUse,      \* which other networks have containers, labelled or not
    device,     \* utun devices: "none", "ours" or "vpn"
    own,        \* OWN_UTUNS
    route,      \* the kernel's routes
    repairs     \* the reconciler's blocking job: its device, the routes to come

bridgeVars == <<task, bridge, bridgeMode, stateFile, shown, setup, inUse,
                device, own, route, repairs>>
kernel == <<device, own, route>>
published == <<stateFile, shown>>

Cidrs == {Subnet} \cup DockerNets
IsAlive(i) == device[i] # "none"

\* docker_route_cidrs: what the mode routes besides the dedicated subnet.
Extra(mode) ==
    CASE mode = "optin"  -> {}
      [] mode = "docker" -> {n \in DockerNets : inUse[n] = "labelled"}
      [] mode = "all"    -> {n \in DockerNets : inUse[n] # "unused"}

Parked(pc, for) ==
    [pc |-> pc, attempt |-> 1, iface |-> NoIface, plan |-> {}, made |-> {}, for |-> for]
NoRepairs == [iface |-> NoIface, plan |-> {}]
NothingShown == [enabled |-> FALSE, ifindex |-> NoIface]

NetbridgeInit ==
    /\ task = Parked("boot", "boot") /\ bridge = NoIface
    /\ stateFile \in [enabled : BOOLEAN, mode : Modes]
    /\ bridgeMode = stateFile.mode
    /\ shown = NothingShown
    /\ setup = "none"
    /\ inUse = [n \in DockerNets |-> "unused"]
    /\ device = [i \in Ifaces |-> "none"] /\ own = {}
    /\ route = [c \in Cidrs |-> NoIface] /\ repairs = NoRepairs

-----------------------------------------------------------------------------
(* try_start: up to three attempts.  What can fail comes first; the device   *)
(* and its routes come last and are rolled back together.                    *)

StepTo(pc) == task' = [task EXCEPT !.pc = pc]

\* One key for all the attempts of a start: an older container has another.
StartAll(for) ==
    /\ task' = Parked("prepare", for)
    /\ setup' = IF setup = "ours" THEN "old" ELSE setup

\* The network by our name is reused if it is ours (and the start fails if it
\* is not); the subnets to route are looked up; the socket is bound.
Prepare ==
    /\ task.pc = "prepare"
    /\ task' = [task EXCEPT !.pc = "clear", !.plan = {Subnet} \cup Extra(bridgeMode)]
    /\ UNCHANGED <<bridge, bridgeMode, published, setup, inUse, kernel, repairs>>

\* remove_existing_setup_container returns once Docker has really removed it.
ClearSetup ==
    /\ task.pc = "clear"
    /\ IF setup = "none"
       THEN StepTo("spawn") /\ UNCHANGED setup
       ELSE setup' = "removing" /\ UNCHANGED task
    /\ UNCHANGED <<bridge, bridgeMode, published, inUse, kernel, repairs>>

SpawnSetup ==
    /\ task.pc = "spawn" /\ setup = "none"
    /\ setup' = "ours"
    /\ StepTo("utun")
    /\ UNCHANGED <<bridge, bridgeMode, published, inUse, kernel, repairs>>

CreateUtun(i) ==
    /\ task.pc = "utun" /\ ~IsAlive(i)
    /\ device' = [device EXCEPT ![i] = "ours"]
    /\ own' = own \cup {i}
    /\ task' = [task EXCEPT !.pc = "route", !.iface = i]
    /\ UNCHANGED <<bridge, bridgeMode, published, setup, inUse, route, repairs>>

\* Mutant: only our own stale routes are repaired.
RepairOwnOnly(c, existing) == c = Subnet \/ existing \in own
\* classify_existing_route: repair our subnet, and what a dead device or one
\* of ours holds; another live device's route is not ours to touch.
Repairable(c, existing) == c = Subnet \/ ~IsAlive(existing) \/ existing \in own

\* ensure_route_command: the routes after one was asked for.
Ensured(c, i) ==
    IF route[c] = NoIface \/ Repairable(c, route[c]) THEN [route EXCEPT ![c] = i] ELSE route

InstallRoute(c) ==
    /\ task.pc = "route" /\ c \in task.plan \ task.made
    /\ route' = Ensured(c, task.iface)
    /\ task' = [task EXCEPT !.made = @ \cup {c}]
    /\ UNCHANGED <<bridge, bridgeMode, published, setup, inUse, device, own, repairs>>

BridgeStarted ==
    /\ task.pc = "route" /\ task.made = task.plan
    /\ bridge' = task.iface
    /\ task' = Parked("publish", task.for)
    /\ UNCHANGED <<bridgeMode, published, setup, inUse, kernel, repairs>>

\* The routes the attempt made, deleted again.
RolledBack ==
    [c \in Cidrs |-> IF c \in task.made /\ (route[c] = task.iface \/ DeleteIgnoresIface)
                     THEN NoIface ELSE route[c]]

\* Any step fails: what it made so far is undone (the container only if it was
\* its key that never came), and after a pause the next attempt begins; after
\* the last one the bridge stays down.
StartFails ==
    /\ task.pc \in {"prepare", "clear", "spawn", "utun", "route"}
    /\ route' = RolledBack
    /\ device' = [i \in Ifaces |-> IF i = task.iface THEN "none" ELSE device[i]]
    /\ own' = own \ {task.iface}
    /\ \/ UNCHANGED setup
       \/ task.pc = "utun" /\ setup' = "removing"
    /\ task' = IF task.attempt < MaxAttempts
               THEN [Parked("prepare", task.for) EXCEPT !.attempt = task.attempt + 1]
               ELSE Parked("publish", task.for)
    /\ UNCHANGED <<bridge, bridgeMode, published, inUse, repairs>>

-----------------------------------------------------------------------------
(* The task: its boot, then one message after the other.                     *)

\* The persisted state, or PORTMAN_NETBRIDGE, says whether to start.
Boot ==
    /\ task.pc = "boot"
    /\ \/ StartAll("boot")
       \/ ~stateFile.enabled /\ StepTo("publish") /\ UNCHANGED setup
    /\ UNCHANGED <<bridge, bridgeMode, published, inUse, kernel, repairs>>

\* Mutant: shutdown goes on claiming the name.
StillOwn == own
\* forget_own_utun.
Forgotten == own \ {bridge}

\* Routes to a device that goes may go with it.
LeaveWith(i) ==
    \E stay \in BOOLEAN :
        route' = [c \in Cidrs |-> IF route[c] = i /\ ~stay THEN NoIface ELSE route[c]]

\* shutdown: the pumps end, and the device with them.
ShutDown ==
    /\ device' = [device EXCEPT ![bridge] = "none"]
    /\ own' = Forgotten
    /\ LeaveWith(bridge)
    /\ bridge' = NoIface

OnEnable ==
    /\ IF bridge = NoIface
       THEN StartAll("enable")
       ELSE task' = Parked("publish", "enable") /\ UNCHANGED setup
    /\ UNCHANGED <<bridge, bridgeMode, shown, kernel>>

\* What readers see changes only once the container and network are dealt with.
OnDisable ==
    /\ IF bridge = NoIface
       THEN task' = Parked("publish", "disable") /\ UNCHANGED <<bridge, kernel>>
       ELSE task' = Parked("drop", "disable") /\ ShutDown
    /\ UNCHANGED <<bridgeMode, shown, setup>>

\* A mode that is the old one is only saved; a new one restarts the bridge if
\* it is up.
OnSetMode(m) ==
    /\ bridgeMode' = m
    /\ IF m = bridgeMode \/ bridge = NoIface
       THEN task' = Parked("publish", "mode") /\ UNCHANGED <<bridge, shown, kernel>>
       ELSE task' = Parked("drop", "mode") /\ shown' = NothingShown /\ ShutDown
    /\ UNCHANGED setup

\* The next message of the channel, which the task takes when it is idle.
TakeControl ==
    /\ task.pc = "idle"
    /\ OnEnable \/ OnDisable \/ \E m \in Modes : OnSetMode(m)
    /\ UNCHANGED <<stateFile, inUse, repairs>>

\* best_effort_remove_setup_container, whose failures are only logged.
DropSetup ==
    /\ task.pc = "drop"
    /\ setup' \in {setup, IF setup = "ours" THEN "removing" ELSE setup}
    /\ StepTo(IF task.for = "disable" THEN "network" ELSE "restart")
    /\ UNCHANGED <<bridge, bridgeMode, published, inUse, kernel, repairs>>

\* The network goes too, if Docker lets it; a new mode starts the bridge again.
AfterDrop ==
    /\ \/ task.pc = "network" /\ StepTo("publish") /\ UNCHANGED setup
       \/ task.pc = "restart" /\ StartAll("mode")
    /\ UNCHANGED <<bridge, bridgeMode, published, inUse, kernel, repairs>>

\* runtime.is_some().
IsUp == bridge # NoIface

\* persist: after a message, though not after the boot.
Saved == IF task.for = "boot" THEN stateFile ELSE [enabled |-> IsUp, mode |-> bridgeMode]

\* enabled, ifindex and the watch value say whether the bridge came up.
Publish ==
    /\ task.pc = "publish"
    /\ shown' = [enabled |-> IsUp, ifindex |-> bridge]
    /\ stateFile' = Saved
    /\ task' = Parked("idle", "next")
    /\ UNCHANGED <<bridge, bridgeMode, setup, inUse, kernel, repairs>>

\* The daemon dies and comes back: its devices go, and their routes may; the
\* file, the container and the network stay.
BridgeRestart ==
    /\ task' = Parked("boot", "boot") /\ bridge' = NoIface /\ bridgeMode' = stateFile.mode
    /\ shown' = NothingShown
    /\ device' = [i \in Ifaces |-> IF i \in own THEN "none" ELSE device[i]]
    /\ own' = {} /\ repairs' = NoRepairs
    /\ \E i \in own \cup {NoIface} : LeaveWith(i)
    /\ UNCHANGED <<stateFile, setup, inUse>>

-----------------------------------------------------------------------------
(* The reconciler.                                                            *)

\* The routes wanted now; just our subnet when Docker does not answer.
PlanRepairs(extra) ==
    /\ IsUp /\ repairs.plan = {}
    /\ repairs' = [iface |-> bridge, plan |-> {Subnet} \cup extra]
    /\ UNCHANGED <<task, bridge, bridgeMode, published, setup, inUse, kernel>>
PlanAnswered == PlanRepairs(Extra(bridgeMode))
PlanUnanswered == PlanRepairs({})

\* The blocking job: it goes on when the reconciler is aborted, and asking for
\* a route by a device that is gone fails.
RepairRoute(c) ==
    /\ c \in repairs.plan
    /\ repairs' = [repairs EXCEPT !.plan = @ \ {c}]
    /\ route' = IF IsAlive(repairs.iface) THEN Ensured(c, repairs.iface) ELSE route
    /\ UNCHANGED <<task, bridge, bridgeMode, published, setup, inUse, device, own>>

-----------------------------------------------------------------------------
(* Docker, its users, and a VPN.                                             *)

SetupGone ==
    /\ setup = "removing" /\ setup' = "none"
    /\ UNCHANGED <<task, bridge, bridgeMode, published, inUse, kernel, repairs>>

ContainersChange(n) ==
    /\ \E use \in Uses : inUse' = [inUse EXCEPT ![n] = use]
    /\ UNCHANGED <<task, bridge, bridgeMode, published, setup, kernel, repairs>>

\* One VPN at a time.
VpnStarts(i) ==
    /\ ~IsAlive(i) /\ \A j \in Ifaces : device[j] # "vpn"
    /\ device' = [device EXCEPT ![i] = "vpn"]
    /\ UNCHANGED <<task, bridge, bridgeMode, published, setup, inUse, own, route, repairs>>

VpnRoutes(i, c) ==
    /\ device[i] = "vpn"
    /\ route[c] \notin {j \in Ifaces : device[j] = "vpn"}
    /\ route' = [route EXCEPT ![c] = i]
    /\ UNCHANGED <<task, bridge, bridgeMode, published, setup, inUse, device, own, repairs>>

VpnEnds(i) ==
    /\ device[i] = "vpn"
    /\ device' = [device EXCEPT ![i] = "none"]
    /\ LeaveWith(i)
    /\ UNCHANGED <<task, bridge, bridgeMode, published, setup, inUse, own, repairs>>

TaskSteps ==
    \/ Prepare \/ ClearSetup \/ SpawnSetup \/ BridgeStarted \/ StartFails
    \/ (\E i \in Ifaces : CreateUtun(i)) \/ (\E c \in Cidrs : InstallRoute(c))
    \/ Boot \/ DropSetup \/ AfterDrop \/ Publish
OutsideSteps ==
    \/ SetupGone \/ \E n \in DockerNets : ContainersChange(n)
    \/ \E i \in Ifaces : VpnStarts(i) \/ VpnEnds(i) \/ \E c \in Cidrs : VpnRoutes(i, c)
NetbridgeNext ==
    \/ TaskSteps \/ TakeControl \/ BridgeRestart
    \/ PlanAnswered \/ PlanUnanswered \/ (\E c \in Cidrs : RepairRoute(c))
    \/ OutsideSteps
NetbridgeSpec == NetbridgeInit /\ [][NetbridgeNext]_bridgeVars

-----------------------------------------------------------------------------
(* Properties.                                                               *)

\* What the bridge owns is what the kernel has of it; what readers see between
\* messages is what is there; and the container that the tunnel of a bridge
\* leads to was given that bridge's key (netbridge.rs:119, runtime.rs:146).
PublishedTrue ==
    /\ own = {i \in Ifaces : device[i] = "ours"}
    /\ IsUp => own = {bridge} /\ setup = "ours"
    /\ task.pc = "idle" => shown = [enabled |-> IsUp, ifindex |-> bridge]

\* What the bridge says and what it may touch.  After every step what it
\* publishes and owns is so; and while a VPN's device lives, its routes to
\* anything but our subnet stay: no start, repair or rollback of ours takes
\* them (netbridge.rs:119, runtime.rs:1044).
BridgeHonest ==
    [][ /\ PublishedTrue'
        /\ \A c \in DockerNets, i \in Ifaces :
              route[c] = i /\ device[i] = "vpn" /\ device'[i] = "vpn" => route'[c] = i ]_bridgeVars

LedSomewhere(c) ==
    \/ IsUp /\ route[c] = bridge
    \/ c # Subnet /\ route[c] # NoIface /\ device[route[c]] = "vpn"

\* While the bridge stays up, our subnet comes back to it whoever took it, and
\* what its mode routes leads to it or to a live VPN (runtime.rs:439).
BridgeHeals ==
    \A c \in Cidrs :
        []<>(IsUp /\ c \in {Subnet} \cup Extra(bridgeMode) => LedSomewhere(c))
=============================================================================
