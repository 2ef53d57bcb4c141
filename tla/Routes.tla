------------------------------- MODULE Routes -------------------------------
(***************************************************************************)
(* The route registry (portman-core/src/registry.rs) and those who write   *)
(* it: static rules (static_store.rs, handlers.rs), TLD changes and the     *)
(* seeding they start (handlers.rs, lib.rs), container events               *)
(* (docker_events.rs) and the supervisor's RouteBinder (supervisor.rs).     *)
(* Every store and the registry has its own lock, held for one call only:   *)
(* a step below is one such hold, with the read of known_tlds or of a rule  *)
(* right before it, and the awaits on Docker lie between steps.  A target   *)
(* is a member of a small set; wildcard names are in HostNames.             *)
(***************************************************************************)
EXTENDS Naturals, Sequences, FiniteSets

CONSTANTS
    Hosts,        \* hostnames, the dashboard's own apart
    RuleHosts,    \* those the user writes static rules for
    Tlds, TldOf,  \* the TLDs, and the TLD of each host
    Targets,      \* targets of static rules
    Containers, Bindings, \* labelled containers; services and egress routes
    HostOf,       \* the host of each container and each binding
    Callers,      \* requests in flight
    Booter,       \* the main task while it seeds the registry
    NoRoute,
    MaxEvents,    \* bound: container events not yet handled
    Overlap,      \* may two operations on one host run at the same time?
    BootGap       \* may containers change before the event stream is open?

ASSUME RouteConstants ==
    /\ Hosts # {} /\ RuleHosts \subseteq Hosts
    /\ TldOf \in [Hosts -> Tlds]
    /\ HostOf \in [Containers \cup Bindings -> Hosts]
    /\ MaxEvents \in Nat
    /\ {Overlap, BootGap} \subseteq BOOLEAN
    /\ Booter \notin Callers

VARIABLES
    rules,      \* static_store: the rule of each host
    known,      \* known_tlds: the managed TLDs
    registry,   \* the entry of each host
    alive,      \* Docker: the containers that run
    events,     \* Docker: events the daemon has not handled
    bound,      \* bindings whose owner wants the route
    handling,   \* docker_events: the start whose inspect is awaited
    ops         \* what each request is doing

routesVars == <<rules, known, registry, alive, events, bound, handling, ops>>

Entry(source, owner) == [source |-> source, owner |-> owner]
Entries == [source : {"static"}, owner : Targets]
           \cup [source : {"container"}, owner : Containers]
           \cup [source : {"bound"}, owner : Bindings]
ASSUME NoRouteConstant == NoRoute \notin Entries \cup Targets

Actors == Callers \cup {Booter}
AtRest == [pc |-> "rest"]
Doing(pc, host, arg) == [pc |-> pc, host |-> host, arg |-> arg]
Sweeping(pc, todo) == [pc |-> pc, todo |-> todo]

Routable(host) == TldOf[host] \in known
Upsert(host, entry) == registry' = [registry EXCEPT ![host] = entry]
Drop(host) == registry' = [registry EXCEPT ![host] = NoRoute]

\* A TLD change and a boot touch every host.
Touched(op) == IF op = AtRest THEN {}
               ELSE IF "host" \in DOMAIN op THEN {op.host} ELSE Hosts
HostsFree(hosts) ==
    \/ Overlap
    \/ /\ \A a \in Actors : Touched(ops[a]) \cap hosts = {}
       /\ handling = {} \/ {HostOf[k] : k \in handling} \cap hosts = {}
Begin(c, hosts) == ops[c] = AtRest /\ HostsFree(hosts) /\ ops[Booter] = AtRest
Goto(c, op) == ops' = [ops EXCEPT ![c] = op]

RoutesInit ==
    /\ rules = [h \in Hosts |-> NoRoute]
    /\ known = Tlds
    /\ registry = [h \in Hosts |-> NoRoute]
    /\ alive = {} /\ events = <<>> /\ bound = {} /\ handling = {}
    /\ ops = [a \in Actors |-> AtRest]

-----------------------------------------------------------------------------
(* Static rules: handle_add and handle_remove. *)

\* Validation and the check that the host is routable; a refusal changes nothing.
AddRule(c, host, target) ==
    /\ Begin(c, {host}) /\ host \in RuleHosts /\ Routable(host)
    /\ Goto(c, Doing("add_store", host, target))
    /\ UNCHANGED <<rules, known, registry, alive, events, bound, handling>>

\* StaticStore::add writes the file, then swaps; a failed write ends the request.
AddStored(c) ==
    /\ ops[c].pc = "add_store"
    /\ \/ /\ rules' = [rules EXCEPT ![ops[c].host] = ops[c].arg]
          /\ Goto(c, [ops[c] EXCEPT !.pc = "add_route"])
       \/ rules' = rules /\ Goto(c, AtRest)
    /\ UNCHANGED <<known, registry, alive, events, bound, handling>>

AddRouted(c) ==
    /\ ops[c].pc = "add_route"
    /\ Upsert(ops[c].host, Entry("static", ops[c].arg))
    /\ Goto(c, AtRest)
    /\ UNCHANGED <<rules, known, alive, events, bound, handling>>

RemoveRule(c, host) ==
    /\ Begin(c, {host}) /\ rules[host] # NoRoute
    /\ rules' = [rules EXCEPT ![host] = NoRoute]
    /\ Goto(c, Doing("remove_look", host, NoRoute))
    /\ UNCHANGED <<known, registry, alive, events, bound, handling>>

IsStatic(entry) == entry # NoRoute /\ entry.source = "static"
RemoveLook(c) ==
    /\ ops[c].pc = "remove_look"
    /\ Goto(c, IF IsStatic(registry[ops[c].host])
               THEN [ops[c] EXCEPT !.pc = "remove_route"] ELSE AtRest)
    /\ UNCHANGED <<rules, known, registry, alive, events, bound, handling>>

RemoveRouted(c) ==
    /\ ops[c].pc = "remove_route"
    /\ Drop(ops[c].host) /\ Goto(c, AtRest)
    /\ UNCHANGED <<rules, known, alive, events, bound, handling>>

-----------------------------------------------------------------------------
(* TLDs: handle_tld_add with rehydrate_registry_for_managed_tlds, and        *)
(* handle_tld_remove.                                                        *)

TldAdd(c, tld) ==
    /\ Begin(c, Hosts)
    /\ known' = known \cup {tld}
    /\ Goto(c, Sweeping("seed_list", {}))
    /\ UNCHANGED <<rules, registry, alive, events, bound, handling>>

\* seed_from_static_store lists the rules once and then puts them in one by one.
SeedList(c) ==
    /\ ops[c].pc = "seed_list"
    /\ Goto(c, Sweeping("seed", {<<h, rules[h]>> : h \in {x \in Hosts : rules[x] # NoRoute}}))
    /\ UNCHANGED <<rules, known, registry, alive, events, bound, handling>>

SeedOne(c) ==
    /\ ops[c].pc = "seed"
    /\ \E rule \in ops[c].todo :
         /\ IF Routable(rule[1]) THEN Upsert(rule[1], Entry("static", rule[2]))
                                 ELSE UNCHANGED registry
         /\ Goto(c, Sweeping("seed", ops[c].todo \ {rule}))
    /\ UNCHANGED <<rules, known, alive, events, bound, handling>>

\* seed_from_running_containers: list, then inspect and put in one by one.
ScanList(c) ==
    /\ ops[c].pc = "seed" /\ ops[c].todo = {}
    /\ Goto(c, Sweeping("scan", {k \in alive : Routable(HostOf[k])}))
    /\ UNCHANGED <<rules, known, registry, alive, events, bound, handling>>

\* An inspect answers with an address only while the container runs.
ScanInspect(c) ==
    /\ ops[c].pc = "scan"
    /\ \E k \in ops[c].todo :
         Goto(c, IF k \in alive
                 THEN [pc |-> "scan_found", todo |-> ops[c].todo \ {k}, found |-> k]
                 ELSE Sweeping("scan", ops[c].todo \ {k}))
    /\ UNCHANGED <<rules, known, registry, alive, events, bound, handling>>

ScanOne(c) ==
    /\ ops[c].pc = "scan_found"
    /\ Upsert(HostOf[ops[c].found], Entry("container", ops[c].found))
    /\ Goto(c, Sweeping("scan", ops[c].todo))
    /\ UNCHANGED <<rules, known, alive, events, bound, handling>>

ScanEnd(c) ==
    /\ ops[c].pc \in {"scan", "orphans"} /\ ops[c].todo = {}
    /\ Goto(c, AtRest)
    /\ UNCHANGED <<rules, known, registry, alive, events, bound, handling>>

TldRemove(c, tld) ==
    /\ Begin(c, Hosts)
    /\ known' = known \ {tld}
    /\ Goto(c, Sweeping("orphan_list", {}))
    /\ UNCHANGED <<rules, registry, alive, events, bound, handling>>

OrphanList(c) ==
    /\ ops[c].pc = "orphan_list"
    /\ Goto(c, Sweeping("orphans", {h \in Hosts : registry[h] # NoRoute /\ ~Routable(h)}))
    /\ UNCHANGED <<rules, known, registry, alive, events, bound, handling>>

OrphanDrop(c) ==
    /\ ops[c].pc = "orphans"
    /\ \E h \in ops[c].todo : Drop(h) /\ Goto(c, Sweeping("orphans", ops[c].todo \ {h}))
    /\ UNCHANGED <<rules, known, alive, events, bound, handling>>

-----------------------------------------------------------------------------
(* RouteBinder: a service that comes up or goes down, an egress route that   *)
(* is synced or dropped.                                                     *)

Register(c, b) ==
    /\ Begin(c, {HostOf[b]}) /\ b \notin bound
    /\ bound' = bound \cup {b}
    /\ Goto(c, IF Routable(HostOf[b]) THEN Doing("register", HostOf[b], b) ELSE AtRest)
    /\ UNCHANGED <<rules, known, registry, alive, events, handling>>

Registered(c) ==
    /\ ops[c].pc = "register"
    /\ Upsert(ops[c].host, Entry("bound", ops[c].arg))
    /\ Goto(c, AtRest)
    /\ UNCHANGED <<rules, known, alive, events, bound, handling>>

\* Only the kind of the entry is compared, not which binding made it.
Deregister(c, b) ==
    /\ Begin(c, {HostOf[b]}) /\ b \in bound
    /\ bound' = bound \ {b}
    /\ Goto(c, IF registry[HostOf[b]] # NoRoute /\ registry[HostOf[b]].source = "bound"
               THEN Doing("deregister", HostOf[b], b) ELSE AtRest)
    /\ UNCHANGED <<rules, known, registry, alive, events, handling>>

\* Mutant: the rule is never put back.
NeverReseeded(c) ==
    /\ ops[c].pc = "deregister"
    /\ Drop(ops[c].host) /\ Goto(c, AtRest)
    /\ UNCHANGED <<rules, known, alive, events, bound, handling>>
\* A static rule for the host is put back; otherwise the route goes.
Deregistered(c) ==
    /\ ops[c].pc = "deregister"
    /\ LET h == ops[c].host
       IN  IF rules[h] # NoRoute THEN Upsert(h, Entry("static", rules[h])) ELSE Drop(h)
    /\ Goto(c, AtRest)
    /\ UNCHANGED <<rules, known, alive, events, bound, handling>>

-----------------------------------------------------------------------------
(* Docker, and docker_events::handle_event, which takes one event at a time. *)

DockerMay == Len(events) < MaxEvents /\ (ops[Booter] = AtRest \/ BootGap)
Emit(action, k) ==
    events' = IF ops[Booter] = AtRest THEN Append(events, <<action, k>>) ELSE events

ContainerStarts(k) ==
    /\ DockerMay /\ k \notin alive
    /\ alive' = alive \cup {k} /\ Emit("start", k)
    /\ UNCHANGED <<rules, known, registry, bound, handling, ops>>

ContainerDies(k) ==
    /\ DockerMay /\ k \in alive
    /\ alive' = alive \ {k} /\ Emit("die", k)
    /\ UNCHANGED <<rules, known, registry, bound, handling, ops>>

HandleStart ==
    /\ events # <<>> /\ handling = {} /\ Head(events)[1] = "start"
    /\ ops[Booter] = AtRest
    /\ LET k == Head(events)[2]
       IN  /\ HostsFree({HostOf[k]})
           /\ handling' = IF Routable(HostOf[k]) THEN {k} ELSE {}
    /\ events' = Tail(events)
    /\ UNCHANGED <<rules, known, registry, alive, bound, ops>>

\* resolve_target: the inspect answers, or fails when the container is gone.
StartResolved ==
    /\ \E k \in handling :
         IF k \in alive THEN Upsert(HostOf[k], Entry("container", k))
                        ELSE UNCHANGED registry
    /\ handling' = {}
    /\ UNCHANGED <<rules, known, alive, events, bound, ops>>

\* remove_by_container_id: every entry with the id of the container.
RemoveByContainer(k) ==
    registry' = [h \in Hosts |-> IF registry[h] = Entry("container", k)
                                 THEN NoRoute ELSE registry[h]]
HandleDie ==
    /\ events # <<>> /\ handling = {} /\ Head(events)[1] = "die"
    /\ ops[Booter] = AtRest
    /\ HostsFree({HostOf[Head(events)[2]]})
    /\ RemoveByContainer(Head(events)[2])
    /\ events' = Tail(events)
    /\ UNCHANGED <<rules, known, alive, bound, handling, ops>>

\* The daemon ends and comes back: rules and containers stay, the registry is
\* seeded before the event stream is opened, the bindings come later.
Restart ==
    /\ registry' = [h \in Hosts |-> NoRoute]
    /\ events' = <<>> /\ handling' = {} /\ bound' = {}
    /\ ops' = [a \in Actors |-> IF a = Booter THEN Sweeping("seed_list", {}) ELSE AtRest]
    /\ UNCHANGED <<rules, known, alive>>

Request(c) ==
    \/ \E h \in Hosts : RemoveRule(c, h) \/ \E t \in Targets : AddRule(c, h, t)
    \/ \E tld \in Tlds : TldAdd(c, tld) \/ TldRemove(c, tld)
    \/ \E b \in Bindings : Register(c, b) \/ Deregister(c, b)

Work(c) ==
    \/ AddStored(c) \/ AddRouted(c) \/ RemoveLook(c) \/ RemoveRouted(c)
    \/ SeedList(c) \/ SeedOne(c) \/ ScanList(c) \/ ScanInspect(c) \/ ScanOne(c) \/ ScanEnd(c)
    \/ OrphanList(c) \/ OrphanDrop(c) \/ Registered(c) \/ Deregistered(c)

HandleEvents == HandleStart \/ StartResolved \/ HandleDie

RoutesNext ==
    \/ \E c \in Callers : Request(c)
    \/ \E a \in Actors : Work(a)
    \/ \E k \in Containers : ContainerStarts(k) \/ ContainerDies(k)
    \/ HandleEvents
    \/ Restart

RoutesSpec == RoutesInit /\ [][RoutesNext]_routesVars

-----------------------------------------------------------------------------

\* No request is under way and every container event has been handled.
Quiet == events = <<>> /\ handling = {} /\ \A a \in Actors : ops[a] = AtRest

Lives(h, entry) ==
    CASE entry.source = "static"    -> rules[h] = entry.owner
      [] entry.source = "container" -> entry.owner \in alive
      [] entry.source = "bound"     -> entry.owner \in bound

\* An entry never outlives what it was made for: a static entry has its rule,
\* a container entry its running container, a bound entry its service or
\* egress route; and its TLD is managed (handle_remove, handle_tld_remove,
\* remove_by_container_id, RouteBinder::deregister).
RouteHasOwner ==
    Quiet => \A h \in Hosts : registry[h] # NoRoute =>
               Lives(h, registry[h]) /\ Routable(h)

\* A rule under a managed TLD is never silently unrouted: whatever service or
\* egress route came and went over it, and across restarts, the host has a
\* route (hosts that containers claim too are apart: see README).
RuleIsRouted ==
    Quiet => \A h \in Hosts :
               rules[h] # NoRoute /\ Routable(h) /\ h \notin {HostOf[k] : k \in Containers}
               => registry[h] # NoRoute

\* A container that runs under a managed TLD is routed, whether the TLD came
\* first or the container, and wherever in a scan it started or died.
ContainerIsRouted ==
    Quiet => \A k \in alive :
               Routable(HostOf[k]) /\ HostOf[k] \notin RuleHosts
               => registry[HostOf[k]] = Entry("container", k)

\* The registry at rest is exactly what its owners want of it: nothing
\* outlives its owner, and no rule or running container is left out.
RegistryTrue == RouteHasOwner /\ RuleIsRouted /\ ContainerIsRouted
=============================================================================
