----------------------------- MODULE HostFacing -----------------------------
(***************************************************************************)
(* What follows the bridge: the listeners that containers reach on the      *)
(* tunnel address while it is up (host_facing.rs), and the assessment shown *)
(* of it (bridge_health.rs).  The bridge itself is module Netbridge; here   *)
(* it is the state it publishes, the tunnel address, and the routes.        *)
(***************************************************************************)
EXTENDS Naturals, FiniteSets

CONSTANTS
    Fronts,    \* the listeners: DNS, HTTP, TLS
    Routed,    \* subnets that containers may be on
    MaxFlaps   \* bound: changes of the bridge, of the routes, and listeners that stop

VARIABLES
    bridgeIs,  \* is it up, as published; is the tunnel address usable; may Docker be asked
    leadsTo,   \* of each subnet, "unused" or the interface its route leads to
    facing,    \* host_facing::run: was the last published state seen, and are its services spawned
    listeners, \* the tasks that bind and listen, aborted ones that still hold a socket included
    assessing, \* bridge_health::assess: subnets to ask about, is the bridge's index known, any missing
    health,    \* the assessment requests are answered with
    flaps

facingVars == <<bridgeIs, leadsTo, facing, listeners, assessing, health, flaps>>

Used == {s \in Routed : leadsTo[s] # "unused"}
NotAssessing == [pc |-> "idle", todo |-> {}, expected |-> FALSE, missing |-> FALSE]
FacingInit ==
    /\ bridgeIs = [up |-> FALSE, address |-> FALSE, docker |-> TRUE]
    /\ leadsTo = [s \in Routed |-> "unused"]
    /\ facing = [seen |-> FALSE, services |-> FALSE]
    /\ listeners = {}
    /\ assessing = NotAssessing
    /\ health = "unknown" /\ flaps = 0

-----------------------------------------------------------------------------
(* The bridge, Docker and the kernel. *)
Flap == flaps < MaxFlaps /\ flaps' = flaps + 1
BridgePublishes ==
    /\ Flap
    /\ bridgeIs' = [bridgeIs EXCEPT !.up = ~@]
    /\ facing' = [facing EXCEPT !.seen = FALSE]
    /\ UNCHANGED <<leadsTo, listeners, assessing, health>>
\* The address comes and goes with the device, a moment after.
AddressFollows ==
    /\ bridgeIs.address # bridgeIs.up
    /\ bridgeIs' = [bridgeIs EXCEPT !.address = bridgeIs.up]
    /\ UNCHANGED <<leadsTo, facing, listeners, assessing, health, flaps>>
WorldRoutes ==
    /\ Flap
    /\ \/ /\ \E s \in Routed : \E i \in {"unused", "none", "own", "other", "gone"} \ {leadsTo[s]} :
               leadsTo' = [leadsTo EXCEPT ![s] = i]
          /\ UNCHANGED bridgeIs
       \/ bridgeIs' = [bridgeIs EXCEPT !.docker = ~@] /\ UNCHANGED leadsTo
    /\ UNCHANGED <<facing, listeners, assessing, health>>

-----------------------------------------------------------------------------
(* host_facing::run: each change of the published state, the latest only.   *)
Spawned(f) == [front |-> f, state |-> "binding"]
Holding(t) == t.state \in {"listening", "closing"}
Aborted(t) == [t EXCEPT !.state = IF @ = "listening" THEN "closing" ELSE "aborted"]
FollowBridge ==
    /\ ~facing.seen
    /\ IF bridgeIs.up = facing.services
       THEN facing' = [facing EXCEPT !.seen = TRUE] /\ UNCHANGED listeners
       ELSE IF bridgeIs.up
       THEN /\ facing' = [seen |-> TRUE, services |-> TRUE]
            /\ listeners' = listeners \cup {Spawned(f) : f \in Fronts}
       ELSE /\ facing' = [seen |-> TRUE, services |-> FALSE]
            /\ listeners' = {Aborted(t) : t \in listeners}
    /\ UNCHANGED <<bridgeIs, leadsTo, assessing, health, flaps>>
CanBind(t) == bridgeIs.address /\ \A o \in listeners : o.front = t.front => ~Holding(o)
\* Mutant: a listener that cannot bind is given up.
BecomesOnce(t, state) == IF state = "waiting" THEN listeners' = listeners \ {t}
                         ELSE listeners' = (listeners \ {t}) \cup {[t EXCEPT !.state = state]}
Becomes(t, state) == listeners' = (listeners \ {t}) \cup {[t EXCEPT !.state = state]}
\* spawn_dns, spawn_http, spawn_tls: bind and listen, or sleep and try again.
BindFront(t) ==
    /\ t.state = "binding"
    /\ Becomes(t, IF CanBind(t) THEN "listening" ELSE "waiting")
    /\ UNCHANGED <<bridgeIs, leadsTo, facing, assessing, health, flaps>>
RetryFront(t) ==
    /\ t.state = "waiting"
    /\ Becomes(t, "binding")
    /\ UNCHANGED <<bridgeIs, leadsTo, facing, assessing, health, flaps>>
FrontStops(t) ==
    /\ t.state = "listening" /\ Flap
    /\ Becomes(t, "waiting")
    /\ UNCHANGED <<bridgeIs, leadsTo, facing, assessing, health>>
\* The runtime drops an aborted task, and its socket with it.
FrontCloses(t) ==
    /\ t.state \in {"closing", "aborted"}
    /\ listeners' = listeners \ {t}
    /\ UNCHANGED <<bridgeIs, leadsTo, facing, assessing, health, flaps>>

-----------------------------------------------------------------------------
(* bridge_health::assess *)
RouteState(interface, expected) ==
    CASE interface \in {"none", "unused"} -> "missing"
      [] interface = "gone" -> "dead"
      [] interface = "other" /\ expected -> "missing"
      [] OTHER -> "live"
\* subnets_with_portman_containers; nothing to ask about is healthy.
AssessBegin ==
    /\ assessing.pc = "idle"
    /\ IF ~bridgeIs.docker \/ Used = {}
       THEN health' = (IF bridgeIs.docker THEN "healthy" ELSE "offline") /\ UNCHANGED assessing
       ELSE assessing' = [NotAssessing EXCEPT !.pc = "index", !.todo = Used] /\ UNCHANGED health
    /\ UNCHANGED <<bridgeIs, leadsTo, facing, listeners, flaps>>
\* The index of the bridge, as it is published by now.
ReadIndex ==
    /\ assessing.pc = "index"
    /\ assessing' = [assessing EXCEPT !.pc = "ask", !.expected = bridgeIs.up]
    /\ UNCHANGED <<bridgeIs, leadsTo, facing, listeners, health, flaps>>
AskRoute ==
    /\ assessing.pc = "ask" /\ assessing.todo # {}
    /\ \E s \in assessing.todo :
         LET is == RouteState(leadsTo[s], assessing.expected)
         IN IF is = "dead"
            THEN health' = "tunnel_dead" /\ assessing' = NotAssessing
            ELSE /\ assessing' = [assessing EXCEPT !.todo = @ \ {s}, !.missing = @ \/ is = "missing"]
                 /\ UNCHANGED health
    /\ UNCHANGED <<bridgeIs, leadsTo, facing, listeners, flaps>>
Verdict == IF assessing.missing THEN "routes_missing" ELSE "healthy"
AssessEnds ==
    /\ assessing.pc = "ask" /\ assessing.todo = {}
    /\ health' = Verdict
    /\ assessing' = NotAssessing
    /\ UNCHANGED <<bridgeIs, leadsTo, facing, listeners, flaps>>

FacingNext ==
    \/ BridgePublishes \/ AddressFollows \/ WorldRoutes \/ FollowBridge
    \/ \E t \in listeners : BindFront(t) \/ RetryFront(t) \/ FrontStops(t) \/ FrontCloses(t)
    \/ AssessBegin \/ ReadIndex \/ AskRoute \/ AssessEnds
FrontRuns(f) == \E t \in listeners : t.front = f /\ (BindFront(t) \/ RetryFront(t))
FrontEnds(f) == \E t \in listeners : t.front = f /\ FrontCloses(t)
\* Tasks that can run do: the runtime polls them, and their timers fire.
FacingFair ==
    /\ WF_facingVars(AddressFollows) /\ WF_facingVars(FollowBridge)
    /\ \A f \in Fronts : WF_facingVars(FrontRuns(f)) /\ WF_facingVars(FrontEnds(f))
    /\ WF_facingVars(AssessBegin \/ ReadIndex \/ AskRoute \/ AssessEnds)
FacingSpec == FacingInit /\ [][FacingNext]_facingVars /\ FacingFair

-----------------------------------------------------------------------------
\* Once the bridge stays as it is, each of the container-facing listeners is
\* up if it is up, and all are gone if it is down, however it flapped before,
\* whatever sockets old tasks still held, and whenever the address became
\* usable (host_facing.rs run, spawn_*).
Faced ==
    IF bridgeIs.up THEN \A f \in Fronts : \E t \in listeners : t.front = f /\ t.state = "listening"
    ELSE listeners = {}

\* Once the routes stay as they are, the assessment shown is that of the
\* routes: an assessment under way during a change, of a state that never was
\* as a whole, is replaced (bridge_health.rs run, assess).
Assessed ==
    LET states == {RouteState(leadsTo[s], bridgeIs.up) : s \in Used}
    IN health = IF ~bridgeIs.docker THEN "offline"
                ELSE IF "dead" \in states THEN "tunnel_dead"
                ELSE IF "missing" \in states THEN "routes_missing" ELSE "healthy"
\* Both, after whatever changes there were.
FacingSettles == <>(flaps # 0) => <>[](Faced /\ Assessed)
=============================================================================
