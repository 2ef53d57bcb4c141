----------------------------- MODULE Forwarders -----------------------------
(***************************************************************************)
(* TCP fronts: the loopback addresses (portman-core/src/loopback_alloc.rs), *)
(* the forwarder tasks that listen on them (tcp_forward.rs), and the DNS    *)
(* answers that send clients there (dns.rs).  The registry appears as the   *)
(* TCP entries it holds; a poll that reconciles has no await, so it is one  *)
(* step, while binding and the end of an aborted task happen later.         *)
(***************************************************************************)
EXTENDS Naturals, FiniteSets

CONSTANTS
    TcpNames,        \* names that may be registered in TCP mode
    Queries, Covers, \* names clients ask for, and the registered name that answers
    TcpTargets, PortOf, \* targets, and the port of each
    NoTarget, NoFront,
    LastAddr,        \* bound: 127.0.0.2 .. are 1 .. LastAddr
    MaxTasks,        \* bound: forwarder tasks not yet ended
    Prompt           \* does an aborted task close its listener before the next bind?

VARIABLES
    tcp,      \* the registry's TCP entries
    address,  \* LoopbackAllocator: the address of each name seen, 0 if none
    aliases,  \* addresses the loopback interface carries
    running,  \* tcp_forward: the Forward of each host
    tasks     \* forwarder tasks: starting, listening, and ending after an abort

forwardVars == <<tcp, address, aliases, running, tasks>>

Addrs == 1..LastAddr
Known == TcpNames \cup Queries
Taken == {address[n] : n \in Known} \ {0}

\* get_or_assign: the address the name has, or the lowest one not handed out.
AddressOf(name) ==
    IF address[name] # 0 THEN address[name]
    ELSE CHOOSE a \in Addrs \ Taken : \A b \in Addrs \ Taken : a <= b

Task(host, ip, target) == [host |-> host, ip |-> ip, target |-> target, state |-> "starting"]
Holds(t, ip, port) == t.state \in {"listening", "closing"} /\ t.ip = ip /\ PortOf[t.target] = port
\* A host's front has at most one task that was not aborted.
Current(t) == t.state \in {"starting", "listening"}

ForwardersInit ==
    /\ tcp = [n \in TcpNames |-> NoTarget]
    /\ address = [n \in Known |-> 0]
    /\ aliases = {} /\ tasks = {}
    /\ running = [n \in TcpNames |-> NoFront]

\* Another writer of the registry (module Routes) puts, moves or drops an entry.
SetEntry(n) ==
    /\ \E t \in (TcpTargets \cup {NoTarget}) \ {tcp[n]} : tcp' = [tcp EXCEPT ![n] = t]
    /\ UNCHANGED <<address, aliases, running, tasks>>

-----------------------------------------------------------------------------
(* reconcile: for each host, first the front whose entry is gone or moved... *)

\* Mutant: keeps a front whose target moved.
StaleIfGone(n) == running[n] # NoFront /\ tcp[n] = NoTarget
Stale(n) == running[n] # NoFront /\ running[n].target # tcp[n]
ReconcileStop(n) ==
    /\ Stale(n)
    /\ tasks' = {IF t.host = n /\ Current(t)
                 THEN [t EXCEPT !.state = IF @ = "listening" THEN "closing" ELSE "aborted"]
                 ELSE t : t \in tasks}
    /\ aliases' = aliases \ {running[n].ip}
    /\ running' = [running EXCEPT ![n] = NoFront]
    /\ UNCHANGED <<tcp, address>>

(* ... then the entry without a front.  An alias that cannot be added leaves *)
(* the entry to the next poll.  No two hosts share an address, so the order   *)
(* between hosts is free.                                                    *)
Missing(n) == tcp[n] # NoTarget /\ running[n] = NoFront
ReconcileStart(n) ==
    /\ Missing(n)
    /\ Cardinality(tasks) < MaxTasks
    /\ LET ip == AddressOf(n)
       IN  /\ address' = [address EXCEPT ![n] = ip]
           /\ aliases' = aliases \cup {ip}
           /\ tasks' = tasks \cup {Task(n, ip, tcp[n])}
           /\ running' = [running EXCEPT ![n] = [ip |-> ip, target |-> tcp[n]]]
    /\ UNCHANGED tcp

AliasFails(n) ==
    /\ Missing(n)
    /\ address[n] = 0
    /\ address' = [address EXCEPT ![n] = AddressOf(n)]
    /\ UNCHANGED <<tcp, aliases, running, tasks>>

-----------------------------------------------------------------------------
(* spawn_forwarder: a task binds, or ends when the address is in use; an     *)
(* aborted one gives its listener up when it is next polled.                 *)

InUse(t) == \E u \in tasks : u # t /\ Holds(u, t.ip, PortOf[t.target])
Bind(t) ==
    /\ t.state = "starting"
    /\ Prompt => ~InUse(t)
    /\ tasks' = (tasks \ {t})
                \cup (IF InUse(t) THEN {} ELSE {[t EXCEPT !.state = "listening"]})
    /\ UNCHANGED <<tcp, address, aliases, running>>

Closed(t) ==
    /\ t.state \in {"closing", "aborted"}
    /\ tasks' = tasks \ {t}
    /\ UNCHANGED <<tcp, address, aliases, running>>

\* DnsHandler::lookup_ipv4 for a host-facing query: the address of the name
\* asked for, not of the registered name that covers it.
Ask(q) ==
    /\ tcp[Covers[q]] # NoTarget
    /\ address' = [address EXCEPT ![q] = AddressOf(q)]
    /\ UNCHANGED <<tcp, aliases, running, tasks>>

Poll(n) == ReconcileStop(n) \/ ReconcileStart(n)
ForwarderTask == \E t \in tasks : Bind(t) \/ Closed(t)
ForwardersNext ==
    \/ \E n \in TcpNames : SetEntry(n) \/ Poll(n) \/ AliasFails(n)
    \/ ForwarderTask
    \/ \E q \in Queries : Ask(q)

\* The poll comes round every two seconds and takes every host each time; the
\* runtime runs every task.
ForwardersFair ==
    /\ \A n \in TcpNames :
         /\ WF_forwardVars(\E t \in tasks : t.host = n /\ Bind(t))
         /\ WF_forwardVars(\E t \in tasks : t.host = n /\ Closed(t))
    /\ \A n \in TcpNames : SF_forwardVars(Poll(n))
ForwardersSpec == ForwardersInit /\ [][ForwardersNext]_forwardVars /\ ForwardersFair

-----------------------------------------------------------------------------

\* Two listeners never stand on one address and port, and no task relays for
\* a host without the daemon knowing it as that host's front: an old listener
\* never outlives the front it was started for.
OneListener ==
    \A t \in tasks : t.state = "listening" =>
        /\ running[t.host] = [ip |-> t.ip, target |-> t.target]
        /\ t.ip \in aliases
        /\ ~InUse(t)

Fronted(n) == \E t \in tasks : t.host = n /\ t.state = "listening" /\ t.target = tcp[n]
\* Once the registry keeps an entry, its front comes up with that target:
\* a front is not lost in the pass that moves it; and on the way there is
\* never a second listener, nor one that outlives its front.
FrontComesUp ==
    /\ []OneListener
    /\ \A n \in TcpNames :
         <>[][tcp'[n] = tcp[n]]_tcp => []<>(tcp[n] # NoTarget => Fronted(n))
=============================================================================
