--------------------------- MODULE ServiceConfig ---------------------------
(***************************************************************************)
(* Loading portman.toml and portman.local.toml                              *)
(* (portman-core/src/service_config.rs): the overlay of the second file     *)
(* over the first, the resolution of services, blocks and egress routes in  *)
(* the order of their names, and the search for dependency cycles with its  *)
(* explicit stack, one step per turn of its loop.  Services are numbers in  *)
(* the order of their names; a field is a value or Absent; what only checks *)
(* spelling (names, tags, paths, header syntax) is left out.                *)
(***************************************************************************)
EXTENDS Naturals, Sequences, FiniteSets, SequencesExt

CONSTANTS
    LastService,        \* services are 1 .. LastService
    Overlays,           \* pairs of files: committed, local
    Absent, NoFile,
    Dashboard           \* the reserved host

VARIABLES
    overlay, \* the two files read
    raw,     \* RawConfig after the overlay
    phase,   \* where load is; "accepted" or "refused" at its end
    why,     \* what was refused
    next,    \* the service being resolved, or where the search starts
    seen,    \* seen_hosts
    done, path, stack  \* validate_depends

configVars == <<overlay, raw, phase, why, next, seen, done, path, stack>>
search == <<done, path, stack>>

Services == 1..LastService
Given(x) == x # Absent
Or(x, y) == IF Given(x) THEN x ELSE y

\* RawService: its fields, and that `depends` lists names.
ServiceKeys == {"run", "host", "port", "ready_port", "ready_delay_ms", "depends", "secrets"}
IsService(svc) ==
    /\ svc = [k \in ServiceKeys |-> svc[k]]
    /\ Given(svc.depends) => svc.depends \in Seq(Nat)
ASSUME ConfigAssumption ==
    /\ LastService \in Nat
    /\ \A o \in Overlays : \A file \in {o.committed, o.local} \ {NoFile} :
         \A n \in Services : Given(file.service[n]) => IsService(file.service[n])

\* merged_under: a field the overlay mentions wins; the readiness pair travels
\* together.
MergedUnder(base, over) ==
    LET pair == {"ready_port", "ready_delay_ms"}
        speaks == \E f \in pair : Given(over[f])
    IN  [f \in DOMAIN base |->
           IF f \in pair THEN IF speaks THEN over[f] ELSE base[f] ELSE Or(over[f], base[f])]

\* merge_and_resolve: services are patched, blocks and routes replaced whole.
Merge(committed, local) ==
    IF local = NoFile THEN committed ELSE IF committed = NoFile THEN local
    ELSE [service |-> [n \in Services |->
                         IF Given(committed.service[n]) /\ Given(local.service[n])
                         THEN MergedUnder(committed.service[n], local.service[n])
                         ELSE Or(local.service[n], committed.service[n])],
          secrets |-> [b \in DOMAIN committed.secrets |->
                         Or(local.secrets[b], committed.secrets[b])],
          egress  |-> [e \in DOMAIN committed.egress |->
                         Or(local.egress[e], committed.egress[e])]]

Declared == {n \in Services : Given(raw.service[n])}
Depends(n) == Or(raw.service[n].depends, <<>>)
DependsOn(n) == {Depends(n)[i] : i \in DOMAIN Depends(n)}

ConfigInit ==
    /\ overlay \in Overlays /\ raw = NoFile
    /\ phase = "load" /\ why = "none" /\ next = 1
    /\ seen = {} /\ done = {} /\ path = <<>> /\ stack = <<>>

Refuse(reason) == phase' = "refused" /\ why' = reason

\* load: at least one of the files exists.
Load ==
    /\ phase = "load"
    /\ IF overlay.committed = NoFile /\ overlay.local = NoFile
       THEN Refuse("no file") /\ UNCHANGED raw
       ELSE /\ raw' = Merge(overlay.committed, overlay.local)
            /\ phase' = "blocks" /\ UNCHANGED why
    /\ UNCHANGED <<overlay, next, seen, search>>

-----------------------------------------------------------------------------
(* resolve: blocks, then each service, then the dependencies, then egress.   *)

Fields(provider) ==
    CASE provider = "infisical" -> {"url", "project_id", "environment", "paths"}
      [] provider = "1password" -> {"refs"}
      [] provider = "local"     -> {"keys"}
      [] OTHER                  -> {}
Optional(provider) == IF provider = "infisical" THEN {"api_version", "mode"} ELSE {}
\* resolve_secrets: every field the provider needs and none it does not know.
BlockOK(block) ==
    /\ block.provider \in {"infisical", "1password", "local"}
    /\ Fields(block.provider) \subseteq block.fields
    /\ block.fields \subseteq Fields(block.provider) \cup Optional(block.provider)

ResolveBlocks ==
    /\ phase = "blocks"
    /\ IF \A b \in DOMAIN raw.secrets : Given(raw.secrets[b]) => BlockOK(raw.secrets[b])
       THEN phase' = "services" /\ UNCHANGED why ELSE Refuse("block")
    /\ UNCHANGED <<overlay, raw, next, seen, search>>

\* The readiness check of a service: its gate, or its port, or none.
Ready(svc) ==
    IF Given(svc.ready_port) THEN <<"port", svc.ready_port>>
    ELSE IF Given(svc.ready_delay_ms) THEN <<"delay", svc.ready_delay_ms>>
    ELSE IF Given(svc.port) THEN <<"port", svc.port>> ELSE <<"none">>

\* resolve_service, in the order of its checks.
Wrong(svc) ==
    IF ~Given(svc.run) THEN "run"
    ELSE IF svc.host = Dashboard THEN "dashboard"
    ELSE IF (Given(svc.host) /\ ~Given(svc.port)) \/ svc.port = 0 THEN "port"
    ELSE IF Given(svc.ready_port) /\ Given(svc.ready_delay_ms) THEN "exclusive"
    ELSE IF svc.ready_port = 0 THEN "port"
    ELSE IF \E b \in Or(svc.secrets, {}) : ~Given(raw.secrets[b]) THEN "secrets"
    ELSE IF svc.host \in seen THEN "host" ELSE "none"

ResolveService ==
    /\ phase = "services"
    /\ IF next > LastService THEN phase' = "unknown" /\ next' = 1 /\ UNCHANGED <<why, seen>>
       ELSE IF next \notin Declared THEN next' = next + 1 /\ UNCHANGED <<phase, why, seen>>
       ELSE LET svc == raw.service[next]
            IN  IF Wrong(svc) # "none" THEN Refuse(Wrong(svc)) /\ UNCHANGED <<next, seen>>
                ELSE /\ next' = next + 1
                     /\ seen' = seen \cup ({svc.host} \ {Absent})
                     /\ UNCHANGED <<phase, why>>
    /\ UNCHANGED <<overlay, raw, search>>

UnknownDepends ==
    /\ phase = "unknown"
    /\ IF \E n \in Declared : ~(DependsOn(n) \subseteq Declared)
       THEN Refuse("unknown") ELSE phase' = "search" /\ UNCHANGED why
    /\ UNCHANGED <<overlay, raw, next, seen, search>>

-----------------------------------------------------------------------------
(* validate_depends: depth first, a stack of names with the index of the     *)
(* dependency to look at next.                                               *)

\* The next start that is not done yet, or the end of the search.
Start ==
    /\ phase = "search" /\ stack = <<>>
    /\ IF next > LastService THEN phase' = "egress" /\ UNCHANGED <<path, stack>>
       ELSE /\ path' = <<>>
            /\ stack' = IF next \in Declared \ done THEN <<<<next, 0>>>> ELSE <<>>
            /\ UNCHANGED phase
    /\ next' = next + 1
    /\ UNCHANGED <<overlay, raw, why, seen, done>>

OnPath(name) == \E i \in DOMAIN path : path[i] = name

VisitKeepsPath(name, from, rest) ==
    /\ path' = IF from = 0 THEN Append(path, name) ELSE path
    /\ IF from < Len(Depends(name))
       THEN /\ stack' = rest \o <<<<name, from + 1>>, <<Depends(name)[from + 1], 0>>>>
            /\ UNCHANGED done
       ELSE stack' = rest /\ done' = done \cup {name}
\* Look at the next dependency, or leave the name.
Visit(name, from, rest) ==
    LET deps == Depends(name)
        on == IF from = 0 THEN Append(path, name) ELSE path
    IN  IF from < Len(deps)
        THEN /\ stack' = rest \o <<<<name, from + 1>>, <<deps[from + 1], 0>>>>
             /\ path' = on
             /\ UNCHANGED done
        ELSE /\ stack' = rest
             /\ path' = Front(on)
             /\ done' = done \cup {name}

\* One turn of the loop.  A name met again on the path closes a cycle.
Turn ==
    /\ phase = "search" /\ stack # <<>>
    /\ LET name == Last(stack)[1]
           from == Last(stack)[2]
       IN  IF from = 0 /\ OnPath(name)
           THEN Refuse("cycle") /\ UNCHANGED search
           ELSE IF from = 0 /\ name \in done
           THEN stack' = Front(stack) /\ UNCHANGED <<phase, why, path, done>>
           ELSE Visit(name, from, Front(stack)) /\ UNCHANGED <<phase, why>>
    /\ UNCHANGED <<overlay, raw, next, seen>>

-----------------------------------------------------------------------------
\* egress_key_allowed: a local block yields only the keys it declares.
KeyAllowed(route) ==
    LET block == raw.secrets[route.block]
    IN  Given(block) /\ block.provider = "local" => route.key \in block.keys

Routes == {e \in DOMAIN raw.egress : Given(raw.egress[e])}

\* resolve_egress of each: the reserved host, a key its block does not have,
\* a credential that would cross the network in clear, a host claimed before.
ResolveEgress ==
    /\ phase = "egress"
    /\ IF \/ \E e \in Routes :
              \/ raw.egress[e].host = Dashboard
              \/ ~KeyAllowed(raw.egress[e])
              \/ ~raw.egress[e].tls /\ ~raw.egress[e].loopback
              \/ raw.egress[e].host \in seen
          \/ \E d, e \in Routes : d # e /\ raw.egress[d].host = raw.egress[e].host
       THEN Refuse("egress") ELSE phase' = "accepted" /\ UNCHANGED why
    /\ UNCHANGED <<overlay, raw, next, seen, search>>

ConfigNext ==
    \/ Load \/ ResolveBlocks \/ ResolveService \/ UnknownDepends
    \/ Start \/ Turn \/ ResolveEgress

ConfigSpec == ConfigInit /\ [][ConfigNext]_configVars

-----------------------------------------------------------------------------
\* A set in which everyone depends on a member: what a cycle leaves behind.
Cyclic(set) == set # {} /\ \A n \in set : DependsOn(n) \cap set # {}

\* An accepted configuration has no dependency cycle, and one is refused as
\* cyclic only for a cycle that is there: the names from the one met again to
\* the end of the path (validate_depends: "cycles are reported with their
\* members").
CycleVerdict ==
    /\ phase \in {"egress", "accepted"} => \A set \in SUBSET Declared : ~Cyclic(set)
    /\ why = "cycle" =>
         LET met == Last(stack)[1]
             from == CHOOSE i \in DOMAIN path : path[i] = met
         IN  /\ \A i \in from..(Len(path) - 1) : path[i + 1] \in DependsOn(path[i])
             /\ met \in DependsOn(Last(path))

\* What the search has left is closed and without a cycle, and its path is a
\* chain of dependencies without repetition: the state that makes the verdict
\* right also when names are met again over other edges.
SearchSound ==
    phase = "search" =>
        /\ \A n \in done : DependsOn(n) \subseteq done
        /\ \A i, j \in DOMAIN path : path[i] = path[j] => i = j
        /\ \A i \in DOMAIN path : i < Len(path) => path[i + 1] \in DependsOn(path[i])

\* A local file never makes a service clash with the readiness of the
\* committed one: "mutually exclusive" is said only of a file that states both
\* itself, and the gate is that of the last file that speaks of it.
ReadinessTravels ==
    LET both(file, n) == /\ file # NoFile /\ Given(file.service[n])
                         /\ Given(file.service[n].ready_port)
                         /\ Given(file.service[n].ready_delay_ms)
    IN  /\ why = "exclusive" =>
             both(overlay.committed, next) \/ both(overlay.local, next)
        /\ phase = "accepted" /\ overlay.local # NoFile /\ overlay.committed # NoFile =>
             \A n \in Services :
               LET base == overlay.committed.service[n]
                   over == overlay.local.service[n]
               IN  Given(base) /\ Given(over)
                   => LET stated == [base EXCEPT !.port = Or(over.port, base.port)]
                          gate == {Given(over.ready_port), Given(over.ready_delay_ms)}
                      IN  Ready(raw.service[n]) =
                            IF TRUE \in gate THEN Ready(over) ELSE Ready(stated)

\* No two services or routes of an accepted configuration claim one host.
HostsUnique ==
    phase = "accepted" =>
        LET claims == {<<"service", n>> : n \in {m \in Declared : Given(raw.service[m].host)}}
                      \cup {<<"egress", e>> : e \in Routes}
            host(c) == IF c[1] = "service" THEN raw.service[c[2]].host ELSE raw.egress[c[2]].host
        IN  \A c, d \in claims : host(c) = host(d) => c = d
\* What service_config.rs accepts and refuses as a whole: cycles, hosts
\* claimed twice, and readiness gates.
VerdictSound == CycleVerdict /\ SearchSound /\ HostsUnique /\ ReadinessTravels
=============================================================================
