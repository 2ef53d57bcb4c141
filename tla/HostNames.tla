------------------------------ MODULE HostNames ------------------------------
(***************************************************************************)
(* Names as sequences of labels: which ones are valid (static_store.rs,     *)
(* tld.rs), which TLD or pattern they fall under, and what the resolver,    *)
(* the TLS listener and the registry make of one name while TLDs nested in  *)
(* one another, rules, services and labelled containers come and go         *)
(* (handlers.rs, supervisor.rs, docker_events.rs, lib.rs).  A handler is    *)
(* one step here; how handlers interleave is in Routes, the certificates     *)
(* made ahead in Certs.  Names are lower case: every reader lowers them.    *)
(***************************************************************************)
EXTENDS Naturals, Sequences, SequencesExt

CONSTANTS
    Clean,        \* labels of letters, digits, `_` and inner hyphens
    Typed,        \* names a user, a service or a label may ask for
    TldsTyped,    \* TLDs a user may ask for
    Asked,        \* names a client may ask the resolver or the TLS listener for
    RuleNames, ServiceNames, LabelNames, \* of the typed names, those of rules, services, containers
    MayStarTcp    \* may a service or a container ask for a wildcard in TCP mode?

VARIABLES
    tlds,     \* known_tlds
    tlsTlds,  \* tls_store: the TLDs whose mode requires TLS
    ruled,    \* static_store: the mode of each name's rule
    table,    \* the registry
    labelled  \* labelled containers that run
nameVars == <<tlds, tlsTlds, ruled, table, labelled>>

Star == "*"
DashboardHost == <<"portman", "localhost">>
NoMode == "none"
\* A name is a sequence of labels, and `*` is not a clean one.
ASSUME NamesAssumption ==
    /\ Star \notin Clean
    /\ \A n \in Typed \cup TldsTyped \cup Asked : n \in Seq(STRING)
NoEntryFor == [source |-> "none", mode |-> NoMode]
Under(n, t) == IsSuffix(t, n)

-----------------------------------------------------------------------------
is_wildcard_host(n) == n[1] = Star /\ Len(n) >= 2
\* At least two labels, none empty, `*` only as the leftmost of three.
validate_host(n) ==
    /\ Len(n) >= 2
    /\ \A i \in 1..Len(n) : n[i] \in Clean \/ (n[i] = Star /\ i = 1 /\ Len(n) >= 3)
validate_tld(t) ==
    /\ t # <<>> /\ \A i \in 1..Len(t) : t[i] \in Clean
    /\ t # <<"local">>
host_is_localhost(n) == Under(n, <<"localhost">>)
host_has_managed_tld(n, managed) == \E t \in managed : Under(n, t)
host_is_routable(n, managed) == host_is_localhost(n) \/ host_has_managed_tld(n, managed)
tls_enabled_for_host(n) == \E t \in tlsTlds : Under(n, t)

\* One label exactly.
wildcard_matches(p, n) == is_wildcard_host(p) /\ Len(n) = Len(p) /\ Tail(n) = Tail(p)
HeldNames == {n \in Typed : table[n].source # "none"}
\* Registry::lookup: the name itself, else the longest pattern that matches.
lookup(n) ==
    LET held == HeldNames
        patterns == {p \in held : wildcard_matches(p, n)}
    IN IF n \in held THEN n
       ELSE IF patterns = {} THEN <<>>
       ELSE CHOOSE p \in patterns : \A q \in patterns : Len(q) <= Len(p)
cert_key_for_sni(n) ==
    LET key == lookup(n)
    IN IF key # <<>> /\ table[key].mode = "http" /\ tls_enabled_for_host(n) THEN key ELSE <<>>

-----------------------------------------------------------------------------
HostNamesInit ==
    /\ tlds = {} /\ tlsTlds = {} /\ labelled = {}
    /\ ruled = [n \in Typed |-> NoMode]
    /\ table = [n \in Typed |-> NoEntryFor]

Found(source, mode) == [source |-> source, mode |-> mode]
\* What RouteBinder, the seeding and the container events ask of a name.
MayRoute(n, mode, managed) ==
    /\ n # DashboardHost /\ host_is_routable(n, managed)
    /\ ~(mode = "tcp" /\ host_is_localhost(n))

\* handle_add, when it does not refuse.
AddName(n, mode) ==
    /\ n \in RuleNames /\ validate_host(n) /\ MayRoute(n, mode, tlds)
    /\ ~(is_wildcard_host(n) /\ mode = "tcp")
    /\ ruled' = [ruled EXCEPT ![n] = mode]
    /\ table' = [table EXCEPT ![n] = Found("static", mode)]
    /\ UNCHANGED <<tlds, tlsTlds, labelled>>
RemoveName(n) ==
    /\ ruled[n] # NoMode
    /\ ruled' = [ruled EXCEPT ![n] = NoMode]
    /\ table' = [table EXCEPT ![n] = IF @.source = "static" THEN NoEntryFor ELSE @]
    /\ UNCHANGED <<tlds, tlsTlds, labelled>>

\* RouteBinder's four calls; the host was validated with the configuration.
RegisterName(n, source, mode) ==
    /\ n \in ServiceNames /\ validate_host(n) /\ MayRoute(n, mode, tlds)
    /\ MayStarTcp \/ ~(is_wildcard_host(n) /\ mode = "tcp")
    /\ table' = [table EXCEPT ![n] = Found(source, mode)]
    /\ UNCHANGED <<tlds, tlsTlds, ruled, labelled>>
RegisterOwned(n) == \/ \E m \in {"http", "tcp"} : RegisterName(n, "service", m)
                \/ RegisterName(n, "egress", "egress")
DeregisterName(n) ==
    /\ table[n].source \in {"service", "egress"}
    /\ table' = [table EXCEPT ![n] = IF ruled[n] = NoMode THEN NoEntryFor ELSE Found("static", ruled[n])]
    /\ UNCHANGED <<tlds, tlsTlds, ruled, labelled>>

\* A container's labels: its host is validated, not only read; TCP needs a port.
LabelStarts(n, mode, port) ==
    /\ labelled' = labelled \cup {[name |-> n, mode |-> mode, port |-> port]}
    /\ n \in LabelNames /\ \A l \in labelled : l.name # n
    /\ MayStarTcp \/ ~(is_wildcard_host(n) /\ mode = "tcp")
    /\ IF validate_host(n) /\ MayRoute(n, mode, tlds) /\ (mode = "tcp" => port)
       THEN table' = [table EXCEPT ![n] = Found("container", mode)]
       ELSE UNCHANGED table
    /\ UNCHANGED <<tlds, tlsTlds, ruled>>
LabelStops(l) ==
    /\ labelled' = labelled \ {l}
    /\ table' = [table EXCEPT ![l.name] = IF @.source = "container" THEN NoEntryFor ELSE @]
    /\ UNCHANGED <<tlds, tlsTlds, ruled>>

\* handle_tld_add: the setting, the set, the rules and containers seeded again.
Seeded(managed) ==
    [n \in Typed |->
        IF \E l \in labelled : l.name = n /\ validate_host(n) /\ MayRoute(n, l.mode, managed)
                               /\ (l.mode = "tcp" => l.port)
        THEN Found("container", (CHOOSE l \in labelled : l.name = n).mode)
        ELSE IF ruled[n] # NoMode /\ MayRoute(n, ruled[n], managed) THEN Found("static", ruled[n])
        ELSE table[n]]
AddTld(t, tls) ==
    /\ validate_tld(t) /\ t # <<"localhost">>
    /\ tlsTlds' = IF tls = "off" THEN tlsTlds \ {t} ELSE IF tls = "mkcert" THEN tlsTlds \cup {t} ELSE tlsTlds
    /\ tlds' = tlds \cup {t}
    /\ table' = Seeded(tlds')
    /\ UNCHANGED <<ruled, labelled>>
\* handle_tld_remove: what no TLD left covers goes.  Mutant: what this one covered.
DropUnder(t, managed) == [n \in Typed |-> IF Under(n, t) THEN NoEntryFor ELSE table[n]]
Orphaned(t, managed) == [n \in Typed |-> IF host_is_routable(n, managed) THEN table[n] ELSE NoEntryFor]
RemoveTld(t) ==
    /\ t \in tlds /\ tlds' = tlds \ {t}
    /\ table' = Orphaned(t, tlds')
    /\ UNCHANGED <<tlsTlds, ruled, labelled>>

HostNamesNext ==
    \/ \E n \in Typed : (\E m \in {"http", "tcp"} : AddName(n, m)) \/ RemoveName(n)
    \/ \E n \in Typed : RegisterOwned(n) \/ DeregisterName(n)
    \/ \E n \in Typed, m \in {"http", "tcp"}, p \in BOOLEAN : LabelStarts(n, m, p)
    \/ \E l \in labelled : LabelStops(l)
    \/ \E t \in TldsTyped : (\E tls \in {"kept", "off", "mkcert"} : AddTld(t, tls)) \/ RemoveTld(t)

-----------------------------------------------------------------------------
\* For one name, the resolver, the registry, the TLS listener and the TCP
\* forwarder say the same (handlers.rs:596, static_store.rs:257, certs.rs:165):
\* what is registered is a valid name a managed TLD or .localhost covers, so a
\* query for it reaches portman; a rule under a managed TLD has its route; the
\* certificate served for a name covers it, by the one label a wildcard stands
\* for; and a name answered with an address of its own is one a forwarder
\* listens for, the name of an entry and not one under a pattern.
NamesAgree ==
    /\ \A n \in HeldNames :
           /\ validate_host(n) /\ host_is_routable(n, tlds) /\ n # DashboardHost
           /\ table[n].mode = "tcp" => ~host_is_localhost(n)
    /\ \A n \in Typed : ruled[n] # NoMode /\ host_is_routable(n, tlds) => n \in HeldNames
    /\ \A q \in Asked : LET key == lookup(q) IN key # <<>> =>
           /\ host_is_routable(q, tlds)
           /\ table[key].mode = "tcp" => key = q
           /\ LET cert == cert_key_for_sni(q) IN cert # <<>> =>
                  cert = q \/ (Len(q) = Len(cert) /\ Tail(q) = Tail(cert) /\ Head(cert) = Star)
=============================================================================
