----------------------------- MODULE MCDaemon ------------------------------
(***************************************************************************)
(* The daemon beside its supervisor and brokers: each part on an instance  *)
(* of its own.  A behaviour is one of `part`; the others rest in an         *)
(* initial state of theirs.                                                 *)
(***************************************************************************)
EXTENDS Routes, Forwarders, SecretsCache, Masker, Sync, ServiceConfig, Netbridge,
        LogStore, Tui, Relay, Proxy, Sampler, HostFacing, Tunnel, HostNames, TLC

CONSTANTS
    Parts, \* of the daemon that a run looks at
    h1, h2, h3, h4, k1, k2, b1, v1, v2, v3, r1, r2, s1, s2, e1, e2

\* Routes: one TLD; a service on a host with a static rule, a container on
\* another, one on a host that may have a rule too.
OneTld == CHOOSE t \in Tlds : TRUE
MCTldOf == [h \in Hosts |-> OneTld]
MCHostOf == k1 :> h2 @@ k2 :> h3 @@ b1 :> h1
\* Forwarders: every name answers for itself, and all targets share a port.
MCCovers == [q \in Queries |-> q]
MCPortOf == [x \in TcpTargets |-> 1]
\* Masker: one value is part of another, and both can be given to service 1.
MCWithin == {<<v2, v1>>}
MCGivenTo == 0 :> {{v3}} @@ 1 :> {{v1, v2}, {v1}} @@ 2 :> {{v3}, {v2, v3}}

\* Sync: the configurations of two roots that change versions, hosts, blocks
\* and routes of one another.
Def(version, host, depends) == [version |-> version, host |-> host, depends |-> depends]
Eg(host) == [host |-> host, block |-> k1]
File(root, services, blks, routes) ==
    [root |-> root, services |-> services, blocks |-> blks, egress |-> routes]
MCFiles ==
    {File(r1, s1 :> Def(1, h1, {s2}) @@ s2 :> Def(1, h2, {}), {k1}, e1 :> Eg(h3)),
     File(r1, s1 :> Def(2, h2, {}) @@ s2 :> Def(2, h1, {}), {}, e1 :> Eg(h3)),
     File(r1, s2 :> Def(1, h3, {}), {k1}, e1 :> Eg(h2) @@ e2 :> Eg(h1)),
     File(r1, s2 :> Def(1, h3, {}), {k1}, e1 :> Eg(h1) @@ e2 :> Eg(h2)),
     File(r2, s1 :> Def(1, h4, {}), {}, <<>>),
     File(r2, <<>>, {}, e2 :> Eg(h4))}

\* ServiceConfig: every dependency graph of three services, lists with a name
\* twice included; a service and a local patch of it; blocks and a route.
Opt(values) == {Absent} \cup values
Svc(run, host, port, rport, delay, depends) ==
    [run |-> run, host |-> host, port |-> port, ready_port |-> rport,
     ready_delay_ms |-> delay, depends |-> depends, secrets |-> Absent]
Toml(service, block, egr) == [service |-> service, secrets |-> k1 :> block, egress |-> e1 :> egr]
Only(n, s) == [m \in Services |-> IF m = n THEN s ELSE Absent]
Lists == {<<>>} \cup {<<i>> : i \in Services} \cup {<<i, j>> : i, j \in Services}
Graphs ==
    {[committed |-> Toml([n \in Services |-> Svc(1, Absent, Absent, Absent, Absent, g[n])], Absent, Absent),
      local |-> NoFile] : g \in [Services -> Lists]}
Patches ==
    {[committed |-> Toml(Only(1, base), Absent, Absent),
      local |-> Toml([Only(1, patch) EXCEPT ![2] = other], Absent, Absent)] :
        base \in {Svc(1, h, p, rp, rd, <<>>) : h \in Opt({h1}), p \in Opt({1}), rp \in Opt({0, 1}), rd \in Opt({1})},
        patch \in {Svc(r, Absent, p, rp, rd, d) : r \in Opt({1}), p \in Opt({2}), rp \in Opt({2}),
                                                  rd \in Opt({2}), d \in Opt({<<2>>})},
        other \in Opt({Svc(1, h1, 1, Absent, Absent, <<1>>)})}
Locals ==
    {[committed |-> NoFile,
      local |-> Toml(Only(1, [Svc(1, h1, 1, Absent, Absent, <<>>) EXCEPT !.secrets = s]), b, e)] :
        b \in Opt({[provider |-> "local", fields |-> {"keys"}, keys |-> {"a"}],
                   [provider |-> "local", fields |-> {"keys"}, keys |-> {"a", "b"}],
                   [provider |-> "infisical", fields |-> {"url"}], [provider |-> "vault", fields |-> {}]}),
        e \in Opt([host : {h1, h2}, block : {k1}, key : {"a", "b"}, tls : BOOLEAN, loopback : BOOLEAN]),
        s \in Opt({{k1}})}
MCOverlays == Graphs \cup Patches \cup Locals \cup {[committed |-> NoFile, local |-> NoFile]}

\* Tui: two panels, of two rows and one, or of one each.
TuiRows == "entries" :> {1, 2} @@ "services" :> {1}
TuiFewRows == "entries" :> {1} @@ "services" :> {1}

\* Relay: every framing, and a client that sets a forwarding header itself.
MCHeads == {<<"other">>, <<"cl1", "proto">>, <<"te", "cl1">>, <<"cl0", "te">>, <<"clbad">>, <<"up", "cl1">>}
\* Proxy: one host, every kind of route, and requests of every kind.
Ent(mode, target, block, guarded, container) ==
    [mode |-> mode, target |-> target, block |-> block, guarded |-> guarded, container |-> container]
MCEntries == {Ent("http", 1, NoBlock, FALSE, TRUE), Ent("tcp", 1, NoBlock, FALSE, FALSE),
              Ent("egress", 1, k1, TRUE, FALSE), Ent("egress", 2, k1, FALSE, FALSE),
              Ent("egress", 2, NoBlock, FALSE, FALSE)}
Req(host, start, bearer, origin, crossSite) ==
    [host |-> host, start |-> start, bearer |-> bearer, origin |-> origin, crossSite |-> crossSite]
MCRequests == {Req(h1, FALSE, FALSE, "none", FALSE), Req(h1, FALSE, TRUE, "none", FALSE),
               Req(h1, TRUE, FALSE, "own", FALSE), Req(h1, TRUE, FALSE, "other", FALSE),
               Req(h1, FALSE, TRUE, "none", TRUE), Req("unknown", FALSE, FALSE, "none", FALSE)}
MCKnownTo == h1 :> {"label"}

\* HostNames: a wildcard over a name that has one below it, a TLD inside
\* another, a name that needs no TLD, and names and TLDs that are refused.
MCServed == {<<"b", "a", "t">>, <<"x", "localhost">>, <<"*", "a", "t">>}
MCLabels == {<<"c", "b", "a", "t">>}
MCTyped == MCServed \cup MCLabels \cup {<<"*", "t">>, DashboardHost}
MCTldsTyped == {<<"t">>, <<"a", "t">>, <<"local">>, <<"localhost">>}
MCAsked == {<<"b", "a", "t">>, <<"c", "a", "t">>, <<"c", "b", "a", "t">>, <<"a", "t">>, <<"x", "localhost">>}

-----------------------------------------------------------------------------
VARIABLE part
daemonVars == <<part, routesVars, forwardVars, secretVars, maskVars, syncVars,
                configVars, bridgeVars, logVars, tuiVars, relayVars, proxyVars,
                samplerVars, facingVars, tunnelVars, nameVars>>
Init ==
    /\ part \in Parts
    /\ ConfigInit /\ (part # "config" => overlay = [committed |-> NoFile, local |-> NoFile])
    /\ SecretsInit /\ (part # "secrets" => \A b \in SecretBlocks : config[b].provider = "local")
    /\ NetbridgeInit /\ (part # "netbridge" => ~stateFile.enabled /\ bridgeMode # "docker")
    /\ TuiInit /\ (part # "tui" => \A p \in ListPanels : daemon.rows[p] = {})
    /\ RelayInit /\ (part # "relay" => buf = <<HeadUnit(<<"other">>), Eol>>)
    /\ ProxyInit /\ (part # "proxy" => granted = {} /\ routeOf = [h \in ProxyHosts |-> NoEntry])
    /\ SamplerInit /\ FacingInit /\ HostNamesInit
    /\ TunnelInit /\ (part # "tunnel" => vm.addr = CHOOSE a \in VmAddrs : TRUE)
    /\ RoutesInit /\ ForwardersInit /\ MaskerInit /\ SyncInit /\ LogStoreInit
Next ==
    /\ UNCHANGED part
    /\ IF part = "routes" THEN RoutesNext ELSE UNCHANGED routesVars
    /\ IF part = "forwarders" THEN ForwardersNext ELSE UNCHANGED forwardVars
    /\ IF part = "secrets" THEN SecretsNext ELSE UNCHANGED secretVars
    /\ IF part = "masker" THEN MaskerNext ELSE UNCHANGED maskVars
    /\ IF part = "sync" THEN SyncNext ELSE UNCHANGED syncVars
    /\ IF part = "config" THEN ConfigNext ELSE UNCHANGED configVars
    /\ IF part = "netbridge" THEN NetbridgeNext ELSE UNCHANGED bridgeVars
    /\ IF part = "logs" THEN LogStoreNext ELSE UNCHANGED logVars
    /\ IF part = "tui" THEN TuiNext ELSE UNCHANGED tuiVars
    /\ IF part = "relay" THEN RelayNext ELSE UNCHANGED relayVars
    /\ IF part = "proxy" THEN ProxyNext ELSE UNCHANGED proxyVars
    /\ IF part = "sampler" THEN SamplerNext ELSE UNCHANGED samplerVars
    /\ IF part = "facing" THEN FacingNext ELSE UNCHANGED facingVars
    /\ IF part = "tunnel" THEN TunnelNext ELSE UNCHANGED tunnelVars
    /\ IF part = "names" THEN HostNamesNext ELSE UNCHANGED nameVars
SafeSpec == Init /\ [][Next]_daemonVars

\* Each part's fairness, asked only of the behaviours of that part.
Fairness ==
    /\ \A n \in TcpNames :
         /\ WF_forwardVars(part = "forwarders" /\ \E t \in tasks : t.host = n /\ Bind(t))
         /\ WF_forwardVars(part = "forwarders" /\ \E t \in tasks : t.host = n /\ Closed(t))
         /\ SF_forwardVars(part = "forwarders" /\ Poll(n))
    /\ SF_bridgeVars(part = "netbridge" /\ PlanAnswered)
    /\ \A c \in Cidrs : WF_bridgeVars(part = "netbridge" /\ RepairRoute(c))
    /\ WF_tuiVars(part = "tui" /\ RefreshReads) /\ WF_tuiVars(part = "tui" /\ HandleKey)
    /\ SF_tuiVars(part = "tui" /\ TickerStarts) /\ SF_tuiVars(part = "tui" /\ RefreshReceived)
    /\ WF_facingVars(part = "facing" /\ AddressFollows) /\ WF_facingVars(part = "facing" /\ FollowBridge)
    /\ \A f \in Fronts :
         WF_facingVars(part = "facing" /\ FrontRuns(f)) /\ WF_facingVars(part = "facing" /\ FrontEnds(f))
    /\ WF_facingVars(part = "facing" /\ (AssessBegin \/ ReadIndex \/ AskRoute \/ AssessEnds))
Spec == SafeSpec /\ Fairness

=============================================================================
