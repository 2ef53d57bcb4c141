---------------------------- MODULE TrafficProofs -----------------------------
(***************************************************************************)
(* Proofs about what traffic meets in the daemon, and what is told of it.    *)
(* Proxy: whatever changes beside a request, it goes where its host was      *)
(* routed, with a credential of the same entry.  Relay: on the connection,   *)
(* the upstream takes for heads what the client meant as heads, all stamped. *)
(* SecretsCache: once an edit is answered the cache holds no value from      *)
(* before it.  Masker: no line of a service reaches the log with a value in  *)
(* it.  Routes: the registry at rest is what its owners want of it.          *)
(* HostNames: the registry, the resolver and the listeners agree on a name.  *)
(* LogStore: a log pane skips no line.  For any hosts, entries, secrets,     *)
(* containers, names, lines and streams.                                     *)
(***************************************************************************)
EXTENDS Proxy, Relay, SecretsCache, Masker, Routes, HostNames, LogStore, TLAPS, SequenceTheorems, FiniteSetTheorems, WellFoundedInduction

\* Connections that go by the clone of an entry.
Carried == {"admit", "resolve", "connect", "joined", "start"}
Carrier(conn) ==
    conn = [pc |-> conn.pc, tls |-> conn.tls, req |-> conn.req, entry |-> conn.entry,
            target |-> conn.target, value |-> conn.value]

\* What was true of a request at one of the moments since it was read.
Routed(conn, seen) == \E w \in seen : w.routeOf[conn.req.host] = conn.entry
Admitted(conn, seen) ==
    /\ conn.req.origin # "other" /\ ~conn.req.crossSite /\ conn.entry.block # NoBlock
    /\ ManagedBroker \/ conn.entry.guarded =>
           conn.req.bearer /\ \E w \in seen : <<conn.req.host, conn.entry>> \in w.granted
Valued(conn, seen) == \E w \in seen : w.blockValue[conn.entry.block] = conn.value

\* What a connection carries at each of its steps.
Justified(conn, seen) ==
    /\ conn.pc \in Carried => /\ Carrier(conn) /\ conn.entry \in HostEntries
                              /\ Routed(conn, seen) /\ conn.target = conn.entry.target
    /\ conn.pc \in {"admit", "resolve"} => conn.entry.mode = "egress" /\ conn.value = NoValue
    /\ conn.pc = "resolve" => Admitted(conn, seen)
    /\ conn.pc \in {"connect", "joined"} =>
           \/ conn.entry.mode = "http" /\ conn.value = NoValue
           \/ /\ conn.entry.mode = "egress" /\ conn.value # NoValue
              /\ Admitted(conn, seen) /\ Valued(conn, seen)
    /\ conn.pc \in {"start", "started"} => conn.entry.mode = "http" /\ Routed(conn, seen)
    /\ conn.pc = "lookup" => conn = [pc |-> conn.pc, tls |-> conn.tls, req |-> conn.req]
\* The present is one of the moments, and a request is at rest without any.
Remembered(conn, seen) ==
    IF conn.pc \in Carried \cup {"lookup", "started"} THEN World \in seen ELSE seen = {}

ProxyTypes ==
    /\ routeOf \in [ProxyHosts -> HostEntries \cup {NoEntry}]
    /\ blockValue \in [EgressBlocks -> Credentials \cup {NoValue}]
    /\ conns = [c \in Conns |-> conns[c]] /\ lately = [c \in Conns |-> lately[c]]
HopInv == /\ ProxyTypes
          /\ \A c \in Conns : Justified(conns[c], lately[c]) /\ Remembered(conns[c], lately[c])

-----------------------------------------------------------------------------
\* Nothing is under way initially.
LEMMA InitJustified == ProxyInit => HopInv
<1> SUFFICES ASSUME ProxyInit PROVE HopInv
  OBVIOUS
<1>1. ProxyTypes
  BY DEF ProxyInit, ProxyTypes, Credentials
<1>2. ASSUME NEW c \in Conns PROVE conns[c].pc = "none" /\ lately[c] = {}
  BY DEF ProxyInit, NotConnected
<1> QED BY <1>1, <1>2 DEF HopInv, Justified, Remembered, Carried

\* What was true stays so as moments are added.
LEMMA JustifiedGrows ==
  ASSUME NEW conn, NEW seen, NEW more, Justified(conn, seen), seen \subseteq more
  PROVE  Justified(conn, more)
  BY DEF Justified, Routed, Admitted, Valued

\* A step of one connection, while the world stays.
LEMMA OneConn ==
  ASSUME HopInv, NEW c \in Conns, NEW conn, NEW seen,
         UNCHANGED <<routeOf, granted, blockValue>>,
         conns' = [conns EXCEPT ![c] = conn], lately' = [lately EXCEPT ![c] = seen],
         Justified(conn, seen), Remembered(conn, seen)
  PROVE  HopInv'
<1>1. World' = World
  BY DEF World
<1>2. ASSUME NEW d \in Conns PROVE Justified(conns'[d], lately'[d]) /\ (Remembered(conns[d], lately[d]))'
  <2>1. conns'[d] = (IF d = c THEN conn ELSE conns[d]) /\ lately'[d] = (IF d = c THEN seen ELSE lately[d])
    BY DEF HopInv, ProxyTypes
  <2> QED BY <1>1, <2>1 DEF HopInv, Remembered
<1>3. ProxyTypes'
  BY DEF HopInv, ProxyTypes
<1> QED BY <1>2, <1>3 DEF HopInv

\* An answer ends what the connection carried.
LEMMA AnsweredHolds ==
  ASSUME HopInv, NEW c \in Conns, NEW code, Answered(c, code)
  PROVE  HopInv'
<1> DEFINE conn == [pc |-> "answered", code |-> code]
<1>1. conns' = [conns EXCEPT ![c] = conn] /\ lately' = [lately EXCEPT ![c] = {}]
  BY DEF Answered
<1>2. Justified(conn, {}) /\ Remembered(conn, {})
  BY DEF Justified, Remembered, Carried
<1> QED BY <1>1, <1>2, OneConn DEF Answered

\* The steps before a route is looked up, and the end of a connection.
LEMMA ReadHolds ==
  ASSUME HopInv, NEW c \in Conns, AcceptConn(c) \/ HeadRead(c) \/ CloseConn(c)
  PROVE  HopInv'
<1>1. UNCHANGED <<routeOf, granted, blockValue>> /\ lately = [d \in Conns |-> lately[d]]
  BY DEF AcceptConn, HeadRead, CloseConn, HopInv, ProxyTypes
<1>2. CASE AcceptConn(c)
  <2>1. PICK tls \in BOOLEAN : conns' = [conns EXCEPT ![c] = [pc |-> "head", tls |-> tls]]
    BY <1>2 DEF AcceptConn
  <2> DEFINE conn == [pc |-> "head", tls |-> tls]
  <2>2. lately[c] = {} /\ lately' = [lately EXCEPT ![c] = {}]
    <3>1. lately[c] = {}
      BY <1>2 DEF AcceptConn, NotConnected, HopInv, Remembered, Carried
    <3>2. lately' = lately
      BY <1>2 DEF AcceptConn
    <3> QED BY <1>1, <3>1, <3>2
  <2>3. Justified(conn, {}) /\ Remembered(conn, {})
    BY DEF Justified, Remembered, Carried
  <2> QED BY <1>1, <2>1, <2>2, <2>3, OneConn
<1>3. CASE HeadRead(c)
  <2>1. PICK r \in Requests : conns' = [conns EXCEPT ![c] = [pc |-> "lookup", tls |-> @.tls, req |-> r]]
    BY <1>3 DEF HeadRead
  <2> DEFINE conn == [pc |-> "lookup", tls |-> conns[c].tls, req |-> r]
  <2>2. Justified(conn, {World}) /\ Remembered(conn, {World})
    BY DEF Justified, Remembered, Carried
  <2>3. conns' = [conns EXCEPT ![c] = conn] /\ lately' = [lately EXCEPT ![c] = {World}]
    BY <1>3, <2>1 DEF HeadRead, HopInv, ProxyTypes
  <2> QED BY <1>1, <2>2, <2>3, OneConn
<1>4. CASE CloseConn(c)
  <2>1. Justified(NotConnected, {}) /\ Remembered(NotConnected, {})
    BY DEF Justified, Remembered, Carried, NotConnected
  <2> QED BY <1>1, <1>4, <2>1, OneConn DEF CloseConn
<1> QED BY <1>2, <1>3, <1>4

\* The clone is what the registry has at this moment (handle_connection).
LEMMA LookUpHolds ==
  ASSUME HopInv, NEW c \in Conns, LookUpRoute(c)
  PROVE  HopInv'
<1> DEFINE entry == EntryOf(conns[c].req.host)
           pc == IF entry.mode = "egress" THEN "admit" ELSE "connect"
           conn == With(conns[c], pc, entry)
<1>1. ASSUME NEW code, Answered(c, code) PROVE HopInv'
  BY <1>1, AnsweredHolds
<1>2. CASE /\ entry # NoEntry /\ entry.mode # "tcp"
           /\ conns' = [conns EXCEPT ![c] = conn] /\ UNCHANGED <<routeOf, granted, blockValue, lately>>
  <2>1. entry \in HostEntries /\ routeOf[conns[c].req.host] = entry
    BY <1>2 DEF EntryOf, HopInv, ProxyTypes
  <2>2. entry.mode \in {"http", "egress"}
    BY <1>2, <2>1, ProxyAssumption
  <2>3. World \in lately[c] /\ World.routeOf = routeOf
    BY DEF LookUpRoute, HopInv, Remembered, World
  <2>4. /\ conn.pc = pc /\ conn.req = conns[c].req /\ conn.entry = entry
        /\ conn.target = entry.target /\ conn.value = NoValue /\ Carrier(conn)
    BY DEF With, Carrier
  <2> HIDE DEF conn, entry
  <2>5. Justified(conn, lately[c]) /\ Remembered(conn, lately[c])
    BY <2>1, <2>2, <2>3, <2>4 DEF Justified, Remembered, Routed, Carried
  <2>6. lately' = [lately EXCEPT ![c] = lately[c]]
    BY <1>2 DEF HopInv, ProxyTypes
  <2> QED BY <1>2, <2>5, <2>6, OneConn
<1> QED BY <1>1, <1>2 DEF LookUpRoute

\* The value is all that a resolved credential adds.
LEMMA CarrierResolves ==
  ASSUME NEW old, Carrier(old), NEW value
  PROVE  LET conn == [old EXCEPT !.pc = "connect", !.value = value]
         IN  /\ conn.pc = "connect" /\ conn.req = old.req /\ conn.entry = old.entry
             /\ conn.target = old.target /\ conn.value = value /\ Carrier(conn)
<1> DEFINE conn == [old EXCEPT !.pc = "connect", !.value = value]
<1>1. old = [pc |-> old.pc, tls |-> old.tls, req |-> old.req, entry |-> old.entry,
             target |-> old.target, value |-> old.value]
  BY DEF Carrier
<1>2. DOMAIN old = {"pc", "tls", "req", "entry", "target", "value"}
  BY <1>1
<1>3. conn = [f \in DOMAIN old |-> IF f = "pc" THEN "connect" ELSE IF f = "value" THEN value ELSE old[f]]
  BY <1>2
<1>4. conn = [pc |-> "connect", tls |-> old.tls, req |-> old.req, entry |-> old.entry,
             target |-> old.target, value |-> value]
  BY <1>2, <1>3
<1> QED BY <1>4 DEF Carrier

\* The checks of handle_egress, and the value its credential resolves to.
LEMMA EgressHolds ==
  ASSUME HopInv, NEW c \in Conns, AdmitEgress(c) \/ ResolveCredential(c)
  PROVE  HopInv'
<1> DEFINE old == conns[c]
<1>1. ASSUME NEW code, Answered(c, code) PROVE HopInv'
  BY <1>1, AnsweredHolds
<1>2. /\ Justified(old, lately[c]) /\ World \in lately[c] /\ Carrier(old)
      /\ lately = [lately EXCEPT ![c] = lately[c]]
  BY DEF AdmitEgress, ResolveCredential, HopInv, ProxyTypes, Remembered, Justified, Carried
<1>3. CASE AdmitEgress(c) /\ \A code : ~Answered(c, code)
  <2> DEFINE conn == [old EXCEPT !.pc = "resolve"]
  <2>1. /\ old.pc = "admit" /\ ~CrossOrigin(old.req) /\ old.entry.block # NoBlock /\ Authorize(old.req, old.entry)
        /\ conns' = [conns EXCEPT ![c] = conn] /\ UNCHANGED <<routeOf, granted, blockValue, lately>>
    BY <1>3 DEF AdmitEgress, HopInv, ProxyTypes
  <2>2. /\ conn.pc = "resolve" /\ conn.req = old.req /\ conn.entry = old.entry
        /\ conn.target = old.target /\ conn.value = old.value /\ Carrier(conn)
    BY <1>2 DEF Carrier
  <2>3. World.granted = granted
    BY DEF World
  <2>4. Admitted(old, lately[c])
    BY <1>2, <2>1, <2>3 DEF Admitted, CrossOrigin, Authorize
  <2> HIDE DEF conn, old
  <2>5. Justified(conn, lately[c]) /\ Remembered(conn, lately[c])
    BY <1>2, <2>1, <2>2, <2>4 DEF Justified, Remembered, Routed, Admitted, Carried
  <2> QED BY <1>2, <2>1, <2>5, OneConn
<1>4. CASE ResolveCredential(c) /\ \A code : ~Answered(c, code)
  <2> DEFINE value == blockValue[old.entry.block]
             conn == [old EXCEPT !.pc = "connect", !.value = value]
  <2>1. /\ old.pc = "resolve" /\ value # NoValue
        /\ conns' = [conns EXCEPT ![c].pc = "connect", ![c].value = value]
        /\ UNCHANGED <<routeOf, granted, blockValue, lately>>
    BY <1>4 DEF ResolveCredential
  <2>2. conns' = [conns EXCEPT ![c] = conn]
    BY <2>1 DEF HopInv, ProxyTypes
  <2>3. /\ conn.pc = "connect" /\ conn.req = old.req /\ conn.entry = old.entry
        /\ conn.target = old.target /\ conn.value = value /\ Carrier(conn)
    BY <1>2, CarrierResolves
  <2>4. World.blockValue[old.entry.block] = value
    BY DEF World
  <2> HIDE DEF conn, old, value
  <2>5. Justified(conn, lately[c]) /\ Remembered(conn, lately[c])
    BY <1>2, <2>1, <2>3, <2>4 DEF Justified, Remembered, Routed, Admitted, Valued, Carried
  <2> QED BY <1>2, <2>1, <2>2, <2>5, OneConn
<1> QED BY <1>1, <1>3, <1>4

\* The connect, and what a refused one may lead to.
LEMMA DialHolds ==
  ASSUME HopInv, NEW c \in Conns, Dial(c) \/ DialFails(c) \/ StartBackend(c)
  PROVE  HopInv'
<1> DEFINE old == conns[c]
<1>1. ASSUME NEW code, Answered(c, code) PROVE HopInv'
  BY <1>1, AnsweredHolds
<1>2. /\ Justified(old, lately[c]) /\ World \in lately[c] /\ Carrier(old)
      /\ lately = [lately EXCEPT ![c] = lately[c]]
  BY DEF Dial, DialFails, StartBackend, HopInv, ProxyTypes, Remembered, Justified, Carried
<1>3. ASSUME NEW pc \in {"joined", "start"}, old.pc = "connect", pc = "start" => old.entry.mode # "egress",
             conns' = [conns EXCEPT ![c].pc = pc], UNCHANGED <<routeOf, granted, blockValue, lately>>
      PROVE  HopInv'
  <2> DEFINE conn == [old EXCEPT !.pc = pc]
  <2>1. /\ conn.pc = pc /\ conn.req = old.req /\ conn.entry = old.entry
        /\ conn.target = old.target /\ conn.value = old.value /\ Carrier(conn)
    BY <1>2 DEF Carrier
  <2>2. conns' = [conns EXCEPT ![c] = conn]
    BY <1>3 DEF HopInv, ProxyTypes
  <2> HIDE DEF conn, old
  <2>3. Justified(conn, lately[c]) /\ Remembered(conn, lately[c])
    BY <1>2, <1>3, <2>1 DEF Justified, Remembered, Routed, Admitted, Valued, Carried
  <2> QED BY <1>2, <1>3, <2>2, <2>3, OneConn
<1>4. CASE Dial(c)
  BY <1>3, <1>4 DEF Dial
<1>5. CASE DialFails(c)
  BY <1>1, <1>3, <1>5 DEF DialFails
<1>6. CASE StartBackend(c) /\ \A code : ~Answered(c, code)
  <2>1. PICK starter : /\ old.pc = "start"
                       /\ conns' = [conns EXCEPT ![c] = [pc |-> "started", req |-> old.req,
                                                         entry |-> @.entry, by |-> starter]]
                       /\ UNCHANGED <<routeOf, granted, blockValue, lately>>
    BY <1>6 DEF StartBackend
  <2> DEFINE conn == [pc |-> "started", req |-> old.req, entry |-> old.entry, by |-> starter]
  <2>2. conns' = [conns EXCEPT ![c] = conn]
    BY <2>1 DEF HopInv, ProxyTypes
  <2>3. conn.pc = "started" /\ conn.req = old.req /\ conn.entry = old.entry
    OBVIOUS
  <2> HIDE DEF conn, old
  <2>4. Justified(conn, lately[c]) /\ Remembered(conn, lately[c])
    BY <1>2, <2>1, <2>3 DEF Justified, Remembered, Routed, Carried
  <2> QED BY <1>2, <2>1, <2>2, <2>4, OneConn
<1> QED BY <1>1, <1>4, <1>5, <1>6

\* A change beside the requests is one more moment for each of them.
LEMMA WorldHolds ==
  ASSUME HopInv, WorldChanges
  PROVE  HopInv'
<1>1. conns' = conns /\ lately' = [c \in Conns |-> IF lately[c] = {} THEN {} ELSE lately[c] \cup {World'}]
  BY DEF WorldChanges
<1>2. /\ routeOf' \in [ProxyHosts -> HostEntries \cup {NoEntry}]
      /\ blockValue' \in [EgressBlocks -> Credentials \cup {NoValue}]
  BY DEF WorldChanges, HopInv, ProxyTypes
<1>3. ASSUME NEW c \in Conns PROVE Justified(conns[c], lately'[c]) /\ (Remembered(conns[c], lately[c]))'
  <2>1. Justified(conns[c], lately[c]) /\ Remembered(conns[c], lately[c])
    BY DEF HopInv
  <2>2. lately[c] \subseteq lately'[c] /\ (lately[c] # {} => World' \in lately'[c]) /\ (lately[c] = {} => lately'[c] = {})
    BY <1>1
  <2>3. Justified(conns[c], lately'[c])
    BY <2>1, <2>2, JustifiedGrows
  <2> QED BY <1>1, <2>1, <2>2, <2>3 DEF Remembered
<1> QED BY <1>1, <1>2, <1>3 DEF HopInv, ProxyTypes

-----------------------------------------------------------------------------
\* The invariant holds of every state.
THEOREM HopsHold == ProxySpec => []HopInv
<1>1. ProxyInit => HopInv
  BY InitJustified
<1>2. HopInv /\ [ProxyNext]_proxyVars => HopInv'
  <2> SUFFICES ASSUME HopInv, [ProxyNext]_proxyVars PROVE HopInv'
    OBVIOUS
  <2>1. ASSUME NEW c \in Conns, HeadRefused(c) \/ DialTimesOut(c) PROVE HopInv'
    BY <2>1, AnsweredHolds DEF HeadRefused, DialTimesOut
  <2>2. ASSUME UNCHANGED proxyVars PROVE HopInv'
    BY <2>2 DEF proxyVars, HopInv, ProxyTypes, Remembered, World
  <2> QED BY <2>1, <2>2, ReadHolds, LookUpHolds, EgressHolds, DialHolds, WorldHolds DEF ProxyNext
<1> QED BY <1>1, <1>2, PTL DEF ProxySpec

\* Whatever is routed, granted or rotated while a request is under way, it goes
\* to a target its host had, with a credential only of that entry's block, and
\* only admitted as that entry asks (proxy.rs:264-420, egress.rs:72-88).
THEOREM HopsAlwaysJustified == ProxySpec => []HopsJustified
<1>1. HopInv => HopsJustified
  <2> SUFFICES ASSUME HopInv, NEW c \in Conns
               PROVE  /\ conns[c].pc = "joined" =>
                           \E w \in lately[c] :
                              LET conn == conns[c]
                                  entry == w.routeOf[conn.req.host]
                              IN  /\ entry # NoEntry /\ conn.target = entry.target
                                  /\ entry.mode = IF conn.value = NoValue THEN "http" ELSE "egress"
                                  /\ entry.mode = "egress" =>
                                       /\ conn.req.origin # "other" /\ ~conn.req.crossSite
                                       /\ entry.block # NoBlock
                                       /\ \E v \in lately[c] : v.blockValue[entry.block] = conn.value
                                       /\ ManagedBroker \/ entry.guarded =>
                                            conn.req.bearer /\ \E v \in lately[c] :
                                                                 <<conn.req.host, entry>> \in v.granted
                      /\ conns[c].pc = "started" =>
                           \E w \in lately[c] : /\ w.routeOf[conns[c].req.host] = conns[c].entry
                                                /\ conns[c].entry.mode = "http"
    BY DEF HopsJustified
  <2>1. Justified(conns[c], lately[c])
    BY DEF HopInv
  <2>2. conns[c].pc = "joined" => conns[c].entry # NoEntry
    BY <2>1, ProxyAssumption DEF Justified, Carried
  <2> QED BY <2>1, <2>2 DEF Justified, Carried, Routed, Admitted, Valued
<1> QED BY <1>1, HopsHold, PTL


-----------------------------------------------------------------------------
(* No block is served from coordinates an answered edit has replaced.          *)

Configurations == [provider : Providers, version : Nat]
Answers == [from : Configurations, version : Nat]
Fetches == [pc : {"lookup", "login", "fetch", "insert", "resolved", "failed"}, block : SecretBlocks,
            config : Configurations, value : Answers \cup {NotCached}]
SecretTypes ==
    /\ config \in [SecretBlocks -> Configurations]
    /\ remote \in Nat /\ vault \in Nat /\ since \in Nat
    /\ cache \in [SecretBlocks -> Answers \cup {NotCached}]
    /\ fetching \in [Fetchers -> Fetches \cup {NotFetching}]
    /\ edit \in BOOLEAN

\* A value of block b that may be cached, whatever edit comes to be answered.
Fresh(b, value) ==
    value # NotCached => value.from = config[b] /\ config[b].provider # "local" /\ value.version >= since

\* With no edit while a fetch is under way, a fetch is of the block as it is
\* configured now, and what it brings the cache is read since the last edit; so
\* what is cached is fresh, but between an edit and its invalidate().
SecretsInv ==
    /\ SecretTypes /\ since <= remote
    /\ \A f \in Fetchers : fetching[f] # NotFetching =>
         /\ fetching[f].config = config[fetching[f].block]
         /\ fetching[f].pc \in {"login", "fetch"} => fetching[f].config.provider # "local"
         /\ fetching[f].pc = "insert" => Fresh(fetching[f].block, fetching[f].value)
    /\ ~edit => \A b \in SecretBlocks : Fresh(b, cache[b])

\* Initially nothing is cached or under way.
LEMMA InitSecrets == SecretsInit => SecretsInv
<1> SUFFICES ASSUME SecretsInit PROVE SecretsInv
  OBVIOUS
<1>1. config \in [SecretBlocks -> Configurations]
  <2>1. config \in [SecretBlocks -> [provider : Providers, version : {0}]]
    BY DEF SecretsInit
  <2>2. \A b \in SecretBlocks : config[b] \in Configurations
    BY <2>1 DEF Configurations
  <2> QED BY <2>1, <2>2
<1>2. SecretTypes
  BY <1>1 DEF SecretsInit, SecretTypes
<1>3. \A f \in Fetchers : fetching[f] = NotFetching
  BY DEF SecretsInit
<1>4. since <= remote /\ \A b \in SecretBlocks : cache[b] = NotCached
  BY DEF SecretsInit
<1> QED BY <1>2, <1>3, <1>4 DEF SecretsInv, Fresh

\* A step of one resolver that leaves the configuration and the cache alone
\* keeps the invariant if what it did to its own record does.
LEMMA ResolverStep ==
  ASSUME SecretsInv, NEW f \in Fetchers, NEW r \in Fetches \cup {NotFetching},
         fetching' = [fetching EXCEPT ![f] = r],
         UNCHANGED <<config, remote, vault, cache, edit, since>>,
         r # NotFetching =>
           /\ r.config = config[r.block]
           /\ r.pc \in {"login", "fetch"} => r.config.provider # "local"
           /\ r.pc = "insert" => Fresh(r.block, r.value)
  PROVE  SecretsInv'
<1>1. SecretTypes'
  BY DEF SecretsInv, SecretTypes
<1>2. ASSUME NEW g \in Fetchers, fetching'[g] # NotFetching
      PROVE  /\ fetching'[g].config = config[fetching'[g].block]
             /\ fetching'[g].pc \in {"login", "fetch"} => fetching'[g].config.provider # "local"
             /\ fetching'[g].pc = "insert" => Fresh(fetching'[g].block, fetching'[g].value)
  BY <1>2 DEF SecretsInv, SecretTypes
<1> QED BY <1>1, <1>2 DEF SecretsInv, Fresh

\* Each step of a resolver.
LEMMA ResolveKeepsFresh ==
  ASSUME SecretsInv, NEW f \in Fetchers, ResolveStep(f) \/ \E b \in SecretBlocks : Resolve(f, b)
  PROVE  SecretsInv'
<1>1. ASSUME NEW b \in SecretBlocks, Resolve(f, b) PROVE SecretsInv'
  <2> DEFINE r == [pc |-> "lookup", block |-> b, config |-> config[b], value |-> NotCached]
  <2>1. r \in Fetches /\ r.config = config[r.block] /\ r.pc = "lookup"
    BY DEF Fetches, SecretsInv, SecretTypes
  <2>2. fetching' = [fetching EXCEPT ![f] = r] /\ UNCHANGED <<config, remote, vault, cache, edit, since>>
    BY <1>1 DEF Resolve
  <2> HIDE DEF r
  <2> QED BY <2>1, <2>2, ResolverStep
<1>2. ASSUME NEW pc \in {"login", "fetch", "resolved", "failed"}, fetching[f] # NotFetching, Goes(f, pc),
             pc \in {"login", "fetch"} => fetching[f].config.provider # "local",
             UNCHANGED <<config, remote, vault, cache, edit, since>>
      PROVE  SecretsInv'
  <2> DEFINE r == [fetching[f] EXCEPT !.pc = pc]
  <2>1. r \in Fetches /\ r.config = config[r.block] /\ r.pc = pc /\ r.config = fetching[f].config
    BY <1>2 DEF Fetches, SecretsInv, SecretTypes
  <2>2. fetching' = [fetching EXCEPT ![f] = r]
    BY <1>2 DEF Goes
  <2> HIDE DEF r
  <2> QED BY <1>2, <2>1, <2>2, ResolverStep
<1>3. ASSUME NEW pc \in {"insert", "resolved"}, NEW value \in Answers \cup {NotCached},
             fetching[f] # NotFetching, Gets(f, pc, value),
             pc = "insert" => Fresh(fetching[f].block, value),
             UNCHANGED <<config, remote, vault, cache, edit, since>>
      PROVE  SecretsInv'
  <2> DEFINE r == [fetching[f] EXCEPT !.pc = pc, !.value = value]
  <2>1. /\ r \in Fetches /\ r.config = config[r.block] /\ r.pc = pc /\ r.value = value
        /\ r.block = fetching[f].block
    BY <1>3 DEF Fetches, SecretsInv, SecretTypes
  <2>2. fetching' = [fetching EXCEPT ![f] = r]
    BY <1>3 DEF Gets
  <2> HIDE DEF r
  <2> QED BY <1>3, <2>1, <2>2, ResolverStep
<1>4. CASE Lookup(f)
  <2> DEFINE hit == cache[fetching[f].block]
  <2>1. /\ fetching[f] # NotFetching /\ fetching[f] \in Fetches
        /\ hit \in Answers \cup {NotCached} /\ fetching[f].config.provider \in Providers
        /\ UNCHANGED <<config, remote, vault, cache, edit, since>>
    BY <1>4 DEF Lookup, Here, SecretsInv, SecretTypes, Fetches, Configurations
  <2>2. CASE hit # NotCached
    BY <1>3, <1>4, <2>1, <2>2 DEF Lookup
  <2>3. CASE hit = NotCached /\ Coordinates(f).provider = "local"
    <3>1. Gets(f, "resolved", [from |-> Coordinates(f), version |-> vault])
      BY <1>4, <2>3 DEF Lookup
    <3>2. [from |-> Coordinates(f), version |-> vault] \in Answers
      BY <2>1 DEF Coordinates, Fetches, Answers, SecretsInv, SecretTypes
    <3> QED BY <1>3, <2>1, <3>1, <3>2
  <2>4. CASE hit = NotCached /\ Coordinates(f).provider = "infisical"
    BY <1>2, <1>4, <2>1, <2>4 DEF Lookup, Coordinates
  <2>5. CASE hit = NotCached /\ Coordinates(f).provider = "onepassword"
    BY <1>2, <1>4, <2>1, <2>5 DEF Lookup, Coordinates
  <2> QED BY <2>1, <2>2, <2>3, <2>4, <2>5, SecretsAssumption DEF Coordinates
<1>5. CASE Login(f)
  <2>1. fetching[f] # NotFetching /\ fetching[f].config.provider # "local"
    BY <1>5 DEF Login, Here, SecretsInv
  <2> QED BY <1>2, <1>5, <2>1 DEF Login
<1>6. CASE Fetch(f)
  <2> DEFINE value == [from |-> Coordinates(f), version |-> remote]
  <2>1. /\ fetching[f] # NotFetching /\ fetching[f].config.provider # "local"
        /\ UNCHANGED <<config, remote, vault, cache, edit, since>>
    BY <1>6 DEF Fetch, Here, SecretsInv
  <2>2. value \in Answers /\ Fresh(fetching[f].block, value)
    BY <2>1 DEF Coordinates, Fetches, Answers, Fresh, SecretsInv, SecretTypes
  <2>3. Gets(f, "insert", value) \/ Goes(f, "failed")
    BY <1>6 DEF Fetch
  <2> HIDE DEF value
  <2> QED BY <1>2, <1>3, <2>1, <2>2, <2>3
<1>7. CASE Insert(f)
  <2>1. /\ fetching[f] # NotFetching /\ fetching[f].pc = "insert" /\ fetching[f] \in Fetches
        /\ cache' = [cache EXCEPT ![fetching[f].block] = fetching[f].value]
        /\ fetching' = [fetching EXCEPT ![f] = [fetching[f] EXCEPT !.pc = "resolved"]]
        /\ UNCHANGED <<config, remote, vault, edit, since>>
    BY <1>7 DEF Insert, Here, Goes, SecretsInv, SecretTypes
  <2>2. fetching[f].block \in SecretBlocks /\ fetching[f].value \in Answers \cup {NotCached}
    BY <2>1 DEF Fetches
  <2>3. ~edit => \A b \in SecretBlocks : Fresh(b, cache'[b])
    BY <2>1, <2>2 DEF SecretsInv, SecretTypes
  <2>4. SecretTypes'
    BY <2>1, <2>2 DEF SecretsInv, SecretTypes, Fetches
  <2>5. \A g \in Fetchers : g # f => fetching'[g] = fetching[g]
    BY <2>1 DEF SecretsInv, SecretTypes
  <2>6. fetching'[f].pc = "resolved" /\ fetching'[f].config = fetching[f].config
        /\ fetching'[f].block = fetching[f].block
    BY <2>1 DEF SecretsInv, SecretTypes, Fetches
  <2> QED BY <2>1, <2>3, <2>4, <2>5, <2>6 DEF SecretsInv, Fresh
<1>8. CASE Leave(f)
  BY <1>8, ResolverStep DEF Leave
<1> QED BY <1>1, <1>4, <1>5, <1>6, <1>7, <1>8 DEF ResolveStep

\* An edit, its invalidate(), and what changes at the providers.
LEMMA EditsKeepFresh ==
  ASSUME SecretsInv, ~Straddle,
         \/ \E b \in SecretBlocks, p \in Providers : EditBlock(b, p)
         \/ Invalidate \/ SetLocal \/ Rotate \/ TokenExpires \/ TokenRevoked
  PROVE  SecretsInv'
<1>1. ASSUME NEW b \in SecretBlocks, NEW p \in Providers, EditBlock(b, p) PROVE SecretsInv'
  <2>1. config' \in [SecretBlocks -> Configurations]
    <3>1. [provider |-> p, version |-> config[b].version + 1] \in Configurations
      BY DEF SecretsInv, SecretTypes, Configurations
    <3> QED BY <1>1, <3>1 DEF EditBlock, SecretsInv, SecretTypes
  <2>2. /\ edit' = TRUE /\ since' = remote /\ \A f \in Fetchers : fetching'[f] = NotFetching
        /\ UNCHANGED <<remote, vault, cache, fetching>>
    BY <1>1 DEF EditBlock
  <2> QED BY <2>1, <2>2 DEF SecretsInv, SecretTypes
<1>2. CASE Invalidate
  BY <1>2 DEF Invalidate, SecretsInv, SecretTypes, Fresh
<1>3. CASE SetLocal \/ TokenExpires \/ TokenRevoked
  BY <1>3 DEF SetLocal, TokenExpires, TokenRevoked, SecretsInv, SecretTypes, Fresh
<1>4. CASE Rotate
  BY <1>4 DEF Rotate, SecretsInv, SecretTypes, Fresh
<1> QED BY <1>1, <1>2, <1>3, <1>4

\* Once an edit has been answered no block is served from its old coordinates,
\* nor from before the edit (secrets/mod.rs, invalidate), for any blocks,
\* resolvers and edits, provided that no edit commits while a fetch is under way.
THEOREM CacheAlwaysCurrent ==
  ASSUME ~Straddle
  PROVE  SecretsSpec => []CacheCurrent
<1>1. SecretsInv => CacheCurrent
  BY DEF SecretsInv, Fresh, CacheCurrent
<1>2. SecretsInv /\ [SecretsNext]_secretVars => SecretsInv'
  <2>1. UNCHANGED secretVars /\ SecretsInv => SecretsInv'
    BY DEF secretVars, SecretsInv, SecretTypes, Fresh
  <2> QED BY <2>1, ResolveKeepsFresh, EditsKeepFresh DEF SecretsNext
<1> QED BY <1>1, <1>2, InitSecrets, PTL DEF SecretsSpec

-----------------------------------------------------------------------------
(* No value is stored unmasked.                                               *)

\* A set of numbers has a least one.
LEMMA LeastNumber ==
  ASSUME NEW T, T \subseteq Nat, T # {}
  PROVE  \E n \in T : \A m \in T : n <= m
<1>1. PICK x \in T : \A y \in T : ~(<<y, x>> \in OpToRel(<, Nat))
  BY NatLessThanWellFounded, WFMin, Zenon
<1>2. ASSUME NEW y \in T PROVE x <= y
  <2>1. <<y, x>> \in Nat \X Nat
    OBVIOUS
  <2>2. <<y, x>>[1] = y /\ <<y, x>>[2] = x
    OBVIOUS
  <2>3. ~(y < x)
    BY <1>1, <2>1, <2>2 DEF OpToRel
  <2> QED BY <2>3
<1> QED BY <1>2

\* An owner whose name comes before a service's is given no part of a value of
\* the service without the value: mask() goes through the owners by name, and
\* orders values by length only within one owner (secret_masker.rs).
PartsKnown ==
    \A s \in Supervised, o \in Owners : o < s =>
        \A h \in GivenTo[s], g \in GivenTo[o] : \A v \in h :
            (\E p \in g : <<p, v>> \in Within) => v \in g

Stages == {"composed", "registered", "running", "draining", "drained"}
Attempt == [service : Supervised, given : SUBSET Secrets, stage : Stages]
MaskTypes ==
    /\ registered \in [Owners -> SUBSET Secrets]
    /\ \A o \in Owners : registered[o] \in GivenTo[o] \/ registered[o] = {}
    /\ attempts \subseteq Attempt
    /\ \A a \in attempts : a.given \in GivenTo[a.service]

\* An attempt that has registered its values still has them registered, as
\* there is one attempt of a service at a time; and a line to be read is of such
\* an attempt, and one of its values.
MaskInv ==
    /\ MaskTypes
    /\ \A a, b \in attempts : a.service = b.service => a = b
    /\ \A a \in attempts : a.stage # "composed" => registered[a.service] = a.given
    /\ \A l \in pipe :
         /\ l.value \in l.given
         /\ \E a \in attempts : a.service = l.of /\ a.given = l.given /\ a.stage \in {"running", "draining"}
    /\ NothingExposed

\* Initially nothing is registered, printed or stored.
LEMMA InitMask == MaskerInit => MaskInv
<1> SUFFICES ASSUME MaskerInit PROVE MaskInv
  OBVIOUS
<1>1. MaskTypes
  BY DEF MaskerInit, MaskTypes
<1> QED BY <1>1 DEF MaskerInit, MaskInv, NothingExposed

\* A value that its own service has registered is masked whole, whichever
\* owners have registered parts of it.
LEMMA MaskedWhole ==
  ASSUME PartsKnown, MaskTypes, NEW s \in Supervised, NEW v \in registered[s]
  PROVE  Mask(v) = "marker"
<1> DEFINE hits == {o \in Owners : Touches(o, v)}
           first == CHOOSE o \in hits : \A p \in hits : o <= p
<1>1. s \in hits
  BY DEF Touches, Owners
<1>2. hits \subseteq Nat
  BY MaskerConstants DEF Owners
<1>3. first \in hits /\ \A p \in hits : first <= p
  BY <1>1, <1>2, LeastNumber
<1>4. first \in Owners /\ first <= s /\ Touches(first, v)
  BY <1>1, <1>3
<1>5. CASE first = s
  <2>1. v \in registered[first]
    BY <1>5
  <2> QED BY <1>1, <2>1 DEF Mask
<1>6. CASE first # s
  <2>1. first < s
    BY <1>1, <1>2, <1>3, <1>4, <1>6
  <2>2. registered[s] \in GivenTo[s]
    BY DEF MaskTypes, Owners
  <2>3. registered[first] \in GivenTo[first]
    BY <1>4 DEF MaskTypes, Touches
  <2>4. v \in registered[first]
    BY <1>4, <2>1, <2>2, <2>3 DEF PartsKnown, Touches
  <2> QED BY <1>1, <2>4 DEF Mask
<1> QED BY <1>5, <1>6

\* An attempt's step to another stage that keeps what is registered.
LEMMA MovesKeepsMask ==
  ASSUME MaskInv, NEW a \in attempts, NEW stage \in Stages, Moves(a, stage),
         UNCHANGED <<registered, stored>>, pipe' \subseteq pipe,
         a.stage # "composed" \/ stage = "composed",
         stage \notin {"running", "draining"} => \A l \in pipe' : l.of # a.service
  PROVE  MaskInv'
<1> DEFINE b == [a EXCEPT !.stage = stage]
<1>1. b \in Attempt /\ b.service = a.service /\ b.given = a.given /\ b.stage = stage
  BY DEF MaskInv, MaskTypes, Attempt
<1>2. attempts' = (attempts \ {a}) \cup {b}
  BY DEF Moves
<1> HIDE DEF b
<1>3. MaskTypes'
  BY <1>1, <1>2 DEF MaskInv, MaskTypes
<1>4. \A c, d \in attempts' : c.service = d.service => c = d
  BY <1>1, <1>2 DEF MaskInv
<1>5. \A c \in attempts' : c.stage # "composed" => registered'[c.service] = c.given
  BY <1>1, <1>2 DEF MaskInv
<1>6. ASSUME NEW l \in pipe'
      PROVE  /\ l.value \in l.given
             /\ \E c \in attempts' : c.service = l.of /\ c.given = l.given /\ c.stage \in {"running", "draining"}
  <2>1. PICK c \in attempts : c.service = l.of /\ c.given = l.given /\ c.stage \in {"running", "draining"}
    BY <1>6 DEF MaskInv
  <2>2. CASE c = a
    BY <1>1, <1>2, <1>6, <2>1, <2>2 DEF MaskInv
  <2>3. CASE c # a
    BY <1>2, <1>6, <2>1, <2>3 DEF MaskInv
  <2> QED BY <2>2, <2>3
<1> QED BY <1>3, <1>4, <1>5, <1>6 DEF MaskInv, NothingExposed

\* Each step of an attempt.
LEMMA AttemptKeepsMask ==
  ASSUME MaskInv, NEW a \in attempts, AttemptStep(a)
  PROVE  MaskInv'
<1>0. a \in Attempt /\ a.service \in Supervised /\ a.service \in Owners /\ a.given \in GivenTo[a.service]
  BY DEF MaskInv, MaskTypes, Attempt, Owners
<1>1. CASE RegisterValues(a)
  <2> DEFINE b == [a EXCEPT !.stage = "registered"]
  <2>1. b \in Attempt /\ b.service = a.service /\ b.given = a.given /\ b.stage = "registered"
    BY <1>0 DEF Attempt, Stages
  <2>2. /\ a.stage = "composed" /\ attempts' = (attempts \ {a}) \cup {b}
        /\ registered' = [registered EXCEPT ![a.service] = a.given]
        /\ UNCHANGED <<pipe, stored>>
    BY <1>1 DEF RegisterValues, Moves
  <2> HIDE DEF b
  <2>3. \A c \in attempts : c # a => c.service # a.service
    BY DEF MaskInv
  <2>4. registered' \in [Owners -> SUBSET Secrets] /\ registered'[a.service] = a.given
        /\ \A o \in Owners : o # a.service => registered'[o] = registered[o]
    BY <1>0, <2>2 DEF MaskInv, MaskTypes, Attempt
  <2>5. MaskTypes'
    BY <1>0, <2>1, <2>2, <2>4 DEF MaskInv, MaskTypes
  <2>6. \A c, d \in attempts' : c.service = d.service => c = d
    BY <2>1, <2>2, <2>3 DEF MaskInv
  <2>7. \A c \in attempts' : c.stage # "composed" => registered'[c.service] = c.given
    BY <2>1, <2>2, <2>3, <2>4 DEF MaskInv, MaskTypes, Attempt, Owners
  <2>8. ASSUME NEW l \in pipe'
        PROVE  /\ l.value \in l.given
               /\ \E c \in attempts' : c.service = l.of /\ c.given = l.given /\ c.stage \in {"running", "draining"}
    <3>1. PICK c \in attempts : c.service = l.of /\ c.given = l.given /\ c.stage \in {"running", "draining"}
      BY <2>2, <2>8 DEF MaskInv
    <3> QED BY <2>2, <2>8, <3>1 DEF MaskInv
  <2> QED BY <2>2, <2>5, <2>6, <2>7, <2>8 DEF MaskInv, NothingExposed
<1>2. ASSUME attempts' = attempts \ {a}, a.stage \notin {"running", "draining"}, UNCHANGED <<pipe, stored>>,
             UNCHANGED registered \/ registered' = [registered EXCEPT ![a.service] = {}]
      PROVE  MaskInv'
  <2>1. \A c \in attempts' : c.service # a.service /\ registered'[c.service] = registered[c.service]
    BY <1>0, <1>2 DEF MaskInv, MaskTypes, Attempt, Owners
  <2>2. MaskTypes'
    BY <1>0, <1>2 DEF MaskInv, MaskTypes
  <2>3. ASSUME NEW l \in pipe'
        PROVE  /\ l.value \in l.given
               /\ \E c \in attempts' : c.service = l.of /\ c.given = l.given /\ c.stage \in {"running", "draining"}
    <3>1. PICK c \in attempts : c.service = l.of /\ c.given = l.given /\ c.stage \in {"running", "draining"}
      BY <1>2, <2>3 DEF MaskInv
    <3> QED BY <1>2, <2>3, <3>1 DEF MaskInv
  <2> QED BY <1>2, <2>1, <2>2, <2>3 DEF MaskInv, NothingExposed
<1>3. CASE SpawnChild(a)
  <2>1. \A l \in pipe : l.of # a.service \/ a.stage \in {"running", "draining"}
    BY DEF MaskInv
  <2> QED BY <1>2, <1>3, MovesKeepsMask DEF SpawnChild, Stages
<1>4. CASE ChildEnds(a)
  BY <1>4, MovesKeepsMask DEF ChildEnds, Stages
<1>5. CASE Drain(a)
  BY <1>5, MovesKeepsMask DEF Drain, Stages
<1>6. CASE Unregister(a)
  BY <1>2, <1>6 DEF Unregister
<1>7. ASSUME NEW v \in Secrets, Prints(a, v) PROVE MaskInv'
  <2>1. /\ a.stage = "running" /\ v \in a.given /\ UNCHANGED <<registered, attempts, stored>>
        /\ pipe' = pipe \cup {[of |-> a.service, given |-> a.given, value |-> v]}
    BY <1>7 DEF Prints
  <2>2. MaskTypes'
    BY <2>1 DEF MaskInv, MaskTypes
  <2> QED BY <2>1, <2>2 DEF MaskInv, NothingExposed
<1> QED BY <1>1, <1>3, <1>4, <1>5, <1>6, <1>7 DEF AttemptStep

\* A new attempt of a service that has none, a line that is read, and an egress
\* resolution.
LEMMA OthersKeepMask ==
  ASSUME PartsKnown, ~TwoRunners, MaskInv,
         \/ \E s \in Supervised : \E given \in GivenTo[s] : Compose(s, given)
         \/ \E l \in pipe : Read(l)
         \/ \E given \in GivenTo[EgressOwner] : EgressResolved(given)
  PROVE  MaskInv'
<1>1. ASSUME NEW s \in Supervised, NEW given \in GivenTo[s], Compose(s, given) PROVE MaskInv'
  <2> DEFINE b == [service |-> s, given |-> given, stage |-> "composed"]
  <2>1. b \in Attempt /\ b.service = s /\ b.given = given /\ b.stage = "composed"
    BY MaskerConstants DEF Attempt, Stages
  <2>2. /\ \A a \in attempts : a.service # s
        /\ attempts' = attempts \cup {b} /\ UNCHANGED <<registered, pipe, stored>>
    BY <1>1 DEF Compose, Of
  <2> HIDE DEF b
  <2>3. MaskTypes'
    BY <2>1, <2>2 DEF MaskInv, MaskTypes
  <2> QED BY <2>1, <2>2, <2>3 DEF MaskInv, NothingExposed
<1>2. ASSUME NEW l \in pipe, Read(l) PROVE MaskInv'
  <2>1. PICK a \in attempts : a.service = l.of /\ a.given = l.given /\ a.stage \in {"running", "draining"}
    BY DEF MaskInv
  <2>2. a.service \in Supervised /\ l.value \in registered[a.service]
    BY <2>1 DEF MaskInv, MaskTypes, Attempt
  <2>3. Mask(l.value) = "marker"
    BY <2>2, MaskedWhole DEF MaskInv
  <2>4. /\ stored' = stored \cup {<<l.value, Mask(l.value)>>} /\ pipe' = pipe \ {l}
        /\ UNCHANGED <<registered, attempts>>
    BY <1>2 DEF Read
  <2>5. NothingExposed'
    BY <2>3, <2>4 DEF NothingExposed, MaskInv
  <2>6. MaskTypes'
    BY <2>4 DEF MaskInv, MaskTypes
  <2> QED BY <2>4, <2>5, <2>6 DEF MaskInv
<1>3. ASSUME NEW given \in GivenTo[EgressOwner], EgressResolved(given) PROVE MaskInv'
  <2>1. /\ registered' = [registered EXCEPT ![EgressOwner] = given]
        /\ UNCHANGED <<attempts, pipe, stored>>
    BY <1>3 DEF EgressResolved
  <2>2. \A s \in Supervised : registered'[s] = registered[s]
    BY <2>1, MaskerConstants DEF MaskInv, MaskTypes, Owners
  <2>3. MaskTypes'
    BY <2>1, MaskerConstants DEF MaskInv, MaskTypes, Owners
  <2> QED BY <2>1, <2>2, <2>3 DEF MaskInv, MaskTypes, Attempt, NothingExposed
<1> QED BY <1>1, <1>2, <1>3

\* A value a service was given and prints is never stored, whole or in part
\* (secret_masker.rs, supervise_once), for any services and values and however
\* late its lines are read, if a service has one attempt at a time and no owner
\* before it by name is given just a part of its value.
THEOREM NothingEverExposed ==
  ASSUME PartsKnown, ~TwoRunners
  PROVE  MaskerSpec => []NothingExposed
<1>1. MaskInv => NothingExposed
  BY DEF MaskInv
<1>2. MaskInv /\ [MaskerNext]_maskVars => MaskInv'
  <2>1. UNCHANGED maskVars /\ MaskInv => MaskInv'
    BY DEF maskVars, MaskInv, MaskTypes, NothingExposed
  <2> QED BY <2>1, AttemptKeepsMask, OthersKeepMask DEF MaskerNext
<1> QED BY <1>1, <1>2, InitMask, PTL DEF MaskerSpec

-----------------------------------------------------------------------------
(* The registry at rest is what its owners want of it.                        *)

DoingPcs == {"add_store", "add_route", "remove_look", "remove_route", "register", "deregister"}
SweepPcs == {"seed_list", "seed", "scan", "scan_found", "orphan_list", "orphans"}
IsDoing(a, host) == ops[a].pc \in DoingPcs /\ ops[a].host = host
IsSweeping(a) == ops[a].pc \in SweepPcs
\* A request is at rest, works on one host, or on one after the other.
Shaped(op) ==
    \/ op = AtRest
    \/ op.pc \in DoingPcs /\ op.host \in Hosts /\ op = Doing(op.pc, op.host, op.arg)
    \/ op.pc \in SweepPcs \ {"scan_found"} /\ op = Sweeping(op.pc, op.todo)
    \/ op.pc = "scan_found" /\ op = [pc |-> "scan_found", todo |-> op.todo, found |-> op.found]

RouteTypes ==
    /\ rules \in [Hosts -> Targets \cup {NoRoute}]
    /\ \A h \in Hosts \ RuleHosts : rules[h] = NoRoute
    /\ registry \in [Hosts -> Entries \cup {NoRoute}]
    /\ alive \subseteq Containers /\ handling \subseteq Containers
    /\ events \in Seq({"start", "die"} \X Containers)
    /\ ops = [a \in Actors |-> ops[a]] /\ \A a \in Actors : Shaped(ops[a])

\* One request, or one event of Docker's, works on a host at a time.
OneEach ==
    /\ \A a, b \in Actors, h \in Hosts :
         IsDoing(a, h) /\ (IsDoing(b, h) \/ IsSweeping(b)) => a = b
    /\ \A a, b \in Actors : IsSweeping(a) /\ IsSweeping(b) => a = b
    /\ \A a \in Actors, k \in handling : ~IsDoing(a, HostOf[k]) /\ ~IsSweeping(a)
  /\ \A j, k \in handling : j = k

Pending(action, k) == \E i \in 1..Len(events) : events[i] = <<action, k>>
AliveOrReported(k) == k \in alive \/ Pending("die", k)

\* What a request has looked at is still so.
RequestHolds(a) ==
    LET op == ops[a] IN
    /\ op.pc \in {"add_store", "add_route"} =>
         op.host \in RuleHosts /\ op.arg \in Targets /\ Routable(op.host)
    /\ op.pc = "add_route" => rules[op.host] = op.arg
    /\ op.pc \in {"remove_look", "remove_route"} => op.host \in RuleHosts /\ rules[op.host] = NoRoute
    /\ op.pc \in {"register", "deregister"} =>
         op.arg \in Bindings /\ HostOf[op.arg] = op.host /\ Routable(op.host)
    /\ op.pc = "register" => op.arg \in bound
    /\ op.pc = "seed" => \A r \in op.todo :
         r \in Hosts \X Targets /\ rules[r[1]] = r[2]
    /\ op.pc \in {"scan", "scan_found"} => op.todo \subseteq {k \in Containers : Routable(HostOf[k])}
    /\ op.pc = "scan_found" =>
         op.found \in Containers /\ Routable(HostOf[op.found]) /\ AliveOrReported(op.found)
    /\ op.pc = "orphans" => op.todo \subseteq {h \in Hosts : ~Routable(h)}

\* Docker reports the start of a container that runs after it reported its end.
ReportsInOrder ==
    \A k \in alive : \A i \in 1..Len(events) : events[i] = <<"die", k>> =>
        \E j \in 1..Len(events) : i < j /\ events[j] = <<"start", k>>

\* An entry has its owner, or somebody is about to take it away.
OwnedEntry(h) ==
    LET entry == registry[h] IN
    /\ entry.source = "static" =>
         \/ rules[h] = entry.owner
         \/ \E a \in Actors : IsDoing(a, h) /\ ops[a].pc \in {"add_route", "remove_look", "remove_route"}
    /\ entry.source = "container" => HostOf[entry.owner] = h /\ AliveOrReported(entry.owner)
    /\ entry.source = "bound" =>
         /\ HostOf[entry.owner] = h
         /\ entry.owner \in bound \/ \E a \in Actors : IsDoing(a, h) /\ ops[a].pc = "deregister"
    /\ \/ Routable(h)
       \/ \E a \in Actors : ops[a].pc = "orphan_list" \/ (ops[a].pc = "orphans" /\ h \in ops[a].todo)

ContainerHosts == {HostOf[k] : k \in Containers}
\* A rule has a route, or somebody is about to give it one; a container too.
RuleServed(h) ==
    \/ registry[h] # NoRoute
    \/ \E a \in Actors : \/ IsDoing(a, h) /\ ops[a].pc = "add_route"
                         \/ ops[a].pc = "seed_list"
                         \/ ops[a].pc = "seed" /\ <<h, rules[h]>> \in ops[a].todo
ContainerServed(k) ==
    \/ registry[HostOf[k]] = Entry("container", k)
    \/ Pending("start", k) \/ k \in handling
    \/ \E a \in Actors : \/ ops[a].pc \in {"seed_list", "seed"}
                         \/ ops[a].pc \in {"scan", "scan_found"} /\ k \in ops[a].todo
                         \/ ops[a].pc = "scan_found" /\ k = ops[a].found

Owned == \A h \in Hosts : registry[h] # NoRoute => OwnedEntry(h)
RulesServed ==
    \A h \in Hosts \ ContainerHosts : rules[h] # NoRoute /\ Routable(h) => RuleServed(h)
ContainersServed ==
    \A k \in alive : Routable(HostOf[k]) /\ HostOf[k] \notin RuleHosts => ContainerServed(k)
RoutesInv ==
    /\ RouteTypes /\ OneEach /\ ReportsInOrder
    /\ \A a \in Actors : RequestHolds(a)
    /\ \A k \in handling : Routable(HostOf[k])
    /\ Owned /\ RulesServed /\ ContainersServed

\* A container has its host for itself, but for a rule.
ContainersApart ==
    \A k \in Containers : \A x \in Containers \cup Bindings : HostOf[x] = HostOf[k] => x = k /\ x \notin Bindings

\* What a request touches, by what it does.
LEMMA TouchedByShape ==
  ASSUME NEW op, Shaped(op)
  PROVE  /\ op.pc \in {"rest"} \cup DoingPcs \cup SweepPcs
         /\ op.pc = "rest" <=> op = AtRest
         /\ op.pc \in DoingPcs => Touched(op) = {op.host} /\ op.host \in Hosts
         /\ op.pc \in SweepPcs => Touched(op) = Hosts
<1>1. CASE op = AtRest
  BY <1>1 DEF AtRest, DoingPcs, SweepPcs
<1>2. CASE op.pc \in DoingPcs /\ op.host \in Hosts /\ op = Doing(op.pc, op.host, op.arg)
  <2>1. "host" \in DOMAIN op /\ op.pc # "rest" /\ op.pc \notin SweepPcs
    BY <1>2 DEF Doing, DoingPcs, SweepPcs
  <2>2. op # AtRest
    BY <2>1 DEF AtRest
  <2> QED BY <1>2, <2>1, <2>2 DEF Touched
<1>3. CASE op.pc \in SweepPcs \ {"scan_found"} /\ op = Sweeping(op.pc, op.todo)
  <2>1. "host" \notin DOMAIN op /\ op.pc # "rest" /\ op.pc \notin DoingPcs
    BY <1>3 DEF Sweeping, DoingPcs, SweepPcs
  <2>2. op # AtRest
    BY <2>1 DEF AtRest
  <2> QED BY <1>3, <2>1, <2>2 DEF Touched
<1>4. CASE op.pc = "scan_found" /\ op = [pc |-> "scan_found", todo |-> op.todo, found |-> op.found]
  <2>1. "host" \notin DOMAIN op /\ op.pc # "rest" /\ op.pc \notin DoingPcs /\ op.pc \in SweepPcs
    BY <1>4 DEF DoingPcs, SweepPcs
  <2>2. op # AtRest
    BY <2>1 DEF AtRest
  <2> QED BY <1>4, <2>1, <2>2 DEF Touched
<1> QED BY <1>1, <1>2, <1>3, <1>4 DEF Shaped

\* The fields and the shape of what a request goes to.
LEMMA Fields ==
  /\ AtRest.pc = "rest" /\ Shaped(AtRest)
  /\ \A pc \in DoingPcs, h \in Hosts : \A arg :
        LET op == Doing(pc, h, arg) IN op.pc = pc /\ op.host = h /\ op.arg = arg /\ Shaped(op)
  /\ \A pc \in SweepPcs \ {"scan_found"} : \A todo :
        LET op == Sweeping(pc, todo) IN op.pc = pc /\ op.todo = todo /\ Shaped(op)
<1>1. AtRest.pc = "rest" /\ Shaped(AtRest)
  BY DEF AtRest, Shaped
<1>2. ASSUME NEW pc \in DoingPcs, NEW h \in Hosts, NEW arg
      PROVE  LET op == Doing(pc, h, arg) IN op.pc = pc /\ op.host = h /\ op.arg = arg /\ Shaped(op)
  BY <1>2 DEF Doing, Shaped
<1>3. ASSUME NEW pc \in SweepPcs \ {"scan_found"}, NEW todo
      PROVE  LET op == Sweeping(pc, todo) IN op.pc = pc /\ op.todo = todo /\ Shaped(op)
  BY <1>3 DEF Sweeping, Shaped
<1> QED BY <1>1, <1>2, <1>3

\* What HostsFree means when no two operations on a host may overlap.
LEMMA FreeMeans ==
  ASSUME RouteTypes, ~Overlap, NEW hosts \in SUBSET Hosts, HostsFree(hosts)
  PROVE  /\ \A a \in Actors, h \in hosts : ~IsDoing(a, h) /\ ~IsSweeping(a)
         /\ \A k \in handling : HostOf[k] \notin hosts
<1>1. /\ \A a \in Actors : Touched(ops[a]) \cap hosts = {}
      /\ \A k \in handling : HostOf[k] \notin hosts
  BY DEF HostsFree
<1>2. ASSUME NEW a \in Actors, NEW h \in hosts PROVE ~IsDoing(a, h) /\ ~IsSweeping(a)
  BY <1>1, TouchedByShape DEF RouteTypes, IsDoing, IsSweeping
<1> QED BY <1>1, <1>2

\* A request that begins is alone on its hosts.
LEMMA BeginsAlone ==
  ASSUME RoutesInv, ~Overlap, NEW c \in Callers, NEW hosts \in SUBSET Hosts, Begin(c, hosts),
         NEW op, Shaped(op), ops' = [ops EXCEPT ![c] = op], UNCHANGED handling,
         op.pc \in DoingPcs => op.host \in hosts, op.pc \in SweepPcs => hosts = Hosts
  PROVE  OneEach'
<1>1. /\ c \in Actors /\ ops'[c] = op /\ \A a \in Actors : a # c => ops'[a] = ops[a]
      /\ ops[c].pc = "rest"
  BY Fields DEF RoutesInv, RouteTypes, Actors, Begin
<1>2. /\ \A a \in Actors, h \in hosts : ~IsDoing(a, h) /\ ~IsSweeping(a)
      /\ \A k \in handling : HostOf[k] \notin hosts
  BY FreeMeans DEF RoutesInv, Begin
<1>3. op.pc \in DoingPcs => op.pc \notin SweepPcs
  BY DEF DoingPcs, SweepPcs
<1>4. \A k \in handling : HostOf[k] \in Hosts
  BY RouteConstants DEF RoutesInv, RouteTypes
<1>5. op.pc \in SweepPcs => \A a \in Actors : ~IsSweeping(a)
  BY <1>2, RouteConstants
<1> QED BY <1>1, <1>2, <1>3, <1>4, <1>5 DEF OneEach, RoutesInv, IsDoing, IsSweeping

\* A request that goes on has its hosts still for itself.
LEMMA GoesOnAlone ==
  ASSUME RoutesInv, NEW c \in Actors, NEW op, ops' = [ops EXCEPT ![c] = op], UNCHANGED handling,
         op.pc \in DoingPcs => ops[c].pc \in DoingPcs /\ op.host = ops[c].host,
         op.pc \in SweepPcs => ops[c].pc \in SweepPcs
  PROVE  OneEach'
<1>1. ops'[c] = op /\ \A a \in Actors : a # c => ops'[a] = ops[a]
  BY DEF RoutesInv, RouteTypes
<1> QED BY <1>1 DEF OneEach, RoutesInv, IsDoing, IsSweeping

\* Beside a sweep every other request is at rest, and no start is handled.
LEMMA SweepIsAlone ==
  ASSUME RoutesInv, NEW c \in Actors, IsSweeping(c)
  PROVE  handling = {} /\ \A a \in Actors : a # c => ops[a] = AtRest /\ ops[a].pc = "rest"
<1>1. handling = {}
  BY DEF RoutesInv, OneEach
<1>2. ASSUME NEW a \in Actors, a # c PROVE ops[a] = AtRest /\ ops[a].pc = "rest"
  <2>1. ops[a].pc \notin SweepPcs
    BY <1>2 DEF RoutesInv, OneEach, IsSweeping
  <2>2. Shaped(ops[a])
    BY DEF RoutesInv, RouteTypes
  <2>3. ops[a].pc \notin DoingPcs
    BY <1>2, <2>2, TouchedByShape DEF RoutesInv, OneEach, IsDoing
  <2> QED BY <2>1, <2>2, <2>3, TouchedByShape
<1> QED BY <1>1, <1>2

\* What the requests that do nothing in a step looked at is still so.
LEMMA OthersHold ==
  ASSUME RoutesInv, NEW a \in Actors, UNCHANGED <<known, rules>>, ops'[a] = ops[a],
         ops[a].pc = "register" => ops[a].arg \in bound',
         \A k \in Containers : AliveOrReported(k) => AliveOrReported(k)'
  PROVE  RequestHolds(a)'
<1>1. RequestHolds(a)
  BY DEF RoutesInv
<1>2. \A h : Routable(h)' = Routable(h)
  BY DEF Routable
<1> QED BY <1>1, <1>2 DEF RequestHolds

\* A request that only looks, and goes on as what it saw tells it.
LEMMA LooksKeepRoutes ==
  ASSUME RoutesInv, NEW c \in Actors, NEW op, Shaped(op), ops' = [ops EXCEPT ![c] = op],
         UNCHANGED <<rules, known, registry, alive, events, bound, handling>>,
         OneEach', RequestHolds(c)',
         ops[c].pc \in {"rest", "remove_look", "seed_list", "seed", "scan", "orphans", "orphan_list"},
         ops[c].pc = "remove_look" /\ IsStatic(registry[ops[c].host]) =>
             op.pc = "remove_route" /\ op.host = ops[c].host,
         ops[c].pc = "orphan_list" =>
             op.pc = "orphans" /\ \A h \in Hosts : registry[h] # NoRoute /\ ~Routable(h) => h \in op.todo,
         ops[c].pc = "orphans" => ops[c].todo = {},
         ops[c].pc = "seed_list" =>
             op.pc = "seed" /\ \A h \in Hosts : rules[h] # NoRoute => <<h, rules[h]>> \in op.todo,
         ops[c].pc = "seed" =>
             ops[c].todo = {} /\ op.pc = "scan" /\ \A k \in alive : Routable(HostOf[k]) => k \in op.todo,
         ops[c].pc = "scan" => \A k \in ops[c].todo \cap alive :
             op.pc \in {"scan", "scan_found"} /\ (k \in op.todo \/ (op.pc = "scan_found" /\ k = op.found))
  PROVE  RoutesInv'
<1>1. ops'[c] = op /\ \A a \in Actors : a # c => ops'[a] = ops[a]
  BY DEF RoutesInv, RouteTypes
<1>2. RouteTypes'
  BY DEF RoutesInv, RouteTypes
<1>3. /\ \A h : Routable(h)' = Routable(h)
      /\ \A k, action : Pending(action, k)' = Pending(action, k)
      /\ \A k : AliveOrReported(k)' = AliveOrReported(k)
  BY DEF Routable, Pending, AliveOrReported
<1>4. \A a \in Actors : RequestHolds(a)'
  <2> SUFFICES ASSUME NEW a \in Actors, a # c PROVE RequestHolds(a)'
    OBVIOUS
  <2>1. ops[a].pc = "register" => ops[a].arg \in bound
    BY DEF RoutesInv, RequestHolds
  <2> QED BY <1>1, <1>3, <2>1, OthersHold
<1>5. Owned'
  <2> SUFFICES ASSUME NEW h \in Hosts, registry[h] # NoRoute PROVE OwnedEntry(h)'
    BY DEF Owned
  <2>1. OwnedEntry(h)
    BY DEF RoutesInv, Owned
  <2>2. registry[h].source = "static" =>
         \/ rules[h] = registry[h].owner
         \/ \E a \in Actors : IsDoing(a, h)' /\ ops'[a].pc \in {"add_route", "remove_look", "remove_route"}
    BY <1>1, <2>1 DEF OwnedEntry, IsDoing, IsStatic, DoingPcs
  <2>3. registry[h].source = "bound" =>
         registry[h].owner \in bound \/ \E a \in Actors : IsDoing(a, h)' /\ ops'[a].pc = "deregister"
    BY <1>1, <2>1 DEF OwnedEntry, IsDoing
  <2>4. Routable(h) \/ \E a \in Actors : ops'[a].pc = "orphan_list" \/ (ops'[a].pc = "orphans" /\ h \in ops'[a].todo)
    BY <1>1, <2>1 DEF OwnedEntry
  <2> QED BY <1>3, <2>1, <2>2, <2>3, <2>4 DEF OwnedEntry
<1>6. RulesServed'
  <2> SUFFICES ASSUME NEW h \in Hosts \ ContainerHosts, rules[h] # NoRoute, Routable(h) PROVE RuleServed(h)'
    BY <1>3 DEF RulesServed, ContainerHosts
  <2>1. RuleServed(h)
    BY DEF RoutesInv, RulesServed
  <2> QED BY <1>1, <2>1 DEF RuleServed, IsDoing
<1>7. ContainersServed'
  <2> SUFFICES ASSUME NEW k \in alive, Routable(HostOf[k]), HostOf[k] \notin RuleHosts PROVE ContainerServed(k)'
    BY <1>3 DEF ContainersServed
  <2>1. ContainerServed(k)
    BY DEF RoutesInv, ContainersServed
  <2> QED BY <1>1, <1>3, <2>1 DEF ContainerServed
<1> QED BY <1>2, <1>3, <1>4, <1>5, <1>6, <1>7 DEF RoutesInv, ReportsInOrder

\* The looks of the requests.
LEMMA LooksAreTrue ==
  ASSUME RoutesInv, ~Overlap, NEW c \in Actors,
         \/ c \in Callers /\ \E h \in Hosts, t \in Targets : AddRule(c, h, t)
         \/ RemoveLook(c) \/ SeedList(c) \/ ScanList(c) \/ ScanInspect(c) \/ ScanEnd(c) \/ OrphanList(c)
  PROVE  RoutesInv'
<1>0. Shaped(ops[c]) /\ RequestHolds(c) /\ ops \in [Actors -> {ops[a] : a \in Actors}]
  BY DEF RoutesInv, RouteTypes
<1>1. ASSUME c \in Callers, NEW h \in Hosts, NEW t \in Targets, AddRule(c, h, t) PROVE RoutesInv'
  <2> DEFINE op == Doing("add_store", h, t)
  <2>1. op.pc = "add_store" /\ op.host = h /\ op.arg = t /\ Shaped(op)
    BY Fields DEF DoingPcs
  <2>2. /\ Begin(c, {h}) /\ h \in RuleHosts /\ Routable(h) /\ ops' = [ops EXCEPT ![c] = op]
        /\ UNCHANGED <<rules, known, registry, alive, events, bound, handling>>
    BY <1>1 DEF AddRule, Goto
  <2> HIDE DEF op
  <2>3. ops'[c] = op /\ ops[c].pc = "rest"
    BY <1>0, <2>2, Fields DEF Begin
  <2>4. OneEach'
    BY <1>1, <2>1, <2>2, BeginsAlone DEF SweepPcs
  <2>5. RequestHolds(c)'
    BY <2>1, <2>2, <2>3 DEF RequestHolds, Routable
  <2> QED BY <2>1, <2>2, <2>3, <2>4, <2>5, LooksKeepRoutes
<1>2. CASE RemoveLook(c)
  <2> DEFINE op == Doing("remove_route", ops[c].host, ops[c].arg)
  <2>1. /\ ops[c].pc = "remove_look" /\ ops[c].host \in Hosts
        /\ ops[c] = Doing("remove_look", ops[c].host, ops[c].arg)
        /\ UNCHANGED <<rules, known, registry, alive, events, bound, handling>>
    BY <1>0, <1>2, TouchedByShape DEF RemoveLook, Shaped, AtRest, DoingPcs, SweepPcs
  <2>2. op.pc = "remove_route" /\ op.host = ops[c].host /\ Shaped(op)
    BY <2>1, Fields DEF DoingPcs
  <2>3. [ops[c] EXCEPT !.pc = "remove_route"] = op
    BY <2>1 DEF Doing
  <2> HIDE DEF op
  <2>4. CASE IsStatic(registry[ops[c].host]) /\ ops' = [ops EXCEPT ![c] = op]
    <3>1. ops'[c] = op
      BY <1>0, <2>4
    <3>2. OneEach'
      BY <2>1, <2>2, <2>4, GoesOnAlone DEF DoingPcs, SweepPcs
    <3>3. RequestHolds(c)'
      BY <1>0, <2>1, <2>2, <3>1 DEF RequestHolds
    <3> QED BY <2>1, <2>2, <2>4, <3>2, <3>3, LooksKeepRoutes
  <2>5. CASE ~IsStatic(registry[ops[c].host]) /\ ops' = [ops EXCEPT ![c] = AtRest]
    <3>1. ops'[c] = AtRest
      BY <1>0, <2>5
    <3>2. OneEach'
      BY <2>1, <2>5, Fields, GoesOnAlone DEF DoingPcs, SweepPcs
    <3>3. RequestHolds(c)'
      BY <3>1, Fields DEF RequestHolds
    <3> QED BY <2>1, <2>5, <3>2, <3>3, Fields, LooksKeepRoutes
  <2> QED BY <1>2, <2>3, <2>4, <2>5 DEF RemoveLook, Goto
<1>3. ASSUME NEW pc \in SweepPcs \ {"scan_found"}, NEW todo, ops[c].pc \in SweepPcs,
             ops' = [ops EXCEPT ![c] = Sweeping(pc, todo)], UNCHANGED handling
      PROVE  /\ OneEach' /\ ops'[c].pc = pc /\ ops'[c].todo = todo
             /\ ops'[c] = Sweeping(pc, todo) /\ Shaped(Sweeping(pc, todo))
  <2>1. LET op == Sweeping(pc, todo) IN op.pc = pc /\ op.todo = todo /\ Shaped(op)
    BY Fields
  <2>2. ops'[c] = Sweeping(pc, todo)
    BY <1>0, <1>3
  <2>3. pc \notin DoingPcs
    BY DEF SweepPcs, DoingPcs
  <2> QED BY <1>3, <2>1, <2>2, <2>3, GoesOnAlone
<1>4. CASE SeedList(c)
  <2> DEFINE todo == {<<h, rules[h]>> : h \in {x \in Hosts : rules[x] # NoRoute}}
             op == Sweeping("seed", todo)
  <2>1. /\ ops[c].pc = "seed_list" /\ ops' = [ops EXCEPT ![c] = op]
        /\ UNCHANGED <<rules, known, registry, alive, events, bound, handling>>
    BY <1>4 DEF SeedList, Goto
  <2>2. /\ \A h \in Hosts : rules[h] # NoRoute => <<h, rules[h]>> \in todo
        /\ \A r \in todo : r \in Hosts \X Targets /\ rules[r[1]] = r[2]
    BY DEF RoutesInv, RouteTypes
  <2> HIDE DEF todo
  <2>0. "seed" \in SweepPcs \ {"scan_found"} /\ ops[c].pc \in SweepPcs /\ UNCHANGED handling
    BY <2>1 DEF SweepPcs
  <2>3. OneEach' /\ ops'[c].pc = "seed" /\ ops'[c].todo = todo /\ ops'[c] = op /\ Shaped(op)
    BY <1>3, <2>0, <2>1
  <2> HIDE DEF op
  <2>4. RequestHolds(c)'
    BY <2>1, <2>2, <2>3 DEF RequestHolds
  <2> QED BY <2>1, <2>2, <2>3, <2>4, LooksKeepRoutes
<1>5. CASE ScanList(c)
  <2> DEFINE todo == {k \in alive : Routable(HostOf[k])}
             op == Sweeping("scan", todo)
  <2>1. /\ ops[c].pc = "seed" /\ ops[c].todo = {} /\ ops' = [ops EXCEPT ![c] = op]
        /\ UNCHANGED <<rules, known, registry, alive, events, bound, handling>>
    BY <1>5 DEF ScanList, Goto
  <2>2. /\ \A k \in alive : Routable(HostOf[k]) => k \in todo
        /\ todo \subseteq {k \in Containers : Routable(HostOf[k])}
    BY DEF RoutesInv, RouteTypes
  <2> HIDE DEF todo
  <2>0. "scan" \in SweepPcs \ {"scan_found"} /\ ops[c].pc \in SweepPcs /\ UNCHANGED handling
    BY <2>1 DEF SweepPcs
  <2>3. OneEach' /\ ops'[c].pc = "scan" /\ ops'[c].todo = todo /\ ops'[c] = op /\ Shaped(op)
    BY <1>3, <2>0, <2>1
  <2> HIDE DEF op
  <2>4. RequestHolds(c)'
    BY <2>1, <2>2, <2>3 DEF RequestHolds, Routable
  <2> QED BY <2>1, <2>2, <2>3, <2>4, LooksKeepRoutes
<1>6. CASE ScanInspect(c)
  <2>1. PICK k \in ops[c].todo :
          ops' = [ops EXCEPT ![c] = IF k \in alive
                     THEN [pc |-> "scan_found", todo |-> ops[c].todo \ {k}, found |-> k]
                     ELSE Sweeping("scan", ops[c].todo \ {k})]
    BY <1>6 DEF ScanInspect, Goto
  <2>2. /\ ops[c].pc = "scan" /\ UNCHANGED <<rules, known, registry, alive, events, bound, handling>>
        /\ ops[c].todo \subseteq {x \in Containers : Routable(HostOf[x])}
    BY <1>0, <1>6 DEF ScanInspect, RequestHolds
  <2>3. CASE k \in alive
    <3> DEFINE op == [pc |-> "scan_found", todo |-> ops[c].todo \ {k}, found |-> k]
    <3>1. op.pc = "scan_found" /\ op.todo = ops[c].todo \ {k} /\ op.found = k /\ Shaped(op)
      BY DEF Shaped
    <3>2. ops' = [ops EXCEPT ![c] = op]
      BY <2>1, <2>3
    <3> HIDE DEF op
    <3>3. ops'[c] = op
      BY <1>0, <3>2
    <3>4. OneEach'
      BY <2>2, <3>1, <3>2, GoesOnAlone DEF SweepPcs, DoingPcs
    <3>5. RequestHolds(c)'
      BY <2>1, <2>2, <2>3, <3>1, <3>3 DEF RequestHolds, Routable, AliveOrReported
    <3> QED BY <2>2, <3>1, <3>2, <3>3, <3>4, <3>5, LooksKeepRoutes
  <2>4. CASE k \notin alive
    <3> DEFINE todo == ops[c].todo \ {k}
               op == Sweeping("scan", todo)
    <3>1. ops' = [ops EXCEPT ![c] = op]
      BY <2>1, <2>4
    <3>0. "scan" \in SweepPcs \ {"scan_found"} /\ ops[c].pc \in SweepPcs /\ UNCHANGED handling
      BY <2>2 DEF SweepPcs
    <3>2. OneEach' /\ ops'[c].pc = "scan" /\ ops'[c].todo = todo /\ ops'[c] = op /\ Shaped(op)
      BY <1>3, <3>0, <3>1
    <3> HIDE DEF op
    <3>3. RequestHolds(c)'
      BY <2>2, <3>2 DEF RequestHolds, Routable
    <3> QED BY <2>2, <2>4, <3>1, <3>2, <3>3, LooksKeepRoutes
  <2> QED BY <2>3, <2>4
<1>7. CASE ScanEnd(c)
  <2>1. /\ ops[c].pc \in {"scan", "orphans"} /\ ops[c].todo = {} /\ ops' = [ops EXCEPT ![c] = AtRest]
        /\ UNCHANGED <<rules, known, registry, alive, events, bound, handling>>
    BY <1>7 DEF ScanEnd, Goto
  <2>2. ops'[c] = AtRest
    BY <1>0, <2>1
  <2>3. OneEach'
    BY <2>1, Fields, GoesOnAlone DEF DoingPcs, SweepPcs
  <2>4. RequestHolds(c)'
    BY <2>2, Fields DEF RequestHolds
  <2> QED BY <2>1, <2>2, <2>3, <2>4, Fields, LooksKeepRoutes
<1>8. CASE OrphanList(c)
  <2> DEFINE todo == {h \in Hosts : registry[h] # NoRoute /\ ~Routable(h)}
             op == Sweeping("orphans", todo)
  <2>1. /\ ops[c].pc = "orphan_list" /\ ops' = [ops EXCEPT ![c] = op]
        /\ UNCHANGED <<rules, known, registry, alive, events, bound, handling>>
    BY <1>8 DEF OrphanList, Goto
  <2>2. /\ \A h \in Hosts : registry[h] # NoRoute /\ ~Routable(h) => h \in todo
        /\ todo \subseteq {h \in Hosts : ~Routable(h)}
    OBVIOUS
  <2> HIDE DEF todo
  <2>0. "orphans" \in SweepPcs \ {"scan_found"} /\ ops[c].pc \in SweepPcs /\ UNCHANGED handling
    BY <2>1 DEF SweepPcs
  <2>3. OneEach' /\ ops'[c].pc = "orphans" /\ ops'[c].todo = todo /\ ops'[c] = op /\ Shaped(op)
    BY <1>3, <2>0, <2>1
  <2> HIDE DEF op
  <2>4. RequestHolds(c)'
    BY <2>1, <2>2, <2>3 DEF RequestHolds, Routable
  <2> QED BY <2>1, <2>2, <2>3, <2>4, LooksKeepRoutes
<1> QED BY <1>1, <1>2, <1>4, <1>5, <1>6, <1>7, <1>8

\* A request on one host comes to its end with a write of that host's entry.
LEMMA WriteKeepsRoutes ==
  ASSUME RoutesInv, ContainersApart, NEW c \in Actors, ops[c].pc \in DoingPcs,
         NEW v \in Entries \cup {NoRoute}, registry' = [registry EXCEPT ![ops[c].host] = v],
         ops' = [ops EXCEPT ![c] = AtRest], UNCHANGED <<rules, known, alive, events, bound, handling>>,
         v # NoRoute => /\ Routable(ops[c].host) /\ v.source # "container"
                        /\ v.source = "static" => rules[ops[c].host] = v.owner
                        /\ v.source = "bound" => HostOf[v.owner] = ops[c].host /\ v.owner \in bound,
         v = NoRoute => rules[ops[c].host] = NoRoute,
         ops[c].host \in RuleHosts \/ ops[c].host \notin ContainerHosts
  PROVE  RoutesInv'
<1> DEFINE h == ops[c].host
<1>0. /\ h \in Hosts /\ registry'[h] = v /\ \A g \in Hosts : g # h => registry'[g] = registry[g]
      /\ IsDoing(c, h) /\ \A g : IsDoing(c, g) => g = h
  BY TouchedByShape DEF RoutesInv, RouteTypes, IsDoing
<1>1. ops'[c] = AtRest /\ ops'[c].pc = "rest" /\ \A a \in Actors : a # c => ops'[a] = ops[a]
  BY Fields DEF RoutesInv, RouteTypes
<1> HIDE DEF h
<1>2. RouteTypes'
  BY ZenonT(40), Fields DEF RoutesInv, RouteTypes
<1>3. /\ \A g : Routable(g)' = Routable(g)
      /\ \A k, action : Pending(action, k)' = Pending(action, k)
      /\ \A k : AliveOrReported(k)' = AliveOrReported(k)
  BY DEF Routable, Pending, AliveOrReported
<1>4. ASSUME NEW a \in Actors PROVE RequestHolds(a)'
  <2>1. CASE a = c
    BY <1>1, <2>1 DEF RequestHolds
  <2>2. CASE a # c
    <3>1. ops[a].pc = "register" => ops[a].arg \in bound
      BY DEF RoutesInv, RequestHolds
    <3> QED BY <1>1, <1>3, <2>2, <3>1, OthersHold
  <2> QED BY <2>1, <2>2
<1>5. OneEach'
  BY <1>1, GoesOnAlone DEF DoingPcs, SweepPcs
<1>6. Owned'
  <2> SUFFICES ASSUME NEW g \in Hosts, registry'[g] # NoRoute PROVE OwnedEntry(g)'
    BY DEF Owned
  <2>1. CASE g = h
    BY <1>0, <1>3, <2>1 DEF OwnedEntry, h
  <2>2. CASE g # h
    <3>1. OwnedEntry(g) /\ registry'[g] = registry[g] /\ \A a \in Actors : IsDoing(a, g) => a # c
      BY <1>0, <2>2 DEF RoutesInv, Owned
    <3>2. ops[c].pc \notin {"orphan_list", "orphans"}
      BY DEF DoingPcs
    <3>3. registry[g].source = "static" =>
         \/ rules[g] = registry[g].owner
         \/ \E a \in Actors : IsDoing(a, g)' /\ ops'[a].pc \in {"add_route", "remove_look", "remove_route"}
      BY <1>1, <3>1 DEF OwnedEntry, IsDoing
    <3>4. registry[g].source = "bound" =>
         registry[g].owner \in bound \/ \E a \in Actors : IsDoing(a, g)' /\ ops'[a].pc = "deregister"
      BY <1>1, <3>1 DEF OwnedEntry, IsDoing
    <3>5. Routable(g) \/ \E a \in Actors : ops'[a].pc = "orphan_list" \/ (ops'[a].pc = "orphans" /\ g \in ops'[a].todo)
      BY <1>1, <3>1, <3>2 DEF OwnedEntry
    <3> QED BY <1>3, <3>1, <3>3, <3>4, <3>5 DEF OwnedEntry
  <2> QED BY <2>1, <2>2
<1>7. RulesServed'
  <2> SUFFICES ASSUME NEW g \in Hosts \ ContainerHosts, rules[g] # NoRoute, Routable(g) PROVE RuleServed(g)'
    BY <1>3 DEF RulesServed, ContainerHosts
  <2>1. RuleServed(g)
    BY DEF RoutesInv, RulesServed
  <2>2. CASE g = h
    BY <1>0, <2>2 DEF RuleServed, h
  <2>3. CASE g # h
    BY <1>0, <1>1, <2>1, <2>3 DEF RuleServed, IsDoing, DoingPcs
  <2> QED BY <2>2, <2>3
<1>8. ContainersServed'
  <2> SUFFICES ASSUME NEW k \in alive, Routable(HostOf[k]), HostOf[k] \notin RuleHosts PROVE ContainerServed(k)'
    BY <1>3 DEF ContainersServed
  <2>1. ContainerServed(k) /\ HostOf[k] \in Hosts /\ HostOf[k] # h
    BY RouteConstants DEF RoutesInv, ContainersServed, RouteTypes, ContainerHosts, h
  <2> QED BY <1>0, <1>1, <1>3, <2>1 DEF ContainerServed, DoingPcs
<1> QED BY <1>2, <1>3, <1>4, <1>5, <1>6, <1>7, <1>8 DEF RoutesInv, ReportsInOrder

\* The ends of the requests on one host.
LEMMA EndsAreTrue ==
  ASSUME RoutesInv, ContainersApart, NEW c \in Actors,
         AddRouted(c) \/ RemoveRouted(c) \/ Registered(c) \/ Deregistered(c)
  PROVE  RoutesInv'
<1> DEFINE h == ops[c].host
<1>0. RequestHolds(c)
  BY DEF RoutesInv
<1>1. /\ ops[c].pc \in {"add_route", "remove_route", "register", "deregister"}
      /\ ops' = [ops EXCEPT ![c] = AtRest] /\ UNCHANGED <<rules, known, alive, events, bound, handling>>
  BY DEF AddRouted, RemoveRouted, Registered, Deregistered, Goto
<1>2. h \in Hosts /\ ops[c].pc \in DoingPcs
  BY <1>1, TouchedByShape DEF RoutesInv, RouteTypes, DoingPcs
<1>3. \A t \in Targets : LET v == Entry("static", t) IN v \in Entries /\ v.source = "static" /\ v.owner = t
  BY DEF Entry, Entries
<1>4. \A b \in Bindings : LET v == Entry("bound", b) IN v \in Entries /\ v.source = "bound" /\ v.owner = b
  BY DEF Entry, Entries
<1>5. ops[c].pc \in {"register", "deregister"} => h \notin ContainerHosts
  BY <1>0, <1>1 DEF RequestHolds, ContainersApart, ContainerHosts
<1>6. CASE AddRouted(c)
  <2> DEFINE v == Entry("static", ops[c].arg)
  <2>1. /\ v \in Entries /\ v.source = "static" /\ v.owner = ops[c].arg /\ registry' = [registry EXCEPT ![h] = v]
        /\ rules[h] = ops[c].arg /\ Routable(h) /\ h \in RuleHosts
    BY <1>0, <1>3, <1>6 DEF AddRouted, Upsert, RequestHolds
  <2>2. v # NoRoute
    BY <2>1, NoRouteConstant
  <2> HIDE DEF v
  <2> QED BY <1>1, <1>2, <2>1, <2>2, WriteKeepsRoutes
<1>7. ASSUME registry' = [registry EXCEPT ![h] = NoRoute], rules[h] = NoRoute,
             h \in RuleHosts \/ h \notin ContainerHosts
      PROVE  RoutesInv'
  BY <1>1, <1>2, <1>7, WriteKeepsRoutes
<1>8. CASE RemoveRouted(c)
  BY <1>0, <1>7, <1>8 DEF RemoveRouted, Drop, RequestHolds
<1>9. CASE Registered(c)
  <2> DEFINE v == Entry("bound", ops[c].arg)
  <2>1. /\ v \in Entries /\ v.source = "bound" /\ v.owner = ops[c].arg /\ registry' = [registry EXCEPT ![h] = v]
        /\ HostOf[ops[c].arg] = h /\ ops[c].arg \in bound /\ Routable(h) /\ ops[c].pc = "register"
    BY <1>0, <1>4, <1>9 DEF Registered, Upsert, RequestHolds
  <2>2. v # NoRoute
    BY <2>1, NoRouteConstant
  <2> HIDE DEF v
  <2> QED BY <1>1, <1>2, <1>5, <2>1, <2>2, WriteKeepsRoutes
<1>10. CASE Deregistered(c)
  <2>1. ops[c].pc = "deregister" /\ Routable(h) /\ h \notin ContainerHosts
    BY <1>0, <1>5, <1>10 DEF Deregistered, RequestHolds
  <2>2. CASE rules[h] = NoRoute
    BY <1>7, <1>10, <2>1, <2>2 DEF Deregistered, Drop
  <2>3. CASE rules[h] # NoRoute
    <3> DEFINE v == Entry("static", rules[h])
    <3>1. rules[h] \in Targets
      BY <1>2, <2>3 DEF RoutesInv, RouteTypes
    <3>2. v \in Entries /\ v.source = "static" /\ v.owner = rules[h] /\ registry' = [registry EXCEPT ![h] = v]
      BY <1>3, <1>10, <2>3, <3>1 DEF Deregistered, Upsert
    <3>3. v # NoRoute
      BY <3>2, NoRouteConstant
    <3> HIDE DEF v
    <3> QED BY <1>1, <1>2, <2>1, <3>2, <3>3, WriteKeepsRoutes
  <2> QED BY <2>2, <2>3
<1> QED BY <1>6, <1>8, <1>9, <1>10

\* A request alone on a host changes its rule, or what its service wants.
LEMMA ChangeKeepsRoutes ==
  ASSUME RoutesInv, NEW c \in Actors, NEW h \in Hosts, NEW op, Shaped(op),
         op.pc = "rest" \/ (op.pc \in DoingPcs /\ op.host = h),
         ops' = [ops EXCEPT ![c] = op], OneEach', RequestHolds(c)',
         \A a \in Actors : a # c => ~IsDoing(a, h) /\ ~IsSweeping(a),
         ops[c].pc \in {"rest", "add_store"},
         UNCHANGED <<known, registry, alive, events, handling>>,
         rules' \in [Hosts -> Targets \cup {NoRoute}], \A g \in Hosts \ RuleHosts : rules'[g] = NoRoute,
         \A g \in Hosts : g # h => rules'[g] = rules[g],
         \/ rules'[h] = rules[h]
         \/ op.pc = "add_route"
         \/ op.pc = "remove_look" /\ rules'[h] = NoRoute,
         \A b : HostOf[b] # h /\ b \in bound => b \in bound',
         \/ \A b : b \in bound => b \in bound'
         \/ op.pc = "deregister"
         \/ registry[h] = NoRoute \/ registry[h].source # "bound"
  PROVE  RoutesInv'
<1>1. ops'[c] = op /\ \A a \in Actors : a # c => ops'[a] = ops[a]
  BY DEF RoutesInv, RouteTypes
<1>2. RouteTypes'
  BY DEF RoutesInv, RouteTypes
<1>3. /\ \A g : Routable(g)' = Routable(g)
      /\ \A k, action : Pending(action, k)' = Pending(action, k)
      /\ \A k : AliveOrReported(k)' = AliveOrReported(k)
  BY DEF Routable, Pending, AliveOrReported
<1>4. ASSUME NEW a \in Actors PROVE RequestHolds(a)'
  <2>1. CASE a = c
    BY <2>1
  <2>2. CASE a # c
    <3>1. RequestHolds(a) /\ ops'[a] = ops[a] /\ ops[a].pc \notin SweepPcs
      BY <1>1, <2>2 DEF RoutesInv, IsSweeping
    <3>2. ops[a].pc \in DoingPcs => ops[a].host \in Hosts /\ ops[a].host # h
      BY <2>2, TouchedByShape DEF RoutesInv, RouteTypes, IsDoing
    <3> QED BY <1>3, <3>1, <3>2 DEF RequestHolds, DoingPcs, SweepPcs
  <2> QED BY <2>1, <2>2
<1>5. ASSUME NEW g \in Hosts, registry[g] # NoRoute PROVE OwnedEntry(g)'
  <2>1. OwnedEntry(g) /\ Routable(g)
    BY <1>5 DEF RoutesInv, Owned, OwnedEntry, IsSweeping, SweepPcs
  <2>2. CASE g = h
    <3>1. \A a \in Actors : IsDoing(a, g) => ops[a].pc = "add_store"
      BY <2>2 DEF IsDoing, DoingPcs
    <3>2. IsDoing(c, h)' \/ op.pc = "rest"
      BY <1>1 DEF IsDoing
    <3>3. registry[g].source = "static" =>
         \/ rules'[g] = registry[g].owner
         \/ \E a \in Actors : IsDoing(a, g)' /\ ops'[a].pc \in {"add_route", "remove_look", "remove_route"}
      BY <1>1, <2>1, <2>2, <3>1, <3>2 DEF OwnedEntry
    <3>4. registry[g].source = "bound" =>
         registry[g].owner \in bound' \/ \E a \in Actors : IsDoing(a, g)' /\ ops'[a].pc = "deregister"
      BY <1>1, <1>5, <2>1, <2>2, <3>1, <3>2 DEF OwnedEntry
    <3> QED BY <1>3, <2>1, <3>3, <3>4 DEF OwnedEntry
  <2>3. CASE g # h
    <3>1. registry[g].source = "static" =>
         \/ rules'[g] = registry[g].owner
         \/ \E a \in Actors : IsDoing(a, g)' /\ ops'[a].pc \in {"add_route", "remove_look", "remove_route"}
      BY <1>1, <2>1, <2>3 DEF OwnedEntry, IsDoing
    <3>2. registry[g].source = "bound" =>
         registry[g].owner \in bound' \/ \E a \in Actors : IsDoing(a, g)' /\ ops'[a].pc = "deregister"
      BY <1>1, <2>1, <2>3 DEF OwnedEntry, IsDoing
    <3> QED BY <1>3, <2>1, <3>1, <3>2 DEF OwnedEntry
  <2> QED BY <2>2, <2>3
<1>6. ASSUME NEW g \in Hosts \ ContainerHosts, rules'[g] # NoRoute, Routable(g) PROVE RuleServed(g)'
  <2>1. CASE g = h /\ op.pc = "add_route"
    BY <1>1, <2>1 DEF RuleServed, IsDoing, DoingPcs
  <2>2. CASE rules'[g] = rules[g]
    <3>1. RuleServed(g)
      BY <1>6, <2>2 DEF RoutesInv, RulesServed
    <3> QED BY <1>1, <2>2, <3>1 DEF RuleServed, IsDoing, IsSweeping, SweepPcs
  <2> QED BY <1>6, <2>1, <2>2
<1>7. ASSUME NEW k \in alive, Routable(HostOf[k]), HostOf[k] \notin RuleHosts PROVE ContainerServed(k)'
  <2>1. ContainerServed(k)
    BY <1>7 DEF RoutesInv, ContainersServed
  <2> QED BY <1>1, <1>3, <2>1 DEF ContainerServed, IsSweeping, SweepPcs
<1>8. Owned' /\ RulesServed' /\ ContainersServed'
  BY <1>3, <1>5, <1>6, <1>7 DEF Owned, RulesServed, ContainersServed, ContainerHosts
<1> QED BY <1>2, <1>3, <1>4, <1>8 DEF RoutesInv, ReportsInOrder

\* Rules that are stored or removed, and services that come and go.
LEMMA ChangesAreTrue ==
  ASSUME RoutesInv, ~Overlap, NEW c \in Actors,
         \/ AddStored(c)
         \/ c \in Callers /\ \E h \in Hosts : RemoveRule(c, h)
         \/ c \in Callers /\ \E b \in Bindings : Register(c, b) \/ Deregister(c, b)
  PROVE  RoutesInv'
<1>0. Shaped(ops[c]) /\ RequestHolds(c) /\ ops \in [Actors -> {ops[a] : a \in Actors}]
      /\ rules \in [Hosts -> Targets \cup {NoRoute}] /\ \A g \in Hosts \ RuleHosts : rules[g] = NoRoute
  BY DEF RoutesInv, RouteTypes
<1>1. CASE AddStored(c)
  <2> DEFINE h == ops[c].host
             op == Doing("add_route", ops[c].host, ops[c].arg)
  <2>1. /\ ops[c].pc = "add_store" /\ h \in Hosts /\ ops[c] = Doing("add_store", h, ops[c].arg)
        /\ UNCHANGED <<known, registry, alive, events, bound, handling>>
    BY <1>0, <1>1, TouchedByShape DEF AddStored, Shaped, AtRest, DoingPcs, SweepPcs
  <2>2. op.pc = "add_route" /\ op.host = h /\ op.arg = ops[c].arg /\ Shaped(op)
    BY <2>1, Fields DEF DoingPcs
  <2>3. [ops[c] EXCEPT !.pc = "add_route"] = op
    BY <2>1 DEF Doing
  <2>4. \A a \in Actors : a # c => ~IsDoing(a, h) /\ ~IsSweeping(a)
    BY <2>1 DEF RoutesInv, OneEach, IsDoing, DoingPcs
  <2>5. h \in RuleHosts /\ ops[c].arg \in Targets /\ Routable(h)
    BY <1>0, <2>1 DEF RequestHolds
  <2> HIDE DEF op
  <2>6. CASE rules' = [rules EXCEPT ![h] = ops[c].arg] /\ ops' = [ops EXCEPT ![c] = op]
    <3>1. ops'[c] = op
      BY <1>0, <2>6
    <3>2. OneEach'
      BY <2>1, <2>2, <2>6, GoesOnAlone DEF DoingPcs, SweepPcs
    <3>3. RequestHolds(c)'
      BY <1>0, <2>1, <2>2, <2>5, <2>6, <3>1 DEF RequestHolds, Routable
    <3>4. /\ rules' \in [Hosts -> Targets \cup {NoRoute}] /\ \A g \in Hosts \ RuleHosts : rules'[g] = NoRoute
          /\ \A g \in Hosts : g # h => rules'[g] = rules[g]
      BY <1>0, <2>1, <2>5, <2>6
    <3> QED BY <2>1, <2>2, <2>4, <2>6, <3>2, <3>3, <3>4, ChangeKeepsRoutes DEF DoingPcs
  <2>7. CASE rules' = rules /\ ops' = [ops EXCEPT ![c] = AtRest]
    <3>1. ops'[c] = AtRest
      BY <1>0, <2>7
    <3>2. OneEach'
      BY <2>1, <2>7, Fields, GoesOnAlone DEF DoingPcs, SweepPcs
    <3>3. RequestHolds(c)'
      BY <3>1, Fields DEF RequestHolds
    <3>4. /\ rules' \in [Hosts -> Targets \cup {NoRoute}] /\ \A g \in Hosts \ RuleHosts : rules'[g] = NoRoute
          /\ \A g \in Hosts : rules'[g] = rules[g]
      BY <1>0, <2>7
    <3> HIDE DEF h
    <3> QED BY <2>1, <2>4, <2>7, <3>2, <3>3, <3>4, Fields, ChangeKeepsRoutes
  <2> QED BY <1>1, <2>3, <2>6, <2>7 DEF AddStored, Goto
<1>2. ASSUME c \in Callers, NEW h \in Hosts, RemoveRule(c, h) PROVE RoutesInv'
  <2> DEFINE op == Doing("remove_look", h, NoRoute)
  <2>1. op.pc = "remove_look" /\ op.host = h /\ Shaped(op)
    BY Fields DEF DoingPcs
  <2>2. /\ Begin(c, {h}) /\ rules[h] # NoRoute /\ rules' = [rules EXCEPT ![h] = NoRoute]
        /\ ops' = [ops EXCEPT ![c] = op] /\ UNCHANGED <<known, registry, alive, events, bound, handling>>
    BY <1>2 DEF RemoveRule, Goto
  <2> HIDE DEF op
  <2>3. ops'[c] = op /\ ops[c].pc = "rest"
    BY <1>0, <2>2, Fields DEF Begin
  <2>4. OneEach'
    BY <1>2, <2>1, <2>2, BeginsAlone DEF SweepPcs
  <2>5. h \in RuleHosts
    BY <1>0, <2>2
  <2>6. /\ rules' \in [Hosts -> Targets \cup {NoRoute}] /\ \A g \in Hosts \ RuleHosts : rules'[g] = NoRoute
        /\ \A g \in Hosts : g # h => rules'[g] = rules[g]
        /\ rules'[h] = NoRoute
    BY <1>0, <2>2
  <2>7. RequestHolds(c)'
    BY <2>1, <2>3, <2>5, <2>6 DEF RequestHolds
  <2>8. \A a \in Actors : ~IsDoing(a, h) /\ ~IsSweeping(a)
    BY <2>2, FreeMeans DEF RoutesInv, Begin
  <2> QED BY <2>1, <2>2, <2>3, <2>4, <2>6, <2>7, <2>8, ChangeKeepsRoutes DEF DoingPcs
<1>3. ASSUME c \in Callers, NEW b \in Bindings, Register(c, b) \/ Deregister(c, b) PROVE RoutesInv'
  <2> DEFINE h == HostOf[b]
  <2>0. h \in Hosts
    BY RouteConstants
  <2>1. Begin(c, {h}) /\ UNCHANGED <<rules, known, registry, alive, events, handling>>
    BY <1>3 DEF Register, Deregister
  <2>2. ops[c].pc = "rest" /\ \A a \in Actors : ~IsDoing(a, h) /\ ~IsSweeping(a)
    BY <2>0, <2>1, FreeMeans, Fields DEF RoutesInv, Begin
  <2>3. ASSUME NEW op, Shaped(op), ops' = [ops EXCEPT ![c] = op], op.pc = "rest" \/ (op.pc \in DoingPcs /\ op.host = h)
        PROVE  ops'[c] = op /\ OneEach'
    <3>1. op.pc \in DoingPcs => op.host \in {h}
      BY <2>3 DEF DoingPcs
    <3>2. op.pc \notin SweepPcs
      BY <2>3 DEF DoingPcs, SweepPcs
    <3> QED BY <1>0, <1>3, <2>0, <2>1, <2>3, <3>1, <3>2, BeginsAlone
  <2>4. ASSUME Register(c, b) PROVE RoutesInv'
    <3>1. bound' = bound \cup {b}
      BY <2>4 DEF Register
    <3>2. CASE Routable(h)
      <4> DEFINE op == Doing("register", h, b)
      <4>1. op.pc = "register" /\ op.host = h /\ op.arg = b /\ Shaped(op)
        BY <2>0, Fields DEF DoingPcs
      <4>2. ops' = [ops EXCEPT ![c] = op]
        BY <2>4, <3>2 DEF Register, Goto
      <4> HIDE DEF op
      <4>3. ops'[c] = op /\ OneEach'
        BY <2>3, <4>1, <4>2 DEF DoingPcs
      <4>4. RequestHolds(c)'
        BY <2>1, <3>1, <3>2, <4>1, <4>3 DEF RequestHolds, Routable
      <4> QED BY <1>0, <2>0, <2>1, <2>2, <3>1, <4>1, <4>2, <4>3, <4>4, ChangeKeepsRoutes DEF DoingPcs
    <3>3. CASE ~Routable(h)
      <4>1. ops' = [ops EXCEPT ![c] = AtRest]
        BY <2>4, <3>3 DEF Register, Goto
      <4>2. ops'[c] = AtRest /\ OneEach'
        BY <2>3, <4>1, Fields
      <4>3. RequestHolds(c)'
        BY <4>2, Fields DEF RequestHolds
      <4> QED BY <1>0, <2>0, <2>1, <2>2, <3>1, <4>1, <4>2, <4>3, Fields, ChangeKeepsRoutes
    <3> QED BY <3>2, <3>3
  <2>5. ASSUME Deregister(c, b) PROVE RoutesInv'
    <3>1. bound' = bound \ {b} /\ \A x : HostOf[x] # h /\ x \in bound => x \in bound'
      BY <2>5 DEF Deregister
    <3>2. CASE registry[h] # NoRoute /\ registry[h].source = "bound"
      <4> DEFINE op == Doing("deregister", h, b)
      <4>1. op.pc = "deregister" /\ op.host = h /\ op.arg = b /\ Shaped(op)
        BY <2>0, Fields DEF DoingPcs
      <4>2. ops' = [ops EXCEPT ![c] = op]
        BY <2>5, <3>2 DEF Deregister, Goto
      <4> HIDE DEF op
      <4>3. ops'[c] = op /\ OneEach'
        BY <2>3, <4>1, <4>2 DEF DoingPcs
      <4>4. Routable(h)
        BY <2>0, <2>2, <3>2 DEF RoutesInv, Owned, OwnedEntry, IsSweeping, SweepPcs
      <4>5. RequestHolds(c)'
        BY <2>1, <4>1, <4>3, <4>4 DEF RequestHolds, Routable
      <4> QED BY <1>0, <2>0, <2>1, <2>2, <3>1, <4>1, <4>2, <4>3, <4>5, ChangeKeepsRoutes DEF DoingPcs
    <3>3. CASE ~(registry[h] # NoRoute /\ registry[h].source = "bound")
      <4>1. ops' = [ops EXCEPT ![c] = AtRest]
        BY <2>5, <3>3 DEF Deregister, Goto
      <4>2. ops'[c] = AtRest /\ OneEach'
        BY <2>3, <4>1, Fields
      <4>3. RequestHolds(c)'
        BY <4>2, Fields DEF RequestHolds
      <4> QED BY <1>0, <2>0, <2>1, <2>2, <3>1, <3>3, <4>1, <4>2, <4>3, Fields, ChangeKeepsRoutes
    <3> QED BY <3>2, <3>3
  <2> QED BY <1>3, <2>4, <2>5
<1> QED BY <1>1, <1>2, <1>3

\* A TLD that comes or goes: nothing else is under way, and a sweep begins.
LEMMA TldsAreTrue ==
  ASSUME RoutesInv, ~Overlap, NEW c \in Callers, NEW tld \in Tlds, TldAdd(c, tld) \/ TldRemove(c, tld)
  PROVE  RoutesInv'
<1>1. /\ Begin(c, Hosts) /\ UNCHANGED <<rules, registry, alive, events, bound, handling>>
      /\ \E pc \in {"seed_list", "orphan_list"} :
           /\ ops' = [ops EXCEPT ![c] = Sweeping(pc, {})]
           /\ known' = IF pc = "seed_list" THEN known \cup {tld} ELSE known \ {tld}
  BY DEF TldAdd, TldRemove, Goto
<1>2. PICK pc \in {"seed_list", "orphan_list"} :
           /\ ops' = [ops EXCEPT ![c] = Sweeping(pc, {})]
           /\ known' = IF pc = "seed_list" THEN known \cup {tld} ELSE known \ {tld}
  BY <1>1
<1>3. LET op == Sweeping(pc, {}) IN op.pc = pc /\ Shaped(op) /\ pc \in SweepPcs /\ pc \notin DoingPcs
  BY Fields DEF SweepPcs, DoingPcs
<1>4. /\ c \in Actors /\ ops'[c] = Sweeping(pc, {}) /\ ops'[c].pc = pc
      /\ \A a \in Actors : a # c => ops'[a] = ops[a]
  BY <1>2, <1>3 DEF RoutesInv, RouteTypes, Actors
<1>5. OneEach'
  BY <1>1, <1>2, <1>3, BeginsAlone
<1>6. handling = {} /\ \A a \in Actors : ops[a].pc = "rest"
  <2>1. \A a \in Actors, h \in Hosts : ~IsDoing(a, h) /\ ~IsSweeping(a)
    BY <1>1, FreeMeans DEF RoutesInv, Begin
  <2>2. ASSUME NEW a \in Actors PROVE ops[a].pc = "rest"
    BY <2>1, TouchedByShape, RouteConstants DEF RoutesInv, RouteTypes, IsDoing, IsSweeping
  <2>3. \A k \in handling : HostOf[k] \notin Hosts
    BY <1>1, FreeMeans DEF RoutesInv, Begin
  <2> QED BY <2>2, <2>3, RouteConstants DEF RoutesInv, RouteTypes
<1>7. RouteTypes'
  BY <1>1, <1>2, <1>3 DEF RoutesInv, RouteTypes
<1>8. \A a \in Actors : RequestHolds(a)'
  BY <1>4, <1>6 DEF RequestHolds
<1>9. /\ \A k, action : Pending(action, k)' = Pending(action, k)
      /\ \A k : AliveOrReported(k)' = AliveOrReported(k)
  BY <1>1 DEF Pending, AliveOrReported
<1>10. ASSUME NEW h \in Hosts, registry[h] # NoRoute PROVE OwnedEntry(h)'
  <2>1. OwnedEntry(h) /\ Routable(h)
    BY <1>6, <1>10 DEF RoutesInv, Owned, OwnedEntry
  <2>2. Routable(h)' \/ pc = "orphan_list"
    BY <1>2, <2>1 DEF Routable
  <2>3. registry[h].source = "static" => rules[h] = registry[h].owner
    BY <1>6, <2>1 DEF OwnedEntry
  <2>4. registry[h].source = "bound" => registry[h].owner \in bound
    BY <1>6, <2>1 DEF OwnedEntry
  <2> QED BY <1>1, <1>4, <1>9, <2>1, <2>2, <2>3, <2>4 DEF OwnedEntry
<1>11. ASSUME NEW h \in Hosts \ ContainerHosts, rules[h] # NoRoute, Routable(h)' PROVE RuleServed(h)'
  <2>1. CASE pc = "seed_list"
    BY <1>4, <2>1 DEF RuleServed
  <2>2. CASE pc = "orphan_list"
    <3>1. RuleServed(h)
      BY <1>2, <1>11, <2>2 DEF RoutesInv, RulesServed, Routable
    <3> QED BY <1>1, <1>6, <3>1 DEF RuleServed, IsDoing
  <2> QED BY <2>1, <2>2
<1>12. ASSUME NEW k \in alive, Routable(HostOf[k])', HostOf[k] \notin RuleHosts PROVE ContainerServed(k)'
  <2>1. CASE pc = "seed_list"
    BY <1>4, <2>1 DEF ContainerServed
  <2>2. CASE pc = "orphan_list"
    <3>1. ContainerServed(k)
      BY <1>2, <1>12, <2>2 DEF RoutesInv, ContainersServed, Routable
    <3> QED BY <1>1, <1>6, <1>9, <3>1 DEF ContainerServed
  <2> QED BY <2>1, <2>2
<1>13. Owned' /\ RulesServed' /\ ContainersServed'
  BY <1>1, <1>10, <1>11, <1>12 DEF Owned, RulesServed, ContainersServed, ContainerHosts
<1> QED BY ZenonT(40), <1>1, <1>5, <1>6, <1>7, <1>8, <1>13 DEF RoutesInv, ReportsInOrder

\* A step of a sweep that writes an entry, and has one thing less to do.
LEMMA SweepWritesAreTrue ==
  ASSUME RoutesInv, ContainersApart, NEW c \in Actors, SeedOne(c) \/ ScanOne(c) \/ OrphanDrop(c)
  PROVE  RoutesInv'
<1>0. /\ RequestHolds(c) /\ RouteTypes /\ \A k \in Containers : HostOf[k] \in Hosts
      /\ UNCHANGED <<rules, known, alive, events, bound, handling>>
  BY RouteConstants DEF RoutesInv, SeedOne, ScanOne, OrphanDrop
<1>1. ops[c].pc \in {"seed", "scan_found", "orphans"}
  BY DEF SeedOne, ScanOne, OrphanDrop
<1>2. handling = {} /\ \A a \in Actors : a # c => ops[a].pc = "rest"
  BY <1>1, SweepIsAlone DEF IsSweeping, SweepPcs
<1>3. /\ \A g : Routable(g)' = Routable(g)
      /\ \A k, action : Pending(action, k)' = Pending(action, k)
      /\ \A k : AliveOrReported(k)' = AliveOrReported(k)
  BY <1>0 DEF Routable, Pending, AliveOrReported
<1>4. ASSUME NEW pc \in SweepPcs \ {"scan_found"}, NEW todo, ops' = [ops EXCEPT ![c] = Sweeping(pc, todo)],
             NEW h \in Hosts, NEW v \in Entries \cup {NoRoute}, registry' = [registry EXCEPT ![h] = v]
      PROVE  /\ ops'[c].pc = pc /\ ops'[c].todo = todo /\ \A a \in Actors : a # c => ops'[a] = ops[a]
             /\ OneEach' /\ RouteTypes'
             /\ registry'[h] = v /\ \A g \in Hosts : g # h => registry'[g] = registry[g]
  <2>1. LET op == Sweeping(pc, todo) IN op.pc = pc /\ op.todo = todo /\ Shaped(op)
    BY Fields
  <2>2. ops'[c] = Sweeping(pc, todo) /\ \A a \in Actors : a # c => ops'[a] = ops[a]
    BY <1>0, <1>4 DEF RouteTypes
  <2>3. OneEach'
    <3>1. pc \notin DoingPcs /\ ops[c].pc \in SweepPcs /\ UNCHANGED handling
      BY <1>0, <1>1 DEF DoingPcs, SweepPcs
    <3> QED BY <1>4, <2>1, <3>1, GoesOnAlone
  <2>4. RouteTypes'
    BY <1>0, <1>4, <2>1, <2>2 DEF RouteTypes
  <2> QED BY <1>0, <1>4, <2>1, <2>2, <2>3, <2>4 DEF RouteTypes
<1>5. ASSUME \A a \in Actors : a # c => ops'[a] = ops[a], RequestHolds(c)', OneEach', RouteTypes',
             \A h \in Hosts : registry'[h] # NoRoute => OwnedEntry(h)', RulesServed', ContainersServed'
      PROVE  RoutesInv'
  <2>1. \A a \in Actors : RequestHolds(a)'
    BY <1>2, <1>5 DEF RequestHolds
  <2> QED BY <1>0, <1>2, <1>5, <2>1 DEF RoutesInv, ReportsInOrder, Owned
<1>6. ASSUME NEW g \in Hosts, registry[g] # NoRoute, registry'[g] = registry[g],
             Routable(g) \/ (ops'[c].pc = "orphans" /\ g \in ops'[c].todo)
      PROVE  OwnedEntry(g)'
  <2>1. OwnedEntry(g)
    BY <1>6 DEF RoutesInv, Owned
  <2>2. registry[g].source = "static" => rules[g] = registry[g].owner
    BY <1>1, <1>2, <2>1 DEF OwnedEntry, IsDoing
  <2>3. registry[g].source = "bound" => registry[g].owner \in bound
    BY <1>1, <1>2, <2>1 DEF OwnedEntry, IsDoing
  <2> QED BY <1>0, <1>3, <1>6, <2>1, <2>2, <2>3 DEF OwnedEntry
<1>7. CASE SeedOne(c)
  <2>1. PICK rule \in ops[c].todo :
         /\ IF Routable(rule[1]) THEN Upsert(rule[1], Entry("static", rule[2])) ELSE UNCHANGED registry
         /\ ops' = [ops EXCEPT ![c] = Sweeping("seed", ops[c].todo \ {rule})]
    BY <1>7 DEF SeedOne, Goto
  <2> DEFINE h == rule[1]
             v == IF Routable(h) THEN Entry("static", rule[2]) ELSE registry[h]
             todo == ops[c].todo \ {rule}
  <2>2. /\ ops[c].pc = "seed" /\ h \in Hosts /\ rule[2] \in Targets /\ rules[h] = rule[2] /\ rule = <<h, rules[h]>>
        /\ \A r \in ops[c].todo : r \in Hosts \X Targets /\ rules[r[1]] = r[2]
    BY <1>0, <1>7 DEF SeedOne, RequestHolds
  <2>3. LET e == Entry("static", rule[2]) IN e \in Entries /\ e.source = "static" /\ e.owner = rule[2] /\ e # NoRoute
    BY <2>2, NoRouteConstant DEF Entry, Entries
  <2>4. v \in Entries \cup {NoRoute} /\ registry' = [registry EXCEPT ![h] = v]
    BY <1>0, <2>1, <2>2, <2>3 DEF Upsert, RouteTypes
  <2>5. Routable(h) => v.source = "static" /\ v.owner = rules[h] /\ v # NoRoute
    BY <2>2, <2>3
  <2>6. ~Routable(h) => v = registry[h]
    OBVIOUS
  <2> HIDE DEF h, v, todo
  <2>7. /\ ops'[c].pc = "seed" /\ ops'[c].todo = todo /\ \A a \in Actors : a # c => ops'[a] = ops[a]
        /\ OneEach' /\ RouteTypes'
        /\ registry'[h] = v /\ \A g \in Hosts : g # h => registry'[g] = registry[g]
    <3>1. "seed" \in SweepPcs \ {"scan_found"}
      BY DEF SweepPcs
    <3>2. ops' = [ops EXCEPT ![c] = Sweeping("seed", todo)]
      BY <2>1 DEF todo
    <3> QED BY ZenonT(40), <1>4, <2>2, <2>4, <3>1, <3>2
  <2>8. RequestHolds(c)'
    BY <1>0, <2>2, <2>7 DEF RequestHolds, todo
  <2>9. ASSUME NEW g \in Hosts, registry'[g] # NoRoute PROVE OwnedEntry(g)'
    <3>1. CASE g = h /\ Routable(h)
      BY <1>3, <2>5, <2>7, <3>1, <1>0 DEF OwnedEntry
    <3>2. CASE ~(g = h /\ Routable(h))
      <4>1. registry'[g] = registry[g]
        BY <2>6, <2>7, <3>2
      <4>2. Routable(g)
        BY <1>2, <2>2, <2>9, <4>1 DEF RoutesInv, Owned, OwnedEntry
      <4> QED BY <1>6, <2>9, <4>1, <4>2
    <3> QED BY <3>1, <3>2
  <2>10. RulesServed'
    <3> SUFFICES ASSUME NEW g \in Hosts \ ContainerHosts, rules[g] # NoRoute, Routable(g) PROVE RuleServed(g)'
      BY <1>0, <1>3 DEF RulesServed, ContainerHosts
    <3>1. RuleServed(g)
      BY DEF RoutesInv, RulesServed
    <3>2. CASE g = h
      BY <2>5, <2>7, <3>2 DEF RuleServed
    <3>3. CASE g # h
      <4>1. registry[g] # NoRoute \/ <<g, rules[g]>> \in ops[c].todo
        BY <1>2, <2>2, <3>1 DEF RuleServed, IsDoing
      <4>2. <<g, rules[g]>> # rule
        BY <2>2, <3>3
      <4> QED BY <1>0, <2>7, <3>3, <4>1, <4>2 DEF RuleServed, todo
    <3> QED BY <3>2, <3>3
  <2>11. ContainersServed'
    BY <2>7 DEF ContainersServed, ContainerServed
  <2> QED BY <1>5, <2>7, <2>8, <2>9, <2>10, <2>11
<1>8. CASE ScanOne(c)
  <2> DEFINE k == ops[c].found
             h == HostOf[k]
             v == Entry("container", k)
             todo == ops[c].todo
  <2>1. /\ ops[c].pc = "scan_found" /\ registry' = [registry EXCEPT ![h] = v]
        /\ ops' = [ops EXCEPT ![c] = Sweeping("scan", todo)]
    BY <1>8 DEF ScanOne, Goto, Upsert
  <2>2. /\ k \in Containers /\ h \in Hosts /\ Routable(h) /\ AliveOrReported(k)
        /\ todo \subseteq {x \in Containers : Routable(HostOf[x])}
    BY <1>0, <2>1 DEF RequestHolds
  <2>3. v \in Entries /\ v.source = "container" /\ v.owner = k /\ v # NoRoute
    BY <2>2, NoRouteConstant DEF Entry, Entries
  <2>4. v = Entry("container", k)
    OBVIOUS
  <2> HIDE DEF v, todo
  <2>5. /\ ops'[c].pc = "scan" /\ ops'[c].todo = todo /\ \A a \in Actors : a # c => ops'[a] = ops[a]
        /\ OneEach' /\ RouteTypes'
        /\ registry'[h] = v /\ \A g \in Hosts : g # h => registry'[g] = registry[g]
    <3>1. "scan" \in SweepPcs \ {"scan_found"}
      BY DEF SweepPcs
    <3> QED BY <1>4, <2>1, <2>2, <2>3, <3>1
  <2>6. RequestHolds(c)'
    BY <1>3, <2>2, <2>5 DEF RequestHolds
  <2>7. ASSUME NEW g \in Hosts, registry'[g] # NoRoute PROVE OwnedEntry(g)'
    <3>1. CASE g = h
      BY <1>3, <2>2, <2>3, <2>5, <3>1 DEF OwnedEntry
    <3>2. CASE g # h
      <4>1. registry'[g] = registry[g]
        BY <2>5, <3>2
      <4>2. Routable(g)
        BY <1>2, <2>1, <2>7, <4>1 DEF RoutesInv, Owned, OwnedEntry
      <4> QED BY <1>6, <2>7, <4>1, <4>2
    <3> QED BY <3>1, <3>2
  <2>8. RulesServed'
    <3> SUFFICES ASSUME NEW g \in Hosts \ ContainerHosts, rules[g] # NoRoute, Routable(g) PROVE RuleServed(g)'
      BY <1>0, <1>3 DEF RulesServed, ContainerHosts
    <3>1. RuleServed(g)
      BY DEF RoutesInv, RulesServed
    <3>2. registry[g] # NoRoute
      BY <1>2, <2>1, <3>1 DEF RuleServed, IsDoing
    <3> QED BY <2>3, <2>5, <3>2 DEF RuleServed
  <2>9. ContainersServed'
    <3> SUFFICES ASSUME NEW x \in alive, Routable(HostOf[x]), HostOf[x] \notin RuleHosts PROVE ContainerServed(x)'
      BY <1>0, <1>3 DEF ContainersServed
    <3>1. ContainerServed(x) /\ x \in Containers /\ HostOf[x] \in Hosts
      BY <1>0 DEF RoutesInv, ContainersServed, RouteTypes
    <3>2. CASE x = k
      BY <2>4, <2>5, <3>2 DEF ContainerServed
    <3>3. CASE x # k
      <4>1. HostOf[x] # h
        BY <2>2, <3>1, <3>3 DEF ContainersApart
      <4>2. \/ registry[HostOf[x]] = Entry("container", x) \/ Pending("start", x) \/ x \in handling
            \/ x \in todo
        BY <1>2, <2>1, <3>1, <3>3 DEF ContainerServed, todo
      <4> QED BY <1>0, <1>3, <2>5, <3>1, <4>1, <4>2 DEF ContainerServed
    <3> QED BY <3>2, <3>3
  <2> QED BY <1>5, <2>5, <2>6, <2>7, <2>8, <2>9
<1>9. CASE OrphanDrop(c)
  <2>1. PICK h \in ops[c].todo :
          /\ registry' = [registry EXCEPT ![h] = NoRoute]
          /\ ops' = [ops EXCEPT ![c] = Sweeping("orphans", ops[c].todo \ {h})]
    BY <1>9 DEF OrphanDrop, Goto, Drop
  <2> DEFINE todo == ops[c].todo \ {h}
  <2>2. ops[c].pc = "orphans" /\ h \in Hosts /\ ~Routable(h) /\ ops[c].todo \subseteq {g \in Hosts : ~Routable(g)}
    BY <1>0, <1>9 DEF OrphanDrop, RequestHolds
  <2> HIDE DEF todo
  <2>3. /\ ops'[c].pc = "orphans" /\ ops'[c].todo = todo /\ \A a \in Actors : a # c => ops'[a] = ops[a]
        /\ OneEach' /\ RouteTypes'
        /\ registry'[h] = NoRoute /\ \A g \in Hosts : g # h => registry'[g] = registry[g]
    <3>1. "orphans" \in SweepPcs \ {"scan_found"}
      BY DEF SweepPcs
    <3>2. ops' = [ops EXCEPT ![c] = Sweeping("orphans", todo)]
      BY <2>1 DEF todo
    <3> QED BY <1>4, <2>1, <2>2, <3>1, <3>2
  <2>4. RequestHolds(c)'
    BY <1>3, <2>2, <2>3 DEF RequestHolds, todo
  <2>5. ASSUME NEW g \in Hosts, registry'[g] # NoRoute PROVE OwnedEntry(g)'
    <3>1. g # h /\ registry'[g] = registry[g]
      BY <2>3, <2>5
    <3>2. Routable(g) \/ g \in ops[c].todo
      BY <1>2, <2>2, <2>5, <3>1 DEF RoutesInv, Owned, OwnedEntry
    <3> QED BY <1>6, <2>3, <2>5, <3>1, <3>2 DEF todo
  <2>6. RulesServed'
    <3> SUFFICES ASSUME NEW g \in Hosts \ ContainerHosts, rules[g] # NoRoute, Routable(g) PROVE RuleServed(g)'
      BY <1>0, <1>3 DEF RulesServed, ContainerHosts
    <3>1. RuleServed(g)
      BY DEF RoutesInv, RulesServed
    <3>2. registry[g] # NoRoute /\ g # h
      BY <1>2, <2>2, <3>1 DEF RuleServed, IsDoing
    <3> QED BY <2>3, <3>2 DEF RuleServed
  <2>7. ContainersServed'
    <3> SUFFICES ASSUME NEW x \in alive, Routable(HostOf[x]), HostOf[x] \notin RuleHosts PROVE ContainerServed(x)'
      BY <1>0, <1>3 DEF ContainersServed
    <3>1. ContainerServed(x) /\ HostOf[x] \in Hosts /\ HostOf[x] # h
      BY <1>0, <2>2 DEF RoutesInv, ContainersServed, RouteTypes
    <3> QED BY <1>0, <1>2, <1>3, <2>2, <2>3, <3>1 DEF ContainerServed
  <2> QED BY <1>5, <2>3, <2>4, <2>5, <2>6, <2>7
<1> QED BY <1>7, <1>8, <1>9

\* What an event of Docker's adds to the ones not handled.
LEMMA Reported ==
  ASSUME RouteTypes, NEW action \in {"start", "die"}, NEW k \in Containers,
         events' = Append(events, <<action, k>>)
  PROVE  /\ events' \in Seq({"start", "die"} \X Containers)
         /\ Len(events') = Len(events) + 1 /\ events'[Len(events')] = <<action, k>>
         /\ \A i \in 1..Len(events) : events'[i] = events[i]
         /\ Pending(action, k)'
         /\ \A act, x : Pending(act, x) => Pending(act, x)'
<1>1. events \in Seq({"start", "die"} \X Containers) /\ <<action, k>> \in {"start", "die"} \X Containers
  BY DEF RouteTypes
<1>2. /\ events' \in Seq({"start", "die"} \X Containers)
      /\ Len(events') = Len(events) + 1 /\ events'[Len(events) + 1] = <<action, k>>
      /\ \A i \in 1..Len(events) : events'[i] = events[i]
      /\ Len(events) \in Nat
  BY <1>1
<1>3. Pending(action, k)'
  BY <1>2 DEF Pending
<1>4. ASSUME NEW act, NEW x, Pending(act, x) PROVE Pending(act, x)'
  <2>1. PICK i \in 1..Len(events) : events[i] = <<act, x>>
    BY <1>4 DEF Pending
  <2>2. i \in 1..Len(events') /\ events'[i] = <<act, x>>
    BY <1>2, <2>1
  <2> QED BY <2>2 DEF Pending
<1>5. events'[Len(events')] = <<action, k>>
  BY <1>2
<1> QED BY <1>2, <1>3, <1>4, <1>5

\* What is left when the daemon takes an event.
LEMMA Taken ==
  ASSUME RouteTypes, ReportsInOrder, events # <<>>, events' = Tail(events), UNCHANGED alive
  PROVE  /\ events' \in Seq({"start", "die"} \X Containers)
         /\ Head(events) \in {"start", "die"} \X Containers
         /\ \A act, x : Pending(act, x) => Pending(act, x)' \/ Head(events) = <<act, x>>
         /\ ReportsInOrder'
         /\ \A k \in alive : Head(events) = <<"die", k>> => Pending("start", k)'
<1>1. events \in Seq({"start", "die"} \X Containers) /\ Len(events) \in Nat /\ Len(events) > 0
  BY DEF RouteTypes
<1>2. /\ events' \in Seq({"start", "die"} \X Containers)
      /\ Head(events) = events[1] /\ Head(events) \in {"start", "die"} \X Containers
      /\ Len(events') = Len(events) - 1 /\ \A i \in 1..Len(events') : events'[i] = events[i + 1]
  BY <1>1
<1>3. \A i \in 1..Len(events) : i # 1 => i - 1 \in 1..Len(events') /\ events'[i - 1] = events[i]
  <2> SUFFICES ASSUME NEW i \in 1..Len(events), i # 1
               PROVE  i - 1 \in 1..Len(events') /\ events'[i - 1] = events[i]
    OBVIOUS
  <2>1. i - 1 \in 1..Len(events') /\ (i - 1) + 1 = i
    BY <1>1, <1>2
  <2> QED BY <1>2, <2>1
<1>4. ASSUME NEW act, NEW x, Pending(act, x) PROVE Pending(act, x)' \/ Head(events) = <<act, x>>
  <2>1. PICK i \in 1..Len(events) : events[i] = <<act, x>>
    BY <1>4 DEF Pending
  <2> QED BY <1>2, <1>3, <2>1 DEF Pending
<1>5. ASSUME NEW k \in alive, NEW i \in 1..Len(events'), events'[i] = <<"die", k>>
      PROVE  \E j \in 1..Len(events') : i < j /\ events'[j] = <<"start", k>>
  <2>1. i + 1 \in 1..Len(events) /\ events[i + 1] = <<"die", k>>
    BY <1>1, <1>2, <1>5
  <2>2. PICK j \in 1..Len(events) : i + 1 < j /\ events[j] = <<"start", k>>
    BY <2>1 DEF ReportsInOrder
  <2>3. j - 1 \in 1..Len(events') /\ events'[j - 1] = <<"start", k>> /\ i < j - 1
    BY <1>1, <1>3, <2>2
  <2> QED BY <2>3
<1>6. ASSUME NEW k \in alive, Head(events) = <<"die", k>> PROVE Pending("start", k)'
  <2>1. PICK j \in 1..Len(events) : 1 < j /\ events[j] = <<"start", k>>
    BY SMTT(20), <1>1, <1>2, <1>6 DEF ReportsInOrder
  <2>2. j - 1 \in 1..Len(events') /\ events'[j - 1] = <<"start", k>>
    BY <1>1, <1>3, <2>1
  <2> QED BY <2>2 DEF Pending
<1> QED BY <1>2, <1>4, <1>5, <1>6 DEF ReportsInOrder

\* Docker starts or ends a container, and reports it.
LEMMA DockerIsTrue ==
  ASSUME RoutesInv, ~BootGap, NEW k \in Containers, ContainerStarts(k) \/ ContainerDies(k)
  PROVE  RoutesInv'
<1>1. /\ UNCHANGED <<rules, known, registry, bound, handling, ops>>
      /\ \E action \in {"start", "die"} :
           /\ events' = Append(events, <<action, k>>)
           /\ action = "start" => k \notin alive /\ alive' = alive \cup {k}
           /\ action = "die" => k \in alive /\ alive' = alive \ {k}
  BY DEF ContainerStarts, ContainerDies, DockerMay, Emit
<1>2. PICK action \in {"start", "die"} :
           /\ events' = Append(events, <<action, k>>)
           /\ action = "start" => k \notin alive /\ alive' = alive \cup {k}
           /\ action = "die" => k \in alive /\ alive' = alive \ {k}
  BY <1>1
<1>3. /\ events' \in Seq({"start", "die"} \X Containers)
      /\ Len(events') = Len(events) + 1 /\ events'[Len(events')] = <<action, k>>
      /\ \A i \in 1..Len(events) : events'[i] = events[i]
      /\ Pending(action, k)'
      /\ \A act, x : Pending(act, x) => Pending(act, x)'
  BY <1>2, Reported DEF RoutesInv
<1>4. Len(events) \in Nat
  BY DEF RoutesInv, RouteTypes
<1>5. /\ \A x : AliveOrReported(x) => AliveOrReported(x)'
      /\ \A h : Routable(h)' = Routable(h)
      /\ \A a, h : IsDoing(a, h)' = IsDoing(a, h)
      /\ \A a : IsSweeping(a)' = IsSweeping(a)
  BY <1>1, <1>2, <1>3 DEF AliveOrReported, Routable, IsDoing, IsSweeping
<1>6. RouteTypes' /\ OneEach'
  BY <1>1, <1>2, <1>3, <1>5 DEF RoutesInv, RouteTypes, OneEach
<1>7. ReportsInOrder'
  <2> SUFFICES ASSUME NEW x \in alive', NEW i \in 1..Len(events'), events'[i] = <<"die", x>>
               PROVE  \E j \in 1..Len(events') : i < j /\ events'[j] = <<"start", x>>
    BY DEF ReportsInOrder
  <2>1. i \in 1..Len(events) \/ i = Len(events')
    BY <1>3, <1>4
  <2>2. CASE i = Len(events')
    BY <1>2, <1>3, <2>2
  <2>3. CASE i \in 1..Len(events) /\ x \in alive
    <3>1. PICK j \in 1..Len(events) : i < j /\ events[j] = <<"start", x>>
      BY <1>3, <2>3 DEF RoutesInv, ReportsInOrder
    <3> QED BY <1>3, <1>4, <3>1
  <2>4. CASE i \in 1..Len(events) /\ x \notin alive
    <3>1. x = k /\ action = "start" /\ i < Len(events') /\ Len(events') \in 1..Len(events')
      BY <1>2, <1>3, <1>4, <2>4
    <3> QED BY <1>3, <3>1
  <2> QED BY <2>1, <2>2, <2>3, <2>4
<1>8. \A a \in Actors : RequestHolds(a)'
  <2> SUFFICES ASSUME NEW a \in Actors PROVE RequestHolds(a)'
    OBVIOUS
  <2>1. ops[a].pc = "register" => ops[a].arg \in bound
    BY DEF RoutesInv, RequestHolds
  <2> QED BY <1>1, <1>5, <2>1, OthersHold
<1>9. Owned'
  BY <1>1, <1>5 DEF RoutesInv, Owned, OwnedEntry
<1>10. RulesServed'
  BY <1>1, <1>5 DEF RoutesInv, RulesServed, RuleServed, ContainerHosts
<1>11. ContainersServed'
  <2> SUFFICES ASSUME NEW x \in alive', Routable(HostOf[x]), HostOf[x] \notin RuleHosts
               PROVE  ContainerServed(x)'
    BY <1>5 DEF ContainersServed
  <2>1. CASE x \in alive
    <3>1. ContainerServed(x)
      BY <2>1 DEF RoutesInv, ContainersServed
    <3> QED BY <1>1, <1>3, <3>1 DEF ContainerServed
  <2>2. CASE x \notin alive
    BY <1>2, <1>3, <2>2 DEF ContainerServed
  <2> QED BY <2>1, <2>2
<1>12. \A x \in handling' : Routable(HostOf[x])'
  BY <1>1, <1>5 DEF RoutesInv
<1> QED BY <1>6, <1>7, <1>8, <1>9, <1>10, <1>11, <1>12 DEF RoutesInv

\* The daemon takes a start, and looks at the container.
LEMMA StartsAreTrue ==
  ASSUME RoutesInv, ~Overlap, HandleStart
  PROVE  RoutesInv'
<1> DEFINE k == Head(events)[2]
<1>1. /\ events # <<>> /\ handling = {} /\ Head(events)[1] = "start" /\ events' = Tail(events)
      /\ HostsFree({HostOf[k]}) /\ handling' = IF Routable(HostOf[k]) THEN {k} ELSE {}
      /\ UNCHANGED <<rules, known, registry, alive, bound, ops>>
  BY DEF HandleStart
<1>2. /\ events' \in Seq({"start", "die"} \X Containers)
      /\ Head(events) \in {"start", "die"} \X Containers
      /\ \A act, x : Pending(act, x) => Pending(act, x)' \/ Head(events) = <<act, x>>
      /\ ReportsInOrder'
  BY <1>1, Taken DEF RoutesInv
<1>3. k \in Containers /\ HostOf[k] \in Hosts /\ Head(events) = <<"start", k>>
  BY <1>1, <1>2, RouteConstants
<1> HIDE DEF k
<1>4. /\ \A x : AliveOrReported(x) => AliveOrReported(x)'
      /\ \A h : Routable(h)' = Routable(h)
      /\ \A a, h : IsDoing(a, h)' = IsDoing(a, h)
      /\ \A a : IsSweeping(a)' = IsSweeping(a)
      /\ \A x : Pending("start", x) => Pending("start", x)' \/ x = k
  BY <1>1, <1>2, <1>3 DEF AliveOrReported, Routable, IsDoing, IsSweeping
<1>5. \A a \in Actors : ~IsDoing(a, HostOf[k]) /\ ~IsSweeping(a)
  BY <1>1, <1>3, FreeMeans DEF RoutesInv
<1>6. RouteTypes'
  BY <1>1, <1>2, <1>3 DEF RoutesInv, RouteTypes
<1>7. OneEach'
  <2>1. \A x \in handling' : x = k
    BY <1>1
  <2> QED BY <1>4, <1>5, <2>1 DEF RoutesInv, OneEach
<1>8. \A a \in Actors : RequestHolds(a)'
  <2> SUFFICES ASSUME NEW a \in Actors PROVE RequestHolds(a)'
    OBVIOUS
  <2>1. ops[a].pc = "register" => ops[a].arg \in bound
    BY DEF RoutesInv, RequestHolds
  <2> QED BY <1>1, <1>4, <2>1, OthersHold
<1>9. Owned'
  BY <1>1, <1>4 DEF RoutesInv, Owned, OwnedEntry
<1>10. RulesServed'
  BY <1>1, <1>4 DEF RoutesInv, RulesServed, RuleServed, ContainerHosts
<1>11. ContainersServed'
  <2> SUFFICES ASSUME NEW x \in alive, Routable(HostOf[x]), HostOf[x] \notin RuleHosts
               PROVE  ContainerServed(x)'
    BY <1>1, <1>4 DEF ContainersServed
  <2>1. ContainerServed(x)
    BY DEF RoutesInv, ContainersServed
  <2>2. x = k => x \in handling'
    BY <1>1
  <2> QED BY <1>1, <1>4, <2>1, <2>2 DEF ContainerServed
<1>12. \A x \in handling' : Routable(HostOf[x])'
  BY <1>1, <1>4
<1> QED BY <1>2, <1>6, <1>7, <1>8, <1>9, <1>10, <1>11, <1>12 DEF RoutesInv

\* The look at a started container answers, or fails when it is gone.
LEMMA ResolvesAreTrue ==
  ASSUME RoutesInv, ContainersApart, StartResolved
  PROVE  RoutesInv'
<1>1. PICK k \in handling : IF k \in alive THEN Upsert(HostOf[k], Entry("container", k))
                                            ELSE UNCHANGED registry
  BY DEF StartResolved
<1>2. handling' = {} /\ UNCHANGED <<rules, known, alive, events, bound, ops>>
  BY DEF StartResolved
<1> DEFINE h == HostOf[k]
           v == IF k \in alive THEN Entry("container", k) ELSE registry[h]
<1>3. /\ k \in Containers /\ h \in Hosts /\ Routable(h) /\ handling = {k}
      /\ \A a \in Actors : ~IsDoing(a, h) /\ ~IsSweeping(a)
  BY RouteConstants DEF RoutesInv, RouteTypes, OneEach
<1>4. LET e == Entry("container", k) IN e \in Entries /\ e.source = "container" /\ e.owner = k /\ e # NoRoute
  BY <1>3, NoRouteConstant DEF Entry, Entries
<1>5. v \in Entries \cup {NoRoute} /\ registry' = [registry EXCEPT ![h] = v]
  BY <1>1, <1>3, <1>4 DEF Upsert, RoutesInv, RouteTypes
<1>6. k \in alive => v = Entry("container", k) /\ v.source = "container" /\ v.owner = k /\ v # NoRoute
  BY <1>4
<1>7. k \notin alive => v = registry[h]
  OBVIOUS
<1> HIDE DEF v
<1>8. registry'[h] = v /\ \A g \in Hosts : g # h => registry'[g] = registry[g]
  BY <1>3, <1>5 DEF RoutesInv, RouteTypes
<1>9. /\ \A x : AliveOrReported(x)' = AliveOrReported(x)
      /\ \A act, x : Pending(act, x)' = Pending(act, x)
      /\ \A g : Routable(g)' = Routable(g)
      /\ \A a, g : IsDoing(a, g)' = IsDoing(a, g)
      /\ \A a : IsSweeping(a)' = IsSweeping(a)
  BY <1>2 DEF AliveOrReported, Pending, Routable, IsDoing, IsSweeping
<1>10. RouteTypes'
  BY <1>2, <1>5 DEF RoutesInv, RouteTypes
<1>11. OneEach' /\ ReportsInOrder'
  BY <1>2, <1>9 DEF RoutesInv, OneEach, ReportsInOrder
<1>12. \A a \in Actors : RequestHolds(a)'
  BY <1>2, <1>9 DEF RoutesInv, RequestHolds
<1>13. ASSUME NEW g \in Hosts, registry'[g] # NoRoute PROVE OwnedEntry(g)'
  <2>1. CASE g = h /\ k \in alive
    <3>1. registry'[g] = v /\ v.source = "container" /\ v.owner = k
      BY <1>6, <1>8, <2>1
    <3>2. HostOf[k] = g /\ AliveOrReported(k)' /\ Routable(g)'
      BY <1>2, <1>3, <1>9, <2>1 DEF AliveOrReported
    <3> QED BY <3>1, <3>2 DEF OwnedEntry
  <2>2. CASE ~(g = h /\ k \in alive)
    <3>1. registry'[g] = registry[g]
      BY <1>7, <1>8, <2>2
    <3>2. OwnedEntry(g)
      BY <1>13, <3>1 DEF RoutesInv, Owned
    <3> QED BY <1>2, <1>9, <3>1, <3>2 DEF OwnedEntry
  <2> QED BY <2>1, <2>2
<1>14. RulesServed'
  <2> SUFFICES ASSUME NEW g \in Hosts \ ContainerHosts, rules[g] # NoRoute, Routable(g) PROVE RuleServed(g)'
    BY <1>2, <1>9 DEF RulesServed, ContainerHosts
  <2>1. RuleServed(g) /\ registry'[g] = registry[g]
    BY <1>3, <1>8 DEF RoutesInv, RulesServed, ContainerHosts
  <2> QED BY <1>2, <1>9, <2>1 DEF RuleServed
<1>15. ContainersServed'
  <2> SUFFICES ASSUME NEW x \in alive, Routable(HostOf[x]), HostOf[x] \notin RuleHosts
               PROVE  ContainerServed(x)'
    BY <1>2, <1>9 DEF ContainersServed
  <2>1. ContainerServed(x) /\ x \in Containers /\ HostOf[x] \in Hosts
    BY RouteConstants DEF RoutesInv, ContainersServed, RouteTypes
  <2>2. CASE x = k
    BY <1>6, <1>8, <2>2 DEF ContainerServed
  <2>3. CASE x # k
    <3>1. registry'[HostOf[x]] = registry[HostOf[x]]
      BY <1>3, <1>8, <2>1, <2>3 DEF ContainersApart
    <3> QED BY <1>2, <1>3, <1>9, <2>1, <2>3, <3>1 DEF ContainerServed
  <2> QED BY <2>2, <2>3
<1>16. Owned'
  BY <1>13 DEF Owned
<1> QED BY <1>2, <1>10, <1>11, <1>12, <1>14, <1>15, <1>16 DEF RoutesInv

\* The daemon takes an end, and drops what the container was routed as.
LEMMA EndsOfContainersAreTrue ==
  ASSUME RoutesInv, ~Overlap, HandleDie
  PROVE  RoutesInv'
<1>0. PICK k : k = Head(events)[2]
  OBVIOUS
<1>1. /\ events # <<>> /\ handling = {} /\ Head(events)[1] = "die" /\ events' = Tail(events)
      /\ HostsFree({HostOf[k]}) /\ RemoveByContainer(k)
      /\ UNCHANGED <<rules, known, alive, bound, handling, ops>>
  BY <1>0 DEF HandleDie
<1>2. /\ events' \in Seq({"start", "die"} \X Containers)
      /\ Head(events) \in {"start", "die"} \X Containers
      /\ \A act, x : Pending(act, x) => Pending(act, x)' \/ Head(events) = <<act, x>>
      /\ ReportsInOrder'
      /\ \A x \in alive : Head(events) = <<"die", x>> => Pending("start", x)'
  BY <1>1, Taken DEF RoutesInv
<1>3. k \in Containers /\ HostOf[k] \in Hosts /\ Head(events) = <<"die", k>>
  BY <1>0, <1>1, <1>2, RouteConstants
<1>4. /\ \A x : x # k /\ AliveOrReported(x) => AliveOrReported(x)'
      /\ \A h : Routable(h)' = Routable(h)
      /\ \A a, h : IsDoing(a, h)' = IsDoing(a, h)
      /\ \A a : IsSweeping(a)' = IsSweeping(a)
      /\ \A x : Pending("start", x) => Pending("start", x)'
      /\ k \in alive => Pending("start", k)'
  <2>1. \A act, x : Pending(act, x) /\ <<act, x>> # <<"die", k>> => Pending(act, x)'
    BY <1>2, <1>3
  <2>2. \A x : x # k /\ AliveOrReported(x) => AliveOrReported(x)'
    BY <1>1, <2>1 DEF AliveOrReported
  <2>3. \A x : Pending("start", x) => Pending("start", x)'
    BY <2>1
  <2>4. k \in alive => Pending("start", k)'
    BY <1>2, <1>3
  <2> QED BY <1>1, <2>2, <2>3, <2>4 DEF Routable, IsDoing, IsSweeping
<1>5. \A a \in Actors : ops[a].pc \notin {"seed_list", "seed", "scan", "scan_found"}
  <2>1. \A a \in Actors : ~IsSweeping(a)
    BY <1>1, <1>3, FreeMeans DEF RoutesInv
  <2> QED BY <2>1 DEF IsSweeping, SweepPcs
<1>6. \A h \in Hosts : /\ registry'[h] \in {registry[h], NoRoute}
                       /\ registry[h] # Entry("container", k) => registry'[h] = registry[h]
                       /\ registry[h] = Entry("container", k) => registry'[h] = NoRoute
  BY <1>1 DEF RemoveByContainer
<1>7. RouteTypes'
  <2>1. registry' \in [Hosts -> Entries \cup {NoRoute}]
    BY <1>1 DEF RemoveByContainer, RoutesInv, RouteTypes
  <2> QED BY <1>1, <1>2, <2>1 DEF RoutesInv, RouteTypes
<1>8. OneEach'
  BY <1>1, <1>4 DEF RoutesInv, OneEach
<1>9. \A a \in Actors : RequestHolds(a)'
  <2> SUFFICES ASSUME NEW a \in Actors PROVE RequestHolds(a)'
    OBVIOUS
  <2>1. RequestHolds(a) /\ ops[a].pc \notin {"scan", "scan_found", "seed"}
    BY <1>5 DEF RoutesInv
  <2> QED BY <1>1, <1>4, <2>1 DEF RequestHolds
<1>10. ASSUME NEW h \in Hosts, registry'[h] # NoRoute PROVE OwnedEntry(h)'
  <2>1. registry'[h] = registry[h] /\ registry[h] # Entry("container", k) /\ OwnedEntry(h)
    BY <1>6, <1>10 DEF RoutesInv, Owned
  <2>2. registry[h] \in Entries
    BY <1>10, <2>1 DEF RoutesInv, RouteTypes
  <2>3. registry[h].source = "container" => registry[h].owner # k
    BY <2>1, <2>2 DEF Entries, Entry
  <2> QED BY <1>1, <1>4, <2>1, <2>3 DEF OwnedEntry
<1>11. RulesServed'
  <2> SUFFICES ASSUME NEW h \in Hosts \ ContainerHosts, rules[h] # NoRoute, Routable(h) PROVE RuleServed(h)'
    BY <1>1, <1>4 DEF RulesServed, ContainerHosts
  <2>1. RuleServed(h)
    BY DEF RoutesInv, RulesServed
  <2>2. registry'[h] = registry[h]
    <3>1. registry[h] # NoRoute => OwnedEntry(h)
      BY DEF RoutesInv, Owned
    <3>2. LET e == Entry("container", k) IN e.source = "container" /\ e.owner = k /\ e # NoRoute
      BY <1>3, NoRouteConstant DEF Entry, Entries
    <3>3. registry[h] # Entry("container", k)
      BY <1>3, <3>1, <3>2 DEF OwnedEntry, ContainerHosts
    <3> QED BY <1>6, <3>3
  <2> QED BY <1>1, <1>4, <2>1, <2>2 DEF RuleServed
<1>12. ContainersServed'
  <2> SUFFICES ASSUME NEW x \in alive, Routable(HostOf[x]), HostOf[x] \notin RuleHosts
               PROVE  ContainerServed(x)'
    BY <1>1, <1>4 DEF ContainersServed
  <2>0. ContainerServed(x)
    BY DEF RoutesInv, ContainersServed
  <2>1. ContainerServed(x) /\ HostOf[x] \in Hosts
    BY <2>0, RouteConstants DEF RoutesInv, RouteTypes
  <2>2. CASE x = k
    BY <1>4, <2>2 DEF ContainerServed
  <2>3. CASE x # k
    <3>1. registry[HostOf[x]] = Entry("container", x) => registry'[HostOf[x]] = Entry("container", x)
      <4>1. Entry("container", x) # Entry("container", k)
        BY <2>3 DEF Entry
      <4> QED BY <1>6, <2>1, <4>1
    <3>2. registry'[HostOf[x]] = Entry("container", x) \/ Pending("start", x)'
      BY <1>1, <1>4, <1>5, <2>1, <3>1 DEF ContainerServed
    <3> QED BY <3>2 DEF ContainerServed
  <2> QED BY <2>2, <2>3
<1>13. \A x \in handling' : Routable(HostOf[x])'
  BY <1>1, <1>4
<1>14. Owned'
  BY <1>10 DEF Owned
<1> QED BY <1>2, <1>7, <1>8, <1>9, <1>11, <1>12, <1>13, <1>14 DEF RoutesInv

\* The daemon comes back with nothing routed, and begins to seed.
LEMMA RestartIsTrue ==
  ASSUME RoutesInv, Restart
  PROVE  RoutesInv'
<1>1. /\ registry' = [h \in Hosts |-> NoRoute] /\ events' = <<>> /\ handling' = {} /\ bound' = {}
      /\ UNCHANGED <<rules, known, alive>>
      /\ ops' = [a \in Actors |-> IF a = Booter THEN Sweeping("seed_list", {}) ELSE AtRest]
  BY DEF Restart
<1>2. /\ Booter \in Actors /\ ops'[Booter] = Sweeping("seed_list", {})
      /\ \A a \in Actors : a # Booter => ops'[a] = AtRest
      /\ \A a \in Actors : ops'[a] = Sweeping("seed_list", {}) \/ ops'[a] = AtRest
  BY <1>1 DEF Actors
<1>3. LET op == Sweeping("seed_list", {}) IN op.pc = "seed_list" /\ Shaped(op)
  BY Fields DEF SweepPcs
<1>4. AtRest.pc = "rest" /\ Shaped(AtRest)
  BY Fields
<1>5. /\ ops'[Booter].pc = "seed_list" /\ \A a \in Actors : a # Booter => ops'[a].pc = "rest"
      /\ \A a \in Actors : Shaped(ops'[a])
  BY <1>2, <1>3, <1>4
<1>6. RouteTypes'
  <2>1. ops' = [a \in Actors |-> ops'[a]]
    BY <1>1
  <2> QED BY <1>1, <1>5, <2>1 DEF RoutesInv, RouteTypes
<1>7. OneEach' /\ ReportsInOrder' /\ Owned'
  BY <1>1, <1>5 DEF OneEach, ReportsInOrder, Owned, IsDoing, IsSweeping, DoingPcs, SweepPcs
<1>8. \A a \in Actors : RequestHolds(a)'
  BY <1>5 DEF RequestHolds
<1>9. RulesServed' /\ ContainersServed'
  BY <1>2, <1>5 DEF RulesServed, ContainersServed, RuleServed, ContainerServed
<1> QED BY <1>1, <1>6, <1>7, <1>8, <1>9 DEF RoutesInv

\* The daemon has nothing to route when it first starts.
LEMMA InitRoutes == RoutesInit => RoutesInv
<1> SUFFICES ASSUME RoutesInit PROVE RoutesInv
  OBVIOUS
<1>1. /\ \A a \in Actors : ops[a] = AtRest /\ ops[a].pc = "rest" /\ Shaped(ops[a])
      /\ registry = [h \in Hosts |-> NoRoute] /\ alive = {} /\ events = <<>> /\ handling = {}
      /\ rules = [h \in Hosts |-> NoRoute] /\ ops = [a \in Actors |-> ops[a]]
  BY Fields DEF RoutesInit
<1>2. RouteTypes
  BY <1>1 DEF RouteTypes
<1>3. OneEach /\ ReportsInOrder /\ Owned
  BY <1>1 DEF OneEach, ReportsInOrder, Owned, IsDoing, IsSweeping, DoingPcs, SweepPcs
<1>4. \A a \in Actors : RequestHolds(a)
  BY <1>1 DEF RequestHolds
<1>5. RulesServed /\ ContainersServed
  BY <1>1 DEF RulesServed, ContainersServed
<1> QED BY <1>1, <1>2, <1>3, <1>4, <1>5 DEF RoutesInv

\* A step keeps the registry true.
LEMMA NextRoutes ==
  ASSUME ~Overlap, ~BootGap, ContainersApart, RoutesInv, [RoutesNext]_routesVars
  PROVE  RoutesInv'
<1>1. CASE UNCHANGED routesVars
  <2>1. UNCHANGED <<rules, known, registry, alive, events, bound, handling, ops>>
    BY <1>1 DEF routesVars
  <2>2. RouteTypes' /\ OneEach' /\ ReportsInOrder'
    BY <2>1 DEF RoutesInv, RouteTypes, OneEach, ReportsInOrder, IsDoing, IsSweeping
  <2>3. /\ \A k, action : Pending(action, k)' = Pending(action, k)
        /\ \A k : AliveOrReported(k)' = AliveOrReported(k)
        /\ \A h : Routable(h)' = Routable(h)
        /\ \A a, h : IsDoing(a, h)' = IsDoing(a, h)
    BY <2>1 DEF Pending, AliveOrReported, Routable, IsDoing
  <2>4. \A a \in Actors : RequestHolds(a)'
    BY <2>1, <2>3 DEF RoutesInv, RequestHolds
  <2>5. Owned'
    BY <2>1, <2>3 DEF RoutesInv, Owned, OwnedEntry
  <2>6. RulesServed'
    BY <2>1, <2>3 DEF RoutesInv, RulesServed, RuleServed, ContainerHosts
  <2>7. ContainersServed'
    BY <2>1, <2>3 DEF RoutesInv, ContainersServed, ContainerServed
  <2> QED BY <2>1, <2>2, <2>3, <2>4, <2>5, <2>6, <2>7 DEF RoutesInv
<1>2. ASSUME NEW c \in Callers, Request(c) PROVE RoutesInv'
  <2>1. c \in Actors
    BY DEF Actors
  <2> QED BY <1>2, <2>1, LooksAreTrue, ChangesAreTrue, TldsAreTrue DEF Request
<1>3. ASSUME NEW c \in Actors, Work(c) PROVE RoutesInv'
  BY <1>3, LooksAreTrue, EndsAreTrue, ChangesAreTrue, SweepWritesAreTrue DEF Work
<1>4. ASSUME NEW k \in Containers, ContainerStarts(k) \/ ContainerDies(k) PROVE RoutesInv'
  BY <1>4, DockerIsTrue
<1>5. CASE HandleEvents
  BY <1>5, StartsAreTrue, ResolvesAreTrue, EndsOfContainersAreTrue DEF HandleEvents
<1>6. CASE Restart
  BY <1>6, RestartIsTrue
<1> QED BY <1>1, <1>2, <1>3, <1>4, <1>5, <1>6 DEF RoutesNext

\* At rest nothing is pending, so every part of the invariant that speaks of
\* somebody's next step is about the entries themselves.
LEMMA QuietIsTrue == RoutesInv => RegistryTrue
<1> SUFFICES ASSUME RoutesInv, Quiet PROVE RouteHasOwner /\ RuleIsRouted /\ ContainerIsRouted
  BY DEF RegistryTrue, RouteHasOwner, RuleIsRouted, ContainerIsRouted
<1>1. /\ \A a \in Actors : ops[a].pc = "rest"
      /\ \A k, action : ~Pending(action, k)
      /\ handling = {}
  BY Fields DEF Quiet, Pending
<1>2. ASSUME NEW h \in Hosts, registry[h] # NoRoute PROVE Lives(h, registry[h]) /\ Routable(h)
  <2>1. OwnedEntry(h) /\ registry[h] \in Entries
    BY <1>2 DEF RoutesInv, Owned, RouteTypes
  <2>2. registry[h].source \in {"static", "container", "bound"}
    BY <2>1 DEF Entries
  <2> QED BY <1>1, <2>1, <2>2 DEF OwnedEntry, Lives, AliveOrReported
<1>3. ASSUME NEW h \in Hosts, rules[h] # NoRoute, Routable(h), h \notin ContainerHosts
      PROVE  registry[h] # NoRoute
  <2>1. RuleServed(h)
    BY <1>3 DEF RoutesInv, RulesServed
  <2> QED BY <1>1, <2>1 DEF RuleServed
<1>4. ASSUME NEW k \in alive, Routable(HostOf[k]), HostOf[k] \notin RuleHosts
      PROVE  registry[HostOf[k]] = Entry("container", k)
  <2>1. ContainerServed(k)
    BY <1>4 DEF RoutesInv, ContainersServed
  <2> QED BY <1>1, <2>1 DEF ContainerServed
<1> QED BY <1>2, <1>3, <1>4 DEF RouteHasOwner, RuleIsRouted, ContainerIsRouted, ContainerHosts

\* Whatever rules, TLDs, containers, services and restarts came and went, the
\* registry at rest is what its owners want of it, when one operation at a time
\* works on a host, no container changes while the daemon seeds, and a
\* container shares its host with nothing but a rule.
THEOREM RegistryAlwaysTrue ==
  ASSUME ~Overlap, ~BootGap, ContainersApart
  PROVE  RoutesSpec => []RegistryTrue
<1>1. RoutesInit => RoutesInv
  BY InitRoutes
<1>2. RoutesInv /\ [RoutesNext]_routesVars => RoutesInv'
  BY NextRoutes
<1>3. RoutesInv => RegistryTrue
  BY QuietIsTrue
<1> QED BY <1>1, <1>2, <1>3, PTL DEF RoutesSpec

-----------------------------------------------------------------------------
(* What the resolver, the registry and the listeners make of one name.        *)

\* No name is both a rule's and a container's: a container that stops does not
\* give way to a rule of its name (docker_events.rs, unregister_container).
RulesUnlabelled == RuleNames \cap LabelNames = {}

NameEntry == [source : {"none", "static", "service", "egress", "container"}, mode : {NoMode, "http", "tcp", "egress"}]
\* What an entry, or a rule, of a name may be.
Bindable(n, mode) ==
    /\ validate_host(n) /\ n # DashboardHost
    /\ mode = "tcp" => ~host_is_localhost(n) /\ ~is_wildcard_host(n)
NameTypes ==
    /\ table \in [Typed -> NameEntry] /\ ruled \in [Typed -> {NoMode, "http", "tcp"}]
    /\ tlds \subseteq TldsTyped /\ \A t \in tlds : validate_tld(t)
LabelsFit ==
    /\ \A l \in labelled : /\ l.name \in Typed /\ l.name \in LabelNames /\ l.mode \in {"http", "tcp"}
                           /\ ~(is_wildcard_host(l.name) /\ l.mode = "tcp")
    /\ \A l, k \in labelled : l.name = k.name => l = k
NameFits(n) ==
    /\ table[n].source # "none" => Bindable(n, table[n].mode) /\ host_is_routable(n, tlds)
    /\ table[n].source = "container" => n \in LabelNames
    /\ ruled[n] # NoMode => n \in RuleNames /\ Bindable(n, ruled[n])
    /\ ruled[n] # NoMode /\ host_is_routable(n, tlds) => table[n].source # "none"
NamesInv == NameTypes /\ LabelsFit /\ \A n \in Typed : NameFits(n)

LEMMA InitNames == HostNamesInit => NamesInv
BY DEF HostNamesInit, NamesInv, NameTypes, LabelsFit, NameFits, NoEntryFor, NameEntry, NoMode

\* A step that gives one name another entry, another rule, or both.
LEMMA OneName ==
  ASSUME NamesInv, NEW n \in Typed, NEW entry \in NameEntry, NEW rule \in {NoMode, "http", "tcp"},
         table' = [table EXCEPT ![n] = entry], ruled' = [ruled EXCEPT ![n] = rule], UNCHANGED tlds, LabelsFit',
         entry.source # "none" => Bindable(n, entry.mode) /\ host_is_routable(n, tlds),
         entry.source = "container" => n \in LabelNames,
         rule # NoMode => n \in RuleNames /\ Bindable(n, rule),
         rule # NoMode /\ host_is_routable(n, tlds) => entry.source # "none"
  PROVE  NamesInv'
<1>1. NameTypes'
  BY DEF NamesInv, NameTypes
<1>2. /\ table'[n] = entry /\ ruled'[n] = rule
      /\ \A k \in Typed : k # n => table'[k] = table[k] /\ ruled'[k] = ruled[k]
  BY DEF NamesInv, NameTypes
<1>3. NameFits(n)'
  BY <1>2 DEF NameFits
<1>4. ASSUME NEW k \in Typed, k # n PROVE NameFits(k)'
  BY <1>2, <1>4 DEF NamesInv, NameFits
<1> QED BY <1>1, <1>3, <1>4 DEF NamesInv

\* What may be routed may be bound, if the name is valid.
LEMMA RoutedIsBindable ==
  ASSUME NEW n, NEW mode, NEW managed, validate_host(n), MayRoute(n, mode, managed),
         ~(is_wildcard_host(n) /\ mode = "tcp")
  PROVE  Bindable(n, mode) /\ host_is_routable(n, managed)
BY DEF MayRoute, Bindable

LEMMA EntryFields ==
  /\ NoEntryFor \in NameEntry /\ NoEntryFor.source = "none"
  /\ \A source \in {"static", "service", "egress", "container"}, mode \in {"http", "tcp", "egress"} :
       Found(source, mode) \in NameEntry /\ Found(source, mode).source = source /\ Found(source, mode).mode = mode
BY DEF NoEntryFor, NameEntry, Found, NoMode

\* The handlers of rules.
LEMMA RulesFit ==
  ASSUME NamesInv, NEW n \in Typed, (\E m \in {"http", "tcp"} : AddName(n, m)) \/ RemoveName(n)
  PROVE  NamesInv'
<1>0. n \in DOMAIN table /\ table[n] \in NameEntry /\ NameFits(n) /\ UNCHANGED tlds /\ LabelsFit'
  BY DEF NamesInv, NameTypes, LabelsFit, AddName, RemoveName
<1>1. ASSUME NEW m \in {"http", "tcp"}, AddName(n, m) PROVE NamesInv'
  <2>1. Bindable(n, m) /\ host_is_routable(n, tlds) /\ n \in RuleNames
    BY <1>1, RoutedIsBindable DEF AddName
  <2>2. table' = [table EXCEPT ![n] = Found("static", m)] /\ ruled' = [ruled EXCEPT ![n] = m]
    BY <1>1 DEF AddName
  <2>3. /\ Found("static", m) \in NameEntry /\ Found("static", m).source = "static" /\ Found("static", m).mode = m
        /\ m \in {NoMode, "http", "tcp"}
    BY EntryFields
  <2>4. "static" # "none" /\ "static" # "container"
    OBVIOUS
  <2> QED BY <1>0, <2>1, <2>2, <2>3, <2>4, OneName
<1>2. CASE RemoveName(n)
  <2> DEFINE entry == IF table[n].source = "static" THEN NoEntryFor ELSE table[n]
  <2>1. table' = [table EXCEPT ![n] = entry] /\ ruled' = [ruled EXCEPT ![n] = NoMode]
    BY <1>2 DEF RemoveName
  <2>2. /\ entry \in NameEntry /\ (entry.source = "container" => n \in LabelNames)
        /\ entry.source # "none" => Bindable(n, entry.mode) /\ host_is_routable(n, tlds)
    BY <1>0, EntryFields DEF NameFits
  <2> HIDE DEF entry
  <2> QED BY <1>0, <2>1, <2>2, OneName
<1> QED BY <1>1, <1>2

\* RouteBinder's calls.
LEMMA BindingsFit ==
  ASSUME ~MayStarTcp, NamesInv, NEW n \in Typed, RegisterOwned(n) \/ DeregisterName(n)
  PROVE  NamesInv'
<1>0. /\ n \in DOMAIN table /\ table[n] \in NameEntry /\ NameFits(n) /\ UNCHANGED <<tlds, ruled>> /\ LabelsFit'
      /\ ruled[n] \in {NoMode, "http", "tcp"} /\ ruled' = [ruled EXCEPT ![n] = ruled[n]]
  BY DEF NamesInv, NameTypes, LabelsFit, RegisterOwned, RegisterName, DeregisterName
<1>1. ASSUME NEW source \in {"service", "egress"}, NEW m \in {"http", "tcp", "egress"}, RegisterName(n, source, m)
      PROVE  NamesInv'
  <2>1. Bindable(n, m) /\ host_is_routable(n, tlds)
    BY <1>1, RoutedIsBindable DEF RegisterName
  <2>2. table' = [table EXCEPT ![n] = Found(source, m)]
    BY <1>1 DEF RegisterName
  <2>3. /\ Found(source, m) \in NameEntry /\ Found(source, m).source = source /\ Found(source, m).mode = m
        /\ source # "none" /\ source # "container"
    BY EntryFields
  <2>4. ruled[n] # NoMode => n \in RuleNames /\ Bindable(n, ruled[n])
    BY <1>0 DEF NameFits
  <2> QED BY <1>0, <2>1, <2>2, <2>3, <2>4, OneName
<1>2. CASE DeregisterName(n)
  <2> DEFINE entry == IF ruled[n] = NoMode THEN NoEntryFor ELSE Found("static", ruled[n])
  <2>1. table' = [table EXCEPT ![n] = entry] /\ table[n].source # "none"
    BY <1>2 DEF DeregisterName
  <2>2. ruled[n] # NoMode => n \in RuleNames /\ Bindable(n, ruled[n]) /\ entry = Found("static", ruled[n])
                             /\ ruled[n] \in {"http", "tcp"}
    BY <1>0 DEF NameFits
  <2>3. host_is_routable(n, tlds)
    BY <1>0, <2>1 DEF NameFits
  <2>4. /\ entry \in NameEntry /\ entry.source # "container"
        /\ entry.source # "none" => Bindable(n, entry.mode)
        /\ ruled[n] # NoMode => entry.source # "none"
    BY <2>2, EntryFields
  <2> HIDE DEF entry
  <2> QED BY <1>0, <2>1, <2>2, <2>3, <2>4, OneName
<1> QED BY <1>1, <1>2 DEF RegisterOwned

\* A labelled container starts.
LEMMA LabelStartsFits ==
  ASSUME ~MayStarTcp, NamesInv, NEW n \in Typed, NEW m \in {"http", "tcp"}, NEW p \in BOOLEAN, LabelStarts(n, m, p)
  PROVE  NamesInv'
<1> DEFINE label == [name |-> n, mode |-> m, port |-> p]
<1>0. /\ n \in DOMAIN table /\ table[n] \in NameEntry /\ NameFits(n) /\ UNCHANGED <<tlds, ruled>>
      /\ ruled[n] \in {NoMode, "http", "tcp"} /\ ruled' = [ruled EXCEPT ![n] = ruled[n]]
  BY DEF NamesInv, NameTypes, LabelStarts
<1>1. /\ labelled' = labelled \cup {label} /\ n \in LabelNames /\ \A l \in labelled : l.name # n
      /\ ~(is_wildcard_host(n) /\ m = "tcp")
  BY DEF LabelStarts
<1>2. label.name = n /\ label.mode = m
  OBVIOUS
<1> HIDE DEF label
<1>3. LabelsFit'
  BY <1>1, <1>2 DEF NamesInv, LabelsFit
<1>4. CASE table' = [table EXCEPT ![n] = Found("container", m)] /\ validate_host(n) /\ MayRoute(n, m, tlds)
  <2>1. Bindable(n, m) /\ host_is_routable(n, tlds)
    BY <1>1, <1>4, RoutedIsBindable
  <2>2. Found("container", m) \in NameEntry /\ Found("container", m).source = "container" /\ Found("container", m).mode = m
    BY EntryFields
  <2>3. ruled[n] # NoMode => n \in RuleNames /\ Bindable(n, ruled[n])
    BY <1>0 DEF NameFits
  <2> QED BY <1>0, <1>1, <1>3, <1>4, <2>1, <2>2, <2>3, OneName
<1>5. CASE UNCHANGED table
  BY <1>0, <1>3, <1>5 DEF NamesInv, NameTypes, NameFits
<1> QED BY <1>4, <1>5 DEF LabelStarts

\* One stops.
LEMMA LabelStopsFits ==
  ASSUME RulesUnlabelled, NamesInv, NEW l \in labelled, LabelStops(l)
  PROVE  NamesInv'
<1> DEFINE n == l.name
           entry == IF table[n].source = "container" THEN NoEntryFor ELSE table[n]
<1>0. n \in Typed /\ n \in LabelNames
  BY DEF NamesInv, LabelsFit
<1>1. /\ table[n] \in NameEntry /\ NameFits(n) /\ UNCHANGED <<tlds, ruled>>
      /\ ruled[n] \in {NoMode, "http", "tcp"} /\ ruled' = [ruled EXCEPT ![n] = ruled[n]]
      /\ table' = [table EXCEPT ![n] = entry] /\ LabelsFit'
  BY <1>0 DEF NamesInv, NameTypes, LabelsFit, LabelStops
<1>2. ruled[n] = NoMode
  BY <1>0, <1>1 DEF NameFits, RulesUnlabelled
<1>3. /\ entry \in NameEntry /\ (entry.source = "container" => n \in LabelNames)
      /\ entry.source # "none" => Bindable(n, entry.mode) /\ host_is_routable(n, tlds)
  BY <1>1, EntryFields DEF NameFits
<1> HIDE DEF entry, n
<1> QED BY <1>0, <1>1, <1>2, <1>3, OneName

\* A TLD comes, with the containers and rules it covers.
LEMMA AddTldFits ==
  ASSUME NamesInv, NEW t \in TldsTyped, NEW tls, AddTld(t, tls)
  PROVE  NamesInv'
<1>1. /\ tlds' = tlds \cup {t} /\ table' = Seeded(tlds') /\ UNCHANGED <<ruled, labelled>> /\ validate_tld(t)
  BY DEF AddTld
<1>2. \A n : host_is_routable(n, tlds) => host_is_routable(n, tlds')
  BY <1>1 DEF host_is_routable, host_has_managed_tld
<1>3. ASSUME NEW n \in Typed PROVE table'[n] \in NameEntry /\ NameFits(n)'
  <2>0. table[n] \in NameEntry /\ NameFits(n) /\ ruled[n] \in {NoMode, "http", "tcp"}
    BY DEF NamesInv, NameTypes
  <2>1. CASE \E l \in labelled : l.name = n /\ validate_host(n) /\ MayRoute(n, l.mode, tlds') /\ (l.mode = "tcp" => l.port)
    <3>1. PICK l \in labelled : l.name = n /\ validate_host(n) /\ MayRoute(n, l.mode, tlds')
      BY <2>1
    <3>2. (CHOOSE k \in labelled : k.name = n) = l
      BY <3>1 DEF NamesInv, LabelsFit
    <3>3. table'[n] = Found("container", l.mode)
      BY <1>1, <2>1, <3>2 DEF Seeded
    <3>4. l.mode \in {"http", "tcp"} /\ n \in LabelNames /\ ~(is_wildcard_host(n) /\ l.mode = "tcp")
      BY <3>1 DEF NamesInv, LabelsFit
    <3>5. Bindable(n, l.mode) /\ host_is_routable(n, tlds')
      BY <3>1, <3>4, RoutedIsBindable
    <3>6. table'[n] \in NameEntry /\ table'[n].source = "container" /\ table'[n].mode = l.mode
      BY <3>3, <3>4, EntryFields
    <3> QED BY <1>1, <2>0, <3>4, <3>5, <3>6 DEF NameFits, Bindable
  <2>2. CASE ~(\E l \in labelled : l.name = n /\ validate_host(n) /\ MayRoute(n, l.mode, tlds') /\ (l.mode = "tcp" => l.port))
             /\ ruled[n] # NoMode /\ MayRoute(n, ruled[n], tlds')
    <3>1. table'[n] = Found("static", ruled[n])
      BY <1>1, <2>2 DEF Seeded
    <3>2. table'[n] \in NameEntry /\ table'[n].source = "static" /\ table'[n].mode = ruled[n]
      BY <2>0, <2>2, <3>1, EntryFields DEF NoMode
    <3> QED BY <1>1, <2>0, <2>2, <3>2 DEF NameFits, Bindable, MayRoute
  <2>3. CASE ~(\E l \in labelled : l.name = n /\ validate_host(n) /\ MayRoute(n, l.mode, tlds') /\ (l.mode = "tcp" => l.port))
             /\ ~(ruled[n] # NoMode /\ MayRoute(n, ruled[n], tlds'))
    <3>1. table'[n] = table[n]
      BY <1>1, <2>3 DEF Seeded
    <3>2. ruled[n] # NoMode => ~host_is_routable(n, tlds')
      BY <2>0, <2>3 DEF NameFits, Bindable, MayRoute
    <3> QED BY <1>1, <1>2, <2>0, <3>1, <3>2 DEF NameFits, Bindable
  <2> QED BY <2>1, <2>2, <2>3
<1>4. NameTypes'
  <2>1. table' = [n \in Typed |-> table'[n]]
    BY <1>1 DEF Seeded
  <2> QED BY <1>1, <1>3, <2>1 DEF NamesInv, NameTypes
<1> QED BY <1>1, <1>3, <1>4 DEF NamesInv, LabelsFit

\* A TLD goes, with what none of the others covers.
LEMMA RemoveTldFits ==
  ASSUME NamesInv, NEW t \in TldsTyped, RemoveTld(t)
  PROVE  NamesInv'
<1>1. tlds' = tlds \ {t} /\ table' = Orphaned(t, tlds') /\ UNCHANGED <<ruled, labelled>>
  BY DEF RemoveTld
<1>2. \A n : host_is_routable(n, tlds') => host_is_routable(n, tlds)
  BY <1>1 DEF host_is_routable, host_has_managed_tld
<1>3. ASSUME NEW n \in Typed PROVE table'[n] \in NameEntry /\ NameFits(n)'
  <2>1. table'[n] = IF host_is_routable(n, tlds') THEN table[n] ELSE NoEntryFor
    BY <1>1 DEF Orphaned
  <2>2. table[n] \in NameEntry /\ NameFits(n)
    BY DEF NamesInv, NameTypes
  <2> QED BY <1>1, <1>2, <2>1, <2>2, EntryFields DEF NameFits, Bindable
<1>4. NameTypes'
  <2>1. table' = [n \in Typed |-> table'[n]]
    BY <1>1 DEF Orphaned
  <2> QED BY <1>1, <1>3, <2>1 DEF NamesInv, NameTypes
<1> QED BY <1>1, <1>3, <1>4 DEF NamesInv, LabelsFit

\* A TLD is a proper suffix of a pattern it covers, for `*` is no label of it;
\* so it covers whatever the pattern matches.
LEMMA SuffixLabels ==
  ASSUME NEW S, NEW t \in Seq(S), NEW n \in Seq(STRING)
  PROVE  Under(n, t) <=> Len(t) <= Len(n) /\ \A i \in 1..Len(t) : t[i] = n[Len(n) - Len(t) + i]
<1> DEFINE T == Len(t)
           N == Len(n)
           rt == Reverse(t)
           rn == Reverse(n)
<1>1. T \in Nat /\ N \in Nat /\ rt \in Seq(S) /\ rn \in Seq(STRING) /\ Len(rt) = T /\ Len(rn) = N
      /\ (\A i \in 1..T : rt[i] = t[T - i + 1]) /\ \A i \in 1..N : rn[i] = n[N - i + 1]
  BY DEF Reverse
<1>2. Under(n, t) <=> T <= N /\ SubSeq(rt, 1, T) = SubSeq(rn, 1, T)
  BY <1>1 DEF Under, IsSuffix, IsPrefix
<1> HIDE DEF rt, rn
<1>3. ASSUME T <= N PROVE SubSeq(rt, 1, T) = SubSeq(rn, 1, T) <=> \A i \in 1..T : rt[i] = rn[i]
  BY <1>1, <1>3
<1>4. ASSUME T <= N PROVE (\A i \in 1..T : rt[i] = rn[i]) <=> \A i \in 1..T : t[i] = n[N - T + i]
  <2>1. \A i \in 1..T : T - i + 1 \in 1..T /\ T - (T - i + 1) + 1 = i /\ N - (T - i + 1) + 1 = N - T + i /\ i \in 1..N
    BY <1>1, <1>4
  <2>2. ASSUME \A i \in 1..T : rt[i] = rn[i], NEW i \in 1..T PROVE t[i] = n[N - T + i]
    <3>1. rt[T - i + 1] = rn[T - i + 1] /\ rt[T - i + 1] = t[i]
      BY <1>1, <2>1, <2>2
    <3>2. T - i + 1 \in 1..N
      BY <2>1, <1>1, <1>4
    <3> QED BY <1>1, <2>1, <3>1, <3>2
  <2>3. ASSUME \A i \in 1..T : t[i] = n[N - T + i], NEW i \in 1..T PROVE rt[i] = rn[i]
    <3>1. t[T - i + 1] = n[N - T + (T - i + 1)] /\ N - T + (T - i + 1) = N - i + 1
      BY <1>1, <2>1, <2>3
    <3> QED BY <1>1, <2>1, <3>1
  <2> QED BY <2>2, <2>3
<1> QED BY <1>2, <1>3, <1>4

LEMMA PatternCovers ==
  ASSUME NEW p \in Seq(STRING), NEW q \in Seq(STRING), wildcard_matches(p, q),
         NEW managed, \A t \in managed : t \in Seq(STRING) /\ validate_tld(t), host_is_routable(p, managed)
  PROVE  host_is_routable(q, managed)
<1>1. p[1] = Star /\ Len(p) >= 2 /\ Len(q) = Len(p) /\ Len(p) \in Nat /\ Tail(p) = Tail(q)
  BY DEF wildcard_matches, is_wildcard_host
<1>2. \A i \in 2..Len(p) : p[i] = q[i]
  <2> SUFFICES ASSUME NEW i \in 2..Len(p) PROVE p[i] = q[i]
    OBVIOUS
  <2>1. p # <<>> /\ q # <<>> /\ i - 1 \in 1..(Len(p) - 1) /\ i - 1 + 1 = i
    BY <1>1
  <2>2. Tail(p)[i - 1] = p[i] /\ Tail(q)[i - 1] = q[i]
    BY <1>1, <2>1
  <2> QED BY <1>1, <2>2
<1>3. ASSUME NEW S, NEW t \in Seq(S), Under(p, t), Len(t) < Len(p) PROVE Under(q, t)
  <2>1. Len(t) \in Nat /\ \A i \in 1..Len(t) : t[i] = p[Len(p) - Len(t) + i] /\ Len(p) - Len(t) + i \in 2..Len(p)
    BY <1>1, <1>3, SuffixLabels
  <2> QED BY <1>1, <1>2, <1>3, <2>1, SuffixLabels
<1>4. CASE host_is_localhost(p)
  <2>1. <<"localhost">> \in Seq({"localhost"}) /\ Len(<<"localhost">>) < Len(p)
    <3>1. <<"localhost">> \in Seq({"localhost"}) /\ Len(<<"localhost">>) = 1
      OBVIOUS
    <3> QED BY <1>1, <3>1
  <2>2. Under(p, <<"localhost">>)
    BY <1>4 DEF host_is_localhost
  <2>3. Under(q, <<"localhost">>)
    BY <1>3, <2>1, <2>2
  <2> QED BY <2>3 DEF host_is_localhost, host_is_routable
<1>5. ASSUME NEW t \in managed, Under(p, t) PROVE Under(q, t)
  <2>1. Len(t) <= Len(p) /\ Len(t) \in Nat /\ \A i \in 1..Len(t) : t[i] = p[Len(p) - Len(t) + i]
    BY <1>1, <1>5, SuffixLabels
  <2>2. Len(t) # Len(p)
    <3> SUFFICES ASSUME Len(t) = Len(p) PROVE FALSE
      OBVIOUS
    <3>1. 1 \in 1..Len(t) /\ Len(p) - Len(t) + 1 = 1
      BY <1>1
    <3>2. t[1] = Star /\ t[1] \in Clean
      BY <1>1, <2>1, <3>1 DEF validate_tld
    <3> QED BY <3>2, NamesAssumption
  <2>3. Len(t) < Len(p)
    BY <1>1, <2>1, <2>2
  <2> QED BY <1>3, <1>5, <2>3
<1> QED BY <1>4, <1>5 DEF host_is_routable, host_has_managed_tld

\* What the resolver, the registry, the listeners and the certificates make of
\* a name agrees (handlers.rs:596, static_store.rs:257, certs.rs:165), for any
\* names, TLDs, rules, services and containers, if none asks for a wildcard in
\* TCP mode and no rule has the name of a container.
THEOREM NamesAlwaysAgree ==
  ASSUME ~MayStarTcp, RulesUnlabelled
  PROVE  HostNamesInit /\ [][HostNamesNext]_nameVars => []NamesAgree
<1>1. NamesInv /\ [HostNamesNext]_nameVars => NamesInv'
  <2> SUFFICES ASSUME NamesInv, HostNamesNext \/ UNCHANGED nameVars PROVE NamesInv'
    OBVIOUS
  <2>1. CASE UNCHANGED nameVars
    BY <2>1 DEF nameVars, NamesInv, NameTypes, LabelsFit, NameFits
  <2> QED BY <2>1, RulesFit, BindingsFit, LabelStartsFits, LabelStopsFits, AddTldFits, RemoveTldFits DEF HostNamesNext
<1>2. NamesInv => NamesAgree
  <2> SUFFICES ASSUME NamesInv PROVE NamesAgree
    OBVIOUS
  <2>1. \A n \in HeldNames : n \in Typed /\ Bindable(n, table[n].mode) /\ host_is_routable(n, tlds)
    BY DEF NamesInv, NameFits, HeldNames
  <2>2. \A n \in Typed : ruled[n] # NoMode /\ host_is_routable(n, tlds) => n \in HeldNames
    BY DEF NamesInv, NameFits, HeldNames
  <2>3. ASSUME NEW q \in Asked, lookup(q) # <<>>
        PROVE  lookup(q) \in HeldNames /\ (lookup(q) = q \/ wildcard_matches(lookup(q), q))
    <3> DEFINE patterns == {p \in HeldNames : wildcard_matches(p, q)}
               key == CHOOSE p \in patterns : \A r \in patterns : Len(r) <= Len(p)
    <3>1. CASE q \in HeldNames
      BY <3>1 DEF lookup
    <3>2. CASE q \notin HeldNames
      <4>1. patterns # {} /\ lookup(q) = key
        BY <2>3, <3>2 DEF lookup
      <4>2. PICK p \in patterns : TRUE
        BY <4>1
      <4>3. \A r \in patterns : Len(r) <= Len(p)
        <5>1. \A r \in patterns : Len(r) = Len(q)
          BY DEF wildcard_matches
        <5>2. Len(q) \in Nat
          BY NamesAssumption
        <5> QED BY <5>1, <5>2
      <4>4. key \in patterns
        BY <4>3
      <4> QED BY <4>1, <4>4
    <3> QED BY <3>1, <3>2
  <2>4. ASSUME NEW q \in Asked, lookup(q) # <<>>
        PROVE  /\ host_is_routable(q, tlds)
               /\ table[lookup(q)].mode = "tcp" => lookup(q) = q
               /\ LET cert == cert_key_for_sni(q) IN cert # <<>> =>
                      cert = q \/ (Len(q) = Len(cert) /\ Tail(q) = Tail(cert) /\ Head(cert) = Star)
    <3> DEFINE key == lookup(q)
    <3>1. key \in HeldNames /\ (key = q \/ wildcard_matches(key, q)) /\ key \in Typed
          /\ Bindable(key, table[key].mode) /\ host_is_routable(key, tlds)
      BY <2>1, <2>3, <2>4
    <3>2. key \in Seq(STRING) /\ q \in Seq(STRING) /\ \A t \in tlds : t \in Seq(STRING) /\ validate_tld(t)
      BY <3>1, NamesAssumption DEF NamesInv, NameTypes
    <3>3. cert_key_for_sni(q) \in {key, <<>>}
      BY DEF cert_key_for_sni
    <3> HIDE DEF key
    <3>4. host_is_routable(q, tlds)
      BY <3>1, <3>2, PatternCovers
    <3>5. wildcard_matches(key, q) => Len(q) = Len(key) /\ Tail(q) = Tail(key) /\ Head(key) = Star /\ is_wildcard_host(key)
      BY <3>2 DEF wildcard_matches, is_wildcard_host
    <3> QED BY <3>1, <3>3, <3>4, <3>5 DEF key, Bindable
  <2> QED BY <2>1, <2>2, <2>4 DEF NamesAgree, Bindable
<1> QED BY InitNames, <1>1, <1>2, PTL


\* Induction up to a number, over a set of numbers.
LEMMA Reached ==
  ASSUME NEW k \in Nat, NEW S, 0 \in S, \A n \in 1..k : n - 1 \in S => n \in S
  PROVE  0..k \subseteq S
<1> DEFINE T == (0..k) \ S
<1> SUFFICES ASSUME T # {} PROVE FALSE
  OBVIOUS
<1>1. T \subseteq Nat /\ \A n \in T : n \in 0..k /\ n \notin S
  OBVIOUS
<1>2. \A n \in 0..k : n \notin S => n \in T
  OBVIOUS
<1> HIDE DEF T
<1>3. PICK n \in T : \A m \in T : n <= m
  BY <1>1, LeastNumber
<1>4. n \in 1..k /\ n - 1 \in 0..k
  BY <1>1, <1>3
<1>5. n - 1 \in S
  BY <1>2, <1>3, <1>4
<1> QED BY <1>1, <1>3, <1>4, <1>5

\* A function whose value at a number comes of its value at the one before
\* is there.
Unrolls(f, n, R, a, step) ==
    f \in [0..n -> R] /\ f[0] = a /\ \A i \in 1..n : f[i] = step[i][f[i - 1]]
LEMMA Unrolled ==
  ASSUME NEW k \in Nat, NEW R, NEW a \in R, NEW step \in [1..k -> [R -> R]]
  PROVE  \E f : Unrolls(f, k, R, a, step)
<1> DEFINE S == {n \in 0..k : \E f : Unrolls(f, n, R, a, step)}
<1>1. 0 \in S
  <2>1. Unrolls([i \in 0..0 |-> a], 0, R, a, step)
    BY DEF Unrolls
  <2>2. \E f : Unrolls(f, 0, R, a, step)
    BY <2>1
  <2> QED BY <2>2
<1>2. ASSUME NEW n \in 1..k, n - 1 \in S PROVE n \in S
  <2>1. PICK f : Unrolls(f, n - 1, R, a, step)
    BY <1>2
  <2> DEFINE g == [i \in 0..n |-> IF i < n THEN f[i] ELSE step[n][f[n - 1]]]
  <2>2. n \in 1..k /\ n - 1 \in 0..(n - 1) /\ f[n - 1] \in R /\ step[n][f[n - 1]] \in R
    BY <2>1 DEF Unrolls
  <2>3. \A i \in 0..n : i < n => i \in 0..(n - 1)
    OBVIOUS
  <2>4. g \in [0..n -> R]
    BY <2>1, <2>2, <2>3 DEF Unrolls
  <2>5. g[0] = a
    BY <2>1, <2>2 DEF Unrolls
  <2>6. ASSUME NEW i \in 1..n PROVE g[i] = step[i][g[i - 1]]
    <3>1. i - 1 \in 0..(n - 1) /\ g[i - 1] = f[i - 1]
      OBVIOUS
    <3>2. CASE i < n
      <4>1. i \in 1..(n - 1) /\ g[i] = f[i]
        BY <3>2
      <4> QED BY <2>1, <3>1, <4>1 DEF Unrolls
    <3>3. CASE i = n
      BY <3>1, <3>3
    <3> QED BY <3>2, <3>3
  <2> HIDE DEF g
  <2>7. Unrolls(g, n, R, a, step)
    BY <2>4, <2>5, <2>6 DEF Unrolls
  <2>8. \E e : Unrolls(e, n, R, a, step)
    BY <2>7
  <2> QED BY <2>8
<1>3. 0..k \subseteq S
  <2> HIDE DEF S
  <2> QED BY <1>1, <1>2, Reached
<1> QED BY <1>3

-----------------------------------------------------------------------------
(* The log and its panes.                                                    *)

Line == [service : LogServices, seq : Nat, size : Nat]

\* Lines whose numbers rise.
Rising(s) == \A i, j \in DOMAIN s : i < j => s[i].seq < s[j].seq

\* The fields of a line.
LEMMA LineFields ==
  ASSUME NEW s \in Seq(Line)
  PROVE  /\ Len(s) \in Nat /\ DOMAIN s = 1..Len(s)
         /\ \A n \in 1..Len(s) : s[n] \in Line /\ s[n].seq \in Nat /\ s[n].size \in Nat /\ s[n].service \in LogServices
<1>1. Len(s) \in Nat /\ DOMAIN s = 1..Len(s) /\ \A n \in 1..Len(s) : s[n] \in Line
  OBVIOUS
<1>2. \A l \in Line : l.seq \in Nat /\ l.size \in Nat /\ l.service \in LogServices
  BY DEF Line
<1> QED BY <1>1, <1>2

\* What rows cost, line by line.
LEMMA CostUnrolls ==
  ASSUME log \in Seq(Line), NEW rows \in SUBSET Nat
  PROVE  \E c \in [0..Len(log) -> Nat] :
           /\ Cost(rows) = c[Len(log)] /\ c[0] = 0
           /\ \A n \in 1..Len(log) : c[n] = c[n - 1] + (IF n \in rows THEN log[n].size ELSE 0)
<1> DEFINE L == Len(log)
           grow(n) == IF n \in rows THEN log[n].size ELSE 0
           step == [n \in 1..L |-> [x \in Nat |-> x + grow(n)]]
           Def(c) == c = [n \in 0..L |-> IF n = 0 THEN 0 ELSE c[n - 1] + grow(n)]
           cost == CHOOSE c : Def(c)
<1>1. L \in Nat /\ \A n \in 1..L : grow(n) \in Nat
  <2>1. \A n \in 1..Len(log) : log[n].size \in Nat
    BY LineFields
  <2> QED BY <2>1
<1>2. Cost(rows) = cost[L]
  BY DEF Cost
<1> HIDE DEF L, grow
<1>3. step \in [1..L -> [Nat -> Nat]]
  BY <1>1
<1>4. \A n \in 1..L, x \in Nat : step[n][x] = x + grow(n)
  OBVIOUS
<1> HIDE DEF step
<1>5. PICK f : Unrolls(f, L, Nat, 0, step)
  BY <1>1, <1>3, Unrolled
<1>6. \A n \in 1..L : n - 1 \in 0..L /\ f[n - 1] \in Nat /\ f[n] = f[n - 1] + grow(n)
  <2> SUFFICES ASSUME NEW n \in 1..L PROVE n - 1 \in 0..L /\ f[n - 1] \in Nat /\ f[n] = f[n - 1] + grow(n)
    OBVIOUS
  <2>1. n - 1 \in 0..L
    BY <1>1
  <2>2. f[n - 1] \in Nat /\ f[n] = step[n][f[n - 1]]
    BY <1>5, <2>1 DEF Unrolls
  <2> QED BY <1>4, <2>1, <2>2
<1>7. Def(f)
  BY <1>1, <1>5, <1>6 DEF Unrolls
<1>8. Def(cost)
  BY <1>7
<1>9. \A n \in 0..L : cost[n] = IF n = 0 THEN 0 ELSE cost[n - 1] + grow(n)
  BY <1>8
<1> HIDE DEF cost, Def
<1>10. \A n \in 0..L : cost[n] = f[n]
  <2> DEFINE S == {n \in 0..L : cost[n] = f[n]}
  <2>1. 0 \in S
    BY <1>1, <1>5, <1>9 DEF Unrolls
  <2>2. ASSUME NEW n \in 1..L, n - 1 \in S PROVE n \in S
    BY <1>1, <1>6, <1>9, <2>2
  <2>3. \A n \in S : cost[n] = f[n]
    OBVIOUS
  <2> HIDE DEF S
  <2>4. 0..L \subseteq S
    BY <1>1, <2>1, <2>2, Reached
  <2> QED BY <2>3, <2>4
<1>11. f \in [0..L -> Nat] /\ Cost(rows) = f[L] /\ f[0] = 0
  BY <1>1, <1>2, <1>5, <1>10 DEF Unrolls
<1> QED BY <1>6, <1>11 DEF L, grow

\* What more rows cost is not less.
LEMMA CostGrows ==
  ASSUME log \in Seq(Line), NEW rows \in SUBSET Nat, NEW more \in SUBSET Nat, rows \subseteq more
  PROVE  Cost(rows) \in Nat /\ Cost(more) \in Nat /\ Cost(rows) <= Cost(more)
<1>1. Len(log) \in Nat /\ \A n \in 1..Len(log) : log[n].size \in Nat
  BY LineFields
<1>2. PICK c \in [0..Len(log) -> Nat] :
        /\ Cost(rows) = c[Len(log)] /\ c[0] = 0
        /\ \A n \in 1..Len(log) : c[n] = c[n - 1] + (IF n \in rows THEN log[n].size ELSE 0)
  BY CostUnrolls
<1>3. PICK d \in [0..Len(log) -> Nat] :
        /\ Cost(more) = d[Len(log)] /\ d[0] = 0
        /\ \A n \in 1..Len(log) : d[n] = d[n - 1] + (IF n \in more THEN log[n].size ELSE 0)
  BY CostUnrolls
<1> DEFINE S == {n \in 0..Len(log) : c[n] <= d[n]}
<1>4. 0 \in S
  BY <1>1, <1>2, <1>3
<1>5. ASSUME NEW n \in 1..Len(log), n - 1 \in S PROVE n \in S
  <2>1. n - 1 \in 0..Len(log) /\ n \in 0..Len(log) /\ c[n - 1] <= d[n - 1] /\ (n \in rows => n \in more)
    BY <1>1, <1>5
  <2>2. {c[n - 1], d[n - 1], c[n], d[n], log[n].size} \subseteq Nat
    BY <1>1, <2>1
  <2> QED BY <1>2, <1>3, <1>5, <2>1, <2>2
<1>6. \A n \in S : c[n] <= d[n]
  OBVIOUS
<1> HIDE DEF S
<1>7. 0..Len(log) \subseteq S
  BY <1>1, <1>4, <1>5, Reached
<1>8. Len(log) \in 0..Len(log)
  BY <1>1
<1>9. c[Len(log)] \in Nat /\ d[Len(log)] \in Nat /\ c[Len(log)] <= d[Len(log)]
  BY <1>6, <1>7, <1>8
<1> QED BY <1>2, <1>3, <1>9

\* w is the numbers of these lines, in order.
Lists(w, ids) ==
    /\ w \in Seq(Nat) /\ Len(w) = Cardinality(ids)
    /\ \A i, j \in 1..Len(w) : i < j => w[i] < w[j]
    /\ \A i \in 1..Len(w) : \E k \in ids : w[i] = log[k].seq
    /\ \A k \in ids : \E i \in 1..Len(w) : w[i] = log[k].seq

\* A newer line goes to the end of the list.
LEMMA ListsMore ==
  ASSUME log \in Seq(Line), Rising(log), NEW n \in 1..Len(log), NEW ids \in SUBSET (1..(n - 1)),
         NEW w \in Seq(Nat), Lists(w, ids)
  PROVE  Lists(Append(w, log[n].seq), ids \cup {n})
<1> DEFINE more == Append(w, log[n].seq)
<1>1. Len(log) \in Nat /\ DOMAIN log = 1..Len(log) /\ \A k \in 1..Len(log) : log[k].seq \in Nat
  BY LineFields
<1>2. IsFiniteSet(ids) /\ n \notin ids
  <2>1. n \in Nat /\ 1 \in Int /\ n - 1 \in Int /\ ids \subseteq 1..(n - 1)
    BY <1>1
  <2>2. IsFiniteSet(1..(n - 1))
    BY <2>1, FS_Interval
  <2>3. IsFiniteSet(ids)
    BY <2>1, <2>2, FS_Subset
  <2> QED BY <1>1, <2>1, <2>3
<1>3. Cardinality(ids \cup {n}) = Cardinality(ids) + 1
  BY <1>2, FS_AddElement
<1>4. /\ more \in Seq(Nat) /\ Len(more) = Len(w) + 1 /\ more[Len(w) + 1] = log[n].seq /\ Len(w) \in Nat
      /\ \A i \in 1..Len(w) : more[i] = w[i]
  BY <1>1
<1> HIDE DEF more
<1>5. \A k \in ids : log[k].seq < log[n].seq
  <2> SUFFICES ASSUME NEW k \in ids PROVE log[k].seq < log[n].seq
    OBVIOUS
  <2>1. k \in DOMAIN log /\ n \in DOMAIN log /\ k < n
    BY <1>1
  <2> QED BY <2>1 DEF Rising
<1>6. \A i \in 1..Len(w) : w[i] < log[n].seq
  BY <1>5 DEF Lists
<1>7. \A i \in 1..Len(more) : i \in 1..Len(w) \/ i = Len(w) + 1
  BY <1>4
<1>8. Len(more) = Cardinality(ids \cup {n})
  BY <1>3, <1>4 DEF Lists
<1>9. ASSUME NEW i \in 1..Len(more), NEW j \in 1..Len(more), i < j PROVE more[i] < more[j]
  <2>1. i \in 1..Len(w)
    BY <1>4, <1>9
  <2>2. CASE j \in 1..Len(w)
    BY <1>4, <1>9, <2>1, <2>2 DEF Lists
  <2>3. CASE j = Len(w) + 1
    BY <1>4, <1>6, <2>1, <2>3
  <2> QED BY <1>7, <2>2, <2>3
<1>10. ASSUME NEW i \in 1..Len(more) PROVE \E k \in ids \cup {n} : more[i] = log[k].seq
  <2>1. CASE i \in 1..Len(w)
    <3>1. PICK k \in ids : w[i] = log[k].seq
      BY <2>1 DEF Lists
    <3> QED BY <1>4, <2>1, <3>1
  <2>2. CASE i = Len(w) + 1
    <3>1. more[i] = log[n].seq /\ n \in ids \cup {n}
      BY <1>4, <2>2
    <3> QED BY <3>1
  <2> QED BY <1>7, <2>1, <2>2
<1>11. ASSUME NEW k \in ids \cup {n} PROVE \E i \in 1..Len(more) : more[i] = log[k].seq
  <2>1. CASE k \in ids
    <3>1. PICK i \in 1..Len(w) : w[i] = log[k].seq
      BY <2>1 DEF Lists
    <3> QED BY <1>4, <3>1
  <2>2. CASE k = n
    <3>1. Len(w) + 1 \in 1..Len(more) /\ more[Len(w) + 1] = log[k].seq
      BY <1>4, <2>2
    <3> QED BY <3>1
  <2> QED BY <2>1, <2>2
<1> QED BY <1>4, <1>8, <1>9, <1>10, <1>11 DEF Lists, more

\* InOrder is that list.
LEMMA InOrderLists ==
  ASSUME log \in Seq(Line), Rising(log), NEW ids \in SUBSET (1..Len(log))
  PROVE  Lists(InOrder(ids), ids)
<1> DEFINE L == Len(log)
           next(n, x) == IF n \in ids THEN Append(x, log[n].seq) ELSE x
           step == [n \in 1..L |-> [x \in Seq(Nat) |-> next(n, x)]]
           Def(c) == c = [n \in 0..L |-> IF n = 0 THEN <<>> ELSE next(n, c[n - 1])]
           list == CHOOSE c : Def(c)
<1>1. L \in Nat /\ \A n \in 1..L, x \in Seq(Nat) : next(n, x) \in Seq(Nat)
  <2>1. \A n \in 1..Len(log) : log[n].seq \in Nat
    BY LineFields
  <2> QED BY <2>1
<1>2. InOrder(ids) = list[L]
  BY DEF InOrder
<1>0. \A k \in ids : k \in Nat /\ k >= 1 /\ k <= L
  BY <1>1
<1> HIDE DEF L
<1>3. step \in [1..L -> [Seq(Nat) -> Seq(Nat)]]
  <2> HIDE DEF next
  <2> QED BY <1>1
<1>4. \A n \in 1..L, x \in Seq(Nat) : step[n][x] = next(n, x)
  OBVIOUS
<1> HIDE DEF step, next
<1>5. PICK f : Unrolls(f, L, Seq(Nat), <<>>, step)
  <2>1. <<>> \in Seq(Nat)
    OBVIOUS
  <2> QED BY <1>1, <1>3, <2>1, Unrolled
<1>6. \A n \in 1..L : n - 1 \in 0..L /\ f[n - 1] \in Seq(Nat) /\ f[n] = next(n, f[n - 1])
  <2> SUFFICES ASSUME NEW n \in 1..L PROVE n - 1 \in 0..L /\ f[n - 1] \in Seq(Nat) /\ f[n] = next(n, f[n - 1])
    OBVIOUS
  <2>1. n - 1 \in 0..L
    BY <1>1
  <2>2. f[n - 1] \in Seq(Nat) /\ f[n] = step[n][f[n - 1]]
    BY <1>5, <2>1 DEF Unrolls
  <2> QED BY <1>4, <2>1, <2>2
<1>7. Def(f)
  BY <1>1, <1>5, <1>6 DEF Unrolls
<1>8. Def(list)
  BY <1>7
<1>9. \A n \in 0..L : list[n] = IF n = 0 THEN <<>> ELSE next(n, list[n - 1])
  BY <1>8
<1> HIDE DEF list, Def
<1> DEFINE S == {n \in 0..L : list[n] \in Seq(Nat) /\ Lists(list[n], {k \in ids : k <= n})}
<1>10. 0 \in S
  <2>0. \A k \in ids : ~(k <= 0)
    BY <1>0
  <2>1. {k \in ids : k <= 0} = {} /\ list[0] = <<>> /\ 0 \in 0..L
    <3>1. 0 \in 0..L
      BY <1>1
    <3> QED BY <1>9, <2>0, <3>1
  <2>2. Lists(<<>>, {}) /\ <<>> \in Seq(Nat)
    BY FS_EmptySet DEF Lists
  <2> QED BY <2>1, <2>2
<1>11. ASSUME NEW n \in 1..L, n - 1 \in S PROVE n \in S
  <2> DEFINE below == {k \in ids : k <= n - 1}
  <2>1. list[n - 1] \in Seq(Nat) /\ Lists(list[n - 1], below) /\ list[n] = next(n, list[n - 1]) /\ n \in 0..L
    BY <1>1, <1>9, <1>11
  <2>2. list[n] \in Seq(Nat)
    BY <1>1, <2>1
  <2>0. \A k \in ids : k \in Nat /\ k >= 1 /\ (k <= n <=> k <= n - 1 \/ k = n)
    BY <1>0, <1>1
  <2>3. below \in SUBSET (1..(n - 1)) /\ n \in 1..Len(log)
    <3>1. \A k \in ids : k <= n - 1 => k \in 1..(n - 1)
      BY <1>1, <2>0
    <3>2. \A k \in below : k \in 1..(n - 1)
      BY <3>1
    <3> HIDE DEF below
    <3> QED BY <3>2 DEF L
  <2>4. CASE n \in ids
    <3>1. {k \in ids : k <= n} = below \cup {n}
      BY <1>1, <2>0, <2>4, Zenon
    <3>2. list[n] = Append(list[n - 1], log[n].seq)
      BY <2>1, <2>4 DEF next
    <3> HIDE DEF below
    <3>3. Lists(list[n], below \cup {n})
      BY <2>1, <2>3, <3>2, ListsMore
    <3> QED BY <2>1, <2>2, <3>1, <3>3
  <2>5. CASE n \notin ids
    <3>1. {k \in ids : k <= n} = below
      BY <2>0, <2>5, Zenon
    <3>2. list[n] = list[n - 1]
      BY <2>1, <2>5 DEF next
    <3> QED BY <2>1, <2>2, <3>1, <3>2
  <2> QED BY <2>4, <2>5
<1>12. \A n \in S : Lists(list[n], {k \in ids : k <= n})
  OBVIOUS
<1> HIDE DEF S
<1>13. L \in S
  <2>1. 0..L \subseteq S
    BY <1>1, <1>10, <1>11, Reached
  <2> QED BY <1>1, <2>1
<1>14. {k \in ids : k <= L} = ids
  BY <1>0
<1> QED BY <1>2, <1>12, <1>13, <1>14

\* A chunk is the first of the rows.
LEMMA ChunkIsFirst ==
  ASSUME log \in Seq(Line), NEW rows \in SUBSET Nat
  PROVE  Chunk(rows) \subseteq rows /\ \A i \in Chunk(rows), j \in rows : j < i => j \in Chunk(rows)
<1>1. Chunk(rows) \subseteq rows
  BY DEF Chunk
<1>2. ASSUME NEW i \in Chunk(rows), NEW j \in rows, j < i PROVE j \in Chunk(rows)
  <2>1. Before(rows, j) \in SUBSET Nat /\ Before(rows, i) \in SUBSET Nat
    BY DEF Before
  <2>2. Before(rows, j) \subseteq Before(rows, i)
    <3>0. i \in Nat /\ j \in Nat /\ \A r \in rows : r \in Nat
      BY <1>1, <1>2
    <3>1. \A r \in rows : r < j => r < i
      BY <1>2, <3>0
    <3> QED BY <3>1 DEF Before
  <2>3. /\ Cost(Before(rows, j)) \in Nat /\ Cost(Before(rows, i)) \in Nat
        /\ Cost(Before(rows, j)) <= Cost(Before(rows, i))
    BY <2>1, <2>2, CostGrows
  <2>4. Cost(Before(rows, i)) < ByteBudget /\ ByteBudget \in Nat
    BY LogStoreAssumption DEF Chunk
  <2>5. Cost(Before(rows, j)) < ByteBudget
    BY <2>3, <2>4
  <2> QED BY <2>5 DEF Chunk
<1> QED BY <1>1, <1>2

\* The rows of a service are finitely many.
LEMMA FewRows ==
  ASSUME log \in Seq(Line), kept \subseteq 1..Len(log), NEW s \in LogServices
  PROVE  Rows(s) \subseteq 1..Len(log) /\ Rows(s) \subseteq Nat /\ IsFiniteSet(Rows(s))
<1>1. Rows(s) \subseteq 1..Len(log)
  BY DEF Rows
<1>0. Len(log) \in Nat
  OBVIOUS
<1>2. IsFiniteSet(1..Len(log)) /\ 1 \in Int
  BY <1>0, FS_Interval
<1>3. Rows(s) \subseteq Nat
  BY <1>0, <1>1
<1> QED BY <1>1, <1>2, <1>3, FS_Subset

\* What a query answers has no gap after the cursor.
LEMMA QueryHasNoGap ==
  ASSUME log \in Seq(Line), kept \subseteq 1..Len(log), NEW s \in LogServices, NEW cursor \in Nat, NEW limit \in Nat
  PROVE  LET ids == QueryAfter(s, cursor, limit)
         IN  /\ ids \subseteq Rows(s) /\ \A i \in ids : i > cursor
             /\ \A i \in ids, j \in Rows(s) : cursor < j /\ j < i => j \in ids
<1> DEFINE rows == Newer(Rows(s), cursor)
           some == {i \in rows : Cardinality(Before(rows, i)) < limit}
<1>1. rows \subseteq Rows(s) /\ rows \subseteq Nat /\ IsFiniteSet(rows) /\ \A j \in Rows(s) : cursor < j <=> j \in rows
  <2>1. rows \subseteq Rows(s) /\ \A j \in Rows(s) : cursor < j <=> j \in rows
    BY FewRows DEF Newer
  <2> QED BY <2>1, FewRows, FS_Subset
<1> HIDE DEF rows
<1>2. some \in SUBSET Nat /\ some \subseteq rows
  BY <1>1
<1>3. ASSUME NEW i \in some, NEW j \in rows, j < i PROVE j \in some
  <2>1. i \in Nat /\ j \in Nat /\ \A r \in rows : r \in Nat /\ (r < j => r < i)
    BY <1>1, <1>2, <1>3
  <2>2. Before(rows, j) \subseteq Before(rows, i) /\ Before(rows, i) \subseteq rows
    BY <2>1 DEF Before
  <2>3. IsFiniteSet(Before(rows, i))
    BY <1>1, <2>2, FS_Subset
  <2>4. Cardinality(Before(rows, j)) <= Cardinality(Before(rows, i)) /\ IsFiniteSet(Before(rows, j))
    BY <2>2, <2>3, FS_Subset
  <2>5. Cardinality(Before(rows, j)) \in Nat /\ Cardinality(Before(rows, i)) \in Nat
    BY <2>3, <2>4, FS_CardinalityType
  <2>6. Cardinality(Before(rows, i)) < limit
    BY <1>3
  <2>7. Cardinality(Before(rows, j)) < limit
    BY <2>4, <2>5, <2>6
  <2> QED BY <2>7
<1>4. QueryAfter(s, cursor, limit) = Chunk(some)
  BY DEF QueryAfter, rows
<1> HIDE DEF some
<1>5. Chunk(some) \subseteq some /\ \A i \in Chunk(some), j \in some : j < i => j \in Chunk(some)
  BY <1>2, ChunkIsFirst
<1> QED BY <1>1, <1>2, <1>3, <1>4, <1>5

\* Nor has the tail, between its first line and its last one.
LEMMA TailHasNoGap ==
  ASSUME log \in Seq(Line), kept \subseteq 1..Len(log), NEW s \in LogServices, NEW limit \in Nat
  PROVE  LET ids == TailOf(s, limit)
         IN  /\ ids \subseteq Rows(s)
             /\ \A i \in ids, k \in ids, j \in Rows(s) : k <= j /\ j < i => j \in ids
<1> DEFINE rows == Rows(s)
           some == {i \in rows : Cardinality(Newer(rows, i)) < limit}
<1>1. rows \subseteq Nat /\ IsFiniteSet(rows)
  BY FewRows
<1> HIDE DEF rows
<1>2. some \in SUBSET Nat /\ some \subseteq rows
  BY <1>1
<1>3. ASSUME NEW k \in some, NEW j \in rows, k <= j PROVE j \in some
  <2>1. k \in Nat /\ j \in Nat /\ \A r \in rows : r \in Nat /\ (r > j => r > k)
    BY <1>1, <1>2, <1>3
  <2>2. Newer(rows, j) \subseteq Newer(rows, k) /\ Newer(rows, k) \subseteq rows
    BY <2>1 DEF Newer
  <2>3. IsFiniteSet(Newer(rows, k))
    BY <1>1, <2>2, FS_Subset
  <2>4. Cardinality(Newer(rows, j)) <= Cardinality(Newer(rows, k)) /\ IsFiniteSet(Newer(rows, j))
    BY <2>2, <2>3, FS_Subset
  <2>5. Cardinality(Newer(rows, j)) \in Nat /\ Cardinality(Newer(rows, k)) \in Nat
    BY <2>3, <2>4, FS_CardinalityType
  <2>6. Cardinality(Newer(rows, k)) < limit
    BY <1>3
  <2>7. Cardinality(Newer(rows, j)) < limit
    BY <2>4, <2>5, <2>6
  <2> QED BY <2>7
<1>4. TailOf(s, limit) = Chunk(some)
  BY DEF TailOf, rows
<1> HIDE DEF some
<1>5. Chunk(some) \subseteq some /\ \A i \in Chunk(some), j \in some : j < i => j \in Chunk(some)
  BY <1>2, ChunkIsFirst
<1> QED BY <1>2, <1>3, <1>4, <1>5 DEF rows

\* The last id of an answer.
LEMMA LastIdIsLast ==
  ASSUME log \in Seq(Line), NEW ids \in SUBSET (1..Len(log)), ids # {}, NEW cursor
  PROVE  LastId(ids, cursor) \in ids /\ \A j \in ids : j <= LastId(ids, cursor)
<1> DEFINE T == {m \in Nat : \A i \in ids : i <= m}
<1>1. Len(log) \in Nat /\ \A i \in ids : i \in Nat /\ i >= 1 /\ i <= Len(log)
  OBVIOUS
<1>2. Len(log) \in T
  BY <1>1
<1>3. T \subseteq Nat /\ \A m \in T : m \in Nat /\ \A i \in ids : i <= m
  OBVIOUS
<1>4. \A m \in Nat : (\A i \in ids : i <= m) => m \in T
  OBVIOUS
<1> HIDE DEF T
<1>5. PICK m \in T : \A n \in T : m <= n
  BY <1>2, <1>3, LeastNumber
<1>6. m \in ids
  <2> SUFFICES ASSUME m \notin ids PROVE FALSE
    OBVIOUS
  <2>0. PICK k \in ids : TRUE
    OBVIOUS
  <2>1. m >= 1 /\ m \in Nat
    BY <1>1, <1>3, <1>5, <2>0
  <2>2. \A i \in ids : i <= m - 1
    BY <1>1, <1>3, <1>5, <2>1
  <2>3. m - 1 \in T
    BY <1>4, <2>1, <2>2
  <2> QED BY <1>5, <2>1, <2>3
<1>7. \A j \in ids : j <= m
  BY <1>3, <1>5
<1> QED BY <1>6, <1>7 DEF LastId

Increasing(s) == \A i, j \in 1..Len(s) : i < j => s[i] < s[j]
\* A pane: the last line it shows is not after its cursor.
PaneFits(p) ==
    /\ p \in View /\ p.cursor \in 0..Len(log)
    /\ \A i \in 1..Len(p.lines) : p.lines[i] >= 1 /\ p.cursor >= 1 /\ p.lines[i] <= log[p.cursor].seq
    /\ Increasing(p.lines)
    /\ ~p.primed => p.lines = <<>> /\ p.cursor = 0
    /\ p.cursor > 0 => p.lines # <<>>
    /\ p.scroll = 0 \/ p.scroll < Len(p.lines)
    /\ p.follow => p.scroll = 0
    /\ p.lines = <<>> => p.anchor = 0
    /\ NothingSkipped(p) /\ StaysAnchored(p)

\* The end of an increasing sequence.
LEMMA EndOfLines ==
  ASSUME NEW s \in Seq(Nat), Increasing(s), NEW drop \in 0..(Len(s) - 1)
  PROVE  LET e == SubSeq(s, drop + 1, Len(s))
         IN  /\ e \in Seq(Nat) /\ Len(e) = Len(s) - drop /\ Increasing(e) /\ e[1] = s[drop + 1] /\ e # <<>>
             /\ \A i \in 1..Len(e) : e[i] = s[i + drop] /\ i + drop \in 1..Len(s)
             /\ \A i \in 1..Len(s) : s[i] >= e[1] => i - drop \in 1..Len(e) /\ e[i - drop] = s[i]
<1> DEFINE e == SubSeq(s, drop + 1, Len(s))
<1>1. Len(s) \in Nat /\ drop \in Nat /\ drop + 1 \in 1..Len(s) /\ \A i \in 1..Len(s) : s[i] \in Nat
  OBVIOUS
<1>2. e \in Seq(Nat) /\ Len(e) = Len(s) - drop /\ \A i \in 1..(Len(s) - drop) : e[i] = s[i + drop]
  BY <1>1
<1> HIDE DEF e
<1>3. e[1] = s[drop + 1] /\ e # <<>>
  BY <1>1, <1>2
<1>4. \A i \in 1..Len(e) : e[i] = s[i + drop] /\ i + drop \in 1..Len(s)
  BY <1>1, <1>2
<1>5. Increasing(e)
  <2> SUFFICES ASSUME NEW i \in 1..Len(e), NEW j \in 1..Len(e), i < j PROVE e[i] < e[j]
    BY DEF Increasing
  <2>1. i + drop < j + drop
    BY <1>1
  <2> QED BY <1>4, <2>1 DEF Increasing
<1>6. ASSUME NEW i \in 1..Len(s), s[i] >= e[1] PROVE i - drop \in 1..Len(e) /\ e[i - drop] = s[i]
  <2>1. i >= drop + 1
    <3> SUFFICES ASSUME i < drop + 1 PROVE FALSE
      BY <1>1
    <3>1. s[i] < s[drop + 1] /\ s[i] \in Nat /\ s[drop + 1] \in Nat
      BY <1>1 DEF Increasing
    <3> QED BY <1>3, <1>6, <3>1
  <2>2. i - drop \in 1..Len(e) /\ i - drop + drop = i
    BY <1>1, <1>2, <2>1
  <2> QED BY <1>4, <2>2
<1> QED BY <1>2, <1>3, <1>4, <1>5, <1>6 DEF e

\* New lines behind those of a pane.
LEMMA LinesGrow ==
  ASSUME NEW a \in Seq(Nat), NEW b \in Seq(Nat), Increasing(a), Increasing(b),
         \A i \in 1..Len(a), j \in 1..Len(b) : a[i] < b[j]
  PROVE  /\ a \o b \in Seq(Nat) /\ Len(a \o b) = Len(a) + Len(b) /\ Increasing(a \o b)
         /\ \A i \in 1..Len(a) : (a \o b)[i] = a[i] /\ i \in 1..Len(a \o b)
         /\ \A i \in 1..Len(b) : (a \o b)[Len(a) + i] = b[i] /\ Len(a) + i \in 1..Len(a \o b)
         /\ \A i \in 1..Len(a \o b) : i \in 1..Len(a) \/ i - Len(a) \in 1..Len(b)
<1> DEFINE c == a \o b
<1>1. Len(a) \in Nat /\ Len(b) \in Nat /\ c \in Seq(Nat) /\ Len(c) = Len(a) + Len(b)
  OBVIOUS
<1>2. /\ \A i \in 1..Len(a) : c[i] = a[i] /\ i \in 1..Len(c)
      /\ \A i \in 1..Len(b) : c[Len(a) + i] = b[i] /\ Len(a) + i \in 1..Len(c)
  OBVIOUS
<1> HIDE DEF c
<1>3. \A i \in 1..Len(c) : i \in 1..Len(a) \/ (i - Len(a) \in 1..Len(b) /\ c[i] = b[i - Len(a)])
  <2> SUFFICES ASSUME NEW i \in 1..Len(c), i \notin 1..Len(a) PROVE i - Len(a) \in 1..Len(b) /\ c[i] = b[i - Len(a)]
    OBVIOUS
  <2>1. i - Len(a) \in 1..Len(b) /\ Len(a) + (i - Len(a)) = i
    BY <1>1
  <2> QED BY <1>2, <2>1
<1>4. ASSUME NEW i \in 1..Len(c), NEW j \in 1..Len(c), i < j PROVE c[i] < c[j]
  <2>1. CASE j \in 1..Len(a)
    <3>1. i \in 1..Len(a)
      BY <1>1, <1>4, <2>1
    <3> QED BY <1>2, <1>4, <2>1, <3>1 DEF Increasing
  <2>2. CASE j - Len(a) \in 1..Len(b) /\ c[j] = b[j - Len(a)]
    <3>1. CASE i \in 1..Len(a)
      BY <1>2, <2>2, <3>1
    <3>2. CASE i - Len(a) \in 1..Len(b) /\ c[i] = b[i - Len(a)]
      <4>1. i - Len(a) < j - Len(a)
        BY <1>1, <1>4
      <4> QED BY <2>2, <3>2, <4>1 DEF Increasing
    <3> QED BY <1>3, <3>1, <3>2
  <2> QED BY <1>3, <2>1, <2>2
<1> QED BY <1>1, <1>2, <1>3, <1>4 DEF Increasing, c

LogFits ==
    /\ log \in Seq(Line) /\ Rising(log) /\ kept \subseteq 1..Len(log)
    /\ \A i \in 1..Len(log) : log[i].seq >= 1

\* The numbers in the table rise with the ids.
LEMMA RowsRise ==
  ASSUME LogFits, NEW i \in 1..Len(log), NEW j \in 1..Len(log)
  PROVE  /\ log[i].seq \in Nat /\ log[i].seq >= 1
         /\ (i < j => log[i].seq < log[j].seq) /\ (i <= j => log[i].seq <= log[j].seq)
         /\ (log[i].seq <= log[j].seq => i <= j)
<1>1. DOMAIN log = 1..Len(log) /\ Len(log) \in Nat /\ log[i].seq \in Nat /\ log[j].seq \in Nat
  BY LineFields DEF LogFits
<1>2. (i < j => log[i].seq < log[j].seq) /\ (j < i => log[j].seq < log[i].seq)
  BY <1>1 DEF LogFits, Rising
<1>3. i \in Nat /\ j \in Nat
  BY <1>1
<1> QED BY <1>1, <1>2, <1>3 DEF LogFits

\* The lines of an answer that has no gap go behind those of the pane.
LEMMA IngestFits ==
  ASSUME LogFits, NEW p, PaneFits(p), NEW ids \in SUBSET Rows(p.service), \A i \in ids : i > p.cursor,
         \A i \in ids, k \in ids, j \in Rows(p.service) :
            p.cursor < j /\ j < i /\ (p.lines # <<>> \/ k <= j) => j \in ids
  PROVE  PaneFits(Ingest(p, ids, LastId(ids, p.cursor)))
<1> DEFINE s == p.service
           w == InOrder(ids)
           all == p.lines \o w
           drop == Less(Len(all), Scrollback)
           last == LastId(ids, p.cursor)
           q == Ingest(p, ids, last)
<1>1. /\ s \in LogServices /\ p.cursor \in Nat /\ p.lines \in Seq(Nat) /\ p.scroll \in Nat /\ p.follow \in BOOLEAN
      /\ p.anchor \in Nat /\ p.cursor \in 0..Len(log) /\ p \in View
  BY DEF PaneFits, View
<1>2. Rows(s) \subseteq 1..Len(log) /\ log \in Seq(Line) /\ Rising(log) /\ Len(log) \in Nat
  BY <1>1, FewRows DEF LogFits
<1>3. ids \in SUBSET (1..Len(log)) /\ w \in Seq(Nat) /\ Lists(w, ids)
  BY <1>2, InOrderLists DEF Lists
<1>4. Increasing(w) /\ Increasing(p.lines)
  BY <1>3 DEF Lists, Increasing, PaneFits
<1>5. \A i \in 1..Len(p.lines), j \in 1..Len(w) : p.lines[i] < w[j]
  <2> SUFFICES ASSUME NEW i \in 1..Len(p.lines), NEW j \in 1..Len(w) PROVE p.lines[i] < w[j]
    OBVIOUS
  <2>1. PICK k \in ids : w[j] = log[k].seq
    BY <1>3 DEF Lists
  <2>2. p.lines[i] \in Nat /\ p.cursor \in 1..Len(log) /\ k \in 1..Len(log) /\ p.cursor < k /\ p.lines[i] <= log[p.cursor].seq
    <3>0. k \in 1..Len(log) /\ k > p.cursor
      BY <1>3
    <3>1. p.lines[i] \in Nat /\ k \in 1..Len(log) /\ p.cursor < k
      <4>1. \A x \in Seq(Nat) : \A n \in 1..Len(x) : x[n] \in Nat
        BY ONLY TRUE
      <4>2. p.lines[i] \in Nat
        BY ONLY <1>1, <4>1, i \in 1..Len(p.lines)
      <4>3. p.cursor < k
        BY ONLY <1>1, <3>0
      <4> QED BY ONLY <3>0, <4>2, <4>3
    <3>2. p.cursor >= 1 /\ p.lines[i] <= log[p.cursor].seq
      BY DEF PaneFits
    <3>3. p.cursor \in 1..Len(log)
      BY <1>1, <1>2, <3>2
    <3> QED BY <3>1, <3>2, <3>3
  <2>3. log[p.cursor].seq < log[k].seq /\ log[p.cursor].seq \in Nat /\ log[k].seq \in Nat
    BY <2>2, RowsRise
  <2> QED BY ONLY <2>1, <2>2, <2>3
<1>6. /\ all \in Seq(Nat) /\ Len(all) = Len(p.lines) + Len(w) /\ Increasing(all)
      /\ \A i \in 1..Len(p.lines) : all[i] = p.lines[i] /\ i \in 1..Len(all)
      /\ \A i \in 1..Len(w) : all[Len(p.lines) + i] = w[i] /\ Len(p.lines) + i \in 1..Len(all)
      /\ \A i \in 1..Len(all) : i \in 1..Len(p.lines) \/ i - Len(p.lines) \in 1..Len(w)
  BY <1>1, <1>3, <1>4, <1>5, LinesGrow
<1>7. /\ q.service = s /\ q.primed = TRUE /\ q.cursor = (IF last > p.cursor THEN last ELSE p.cursor)
      /\ q.lines = SubSeq(all, drop + 1, Len(all)) /\ q.follow = p.follow /\ q.anchor = p.anchor
      /\ q.scroll = (IF p.follow THEN p.scroll ELSE Lesser(p.scroll + Cardinality(ids), Less(Len(all) - drop, 1)))
      /\ DOMAIN q = DOMAIN p
  BY <1>1 DEF Ingest, View
<1>0. q.cursor \in Nat /\ q.lines \in Seq(Nat) /\ q.scroll \in Nat => q \in View
  <2>1. q = [p EXCEPT !.primed = TRUE, !.cursor = q.cursor, !.lines = q.lines, !.scroll = q.scroll]
    BY <1>1, <1>7 DEF Ingest, View
  <2> HIDE DEF q
  <2> QED BY <1>1, <2>1 DEF View
<1>8. Len(w) = Cardinality(ids) /\ Len(p.lines) \in Nat /\ Len(w) \in Nat /\ Len(all) \in Nat
  <2>1. Len(w) = Cardinality(ids)
    BY <1>3 DEF Lists
  <2> HIDE DEF w, all
  <2> QED BY <1>1, <1>3, <1>6, <2>1
<1> HIDE DEF w, all
<1>9. drop \in Nat /\ (Len(all) > 0 => drop \in 0..(Len(all) - 1)) /\ (Len(all) = 0 => drop = 0)
  BY <1>8, LogStoreAssumption DEF Less
<1> HIDE DEF drop
<1>10. /\ q.cursor \in 0..Len(log) /\ p.cursor <= q.cursor /\ (ids = {} => q.cursor = p.cursor)
       /\ \A k \in ids : k <= q.cursor /\ q.cursor \in ids
  <2>1. CASE ids = {}
    <3>1. last = p.cursor
      BY <2>1 DEF LastId
    <3> QED BY <1>1, <1>7, <2>1, <3>1
  <2>2. CASE ids # {}
    <3>1. last \in ids /\ \A j \in ids : j <= last
      BY <1>2, <1>3, <2>2, LastIdIsLast
    <3> HIDE DEF last, q
    <3>2. last > p.cursor /\ last \in 0..Len(log)
      BY <1>3, <3>1
    <3> QED BY <1>1, <1>7, <2>2, <3>1, <3>2
  <2> QED BY <2>1, <2>2
<1> HIDE DEF last
<1>11. /\ q.scroll \in Nat /\ (p.follow => q.scroll = p.scroll)
       /\ ~p.follow => \/ q.scroll = p.scroll + Len(w) /\ q.scroll <= Less(Len(all) - drop, 1)
                       \/ q.scroll = Less(Len(all) - drop, 1) /\ q.scroll < p.scroll + Len(w)
  <2>1. Len(all) - drop \in Nat
    BY <1>8, <1>9
  <2>2. Less(Len(all) - drop, 1) \in Nat
    BY <2>1 DEF Less
  <2> DEFINE most == Less(Len(all) - drop, 1)
  <2>3. q.scroll = IF p.follow THEN p.scroll ELSE Lesser(p.scroll + Len(w), most)
    BY <1>7, <1>8
  <2> HIDE DEF most, q
  <2>4. most \in Nat
    BY <2>2 DEF most
  <2> QED BY <1>1, <1>8, <2>3, <2>4 DEF Lesser, most
<1> HIDE DEF q
<1>12. (\A i \in 1..Len(all) : all[i] \in Nat) /\ (\A i \in 1..Len(p.lines) : p.lines[i] \in Nat)
  <2>1. \A x \in Seq(Nat) : \A i \in 1..Len(x) : x[i] \in Nat
    BY ONLY TRUE
  <2> QED BY ONLY <1>1, <1>6, <2>1
<1>13. Len(all) = Len(p.lines) + Len(w)
  BY <1>6
<1>14. ASSUME Len(all) = 0 PROVE PaneFits(q)
  <2>1. Len(p.lines) = 0 /\ p.lines = <<>> /\ Len(w) = 0
    BY <1>1, <1>6, <1>8, <1>14
  <2>2. q.lines = <<>> /\ q.lines \in Seq(Nat)
    BY <1>6, <1>7, <1>9, <1>14
  <2>3. p.cursor = 0 /\ p.scroll = 0 /\ p.anchor = 0
    BY <1>1, <2>1 DEF PaneFits
  <2>4. q.cursor = 0
    <3>1. ids = {}
      BY <1>3, <2>1 DEF Lists
    <3> QED BY <1>10, <2>3, <3>1
  <2>5. q.scroll = 0
    <3>1. Less(Len(all) - drop, 1) = 0
      BY <1>9, <1>14 DEF Less
    <3> QED BY <1>11, <2>3, <3>1
  <2>6. q \in View
    BY <1>0, <2>2, <2>4, <2>5
  <2>7. NothingSkipped(q) /\ StaysAnchored(q)
    <3>1. \A i \in Rows(s) : ~(i <= q.cursor)
      BY <1>2, <2>4
    <3>2. DOMAIN q.lines = {}
      BY <2>2
    <3> QED BY <1>7, <2>2, <3>1, <3>2 DEF NothingSkipped, StaysAnchored
  <2>8. q.cursor \in 0..Len(log) /\ Increasing(q.lines) /\ (\A i \in 1..Len(q.lines) : FALSE)
    BY <1>10, <2>2 DEF Increasing
  <2>9. \A i \in 1..Len(q.lines) : q.lines[i] >= 1 /\ q.cursor >= 1 /\ q.lines[i] <= log[q.cursor].seq
    BY <2>8
  <2>10. q.primed /\ q.anchor = 0 /\ ~(q.cursor > 0)
    BY <1>7, <2>3, <2>4
  <2> QED BY <2>5, <2>6, <2>7, <2>8, <2>9, <2>10 DEF PaneFits
<1>15. ASSUME Len(all) > 0 PROVE PaneFits(q)
  <2>0. drop \in 0..(Len(all) - 1)
    BY <1>9, <1>15
  <2>1. /\ q.lines \in Seq(Nat) /\ Len(q.lines) = Len(all) - drop /\ Increasing(q.lines) /\ q.lines[1] = all[drop + 1] /\ q.lines # <<>>
        /\ \A i \in 1..Len(q.lines) : q.lines[i] = all[i + drop] /\ i + drop \in 1..Len(all)
        /\ \A i \in 1..Len(all) : all[i] >= q.lines[1] => i - drop \in 1..Len(q.lines) /\ q.lines[i - drop] = all[i]
    <3>1. q.lines = SubSeq(all, drop + 1, Len(all))
      BY <1>7
    <3>2. all \in Seq(Nat) /\ Increasing(all)
      BY <1>6
    <3>3. LET e == SubSeq(all, drop + 1, Len(all))
          IN  /\ e \in Seq(Nat) /\ Len(e) = Len(all) - drop /\ Increasing(e) /\ e[1] = all[drop + 1] /\ e # <<>>
              /\ \A i \in 1..Len(e) : e[i] = all[i + drop] /\ i + drop \in 1..Len(all)
              /\ \A i \in 1..Len(all) : all[i] >= e[1] => i - drop \in 1..Len(e) /\ e[i - drop] = all[i]
      BY <2>0, <3>2, EndOfLines
    <3> QED BY <3>1, <3>3
  <2>2. \A i \in 1..Len(all) : all[i] >= 1 /\ q.cursor >= 1 /\ all[i] <= log[q.cursor].seq
    <3> SUFFICES ASSUME NEW i \in 1..Len(all) PROVE all[i] >= 1 /\ q.cursor >= 1 /\ all[i] <= log[q.cursor].seq
      OBVIOUS
    <3>1. CASE i \in 1..Len(p.lines)
      <4>0. all[i] = p.lines[i] /\ p.lines[i] \in Nat
        BY <1>6, <1>12, <3>1
      <4>1. all[i] >= 1 /\ p.cursor >= 1 /\ all[i] <= log[p.cursor].seq /\ all[i] \in Nat
        BY <3>1, <4>0 DEF PaneFits
      <4>2. p.cursor \in 1..Len(log) /\ q.cursor \in 1..Len(log) /\ p.cursor <= q.cursor
        BY <1>1, <1>10, <4>1
      <4>3. log[p.cursor].seq <= log[q.cursor].seq /\ log[p.cursor].seq \in Nat /\ log[q.cursor].seq \in Nat
        BY <4>2, RowsRise
      <4> QED BY <4>1, <4>2, <4>3
    <3>2. CASE i - Len(p.lines) \in 1..Len(w)
      <4>1. Len(p.lines) + (i - Len(p.lines)) = i
        BY <1>8
      <4>2. all[i] = w[i - Len(p.lines)]
        BY <1>6, <3>2, <4>1
      <4>3. PICK k \in ids : all[i] = log[k].seq
        BY <1>3, <3>2, <4>2 DEF Lists
      <4>4. k \in 1..Len(log) /\ q.cursor \in 1..Len(log) /\ k <= q.cursor
        BY <1>3, <1>10
      <4> QED BY <4>3, <4>4, RowsRise
    <3> QED BY <1>6, <3>1, <3>2
  <2>3. q.cursor >= 1
    BY <1>15, <1>8, <2>2
  <2>4. \A i \in 1..Len(q.lines) : q.lines[i] >= 1 /\ q.cursor >= 1 /\ q.lines[i] <= log[q.cursor].seq
    BY <2>1, <2>2
  <2>5. Len(q.lines) \in Nat /\ Len(q.lines) >= 1 /\ Len(all) - drop = Len(q.lines)
    BY <1>8, <2>0, <2>1
  <2>6. Less(Len(all) - drop, 1) = Len(q.lines) - 1
    BY <2>5 DEF Less
  <2>7. (p.follow => p.scroll = 0) /\ (p.scroll = 0 \/ p.scroll < Len(p.lines))
    BY DEF PaneFits
  <2>8. /\ q.scroll = 0 \/ q.scroll < Len(q.lines)
        /\ q.follow => q.scroll = 0
    <3>1. q.follow = p.follow
      BY <1>7
    <3>2. CASE p.follow
      BY <1>11, <2>7, <3>1, <3>2
    <3>3. CASE ~p.follow
      BY <1>1, <1>8, <1>11, <2>5, <2>6, <3>1, <3>3
    <3> QED BY <3>2, <3>3
  <2>9. q \in View
    BY <1>0, <1>10, <1>11, <1>2, <2>1
  <2>10. ASSUME NEW j \in Rows(s), j <= q.cursor, log[j].seq >= q.lines[1] PROVE log[j].seq \in Shown(q)
    <3>1. j \in 1..Len(log) /\ j \in Nat /\ log[j].seq \in Nat
      BY <1>2, <2>10, RowsRise
    <3>2. 1 \in 1..Len(all) /\ drop + 1 \in 1..Len(all) /\ all[1] <= q.lines[1] /\ all[1] \in Nat /\ q.lines[1] \in Nat
      <4>1. 1 \in 1..Len(all) /\ drop + 1 \in 1..Len(all) /\ (drop = 0 \/ 1 < drop + 1)
        BY <1>8, <2>0
      <4>2. all[1] \in Nat /\ all[drop + 1] \in Nat
        BY <1>6, <4>1
      <4>3. drop = 0 \/ all[1] < all[drop + 1]
        BY <1>6, <4>1 DEF Increasing
      <4>4. drop = 0 => drop + 1 = 1
        OBVIOUS
      <4> QED BY <2>1, <4>1, <4>2, <4>3, <4>4
    <3>3. all[1] <= log[j].seq
      BY <2>10, <3>1, <3>2
    <3>4. \E m \in 1..Len(all) : all[m] = log[j].seq
      <4>1. CASE j <= p.cursor
        <5>1. p.lines # <<>> /\ (log[j].seq >= p.lines[1] => log[j].seq \in Shown(p))
          <6>1. NothingSkipped(p)
            BY ONLY PaneFits(p) DEF PaneFits
          <6>2. j \in Rows(p.service)
            OBVIOUS
          <6> QED BY ONLY <4>1, <6>1, <6>2 DEF NothingSkipped
        <5>2. 1 \in 1..Len(p.lines) /\ all[1] = p.lines[1]
          <6>1. \A x \in Seq(Nat) : x # <<>> => 1 \in 1..Len(x)
            BY ONLY TRUE
          <6>2. 1 \in 1..Len(p.lines)
            BY ONLY <1>1, <5>1, <6>1
          <6> QED BY ONLY <1>6, <6>2
        <5>3. PICK m \in DOMAIN p.lines : p.lines[m] = log[j].seq
          BY <3>1, <3>2, <3>3, <5>1, <5>2 DEF Shown
        <5>4. m \in 1..Len(p.lines)
          BY <1>1
        <5> QED BY <1>6, <5>3, <5>4
      <4>2. CASE p.cursor < j
        <5>1. ids # {} /\ q.cursor \in ids
          BY <1>1, <1>10, <2>10, <3>1, <4>2
        <5>2. j \in ids
          <6>1. CASE j = q.cursor
            BY <5>1, <6>1
          <6>2. CASE p.lines # <<>> /\ j < q.cursor
            BY <2>10, <4>2, <5>1, <6>2
          <6>3. CASE p.lines = <<>> /\ j < q.cursor
            <7>1. Len(p.lines) = 0 /\ 1 \in 1..Len(w) /\ Len(p.lines) + 1 = 1
              BY <1>6, <1>8, <1>15, <6>3
            <7>2. all[1] = w[1]
              BY <1>6, <7>1
            <7>3. PICK k \in ids : w[1] = log[k].seq
              BY <1>3, <7>1 DEF Lists
            <7>4. k <= j
              BY <1>3, <3>1, <3>3, <7>2, <7>3, RowsRise
            <7> QED BY <2>10, <4>2, <5>1, <6>3, <7>4
          <6>4. j = q.cursor \/ j < q.cursor
            BY <1>10, <2>10, <3>1
          <6> QED BY <6>1, <6>2, <6>3, <6>4
        <5>3. PICK m \in 1..Len(w) : w[m] = log[j].seq
          BY <1>3, <5>2 DEF Lists
        <5> QED BY <1>6, <5>3
      <4>3. j <= p.cursor \/ p.cursor < j
        BY <1>1, <3>1
      <4> QED BY <4>1, <4>2, <4>3
    <3>5. PICK m \in 1..Len(all) : all[m] = log[j].seq
      BY <3>4
    <3>6. m - drop \in 1..Len(q.lines) /\ q.lines[m - drop] = log[j].seq
      BY <2>1, <2>10, <3>5
    <3>7. m - drop \in DOMAIN q.lines
      BY <2>1, <3>6
    <3> QED BY <3>6, <3>7 DEF Shown
  <2>11. StaysAnchored(q)
    <3> SUFFICES ASSUME ~q.follow, q.anchor >= q.lines[1]
                 PROVE  q.lines[Len(q.lines) - q.scroll] = q.anchor
      BY DEF StaysAnchored
    <3>1. ~p.follow /\ p.anchor >= q.lines[1] /\ q.lines[1] \in Nat
      BY <1>7, <2>1
    <3>2. p.lines # <<>>
      <4> SUFFICES ASSUME p.lines = <<>> PROVE FALSE
        OBVIOUS
      <4>1. p.anchor = 0
        BY DEF PaneFits
      <4>2. 1 \in 1..Len(q.lines)
        BY <2>5
      <4>3. q.lines[1] >= 1
        BY <2>4, <4>2
      <4> QED BY <3>1, <4>1, <4>3
    <3> DEFINE at == Len(p.lines) - p.scroll
    <3>3. at \in 1..Len(p.lines) /\ at \in Nat
      <4>1. Len(p.lines) >= 1
        BY <1>1, <1>8, <3>2
      <4> QED BY <1>1, <1>8, <2>7, <4>1
    <3>4. all[1] = p.lines[1] /\ all[at] = p.lines[at] /\ 1 \in 1..Len(all) /\ at \in 1..Len(all)
      <4>1. 1 \in 1..Len(p.lines)
        BY <1>8, <3>3
      <4> HIDE DEF at
      <4> QED BY <1>6, <3>3, <4>1
    <3>5. p.anchor >= p.lines[1]
      <4>1. drop + 1 \in 1..Len(all) /\ (drop = 0 \/ 1 < drop + 1)
        BY <1>8, <2>0
      <4>2. all[1] \in Nat /\ all[drop + 1] \in Nat
        BY <1>12, <3>4, <4>1
      <4>3. drop = 0 \/ all[1] < all[drop + 1]
        BY <1>6, <3>4, <4>1 DEF Increasing
      <4>4. drop = 0 => drop + 1 = 1
        OBVIOUS
      <4>5. q.lines[1] = all[drop + 1] /\ p.anchor >= all[drop + 1] /\ p.anchor \in Nat
        BY <1>1, <2>1, <3>1
      <4> QED BY <3>4, <4>2, <4>3, <4>4, <4>5
    <3>6. p.lines[at] = p.anchor
      BY <3>1, <3>2, <3>5 DEF PaneFits, StaysAnchored
    <3> HIDE DEF at
    <3>7. at - drop \in 1..Len(q.lines) /\ q.lines[at - drop] = p.anchor
      BY <2>1, <3>1, <3>4, <3>6
    <3>8. q.scroll = p.scroll + Len(w)
      <4> SUFFICES ASSUME q.scroll # p.scroll + Len(w) PROVE FALSE
        OBVIOUS
      <4>1. q.scroll = Len(q.lines) - 1 /\ q.scroll < p.scroll + Len(w)
        BY <1>11, <2>6, <3>1
      <4>2. at - drop >= 1 /\ at = Len(p.lines) - p.scroll
        BY <2>5, <3>7 DEF at
      <4>3. Len(q.lines) = Len(p.lines) + Len(w) - drop
        BY <1>13, <1>8, <1>9, <2>5
      <4>4. p.scroll \in Nat /\ Len(p.lines) \in Nat /\ Len(w) \in Nat /\ drop \in Nat /\ q.scroll \in Nat
        BY <1>1, <1>8, <1>9, <1>11
      <4>5. Len(p.lines) + Len(w) - drop - 1 < p.scroll + Len(w)
        BY <1>8, <1>9, <4>1, <4>3, <2>5
      <4>6. ~(Len(p.lines) - p.scroll - drop >= 1)
        BY <4>4, <4>5
      <4> QED BY <4>2, <4>6
    <3>9. Len(q.lines) - q.scroll = at - drop
      BY <1>1, <1>13, <1>8, <1>9, <2>5, <3>8 DEF at
    <3> QED BY <1>7, <3>7, <3>9
  <2>12. NothingSkipped(q)
    <3>1. DOMAIN q.lines = 1..Len(q.lines)
      BY <2>1
    <3> QED BY <1>7, <2>1, <2>10, <3>1 DEF NothingSkipped, Increasing
  <2>13. q.primed /\ q.lines # <<>> /\ Increasing(q.lines)
    BY <1>7, <2>1
  <2> QED BY <1>10, <2>4, <2>8, <2>9, <2>11, <2>12, <2>13 DEF PaneFits
<1>16. PaneFits(q)
  <2>1. Len(all) = 0 \/ Len(all) > 0
    BY <1>8
  <2> QED BY <1>14, <1>15, <2>1
<1> QED BY <1>16 DEF q, last

\* The lines of the queues were printed in this order.
Precedes(s, t) == \A i \in DOMAIN s, j \in DOMAIN t : s[i].seq < t[j].seq
Printed(s) == \A i \in DOMAIN s : s[i].seq >= 1 /\ s[i].seq <= printed
QueuesFit ==
    /\ printed \in Nat /\ \A s \in {log, batch, channel} : s \in Seq(Line) /\ Rising(s) /\ Printed(s)
    /\ Precedes(log, batch) /\ Precedes(batch, channel) /\ Precedes(log, channel)
LogInv ==
    /\ QueuesFit /\ kept \subseteq 1..Len(log)
    /\ views \in [Viewers -> {NoView} \cup View] /\ \A v \in Viewers : views[v] # NoView => PaneFits(views[v])

\* What the panes need of the table.
LEMMA LogIsFit == LogInv => LogFits
<1> SUFFICES ASSUME LogInv PROVE LogFits
  OBVIOUS
<1>1. log \in Seq(Line) /\ Rising(log) /\ Printed(log)
  BY DEF LogInv, QueuesFit
<1>2. \A i \in 1..Len(log) : i \in DOMAIN log
  BY <1>1, LineFields
<1> QED BY <1>1, <1>2 DEF LogFits, LogInv, Printed

\* Rows that leave the table, or come behind the cursors, leave a pane fitting.
LEMMA PaneKept ==
  ASSUME NEW p, PaneFits(p), Len(log) \in Nat, Len(log') \in Nat, Len(log) <= Len(log'),
         kept' \cap (1..Len(log)) \subseteq kept, kept' \subseteq 1..Len(log'),
         \A i \in 1..Len(log) : log'[i] = log[i]
  PROVE  PaneFits(p)'
<1>1. p.cursor \in 0..Len(log) /\ p.cursor \in 0..Len(log)'
  BY DEF PaneFits
<1>2. NothingSkipped(p)'
  <2>1. ASSUME NEW i \in Rows(p.service)', i <= p.cursor PROVE i \in Rows(p.service) /\ log'[i] = log[i]
    <3>1. i \in kept' /\ log'[i].service = p.service /\ i \in 1..Len(log)
      BY <1>1, <2>1 DEF Rows
    <3> QED BY <3>1 DEF Rows
  <2> QED BY <2>1 DEF PaneFits, NothingSkipped, Shown
<1>3. \A i \in 1..Len(p.lines) : p.lines[i] >= 1 /\ p.cursor >= 1 /\ p.lines[i] <= log'[p.cursor].seq
  <2>1. p.cursor >= 1 => log'[p.cursor] = log[p.cursor]
    BY <1>1
  <2> QED BY <2>1 DEF PaneFits
<1>4. StaysAnchored(p)'
  BY DEF PaneFits, StaysAnchored
<1> QED BY <1>1, <1>2, <1>3, <1>4 DEF PaneFits

\* A step of one pane.
LEMMA OnePane ==
  ASSUME LogInv, NEW v \in Viewers, NEW q, q = NoView \/ PaneFits(q), views' = [views EXCEPT ![v] = q],
         UNCHANGED <<printed, channel, batch, log, kept>>
  PROVE  LogInv'
<1>1. q \in {NoView} \cup View
  BY DEF PaneFits
<1>2. views' \in [Viewers -> {NoView} \cup View]
  BY <1>1 DEF LogInv
<1>3. \A w \in Viewers : views'[w] = IF w = v THEN q ELSE views[w]
  BY DEF LogInv
<1>4. \A p : PaneFits(p)' <=> PaneFits(p)
  BY DEF PaneFits, NothingSkipped, StaysAnchored, Rows
<1>5. QueuesFit' /\ (kept \subseteq 1..Len(log))'
  BY DEF LogInv, QueuesFit, Printed
<1> QED BY <1>2, <1>3, <1>4, <1>5 DEF LogInv

\* A poll of a pane.
LEMMA PollFits == ASSUME LogInv, NEW v \in Viewers, PollLogs(v) PROVE LogInv'
<1> DEFINE p == views[v]
           ids == IF p.primed THEN QueryAfter(p.service, p.cursor, PollLimit) ELSE TailOf(p.service, TailLimit)
           last == LastId(ids, IF p.primed THEN p.cursor ELSE 0)
<1>1. PaneFits(p) /\ p.service \in LogServices /\ p.cursor \in Nat /\ LogFits
  BY LogIsFit DEF PollLogs, LogInv, PaneFits, View
<1>2. views' = [views EXCEPT ![v] = Ingest(p, ids, last)] /\ UNCHANGED <<printed, channel, batch, log, kept>>
  BY DEF PollLogs
<1> HIDE DEF p
<1>3. last = LastId(ids, p.cursor)
  <2>1. ~p.primed => p.cursor = 0
    BY <1>1 DEF PaneFits
  <2> QED BY <2>1
<1>4. log \in Seq(Line) /\ kept \subseteq 1..Len(log) /\ PollLimit \in Nat /\ TailLimit \in Nat
  BY <1>1, LogStoreAssumption DEF LogFits
<1>5. /\ ids \in SUBSET Rows(p.service) /\ \A i \in ids : i > p.cursor
      /\ \A i \in ids, k \in ids, j \in Rows(p.service) :
            p.cursor < j /\ j < i /\ (p.lines # <<>> \/ k <= j) => j \in ids
  <2>1. CASE p.primed
    <3>1. ids = QueryAfter(p.service, p.cursor, PollLimit)
      BY <2>1
    <3> QED BY <1>1, <1>4, <3>1, QueryHasNoGap
  <2>2. CASE ~p.primed
    <3>1. ids = TailOf(p.service, TailLimit) /\ p.cursor = 0 /\ p.lines = <<>>
      BY <1>1, <2>2 DEF PaneFits
    <3>2. \A i \in Rows(p.service) : i > 0
      BY <1>1, <1>4, FewRows
    <3>3. ids \subseteq Rows(p.service) /\ \A i \in ids, k \in ids, j \in Rows(p.service) : k <= j /\ j < i => j \in ids
      BY <1>1, <1>4, <3>1, TailHasNoGap
    <3> QED BY <3>1, <3>2, <3>3
  <2> QED BY <2>1, <2>2
<1> HIDE DEF ids, last
<1>6. PaneFits(Ingest(p, ids, last))
  BY <1>1, <1>3, <1>5, IngestFits
<1> QED BY <1>2, <1>6, OnePane

\* A pane that scrolls stays at the line it scrolls to.
LEMMA ScrolledFits ==
  ASSUME NEW p, PaneFits(p), NEW scroll \in Nat, scroll = 0 \/ scroll < Len(p.lines),
         NEW follow \in BOOLEAN, follow => scroll = 0
  PROVE  PaneFits(Scrolled(p, scroll, follow))
<1> DEFINE q == Scrolled(p, scroll, follow)
<1>1. p \in View /\ p.lines \in Seq(Nat) /\ Len(p.lines) \in Nat
  BY DEF PaneFits, View
<1>2. /\ q.service = p.service /\ q.cursor = p.cursor /\ q.primed = p.primed /\ q.lines = p.lines
      /\ q.scroll = scroll /\ q.follow = follow
      /\ q.anchor = IF p.lines = <<>> THEN 0 ELSE p.lines[Len(p.lines) - scroll]
  BY <1>1 DEF Scrolled, Anchored, View
<1>3. q.anchor \in Nat
  <2>1. CASE p.lines = <<>>
    BY <1>2, <2>1
  <2>2. CASE p.lines # <<>>
    <3>1. Len(p.lines) - scroll \in 1..Len(p.lines)
      BY <1>1, <2>2
    <3> QED BY <1>1, <1>2, <2>2, <3>1
  <2> QED BY <2>1, <2>2
<1>4. q = [p EXCEPT !.scroll = scroll, !.follow = follow, !.anchor = q.anchor]
  BY <1>1 DEF Scrolled, Anchored, View
<1> HIDE DEF q
<1>5. q \in View
  BY <1>1, <1>3, <1>4 DEF View
<1>6. NothingSkipped(q) /\ StaysAnchored(q)
  BY <1>2 DEF PaneFits, NothingSkipped, StaysAnchored, Shown
<1> QED BY <1>2, <1>5, <1>6 DEF PaneFits, q

\* The keys of a pane.
LEMMA KeysFit == ASSUME LogInv, NEW v \in Viewers, PaneKeys(v) PROVE LogInv'
<1> DEFINE p == views[v]
<1>1. p # NoView => PaneFits(p) /\ p \in View /\ p.scroll \in Nat /\ Len(p.lines) \in Nat /\ p.follow \in BOOLEAN
  <2>1. p # NoView => PaneFits(p)
    BY DEF LogInv
  <2> HIDE DEF p
  <2>2. PaneFits(p) => p \in View
    BY DEF PaneFits
  <2>3. p \in View => p.scroll \in Nat /\ p.lines \in Seq(Nat) /\ p.follow \in BOOLEAN
    BY DEF View
  <2> QED BY <2>1, <2>2, <2>3
<1>2. p # NoView => p.scroll = 0 \/ p.scroll < Len(p.lines)
  BY <1>1 DEF PaneFits
<1>3. CASE CloseView(v)
  BY <1>3, OnePane DEF CloseView
<1>4. ASSUME NEW s \in LogServices, OpenView(v, s) PROVE LogInv'
  <2> DEFINE q == [service |-> s, cursor |-> 0, primed |-> FALSE,
                   lines |-> <<>>, scroll |-> 0, follow |-> TRUE, anchor |-> 0]
  <2>1. q \in View /\ 0 \in 0..Len(log)
    <3>1. Len(log) \in Nat
      BY LogIsFit DEF LogFits
    <3> QED BY <3>1 DEF View
  <2>2. \A i \in Rows(s) : ~(i <= 0)
    <3>1. Rows(s) \subseteq 1..Len(log)
      BY LogIsFit, FewRows DEF LogFits
    <3> QED BY <3>1
  <2>3. NothingSkipped(q) /\ StaysAnchored(q) /\ Increasing(q.lines)
    BY <2>2 DEF NothingSkipped, StaysAnchored, Increasing
  <2>4. PaneFits(q)
    BY <2>1, <2>3 DEF PaneFits
  <2>5. views' = [views EXCEPT ![v] = q] /\ UNCHANGED <<printed, channel, batch, log, kept>>
    BY <1>4 DEF OpenView
  <2> HIDE DEF q
  <2> QED BY <2>4, <2>5, OnePane
<1>5. ASSUME NEW scroll \in Nat, NEW follow \in BOOLEAN, p # NoView,
             scroll = 0 \/ scroll < Len(p.lines), follow => scroll = 0,
             views' = [views EXCEPT ![v] = Scrolled(p, scroll, follow)],
             UNCHANGED <<printed, channel, batch, log, kept>>
      PROVE  LogInv'
  <2>1. PaneFits(Scrolled(p, scroll, follow))
    BY <1>1, <1>5, ScrolledFits
  <2> QED BY <1>5, <2>1, OnePane
<1>6. CASE JumpToBottom(v)
  <2>1. /\ p # NoView /\ views' = [views EXCEPT ![v] = Scrolled(p, 0, TRUE)]
        /\ UNCHANGED <<printed, channel, batch, log, kept>>
    BY <1>6 DEF JumpToBottom, LogInv
  <2> QED BY <1>5, <2>1
<1>7. ASSUME NEW n \in {1, PageUp}, ScrollUp(v, n) PROVE LogInv'
  <2> DEFINE scroll == Lesser(p.scroll + n, Less(Len(p.lines), 1))
  <2>1. /\ p # NoView /\ views' = [views EXCEPT ![v] = Scrolled(p, scroll, FALSE)]
        /\ UNCHANGED <<printed, channel, batch, log, kept>>
    BY <1>7 DEF ScrollUp, LogInv
  <2>2. n \in Nat
    BY LogStoreAssumption
  <2>3. scroll \in Nat /\ (scroll = 0 \/ scroll < Len(p.lines))
    BY <1>1, <2>1, <2>2 DEF Lesser, Less
  <2> HIDE DEF scroll, p
  <2> QED BY <1>5, <2>1, <2>3
<1>8. ASSUME NEW n \in {1, PageUp}, ScrollDown(v, n) PROVE LogInv'
  <2> DEFINE scroll == Less(p.scroll, n)
             follow == p.follow \/ scroll = 0
  <2>1. /\ p # NoView /\ views' = [views EXCEPT ![v] = Scrolled(p, scroll, follow)]
        /\ UNCHANGED <<printed, channel, batch, log, kept>>
    BY <1>8 DEF ScrollDown, LogInv
  <2>2. n \in Nat
    BY LogStoreAssumption
  <2>3. scroll \in Nat /\ (scroll = 0 \/ scroll < Len(p.lines))
    BY <1>1, <1>2, <2>1, <2>2 DEF Less
  <2>4. follow \in BOOLEAN /\ (follow => scroll = 0)
    <3>1. p.follow => p.scroll = 0
      BY <1>1, <2>1 DEF PaneFits
    <3> QED BY <1>1, <2>1, <2>2, <3>1 DEF Less
  <2> HIDE DEF scroll, follow, p
  <2> QED BY <1>5, <2>1, <2>3, <2>4
<1> QED BY <1>3, <1>4, <1>6, <1>7, <1>8 DEF PaneKeys

\* Steps of the queues that leave the table.
LEMMA QueueStep ==
  ASSUME LogInv, QueuesFit', UNCHANGED <<log, kept, views>>
  PROVE  LogInv'
BY DEF LogInv, PaneFits, NothingSkipped, StaysAnchored, Rows

\* A printed line is the last one of the channel, or dropped.
LEMMA PrintFits ==
  ASSUME LogInv, NEW s \in LogServices, NEW size \in Sizes, PrintLine(s, size) PROVE LogInv'
<1> DEFINE line == [service |-> s, seq |-> printed', size |-> size]
<1>1. /\ printed \in Nat /\ log \in Seq(Line) /\ batch \in Seq(Line) /\ channel \in Seq(Line)
      /\ Rising(log) /\ Rising(batch) /\ Rising(channel) /\ Printed(log) /\ Printed(batch) /\ Printed(channel)
      /\ Precedes(log, batch) /\ Precedes(batch, channel) /\ Precedes(log, channel)
  BY DEF LogInv, QueuesFit
<1>2. printed' = printed + 1 /\ UNCHANGED <<batch, log, kept, views>>
  BY DEF PrintLine
<1>3. line \in Line /\ line.seq = printed + 1
  BY <1>1, <1>2, LogStoreAssumption DEF Line
<1>4. \A q \in {log, batch, channel} : \A i \in DOMAIN q : q[i].seq \in Nat
  BY <1>1, LineFields
<1>5. Printed(log)' /\ Printed(batch)' /\ \A i \in DOMAIN channel : channel[i].seq >= 1 /\ channel[i].seq <= printed'
  BY <1>1, <1>2, <1>4 DEF Printed
<1>6. CASE channel' = channel
  BY <1>1, <1>2, <1>5, <1>6, QueueStep DEF QueuesFit, Printed
<1>7. CASE channel' = Append(channel, line)
  <2>1. channel' \in Seq(Line) /\ Len(channel) \in Nat /\ Len(channel') = Len(channel) + 1
    BY <1>1, <1>3, <1>7
  <2>2. DOMAIN channel = 1..Len(channel) /\ DOMAIN channel' = 1..(Len(channel) + 1)
    BY <1>1, <2>1
  <2>3. channel'[Len(channel) + 1].seq = printed + 1 /\ \A i \in 1..Len(channel) : channel'[i] = channel[i]
    BY <1>1, <1>3, <1>7, <2>1
  <2>4. \A i \in DOMAIN channel' : i \in 1..Len(channel) \/ i = Len(channel) + 1
    BY <2>1, <2>2
  <2> HIDE DEF line
  <2>5. Rising(channel')
    <3> SUFFICES ASSUME NEW i \in DOMAIN channel', NEW j \in DOMAIN channel', i < j
                 PROVE  channel'[i].seq < channel'[j].seq
      BY DEF Rising
    <3>1. i \in 1..Len(channel)
      BY <2>1, <2>2
    <3>2. CASE j \in 1..Len(channel)
      BY <1>1, <2>2, <2>3, <3>1, <3>2 DEF Rising
    <3>3. CASE j = Len(channel) + 1
      BY <1>1, <1>4, <2>2, <2>3, <3>1, <3>3 DEF Printed
    <3> QED BY <2>4, <3>2, <3>3
  <2>6. Printed(channel)'
    BY <1>1, <1>2, <1>5, <2>2, <2>3, <2>4 DEF Printed
  <2>7. ASSUME NEW q \in {log, batch}, Precedes(q, channel) PROVE Precedes(q, channel')
    <3> SUFFICES ASSUME NEW i \in DOMAIN q, NEW j \in DOMAIN channel' PROVE q[i].seq < channel'[j].seq
      BY DEF Precedes
    <3>1. q[i].seq \in Nat /\ q[i].seq <= printed
      BY <1>1, <1>4 DEF Printed
    <3>2. CASE j \in 1..Len(channel)
      BY <2>2, <2>3, <2>7, <3>2 DEF Precedes
    <3>3. CASE j = Len(channel) + 1
      BY <1>1, <2>3, <3>1, <3>3
    <3> QED BY <2>4, <3>2, <3>3
  <2>8. Precedes(log, channel') /\ Precedes(batch, channel')
    BY <1>1, <2>7
  <2> QED BY <1>1, <1>2, <1>5, <2>1, <2>5, <2>6, <2>8, QueueStep DEF QueuesFit
<1> QED BY <1>2, <1>6, <1>7 DEF PrintLine

\* A sequence in two parts.
LEMMA PartsRise ==
  ASSUME NEW s \in Seq(Line), Rising(s), NEW n \in 0..Len(s)
  PROVE  LET a == SubSeq(s, 1, n)
             b == SubSeq(s, n + 1, Len(s))
         IN  /\ a \in Seq(Line) /\ b \in Seq(Line) /\ Rising(a) /\ Rising(b) /\ Precedes(a, b)
             /\ \A i \in DOMAIN a : \E j \in DOMAIN s : a[i] = s[j]
             /\ \A i \in DOMAIN b : \E j \in DOMAIN s : b[i] = s[j]
<1> DEFINE a == SubSeq(s, 1, n)
           b == SubSeq(s, n + 1, Len(s))
<1>1. /\ Len(s) \in Nat /\ DOMAIN s = 1..Len(s) /\ n \in Nat /\ n <= Len(s)
      /\ a \in Seq(Line) /\ DOMAIN a = 1..n /\ \A i \in 1..n : a[i] = s[i] /\ i \in DOMAIN s
  OBVIOUS
<1>2. b \in Seq(Line) /\ DOMAIN b = 1..(Len(s) - n) /\ \A i \in 1..(Len(s) - n) : b[i] = s[i + n] /\ i + n \in DOMAIN s
  <2>1. b \in Seq(Line) /\ Len(b) = Len(s) - n
    BY <1>1
  <2>2. \A i \in 1..(Len(s) - n) : b[i] = s[i + n] /\ i + n \in DOMAIN s
    BY <1>1
  <2> HIDE DEF b
  <2> QED BY <2>1, <2>2
<1> HIDE DEF a, b
<1>3. Rising(a)
  BY <1>1 DEF Rising
<1>4. Rising(b)
  <2> SUFFICES ASSUME NEW i \in DOMAIN b, NEW j \in DOMAIN b, i < j PROVE b[i].seq < b[j].seq
    BY DEF Rising
  <2>1. i + n < j + n
    BY <1>1, <1>2
  <2> QED BY <1>2, <2>1 DEF Rising
<1>5. Precedes(a, b)
  <2> SUFFICES ASSUME NEW i \in DOMAIN a, NEW j \in DOMAIN b PROVE a[i].seq < b[j].seq
    BY DEF Precedes
  <2>1. i < j + n
    BY <1>1, <1>2
  <2> QED BY <1>1, <1>2, <2>1 DEF Rising
<1> QED BY <1>1, <1>2, <1>3, <1>4, <1>5 DEF a, b

\* The drain task takes a batch off the channel.
LEMMA BatchFits == ASSUME LogInv, TakeBatch PROVE LogInv'
<1>1. /\ printed \in Nat /\ log \in Seq(Line) /\ channel \in Seq(Line) /\ Rising(log) /\ Rising(channel)
      /\ Printed(log) /\ Printed(channel) /\ Precedes(log, channel)
  BY DEF LogInv, QueuesFit
<1>2. PICK n \in 0..Len(channel) :
        batch' = SubSeq(channel, 1, n) /\ channel' = SubSeq(channel, n + 1, Len(channel))
  <2>1. Lesser(Len(channel), MaxBatch) \in 0..Len(channel)
    BY <1>1, LogStoreAssumption DEF Lesser
  <2> QED BY <2>1 DEF TakeBatch
<1>3. /\ batch' \in Seq(Line) /\ channel' \in Seq(Line) /\ Rising(batch') /\ Rising(channel') /\ Precedes(batch', channel')
      /\ \A i \in DOMAIN batch' : \E j \in DOMAIN channel : batch'[i] = channel[j]
      /\ \A i \in DOMAIN channel' : \E j \in DOMAIN channel : channel'[i] = channel[j]
  <2>1. LET a == SubSeq(channel, 1, n)
             b == SubSeq(channel, n + 1, Len(channel))
         IN  /\ a \in Seq(Line) /\ b \in Seq(Line) /\ Rising(a) /\ Rising(b) /\ Precedes(a, b)
             /\ \A i \in DOMAIN a : \E j \in DOMAIN channel : a[i] = channel[j]
             /\ \A i \in DOMAIN b : \E j \in DOMAIN channel : b[i] = channel[j]
    BY <1>1, PartsRise
  <2> QED BY <1>2, <2>1
<1>4. UNCHANGED <<printed, log, kept, views>>
  BY DEF TakeBatch
<1>5. Printed(batch)' /\ Printed(channel)' /\ Precedes(log, batch') /\ Precedes(log, channel')
  BY <1>1, <1>3, <1>4 DEF Printed, Precedes
<1>6. QueuesFit'
  BY <1>1, <1>3, <1>4, <1>5 DEF QueuesFit, Printed
<1> QED BY <1>4, <1>6, QueueStep

\* The batch goes behind the table, whole or not at all.
LEMMA AppendFits == ASSUME LogInv, AppendBatch PROVE LogInv'
<1>1. /\ printed \in Nat /\ log \in Seq(Line) /\ batch \in Seq(Line) /\ channel \in Seq(Line)
      /\ Rising(log) /\ Rising(batch) /\ Rising(channel) /\ Printed(log) /\ Printed(batch) /\ Printed(channel)
      /\ Precedes(log, batch) /\ Precedes(batch, channel) /\ Precedes(log, channel) /\ kept \subseteq 1..Len(log)
  BY DEF LogInv, QueuesFit
<1>2. UNCHANGED <<printed, channel, views>> /\ batch' = <<>>
  BY DEF AppendBatch
<1>3. batch' \in Seq(Line) /\ DOMAIN batch' = {}
  BY <1>2
<1>4. CASE UNCHANGED <<log, kept>>
  <2>1. QueuesFit'
    BY <1>1, <1>2, <1>3, <1>4 DEF QueuesFit, Printed, Precedes, Rising
  <2> QED BY <1>2, <1>4, <2>1, QueueStep
<1>5. CASE log' = log \o batch /\ kept' = kept \cup (DOMAIN log' \ DOMAIN log)
  <2>1. /\ log' \in Seq(Line) /\ Len(log) \in Nat /\ Len(batch) \in Nat /\ Len(log') = Len(log) + Len(batch)
        /\ DOMAIN log = 1..Len(log) /\ DOMAIN batch = 1..Len(batch) /\ DOMAIN log' = 1..(Len(log) + Len(batch))
        /\ \A i \in 1..Len(log) : log'[i] = log[i]
    BY <1>1, <1>5
  <2>2. \A i \in DOMAIN log' : i \in DOMAIN log \/ (i > Len(log) /\ i - Len(log) \in DOMAIN batch /\ log'[i] = batch[i - Len(log)])
    <3> SUFFICES ASSUME NEW i \in DOMAIN log', i \notin DOMAIN log
                 PROVE  i > Len(log) /\ i - Len(log) \in DOMAIN batch /\ log'[i] = batch[i - Len(log)]
      OBVIOUS
    <3>1. i > Len(log) /\ i - Len(log) \in 1..Len(batch) /\ Len(log) + (i - Len(log)) = i
      BY <2>1
    <3> QED BY <1>1, <1>5, <2>1, <3>1
  <2>3. Rising(log')
    <3> SUFFICES ASSUME NEW i \in DOMAIN log', NEW j \in DOMAIN log', i < j PROVE log'[i].seq < log'[j].seq
      BY DEF Rising
    <3>1. CASE j \in DOMAIN log
      <4>1. i \in DOMAIN log
        BY <2>1, <3>1
      <4> QED BY <1>1, <2>1, <3>1, <4>1 DEF Rising
    <3>2. CASE i \in DOMAIN log /\ j - Len(log) \in DOMAIN batch /\ log'[j] = batch[j - Len(log)]
      BY <1>1, <2>1, <3>2 DEF Precedes
    <3>3. CASE /\ i - Len(log) \in DOMAIN batch /\ log'[i] = batch[i - Len(log)]
               /\ j - Len(log) \in DOMAIN batch /\ log'[j] = batch[j - Len(log)]
      <4>1. i - Len(log) < j - Len(log)
        BY <2>1
      <4> QED BY <1>1, <3>3, <4>1 DEF Rising
    <3> QED BY <2>2, <3>1, <3>2, <3>3
  <2>4. Printed(log') /\ Precedes(log', channel)
    BY <1>1, <2>1, <2>2 DEF Printed, Precedes
  <2>5. QueuesFit'
    BY <1>1, <1>2, <1>3, <2>1, <2>3, <2>4 DEF QueuesFit, Printed, Precedes, Rising
  <2>6. kept' \cap (1..Len(log)) \subseteq kept /\ kept' \subseteq 1..Len(log') /\ Len(log) <= Len(log')
    <3>1. Len(log) <= Len(log') /\ DOMAIN log \subseteq DOMAIN log' /\ DOMAIN log = 1..Len(log) /\ DOMAIN log' = 1..Len(log')
      <4>1. Len(log) <= Len(log') /\ Len(log') \in Nat
        BY <2>1
      <4>2. DOMAIN log' = 1..Len(log') /\ \A i \in 1..Len(log) : i \in 1..Len(log')
        BY <2>1, <4>1
      <4> QED BY <2>1, <4>1, <4>2
    <3>2. kept \subseteq DOMAIN log /\ kept' = kept \cup (DOMAIN log' \ DOMAIN log)
      BY <1>1, <1>5, <3>1
    <3>3. kept' \cap DOMAIN log \subseteq kept /\ kept' \subseteq DOMAIN log'
      BY <3>1, <3>2, Zenon
    <3> QED BY <3>1, <3>3
  <2>7. ASSUME NEW v \in Viewers, views[v] # NoView PROVE PaneFits(views[v])'
    <3>1. PICK p : p = views[v]
      OBVIOUS
    <3>2. PaneFits(p)
      BY <2>7, <3>1 DEF LogInv
    <3>3. PaneFits(p)'
      BY <2>1, <2>6, <3>2, PaneKept
    <3> QED BY <1>2, <3>1, <3>3
  <2> QED BY <1>2, <2>5, <2>6, <2>7 DEF LogInv
<1> QED BY <1>4, <1>5 DEF AppendBatch, Issued

\* Lines leave the table, and what was not committed is lost.
LEMMA SweepFits ==
  ASSUME LogInv, NEW cutoff, NEW services, Sweep(cutoff, services) PROVE LogInv'
<1>1. kept' \subseteq kept /\ UNCHANGED <<printed, channel, batch, log, views>>
  BY DEF Sweep
<1>2. Len(log) \in Nat /\ kept \subseteq 1..Len(log)
  BY LogIsFit DEF LogFits
<1>3. QueuesFit'
  BY <1>1 DEF LogInv, QueuesFit, Printed
<1>4. ASSUME NEW v \in Viewers, views[v] # NoView PROVE PaneFits(views[v])'
  <2>1. PICK p : p = views[v]
    OBVIOUS
  <2>2. PaneFits(p)
    BY <1>4, <2>1 DEF LogInv
  <2>3. PaneFits(p)'
    BY <1>1, <1>2, <2>2, PaneKept
  <2> QED BY <1>1, <2>1, <2>3
<1> QED BY <1>1, <1>2, <1>3, <1>4 DEF LogInv

LEMMA RestartFits == ASSUME LogInv, LogRestart PROVE LogInv'
<1>1. channel' = <<>> /\ batch' = <<>> /\ UNCHANGED <<printed, log, kept, views>>
  BY DEF LogRestart
<1>2. <<>> \in Seq(Line) /\ DOMAIN <<>> = {}
  OBVIOUS
<1>3. QueuesFit'
  BY <1>1, <1>2 DEF LogInv, QueuesFit, Printed, Precedes, Rising
<1> QED BY <1>1, <1>3, QueueStep

\* Whatever is printed, dropped, swept and lost with the daemon, a log pane
\* shows each line once and in order, skips none that the table still holds,
\* and stays where the user scrolled to (log_store.rs, tui.rs).
THEOREM PanesAlwaysTrue == LogStoreSpec => []PaneTrue
<1>1. LogStoreInit => LogInv
  <2> SUFFICES ASSUME LogStoreInit PROVE LogInv
    OBVIOUS
  <2>1. <<>> \in Seq(Line) /\ DOMAIN <<>> = {} /\ Len(<<>>) = 0
    OBVIOUS
  <2>2. QueuesFit
    BY <2>1 DEF LogStoreInit, QueuesFit, Printed, Precedes, Rising
  <2> QED BY <2>1, <2>2 DEF LogStoreInit, LogInv
<1>2. LogInv /\ [LogStoreNext]_logVars => LogInv'
  <2> SUFFICES ASSUME LogInv, LogStoreNext \/ UNCHANGED logVars PROVE LogInv'
    OBVIOUS
  <2>1. CASE UNCHANGED logVars
    <3>1. UNCHANGED <<printed, channel, batch, log, kept, views>>
      BY <2>1 DEF logVars
    <3>2. QueuesFit'
      BY <3>1 DEF LogInv, QueuesFit, Printed
    <3> QED BY <3>1, <3>2, QueueStep
  <2>2. ASSUME NEW v \in Viewers, PollLogs(v) \/ PaneKeys(v) PROVE LogInv'
    BY <2>2, PollFits, KeysFit
  <2> QED BY <2>1, <2>2, PrintFits, BatchFits, AppendFits, RestartFits, SweepFits DEF LogStoreNext
<1>3. LogInv => PaneTrue
  BY DEF LogInv, PaneFits, PaneTrue
<1> QED BY <1>1, <1>2, <1>3, PTL DEF LogStoreSpec


-----------------------------------------------------------------------------
(* Relay.                                                                    *)

Parts == {"start", "head", "stamped", "data", "size", "last", "sized", "chunk", "crlf", "blank", "trailer",
          "opaque", "junk"}
End == [part : Parts, then : Parts]

LEMMA ReadToEnd ==
  /\ \A p \in Parts : ReadTo(p) \in End /\ ReadTo(p).part = p
  /\ \A h : Announced(h) \in {"junk", "opaque", "size", "data", "start"}
BY DEF Parts, End, ReadTo, Announced

LEMMA ReadUnitEnd ==
  ASSUME NEW end \in End, NEW u
  PROVE  ReadUnit(end, u) \in End
<1>1. end.part \in Parts /\ end.then \in Parts
  BY DEF End
<1>2. CASE end.part = "start"
  <2>1. CASE u[1] \in {"head", "stamped"}
    <3>1. ReadUnit(end, u) = [part |-> u[1], then |-> Announced(u[2])]
      BY <1>2, <2>1 DEF ReadUnit
    <3>2. u[1] \in Parts /\ Announced(u[2]) \in Parts
      BY <2>1, ReadToEnd DEF Parts
    <3> QED BY <3>1, <3>2 DEF End
  <2>2. CASE u[1] \notin {"head", "stamped"}
    <3>1. ReadUnit(end, u) = IF u = Eol THEN end ELSE ReadTo("junk")
      BY <1>2, <2>2 DEF ReadUnit
    <3> QED BY <3>1, ReadToEnd DEF Parts
  <2> QED BY <2>1, <2>2
<1>3. CASE end.part # "start"
  <2>1. CASE end.part \in {"head", "stamped"}
    <3>1. ReadUnit(end, u) = ReadTo(IF u = Eol THEN end.then ELSE "junk")
      BY ONLY <2>1 DEF ReadUnit
    <3>2. "junk" \in Parts
      BY DEF Parts
    <3> QED BY ONLY <1>1, <3>1, <3>2, ReadToEnd
  <2>2. CASE end.part \notin {"head", "stamped"}
    <3>1. \/ ReadUnit(end, u) = end
          \/ \E p \in {"start", "last", "sized", "junk", "blank", "chunk", "crlf", "size", "trailer"} : ReadUnit(end, u) = ReadTo(p)
      BY ONLY <1>3, <2>2 DEF ReadUnit
    <3>2. {"start", "last", "sized", "junk", "blank", "chunk", "crlf", "size", "trailer"} \subseteq Parts
      BY ONLY TRUE DEF Parts
    <3> QED BY ONLY <3>1, <3>2, ReadToEnd, end \in End
  <2> QED BY ONLY <2>1, <2>2
<1> QED BY <1>2, <1>3

\* f is how an end goes along what it reads.
Along(f, end, units) ==
    f \in [0..Len(units) -> End] /\ f[0] = end /\ \A i \in 1..Len(units) : f[i] = ReadUnit(f[i - 1], units[i])
LEMMA ReadAlong ==
  ASSUME NEW S, NEW units \in Seq(S), NEW end \in End
  PROVE  /\ \E f : Along(f, end, units)
         /\ \A f : Along(f, end, units) => ReadUnits(end, units) = f[Len(units)]
<1> DEFINE L == Len(units)
           next(n, x) == ReadUnit(x, units[n])
           step == [n \in 1..L |-> [x \in End |-> next(n, x)]]
           Def(c) == c = [n \in 0..L |-> IF n = 0 THEN end ELSE next(n, c[n - 1])]
           read == CHOOSE c : Def(c)
<1>1. L \in Nat /\ \A n \in 1..L, x \in End : next(n, x) \in End
  BY ReadUnitEnd
<1>2. ReadUnits(end, units) = read[L]
  BY DEF ReadUnits
<1>3. step \in [1..L -> [End -> End]]
  <2> HIDE DEF next
  <2> QED BY <1>1
<1>4. \A n \in 1..L, x \in End : step[n][x] = next(n, x)
  OBVIOUS
<1>40. \A f : Along(f, end, units) <=> /\ f \in [0..L -> End] /\ f[0] = end /\ \A i \in 1..L : f[i] = next(i, f[i - 1])
  BY DEF Along
<1> HIDE DEF step, next, L
<1>5. PICK f : Unrolls(f, L, End, end, step)
  BY <1>1, <1>3, Unrolled
<1>6. \A n \in 1..L : n - 1 \in 0..L /\ f[n - 1] \in End /\ f[n] = next(n, f[n - 1])
  <2> SUFFICES ASSUME NEW n \in 1..L PROVE n - 1 \in 0..L /\ f[n - 1] \in End /\ f[n] = next(n, f[n - 1])
    OBVIOUS
  <2>1. n - 1 \in 0..L
    BY <1>1
  <2> QED BY <1>4, <1>5, <2>1 DEF Unrolls
<1>7. Def(f)
  <2>1. f = [n \in 0..L |-> f[n]] /\ f[0] = end
    BY <1>5 DEF Unrolls
  <2>2. \A n \in 0..L : n = 0 \/ n \in 1..L
    BY <1>1
  <2>3. \A n \in 0..L : f[n] = IF n = 0 THEN end ELSE next(n, f[n - 1])
    BY <1>6, <2>1, <2>2
  <2> QED BY <2>1, <2>3
<1>8. Def(read)
  <2> HIDE DEF Def
  <2>1. \E c : Def(c)
    BY <1>7
  <2> QED BY <2>1
<1>9. ASSUME NEW g, Along(g, end, units) PROVE read[L] = g[L]
  <2>1. g \in [0..L -> End] /\ g[0] = end /\ \A i \in 1..L : g[i] = next(i, g[i - 1])
    BY <1>9, <1>40
  <2>2. read[0] = end /\ \A n \in 1..L : read[n] = next(n, read[n - 1])
    <3>1. \A n \in 0..L : read[n] = IF n = 0 THEN end ELSE next(n, read[n - 1])
      <4> HIDE DEF read
      <4> QED BY <1>8
    <3>2. 0 \in 0..L /\ \A n \in 1..L : n \in 0..L /\ n # 0
      BY <1>1
    <3> HIDE DEF read
    <3> QED BY <3>1, <3>2
  <2> HIDE DEF read, Def
  <2> DEFINE T == {n \in 0..L : read[n] = g[n]}
  <2>3. 0 \in T
    BY <1>1, <2>1, <2>2
  <2>4. ASSUME NEW n \in 1..L, n - 1 \in T PROVE n \in T
    BY <1>1, <2>1, <2>2, <2>4
  <2>5. 0..L \subseteq T
    <3> HIDE DEF T
    <3> QED BY <1>1, <2>3, <2>4, Reached
  <2>6. L \in 0..L
    BY <1>1
  <2> QED BY <2>5, <2>6
<1>10. \E g : Along(g, end, units)
  <2>1. f \in [0..L -> End] /\ f[0] = end
    BY <1>5 DEF Unrolls
  <2> QED BY <1>6, <1>40, <2>1
<1> QED BY <1>2, <1>9, <1>10 DEF L

LEMMA ReadFew ==
  ASSUME NEW end \in End
  PROVE  ReadUnits(end, <<>>) = end /\ \A u : ReadUnits(end, <<u>>) = ReadUnit(end, u)
<1>1. ReadUnits(end, <<>>) = end
  <2> DEFINE f == [n \in 0..0 |-> end]
  <2>1. <<>> \in Seq({}) /\ Len(<<>>) = 0
    OBVIOUS
  <2>2. Along(f, end, <<>>) /\ f[0] = end
    BY DEF Along
  <2> HIDE DEF f
  <2> QED BY <2>1, <2>2, ReadAlong
<1>2. ASSUME NEW u PROVE ReadUnits(end, <<u>>) = ReadUnit(end, u)
  <2> DEFINE f == [n \in 0..1 |-> IF n = 0 THEN end ELSE ReadUnit(end, u)]
  <2>1. <<u>> \in Seq({u}) /\ Len(<<u>>) = 1 /\ <<u>>[1] = u
    OBVIOUS
  <2>2. ReadUnit(end, u) \in End
    BY ReadUnitEnd
  <2>3. f \in [0..1 -> End] /\ f[0] = end /\ f[1] = ReadUnit(end, u)
    BY <2>2
  <2> HIDE DEF f
  <2>4. \A i \in 1..1 : i = 1 /\ i - 1 = 0
    OBVIOUS
  <2>5. Along(f, end, <<u>>)
    BY <2>1, <2>3, <2>4 DEF Along
  <2>6. ReadUnits(end, <<u>>) = f[Len(<<u>>)]
    BY <2>1, <2>5, ReadAlong
  <2> QED BY <2>1, <2>3, <2>6
<1> QED BY <1>1, <1>2

\* What an end makes of two pieces it makes of them one after the other.
LEMMA ReadOn ==
  ASSUME NEW S, NEW s \in Seq(S), NEW t \in Seq(S), NEW end \in End
  PROVE  ReadUnits(end, s) \in End /\ ReadUnits(end, s \o t) = ReadUnits(ReadUnits(end, s), t)
<1>1. PICK f : Along(f, end, s)
  BY ReadAlong
<1>2. PICK K, L, st : K = Len(s) /\ L = Len(t) /\ st = s \o t
  OBVIOUS
<1>3. K \in Nat /\ L \in Nat /\ st \in Seq(S) /\ Len(st) = K + L /\ (\A i \in 1..K : st[i] = s[i]) /\ (\A i \in 1..L : st[K + i] = t[i])
  BY <1>2
<1>4. f \in [0..K -> End] /\ f[0] = end /\ (\A i \in 1..K : f[i] = ReadUnit(f[i - 1], s[i])) /\ ReadUnits(end, s) = f[K]
  BY <1>1, <1>2, ReadAlong DEF Along
<1>5. f[K] \in End
  BY <1>3, <1>4
<1>6. PICK g : Along(g, f[K], t)
  BY <1>5, ReadAlong
<1>7. g \in [0..L -> End] /\ g[0] = f[K] /\ (\A i \in 1..L : g[i] = ReadUnit(g[i - 1], t[i])) /\ ReadUnits(f[K], t) = g[L]
  <2>1. ReadUnits(f[K], t) = g[Len(t)]
    BY <1>5, <1>6, ReadAlong
  <2>2. g \in [0..Len(t) -> End] /\ g[0] = f[K] /\ \A i \in 1..Len(t) : g[i] = ReadUnit(g[i - 1], t[i])
    BY ONLY <1>6 DEF Along
  <2> QED BY ONLY <1>2, <2>1, <2>2
<1> DEFINE h == [i \in 0..(K + L) |-> IF i <= K THEN f[i] ELSE g[i - K]]
<1>8. h \in [0..(K + L) -> End]
  <2>1. \A i \in 0..(K + L) : IF i <= K THEN i \in 0..K ELSE i - K \in 0..L
    BY <1>3
  <2> QED BY <1>4, <1>7, <2>1
<1>9. h[0] = end /\ (\A i \in 0..K : h[i] = f[i]) /\ (\A i \in 0..L : h[K + i] = g[i])
  <2>1. \A i \in 0..K : h[i] = f[i]
    BY <1>3
  <2>2. ASSUME NEW i \in 0..L PROVE h[K + i] = g[i]
    <3>1. CASE i = 0
      BY <1>3, <1>7, <3>1
    <3>2. CASE i > 0
      <4>1. K + i \in 0..(K + L) /\ ~(K + i <= K) /\ (K + i) - K = i
        BY <1>3, <3>2
      <4> QED BY <4>1
    <3> QED BY <3>1, <3>2
  <2>3. 0 \in 0..K
    BY <1>3
  <2> QED BY <1>4, <2>1, <2>2, <2>3
<1> HIDE DEF h
<1>10. ASSUME NEW i \in 1..(K + L) PROVE h[i] = ReadUnit(h[i - 1], st[i])
  <2>1. CASE i <= K
    <3>1. i \in 1..K /\ i \in 0..K /\ i - 1 \in 0..K
      BY <1>3, <2>1
    <3> QED BY <1>3, <1>4, <1>9, <3>1
  <2>2. CASE i > K
    <3>1. PICK j \in 1..L : j = i - K
      BY <1>3, <2>2
    <3>2. j \in 0..L /\ j - 1 \in 0..L /\ i = K + j /\ i - 1 = K + (j - 1)
      BY <1>3, <3>1
    <3>3. h[i] = g[j] /\ h[i - 1] = g[j - 1] /\ st[i] = t[j]
      BY <1>3, <1>9, <3>1, <3>2
    <3> QED BY <1>7, <3>1, <3>3
  <2> QED BY <1>3, <2>1, <2>2
<1>11. Along(h, end, st)
  BY <1>3, <1>8, <1>9, <1>10 DEF Along
<1>12. ReadUnits(end, st) = h[K + L]
  BY <1>3, <1>11, ReadAlong
<1>13. h[K + L] = g[L]
  <2>1. L \in 0..L
    BY <1>3
  <2> QED BY <1>9, <2>1
<1> QED BY <1>2, <1>4, <1>5, <1>7, <1>12, <1>13

\* A head that states two lengths that disagree has no framing: RFC 9112, 6.3
\* has every recipient refuse it.
OneLength == \A h \in HeadsSent : ~\E i, j \in DOMAIN h : h[i] = "cl0" /\ h[j] = "cl1"

\* parse_head finds the framing that the head announces.
LEMMA BodyFits ==
  ASSUME NEW h \in HeadsSent, OneLength, BodyOf(h) # "bad"
  PROVE  IF Upgrades(h) THEN Announced(h) = "opaque"
         ELSE \/ BodyOf(h) = "chunked" /\ Announced(h) = "size"
              \/ BodyOf(h) = "cl1" /\ Announced(h) = "data"
              \/ BodyOf(h) = "cl0" /\ Announced(h) = "start"
<1> DEFINE L == Len(h)
           Bodies == {"cl0", "cl1", "chunked", "bad"}
           next(n, x) == BodyAfter(x, h[n])
           step == [n \in 1..L |-> [x \in Bodies |-> next(n, x)]]
           Def(c) == c = [n \in 0..L |-> IF n = 0 THEN "cl0" ELSE next(n, c[n - 1])]
           body == CHOOSE c : Def(c)
<1>0. h \in Seq(HeadFields) /\ DOMAIN h = 1..L /\ L \in Nat
  <2>1. h \in Seq(HeadFields)
    BY RelayAssumption
  <2> QED BY <2>1
<1>1. \A n \in 1..L, x \in Bodies : next(n, x) \in Bodies
  BY DEF BodyAfter
<1>2. BodyOf(h) = body[L]
  BY DEF BodyOf
<1> HIDE DEF L
<1>3. step \in [1..L -> [Bodies -> Bodies]]
  <2> HIDE DEF next
  <2> QED BY <1>1
<1>4. \A n \in 1..L, x \in Bodies : step[n][x] = next(n, x)
  OBVIOUS
<1>41. \A n \in 1..L : \A x : next(n, x) = BodyAfter(x, h[n])
  OBVIOUS
<1> HIDE DEF step, next
<1>5. PICK f : Unrolls(f, L, Bodies, "cl0", step)
  <2>1. "cl0" \in Bodies
    OBVIOUS
  <2> HIDE DEF Bodies
  <2> QED BY <1>0, <1>3, <2>1, Unrolled
<1>6. \A n \in 1..L : n - 1 \in 0..L /\ f[n - 1] \in Bodies /\ f[n] = next(n, f[n - 1])
  <2> HIDE DEF Bodies
  <2> SUFFICES ASSUME NEW n \in 1..L PROVE n - 1 \in 0..L /\ f[n - 1] \in Bodies /\ f[n] = next(n, f[n - 1])
    OBVIOUS
  <2>1. n - 1 \in 0..L
    BY <1>0
  <2> QED BY <1>4, <1>5, <2>1 DEF Unrolls
<1>7. Def(f)
  <2>1. f = [n \in 0..L |-> f[n]] /\ f[0] = "cl0"
    BY <1>5 DEF Unrolls
  <2>2. \A n \in 0..L : n = 0 \/ n \in 1..L
    BY <1>0
  <2>3. \A n \in 0..L : f[n] = IF n = 0 THEN "cl0" ELSE next(n, f[n - 1])
    BY <1>6, <2>1, <2>2
  <2> QED BY <2>1, <2>3
<1>8. Def(body)
  <2> HIDE DEF Def
  <2>1. \E c : Def(c)
    BY <1>7
  <2> QED BY <2>1
<1>9. body[0] = "cl0" /\ \A n \in 1..L : body[n] = BodyAfter(body[n - 1], h[n])
  <2>1. \A n \in 0..L : body[n] = IF n = 0 THEN "cl0" ELSE next(n, body[n - 1])
    <3> HIDE DEF body
    <3> QED BY <1>8
  <2>2. 0 \in 0..L /\ \A n \in 1..L : n \in 0..L /\ n # 0
    BY <1>0
  <2> HIDE DEF body
  <2> QED BY <1>41, <2>1, <2>2
<1> HIDE DEF body, Def
<1> DEFINE Fits(n) ==
             /\ body[n] \in {"cl0", "cl1", "chunked", "bad"}
             /\ body[n] = "chunked" => \E i \in 1..n : h[i] = "te"
             /\ body[n] \in {"cl0", "cl1"} => \A i \in 1..n : h[i] \notin {"te", "clbad"}
             /\ body[n] = "cl1" => \E i \in 1..n : h[i] = "cl1"
             /\ body[n] = "cl0" => \A i \in 1..n : h[i] # "cl1"
           T == {n \in 0..L : Fits(n)}
<1>10. 0 \in T
  BY <1>0, <1>9
<1>11. ASSUME NEW n \in 1..L, n - 1 \in T PROVE n \in T
  <2>1. n \in 0..L /\ (\A i \in 1..n : i \in 1..(n - 1) \/ i = n) /\ n \in 1..n /\ (\A i \in 1..(n - 1) : i \in 1..n /\ i \in DOMAIN h)
        /\ n \in DOMAIN h
    BY <1>0
  <2>2. PICK b, c, field : b = body[n - 1] /\ c = body[n] /\ field = h[n]
    OBVIOUS
  <2>3. c = BodyAfter(b, field)
    BY <1>9, <2>2
  <2>4. /\ b \in {"cl0", "cl1", "chunked", "bad"}
        /\ b = "chunked" => \E i \in 1..(n - 1) : h[i] = "te"
        /\ b \in {"cl0", "cl1"} => \A i \in 1..(n - 1) : h[i] \notin {"te", "clbad"}
        /\ b = "cl1" => \E i \in 1..(n - 1) : h[i] = "cl1"
        /\ b = "cl0" => \A i \in 1..(n - 1) : h[i] # "cl1"
    BY <1>11, <2>2
  <2>5. b = "cl1" => field # "cl0"
    BY <2>1, <2>2, <2>4 DEF OneLength
  <2>7. /\ c \in {"cl0", "cl1", "chunked", "bad"}
        /\ c = "chunked" => b = "chunked" \/ field = "te"
        /\ c \in {"cl0", "cl1"} => b \in {"cl0", "cl1"} /\ field \notin {"te", "clbad"}
        /\ c = "cl1" => field = "cl1" \/ b = "cl1"
        /\ c = "cl0" => field # "cl1" /\ b = "cl0"
    BY <2>3, <2>4, <2>5 DEF BodyAfter
  <2>8. Fits(n)
    BY <2>1, <2>2, <2>4, <2>7
  <2> QED BY <2>1, <2>8
<1>12. L \in T
  <2>1. 0..L \subseteq T
    <3> HIDE DEF T
    <3> QED BY <1>0, <1>10, <1>11, Reached
  <2>2. L \in 0..L
    BY <1>0
  <2> QED BY <2>1, <2>2
<1>13. Fits(L)
  <2> HIDE DEF Fits
  <2> QED BY <1>12
<1>14. PICK fields : fields = {h[i] : i \in DOMAIN h}
  OBVIOUS
<1>15. \A x : x \in fields <=> \E i \in 1..L : h[i] = x
  BY <1>0, <1>14
<1>16. Announced(h) = IF "te" \notin fields /\ "clbad" \in fields THEN "junk"
                      ELSE IF "up" \in fields THEN "opaque"
                      ELSE IF "te" \in fields THEN "size"
                      ELSE IF "cl1" \in fields THEN "data" ELSE "start"
  BY <1>14 DEF Announced
<1>17. Upgrades(h) <=> "up" \in fields
  BY <1>0, <1>15 DEF Upgrades
<1>18. BodyOf(h) = body[L]
  BY <1>2 DEF L, body, Def, next
<1>19. CASE BodyOf(h) = "chunked"
  <2>1. "te" \in fields
    BY <1>13, <1>15, <1>18, <1>19
  <2>2. Announced(h) = IF "up" \in fields THEN "opaque" ELSE "size"
    BY ONLY <1>16, <2>1
  <2> QED BY ONLY <1>17, <1>19, <2>2
<1>20. CASE BodyOf(h) \in {"cl0", "cl1"}
  <2>1. "te" \notin fields /\ "clbad" \notin fields /\ (BodyOf(h) = "cl1" <=> "cl1" \in fields)
    BY <1>13, <1>15, <1>18, <1>20
  <2>2. Announced(h) = IF "up" \in fields THEN "opaque" ELSE IF "cl1" \in fields THEN "data" ELSE "start"
    BY ONLY <1>16, <2>1
  <2>3. BodyOf(h) = IF "cl1" \in fields THEN "cl1" ELSE "cl0"
    BY ONLY <1>20, <2>1
  <2> QED BY ONLY <1>17, <1>20, <2>2, <2>3
<1> QED BY <1>13, <1>18, <1>19, <1>20

\* A stamped head announces what the head announced.
LEMMA StampFits ==
  ASSUME NEW h \in HeadsSent
  PROVE  Stamp(HeadUnit(h))[1] = "stamped" /\ Announced(Stamp(HeadUnit(h))[2]) = Announced(h)
<1>1. PICK g : g = [i \in DOMAIN h |-> IF h[i] = "proto" THEN "other" ELSE h[i]]
  OBVIOUS
<1>2. Stamp(HeadUnit(h)) = <<"stamped", g>>
  BY <1>1 DEF Stamp, HeadUnit
<1>3. Stamp(HeadUnit(h))[1] = "stamped" /\ Stamp(HeadUnit(h))[2] = g
  BY <1>2
<1>4. PICK fields, same : fields = {h[i] : i \in DOMAIN h} /\ same = {g[i] : i \in DOMAIN g}
  OBVIOUS
<1>5. \A x \in {"te", "clbad", "up", "cl1"} : x \in fields <=> x \in same
  BY <1>1, <1>4
<1>6. Announced(g) = Announced(h)
  BY <1>4, <1>5 DEF Announced
<1> QED BY <1>3, <1>6

LEMMA SplitAt ==
  ASSUME NEW S, NEW s \in Seq(S), NEW n \in 0..Len(s)
  PROVE  /\ SubSeq(s, 1, n) \in Seq(S) /\ Len(SubSeq(s, 1, n)) = n /\ \A i \in 1..n : SubSeq(s, 1, n)[i] = s[i]
         /\ Remainder(s, n) \in Seq(S) /\ Len(Remainder(s, n)) = Len(s) - n
         /\ \A i \in 1..(Len(s) - n) : Remainder(s, n)[i] = s[n + i]
         /\ s = SubSeq(s, 1, n) \o Remainder(s, n)
<1>1. Len(s) \in Nat /\ n \in Nat /\ n <= Len(s)
  OBVIOUS
<1>2. SubSeq(s, 1, n) \in Seq(S) /\ Len(SubSeq(s, 1, n)) = n /\ \A i \in 1..n : SubSeq(s, 1, n)[i] = s[i]
  <2>1. \A i \in 1..n : s[i] \in S
    BY <1>1
  <2> QED BY <1>1, <2>1
<1>3. Remainder(s, n) \in Seq(S) /\ Len(Remainder(s, n)) = Len(s) - n /\ \A i \in 1..(Len(s) - n) : Remainder(s, n)[i] = s[n + i]
  <2>1. \A i \in (n + 1)..Len(s) : s[i] \in S
    BY <1>1
  <2> QED BY <1>1, <2>1 DEF Remainder
<1>4. PICK a, b, c : a = SubSeq(s, 1, n) /\ b = Remainder(s, n) /\ c = a \o b
  OBVIOUS
<1>5. c \in Seq(S) /\ Len(c) = Len(s)
  BY <1>1, <1>2, <1>3, <1>4
<1>6. ASSUME NEW i \in 1..Len(s) PROVE c[i] = s[i]
  <2>1. CASE i <= n
    <3>1. i \in 1..n /\ i \in 1..Len(a)
      BY <1>1, <1>2, <1>4, <2>1
    <3>2. c[i] = a[i]
      BY <1>2, <1>3, <1>4, <3>1
    <3> QED BY <1>2, <1>4, <3>1, <3>2
  <2>2. CASE i > n
    <3>1. PICK j \in 1..(Len(s) - n) : i = n + j
      <4>1. i - n \in 1..(Len(s) - n) /\ i = n + (i - n)
        BY <1>1, <2>2
      <4> QED BY <4>1
    <3>2. c[n + j] = b[j]
      <4>1. a \in Seq(S) /\ b \in Seq(S) /\ Len(a) = n /\ c = a \o b /\ j \in 1..Len(b)
        BY <1>2, <1>3, <1>4, <3>1
      <4> QED BY ONLY <4>1
    <3> QED BY <1>3, <1>4, <3>1, <3>2
  <2> QED BY <1>1, <2>1, <2>2
<1>7. c = s
  BY <1>5, <1>6, SeqEqual
<1> QED BY <1>2, <1>3, <1>4, <1>7

LEMMA UnitFits ==
  ASSUME NEW u \in Units
  PROVE  u[1] # "stamped" /\ (IsHead(u) <=> \E h \in HeadsSent : u = HeadUnit(h)) /\ (IsHead(u) => u # Eol)
<1>1. CASE \E h \in HeadsSent : u = HeadUnit(h)
  <2>1. PICK h \in HeadsSent : u = <<"head", h>>
    BY <1>1 DEF HeadUnit
  <2>2. u[1] = "head" /\ Eol[1] = "eol"
    BY <2>1 DEF Eol
  <2> QED BY <1>1, <2>2 DEF IsHead
<1>2. CASE u \in {Eol, Zero, One, <<"data">>}
  <2>1. u[1] \in {"eol", "0", "1", "data"}
    BY <1>2 DEF Eol, Zero, One
  <2>2. \A h : HeadUnit(h)[1] = "head"
    BY DEF HeadUnit
  <2> QED BY <2>1, <2>2 DEF IsHead
<1> QED BY <1>1, <1>2 DEF Units

\* What the upstream takes what it is passed for, and whether it was wrong.
LEMMA Passed ==
  ASSUME NEW S, NEW units \in Seq(S), server \in End, ~wrong, ToUpstream(units), NEW f, Along(f, server, units),
         \A n \in 1..Len(units) : f[n - 1].part # "head" /\ (units[n][1] = "stamped" => f[n - 1].part = "start")
  PROVE  server' = f[Len(units)] /\ ~wrong' /\ server' \in End
<1>1. Len(units) \in Nat /\ DOMAIN units = 1..Len(units)
  OBVIOUS
<1>2. server' = f[Len(units)]
  BY ReadAlong DEF ToUpstream
<1>3. f[Len(units)] \in End
  BY <1>1 DEF Along
<1>4. ASSUME NEW n \in 1..Len(units) PROVE ReadUnits(server, SubSeq(units, 1, n - 1)) = f[n - 1]
  <2>1. PICK m, s : m = n - 1 /\ s = SubSeq(units, 1, m)
    OBVIOUS
  <2>2. m \in 0..Len(units) /\ m \in Nat
    BY <1>1, <2>1
  <2>3. s \in Seq(S) /\ Len(s) = m /\ \A i \in 1..m : s[i] = units[i]
    BY <2>1, <2>2, SplitAt
  <2>4. PICK g : g = [i \in 0..m |-> f[i]]
    OBVIOUS
  <2>5. \A i \in 1..m : i \in 1..Len(units) /\ i - 1 \in 0..m /\ i \in 0..m
    BY <1>1, <2>2
  <2>6. g \in [0..m -> End] /\ g[0] = server /\ g[m] = f[m]
    <3>1. f \in [0..Len(units) -> End] /\ f[0] = server
      BY DEF Along
    <3>2. 0 \in 0..m /\ m \in 0..m /\ \A i \in 0..m : i \in 0..Len(units)
      BY <1>1, <2>2
    <3> QED BY <2>4, <3>1, <3>2
  <2>7. \A i \in 1..m : g[i] = ReadUnit(g[i - 1], s[i])
    BY <2>3, <2>4, <2>5 DEF Along
  <2>8. Along(g, server, s)
    BY <2>3, <2>6, <2>7 DEF Along
  <2>9. ReadUnits(server, s) = g[Len(s)]
    BY <2>3, <2>8, ReadAlong
  <2> QED BY <2>1, <2>3, <2>6, <2>9
<1>5. ~wrong'
  BY <1>1, <1>4 DEF ToUpstream
<1> QED BY <1>2, <1>3, <1>5

\* What is passed on from the front of the buffer as it came.
LEMMA PassedOn ==
  ASSUME buf \in Seq(Units), server \in End, ~wrong, ReadUnits(server, buf) = client,
         NEW n \in 0..Len(buf), ToUpstream(SubSeq(buf, 1, n)), buf' = Remainder(buf, n), UNCHANGED client
  PROVE  /\ buf' \in Seq(Units) /\ Len(buf') = Len(buf) - n
         /\ \E f \in [0..n -> End] :
              /\ f[0] = server /\ \A i \in 1..n : f[i] = ReadUnit(f[i - 1], buf[i])
              /\ (\A i \in 0..(n - 1) : f[i].part # "head")
                 => server' = f[n] /\ server' \in End /\ ~wrong' /\ ReadUnits(server', buf') = client'
<1>1. PICK s : s = SubSeq(buf, 1, n)
  OBVIOUS
<1>2. s \in Seq(Units) /\ Len(s) = n /\ (\A i \in 1..n : s[i] = buf[i]) /\ buf' \in Seq(Units) /\ Len(buf') = Len(buf) - n
      /\ buf = s \o buf'
  <2>1. PICK r : r = Remainder(buf, n)
    OBVIOUS
  <2>2. s \in Seq(Units) /\ Len(s) = n /\ (\A i \in 1..n : s[i] = buf[i]) /\ r \in Seq(Units) /\ Len(r) = Len(buf) - n
        /\ buf = s \o r
    BY <1>1, <2>1, SplitAt
  <2>3. buf' = r
    BY <2>1
  <2> QED BY ONLY <2>2, <2>3
<1>3. PICK f : Along(f, server, s)
  BY <1>2, ReadAlong
<1>4. f \in [0..n -> End] /\ f[0] = server /\ \A i \in 1..n : f[i] = ReadUnit(f[i - 1], buf[i])
  BY <1>2, <1>3 DEF Along
<1>5. ASSUME \A i \in 0..(n - 1) : f[i].part # "head"
      PROVE  server' = f[n] /\ server' \in End /\ ~wrong' /\ ReadUnits(server', buf') = client'
  <2>1. ASSUME NEW i \in 1..Len(s) PROVE f[i - 1].part # "head" /\ (s[i][1] = "stamped" => f[i - 1].part = "start")
    <3>1. i - 1 \in 0..(n - 1) /\ s[i] \in Units
      BY <1>2
    <3> QED BY <1>5, <3>1, UnitFits
  <2>2. server' = f[Len(s)] /\ ~wrong' /\ server' \in End
    BY <1>1, <1>2, <1>3, <2>1, Passed
  <2>3. ReadUnits(server, s) = f[Len(s)]
    BY <1>2, <1>3, ReadAlong
  <2>4. ReadUnits(server, s \o buf') = ReadUnits(ReadUnits(server, s), buf')
    BY <1>2, ReadOn
  <2> QED BY <1>2, <2>2, <2>3, <2>4
<1> QED BY <1>2, <1>4, <1>5

\* Empty lines before a head mean nothing.
LEMMA EolsRead ==
  ASSUME NEW s \in Seq(Units), NEW end \in End, end.part = "start", \A i \in 1..Len(s) : s[i] = Eol
  PROVE  ReadUnits(end, s) = end
<1>1. PICK f : f = [i \in 0..Len(s) |-> end]
  OBVIOUS
<1>2. ReadUnit(end, Eol) = end
  <2>1. Eol[1] \notin {"head", "stamped"}
    BY DEF Eol
  <2> QED BY <2>1 DEF ReadUnit
<1>3. Len(s) \in Nat /\ \A i \in 1..Len(s) : i \in 0..Len(s) /\ i - 1 \in 0..Len(s)
  OBVIOUS
<1>4. Along(f, end, s) /\ f[Len(s)] = end
  BY <1>1, <1>2, <1>3 DEF Along
<1> QED BY <1>4, ReadAlong

LEMMA OpaqueRead ==
  ASSUME NEW s \in Seq(Units), NEW end \in End, end.part = "opaque"
  PROVE  ReadUnits(end, s) = end
<1>1. PICK f : f = [i \in 0..Len(s) |-> end]
  OBVIOUS
<1>2. \A u : ReadUnit(end, u) = end
  BY DEF ReadUnit
<1>3. Len(s) \in Nat /\ \A i \in 1..Len(s) : i \in 0..Len(s) /\ i - 1 \in 0..Len(s)
  OBVIOUS
<1>4. Along(f, end, s) /\ f[Len(s)] = end
  BY <1>1, <1>2, <1>3 DEF Along
<1> QED BY <1>4, ReadAlong

\* What is parsed begins behind the empty lines.
LEMMA ParsedFits ==
  ASSUME buf \in Seq(Units)
  PROVE  /\ Parsed \in Seq(Units)
         /\ \E n \in 0..Len(buf) :
              /\ Parsed = Remainder(buf, n) /\ Len(Parsed) = Len(buf) - n
              /\ \A i \in 1..n : buf[i] = Eol
              /\ \A end \in End : end.part = "start" => ReadUnits(end, buf) = ReadUnits(end, Parsed)
<1>0. Len(buf) \in Nat
  OBVIOUS
<1>1. \E n \in 0..Len(buf) : /\ \A i \in 1..n : buf[i] = Eol
                             /\ n < Len(buf) => buf[n + 1] # Eol
  <2> DEFINE T == {n \in 0..Len(buf) : n < Len(buf) => buf[n + 1] # Eol}
  <2>1. T \subseteq Nat /\ Len(buf) \in T
    BY <1>0
  <2>2. \A n \in T : n \in 0..Len(buf) /\ (n < Len(buf) => buf[n + 1] # Eol)
    OBVIOUS
  <2>3. \A n \in 0..Len(buf) : n \notin T => n < Len(buf) /\ buf[n + 1] = Eol
    OBVIOUS
  <2> HIDE DEF T
  <2>4. PICK n \in T : \A m \in T : n <= m
    BY <2>1, LeastNumber
  <2>5. ASSUME NEW i \in 1..n PROVE buf[i] = Eol
    <3>1. i - 1 \in 0..Len(buf) /\ ~(n <= i - 1) /\ (i - 1) + 1 = i
      BY <1>0, <2>2, <2>4
    <3> QED BY <2>3, <2>4, <3>1
  <2> QED BY <2>2, <2>4, <2>5
<1>2. EmptyLines \in 0..Len(buf) /\ \A i \in 1..EmptyLines : buf[i] = Eol
  BY <1>1 DEF EmptyLines
<1>3. PICK n \in 0..Len(buf) : n = EmptyLines /\ \A i \in 1..n : buf[i] = Eol
  BY <1>2
<1>4. Parsed = Remainder(buf, n) /\ \A i \in 1..n : buf[i] = Eol
  BY <1>3 DEF Parsed
<1>5. PICK s : s = SubSeq(buf, 1, n)
  OBVIOUS
<1>6. s \in Seq(Units) /\ Len(s) = n /\ (\A i \in 1..n : s[i] = buf[i]) /\ Parsed \in Seq(Units) /\ Len(Parsed) = Len(buf) - n
      /\ buf = s \o Parsed
  <2>1. /\ SubSeq(buf, 1, n) \in Seq(Units) /\ Len(SubSeq(buf, 1, n)) = n /\ \A i \in 1..n : SubSeq(buf, 1, n)[i] = buf[i]
        /\ Remainder(buf, n) \in Seq(Units) /\ Len(Remainder(buf, n)) = Len(buf) - n
        /\ buf = SubSeq(buf, 1, n) \o Remainder(buf, n)
    BY SplitAt
  <2> QED BY ONLY <1>4, <1>5, <2>1
<1>7. ASSUME NEW end \in End, end.part = "start" PROVE ReadUnits(end, buf) = ReadUnits(end, Parsed)
  <2>1. ReadUnits(end, s) = end
    BY <1>4, <1>6, <1>7, EolsRead
  <2>2. ReadUnits(end, s \o Parsed) = ReadUnits(ReadUnits(end, s), Parsed)
    BY <1>6, ReadOn
  <2> QED BY <1>6, <2>1, <2>2
<1> QED BY <1>4, <1>6, <1>7

\* What an end makes of a head and of what ends it.
LEMMA HeadIsRead ==
  ASSUME NEW end \in End, end.part = "start", NEW s \in Seq(Units), Len(s) >= 2, NEW h \in HeadsSent, s[1] = HeadUnit(h), s[2] = Eol
  PROVE  /\ Remainder(s, 2) \in Seq(Units) /\ ReadTo(Announced(h)) \in End
         /\ ReadUnits(end, s) = ReadUnits(ReadTo(Announced(h)), Remainder(s, 2))
<1>1. PICK f, m : f = SubSeq(s, 1, 2) /\ m = Remainder(s, 2)
  OBVIOUS
<1>2. 2 \in 0..Len(s)
  OBVIOUS
<1>3. f \in Seq(Units) /\ Len(f) = 2 /\ (\A i \in 1..2 : f[i] = s[i]) /\ m \in Seq(Units) /\ s = f \o m
  BY <1>1, <1>2, SplitAt
<1>4. f[1] = HeadUnit(h) /\ f[2] = Eol
  BY <1>3
<1>5. PICK a, b : a = ReadUnit(end, HeadUnit(h)) /\ b = ReadUnit(a, Eol)
  OBVIOUS
<1>6. a \in End /\ b \in End
  BY <1>5, ReadUnitEnd
<1>7. a = [part |-> "head", then |-> Announced(h)]
  <2>1. HeadUnit(h)[1] = "head" /\ HeadUnit(h)[2] = h
    BY DEF HeadUnit
  <2> QED BY <1>5, <2>1 DEF ReadUnit
<1>8. b = ReadTo(Announced(h))
  <2>1. a.part = "head" /\ a.then = Announced(h)
    BY <1>7
  <2> QED BY <1>5, <2>1 DEF ReadUnit
<1>9. PICK g : g = [i \in 0..2 |-> IF i = 0 THEN end ELSE IF i = 1 THEN a ELSE b]
  OBVIOUS
<1>10. Along(g, end, f) /\ g[Len(f)] = b
  <2>1. g \in [0..2 -> End] /\ g[0] = end /\ g[1] = a /\ g[2] = b
    BY <1>6, <1>9
  <2>2. \A i \in 1..2 : (i = 1 /\ i - 1 = 0) \/ (i = 2 /\ i - 1 = 1)
    OBVIOUS
  <2>3. \A i \in 1..2 : g[i] = ReadUnit(g[i - 1], f[i])
    BY <1>4, <1>5, <2>1, <2>2
  <2> QED BY <1>3, <2>1, <2>3 DEF Along
<1>11. ReadUnits(end, f) = b
  BY <1>3, <1>10, ReadAlong
<1>12. ReadUnits(end, f \o m) = ReadUnits(ReadUnits(end, f), m)
  BY <1>3, ReadOn
<1> QED BY <1>1, <1>3, <1>6, <1>8, <1>11, <1>12

\* A line that is there has a first end.
LEMMA FirstLine ==
  ASSUME buf \in Seq(Units), HasLine
  PROVE  \E i \in 0..(Len(buf) - 1) : buf[i + 1] = Eol /\ \A j \in 1..i : buf[j] # Eol
<1>1. Len(buf) \in Nat /\ DOMAIN buf = 1..Len(buf)
  OBVIOUS
<1> DEFINE T == {n \in 1..Len(buf) : buf[n] = Eol}
<1>2. T \subseteq Nat /\ T # {}
  BY <1>1 DEF HasLine
<1>3. \A n : n \in T <=> n \in 1..Len(buf) /\ buf[n] = Eol
  OBVIOUS
<1> HIDE DEF T
<1>4. PICK n \in T : \A m \in T : n <= m
  BY <1>2, LeastNumber
<1>5. n \in 1..Len(buf) /\ buf[n] = Eol
  BY <1>3, <1>4
<1>6. PICK i \in 0..(Len(buf) - 1) : n = i + 1
  <2>1. n - 1 \in 0..(Len(buf) - 1) /\ n = (n - 1) + 1
    BY <1>1, <1>5
  <2> QED BY <2>1
<1>7. \A j \in 1..i : j \in 1..Len(buf) /\ ~(n <= j)
  BY <1>1, <1>6
<1>8. \A j \in 1..i : buf[j] # Eol
  BY <1>3, <1>4, <1>7
<1> QED BY <1>5, <1>6, <1>8

\* Where forward_requests is, what the upstream takes its next unit for, and
\* what the proxy has looked at but not passed on yet.
RelayFits ==
    \/ work = Going("head") /\ server.part = "start"
    \/ work = PassThen(1, "head") /\ (server.part = "data" \/ (server.part = "blank" /\ Len(buf) >= 1 /\ buf[1] = Eol))
    \/ work = Going("line") /\ server.part = "size"
    \/ work = PassThen(4, "line") /\ server.part = "size" /\ Len(buf) >= 2 /\ buf[1] = One /\ buf[2] = Eol
    \/ work = PassThen(2, "line") /\ server.part = "chunk"
    \/ work = PassThen(1, "line") /\ server.part = "crlf"
    \/ work = PassThen(2, "trailers") /\ server.part = "size" /\ Len(buf) >= 2 /\ buf[1] = Zero /\ buf[2] = Eol
    \/ work = Going("trailers") /\ server.part = "blank"
    \/ \E n \in 2..Len(buf) : /\ work = PassThen(n, "trailers") /\ server.part = "blank"
                              /\ buf[n] = Eol /\ \A i \in 1..(n - 1) : buf[i] # Eol
    \/ work = Going("splice") /\ server.part = "opaque"
RelayInv ==
    /\ buf \in Seq(Units) /\ client \in End /\ server \in End /\ ~wrong /\ server.part # "junk"
    /\ work = Going("ended") \/ (RelayFits /\ ReadUnits(server, buf) = client)

LEMMA RelayInitFits == RelayInit => RelayInv
<1> SUFFICES ASSUME RelayInit PROVE RelayInv
  OBVIOUS
<1>1. PICK h \in HeadsSent, more \in {<<>>} \cup {<<u>> : u \in Units} : buf = <<HeadUnit(h), Eol>> \o more
  BY DEF RelayInit
<1>2. HeadUnit(h) \in Units /\ Eol \in Units
  BY DEF Units
<1>3. <<HeadUnit(h), Eol>> \in Seq(Units) /\ more \in Seq(Units)
  <2>1. more \in Seq(Units)
    <3>1. <<>> \in Seq(Units) /\ \A u \in Units : <<u>> \in Seq(Units)
      OBVIOUS
    <3> QED BY <3>1
  <2>2. \A u, v \in Units : <<u, v>> \in Seq(Units)
    OBVIOUS
  <2> QED BY <1>2, <2>1, <2>2
<1>4. buf \in Seq(Units)
  BY <1>1, <1>3
<1>5. ReadTo("start") \in End /\ ReadTo("start").part = "start"
  BY ReadToEnd DEF Parts
<1>6. client = ReadUnits(ReadTo("start"), buf) /\ server = ReadTo("start") /\ ~wrong /\ work = Going("head")
  BY DEF RelayInit
<1>7. client \in End
  <2>1. <<>> \in Seq(Units)
    OBVIOUS
  <2> QED BY <1>4, <1>5, <1>6, <2>1, ReadOn
<1> QED BY <1>4, <1>5, <1>6, <1>7 DEF RelayInv, RelayFits

\* More from the client reads on where it was.
LEMMA ReadMoreFits ==
  ASSUME RelayInv, ReadMore
  PROVE  RelayInv'
<1>0. PICK n \in 1..MaxRead : \E piece \in [1..n -> Units] : buf' = buf \o piece /\ client' = ReadUnits(client, piece)
  BY DEF ReadMore
<1>1. PICK piece \in [1..n -> Units] : buf' = buf \o piece /\ client' = ReadUnits(client, piece)
  BY <1>0
<1>2. piece \in Seq(Units)
  BY RelayAssumption
<1>3. buf \in Seq(Units) /\ client \in End /\ server \in End /\ ~wrong /\ server.part # "junk" /\ UNCHANGED <<work, server, wrong>>
  BY DEF RelayInv, ReadMore
<1>4. buf' \in Seq(Units) /\ Len(buf') >= Len(buf) /\ Len(buf) \in Nat /\ Len(buf') \in Nat /\ \A i \in 1..Len(buf) : buf'[i] = buf[i]
  BY <1>1, <1>2, <1>3
<1>5. client' \in End
  BY <1>1, <1>2, <1>3, ReadOn
<1>6. ASSUME RelayFits, ReadUnits(server, buf) = client PROVE RelayFits' /\ ReadUnits(server', buf') = client'
  <2>1. ReadUnits(server, buf \o piece) = ReadUnits(ReadUnits(server, buf), piece)
    BY <1>2, <1>3, ReadOn
  <2>2. Len(buf) >= 1 => Len(buf') >= 1 /\ buf'[1] = buf[1]
    BY <1>4
  <2>3. Len(buf) >= 2 => Len(buf') >= 2 /\ buf'[1] = buf[1] /\ buf'[2] = buf[2]
    BY <1>4
  <2>4. ASSUME NEW k \in 2..Len(buf), buf[k] = Eol, \A i \in 1..(k - 1) : buf[i] # Eol
        PROVE  k \in 2..Len(buf') /\ buf'[k] = Eol /\ \A i \in 1..(k - 1) : buf'[i] # Eol
    <3>1. k \in 2..Len(buf') /\ k \in 1..Len(buf) /\ \A i \in 1..(k - 1) : i \in 1..Len(buf)
      BY <1>4
    <3> QED BY <1>4, <2>4, <3>1
  <2>5. RelayFits'
    BY <1>3, <1>6, <2>2, <2>3, <2>4 DEF RelayFits, Going, PassThen
  <2> QED BY <1>1, <1>3, <1>6, <2>1, <2>5
<1> QED BY <1>3, <1>4, <1>5, <1>6 DEF RelayInv

LEMMA WorkFits ==
  /\ \A n, p : PassThen(n, p).left = n /\ PassThen(n, p).pc = p
  /\ \A p : Going(p).left = 0 /\ Going(p).pc = p /\ Going(p) = PassThen(0, p)
  /\ \A m, n, p : [PassThen(m, p) EXCEPT !.left = n] = PassThen(n, p)
BY DEF Going, PassThen

\* Where the upstream is when nothing is left to pass on.
LEMMA NothingLeft ==
  ASSUME RelayInv, work.left = 0, work.pc # "ended"
  PROVE  /\ ReadUnits(server, buf) = client
         /\ work.pc \in {"head", "line", "trailers", "splice"} /\ work = Going(work.pc)
         /\ work.pc = "head" => server.part = "start"
         /\ work.pc = "line" => server.part = "size"
         /\ work.pc = "trailers" => server.part = "blank"
         /\ work.pc = "splice" => server.part = "opaque"
<1>1. RelayFits /\ ReadUnits(server, buf) = client
  BY WorkFits DEF RelayInv
<1>2. /\ \A n, p : n # 0 => work # PassThen(n, p)
  BY WorkFits
<1>3. \A n \in 2..Len(buf) : n # 0
  BY DEF RelayInv
<1>4. \/ work = Going("head") /\ server.part = "start"
      \/ work = Going("line") /\ server.part = "size"
      \/ work = Going("trailers") /\ server.part = "blank"
      \/ work = Going("splice") /\ server.part = "opaque"
  <2>1. /\ ~(work = PassThen(1, "head") /\ (server.part = "data" \/ (server.part = "blank" /\ Len(buf) >= 1 /\ buf[1] = Eol)))
        /\ ~(work = PassThen(4, "line") /\ server.part = "size" /\ Len(buf) >= 2 /\ buf[1] = One /\ buf[2] = Eol)
        /\ ~(work = PassThen(2, "line") /\ server.part = "chunk")
        /\ ~(work = PassThen(1, "line") /\ server.part = "crlf")
        /\ ~(work = PassThen(2, "trailers") /\ server.part = "size" /\ Len(buf) >= 2 /\ buf[1] = Zero /\ buf[2] = Eol)
    <3>1. \A p : work # PassThen(1, p) /\ work # PassThen(2, p) /\ work # PassThen(4, p)
      BY ONLY <1>2, 1 # 0, 2 # 0, 4 # 0
    <3> QED BY ONLY <3>1
  <2>2. ~\E n \in 2..Len(buf) : /\ work = PassThen(n, "trailers") /\ server.part = "blank"
                                /\ buf[n] = Eol /\ \A i \in 1..(n - 1) : buf[i] # Eol
    BY ONLY <1>2, <1>3
  <2> QED BY ONLY <1>1, <2>1, <2>2 DEF RelayFits
<1> QED BY <1>1, <1>4, WorkFits

LEMMA ForwardChunkFits ==
  ASSUME RelayInv, ForwardChunk
  PROVE  RelayInv'
<1>1. work = Going("line") /\ HasLine /\ buf \in Seq(Units) /\ UNCHANGED <<buf, client, server, wrong>>
  BY DEF ForwardChunk, RelayInv, Bail
<1>2. CASE LineLength = 1 /\ buf[1] \in {Zero, One}
  <2>1. work' = IF buf[1] = Zero THEN PassThen(2, "trailers") ELSE PassThen(4, "line")
    BY <1>2 DEF ForwardChunk
  <2>2. Len(buf) >= 2 /\ buf[2] = Eol
    <3>1. \E i \in 0..(Len(buf) - 1) : buf[i + 1] = Eol /\ \A j \in 1..i : buf[j] # Eol
      BY <1>1, FirstLine
    <3>2. LineLength \in 0..(Len(buf) - 1) /\ buf[LineLength + 1] = Eol
      BY <3>1 DEF LineLength
    <3>3. Len(buf) \in Nat
      BY <1>1
    <3> QED BY <1>2, <3>2, <3>3
  <2>3. server.part = "size" /\ ReadUnits(server, buf) = client
    <3>1. work.left = 0 /\ work.pc = "line"
      BY <1>1, WorkFits
    <3> QED BY <3>1, NothingLeft
  <2>4. RelayFits'
    BY <1>1, <1>2, <2>1, <2>2, <2>3 DEF RelayFits
  <2> QED BY <1>1, <2>3, <2>4 DEF RelayInv
<1>3. CASE ~(LineLength = 1 /\ buf[1] \in {Zero, One})
  BY <1>1, <1>3 DEF ForwardChunk, Bail, RelayInv
<1> QED BY <1>2, <1>3

LEMMA ForwardTrailerFits ==
  ASSUME RelayInv, ForwardTrailer
  PROVE  RelayInv'
<1>1. work = Going("trailers") /\ HasLine /\ buf \in Seq(Units) /\ UNCHANGED <<buf, client, server, wrong>>
      /\ work' = PassThen(LineLength + 1, IF LineLength = 0 THEN "head" ELSE "trailers") /\ Len(buf) \in Nat
  BY DEF ForwardTrailer, RelayInv
<1>2. LineLength \in 0..(Len(buf) - 1) /\ buf[LineLength + 1] = Eol /\ \A j \in 1..LineLength : buf[j] # Eol
  <2>1. \E i \in 0..(Len(buf) - 1) : buf[i + 1] = Eol /\ \A j \in 1..i : buf[j] # Eol
    BY <1>1, FirstLine
  <2> QED BY <2>1 DEF LineLength
<1>3. server.part = "blank" /\ ReadUnits(server, buf) = client
  <2>1. work.left = 0 /\ work.pc = "trailers"
    BY <1>1, WorkFits
  <2> QED BY <2>1, NothingLeft
<1>4. CASE LineLength = 0
  <2>1. work' = PassThen(1, "head") /\ Len(buf) >= 1 /\ buf[1] = Eol
    BY <1>1, <1>2, <1>4
  <2> QED BY <1>1, <1>3, <2>1 DEF RelayInv, RelayFits
<1>5. CASE LineLength # 0
  <2>1. PICK n \in 2..Len(buf) : n = LineLength + 1
    BY <1>1, <1>2, <1>5
  <2>2. n - 1 = LineLength
    BY <1>2, <2>1
  <2>3. work' = PassThen(n, "trailers") /\ buf[n] = Eol /\ \A i \in 1..(n - 1) : buf[i] # Eol
    BY <1>1, <1>2, <1>5, <2>1, <2>2
  <2> QED BY <1>1, <1>3, <2>3 DEF RelayInv, RelayFits
<1> QED BY <1>4, <1>5

\* What an end takes what follows for, part by part.
LEMMA BodyRead ==
  ASSUME NEW end \in End, NEW u \in Units
  PROVE  /\ end.part = "data" => ReadUnit(end, u).part = "start"
         /\ end.part = "size" /\ u = Zero => ReadUnit(end, u).part = "last"
         /\ end.part = "size" /\ u = One => ReadUnit(end, u).part = "sized"
         /\ end.part = "last" /\ u = Eol => ReadUnit(end, u).part = "blank"
         /\ end.part = "sized" /\ u = Eol => ReadUnit(end, u).part = "chunk"
         /\ end.part = "chunk" => ReadUnit(end, u).part = "crlf"
         /\ end.part = "crlf" => ReadUnit(end, u).part = "size"
         /\ end.part = "blank" => ReadUnit(end, u).part = IF u = Eol THEN "start" ELSE "trailer"
         /\ end.part = "trailer" => ReadUnit(end, u).part = IF u = Eol THEN "blank" ELSE "trailer"
<1>1. Zero # One
  <2>1. Zero[1] = "0" /\ One[1] = "1"
    BY DEF Zero, One
  <2> QED BY <2>1
<1>2. end.part = "size" /\ u = One => ReadUnit(end, u).part = "sized"
  BY <1>1 DEF ReadUnit, ReadTo
<1> QED BY <1>2 DEF ReadUnit, ReadTo


\* What happens when take of left units are passed on, f the readings of the upstream.
TakesAs(left, pc, take, f) ==
  /\ work' = PassThen(left - take, pc)
  /\ f[0] = server
  /\ \A i \in 1..take : f[i] = ReadUnit(f[i - 1], buf[i]) /\ buf[i] \in Units /\ f[i - 1] \in End /\ f[i] \in End
  /\ (\A i \in 0..(take - 1) : f[i].part # "head") /\ f[take].part # "junk" /\ RelayFits' => RelayInv'
  /\ (\A i \in 0..(take - 1) : f[i].part # "head") => server' = f[take]
Passes(left, pc) ==
  \E take \in 1..left :
    /\ take = IF Len(buf) < left THEN Len(buf) ELSE left
    /\ take <= Len(buf)
    /\ \E f \in [0..take -> End] : TakesAs(left, pc, take, f)

\* What is passed on of a body, and where that leaves the upstream.
LEMMA PassFrom ==
  ASSUME RelayInv, PassOn, NEW left \in Nat, NEW pc \in {"head", "line", "trailers"}, left >= 1, work = PassThen(left, pc)
  PROVE  Passes(left, pc)
<1>1. buf \in Seq(Units) /\ Len(buf) \in Nat /\ Len(buf) >= 1 /\ server \in End /\ ~wrong /\ UNCHANGED client /\ client \in End
  BY DEF RelayInv, PassOn
<1>2. work # Going("ended") /\ ReadUnits(server, buf) = client
  <2>1. work # Going("ended")
    BY WorkFits
  <2> QED BY <2>1 DEF RelayInv
<1>3. PICK take \in Nat : take = IF Len(buf) < left THEN Len(buf) ELSE left
  BY <1>1
<1>4. take \in 1..left /\ take \in 0..Len(buf) /\ take <= Len(buf) /\ take \in Nat
  BY <1>1, <1>3
<1>5. work.left = left /\ [work EXCEPT !.left = left - take] = PassThen(left - take, pc)
  BY WorkFits
<1>6. ToUpstream(SubSeq(buf, 1, take)) /\ buf' = Remainder(buf, take) /\ work' = PassThen(left - take, pc)
  BY <1>3, <1>5 DEF PassOn
<1>7. buf' \in Seq(Units) /\ Len(buf') = Len(buf) - take
  BY <1>1, <1>2, <1>4, <1>6, PassedOn
<1>8. PICK f \in [0..take -> End] :
              /\ f[0] = server /\ \A i \in 1..take : f[i] = ReadUnit(f[i - 1], buf[i])
              /\ (\A i \in 0..(take - 1) : f[i].part # "head")
                 => server' = f[take] /\ server' \in End /\ ~wrong' /\ ReadUnits(server', buf') = client'
  BY <1>1, <1>2, <1>4, <1>6, PassedOn
<1>9. \A i \in 1..take : buf[i] \in Units /\ f[i - 1] \in End /\ f[i] \in End
  <2> SUFFICES ASSUME NEW i \in 1..take PROVE buf[i] \in Units /\ f[i - 1] \in End /\ f[i] \in End
    OBVIOUS
  <2>1. i \in 1..Len(buf) /\ i - 1 \in 0..take /\ i \in 0..take
    BY <1>1, <1>4
  <2> QED BY <1>1, <1>8, <2>1
<1>10. ASSUME \A i \in 0..(take - 1) : f[i].part # "head", f[take].part # "junk", RelayFits' PROVE RelayInv'
  BY <1>1, <1>7, <1>8, <1>10 DEF RelayInv
<1>11. take = (IF Len(buf) < left THEN Len(buf) ELSE left)
  BY <1>3
<1> HIDE DEF PassThen
<1>12. TakesAs(left, pc, take, f)
  BY ONLY <1>6, <1>8, <1>9, <1>10 DEF TakesAs
<1> QED BY ONLY <1>4, <1>8, <1>11, <1>12 DEF Passes

LEMMA PassEnd ==
  ASSUME RelayInv, PassOn,
         work = PassThen(1, "head") /\ (server.part = "data" \/ (server.part = "blank" /\ Len(buf) >= 1 /\ buf[1] = Eol))
  PROVE  RelayInv'
<1>0. server.part = "data" \/ (server.part = "blank" /\ buf[1] = Eol)
  OBVIOUS
<1>1. Passes(1, "head")
  BY PassFrom
<1>2. PICK f : TakesAs(1, "head", 1, f)
  BY ONLY <1>1, (\A take \in 1..1 : take = 1) DEF Passes
<1>3. /\ work' = PassThen(0, "head") /\ f[0] = server
      /\ f[1] = ReadUnit(f[0], buf[1]) /\ buf[1] \in Units /\ f[0] \in End /\ f[1] \in End
  BY ONLY <1>2, 1 - 1 = 0, 1 \in 1..1 DEF TakesAs
<1>4. f[1].part = "start"
  BY ONLY <1>0, <1>3, BodyRead
<1>5. \A i \in 0..(1 - 1) : f[i].part # "head"
  <2>1. f[0].part # "head"
    BY ONLY <1>0, <1>3
  <2> QED BY <2>1
<1>6. server' = f[1] /\ work' = Going("head")
  BY ONLY <1>2, <1>3, <1>5, WorkFits DEF TakesAs
<1>7. RelayFits'
  BY ONLY <1>4, <1>6 DEF RelayFits
<1> QED BY ONLY <1>2, <1>4, <1>5, <1>7 DEF TakesAs

LEMMA PassChunk ==
  ASSUME RelayInv, PassOn,
         work = PassThen(4, "line") /\ server.part = "size" /\ Len(buf) >= 2 /\ buf[1] = One /\ buf[2] = Eol
  PROVE  RelayInv'
<1>0. server.part = "size" /\ Len(buf) >= 2 /\ Len(buf) \in Nat /\ buf[1] = One /\ buf[2] = Eol
  BY DEF RelayInv
<1>1. Passes(4, "line")
  BY PassFrom
<1>2. PICK take \in 1..4 : /\ take = (IF Len(buf) < 4 THEN Len(buf) ELSE 4)
                           /\ \E f \in [0..take -> End] : TakesAs(4, "line", take, f)
  BY ONLY <1>1 DEF Passes
<1>3. PICK f : TakesAs(4, "line", take, f)
  BY ONLY <1>2
<1>4. take \in {2, 3, 4}
  BY ONLY <1>0, <1>2
<1>5. /\ f[0] = server
      /\ \A i \in 1..take : f[i] = ReadUnit(f[i - 1], buf[i]) /\ buf[i] \in Units /\ f[i - 1] \in End /\ f[i] \in End
  BY ONLY <1>3 DEF TakesAs
<1>6. /\ f[1] = ReadUnit(f[0], buf[1]) /\ buf[1] \in Units /\ f[0] \in End /\ f[1] \in End
      /\ f[2] = ReadUnit(f[1], buf[2]) /\ buf[2] \in Units /\ f[2] \in End
  <2>1. 1 \in 1..take /\ 1 - 1 = 0 /\ 2 \in 1..take /\ 2 - 1 = 1
    BY ONLY <1>4
  <2> QED BY ONLY <1>5, <2>1
<1>7. f[1].part = "sized"
  BY ONLY <1>0, <1>5, <1>6, BodyRead
<1>8. f[2].part = "chunk"
  BY ONLY <1>0, <1>6, <1>7, BodyRead
<1>9. take # 2 => f[3].part = "crlf" /\ f[3] \in End
  <2>1. take # 2 => 3 \in 1..take /\ 3 - 1 = 2
    BY ONLY <1>4
  <2>2. take # 2 => f[3] = ReadUnit(f[2], buf[3]) /\ buf[3] \in Units /\ f[3] \in End
    BY ONLY <1>5, <2>1
  <2> QED BY ONLY <1>6, <1>8, <2>2, BodyRead
<1>10. take = 4 => f[4].part = "size"
  <2>1. take = 4 => 4 \in 1..take /\ 4 - 1 = 3 /\ take # 2
    BY ONLY <1>4
  <2>2. take = 4 => f[4] = ReadUnit(f[3], buf[4]) /\ buf[4] \in Units
    BY ONLY <1>5, <2>1
  <2> QED BY ONLY <1>9, <2>1, <2>2, BodyRead
<1>11. \A i \in 0..(take - 1) : f[i].part # "head"
  <2>1. \A i \in 0..(take - 1) : i \in {0, 1, 2} \/ (i = 3 /\ take # 2)
    BY ONLY <1>4
  <2>2. f[0].part # "head" /\ f[1].part # "head" /\ f[2].part # "head" /\ (take # 2 => f[3].part # "head")
    BY ONLY <1>0, <1>5, <1>7, <1>8, <1>9
  <2> QED BY ONLY <2>1, <2>2
<1>12. server' = f[take] /\ work' = PassThen(4 - take, "line")
  BY ONLY <1>3, <1>11 DEF TakesAs
<1>13. RelayFits' /\ f[take].part # "junk"
  <2>1. CASE take = 2
    <3>1. work' = PassThen(2, "line") /\ server'.part = "chunk" /\ f[take].part = "chunk"
      BY ONLY <1>8, <1>12, <2>1, 4 - 2 = 2
    <3> QED BY ONLY <3>1 DEF RelayFits
  <2>2. CASE take = 3
    <3>1. work' = PassThen(1, "line") /\ server'.part = "crlf" /\ f[take].part = "crlf"
      BY ONLY <1>9, <1>12, <2>2, 4 - 3 = 1, 3 # 2
    <3> QED BY ONLY <3>1 DEF RelayFits
  <2>3. CASE take = 4
    <3>1. work' = Going("line") /\ server'.part = "size" /\ f[take].part = "size"
      BY ONLY <1>10, <1>12, <2>3, 4 - 4 = 0, WorkFits
    <3> QED BY ONLY <3>1 DEF RelayFits
  <2> QED BY ONLY <1>4, <2>1, <2>2, <2>3
<1> QED BY ONLY <1>3, <1>11, <1>13 DEF TakesAs

LEMMA PassData ==
  ASSUME RelayInv, PassOn, work = PassThen(2, "line") /\ server.part = "chunk"
  PROVE  RelayInv'
<1>0. server.part = "chunk" /\ Len(buf) \in Nat
  BY DEF RelayInv
<1>1. Passes(2, "line")
  BY PassFrom
<1>2. PICK take \in 1..2 : \E f \in [0..take -> End] : TakesAs(2, "line", take, f)
  BY ONLY <1>1 DEF Passes
<1>3. PICK f : TakesAs(2, "line", take, f)
  BY ONLY <1>2
<1>4. take \in {1, 2}
  BY ONLY TRUE
<1>5. /\ f[0] = server
      /\ \A i \in 1..take : f[i] = ReadUnit(f[i - 1], buf[i]) /\ buf[i] \in Units /\ f[i - 1] \in End /\ f[i] \in End
  BY ONLY <1>3 DEF TakesAs
<1>6. f[1] = ReadUnit(f[0], buf[1]) /\ buf[1] \in Units /\ f[0] \in End /\ f[1] \in End
  <2>1. 1 \in 1..take /\ 1 - 1 = 0
    BY ONLY <1>4
  <2> QED BY ONLY <1>5, <2>1
<1>7. f[1].part = "crlf"
  BY ONLY <1>0, <1>5, <1>6, BodyRead
<1>8. take = 2 => f[2].part = "size"
  <2>1. take = 2 => 2 \in 1..take /\ 2 - 1 = 1
    BY ONLY <1>4
  <2>2. take = 2 => f[2] = ReadUnit(f[1], buf[2]) /\ buf[2] \in Units
    BY ONLY <1>5, <2>1
  <2> QED BY ONLY <1>6, <1>7, <2>2, BodyRead
<1>9. \A i \in 0..(take - 1) : f[i].part # "head"
  <2>1. \A i \in 0..(take - 1) : i \in {0, 1}
    BY ONLY <1>4
  <2>2. f[0].part # "head" /\ f[1].part # "head"
    BY ONLY <1>0, <1>5, <1>7
  <2> QED BY ONLY <2>1, <2>2
<1>10. server' = f[take] /\ work' = PassThen(2 - take, "line")
  BY ONLY <1>3, <1>9 DEF TakesAs
<1>11. RelayFits' /\ f[take].part # "junk"
  <2>1. CASE take = 1
    <3>1. work' = PassThen(1, "line") /\ server'.part = "crlf" /\ f[take].part = "crlf"
      BY ONLY <1>7, <1>10, <2>1, 2 - 1 = 1
    <3> QED BY ONLY <3>1 DEF RelayFits
  <2>2. CASE take = 2
    <3>1. work' = Going("line") /\ server'.part = "size" /\ f[take].part = "size"
      BY ONLY <1>8, <1>10, <2>2, 2 - 2 = 0, WorkFits
    <3> QED BY ONLY <3>1 DEF RelayFits
  <2> QED BY ONLY <1>4, <2>1, <2>2
<1> QED BY ONLY <1>3, <1>9, <1>11 DEF TakesAs

LEMMA PassChunkEnd ==
  ASSUME RelayInv, PassOn, work = PassThen(1, "line") /\ server.part = "crlf"
  PROVE  RelayInv'
<1>0. server.part = "crlf"
  OBVIOUS
<1>1. Passes(1, "line")
  BY PassFrom
<1>2. PICK f : TakesAs(1, "line", 1, f)
  BY ONLY <1>1, (\A take \in 1..1 : take = 1) DEF Passes
<1>3. /\ work' = PassThen(0, "line") /\ f[0] = server
      /\ f[1] = ReadUnit(f[0], buf[1]) /\ buf[1] \in Units /\ f[0] \in End /\ f[1] \in End
  BY ONLY <1>2, 1 - 1 = 0, 1 \in 1..1 DEF TakesAs
<1>4. f[1].part = "size"
  BY ONLY <1>0, <1>3, BodyRead
<1>5. \A i \in 0..(1 - 1) : f[i].part # "head"
  <2>1. f[0].part # "head"
    BY ONLY <1>0, <1>3
  <2> QED BY <2>1
<1>6. server' = f[1] /\ work' = Going("line")
  BY ONLY <1>2, <1>3, <1>5, WorkFits DEF TakesAs
<1>7. RelayFits'
  BY ONLY <1>4, <1>6 DEF RelayFits
<1> QED BY ONLY <1>2, <1>4, <1>5, <1>7 DEF TakesAs

LEMMA PassLastSize ==
  ASSUME RelayInv, PassOn,
         work = PassThen(2, "trailers") /\ server.part = "size" /\ Len(buf) >= 2 /\ buf[1] = Zero /\ buf[2] = Eol
  PROVE  RelayInv'
<1>0. server.part = "size" /\ Len(buf) >= 2 /\ Len(buf) \in Nat /\ buf[1] = Zero /\ buf[2] = Eol
  BY DEF RelayInv
<1>1. Passes(2, "trailers")
  BY PassFrom
<1>2. PICK take \in 1..2 : /\ take = (IF Len(buf) < 2 THEN Len(buf) ELSE 2)
                           /\ \E f \in [0..take -> End] : TakesAs(2, "trailers", take, f)
  BY ONLY <1>1 DEF Passes
<1>3. take = 2
  BY ONLY <1>0, <1>2
<1>4. PICK f : TakesAs(2, "trailers", 2, f)
  BY ONLY <1>2, <1>3
<1>5. /\ work' = PassThen(0, "trailers") /\ f[0] = server
      /\ f[1] = ReadUnit(f[0], buf[1]) /\ buf[1] \in Units /\ f[0] \in End /\ f[1] \in End
      /\ f[2] = ReadUnit(f[1], buf[2]) /\ buf[2] \in Units /\ f[2] \in End
  BY ONLY <1>4, 2 - 2 = 0, 1 - 1 = 0, 2 - 1 = 1, 1 \in 1..2, 2 \in 1..2 DEF TakesAs
<1>6. f[1].part = "last"
  BY ONLY <1>0, <1>5, BodyRead
<1>7. f[2].part = "blank"
  BY ONLY <1>0, <1>5, <1>6, BodyRead
<1>8. \A i \in 0..(2 - 1) : f[i].part # "head"
  <2>1. f[0].part # "head" /\ f[1].part # "head"
    BY ONLY <1>0, <1>5, <1>6
  <2> QED BY <2>1
<1>9. server' = f[2] /\ work' = Going("trailers")
  BY ONLY <1>4, <1>5, <1>8, WorkFits DEF TakesAs
<1>10. RelayFits'
  BY ONLY <1>7, <1>9 DEF RelayFits
<1> QED BY ONLY <1>4, <1>7, <1>8, <1>10 DEF TakesAs

LEMMA PassTrailer ==
  ASSUME RelayInv, PassOn, NEW n \in 2..Len(buf), work = PassThen(n, "trailers"), server.part = "blank",
         buf[n] = Eol, \A i \in 1..(n - 1) : buf[i] # Eol
  PROVE  RelayInv'
<1>0. server.part = "blank" /\ Len(buf) \in Nat /\ n \in 2..Len(buf) /\ n \in Nat /\ n >= 2 /\ buf[n] = Eol /\ \A i \in 1..(n - 1) : buf[i] # Eol
  BY DEF RelayInv
<1>1. Passes(n, "trailers")
  BY <1>0, PassFrom
<1>2. PICK take \in 1..n : /\ take = (IF Len(buf) < n THEN Len(buf) ELSE n)
                           /\ \E f \in [0..take -> End] : TakesAs(n, "trailers", take, f)
  BY ONLY <1>1 DEF Passes
<1>3. take = n
  BY ONLY <1>0, <1>2
<1>4. PICK f : TakesAs(n, "trailers", n, f)
  BY ONLY <1>2, <1>3
<1>5. /\ f[0] = server
      /\ \A i \in 1..n : f[i] = ReadUnit(f[i - 1], buf[i]) /\ buf[i] \in Units /\ f[i - 1] \in End /\ f[i] \in End
  BY ONLY <1>4 DEF TakesAs
<1> DEFINE T == {i \in 0..(n - 1) : f[i].part = IF i = 0 THEN "blank" ELSE "trailer"}
<1>6. 0 \in T
  BY ONLY <1>0, <1>5
<1>7. ASSUME NEW i \in 1..(n - 1), i - 1 \in T PROVE i \in T
  <2>1. i \in 1..n /\ buf[i] # Eol /\ i # 0 /\ i \in 0..(n - 1)
    BY ONLY <1>0, i \in 1..(n - 1)
  <2>2. f[i - 1].part = "blank" \/ f[i - 1].part = "trailer"
    BY ONLY <1>7
  <2>4. f[i] = ReadUnit(f[i - 1], buf[i]) /\ buf[i] \in Units /\ f[i - 1] \in End
    BY ONLY <1>5, <2>1
  <2>3. f[i].part = "trailer"
    BY ONLY <2>1, <2>2, <2>4, BodyRead
  <2> QED BY ONLY <2>1, <2>3
<1>8. 0..(n - 1) \subseteq T
  <2>1. n - 1 \in Nat
    BY ONLY <1>0
  <2> HIDE DEF T
  <2> QED BY <1>6, <1>7, <2>1, Reached
<1>9. \A i \in 0..(n - 1) : f[i].part # "head"
  BY ONLY <1>8
<1>10. f[n].part = "blank"
  <2>1. n - 1 \in 0..(n - 1) /\ n - 1 # 0 /\ n \in 1..n
    BY ONLY <1>0
  <2>2. f[n - 1].part = "trailer"
    BY ONLY <1>8, <2>1
  <2>3. f[n] = ReadUnit(f[n - 1], buf[n]) /\ buf[n] \in Units /\ f[n - 1] \in End
    BY ONLY <1>5, <2>1
  <2> QED BY ONLY <1>0, <2>2, <2>3, BodyRead
<1>11. server' = f[n] /\ work' = Going("trailers")
  <2>1. n - n = 0
    BY ONLY <1>0
  <2> QED BY ONLY <1>4, <1>9, <2>1, WorkFits DEF TakesAs
<1>12. RelayFits'
  BY ONLY <1>10, <1>11 DEF RelayFits
<1> QED BY ONLY <1>4, <1>9, <1>10, <1>12 DEF TakesAs

LEMMA PassOnFits ==
  ASSUME RelayInv, PassOn
  PROVE  RelayInv'
<1>1. work.left > 0
  BY DEF PassOn
<1>2. \A p : work # Going(p)
  BY <1>1, WorkFits
<1>3. RelayFits
  BY <1>2 DEF RelayInv
<1>4. CASE \E n \in 2..Len(buf) : /\ work = PassThen(n, "trailers") /\ server.part = "blank"
                                  /\ buf[n] = Eol /\ \A i \in 1..(n - 1) : buf[i] # Eol
  BY <1>4, PassTrailer
<1> QED BY ONLY RelayInv, PassOn, <1>2, <1>3, <1>4, PassEnd, PassChunk, PassData, PassChunkEnd, PassLastSize DEF RelayFits

LEMMA EolsStay ==
  ASSUME NEW end \in End, end.part = "start"
  PROVE  ReadUnit(end, Eol) = end
<1>1. Eol[1] = "eol"
  BY DEF Eol
<1> QED BY <1>1 DEF ReadUnit

\* The proxy ends the stream: what it has not passed on stays with it.
LEMMA BailFits ==
  ASSUME RelayInv, Bail
  PROVE  RelayInv'
BY DEF RelayInv, Bail

LEMMA SpliceFits ==
  ASSUME RelayInv, Splice
  PROVE  RelayInv'
<1>1. buf \in Seq(Units) /\ server \in End /\ client \in End /\ ~wrong /\ Len(buf) \in Nat
  BY DEF RelayInv
<1>2. server.part = "opaque" /\ ReadUnits(server, buf) = client
  <2>1. work.left = 0 /\ work.pc = "splice"
    BY WorkFits DEF Splice
  <2> QED BY <2>1, NothingLeft
<1>3. ToUpstream(buf) /\ buf' = <<>> /\ UNCHANGED <<work, client>> /\ work = Going("splice")
  BY DEF Splice
<1>4. PICK f : f = [i \in 0..Len(buf) |-> server]
  OBVIOUS
<1>5. \A u : ReadUnit(server, u) = server
  BY <1>2 DEF ReadUnit
<1>6. Along(f, server, buf) /\ f[Len(buf)] = server
  <2>1. 0 \in 0..Len(buf) /\ Len(buf) \in 0..Len(buf) /\ \A i \in 1..Len(buf) : i \in 0..Len(buf) /\ i - 1 \in 0..Len(buf)
    BY <1>1
  <2> QED BY <1>1, <1>4, <1>5, <2>1 DEF Along
<1>7. \A i \in 1..Len(buf) : f[i - 1].part # "head" /\ (buf[i][1] = "stamped" => f[i - 1].part = "start")
  <2> SUFFICES ASSUME NEW i \in 1..Len(buf) PROVE f[i - 1].part # "head" /\ (buf[i][1] = "stamped" => f[i - 1].part = "start")
    OBVIOUS
  <2>1. i - 1 \in 0..Len(buf) /\ buf[i] \in Units
    BY <1>1
  <2>2. f[i - 1].part = "opaque" /\ buf[i][1] # "stamped"
    BY <1>2, <1>4, <2>1, UnitFits
  <2> QED BY <2>2
<1>8. server' = server /\ ~wrong'
  BY <1>1, <1>3, <1>6, <1>7, Passed
<1>9. client' = server' /\ ReadUnits(server', buf') = server'
  BY <1>1, <1>2, <1>3, <1>8, OpaqueRead, ReadFew
<1>10. buf' \in Seq(Units)
  <2>1. <<>> \in Seq(Units)
    OBVIOUS
  <2> QED BY <1>3, <2>1
<1>11. RelayFits'
  BY ONLY <1>2, <1>3, <1>8 DEF RelayFits
<1> QED BY <1>1, <1>2, <1>8, <1>9, <1>10, <1>11 DEF RelayInv

\* What is left of a head when the client closes is no head to the upstream.
LEMMA FragmentPassed ==
  ASSUME buf \in Seq(Units), server \in End, server.part = "start", ~wrong, Partial, ToUpstream(buf)
  PROVE  server' \in End /\ server'.part # "junk" /\ ~wrong'
<1>1. PICK n \in 0..Len(buf) : /\ Parsed = Remainder(buf, n) /\ Len(Parsed) = Len(buf) - n
                               /\ \A i \in 1..n : buf[i] = Eol
  BY ParsedFits
<1>2. PICK L \in Nat : L = Len(buf)
  OBVIOUS
<1>3. n \in Nat /\ n \in 0..L /\ \A i \in 1..L : buf[i] \in Units
  BY <1>2
<1>4. L = n \/ (L = n + 1 /\ IsHead(buf[n + 1]))
  <2>1. CASE Parsed = <<>>
    BY <1>1, <1>2, <1>3, <2>1
  <2>2. CASE Len(Parsed) = 1 /\ IsHead(Parsed[1])
    <3>1. L = n + 1 /\ 1 \in 1..(Len(buf) - n)
      <4>1. L - n = 1
        BY ONLY <1>1, <1>2, <2>2
      <4>2. L = n + 1
        BY ONLY <1>2, <1>3, <4>1
      <4> QED BY ONLY <1>2, <4>1, <4>2, 1 \in 1..1
    <3>2. Parsed[1] = buf[n + 1]
      BY <1>1, <3>1, SplitAt
    <3> QED BY <2>2, <3>1, <3>2
  <2> QED BY <2>1, <2>2 DEF Partial
<1>5. PICK last \in End : last = ReadUnit(server, buf[n + 1])
  BY ReadUnitEnd
<1>6. PICK g : g = [i \in 0..L |-> IF i <= n THEN server ELSE last]
  OBVIOUS
<1>7. g \in [0..L -> End] /\ g[0] = server /\ \A i \in 1..L : i - 1 \in 0..L /\ i - 1 <= n /\ g[i - 1] = server
  <2>1. 0 \in 0..L /\ 0 <= n
    BY <1>3
  <2>2. \A i \in 1..L : i - 1 \in 0..L /\ i - 1 <= n
    BY <1>3, <1>4
  <2> QED BY <1>6, <2>1, <2>2
<1>8. \A i \in 1..L : g[i] = ReadUnit(g[i - 1], buf[i])
  <2> SUFFICES ASSUME NEW i \in 1..L PROVE g[i] = ReadUnit(server, buf[i])
    BY <1>7
  <2>1. i \in 0..L /\ (i \in 1..n \/ (i = n + 1 /\ ~(i <= n)))
    BY <1>3, <1>4
  <2>2. CASE i \in 1..n
    <3>1. g[i] = server /\ buf[i] = Eol
      BY <1>1, <1>6, <2>1, <2>2
    <3> QED BY <3>1, EolsStay
  <2>3. CASE i = n + 1 /\ ~(i <= n)
    BY <1>5, <1>6, <2>1, <2>3
  <2> QED BY <2>1, <2>2, <2>3
<1>9. Along(g, server, buf)
  BY <1>2, <1>7, <1>8 DEF Along
<1>10. \A i \in 1..Len(buf) : g[i - 1].part # "head" /\ (buf[i][1] = "stamped" => g[i - 1].part = "start")
  BY <1>2, <1>7
<1>11. server' = g[Len(buf)] /\ ~wrong' /\ server' \in End
  BY <1>9, <1>10, Passed
<1>12. g[L].part # "junk"
  <2>1. CASE L = n
    <3>1. g[L] = server
      BY <1>3, <1>6, <2>1
    <3> QED BY <3>1
  <2>2. CASE L = n + 1 /\ IsHead(buf[n + 1])
    <3>1. L \in 0..L /\ ~(L <= n)
      BY <1>3, <2>2
    <3>2. g[L] = last
      BY <1>6, <3>1
    <3>3. last.part = "head"
      BY <1>5, <2>2 DEF ReadUnit, IsHead
    <3> QED BY <3>2, <3>3
  <2> QED BY <1>4, <2>1, <2>2
<1> QED BY <1>2, <1>11, <1>12

LEMMA ReadEndFits ==
  ASSUME RelayInv, ReadEnd
  PROVE  RelayInv'
<1>1. work' = Going("ended") /\ UNCHANGED client /\ client \in End
  BY DEF RelayInv, ReadEnd
<1>2. CASE work = Going("head")
  <2>1. ToUpstream(buf) /\ buf' = <<>>
    BY <1>2 DEF ReadEnd
  <2>2. work.left = 0 /\ work.pc = "head"
    BY <1>2, WorkFits
  <2>3. Partial
    BY <2>2 DEF ReadEnd, Starved, Waiting
  <2>4. server.part = "start"
    BY <2>2, NothingLeft
  <2>5. server' \in End /\ server'.part # "junk" /\ ~wrong'
    BY <2>1, <2>3, <2>4, FragmentPassed DEF RelayInv
  <2>6. <<>> \in Seq(Units)
    OBVIOUS
  <2> QED BY <1>1, <2>1, <2>5, <2>6 DEF RelayInv
<1>3. CASE work # Going("head")
  BY <1>1, <1>3 DEF ReadEnd, RelayInv
<1> QED BY <1>2, <1>3

\* The proxy has a whole head, and is at the beginning of one.
LEMMA WholeHead ==
  ASSUME RelayInv, ForwardHead
  PROVE  /\ buf \in Seq(Units) /\ server \in End /\ client \in End /\ ~wrong /\ server.part = "start"
         /\ Parsed \in Seq(Units) /\ Len(Parsed) >= 2 /\ Len(Parsed) \in Nat /\ Parsed[2] = Eol /\ BodyOf(Parsed[1][2]) # "bad"
         /\ ReadUnits(server, Parsed) = client
         /\ \E h \in HeadsSent : Parsed[1] = HeadUnit(h) /\ Parsed[1][2] = h
<1>1. buf \in Seq(Units) /\ server \in End /\ client \in End /\ ~wrong
  BY DEF RelayInv
<1>2. server.part = "start" /\ ReadUnits(server, buf) = client
  <2>1. work.left = 0 /\ work.pc = "head"
    BY WorkFits DEF ForwardHead
  <2> QED BY <2>1, NothingLeft
<1>3. Parsed \in Seq(Units) /\ ReadUnits(server, Parsed) = client
  BY <1>1, <1>2, ParsedFits
<1>4. ~Partial /\ IsHead(Parsed[1]) /\ Parsed[2] = Eol /\ BodyOf(Parsed[1][2]) # "bad"
  BY DEF ForwardHead, Malformed
<1>5. Len(Parsed) \in Nat /\ Len(Parsed) # 0 /\ Len(Parsed) # 1
  <2>1. Len(Parsed) \in Nat
    BY ONLY <1>3
  <2>2. Parsed # <<>> /\ Len(Parsed) # 1
    BY ONLY <1>4 DEF Partial
  <2>3. Len(Parsed) # 0
    BY ONLY <1>3, <2>2
  <2> QED BY <2>1, <2>2, <2>3
<1>6. Len(Parsed) >= 2 /\ 1 \in 1..Len(Parsed)
  <2>1. \A n \in Nat : n # 0 /\ n # 1 => n >= 2 /\ 1 \in 1..n
    BY ONLY TRUE
  <2> QED BY ONLY <1>5, <2>1
<1>7. Parsed[1] \in Units
  BY ONLY <1>3, <1>6
<1>8. PICK h \in HeadsSent : Parsed[1] = HeadUnit(h)
  BY <1>4, <1>7, UnitFits
<1>9. Parsed[1][2] = h
  BY ONLY <1>8 DEF HeadUnit
<1> QED BY <1>1, <1>2, <1>3, <1>4, <1>5, <1>6, <1>8, <1>9

\* A stamped head and its end, and what the upstream takes the rest for.
LEMMA StampPassed ==
  ASSUME server \in End, server.part = "start", ~wrong, NEW h \in HeadsSent,
         NEW rest \in Seq(Units), Len(rest) >= 1 /\ rest[1] = Eol, Len(rest) = 1 \/ Announced(h) = "opaque",
         ToUpstream(<<Stamp(HeadUnit(h))>> \o rest)
  PROVE  server' = ReadTo(Announced(h)) /\ ~wrong' /\ server' \in End
<1>1. PICK st : st = Stamp(HeadUnit(h))
  OBVIOUS
<1>2. st[1] = "stamped" /\ Announced(st[2]) = Announced(h)
  BY <1>1, StampFits
<1>3. PICK S : S = Units \cup {st}
  OBVIOUS
<1>4. PICK units : units = <<st>> \o rest
  OBVIOUS
<1>5. PICK L \in Nat : L = Len(rest)
  OBVIOUS
<1>6. /\ units \in Seq(S) /\ Len(units) = L + 1 /\ L >= 1
      /\ units[1] = st /\ \A i \in 1..L : units[i + 1] = rest[i] /\ rest[i] \in Units
  <2>1. <<st>> \in Seq(S) /\ rest \in Seq(S) /\ Len(<<st>>) = 1 /\ <<st>>[1] = st
    BY <1>3
  <2>2. \A i \in 1..L : rest[i] \in Units
    BY <1>5
  <2> QED BY <1>4, <1>5, <2>1, <2>2
<1>7. PICK mid \in End, next \in End : mid = [part |-> "stamped", then |-> Announced(h)] /\ next = ReadTo(Announced(h))
  <2>1. Announced(h) \in Parts
    BY ReadToEnd DEF Parts
  <2> QED BY <2>1 DEF End, Parts, ReadTo
<1>8. ReadUnit(server, st) = mid /\ ReadUnit(mid, Eol) = next
  <2>1. ReadUnit(server, st) = mid
    BY <1>2, <1>7 DEF ReadUnit
  <2>2. mid.part = "stamped" /\ mid.then = Announced(h)
    BY ONLY <1>7
  <2> QED BY <1>7, <2>1, <2>2 DEF ReadUnit
<1>9. L = 1 \/ \A u : ReadUnit(next, u) = next
  <2>1. L = 1 \/ next.part = "opaque"
    BY <1>5, <1>7 DEF ReadTo
  <2>2. next.part = "opaque" => \A u : ReadUnit(next, u) = next
    BY DEF ReadUnit
  <2> QED BY <2>1, <2>2
<1>10. PICK g : g = [i \in 0..(L + 1) |-> IF i = 0 THEN server ELSE IF i = 1 THEN mid ELSE next]
  OBVIOUS
<1>11. g \in [0..(L + 1) -> End] /\ g[0] = server /\ g[1] = mid /\ \A i \in 2..(L + 1) : g[i] = next
  <2>1. 0 \in 0..(L + 1) /\ 1 \in 0..(L + 1) /\ 1 # 0 /\ \A i \in 2..(L + 1) : i \in 0..(L + 1) /\ i # 0 /\ i # 1
    BY <1>6
  <2> QED BY <1>10, <2>1
<1>12. \A i \in 1..(L + 1) :
         /\ g[i] = ReadUnit(g[i - 1], units[i])
         /\ g[i - 1].part # "head" /\ (units[i][1] = "stamped" => g[i - 1].part = "start")
  <2> SUFFICES ASSUME NEW i \in 1..(L + 1)
               PROVE  /\ g[i] = ReadUnit(g[i - 1], units[i])
                      /\ g[i - 1].part # "head" /\ (units[i][1] = "stamped" => g[i - 1].part = "start")
    OBVIOUS
  <2>1. i = 1 \/ (i = 2 /\ 1 \in 1..L) \/ (i \in 3..(L + 1) /\ L # 1 /\ i - 1 \in 1..L /\ i - 1 \in 2..(L + 1) /\ i \in 2..(L + 1))
    BY <1>6
  <2>2. CASE i = 1
    <3>1. i - 1 = 0
      BY <2>2
    <3>2. g[i - 1] = server /\ units[i] = st /\ g[i] = mid
      BY ONLY <1>6, <1>11, <2>2, <3>1
    <3> QED BY <1>8, <3>2
  <2>3. CASE i = 2 /\ 1 \in 1..L
    <3>1. i - 1 = 1 /\ 2 \in 2..(L + 1) /\ 1 + 1 = 2
      BY <1>6, <2>3
    <3>2. g[i - 1] = mid /\ g[i] = next
      BY ONLY <1>11, <2>3, <3>1
    <3>3. units[i] = Eol
      BY <1>6, <2>3, <3>1
    <3>4. mid.part = "stamped"
      BY ONLY <1>7
    <3>5. Eol[1] # "stamped"
      BY DEF Eol
    <3> QED BY ONLY <1>8, <3>2, <3>3, <3>4, <3>5
  <2>4. CASE i \in 3..(L + 1) /\ L # 1 /\ i - 1 \in 1..L /\ i - 1 \in 2..(L + 1) /\ i \in 2..(L + 1)
    <3>1. g[i - 1] = next /\ g[i] = next
      BY ONLY <1>11, <2>4
    <3>2. units[i] \in Units
      <4>1. (i - 1) + 1 = i
        BY <2>4
      <4> QED BY ONLY <1>6, <2>4, <4>1
    <3>3. units[i][1] # "stamped"
      BY <3>2, UnitFits
    <3>4. next.part # "head"
      BY <1>7, ReadToEnd DEF ReadTo
    <3> QED BY <1>9, <2>4, <3>1, <3>3, <3>4
  <2> QED BY ONLY <2>1, <2>2, <2>3, <2>4
<1>13. Along(g, server, units)
  BY <1>6, <1>11, <1>12 DEF Along
<1>14. \A i \in 1..Len(units) : g[i - 1].part # "head" /\ (units[i][1] = "stamped" => g[i - 1].part = "start")
  BY <1>6, <1>12
<1>15. server' = g[Len(units)] /\ ~wrong' /\ server' \in End
  <2>1. ToUpstream(units)
    BY <1>1, <1>4
  <2> QED BY <1>6, <1>13, <1>14, <2>1, Passed
<1>16. g[L + 1] = next
  <2>1. L + 1 \in 2..(L + 1)
    BY <1>6
  <2> QED BY ONLY <1>11, <2>1
<1> QED BY <1>6, <1>7, <1>15, <1>16

LEMMA AfterOne == \A a, b : <<a>> \o <<b>> = <<a, b>>
<1> SUFFICES ASSUME NEW a, NEW b PROVE <<a>> \o <<b>> = <<a, b>>
  OBVIOUS
<1>1. PICK S : S = {a, b}
  OBVIOUS
<1>20. PICK x \in Seq(S), y \in Seq(S) : x = <<a>> /\ y = <<b>> /\ Len(x) = 1 /\ Len(y) = 1 /\ x[1] = a /\ y[1] = b
  <2>1. <<a>> \in Seq(S) /\ <<b>> \in Seq(S)
    BY <1>1
  <2> QED BY <2>1
<1>2. PICK s \in Seq(S), t \in Seq(S) : s = x \o y /\ t = <<a, b>>
  <2>1. <<a, b>> \in Seq(S)
    BY <1>1
  <2>2. x \o y \in Seq(S)
    BY <1>20
  <2> QED BY <2>1, <2>2
<1>3. Len(s) = 2 /\ Len(t) = 2 /\ s[1] = a /\ s[2] = b /\ t[1] = a /\ t[2] = b
  BY <1>20, <1>2
<1>4. \A i \in 1..Len(s) : s[i] = t[i]
  BY <1>3
<1>5. s = t
  BY <1>3, <1>4, SeqEqual
<1> QED BY <1>2, <1>20, <1>5

LEMMA ForwardHeadFits ==
  ASSUME RelayInv, ForwardHead, OneLength
  PROVE  RelayInv'
<1>1. /\ buf \in Seq(Units) /\ server \in End /\ client \in End /\ ~wrong /\ server.part = "start"
      /\ Parsed \in Seq(Units) /\ Len(Parsed) >= 2 /\ Len(Parsed) \in Nat /\ Parsed[2] = Eol /\ BodyOf(Parsed[1][2]) # "bad"
      /\ ReadUnits(server, Parsed) = client
      /\ \E h \in HeadsSent : Parsed[1] = HeadUnit(h) /\ Parsed[1][2] = h
  BY WholeHead
<1>2. PICK h \in HeadsSent : Parsed[1] = HeadUnit(h) /\ Parsed[1][2] = h
  BY <1>1
<1>3. Remainder(Parsed, 2) \in Seq(Units) /\ client = ReadUnits(ReadTo(Announced(h)), Remainder(Parsed, 2)) /\ ReadTo(Announced(h)) \in End
  BY <1>1, <1>2, HeadIsRead
<1>4. UNCHANGED client
  BY DEF ForwardHead
<1>5. /\ BodyOf(h) # "bad"
      /\ IF Upgrades(h) THEN Announced(h) = "opaque"
         ELSE \/ BodyOf(h) = "chunked" /\ Announced(h) = "size"
              \/ BodyOf(h) = "cl1" /\ Announced(h) = "data"
              \/ BodyOf(h) = "cl0" /\ Announced(h) = "start"
  BY <1>1, <1>2, BodyFits
<1>6. CASE Upgrades(h)
  <2>1. /\ ToUpstream(<<Stamp(HeadUnit(h))>> \o Remainder(Parsed, 1)) /\ buf' = <<>> /\ work' = Going("splice")
    BY <1>2, <1>6 DEF ForwardHead
  <2>2. Remainder(Parsed, 1) \in Seq(Units) /\ Len(Remainder(Parsed, 1)) >= 1 /\ Remainder(Parsed, 1)[1] = Eol
    <3>1. 1 \in 0..Len(Parsed) /\ 1 \in 1..(Len(Parsed) - 1) /\ 1 + 1 = 2 /\ Len(Parsed) - 1 >= 1
      BY ONLY <1>1
    <3> QED BY <1>1, <3>1, SplitAt
  <2>3. server' = ReadTo("opaque") /\ ~wrong' /\ server' \in End
    BY <1>1, <1>5, <1>6, <2>1, <2>2, StampPassed
  <2>4. server'.part = "opaque"
    BY ONLY <2>3 DEF ReadTo
  <2>5. client = server'
    BY <1>3, <1>5, <1>6, <2>3, <2>4, OpaqueRead
  <2>6. ReadUnits(server', buf') = client' /\ client' \in End
    BY <1>4, <2>1, <2>3, <2>5, ReadFew
  <2>7. buf' \in Seq(Units)
    BY ONLY <2>1, <<>> \in Seq(Units)
  <2>8. RelayFits'
    BY ONLY <2>1, <2>4 DEF RelayFits
  <2> QED BY <2>3, <2>4, <2>6, <2>7, <2>8 DEF RelayInv
<1>7. CASE ~Upgrades(h)
  <2>1. /\ ToUpstream(<<Stamp(HeadUnit(h)), Eol>>) /\ buf' = Remainder(Parsed, 2) /\ work' = PassBody(BodyOf(h))
    BY <1>2, <1>7 DEF ForwardHead
  <2>2. PICK rest \in Seq(Units) : rest = <<Eol>> /\ Len(rest) = 1 /\ rest[1] = Eol
    <3>1. <<Eol>> \in Seq(Units)
      BY DEF Units
    <3> QED BY <3>1
  <2>3. ToUpstream(<<Stamp(HeadUnit(h))>> \o rest)
    BY ONLY <2>1, <2>2, AfterOne
  <2>4. server' = ReadTo(Announced(h)) /\ ~wrong' /\ server' \in End
    <3>1. Len(rest) >= 1
      BY <2>2
    <3> QED BY <1>1, <2>2, <2>3, <3>1, StampPassed
  <2>5. ReadUnits(server', buf') = client' /\ client' \in End /\ buf' \in Seq(Units)
    BY <1>1, <1>3, <1>4, <2>1, <2>4
  <2>6. server'.part = Announced(h)
    BY ONLY <2>4 DEF ReadTo
  <2>7. RelayFits' /\ server'.part # "junk"
    <3>1. CASE BodyOf(h) = "chunked" /\ Announced(h) = "size"
      <4>1. work' = Going("line") /\ server'.part = "size"
        BY ONLY <2>1, <2>6, <3>1 DEF PassBody
      <4> QED BY ONLY <4>1 DEF RelayFits
    <3>2. CASE BodyOf(h) = "cl1" /\ Announced(h) = "data"
      <4>1. work' = PassThen(1, "head") /\ server'.part = "data"
        BY ONLY <2>1, <2>6, <3>2 DEF PassBody
      <4> QED BY ONLY <4>1 DEF RelayFits
    <3>3. CASE BodyOf(h) = "cl0" /\ Announced(h) = "start"
      <4>1. work' = Going("head") /\ server'.part = "start"
        BY ONLY <2>1, <2>6, <3>3 DEF PassBody
      <4> QED BY ONLY <4>1 DEF RelayFits
    <3> QED BY ONLY <1>5, <1>7, <3>1, <3>2, <3>3
  <2> QED BY <2>4, <2>5, <2>7 DEF RelayInv
<1> QED BY <1>6, <1>7

LEMMA RelayStutter == ASSUME RelayInv, UNCHANGED relayVars PROVE RelayInv'
<1>1. buf' = buf /\ work' = work /\ client' = client /\ server' = server /\ wrong' = wrong
  BY DEF relayVars
<1> QED BY <1>1 DEF RelayInv, RelayFits

\* The two ends agree for ever: what the upstream takes for a request head is
\* one the client meant as a head, and is stamped.  The hypothesis is that no
\* head states two lengths that disagree, which RFC 9112, 6.3 has every
\* recipient refuse; the code takes the last of them (relay.rs parse_head).
THEOREM EndsAlwaysAgree ==
  ASSUME OneLength
  PROVE  RelaySpec => []EndsAgree
<1>1. RelayInit => RelayInv
  BY RelayInitFits
<1>2. RelayInv /\ [RelayNext]_relayVars => RelayInv'
  <2> SUFFICES ASSUME RelayInv, [RelayNext]_relayVars PROVE RelayInv'
    OBVIOUS
  <2>1. CASE ForwardHead
    BY <2>1, ForwardHeadFits
  <2>2. CASE PassOn
    BY <2>2, PassOnFits
  <2>3. CASE ForwardChunk
    BY <2>3, ForwardChunkFits
  <2>4. CASE ForwardTrailer
    BY <2>4, ForwardTrailerFits
  <2>5. CASE Splice
    BY <2>5, SpliceFits
  <2>6. CASE BailOut
    BY <2>6, BailFits DEF BailOut
  <2>7. CASE ReadMore
    BY <2>7, ReadMoreFits
  <2>8. CASE ReadEnd
    BY <2>8, ReadEndFits
  <2>9. CASE UNCHANGED relayVars
    BY <2>9, RelayStutter
  <2> QED BY <2>1, <2>2, <2>3, <2>4, <2>5, <2>6, <2>7, <2>8, <2>9 DEF RelayNext
<1>3. RelayInv => EndsAgree
  <2> SUFFICES ASSUME RelayInv PROVE EndsAgree
    OBVIOUS
  <2>1. work.pc # "ended" => work # Going("ended")
    BY WorkFits
  <2> QED BY <2>1 DEF RelayInv, EndsAgree
<1> QED BY <1>1, <1>2, <1>3, PTL DEF RelaySpec
===============================================================================
