------------------------------- MODULE Proxy -------------------------------
(***************************************************************************)
(* The connections of the HTTP proxy (proxy.rs) and of the TLS proxy       *)
(* (tls_proxy.rs): the first request of a connection is looked up, on an   *)
(* egress route admitted and given its credential, and its connection is    *)
(* joined to the upstream's, while routes, grants and secrets change.        *)
(* Relay.tla has what happens on a joined connection, GrantStore.tla what    *)
(* a grant is, SecretsCache.tla what a provider answers.                     *)
(***************************************************************************)
EXTENDS Naturals

CONSTANTS
    Conns,
    ProxyHosts,
    HostEntries,   \* what a host may be routed to: [mode, target, block, guarded, container]
    EgressBlocks,
    Requests,      \* [host, start, bearer, origin, crossSite]: what clients send first
    NoEntry, NoBlock, NoValue,
    KnownTo,       \* of a host: which of "service", "mapping" and "label" can start it
    ManagedBroker, \* does the daemon run as a managed broker?
    MaxChanges     \* of routes, grants and secrets

Credentials == {"v1", "v2", "newline"}
ASSUME ProxyAssumption ==
    /\ \A e \in HostEntries : e # NoEntry /\ e.mode \in {"http", "tcp", "egress"}
    /\ NoValue \notin Credentials

VARIABLES
    routeOf,  \* the registry
    granted, \* <<host, entry>>: the routes that the caller's bearer has a grant for
    blockValue,   \* the value behind the key of a block, NoValue if there is none
    conns,   \* the tasks of the connections
    lately,  \* history: the worlds since a connection's request was read
    changes

proxyVars == <<routeOf, granted, blockValue, conns, lately, changes>>

World == [routeOf |-> routeOf, granted |-> granted, blockValue |-> blockValue]
NotConnected == [pc |-> "none"]

ProxyInit ==
    /\ routeOf \in [ProxyHosts -> HostEntries \cup {NoEntry}]
    /\ granted \in {{}, ProxyHosts \X HostEntries}
    /\ blockValue = [b \in EgressBlocks |-> "v1"]
    /\ conns = [c \in Conns |-> NotConnected]
    /\ lately = [c \in Conns |-> {}]
    /\ changes = 0

-----------------------------------------------------------------------------
(* serve, read_request_head, read_host.                                      *)

AcceptConn(c) ==
    /\ conns[c] = NotConnected
    /\ \E tls \in BOOLEAN : conns' = [conns EXCEPT ![c] = [pc |-> "head", tls |-> tls]]
    /\ UNCHANGED <<routeOf, granted, blockValue, lately, changes>>

\* An answer, and the end of the connection.
Answered(c, code) ==
    /\ conns' = [conns EXCEPT ![c] = [pc |-> "answered", code |-> code]]
    /\ lately' = [lately EXCEPT ![c] = {}]
    /\ UNCHANGED <<routeOf, granted, blockValue, changes>>

\* It took too long, has no Host, or is too large; or the client went away (0).
HeadRefused(c) ==
    /\ conns[c].pc = "head"
    /\ \E code \in {0, 400, 408, 431} : Answered(c, code)

HeadRead(c) ==
    /\ conns[c].pc = "head"
    /\ \E r \in Requests :
         conns' = [conns EXCEPT ![c] = [pc |-> "lookup", tls |-> @.tls, req |-> r]]
    /\ lately' = [lately EXCEPT ![c] = {World}]
    /\ UNCHANGED <<routeOf, granted, blockValue, changes>>

-----------------------------------------------------------------------------
(* handle_connection and tls_proxy's handle.                                 *)

EntryOf(h) == IF h \in ProxyHosts THEN routeOf[h] ELSE NoEntry

\* The entry is cloned, and all that follows goes by the clone.
With(conn, pc, entry) ==
    [pc |-> pc, tls |-> conn.tls, req |-> conn.req, entry |-> entry,
     target |-> entry.target, value |-> NoValue]
LookUpRoute(c) ==
    /\ conns[c].pc = "lookup"
    /\ LET conn == conns[c]
           entry == EntryOf(conn.req.host)
       IN  IF entry = NoEntry THEN Answered(c, 404)
           ELSE IF entry.mode = "tcp" \/ (entry.mode = "egress" /\ conn.tls) THEN Answered(c, 502)
           ELSE /\ conns' = [conns EXCEPT ![c] =
                     With(conn, IF entry.mode = "egress" THEN "admit" ELSE "connect", entry)]
                /\ UNCHANGED <<routeOf, granted, blockValue, lately, changes>>

-----------------------------------------------------------------------------
(* handle_egress.                                                            *)

CrossOrigin(req) == req.origin = "other" \/ req.crossSite

\* CredentialSource::authorize.
Authorize(req, entry) ==
    (ManagedBroker \/ entry.guarded) => req.bearer /\ <<req.host, entry>> \in granted

\* Before the credential is touched: a page of another site cannot spend it.
AdmitEgress(c) ==
    /\ conns[c].pc = "admit"
    /\ LET conn == conns[c]
       IN  IF CrossOrigin(conn.req) THEN Answered(c, 403)
           ELSE IF conn.entry.block = NoBlock THEN Answered(c, 502)
           ELSE IF ~Authorize(conn.req, conn.entry) THEN Answered(c, 403)
           ELSE /\ conns' = [conns EXCEPT ![c].pc = "resolve"]
                /\ UNCHANGED <<routeOf, granted, blockValue, lately, changes>>

\* resolve_egress_value, and the look at what it returns.
ResolveCredential(c) ==
    /\ conns[c].pc = "resolve"
    /\ LET value == blockValue[conns[c].entry.block]
       IN  IF value \in {NoValue, "newline"} THEN Answered(c, 502)
           ELSE /\ conns' = [conns EXCEPT ![c].pc = "connect", ![c].value = value]
                /\ UNCHANGED <<routeOf, granted, blockValue, lately, changes>>

-----------------------------------------------------------------------------
(* The connect of either path.                                               *)

\* Mutant: the host is looked up again when the upstream is dialled.
DialCurrent(c) ==
    /\ conns[c].pc = "connect"
    /\ EntryOf(conns[c].req.host) # NoEntry
    /\ conns' = [conns EXCEPT ![c].pc = "joined", ![c].target = routeOf[conns[c].req.host].target]
    /\ UNCHANGED <<routeOf, granted, blockValue, lately, changes>>
\* The upstream is there: from here on the bytes are its and the client's.  An
\* egress head is rewritten: caller-owned fields go, the credential comes, and
\* Connection: close makes it the only request.
Dial(c) ==
    /\ conns[c].pc = "connect"
    /\ conns' = [conns EXCEPT ![c].pc = "joined"]
    /\ UNCHANGED <<routeOf, granted, blockValue, lately, changes>>

\* It refuses: the one moment the reserved path is looked at.
DialFails(c) ==
    /\ conns[c].pc = "connect"
    /\ LET conn == conns[c]
       IN  IF conn.entry.mode # "egress" /\ ~conn.tls /\ conn.req.start
           THEN /\ conns' = [conns EXCEPT ![c].pc = "start"]
                /\ UNCHANGED <<routeOf, granted, blockValue, lately, changes>>
           ELSE Answered(c, 502)

DialTimesOut(c) == conns[c].pc = "connect" /\ Answered(c, 504)

-----------------------------------------------------------------------------
(* handle_start_request and Runner::start: who knows the host, in this order. *)

Ranks == [service |-> 1, mapping |-> 2, container |-> 3, label |-> 4]
StartedBy(h) ==
    LET known == KnownTo[h] \cup (IF EntryOf(h) # NoEntry /\ EntryOf(h).container THEN {"container"} ELSE {})
    IN  {k \in known : \A j \in known : Ranks[k] <= Ranks[j]}

StartBackend(c) ==
    /\ conns[c].pc = "start"
    /\ LET req == conns[c].req
       IN  IF req.origin = "other" THEN Answered(c, 403)
           ELSE \/ Answered(c, 502)
                \/ /\ ~ManagedBroker
                   /\ \E starter \in StartedBy(req.host) :
                        conns' = [conns EXCEPT ![c] = [pc |-> "started", req |-> req,
                                                       entry |-> @.entry, by |-> starter]]
                   /\ UNCHANGED <<routeOf, granted, blockValue, lately, changes>>

CloseConn(c) ==
    /\ conns[c].pc \in {"joined", "answered", "started"}
    /\ conns' = [conns EXCEPT ![c] = NotConnected] /\ lately' = [lately EXCEPT ![c] = {}]
    /\ UNCHANGED <<routeOf, granted, blockValue, changes>>

-----------------------------------------------------------------------------
\* The rest of the daemon: an entry, a grant or a secret changes.
WorldChanges ==
    /\ changes < MaxChanges /\ changes' = changes + 1
    /\ \/ /\ \E h \in ProxyHosts, e \in HostEntries \cup {NoEntry} :
               routeOf' = [routeOf EXCEPT ![h] = e]
          /\ UNCHANGED <<granted, blockValue>>
       \/ /\ \E g \in ProxyHosts \X HostEntries : granted' \in {granted \ {g}, granted \cup {g}}
          /\ UNCHANGED <<routeOf, blockValue>>
       \/ /\ \E b \in EgressBlocks, v \in Credentials \cup {NoValue} :
               blockValue' = [blockValue EXCEPT ![b] = v]
          /\ UNCHANGED <<routeOf, granted>>
    /\ lately' = [c \in Conns |-> IF lately[c] = {} THEN {} ELSE lately[c] \cup {World'}]
    /\ UNCHANGED conns

ProxyNext ==
    \/ WorldChanges
    \/ \E c \in Conns :
         \/ AcceptConn(c) \/ HeadRefused(c) \/ HeadRead(c) \/ LookUpRoute(c)
         \/ AdmitEgress(c) \/ ResolveCredential(c)
         \/ Dial(c) \/ DialFails(c) \/ DialTimesOut(c) \/ StartBackend(c) \/ CloseConn(c)
ProxySpec == ProxyInit /\ [][ProxyNext]_proxyVars

-----------------------------------------------------------------------------
\* What goes out was so while the request was under way, whatever changed: it
\* goes to the target of an entry its host had, with a credential only if that
\* same entry is an egress route, the request is not another site's, the entry
\* was granted to the caller where a grant is asked for, and the value is one
\* that the block it names had (handle_egress, CredentialSource::authorize).  A
\* service is started only where the host's own route led to nothing.
HopsJustified ==
    \A c \in Conns :
      /\ conns[c].pc = "joined" =>
           LET conn == conns[c]
           IN  \E w \in lately[c] :
                 LET entry == w.routeOf[conn.req.host]
                 IN  /\ entry # NoEntry /\ conn.target = entry.target
                     /\ entry.mode = IF conn.value = NoValue THEN "http" ELSE "egress"
                     /\ entry.mode = "egress" =>
                          /\ conn.req.origin # "other" /\ ~conn.req.crossSite
                          /\ entry.block # NoBlock
                          /\ \E v \in lately[c] : v.blockValue[entry.block] = conn.value
                          /\ ManagedBroker \/ entry.guarded =>
                               conn.req.bearer /\ \E v \in lately[c] :
                                                    <<conn.req.host, entry>> \in v.granted
      /\ conns[c].pc = "started" =>
           \E w \in lately[c] : w.routeOf[conns[c].req.host] = conns[c].entry /\ conns[c].entry.mode = "http"
=============================================================================
