------------------------------- MODULE Certs -------------------------------
(***************************************************************************)
(* TLS certificates (certs.rs), the TLDs that ask for them (tls_store.rs)   *)
(* and the connections they are served to (tls_proxy.rs).  Route            *)
(* registration and TLS handshakes all call `ensure`, on threads of their   *)
(* own; mkcert is a child that writes two files one after the other.  A     *)
(* certificate and a key are the number of the mkcert run that wrote them.  *)
(***************************************************************************)
EXTENDS Naturals

CONSTANTS
    CertHosts, Callings, \* registered names, and callers of `ensure`
    NoPair, Broken,      \* nothing cached; a file whose writer was killed
    MaxIssues, MaxTlsChanges \* bounds: mkcert runs; changes of TLDs and routes
ASSUME CertsAssumption == "none" \notin CertHosts /\ Broken \notin Nat

VARIABLES
    tlsOn,    \* TlsStore: does the hosts' TLD require TLS?
    routedAs, \* the registry's mode for each host, "none" if unrouted
    files,    \* the certificate and the key on disk, 0 if absent
    loaded,   \* CertManager.cache
    calls,    \* of each caller: where it is, its host, its mkcert run, what it read
    issued,   \* mkcert runs so far
    spoiled,  \* hosts whose files were made by two callers at once, or by one killed while writing
    tlsChanges

certVars == <<tlsOn, routedAs, files, loaded, calls, issued, spoiled, tlsChanges>>

Pair(pem, key) == [pem |-> pem, key |-> key]
NotCalling == [pc |-> "idle", host |-> "none", run |-> 0, read |-> Pair(0, 0), sni |-> FALSE]
Calling(a, pc) == calls[a].pc = pc
CallAt(a, pc) == calls' = [calls EXCEPT ![a] = [@ EXCEPT !.pc = pc]]

CertsInit ==
    /\ tlsOn = TRUE
    /\ routedAs = [h \in CertHosts |-> "http"]
    /\ files = [h \in CertHosts |-> Pair(0, 0)]
    /\ loaded = [h \in CertHosts |-> NoPair]
    /\ calls = [a \in Callings |-> NotCalling]
    /\ issued = 0 /\ spoiled = {} /\ tlsChanges = 0

\* The requests of the other components: a TLD's mode, a host's route.
SettingsChange ==
    /\ tlsChanges < MaxTlsChanges /\ tlsChanges' = tlsChanges + 1
    /\ \/ tlsOn' = ~tlsOn /\ UNCHANGED routedAs
       \/ \E h \in CertHosts, m \in {"none", "http", "tcp", "egress"} :
            routedAs' = [routedAs EXCEPT ![h] = m] /\ UNCHANGED tlsOn
    /\ UNCHANGED <<files, loaded, calls, issued, spoiled>>

-----------------------------------------------------------------------------
(* The callers of ensure: a route that is registered under a TLD with TLS   *)
(* (every route of the TLD, when it is added), and a handshake.             *)
Provision(a, h) ==
    /\ Calling(a, "idle") /\ tlsOn /\ routedAs[h] # "none"
    /\ calls' = [calls EXCEPT ![a] = [NotCalling EXCEPT !.pc = "ensure", !.host = h]]
    /\ UNCHANGED <<tlsOn, routedAs, files, loaded, issued, spoiled, tlsChanges>>
\* cert_key_for_sni
Served(h) == routedAs[h] = "http" /\ tlsOn
Hello(a, h) ==
    /\ Calling(a, "idle")
    /\ calls' = [calls EXCEPT ![a] = [NotCalling EXCEPT !.pc = IF Served(h) THEN "ensure" ELSE "refused",
                                                        !.host = h, !.sni = TRUE]]
    /\ UNCHANGED <<tlsOn, routedAs, files, loaded, issued, spoiled, tlsChanges>>

(* CertManager::ensure *)
Obtained(a) ==
    calls' = [calls EXCEPT ![a] = IF @.sni THEN [NotCalling EXCEPT !.pc = "open"] ELSE NotCalling]
\* Mutant: mkcert runs only when neither file is there.
BothAbsent(h) == files[h] = Pair(0, 0)
Absentee(h) == files[h].pem = 0 \/ files[h].key = 0
Ensure(a) ==
    /\ Calling(a, "ensure")
    /\ LET h == calls[a].host
       IN IF loaded[h] # NoPair THEN Obtained(a)
          ELSE CallAt(a, IF Absentee(h) THEN "mkcert" ELSE "read")
    /\ UNCHANGED <<tlsOn, routedAs, files, loaded, issued, spoiled, tlsChanges>>
Making(h) == {a \in Callings : calls[a].pc \in {"pem", "key", "read", "readkey"} /\ calls[a].host = h}
\* mkcert starts, unless its CAROOT is unknown or missing.
StartMkcert(a) ==
    /\ Calling(a, "mkcert")
    /\ \/ CallAt(a, "failed") /\ UNCHANGED <<issued, spoiled>>
       \/ /\ issued < MaxIssues /\ issued' = issued + 1
          /\ calls' = [calls EXCEPT ![a] = [@ EXCEPT !.pc = "pem", !.run = issued + 1]]
          /\ spoiled' = IF Making(calls[a].host) = {} /\ Absentee(calls[a].host)
                         THEN spoiled ELSE spoiled \cup {calls[a].host}
    /\ UNCHANGED <<tlsOn, routedAs, files, loaded, tlsChanges>>
WritePem(a) ==
    /\ Calling(a, "pem")
    /\ \/ CallAt(a, "failed") /\ UNCHANGED files
       \/ CallAt(a, "key") /\ files' = [files EXCEPT ![calls[a].host] = [@ EXCEPT !.pem = calls[a].run]]
    /\ UNCHANGED <<tlsOn, routedAs, loaded, issued, spoiled, tlsChanges>>
WriteKey(a) ==
    /\ Calling(a, "key")
    /\ \/ CallAt(a, "failed") /\ UNCHANGED files
       \/ CallAt(a, "read") /\ files' = [files EXCEPT ![calls[a].host] = [@ EXCEPT !.key = calls[a].run]]
    /\ UNCHANGED <<tlsOn, routedAs, loaded, issued, spoiled, tlsChanges>>
\* load_certified_key reads one file, then the other, and parses both.
ReadPem(a) ==
    /\ Calling(a, "read")
    /\ calls' = [calls EXCEPT ![a] = [@ EXCEPT !.pc = "readkey", !.read.pem = files[calls[a].host].pem]]
    /\ UNCHANGED <<tlsOn, routedAs, files, loaded, issued, spoiled, tlsChanges>>
Loads(pair) == pair.pem \notin {0, Broken} /\ pair.key \notin {0, Broken}
ReadKey(a) ==
    LET h == calls[a].host
        pair == [calls[a].read EXCEPT !.key = files[h].key]
    IN /\ Calling(a, "readkey")
       /\ IF Loads(pair)
          THEN loaded' = [loaded EXCEPT ![h] = pair] /\ Obtained(a)
          ELSE CallAt(a, "unreadable") /\ UNCHANGED loaded
       /\ UNCHANGED <<tlsOn, routedAs, files, issued, spoiled, tlsChanges>>

\* After the handshake, a request of any Host: only an HTTP entry is relayed to.
RequestOver(a, h) ==
    /\ Calling(a, "open")
    /\ CallAt(a, IF routedAs[h] = "http" THEN "relayed" ELSE "refused")
    /\ UNCHANGED <<tlsOn, routedAs, files, loaded, issued, spoiled, tlsChanges>>
HangUp(a) ==
    /\ calls[a].pc \in {"open", "relayed", "refused", "failed", "unreadable"}
    /\ calls' = [calls EXCEPT ![a] = NotCalling]
    /\ UNCHANGED <<tlsOn, routedAs, files, loaded, issued, spoiled, tlsChanges>>

\* The daemon and its mkcert children die: a file in writing may be left broken.
CertsCrash ==
    LET cut(h, pc) == \E a \in Making(h) : calls[a].pc = pc
    IN /\ \E p, k \in [CertHosts -> BOOLEAN] :
             files' = [h \in CertHosts |-> Pair(IF p[h] /\ cut(h, "pem") THEN Broken ELSE files[h].pem,
                                                IF k[h] /\ cut(h, "key") THEN Broken ELSE files[h].key)]
       /\ spoiled' = spoiled \cup {h \in CertHosts : files'[h] # files[h]}
       /\ calls' = [a \in Callings |-> NotCalling]
       /\ loaded' = [h \in CertHosts |-> NoPair]
       /\ UNCHANGED <<tlsOn, routedAs, issued, tlsChanges>>

EnsureStep(a) ==
    \/ Ensure(a) \/ StartMkcert(a) \/ WritePem(a) \/ WriteKey(a) \/ ReadPem(a) \/ ReadKey(a) \/ HangUp(a)
CertsNext ==
    \/ SettingsChange \/ CertsCrash
    \/ \E a \in Callings :
         EnsureStep(a) \/ \E h \in CertHosts : Provision(a, h) \/ Hello(a, h) \/ RequestOver(a, h)
CertsSpec == CertsInit /\ [][CertsNext]_certVars

-----------------------------------------------------------------------------
\* A certificate is served with its own key, and the files of a host can
\* always be read or are made again, after any crash between the two writes
\* and for any order of callers, unless mkcert ran for the host although another
\* caller was making its files or just had, or was killed in the middle of one
\* (CertManager::ensure: no lock spans the check, the two files and the load).
CertsTrue ==
    /\ \A h \in CertHosts \ spoiled : loaded[h] # NoPair => loaded[h].pem = loaded[h].key
    /\ \A a \in Callings : Calling(a, "unreadable") => calls[a].host \in spoiled
=============================================================================
