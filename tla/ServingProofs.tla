---------------------------- MODULE ServingProofs -----------------------------
(***************************************************************************)
(* Proofs about what the daemon serves: Certs, a host whose files no two     *)
(* callers made at once, and whose writer was not killed, is served a        *)
(* certificate with its own key; Dashboard, the files its editor leaves, the  *)
(* token it asks for and the calls it acts on; Sampler, the usage it shows.  *)
(* For any hosts, callers, editors, files, containers, crashes and order of  *)
(* steps.                                                                    *)
(***************************************************************************)
EXTENDS Certs, Dashboard, Sampler, TLAPS, SequenceTheorems, FiniteSetTheorems

Marks == Nat \cup {Broken}
Pairs == [pem : Marks, key : Marks]
Resting == {"idle", "refused", "open", "relayed", "failed", "unreadable"}
Busy == {"ensure", "mkcert", "pem", "key", "read", "readkey"}
CallsMade == [pc : Resting \cup Busy, host : CertHosts \cup {"none"}, run : Nat, read : Pairs, sni : BOOLEAN]
CertTypes ==
    /\ files \in [CertHosts -> Pairs]
    /\ loaded \in [CertHosts -> Pairs \cup {NoPair}]
    /\ calls \in [Callings -> CallsMade]
    /\ issued \in Nat /\ spoiled \in SUBSET CertHosts
    /\ \A a \in Callings : calls[a].pc \in Busy \cup {"unreadable"} => calls[a].host \in CertHosts

Uses(c) == c.pc \in {"pem", "key", "read", "readkey"}
Writes(c) == c.pc \in {"pem", "key"}
\* What is on disk and what a call of that host knows of it.
Consistent(pair) == pair.pem # Broken /\ pair.key # Broken /\ (pair.key # 0 => pair.pem = pair.key)
CallFits(c, pair) ==
    /\ c.pc # "unreadable"
    /\ Writes(c) => pair.key = 0 /\ c.run # 0
    /\ c.pc = "key" => pair.pem = c.run
    /\ c.pc \in {"read", "readkey"} => pair.key # 0
    /\ c.pc = "readkey" => c.read.pem = pair.pem
HostFits(h) ==
    /\ Consistent(files[h])
    /\ loaded[h] # NoPair => loaded[h].pem = loaded[h].key
    /\ \A a \in Callings : calls[a].host = h => CallFits(calls[a], files[h])
    /\ \A a, b \in Callings :
         a # b /\ calls[a].host = h /\ calls[b].host = h /\ Writes(calls[a]) => ~Uses(calls[b])
CertsInv == CertTypes /\ \A h \in CertHosts \ spoiled : HostFits(h)

-----------------------------------------------------------------------------
\* A call that knows nothing of the files, and writes none.
Idler(c) == c \in CallsMade /\ ~Uses(c) /\ c.pc # "unreadable" /\ (c.pc \in Busy => c.host \in CertHosts)

LEMMA InitFits == CertsInit => CertsInv
<1> SUFFICES ASSUME CertsInit PROVE CertsInv
  OBVIOUS
<1>1. NotCalling \in CallsMade /\ NotCalling.pc = "idle" /\ NotCalling.host = "none"
  BY DEF NotCalling, CallsMade, Pairs, Marks, Pair, Resting
<1>2. /\ calls = [a \in Callings |-> NotCalling] /\ files = [h \in CertHosts |-> Pair(0, 0)]
      /\ loaded = [h \in CertHosts |-> NoPair] /\ issued = 0 /\ spoiled = {}
  BY DEF CertsInit
<1>3. CertTypes
  BY <1>1, <1>2 DEF CertTypes, Pair, Pairs, Marks, Busy
<1>4. ASSUME NEW h \in CertHosts PROVE HostFits(h)
  <2>1. files[h] = Pair(0, 0) /\ loaded[h] = NoPair /\ \A a \in Callings : calls[a].pc = "idle"
    BY <1>1, <1>2
  <2> QED BY <2>1, CertsAssumption DEF HostFits, Consistent, Pair, CallFits, Uses, Writes
<1> QED BY <1>3, <1>4 DEF CertsInv

\* One call goes on to a place where it knows nothing; the files stay.
LEMMA IdleStep ==
  ASSUME CertsInv, NEW a \in Callings, NEW c, Idler(c), calls' = [calls EXCEPT ![a] = c],
         UNCHANGED <<files, issued, spoiled>>, loaded' \in [CertHosts -> Pairs \cup {NoPair}],
         \A h \in CertHosts \ spoiled : loaded'[h] # NoPair => loaded'[h].pem = loaded'[h].key
  PROVE  CertsInv'
<1>1. /\ calls'[a] = c /\ \A b \in Callings : b # a => calls'[b] = calls[b]
      /\ calls' \in [Callings -> CallsMade]
  BY DEF CertsInv, CertTypes, Idler
<1>2. CertTypes'
  BY <1>1 DEF CertsInv, CertTypes, Idler
<1>3. ASSUME NEW h \in CertHosts \ spoiled PROVE HostFits(h)'
  <2>1. CallFits(c, files[h])
    BY DEF Idler, CallFits, Uses, Writes
  <2> QED BY <1>1, <2>1 DEF CertsInv, HostFits, Idler, Uses, Writes
<1> QED BY <1>2, <1>3 DEF CertsInv

LEMMA NotCallingIdles == Idler(NotCalling) /\ NotCalling.host = "none"
  BY DEF Idler, NotCalling, CallsMade, Pairs, Marks, Pair, Resting, Busy, Uses

\* The call of a, moved to a place that knows nothing of the files.
LEMMA CallAtIdles ==
  ASSUME CertsInv, NEW a \in Callings,
         NEW pc \in {"mkcert", "failed", "refused", "relayed", "ensure", "idle"},
         pc = "mkcert" => calls[a].host \in CertHosts, pc = "ensure" => calls[a].host \in CertHosts
  PROVE  Idler([calls[a] EXCEPT !.pc = pc])
<1>1. calls[a] \in CallsMade
  BY DEF CertsInv, CertTypes
<1> QED BY <1>1 DEF Idler, CallsMade, Resting, Busy, Uses

\* Where a call is at work it has a host.
LEMMA WorkedOn ==
  ASSUME CertsInv, NEW a \in Callings, calls[a].pc \in Busy
  PROVE  calls[a].host \in CertHosts /\ calls[a] \in CallsMade
  BY DEF CertsInv, CertTypes

\* The step of one call on the files of its host, which may spoil it.
LEMMA WorkStep ==
  ASSUME CertsInv, NEW a \in Callings, calls[a].pc \in Busy, NEW c \in CallsMade, NEW pair \in Pairs,
         c.host = calls[a].host, calls' = [calls EXCEPT ![a] = c],
         files' = [files EXCEPT ![c.host] = pair], loaded' = loaded, issued' \in Nat,
         spoiled' \in {spoiled, spoiled \cup {c.host}},
         c.host \notin spoiled' => /\ Consistent(pair) /\ CallFits(c, pair)
                                   /\ \A b \in Callings : b # a /\ calls[b].host = c.host =>
                                        /\ CallFits(calls[b], pair)
                                        /\ Writes(c) => ~Uses(calls[b])
                                        /\ Uses(c) => ~Writes(calls[b])
  PROVE  CertsInv'
<1>1. c.host \in CertHosts
  BY WorkedOn
<1>2. /\ calls'[a] = c /\ \A b \in Callings : b # a => calls'[b] = calls[b]
      /\ calls' \in [Callings -> CallsMade]
  BY DEF CertsInv, CertTypes
<1>3. /\ files'[c.host] = pair /\ \A h \in CertHosts : h # c.host => files'[h] = files[h]
      /\ files' \in [CertHosts -> Pairs]
  BY <1>1 DEF CertsInv, CertTypes
<1>4. CertTypes'
  BY <1>1, <1>2, <1>3 DEF CertsInv, CertTypes
<1>5. ASSUME NEW h \in CertHosts \ spoiled' PROVE HostFits(h)'
  <2>1. HostFits(h)
    BY DEF CertsInv
  <2>2. CASE h # c.host
    <3>1. files'[h] = files[h] /\ \A b \in Callings : calls'[b].host = h => calls'[b] = calls[b] /\ b # a
      BY <1>2, <1>3, <2>2
    <3> QED BY <2>1, <3>1 DEF HostFits
  <2>3. CASE h = c.host
    <3>1. ASSUME NEW b \in Callings, calls'[b].host = h PROVE CallFits(calls'[b], files'[h])
      BY <1>2, <1>3, <2>3, <3>1
    <3>2. ASSUME NEW b \in Callings, NEW e \in Callings, b # e,
                 calls'[b].host = h, calls'[e].host = h, Writes(calls'[b])
          PROVE  ~Uses(calls'[e])
      <4>1. CASE b = a
        BY <1>2, <2>3, <3>2, <4>1
      <4>2. CASE e = a
        BY <1>2, <2>3, <3>2, <4>2
      <4>3. CASE b # a /\ e # a
        BY <1>2, <2>1, <3>2, <4>3 DEF HostFits
      <4> QED BY <4>1, <4>2, <4>3
    <3> QED BY <1>3, <2>1, <2>3, <3>1, <3>2 DEF HostFits
  <2> QED BY <2>2, <2>3
<1> QED BY <1>4, <1>5 DEF CertsInv

-----------------------------------------------------------------------------
(* The steps of a call.                                                    *)
LEMMA SettingsFit == CertsInv /\ SettingsChange => CertsInv'
  BY DEF SettingsChange, CertsInv, CertTypes, HostFits

LEMMA LoadedFits ==
  CertsInv => /\ loaded \in [CertHosts -> Pairs \cup {NoPair}]
              /\ \A h \in CertHosts \ spoiled : loaded[h] # NoPair => loaded[h].pem = loaded[h].key
  BY DEF CertsInv, CertTypes, HostFits

LEMMA ProvisionFits == ASSUME CertsInv, NEW a \in Callings, NEW h \in CertHosts, Provision(a, h) PROVE CertsInv'
<1> DEFINE c == [NotCalling EXCEPT !.pc = "ensure", !.host = h]
<1>1. Idler(c)
  BY DEF Idler, NotCalling, CallsMade, Pairs, Marks, Pair, Resting, Busy, Uses
<1>2. calls' = [calls EXCEPT ![a] = c] /\ UNCHANGED <<files, loaded, issued, spoiled>>
  BY DEF Provision
<1> HIDE DEF c
<1> QED BY <1>1, <1>2, LoadedFits, IdleStep

LEMMA HelloFits == ASSUME CertsInv, NEW a \in Callings, NEW h \in CertHosts, Hello(a, h) PROVE CertsInv'
<1> DEFINE c == [NotCalling EXCEPT !.pc = IF Served(h) THEN "ensure" ELSE "refused", !.host = h, !.sni = TRUE]
<1>1. Idler(c)
  BY DEF Idler, NotCalling, CallsMade, Pairs, Marks, Pair, Resting, Busy, Uses
<1>2. calls' = [calls EXCEPT ![a] = c] /\ UNCHANGED <<files, loaded, issued, spoiled>>
  BY DEF Hello
<1> HIDE DEF c
<1> QED BY <1>1, <1>2, LoadedFits, IdleStep

LEMMA RequestFits == ASSUME CertsInv, NEW a \in Callings, NEW h \in CertHosts, RequestOver(a, h) PROVE CertsInv'
<1> DEFINE pc == IF routedAs[h] = "http" THEN "relayed" ELSE "refused"
           c == [calls[a] EXCEPT !.pc = pc]
<1>1. Idler(c)
  BY CallAtIdles
<1>2. calls' = [calls EXCEPT ![a] = c] /\ UNCHANGED <<files, loaded, issued, spoiled>>
  BY DEF RequestOver, CallAt
<1> HIDE DEF c
<1> QED BY <1>1, <1>2, LoadedFits, IdleStep

LEMMA HangUpFits == ASSUME CertsInv, NEW a \in Callings, HangUp(a) PROVE CertsInv'
<1>1. calls' = [calls EXCEPT ![a] = NotCalling] /\ UNCHANGED <<files, loaded, issued, spoiled>>
  BY DEF HangUp
<1> QED BY <1>1, NotCallingIdles, LoadedFits, IdleStep

\* Obtained ends the call, or opens the connection of a handshake.
LEMMA ObtainedFits ==
  ASSUME CertsInv, NEW a \in Callings, Obtained(a), UNCHANGED <<files, issued, spoiled>>,
         loaded' \in [CertHosts -> Pairs \cup {NoPair}],
         \A h \in CertHosts \ spoiled : loaded'[h] # NoPair => loaded'[h].pem = loaded'[h].key
  PROVE  CertsInv'
<1> DEFINE c == IF calls[a].sni THEN [NotCalling EXCEPT !.pc = "open"] ELSE NotCalling
<1>1. Idler(c)
  BY DEF Idler, NotCalling, CallsMade, Pairs, Marks, Pair, Resting, Busy, Uses
<1>2. calls' = [calls EXCEPT ![a] = c]
  BY DEF Obtained
<1> HIDE DEF c
<1> QED BY <1>1, <1>2, IdleStep

\* A call that is to fail, or to run mkcert, knows nothing of the files.
LEMMA GivesUpFits ==
  ASSUME CertsInv, NEW a \in Callings, NEW pc \in {"failed", "mkcert"}, calls[a].pc \in Busy, CallAt(a, pc),
         UNCHANGED <<files, loaded, issued, spoiled>>
  PROVE  CertsInv'
<1> DEFINE c == [calls[a] EXCEPT !.pc = pc]
<1>1. Idler(c)
  BY CallAtIdles, WorkedOn
<1>2. calls' = [calls EXCEPT ![a] = c]
  BY DEF CallAt
<1> HIDE DEF c
<1> QED BY <1>1, <1>2, LoadedFits, IdleStep

\* The steps on the files: what a host that is not spoiled says of its callers.
LEMMA HostOf ==
  ASSUME CertsInv, NEW a \in Callings, calls[a].host \notin spoiled, calls[a].pc \in Busy
  PROVE  /\ Consistent(files[calls[a].host]) /\ CallFits(calls[a], files[calls[a].host])
         /\ \A b \in Callings : b # a /\ calls[b].host = calls[a].host =>
              /\ CallFits(calls[b], files[calls[a].host])
              /\ Writes(calls[a]) => ~Uses(calls[b])
              /\ Uses(calls[a]) => ~Writes(calls[b])
<1>1. calls[a].host \in CertHosts \ spoiled
  BY WorkedOn
<1> QED BY <1>1 DEF CertsInv, HostFits

LEMMA EnsureFits == ASSUME CertsInv, NEW a \in Callings, Ensure(a) PROVE CertsInv'
<1> DEFINE h == calls[a].host
<1>1. calls[a].pc = "ensure" /\ calls[a].pc \in Busy /\ UNCHANGED <<files, loaded, issued, spoiled>>
  BY DEF Ensure, Calling, Busy
<1>2. CASE loaded[h] # NoPair
  BY <1>1, <1>2, LoadedFits, ObtainedFits DEF Ensure
<1>3. CASE loaded[h] = NoPair /\ Absentee(h)
  <2>1. CallAt(a, "mkcert")
    BY <1>3 DEF Ensure
  <2> QED BY <1>1, <2>1, GivesUpFits
<1>4. CASE loaded[h] = NoPair /\ ~Absentee(h)
  <2> DEFINE c == [calls[a] EXCEPT !.pc = "read"]
  <2>1. calls' = [calls EXCEPT ![a] = c]
    BY <1>4 DEF Ensure, CallAt
  <2>2. h \in CertHosts /\ calls[a] \in CallsMade
    BY <1>1, WorkedOn
  <2>3. c \in CallsMade /\ c.host = h /\ c.pc = "read"
    BY <2>2 DEF CallsMade, Busy
  <2>4. files[h] \in Pairs /\ files[h].key # 0 /\ files' = [files EXCEPT ![h] = files[h]] /\ issued' \in Nat
    BY <1>1, <1>4, <2>2 DEF CertsInv, CertTypes, Absentee
  <2>5. h \notin spoiled => /\ Consistent(files[h]) /\ CallFits(c, files[h])
                            /\ \A b \in Callings : b # a /\ calls[b].host = h =>
                                 CallFits(calls[b], files[h]) /\ ~Writes(calls[b])
    BY <1>1, <2>3, <2>4, HostOf DEF CallFits, Writes
  <2> HIDE DEF c
  <2> QED BY <1>1, <2>1, <2>3, <2>4, <2>5, WorkStep DEF Writes
<1> QED BY <1>2, <1>3, <1>4

LEMMA StartMkcertFits == ASSUME CertsInv, NEW a \in Callings, StartMkcert(a) PROVE CertsInv'
<1> DEFINE h == calls[a].host
<1>1. calls[a].pc = "mkcert" /\ calls[a].pc \in Busy /\ UNCHANGED <<files, loaded>>
  BY DEF StartMkcert, Calling, Busy
<1>2. CASE CallAt(a, "failed") /\ UNCHANGED <<issued, spoiled>>
  BY <1>1, <1>2, GivesUpFits
<1>3. CASE /\ issued' = issued + 1
           /\ calls' = [calls EXCEPT ![a] = [@ EXCEPT !.pc = "pem", !.run = issued + 1]]
           /\ spoiled' = IF Making(h) = {} /\ Absentee(h) THEN spoiled ELSE spoiled \cup {h}
  <2> DEFINE c == [calls[a] EXCEPT !.pc = "pem", !.run = issued + 1]
  <2>1. calls' = [calls EXCEPT ![a] = c]
    BY <1>3
  <2>2. h \in CertHosts /\ calls[a] \in CallsMade /\ issued \in Nat
    BY <1>1, WorkedOn DEF CertsInv, CertTypes
  <2>3. c \in CallsMade /\ c.host = h /\ c.pc = "pem" /\ c.run # 0 /\ issued' \in Nat
    <3>1. issued + 1 \in Nat /\ issued + 1 # 0 /\ "pem" \in Busy
      BY <2>2 DEF Busy
    <3> QED BY <1>3, <2>2, <3>1 DEF CallsMade
  <2>4. files[h] \in Pairs /\ files' = [files EXCEPT ![h] = files[h]]
    BY <1>1, <2>2 DEF CertsInv, CertTypes
  <2>5. ASSUME h \notin spoiled'
        PROVE  /\ Consistent(files[h]) /\ CallFits(c, files[h])
               /\ \A b \in Callings : b # a /\ calls[b].host = h =>
                    CallFits(calls[b], files[h]) /\ ~Uses(calls[b])
    <3>1. h \notin spoiled /\ Making(h) = {} /\ Absentee(h)
      BY <1>3, <2>5
    <3>2. /\ Consistent(files[h])
          /\ \A b \in Callings : b # a /\ calls[b].host = h => CallFits(calls[b], files[h])
      BY <1>1, <3>1, HostOf
    <3>3. \A b \in Callings : calls[b].host = h => ~Uses(calls[b])
      BY <3>1 DEF Making, Uses
    <3>4. files[h].key = 0
      BY <3>1, <3>2 DEF Absentee, Consistent
    <3>5. CallFits(c, files[h])
      BY <2>3, <3>4 DEF CallFits, Writes
    <3> QED BY <3>2, <3>3, <3>5
  <2>6. spoiled' \in {spoiled, spoiled \cup {c.host}} /\ loaded' = loaded /\ (Uses(c) /\ Writes(c))
    BY <1>1, <1>3, <2>3 DEF Uses, Writes
  <2>7. \A b \in Callings : ~Uses(calls[b]) => ~Writes(calls[b])
    BY DEF Uses, Writes
  <2> HIDE DEF c
  <2> QED BY <1>1, <2>1, <2>3, <2>4, <2>5, <2>6, <2>7, WorkStep
<1> QED BY <1>2, <1>3 DEF StartMkcert

LEMMA WritePemFits == ASSUME CertsInv, NEW a \in Callings, WritePem(a) PROVE CertsInv'
<1> DEFINE h == calls[a].host
<1>1. calls[a].pc = "pem" /\ calls[a].pc \in Busy /\ UNCHANGED <<loaded, issued, spoiled>>
  BY DEF WritePem, Calling, Busy
<1>2. CASE CallAt(a, "failed") /\ UNCHANGED files
  BY <1>1, <1>2, GivesUpFits
<1>3. CASE CallAt(a, "key") /\ files' = [files EXCEPT ![h] = [@ EXCEPT !.pem = calls[a].run]]
  <2> DEFINE c == [calls[a] EXCEPT !.pc = "key"]
             pair == [files[h] EXCEPT !.pem = calls[a].run]
  <2>1. calls' = [calls EXCEPT ![a] = c] /\ files' = [files EXCEPT ![h] = pair]
    BY <1>3 DEF CallAt
  <2>2. h \in CertHosts /\ calls[a] \in CallsMade /\ files[h] \in Pairs
    BY <1>1, WorkedOn DEF CertsInv, CertTypes
  <2>3. c \in CallsMade /\ c.host = h /\ c.pc = "key" /\ c.run = calls[a].run /\ c.run \in Nat
    BY <2>2 DEF CallsMade, Busy
  <2>4. pair \in Pairs /\ pair.pem = c.run /\ pair.key = files[h].key /\ issued' \in Nat
    BY <1>1, <2>2, <2>3 DEF Pairs, Marks, CertsInv, CertTypes
  <2>5. ASSUME h \notin spoiled
        PROVE  /\ Consistent(pair) /\ CallFits(c, pair)
               /\ \A b \in Callings : b # a /\ calls[b].host = h =>
                    CallFits(calls[b], pair) /\ ~Uses(calls[b])
    <3>1. /\ Consistent(files[h]) /\ files[h].key = 0 /\ c.run # 0
          /\ \A b \in Callings : b # a /\ calls[b].host = h =>
               CallFits(calls[b], files[h]) /\ ~Uses(calls[b])
      BY <1>1, <2>3, <2>5, HostOf DEF CallFits, Writes, Uses
    <3>2. Consistent(pair) /\ CallFits(c, pair)
      BY <2>3, <2>4, <3>1, CertsAssumption DEF Consistent, CallFits, Writes
    <3>3. ASSUME NEW b \in Callings, b # a, calls[b].host = h PROVE CallFits(calls[b], pair)
      BY <3>1, <3>3 DEF CallFits, Uses, Writes
    <3> QED BY <3>1, <3>2, <3>3
  <2> HIDE DEF c, pair
  <2> QED BY <1>1, <2>1, <2>3, <2>4, <2>5, WorkStep DEF Uses, Writes
<1> QED BY <1>2, <1>3 DEF WritePem

LEMMA WriteKeyFits == ASSUME CertsInv, NEW a \in Callings, WriteKey(a) PROVE CertsInv'
<1> DEFINE h == calls[a].host
<1>1. calls[a].pc = "key" /\ calls[a].pc \in Busy /\ UNCHANGED <<loaded, issued, spoiled>>
  BY DEF WriteKey, Calling, Busy
<1>2. CASE CallAt(a, "failed") /\ UNCHANGED files
  BY <1>1, <1>2, GivesUpFits
<1>3. CASE CallAt(a, "read") /\ files' = [files EXCEPT ![h] = [@ EXCEPT !.key = calls[a].run]]
  <2> DEFINE c == [calls[a] EXCEPT !.pc = "read"]
             pair == [files[h] EXCEPT !.key = calls[a].run]
  <2>1. calls' = [calls EXCEPT ![a] = c] /\ files' = [files EXCEPT ![h] = pair]
    BY <1>3 DEF CallAt
  <2>2. h \in CertHosts /\ calls[a] \in CallsMade /\ files[h] \in Pairs
    BY <1>1, WorkedOn DEF CertsInv, CertTypes
  <2>3. c \in CallsMade /\ c.host = h /\ c.pc = "read" /\ calls[a].run \in Nat
    BY <2>2 DEF CallsMade, Busy
  <2>4. pair \in Pairs /\ pair.key = calls[a].run /\ pair.pem = files[h].pem /\ issued' \in Nat
    BY <1>1, <2>2, <2>3 DEF Pairs, Marks, CertsInv, CertTypes
  <2>5. ASSUME h \notin spoiled
        PROVE  /\ Consistent(pair) /\ CallFits(c, pair)
               /\ \A b \in Callings : b # a /\ calls[b].host = h =>
                    CallFits(calls[b], pair) /\ ~Uses(calls[b])
    <3>1. /\ Consistent(files[h]) /\ files[h].pem = calls[a].run /\ calls[a].run # 0
          /\ \A b \in Callings : b # a /\ calls[b].host = h =>
               CallFits(calls[b], files[h]) /\ ~Uses(calls[b])
      BY <1>1, <2>3, <2>5, HostOf DEF CallFits, Writes, Uses
    <3>2. Consistent(pair) /\ CallFits(c, pair)
      BY <2>3, <2>4, <3>1, CertsAssumption DEF Consistent, CallFits, Writes
    <3>3. ASSUME NEW b \in Callings, b # a, calls[b].host = h PROVE CallFits(calls[b], pair)
      BY <3>1, <3>3 DEF CallFits, Uses, Writes
    <3> QED BY <3>1, <3>2, <3>3
  <2> HIDE DEF c, pair
  <2> QED BY <1>1, <2>1, <2>3, <2>4, <2>5, WorkStep DEF Uses, Writes
<1> QED BY <1>2, <1>3 DEF WriteKey

LEMMA ReadPemFits == ASSUME CertsInv, NEW a \in Callings, ReadPem(a) PROVE CertsInv'
<1> DEFINE h == calls[a].host
           c == [calls[a] EXCEPT !.pc = "readkey", !.read.pem = files[h].pem]
<1>1. /\ calls[a].pc = "read" /\ calls[a].pc \in Busy /\ UNCHANGED <<files, loaded, issued, spoiled>>
      /\ calls' = [calls EXCEPT ![a] = c]
  BY DEF ReadPem, Calling, Busy
<1>2. h \in CertHosts /\ calls[a] \in CallsMade /\ files[h] \in Pairs /\ files[h].pem \in Marks
  BY <1>1, WorkedOn DEF CertsInv, CertTypes, Pairs
<1>3. c \in CallsMade /\ c.host = h /\ c.pc = "readkey" /\ c.read.pem = files[h].pem
  BY <1>2 DEF CallsMade, Busy, Pairs
<1>4. files' = [files EXCEPT ![h] = files[h]] /\ issued' \in Nat
  BY <1>1, <1>2 DEF CertsInv, CertTypes
<1>5. h \notin spoiled => /\ Consistent(files[h]) /\ CallFits(c, files[h])
                          /\ \A b \in Callings : b # a /\ calls[b].host = h =>
                               CallFits(calls[b], files[h]) /\ ~Writes(calls[b])
  BY <1>1, <1>3, HostOf DEF CallFits, Writes, Uses
<1> HIDE DEF c
<1> QED BY <1>1, <1>2, <1>3, <1>4, <1>5, WorkStep DEF Writes

LEMMA ReadKeyFits == ASSUME CertsInv, NEW a \in Callings, ReadKey(a) PROVE CertsInv'
<1> DEFINE h == calls[a].host
           pair == [calls[a].read EXCEPT !.key = files[h].key]
<1>1. calls[a].pc = "readkey" /\ calls[a].pc \in Busy /\ UNCHANGED <<files, issued, spoiled>>
  BY DEF ReadKey, Calling, Busy
<1>2. h \in CertHosts /\ calls[a] \in CallsMade /\ files[h] \in Pairs
  BY <1>1, WorkedOn DEF CertsInv, CertTypes
<1>3. pair \in Pairs /\ pair.key = files[h].key /\ pair.pem = calls[a].read.pem
  BY <1>2 DEF CallsMade, Pairs
<1>4. h \notin spoiled => pair.pem = pair.key /\ Loads(pair)
  BY <1>1, <1>3, HostOf DEF CallFits, Consistent, Loads
<1>5. CASE Loads(pair)
  <2>1. loaded' = [loaded EXCEPT ![h] = pair] /\ Obtained(a)
    BY <1>5 DEF ReadKey
  <2>2. /\ loaded' \in [CertHosts -> Pairs \cup {NoPair}]
        /\ \A k \in CertHosts \ spoiled : loaded'[k] # NoPair => loaded'[k].pem = loaded'[k].key
    BY <1>2, <1>3, <1>4, <2>1, LoadedFits
  <2> QED BY <1>1, <2>1, <2>2, ObtainedFits
<1>6. CASE ~Loads(pair)
  <2> DEFINE c == [calls[a] EXCEPT !.pc = "unreadable"]
  <2>1. calls' = [calls EXCEPT ![a] = c] /\ UNCHANGED loaded
    BY <1>6 DEF ReadKey, CallAt
  <2>2. h \in spoiled
    BY <1>4, <1>6
  <2>3. c \in CallsMade /\ c.host = h
    BY <1>2 DEF CallsMade, Resting
  <2>4. files' = [files EXCEPT ![h] = files[h]] /\ issued' \in Nat
    BY <1>1, <1>2 DEF CertsInv, CertTypes
  <2> HIDE DEF c
  <2> QED BY <1>1, <1>2, <2>1, <2>2, <2>3, <2>4, WorkStep
<1> QED BY <1>5, <1>6

LEMMA CrashFits == CertsInv /\ CertsCrash => CertsInv'
<1> SUFFICES ASSUME CertsInv, CertsCrash PROVE CertsInv'
  OBVIOUS
<1>1. /\ spoiled' = spoiled \cup {h \in CertHosts : files'[h] # files[h]}
      /\ calls' = [a \in Callings |-> NotCalling] /\ loaded' = [h \in CertHosts |-> NoPair]
      /\ UNCHANGED issued
  BY DEF CertsCrash
<1>2. files' \in [CertHosts -> Pairs]
  BY DEF CertsCrash, CertsInv, CertTypes, Pair, Pairs, Marks
<1>3. CertTypes'
  BY <1>1, <1>2, NotCallingIdles DEF CertsInv, CertTypes, Idler
<1>4. ASSUME NEW h \in CertHosts \ spoiled' PROVE HostFits(h)'
  <2>1. files'[h] = files[h] /\ h \notin spoiled /\ loaded'[h] = NoPair /\ Consistent(files[h])
    BY <1>1 DEF CertsInv, HostFits
  <2>2. \A a \in Callings : calls'[a].host # h
    BY <1>1, NotCallingIdles, CertsAssumption
  <2> QED BY <2>1, <2>2 DEF HostFits
<1> QED BY <1>3, <1>4 DEF CertsInv

-----------------------------------------------------------------------------
LEMMA NextFits == CertsInv /\ [CertsNext]_certVars => CertsInv'
<1> SUFFICES ASSUME CertsInv, [CertsNext]_certVars PROVE CertsInv'
  OBVIOUS
<1>1. CASE SettingsChange \/ CertsCrash
  BY <1>1, SettingsFit, CrashFits
<1>2. ASSUME NEW a \in Callings, EnsureStep(a) PROVE CertsInv'
  BY <1>2, EnsureFits, StartMkcertFits, WritePemFits, WriteKeyFits, ReadPemFits, ReadKeyFits, HangUpFits
     DEF EnsureStep
<1>3. ASSUME NEW a \in Callings, NEW h \in CertHosts, Provision(a, h) \/ Hello(a, h) \/ RequestOver(a, h)
      PROVE  CertsInv'
  BY <1>3, ProvisionFits, HelloFits, RequestFits
<1>4. CASE UNCHANGED certVars
  BY <1>4 DEF certVars, CertsInv, CertTypes, HostFits
<1> QED BY <1>1, <1>2, <1>3, <1>4 DEF CertsNext

\* What the files, the cache and the calls of an unspoiled host hold.
THEOREM CertsHold == CertsSpec => []CertsInv
  BY InitFits, NextFits, PTL DEF CertsSpec

\* certs.rs, CertManager::ensure: a certificate is served with its own key and
\* its files can be read, unless two callers made them at once or a crash cut one.
THEOREM CertsAlwaysTrue == CertsSpec => []CertsTrue
<1>1. CertsInv => CertsTrue
  <2> SUFFICES ASSUME CertsInv PROVE CertsTrue
    OBVIOUS
  <2>1. ASSUME NEW a \in Callings, Calling(a, "unreadable"), calls[a].host \notin spoiled PROVE FALSE
    <3>1. calls[a].host \in CertHosts \ spoiled
      BY <2>1 DEF CertsInv, CertTypes, Calling
    <3>2. HostFits(calls[a].host)
      BY <3>1 DEF CertsInv
    <3> QED BY <2>1, <3>2 DEF HostFits, CallFits, Calling
  <2> QED BY <2>1, LoadedFits DEF CertsTrue
<1> QED BY CertsHold, <1>1, PTL

-----------------------------------------------------------------------------
(* The calls the dashboard acts on.                                          *)

PageKeys == {"pc", "call", "ends", "got", "did", "answer"}
Judging == {"head", "body", "check", "dispatch"}
\* A connection: what is read is of what was sent; a call is judged when all
\* of it is there, and asks for something when nothing speaks against it.
PageInv(page) ==
    /\ page.pc \in {"accept", "again", "over"} \cup Judging
    /\ DOMAIN page = PageKeys
    /\ page.pc # "accept" => /\ page.call \in Calls /\ {page.got, page.ends} \subseteq Nat
                             /\ page.got <= page.ends
    /\ page.pc \in Judging \cup {"accept"} => page.did = <<>> /\ page.answer = "none"
    /\ page.pc \in {"check", "dispatch"} => Complete(page)
    /\ page.pc \in {"dispatch", "again"} \/ page.did # <<>> =>
           /\ page.ends >= Sized(page.call) /\ Refusal(page.call) = "none"
           /\ Mutating(page.call.route) /\ page.call.route \notin Assets
    /\ page.pc = "again" => page.call.route = "restart" /\ page.did = <<<<"down one", TRUE>>>>
                            /\ page.answer = "none"
    /\ page.answer = "invalid" => ~page.call.sound
    /\ page.answer = "200" /\ page.call.route = "restart" =>
           page.did = <<<<"down one", TRUE>>, <<"up one", TRUE>>>>
ApiInv == pages = [p \in Pages |-> pages[p]] /\ \A p \in Pages : PageInv(pages[p])

\* A step of one connection leaves the others as they are.
LEMMA OnePage ==
  ASSUME ApiInv, NEW p \in Pages, NEW page, pages' = [pages EXCEPT ![p] = page], PageInv(page)
  PROVE  ApiInv'
<1>1. pages'[p] = page /\ \A q \in Pages : q # p => pages'[q] = pages[q]
  BY DEF ApiInv
<1>2. pages' = [q \in Pages |-> pages'[q]]
  BY DEF ApiInv
<1>3. \A q \in Pages : PageInv(pages[q])'
  BY <1>1 DEF ApiInv, PageInv, Complete, Sized
<1> QED BY <1>2, <1>3 DEF ApiInv

\* A call comes, and is read piece by piece.
LEMMA ReadsAreJustified ==
  ASSUME ApiInv, NEW p \in Pages,
         \/ \E call \in Calls : \E ends \in 0..Sized(call) + 1 : Accept(p, call, ends)
         \/ ReadHead(p) \/ ReadBody(p)
  PROVE  ApiInv'
<1> DEFINE page == pages[p]
<1>0. PageInv(page) /\ DOMAIN page = PageKeys
  BY DEF ApiInv, PageInv
<1>1. ASSUME NEW call \in Calls, NEW ends \in 0..Sized(call) + 1, Accept(p, call, ends) PROVE ApiInv'
  <2> DEFINE new == [Waiting EXCEPT !.pc = "head", !.call = call, !.ends = ends]
  <2>1. pages' = [pages EXCEPT ![p] = new]
    BY <1>1 DEF Accept
  <2>2. Sized(call) \in Nat /\ ends \in Nat
    BY ApiAssumption DEF Sized
  <2>3. /\ new.pc = "head" /\ new.call = call /\ new.ends = ends /\ new.got = 0
        /\ new.did = <<>> /\ new.answer = "none" /\ DOMAIN new = PageKeys
    BY DEF Waiting, PageKeys
  <2> HIDE DEF new
  <2>4. PageInv(new)
    BY <2>2, <2>3 DEF PageInv, Judging
  <2> QED BY <2>1, <2>4, OnePage
<1>2. ASSUME page.pc \in {"head", "body"}, NEW pc \in {"body", "over", "head"},
             pages' = [pages EXCEPT ![p].pc = pc]
      PROVE  ApiInv'
  <2> DEFINE new == [page EXCEPT !.pc = pc]
  <2>1. pages' = [pages EXCEPT ![p] = new]
    BY <1>2
  <2>2. /\ new.pc = pc /\ new.call = page.call /\ new.ends = page.ends /\ new.got = page.got
         /\ new.did = page.did /\ new.answer = page.answer /\ DOMAIN new = PageKeys
    BY <1>0 DEF PageKeys
  <2> HIDE DEF new
  <2>3. PageInv(new)
    BY <1>0, <1>2, <2>2 DEF PageInv, Judging
  <2> QED BY <2>1, <2>3, OnePage
<1>3. ASSUME page.pc \in {"head", "body"}, ReadMore(p, page) PROVE ApiInv'
  <2>1. CASE page.got = page.ends
    BY <1>2, <1>3, <2>1 DEF ReadMore, Failed
  <2>2. CASE page.got # page.ends
    <3>1. PICK n \in Pieces(page) : pages' = [pages EXCEPT ![p].got = @ + n]
      BY <1>3, <2>2 DEF ReadMore
    <3> DEFINE new == [page EXCEPT !.got = @ + n]
    <3>2. pages' = [pages EXCEPT ![p] = new]
      BY <3>1
    <3>3. n \in Nat /\ page.got + n <= page.ends /\ page.got \in Nat /\ page.got + n \in Nat
      <4>1. n \in Nat /\ page.got + n <= page.ends
        BY ApiAssumption DEF Pieces
      <4>2. page.got \in Nat
        BY <1>0, <1>3 DEF PageInv
      <4> QED BY <4>1, <4>2
    <3>4. /\ new.pc = page.pc /\ new.call = page.call /\ new.ends = page.ends /\ new.got = page.got + n
           /\ new.did = page.did /\ new.answer = page.answer /\ DOMAIN new = PageKeys
      BY <1>0 DEF PageKeys
    <3> HIDE DEF new
    <3>5. PageInv(new)
      BY <1>0, <1>3, <3>3, <3>4 DEF PageInv, Judging
    <3> QED BY <3>2, <3>5, OnePage
  <2> QED BY <2>1, <2>2
<1>4. CASE ReadHead(p)
  BY <1>2, <1>3, <1>4 DEF ReadHead, Failed
<1>5. CASE ReadBody(p)
  <2>1. page.pc = "body"
    BY <1>5 DEF ReadBody
  <2>2. CASE page.got < Sized(page.call)
    BY <1>3, <1>5, <2>1, <2>2 DEF ReadBody
  <2>3. CASE ~(page.got < Sized(page.call))
    <3> DEFINE new == [page EXCEPT !.pc = "check", !.got = Sized(page.call)]
    <3>1. pages' = [pages EXCEPT ![p] = new]
      BY <1>5, <2>1, <2>3 DEF ReadBody
    <3>2. Sized(page.call) \in Nat /\ page.got \in Nat /\ page.ends \in Nat /\ page.call \in Calls
      <4>1. page.call \in Calls /\ page.got \in Nat /\ page.ends \in Nat
        BY <1>0, <2>1 DEF PageInv
      <4> QED BY <4>1, ApiAssumption DEF Sized
    <3>3. /\ new.pc = "check" /\ new.call = page.call /\ new.ends = page.ends /\ new.got = Sized(page.call)
           /\ new.did = page.did /\ new.answer = page.answer /\ DOMAIN new = PageKeys
      BY <1>0 DEF PageKeys
    <3> HIDE DEF new
    <3>4. Sized(page.call) <= page.ends
      <4>1. page.got <= page.ends
        BY <1>0, <2>1 DEF PageInv
      <4> QED BY <2>3, <3>2, <4>1
    <3>5. PageInv(new)
      <4>1. new.did = <<>> /\ new.answer = "none"
        BY <1>0, <2>1, <3>3 DEF PageInv, Judging
      <4>2. Sized(new.call) = Sized(page.call) /\ new.got = Sized(new.call) /\ new.ends = page.ends
        BY <3>3
      <4> QED BY <3>2, <3>3, <3>4, <4>1, <4>2 DEF PageInv, Judging, Complete
    <3> QED BY <3>1, <3>5, OnePage
  <2> QED BY <2>2, <2>3
<1> QED BY <1>1, <1>4, <1>5

\* Appending to a sequence of one.
LEMMA AppendTwo ==
  ASSUME NEW a, NEW b
  PROVE  Append(<<a>>, b) = <<a, b>>
<1> DEFINE S == {a, b}
<1>1. <<a>> \in Seq(S) /\ <<a, b>> \in Seq(S) /\ Len(<<a>>) = 1 /\ Len(<<a, b>>) = 2
  OBVIOUS
<1>2. Append(<<a>>, b) \in Seq(S) /\ Len(Append(<<a>>, b)) = 2
  OBVIOUS
<1>3. Append(<<a>>, b)[1] = a /\ Append(<<a>>, b)[2] = b
  OBVIOUS
<1>4. \A i \in 1..2 : Append(<<a>>, b)[i] = <<a, b>>[i]
  BY <1>3
<1> HIDE DEF S
<1> QED BY <1>1, <1>2, <1>4, SeqEqual

\* A call is judged, and what it asks for is asked of the daemon.
LEMMA JudgementsAreJustified ==
  ASSUME ApiInv, NEW p \in Pages, Check(p) \/ Forward(p) \/ UpAgain(p)
  PROVE  ApiInv'
<1> DEFINE page == pages[p]
           route == page.call.route
<1>0. PageInv(page) /\ DOMAIN page = PageKeys
  BY DEF ApiInv, PageInv
<1>1. CASE Check(p)
  <2>1. page.pc = "check" /\ page.call \in Calls /\ Complete(page) /\ page.did = <<>> /\ page.answer = "none"
        /\ page.ends >= Sized(page.call)
    <3>1. page.pc = "check" /\ page.call \in Calls /\ Complete(page) /\ page.did = <<>> /\ page.answer = "none"
          /\ {page.got, page.ends} \subseteq Nat /\ page.got <= page.ends
      BY <1>0, <1>1 DEF Check, PageInv, Judging
    <3>2. Sized(page.call) \in Nat
      BY <3>1, ApiAssumption DEF Sized
    <3> QED BY <3>1, <3>2 DEF Complete
  <2>2. ASSUME NEW answer \in {"505", "403", "401", "404", "200", "invalid"}, Reply(p, answer),
               answer = "200" => route \in Assets \cup Reads, answer = "invalid" => ~page.call.sound
        PROVE  ApiInv'
    <3> DEFINE new == [page EXCEPT !.pc = "over", !.answer = answer]
    <3>1. pages' = [pages EXCEPT ![p] = new]
      BY <2>2 DEF Reply
    <3>2. /\ new.pc = "over" /\ new.call = page.call /\ new.ends = page.ends /\ new.got = page.got
           /\ new.did = page.did /\ new.answer = answer /\ DOMAIN new = PageKeys
      BY <1>0 DEF PageKeys
    <3> HIDE DEF new
    <3>3. "restart" \notin Assets \cup Reads
      BY DEF Assets, Reads
    <3>4. PageInv(new)
      BY <1>0, <2>1, <2>2, <3>2, <3>3 DEF PageInv, Judging
    <3> QED BY <3>1, <3>4, OnePage
  <2>3. CASE Refusal(page.call) # "none"
    <3>1. Refusal(page.call) \in {"505", "403", "401"}
      BY <2>3 DEF Refusal
    <3> QED BY <1>1, <2>2, <2>3, <3>1 DEF Check
  <2>4. CASE Refusal(page.call) = "none" /\ (route \in Assets \cup Reads \/ ~Mutating(route)
               \/ (route \in WithBody /\ ~(page.call.sound /\ Complete(page))))
    BY <1>1, <2>1, <2>2, <2>4 DEF Check
  <2>5. CASE Refusal(page.call) = "none" /\ ~(route \in Assets \cup Reads \/ ~Mutating(route)
               \/ (route \in WithBody /\ ~(page.call.sound /\ Complete(page))))
    <3> DEFINE new == [page EXCEPT !.pc = "dispatch"]
    <3>1. pages' = [pages EXCEPT ![p] = new]
      BY <1>1, <2>5 DEF Check
    <3>2. /\ new.pc = "dispatch" /\ new.call = page.call /\ new.ends = page.ends /\ new.got = page.got
           /\ new.did = page.did /\ new.answer = page.answer /\ DOMAIN new = PageKeys
      BY <1>0 DEF PageKeys
    <3> HIDE DEF new
    <3>3. PageInv(new)
      BY <1>0, <2>1, <2>5, <3>2 DEF PageInv, Judging, Complete
    <3> QED BY <3>1, <3>3, OnePage
  <2> QED BY <2>3, <2>4, <2>5
<1>2. CASE Forward(p)
  <2>1. /\ page.pc = "dispatch" /\ page.did = <<>> /\ page.answer = "none"
        /\ page.ends >= Sized(page.call) /\ Refusal(page.call) = "none"
        /\ Mutating(route) /\ route \notin Assets
    BY <1>0, <1>2 DEF Forward, PageInv, Judging
  <2>2. PICK done \in BOOLEAN :
           IF route = "restart" THEN Ask(p, "down one", done, "again") ELSE Ask(p, route, done, "over")
    BY <1>2 DEF Forward
  <2> DEFINE asked == IF route = "restart" THEN "down one" ELSE route
             pc == IF done /\ route = "restart" THEN "again" ELSE "over"
             answer == IF ~done THEN "error" ELSE IF route = "restart" THEN "none" ELSE "200"
             did == Append(page.did, <<asked, done>>)
             new == [page EXCEPT !.pc = pc, !.did = did, !.answer = answer]
  <2>3. pages' = [pages EXCEPT ![p] = new]
    BY <2>1, <2>2 DEF Ask
  <2>4. did = <<<<asked, done>>>>
    BY <2>1
  <2> HIDE DEF did, pc, answer
  <2>6. /\ new.pc = pc /\ new.call = page.call /\ new.ends = page.ends /\ new.got = page.got
         /\ new.did = did /\ new.answer = answer /\ DOMAIN new = PageKeys
    BY <1>0 DEF PageKeys
  <2> HIDE DEF new
  <2> USE DEF pc, answer
  <2>5. PageInv(new)
    BY <1>0, <2>1, <2>4, <2>6 DEF PageInv, Judging
  <2> QED BY <2>3, <2>5, OnePage
<1>3. CASE UpAgain(p)
  <2>1. page.pc = "again" /\ route = "restart" /\ page.did = <<<<"down one", TRUE>>>> /\ page.answer = "none"
    BY <1>0, <1>3 DEF UpAgain, PageInv
  <2>0. /\ page.ends >= Sized(page.call) /\ Refusal(page.call) = "none"
        /\ Mutating(route) /\ route \notin Assets
    BY <1>0, <2>1 DEF PageInv
  <2>2. PICK done \in BOOLEAN : Ask(p, "up one", done, "over")
    BY <1>3 DEF UpAgain
  <2> DEFINE answer == IF ~done THEN "error" ELSE "200"
             did == Append(page.did, <<"up one", done>>)
             new == [page EXCEPT !.pc = "over", !.did = did, !.answer = answer]
  <2>3. did = <<<<"down one", TRUE>>, <<"up one", done>>>>
    <3> DEFINE down == <<"down one", TRUE>>
               up == <<"up one", done>>
    <3>1. page.did = <<down>>
      BY <2>1
    <3> HIDE DEF down, up
    <3>2. Append(page.did, up) = <<down, up>>
      BY <3>1, AppendTwo
    <3> QED BY <3>2 DEF down, up
  <2>4. pages' = [pages EXCEPT ![p] = new]
    BY <2>1, <2>2 DEF Ask
  <2> HIDE DEF did, answer
  <2>5. /\ new.pc = "over" /\ new.call = page.call /\ new.ends = page.ends /\ new.got = page.got
         /\ new.did = did /\ new.answer = answer /\ DOMAIN new = PageKeys
    BY <1>0 DEF PageKeys
  <2> HIDE DEF new
  <2> USE DEF answer
  <2>6. PageInv(new)
    BY <1>0, <2>0, <2>1, <2>3, <2>5 DEF PageInv, Judging
  <2> QED BY <2>4, <2>6, OnePage
<1> QED BY <1>1, <1>2, <1>3

\* What the dashboard's API acts on, for any calls, connections and limits.
LEMMA CallsAlwaysJustified == ApiSpec => []CallsJustified
<1>1. ApiInit => ApiInv
  <2> SUFFICES ASSUME ApiInit PROVE ApiInv
    OBVIOUS
  <2>1. PageInv(Waiting)
    BY DEF Waiting, PageInv, PageKeys, Judging
  <2> QED BY <2>1 DEF ApiInit, ApiInv
<1>2. ApiInv /\ [ApiNext]_apiVars => ApiInv'
  <2> SUFFICES ASSUME ApiInv, [ApiNext]_apiVars PROVE ApiInv'
    OBVIOUS
  <2>1. CASE UNCHANGED apiVars
    BY <2>1 DEF apiVars, ApiInv, PageInv, Complete, Sized
  <2>2. CASE ApiNext
    BY <2>2, ReadsAreJustified, JudgementsAreJustified DEF ApiNext
  <2> QED BY <2>1, <2>2
<1>3. ApiInv => CallsJustified
  <2> SUFFICES ASSUME ApiInv, NEW p \in Pages
               PROVE  LET page == pages[p]
                          call == page.call
                      IN /\ page.did # <<>> =>
                              /\ page.ends >= Sized(call) /\ HostIsLocal(call)
                              /\ call.origin \in {"none", "own"} /\ (AuthOn => Presented(call) = "token")
                         /\ page.answer = "invalid" => ~call.sound
                         /\ page.answer = "200" /\ call.route = "restart" =>
                              page.did = <<<<"down one", TRUE>>, <<"up one", TRUE>>>>
    BY DEF CallsJustified
  <2>1. PageInv(pages[p])
    BY DEF ApiInv
  <2> QED BY <2>1 DEF PageInv, Refusal, Authorize, OriginIsLocal
<1> QED BY <1>1, <1>2, <1>3, PTL DEF ApiSpec

-----------------------------------------------------------------------------
(* The files the editor leaves, what is read of them, and the token.          *)

FileNames == ConfigNames \cup {TempOf[g] : g \in ConfigNames}
EditKeys == {"pc", "file", "content", "inode", "read", "seen"}
Writing == {"open", "fill", "rename"}

\* No two names are of one inode.
FilesInv ==
    /\ names \in [FileNames -> Inodes \cup {NoInode}]
    /\ \A f, g \in FileNames : names[f] = names[g] /\ names[f] # NoInode => f = g
    /\ data = [i \in Inodes |-> data[i]]
    /\ Resolves(Disk)

\* While a load is under way, the pairs that were on disk since it began differ
\* in one file only, and what it has read of the first file is of one of them.
ReaderInv(r) ==
    /\ r.pc \in {"load", "load2"} =>
           /\ Disk \in r.seen
           /\ \A p \in r.seen : p = <<p[1], p[2]>>
           /\ \A p, q \in r.seen : p[1] = q[1] \/ p[2] = q[2]
    /\ r.pc = "load2" => \E p \in r.seen : p[1] = r.read[1]
    /\ r.pc = "sync" => r.read \in r.seen

\* A writer has its temporary file for itself, and what it writes resolves
\* with what is beside it.
EditInv(e) ==
    LET edit == edits[e] IN
    /\ DOMAIN edit = EditKeys
    /\ edit.pc \in {"idle", "validate", "load", "load2", "sync"} \cup Writing
    /\ edit.pc # "fill" => edit.inode = NoInode
    /\ edit.pc \in {"validate"} \cup Writing => edit.file \in ConfigNames
    /\ edit.pc \in Writing => Resolves(Merged(e))
    /\ edit.pc = "fill" => edit.inode \in Inodes /\ names[TempOf[edit.file]] = edit.inode
    /\ edit.pc = "rename" => LET i == names[TempOf[edit.file]] IN i \in Inodes /\ data[i] = edit.content
    /\ ReaderInv(edit)
LoadInv(c) ==
    /\ DOMAIN loads[c] = EditKeys /\ loads[c].pc \in {"idle", "load", "load2", "sync"}
    /\ IsFiniteSet(loads[c].seen) /\ ReaderInv(loads[c])

\* A token that was handed out is in the file, and so in no hands before there
\* is one.
TokenInv ==
    /\ serving = "token" => tokenFile = 0 /\ tokenTemp # 0
    /\ serving = "up" => apiToken = tokenFile
    /\ handed # NoToken => tokenFile # 0 /\ handed = tokenFile

DashboardInv ==
    /\ FilesInv /\ TokenInv
    /\ edits = [e \in Editors |-> edits[e]] /\ \A e \in Editors : EditInv(e)
    /\ \A e, o \in Editors : edits[e].pc # "idle" /\ edits[o].pc # "idle" => e = o
    /\ loads = [c \in Loaders |-> loads[c]] /\ \A c \in Loaders : LoadInv(c)

LEMMA NamesApart ==
  /\ ConfigNames \subseteq FileNames
  /\ \A f \in ConfigNames : TempOf[f] \in FileNames \ ConfigNames
  /\ FileNames = {"committed", "local", "committed.tmp", "local.tmp"}
  /\ \A f \in ConfigNames : f = "committed" \/ f = "local"
BY DEF ConfigNames, FileNames, TempOf

\* What is on disk changes only with the two names and their contents.
LEMMA DiskKept ==
  ASSUME \A f \in ConfigNames : names'[f] = names[f] /\ (names[f] # NoInode => data'[names[f]] = data[names[f]])
  PROVE  Disk' = Disk
BY DEF Disk, PairOf, ContentOf, ConfigNames

\* What a reader knows stays true while the disk does.
LEMMA ReaderKept ==
  ASSUME NEW r, ReaderInv(r), Disk' = Disk
  PROVE  ReaderInv(r)'
BY DEF ReaderInv

\* A step of one editor, while the others are at rest and the disk is the same.
LEMMA EditorSteps ==
  ASSUME DashboardInv, NEW e \in Editors, \A o \in Editors : o # e => edits[o].pc = "idle",
         NEW new, edits' = [edits EXCEPT ![e] = new], EditInv(e)',
         FilesInv', Disk' = Disk, UNCHANGED <<loads, tokenVars>>
  PROVE  DashboardInv'
<1>1. edits'[e] = new /\ \A o \in Editors : o # e => edits'[o] = edits[o] /\ edits[o].pc = "idle"
  BY DEF DashboardInv
<1>2. ASSUME NEW o \in Editors, o # e PROVE EditInv(o)'
  BY <1>1, <1>2 DEF DashboardInv, EditInv, ReaderInv, Writing
<1>3. \A c \in Loaders : LoadInv(c)'
  BY ReaderKept DEF DashboardInv, LoadInv
<1>4. TokenInv'
  BY DEF DashboardInv, TokenInv, tokenVars
<1>5. \A o, q \in Editors : edits'[o].pc # "idle" /\ edits'[q].pc # "idle" => o = q
  BY <1>1
<1>6. edits' = [o \in Editors |-> edits'[o]] /\ loads' = [c \in Loaders |-> loads'[c]]
  BY DEF DashboardInv
<1>7. \A o \in Editors : EditInv(o)'
  BY <1>2
<1> QED BY <1>3, <1>4, <1>5, <1>6, <1>7 DEF DashboardInv

\* A reader reads one file, and then the other.
LEMMA ReadsWhatWas ==
  ASSUME NEW r, DOMAIN r = EditKeys, ReaderInv(r), r.pc \in {"load", "load2"}
  PROVE  LET new == ReadNext(r) IN
         /\ DOMAIN new = EditKeys /\ new.pc \in {"idle", "load2", "sync"} /\ new.inode = r.inode
         /\ new.seen = r.seen /\ ReaderInv(new)
<1>1. Disk = <<Disk[1], Disk[2]>>
  BY DEF Disk, PairOf
<1>2. CASE r.pc = "load"
  <2> DEFINE new == [r EXCEPT !.pc = "load2", !.read = <<Disk[1], NoSuchFile>>]
  <2>1. /\ new.pc = "load2" /\ new.read = <<Disk[1], NoSuchFile>> /\ new.seen = r.seen
        /\ new.inode = r.inode /\ DOMAIN new = EditKeys
    BY DEF EditKeys
  <2>2. ReadNext(r) = new
    BY <1>2 DEF ReadNext
  <2> HIDE DEF new
  <2>3. new.read[1] = Disk[1]
    BY <2>1
  <2> QED BY <1>2, <2>1, <2>2, <2>3 DEF ReaderInv
<1>3. CASE r.pc = "load2"
  <2> DEFINE pair == <<r.read[1], Disk[2]>>
             pc == IF Resolves(pair) THEN "sync" ELSE "idle"
             new == [r EXCEPT !.pc = pc, !.read = pair]
  <2>1. new.pc = pc /\ new.read = pair /\ new.seen = r.seen /\ new.inode = r.inode /\ DOMAIN new = EditKeys
    BY DEF EditKeys
  <2>2. ReadNext(r) = new
    BY <1>3 DEF ReadNext
  <2>3. pair \in r.seen
    <3>1. PICK p \in r.seen : p[1] = r.read[1]
      BY <1>3 DEF ReaderInv
    <3>2. p = <<p[1], p[2]>> /\ Disk \in r.seen /\ (p[1] = Disk[1] \/ p[2] = Disk[2])
      BY <3>1 DEF ReaderInv
    <3> QED BY <1>1, <3>1, <3>2
  <2> HIDE DEF new, pair
  <2> QED BY <2>1, <2>2, <2>3 DEF ReaderInv
<1> QED BY <1>2, <1>3

\* An inode that no name and no writer has, while a temporary file is missing.
LEMMA AnInodeIsFree ==
  ASSUME DashboardInv, NEW e \in Editors, edits[e].pc = "open",
         NEW g \in ConfigNames, names[TempOf[g]] = NoInode
  PROVE  FreeInode \in Inodes /\ \A f \in FileNames : names[f] # FreeInode
<1>1. \A o \in Editors : edits[o].inode = NoInode
  BY DEF DashboardInv, EditInv
<1>2. FileNames = {"committed", "local", "committed.tmp", "local.tmp"} /\ TempOf[g] \in {"committed.tmp", "local.tmp"}
  BY NamesApart DEF ConfigNames, TempOf
<1>3. PICK x \in Inodes : TRUE
  BY DashboardAssumption
<1> DEFINE Or(f) == IF names[f] = NoInode THEN x ELSE names[f]
<1>4. \A f \in FileNames : Or(f) \in Inodes
  BY DEF DashboardInv, FilesInv
<1>5. PICK other \in {"committed.tmp", "local.tmp"} : FileNames = {"committed", "local", TempOf[g], other}
  BY <1>2
<1>6. PICK i \in Inodes : i \notin {Or("committed"), Or("local"), Or(other)}
  <2>1. Or("committed") \in Inodes /\ Or("local") \in Inodes /\ Or(other) \in Inodes
    BY <1>4, <1>5
  <2> HIDE DEF Or
  <2>2. Inodes \ {Or("committed"), Or("local"), Or(other)} # {}
    BY <2>1, DashboardAssumption
  <2> QED BY <2>2
<1>7. NoInode \notin Inodes /\ \A f \in FileNames : names[f] # i
  BY <1>5, <1>6, DashboardAssumption
<1>8. i \notin {names[f] : f \in DOMAIN names} \cup {edits[o].inode : o \in Editors}
  BY <1>1, <1>6, <1>7 DEF DashboardInv, FilesInv
<1>9. FreeInode \in Inodes /\ FreeInode \notin {names[f] : f \in DOMAIN names} \cup {edits[o].inode : o \in Editors}
  BY <1>8 DEF FreeInode
<1> QED BY <1>9 DEF DashboardInv, FilesInv

\* What is posted is validated with what is on disk beside it, and written to
\* a temporary file.
LEMMA WritesAreTrue ==
  ASSUME DashboardInv, ~Contests, NEW e \in Editors,
         \/ \E f \in ConfigNames, x \in Contents : PostConfig(e, f, x)
         \/ Validate(e) \/ OpenTemp(e) \/ FillTemp(e)
  PROVE  DashboardInv'
<1>0. EditInv(e) /\ edits \in [Editors -> {edits[o] : o \in Editors}]
  BY DEF DashboardInv
<1>1. ASSUME NEW f \in ConfigNames, NEW x \in Contents, PostConfig(e, f, x) PROVE DashboardInv'
  <2> DEFINE new == [Unsent EXCEPT !.pc = "validate", !.file = f, !.content = x]
  <2>1. edits' = [edits EXCEPT ![e] = new] /\ UNCHANGED <<fileVars, loads, held, tokenVars>>
    BY <1>1 DEF PostConfig
  <2>2. \A o \in Editors : edits[o].pc = "idle"
    BY <1>1 DEF PostConfig
  <2>3. new.pc = "validate" /\ new.file = f /\ new.inode = NoInode /\ DOMAIN new = EditKeys
    BY DEF Unsent, EditKeys
  <2> HIDE DEF new
  <2>4. edits'[e] = new
    BY <1>0, <2>1
  <2>5. EditInv(e)'
    BY <2>3, <2>4 DEF EditInv, ReaderInv, Writing
  <2>6. Disk' = Disk /\ FilesInv'
    BY <2>1 DEF DashboardInv, FilesInv, fileVars, Disk
  <2> QED BY <2>1, <2>2, <2>5, <2>6, EditorSteps
<1>2. CASE Validate(e)
  <2> DEFINE pc == IF Resolves(Merged(e)) THEN "open" ELSE "idle"
             new == [edits[e] EXCEPT !.pc = pc]
  <2>1. /\ edits' = [edits EXCEPT ![e] = new] /\ UNCHANGED <<fileVars, loads, held, tokenVars>>
        /\ edits[e].pc = "validate"
    BY <1>2 DEF Validate
  <2>2. \A o \in Editors : o # e => edits[o].pc = "idle"
    BY <2>1 DEF DashboardInv
  <2>3. /\ new.pc = pc /\ new.file = edits[e].file /\ new.content = edits[e].content /\ new.inode = NoInode
        /\ DOMAIN new = EditKeys
    BY <1>0, <2>1 DEF EditInv, EditKeys
  <2> HIDE DEF new
  <2>4. edits'[e] = new
    BY <1>0, <2>1
  <2>5. Disk' = Disk /\ FilesInv'
    BY <2>1 DEF DashboardInv, FilesInv, fileVars, Disk
  <2>6. Merged(e)' = Merged(e)
    BY <2>3, <2>4, <2>5 DEF Merged
  <2>7. EditInv(e)'
    BY <1>0, <2>1, <2>3, <2>4, <2>6 DEF EditInv, ReaderInv, Writing, Resolves
  <2> QED BY <2>1, <2>2, <2>5, <2>7, EditorSteps
<1>3. CASE OpenTemp(e)
  <2> DEFINE tmp == TempOf[edits[e].file]
             inode == IF names[tmp] = NoInode THEN FreeInode ELSE names[tmp]
             new == [edits[e] EXCEPT !.pc = "fill", !.inode = inode]
  <2>1. /\ edits[e].pc = "open" /\ names' = [names EXCEPT ![tmp] = inode]
        /\ data' = [data EXCEPT ![inode] = Truncated]
        /\ edits' = [edits EXCEPT ![e] = new] /\ UNCHANGED <<loads, held, tokenVars>>
    BY <1>3 DEF OpenTemp
  <2>2. edits[e].file \in ConfigNames /\ tmp \in FileNames \ ConfigNames /\ ConfigNames \subseteq FileNames
    BY <1>0, <2>1, NamesApart DEF EditInv, Writing
  <2>3. inode \in Inodes /\ \A f \in FileNames : f # tmp => names[f] # inode
    BY <2>1, <2>2, AnInodeIsFree DEF DashboardInv, FilesInv
  <2>4. \A o \in Editors : o # e => edits[o].pc = "idle"
    BY <2>1 DEF DashboardInv
  <2>5. /\ new.pc = "fill" /\ new.file = edits[e].file /\ new.content = edits[e].content /\ new.inode = inode
        /\ DOMAIN new = EditKeys
    BY <1>0 DEF EditInv, EditKeys
  <2> HIDE DEF new, inode
  <2>6. edits'[e] = new /\ names'[tmp] = inode /\ \A f \in FileNames : f # tmp => names'[f] = names[f]
    BY <1>0, <2>1, <2>2 DEF DashboardInv, FilesInv
  <2>7. Disk' = Disk
    <3>1. \A f \in ConfigNames : names'[f] = names[f] /\ (names[f] # NoInode => data'[names[f]] = data[names[f]])
      BY <2>1, <2>2, <2>3, <2>6 DEF DashboardInv, FilesInv
    <3> QED BY <3>1, DiskKept
  <2>8. FilesInv'
    <3>1. names' \in [FileNames -> Inodes \cup {NoInode}] /\ data' = [i \in Inodes |-> data'[i]]
      BY <2>1, <2>3 DEF DashboardInv, FilesInv
    <3>2. \A f, g \in FileNames : names'[f] = names'[g] /\ names'[f] # NoInode => f = g
      BY <2>2, <2>3, <2>6 DEF DashboardInv, FilesInv
    <3> QED BY <2>7, <3>1, <3>2 DEF DashboardInv, FilesInv, Resolves
  <2>9. Merged(e)' = Merged(e)
    BY <2>5, <2>6, <2>7 DEF Merged
  <2>10. EditInv(e)'
    BY <1>0, <2>1, <2>2, <2>3, <2>5, <2>6, <2>9 DEF EditInv, ReaderInv, Writing, Resolves
  <2> QED BY <2>1, <2>4, <2>7, <2>8, <2>10, EditorSteps
<1>4. CASE FillTemp(e)
  <2> DEFINE i == edits[e].inode
             new == [edits[e] EXCEPT !.pc = "rename", !.inode = NoInode]
  <2>1. /\ edits[e].pc = "fill" /\ data' = [data EXCEPT ![i] = edits[e].content]
        /\ edits' = [edits EXCEPT ![e] = new] /\ UNCHANGED <<names, loads, held, tokenVars>>
    BY <1>4 DEF FillTemp
  <2>2. /\ edits[e].file \in ConfigNames /\ TempOf[edits[e].file] \in FileNames \ ConfigNames
        /\ ConfigNames \subseteq FileNames /\ i \in Inodes /\ names[TempOf[edits[e].file]] = i
    BY <1>0, <2>1, NamesApart DEF EditInv, Writing
  <2>3. \A o \in Editors : o # e => edits[o].pc = "idle"
    BY <2>1 DEF DashboardInv
  <2>4. /\ new.pc = "rename" /\ new.file = edits[e].file /\ new.content = edits[e].content /\ new.inode = NoInode
        /\ DOMAIN new = EditKeys
    BY <1>0 DEF EditInv, EditKeys
  <2> HIDE DEF new
  <2>5. edits'[e] = new /\ data'[i] = edits[e].content
    BY <1>0, <2>1, <2>2 DEF DashboardInv, FilesInv
  <2>6. Disk' = Disk
    <3>1. \A f \in ConfigNames : names[f] # i
      <4>1. \A f, g \in FileNames : names[f] = names[g] /\ names[f] # NoInode => f = g
        BY DEF DashboardInv, FilesInv
      <4>2. i # NoInode
        BY <2>2, DashboardAssumption
      <4> HIDE DEF i
      <4> QED BY <2>2, <4>1, <4>2
    <3>2. \A f \in ConfigNames : names'[f] = names[f] /\ (names[f] # NoInode => data'[names[f]] = data[names[f]])
      BY <2>1, <2>2, <3>1 DEF DashboardInv, FilesInv
    <3> QED BY <3>2, DiskKept
  <2>7. FilesInv'
    <3>1. data' = [k \in Inodes |-> data'[k]]
      BY <2>1 DEF DashboardInv, FilesInv
    <3> QED BY <2>1, <2>6, <3>1 DEF DashboardInv, FilesInv, Resolves
  <2>8. Merged(e)' = Merged(e)
    BY <2>4, <2>5, <2>6 DEF Merged
  <2>9. EditInv(e)'
    BY <1>0, <2>1, <2>2, <2>4, <2>5, <2>8 DEF EditInv, ReaderInv, Writing, Resolves
  <2> QED BY <2>1, <2>3, <2>6, <2>7, <2>9, EditorSteps
<1> QED BY <1>1, <1>2, <1>3, <1>4

\* Two pairs at most that a load may have seen: what it saw before is one of
\* them when the other comes.
LEMMA AtMostTwo ==
  ASSUME NEW S, IsFiniteSet(S), NEW a \in S, NEW b, b \notin S, Cardinality(S \cup {b}) <= 2
  PROVE  S = {a}
<1>1. Cardinality(S) \in Nat /\ Cardinality(S \cup {b}) = Cardinality(S) + 1
  BY FS_AddElement, FS_CardinalityType
<1>2. Cardinality(S) <= 1
  BY <1>1
<1>3. ASSUME NEW c \in S, c # a PROVE FALSE
  <2> DEFINE T == {a}
  <2>1. IsFiniteSet(T) /\ Cardinality(T) = 1 /\ c \notin T /\ T \cup {c} \subseteq S
    BY <1>3, FS_Singleton
  <2> HIDE DEF T
  <2>2. IsFiniteSet(T \cup {c}) /\ Cardinality(T \cup {c}) = Cardinality(T) + 1
    BY <2>1, FS_AddElement
  <2>3. Cardinality(T \cup {c}) <= Cardinality(S)
    BY <2>1, FS_Subset
  <2> QED BY <1>1, <1>2, <2>1, <2>2, <2>3
<1> QED BY <1>3

\* The rename puts the pair that was validated on disk, and the loads that are
\* under way may read either.
LEMMA RenamesAreTrue ==
  ASSUME DashboardInv, ~Contests, NEW e \in Editors, RenameTemp(e)
  PROVE  DashboardInv'
<1> DEFINE f == edits[e].file
           tmp == TempOf[f]
           i == names[tmp]
           n == [names EXCEPT ![f] = i, ![tmp] = NoInode]
           pair == PairOf(n, data)
           new == [Unsent EXCEPT !.pc = "load", !.seen = {pair}]
<1>0. EditInv(e) /\ edits[e].pc = "rename" /\ edits \in [Editors -> {edits[o] : o \in Editors}]
  BY DEF DashboardInv, RenameTemp
<1>1. /\ f \in ConfigNames /\ tmp \in FileNames \ ConfigNames /\ ConfigNames \subseteq FileNames
      /\ i \in Inodes /\ data[i] = edits[e].content /\ Resolves(Merged(e)) /\ i # NoInode
  BY <1>0, NamesApart, DashboardAssumption DEF EditInv, Writing
<1>2. /\ names' = n /\ loads' = Readers(n) /\ edits' = [edits EXCEPT ![e] = new]
      /\ data' = [k \in Inodes |-> IF \E g \in DOMAIN names : names'[g] = k THEN data[k] ELSE Truncated]
      /\ \A c \in Loaders : Cardinality(Readers(n)[c].seen) <= 2
      /\ UNCHANGED <<held, tokenVars>>
  BY <1>1 DEF RenameTemp
<1>3. \A o \in Editors : o # e => edits[o].pc = "idle"
  BY <1>0 DEF DashboardInv
<1>4. /\ names'[f] = i /\ names'[tmp] = NoInode /\ \A g \in FileNames : g # f /\ g # tmp => names'[g] = names[g]
      /\ DOMAIN names = FileNames /\ n \in [FileNames -> Inodes \cup {NoInode}]
  BY <1>1, <1>2 DEF DashboardInv, FilesInv
<1>5. \A g \in FileNames : names'[g] # NoInode => data'[names'[g]] = data[names'[g]]
  BY <1>2, <1>4 
<1>6. Disk' = pair
  <2>1. \A g \in ConfigNames : n[g] # NoInode => data'[n[g]] = data[n[g]]
    BY <1>1, <1>2, <1>5
  <2>2. \A g \in ConfigNames : ContentOf(n, data', g) = ContentOf(n, data, g)
    <3> HIDE DEF n
    <3> QED BY <2>1 DEF ContentOf
  <2>3. Disk' = PairOf(n, data')
    BY <1>2 DEF Disk
  <2> HIDE DEF n
  <2> QED BY <2>2, <2>3 DEF PairOf, ConfigNames
<1>7. /\ pair = Merged(e)
      /\ pair[1] = Disk[1] \/ pair[2] = Disk[2]
      /\ pair = <<pair[1], pair[2]>> /\ Disk = <<Disk[1], Disk[2]>>
  <2>1. \A g \in ConfigNames : g # f => n[g] = names[g]
    BY <1>1, <1>2, <1>4
  <2>2. n[f] = i
    BY <1>2, <1>4
  <2>3. \A g \in ConfigNames : ContentOf(n, data, g) = IF g = f THEN edits[e].content ELSE ContentOf(names, data, g)
    <3> SUFFICES ASSUME NEW g \in ConfigNames
                 PROVE  ContentOf(n, data, g) = IF g = f THEN edits[e].content ELSE ContentOf(names, data, g)
      OBVIOUS
    <3>1. n[g] = IF g = f THEN i ELSE names[g]
      BY <2>1, <2>2
    <3> HIDE DEF n, i
    <3> QED BY <1>1, <3>1 DEF ContentOf
  <2> HIDE DEF n, i
  <2> QED BY <1>1, <2>3, NamesApart DEF Merged, Disk, PairOf, ConfigNames
<1>8. FilesInv'
  <2>1. \A g, h \in FileNames : names'[g] = names'[h] /\ names'[g] # NoInode => g = h
    BY <1>1, <1>4 DEF DashboardInv, FilesInv
  <2>2. data' = [k \in Inodes |-> data'[k]]
    BY <1>2
  <2>3. Resolves(Disk)'
    BY <1>1, <1>6, <1>7 DEF Resolves
  <2> QED BY <1>2, <1>4, <2>1, <2>2, <2>3 DEF FilesInv
<1>9. \A o \in Editors : EditInv(o)'
  <2>1. new.pc = "load" /\ new.inode = NoInode /\ new.seen = {pair} /\ DOMAIN new = EditKeys
    BY DEF Unsent, EditKeys
  <2> HIDE DEF new, pair, n, i, tmp, f
  <2>2. edits'[e] = new /\ \A o \in Editors : o # e => edits'[o] = edits[o]
    BY <1>0, <1>2
  <2>3. EditInv(e)'
    BY <1>6, <1>7, <2>1, <2>2 DEF EditInv, ReaderInv, Writing
  <2>4. ASSUME NEW o \in Editors, o # e PROVE EditInv(o)'
    BY <1>3, <2>2, <2>4 DEF DashboardInv, EditInv, ReaderInv, Writing
  <2> QED BY <2>3, <2>4
<1>10. ASSUME NEW c \in Loaders PROVE LoadInv(c)'
  <2>1. LoadInv(c) /\ loads'[c] = Readers(n)[c] /\ Cardinality(loads'[c].seen) <= 2
    BY <1>2 DEF DashboardInv, Readers
  <2>2. CASE loads[c].pc \notin {"load", "load2"}
    <3>1. loads'[c] = loads[c]
      BY <2>1, <2>2 DEF Readers
    <3> QED BY <2>1, <2>2, <3>1 DEF LoadInv, ReaderInv
  <2>3. CASE loads[c].pc \in {"load", "load2"}
    <3> DEFINE r == loads[c]
               S == r.seen
               r2 == [r EXCEPT !.seen = @ \cup {pair}]
    <3>1. loads'[c] = r2
      BY <2>1, <2>3 DEF Readers
    <3>2. r2.pc = r.pc /\ r2.read = r.read /\ r2.seen = S \cup {pair} /\ DOMAIN r2 = EditKeys
      BY <2>1 DEF LoadInv, EditKeys
    <3>3. IsFiniteSet(S \cup {pair})
      BY <2>1, FS_AddElement DEF LoadInv
    <3>4. Disk \in S /\ (\A p \in S : p = <<p[1], p[2]>>) /\ \A p, q \in S : p[1] = q[1] \/ p[2] = q[2]
      BY <2>1, <2>3 DEF LoadInv, ReaderInv
    <3>5. pair \in S \/ S = {Disk}
      <4>1. Cardinality(S \cup {pair}) <= 2 /\ IsFiniteSet(S)
        BY <2>1, <3>1, <3>2 DEF LoadInv
      <4> HIDE DEF S, pair
      <4> QED BY <3>4, <4>1, AtMostTwo
    <3>6. /\ \A p \in S \cup {pair} : p = <<p[1], p[2]>>
          /\ \A p, q \in S \cup {pair} : p[1] = q[1] \/ p[2] = q[2]
      BY <1>7, <3>4, <3>5
    <3>7. r.pc = "load2" => \E p \in S : p[1] = r.read[1]
      BY <2>1, <2>3 DEF LoadInv, ReaderInv
    <3> HIDE DEF r2, S, pair
    <3>8. r.pc = "load2" => \E p \in r2.seen : p[1] = r2.read[1]
      BY <3>2, <3>7
    <3> QED BY <1>6, <2>3, <3>1, <3>2, <3>3, <3>6, <3>8 DEF LoadInv, ReaderInv
  <2> QED BY <2>2, <2>3
<1>11. loads' = [c \in Loaders |-> loads'[c]] /\ edits' = [o \in Editors |-> edits'[o]]
  BY <1>2 DEF Readers, DashboardInv
<1>12. TokenInv'
  BY <1>2 DEF DashboardInv, TokenInv, tokenVars
<1>13. \A o, q \in Editors : edits'[o].pc # "idle" /\ edits'[q].pc # "idle" => o = q
  BY <1>0, <1>2, <1>3
<1> QED BY <1>8, <1>9, <1>10, <1>11, <1>12, <1>13 DEF DashboardInv

\* What is read of the two files, and given to the supervisor.
LEMMA ReadsAreTrue ==
  ASSUME DashboardInv,
         \/ \E e \in Editors : PostLoads(e) \/ PostSyncs(e)
         \/ \E c \in Loaders : UpLoads(c) \/ UpSyncs(c)
  PROVE  DashboardInv'
<1>1. Disk' = Disk /\ FilesInv' /\ UNCHANGED tokenVars
  BY DEF DashboardInv, FilesInv, fileVars, Disk, PostLoads, PostSyncs, UpLoads, UpSyncs
<1>2. TokenInv'
  BY <1>1 DEF DashboardInv, TokenInv, tokenVars
<1>3. Unsent.pc = "idle" /\ Unsent.inode = NoInode /\ DOMAIN Unsent = EditKeys /\ Unsent.seen = {}
  BY DEF Unsent, EditKeys
<1>4. ASSUME NEW e \in Editors, PostLoads(e) \/ PostSyncs(e) PROVE DashboardInv'
  <2>1. EditInv(e) /\ edits[e].pc \in {"load", "load2", "sync"} /\ UNCHANGED <<loads, tokenVars>>
        /\ \A o \in Editors : o # e => edits[o].pc = "idle"
    BY <1>4 DEF DashboardInv, PostLoads, PostSyncs
  <2>2. CASE PostLoads(e)
    <3> DEFINE new == ReadNext(edits[e])
    <3>1. edits' = [edits EXCEPT ![e] = new] /\ edits[e].pc \in {"load", "load2"}
      BY <2>2 DEF PostLoads
    <3>2. /\ DOMAIN new = EditKeys /\ new.pc \in {"idle", "load2", "sync"} /\ new.inode = NoInode
          /\ ReaderInv(new)
      BY <2>1, <3>1, ReadsWhatWas DEF EditInv
    <3>3. edits'[e] = new
      BY <3>1 DEF DashboardInv
    <3> HIDE DEF new
    <3>4. EditInv(e)'
      BY <1>1, <3>2, <3>3 DEF EditInv, ReaderInv, Writing
    <3> QED BY <1>1, <2>1, <3>1, <3>4, EditorSteps
  <2>3. CASE PostSyncs(e)
    <3>1. edits' = [edits EXCEPT ![e] = Unsent]
      BY <2>3 DEF PostSyncs
    <3>2. edits'[e] = Unsent
      BY <3>1 DEF DashboardInv
    <3>3. EditInv(e)'
      BY <1>3, <3>2 DEF EditInv, ReaderInv, Writing
    <3> QED BY <1>1, <2>1, <3>1, <3>3, EditorSteps
  <2> QED BY <1>4, <2>2, <2>3
<1>5. ASSUME NEW c \in Loaders, UpLoads(c) \/ UpSyncs(c) PROVE DashboardInv'
  <2>1. LoadInv(c) /\ UNCHANGED edits
    BY <1>5 DEF DashboardInv, UpLoads, UpSyncs
  <2>2. ASSUME NEW new, loads' = [loads EXCEPT ![c] = new], DOMAIN new = EditKeys,
               new.pc \in {"idle", "load", "load2", "sync"}, IsFiniteSet(new.seen), ReaderInv(new)
        PROVE  DashboardInv'
    <3>1. loads'[c] = new /\ \A d \in Loaders : d # c => loads'[d] = loads[d]
      BY <2>2 DEF DashboardInv
    <3>2. \A d \in Loaders : LoadInv(d)'
      BY <1>1, <2>2, <3>1 DEF DashboardInv, LoadInv, ReaderInv
    <3>3. loads' = [d \in Loaders |-> loads'[d]]
      BY <2>2 DEF DashboardInv
    <3>4. ASSUME NEW e \in Editors PROVE EditInv(e)'
      <4>1. EditInv(e) /\ UNCHANGED fileVars
        BY <1>5 DEF DashboardInv, UpLoads, UpSyncs
      <4>2. Merged(e)' = Merged(e)
        BY <1>1, <2>1 DEF Merged
      <4> QED BY <1>1, <2>1, <4>1, <4>2 DEF EditInv, ReaderInv, Writing, Resolves, fileVars
    <3> QED BY <1>1, <1>2, <2>1, <3>2, <3>3, <3>4 DEF DashboardInv
  <2>3. CASE UpLoads(c) /\ loads[c].pc = "idle"
    <3> DEFINE new == [Unsent EXCEPT !.pc = "load", !.seen = {Disk}]
    <3>1. loads' = [loads EXCEPT ![c] = new]
      BY <2>3 DEF UpLoads
    <3>2. new.pc = "load" /\ new.seen = {Disk} /\ DOMAIN new = EditKeys
      BY <1>3 DEF Unsent, EditKeys
    <3>3. Disk = <<Disk[1], Disk[2]>> /\ IsFiniteSet({Disk})
      BY FS_Singleton DEF Disk, PairOf
    <3> HIDE DEF new
    <3>4. ReaderInv(new)
      BY <3>2, <3>3 DEF ReaderInv
    <3> QED BY <2>2, <3>1, <3>2, <3>3, <3>4
  <2>4. CASE UpLoads(c) /\ loads[c].pc # "idle"
    <3> DEFINE new == ReadNext(loads[c])
    <3>1. loads' = [loads EXCEPT ![c] = new] /\ loads[c].pc \in {"load", "load2"}
      BY <2>4 DEF UpLoads
    <3>2. /\ DOMAIN new = EditKeys /\ new.pc \in {"idle", "load2", "sync"} /\ new.seen = loads[c].seen
          /\ ReaderInv(new)
      BY <2>1, <3>1, ReadsWhatWas DEF LoadInv
    <3> HIDE DEF new
    <3> QED BY <2>1, <2>2, <3>1, <3>2 DEF LoadInv
  <2>5. CASE UpSyncs(c)
    <3>1. loads' = [loads EXCEPT ![c] = Unsent]
      BY <2>5 DEF UpSyncs
    <3>2. IsFiniteSet(Unsent.seen) /\ ReaderInv(Unsent)
      BY <1>3, FS_EmptySet DEF ReaderInv
    <3> QED BY <1>3, <2>2, <3>1, <3>2
  <2> QED BY <1>5, <2>3, <2>4, <2>5
<1> QED BY <1>4, <1>5

\* The token, the daemon's death, and a root that is forgotten.
LEMMA TokensAreTrue ==
  ASSUME DashboardInv, LoadToken \/ CreateToken \/ ReadToken \/ DaemonDies \/ ForgetsRoot \/ UNCHANGED dashboardVars
  PROVE  DashboardInv'
<1>1. Disk' = Disk /\ FilesInv' /\ UNCHANGED <<fileVars, loads>>
  <2>1. UNCHANGED <<fileVars, loads>>
    BY DEF LoadToken, CreateToken, ReadToken, DaemonDies, ForgetsRoot, dashboardVars, fileVars
  <2> QED BY <2>1 DEF DashboardInv, FilesInv, fileVars, Disk
<1>2. \A c \in Loaders : LoadInv(c)'
  BY <1>1 DEF DashboardInv, LoadInv, ReaderInv
<1>3. loads' = [c \in Loaders |-> loads'[c]]
  BY <1>1 DEF DashboardInv
<1>4. TokenInv'
  BY DEF DashboardInv, TokenInv, LoadToken, CreateToken, ReadToken, DaemonDies, ForgetsRoot, dashboardVars, tokenVars
<1>5. CASE UNCHANGED edits
  <2>1. ASSUME NEW e \in Editors PROVE EditInv(e)'
    <3>1. EditInv(e)
      BY DEF DashboardInv
    <3>2. Merged(e)' = Merged(e)
      BY <1>1, <1>5 DEF Merged
    <3> QED BY <1>1, <1>5, <3>1, <3>2 DEF EditInv, ReaderInv, Writing, Resolves, fileVars
  <2> QED BY <1>1, <1>2, <1>3, <1>4, <1>5, <2>1 DEF DashboardInv
<1>6. CASE edits' = [e \in Editors |-> Unsent]
  <2>1. Unsent.pc = "idle" /\ Unsent.inode = NoInode /\ DOMAIN Unsent = EditKeys
    BY DEF Unsent, EditKeys
  <2>2. \A e \in Editors : edits'[e] = Unsent
    BY <1>6
  <2>3. \A e \in Editors : EditInv(e)'
    BY <2>1, <2>2 DEF EditInv, ReaderInv, Writing
  <2>4. edits' = [e \in Editors |-> edits'[e]]
    BY <1>6
  <2> QED BY <1>1, <1>2, <1>3, <1>4, <2>1, <2>2, <2>3, <2>4 DEF DashboardInv
<1> QED BY <1>5, <1>6 DEF LoadToken, CreateToken, ReadToken, DaemonDies, ForgetsRoot, dashboardVars

\* The files of a repo that is supervised resolve.
LEMMA InitDashboard == DashboardInit => DashboardInv
<1> SUFFICES ASSUME DashboardInit PROVE DashboardInv
  OBVIOUS
<1>1. PICK pair \in Fits :
         LET i == CHOOSE k \in Inodes : TRUE
             j == CHOOSE k \in Inodes : k # i
         IN
         /\ names = [f \in FileNames |->
                        IF f = "committed" /\ pair[1] # NoSuchFile THEN i
                        ELSE IF f = "local" /\ pair[2] # NoSuchFile THEN j ELSE NoInode]
         /\ data = [k \in Inodes |-> IF k = i THEN pair[1] ELSE IF k = j THEN pair[2] ELSE Truncated]
  BY DEF DashboardInit, FileNames
<1> DEFINE i == CHOOSE k \in Inodes : TRUE
           j == CHOOSE k \in Inodes : k # i
<1>2. i \in Inodes
  BY DashboardAssumption
<1>3. j \in Inodes /\ j # i
  <2>1. PICK k \in Inodes : k # i
    BY <1>2, DashboardAssumption
  <2> QED BY <2>1
<1>4. /\ names = [f \in FileNames |->
                        IF f = "committed" /\ pair[1] # NoSuchFile THEN i
                        ELSE IF f = "local" /\ pair[2] # NoSuchFile THEN j ELSE NoInode]
      /\ data = [k \in Inodes |-> IF k = i THEN pair[1] ELSE IF k = j THEN pair[2] ELSE Truncated]
  BY <1>1
<1> HIDE DEF i, j
<1>5. FileNames = {"committed", "local", "committed.tmp", "local.tmp"} /\ NoInode \notin Inodes
  BY NamesApart, DashboardAssumption
<1>6. Disk = pair
  <2>1. pair = <<pair[1], pair[2]>> /\ pair \in Fits
    BY <1>1, DashboardAssumption
  <2>2. /\ names["committed"] = IF pair[1] # NoSuchFile THEN i ELSE NoInode
        /\ names["local"] = IF pair[2] # NoSuchFile THEN j ELSE NoInode
        /\ data[i] = pair[1] /\ data[j] = pair[2]
    BY <1>2, <1>3, <1>4, <1>5
  <2> QED BY <1>2, <1>3, <1>5, <2>1, <2>2 DEF Disk, PairOf, ContentOf
<1>7. FilesInv
  <2>1. names \in [FileNames -> Inodes \cup {NoInode}] /\ data = [k \in Inodes |-> data[k]]
    BY <1>2, <1>3, <1>4
  <2>2. \A f, g \in FileNames : names[f] = names[g] /\ names[f] # NoInode => f = g
    BY <1>3, <1>4
  <2> QED BY <1>6, <2>1, <2>2 DEF FilesInv, Resolves
<1>8. Unsent.pc = "idle" /\ Unsent.inode = NoInode /\ DOMAIN Unsent = EditKeys /\ Unsent.seen = {}
  BY DEF Unsent, EditKeys
<1>9. \A e \in Editors : edits[e] = Unsent
  BY DEF DashboardInit
<1>10. \A c \in Loaders : loads[c] = Unsent
  BY DEF DashboardInit
<1>11. \A e \in Editors : EditInv(e)
  BY <1>8, <1>9 DEF EditInv, ReaderInv, Writing
<1>12. \A c \in Loaders : LoadInv(c)
  BY <1>8, <1>10, FS_EmptySet DEF LoadInv, ReaderInv
<1>13. TokenInv /\ edits = [e \in Editors |-> edits[e]] /\ loads = [c \in Loaders |-> loads[c]]
  BY DEF DashboardInit, TokenInv
<1> QED BY <1>7, <1>8, <1>9, <1>11, <1>12, <1>13 DEF DashboardInv

\* The files on disk resolve together at every moment, what is brought to the
\* supervisor was on disk as a whole, a token that was handed out stays good,
\* and the API acts on whole calls that nothing speaks against
\* (dashboard.rs, dashboard_auth.rs), for any files, contents, calls and
\* connections, if one edit at a time is under way and one at most falls into
\* a load.
THEOREM DashboardAlwaysTrue ==
  ASSUME ~Contests
  PROVE  DashboardSpec /\ ApiSpec => []DashboardTrue
<1>1. DashboardInv /\ [DashboardNext]_dashboardVars => DashboardInv'
  <2> SUFFICES ASSUME DashboardInv, DashboardNext \/ UNCHANGED dashboardVars PROVE DashboardInv'
    OBVIOUS
  <2> QED BY WritesAreTrue, RenamesAreTrue, ReadsAreTrue, TokensAreTrue DEF DashboardNext
<1>2. DashboardInv => EditsTrue
  <2> SUFFICES ASSUME DashboardInv PROVE EditsTrue
    OBVIOUS
  <2>1. \A e \in Editors : edits[e].pc = "sync" => edits[e].read \in edits[e].seen
    BY DEF DashboardInv, EditInv, ReaderInv
  <2>2. \A c \in Loaders : loads[c].pc = "sync" => loads[c].read \in loads[c].seen
    BY DEF DashboardInv, LoadInv, ReaderInv
  <2>3. Resolves(Disk) /\ (serving = "up" /\ handed # NoToken => handed = apiToken)
    BY DEF DashboardInv, FilesInv, TokenInv
  <2>4. ASSUME NEW r \in {edits[e] : e \in Editors} \cup {loads[c] : c \in Loaders}, r.pc = "sync"
        PROVE  r.read \in r.seen
    BY <2>1, <2>2, <2>4
  <2> QED BY <2>3, <2>4 DEF EditsTrue
<1>3. DashboardSpec => []EditsTrue
  BY InitDashboard, <1>1, <1>2, PTL DEF DashboardSpec
<1>4. EditsTrue /\ CallsJustified <=> DashboardTrue
  BY DEF DashboardTrue
<1> QED BY <1>3, <1>4, CallsAlwaysJustified, PTL
-----------------------------------------------------------------------------
(* What the sampler reports, and the series it keeps.                         *)

CollectKeys == {"pc", "listed", "rows", "next", "groups"}

\* Since a sample, a container's counter grew by no more than it used: it
\* starts again at zero, never higher.
Grows(sample, now) ==
    /\ {sample.count, sample.at, sample.used} \subseteq Nat /\ sample.at <= clock.now
    /\ sample.used <= now.used /\ now.count + sample.used <= sample.count + now.used
Sampling(taken) == \A c \in DOMAIN taken : c \in Sampled /\ Grows(taken[c], usage[c])
RowsTrue(rows) == \A c \in DOMAIN rows : Claimed(rows[c].cpu, rows[c].grown) /\ Claimed(rows[c].rate, rows[c].grown)

UsageInv ==
    /\ usage \in [Sampled -> [up : BOOLEAN, count : Nat, used : Nat]]
    /\ clock.now \in Nat /\ DOMAIN clock = {"now", "tick"}
CollectInv ==
    /\ DOMAIN collecting = CollectKeys /\ collecting.listed \subseteq Sampled
    /\ Sampling(samples) /\ Sampling(collecting.next)
    /\ RowsTrue(collecting.rows)

\* A series is in the order of time and ends by the latest snapshot.
LastOf(points) == points[Len(points)]
Ordered(points) == \A i, j \in 1..Len(points) : i <= j => points[i] <= points[j]
SeriesInv(points) ==
    /\ points \in Seq(Nat) /\ Len(points) \in 1..HistoryCapacity /\ Ordered(points)
    /\ LastOf(points) <= latest.at /\ LastOf(points) + HistoryCapacity >= latest.at
HistoryInv ==
    /\ RowsTrue(latest.rows) /\ latest.at \in Nat /\ latest.at <= clock.now
    /\ \A k \in DOMAIN series : SeriesInv(series[k]) /\ (Pushed(latest, k) => LastOf(series[k]) = latest.at)

SamplerInv == UsageInv /\ CollectInv /\ HistoryInv

LEMMA InitSampler == SamplerInit => SamplerInv
<1> SUFFICES ASSUME SamplerInit PROVE SamplerInv
  OBVIOUS
<1>1. UsageInv
  BY DEF SamplerInit, UsageInv
<1>2. /\ DOMAIN collecting = CollectKeys /\ collecting.listed = {}
      /\ DOMAIN collecting.next = {} /\ DOMAIN collecting.rows = {} /\ DOMAIN samples = {}
  BY DEF SamplerInit, Collecting, CollectKeys
<1>3. CollectInv
  BY <1>2 DEF CollectInv, Sampling, RowsTrue
<1>4. DOMAIN latest.rows = {} /\ latest.at = 0 /\ DOMAIN series = {} /\ clock.now = 0
  BY DEF SamplerInit
<1>5. HistoryInv
  BY <1>4 DEF HistoryInv, RowsTrue
<1> QED BY <1>1, <1>3, <1>5 DEF SamplerInv

\* A sample, and a row, put beside the others.
LEMMA PutSample ==
  ASSUME NEW taken, Sampling(taken), NEW c \in Sampled, NEW sample, Grows(sample, usage[c])
  PROVE  Sampling(Put(taken, c, sample))
<1>1. ASSUME NEW d \in DOMAIN Put(taken, c, sample), d # c
      PROVE  d \in Sampled /\ Grows(Put(taken, c, sample)[d], usage[d])
  <2>1. d \in DOMAIN taken /\ Put(taken, c, sample)[d] = taken[d]
    BY <1>1 DEF Put
  <2> QED BY <2>1 DEF Sampling
<1>2. Put(taken, c, sample)[c] = sample
  BY DEF Put
<1> QED BY <1>1, <1>2 DEF Sampling
LEMMA PutRow ==
  ASSUME NEW rows, RowsTrue(rows), NEW c, NEW row, Claimed(row.cpu, row.grown), Claimed(row.rate, row.grown)
  PROVE  RowsTrue(Put(rows, c, row))
<1> DEFINE new == Put(rows, c, row)
<1>1. ASSUME NEW d \in DOMAIN new, d # c
      PROVE  Claimed(new[d].cpu, new[d].grown) /\ Claimed(new[d].rate, new[d].grown)
  <2>1. d \in DOMAIN rows /\ new[d] = rows[d]
    BY <1>1 DEF Put
  <2> QED BY <2>1 DEF RowsTrue
<1>2. new[c] = row
  BY DEF Put
<1> QED BY <1>1, <1>2 DEF RowsTrue

\* Time goes on, containers stop, start from zero and consume.
LEMMA WorldFits ==
  ASSUME SamplerInv, Elapse \/ \E c \in Sampled : ContainerRuns(c) \/ Consumes(c)
  PROVE  SamplerInv'
<1>1. UNCHANGED <<collecting, samples, latest, series>>
  BY DEF Elapse, ContainerRuns, Consumes
<1>2. CASE Elapse
  <2>1. clock'.now = clock.now + 1 /\ DOMAIN clock' = DOMAIN clock /\ UNCHANGED usage
    BY <1>2 DEF Elapse, SamplerInv, UsageInv
  <2>2. UsageInv'
    BY <2>1 DEF SamplerInv, UsageInv
  <2>3. CollectInv'
    BY <1>1, <2>1 DEF SamplerInv, UsageInv, CollectInv, Sampling, Grows, RowsTrue
  <2>4. HistoryInv'
    BY <1>1, <2>1 DEF SamplerInv, UsageInv, HistoryInv, SeriesInv, Pushed, RowsTrue
  <2> QED BY <2>2, <2>3, <2>4 DEF SamplerInv
<1>3. ASSUME NEW c \in Sampled, ContainerRuns(c) \/ Consumes(c) PROVE SamplerInv'
  <2>0. usage[c] \in [up : BOOLEAN, count : Nat, used : Nat]
    BY DEF SamplerInv, UsageInv
  <2>1. UNCHANGED clock /\ usage[c] \in [up : BOOLEAN, count : Nat, used : Nat]
    BY <1>3, <2>0 DEF ContainerRuns, Consumes
  <2>2. PICK new \in [up : BOOLEAN, count : Nat, used : Nat] :
          /\ usage' = [usage EXCEPT ![c] = new]
          /\ \/ new.count = usage[c].count /\ new.used = usage[c].used
             \/ new.count = 0 /\ new.used = usage[c].used
             \/ new.count = usage[c].count + 1 /\ new.used = usage[c].used + 1
    <3> DEFINE stopped == [usage[c] EXCEPT !.up = FALSE]
               started == [usage[c] EXCEPT !.up = TRUE, !.count = 0]
               used == [up |-> TRUE, count |-> usage[c].count + 1, used |-> usage[c].used + 1]
    <3>1. CASE ContainerRuns(c)
      <4>1. CASE usage[c].up
        <5>1. usage' = [usage EXCEPT ![c] = stopped]
          BY <2>1, <3>1, <4>1 DEF ContainerRuns
        <5>2. stopped \in [up : BOOLEAN, count : Nat, used : Nat]
              /\ stopped.count = usage[c].count /\ stopped.used = usage[c].used
          BY <2>1
        <5> QED BY <5>1, <5>2
      <4>2. CASE ~usage[c].up
        <5>1. usage' = [usage EXCEPT ![c] = started]
          BY <2>1, <3>1, <4>2 DEF ContainerRuns
        <5>2. started \in [up : BOOLEAN, count : Nat, used : Nat]
              /\ started.count = 0 /\ started.used = usage[c].used
          BY <2>1
        <5> QED BY <5>1, <5>2
      <4> QED BY <4>1, <4>2
    <3>2. CASE Consumes(c)
      <4>1. usage' = [usage EXCEPT ![c] = used]
        BY <3>2 DEF Consumes
      <4>2. used \in [up : BOOLEAN, count : Nat, used : Nat]
            /\ used.count = usage[c].count + 1 /\ used.used = usage[c].used + 1
        BY <2>1
      <4> QED BY <4>1, <4>2
    <3> QED BY <1>3, <3>1, <3>2
  <2>3. UsageInv'
    BY <2>1, <2>2 DEF SamplerInv, UsageInv
  <2>4. usage'[c] = new /\ \A d \in Sampled : d # c => usage'[d] = usage[d]
    BY <2>2 DEF SamplerInv, UsageInv
  <2>5. ASSUME NEW sample, NEW d \in Sampled, Grows(sample, usage[d]) PROVE Grows(sample, usage[d])'
    BY <2>1, <2>2, <2>4, <2>5 DEF Grows, SamplerInv, UsageInv
  <2>6. Sampling(samples)' /\ Sampling(collecting.next)'
    BY <1>1, <2>5 DEF SamplerInv, CollectInv, Sampling
  <2>7. CollectInv'
    BY <1>1, <2>6 DEF SamplerInv, CollectInv, RowsTrue
  <2>8. HistoryInv'
    BY <1>1, <2>1 DEF SamplerInv, HistoryInv, SeriesInv, Pushed, RowsTrue
  <2> QED BY <2>3, <2>7, <2>8 DEF SamplerInv
<1> QED BY <1>2, <1>3

\* A rate from two samples claims no more than was used between them.
LEMMA RatesClaimed ==
  ASSUME SamplerInv, NEW c \in Sampled
  PROVE  LET row == UsageFromStats(StatsSample(c), Previous(samples, c))
         IN Claimed(row.cpu, row.grown) /\ Claimed(row.rate, row.grown)
<1> DEFINE sample == StatsSample(c)
           previous == Previous(samples, c)
<1>1. Claimed(None, 0) /\ Claimed(ErrorRow.cpu, ErrorRow.grown) /\ Claimed(ErrorRow.rate, ErrorRow.grown)
  BY DEF Claimed, None, ErrorRow
<1>2. sample.count = usage[c].count /\ sample.at = clock.now /\ sample.used = usage[c].used
  BY DEF StatsSample
<1>3. CASE previous = NoSample
  BY <1>1, <1>3 DEF UsageFromStats
<1>4. CASE previous # NoSample
  <2>1. Grows(previous, usage[c])
    BY <1>4 DEF Previous, SamplerInv, CollectInv, Sampling
  <2> DEFINE window == sample.at - previous.at
             grown == sample.used - previous.used
  <2> HIDE DEF sample, previous
  <2>2. UsageFromStats(sample, previous) =
          [cpu |-> CpuPercent(sample.count, previous.count, window),
           rate |-> CounterRate(sample.count, previous.count, window), grown |-> grown]
    BY <1>4 DEF UsageFromStats
  <2>3. window \in Nat /\ grown \in Nat /\ sample.count \in Nat /\ previous.count \in Nat
        /\ (sample.count >= previous.count => sample.count - previous.count <= grown)
    BY <1>2, <2>1 DEF Grows, SamplerInv, UsageInv
  <2>4. Claimed(CpuPercent(sample.count, previous.count, window), grown)
    BY <2>3 DEF CpuPercent, Claimed, None
  <2>5. Claimed(CounterRate(sample.count, previous.count, window), grown)
    BY <2>3 DEF CounterRate, Claimed, None
  <2> QED BY <2>2, <2>4, <2>5 DEF sample, previous
<1> QED BY <1>3, <1>4

\* A tick, the stats of one container, and of all.
LEMMA CollectingFits ==
  ASSUME SamplerInv, ListContainers \/ StatsCollected \/ \E c \in Sampled : CollectContainer(c)
  PROVE  SamplerInv'
<1>1. UNCHANGED <<usage, latest, series>> /\ clock'.now = clock.now /\ DOMAIN clock' = DOMAIN clock
  BY DEF ListContainers, StatsCollected, CollectContainer, SamplerInv, UsageInv
<1>2. UsageInv' /\ HistoryInv'
  BY <1>1 DEF SamplerInv, UsageInv, HistoryInv, SeriesInv, Pushed, RowsTrue
<1>3. ASSUME NEW taken PROVE Sampling(taken) <=> Sampling(taken)'
  BY <1>1 DEF Sampling, Grows
<1>4. CASE ListContainers
  <2>1. UNCHANGED samples
    BY <1>4 DEF ListContainers
  <2>2. CASE UNCHANGED collecting
    BY <1>1, <1>2, <2>1, <2>2 DEF SamplerInv, CollectInv, RowsTrue, Sampling, Grows
  <2>3. CASE collecting' = [Collecting("stats") EXCEPT !.listed = {c \in Sampled : usage[c].up}]
    <3>1. /\ DOMAIN collecting' = CollectKeys /\ collecting'.listed \subseteq Sampled
          /\ DOMAIN collecting'.next = {} /\ DOMAIN collecting'.rows = {}
      BY <2>3 DEF Collecting, CollectKeys
    <3>2. Sampling(samples)'
      BY <1>1, <2>1 DEF SamplerInv, CollectInv, Sampling, Grows
    <3>3. CollectInv'
      BY <3>1, <3>2 DEF CollectInv, RowsTrue, Sampling
    <3> QED BY <1>2, <3>3 DEF SamplerInv
  <2> QED BY <1>4, <2>2, <2>3 DEF ListContainers
<1>5. CASE StatsCollected
  <2>1. PICK groups \in SUBSET Groups : collecting' = [collecting EXCEPT !.pc = "record", !.groups = groups]
    BY <1>5 DEF StatsCollected
  <2>2. /\ DOMAIN collecting' = CollectKeys /\ collecting'.listed = collecting.listed
        /\ collecting'.next = collecting.next /\ collecting'.rows = collecting.rows
    BY <2>1 DEF SamplerInv, CollectInv, CollectKeys
  <2>3. samples' = collecting.next
    BY <1>5 DEF StatsCollected
  <2>4. Sampling(samples)' /\ Sampling(collecting.next)' /\ RowsTrue(collecting.rows)'
    BY <1>1, <2>2, <2>3 DEF SamplerInv, CollectInv, Sampling, Grows, RowsTrue
  <2> QED BY <1>2, <2>2, <2>4 DEF SamplerInv, CollectInv
<1>6. ASSUME NEW c \in Sampled, CollectContainer(c) PROVE SamplerInv'
  <2>1. UNCHANGED samples
    BY <1>6 DEF CollectContainer
  <2> DEFINE row == UsageFromStats(StatsSample(c), Previous(samples, c))
  <2>2. RowsTrue(collecting.rows) /\ Sampling(collecting.next)
    BY DEF SamplerInv, CollectInv
  <2>3. CASE collecting' = [collecting EXCEPT !.rows = Put(@, c, row), !.next = Put(@, c, StatsSample(c))]
    <3> DEFINE sample == StatsSample(c)
    <3>1. Grows(sample, usage[c])
      BY DEF StatsSample, Grows, SamplerInv, UsageInv
    <3>2. Claimed(row.cpu, row.grown) /\ Claimed(row.rate, row.grown)
      BY RatesClaimed
    <3> HIDE DEF row, sample
    <3>3. /\ DOMAIN collecting' = CollectKeys /\ collecting'.listed = collecting.listed
          /\ collecting'.rows = Put(collecting.rows, c, row) /\ collecting'.next = Put(collecting.next, c, sample)
      BY <2>3 DEF SamplerInv, CollectInv, CollectKeys, row, sample
    <3>4. RowsTrue(collecting'.rows)
      BY <2>2, <3>2, <3>3, PutRow
    <3>5. Sampling(collecting'.next)
      BY <2>2, <3>1, <3>3, PutSample
    <3>6. Sampling(samples)' /\ Sampling(collecting.next)'
      BY <1>1, <2>1, <3>5 DEF SamplerInv, CollectInv, Sampling, Grows
    <3>7. RowsTrue(collecting.rows)'
      BY <3>4 DEF RowsTrue
    <3> QED BY <1>2, <3>3, <3>6, <3>7 DEF SamplerInv, CollectInv
  <2>4. CASE collecting' = [collecting EXCEPT !.rows = Put(@, c, ErrorRow)]
    <3>1. Claimed(ErrorRow.cpu, ErrorRow.grown) /\ Claimed(ErrorRow.rate, ErrorRow.grown)
      BY DEF Claimed, None, ErrorRow
    <3>2. /\ DOMAIN collecting' = CollectKeys /\ collecting'.listed = collecting.listed
          /\ collecting'.rows = Put(collecting.rows, c, ErrorRow) /\ collecting'.next = collecting.next
      BY <2>4 DEF SamplerInv, CollectInv, CollectKeys
    <3>3. RowsTrue(collecting'.rows)
      BY <2>2, <3>1, <3>2, PutRow
    <3>4. Sampling(samples)' /\ Sampling(collecting.next)'
      BY <1>1, <2>1, <3>2 DEF SamplerInv, CollectInv, Sampling, Grows
    <3>5. RowsTrue(collecting.rows)'
      BY <3>3 DEF RowsTrue
    <3> QED BY <1>2, <3>2, <3>4, <3>5 DEF SamplerInv, CollectInv
  <2> QED BY <1>6, <2>3, <2>4 DEF CollectContainer
<1> QED BY <1>4, <1>5, <1>6
\* A point of time is appended, and the oldest falls out of a full series.
LEMMA PushedOn ==
  ASSUME NEW points \in Seq(Nat), NEW at \in Nat, Len(points) <= HistoryCapacity, Ordered(points),
         Len(points) > 0 => LastOf(points) <= at
  PROVE  LET new == Push(points, at)
         IN new \in Seq(Nat) /\ Len(new) \in 1..HistoryCapacity /\ Ordered(new) /\ LastOf(new) = at
<1> DEFINE longer == Append(points, at)
           n == Len(points)
           from == IF n + 1 > HistoryCapacity THEN 2 ELSE 1
           new == SubSeq(longer, from, n + 1)
<1>1. n \in Nat /\ HistoryCapacity \in Nat \ {0} /\ from \in 1..2 /\ from <= n + 1 /\ n + 2 - from <= HistoryCapacity
  BY SamplerAssumption
<1>2. longer \in Seq(Nat) /\ Len(longer) = n + 1 /\ longer[n + 1] = at /\ \A i \in 1..n : longer[i] = points[i]
  OBVIOUS
<1>3. Push(points, at) = new
  BY <1>2 DEF Push
<1>4. \A i, j \in 1..(n + 1) : i <= j => longer[i] <= longer[j]
  <2> SUFFICES ASSUME NEW i \in 1..(n + 1), NEW j \in 1..(n + 1), i <= j PROVE longer[i] <= longer[j]
    OBVIOUS
  <2>1. CASE j \in 1..n
    <3>1. i \in 1..n
      BY <1>1, <2>1
    <3> QED BY <1>2, <2>1, <3>1 DEF Ordered
  <2>2. CASE j = n + 1 /\ i = n + 1
    BY <1>2, <2>2
  <2>3. CASE j = n + 1 /\ i \in 1..n
    <3>1. points[i] <= points[n] /\ points[n] <= at /\ points[i] \in Nat /\ points[n] \in Nat
      BY <1>1, <2>3 DEF Ordered, LastOf
    <3> QED BY <1>2, <2>3, <3>1
  <2> QED BY <1>1, <2>1, <2>2, <2>3
<1> HIDE DEF longer, from
<1>5. /\ new \in Seq(Nat) /\ Len(new) = n + 2 - from
      /\ \A i \in 1..(n + 2 - from) : new[i] = longer[from + i - 1]
  <2>1. \A i \in from..(n + 1) : longer[i] \in Nat
    BY <1>1, <1>2
  <2> QED BY <1>1, <1>2, <2>1, SubSeqProperties
<1> HIDE DEF n, new
<1>6. Ordered(new)
  <2> SUFFICES ASSUME NEW i \in 1..Len(new), NEW j \in 1..Len(new), i <= j PROVE new[i] <= new[j]
    BY DEF Ordered
  <2>1. from + i - 1 \in 1..(n + 1) /\ from + j - 1 \in 1..(n + 1) /\ from + i - 1 <= from + j - 1
    BY <1>1, <1>5
  <2>2. longer[from + i - 1] <= longer[from + j - 1]
    BY <1>4, <2>1
  <2> QED BY <1>1, <1>5, <2>2
<1>7. LastOf(new) = at
  <2>1. n + 2 - from \in 1..(n + 2 - from) /\ from + (n + 2 - from) - 1 = n + 1
    BY <1>1
  <2> QED BY <1>2, <1>5, <2>1 DEF LastOf
<1> QED BY <1>1, <1>3, <1>5, <1>6, <1>7

\* A snapshot is kept and its points pushed; the series that ended are dropped.
LEMMA RecordFits == SamplerInv /\ Record => SamplerInv'
<1> SUFFICES ASSUME SamplerInv, Record PROVE SamplerInv'
  OBVIOUS
<1> DEFINE snapshot == [at |-> clock.now, rows |-> collecting.rows, services |-> collecting.groups]
           keys == DOMAIN series \cup {k \in Keys : Pushed(snapshot, k)}
           pushed == [k \in keys |-> IF Pushed(snapshot, k) THEN Push(Points(k), clock.now) ELSE series[k]]
<1>1. /\ UNCHANGED <<clock, usage, samples>> /\ collecting' = Collecting("idle")
      /\ latest' = snapshot /\ series' = Retain(snapshot, pushed)
  BY DEF Record, RecordSnapshot
<1>2. UsageInv'
  BY <1>1 DEF SamplerInv, UsageInv
<1>3. CollectInv'
  <2>1. /\ DOMAIN collecting' = CollectKeys /\ collecting'.listed = {}
        /\ DOMAIN collecting'.next = {} /\ DOMAIN collecting'.rows = {}
    BY <1>1 DEF Collecting, CollectKeys
  <2>2. Sampling(samples)'
    BY <1>1 DEF SamplerInv, CollectInv, Sampling, Grows
  <2> QED BY <2>1, <2>2 DEF CollectInv, RowsTrue, Sampling
<1>4. latest'.at = clock.now /\ latest'.rows = collecting.rows /\ clock.now \in Nat /\ HistoryCapacity \in Nat
  BY <1>1, SamplerAssumption DEF SamplerInv, UsageInv
<1>5. ASSUME NEW k \in DOMAIN series, SeriesInv(series[k])
      PROVE  LastOf(series[k]) <= clock.now /\ LastOf(series[k]) \in Nat
  <2>1. Len(series[k]) \in 1..Len(series[k]) /\ series[k] \in Seq(Nat)
    BY <1>5, <1>4 DEF SeriesInv
  <2>2. LastOf(series[k]) \in Nat
    BY <2>1 DEF LastOf
  <2> QED BY <1>4, <1>5, <2>2 DEF SeriesInv, SamplerInv, HistoryInv
<1>6. ASSUME NEW k \in keys, Pushed(snapshot, k)
      PROVE  LET points == pushed[k]
             IN points \in Seq(Nat) /\ Len(points) \in 1..HistoryCapacity /\ Ordered(points) /\ LastOf(points) = clock.now
  <2>1. pushed[k] = Push(Points(k), clock.now)
    BY <1>6
  <2>2. CASE k \in DOMAIN series
    <3>1. Points(k) = series[k] /\ SeriesInv(series[k])
      BY <2>2 DEF Points, SamplerInv, HistoryInv
    <3>2. /\ Points(k) \in Seq(Nat) /\ Len(Points(k)) <= HistoryCapacity /\ Ordered(Points(k))
          /\ LastOf(Points(k)) <= clock.now
      BY <1>4, <1>5, <2>2, <3>1 DEF SeriesInv
    <3> QED BY <1>4, <2>1, <3>2, PushedOn
  <2>3. CASE k \notin DOMAIN series
    <3>1. Points(k) = <<>>
      BY <2>3 DEF Points
    <3>2. Points(k) \in Seq(Nat) /\ Ordered(Points(k))
          /\ Len(Points(k)) <= HistoryCapacity /\ ~(Len(Points(k)) > 0)
      BY <1>4, <3>1 DEF Ordered
    <3>3. Len(Points(k)) > 0 => LastOf(Points(k)) <= clock.now
      BY <3>2
    <3> HIDE DEF pushed
    <3> QED BY <1>4, <2>1, <3>2, <3>3, PushedOn
  <2> QED BY <2>2, <2>3
<1>7. ASSUME NEW k \in DOMAIN series'
      PROVE  SeriesInv(series[k])' /\ (Pushed(latest, k)' => LastOf(series[k])' = latest'.at)
  <2>1. k \in keys /\ series'[k] = pushed[k] /\ LastOf(pushed[k]) + HistoryCapacity >= clock.now
    BY <1>1, <1>7 DEF Retain, LastOf
  <2>2. Pushed(latest, k)' <=> Pushed(snapshot, k)
    BY <1>1 DEF Pushed
  <2>3. CASE Pushed(snapshot, k)
    <3>1. /\ series'[k] \in Seq(Nat) /\ Len(series'[k]) \in 1..HistoryCapacity /\ Ordered(series'[k])
          /\ LastOf(series'[k]) = clock.now
      BY <1>6, <2>1, <2>3
    <3>2. Ordered(series[k])' /\ LastOf(series[k])' = clock.now
      BY <3>1 DEF Ordered, LastOf
    <3> QED BY <1>4, <3>1, <3>2 DEF SeriesInv
  <2>4. CASE ~Pushed(snapshot, k)
    <3>1. k \in DOMAIN series /\ pushed[k] = series[k]
      BY <2>1, <2>4
    <3>2. SeriesInv(series[k])
      BY <3>1 DEF SamplerInv, HistoryInv
    <3>3. LastOf(series[k]) <= clock.now
      BY <1>5, <3>1, <3>2
    <3>4. Ordered(series[k])' /\ LastOf(series[k])' = LastOf(series[k])
      BY <2>1, <3>1, <3>2 DEF Ordered, LastOf, SeriesInv
    <3> QED BY <1>4, <2>1, <2>2, <2>4, <3>1, <3>2, <3>3, <3>4 DEF SeriesInv
  <2> QED BY <2>3, <2>4
<1>8. RowsTrue(latest.rows)'
  BY <1>4 DEF SamplerInv, CollectInv, RowsTrue
<1>9. HistoryInv'
  BY <1>1, <1>4, <1>7, <1>8 DEF HistoryInv
<1> QED BY <1>2, <1>3, <1>9 DEF SamplerInv

\* No usage is reported that was not consumed, and every series is in the
\* order of time and up to date with the latest snapshot (resources.rs), for
\* any containers, services, counters, capacity and failures of samples.
THEOREM UsageAlwaysTrue == SamplerSpec => []UsageTrue
<1>1. SamplerInv /\ [SamplerNext]_samplerVars => SamplerInv'
  <2> SUFFICES ASSUME SamplerInv, SamplerNext \/ UNCHANGED samplerVars PROVE SamplerInv'
    OBVIOUS
  <2>1. CASE UNCHANGED samplerVars
    BY <2>1 DEF samplerVars, SamplerInv, UsageInv, CollectInv, Sampling, Grows, RowsTrue, HistoryInv, SeriesInv, Pushed
  <2> QED BY <2>1, WorldFits, CollectingFits, RecordFits DEF SamplerNext
<1>2. SamplerInv => UsageTrue
  <2> SUFFICES ASSUME SamplerInv PROVE UsageTrue
    OBVIOUS
  <2>1. ASSUME NEW k \in DOMAIN series, NEW i \in 1..(Len(series[k]) - 1)
        PROVE  series[k][i] <= series[k][i + 1]
    <3>1. SeriesInv(series[k])
      BY DEF SamplerInv, HistoryInv
    <3>2. Len(series[k]) \in Nat
      BY <3>1 DEF SeriesInv
    <3>3. i \in 1..Len(series[k]) /\ i + 1 \in 1..Len(series[k]) /\ i <= i + 1
      BY <3>2
    <3> QED BY <3>1, <3>3 DEF SeriesInv, Ordered
  <2> QED BY <2>1 DEF SamplerInv, HistoryInv, SeriesInv, LastOf, RowsTrue, UsageTrue
<1> QED BY InitSampler, <1>1, <1>2, PTL DEF SamplerSpec
===============================================================================
