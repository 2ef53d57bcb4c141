---------------------------- MODULE ConfigProofs ------------------------------
(***************************************************************************)
(* Proofs about ServiceConfig and Sync.                                     *)
(* Every verdict of service_config.rs is right, for any number of services  *)
(* and any two files.  ConfigInv says what each phase of load leaves behind; *)
(* its core is the search for cycles, whose explicit stack is a chain of    *)
(* dependencies (StackFits) above names that are closed and without a cycle *)
(* (DoneFits).                                                              *)
(* A sync, a forget and a restore keep what they promise, for any           *)
(* configurations, requests and number of crashes.  SyncInv says of the     *)
(* tables, of services.json and of the registry what holds between two      *)
(* steps of the request at the gate (Work): the services that are still to  *)
(* be stopped (StopsFit) and to be brought up again (RestartsFit), the      *)
(* routes that outlive their runners (Left), those that an announcement has *)
(* taken (Losing), and the egress routes the registry does not know yet     *)
(* (Moving, MovedFrom).                                                     *)
(***************************************************************************)
EXTENDS ServiceConfig, Sync, TLAPS, SequenceTheorems

-----------------------------------------------------------------------------
(* ServiceConfig.                                                            *)

\* Merging makes services of services.
LEMMA MergedIsService ==
  ASSUME NEW base, NEW over, IsService(base), IsService(over)
  PROVE  /\ IsService(MergedUnder(base, over))
         /\ \A f \in ServiceKeys : MergedUnder(base, over)[f] =
              IF f \in {"ready_port", "ready_delay_ms"}
              THEN IF Given(over.ready_port) \/ Given(over.ready_delay_ms) THEN over[f] ELSE base[f]
              ELSE Or(over[f], base[f])
<1> DEFINE m == MergedUnder(base, over)
<1>1. DOMAIN base = ServiceKeys
  <2>1. base = [k \in ServiceKeys |-> base[k]]
    BY DEF IsService
  <2> QED BY <2>1
<1>2. m = [f \in ServiceKeys |->
            IF f \in {"ready_port", "ready_delay_ms"}
            THEN IF \E g \in {"ready_port", "ready_delay_ms"} : Given(over[g]) THEN over[f] ELSE base[f]
            ELSE Or(over[f], base[f])]
  BY <1>1 DEF MergedUnder
<1> HIDE DEF m
<1>3. \A f \in ServiceKeys : m[f] =
              IF f \in {"ready_port", "ready_delay_ms"}
              THEN IF Given(over.ready_port) \/ Given(over.ready_delay_ms) THEN over[f] ELSE base[f]
              ELSE Or(over[f], base[f])
  BY <1>2
<1>4. m = [k \in ServiceKeys |-> m[k]]
  BY <1>2
<1>5. m.depends = Or(over.depends, base.depends)
  BY <1>3 DEF ServiceKeys
<1>6. Given(m.depends) => m.depends \in Seq(Nat)
  BY <1>5 DEF IsService, Or
<1> QED BY <1>3, <1>4, <1>6 DEF IsService, m

Loaded == raw = Merge(overlay.committed, overlay.local) /\ ~(overlay.committed = NoFile /\ overlay.local = NoFile)

\* A service of the loaded configuration comes of the files.
LEMMA LoadedService ==
  ASSUME overlay \in Overlays, Loaded, NEW n \in Declared
  PROVE  IsService(raw.service[n]) /\
         LET c == overlay.committed
             l == overlay.local
         IN  \/ c # NoFile /\ Given(c.service[n]) /\ IsService(c.service[n]) /\ raw.service[n] = c.service[n]
             \/ l # NoFile /\ Given(l.service[n]) /\ IsService(l.service[n]) /\ raw.service[n] = l.service[n]
             \/ /\ c # NoFile /\ Given(c.service[n]) /\ IsService(c.service[n])
                /\ l # NoFile /\ Given(l.service[n]) /\ IsService(l.service[n])
                /\ raw.service[n] = MergedUnder(c.service[n], l.service[n])
<1> DEFINE c == overlay.committed
           l == overlay.local
<1>1. n \in Services /\ Given(raw.service[n])
  BY DEF Declared
<1>2. c # NoFile /\ Given(c.service[n]) => IsService(c.service[n])
  BY <1>1, ConfigAssumption
<1>3. l # NoFile /\ Given(l.service[n]) => IsService(l.service[n])
  BY <1>1, ConfigAssumption
<1>4. raw = Merge(c, l) /\ ~(c = NoFile /\ l = NoFile)
  BY DEF Loaded
<1> HIDE DEF c, l
<1>5. CASE l = NoFile
  <2>1. raw = c /\ c # NoFile
    BY <1>4, <1>5 DEF Merge
  <2> QED BY <1>1, <1>2, <2>1 DEF c, l
<1>6. CASE l # NoFile /\ c = NoFile
  <2>1. raw = l
    BY <1>4, <1>6 DEF Merge
  <2> QED BY <1>1, <1>3, <1>6, <2>1 DEF c, l
<1>7. CASE l # NoFile /\ c # NoFile
  <2>1. raw.service[n] = IF Given(c.service[n]) /\ Given(l.service[n])
                         THEN MergedUnder(c.service[n], l.service[n])
                         ELSE Or(l.service[n], c.service[n])
    BY <1>1, <1>4, <1>7 DEF Merge
  <2>2. CASE Given(c.service[n]) /\ Given(l.service[n])
    BY <1>2, <1>3, <1>7, <2>1, <2>2, MergedIsService DEF c, l
  <2>3. CASE ~(Given(c.service[n]) /\ Given(l.service[n]))
    <3>1. raw.service[n] = Or(l.service[n], c.service[n])
      BY <2>1, <2>3
    <3>2. CASE Given(l.service[n])
      BY <1>3, <1>7, <3>1, <3>2 DEF Or, c, l
    <3>3. CASE ~Given(l.service[n])
      BY <1>1, <1>2, <1>7, <3>1, <3>3 DEF Or, c, l
    <3> QED BY <3>2, <3>3
  <2> QED BY <2>2, <2>3
<1> QED BY <1>5, <1>6, <1>7

StatesBoth(file, n) ==
    /\ file # NoFile /\ Given(file.service[n])
    /\ Given(file.service[n].ready_port) /\ Given(file.service[n].ready_delay_ms)

\* Two gates come of a file that states both.
LEMMA BothFromOne ==
  ASSUME overlay \in Overlays, Loaded, NEW n \in Declared,
         Given(raw.service[n].ready_port), Given(raw.service[n].ready_delay_ms)
  PROVE  StatesBoth(overlay.committed, n) \/ StatesBoth(overlay.local, n)
<1> DEFINE c == overlay.committed
           l == overlay.local
<1>1. CASE /\ c # NoFile /\ Given(c.service[n]) /\ IsService(c.service[n])
           /\ l # NoFile /\ Given(l.service[n]) /\ IsService(l.service[n])
           /\ raw.service[n] = MergedUnder(c.service[n], l.service[n])
  <2>1. \A f \in {"ready_port", "ready_delay_ms"} : raw.service[n][f] =
          IF Given(l.service[n].ready_port) \/ Given(l.service[n].ready_delay_ms) THEN l.service[n][f] ELSE c.service[n][f]
    BY <1>1, MergedIsService DEF ServiceKeys
  <2> QED BY <1>1, <2>1 DEF StatesBoth
<1> QED BY <1>1, LoadedService DEF StatesBoth

\* The gate of a merged service is that of the last file that speaks of it.
LEMMA GateOfLast ==
  ASSUME NEW base, NEW over, IsService(base), IsService(over)
  PROVE  LET stated == [base EXCEPT !.port = Or(over.port, base.port)]
             ready == {Given(over.ready_port), Given(over.ready_delay_ms)}
         IN  Ready(MergedUnder(base, over)) = IF TRUE \in ready THEN Ready(over) ELSE Ready(stated)
<1> DEFINE m == MergedUnder(base, over)
           stated == [base EXCEPT !.port = Or(over.port, base.port)]
<1>1. /\ m.port = Or(over.port, base.port)
      /\ \A f \in {"ready_port", "ready_delay_ms"} : m[f] =
           IF Given(over.ready_port) \/ Given(over.ready_delay_ms) THEN over[f] ELSE base[f]
  BY MergedIsService DEF ServiceKeys
<1>2. stated.port = Or(over.port, base.port) /\ stated.ready_port = base.ready_port /\ stated.ready_delay_ms = base.ready_delay_ms
  <2>1. DOMAIN base = ServiceKeys
    <3>1. base = [k \in ServiceKeys |-> base[k]]
      BY DEF IsService
    <3> QED BY <3>1
  <2> QED BY <2>1 DEF ServiceKeys
<1> HIDE DEF m, stated
<1>3. CASE Given(over.ready_port) \/ Given(over.ready_delay_ms)
  <2>1. m.ready_port = over.ready_port /\ m.ready_delay_ms = over.ready_delay_ms
    BY <1>1, <1>3
  <2>2. Ready(m) = Ready(over)
    BY <1>3, <2>1 DEF Ready
  <2> QED BY <1>3, <2>2 DEF m
<1>4. CASE ~(Given(over.ready_port) \/ Given(over.ready_delay_ms))
  <2>1. m.ready_port = stated.ready_port /\ m.ready_delay_ms = stated.ready_delay_ms /\ m.port = stated.port
    BY <1>1, <1>2, <1>4
  <2>2. Ready(m) = Ready(stated)
    BY <2>1 DEF Ready
  <2>3. TRUE \notin {Given(over.ready_port), Given(over.ready_delay_ms)}
    BY <1>4
  <2> QED BY <2>2, <2>3 DEF m, stated
<1> QED BY <1>3, <1>4

\* Who has the hosts: the services before `below`.
HostsFit(below) ==
    /\ seen = {raw.service[n].host : n \in {m \in Declared : m < below /\ Given(raw.service[m].host)}}
    /\ \A n, m \in Declared : n < below /\ m < below /\ Given(raw.service[n].host)
                              /\ raw.service[n].host = raw.service[m].host => n = m
DependsHold == \A n \in Declared : DependsOn(n) \subseteq Declared

Open == IF stack = <<>> THEN 0 ELSE IF stack[Len(stack)][2] = 0 THEN Len(stack) - 1 ELSE Len(stack)
\* The dependency of a name that the search looks at.
Looked(i) == Depends(stack[i][1])[stack[i][2]]
\* The stack is a chain of dependencies; the path, its names that were entered.
StackFits ==
    /\ stack \in Seq(Declared \X Nat) /\ path \in Seq(Declared)
    /\ \A i \in 1..Len(stack) : stack[i][2] <= Len(Depends(stack[i][1]))
    /\ \A i \in 1..(Len(stack) - 1) : stack[i][2] >= 1 /\ stack[i + 1][1] = Looked(i)
    /\ Len(path) = Open /\ \A i \in 1..Open : path[i] = stack[i][1]
    /\ \A i, j \in 1..Open : path[i] = path[j] => i = j
\* What is done: closed, without a cycle, and all that the search has passed.
DoneFits ==
    /\ \A n \in done : DependsOn(n) \subseteq done
    /\ \A set \in SUBSET done : ~Cyclic(set)
    /\ \A i \in 1..Len(stack), k \in Nat :
         1 <= k /\ k <= stack[i][2] /\ (i < Len(stack) => k < stack[i][2]) => Depends(stack[i][1])[k] \in done
    /\ \A m \in Declared : m < next => m \in done \/ (stack # <<>> /\ m = next - 1)
    /\ stack # <<>> => stack[1][1] = next - 1
CycleMet ==
    LET met == stack[Len(stack)][1]
    IN  /\ stack # <<>> /\ path \in Seq(Declared) /\ path # <<>> /\ OnPath(met)
        /\ \A i \in 1..(Len(path) - 1) : path[i + 1] \in DependsOn(path[i])
        /\ met \in DependsOn(path[Len(path)])
ConfigInv ==
    /\ overlay \in Overlays /\ next \in Nat
    /\ phase \in {"load", "blocks", "services", "unknown", "search", "egress", "accepted", "refused"}
    /\ phase # "refused" => why = "none"
    /\ phase # "load" /\ why # "no file" => Loaded
    /\ phase \in {"load", "blocks"} => next = 1 /\ seen = {}
    /\ phase = "services" => HostsFit(next)
    /\ phase \in {"unknown", "search", "egress", "accepted"} => HostsFit(LastService + 1)
    /\ phase = "unknown" => next = 1
    /\ phase \in {"load", "blocks", "services", "unknown"} => done = {} /\ path = <<>> /\ stack = <<>>
    /\ phase \in {"search", "egress", "accepted"} => DependsHold
    /\ phase = "search" => StackFits /\ DoneFits
    /\ phase \in {"egress", "accepted"} => \A set \in SUBSET Declared : ~Cyclic(set)
    /\ phase = "accepted" => /\ \A e \in Routes : raw.egress[e].host \notin seen
                             /\ \A d, e \in Routes : raw.egress[d].host = raw.egress[e].host => d = e
    /\ why = "exclusive" => next \in Declared /\ (StatesBoth(overlay.committed, next) \/ StatesBoth(overlay.local, next))
    /\ why = "cycle" => CycleMet

LEMMA DependsFits ==
  ASSUME overlay \in Overlays, Loaded, NEW n \in Declared
  PROVE  Depends(n) \in Seq(Nat) /\ Len(Depends(n)) \in Nat
         /\ \A k \in 1..Len(Depends(n)) : Depends(n)[k] \in DependsOn(n)
<1>1. IsService(raw.service[n])
  BY LoadedService
<1>2. Depends(n) \in Seq(Nat)
  <2>1. <<>> \in Seq(Nat)
    OBVIOUS
  <2> QED BY <1>1, <2>1 DEF Depends, Or, IsService
<1>3. Len(Depends(n)) \in Nat /\ DOMAIN Depends(n) = 1..Len(Depends(n))
  BY <1>2
<1> QED BY <1>2, <1>3 DEF DependsOn

\* The path is a chain of dependencies, and so is its way to the top of the stack.
LEMMA ChainFits ==
  ASSUME overlay \in Overlays, Loaded, StackFits
  PROVE  /\ \A i \in 1..(Len(path) - 1) : path[i + 1] \in DependsOn(path[i])
         /\ stack # <<>> /\ stack[Len(stack)][2] = 0 /\ path # <<>> => stack[Len(stack)][1] \in DependsOn(path[Len(path)])
<1>1. Len(stack) \in Nat /\ Len(path) \in Nat /\ Len(path) = Open
  BY DEF StackFits
<1>2. ASSUME NEW i \in 1..(Len(stack) - 1) PROVE stack[i + 1][1] \in DependsOn(stack[i][1])
  <2>1. i \in 1..Len(stack) /\ stack[i] \in Declared \X Nat
    BY <1>1 DEF StackFits
  <2>2. stack[i][1] \in Declared /\ stack[i][2] \in 1..Len(Depends(stack[i][1]))
    BY <1>2, <2>1 DEF StackFits
  <2>3. Looked(i) \in DependsOn(stack[i][1])
    BY <2>2, DependsFits DEF Looked
  <2> QED BY <1>2, <2>3 DEF StackFits
<1>3. ASSUME NEW i \in 1..(Len(path) - 1) PROVE path[i + 1] \in DependsOn(path[i])
  <2>1. i \in 1..Open /\ i + 1 \in 1..Open /\ i \in 1..(Len(stack) - 1)
    BY <1>1 DEF Open
  <2>2. path[i] = stack[i][1] /\ path[i + 1] = stack[i + 1][1]
    BY <2>1 DEF StackFits
  <2> QED BY <1>2, <2>1, <2>2
<1>4. ASSUME stack # <<>>, stack[Len(stack)][2] = 0, path # <<>>
      PROVE  stack[Len(stack)][1] \in DependsOn(path[Len(path)])
  <2>1. Len(path) = Len(stack) - 1 /\ Len(path) >= 1
    BY <1>1, <1>4 DEF Open, StackFits
  <2>2. Len(path) \in 1..Open /\ Len(path) \in 1..(Len(stack) - 1) /\ Len(path) + 1 = Len(stack)
    BY <1>1, <2>1
  <2>3. path[Len(path)] = stack[Len(path)][1]
    BY <2>2 DEF StackFits
  <2> QED BY <1>2, <2>2, <2>3
<1> QED BY <1>3, <1>4

\* A name whose dependencies are done closes no cycle.
LEMMA DoneGrows ==
  ASSUME NEW name, NEW names, \A n \in names : DependsOn(n) \subseteq names, \A set \in SUBSET names : ~Cyclic(set),
         DependsOn(name) \subseteq names
  PROVE  /\ \A n \in names \cup {name} : DependsOn(n) \subseteq names \cup {name}
         /\ \A set \in SUBSET (names \cup {name}) : ~Cyclic(set)
<1>1. \A n \in names \cup {name} : DependsOn(n) \subseteq names
  OBVIOUS
<1>2. ASSUME NEW set \in SUBSET (names \cup {name}), Cyclic(set) PROVE FALSE
  <2>1. PICK n \in set : TRUE
    BY <1>2 DEF Cyclic
  <2>2. PICK d : d \in DependsOn(n) /\ d \in set
    BY <1>2, <2>1 DEF Cyclic
  <2>3. d \in names
    BY <1>1, <2>1, <2>2
  <2> DEFINE rest == set \cap names
  <2>4. d \in rest /\ rest \in SUBSET names
    BY <2>2, <2>3
  <2>5. \A m \in rest : DependsOn(m) \cap rest # {}
    BY <1>1, <1>2 DEF Cyclic
  <2>6. Cyclic(rest)
    BY <2>4, <2>5 DEF Cyclic
  <2> QED BY <2>4, <2>6
<1> QED BY <1>1, <1>2

\* What a turn keeps.
LEMMA TurnKeeps ==
  UNCHANGED <<raw, overlay>> =>
    /\ Declared' = Declared /\ Loaded' = Loaded /\ (\A n : Depends(n)' = Depends(n)) /\ (\A n : DependsOn(n)' = DependsOn(n))
    /\ (\A set : Cyclic(set)' <=> Cyclic(set)) /\ Routes' = Routes
BY DEF Declared, Loaded, Depends, DependsOn, Cyclic, Routes

LEMMA FrontOf ==
  ASSUME NEW S, NEW s \in Seq(S), s # <<>>
  PROVE  /\ Len(s) \in Nat /\ Len(s) >= 1 /\ s[Len(s)] \in S /\ Last(s) = s[Len(s)]
         /\ Front(s) \in Seq(S) /\ Len(Front(s)) = Len(s) - 1
         /\ \A i \in 1..(Len(s) - 1) : Front(s)[i] = s[i] /\ i \in 1..Len(s)
<1>1. Len(s) \in Nat /\ Len(s) >= 1
  OBVIOUS
<1>2. s[Len(s)] \in S /\ \A i \in 1..(Len(s) - 1) : i \in 1..Len(s) /\ s[i] \in S
  BY <1>1
<1>3. Front(s) = [i \in 1..(Len(s) - 1) |-> s[i]]
  BY <1>1 DEF Front
<1>4. Front(s) \in Seq(S) /\ Len(Front(s)) = Len(s) - 1
  BY <1>1, <1>2, <1>3
<1> QED BY <1>1, <1>2, <1>3, <1>4 DEF Last

LEMMA PairOf ==
  ASSUME NEW x, NEW y, NEW p, p = <<x, y>>
  PROVE  p[1] = x /\ p[2] = y
OBVIOUS

LEMMA TwoMore ==
  ASSUME NEW S, NEW s \in Seq(S), NEW a \in S, NEW b \in S, NEW t, t = s \o <<a, b>>
  PROVE  /\ t \in Seq(S) /\ Len(t) = Len(s) + 2 /\ t[Len(s) + 1] = a /\ t[Len(s) + 2] = b
         /\ \A i \in 1..Len(s) : t[i] = s[i]
<1>1. <<a, b>> \in Seq(S) /\ Len(<<a, b>>) = 2
  OBVIOUS
<1>2. Len(s) \in Nat
  OBVIOUS
<1>3. t \in Seq(S) /\ Len(t) = Len(s) + 2
  BY <1>1
<1> QED BY <1>1, <1>2, <1>3

\* The top of the stack and the path below it.
LEMMA TopFits ==
  ASSUME StackFits, stack # <<>>
  PROVE  /\ Len(stack) \in Nat /\ Len(stack) >= 1 /\ stack[Len(stack)][1] \in Declared /\ stack[Len(stack)][2] \in Nat
         /\ Last(stack) = stack[Len(stack)]
         /\ Front(stack) \in Seq(Declared \X Nat) /\ Len(Front(stack)) = Len(stack) - 1
         /\ \A i \in 1..(Len(stack) - 1) : Front(stack)[i] = stack[i] /\ i \in 1..Len(stack)
         /\ Len(path) = Open /\ Open = (IF stack[Len(stack)][2] = 0 THEN Len(stack) - 1 ELSE Len(stack))
<1>1. stack \in Seq(Declared \X Nat)
  BY DEF StackFits
<1>2. /\ Len(stack) \in Nat /\ Len(stack) >= 1 /\ stack[Len(stack)] \in Declared \X Nat /\ Last(stack) = stack[Len(stack)]
      /\ Front(stack) \in Seq(Declared \X Nat) /\ Len(Front(stack)) = Len(stack) - 1
      /\ \A i \in 1..(Len(stack) - 1) : Front(stack)[i] = stack[i] /\ i \in 1..Len(stack)
  BY <1>1, FrontOf
<1>3. stack[Len(stack)][1] \in Declared /\ stack[Len(stack)][2] \in Nat
  BY <1>2
<1> QED BY <1>2, <1>3 DEF Open, StackFits

\* The top of the stack is done and leaves it.
LEMMA Popped ==
  ASSUME StackFits, DoneFits, stack # <<>>, stack' = Front(stack), UNCHANGED <<raw, overlay, next>>,
         stack[Len(stack)][1] \in done', done \subseteq done',
         path' \in Seq(Declared), Len(path') = Len(stack) - 1,
         \A i \in 1..(Len(stack) - 1) : path'[i] = stack[i][1],
         \A i, j \in 1..(Len(stack) - 1) : path'[i] = path'[j] => i = j,
         \A n \in done' : DependsOn(n) \subseteq done', \A set \in SUBSET done' : ~Cyclic(set)
  PROVE  StackFits' /\ DoneFits'
<1>0. PICK L : L = Len(stack)
  OBVIOUS
<1> USE <1>0
<1>1. /\ L \in Nat /\ L >= 1 /\ stack' \in Seq(Declared \X Nat) /\ Len(stack') = L - 1
      /\ \A i \in 1..(L - 1) : stack'[i] = stack[i] /\ i \in 1..L
  BY <1>0, TopFits
<1>2. /\ Declared' = Declared /\ \A n : Depends(n)' = Depends(n) /\ DependsOn(n)' = DependsOn(n)
      /\ \A set : Cyclic(set)' <=> Cyclic(set)
  BY TurnKeeps
<1>3. Open' = L - 1
  <2>1. CASE L = 1
    <3>1. stack' = <<>>
      BY <1>1, <2>1
    <3> QED BY <2>1, <3>1 DEF Open
  <2>2. CASE L > 1
    <3>1. L - 1 \in 1..(L - 1) /\ stack' # <<>>
      BY <1>1, <2>2
    <3>2. stack'[L - 1] = stack[L - 1] /\ stack[L - 1][2] >= 1 /\ stack[L - 1] \in Declared \X Nat
      BY <1>1, <3>1 DEF StackFits
    <3> QED BY <1>1, <3>1, <3>2 DEF Open
  <2> QED BY <1>1, <2>1, <2>2
<1>4. StackFits'
  <2>1. \A i \in 1..Len(stack') : stack'[i] = stack[i] /\ i \in 1..L /\ i \in 1..(L - 1)
    BY <1>1
  <2>2. ASSUME NEW i \in 1..Len(stack') PROVE stack'[i][2] <= Len(Depends(stack'[i][1]))
    <3>1. stack'[i] = stack[i] /\ i \in 1..Len(stack)
      BY <2>1
    <3>2. stack[i][2] <= Len(Depends(stack[i][1]))
      BY <3>1 DEF StackFits
    <3> QED BY <3>1, <3>2
  <2>3. ASSUME NEW i \in 1..(Len(stack') - 1) PROVE stack'[i][2] >= 1 /\ stack'[i + 1][1] = Looked(i)'
    <3>1. i \in 1..Len(stack') /\ i + 1 \in 1..Len(stack') /\ i \in 1..(L - 1)
      BY <1>1
    <3>2. stack'[i] = stack[i] /\ stack'[i + 1] = stack[i + 1]
      BY <2>1, <3>1
    <3>3. Looked(i)' = Looked(i)
      BY <1>2, <3>2 DEF Looked
    <3> QED BY <3>1, <3>2, <3>3 DEF StackFits
  <2> QED BY <1>1, <1>2, <1>3, <2>1, <2>2, <2>3 DEF StackFits
<1>5. ASSUME NEW i \in 1..Len(stack'), NEW k \in Nat, 1 <= k, k <= stack'[i][2], i < Len(stack') => k < stack'[i][2]
      PROVE  Depends(stack'[i][1])[k] \in done'
  <2>0. stack'[i] = stack[i] /\ i \in 1..L /\ i \in 1..(L - 1) /\ i < L
    BY <1>1
  <2>1. stack'[i] = stack[i] /\ i \in 1..L /\ i \in 1..(L - 1) /\ i < L /\ stack[i] \in Declared \X Nat
    BY <2>0 DEF StackFits
  <2>2. CASE k < stack[i][2]
    <3>1. k <= stack[i][2]
      BY <2>1, <2>2
    <3> QED BY <1>5, <2>1, <2>2, <3>1 DEF DoneFits
  <2>3. CASE ~(k < stack[i][2])
    <3>1. k = stack[i][2] /\ i = L - 1 /\ i + 1 = L
      BY <1>1, <1>5, <2>1, <2>3
    <3>2. stack[i + 1][1] = Looked(i)
      BY <2>1 DEF StackFits
    <3> QED BY <2>1, <3>1, <3>2 DEF Looked
  <2> QED BY <2>2, <2>3
<1>6. ASSUME NEW m \in Declared, m < next PROVE m \in done' \/ (stack' # <<>> /\ m = next - 1)
  <2>1. CASE L = 1
    <3>1. stack[L][1] = next - 1
      BY <2>1 DEF DoneFits
    <3> QED BY <1>6, <3>1 DEF DoneFits
  <2>2. CASE L > 1
    <3>1. stack' # <<>>
      BY <1>1, <2>2
    <3> QED BY <1>6, <3>1 DEF DoneFits
  <2> QED BY <1>1, <2>1, <2>2
<1>7. stack' # <<>> => stack'[1][1] = next - 1
  <2>1. stack' # <<>> => 1 \in 1..(L - 1)
    BY <1>1
  <2> QED BY <1>1, <2>1 DEF DoneFits
<1>8. DoneFits'
  BY <1>2, <1>5, <1>6, <1>7 DEF DoneFits
<1> QED BY <1>4, <1>8

\* The top of the stack is entered, or met again on the way back, and looks at
\* its next dependency.
LEMMA Pushed ==
  ASSUME overlay \in Overlays, Loaded, DependsHold, StackFits, DoneFits, stack # <<>>, UNCHANGED <<raw, overlay, next, done>>,
         stack[Len(stack)][2] < Len(Depends(stack[Len(stack)][1])),
         stack' = Front(stack) \o <<<<stack[Len(stack)][1], stack[Len(stack)][2] + 1>>,
                                    <<Depends(stack[Len(stack)][1])[stack[Len(stack)][2] + 1], 0>>>>,
         path' \in Seq(Declared), Len(path') = Len(stack),
         \A i \in 1..Len(stack) : path'[i] = stack[i][1],
         \A i, j \in 1..Len(stack) : path'[i] = path'[j] => i = j
  PROVE  StackFits' /\ DoneFits'
<1>0. PICK L, name, from, dep :
        L = Len(stack) /\ name = stack[L][1] /\ from = stack[L][2] /\ dep = Depends(name)[from + 1]
  OBVIOUS
<1> USE <1>0
<1>1. /\ L \in Nat /\ L >= 1 /\ name \in Declared /\ from \in Nat
      /\ Front(stack) \in Seq(Declared \X Nat) /\ Len(Front(stack)) = L - 1
      /\ \A i \in 1..(L - 1) : Front(stack)[i] = stack[i] /\ i \in 1..L
  BY <1>0, TopFits
<1>2. /\ Declared' = Declared /\ \A n : Depends(n)' = Depends(n) /\ DependsOn(n)' = DependsOn(n)
      /\ \A set : Cyclic(set)' <=> Cyclic(set)
  BY TurnKeeps
<1>3. dep \in Declared /\ from + 1 \in 1..Len(Depends(name)) /\ Len(Depends(name)) \in Nat
  <2>1. Len(Depends(name)) \in Nat /\ \A k \in 1..Len(Depends(name)) : Depends(name)[k] \in DependsOn(name)
    BY <1>1, DependsFits
  <2>2. from + 1 \in 1..Len(Depends(name))
    BY <1>1, <2>1
  <2> QED BY <1>1, <2>1, <2>2 DEF DependsHold
<1>4. /\ stack' \in Seq(Declared \X Nat) /\ Len(stack') = L + 1 /\ stack'[L] = <<name, from + 1>> /\ stack'[L + 1] = <<dep, 0>>
      /\ \A i \in 1..(L - 1) : stack'[i] = stack[i]
  <2>1. <<name, from + 1>> \in Declared \X Nat /\ <<dep, 0>> \in Declared \X Nat
    BY <1>1, <1>3
  <2>2. stack' = Front(stack) \o <<<<name, from + 1>>, <<dep, 0>>>>
    BY <1>0
  <2>3. PICK f, a, b : f = Front(stack) /\ a = <<name, from + 1>> /\ b = <<dep, 0>>
    OBVIOUS
  <2>31. PICK S : S = Declared \X Nat
    OBVIOUS
  <2>4. f \in Seq(S) /\ Len(f) = L - 1 /\ stack' = f \o <<a, b>> /\ a \in S /\ b \in S
    BY <1>1, <2>1, <2>2, <2>3, <2>31
  <2>5. /\ stack' \in Seq(S) /\ Len(stack') = Len(f) + 2
        /\ stack'[Len(f) + 1] = a /\ stack'[Len(f) + 2] = b
        /\ \A i \in 1..Len(f) : stack'[i] = f[i]
    BY ONLY <2>4, TwoMore
  <2>6. Len(f) + 1 = L /\ Len(f) + 2 = L + 1
    BY <1>1, <2>4
  <2>7. \A i \in 1..(L - 1) : stack'[i] = f[i] /\ f[i] = stack[i]
    BY <1>1, <2>3, <2>4, <2>5
  <2> QED BY <2>3, <2>31, <2>5, <2>6, <2>7
<1>41. stack'[L][1] = name /\ stack'[L][2] = from + 1 /\ stack'[L + 1][1] = dep /\ stack'[L + 1][2] = 0
  <2>1. PICK f2 : f2 = from + 1
    OBVIOUS
  <2>2. PICK a, b : a = <<name, f2>> /\ b = <<dep, 0>>
    OBVIOUS
  <2>4. a[1] = name /\ a[2] = f2 /\ b[1] = dep /\ b[2] = 0
    BY ONLY <2>2, PairOf
  <2>3. stack'[L] = a /\ stack'[L + 1] = b
    BY <1>4, <2>1, <2>2
  <2> QED BY <2>1, <2>3, <2>4
<1>42. Len(stack') = L + 1 /\ L < L + 1 /\ \A i \in 1..Len(stack') : i \in 1..(L - 1) \/ i = L \/ i = L + 1
  <2>1. Len(stack') = L + 1 /\ L \in Nat
    BY <1>1, <1>4
  <2> QED BY <2>1
<1>43. \A i \in 1..(Len(stack') - 1) : i \in 1..(L - 1) \/ i = L
  <2>1. Len(stack') - 1 = L /\ L \in Nat
    BY <1>1, <1>42
  <2> QED BY <2>1
<1>5. Open' = L /\ stack' # <<>>
  BY <1>1, <1>4 DEF Open
<1>6. \A i \in 1..L : stack'[i][1] = stack[i][1]
  <2>1. \A i \in 1..L : i \in 1..(L - 1) \/ i = L
    BY <1>1
  <2> QED BY <1>4, <1>41, <2>1, <1>0
<1>7. StackFits'
  <2>1. ASSUME NEW i \in 1..Len(stack') PROVE stack'[i][2] <= Len(Depends(stack'[i][1]))
    <3>1. CASE i \in 1..(L - 1)
      <4>1. stack'[i] = stack[i] /\ i \in 1..Len(stack)
        BY <1>1, <1>4, <3>1
      <4>2. stack[i][2] <= Len(Depends(stack[i][1]))
        BY <4>1 DEF StackFits
      <4> QED BY <4>1, <4>2
    <3>2. CASE i = L
      <4>1. from + 1 <= Len(Depends(name))
        BY <1>3
      <4> QED BY <1>41, <3>2, <4>1
    <3>3. CASE i = L + 1
      <4>1. Len(Depends(dep)) \in Nat
        BY <1>3, DependsFits
      <4>2. 0 <= Len(Depends(dep))
        BY <4>1
      <4> QED BY <1>41, <3>3, <4>2
    <3> QED BY ONLY <1>42, <3>1, <3>2, <3>3
  <2>2. ASSUME NEW i \in 1..(Len(stack') - 1) PROVE stack'[i][2] >= 1 /\ stack'[i + 1][1] = Looked(i)'
    <3>0. Looked(i)' = Depends(stack'[i][1])[stack'[i][2]]
      BY DEF Looked, Depends
    <3>1. CASE i \in 1..(L - 1)
      <4>1. i + 1 \in 1..L /\ stack'[i] = stack[i]
        <5>1. i + 1 \in 1..L
          <6>1. L \in Nat
            BY <1>1
          <6> QED BY <3>1, <6>1
        <5> QED BY <1>4, <3>1, <5>1
      <4>2. stack'[i + 1][1] = stack[i + 1][1]
        BY <1>6, <4>1
      <4>3. stack[i][2] >= 1 /\ stack[i + 1][1] = Depends(stack[i][1])[stack[i][2]]
        BY <3>1 DEF StackFits, Looked
      <4> QED BY <3>0, <4>1, <4>2, <4>3
    <3>2. CASE i = L
      <4>1. from + 1 >= 1
        BY <1>1
      <4> QED BY <1>41, <3>0, <3>2, <4>1, <1>0
    <3> QED BY <1>43, <3>1, <3>2
  <2> QED BY <1>1, <1>2, <1>4, <1>5, <1>6, <2>1, <2>2 DEF StackFits
<1>8. ASSUME NEW i \in 1..Len(stack'), NEW k \in Nat, 1 <= k, k <= stack'[i][2], i < Len(stack') => k < stack'[i][2]
      PROVE  Depends(stack'[i][1])[k] \in done
  <2>1. CASE i \in 1..(L - 1)
    <3>1. stack'[i] = stack[i] /\ i \in 1..L /\ i < L /\ i < Len(stack')
      <4>1. stack'[i] = stack[i]
        BY <1>4, <2>1
      <4>2. L \in Nat /\ Len(stack') = L + 1
        BY <1>1, <1>42
      <4>3. i \in 1..L /\ i < L /\ i < L + 1
        BY <2>1, <4>2
      <4> QED BY <4>1, <4>2, <4>3
    <3> QED BY <1>8, <3>1 DEF DoneFits
  <2>2. CASE i = L
    <3>1. stack'[i][1] = name /\ stack'[i][2] = from + 1 /\ i < Len(stack')
      BY <1>41, <1>42, <2>2
    <3>2. k <= from /\ k < from + 1
      BY <1>1, <1>8, <3>1
    <3>3. L \in 1..Len(stack) /\ ~(L < Len(stack)) /\ k <= stack[L][2] /\ stack[L][1] = name
      BY <1>0, <1>1, <3>2
    <3>4. Depends(stack[L][1])[k] \in done
      BY <1>8, <3>3 DEF DoneFits
    <3> QED BY <3>1, <3>3, <3>4
  <2>3. CASE i = L + 1
    <3>1. k <= 0
      BY <1>41, <1>8, <2>3
    <3> QED BY <1>8, <3>1
  <2> QED BY <1>42, <2>1, <2>2, <2>3
<1>9. stack'[1][1] = next - 1
  <2>1. 1 \in 1..L
    BY <1>1
  <2> QED BY <1>6, <2>1 DEF DoneFits
<1>10. DoneFits'
  BY <1>2, <1>5, <1>8, <1>9 DEF DoneFits
<1> QED BY <1>7, <1>10

\* What no step of the search touches.
LEMMA Kept ==
  UNCHANGED <<overlay, raw, seen>> =>
    /\ (\A k : HostsFit(k)' <=> HostsFit(k)) /\ (DependsHold' <=> DependsHold) /\ Declared' = Declared /\ (Loaded' <=> Loaded)
    /\ Routes' = Routes
<1> SUFFICES ASSUME UNCHANGED <<overlay, raw, seen>>
    PROVE  /\ (\A k : HostsFit(k)' <=> HostsFit(k)) /\ (DependsHold' <=> DependsHold) /\ Declared' = Declared
           /\ (Loaded' <=> Loaded) /\ Routes' = Routes
  OBVIOUS
<1>1. Declared' = Declared /\ (Loaded' <=> Loaded) /\ Routes' = Routes
  BY DEF Declared, Loaded, Routes
<1>2. \A n : DependsOn(n)' = DependsOn(n)
  BY DEF DependsOn, Depends
<1>3. DependsHold' <=> DependsHold
  BY <1>1, <1>2 DEF DependsHold
<1>4. \A k : HostsFit(k)' <=> HostsFit(k)
  BY <1>1 DEF HostsFit
<1> QED BY <1>1, <1>3, <1>4

LEMMA TurnFits ==
  ASSUME ConfigInv, Turn
  PROVE  ConfigInv'
<1>0. /\ phase = "search" /\ why = "none" /\ Loaded /\ overlay \in Overlays /\ stack # <<>> /\ StackFits /\ DoneFits /\ DependsHold
      /\ HostsFit(LastService + 1) /\ next \in Nat /\ UNCHANGED <<overlay, raw, next, seen>>
  BY DEF ConfigInv, Turn
<1>1. PICK L, name, from : L = Len(stack) /\ name = stack[L][1] /\ from = stack[L][2]
  OBVIOUS
<1>2. /\ L \in Nat /\ L >= 1 /\ name \in Declared /\ from \in Nat /\ Last(stack)[1] = name /\ Last(stack)[2] = from
      /\ Len(path) = Open /\ Open = (IF from = 0 THEN L - 1 ELSE L)
      /\ L \in 1..Len(stack)
  BY <1>0, <1>1, TopFits
<1>3. HostsFit(LastService + 1)' /\ DependsHold' /\ Loaded' /\ Declared' = Declared /\ Routes' = Routes
  BY <1>0, Kept
<1>4. CASE from = 0 /\ OnPath(name)
  <2>1. phase' = "refused" /\ why' = "cycle" /\ UNCHANGED search
    BY <1>2, <1>4 DEF Turn, Refuse
  <2>2. path \in Seq(Declared) /\ path # <<>>
    BY <1>0, <1>4 DEF StackFits, OnPath
  <2>3. CycleMet
    BY <1>0, <1>1, <1>4, <2>2, ChainFits DEF CycleMet
  <2>4. CycleMet'
    BY <1>0, <2>1, <2>3 DEF CycleMet, OnPath, search, DependsOn, Depends, Declared
  <2> QED BY <1>0, <1>3, <2>1, <2>4 DEF ConfigInv
<1>5. ASSUME ~(from = 0 /\ OnPath(name)) PROVE phase' = phase /\ why' = why /\ StackFits' /\ DoneFits'
  <2>1. CASE from = 0 /\ name \in done
    <3>1. stack' = Front(stack) /\ UNCHANGED <<phase, why, path, done>>
      BY <1>2, <1>5, <2>1 DEF Turn
    <3>2. /\ path \in Seq(Declared) /\ Len(path) = L - 1
          /\ \A i \in 1..(L - 1) : path[i] = stack[i][1]
          /\ \A i, j \in 1..(L - 1) : path[i] = path[j] => i = j
      BY <1>0, <1>2, <2>1 DEF StackFits
    <3>3. (\A n \in done : DependsOn(n) \subseteq done) /\ (\A set \in SUBSET done : ~Cyclic(set))
      BY <1>0 DEF DoneFits
    <3> QED BY <1>0, <1>1, <2>1, <3>1, <3>2, <3>3, Popped
  <2>2. ASSUME ~(from = 0 /\ name \in done) PROVE phase' = phase /\ why' = why /\ StackFits' /\ DoneFits'
    <3>1. Visit(name, from, Front(stack)) /\ UNCHANGED <<phase, why>>
      BY <1>2, <1>5, <2>2 DEF Turn
    <3>2. PICK on : on = IF from = 0 THEN Append(path, name) ELSE path
      OBVIOUS
    <3>3. /\ on \in Seq(Declared) /\ Len(on) = L
          /\ \A i \in 1..L : on[i] = stack[i][1]
          /\ \A i, j \in 1..L : on[i] = on[j] => i = j
      <4>1. /\ path \in Seq(Declared) /\ \A i \in 1..Open : path[i] = stack[i][1]
            /\ \A i, j \in 1..Open : path[i] = path[j] => i = j
        BY <1>0 DEF StackFits
      <4>2. CASE from # 0
        BY <1>1, <1>2, <3>2, <4>1, <4>2
      <4>3. CASE from = 0
        <5>1. Len(path) = L - 1 /\ on = Append(path, name) /\ Open = L - 1 /\ ~OnPath(name)
          BY <1>2, <1>5, <3>2, <4>3
        <5>2. on \in Seq(Declared) /\ Len(on) = L /\ on[L] = name /\ \A i \in 1..(L - 1) : on[i] = path[i]
          <6>1. Len(path) + 1 = L
            BY <1>2, <5>1
          <6> QED BY <1>2, <4>1, <5>1, <6>1
        <5>3. \A i \in 1..L : i \in 1..(L - 1) \/ i = L
          BY <1>2
        <5>4. \A i \in 1..(L - 1) : path[i] # name
          <6>1. DOMAIN path = 1..(L - 1)
            BY <4>1, <5>1
          <6> QED BY <5>1, <6>1 DEF OnPath
        <5>5. \A i \in 1..L : on[i] = stack[i][1]
          BY <1>1, <4>1, <5>1, <5>2, <5>3
        <5>6. \A i, j \in 1..(L - 1) : on[i] = on[j] => i = j
          BY <4>1, <5>1, <5>2
        <5>7. \A i \in 1..(L - 1) : on[i] # on[L]
          BY <5>2, <5>4
        <5>8. \A i, j \in 1..L : on[i] = on[j] => i = j
          BY <5>3, <5>6, <5>7
        <5> QED BY <5>2, <5>5, <5>8
      <4> QED BY <4>2, <4>3
    <3>4. Depends(name) \in Seq(Nat) /\ Len(Depends(name)) \in Nat
      BY <1>0, <1>2, DependsFits
    <3>5. CASE from < Len(Depends(name))
      <4>1. stack' = Front(stack) \o <<<<name, from + 1>>, <<Depends(name)[from + 1], 0>>>> /\ path' = on /\ done' = done
        BY <3>1, <3>2, <3>5 DEF Visit
      <4> QED BY <1>0, <1>1, <3>1, <3>3, <3>5, <4>1, Pushed
    <3>6. CASE ~(from < Len(Depends(name)))
      <4>1. stack' = Front(stack) /\ path' = Front(on) /\ done' = done \cup {name}
        BY <3>1, <3>2, <3>6 DEF Visit
      <4>2. DependsOn(name) \subseteq done
        <5>1. ASSUME NEW k \in 1..Len(Depends(name)) PROVE Depends(name)[k] \in done
          <6>1. k \in Nat /\ 1 <= k /\ k <= from /\ ~(L < Len(stack))
            BY <1>1, <1>2, <3>4, <3>6
          <6> QED BY <1>0, <1>1, <1>2, <6>1 DEF DoneFits
        <5>2. DOMAIN Depends(name) = 1..Len(Depends(name))
          BY <3>4
        <5> QED BY <5>1, <5>2 DEF DependsOn
      <4>3. (\A n \in done' : DependsOn(n) \subseteq done') /\ (\A set \in SUBSET done' : ~Cyclic(set))
        <5>1. (\A n \in done : DependsOn(n) \subseteq done) /\ (\A set \in SUBSET done : ~Cyclic(set))
          BY <1>0 DEF DoneFits
        <5> QED BY <4>1, <4>2, <5>1, DoneGrows
      <4>4. /\ path' \in Seq(Declared) /\ Len(path') = L - 1
            /\ \A i \in 1..(L - 1) : path'[i] = stack[i][1]
            /\ \A i, j \in 1..(L - 1) : path'[i] = path'[j] => i = j
        <5>1. PICK off : off = Front(on)
          OBVIOUS
        <5>3. on \in Seq(Declared) /\ on # <<>> /\ Len(on) = L
          BY <1>2, <3>3
        <5>4. off \in Seq(Declared) /\ Len(off) = L - 1 /\ \A i \in 1..(L - 1) : off[i] = on[i] /\ i \in 1..L
          BY ONLY <5>1, <5>3, FrontOf
        <5>2. /\ off \in Seq(Declared) /\ Len(off) = L - 1
              /\ \A i \in 1..(L - 1) : off[i] = stack[i][1]
              /\ \A i, j \in 1..(L - 1) : off[i] = off[j] => i = j
          BY <3>3, <5>4
        <5> QED BY <4>1, <5>1, <5>2
      <4> QED BY <1>0, <1>1, <3>1, <4>1, <4>3, <4>4, Popped
    <3> QED BY <3>5, <3>6
  <2> QED BY <2>1, <2>2
<1>6. CASE ~(from = 0 /\ OnPath(name))
  BY <1>0, <1>3, <1>5, <1>6 DEF ConfigInv
<1> QED BY <1>4, <1>6

LEMMA NothingToSearch ==
  ASSUME stack = <<>>, path = <<>>, done = {}, next = 1
  PROVE  StackFits /\ DoneFits
<1>1. Len(stack) = 0 /\ Len(path) = 0 /\ Open = 0 /\ stack \in Seq(Declared \X Nat) /\ path \in Seq(Declared)
  BY DEF Open
<1>2. StackFits
  BY <1>1 DEF StackFits
<1>3. \A set \in SUBSET done : ~Cyclic(set)
  BY DEF Cyclic
<1>4. \A m \in Declared : ~(m < next)
  BY DEF Declared, Services
<1>5. DoneFits
  BY <1>1, <1>3, <1>4 DEF DoneFits
<1> QED BY <1>2, <1>5

LEMMA StartFits ==
  ASSUME ConfigInv, Start
  PROVE  ConfigInv'
<1>0. /\ phase = "search" /\ why = "none" /\ Loaded /\ overlay \in Overlays /\ stack = <<>> /\ StackFits /\ DoneFits /\ DependsHold
      /\ HostsFit(LastService + 1) /\ next \in Nat /\ UNCHANGED <<overlay, raw, why, seen, done>> /\ next' = next + 1
  BY DEF ConfigInv, Start
<1>3. HostsFit(LastService + 1)' /\ DependsHold' /\ Loaded' /\ Declared' = Declared /\ Routes' = Routes
  BY <1>0, Kept
<1>4. \A set : Cyclic(set)' <=> Cyclic(set)
  BY <1>0, TurnKeeps
<1>5. \A m \in Declared : m \in Nat /\ 1 <= m /\ m <= LastService
  BY ConfigAssumption DEF Declared, Services
<1>6. CASE next > LastService
  <2>1. phase' = "egress"
    BY <1>6 DEF Start
  <2>2. Declared \subseteq done
    BY <1>0, <1>5, <1>6, ConfigAssumption DEF DoneFits
  <2>3. \A set \in SUBSET Declared : ~Cyclic(set)
    BY <1>0, <2>2 DEF DoneFits
  <2> QED BY <1>0, <1>3, <1>4, <2>1, <2>3 DEF ConfigInv
<1>7. CASE ~(next > LastService)
  <2>1. path' = <<>> /\ stack' = (IF next \in Declared \ done THEN <<<<next, 0>>>> ELSE <<>>) /\ phase' = phase
    BY <1>7 DEF Start
  <2>2. /\ \A n \in done' : DependsOn(n)' \subseteq done'
        /\ \A set \in SUBSET done' : ~Cyclic(set)'
    BY <1>0, <1>4, TurnKeeps DEF DoneFits
  <2>3. CASE next \in Declared \ done
    <3>1. PICK top : top = <<next, 0>>
      OBVIOUS
    <3>2. top[1] = next /\ top[2] = 0 /\ top \in Declared \X Nat
      BY <2>3, <3>1
    <3>3. stack' = <<top>> /\ Len(stack') = 1 /\ stack'[1] = top /\ stack' \in Seq(Declared \X Nat)
      BY <2>1, <2>3, <3>1, <3>2
    <3>4. Open' = 0 /\ path' \in Seq(Declared) /\ Len(path') = 0
      BY <2>1, <3>2, <3>3 DEF Open
    <3>5. \A i \in 1..Len(stack') : i = 1 /\ stack'[i][2] = 0 /\ stack'[i][1] = next
      BY <3>2, <3>3
    <3>6. Len(Depends(next)) \in Nat /\ Len(Depends(next)') \in Nat
      BY <1>0, <2>3, DependsFits, TurnKeeps
    <3>7. \A i \in 1..Len(stack') : stack'[i][2] <= Len(Depends(stack'[i][1]))
      BY <3>5, <3>6
    <3>8. StackFits'
      <4>1. \A i \in 1..Len(stack') : stack'[i][2] <= Len((Depends(stack[i][1]))')
        BY <1>0, <3>7 DEF Depends
      <4>2. \A i : ~(i \in 1..0) /\ ~(i \in 1..(Len(stack') - 1))
        BY <3>3
      <4> QED BY <1>3, <3>3, <3>4, <4>1, <4>2 DEF StackFits
    <3>9. DoneFits'
      <4>1. \A i \in 1..Len(stack'), k \in Nat : ~(1 <= k /\ k <= stack'[i][2])
        BY <3>5
      <4>2. \A m \in Declared : m < next + 1 => m \in done \/ (stack' # <<>> /\ m = (next + 1) - 1)
        <5>1. SUFFICES ASSUME NEW m \in Declared, m < next + 1 PROVE m \in done \/ m = next
          BY <1>0, <3>3
        <5>2. m < next \/ m = next
          BY <1>0, <1>5, <5>1
        <5> QED BY <1>0, <5>2 DEF DoneFits
      <4>3. stack'[1][1] = (next + 1) - 1
        BY <1>0, <3>2, <3>3
      <4> QED BY <1>0, <1>3, <2>2, <4>1, <4>2, <4>3 DEF DoneFits
    <3> QED BY <1>0, <1>3, <2>1, <3>8, <3>9 DEF ConfigInv
  <2>4. CASE next \notin Declared \ done
    <3>1. stack' = <<>> /\ Len(stack') = 0 /\ Len(path') = 0 /\ Open' = 0 /\ stack' \in Seq(Declared \X Nat) /\ path' \in Seq(Declared)
      BY <2>1, <2>4 DEF Open
    <3>2. StackFits'
      BY <1>3, <3>1 DEF StackFits
    <3>3. \A m \in Declared : m < next + 1 => m \in done
      <4>1. SUFFICES ASSUME NEW m \in Declared, m < next + 1 PROVE m \in done
        OBVIOUS
      <4>2. m < next \/ m = next
        BY <1>0, <1>5, <4>1
      <4> QED BY <1>0, <2>4, <4>2 DEF DoneFits
    <3>4. DoneFits'
      BY <1>0, <1>3, <2>2, <3>1, <3>3 DEF DoneFits
    <3> QED BY <1>0, <1>3, <2>1, <3>2, <3>4 DEF ConfigInv
  <2> QED BY <2>3, <2>4
<1> QED BY <1>6, <1>7

LEMMA LoadFits ==
  ASSUME ConfigInv, Load
  PROVE  ConfigInv'
<1>0. phase = "load" /\ why = "none" /\ UNCHANGED <<overlay, next, seen, search>> /\ next = 1 /\ seen = {} /\ overlay \in Overlays
      /\ done = {} /\ path = <<>> /\ stack = <<>>
  BY DEF ConfigInv, Load
<1>1. CASE overlay.committed = NoFile /\ overlay.local = NoFile
  <2>1. phase' = "refused" /\ why' = "no file"
    BY <1>1 DEF Load, Refuse
  <2> QED BY <1>0, <2>1 DEF ConfigInv
<1>2. CASE ~(overlay.committed = NoFile /\ overlay.local = NoFile)
  <2>1. phase' = "blocks" /\ why' = "none" /\ raw' = Merge(overlay.committed, overlay.local)
    BY <1>0, <1>2 DEF Load
  <2>2. Loaded'
    BY <1>0, <1>2, <2>1 DEF Loaded, Merge, MergedUnder, Or, Given
  <2> QED BY <1>0, <2>1, <2>2 DEF ConfigInv, search
<1> QED BY <1>1, <1>2

LEMMA ResolveBlocksFits ==
  ASSUME ConfigInv, ResolveBlocks
  PROVE  ConfigInv'
<1>0. phase = "blocks" /\ why = "none" /\ UNCHANGED <<overlay, raw, next, seen, search>> /\ next = 1 /\ seen = {} /\ overlay \in Overlays
      /\ done = {} /\ path = <<>> /\ stack = <<>> /\ Loaded
  BY DEF ConfigInv, ResolveBlocks
<1>1. Loaded'
  BY <1>0, Kept
<1>2. HostsFit(1)'
  <2>1. HostsFit(1)
    <3>1. \A m \in Declared : ~(m < 1)
      BY DEF Declared, Services
    <3> QED BY <1>0, <3>1 DEF HostsFit
  <2> QED BY <1>0, <2>1, Kept
<1>3. (phase' = "services" /\ why' = why) \/ (phase' = "refused" /\ why' = "block")
  BY DEF ResolveBlocks, Refuse
<1> QED BY <1>0, <1>1, <1>2, <1>3 DEF ConfigInv, search

LEMMA ResolveServiceFits ==
  ASSUME ConfigInv, ResolveService
  PROVE  ConfigInv'
<1>0. phase = "services" /\ why = "none" /\ UNCHANGED <<overlay, raw, search>> /\ next \in Nat /\ overlay \in Overlays
      /\ done = {} /\ path = <<>> /\ stack = <<>> /\ Loaded /\ HostsFit(next)
  BY DEF ConfigInv, ResolveService
<1>1. Loaded' /\ Declared' = Declared
  BY <1>0 DEF Loaded, Declared
<1>2. \A m \in Declared : m \in Nat /\ 1 <= m /\ m <= LastService
  BY ConfigAssumption DEF Declared, Services
<1>3. CASE next > LastService
  <2>1. phase' = "unknown" /\ next' = 1 /\ UNCHANGED <<why, seen>>
    BY <1>3 DEF ResolveService
  <2>2. \A m \in Declared : m < next /\ m < LastService + 1
    BY <1>0, <1>2, <1>3, ConfigAssumption
  <2>3. HostsFit(LastService + 1)
    BY <1>0, <2>2 DEF HostsFit
  <2>4. HostsFit(LastService + 1)'
    BY <1>0, <2>1, <2>3, Kept
  <2> QED BY <1>0, <1>1, <2>1, <2>4 DEF ConfigInv, search
<1>4. CASE ~(next > LastService) /\ next \notin Declared
  <2>1. next' = next + 1 /\ UNCHANGED <<phase, why, seen>>
    BY <1>4 DEF ResolveService
  <2>2. \A m \in Declared : m < next + 1 <=> m < next
    <3>1. SUFFICES ASSUME NEW m \in Declared PROVE m < next + 1 <=> m < next
      OBVIOUS
    <3>2. m # next
      BY <1>4
    <3> QED BY <1>0, <1>2, <3>2
  <2>3. HostsFit(next + 1)
    BY <1>0, <2>2 DEF HostsFit
  <2>4. HostsFit(next)'
    BY <1>0, <1>1, <2>1, <2>3 DEF HostsFit
  <2> QED BY <1>0, <1>1, <2>1, <2>4 DEF ConfigInv, search
<1>5. CASE ~(next > LastService) /\ next \in Declared /\ Wrong(raw.service[next]) # "none"
  <2>1. phase' = "refused" /\ why' = Wrong(raw.service[next]) /\ UNCHANGED <<next, seen>>
    BY <1>5 DEF ResolveService, Refuse
  <2>2. why' \in {"run", "dashboard", "port", "exclusive", "secrets", "host"}
    BY <1>5, <2>1 DEF Wrong
  <2>3. why' = "exclusive" => StatesBoth(overlay.committed, next) \/ StatesBoth(overlay.local, next)
    <3>1. SUFFICES ASSUME why' = "exclusive" PROVE StatesBoth(overlay.committed, next) \/ StatesBoth(overlay.local, next)
      OBVIOUS
    <3>2. Given(raw.service[next].ready_port) /\ Given(raw.service[next].ready_delay_ms)
      BY <2>1, <3>1 DEF Wrong
    <3> QED BY <1>0, <1>5, <3>2, BothFromOne
  <2>4. (StatesBoth(overlay.committed, next) \/ StatesBoth(overlay.local, next))
         => (StatesBoth(overlay.committed, next) \/ StatesBoth(overlay.local, next))'
    BY <1>0, <2>1 DEF StatesBoth
  <2> QED BY <1>0, <1>1, <1>5, <2>1, <2>2, <2>3, <2>4 DEF ConfigInv
<1>6. CASE ~(next > LastService) /\ next \in Declared /\ Wrong(raw.service[next]) = "none"
  <2>1. next' = next + 1 /\ seen' = seen \cup ({raw.service[next].host} \ {Absent}) /\ UNCHANGED <<phase, why>>
    BY <1>6 DEF ResolveService
  <2>2. raw.service[next].host \notin seen
    BY <1>6 DEF Wrong
  <2>3. \A m \in Declared : m < next + 1 <=> (m < next \/ m = next)
    <3>1. SUFFICES ASSUME NEW m \in Declared PROVE m < next + 1 <=> (m < next \/ m = next)
      OBVIOUS
    <3> QED BY <1>0, <1>2
  <2>4. seen' = {raw.service[n].host : n \in {m \in Declared : m < next + 1 /\ Given(raw.service[m].host)}}
    <3>1. seen = {raw.service[n].host : n \in {m \in Declared : m < next /\ Given(raw.service[m].host)}}
      BY <1>0 DEF HostsFit
    <3>2. {raw.service[next].host} \ {Absent} = IF Given(raw.service[next].host) THEN {raw.service[next].host} ELSE {}
      BY DEF Given
    <3> QED BY <1>6, <2>1, <2>3, <3>1, <3>2
  <2>5. \A n, m \in Declared : n < next + 1 /\ m < next + 1 /\ Given(raw.service[n].host)
                              /\ raw.service[n].host = raw.service[m].host => n = m
    <3>1. SUFFICES ASSUME NEW n \in Declared, NEW m \in Declared, n < next + 1, m < next + 1, Given(raw.service[n].host),
                          raw.service[n].host = raw.service[m].host
                   PROVE  n = m
      OBVIOUS
    <3>2. (n < next \/ n = next) /\ (m < next \/ m = next)
      BY <2>3, <3>1
    <3>3. \A k \in Declared : k < next /\ Given(raw.service[k].host) => raw.service[k].host \in seen
      BY <1>0 DEF HostsFit
    <3>4. CASE n < next /\ m < next
      BY <1>0, <3>1, <3>4 DEF HostsFit
    <3>5. CASE n = next /\ m = next
      BY <3>5
    <3>6. CASE n < next /\ m = next
      BY <2>2, <3>1, <3>3, <3>6
    <3>7. CASE n = next /\ m < next
      BY <2>2, <3>1, <3>3, <3>7
    <3> QED BY <3>2, <3>4, <3>5, <3>6, <3>7
  <2>6. HostsFit(next)'
    BY <1>0, <1>1, <2>1, <2>4, <2>5 DEF HostsFit
  <2> QED BY <1>0, <1>1, <2>1, <2>6 DEF ConfigInv, search
<1> QED BY <1>3, <1>4, <1>5, <1>6

LEMMA UnknownDependsFits ==
  ASSUME ConfigInv, UnknownDepends
  PROVE  ConfigInv'
<1>0. phase = "unknown" /\ why = "none" /\ UNCHANGED <<overlay, raw, next, seen, search>> /\ next = 1 /\ overlay \in Overlays
      /\ done = {} /\ path = <<>> /\ stack = <<>> /\ Loaded /\ HostsFit(LastService + 1)
  BY DEF ConfigInv, UnknownDepends
<1>1. Loaded' /\ HostsFit(LastService + 1)' /\ (DependsHold' <=> DependsHold)
  BY <1>0, Kept
<1>2. CASE \E n \in Declared : ~(DependsOn(n) \subseteq Declared)
  <2>1. phase' = "refused" /\ why' = "unknown"
    BY <1>2 DEF UnknownDepends, Refuse
  <2> QED BY <1>0, <1>1, <2>1 DEF ConfigInv
<1>3. CASE ~(\E n \in Declared : ~(DependsOn(n) \subseteq Declared))
  <2>1. phase' = "search" /\ why' = "none" /\ DependsHold
    BY <1>0, <1>3 DEF UnknownDepends, DependsHold
  <2>2. stack' = <<>> /\ path' = <<>> /\ done' = {} /\ next' = 1
    BY <1>0 DEF search
  <2>4. StackFits /\ DoneFits
    BY <1>0, NothingToSearch
  <2>5. UNCHANGED <<overlay, raw, next, done, path, stack>>
    BY <1>0 DEF search
  <2>6. Declared' = Declared /\ (\A n : DependsOn(n)' = DependsOn(n)) /\ (\A set : Cyclic(set)' <=> Cyclic(set))
    BY <2>5, TurnKeeps
  <2>7. StackFits'
    BY <2>4, <2>5 DEF StackFits, Open, Looked, Depends, Declared
  <2>8. DoneFits'
    BY <2>4, <2>5, <2>6 DEF DoneFits, Depends
  <2>3. StackFits' /\ DoneFits'
    BY <2>7, <2>8
  <2> QED BY <1>0, <1>1, <2>1, <2>2, <2>3 DEF ConfigInv
<1> QED BY <1>2, <1>3

LEMMA ResolveEgressFits ==
  ASSUME ConfigInv, ResolveEgress
  PROVE  ConfigInv'
<1>0. phase = "egress" /\ why = "none" /\ UNCHANGED <<overlay, raw, next, seen, search>> /\ overlay \in Overlays /\ next \in Nat
      /\ Loaded /\ HostsFit(LastService + 1) /\ DependsHold /\ \A set \in SUBSET Declared : ~Cyclic(set)
  BY DEF ConfigInv, ResolveEgress
<1>1. Loaded' /\ HostsFit(LastService + 1)' /\ DependsHold' /\ Declared' = Declared /\ Routes' = Routes
  BY <1>0, Kept
<1>2. \A set \in SUBSET Declared' : ~Cyclic(set)'
  BY <1>0, <1>1, TurnKeeps
<1>3. CASE phase' = "refused"
  <2>1. why' = "egress"
    BY <1>3 DEF ResolveEgress, Refuse
  <2> QED BY <1>0, <1>1, <1>3, <2>1 DEF ConfigInv
<1>4. CASE phase' # "refused"
  <2>1. /\ phase' = "accepted" /\ why' = "none"
        /\ \A e \in Routes : raw.egress[e].host \notin seen
        /\ \A d, e \in Routes : raw.egress[d].host = raw.egress[e].host => d = e
    BY <1>0, <1>4 DEF ResolveEgress, Refuse
  <2> QED BY <1>0, <1>1, <1>2, <2>1 DEF ConfigInv
<1> QED BY <1>3, <1>4

LEMMA ConfigStep ==
  ConfigSpec => []ConfigInv
<1>1. ConfigInit => ConfigInv
  BY DEF ConfigInit, ConfigInv
<1>2. ConfigInv /\ [ConfigNext]_configVars => ConfigInv'
  <2>1. CASE ConfigNext
    BY <2>1, LoadFits, ResolveBlocksFits, ResolveServiceFits, UnknownDependsFits, StartFits, TurnFits, ResolveEgressFits DEF ConfigNext
  <2>2. SUFFICES ASSUME ConfigInv, UNCHANGED configVars PROVE ConfigInv'
    BY <2>1
  <2>3. UNCHANGED <<overlay, raw, phase, why, next, seen, done, path, stack>>
    BY <2>2 DEF configVars
  <2>4. /\ Declared' = Declared /\ (Loaded' <=> Loaded) /\ (DependsHold' <=> DependsHold) /\ Routes' = Routes
        /\ (\A k : HostsFit(k)' <=> HostsFit(k)) /\ (\A n : DependsOn(n)' = DependsOn(n)) /\ (\A set : Cyclic(set)' <=> Cyclic(set))
    BY <2>3, Kept, TurnKeeps
  <2>5. StackFits' <=> StackFits
    BY <2>3 DEF StackFits, Open, Looked, Depends, Declared
  <2>6. DoneFits' <=> DoneFits
    BY <2>3, <2>4 DEF DoneFits, Depends
  <2>7. CycleMet' <=> CycleMet
    BY <2>3 DEF CycleMet, OnPath, DependsOn, Depends, Declared
  <2>8. HostsFit(next)' <=> HostsFit(next)
    BY <2>3 DEF HostsFit, Declared
  <2> QED BY <2>2, <2>3, <2>4, <2>5, <2>6, <2>7, <2>8 DEF ConfigInv, StatesBoth
<1> QED BY <1>1, <1>2, PTL DEF ConfigSpec

LEMMA CyclesFit ==
  ASSUME ConfigInv
  PROVE  CycleVerdict /\ SearchSound
<1>1. CycleVerdict
  <2>1. ASSUME why = "cycle"
        PROVE  LET met == Last(stack)[1]
                   from == CHOOSE i \in DOMAIN path : path[i] = met
               IN  /\ \A i \in from..(Len(path) - 1) : path[i + 1] \in DependsOn(path[i])
                   /\ met \in DependsOn(Last(path))
    <3>1. PICK met, from : met = Last(stack)[1] /\ from = CHOOSE i \in DOMAIN path : path[i] = met
      OBVIOUS
    <3>2. CycleMet /\ Last(stack) = stack[Len(stack)] /\ Last(path) = path[Len(path)]
      BY <2>1 DEF ConfigInv, Last
    <3>3. path \in Seq(Declared) /\ OnPath(met)
      BY <3>1, <3>2 DEF CycleMet
    <3>4. from \in DOMAIN path /\ DOMAIN path = 1..Len(path) /\ Len(path) \in Nat
      BY <3>1, <3>3 DEF OnPath
    <3>5. \A i \in from..(Len(path) - 1) : i \in 1..(Len(path) - 1)
      BY <3>4
    <3>6. \A i \in from..(Len(path) - 1) : path[i + 1] \in DependsOn(path[i])
      BY <3>2, <3>5 DEF CycleMet
    <3>7. met \in DependsOn(Last(path))
      BY <3>1, <3>2 DEF CycleMet
    <3> QED BY <3>1, <3>6, <3>7
  <2>2. phase \in {"egress", "accepted"} => \A set \in SUBSET Declared : ~Cyclic(set)
    BY DEF ConfigInv
  <2> QED BY <2>1, <2>2 DEF CycleVerdict
<1>2. SearchSound
  <2>1. SUFFICES ASSUME phase = "search"
                 PROVE  /\ \A n \in done : DependsOn(n) \subseteq done
                        /\ \A i, j \in DOMAIN path : path[i] = path[j] => i = j
                        /\ \A i \in DOMAIN path : i < Len(path) => path[i + 1] \in DependsOn(path[i])
    BY DEF SearchSound
  <2>2. StackFits /\ DoneFits /\ overlay \in Overlays /\ Loaded
    BY <2>1 DEF ConfigInv
  <2>3. path \in Seq(Declared) /\ Len(path) = Open /\ \A i, j \in 1..Open : path[i] = path[j] => i = j
    BY <2>2 DEF StackFits
  <2>4. DOMAIN path = 1..Len(path) /\ Len(path) \in Nat
    BY <2>3
  <2>5. \A i \in 1..(Len(path) - 1) : path[i + 1] \in DependsOn(path[i])
    BY <2>2, ChainFits
  <2>6. \A i \in DOMAIN path : i < Len(path) => i \in 1..(Len(path) - 1)
    BY <2>4
  <2> QED BY <2>2, <2>3, <2>4, <2>5, <2>6 DEF DoneFits
<1> QED BY <1>1, <1>2

LEMMA HostsFitUnique ==
  ASSUME ConfigInv
  PROVE  HostsUnique
<1>1. SUFFICES ASSUME phase = "accepted"
      PROVE  LET claims == {<<"service", n>> : n \in {m \in Declared : Given(raw.service[m].host)}}
                           \cup {<<"egress", e>> : e \in Routes}
                 host(c) == IF c[1] = "service" THEN raw.service[c[2]].host ELSE raw.egress[c[2]].host
             IN  \A c, d \in claims : host(c) = host(d) => c = d
  BY DEF HostsUnique
<1> DEFINE claims == {<<"service", n>> : n \in {m \in Declared : Given(raw.service[m].host)}}
                     \cup {<<"egress", e>> : e \in Routes}
           host(c) == IF c[1] = "service" THEN raw.service[c[2]].host ELSE raw.egress[c[2]].host
<1>2. \A n \in Declared : n < LastService + 1
  <2>1. SUFFICES ASSUME NEW n \in Declared PROVE n < LastService + 1
    OBVIOUS
  <2>2. n \in Nat /\ n <= LastService /\ LastService \in Nat
    BY ConfigAssumption DEF Declared, Services
  <2> QED BY <2>2
<1>3. /\ \A n \in Declared : Given(raw.service[n].host) => raw.service[n].host \in seen
      /\ \A n, m \in Declared : Given(raw.service[n].host) /\ raw.service[n].host = raw.service[m].host => n = m
  BY <1>1, <1>2 DEF ConfigInv, HostsFit
<1>4. /\ \A e \in Routes : raw.egress[e].host \notin seen
      /\ \A d, e \in Routes : raw.egress[d].host = raw.egress[e].host => d = e
  BY <1>1 DEF ConfigInv
<1>5. ASSUME NEW c \in claims, NEW d \in claims, host(c) = host(d) PROVE c = d
  <2>1. \A n : host(<<"service", n>>) = raw.service[n].host /\ host(<<"egress", n>>) = raw.egress[n].host
    OBVIOUS
  <2>2. ASSUME NEW x \in claims
        PROVE  \/ \E n \in Declared : x = <<"service", n>> /\ Given(raw.service[n].host)
               \/ \E e \in Routes : x = <<"egress", e>>
    OBVIOUS
  <2> HIDE DEF claims, host
  <2>3. CASE \E n \in Declared : c = <<"service", n>> /\ Given(raw.service[n].host)
    <3>1. PICK n \in Declared : c = <<"service", n>> /\ Given(raw.service[n].host)
      BY <2>3
    <3>2. CASE \E m \in Declared : d = <<"service", m>> /\ Given(raw.service[m].host)
      BY <1>3, <1>5, <2>1, <3>1, <3>2
    <3>3. CASE \E e \in Routes : d = <<"egress", e>>
      BY <1>3, <1>4, <1>5, <2>1, <3>1, <3>3
    <3> QED BY <2>2, <3>2, <3>3
  <2>4. CASE \E e \in Routes : c = <<"egress", e>>
    <3>1. PICK e \in Routes : c = <<"egress", e>>
      BY <2>4
    <3>2. CASE \E m \in Declared : d = <<"service", m>> /\ Given(raw.service[m].host)
      BY <1>3, <1>4, <1>5, <2>1, <3>1, <3>2
    <3>3. CASE \E f \in Routes : d = <<"egress", f>>
      BY <1>4, <1>5, <2>1, <3>1, <3>3
    <3> QED BY <2>2, <3>2, <3>3
  <2> QED BY <2>2, <2>3, <2>4
<1> QED BY <1>5

LEMMA ReadinessFits ==
  ASSUME ConfigInv
  PROVE  ReadinessTravels
<1>1. why = "exclusive" => StatesBoth(overlay.committed, next) \/ StatesBoth(overlay.local, next)
  BY DEF ConfigInv
<1>2. ASSUME phase = "accepted", overlay.local # NoFile, overlay.committed # NoFile, NEW n \in Services,
             Given(overlay.committed.service[n]), Given(overlay.local.service[n])
      PROVE  LET base == overlay.committed.service[n]
                 over == overlay.local.service[n]
                 stated == [base EXCEPT !.port = Or(over.port, base.port)]
                 ready == {Given(over.ready_port), Given(over.ready_delay_ms)}
             IN  Ready(raw.service[n]) = IF TRUE \in ready THEN Ready(over) ELSE Ready(stated)
  <2>1. raw = Merge(overlay.committed, overlay.local) /\ overlay \in Overlays
    BY <1>2 DEF ConfigInv, Loaded
  <2>2. raw.service[n] = MergedUnder(overlay.committed.service[n], overlay.local.service[n])
    BY <1>2, <2>1 DEF Merge
  <2>3. IsService(overlay.committed.service[n]) /\ IsService(overlay.local.service[n])
    BY <1>2, <2>1, ConfigAssumption
  <2> QED BY <2>2, <2>3, GateOfLast
<1> QED BY <1>1, <1>2 DEF ReadinessTravels, StatesBoth

(***************************************************************************)
(* What service_config.rs accepts and refuses is right: no accepted         *)
(* configuration has a cycle, and one is refused as cyclic only for a       *)
(* cycle that is there; no host is claimed twice; and the readiness gate    *)
(* of a merged service is that of the last file that speaks of it.          *)
(***************************************************************************)
THEOREM VerdictsAlwaysSound == ConfigSpec => []VerdictSound
<1>1. ConfigInv => VerdictSound
  BY CyclesFit, HostsFitUnique, ReadinessFits DEF VerdictSound
<1> QED BY <1>1, ConfigStep, PTL


-----------------------------------------------------------------------------
(* Sync: the tables and what they hold.                                      *)

\* No host is claimed by two repositories: sync does not compare them.
HostsOfFile(f) == {f.services[n].host : n \in DOMAIN f.services} \cup {f.egress[e].host : e \in DOMAIN f.egress}
HostsApart == \A f, g \in Files : f.root # g.root =>
                \A h \in RouteHosts : ~(h \in HostsOfFile(f) /\ h \in HostsOfFile(g))

SvcRoute(n) == [source |-> "service", owner |-> n]
EgrRoute(e) == [source |-> "egress", owner |-> e]
Table == [Names -> Slot \cup {NoSlot}]
Routing == [RouteHosts -> RouteEntry \cup {Free}]
Owners == [SecretNames -> Roots \cup {Global, Nobody}]
EgressTable == [EgressNames -> EgressEntry \cup {NoEgress}]

\* A table of services is of one file for each root, dependencies included.
OneFile(s) ==
    \A r \in Roots : \E f \in Files :
        /\ f.root = r
        /\ \A n \in Names : s[n] # NoSlot /\ s[n].root = r =>
                              n \in DOMAIN f.services /\ s[n].def = f.services[n]
DependsFit(s) ==
    \A n \in Names : s[n] # NoSlot =>
        \A d \in s[n].def.depends : d \in Names /\ s[d] # NoSlot /\ s[d].root = s[n].root
SlotsFit(s) == s \in Table /\ OneFile(s) /\ DependsFit(s)
RoutesOfFile(t, f) ==
    \A e \in EgressNames : t[e] # NoEgress /\ t[e].root = f.root =>
                             e \in DOMAIN f.egress /\ t[e].host = f.egress[e].host
EgressFits(t) ==
    /\ t \in EgressTable
    /\ \A r \in Roots : \E f \in Files : f.root = r /\ RoutesOfFile(t, f)

\* Two tables with the same services, but for their intent.
SameTable(s, u) ==
    /\ s \in Table /\ u \in Table
    /\ \A n \in Names : (s[n] = NoSlot) <=> (u[n] = NoSlot)
    /\ \A n \in Names : s[n] # NoSlot => u[n].root = s[n].root /\ u[n].def = s[n].def
Wants(s, n) == s[n] # NoSlot /\ s[n].desired

LEMMA SlotFields ==
  ASSUME NEW s \in Table, NEW n \in Names, s[n] # NoSlot
  PROVE  /\ s[n] \in Slot /\ s[n].root \in Roots /\ s[n].def \in Defs /\ s[n].desired \in BOOLEAN
         /\ s[n].def # NoRunner
<1>1. s[n] \in Slot
  BY DEF Table
<1>2. s[n].root \in Roots /\ s[n].def \in Defs /\ s[n].desired \in BOOLEAN
  BY <1>1 DEF Slot
<1> QED BY <1>1, <1>2, SyncAssumption

LEMMA SlotSet ==
  ASSUME NEW x \in Slot, NEW b \in BOOLEAN
  PROVE  LET y == [x EXCEPT !.desired = b]
         IN  y \in Slot /\ y # NoSlot /\ y.root = x.root /\ y.def = x.def /\ y.desired = b
<1> DEFINE y == [x EXCEPT !.desired = b]
<1>1. y = [root |-> x.root, def |-> x.def, desired |-> b]
  BY DEF Slot
<1>2. x.root \in Roots /\ x.def \in Defs
  BY DEF Slot
<1>3. y \in Slot
  BY <1>1, <1>2 DEF Slot
<1>4. y # NoSlot
  BY <1>3, SyncAssumption
<1>5. y.root = x.root /\ y.def = x.def /\ y.desired = b
  BY <1>1
<1> QED BY <1>3, <1>4, <1>5

LEMMA SameFits ==
  ASSUME NEW s, NEW u, SlotsFit(s), SameTable(s, u)
  PROVE  SlotsFit(u)
<1>1. OneFile(u)
  <2> SUFFICES ASSUME NEW r \in Roots
               PROVE  \E f \in Files : /\ f.root = r
                         /\ \A n \in Names : u[n] # NoSlot /\ u[n].root = r =>
                              n \in DOMAIN f.services /\ u[n].def = f.services[n]
    BY DEF OneFile
  <2>1. PICK f \in Files : /\ f.root = r
                         /\ \A n \in Names : s[n] # NoSlot /\ s[n].root = r =>
                              n \in DOMAIN f.services /\ s[n].def = f.services[n]
    BY DEF SlotsFit, OneFile
  <2>2. \A n \in Names : u[n] # NoSlot /\ u[n].root = r => n \in DOMAIN f.services /\ u[n].def = f.services[n]
    BY <2>1 DEF SameTable
  <2> QED BY <2>1, <2>2
<1>2. DependsFit(u)
  BY DEF SlotsFit, DependsFit, SameTable
<1> QED BY <1>1, <1>2 DEF SlotsFit, SameTable

\* What up and stop do to a table.
LEMMA BroughtUp ==
  ASSUME NEW s \in Table, NEW ts \in SUBSET Names, \A n \in ts : s[n] # NoSlot,
         NEW u, u = [n \in Names |-> IF n \in ts THEN [s[n] EXCEPT !.desired = TRUE] ELSE s[n]]
  PROVE  SameTable(s, u) /\ \A n \in Names : Wants(u, n) <=> Wants(s, n) \/ n \in ts
<1>1. ASSUME NEW n \in ts
      PROVE  u[n] \in Slot /\ u[n] # NoSlot /\ u[n].root = s[n].root /\ u[n].def = s[n].def /\ u[n].desired = TRUE
  <2>1. s[n] \in Slot
    BY SlotFields
  <2>2. u[n] = [s[n] EXCEPT !.desired = TRUE]
    OBVIOUS
  <2> QED BY <2>1, <2>2, SlotSet
<1>2. \A n \in Names \ ts : u[n] = s[n]
  OBVIOUS
<1>3. u \in Table
  <2>1. \A n \in Names : u[n] \in Slot \cup {NoSlot}
    BY <1>1, <1>2 DEF Table
  <2> QED BY <2>1 DEF Table
<1> QED BY <1>1, <1>2, <1>3 DEF SameTable, Wants

LEMMA StoppedOne ==
  ASSUME NEW s \in Table, NEW n \in Names, s[n] # NoSlot,
         NEW u, u = [s EXCEPT ![n].desired = FALSE]
  PROVE  SameTable(s, u) /\ \A m \in Names : Wants(u, m) <=> Wants(s, m) /\ m # n
<1>1. u = [s EXCEPT ![n] = [s[n] EXCEPT !.desired = FALSE]]
  OBVIOUS
<1>2. u[n] = [s[n] EXCEPT !.desired = FALSE]
  BY <1>1 DEF Table
<1>3. u[n] \in Slot /\ u[n] # NoSlot /\ u[n].root = s[n].root /\ u[n].def = s[n].def /\ u[n].desired = FALSE
  <2>1. s[n] \in Slot
    BY SlotFields
  <2> QED BY <1>2, <2>1, SlotSet
<1>4. \A m \in Names \ {n} : u[m] = s[m]
  BY <1>1 DEF Table
<1>5. u \in Table
  BY <1>1, <1>2, <1>3 DEF Table
<1> QED BY <1>3, <1>4, <1>5 DEF SameTable, Wants

\* A host in the table is claimed by a file of the service's root.
LEMMA ServiceOfFile ==
  ASSUME NEW s, SlotsFit(s), NEW r \in Roots
  PROVE  \E f \in Files : /\ IsFile(f) /\ f.root = r
            /\ \A n \in Names : s[n] # NoSlot /\ s[n].root = r =>
                   /\ n \in DOMAIN f.services /\ s[n].def = f.services[n]
                   /\ s[n].def.host \in HostsOfFile(f)
<1>1. PICK f \in Files : /\ f.root = r
                         /\ \A n \in Names : s[n] # NoSlot /\ s[n].root = r =>
                              n \in DOMAIN f.services /\ s[n].def = f.services[n]
  BY DEF SlotsFit, OneFile
<1>2. IsFile(f)
  BY SyncAssumption
<1>3. \A n \in DOMAIN f.services : f.services[n].host \in HostsOfFile(f)
  BY DEF HostsOfFile
<1> QED BY <1>1, <1>2, <1>3

LEMMA EgressOfFile ==
  ASSUME NEW t, EgressFits(t), NEW r \in Roots
  PROVE  \E f \in Files : /\ IsFile(f) /\ f.root = r
            /\ \A e \in EgressNames : t[e] # NoEgress /\ t[e].root = r =>
                   /\ e \in DOMAIN f.egress /\ t[e].host = f.egress[e].host
                   /\ t[e].host \in HostsOfFile(f)
<1>1. PICK f \in Files : f.root = r /\ RoutesOfFile(t, f)
  BY DEF EgressFits
<1>2. IsFile(f)
  BY SyncAssumption
<1>3. \A e \in DOMAIN f.egress : f.egress[e].host \in HostsOfFile(f)
  BY DEF HostsOfFile
<1> QED BY <1>1, <1>2, <1>3 DEF RoutesOfFile

LEMMA EgressFields ==
  ASSUME NEW t \in EgressTable, NEW e \in EgressNames, t[e] # NoEgress
  PROVE  t[e] \in EgressEntry /\ t[e].root \in Roots /\ t[e].host \in EgressHosts
  BY DEF EgressTable, EgressEntry

\* No two services of a table have one host, nor have two egress routes.
LEMMA OneService ==
  ASSUME HostsApart, NEW s, SlotsFit(s), NEW n \in Names, NEW m \in Names, s[n] # NoSlot, s[m] # NoSlot,
         s[n].def.host = s[m].def.host, s[n].def.host \in RouteHosts
  PROVE  n = m
<1>1. s[n].root \in Roots /\ s[m].root \in Roots
  BY SlotFields DEF SlotsFit
<1>2. CASE s[n].root = s[m].root
  <2>1. PICK f \in Files : IsFile(f) /\ \A k \in Names : s[k] # NoSlot /\ s[k].root = s[n].root =>
                             k \in DOMAIN f.services /\ s[k].def = f.services[k]
    BY <1>1, ServiceOfFile
  <2>2. /\ n \in DOMAIN f.services /\ s[n].def = f.services[n]
        /\ m \in DOMAIN f.services /\ s[m].def = f.services[m]
    BY <1>2, <2>1
  <2> QED BY <2>1, <2>2 DEF IsFile
<1>3. CASE s[n].root # s[m].root
  <2>1. PICK f \in Files : f.root = s[n].root /\ s[n].def.host \in HostsOfFile(f)
    BY <1>1, ServiceOfFile
  <2>2. PICK g \in Files : g.root = s[m].root /\ s[m].def.host \in HostsOfFile(g)
    BY <1>1, ServiceOfFile
  <2> QED BY <1>3, <2>1, <2>2 DEF HostsApart
<1> QED BY <1>2, <1>3

LEMMA OneEgress ==
  ASSUME HostsApart, NEW t, EgressFits(t), NEW e \in EgressNames, NEW d \in EgressNames,
         t[e] # NoEgress, t[d] # NoEgress, t[e].host = t[d].host, t[e].host \in RouteHosts
  PROVE  e = d
<1>1. t[e].root \in Roots /\ t[d].root \in Roots
  BY EgressFields DEF EgressFits
<1>2. CASE t[e].root = t[d].root
  <2>1. PICK f \in Files : IsFile(f) /\ \A k \in EgressNames : t[k] # NoEgress /\ t[k].root = t[e].root =>
                             k \in DOMAIN f.egress /\ t[k].host = f.egress[k].host
    BY <1>1, EgressOfFile
  <2>2. /\ e \in DOMAIN f.egress /\ t[e].host = f.egress[e].host
        /\ d \in DOMAIN f.egress /\ t[d].host = f.egress[d].host
    BY <1>2, <2>1
  <2> QED BY <2>1, <2>2 DEF IsFile
<1>3. CASE t[e].root # t[d].root
  <2>1. PICK f \in Files : f.root = t[e].root /\ t[e].host \in HostsOfFile(f)
    BY <1>1, EgressOfFile
  <2>2. PICK g \in Files : g.root = t[d].root /\ t[d].host \in HostsOfFile(g)
    BY <1>1, EgressOfFile
  <2> QED BY <1>3, <2>1, <2>2 DEF HostsApart
<1> QED BY <1>2, <1>3

HeldOf(s, r) == {n \in Names : s[n] # NoSlot /\ s[n].root = r}
Changed(s, f) == {n \in DOMAIN f.services : s[n] # NoSlot /\ s[n].def # f.services[n]}
Gone(s, f) == HeldOf(s, f.root) \ DOMAIN f.services
NoForeign(s, f) == \A n \in DOMAIN f.services : s[n] # NoSlot => s[n].root = f.root
SlotsOf(s, f) ==
    /\ HeldOf(s, f.root) = DOMAIN f.services
    /\ \A n \in DOMAIN f.services : s[n].def = f.services[n]
TablesOf(b, t, f) ==
    /\ {x \in SecretNames : b[x] = f.root} = f.blocks
    /\ {e \in EgressNames : t[e] # NoEgress /\ t[e].root = f.root} = DOMAIN f.egress
    /\ \A e \in DOMAIN f.egress : t[e].host = f.egress[e].host

\* What these sets are of two tables that differ in intents.
LEMMA SameSets ==
  ASSUME NEW s, NEW u, SameTable(s, u), NEW f \in Files
  PROVE  /\ \A r : HeldOf(u, r) = HeldOf(s, r)
         /\ Changed(u, f) = Changed(s, f) /\ Gone(u, f) = Gone(s, f)
         /\ NoForeign(s, f) => NoForeign(u, f)
         /\ SlotsOf(s, f) => SlotsOf(u, f)
<1>1. DOMAIN f.services \subseteq Names
  BY SyncAssumption DEF IsFile
<1>2. \A r : HeldOf(u, r) = HeldOf(s, r)
  BY DEF SameTable, HeldOf
<1>3. Changed(u, f) = Changed(s, f)
  BY <1>1 DEF SameTable, Changed
<1>4. NoForeign(s, f) => NoForeign(u, f)
  BY <1>1 DEF SameTable, NoForeign
<1>5. SlotsOf(s, f) => SlotsOf(u, f)
  <2> SUFFICES ASSUME SlotsOf(s, f) PROVE SlotsOf(u, f)
    OBVIOUS
  <2>1. \A n \in DOMAIN f.services : n \in Names /\ s[n] # NoSlot
    BY DEF SlotsOf, HeldOf
  <2>2. \A n \in DOMAIN f.services : u[n].def = s[n].def
    BY <2>1 DEF SameTable
  <2> QED BY <1>2, <2>2 DEF SlotsOf
<1> QED BY <1>2, <1>3, <1>4, <1>5 DEF Gone

\* A replaced table.
LEMMA ReplacedSlots ==
  ASSUME NEW s, SlotsFit(s), NEW f \in Files, NoForeign(s, f),
         NEW u, u = [n \in Names |->
             IF n \in Gone(s, f) THEN NoSlot
             ELSE IF n \in DOMAIN f.services
                  THEN [root |-> IF s[n] # NoSlot THEN s[n].root ELSE f.root,
                        def |-> f.services[n], desired |-> Wants(s, n)]
                  ELSE s[n]]
  PROVE  /\ SlotsFit(u) /\ SlotsOf(u, f)
         /\ \A n \in DOMAIN f.services : u[n] # NoSlot /\ u[n].root = f.root /\ u[n].def = f.services[n]
         /\ \A n \in Names \ DOMAIN f.services : u[n] # NoSlot => u[n] = s[n] /\ s[n].root # f.root
         /\ \A n \in Names : u[n] = NoSlot => s[n] = NoSlot \/ n \in Gone(s, f)
         /\ \A n \in Names : Wants(u, n) <=> Wants(s, n) /\ n \notin Gone(s, f)
<1>1. IsFile(f) /\ DOMAIN f.services \subseteq Names /\ f.root \in Roots
  BY SyncAssumption DEF IsFile, Roots
<1>2. \A n \in DOMAIN f.services : f.services[n] \in Defs
  BY DEF Defs
<1>3. \A n \in Gone(s, f) : n \in Names /\ n \notin DOMAIN f.services /\ s[n] # NoSlot /\ s[n].root = f.root /\ u[n] = NoSlot
  BY DEF Gone, HeldOf
<1>4. \A n \in DOMAIN f.services : n \notin Gone(s, f)
  BY <1>3
<1>5. ASSUME NEW n \in DOMAIN f.services
      PROVE  /\ u[n] \in Slot /\ u[n] # NoSlot /\ u[n].root = f.root /\ u[n].def = f.services[n]
             /\ u[n].desired = Wants(s, n)
  <2>1. n \in Names
    BY <1>1
  <2> DEFINE o == IF s[n] # NoSlot THEN s[n].root ELSE f.root
  <2>2. u[n] = [root |-> o, def |-> f.services[n], desired |-> Wants(s, n)]
    BY <1>4, <2>1
  <2>3. o = f.root
    BY DEF NoForeign
  <2>4. Wants(s, n) \in BOOLEAN
    BY <2>1, SlotFields DEF Wants, SlotsFit
  <2>5. u[n] \in Slot
    BY <1>1, <1>2, <2>2, <2>3, <2>4 DEF Slot
  <2> QED BY <2>2, <2>3, <2>5, SyncAssumption
<1>6. \A n \in Names \ DOMAIN f.services : n \notin Gone(s, f) => u[n] = s[n]
  OBVIOUS
<1>7. \A n \in Names \ DOMAIN f.services : u[n] # NoSlot => u[n] = s[n] /\ s[n].root # f.root
  BY <1>3, <1>6 DEF Gone, HeldOf
<1>8. u \in Table
  <2>1. ASSUME NEW n \in Names PROVE u[n] \in Slot \cup {NoSlot}
    BY <1>5, <1>6, <1>3 DEF SlotsFit, Table
  <2> QED BY <2>1 DEF Table
<1>9. OneFile(u)
  <2> SUFFICES ASSUME NEW r \in Roots
               PROVE  \E g \in Files : /\ g.root = r
                         /\ \A n \in Names : u[n] # NoSlot /\ u[n].root = r =>
                              n \in DOMAIN g.services /\ u[n].def = g.services[n]
    BY DEF OneFile
  <2>1. CASE r = f.root
    <3>1. \A n \in Names : u[n] # NoSlot /\ u[n].root = r => n \in DOMAIN f.services /\ u[n].def = f.services[n]
      BY <1>5, <1>7, <2>1
    <3> QED BY <2>1, <3>1
  <2>2. CASE r # f.root
    <3>1. PICK g \in Files : /\ g.root = r
                         /\ \A n \in Names : s[n] # NoSlot /\ s[n].root = r =>
                              n \in DOMAIN g.services /\ s[n].def = g.services[n]
      BY DEF SlotsFit, OneFile
    <3>2. \A n \in Names : u[n] # NoSlot /\ u[n].root = r => s[n] # NoSlot /\ s[n].root = r /\ u[n].def = s[n].def
      BY <1>5, <1>7, <2>2
    <3> QED BY <3>1, <3>2
  <2> QED BY <2>1, <2>2
<1>10. DependsFit(u)
  <2> SUFFICES ASSUME NEW n \in Names, u[n] # NoSlot, NEW d \in u[n].def.depends
               PROVE  d \in Names /\ u[d] # NoSlot /\ u[d].root = u[n].root
    BY DEF DependsFit
  <2>1. CASE n \in DOMAIN f.services
    <3>1. d \in DOMAIN f.services
      BY <1>1, <1>5, <2>1 DEF IsFile
    <3> QED BY <1>1, <1>5, <2>1, <3>1
  <2>2. CASE n \notin DOMAIN f.services
    <3>1. u[n] = s[n] /\ s[n].root # f.root
      BY <1>7, <2>2
    <3>2. d \in Names /\ s[d] # NoSlot /\ s[d].root = s[n].root
      BY <3>1 DEF SlotsFit, DependsFit
    <3>3. d \notin DOMAIN f.services /\ d \notin Gone(s, f)
      BY <1>3, <3>1, <3>2 DEF NoForeign
    <3>4. u[d] = s[d]
      BY <1>6, <3>2, <3>3
    <3> QED BY <3>1, <3>2, <3>4
  <2> QED BY <2>1, <2>2
<1>11. SlotsOf(u, f)
  <2>1. HeldOf(u, f.root) = DOMAIN f.services
    BY <1>1, <1>5, <1>7 DEF HeldOf
  <2> QED BY <1>5, <2>1 DEF SlotsOf
<1>12. \A n \in Names : u[n] = NoSlot => s[n] = NoSlot \/ n \in Gone(s, f)
  BY <1>5, <1>6
<1>13. \A n \in Names : Wants(u, n) <=> Wants(s, n) /\ n \notin Gone(s, f)
  <2> SUFFICES ASSUME NEW n \in Names PROVE Wants(u, n) <=> Wants(s, n) /\ n \notin Gone(s, f)
    OBVIOUS
  <2>1. CASE n \in DOMAIN f.services
    BY <1>4, <1>5, <2>1 DEF Wants
  <2>2. CASE n \in Gone(s, f)
    BY <1>3, <2>2 DEF Wants
  <2>3. CASE n \notin DOMAIN f.services /\ n \notin Gone(s, f)
    BY <1>6, <2>3 DEF Wants
  <2> QED BY <2>1, <2>2, <2>3
<1>14. SlotsFit(u)
  BY <1>8, <1>9, <1>10 DEF SlotsFit
<1> QED BY <1>5, <1>7, <1>11, <1>12, <1>13, <1>14

\* A table that lost services nobody depends on.
LEMMA DroppedSlots ==
  ASSUME NEW s, SlotsFit(s), NEW ds \in SUBSET Names,
         \A n \in Names \ ds : s[n] # NoSlot => \A d \in s[n].def.depends : d \notin ds,
         NEW u, u = [n \in Names |-> IF n \in ds THEN NoSlot ELSE s[n]]
  PROVE  SlotsFit(u) /\ \A n \in Names : Wants(u, n) <=> Wants(s, n) /\ n \notin ds
<1>1. \A n \in Names : u[n] # NoSlot => u[n] = s[n] /\ n \notin ds
  OBVIOUS
<1>2. \A n \in Names : n \notin ds => u[n] = s[n]
  OBVIOUS
<1>3. u \in Table
  BY DEF SlotsFit, Table
<1>4. OneFile(u)
  BY <1>1 DEF SlotsFit, OneFile
<1>5. DependsFit(u)
  BY <1>1, <1>2 DEF SlotsFit, DependsFit
<1> QED BY <1>1, <1>2, <1>3, <1>4, <1>5 DEF SlotsFit, Wants

\* A table that is restored, with the intents or without them.
LEMMA RestoredSlots ==
  ASSUME NEW s \in Table, NEW a \in BOOLEAN,
         NEW u, u = [n \in Names |-> IF s[n] = NoSlot THEN NoSlot ELSE [s[n] EXCEPT !.desired = @ /\ a]]
  PROVE  SameTable(s, u)
<1>1. ASSUME NEW n \in Names, s[n] # NoSlot
      PROVE  u[n] \in Slot /\ u[n] # NoSlot /\ u[n].root = s[n].root /\ u[n].def = s[n].def
  <2>1. s[n] \in Slot /\ (s[n].desired /\ a) \in BOOLEAN
    BY <1>1, SlotFields
  <2>2. u[n] = [s[n] EXCEPT !.desired = s[n].desired /\ a]
    BY <1>1
  <2> QED BY <2>1, <2>2, SlotSet
<1>2. \A n \in Names : s[n] = NoSlot => u[n] = NoSlot
  OBVIOUS
<1>3. u \in Table
  <2>1. \A n \in Names : u[n] \in Slot \cup {NoSlot}
    BY <1>1, <1>2
  <2> QED BY <2>1 DEF Table
<1> QED BY <1>1, <1>2, <1>3 DEF SameTable

\* What a sync commits.
LEMMA Committed ==
  ASSUME NEW b \in Owners, NEW t, EgressFits(t), NEW f \in Files,
         \A x \in f.blocks : b[x] \in {Nobody, f.root},
         \A e \in DOMAIN f.egress : t[e] # NoEgress => t[e].root = f.root,
         NEW c, c = [x \in SecretNames |-> IF x \in f.blocks THEN f.root
                                           ELSE IF b[x] = f.root THEN Nobody ELSE b[x]],
         NEW v, v = [e \in EgressNames |->
                     IF e \in DOMAIN f.egress THEN [root |-> f.root, host |-> f.egress[e].host]
                     ELSE IF e \in {d \in EgressNames : t[d] # NoEgress /\ t[d].root = f.root}
                     THEN NoEgress ELSE t[e]]
  PROVE  /\ c \in Owners /\ EgressFits(v) /\ TablesOf(c, v, f)
         /\ \A x \in SecretNames : b[x] # Nobody => c[x] \in {b[x], Nobody}
         /\ \A e \in DOMAIN f.egress : v[e] # NoEgress /\ v[e].root = f.root /\ v[e].host = f.egress[e].host
         /\ \A e \in EgressNames \ DOMAIN f.egress : v[e] # NoEgress => v[e] = t[e] /\ t[e].root # f.root
         /\ \A e \in EgressNames \ DOMAIN f.egress : t[e] # NoEgress /\ t[e].root # f.root => v[e] = t[e]
         /\ \A e \in EgressNames : t[e] # NoEgress /\ v[e] # NoEgress => v[e].root = t[e].root
<1>1. IsFile(f) /\ DOMAIN f.egress \subseteq EgressNames /\ f.blocks \subseteq SecretNames /\ f.root \in Roots
  BY SyncAssumption DEF IsFile, Roots
<1>2. \A e \in DOMAIN f.egress : f.egress[e].host \in EgressHosts
  BY DEF EgressHosts
<1>3. Nobody \notin Roots
  BY SyncAssumption
<1>4. c \in Owners
  BY <1>1 DEF Owners
<1>5. \A x \in SecretNames : c[x] = f.root <=> x \in f.blocks
  BY <1>1, <1>3
<1>6. \A x \in SecretNames : b[x] # Nobody => c[x] \in {b[x], Nobody}
  OBVIOUS
<1>7. ASSUME NEW e \in DOMAIN f.egress
      PROVE  v[e] \in EgressEntry /\ v[e] # NoEgress /\ v[e].root = f.root /\ v[e].host = f.egress[e].host
  <2>1. e \in EgressNames /\ v[e] = [root |-> f.root, host |-> f.egress[e].host]
    BY <1>1
  <2>2. v[e] \in EgressEntry
    BY <1>1, <1>2, <2>1 DEF EgressEntry
  <2> QED BY <2>1, <2>2, SyncAssumption
<1>8. \A e \in EgressNames \ DOMAIN f.egress : v[e] # NoEgress => v[e] = t[e] /\ t[e].root # f.root
  OBVIOUS
<1>9. \A e \in EgressNames \ DOMAIN f.egress : t[e] # NoEgress /\ t[e].root # f.root => v[e] = t[e]
  OBVIOUS
<1>10. v \in EgressTable
  <2>1. \A e \in EgressNames : v[e] \in EgressEntry \cup {NoEgress}
    BY <1>7, <1>8 DEF EgressFits, EgressTable
  <2> QED BY <2>1 DEF EgressTable
<1>11. ASSUME NEW r \in Roots PROVE \E g \in Files : g.root = r /\ RoutesOfFile(v, g)
  <2>1. CASE r = f.root
    <3>1. RoutesOfFile(v, f)
      BY <1>7, <1>8 DEF RoutesOfFile
    <3> QED BY <2>1, <3>1
  <2>2. CASE r # f.root
    <3>1. PICK g \in Files : g.root = r /\ RoutesOfFile(t, g)
      BY DEF EgressFits
    <3>2. \A e \in EgressNames : v[e] # NoEgress /\ v[e].root = r => t[e] # NoEgress /\ t[e].root = r /\ v[e].host = t[e].host
      BY <1>7, <1>8, <2>2
    <3>3. RoutesOfFile(v, g)
      BY <3>1, <3>2 DEF RoutesOfFile
    <3> QED BY <3>1, <3>3
  <2> QED BY <2>1, <2>2
<1>12. TablesOf(c, v, f)
  <2>1. {x \in SecretNames : c[x] = f.root} = f.blocks
    BY <1>1, <1>5
  <2>2. {e \in EgressNames : v[e] # NoEgress /\ v[e].root = f.root} = DOMAIN f.egress
    BY <1>1, <1>7, <1>8
  <2> QED BY <1>7, <2>1, <2>2 DEF TablesOf
<1>13. \A e \in EgressNames : t[e] # NoEgress /\ v[e] # NoEgress => v[e].root = t[e].root
  BY <1>7, <1>8
<1>14. EgressFits(v)
  BY <1>10, <1>11 DEF EgressFits
<1> QED BY <1>4, <1>6, <1>7, <1>8, <1>9, <1>12, <1>13, <1>14

-----------------------------------------------------------------------------
(* Sync: the request that holds the gate.                                    *)

Pcs == {"none", "classify", "commit", "announce", "stop", "replace", "save", "restart", "forget"}
JobType == [pc : Pcs, file : Files \cup {Idle}, stop : SUBSET Names, restart : SUBSET Names,
            moved : SUBSET EgressHosts, wanted : SUBSET Names]
NoJob == [pc |-> "none", file |-> Idle, stop |-> {}, restart |-> {}, moved |-> {}, wanted |-> {}]
Work == IF gate = Nobody THEN NoJob ELSE syncs[gate]

\* Before it replaces them, a sync stops what changed or is gone.
StopsFit(j, s, tc) ==
    LET f == j.file
    IN  /\ NoForeign(s, f)
        /\ j.stop \subseteq Changed(s, f) \cup Gone(s, f)
        /\ j.pc \in {"commit", "announce"} => j.stop = Changed(s, f) \cup Gone(s, f)
        /\ j.pc = "replace" => j.stop = {}
        /\ \A n \in (Changed(s, f) \cup Gone(s, f)) \ j.stop : ~Wants(s, n)
        /\ j.restart \subseteq Changed(s, f)
        /\ \A n \in Changed(s, f) : Wants(s, n) => n \in j.restart
        /\ \A n \in j.wanted \ tc : Wants(s, n) \/ n \in j.restart \/ n \in Gone(s, f)
\* When it has replaced them, it has those to bring up again.
Replaced(j) == j.pc = "restart" \/ (j.pc = "save" /\ j.file # Idle)
RestartsFit(j, s, tc) ==
    /\ SlotsOf(s, j.file) /\ j.restart \subseteq DOMAIN j.file.services
    /\ \A n \in (j.wanted \cap DOMAIN j.file.services) \ tc : Wants(s, n) \/ n \in j.restart
MovedFit(j) ==
    \A h \in j.moved : \E g \in Files : g.root = j.file.root /\ h \in HostsOfFile(g)
ForgetFit(j, s) ==
    /\ j.file = Idle /\ j.stop \subseteq j.restart
    /\ \A n \in j.restart : s[n] # NoSlot
    /\ \A n \in j.restart \ j.stop : ~Wants(s, n)
    /\ \A n \in Names \ j.restart : s[n] # NoSlot => \A d \in s[n].def.depends : d \notin j.restart
JobInv(j, s, b, t, tc) ==
    /\ j \in JobType
    /\ j.pc \in {"classify", "commit", "announce", "stop", "replace", "restart"} => j.file \in Files
    /\ j.pc = "classify" => \A n \in j.wanted \ tc : Wants(s, n)
    /\ j.pc \in {"commit", "announce", "stop", "replace"} => StopsFit(j, s, tc)
    /\ j.pc \in {"announce", "stop", "replace"} \/ Replaced(j) => TablesOf(b, t, j.file)
    /\ Replaced(j) => RestartsFit(j, s, tc)
    /\ j.pc = "announce" => MovedFit(j)
    /\ j.pc = "forget" => ForgetFit(j, s)

\* Services whose routes outlive their runners, and those about to be stopped.
Left(j, s) ==
    IF j.pc \in {"stop", "replace"} THEN j.restart \cup Gone(s, j.file)
    ELSE IF j.pc = "forget" \/ Replaced(j) THEN j.restart ELSE {}
Losing(j) == IF j.pc = "stop" THEN j.stop ELSE {}
\* The roots whose egress routes the registry does not know yet, and the hosts
\* they moved away from.
Moving(j) == IF j.pc = "announce" THEN {j.file.root} ELSE {}
MovedFrom(j) == IF j.pc = "announce" THEN j.moved ELSE {}
\* The root whose services and egress routes are of two files.
Swapping(j) == IF j.pc \in {"announce", "stop", "replace"} THEN {j.file.root} ELSE {}

RouteInv(rt, s, left, losing, up) ==
    /\ rt \in Routing
    /\ \A h \in RouteHosts, n \in Names : rt[h] = SvcRoute(n) =>
         s[n] # NoSlot /\ s[n].def.host = h /\ (Wants(s, n) \/ n \in left) /\ up
    /\ up => \A n \in Names : Wants(s, n) /\ s[n].def.host \in RouteHosts =>
                 rt[s[n].def.host] = SvcRoute(n) \/ n \in losing
EgrInv(rt, t, moving, from) ==
    /\ \A h \in RouteHosts, e \in EgressNames : rt[h] = EgrRoute(e) =>
         (t[e] # NoEgress /\ t[e].host = h) \/ h \in from
    /\ \A e \in EgressNames : t[e] # NoEgress /\ t[e].host \in RouteHosts =>
         rt[t[e].host] = EgrRoute(e) \/ t[e].root \in moving
MeetInv(s, t, roots) ==
    \A n \in Names, e \in EgressNames :
        s[n] # NoSlot /\ t[e] # NoEgress /\ s[n].def.host = t[e].host /\ t[e].host \in RouteHosts
        => s[n].root \in roots

TablesFit == SlotsFit(slots) /\ blocks \in Owners /\ EgressFits(egress)
SavedFits ==
    /\ saved = [slots |-> saved.slots, blocks |-> saved.blocks, egress |-> saved.egress]
    /\ SlotsFit(saved.slots) /\ saved.blocks \in Owners /\ EgressFits(saved.egress)
GateFits ==
    /\ gate \in SyncClients \cup {Nobody}
    /\ syncs = [c \in SyncClients |-> syncs[c]]
    /\ \A c \in SyncClients : c # gate => syncs[c] = Idle
BootFits ==
    /\ boot \in {"load", "up", "done"} /\ (boot # "done" => gate = Nobody)
    /\ boot = "load" => /\ slots = Empty.slots /\ blocks = Empty.blocks /\ egress = Empty.egress
                        /\ routed = [h \in RouteHosts |-> Free]
JobFits == JobInv(Work, slots, blocks, egress, touched)
RunnersFit ==
    /\ runner = [n \in Names |-> runner[n]]
    /\ \A n \in Names : runner[n] = IF boot = "done" /\ Wants(slots, n) THEN slots[n].def ELSE NoRunner
ServicesRouted == RouteInv(routed, slots, Left(Work, slots), Losing(Work), boot = "done")
RoutesKnown == boot # "load" /\ ~torn => EgrInv(routed, egress, Moving(Work), MovedFrom(Work))
HostsMeet ==
    ~torn => /\ MeetInv(slots, egress, Swapping(Work))
             /\ Work.pc \in {"announce", "stop", "replace", "save"} \/ MeetInv(saved.slots, saved.egress, {})
SyncInv ==
    /\ TablesFit /\ SavedFits /\ GateFits /\ BootFits /\ JobFits /\ RunnersFit
    /\ ServicesRouted /\ RoutesKnown /\ HostsMeet

LEMMA RouteFields ==
  /\ \A n \in Names : SvcRoute(n) \in RouteEntry /\ SvcRoute(n) # Free /\ SvcRoute(n).source = "service" /\ SvcRoute(n).owner = n
  /\ \A e \in EgressNames : EgrRoute(e) \in RouteEntry /\ EgrRoute(e) # Free /\ EgrRoute(e).source = "egress" /\ EgrRoute(e).owner = e
  /\ \A n, e : SvcRoute(n) # EgrRoute(e)
<1>1. \A n : SvcRoute(n).source = "service" /\ SvcRoute(n).owner = n
  BY DEF SvcRoute
<1>2. \A e : EgrRoute(e).source = "egress" /\ EgrRoute(e).owner = e
  BY DEF EgrRoute
<1>3. \A n \in Names : SvcRoute(n) \in RouteEntry
  BY DEF SvcRoute, RouteEntry
<1>4. \A e \in EgressNames : EgrRoute(e) \in RouteEntry
  BY DEF EgrRoute, RouteEntry
<1>5. \A n, e : SvcRoute(n) # EgrRoute(e)
  <2>1. "service" # "egress"
    OBVIOUS
  <2> QED BY <1>1, <1>2, <2>1
<1> QED BY <1>1, <1>2, <1>3, <1>4, <1>5, SyncAssumption

\* A registry after owners of different hosts claimed them.
Distinct(host) ==
    \A n, m \in DOMAIN host : host[n] = host[m] /\ host[n] \in RouteHosts => n = m
SvcClaimed(u, rt, host) ==
    /\ u \in Routing
    /\ \A n \in DOMAIN host : host[n] \in RouteHosts => u[host[n]] = SvcRoute(n)
    /\ \A h \in RouteHosts : (\A n \in DOMAIN host : host[n] # h) => u[h] = rt[h]
EgrClaimed(u, rt, host) ==
    /\ u \in Routing
    /\ \A e \in DOMAIN host : host[e] \in RouteHosts => u[host[e]] = EgrRoute(e)
    /\ \A h \in RouteHosts : (\A e \in DOMAIN host : host[e] # h) => u[h] = rt[h]
LEMMA ServicesClaim ==
  ASSUME NEW rt, rt \in Routing, NEW host, DOMAIN host \subseteq Names, Distinct(host),
         NEW u, u = Claim(rt, "service", host)
  PROVE  SvcClaimed(u, rt, host)
<1> DEFINE ts == DOMAIN host
<1>1. \A h \in RouteHosts : u[h] = IF \E o \in ts : host[o] = h
                                   THEN SvcRoute(CHOOSE o \in ts : host[o] = h) ELSE rt[h]
  BY DEF Claim, SvcRoute
<1>2. u = [h \in RouteHosts |-> u[h]]
  BY DEF Claim
<1>3. ASSUME NEW n \in ts, host[n] \in RouteHosts PROVE u[host[n]] = SvcRoute(n)
  <2> DEFINE o == CHOOSE p \in ts : host[p] = host[n]
  <2>1. o \in ts /\ host[o] = host[n]
    OBVIOUS
  <2>2. u[host[n]] = SvcRoute(o)
    BY <1>1, <1>3
  <2> HIDE DEF o
  <2>3. o = n
    BY <1>3, <2>1 DEF Distinct
  <2> QED BY <2>2, <2>3
<1>4. ASSUME NEW h \in RouteHosts, \A n \in ts : host[n] # h PROVE u[h] = rt[h]
  BY <1>1, <1>4
<1>5. u \in Routing
  <2>1. ASSUME NEW h \in RouteHosts PROVE u[h] \in RouteEntry \cup {Free}
    <3>1. CASE \E n \in ts : host[n] = h
      BY <1>3, <3>1, RouteFields
    <3>2. CASE \A n \in ts : host[n] # h
      BY <1>4, <3>2 DEF Routing
    <3> QED BY <3>1, <3>2
  <2> QED BY <1>2, <2>1 DEF Routing
<1> QED BY <1>3, <1>4, <1>5 DEF SvcClaimed

LEMMA EgressClaim ==
  ASSUME NEW rt, rt \in Routing, NEW host, DOMAIN host \subseteq EgressNames, Distinct(host),
         NEW u, u = Claim(rt, "egress", host)
  PROVE  EgrClaimed(u, rt, host)
<1> DEFINE ts == DOMAIN host
<1>1. \A h \in RouteHosts : u[h] = IF \E o \in ts : host[o] = h
                                   THEN EgrRoute(CHOOSE o \in ts : host[o] = h) ELSE rt[h]
  BY DEF Claim, EgrRoute
<1>2. u = [h \in RouteHosts |-> u[h]]
  BY DEF Claim
<1>3. ASSUME NEW n \in ts, host[n] \in RouteHosts PROVE u[host[n]] = EgrRoute(n)
  <2> DEFINE o == CHOOSE p \in ts : host[p] = host[n]
  <2>1. o \in ts /\ host[o] = host[n]
    OBVIOUS
  <2>2. u[host[n]] = EgrRoute(o)
    BY <1>1, <1>3
  <2> HIDE DEF o
  <2>3. o = n
    BY <1>3, <2>1 DEF Distinct
  <2> QED BY <2>2, <2>3
<1>4. ASSUME NEW h \in RouteHosts, \A n \in ts : host[n] # h PROVE u[h] = rt[h]
  BY <1>1, <1>4
<1>5. u \in Routing
  <2>1. ASSUME NEW h \in RouteHosts PROVE u[h] \in RouteEntry \cup {Free}
    <3>1. CASE \E n \in ts : host[n] = h
      BY <1>3, <3>1, RouteFields
    <3>2. CASE \A n \in ts : host[n] # h
      BY <1>4, <3>2 DEF Routing
    <3> QED BY <3>1, <3>2
  <2> QED BY <1>2, <2>1 DEF Routing
<1> QED BY <1>3, <1>4, <1>5 DEF EgrClaimed

\* A registry after a release.
LEMMA Released ==
  ASSUME NEW rt \in Routing, NEW source, NEW hosts, NEW u, u = Release(rt, source, hosts)
  PROVE  /\ u \in Routing
         /\ \A h \in RouteHosts : u[h] \in {rt[h], Free}
         /\ \A h \in RouteHosts : u[h] = rt[h] \/ (h \in hosts /\ rt[h].source = source)
         /\ \A h \in RouteHosts : h \in hosts /\ rt[h] # Free /\ rt[h].source = source => u[h] = Free
<1>1. \A h \in RouteHosts : u[h] = IF h \in hosts /\ rt[h] # Free /\ rt[h].source = source THEN Free ELSE rt[h]
  BY DEF Release
<1>2. u \in Routing
  BY DEF Release, Routing
<1> QED BY <1>1, <1>2

\* The services' side of the registry: after an up,
LEMMA RoutesBrought ==
  ASSUME HostsApart, NEW s, SlotsFit(s), NEW u, NEW ts \in SUBSET Names, \A n \in ts : s[n] # NoSlot,
         SameTable(s, u), \A n \in Names : Wants(u, n) <=> Wants(s, n) \/ n \in ts,
         NEW rt, NEW left, NEW losing, NEW up \in BOOLEAN, RouteInv(rt, s, left, losing, up),
         ~up => \A n \in Names : Wants(s, n) => n \in ts,
         NEW v, v = Claim(rt, "service", [n \in ts |-> s[n].def.host]),
         NEW left2, left \subseteq left2 \cup ts
  PROVE  RouteInv(v, u, left2, losing, TRUE)
<1> DEFINE host == [n \in ts |-> s[n].def.host]
<1>1. Distinct(host)
  BY OneService DEF Distinct
<1>2. \A n \in ts : host[n] = s[n].def.host
  OBVIOUS
<1>3. DOMAIN host = ts /\ rt \in Routing /\ DOMAIN host \subseteq Names
  BY DEF RouteInv
<1>4. v = Claim(rt, "service", host)
  OBVIOUS
<1> HIDE DEF host
<1>5. /\ v \in Routing
      /\ \A n \in ts : host[n] \in RouteHosts => v[host[n]] = SvcRoute(n)
      /\ \A h \in RouteHosts : (\A n \in ts : host[n] # h) => v[h] = rt[h]
  <2>1. SvcClaimed(v, rt, host)
    BY <1>1, <1>3, <1>4, ServicesClaim
  <2> QED BY <1>3, <2>1 DEF SvcClaimed
<1>6. ASSUME NEW h \in RouteHosts, NEW n \in Names, v[h] = SvcRoute(n)
      PROVE  u[n] # NoSlot /\ u[n].def.host = h /\ (Wants(u, n) \/ n \in left2)
  <2>1. CASE \E m \in ts : host[m] = h
    <3>1. PICK m \in ts : host[m] = h
      BY <2>1
    <3>2. SvcRoute(n) = SvcRoute(m)
      BY <1>5, <1>6, <3>1
    <3>3. m = n
      BY <3>2, RouteFields
    <3> QED BY <1>2, <3>1, <3>3 DEF SameTable
  <2>2. CASE \A m \in ts : host[m] # h
    <3>1. rt[h] = SvcRoute(n)
      BY <1>5, <1>6, <2>2
    <3>2. s[n] # NoSlot /\ s[n].def.host = h /\ (Wants(s, n) \/ n \in left) /\ up
      BY <3>1 DEF RouteInv
    <3> QED BY <3>2 DEF SameTable
  <2> QED BY <2>1, <2>2
<1>7. ASSUME NEW n \in Names, Wants(u, n), u[n].def.host \in RouteHosts
      PROVE  v[u[n].def.host] = SvcRoute(n) \/ n \in losing
  <2>1. s[n] # NoSlot /\ u[n].def.host = s[n].def.host
    BY <1>7 DEF SameTable, Wants
  <2>2. CASE n \in ts
    BY <1>2, <1>5, <1>7, <2>1, <2>2
  <2>3. CASE n \notin ts
    <3>1. Wants(s, n) /\ up
      BY <1>7, <2>3
    <3>2. rt[s[n].def.host] = SvcRoute(n) \/ n \in losing
      BY <1>7, <2>1, <3>1 DEF RouteInv
    <3>3. \A m \in ts : host[m] # s[n].def.host
      BY <1>2, <1>7, <2>1, <2>3, OneService
    <3> QED BY <1>5, <1>7, <2>1, <3>2, <3>3
  <2> QED BY <2>2, <2>3
<1> QED BY <1>5, <1>6, <1>7 DEF RouteInv

\* after services lost their routes,
Drops(s, u, ds) ==
    /\ ds \in SUBSET Names /\ \A n \in ds : s[n] # NoSlot
    /\ \A n \in Names \ ds : s[n] # NoSlot => u[n] # NoSlot /\ u[n].def.host = s[n].def.host
    /\ \A n \in Names : Wants(u, n) <=> Wants(s, n) /\ n \notin ds
LEMMA RoutesReleased ==
  ASSUME HostsApart, NEW s, SlotsFit(s), NEW u, NEW ds, Drops(s, u, ds),
         NEW rt, NEW left, NEW losing, RouteInv(rt, s, left, losing, TRUE),
         NEW v, v = Release(rt, "service", {s[n].def.host : n \in ds})
  PROVE  RouteInv(v, u, left, losing, TRUE)
<1> DEFINE hosts == {s[n].def.host : n \in ds}
<1>1. rt \in Routing
  BY DEF RouteInv
<1>2. /\ v \in Routing
      /\ \A h \in RouteHosts : v[h] \in {rt[h], Free}
      /\ \A h \in RouteHosts : v[h] = rt[h] \/ h \in hosts
      /\ \A h \in RouteHosts : h \in hosts /\ rt[h] # Free /\ rt[h].source = "service" => v[h] = Free
  BY <1>1, Released
<1>0. /\ ds \in SUBSET Names /\ \A n \in ds : s[n] # NoSlot
      /\ \A n \in Names \ ds : s[n] # NoSlot => u[n] # NoSlot /\ u[n].def.host = s[n].def.host
      /\ \A n \in Names : Wants(u, n) <=> Wants(s, n) /\ n \notin ds
  BY DEF Drops
<1>3. ASSUME NEW h \in RouteHosts, NEW n \in Names, v[h] = SvcRoute(n)
      PROVE  u[n] # NoSlot /\ u[n].def.host = h /\ (Wants(u, n) \/ n \in left)
  <2>1. v[h] # Free /\ rt[h] = SvcRoute(n)
    BY <1>2, <1>3, RouteFields
  <2>2. h \notin hosts
    BY <1>2, <2>1, RouteFields
  <2>3. s[n] # NoSlot /\ s[n].def.host = h /\ (Wants(s, n) \/ n \in left)
    BY <2>1 DEF RouteInv
  <2>4. n \notin ds
    BY <2>2, <2>3
  <2> QED BY <1>0, <2>3, <2>4
<1>4. ASSUME NEW n \in Names, Wants(u, n), u[n].def.host \in RouteHosts
      PROVE  v[u[n].def.host] = SvcRoute(n) \/ n \in losing
  <2>1. Wants(s, n) /\ n \notin ds
    BY <1>0, <1>4
  <2>2. s[n] # NoSlot /\ u[n].def.host = s[n].def.host
    BY <1>0, <2>1 DEF Wants
  <2>3. rt[s[n].def.host] = SvcRoute(n) \/ n \in losing
    BY <1>4, <2>1, <2>2 DEF RouteInv
  <2>4. s[n].def.host \notin hosts
    BY <1>0, <1>4, <2>1, <2>2, OneService
  <2> QED BY <1>2, <1>4, <2>1, <2>2, <2>3, <2>4
<1> QED BY <1>2, <1>3, <1>4 DEF RouteInv

\* and with another table of the same services.
LEMMA RoutesKept ==
  ASSUME NEW s, NEW u, SameTable(s, u), \A n \in Names : Wants(u, n) => Wants(s, n),
         NEW rt, NEW left, NEW losing, NEW up \in BOOLEAN, RouteInv(rt, s, left, losing, up),
         NEW left2, NEW losing2,
         \A n \in Names : s[n] # NoSlot /\ (Wants(s, n) \/ n \in left) => Wants(u, n) \/ n \in left2,
         \A n \in losing : Wants(u, n) => n \in losing2
  PROVE  RouteInv(rt, u, left2, losing2, up)
<1>1. ASSUME NEW h \in RouteHosts, NEW n \in Names, rt[h] = SvcRoute(n)
      PROVE  u[n] # NoSlot /\ u[n].def.host = h /\ (Wants(u, n) \/ n \in left2) /\ up
  BY <1>1 DEF RouteInv, SameTable
<1>2. ASSUME up, NEW n \in Names, Wants(u, n), u[n].def.host \in RouteHosts
      PROVE  rt[u[n].def.host] = SvcRoute(n) \/ n \in losing2
  <2>1. Wants(s, n) /\ s[n] # NoSlot /\ u[n].def.host = s[n].def.host
    BY <1>2 DEF SameTable, Wants
  <2>2. rt[s[n].def.host] = SvcRoute(n) \/ n \in losing
    BY <1>2, <2>1 DEF RouteInv
  <2> QED BY <1>2, <2>1, <2>2
<1>3. rt \in Routing
  BY DEF RouteInv
<1> QED BY <1>1, <1>2, <1>3 DEF RouteInv

\* The egress routes' side: services that come up meet none of them,
LEMMA EgressBrought ==
  ASSUME HostsApart, NEW s, SlotsFit(s), NEW ts \in SUBSET Names, \A n \in ts : s[n] # NoSlot,
         NEW t, EgressFits(t), MeetInv(s, t, {}),
         NEW rt \in Routing, NEW moving, NEW from, EgrInv(rt, t, moving, from),
         NEW v, v = Claim(rt, "service", [n \in ts |-> s[n].def.host])
  PROVE  EgrInv(v, t, moving, from)
<1> DEFINE host == [n \in ts |-> s[n].def.host]
<1>1. Distinct(host)
  BY OneService DEF Distinct
<1>2. \A n \in ts : host[n] = s[n].def.host
  OBVIOUS
<1>3. DOMAIN host = ts /\ rt \in Routing /\ DOMAIN host \subseteq Names
  OBVIOUS
<1>4. v = Claim(rt, "service", host)
  OBVIOUS
<1> HIDE DEF host
<1>5. /\ v \in Routing
      /\ \A n \in ts : host[n] \in RouteHosts => v[host[n]] = SvcRoute(n)
      /\ \A h \in RouteHosts : (\A n \in ts : host[n] # h) => v[h] = rt[h]
  <2>1. SvcClaimed(v, rt, host)
    BY <1>1, <1>3, <1>4, ServicesClaim
  <2> QED BY <1>3, <2>1 DEF SvcClaimed
<1>6. ASSUME NEW h \in RouteHosts, NEW e \in EgressNames, v[h] = EgrRoute(e) PROVE rt[h] = EgrRoute(e)
  <2>1. \A n \in ts : host[n] # h
    BY <1>5, <1>6, RouteFields
  <2> QED BY <1>5, <1>6, <2>1
<1>7. ASSUME NEW e \in EgressNames, t[e] # NoEgress, t[e].host \in RouteHosts PROVE v[t[e].host] = rt[t[e].host]
  <2>1. \A n \in ts : host[n] # t[e].host
    BY <1>2, <1>7 DEF MeetInv
  <2> QED BY <1>5, <1>7, <2>1
<1> QED BY <1>6, <1>7 DEF EgrInv

\* those that lose their routes leave them alone,
LEMMA EgressUnreleased ==
  ASSUME NEW t, NEW rt \in Routing, NEW moving, NEW from, EgrInv(rt, t, moving, from),
         NEW hosts, NEW v, v = Release(rt, "service", hosts)
  PROVE  EgrInv(v, t, moving, from)
<1>1. /\ \A h \in RouteHosts : v[h] \in {rt[h], Free}
      /\ \A h \in RouteHosts : v[h] = rt[h] \/ (h \in hosts /\ rt[h].source = "service")
  BY Released
<1>2. ASSUME NEW h \in RouteHosts, NEW e \in EgressNames, v[h] = EgrRoute(e) PROVE rt[h] = EgrRoute(e)
  BY <1>1, <1>2, RouteFields
<1>3. ASSUME NEW h \in RouteHosts, NEW e \in EgressNames, rt[h] = EgrRoute(e) PROVE v[h] = EgrRoute(e)
  BY <1>1, <1>3, RouteFields
<1> QED BY <1>2, <1>3 DEF EgrInv

\* a commit changes what they should be,
CommitsTo(t, v, f) ==
    /\ \A e \in DOMAIN f.egress : t[e] # NoEgress => t[e].root = f.root
    /\ \A e \in DOMAIN f.egress : v[e] # NoEgress /\ v[e].root = f.root /\ v[e].host = f.egress[e].host
    /\ \A e \in EgressNames \ DOMAIN f.egress : v[e] # NoEgress => v[e] = t[e] /\ t[e].root # f.root
    /\ \A e \in EgressNames \ DOMAIN f.egress : t[e] # NoEgress /\ t[e].root # f.root => v[e] = t[e]
MovedOf(t, f) == {e \in EgressNames : /\ t[e] # NoEgress /\ t[e].root = f.root
                                      /\ e \notin DOMAIN f.egress \/ f.egress[e].host # t[e].host}
HostsLeft(t, f) == {t[e].host : e \in MovedOf(t, f)}
LEMMA EgressCommitted ==
  ASSUME NEW t, EgressFits(t), NEW f \in Files, NEW v, CommitsTo(t, v, f), NEW rt, EgrInv(rt, t, {}, {})
  PROVE  EgrInv(rt, v, {f.root}, HostsLeft(t, f))
<1>1. DOMAIN f.egress \subseteq EgressNames
  BY SyncAssumption DEF IsFile
<1>2. ASSUME NEW h \in RouteHosts, NEW e \in EgressNames, rt[h] = EgrRoute(e)
      PROVE  (v[e] # NoEgress /\ v[e].host = h) \/ h \in HostsLeft(t, f)
  <2>1. t[e] # NoEgress /\ t[e].host = h
    BY <1>2 DEF EgrInv
  <2>2. CASE e \in DOMAIN f.egress
    BY <2>1, <2>2, <1>1 DEF CommitsTo, HostsLeft, MovedOf
  <2>3. CASE e \notin DOMAIN f.egress
    BY <2>1, <2>3 DEF CommitsTo, HostsLeft, MovedOf
  <2> QED BY <2>2, <2>3
<1>3. ASSUME NEW e \in EgressNames, v[e] # NoEgress, v[e].host \in RouteHosts
      PROVE  rt[v[e].host] = EgrRoute(e) \/ v[e].root \in {f.root}
  <2>1. CASE e \in DOMAIN f.egress
    BY <2>1 DEF CommitsTo
  <2>2. CASE e \notin DOMAIN f.egress
    BY <1>3, <2>2 DEF EgrInv, CommitsTo
  <2> QED BY <2>1, <2>2
<1> QED BY <1>2, <1>3 DEF EgrInv

\* and the announcement makes them so.
LEMMA EgressAnnounced ==
  ASSUME HostsApart, NEW t, EgressFits(t), NEW b, NEW f \in Files, TablesOf(b, t, f),
         NEW from, \A h \in from : \E g \in Files : g.root = f.root /\ h \in HostsOfFile(g),
         NEW rt \in Routing, EgrInv(rt, t, {f.root}, from),
         NEW v, v = Claim(Release(rt, "egress", from), "egress", [e \in DOMAIN f.egress |-> f.egress[e].host])
  PROVE  EgrInv(v, t, {}, {})
<1> DEFINE host == [e \in DOMAIN f.egress |-> f.egress[e].host]
           u == Release(rt, "egress", from)
<1>1. IsFile(f) /\ DOMAIN f.egress \subseteq EgressNames
  BY SyncAssumption DEF IsFile
<1>2. Distinct(host)
  BY <1>1 DEF IsFile, Distinct
<1>3. \A e \in DOMAIN f.egress : host[e] = f.egress[e].host /\ host[e] \in HostsOfFile(f)
  BY DEF HostsOfFile
<1>4. /\ u \in Routing
      /\ \A h \in RouteHosts : u[h] \in {rt[h], Free}
      /\ \A h \in RouteHosts : u[h] = rt[h] \/ (h \in from /\ rt[h].source = "egress")
      /\ \A h \in RouteHosts : h \in from /\ rt[h] # Free /\ rt[h].source = "egress" => u[h] = Free
  BY Released
<1>5. DOMAIN host = DOMAIN f.egress /\ DOMAIN host \subseteq EgressNames /\ v = Claim(u, "egress", host)
  BY <1>1
<1> HIDE DEF host, u
<1>6. /\ v \in Routing
      /\ \A e \in DOMAIN f.egress : host[e] \in RouteHosts => v[host[e]] = EgrRoute(e)
      /\ \A h \in RouteHosts : (\A e \in DOMAIN f.egress : host[e] # h) => v[h] = u[h]
  <2>1. EgrClaimed(v, u, host)
    BY <1>2, <1>4, <1>5, EgressClaim
  <2> QED BY <1>5, <2>1 DEF EgrClaimed
<1>7. \A e \in DOMAIN f.egress : e \in EgressNames /\ t[e] # NoEgress /\ t[e].root = f.root /\ t[e].host = host[e]
  BY <1>1, <1>3 DEF TablesOf
<1>8. ASSUME NEW h \in RouteHosts, NEW e \in EgressNames, v[h] = EgrRoute(e)
      PROVE  t[e] # NoEgress /\ t[e].host = h
  <2>1. CASE \E d \in DOMAIN f.egress : host[d] = h
    <3>1. PICK d \in DOMAIN f.egress : host[d] = h
      BY <2>1
    <3>2. EgrRoute(d) = EgrRoute(e)
      BY <1>6, <1>8, <3>1
    <3>3. d = e
      BY <1>7, <3>2, RouteFields
    <3> QED BY <1>7, <3>1, <3>3
  <2>2. CASE \A d \in DOMAIN f.egress : host[d] # h
    <3>1. u[h] = EgrRoute(e)
      BY <1>6, <1>8, <2>2
    <3>2. rt[h] = EgrRoute(e) /\ h \notin from
      BY <1>4, <3>1, RouteFields
    <3> QED BY <3>2 DEF EgrInv
  <2> QED BY <2>1, <2>2
<1>9. ASSUME NEW e \in EgressNames, t[e] # NoEgress, t[e].host \in RouteHosts
      PROVE  v[t[e].host] = EgrRoute(e)
  <2>1. CASE t[e].root = f.root
    <3>1. e \in DOMAIN f.egress
      BY <1>9, <2>1 DEF TablesOf
    <3> QED BY <1>6, <1>7, <1>9, <3>1
  <2>2. CASE t[e].root # f.root
    <3>1. t[e].root \in Roots
      BY <1>9, EgressFields DEF EgressFits
    <3>2. PICK g \in Files : g.root = t[e].root /\ t[e].host \in HostsOfFile(g)
      BY <1>9, <3>1, EgressOfFile
    <3>3. t[e].host \notin from
      BY <1>9, <2>2, <3>2 DEF HostsApart
    <3>4. \A d \in DOMAIN f.egress : host[d] # t[e].host
      BY <1>3, <1>9, <2>2, <3>2 DEF HostsApart
    <3>5. rt[t[e].host] = EgrRoute(e)
      BY <1>9, <2>2 DEF EgrInv
    <3> QED BY <1>4, <1>6, <1>9, <3>3, <3>4, <3>5
  <2> QED BY <2>1, <2>2
<1> QED BY <1>8, <1>9 DEF EgrInv

\* An announcement takes hosts from services that are stopped next.
LEMMA RoutesAnnounced ==
  ASSUME HostsApart, NEW s, SlotsFit(s), NEW f \in Files, NoForeign(s, f),
         NEW losing, losing = Changed(s, f) \cup Gone(s, f),
         NEW rt, RouteInv(rt, s, {}, {}, TRUE), NEW from,
         NEW v, v = Claim(Release(rt, "egress", from), "egress", [e \in DOMAIN f.egress |-> f.egress[e].host]),
         NEW left
  PROVE  RouteInv(v, s, left, losing, TRUE)
<1> DEFINE host == [e \in DOMAIN f.egress |-> f.egress[e].host]
           u == Release(rt, "egress", from)
<1>1. IsFile(f) /\ DOMAIN f.egress \subseteq EgressNames
  BY SyncAssumption DEF IsFile
<1>2. Distinct(host)
  BY <1>1 DEF IsFile, Distinct
<1>3. \A e \in DOMAIN f.egress : host[e] = f.egress[e].host /\ host[e] \in HostsOfFile(f)
  BY DEF HostsOfFile
<1>4. rt \in Routing
  BY DEF RouteInv
<1>5. /\ u \in Routing
      /\ \A h \in RouteHosts : u[h] \in {rt[h], Free}
      /\ \A h \in RouteHosts : u[h] = rt[h] \/ (h \in from /\ rt[h].source = "egress")
  BY <1>4, Released
<1>6. DOMAIN host = DOMAIN f.egress /\ DOMAIN host \subseteq EgressNames /\ v = Claim(u, "egress", host)
  BY <1>1
<1> HIDE DEF host, u
<1>7. /\ v \in Routing
      /\ \A e \in DOMAIN f.egress : host[e] \in RouteHosts => v[host[e]] = EgrRoute(e)
      /\ \A h \in RouteHosts : (\A e \in DOMAIN f.egress : host[e] # h) => v[h] = u[h]
  <2>1. EgrClaimed(v, u, host)
    BY <1>2, <1>5, <1>6, EgressClaim
  <2> QED BY <1>6, <2>1 DEF EgrClaimed
<1>8. ASSUME NEW h \in RouteHosts, NEW n \in Names, v[h] = SvcRoute(n)
      PROVE  s[n] # NoSlot /\ s[n].def.host = h /\ Wants(s, n)
  <2>1. \A e \in DOMAIN f.egress : host[e] # h
    BY <1>7, <1>8, RouteFields
  <2>2. rt[h] = SvcRoute(n)
    BY <1>5, <1>7, <1>8, <2>1, RouteFields
  <2> QED BY <2>2 DEF RouteInv
<1>9. ASSUME NEW n \in Names, Wants(s, n), s[n].def.host \in RouteHosts, n \notin losing
      PROVE  v[s[n].def.host] = SvcRoute(n)
  <2>1. s[n] # NoSlot /\ rt[s[n].def.host] = SvcRoute(n)
    BY <1>9 DEF RouteInv, Wants
  <2>2. u[s[n].def.host] = SvcRoute(n)
    BY <1>5, <1>9, <2>1, RouteFields
  <2>3. ASSUME NEW e \in DOMAIN f.egress, host[e] = s[n].def.host PROVE FALSE
    <3>1. CASE s[n].root = f.root
      <4>1. n \in DOMAIN f.services /\ s[n].def = f.services[n]
        BY <1>9, <2>1, <3>1 DEF Changed, Gone, HeldOf
      <4>2. f.services[n].host = f.egress[e].host /\ f.egress[e].host \in RouteHosts
        BY <1>3, <1>9, <2>3, <4>1
      <4> QED BY <1>1, <4>1, <4>2 DEF IsFile
    <3>2. CASE s[n].root # f.root
      <4>1. s[n].root \in Roots
        BY <2>1, SlotFields DEF SlotsFit
      <4>2. PICK g \in Files : g.root = s[n].root /\ s[n].def.host \in HostsOfFile(g)
        BY <2>1, <4>1, ServiceOfFile
      <4> QED BY <1>3, <1>9, <2>3, <3>2, <4>2 DEF HostsApart
    <3> QED BY <3>1, <3>2
  <2> QED BY <1>7, <1>9, <2>2, <2>3
<1> QED BY <1>7, <1>8, <1>9 DEF RouteInv

\* A restart registers the egress routes of the file, and nothing else.
LEMMA RoutesRestored ==
  ASSUME HostsApart, NEW t, EgressFits(t), NEW s,
         NEW v, v = Claim([h \in RouteHosts |-> Free], "egress",
                          [e \in {d \in EgressNames : t[d] # NoEgress} |-> t[e].host])
  PROVE  RouteInv(v, s, {}, {}, FALSE) /\ EgrInv(v, t, {}, {})
<1> DEFINE host == [e \in {d \in EgressNames : t[d] # NoEgress} |-> t[e].host]
           rt == [h \in RouteHosts |-> Free]
           ts == {d \in EgressNames : t[d] # NoEgress}
<1>1. Distinct(host)
  BY OneEgress DEF Distinct
<1>2. \A e \in ts : host[e] = t[e].host
  OBVIOUS
<1>3. DOMAIN host = ts /\ DOMAIN host \subseteq EgressNames /\ rt \in Routing /\ v = Claim(rt, "egress", host)
  BY DEF Routing
<1>4. \A h \in RouteHosts : rt[h] = Free
  OBVIOUS
<1>5. \A e \in EgressNames : e \in ts <=> t[e] # NoEgress
  OBVIOUS
<1> HIDE DEF host, rt, ts
<1>6. /\ v \in Routing
      /\ \A e \in ts : host[e] \in RouteHosts => v[host[e]] = EgrRoute(e)
      /\ \A h \in RouteHosts : (\A e \in ts : host[e] # h) => v[h] = rt[h]
  <2>1. EgrClaimed(v, rt, host)
    BY <1>1, <1>3, EgressClaim
  <2> QED BY <1>3, <2>1 DEF EgrClaimed
<1>7. ASSUME NEW h \in RouteHosts, NEW n \in Names PROVE v[h] # SvcRoute(n)
  BY <1>4, <1>6, RouteFields
<1>8. ASSUME NEW h \in RouteHosts, NEW e \in EgressNames, v[h] = EgrRoute(e) PROVE t[e] # NoEgress /\ t[e].host = h
  <2>1. PICK d \in ts : host[d] = h
    BY <1>4, <1>6, <1>8, RouteFields
  <2>2. EgrRoute(d) = EgrRoute(e) /\ d \in EgressNames
    BY <1>3, <1>6, <1>8, <2>1
  <2>3. d = e
    BY <2>2, RouteFields
  <2> QED BY <1>2, <1>5, <2>1, <2>3
<1>9. ASSUME NEW e \in EgressNames, t[e] # NoEgress, t[e].host \in RouteHosts PROVE v[t[e].host] = EgrRoute(e)
  BY <1>2, <1>5, <1>6, <1>9
<1> QED BY <1>6, <1>7, <1>8, <1>9 DEF RouteInv, EgrInv

\* Services and egress routes meet on a host only inside one root.
LEMMA MeetSame ==
  ASSUME NEW s, NEW u, NEW t, NEW roots, MeetInv(s, t, roots), NEW roots2, roots \subseteq roots2,
         \A n \in Names : u[n] # NoSlot => s[n] # NoSlot /\ u[n].root = s[n].root /\ u[n].def = s[n].def
  PROVE  MeetInv(u, t, roots2)
  BY DEF MeetInv

LEMMA MeetCommitted ==
  ASSUME HostsApart, NEW s, SlotsFit(s), NEW t, MeetInv(s, t, {}), NEW f \in Files, NEW v, CommitsTo(t, v, f)
  PROVE  MeetInv(s, v, {f.root})
<1> SUFFICES ASSUME NEW n \in Names, NEW e \in EgressNames, s[n] # NoSlot, v[e] # NoEgress,
                    s[n].def.host = v[e].host, v[e].host \in RouteHosts
             PROVE  s[n].root = f.root
  BY DEF MeetInv
<1>1. CASE e \notin DOMAIN f.egress
  BY <1>1 DEF MeetInv, CommitsTo
<1>2. CASE e \in DOMAIN f.egress
  <2>1. s[n].root \in Roots
    BY SlotFields DEF SlotsFit
  <2>2. PICK g \in Files : g.root = s[n].root /\ s[n].def.host \in HostsOfFile(g)
    BY <2>1, ServiceOfFile
  <2>3. v[e].host \in HostsOfFile(f)
    BY <1>2 DEF HostsOfFile, CommitsTo
  <2> QED BY <2>2, <2>3 DEF HostsApart
<1> QED BY <1>1, <1>2

LEMMA MeetReplaced ==
  ASSUME HostsApart, NEW s, NEW t, EgressFits(t), NEW b, NEW f \in Files, TablesOf(b, t, f), MeetInv(s, t, {f.root}),
         NEW u,
         \A n \in DOMAIN f.services : u[n] # NoSlot /\ u[n].root = f.root /\ u[n].def = f.services[n],
         \A n \in Names \ DOMAIN f.services : u[n] # NoSlot => u[n] = s[n] /\ s[n].root # f.root
  PROVE  MeetInv(u, t, {})
<1> SUFFICES ASSUME NEW n \in Names, NEW e \in EgressNames, u[n] # NoSlot, t[e] # NoEgress,
                    u[n].def.host = t[e].host, t[e].host \in RouteHosts
             PROVE  FALSE
  BY DEF MeetInv
<1>1. n \in DOMAIN f.services
  BY DEF MeetInv
<1>2. f.services[n].host = t[e].host
  BY <1>1
<1>3. CASE t[e].root = f.root
  <2>1. e \in DOMAIN f.egress /\ t[e].host = f.egress[e].host
    BY <1>3 DEF TablesOf
  <2>2. IsFile(f)
    BY SyncAssumption
  <2> QED BY <1>1, <1>2, <2>1, <2>2 DEF IsFile
<1>4. CASE t[e].root # f.root
  <2>1. t[e].root \in Roots
    BY EgressFields DEF EgressFits
  <2>2. PICK g \in Files : g.root = t[e].root /\ t[e].host \in HostsOfFile(g)
    BY <2>1, EgressOfFile
  <2>3. t[e].host \in HostsOfFile(f)
    BY <1>1, <1>2 DEF HostsOfFile
  <2> QED BY <1>4, <2>2, <2>3 DEF HostsApart
<1> QED BY <1>3, <1>4

-----------------------------------------------------------------------------
(* What a request knows stays true beside other commands, and step by step.  *)

LEMMA JobFields ==
  ASSUME NEW j \in JobType
  PROVE  /\ j.pc \in Pcs /\ j.file \in Files \cup {Idle} /\ j.stop \in SUBSET Names /\ j.restart \in SUBSET Names
         /\ j.moved \in SUBSET EgressHosts /\ j.wanted \in SUBSET Names
         /\ j = [pc |-> j.pc, file |-> j.file, stop |-> j.stop, restart |-> j.restart, moved |-> j.moved, wanted |-> j.wanted]
  BY DEF JobType

LEMMA NoJobInv ==
  ASSUME NEW s, NEW b, NEW t, NEW tc
  PROVE  JobInv(NoJob, s, b, t, tc) /\ NoJob.pc = "none"
<1>1. NoJob.pc = "none"
  BY DEF NoJob
<1>2. NoJob \in JobType
  BY DEF NoJob, JobType, Pcs
<1>3. ~Replaced(NoJob)
  BY <1>1 DEF Replaced
<1> QED BY <1>1, <1>2, <1>3 DEF JobInv

LEMMA JobLowered ==
  ASSUME NEW j, NEW s, NEW b, NEW t, NEW tc, JobInv(j, s, b, t, tc),
         NEW u, SameTable(s, u), \A n \in Names : Wants(u, n) => Wants(s, n),
         NEW tc2, tc \subseteq tc2, \A n \in Names : Wants(s, n) /\ n \notin tc2 => Wants(u, n)
  PROVE  JobInv(j, u, b, t, tc2)
<1>1. j \in JobType /\ j.wanted \subseteq Names /\ j.stop \subseteq Names
  BY JobFields DEF JobInv
<1>2. j.pc = "classify" => \A n \in j.wanted \ tc2 : Wants(u, n)
  BY <1>1 DEF JobInv
<1>3. ASSUME j.pc \in {"commit", "announce", "stop", "replace"} PROVE StopsFit(j, u, tc2)
  <2>1. StopsFit(j, s, tc) /\ j.file \in Files
    BY <1>3 DEF JobInv
  <2>2. Changed(u, j.file) = Changed(s, j.file) /\ Gone(u, j.file) = Gone(s, j.file)
        /\ (NoForeign(s, j.file) => NoForeign(u, j.file))
    BY <2>1, SameSets
  <2>3. Changed(s, j.file) \subseteq Names /\ Gone(s, j.file) \subseteq Names
    BY <2>1, SyncAssumption DEF Changed, Gone, HeldOf, IsFile
  <2> QED BY <1>1, <2>1, <2>2, <2>3 DEF StopsFit
<1>4. ASSUME Replaced(j) PROVE RestartsFit(j, u, tc2)
  <2>1. RestartsFit(j, s, tc) /\ j.file \in Files
    BY <1>1, <1>4, JobFields DEF JobInv, Replaced
  <2>2. SlotsOf(s, j.file) => SlotsOf(u, j.file)
    BY <2>1, SameSets
  <2> QED BY <1>1, <2>1, <2>2 DEF RestartsFit
<1>5. ASSUME j.pc = "forget" PROVE ForgetFit(j, u)
  <2>1. ForgetFit(j, s)
    BY <1>5 DEF JobInv
  <2>2. \A n \in Names : (u[n] # NoSlot <=> s[n] # NoSlot) /\ (u[n] # NoSlot => u[n].def = s[n].def)
    BY DEF SameTable
  <2>3. j.restart \subseteq Names
    BY <1>1, JobFields
  <2> QED BY <2>1, <2>2, <2>3 DEF ForgetFit
<1> QED BY <1>1, <1>2, <1>3, <1>4, <1>5 DEF JobInv

LEMMA JobEdited ==
  ASSUME NEW j, NEW s, NEW b, NEW t, NEW tc, JobInv(j, s, b, t, tc),
         NEW c, \A x \in SecretNames, r \in Roots : b[x] = r <=> c[x] = r
  PROVE  JobInv(j, s, c, t, tc)
<1>1. ASSUME NEW f \in Files, TablesOf(b, t, f) PROVE TablesOf(c, t, f)
  <2>1. f.root \in Roots
    BY DEF Roots
  <2>2. {x \in SecretNames : c[x] = f.root} = {x \in SecretNames : b[x] = f.root}
    BY <2>1
  <2> QED BY <1>1, <2>2 DEF TablesOf
<1>2. j.pc \in {"announce", "stop", "replace"} \/ Replaced(j) => j.file \in Files
  BY JobFields DEF JobInv, Replaced
<1> QED BY <1>1, <1>2 DEF JobInv

LEMMA BeginFits ==
  ASSUME NEW f \in Files, NEW s, NEW b, NEW t, NEW tc, NEW wanted \in SUBSET Names,
         \A n \in wanted : Wants(s, n),
         NEW k, k = [pc |-> "classify", file |-> f, stop |-> {}, restart |-> {}, moved |-> {}, wanted |-> wanted]
  PROVE  JobInv(k, s, b, t, tc) /\ k.pc = "classify"
<1>1. k \in JobType
  BY DEF JobType, Pcs
<1>2. k.pc = "classify" /\ k.file = f /\ k.wanted = wanted
  OBVIOUS
<1>3. ~Replaced(k)
  BY <1>2 DEF Replaced
<1> QED BY <1>1, <1>2, <1>3 DEF JobInv

LEMMA ClassifyFits ==
  ASSUME NEW j, NEW s, NEW b, NEW t, NEW tc, JobInv(j, s, b, t, tc), j.pc = "classify",
         NoForeign(s, j.file),
         NEW k \in JobType, k.pc = "commit", k.file = j.file, k.wanted = j.wanted,
         k.stop = Changed(s, j.file) \cup Gone(s, j.file),
         k.restart = {n \in Changed(s, j.file) : Wants(s, n)}
  PROVE  JobInv(k, s, b, t, tc)
<1>1. ~Replaced(k)
  BY DEF Replaced
<1>2. k.file \in Files
  BY DEF JobInv
<1>3. StopsFit(k, s, tc)
  BY DEF StopsFit, JobInv
<1> QED BY <1>1, <1>2, <1>3 DEF JobInv

LEMMA CommitFits ==
  ASSUME NEW j, NEW s, NEW b, NEW t, NEW tc, JobInv(j, s, b, t, tc), j.pc = "commit",
         NEW c, NEW v, TablesOf(c, v, j.file),
         NEW k \in JobType, k.pc = "announce", k.file = j.file, k.wanted = j.wanted, k.stop = j.stop, k.restart = j.restart,
         MovedFit(k)
  PROVE  JobInv(k, s, c, v, tc)
<1>1. ~Replaced(k)
  BY DEF Replaced
<1>2. k.file \in Files
  BY DEF JobInv
<1>3. StopsFit(k, s, tc)
  BY DEF StopsFit, JobInv
<1> QED BY <1>1, <1>2, <1>3 DEF JobInv

LEMMA AnnounceFits ==
  ASSUME NEW j, NEW s, NEW b, NEW t, NEW tc, JobInv(j, s, b, t, tc),
         NEW k \in JobType, k.file = j.file, k.wanted = j.wanted, k.stop = j.stop, k.restart = j.restart,
         \/ j.pc = "announce" /\ k.pc = "stop"
         \/ j.pc = "stop" /\ j.stop = {} /\ k.pc = "replace"
  PROVE  JobInv(k, s, b, t, tc)
<1>1. ~Replaced(k)
  BY DEF Replaced
<1>2. k.file \in Files /\ TablesOf(b, t, k.file)
  BY DEF JobInv
<1>3. StopsFit(k, s, tc)
  BY DEF StopsFit, JobInv
<1> QED BY <1>1, <1>2, <1>3 DEF JobInv

LEMMA StopFits ==
  ASSUME NEW j, NEW s, NEW b, NEW t, NEW tc, JobInv(j, s, b, t, tc), j.pc = "stop",
         NEW n \in j.stop,
         NEW u, SameTable(s, u), \A m \in Names : Wants(u, m) <=> Wants(s, m) /\ m # n,
         NEW k \in JobType, k.pc = "stop", k.file = j.file, k.wanted = j.wanted, k.stop = j.stop \ {n}, k.restart = j.restart
  PROVE  JobInv(k, u, b, t, tc)
<1>1. ~Replaced(k)
  BY DEF Replaced
<1>2. k.file \in Files /\ TablesOf(b, t, k.file) /\ StopsFit(j, s, tc) /\ j.wanted \subseteq Names /\ j.file \in Files
  BY JobFields DEF JobInv
<1>3. Changed(u, j.file) = Changed(s, j.file) /\ Gone(u, j.file) = Gone(s, j.file)
      /\ (NoForeign(s, j.file) => NoForeign(u, j.file))
  BY <1>2, SameSets
<1>4. Changed(s, j.file) \subseteq Names /\ Gone(s, j.file) \subseteq Names
  BY <1>2, SyncAssumption DEF Changed, Gone, HeldOf, IsFile
<1>5. StopsFit(k, u, tc)
  <2>1. \A m \in (Changed(s, j.file) \cup Gone(s, j.file)) \ (j.stop \ {n}) : ~Wants(u, m)
    BY <1>2, <1>4 DEF StopsFit
  <2>2. \A m \in Changed(s, j.file) : Wants(u, m) => m \in j.restart
    BY <1>2, <1>4 DEF StopsFit
  <2>3. \A m \in j.wanted \ tc : Wants(u, m) \/ m \in j.restart \/ m \in Gone(s, j.file)
    BY <1>2, <1>4 DEF StopsFit
  <2> QED BY <1>2, <1>3, <2>1, <2>2, <2>3 DEF StopsFit
<1> QED BY <1>1, <1>2, <1>5 DEF JobInv

LEMMA ReplaceFits ==
  ASSUME NEW j, NEW s, NEW b, NEW t, NEW tc, JobInv(j, s, b, t, tc), j.pc = "replace",
         NEW u, SlotsOf(u, j.file), \A n \in Names : Wants(u, n) <=> Wants(s, n) /\ n \notin Gone(s, j.file),
         NEW k \in JobType, k.pc = "save", k.file = j.file, k.wanted = j.wanted, k.restart = j.restart
  PROVE  JobInv(k, u, b, t, tc)
<1>1. k.file \in Files /\ TablesOf(b, t, k.file) /\ StopsFit(j, s, tc) /\ j.wanted \subseteq Names
  BY JobFields DEF JobInv
<1>2. j.restart \subseteq DOMAIN j.file.services
  BY <1>1 DEF StopsFit, Changed
<1>3. \A n \in DOMAIN j.file.services : n \notin Gone(s, j.file)
  BY DEF Gone
<1>4. RestartsFit(k, u, tc)
  BY <1>1, <1>2, <1>3 DEF RestartsFit, StopsFit
<1> QED BY <1>1, <1>4 DEF JobInv

LEMMA SaveFits ==
  ASSUME NEW j, NEW s, NEW b, NEW t, NEW tc, JobInv(j, s, b, t, tc), j.pc = "save", j.file # Idle,
         NEW k \in JobType, k.pc = "restart", k.file = j.file, k.wanted = j.wanted, k.restart = j.restart
  PROVE  JobInv(k, s, b, t, tc)
<1>1. k.file \in Files
  BY JobFields DEF JobInv
<1>2. TablesOf(b, t, k.file) /\ RestartsFit(k, s, tc)
  BY DEF JobInv, RestartsFit, Replaced
<1> QED BY <1>1, <1>2 DEF JobInv

LEMMA RestartFits ==
  ASSUME NEW j, NEW s, NEW b, NEW t, NEW tc, JobInv(j, s, b, t, tc), j.pc = "restart",
         NEW n \in j.restart, NEW ts \in SUBSET Names, s[n] # NoSlot => n \in ts,
         NEW u, SameTable(s, u), \A m \in Names : Wants(u, m) <=> Wants(s, m) \/ m \in ts,
         NEW k \in JobType, k.pc = "restart", k.file = j.file, k.wanted = j.wanted, k.restart = j.restart \ {n}
  PROVE  JobInv(k, u, b, t, tc)
<1>1. k.file \in Files /\ TablesOf(b, t, k.file) /\ RestartsFit(j, s, tc) /\ j.wanted \subseteq Names
  BY JobFields DEF JobInv, Replaced
<1>2. SlotsOf(u, k.file) /\ n \in ts
  <2>1. SlotsOf(s, j.file) /\ n \in DOMAIN j.file.services
    BY <1>1 DEF RestartsFit
  <2>2. s[n] # NoSlot
    BY <2>1 DEF SlotsOf, HeldOf
  <2> QED BY <1>1, <2>1, <2>2, SameSets
<1>3. RestartsFit(k, u, tc)
  BY <1>1, <1>2 DEF RestartsFit
<1> QED BY <1>1, <1>3 DEF JobInv

LEMMA ForgetBeginFits ==
  ASSUME NEW s, NEW b, NEW t, NEW tc, NEW names \in SUBSET Names, \A n \in names : s[n] # NoSlot,
         \A n \in Names \ names : s[n] # NoSlot => s[n].def.depends \cap names = {},
         NEW k, k = [pc |-> "forget", file |-> Idle, stop |-> names, restart |-> names, moved |-> {}, wanted |-> {}]
  PROVE  JobInv(k, s, b, t, tc) /\ k.pc = "forget"
<1>1. k \in JobType
  BY DEF JobType, Pcs
<1>2. k.pc = "forget" /\ k.file = Idle /\ k.stop = names /\ k.restart = names
  OBVIOUS
<1>3. ~Replaced(k)
  BY <1>2 DEF Replaced
<1>4. ForgetFit(k, s)
  BY <1>2 DEF ForgetFit
<1> QED BY <1>1, <1>2, <1>3, <1>4 DEF JobInv

LEMMA ForgetStopFits ==
  ASSUME NEW j, NEW s, NEW b, NEW t, NEW tc, JobInv(j, s, b, t, tc), j.pc = "forget",
         NEW n \in j.stop,
         NEW u, SameTable(s, u), \A m \in Names : Wants(u, m) <=> Wants(s, m) /\ m # n,
         NEW k \in JobType, k.pc = "forget", k.file = j.file, k.stop = j.stop \ {n}, k.restart = j.restart
  PROVE  JobInv(k, u, b, t, tc)
<1>1. ~Replaced(k)
  BY DEF Replaced
<1>2. ForgetFit(j, s) /\ j.restart \subseteq Names
  BY JobFields DEF JobInv
<1>3. \A m \in Names : (u[m] # NoSlot <=> s[m] # NoSlot) /\ (u[m] # NoSlot => u[m].def = s[m].def)
  BY DEF SameTable
<1>4. ForgetFit(k, u)
  BY <1>2, <1>3 DEF ForgetFit
<1> QED BY <1>1, <1>4 DEF JobInv

LEMMA ForgetDropFits ==
  ASSUME NEW u, NEW b, NEW t, NEW tc, NEW k \in JobType, k.pc = "save", k.file = Idle
  PROVE  JobInv(k, u, b, t, tc)
  BY DEF JobInv, Replaced

-----------------------------------------------------------------------------
(* The invariant, command by command.                                        *)

LEMMA AtGate ==
  ASSUME GateFits, NEW c \in SyncClients, syncs[c] # Idle
  PROVE  gate = c /\ gate # Nobody /\ Work = syncs[c]
<1>1. gate = c
  BY DEF GateFits
<1>2. gate # Nobody
  BY <1>1, SyncAssumption
<1> QED BY <1>1, <1>2 DEF Work

LEMMA WorkMoves ==
  ASSUME GateFits, NEW c \in SyncClients, gate \in {c, Nobody}, gate' = c,
         NEW k, syncs' = [syncs EXCEPT ![c] = k]
  PROVE  GateFits' /\ Work' = k /\ gate' # Nobody
<1>1. syncs'[c] = k /\ \A d \in SyncClients \ {c} : syncs'[d] = syncs[d]
  BY DEF GateFits
<1>2. gate' # Nobody
  BY SyncAssumption
<1>3. \A d \in SyncClients : d # c => syncs[d] = Idle
  BY SyncAssumption DEF GateFits
<1>4. syncs' = [d \in SyncClients |-> syncs'[d]]
  BY DEF GateFits
<1>5. Work' = k
  BY <1>1, <1>2 DEF Work
<1> QED BY <1>1, <1>2, <1>3, <1>4, <1>5 DEF GateFits

LEMMA WorkLeaves ==
  ASSUME GateFits, NEW c \in SyncClients, gate = c, LeaveGate(c)
  PROVE  GateFits' /\ Work' = NoJob
<1>1. syncs'[c] = Idle /\ \A d \in SyncClients \ {c} : syncs'[d] = syncs[d]
  BY DEF GateFits, LeaveGate
<1>2. syncs' = [d \in SyncClients |-> syncs'[d]]
  BY DEF GateFits, LeaveGate
<1>3. gate' = Nobody
  BY DEF LeaveGate
<1>4. Work' = NoJob
  BY <1>3 DEF Work
<1>5. \A d \in SyncClients : syncs'[d] = Idle
  BY <1>1 DEF GateFits
<1> QED BY <1>2, <1>3, <1>4, <1>5 DEF GateFits

LEMMA WorkStays ==
  ASSUME GateFits, UNCHANGED <<gate, syncs>>
  PROVE  GateFits' /\ Work' = Work
  BY DEF GateFits, Work

LEMMA NoWork ==
  ASSUME gate = Nobody
  PROVE  /\ Work = NoJob /\ Work.pc = "none"
         /\ \A s : Left(Work, s) = {}
         /\ Losing(Work) = {} /\ Moving(Work) = {} /\ MovedFrom(Work) = {} /\ Swapping(Work) = {}
  BY DEF Work, NoJob, Left, Losing, Moving, MovedFrom, Swapping, Replaced

\* The phases of a job, and what they leave open.
LEMMA Phase ==
  ASSUME NEW j \in JobType
  PROVE  /\ j.pc # "stop" => Losing(j) = {}
         /\ j.pc # "announce" => Moving(j) = {} /\ MovedFrom(j) = {}
         /\ j.pc \notin {"announce", "stop", "replace"} => Swapping(j) = {}
         /\ j.pc \in {"announce", "stop", "replace"} => Swapping(j) = {j.file.root}
         /\ j.pc \in {"none", "classify", "commit", "announce"} => \A s : Left(j, s) = {}
         /\ j.pc \in {"stop", "replace"} => \A s : Left(j, s) = j.restart \cup Gone(s, j.file)
         /\ j.pc \in {"restart", "forget"} => \A s : Left(j, s) = j.restart
         /\ j.pc = "save" => \A s : Left(j, s) = IF j.file # Idle THEN j.restart ELSE {}
  BY DEF Losing, Moving, MovedFrom, Swapping, Left, Replaced

LEMMA ClosureFits ==
  ASSUME NEW names
  PROVE  /\ Closure(names) \in SUBSET Names
         /\ \A n \in Closure(names) : slots[n] # NoSlot
         /\ \A n \in Names : n \in names /\ slots[n] # NoSlot => n \in Closure(names)
  BY DEF Closure, Present

LEMMA SavedNow ==
  ASSUME TablesFit', saved' = [slots |-> slots', blocks |-> blocks', egress |-> egress'],
         ~torn' => MeetInv(slots', egress', Swapping(Work')), Work' \in JobType
  PROVE  SavedFits' /\ HostsMeet'
<1>1. saved'.slots = slots' /\ saved'.blocks = blocks' /\ saved'.egress = egress'
  OBVIOUS
<1>2. SavedFits'
  BY <1>1 DEF SavedFits, TablesFit
<1>3. ASSUME ~torn', Work'.pc \notin {"announce", "stop", "replace", "save"} PROVE MeetInv(saved'.slots, saved'.egress, {})
  <2>1. Swapping(Work') = {}
    BY <1>3 DEF Swapping
  <2> QED BY <1>1, <1>3, <2>1
<1> QED BY <1>2, <1>3 DEF HostsMeet

LEMMA SnapshotNow ==
  ASSUME UNCHANGED <<blocks, egress>>, saved' = [Snapshot EXCEPT !.slots = slots']
  PROVE  saved' = [slots |-> slots', blocks |-> blocks', egress |-> egress']
  BY DEF Snapshot

\* What an up of services does.
LEMMA BringUpFits ==
  ASSUME HostsApart, SyncInv, NEW ts \in SUBSET Names, \A n \in ts : slots[n] # NoSlot, BringUp(ts),
         boot # "load", Work.pc \in {"none", "restart"},
         boot = "up" => \A n \in Names : Wants(slots, n) => n \in ts, boot' = "done"
  PROVE  /\ SameTable(slots, slots') /\ \A n \in Names : Wants(slots', n) <=> Wants(slots, n) \/ n \in ts
         /\ RunnersFit'
         /\ \A left : Left(Work, slots) \subseteq left \cup ts => RouteInv(routed', slots', left, {}, TRUE)
         /\ ~torn => EgrInv(routed', egress, {}, {}) /\ MeetInv(slots', egress, {})
<1>1. SlotsFit(slots) /\ slots \in Table /\ EgressFits(egress) /\ Work \in JobType
  BY DEF SyncInv, TablesFit, SlotsFit, JobFits, JobInv
<1>2. /\ SameTable(slots, slots')
      /\ \A n \in Names : Wants(slots', n) <=> Wants(slots, n) \/ n \in ts
  <2>1. slots' = [n \in Names |-> IF n \in ts THEN [slots[n] EXCEPT !.desired = TRUE] ELSE slots[n]]
    BY DEF BringUp
  <2> QED BY <1>1, <2>1, BroughtUp
<1>3. RunnersFit'
  <2>1. runner' = [n \in Names |-> IF n \in ts /\ runner[n] = NoRunner THEN slots[n].def ELSE runner[n]]
    BY DEF BringUp
  <2>2. \A n \in Names : runner[n] = IF boot = "done" /\ Wants(slots, n) THEN slots[n].def ELSE NoRunner
    BY DEF SyncInv, RunnersFit
  <2>3. ASSUME NEW n \in Names
        PROVE  runner'[n] = IF Wants(slots', n) THEN slots'[n].def ELSE NoRunner
    <3>1. runner'[n] = IF n \in ts /\ runner[n] = NoRunner THEN slots[n].def ELSE runner[n]
      BY <2>1
    <3>2. boot \in {"up", "done"}
      BY DEF SyncInv, BootFits
    <3>3. slots[n] # NoSlot => slots'[n].def = slots[n].def /\ slots[n].def # NoRunner
      BY <1>1, <1>2, SlotFields DEF SameTable
    <3>4. Wants(slots, n) => slots[n] # NoSlot
      BY DEF Wants
    <3>5. CASE n \in ts
      BY <1>2, <2>2, <3>1, <3>2, <3>3, <3>4, <3>5
    <3>6. CASE n \notin ts
      BY <1>2, <2>2, <3>1, <3>2, <3>3, <3>4, <3>6
    <3> QED BY <3>5, <3>6
  <2> QED BY <2>1, <2>3 DEF RunnersFit
<1>4. /\ RouteInv(routed, slots, Left(Work, slots), {}, boot = "done")
      /\ boot # "done" => boot = "up"
  BY <1>1, Phase DEF SyncInv, ServicesRouted, BootFits
<1>5. routed' = Claim(routed, "service", [n \in ts |-> slots[n].def.host])
  BY DEF BringUp
<1>6. ASSUME NEW left, Left(Work, slots) \subseteq left \cup ts
      PROVE  RouteInv(routed', slots', left, {}, TRUE)
  <2>1. PICK up \in BOOLEAN : up = (boot = "done")
    OBVIOUS
  <2>2. RouteInv(routed, slots, Left(Work, slots), {}, up)
    BY <1>4, <2>1
  <2>3. ~up => \A n \in Names : Wants(slots, n) => n \in ts
    BY <1>4, <2>1
  <2>4. HostsApart /\ SlotsFit(slots) /\ ts \in SUBSET Names /\ (\A n \in ts : slots[n] # NoSlot)
    BY <1>1
  <2> QED BY ONLY <1>2, <1>5, <1>6, <2>1, <2>2, <2>3, <2>4, RoutesBrought
<1>7. ASSUME ~torn PROVE EgrInv(routed', egress, {}, {}) /\ MeetInv(slots', egress, {})
  <2>1. EgrInv(routed, egress, {}, {}) /\ MeetInv(slots, egress, {})
    BY <1>1, <1>7, Phase DEF SyncInv, RoutesKnown, HostsMeet
  <2>2. routed \in Routing
    BY <1>4 DEF RouteInv
  <2>3. EgrInv(routed', egress, {}, {})
    BY <1>1, <1>5, <2>1, <2>2, EgressBrought
  <2>4. \A n \in Names : slots'[n] # NoSlot => slots[n] # NoSlot /\ slots'[n].root = slots[n].root /\ slots'[n].def = slots[n].def
    BY <1>2 DEF SameTable
  <2>5. MeetInv(slots', egress, {})
    BY <2>1, <2>4, MeetSame
  <2> QED BY <2>3, <2>5
<1> QED BY <1>2, <1>3, <1>6, <1>7

\* And what a stop does.
LEMMA StopRunnerFits ==
  ASSUME SyncInv, NEW n \in Names, slots[n] # NoSlot, StopRunner(n), boot = "done", boot' = "done"
  PROVE  /\ SameTable(slots, slots') /\ \A m \in Names : Wants(slots', m) <=> Wants(slots, m) /\ m # n
         /\ RunnersFit'
<1>1. slots \in Table
  BY DEF SyncInv, TablesFit, SlotsFit
<1>2. /\ SameTable(slots, slots')
      /\ \A m \in Names : Wants(slots', m) <=> Wants(slots, m) /\ m # n
  <2>1. slots' = [slots EXCEPT ![n].desired = FALSE]
    BY DEF StopRunner
  <2>2. PICK s, u : s = slots /\ u = slots'
    OBVIOUS
  <2>3. s \in Table /\ s[n] # NoSlot /\ u = [s EXCEPT ![n].desired = FALSE]
    BY <1>1, <2>1, <2>2
  <2>4. SameTable(s, u) /\ \A m \in Names : Wants(u, m) <=> Wants(s, m) /\ m # n
    BY ONLY n \in Names, <2>3, StoppedOne, ZenonT(60)
  <2> QED BY <2>2, <2>4
<1>3. RunnersFit'
  <2>1. runner' = [runner EXCEPT ![n] = NoRunner]
    BY DEF StopRunner
  <2>2. runner = [m \in Names |-> runner[m]] /\ \A m \in Names : runner[m] = IF Wants(slots, m) THEN slots[m].def ELSE NoRunner
    BY DEF SyncInv, RunnersFit
  <2>3. runner' = [m \in Names |-> runner'[m]] /\ runner'[n] = NoRunner /\ \A m \in Names \ {n} : runner'[m] = runner[m]
    BY <2>1, <2>2
  <2>4. \A m \in Names : Wants(slots, m) => slots'[m].def = slots[m].def
    BY <1>2 DEF SameTable, Wants
  <2>5. \A m \in Names : runner'[m] = IF Wants(slots', m) THEN slots'[m].def ELSE NoRunner
    BY <1>2, <2>2, <2>3, <2>4
  <2> QED BY <2>3, <2>5 DEF RunnersFit
<1> QED BY <1>2, <1>3

LEMMA UpKeeps ==
  ASSUME HostsApart, ~UpBeside, SyncInv, NEW n \in Names, Up(n)
  PROVE  SyncInv'
<1>1. gate = Nobody /\ boot = "done" /\ boot' = "done" /\ torn' = torn
  BY DEF Up
<1>2. PICK ts : ts = Closure({n})
  OBVIOUS
<1>3. ts \in SUBSET Names /\ (\A m \in ts : slots[m] # NoSlot) /\ BringUp(ts)
  BY <1>2, ClosureFits DEF Up
<1>4. Work = NoJob /\ Work.pc = "none" /\ Work' = Work /\ GateFits' /\ gate' = Nobody
  BY <1>1, NoWork, WorkStays DEF Up, SyncInv
<1>5. /\ SameTable(slots, slots') /\ \A m \in Names : Wants(slots', m) <=> Wants(slots, m) \/ m \in ts
      /\ RunnersFit'
      /\ \A left : Left(Work, slots) \subseteq left \cup ts => RouteInv(routed', slots', left, {}, TRUE)
      /\ ~torn => EgrInv(routed', egress, {}, {}) /\ MeetInv(slots', egress, {})
  BY <1>1, <1>3, <1>4, BringUpFits
<1>6. UNCHANGED <<blocks, egress>> /\ saved' = [Snapshot EXCEPT !.slots = slots']
  BY DEF Up
<1>7. TablesFit'
  <2>1. SlotsFit(slots')
    BY <1>5, SameFits DEF SyncInv, TablesFit
  <2> QED BY <1>6, <2>1 DEF SyncInv, TablesFit
<1>8. JobFits' /\ Work' \in JobType
  BY <1>4, NoJobInv DEF JobFits, JobInv
<1>9. /\ \A s : Left(Work', s) = {}
      /\ Losing(Work') = {} /\ Moving(Work') = {} /\ MovedFrom(Work') = {} /\ Swapping(Work') = {}
  BY <1>1, <1>4, NoWork
<1>10. ServicesRouted'
  <2>1. RouteInv(routed', slots', {}, {}, TRUE)
    BY <1>1, <1>5, NoWork
  <2>2. (boot' = "done") = TRUE
    BY <1>1
  <2> QED BY <1>9, <2>1, <2>2 DEF ServicesRouted
<1>11. RoutesKnown' /\ (~torn' => MeetInv(slots', egress', Swapping(Work')))
  BY <1>1, <1>5, <1>6, <1>9 DEF RoutesKnown
<1>12. SavedFits' /\ HostsMeet'
  BY <1>6, <1>7, <1>8, <1>11, SnapshotNow, SavedNow
<1>13. BootFits'
  BY <1>1 DEF BootFits
<1> QED BY <1>4, <1>5, <1>7, <1>8, <1>10, <1>11, <1>12, <1>13 DEF SyncInv

\* Down beside a request: it is no longer answerable for the service.
LEMMA DownKeeps ==
  ASSUME HostsApart, SyncInv, NEW n \in Names, Down(n)
  PROVE  SyncInv'
<1>1. boot = "done" /\ boot' = "done" /\ torn' = torn /\ slots[n] # NoSlot /\ StopRunner(n)
      /\ UNCHANGED <<blocks, egress, gate, syncs>> /\ saved' = [Snapshot EXCEPT !.slots = slots']
      /\ routed' = Release(routed, "service", HostsOf({n}))
      /\ touched' = IF gate = Nobody THEN touched \ {n} ELSE touched \cup {n}
  BY DEF Down, Present
<1>2. Work' = Work /\ GateFits'
  BY <1>1, WorkStays DEF SyncInv
<1>3. /\ SameTable(slots, slots') /\ \A m \in Names : Wants(slots', m) <=> Wants(slots, m) /\ m # n
      /\ RunnersFit'
  BY <1>1, StopRunnerFits
<1>4. TablesFit'
  <2>1. SlotsFit(slots')
    BY <1>3, SameFits DEF SyncInv, TablesFit
  <2> QED BY <1>1, <2>1 DEF SyncInv, TablesFit
<1>5. JobFits' /\ Work' \in JobType
  <2>1. CASE gate = Nobody
    <3>1. Work' = NoJob
      BY <1>2, <2>1, NoWork
    <3> QED BY <3>1, NoJobInv DEF JobFits, JobInv
  <2>2. CASE gate # Nobody
    <3>1. touched' = touched \cup {n}
      BY <1>1, <2>2
    <3>2. JobInv(Work, slots, blocks, egress, touched)
      BY DEF SyncInv, JobFits
    <3>3. JobInv(Work, slots', blocks, egress, touched')
      BY <1>3, <3>1, <3>2, JobLowered
    <3> QED BY <1>1, <1>2, <3>3 DEF JobFits, JobInv
  <2> QED BY <2>1, <2>2
<1>6. Left(Work, slots') = Left(Work, slots)
  <2>1. Work \in JobType
    BY <1>2, <1>5
  <2>2. CASE Work.pc \in {"stop", "replace"}
    <3>1. Work.file \in Files
      BY <2>2 DEF SyncInv, JobFits, JobInv
    <3>2. Gone(slots', Work.file) = Gone(slots, Work.file)
      BY <1>3, <3>1, SameSets
    <3> QED BY <3>2 DEF Left
  <2>3. CASE Work.pc \notin {"stop", "replace"}
    BY <2>3 DEF Left
  <2> QED BY <2>2, <2>3
<1>7. ServicesRouted'
  <2>1. RouteInv(routed, slots, Left(Work, slots), Losing(Work), TRUE)
    <3>1. (boot = "done") = TRUE
      BY <1>1
    <3> QED BY <3>1 DEF SyncInv, ServicesRouted
  <2>2. PICK ds : ds = {n}
    OBVIOUS
  <2>3. Drops(slots, slots', ds) /\ SlotsFit(slots)
    BY <1>1, <1>3, <2>2 DEF SameTable, SyncInv, TablesFit, Drops
  <2>4. routed' = Release(routed, "service", {slots[m].def.host : m \in ds})
    BY <1>1, <2>2 DEF HostsOf
  <2>5. RouteInv(routed', slots', Left(Work, slots), Losing(Work), TRUE)
    BY ONLY HostsApart, <2>1, <2>3, <2>4, RoutesReleased
  <2>6. (boot' = "done") = TRUE
    BY <1>1
  <2> QED BY <1>2, <1>6, <2>5, <2>6 DEF ServicesRouted
<1>8. RoutesKnown'
  <2> SUFFICES ASSUME ~torn PROVE EgrInv(routed', egress, Moving(Work), MovedFrom(Work))
    BY <1>1, <1>2 DEF RoutesKnown
  <2>1. EgrInv(routed, egress, Moving(Work), MovedFrom(Work)) /\ routed \in Routing
    BY <1>1 DEF SyncInv, RoutesKnown, ServicesRouted, RouteInv
  <2> QED BY <1>1, <2>1, EgressUnreleased
<1>9. ~torn' => MeetInv(slots', egress', Swapping(Work'))
  <2> SUFFICES ASSUME ~torn PROVE MeetInv(slots', egress, Swapping(Work))
    BY <1>1, <1>2
  <2>1. MeetInv(slots, egress, Swapping(Work))
    BY DEF SyncInv, HostsMeet
  <2>2. \A m \in Names : slots'[m] # NoSlot => slots[m] # NoSlot /\ slots'[m].root = slots[m].root /\ slots'[m].def = slots[m].def
    BY <1>3 DEF SameTable
  <2> QED BY <2>1, <2>2, MeetSame
<1>10. SavedFits' /\ HostsMeet'
  BY <1>1, <1>4, <1>5, <1>9, SnapshotNow, SavedNow
<1>11. BootFits'
  BY <1>1 DEF BootFits
<1> QED BY <1>2, <1>3, <1>4, <1>5, <1>7, <1>8, <1>10, <1>11 DEF SyncInv

\* An attempt of a running service changes nothing but the file.
LEMMA RespawnKeeps ==
  ASSUME SyncInv, NEW n \in Names, Respawn(n)
  PROVE  SyncInv'
<1>1. /\ UNCHANGED <<slots, blocks, egress, routed, gate, syncs, boot, touched, torn>>
      /\ runner[n] # NoRunner /\ runner' = [runner EXCEPT ![n] = slots[n].def] /\ saved' = Snapshot
  BY DEF Respawn
<1>2. boot = "done" /\ runner[n] = slots[n].def
  BY <1>1 DEF SyncInv, RunnersFit
<1>3. runner' = runner
  <2>1. runner = [m \in Names |-> runner[m]]
    BY DEF SyncInv, RunnersFit
  <2> QED BY <1>1, <1>2, <2>1
<1>4. Work' = Work /\ GateFits'
  BY <1>1, WorkStays DEF SyncInv
<1>5. /\ TablesFit' /\ JobFits' /\ RunnersFit' /\ BootFits'
      /\ Work' \in JobType
  BY <1>1, <1>2, <1>3, <1>4 DEF SyncInv, TablesFit, JobFits, JobInv, RunnersFit, BootFits, Wants
<1>6. ServicesRouted' /\ RoutesKnown' /\ (~torn' => MeetInv(slots', egress', Swapping(Work')))
  BY <1>1, <1>4 DEF SyncInv, ServicesRouted, RoutesKnown, HostsMeet
<1>7. saved' = [slots |-> slots', blocks |-> blocks', egress |-> egress']
  BY <1>1 DEF Snapshot
<1>8. SavedFits' /\ HostsMeet'
  BY <1>5, <1>6, <1>7, SavedNow
<1> QED BY <1>4, <1>5, <1>6, <1>8 DEF SyncInv

LEMMA EditGlobalKeeps ==
  ASSUME SyncInv, NEW x \in SecretNames, EditGlobal(x)
  PROVE  SyncInv' /\ \A y \in SecretNames : blocks[y] # Nobody => blocks'[y] \in {blocks[y], Nobody}
<1>1. /\ UNCHANGED <<slots, runner, egress, routed, gate, syncs, boot, touched, torn>>
      /\ boot = "done" /\ blocks[x] \in {Nobody, Global} /\ saved' = [Snapshot EXCEPT !.blocks = blocks']
  BY DEF EditGlobal
<1>2. PICK owner \in {Nobody, Global} \ {blocks[x]} : blocks' = [blocks EXCEPT ![x] = owner]
  BY DEF EditGlobal
<1>3. blocks \in Owners
  BY DEF SyncInv, TablesFit
<1>4. blocks' \in Owners /\ blocks'[x] = owner /\ \A y \in SecretNames \ {x} : blocks'[y] = blocks[y]
  BY <1>2, <1>3 DEF Owners
<1>5. \A y \in SecretNames, r \in Roots : blocks[y] = r <=> blocks'[y] = r
  BY <1>1, <1>2, <1>4, SyncAssumption
<1>6. Work' = Work /\ GateFits'
  BY <1>1, WorkStays DEF SyncInv
<1>7. JobFits' /\ Work' \in JobType
  <2>1. JobInv(Work, slots, blocks, egress, touched)
    BY DEF SyncInv, JobFits
  <2>2. JobInv(Work, slots, blocks', egress, touched)
    BY <1>5, <2>1, JobEdited
  <2> QED BY <1>1, <1>6, <2>2 DEF JobFits, JobInv
<1>8. TablesFit'
  BY <1>1, <1>4 DEF SyncInv, TablesFit
<1>9. RunnersFit' /\ BootFits'
  BY <1>1 DEF SyncInv, RunnersFit, BootFits
<1>10. ServicesRouted' /\ RoutesKnown' /\ (~torn' => MeetInv(slots', egress', Swapping(Work')))
  BY <1>1, <1>6 DEF SyncInv, ServicesRouted, RoutesKnown, HostsMeet
<1>11. saved' = [slots |-> slots', blocks |-> blocks', egress |-> egress']
  BY <1>1 DEF Snapshot
<1>12. SavedFits' /\ HostsMeet'
  BY <1>7, <1>8, <1>10, <1>11, SavedNow
<1>13. SyncInv'
  BY <1>6, <1>7, <1>8, <1>9, <1>10, <1>12 DEF SyncInv
<1> QED BY <1>1, <1>2, <1>4, <1>13

\* Updates of a request's record.
LEMMA SetPc ==
  ASSUME GateFits, NEW c \in SyncClients, syncs[c] \in JobType, NEW p \in Pcs, syncs' = [syncs EXCEPT ![c].pc = p]
  PROVE  \E k \in JobType : /\ syncs' = [syncs EXCEPT ![c] = k] /\ k.pc = p
           /\ k.file = syncs[c].file /\ k.stop = syncs[c].stop /\ k.restart = syncs[c].restart
           /\ k.moved = syncs[c].moved /\ k.wanted = syncs[c].wanted
<1> DEFINE j == syncs[c]
           k == [pc |-> p, file |-> j.file, stop |-> j.stop, restart |-> j.restart, moved |-> j.moved, wanted |-> j.wanted]
<1>1. k = [j EXCEPT !.pc = p]
  BY JobFields
<1>2. k \in JobType
  BY JobFields DEF JobType
<1>3. syncs' = [syncs EXCEPT ![c] = k]
  BY <1>1
<1> QED BY <1>2, <1>3

ClassifiedAs(c, a, b) == syncs' = [syncs EXCEPT ![c].pc = "commit", ![c].stop = a, ![c].restart = b]
LEMMA SetClassified ==
  ASSUME GateFits, NEW c \in SyncClients, syncs[c] \in JobType, NEW a \in SUBSET Names, NEW b \in SUBSET Names,
         ClassifiedAs(c, a, b)
  PROVE  \E k \in JobType : /\ syncs' = [syncs EXCEPT ![c] = k] /\ k.pc = "commit"
           /\ k.file = syncs[c].file /\ k.stop = a /\ k.restart = b
           /\ k.moved = syncs[c].moved /\ k.wanted = syncs[c].wanted
<1> DEFINE j == syncs[c]
           k == [pc |-> "commit", file |-> j.file, stop |-> a, restart |-> b, moved |-> j.moved, wanted |-> j.wanted]
<1>1. k = [j EXCEPT !.pc = "commit", !.stop = a, !.restart = b]
  <2>1. PICK i : i = [j EXCEPT !.pc = "commit"]
    OBVIOUS
  <2>2. i = [pc |-> "commit", file |-> j.file, stop |-> j.stop, restart |-> j.restart, moved |-> j.moved, wanted |-> j.wanted]
    BY <2>1, JobFields
  <2>3. PICK l : l = [i EXCEPT !.stop = a]
    OBVIOUS
  <2>4. l = [pc |-> "commit", file |-> j.file, stop |-> a, restart |-> j.restart, moved |-> j.moved, wanted |-> j.wanted]
    BY <2>2, <2>3
  <2>5. [l EXCEPT !.restart = b] = k
    BY <2>4
  <2> QED BY <2>1, <2>3, <2>5
<1>2. k \in JobType
  BY JobFields DEF JobType, Pcs
<1>3. syncs' = [syncs EXCEPT ![c] = k]
  BY <1>1 DEF GateFits, ClassifiedAs
<1> QED BY <1>2, <1>3

LEMMA SetMoved ==
  ASSUME GateFits, NEW c \in SyncClients, syncs[c] \in JobType, NEW a \in SUBSET EgressHosts,
         syncs' = [syncs EXCEPT ![c].pc = "announce", ![c].moved = a]
  PROVE  \E k \in JobType : /\ syncs' = [syncs EXCEPT ![c] = k] /\ k.pc = "announce"
           /\ k.file = syncs[c].file /\ k.stop = syncs[c].stop /\ k.restart = syncs[c].restart
           /\ k.moved = a /\ k.wanted = syncs[c].wanted
<1> DEFINE j == syncs[c]
           k == [pc |-> "announce", file |-> j.file, stop |-> j.stop, restart |-> j.restart, moved |-> a, wanted |-> j.wanted]
<1>1. k = [j EXCEPT !.pc = "announce", !.moved = a]
  <2>1. PICK i : i = [j EXCEPT !.pc = "announce"]
    OBVIOUS
  <2>2. i = [pc |-> "announce", file |-> j.file, stop |-> j.stop, restart |-> j.restart, moved |-> j.moved, wanted |-> j.wanted]
    BY <2>1, JobFields
  <2>3. [i EXCEPT !.moved = a] = k
    BY <2>2
  <2> QED BY <2>1, <2>3
<1>2. k \in JobType
  BY JobFields DEF JobType, Pcs
<1>3. syncs' = [syncs EXCEPT ![c] = k]
  BY <1>1 DEF GateFits
<1> QED BY <1>2, <1>3

LEMMA SetStop ==
  ASSUME GateFits, NEW c \in SyncClients, syncs[c] \in JobType, NEW a \in SUBSET Names,
         syncs' = [syncs EXCEPT ![c].stop = a]
  PROVE  \E k \in JobType : /\ syncs' = [syncs EXCEPT ![c] = k] /\ k.pc = syncs[c].pc
           /\ k.file = syncs[c].file /\ k.stop = a /\ k.restart = syncs[c].restart
           /\ k.moved = syncs[c].moved /\ k.wanted = syncs[c].wanted
<1> DEFINE j == syncs[c]
           k == [pc |-> j.pc, file |-> j.file, stop |-> a, restart |-> j.restart, moved |-> j.moved, wanted |-> j.wanted]
<1>1. k = [j EXCEPT !.stop = a]
  BY JobFields
<1>2. k \in JobType
  BY JobFields DEF JobType
<1>3. syncs' = [syncs EXCEPT ![c] = k]
  BY <1>1
<1> QED BY <1>2, <1>3

RestartsAs(c, a) == syncs' = [syncs EXCEPT ![c].restart = a]
LEMMA SetRestart ==
  ASSUME GateFits, NEW c \in SyncClients, syncs[c] \in JobType, NEW a \in SUBSET Names, RestartsAs(c, a)
  PROVE  \E k \in JobType : /\ syncs' = [syncs EXCEPT ![c] = k] /\ k.pc = syncs[c].pc
           /\ k.file = syncs[c].file /\ k.stop = syncs[c].stop /\ k.restart = a
           /\ k.moved = syncs[c].moved /\ k.wanted = syncs[c].wanted
<1> DEFINE j == syncs[c]
           k == [pc |-> j.pc, file |-> j.file, stop |-> j.stop, restart |-> a, moved |-> j.moved, wanted |-> j.wanted]
<1>1. k = [j EXCEPT !.restart = a]
  BY JobFields
<1>2. k \in JobType
  BY JobFields DEF JobType
<1>3. syncs' = [syncs EXCEPT ![c] = k]
  BY <1>1 DEF RestartsAs
<1> QED BY <1>2, <1>3

\* A request at its gate.
LEMMA Working ==
  ASSUME SyncInv, NEW c \in SyncClients, NEW pc, At(c, pc)
  PROVE  /\ gate = c /\ gate # Nobody /\ Work = syncs[c] /\ Job(c) = Work /\ Work.pc = pc
         /\ syncs[c] \in JobType /\ boot = "done" /\ (boot = "done") = TRUE
         /\ JobInv(Work, slots, blocks, egress, touched)
<1>1. syncs[c] # Idle /\ syncs[c].pc = pc
  BY DEF At
<1>2. gate = c /\ gate # Nobody /\ Work = syncs[c]
  BY <1>1, AtGate DEF SyncInv
<1>3. JobInv(Work, slots, blocks, egress, touched)
  BY DEF SyncInv, JobFits
<1>4. Work \in JobType
  BY <1>3 DEF JobInv
<1>5. boot = "done"
  BY <1>2 DEF SyncInv, BootFits
<1> QED BY <1>1, <1>2, <1>3, <1>4, <1>5 DEF Job

\* A request that leaves the gate with nothing left to do.
LEMMA LeaveKeeps ==
  ASSUME SyncInv, NEW c \in SyncClients, gate = c, LeaveGate(c), boot = "done",
         UNCHANGED <<slots, runner, blocks, egress, routed, boot, torn>>,
         Work.pc \in {"classify", "commit", "restart", "save"}, \A n \in Left(Work, slots) : slots[n] = NoSlot \/ Wants(slots, n),
         Left(Work, slots) \subseteq Names,
         (saved' = saved /\ Work.pc # "save") \/ saved' = Snapshot
  PROVE  SyncInv'
<1>1. GateFits' /\ Work' = NoJob
  BY WorkLeaves DEF SyncInv
<1>2. gate' = Nobody
  BY DEF LeaveGate
<1>3. /\ \A s : Left(Work', s) = {}
      /\ Losing(Work') = {} /\ Moving(Work') = {} /\ MovedFrom(Work') = {} /\ Swapping(Work') = {}
  BY <1>1, <1>2 DEF NoJob, Left, Losing, Moving, MovedFrom, Swapping, Replaced
<1>4. Work \in JobType
  BY DEF SyncInv, JobFits, JobInv
<1>5. Losing(Work) = {} /\ Moving(Work) = {} /\ MovedFrom(Work) = {} /\ Swapping(Work) = {}
  BY <1>4, Phase
<1>6. JobFits' /\ Work' \in JobType
  BY <1>1, NoJobInv DEF JobFits, JobInv
<1>7. TablesFit' /\ RunnersFit' /\ BootFits'
  BY DEF SyncInv, TablesFit, RunnersFit, BootFits
<1>8. ServicesRouted'
  <2>1. RouteInv(routed, slots, Left(Work, slots), {}, TRUE)
    <3>1. (boot = "done") = TRUE
      OBVIOUS
    <3> QED BY <1>5, <3>1 DEF SyncInv, ServicesRouted
  <2>2. RouteInv(routed, slots, {}, {}, TRUE)
    BY <2>1 DEF RouteInv
  <2>3. (boot' = "done") = TRUE
    OBVIOUS
  <2> QED BY <1>3, <2>2, <2>3 DEF ServicesRouted
<1>9. RoutesKnown'
  BY <1>3, <1>5 DEF SyncInv, RoutesKnown
<1>10. ~torn' => MeetInv(slots', egress', Swapping(Work'))
  BY <1>3, <1>5 DEF SyncInv, HostsMeet
<1>11. SavedFits' /\ HostsMeet'
  <2>1. CASE saved' = saved /\ Work.pc # "save"
    <3>1. ~torn => MeetInv(saved.slots, saved.egress, {})
      BY <2>1 DEF SyncInv, HostsMeet
    <3>2. SavedFits'
      BY <2>1 DEF SyncInv, SavedFits
    <3> QED BY <1>10, <2>1, <3>1, <3>2 DEF HostsMeet
  <2>2. CASE saved' = Snapshot
    <3>1. saved' = [slots |-> slots', blocks |-> blocks', egress |-> egress']
      BY <2>2 DEF Snapshot
    <3> QED BY <1>6, <1>7, <1>10, <3>1, SavedNow
  <2> QED BY <2>1, <2>2
<1> QED BY <1>1, <1>6, <1>7, <1>8, <1>9, <1>11 DEF SyncInv

LEMMA SyncBeginKeeps ==
  ASSUME SyncInv, NEW c \in SyncClients, NEW f \in Files, SyncBegin(c, f)
  PROVE  SyncInv'
<1>1. /\ boot = "done" /\ gate = Nobody /\ gate' = c
      /\ UNCHANGED <<slots, runner, blocks, egress, routed, saved, boot, touched, torn>>
  BY DEF SyncBegin
<1>2. PICK k : k = [pc |-> "classify", file |-> f, stop |-> {}, restart |-> {}, moved |-> {}, wanted |-> {n \in Names : Wants(slots, n)}]
  OBVIOUS
<1>3. syncs' = [syncs EXCEPT ![c] = k]
  BY <1>2 DEF SyncBegin, Wanted, Present, Wants
<1>4. GateFits' /\ Work' = k
  BY <1>1, <1>3, WorkMoves DEF SyncInv
<1>5. JobInv(k, slots, blocks, egress, touched) /\ k.pc = "classify"
  BY <1>2, BeginFits
<1>6. JobFits' /\ Work' \in JobType
  BY <1>1, <1>4, <1>5 DEF JobFits, JobInv
<1>7. /\ \A s : Left(Work', s) = {}
      /\ Losing(Work') = {} /\ Moving(Work') = {} /\ MovedFrom(Work') = {} /\ Swapping(Work') = {}
  BY <1>4, <1>5 DEF Left, Losing, Moving, MovedFrom, Swapping, Replaced
<1>8. ServicesRouted' /\ RoutesKnown' /\ HostsMeet'
  <2>1. RouteInv(routed, slots, {}, {}, boot = "done")
    BY <1>1, NoWork DEF SyncInv, ServicesRouted
  <2>2. boot # "load" /\ ~torn => EgrInv(routed, egress, {}, {})
    BY <1>1, NoWork DEF SyncInv, RoutesKnown
  <2>3. ~torn => MeetInv(slots, egress, {}) /\ MeetInv(saved.slots, saved.egress, {})
    BY <1>1, NoWork DEF SyncInv, HostsMeet
  <2> QED BY <1>1, <1>7, <2>1, <2>2, <2>3 DEF ServicesRouted, RoutesKnown, HostsMeet
<1>9. TablesFit' /\ SavedFits' /\ RunnersFit' /\ BootFits'
  BY <1>1 DEF SyncInv, TablesFit, SavedFits, RunnersFit, BootFits
<1> QED BY <1>4, <1>6, <1>8, <1>9 DEF SyncInv

\* The sets of a sync, as the model computes them.
LEMMA Sets ==
  /\ \A n : Present(n) <=> slots[n] # NoSlot
  /\ \A n : Wanted(n) <=> Wants(slots, n)
  /\ \A r : Held(r) = HeldOf(slots, r)
  /\ \A f : {n \in DOMAIN f.services : Present(n) /\ slots[n].def # f.services[n]} = Changed(slots, f)
  /\ \A f : Held(f.root) \ DOMAIN f.services = Gone(slots, f)
  BY DEF Present, Wanted, Held, Wants, HeldOf, Changed, Gone

LEMMA ClassifyKeeps ==
  ASSUME SyncInv, NEW c \in SyncClients, Classify(c)
  PROVE  SyncInv'
<1> DEFINE f == Work.file
<1>1. At(c, "classify")
  BY DEF Classify
<1>2. /\ gate = c /\ Work = syncs[c] /\ Job(c) = Work /\ Work.pc = "classify" /\ syncs[c] \in JobType /\ boot = "done"
      /\ JobInv(Work, slots, blocks, egress, touched)
  BY <1>1, Working
<1>3. f \in Files
  BY <1>2 DEF JobInv
<1>4. UNCHANGED <<slots, runner, blocks, egress, routed, saved, boot, touched, torn>>
  BY DEF Classify
<1>5. \A s : Left(Work, s) = {}
  BY <1>2, Phase
<1>6. CASE {n \in DOMAIN f.services : Present(n) /\ slots[n].root # f.root} # {}
  <2>1. LeaveGate(c)
    BY <1>2, <1>6 DEF Classify
  <2> QED BY <1>2, <1>4, <1>5, <2>1, LeaveKeeps
<1>7. CASE {n \in DOMAIN f.services : Present(n) /\ slots[n].root # f.root} = {}
  <2>1. /\ gate' = gate
        /\ syncs' = [syncs EXCEPT ![c].pc = "commit", ![c].stop = Changed(slots, f) \cup Gone(slots, f),
                                  ![c].restart = {n \in Changed(slots, f) : Wants(slots, n)}]
    <3>1. PICK changed : changed = {n \in DOMAIN Job(c).file.services : Present(n) /\ slots[n].def # Job(c).file.services[n]}
      OBVIOUS
    <3>2. PICK gone : gone = Held(Job(c).file.root) \ DOMAIN Job(c).file.services
      OBVIOUS
    <3>3. {n \in DOMAIN Job(c).file.services : Present(n) /\ slots[n].root # Job(c).file.root} = {}
      BY <1>2, <1>7
    <3>4. /\ gate' = gate
          /\ syncs' = [syncs EXCEPT ![c].pc = "commit", ![c].stop = changed \cup gone,
                                    ![c].restart = {n \in changed : Wanted(n)}]
      BY <3>1, <3>2, <3>3 DEF Classify
    <3>5. Job(c).file = f
      BY <1>2
    <3>6. changed = Changed(slots, f) /\ gone = Gone(slots, f)
      BY <3>1, <3>2, <3>5, Sets
    <3>7. {n \in changed : Wanted(n)} = {n \in changed : Wants(slots, n)}
      BY Sets
    <3> QED BY <3>4, <3>6, <3>7
  <2>2. Changed(slots, f) \in SUBSET Names /\ Gone(slots, f) \in SUBSET Names
    BY <1>3, SyncAssumption DEF Changed, Gone, HeldOf, IsFile
  <2>3. PICK k \in JobType : /\ syncs' = [syncs EXCEPT ![c] = k] /\ k.pc = "commit"
           /\ k.file = f /\ k.stop = Changed(slots, f) \cup Gone(slots, f)
           /\ k.restart = {n \in Changed(slots, f) : Wants(slots, n)} /\ k.wanted = Work.wanted
    <3>1. PICK a \in SUBSET Names : a = Changed(slots, f) \cup Gone(slots, f)
      BY <2>2
    <3>2. PICK b \in SUBSET Names : b = {n \in Changed(slots, f) : Wants(slots, n)}
      BY <2>2
    <3>3. ClassifiedAs(c, a, b)
      BY <2>1, <3>1, <3>2 DEF ClassifiedAs
    <3>4. GateFits
      BY DEF SyncInv
    <3>5. \E k \in JobType : /\ syncs' = [syncs EXCEPT ![c] = k] /\ k.pc = "commit"
           /\ k.file = syncs[c].file /\ k.stop = a /\ k.restart = b
           /\ k.moved = syncs[c].moved /\ k.wanted = syncs[c].wanted
      BY ONLY <1>2, <3>3, <3>4, SetClassified, c \in SyncClients, a \in SUBSET Names, b \in SUBSET Names
    <3> QED BY <1>2, <3>1, <3>2, <3>5
  <2>4. GateFits' /\ Work' = k
    BY <1>2, <2>1, <2>3, WorkMoves DEF SyncInv
  <2>5. NoForeign(slots, f)
    BY <1>7 DEF NoForeign, Present
  <2>6. JobInv(k, slots, blocks, egress, touched)
    BY <1>2, <2>3, <2>5, ClassifyFits
  <2>7. JobFits'
    BY <1>4, <2>4, <2>6 DEF JobFits
  <2>8. /\ \A s : Left(Work', s) = {}
        /\ Losing(Work') = {} /\ Moving(Work') = {} /\ MovedFrom(Work') = {} /\ Swapping(Work') = {}
    BY <2>3, <2>4, Phase
  <2>9. ServicesRouted' /\ RoutesKnown' /\ HostsMeet'
    <3>1. Losing(Work) = {} /\ Moving(Work) = {} /\ MovedFrom(Work) = {} /\ Swapping(Work) = {}
      BY <1>2, Phase
    <3>2. RouteInv(routed, slots, {}, {}, boot = "done")
      BY <1>5, <3>1 DEF SyncInv, ServicesRouted
    <3>3. boot # "load" /\ ~torn => EgrInv(routed, egress, {}, {})
      BY <3>1 DEF SyncInv, RoutesKnown
    <3>4. ~torn => MeetInv(slots, egress, {}) /\ MeetInv(saved.slots, saved.egress, {})
      BY <1>2, <3>1 DEF SyncInv, HostsMeet
    <3> QED BY <1>4, <2>8, <3>2, <3>3, <3>4 DEF ServicesRouted, RoutesKnown, HostsMeet
  <2>10. TablesFit' /\ SavedFits' /\ RunnersFit' /\ BootFits'
    BY <1>2, <1>4 DEF SyncInv, TablesFit, SavedFits, RunnersFit, BootFits
  <2> QED BY <2>4, <2>7, <2>9, <2>10 DEF SyncInv
<1> QED BY <1>6, <1>7

\* A commit that is not refused.
LEMMA Replaces ==
  ASSUME SyncInv, NEW c \in SyncClients, Commit(c), ~Refused(Work.file), At(c, "commit")
  PROVE  LET f == Work.file
         IN  /\ f \in Files
             /\ blocks' \in Owners /\ EgressFits(egress') /\ TablesOf(blocks', egress', f)
             /\ \A x \in SecretNames : blocks[x] # Nobody => blocks'[x] \in {blocks[x], Nobody}
             /\ CommitsTo(egress, egress', f)
             /\ \A e \in EgressNames : egress[e] # NoEgress /\ egress'[e] # NoEgress => egress'[e].root = egress[e].root
<1> DEFINE f == Work.file
<1>1. Job(c) = Work /\ Work.pc = "commit" /\ JobInv(Work, slots, blocks, egress, touched)
  BY Working
<1>2. f \in Files
  BY <1>1 DEF JobInv
<1>3. /\ blocks' = [b \in SecretNames |->
                     IF b \in f.blocks THEN f.root
                     ELSE IF blocks[b] = f.root THEN Nobody ELSE blocks[b]]
      /\ egress' = [e \in EgressNames |->
                     IF e \in DOMAIN f.egress THEN [root |-> f.root, host |-> f.egress[e].host]
                     ELSE IF e \in {d \in EgressNames : egress[d] # NoEgress /\ egress[d].root = f.root}
                     THEN NoEgress ELSE egress[e]]
  BY <1>1 DEF Commit
<1>4. /\ \A x \in f.blocks : blocks[x] \in {Nobody, f.root}
      /\ \A e \in DOMAIN f.egress : egress[e] # NoEgress => egress[e].root = f.root
  BY DEF Refused
<1>5. blocks \in Owners /\ EgressFits(egress)
  BY DEF SyncInv, TablesFit
<1> HIDE DEF f
<1>6. /\ blocks' \in Owners /\ EgressFits(egress') /\ TablesOf(blocks', egress', f)
      /\ \A x \in SecretNames : blocks[x] # Nobody => blocks'[x] \in {blocks[x], Nobody}
      /\ \A e \in DOMAIN f.egress : egress'[e] # NoEgress /\ egress'[e].root = f.root /\ egress'[e].host = f.egress[e].host
      /\ \A e \in EgressNames \ DOMAIN f.egress : egress'[e] # NoEgress => egress'[e] = egress[e] /\ egress[e].root # f.root
      /\ \A e \in EgressNames \ DOMAIN f.egress : egress[e] # NoEgress /\ egress[e].root # f.root => egress'[e] = egress[e]
      /\ \A e \in EgressNames : egress[e] # NoEgress /\ egress'[e] # NoEgress => egress'[e].root = egress[e].root
  BY ONLY <1>2, <1>3, <1>4, <1>5, Committed
<1> QED BY <1>2, <1>4, <1>6 DEF f, CommitsTo

LEMMA CommitKeeps ==
  ASSUME HostsApart, SyncInv, NEW c \in SyncClients, Commit(c)
  PROVE  SyncInv'
<1> DEFINE f == Work.file
           moved == {e \in {d \in EgressNames : egress[d] # NoEgress /\ egress[d].root = f.root} :
                       e \notin DOMAIN f.egress \/ f.egress[e].host # egress[e].host}
           from == {egress[e].host : e \in moved}
<1>1. At(c, "commit")
  BY DEF Commit
<1>2. /\ gate = c /\ Work = syncs[c] /\ Job(c) = Work /\ Work.pc = "commit" /\ syncs[c] \in JobType /\ boot = "done"
      /\ (boot = "done") = TRUE /\ JobInv(Work, slots, blocks, egress, touched)
  BY <1>1, Working
<1>3. f \in Files
  BY <1>2 DEF JobInv
<1>4. UNCHANGED <<slots, runner, routed, saved, boot, touched, torn>>
  BY DEF Commit
<1>5. \A s : Left(Work, s) = {}
  BY <1>2, Phase
<1>6. CASE Refused(f)
  <2>1. LeaveGate(c) /\ UNCHANGED <<blocks, egress>>
    BY <1>2, <1>6 DEF Commit
  <2> QED BY <1>2, <1>4, <1>5, <2>1, LeaveKeeps
<1>7. CASE ~Refused(f)
  <2>1. gate' = gate /\ syncs' = [syncs EXCEPT ![c].pc = "announce", ![c].moved = from]
    BY <1>2, <1>7 DEF Commit
  <2>2. EgressFits(egress) /\ SlotsFit(slots) /\ egress \in EgressTable
    BY DEF SyncInv, TablesFit, EgressFits
  <2>3. from \in SUBSET EgressHosts
    BY <2>2, EgressFields
  <2>4. PICK k \in JobType : /\ syncs' = [syncs EXCEPT ![c] = k] /\ k.pc = "announce"
           /\ k.file = f /\ k.stop = Work.stop /\ k.restart = Work.restart
           /\ k.moved = from /\ k.wanted = Work.wanted
    <3>1. PICK a \in SUBSET EgressHosts : a = from
      BY <2>3
    <3>2. syncs' = [syncs EXCEPT ![c].pc = "announce", ![c].moved = a]
      BY <2>1, <3>1
    <3>3. GateFits
      BY DEF SyncInv
    <3>4. \E k \in JobType : /\ syncs' = [syncs EXCEPT ![c] = k] /\ k.pc = "announce"
           /\ k.file = syncs[c].file /\ k.stop = syncs[c].stop /\ k.restart = syncs[c].restart
           /\ k.moved = a /\ k.wanted = syncs[c].wanted
      BY ONLY <1>2, <3>2, <3>3, SetMoved, c \in SyncClients, a \in SUBSET EgressHosts
    <3> HIDE DEF from
    <3> QED BY <1>2, <3>1, <3>4
  <2>5. GateFits' /\ Work' = k
    BY <1>2, <2>1, <2>4, WorkMoves DEF SyncInv
  <2>6. /\ blocks' \in Owners /\ EgressFits(egress') /\ TablesOf(blocks', egress', f)
        /\ CommitsTo(egress, egress', f)
    BY <1>1, <1>7, Replaces
  <2>7. MovedFit(k)
    <3> SUFFICES ASSUME NEW e \in moved PROVE \E g \in Files : g.root = f.root /\ egress[e].host \in HostsOfFile(g)
      BY <2>4 DEF MovedFit
    <3>1. e \in EgressNames /\ egress[e] # NoEgress /\ egress[e].root = f.root /\ f.root \in Roots
      BY <1>3 DEF Roots
    <3> QED BY <2>2, <3>1, EgressOfFile
  <2>8. JobInv(k, slots, blocks', egress', touched)
    <3>1. TablesOf(blocks', egress', Work.file)
      BY <2>6
    <3>2. /\ k \in JobType /\ k.pc = "announce" /\ k.file = Work.file /\ k.wanted = Work.wanted
          /\ k.stop = Work.stop /\ k.restart = Work.restart
      BY <2>4
    <3> QED BY ONLY <1>2, <2>7, <3>1, <3>2, CommitFits
  <2>9. JobFits'
    BY <1>4, <2>5, <2>8 DEF JobFits
  <2>10. /\ \A s : Left(Work', s) = {} /\ Losing(Work') = {}
         /\ Moving(Work') = {f.root} /\ MovedFrom(Work') = from /\ Swapping(Work') = {f.root} /\ Work'.pc = "announce"
    BY <2>4, <2>5 DEF Left, Losing, Moving, MovedFrom, Swapping, Replaced
  <2>11. Losing(Work) = {} /\ Moving(Work) = {} /\ MovedFrom(Work) = {} /\ Swapping(Work) = {}
    BY <1>2, Phase
  <2>12. ServicesRouted'
    <3>1. RouteInv(routed, slots, {}, {}, boot = "done")
      BY <1>5, <2>11 DEF SyncInv, ServicesRouted
    <3> QED BY <1>4, <2>10, <3>1 DEF ServicesRouted
  <2>13. from = HostsLeft(egress, f)
    <3>1. moved = MovedOf(egress, f)
      BY DEF MovedOf
    <3> QED BY <3>1 DEF HostsLeft
  <2>14. RoutesKnown'
    <3> SUFFICES ASSUME ~torn PROVE EgrInv(routed, egress', {f.root}, from)
      BY <1>4, <2>10 DEF RoutesKnown
    <3>1. EgrInv(routed, egress, {}, {})
      BY <1>2, <2>11 DEF SyncInv, RoutesKnown
    <3>2. EgrInv(routed, egress', {f.root}, HostsLeft(egress, f))
      BY <1>3, <2>2, <2>6, <3>1, EgressCommitted
    <3> QED BY <2>13, <3>2
  <2>15. HostsMeet'
    <3> SUFFICES ASSUME ~torn PROVE MeetInv(slots, egress', {f.root})
      BY <1>4, <2>10 DEF HostsMeet
    <3>1. MeetInv(slots, egress, {})
      BY <2>11 DEF SyncInv, HostsMeet
    <3> QED BY <1>3, <2>2, <2>6, <3>1, MeetCommitted
  <2>16. TablesFit' /\ SavedFits' /\ RunnersFit' /\ BootFits'
    BY <1>2, <1>4, <2>6 DEF SyncInv, TablesFit, SavedFits, RunnersFit, BootFits
  <2> QED BY <2>5, <2>9, <2>12, <2>14, <2>15, <2>16 DEF SyncInv
<1> QED BY <1>6, <1>7

LEMMA AnnounceKeeps ==
  ASSUME HostsApart, SyncInv, NEW c \in SyncClients, Announce(c)
  PROVE  SyncInv'
<1>1. At(c, "announce")
  BY DEF Announce
<1>2. /\ gate = c /\ Work = syncs[c] /\ Job(c) = Work /\ Work.pc = "announce" /\ syncs[c] \in JobType /\ boot = "done"
      /\ (boot = "done") = TRUE /\ JobInv(Work, slots, blocks, egress, touched)
  BY <1>1, Working
<1>3. PICK f : f = Work.file
  OBVIOUS
<1>4. f \in Files /\ StopsFit(Work, slots, touched) /\ TablesOf(blocks, egress, f) /\ MovedFit(Work)
  BY <1>2, <1>3 DEF JobInv
<1>5. /\ UNCHANGED <<slots, runner, blocks, egress, saved, gate, boot, touched, torn>>
      /\ syncs' = [syncs EXCEPT ![c].pc = "stop"]
      /\ routed' = Claim(Release(routed, "egress", Work.moved), "egress", [e \in DOMAIN f.egress |-> f.egress[e].host])
  BY <1>2, <1>3 DEF Announce, Proceeds
<1>6. PICK k \in JobType : /\ syncs' = [syncs EXCEPT ![c] = k] /\ k.pc = "stop"
        /\ k.file = Work.file /\ k.stop = Work.stop /\ k.restart = Work.restart /\ k.wanted = Work.wanted
  <2>1. "stop" \in Pcs
    BY DEF Pcs
  <2>2. GateFits
    BY DEF SyncInv
  <2>3. \E k \in JobType : /\ syncs' = [syncs EXCEPT ![c] = k] /\ k.pc = "stop"
          /\ k.file = syncs[c].file /\ k.stop = syncs[c].stop /\ k.restart = syncs[c].restart
          /\ k.moved = syncs[c].moved /\ k.wanted = syncs[c].wanted
    BY ONLY <1>2, <1>5, <2>1, <2>2, SetPc, c \in SyncClients
  <2> QED BY <1>2, <2>3
<1>7. GateFits' /\ Work' = k
  BY <1>2, <1>5, <1>6, WorkMoves DEF SyncInv
<1>8. JobFits'
  <2>1. JobInv(k, slots, blocks, egress, touched)
    BY <1>2, <1>6, AnnounceFits
  <2> QED BY <1>5, <1>7, <2>1 DEF JobFits
<1>9. /\ Losing(Work) = {} /\ (\A s : Left(Work, s) = {}) /\ Moving(Work) = {f.root} /\ MovedFrom(Work) = Work.moved
      /\ Swapping(Work) = {f.root}
  BY <1>2, <1>3 DEF Losing, Left, Moving, MovedFrom, Swapping, Replaced
<1>10. /\ Losing(Work') = Changed(slots, f) \cup Gone(slots, f) /\ Moving(Work') = {} /\ MovedFrom(Work') = {}
       /\ Swapping(Work') = {f.root} /\ Work'.pc = "stop"
  BY <1>2, <1>3, <1>4, <1>6, <1>7 DEF Losing, Moving, MovedFrom, Swapping, StopsFit
<1>11. SlotsFit(slots) /\ EgressFits(egress) /\ NoForeign(slots, f)
  BY <1>3, <1>4 DEF SyncInv, TablesFit, StopsFit
<1>12. RouteInv(routed, slots, {}, {}, TRUE) /\ routed \in Routing
  BY <1>2, <1>9 DEF SyncInv, ServicesRouted, RouteInv
<1>13. ServicesRouted'
  <2>1. PICK losing, left : losing = Changed(slots, f) \cup Gone(slots, f) /\ left = Left(Work', slots')
    OBVIOUS
  <2>2. RouteInv(routed', slots, left, losing, TRUE)
    BY ONLY HostsApart, <1>4, <1>5, <1>11, <1>12, <2>1, RoutesAnnounced
  <2>3. (boot' = "done") = TRUE
    BY <1>2, <1>5
  <2> QED BY <1>5, <1>10, <2>1, <2>2, <2>3 DEF ServicesRouted
<1>14. RoutesKnown'
  <2> SUFFICES ASSUME ~torn PROVE EgrInv(routed', egress, {}, {})
    BY <1>5, <1>10 DEF RoutesKnown
  <2>1. EgrInv(routed, egress, {f.root}, Work.moved)
    BY <1>2, <1>9 DEF SyncInv, RoutesKnown
  <2>2. \A h \in Work.moved : \E g \in Files : g.root = f.root /\ h \in HostsOfFile(g)
    BY <1>3, <1>4 DEF MovedFit
  <2> QED BY <1>4, <1>5, <1>11, <1>12, <2>1, <2>2, EgressAnnounced
<1>15. HostsMeet'
  BY <1>5, <1>9, <1>10 DEF SyncInv, HostsMeet
<1>16. TablesFit' /\ SavedFits' /\ RunnersFit' /\ BootFits'
  BY <1>2, <1>5 DEF SyncInv, TablesFit, SavedFits, RunnersFit, BootFits
<1> QED BY <1>7, <1>8, <1>13, <1>14, <1>15, <1>16 DEF SyncInv

\* What a stop inside a request leaves: the route, and the request's record.
LEMMA StopKeeps ==
  ASSUME HostsApart, SyncInv, NEW c \in SyncClients, NEW n \in Names, slots[n] # NoSlot, StopRunner(n),
         gate = c, boot = "done", Work.pc \in {"stop", "forget"},
         saved' = [Snapshot EXCEPT !.slots = slots'],
         UNCHANGED <<blocks, egress, routed, gate, boot, touched, torn>>,
         NEW k \in JobType, syncs' = [syncs EXCEPT ![c] = k], k.pc = Work.pc, k.file = Work.file,
         k.stop = Work.stop \ {n}, k.restart = Work.restart,
         Work.pc = "stop" => Work.file \in Files,
         n \in Left(Work, slots) \/ ~Wants(slots, n),
         JobInv(k, slots', blocks, egress, touched)
  PROVE  SyncInv'
<1>1. /\ SameTable(slots, slots') /\ \A m \in Names : Wants(slots', m) <=> Wants(slots, m) /\ m # n
      /\ RunnersFit'
  BY StopRunnerFits
<1>2. GateFits' /\ Work' = k
  BY WorkMoves DEF SyncInv
<1>3. JobFits' /\ Work' \in JobType
  BY <1>2 DEF JobFits
<1>4. TablesFit'
  <2>1. SlotsFit(slots')
    BY <1>1, SameFits DEF SyncInv, TablesFit
  <2> QED BY <2>1 DEF SyncInv, TablesFit
<1>5. Left(Work', slots') = Left(Work, slots)
  <2>1. CASE Work.pc = "stop"
    <3>1. Gone(slots', Work.file) = Gone(slots, Work.file)
      BY <1>1, <2>1, SameSets
    <3> QED BY <1>2, <2>1, <3>1 DEF Left
  <2>2. CASE Work.pc = "forget"
    BY <1>2, <2>2 DEF Left
  <2> QED BY <2>1, <2>2
<1>6. /\ Losing(Work') = Losing(Work) \ {n}
      /\ Moving(Work') = Moving(Work) /\ MovedFrom(Work') = MovedFrom(Work) /\ Swapping(Work') = Swapping(Work)
  BY <1>2 DEF Losing, Moving, MovedFrom, Swapping
<1>7. ServicesRouted'
  <2>1. PICK left, losing : left = Left(Work, slots) /\ losing = Losing(Work)
    OBVIOUS
  <2>2. RouteInv(routed, slots, left, losing, TRUE)
    <3>1. (boot = "done") = TRUE
      OBVIOUS
    <3> QED BY <2>1, <3>1 DEF SyncInv, ServicesRouted
  <2>3. \A m \in Names : Wants(slots', m) => Wants(slots, m)
    BY <1>1
  <2>4. \A m \in Names : slots[m] # NoSlot /\ (Wants(slots, m) \/ m \in left) => Wants(slots', m) \/ m \in left
    BY <1>1, <2>1
  <2>5. \A m \in losing : Wants(slots', m) => m \in losing \ {n}
    <3>1. ~Wants(slots', n)
      BY <1>1
    <3> QED BY <3>1
  <2>6. RouteInv(routed, slots', left, losing \ {n}, TRUE)
    BY ONLY <1>1, <2>2, <2>3, <2>4, <2>5, RoutesKept
  <2>7. (boot' = "done") = TRUE
    OBVIOUS
  <2> QED BY <1>5, <1>6, <2>1, <2>6, <2>7 DEF ServicesRouted
<1>8. RoutesKnown'
  BY <1>6 DEF SyncInv, RoutesKnown
<1>9. ~torn' => MeetInv(slots', egress', Swapping(Work'))
  <2> SUFFICES ASSUME ~torn PROVE MeetInv(slots', egress, Swapping(Work))
    BY <1>6
  <2>1. MeetInv(slots, egress, Swapping(Work))
    BY DEF SyncInv, HostsMeet
  <2>2. \A m \in Names : slots'[m] # NoSlot => slots[m] # NoSlot /\ slots'[m].root = slots[m].root /\ slots'[m].def = slots[m].def
    BY <1>1 DEF SameTable
  <2> QED BY <2>1, <2>2, MeetSame
<1>10. SavedFits' /\ HostsMeet'
  BY <1>3, <1>4, <1>9, SnapshotNow, SavedNow
<1>11. BootFits'
  BY DEF BootFits
<1> QED BY <1>1, <1>2, <1>3, <1>4, <1>7, <1>8, <1>10, <1>11 DEF SyncInv

LEMMA StopOneKeeps ==
  ASSUME HostsApart, SyncInv, NEW c \in SyncClients, StopOne(c)
  PROVE  SyncInv'
<1>1. At(c, "stop")
  BY DEF StopOne
<1>2. /\ gate = c /\ Work = syncs[c] /\ Job(c) = Work /\ Work.pc = "stop" /\ syncs[c] \in JobType /\ boot = "done"
      /\ (boot = "done") = TRUE /\ JobInv(Work, slots, blocks, egress, touched)
  BY <1>1, Working
<1>3. PICK f : f = Work.file
  OBVIOUS
<1>4. f \in Files /\ StopsFit(Work, slots, touched) /\ Work.stop \subseteq Names
  BY <1>2, <1>3, JobFields DEF JobInv
<1>5. ASSUME NEW n \in Work.stop,
             IF Present(n) THEN StopRunner(n) ELSE UNCHANGED <<slots, runner>>,
             syncs' = [syncs EXCEPT ![c].stop = Work.stop \ {n}],
             saved' = [Snapshot EXCEPT !.slots = slots'],
             UNCHANGED <<blocks, egress, routed, gate, boot, touched, torn>>
      PROVE  SyncInv'
  <2>1. n \in Names /\ n \in Changed(slots, f) \cup Gone(slots, f)
    BY <1>3, <1>4 DEF StopsFit
  <2>2. slots[n] # NoSlot /\ StopRunner(n)
    BY <1>5, <2>1 DEF Changed, Gone, HeldOf, Present
  <2>3. PICK k \in JobType : /\ syncs' = [syncs EXCEPT ![c] = k] /\ k.pc = Work.pc
          /\ k.file = Work.file /\ k.stop = Work.stop \ {n} /\ k.restart = Work.restart /\ k.wanted = Work.wanted
    <3>1. PICK a \in SUBSET Names : a = Work.stop \ {n}
      BY <1>4
    <3>2. syncs' = [syncs EXCEPT ![c].stop = a]
      BY <1>5, <3>1
    <3>3. GateFits
      BY DEF SyncInv
    <3>4. \E k \in JobType : /\ syncs' = [syncs EXCEPT ![c] = k] /\ k.pc = syncs[c].pc
            /\ k.file = syncs[c].file /\ k.stop = a /\ k.restart = syncs[c].restart
            /\ k.moved = syncs[c].moved /\ k.wanted = syncs[c].wanted
      BY ONLY <1>2, <3>2, <3>3, SetStop, c \in SyncClients, a \in SUBSET Names
    <3> QED BY <1>2, <3>1, <3>4
  <2>4. JobInv(k, slots', blocks, egress, touched)
    <3>1. /\ SameTable(slots, slots')
          /\ \A m \in Names : Wants(slots', m) <=> Wants(slots, m) /\ m # n
      BY <1>2, <1>5, <2>1, <2>2, StopRunnerFits
    <3>2. k.pc = "stop"
      BY <1>2, <2>3
    <3> QED BY ONLY <1>2, <2>3, <3>1, <3>2, StopFits, n \in Work.stop
  <2>5. n \in Left(Work, slots) \/ ~Wants(slots, n)
    <3>1. Left(Work, slots) = Work.restart \cup Gone(slots, f)
      BY <1>2, <1>3, Phase
    <3> QED BY <1>3, <1>4, <2>1, <3>1 DEF StopsFit
  <2>6. Work.pc \in {"stop", "forget"} /\ (Work.pc = "stop" => Work.file \in Files)
    BY <1>2, <1>3, <1>4
  <2> QED BY <1>2, <1>5, <2>1, <2>2, <2>3, <2>4, <2>5, <2>6, StopKeeps
<1>6. ASSUME Work.stop = {}, Proceeds(c, "replace"),
             UNCHANGED <<slots, runner, blocks, egress, routed, saved, gate, boot, touched, torn>>
      PROVE  SyncInv'
  <2>1. PICK k \in JobType : /\ syncs' = [syncs EXCEPT ![c] = k] /\ k.pc = "replace"
          /\ k.file = Work.file /\ k.stop = Work.stop /\ k.restart = Work.restart /\ k.wanted = Work.wanted
    <3>1. "replace" \in Pcs
      BY DEF Pcs
    <3>2. syncs' = [syncs EXCEPT ![c].pc = "replace"]
      BY <1>6 DEF Proceeds
    <3>3. GateFits
      BY DEF SyncInv
    <3>4. \E k \in JobType : /\ syncs' = [syncs EXCEPT ![c] = k] /\ k.pc = "replace"
            /\ k.file = syncs[c].file /\ k.stop = syncs[c].stop /\ k.restart = syncs[c].restart
            /\ k.moved = syncs[c].moved /\ k.wanted = syncs[c].wanted
      BY ONLY <1>2, <3>1, <3>2, <3>3, SetPc, c \in SyncClients
    <3> QED BY <1>2, <3>4
  <2>2. GateFits' /\ Work' = k
    BY <1>2, <1>6, <2>1, WorkMoves DEF SyncInv
  <2>3. JobFits'
    <3>1. JobInv(k, slots, blocks, egress, touched)
      BY <1>2, <1>6, <2>1, AnnounceFits
    <3> QED BY <1>6, <2>2, <3>1 DEF JobFits
  <2>4. /\ Left(Work', slots) = Left(Work, slots) /\ Losing(Work') = Losing(Work)
        /\ Moving(Work') = Moving(Work) /\ MovedFrom(Work') = MovedFrom(Work) /\ Swapping(Work') = Swapping(Work)
    BY <1>2, <1>6, <2>1, <2>2 DEF Left, Losing, Moving, MovedFrom, Swapping
  <2>5. ServicesRouted' /\ RoutesKnown'
    BY <1>6, <2>4 DEF SyncInv, ServicesRouted, RoutesKnown
  <2>6. HostsMeet'
    <3>1. ~torn => MeetInv(slots, egress, Swapping(Work))
      BY DEF SyncInv, HostsMeet
    <3> QED BY <1>6, <2>1, <2>2, <2>4, <3>1 DEF HostsMeet
  <2>7. TablesFit' /\ SavedFits' /\ RunnersFit' /\ BootFits'
    BY <1>2, <1>6 DEF SyncInv, TablesFit, SavedFits, RunnersFit, BootFits
  <2> QED BY <2>2, <2>3, <2>5, <2>6, <2>7 DEF SyncInv
<1>7. CASE /\ \E n \in Job(c).stop :
                /\ IF Present(n) THEN StopRunner(n) ELSE UNCHANGED <<slots, runner>>
                /\ syncs' = [syncs EXCEPT ![c].stop = Job(c).stop \ {n}]
           /\ saved' = [Snapshot EXCEPT !.slots = slots']
           /\ UNCHANGED <<blocks, egress, routed, gate, boot, touched, torn, crashes>>
  BY <1>2, <1>5, <1>7
<1>8. CASE /\ Job(c).stop = {} /\ Proceeds(c, "replace")
           /\ UNCHANGED <<slots, runner, blocks, egress, routed, saved, gate, boot, touched, torn, crashes>>
  BY <1>2, <1>6, <1>8
<1> QED BY <1>7, <1>8 DEF StopOne

\* What a sync that replaces services does to their table.
LEMMA Rewrites ==
  ASSUME SyncInv, NEW c \in SyncClients, Replace(c)
  PROVE  LET f == Work.file
         IN  /\ f \in Files /\ NoForeign(slots, f) /\ SlotsFit(slots') /\ SlotsOf(slots', f)
             /\ \A n \in DOMAIN f.services : slots'[n] # NoSlot /\ slots'[n].root = f.root /\ slots'[n].def = f.services[n]
             /\ \A n \in Names \ DOMAIN f.services : slots'[n] # NoSlot => slots'[n] = slots[n] /\ slots[n].root # f.root
             /\ \A n \in Names : slots'[n] = NoSlot => slots[n] = NoSlot \/ n \in Gone(slots, f)
             /\ \A n \in Names : Wants(slots', n) <=> Wants(slots, n) /\ n \notin Gone(slots, f)
<1>1. At(c, "replace")
  BY DEF Replace
<1>2. Job(c) = Work /\ Work.pc = "replace" /\ JobInv(Work, slots, blocks, egress, touched)
  BY <1>1, Working
<1>3. PICK f : f = Work.file
  OBVIOUS
<1>4. f \in Files /\ NoForeign(slots, f)
  BY <1>2, <1>3 DEF JobInv, StopsFit
<1>5. slots' = [n \in Names |->
             IF n \in Gone(slots, f) THEN NoSlot
             ELSE IF n \in DOMAIN f.services
                  THEN [root |-> IF slots[n] # NoSlot THEN slots[n].root ELSE f.root,
                        def |-> f.services[n], desired |-> Wants(slots, n)]
                  ELSE slots[n]]
  BY <1>2, <1>3 DEF Replace, Gone, Held, HeldOf, Wants, Wanted, Present
<1>6. SlotsFit(slots)
  BY DEF SyncInv, TablesFit
<1> QED BY <1>3, <1>4, <1>5, <1>6, ReplacedSlots

LEMMA ReplaceKeeps ==
  ASSUME HostsApart, SyncInv, NEW c \in SyncClients, Replace(c)
  PROVE  SyncInv'
<1>1. At(c, "replace")
  BY DEF Replace
<1>2. /\ gate = c /\ Work = syncs[c] /\ Job(c) = Work /\ Work.pc = "replace" /\ syncs[c] \in JobType /\ boot = "done"
      /\ (boot = "done") = TRUE /\ JobInv(Work, slots, blocks, egress, touched)
  BY <1>1, Working
<1>3. PICK f : f = Work.file
  OBVIOUS
<1>4. PICK gone, moved : /\ gone = Gone(slots, f)
        /\ moved = {n \in DOMAIN f.services : slots[n] # NoSlot /\ slots[n].def.host # f.services[n].host}
  OBVIOUS
<1>5. /\ UNCHANGED <<blocks, egress, saved, gate, boot, touched, torn>>
      /\ syncs' = [syncs EXCEPT ![c].pc = "save"]
      /\ runner' = [n \in Names |-> IF n \in gone THEN NoRunner ELSE runner[n]]
      /\ routed' = Release(routed, "service", {slots[n].def.host : n \in gone \cup moved})
  BY <1>2, <1>3, <1>4 DEF Replace, Proceeds, HostsOf, Gone, Held, HeldOf, Present
<1>6. /\ f \in Files /\ NoForeign(slots, f) /\ SlotsFit(slots') /\ SlotsOf(slots', f)
      /\ \A n \in DOMAIN f.services : slots'[n] # NoSlot /\ slots'[n].root = f.root /\ slots'[n].def = f.services[n]
      /\ \A n \in Names \ DOMAIN f.services : slots'[n] # NoSlot => slots'[n] = slots[n] /\ slots[n].root # f.root
      /\ \A n \in Names : slots'[n] = NoSlot => slots[n] = NoSlot \/ n \in Gone(slots, f)
      /\ \A n \in Names : Wants(slots', n) <=> Wants(slots, n) /\ n \notin Gone(slots, f)
  BY <1>3, Rewrites
<1>7. /\ StopsFit(Work, slots, touched) /\ TablesOf(blocks, egress, f) /\ Work.stop = {}
  BY <1>2, <1>3 DEF JobInv, StopsFit
<1>8. SlotsFit(slots) /\ EgressFits(egress) /\ DOMAIN f.services \subseteq Names
  BY <1>6, SyncAssumption DEF SyncInv, TablesFit, IsFile
<1>9. \A n \in Changed(slots, f) \cup Gone(slots, f) : ~Wants(slots, n)
  BY <1>3, <1>7 DEF StopsFit
<1>10. PICK k \in JobType : /\ syncs' = [syncs EXCEPT ![c] = k] /\ k.pc = "save"
        /\ k.file = Work.file /\ k.restart = Work.restart /\ k.wanted = Work.wanted
  <2>1. "save" \in Pcs
    BY DEF Pcs
  <2>2. GateFits
    BY DEF SyncInv
  <2>3. \E k \in JobType : /\ syncs' = [syncs EXCEPT ![c] = k] /\ k.pc = "save"
          /\ k.file = syncs[c].file /\ k.stop = syncs[c].stop /\ k.restart = syncs[c].restart
          /\ k.moved = syncs[c].moved /\ k.wanted = syncs[c].wanted
    BY ONLY <1>2, <1>5, <2>1, <2>2, SetPc, c \in SyncClients
  <2> QED BY <1>2, <2>3
<1>11. GateFits' /\ Work' = k
  BY <1>2, <1>5, <1>10, WorkMoves DEF SyncInv
<1>12. JobFits'
  <2>1. SlotsOf(slots', Work.file) /\ \A n \in Names : Wants(slots', n) <=> Wants(slots, n) /\ n \notin Gone(slots, Work.file)
    BY <1>3, <1>6
  <2>2. JobInv(k, slots', blocks, egress, touched)
    BY ONLY <1>2, <1>10, <2>1, ReplaceFits
  <2> QED BY <1>5, <1>11, <2>2 DEF JobFits
<1>13. Losing(Work) = {} /\ Moving(Work) = {} /\ MovedFrom(Work) = {} /\ Swapping(Work) = {f.root}
       /\ Left(Work, slots) = Work.restart \cup gone
  BY <1>2, <1>3, <1>4, Phase
<1>14. k.file # Idle
  BY <1>3, <1>6, <1>10, SyncAssumption
<1>15. Losing(Work') = {} /\ Moving(Work') = {} /\ MovedFrom(Work') = {} /\ Swapping(Work') = {} /\ Work'.pc = "save"
       /\ \A s : Left(Work', s) = Work.restart
  BY <1>10, <1>11, <1>14, Phase
<1>16. RunnersFit'
  <2>1. \A n \in Names : runner[n] = IF Wants(slots, n) THEN slots[n].def ELSE NoRunner
    BY <1>2 DEF SyncInv, RunnersFit
  <2>2. ASSUME NEW n \in Names
        PROVE  runner'[n] = IF Wants(slots', n) THEN slots'[n].def ELSE NoRunner
    <3>1. runner'[n] = IF n \in gone THEN NoRunner ELSE runner[n]
      BY <1>5
    <3>2. CASE n \in gone
      BY <1>4, <1>6, <3>1, <3>2
    <3>3. CASE n \notin gone /\ ~Wants(slots, n)
      BY <1>6, <2>1, <3>1, <3>3
    <3>4. CASE n \notin gone /\ Wants(slots, n)
      <4>1. slots[n] # NoSlot /\ n \notin Changed(slots, f) /\ Wants(slots', n) /\ slots'[n] # NoSlot
        BY <1>4, <1>6, <1>9, <3>4 DEF Wants
      <4>2. CASE n \in DOMAIN f.services
        <5>1. slots'[n].def = slots[n].def
          BY <1>6, <4>1, <4>2 DEF Changed
        <5> QED BY <2>1, <3>1, <3>4, <4>1, <5>1
      <4>3. CASE n \notin DOMAIN f.services
        <5>1. slots'[n] = slots[n]
          BY <1>6, <4>1, <4>3
        <5> QED BY <2>1, <3>1, <3>4, <4>1, <5>1
      <4> QED BY <4>2, <4>3
    <3> QED BY <3>2, <3>3, <3>4
  <2>3. boot' = "done" /\ runner' = [n \in Names |-> runner'[n]]
    BY <1>2, <1>5
  <2> QED BY <2>2, <2>3 DEF RunnersFit
<1>17. routed \in Routing /\ RouteInv(routed, slots, Work.restart \cup gone, {}, TRUE)
  BY <1>2, <1>13 DEF SyncInv, ServicesRouted, RouteInv
<1>18. ServicesRouted'
  <2>1. PICK ds : ds = gone \cup moved
    OBVIOUS
  <2>2. \A n \in moved : n \in Changed(slots, f) /\ n \in Names
    BY <1>4, <1>8 DEF Changed
  <2>3. \A n \in gone : n \in Names /\ slots[n] # NoSlot /\ slots'[n] = NoSlot
    <3>1. \A n \in gone : n \in Names /\ slots[n] # NoSlot /\ slots[n].root = f.root /\ n \notin DOMAIN f.services
      BY <1>4 DEF Gone, HeldOf
    <3> QED BY <1>6, <3>1
  <2>4. Drops(slots, slots', ds)
    <3>1. ds \in SUBSET Names /\ \A n \in ds : slots[n] # NoSlot
      BY <1>4, <2>1, <2>2, <2>3
    <3>2. ASSUME NEW n \in Names \ ds, slots[n] # NoSlot
          PROVE  slots'[n] # NoSlot /\ slots'[n].def.host = slots[n].def.host
      <4>1. slots'[n] # NoSlot
        BY <1>4, <1>6, <2>1, <3>2
      <4>2. CASE n \in DOMAIN f.services
        BY <1>4, <1>6, <2>1, <3>2, <4>1, <4>2
      <4>3. CASE n \notin DOMAIN f.services
        BY <1>6, <4>1, <4>3
      <4> QED BY <4>1, <4>2, <4>3
    <3>3. \A n \in Names : Wants(slots', n) <=> Wants(slots, n) /\ n \notin ds
      BY <1>4, <1>6, <1>9, <2>1, <2>2
    <3> QED BY <3>1, <3>2, <3>3 DEF Drops
  <2>5. PICK left : left = Work.restart \cup gone
    OBVIOUS
  <2>6. RouteInv(routed', slots', left, {}, TRUE)
    <3>1. routed' = Release(routed, "service", {slots[n].def.host : n \in ds})
      BY <1>5, <2>1
    <3>2. RouteInv(routed, slots, left, {}, TRUE)
      BY <1>17, <2>5
    <3> QED BY ONLY HostsApart, <1>8, <2>4, <3>1, <3>2, RoutesReleased
  <2>7. RouteInv(routed', slots', Work.restart, {}, TRUE)
    BY <2>3, <2>5, <2>6 DEF RouteInv
  <2>8. (boot' = "done") = TRUE
    BY <1>2, <1>5
  <2> QED BY <1>15, <2>7, <2>8 DEF ServicesRouted
<1>19. RoutesKnown'
  <2> SUFFICES ASSUME ~torn PROVE EgrInv(routed', egress, {}, {})
    BY <1>5, <1>15 DEF RoutesKnown
  <2>1. EgrInv(routed, egress, {}, {})
    BY <1>2, <1>13 DEF SyncInv, RoutesKnown
  <2> QED BY <1>5, <1>17, <2>1, EgressUnreleased
<1>20. HostsMeet'
  <2> SUFFICES ASSUME ~torn PROVE MeetInv(slots', egress, {})
    BY <1>5, <1>15 DEF HostsMeet
  <2>1. MeetInv(slots, egress, {f.root})
    BY <1>13 DEF SyncInv, HostsMeet
  <2> QED BY <1>6, <1>7, <1>8, <2>1, MeetReplaced
<1>21. TablesFit' /\ SavedFits' /\ BootFits'
  BY <1>2, <1>5, <1>6 DEF SyncInv, TablesFit, SavedFits, BootFits
<1> QED BY <1>11, <1>12, <1>16, <1>18, <1>19, <1>20, <1>21 DEF SyncInv

LEMMA SaveKeeps ==
  ASSUME SyncInv, NEW c \in SyncClients, Save(c)
  PROVE  SyncInv'
<1>1. At(c, "save")
  BY DEF Save
<1>2. /\ gate = c /\ Work = syncs[c] /\ Job(c) = Work /\ Work.pc = "save" /\ syncs[c] \in JobType /\ boot = "done"
      /\ (boot = "done") = TRUE /\ JobInv(Work, slots, blocks, egress, touched)
  BY <1>1, Working
<1>3. UNCHANGED <<slots, runner, blocks, egress, routed, boot, touched, torn>> /\ saved' = Snapshot
  BY DEF Save
<1>4. CASE Work.file = Idle
  <2>1. LeaveGate(c)
    BY <1>2, <1>4 DEF Save
  <2>2. Left(Work, slots) = {}
    BY <1>2, <1>4, Phase
  <2> QED BY <1>2, <1>3, <2>1, <2>2, LeaveKeeps
<1>5. CASE Work.file # Idle
  <2>1. syncs' = [syncs EXCEPT ![c].pc = "restart"] /\ gate' = gate
    BY <1>2, <1>5 DEF Save, Proceeds
  <2>2. PICK k \in JobType : /\ syncs' = [syncs EXCEPT ![c] = k] /\ k.pc = "restart"
          /\ k.file = Work.file /\ k.restart = Work.restart /\ k.wanted = Work.wanted
    <3>1. "restart" \in Pcs
      BY DEF Pcs
    <3>2. GateFits
      BY DEF SyncInv
    <3>3. \E k \in JobType : /\ syncs' = [syncs EXCEPT ![c] = k] /\ k.pc = "restart"
            /\ k.file = syncs[c].file /\ k.stop = syncs[c].stop /\ k.restart = syncs[c].restart
            /\ k.moved = syncs[c].moved /\ k.wanted = syncs[c].wanted
      BY ONLY <1>2, <2>1, <3>1, <3>2, SetPc, c \in SyncClients
    <3> QED BY <1>2, <3>3
  <2>3. GateFits' /\ Work' = k
    BY <1>2, <2>1, <2>2, WorkMoves DEF SyncInv
  <2>4. JobFits' /\ Work' \in JobType
    <3>1. JobInv(k, slots, blocks, egress, touched)
      BY <1>2, <1>5, <2>2, SaveFits
    <3> QED BY <1>3, <2>2, <2>3, <3>1 DEF JobFits
  <2>5. /\ Left(Work', slots) = Left(Work, slots) /\ Losing(Work') = Losing(Work)
        /\ Moving(Work') = Moving(Work) /\ MovedFrom(Work') = MovedFrom(Work) /\ Swapping(Work') = Swapping(Work)
    <3>1. Left(Work, slots) = Work.restart /\ Left(Work', slots) = Work.restart
      BY <1>2, <1>5, <2>2, <2>3, Phase
    <3>2. Losing(Work) = {} /\ Moving(Work) = {} /\ MovedFrom(Work) = {} /\ Swapping(Work) = {}
      BY <1>2, Phase
    <3>3. Losing(k) = {} /\ Moving(k) = {} /\ MovedFrom(k) = {} /\ Swapping(k) = {}
      BY <2>2, Phase
    <3> QED BY <2>3, <3>1, <3>2, <3>3
  <2>6. ServicesRouted' /\ RoutesKnown'
    BY <1>3, <2>5 DEF SyncInv, ServicesRouted, RoutesKnown
  <2>7. TablesFit' /\ RunnersFit' /\ BootFits'
    BY <1>2, <1>3 DEF SyncInv, TablesFit, RunnersFit, BootFits
  <2>8. SavedFits' /\ HostsMeet'
    <3>1. ~torn' => MeetInv(slots', egress', Swapping(Work'))
      BY <1>3, <2>5 DEF SyncInv, HostsMeet
    <3>2. saved' = [slots |-> slots', blocks |-> blocks', egress |-> egress']
      BY <1>3 DEF Snapshot
    <3> QED BY <2>4, <2>7, <3>1, <3>2, SavedNow
  <2> QED BY <2>3, <2>4, <2>6, <2>7, <2>8 DEF SyncInv
<1> QED BY <1>4, <1>5

LEMMA RestartOneKeeps ==
  ASSUME HostsApart, SyncInv, NEW c \in SyncClients, RestartOne(c)
  PROVE  SyncInv'
<1>1. At(c, "restart")
  BY DEF RestartOne
<1>2. /\ gate = c /\ Work = syncs[c] /\ Job(c) = Work /\ Work.pc = "restart" /\ syncs[c] \in JobType /\ boot = "done"
      /\ (boot = "done") = TRUE /\ JobInv(Work, slots, blocks, egress, touched)
  BY <1>1, Working
<1>3. PICK n \in Work.restart : BringUp(Closure({n})) /\ syncs' = [syncs EXCEPT ![c].restart = Work.restart \ {n}]
  BY <1>2 DEF RestartOne
<1>4. UNCHANGED <<blocks, egress, gate, boot, touched, torn>> /\ saved' = [Snapshot EXCEPT !.slots = slots']
  BY DEF RestartOne
<1>5. Work.restart \in SUBSET Names
  BY <1>2, JobFields
<1>6. PICK ts : ts = Closure({n})
  OBVIOUS
<1>7. ts \in SUBSET Names /\ (\A m \in ts : slots[m] # NoSlot) /\ BringUp(ts) /\ (slots[n] # NoSlot => n \in ts)
  BY <1>3, <1>5, <1>6, ClosureFits
<1>8. /\ SameTable(slots, slots') /\ \A m \in Names : Wants(slots', m) <=> Wants(slots, m) \/ m \in ts
      /\ RunnersFit'
      /\ \A left : Left(Work, slots) \subseteq left \cup ts => RouteInv(routed', slots', left, {}, TRUE)
      /\ ~torn => EgrInv(routed', egress, {}, {}) /\ MeetInv(slots', egress, {})
  BY <1>2, <1>4, <1>7, BringUpFits
<1>9. PICK k \in JobType : /\ syncs' = [syncs EXCEPT ![c] = k] /\ k.pc = "restart"
        /\ k.file = Work.file /\ k.restart = Work.restart \ {n} /\ k.wanted = Work.wanted
  <2>1. PICK a \in SUBSET Names : a = Work.restart \ {n}
    BY <1>5
  <2>2. RestartsAs(c, a)
    BY <1>3, <2>1 DEF RestartsAs
  <2>3. GateFits
    BY DEF SyncInv
  <2>4. syncs[c] \in JobType
    BY <1>2
  <2>5. \E k \in JobType : /\ syncs' = [syncs EXCEPT ![c] = k] /\ k.pc = syncs[c].pc
          /\ k.file = syncs[c].file /\ k.stop = syncs[c].stop /\ k.restart = a
          /\ k.moved = syncs[c].moved /\ k.wanted = syncs[c].wanted
    BY ONLY <2>1, <2>2, <2>3, <2>4, SetRestart, c \in SyncClients
  <2>6. PICK k \in JobType : /\ syncs' = [syncs EXCEPT ![c] = k] /\ k.pc = syncs[c].pc
          /\ k.file = syncs[c].file /\ k.restart = a /\ k.wanted = syncs[c].wanted
    BY <2>5
  <2>7. k.pc = "restart" /\ k.file = Work.file /\ k.restart = Work.restart \ {n} /\ k.wanted = Work.wanted
    BY <1>2, <2>1, <2>6
  <2> QED BY <2>6, <2>7
<1>10. GateFits' /\ Work' = k
  BY <1>2, <1>4, <1>9, WorkMoves DEF SyncInv
<1>11. JobFits' /\ Work' \in JobType
  <2>1. JobInv(k, slots', blocks, egress, touched)
    BY ONLY <1>2, <1>3, <1>7, <1>8, <1>9, RestartFits
  <2> QED BY <1>4, <1>9, <1>10, <2>1 DEF JobFits
<1>12. /\ Losing(Work') = {} /\ Moving(Work') = {} /\ MovedFrom(Work') = {} /\ Swapping(Work') = {}
       /\ Left(Work', slots') = Work.restart \ {n} /\ Left(Work, slots) = Work.restart
  BY <1>2, <1>9, <1>10, Phase
<1>13. ServicesRouted'
  <2>1. SlotsOf(slots, Work.file) /\ Work.restart \subseteq DOMAIN Work.file.services
    BY <1>2 DEF JobInv, RestartsFit, Replaced
  <2>2. n \in ts
    BY <1>3, <1>7, <2>1 DEF SlotsOf, HeldOf
  <2>3. RouteInv(routed', slots', Work.restart \ {n}, {}, TRUE)
    BY <1>8, <1>12, <2>2
  <2>4. (boot' = "done") = TRUE
    BY <1>2, <1>4
  <2> QED BY <1>12, <2>3, <2>4 DEF ServicesRouted
<1>14. RoutesKnown' /\ (~torn' => MeetInv(slots', egress', Swapping(Work')))
  BY <1>4, <1>8, <1>12 DEF RoutesKnown
<1>15. TablesFit'
  <2>1. SlotsFit(slots')
    BY <1>8, SameFits DEF SyncInv, TablesFit
  <2> QED BY <1>4, <2>1 DEF SyncInv, TablesFit
<1>16. SavedFits' /\ HostsMeet'
  BY <1>4, <1>11, <1>14, <1>15, SnapshotNow, SavedNow
<1>17. BootFits'
  BY <1>2, <1>4 DEF BootFits
<1> QED BY <1>8, <1>10, <1>11, <1>13, <1>14, <1>15, <1>16, <1>17 DEF SyncInv

LEMMA SyncReturnsKeeps ==
  ASSUME SyncInv, NEW c \in SyncClients, SyncReturns(c)
  PROVE  SyncInv'
<1>1. At(c, "restart") /\ LeaveGate(c) /\ UNCHANGED <<slots, runner, blocks, egress, routed, saved, boot, torn>>
  BY DEF SyncReturns
<1>2. gate = c /\ Job(c) = Work /\ Work.pc = "restart" /\ Work \in JobType /\ boot = "done"
  BY <1>1, Working
<1>3. Left(Work, slots) = {}
  <2>1. Work.restart = {}
    BY <1>2 DEF SyncReturns
  <2> QED BY <1>2, <2>1, Phase
<1> QED BY <1>1, <1>2, <1>3, LeaveKeeps

LEMMA ForgetBeginKeeps ==
  ASSUME SyncInv, NEW c \in SyncClients, NEW names \in SUBSET Names, ForgetBegin(c, names)
  PROVE  SyncInv'
<1>1. /\ boot = "done" /\ gate = Nobody /\ gate' = c
      /\ UNCHANGED <<slots, runner, blocks, egress, routed, saved, boot, touched, torn>>
      /\ \A n \in names : slots[n] # NoSlot
      /\ \A n \in Names \ names : slots[n] # NoSlot => slots[n].def.depends \cap names = {}
  BY DEF ForgetBegin, Present
<1>2. PICK k : k = [pc |-> "forget", file |-> Idle, stop |-> names, restart |-> names, moved |-> {}, wanted |-> {}]
  OBVIOUS
<1>3. syncs' = [syncs EXCEPT ![c] = k]
  BY <1>2 DEF ForgetBegin
<1>4. GateFits' /\ Work' = k
  BY <1>1, <1>3, WorkMoves DEF SyncInv
<1>5. JobInv(k, slots, blocks, egress, touched) /\ k.pc = "forget"
  BY <1>1, <1>2, ForgetBeginFits
<1>6. JobFits' /\ Work' \in JobType
  BY <1>1, <1>4, <1>5 DEF JobFits, JobInv
<1>7. Losing(Work') = {} /\ Moving(Work') = {} /\ MovedFrom(Work') = {} /\ Swapping(Work') = {}
  BY <1>4, <1>5, <1>6, Phase
<1>8. ServicesRouted' /\ RoutesKnown' /\ HostsMeet'
  <2>1. RouteInv(routed, slots, {}, {}, boot = "done")
    BY <1>1, NoWork DEF SyncInv, ServicesRouted
  <2>2. RouteInv(routed, slots, Left(Work', slots), {}, boot = "done")
    BY <2>1 DEF RouteInv
  <2>3. boot # "load" /\ ~torn => EgrInv(routed, egress, {}, {})
    BY <1>1, NoWork DEF SyncInv, RoutesKnown
  <2>4. ~torn => MeetInv(slots, egress, {}) /\ MeetInv(saved.slots, saved.egress, {})
    BY <1>1, NoWork DEF SyncInv, HostsMeet
  <2> QED BY <1>1, <1>7, <2>2, <2>3, <2>4 DEF ServicesRouted, RoutesKnown, HostsMeet
<1>9. TablesFit' /\ SavedFits' /\ RunnersFit' /\ BootFits'
  BY <1>1 DEF SyncInv, TablesFit, SavedFits, RunnersFit, BootFits
<1> QED BY <1>4, <1>6, <1>8, <1>9 DEF SyncInv

LEMMA ForgetStopKeeps ==
  ASSUME HostsApart, SyncInv, NEW c \in SyncClients, ForgetStop(c)
  PROVE  SyncInv'
<1>1. At(c, "forget")
  BY DEF ForgetStop
<1>2. /\ gate = c /\ Work = syncs[c] /\ Job(c) = Work /\ Work.pc = "forget" /\ syncs[c] \in JobType /\ boot = "done"
      /\ JobInv(Work, slots, blocks, egress, touched)
  BY <1>1, Working
<1>3. PICK n \in Work.stop : /\ IF Present(n) THEN StopRunner(n) ELSE UNCHANGED <<slots, runner>>
                             /\ syncs' = [syncs EXCEPT ![c].stop = Work.stop \ {n}]
  BY <1>2 DEF ForgetStop
<1>4. UNCHANGED <<blocks, egress, routed, gate, boot, touched, torn>> /\ saved' = [Snapshot EXCEPT !.slots = slots']
  BY DEF ForgetStop
<1>5. ForgetFit(Work, slots) /\ Work.stop \in SUBSET Names
  BY <1>2, JobFields DEF JobInv
<1>6. n \in Names /\ slots[n] # NoSlot /\ StopRunner(n)
  BY <1>3, <1>5 DEF ForgetFit, Present
<1>7. PICK k \in JobType : /\ syncs' = [syncs EXCEPT ![c] = k] /\ k.pc = Work.pc
        /\ k.file = Work.file /\ k.stop = Work.stop \ {n} /\ k.restart = Work.restart
  <2>1. PICK a \in SUBSET Names : a = Work.stop \ {n}
    BY <1>5
  <2>2. syncs' = [syncs EXCEPT ![c].stop = a] /\ syncs[c] \in JobType
    BY <1>2, <1>3, <2>1
  <2>3. GateFits
    BY DEF SyncInv
  <2>4. \E k \in JobType : /\ syncs' = [syncs EXCEPT ![c] = k] /\ k.pc = syncs[c].pc
          /\ k.file = syncs[c].file /\ k.stop = a /\ k.restart = syncs[c].restart
          /\ k.moved = syncs[c].moved /\ k.wanted = syncs[c].wanted
    BY ONLY <2>2, <2>3, SetStop, c \in SyncClients, a \in SUBSET Names
  <2> QED BY <1>2, <2>1, <2>4
<1>8. JobInv(k, slots', blocks, egress, touched)
  <2>1. /\ SameTable(slots, slots')
        /\ \A m \in Names : Wants(slots', m) <=> Wants(slots, m) /\ m # n
    BY <1>2, <1>4, <1>6, StopRunnerFits
  <2>2. k.pc = "forget"
    BY <1>2, <1>7
  <2> QED BY ONLY <1>2, <1>7, <2>1, <2>2, ForgetStopFits, n \in Work.stop
<1>9. n \in Left(Work, slots)
  BY <1>2, <1>5, Phase DEF ForgetFit
<1>10. Work.pc \in {"stop", "forget"} /\ (Work.pc = "stop" => Work.file \in Files)
  BY <1>2
<1> QED BY <1>2, <1>4, <1>6, <1>7, <1>8, <1>9, <1>10, StopKeeps

LEMMA ForgetDropKeeps ==
  ASSUME HostsApart, SyncInv, NEW c \in SyncClients, ForgetDrop(c)
  PROVE  SyncInv'
<1>1. At(c, "forget")
  BY DEF ForgetDrop
<1>2. /\ gate = c /\ Work = syncs[c] /\ Job(c) = Work /\ Work.pc = "forget" /\ syncs[c] \in JobType /\ boot = "done"
      /\ (boot = "done") = TRUE /\ JobInv(Work, slots, blocks, egress, touched)
  BY <1>1, Working
<1>3. PICK ds : ds = Work.restart
  OBVIOUS
<1>4. ForgetFit(Work, slots) /\ Work.stop = {} /\ ds \in SUBSET Names /\ Work.file = Idle
  BY <1>2, <1>3, JobFields DEF JobInv, ForgetDrop, ForgetFit
<1>5. /\ \A n \in ds : slots[n] # NoSlot /\ ~Wants(slots, n)
      /\ \A n \in Names \ ds : slots[n] # NoSlot => \A d \in slots[n].def.depends : d \notin ds
  BY <1>3, <1>4 DEF ForgetFit
<1>6. /\ UNCHANGED <<blocks, egress, saved, gate, boot, touched, torn>>
      /\ syncs' = [syncs EXCEPT ![c].pc = "save"]
      /\ Dropped(ds)
  <2>1. {n \in Job(c).restart : Present(n)} = ds
    BY <1>2, <1>3, <1>5 DEF Present
  <2> QED BY <2>1 DEF ForgetDrop, Proceeds
<1>7. /\ slots' = [n \in Names |-> IF n \in ds THEN NoSlot ELSE slots[n]]
      /\ runner' = [n \in Names |-> IF n \in ds THEN NoRunner ELSE runner[n]]
      /\ routed' = Release(routed, "service", {slots[n].def.host : n \in ds})
  BY <1>6 DEF Dropped, HostsOf
<1>8. SlotsFit(slots') /\ \A n \in Names : Wants(slots', n) <=> Wants(slots, n) /\ n \notin ds
  <2>1. SlotsFit(slots)
    BY DEF SyncInv, TablesFit
  <2> QED BY <1>4, <1>5, <1>7, <2>1, DroppedSlots
<1>9. /\ \A n \in ds : slots'[n] = NoSlot
      /\ \A n \in Names \ ds : slots'[n] = slots[n]
  BY <1>4, <1>7
<1>10. PICK k \in JobType : syncs' = [syncs EXCEPT ![c] = k] /\ k.pc = "save" /\ k.file = Idle
  <2>1. "save" \in Pcs /\ syncs[c] \in JobType
    BY <1>2 DEF Pcs
  <2>2. GateFits
    BY DEF SyncInv
  <2>3. \E k \in JobType : /\ syncs' = [syncs EXCEPT ![c] = k] /\ k.pc = "save"
          /\ k.file = syncs[c].file /\ k.stop = syncs[c].stop /\ k.restart = syncs[c].restart
          /\ k.moved = syncs[c].moved /\ k.wanted = syncs[c].wanted
    BY ONLY <1>6, <2>1, <2>2, SetPc, c \in SyncClients
  <2> QED BY <1>2, <1>4, <2>3
<1>11. GateFits' /\ Work' = k
  BY <1>2, <1>6, <1>10, WorkMoves DEF SyncInv
<1>12. JobFits'
  BY <1>10, <1>11, ForgetDropFits DEF JobFits
<1>13. Losing(Work) = {} /\ Moving(Work) = {} /\ MovedFrom(Work) = {} /\ Swapping(Work) = {} /\ Left(Work, slots) = ds
  BY <1>2, <1>3, Phase
<1>14. Losing(Work') = {} /\ Moving(Work') = {} /\ MovedFrom(Work') = {} /\ Swapping(Work') = {} /\ Work'.pc = "save"
       /\ \A s : Left(Work', s) = {}
  BY <1>10, <1>11, Phase
<1>15. RunnersFit'
  <2>1. \A n \in Names : runner[n] = IF Wants(slots, n) THEN slots[n].def ELSE NoRunner
    BY <1>2 DEF SyncInv, RunnersFit
  <2>2. \A n \in Names : runner'[n] = IF Wants(slots', n) THEN slots'[n].def ELSE NoRunner
    BY <1>7, <1>8, <1>9, <2>1
  <2>3. boot' = "done" /\ runner' = [n \in Names |-> runner'[n]]
    BY <1>2, <1>6, <1>7
  <2> QED BY <2>2, <2>3 DEF RunnersFit
<1>16. routed \in Routing /\ RouteInv(routed, slots, ds, {}, TRUE) /\ SlotsFit(slots)
  BY <1>2, <1>13 DEF SyncInv, ServicesRouted, RouteInv, TablesFit
<1>17. ServicesRouted'
  <2>1. Drops(slots, slots', ds)
    BY <1>4, <1>5, <1>8, <1>9 DEF Drops
  <2>2. RouteInv(routed', slots', ds, {}, TRUE)
    BY ONLY HostsApart, <1>7, <1>16, <2>1, RoutesReleased
  <2>3. RouteInv(routed', slots', {}, {}, TRUE)
    BY <1>9, <2>2 DEF RouteInv
  <2>4. (boot' = "done") = TRUE
    BY <1>2, <1>6
  <2> QED BY <1>14, <2>3, <2>4 DEF ServicesRouted
<1>18. RoutesKnown'
  <2> SUFFICES ASSUME ~torn PROVE EgrInv(routed', egress, {}, {})
    BY <1>6, <1>14 DEF RoutesKnown
  <2>1. EgrInv(routed, egress, {}, {})
    BY <1>2, <1>13 DEF SyncInv, RoutesKnown
  <2> QED BY <1>7, <1>16, <2>1, EgressUnreleased
<1>19. HostsMeet'
  <2> SUFFICES ASSUME ~torn PROVE MeetInv(slots', egress, {})
    BY <1>6, <1>14 DEF HostsMeet
  <2>1. MeetInv(slots, egress, {})
    BY <1>13 DEF SyncInv, HostsMeet
  <2>2. \A n \in Names : slots'[n] # NoSlot => slots'[n] = slots[n]
    BY <1>9
  <2> QED BY <2>1, <2>2 DEF MeetInv
<1>20. TablesFit' /\ SavedFits' /\ BootFits'
  BY <1>2, <1>6, <1>8 DEF SyncInv, TablesFit, SavedFits, BootFits
<1> QED BY <1>11, <1>12, <1>15, <1>17, <1>18, <1>19, <1>20 DEF SyncInv

\* A daemon that knows nothing.
LEMMA NothingKnown ==
  /\ SlotsFit(Empty.slots) /\ Empty.blocks \in Owners /\ EgressFits(Empty.egress)
  /\ Empty = [slots |-> Empty.slots, blocks |-> Empty.blocks, egress |-> Empty.egress]
  /\ MeetInv(Empty.slots, Empty.egress, {})
  /\ \A n \in Names : ~Wants(Empty.slots, n)
  /\ \A up \in BOOLEAN : RouteInv([h \in RouteHosts |-> Free], Empty.slots, {}, {}, up)
  /\ EgrInv([h \in RouteHosts |-> Free], Empty.egress, {}, {})
<1>1. /\ \A n \in Names : Empty.slots[n] = NoSlot
      /\ \A e \in EgressNames : Empty.egress[e] = NoEgress
  BY DEF Empty
<1>2. Empty.slots \in Table /\ Empty.blocks \in Owners /\ Empty.egress \in EgressTable
  BY DEF Empty, Table, Owners, EgressTable
<1>3. \A r \in Roots : \E f \in Files : f.root = r
  BY DEF Roots
<1>4. SlotsFit(Empty.slots)
  BY <1>1, <1>2, <1>3 DEF SlotsFit, OneFile, DependsFit
<1>5. EgressFits(Empty.egress)
  BY <1>1, <1>2, <1>3 DEF EgressFits, RoutesOfFile
<1>6. Empty = [slots |-> Empty.slots, blocks |-> Empty.blocks, egress |-> Empty.egress]
  BY DEF Empty
<1>7. [h \in RouteHosts |-> Free] \in Routing /\ \A h \in RouteHosts : [g \in RouteHosts |-> Free][h] = Free
  BY DEF Routing
<1>8. \A n \in Names : ~Wants(Empty.slots, n)
  BY <1>1 DEF Wants
<1>9. \A up \in BOOLEAN : RouteInv([h \in RouteHosts |-> Free], Empty.slots, {}, {}, up)
  BY <1>7, <1>8, RouteFields DEF RouteInv
<1>10. EgrInv([h \in RouteHosts |-> Free], Empty.egress, {}, {})
  BY <1>1, <1>7, RouteFields DEF EgrInv
<1>11. MeetInv(Empty.slots, Empty.egress, {})
  BY <1>1 DEF MeetInv
<1> QED BY <1>2, <1>4, <1>5, <1>6, <1>8, <1>9, <1>10, <1>11

LEMMA SyncCrashKeeps ==
  ASSUME SyncInv, SyncCrash
  PROVE  SyncInv'
<1>1. /\ slots' = Empty.slots /\ blocks' = Empty.blocks /\ egress' = Empty.egress
      /\ runner' = [n \in Names |-> NoRunner] /\ routed' = [h \in RouteHosts |-> Free]
      /\ gate' = Nobody /\ syncs' = [c \in SyncClients |-> Idle] /\ boot' = "load"
      /\ torn' = (torn \/ gate # Nobody) /\ saved' = saved
  BY DEF SyncCrash
<1>2. GateFits' /\ Work' = NoJob /\ Work'.pc = "none"
  BY <1>1 DEF GateFits, Work, NoJob
<1>3. /\ \A s : Left(Work', s) = {}
      /\ Losing(Work') = {} /\ Moving(Work') = {} /\ MovedFrom(Work') = {} /\ Swapping(Work') = {}
  BY <1>2 DEF Left, Losing, Moving, MovedFrom, Swapping, Replaced
<1>4. TablesFit' /\ SavedFits'
  BY <1>1, NothingKnown DEF SyncInv, TablesFit, SavedFits
<1>5. BootFits' /\ RoutesKnown'
  BY <1>1 DEF BootFits, RoutesKnown
<1>6. JobFits'
  BY <1>2, NoJobInv DEF JobFits
<1>7. RunnersFit'
  BY <1>1 DEF RunnersFit
<1>8. ServicesRouted'
  <2>1. RouteInv(routed', slots', {}, {}, FALSE)
    BY <1>1, NothingKnown
  <2>2. (boot' = "done") = FALSE
    BY <1>1
  <2> QED BY <1>3, <2>1, <2>2 DEF ServicesRouted
<1>9. HostsMeet'
  <2> SUFFICES ASSUME ~torn, gate = Nobody PROVE MeetInv(slots', egress', {}) /\ MeetInv(saved.slots, saved.egress, {})
    BY <1>1, <1>3 DEF HostsMeet
  <2>1. MeetInv(saved.slots, saved.egress, {})
    BY NoWork DEF SyncInv, HostsMeet
  <2> QED BY <1>1, <2>1, NothingKnown
<1> QED BY <1>2, <1>4, <1>5, <1>6, <1>7, <1>8, <1>9 DEF SyncInv

LEMMA RestoreLoadKeeps ==
  ASSUME HostsApart, SyncInv, NEW autostart \in BOOLEAN, RestoreLoad(autostart)
  PROVE  SyncInv'
<1>1. /\ boot = "load" /\ boot' = "up" /\ blocks' = saved.blocks /\ egress' = saved.egress
      /\ saved' = [saved EXCEPT !.slots = slots'] /\ UNCHANGED <<runner, gate, syncs, touched, torn>>
  BY DEF RestoreLoad
<1>2. gate = Nobody /\ routed = [h \in RouteHosts |-> Free]
  BY <1>1 DEF SyncInv, BootFits
<1>3. GateFits' /\ Work' = Work /\ gate' = Nobody
  BY <1>1, <1>2, WorkStays DEF SyncInv
<1>4. /\ Work = NoJob /\ Work.pc = "none" /\ (\A s : Left(Work', s) = {})
      /\ Losing(Work') = {} /\ Moving(Work') = {} /\ MovedFrom(Work') = {} /\ Swapping(Work') = {}
  BY <1>2, <1>3, NoWork
<1>5. /\ saved = [slots |-> saved.slots, blocks |-> saved.blocks, egress |-> saved.egress]
      /\ SlotsFit(saved.slots) /\ saved.blocks \in Owners /\ EgressFits(saved.egress)
  BY DEF SyncInv, SavedFits
<1>6. SameTable(saved.slots, slots')
  <2>1. slots' = [n \in Names |-> IF saved.slots[n] = NoSlot THEN NoSlot
                                  ELSE [saved.slots[n] EXCEPT !.desired = @ /\ autostart]]
    BY DEF RestoreLoad
  <2>2. saved.slots \in Table
    BY <1>5 DEF SlotsFit
  <2> QED BY <2>1, <2>2, RestoredSlots
<1>7. SlotsFit(slots')
  BY <1>5, <1>6, SameFits
<1>8. saved' = [slots |-> slots', blocks |-> saved.blocks, egress |-> saved.egress]
  BY <1>1, <1>5
<1>9. TablesFit' /\ SavedFits'
  BY <1>1, <1>5, <1>7, <1>8 DEF TablesFit, SavedFits
<1>10. BootFits'
  BY <1>1, <1>3 DEF BootFits
<1>11. JobFits'
  BY <1>3, <1>4, NoJobInv DEF JobFits
<1>12. RunnersFit'
  BY <1>1 DEF SyncInv, RunnersFit
<1>13. RouteInv(routed', slots', {}, {}, FALSE) /\ EgrInv(routed', saved.egress, {}, {})
  <2>1. routed' = Claim([h \in RouteHosts |-> Free], "egress",
                        [e \in {d \in EgressNames : saved.egress[d] # NoEgress} |-> saved.egress[e].host])
    BY <1>2 DEF RestoreLoad
  <2>2. PICK t : t = saved.egress
    OBVIOUS
  <2>3. PICK u, v : u = slots' /\ v = routed'
    OBVIOUS
  <2>4. EgressFits(t) /\ v = Claim([h \in RouteHosts |-> Free], "egress",
                                   [e \in {d \in EgressNames : t[d] # NoEgress} |-> t[e].host])
    BY <1>5, <2>1, <2>2, <2>3
  <2>5. RouteInv(v, u, {}, {}, FALSE) /\ EgrInv(v, t, {}, {})
    BY ONLY HostsApart, <2>4, RoutesRestored
  <2> QED BY <2>2, <2>3, <2>5
<1>14. ServicesRouted' /\ RoutesKnown'
  <2>1. (boot' = "done") = FALSE
    BY <1>1
  <2> QED BY <1>1, <1>4, <1>13, <2>1 DEF ServicesRouted, RoutesKnown
<1>15. HostsMeet'
  <2> SUFFICES ASSUME ~torn PROVE MeetInv(slots', saved.egress, {})
    BY <1>1, <1>4, <1>8 DEF HostsMeet
  <2>1. MeetInv(saved.slots, saved.egress, {})
    BY <1>4 DEF SyncInv, HostsMeet
  <2>2. \A n \in Names : slots'[n] # NoSlot => /\ saved.slots[n] # NoSlot /\ slots'[n].root = saved.slots[n].root
                                               /\ slots'[n].def = saved.slots[n].def
    BY <1>6 DEF SameTable
  <2> QED BY <2>1, <2>2, MeetSame
<1> QED BY <1>3, <1>9, <1>10, <1>11, <1>12, <1>14, <1>15 DEF SyncInv

LEMMA RestoreUpKeeps ==
  ASSUME HostsApart, SyncInv, RestoreUp
  PROVE  SyncInv'
<1>1. /\ boot = "up" /\ boot' = "done" /\ UNCHANGED <<blocks, egress, gate, syncs, touched, torn>>
      /\ saved' = [Snapshot EXCEPT !.slots = slots']
  BY DEF RestoreUp
<1>2. PICK ts : ts = Closure({n \in Names : Wanted(n)})
  OBVIOUS
<1>3. ts \in SUBSET Names /\ (\A n \in ts : slots[n] # NoSlot) /\ BringUp(ts) /\ \A n \in Names : Wants(slots, n) => n \in ts
  BY <1>2, ClosureFits, Sets DEF RestoreUp, Wants
<1>4. gate = Nobody
  BY <1>1 DEF SyncInv, BootFits
<1>5. Work = NoJob /\ Work.pc = "none" /\ Work' = Work /\ GateFits' /\ gate' = Nobody
  BY <1>1, <1>4, NoWork, WorkStays DEF SyncInv
<1>6. /\ SameTable(slots, slots') /\ RunnersFit'
      /\ \A left : Left(Work, slots) \subseteq left \cup ts => RouteInv(routed', slots', left, {}, TRUE)
      /\ ~torn => EgrInv(routed', egress, {}, {}) /\ MeetInv(slots', egress, {})
  BY <1>1, <1>3, <1>5, BringUpFits
<1>7. TablesFit'
  <2>1. SlotsFit(slots')
    BY <1>6, SameFits DEF SyncInv, TablesFit
  <2> QED BY <1>1, <2>1 DEF SyncInv, TablesFit
<1>8. JobFits' /\ Work' \in JobType
  BY <1>5, NoJobInv DEF JobFits, JobInv
<1>9. /\ \A s : Left(Work', s) = {}
      /\ Losing(Work') = {} /\ Moving(Work') = {} /\ MovedFrom(Work') = {} /\ Swapping(Work') = {}
  BY <1>4, <1>5, NoWork
<1>10. ServicesRouted'
  <2>1. RouteInv(routed', slots', {}, {}, TRUE)
    BY <1>4, <1>6, NoWork
  <2>2. (boot' = "done") = TRUE
    BY <1>1
  <2> QED BY <1>9, <2>1, <2>2 DEF ServicesRouted
<1>11. RoutesKnown' /\ (~torn' => MeetInv(slots', egress', Swapping(Work')))
  BY <1>1, <1>6, <1>9 DEF RoutesKnown
<1>12. SavedFits' /\ HostsMeet'
  BY <1>1, <1>7, <1>8, <1>11, SnapshotNow, SavedNow
<1>13. BootFits'
  BY <1>1 DEF BootFits
<1> QED BY <1>5, <1>6, <1>7, <1>8, <1>10, <1>11, <1>12, <1>13 DEF SyncInv

LEMMA InitFits ==
  ASSUME SyncInit
  PROVE  SyncInv
<1>1. /\ saved = Empty /\ slots = Empty.slots /\ blocks = Empty.blocks /\ egress = Empty.egress
      /\ runner = [n \in Names |-> NoRunner] /\ routed = [h \in RouteHosts |-> Free]
      /\ gate = Nobody /\ syncs = [c \in SyncClients |-> Idle] /\ boot = "done" /\ torn = FALSE
  BY DEF SyncInit
<1>2. TablesFit /\ SavedFits
  BY <1>1, NothingKnown DEF TablesFit, SavedFits
<1>3. GateFits /\ BootFits
  BY <1>1 DEF GateFits, BootFits
<1>4. JobFits
  BY <1>1, NoWork, NoJobInv DEF JobFits
<1>5. RunnersFit
  BY <1>1, NothingKnown DEF RunnersFit
<1>6. ServicesRouted
  <2>1. RouteInv(routed, slots, {}, {}, TRUE)
    BY <1>1, NothingKnown
  <2>2. (boot = "done") = TRUE
    BY <1>1
  <2> QED BY <1>1, <2>1, <2>2, NoWork DEF ServicesRouted
<1>7. RoutesKnown /\ HostsMeet
  BY <1>1, NoWork, NothingKnown DEF RoutesKnown, HostsMeet
<1> QED BY <1>2, <1>3, <1>4, <1>5, <1>6, <1>7 DEF SyncInv

LEMMA SyncInvStep ==
  ASSUME HostsApart, ~UpBeside, SyncInv, [SyncNext]_syncVars
  PROVE  SyncInv'
<1>1. ASSUME NEW c \in SyncClients, SyncStep(c)
      PROVE  SyncInv'
  <2>1. ASSUME NEW f \in Files, SyncBegin(c, f) PROVE SyncInv'
    BY <2>1, SyncBeginKeeps
  <2>2. CASE Classify(c)
    BY <2>2, ClassifyKeeps
  <2>3. CASE Commit(c)
    BY <2>3, CommitKeeps
  <2>4. CASE Announce(c)
    BY <2>4, AnnounceKeeps
  <2>5. CASE StopOne(c)
    BY <2>5, StopOneKeeps
  <2>6. CASE Replace(c)
    BY <2>6, ReplaceKeeps
  <2>7. CASE Save(c)
    BY <2>7, SaveKeeps
  <2>8. CASE RestartOne(c)
    BY <2>8, RestartOneKeeps
  <2>9. CASE SyncReturns(c)
    BY <2>9, SyncReturnsKeeps
  <2> QED BY <1>1, <2>1, <2>2, <2>3, <2>4, <2>5, <2>6, <2>7, <2>8, <2>9 DEF SyncStep
<1>2. ASSUME NEW c \in SyncClients, ForgetStep(c)
      PROVE  SyncInv'
  <2>1. ASSUME NEW names \in SUBSET Names, ForgetBegin(c, names) PROVE SyncInv'
    BY <2>1, ForgetBeginKeeps
  <2>2. CASE ForgetStop(c)
    BY <2>2, ForgetStopKeeps
  <2>3. CASE ForgetDrop(c)
    BY <2>3, ForgetDropKeeps
  <2> QED BY <1>2, <2>1, <2>2, <2>3 DEF ForgetStep
<1>3. ASSUME NEW n \in Names, Up(n) PROVE SyncInv'
  BY <1>3, UpKeeps
<1>4. ASSUME NEW n \in Names, Down(n) PROVE SyncInv'
  BY <1>4, DownKeeps
<1>5. ASSUME NEW n \in Names, Respawn(n) PROVE SyncInv'
  BY <1>5, RespawnKeeps
<1>6. ASSUME NEW b \in SecretNames, EditGlobal(b) PROVE SyncInv'
  BY <1>6, EditGlobalKeeps
<1>7. CASE SyncCrash
  BY <1>7, SyncCrashKeeps
<1>8. CASE RestoreUp
  BY <1>8, RestoreUpKeeps
<1>9. ASSUME NEW autostart \in BOOLEAN, RestoreLoad(autostart) PROVE SyncInv'
  BY <1>9, RestoreLoadKeeps
<1>10. CASE UNCHANGED syncVars
  BY <1>10 DEF syncVars, SyncInv, TablesFit, SavedFits, GateFits, BootFits, JobFits, RunnersFit,
               ServicesRouted, RoutesKnown, HostsMeet, Work, Wants
<1> QED BY <1>1, <1>2, <1>3, <1>4, <1>5, <1>6, <1>7, <1>8, <1>9, <1>10 DEF SyncNext

\* What the invariant says of the tables.
LEMMA TablesFollow ==
  ASSUME SyncInv
  PROVE  TablesAgree
<1>1. DependsKnown
  BY DEF SyncInv, TablesFit, SavedFits, SlotsFit, DependsFit, DependsKnown
<1>2. ASSUME gate = Nobody, boot # "load", ~torn, NEW h \in RouteHosts, NEW e \in EgressNames
      PROVE  routed[h] = [source |-> "egress", owner |-> e] <=> egress[e] # NoEgress /\ egress[e].host = h
  <2>1. EgrInv(routed, egress, {}, {})
    BY <1>2, NoWork DEF SyncInv, RoutesKnown
  <2> QED BY <2>1 DEF EgrInv, EgrRoute
<1>3. ASSUME gate = Nobody, boot = "done", NEW n \in Names
      PROVE  (runner[n] # NoRunner <=> Wanted(n)) /\ (Wanted(n) => runner[n] = slots[n].def)
  <2>1. runner[n] = IF Wants(slots, n) THEN slots[n].def ELSE NoRunner
    BY <1>3 DEF SyncInv, RunnersFit
  <2>2. Wants(slots, n) => slots[n].def # NoRunner
    BY SlotFields DEF SyncInv, TablesFit, SlotsFit, Wants
  <2> QED BY <2>1, <2>2, Sets
<1>4. ASSUME gate = Nobody, boot = "done", NEW h \in RouteHosts, NEW n \in Names
      PROVE  routed[h] = [source |-> "service", owner |-> n] <=> Wanted(n) /\ slots[n].def.host = h
  <2>1. RouteInv(routed, slots, {}, {}, TRUE)
    BY <1>4, NoWork DEF SyncInv, ServicesRouted
  <2> QED BY <2>1, Sets DEF RouteInv, SvcRoute
<1> QED BY <1>1, <1>2, <1>3, <1>4 DEF TablesAgree, EgressRouted, RunsWhatWasSynced

\* What one step may do to a service, when the daemon does not die.
SlotStays(n) ==
    Present(n) /\ boot' # "load" =>
         IF slots'[n] = NoSlot
         THEN \E c \in SyncClients : syncs[c] # Idle
                /\ \/ At(c, "forget") /\ n \in Job(c).restart
                   \/ At(c, "replace") /\ Job(c).file.root = slots[n].root
         ELSE /\ slots'[n].root = slots[n].root
              /\ slots'[n].def # slots[n].def =>
                   \E c \in SyncClients : At(c, "replace") /\ Job(c).file.root = slots[n].root
LEMMA SameStays ==
  ASSUME SameTable(slots, slots'), NEW n \in Names
  PROVE  SlotStays(n)
  BY DEF SameTable, SlotStays, Present
LEMMA UpStays ==
  ASSUME SyncInv, NEW names, BringUp(Closure(names)), NEW n \in Names
  PROVE  SlotStays(n)
<1>1. PICK ts : ts = Closure(names)
  OBVIOUS
<1>2. ts \in SUBSET Names /\ (\A m \in ts : slots[m] # NoSlot) /\ BringUp(ts)
  BY <1>1, ClosureFits
<1>3. slots \in Table
  BY DEF SyncInv, TablesFit, SlotsFit
<1>4. slots' = [m \in Names |-> IF m \in ts THEN [slots[m] EXCEPT !.desired = TRUE] ELSE slots[m]]
  BY <1>2 DEF BringUp
<1>5. SameTable(slots, slots')
  BY <1>2, <1>3, <1>4, BroughtUp
<1> QED BY <1>5, SameStays
LEMMA StopStays ==
  ASSUME SyncInv, NEW m, IF Present(m) THEN StopRunner(m) ELSE UNCHANGED <<slots, runner>>, NEW n \in Names
  PROVE  SlotStays(n)
<1>1. slots \in Table
  BY DEF SyncInv, TablesFit, SlotsFit
<1>2. CASE Present(m) /\ m \in Names
  <2>1. slots' = [slots EXCEPT ![m].desired = FALSE] /\ slots[m] # NoSlot
    BY <1>2 DEF StopRunner, Present
  <2>2. SameTable(slots, slots')
    BY <1>1, <1>2, <2>1, StoppedOne
  <2> QED BY <2>2, SameStays
<1>3. CASE ~(Present(m) /\ m \in Names)
  <2>1. slots' = slots
    BY <1>1, <1>3 DEF StopRunner, Table
  <2> QED BY <1>1, <2>1, SameStays DEF SameTable
<1> QED BY <1>2, <1>3
LEMMA KeptStays ==
  ASSUME SyncInv, slots' = slots, NEW n \in Names
  PROVE  SlotStays(n)
<1>1. slots \in Table
  BY DEF SyncInv, TablesFit, SlotsFit
<1> QED BY <1>1, SameStays DEF SameTable

\* A sync drops and redefines services of its own root, a forget those it names.
LEMMA ReplaceStays ==
  ASSUME SyncInv, NEW c \in SyncClients, Replace(c), NEW n \in Names
  PROVE  SlotStays(n)
<1> SUFFICES ASSUME slots[n] # NoSlot
             PROVE  /\ slots'[n] = NoSlot => Work.file.root = slots[n].root
                    /\ slots'[n] # NoSlot => slots'[n].root = slots[n].root
                    /\ slots'[n] # NoSlot /\ slots'[n].def # slots[n].def => Work.file.root = slots[n].root
  <2>1. At(c, "replace")
    BY DEF Replace
  <2>2. Job(c) = Work /\ syncs[c] # Idle
    BY <2>1, Working DEF At
  <2> QED BY <2>1, <2>2 DEF SlotStays, Present
<1>1. PICK f : f = Work.file
  OBVIOUS
<1>2. /\ f \in Files /\ NoForeign(slots, f)
      /\ \A m \in DOMAIN f.services : slots'[m] # NoSlot /\ slots'[m].root = f.root /\ slots'[m].def = f.services[m]
      /\ \A m \in Names \ DOMAIN f.services : slots'[m] # NoSlot => slots'[m] = slots[m] /\ slots[m].root # f.root
      /\ \A m \in Names : slots'[m] = NoSlot => slots[m] = NoSlot \/ m \in Gone(slots, f)
  BY <1>1, Rewrites
<1>3. n \in Gone(slots, f) => slots[n].root = f.root
  BY DEF Gone, HeldOf
<1>4. n \in DOMAIN f.services => slots[n].root = f.root
  BY <1>2 DEF NoForeign
<1> QED BY <1>1, <1>2, <1>3, <1>4

LEMMA DropStays ==
  ASSUME SyncInv, NEW c \in SyncClients, ForgetDrop(c), NEW n \in Names
  PROVE  SlotStays(n)
<1>1. At(c, "forget") /\ syncs[c] # Idle
  BY DEF ForgetDrop, At
<1>2. PICK ds : ds = {m \in Job(c).restart : Present(m)}
  OBVIOUS
<1>3. slots'[n] = IF n \in ds THEN NoSlot ELSE slots[n]
  BY <1>2 DEF ForgetDrop, Dropped
<1>4. CASE n \in ds
  BY <1>1, <1>2, <1>3, <1>4 DEF SlotStays
<1>5. CASE n \notin ds
  BY <1>3, <1>5 DEF SlotStays, Present
<1> QED BY <1>4, <1>5

LEMMA SlotsStay ==
  ASSUME SyncInv, SyncNext, NEW n \in Names
  PROVE  SlotStays(n)
<1>1. ASSUME NEW c \in SyncClients, SyncStep(c)
      PROVE  SlotStays(n)
  <2>1. CASE Replace(c)
    BY <2>1, ReplaceStays
  <2>2. CASE RestartOne(c)
    BY <2>2, UpStays DEF RestartOne
  <2>3. CASE StopOne(c)
    <3>1. \/ \E m \in Job(c).stop : IF Present(m) THEN StopRunner(m) ELSE UNCHANGED <<slots, runner>>
          \/ slots' = slots
      BY <2>3 DEF StopOne
    <3> QED BY <3>1, StopStays, KeptStays
  <2>4. CASE (\E f \in Files : SyncBegin(c, f)) \/ Classify(c) \/ Commit(c) \/ Announce(c) \/ Save(c) \/ SyncReturns(c)
    <3>1. slots' = slots
      BY <2>4 DEF SyncBegin, Classify, Commit, Announce, Save, SyncReturns
    <3> QED BY <3>1, KeptStays
  <2> QED BY <1>1, <2>1, <2>2, <2>3, <2>4 DEF SyncStep
<1>2. ASSUME NEW c \in SyncClients, ForgetStep(c)
      PROVE  SlotStays(n)
  <2>1. CASE ForgetDrop(c)
    BY <2>1, DropStays
  <2>2. CASE ForgetStop(c)
    <3>1. \E m \in Job(c).stop : IF Present(m) THEN StopRunner(m) ELSE UNCHANGED <<slots, runner>>
      BY <2>2 DEF ForgetStop
    <3> QED BY <3>1, StopStays
  <2>3. ASSUME NEW names \in SUBSET Names, ForgetBegin(c, names) PROVE SlotStays(n)
    BY <2>3, KeptStays DEF ForgetBegin
  <2> QED BY <1>2, <2>1, <2>2, <2>3 DEF ForgetStep
<1>3. ASSUME NEW m \in Names, Up(m) PROVE SlotStays(n)
  BY <1>3, UpStays DEF Up
<1>4. ASSUME NEW m \in Names, Down(m) PROVE SlotStays(n)
  BY <1>4, StopStays DEF Down
<1>5. ASSUME NEW m \in Names, Respawn(m) PROVE SlotStays(n)
  BY <1>5, KeptStays DEF Respawn
<1>6. ASSUME NEW b \in SecretNames, EditGlobal(b) PROVE SlotStays(n)
  BY <1>6, KeptStays DEF EditGlobal
<1>7. CASE SyncCrash
  BY <1>7 DEF SyncCrash, SlotStays
<1>8. CASE RestoreUp
  BY <1>8, UpStays DEF RestoreUp
<1>9. ASSUME NEW autostart \in BOOLEAN, RestoreLoad(autostart) PROVE SlotStays(n)
  <2>1. slots = Empty.slots
    BY <1>9 DEF RestoreLoad, SyncInv, BootFits
  <2> QED BY <2>1 DEF SlotStays, Present, Empty
<1> QED BY <1>1, <1>2, <1>3, <1>4, <1>5, <1>6, <1>7, <1>8, <1>9 DEF SyncNext

\* What one step may do to a block and to an egress route.
OthersStay ==
    /\ \A b \in SecretNames : blocks[b] # Nobody => blocks'[b] \in {blocks[b], Nobody}
    /\ \A e \in EgressNames :
         egress[e] # NoEgress /\ egress'[e] # NoEgress => egress'[e].root = egress[e].root
LEMMA OthersKept ==
  ASSUME SyncInv, SyncNext
  PROVE  OthersStay
<1>1. ASSUME UNCHANGED <<blocks, egress>> PROVE OthersStay
  BY <1>1 DEF OthersStay
<1>2. ASSUME NEW c \in SyncClients, SyncStep(c)
      PROVE  OthersStay
  <2>1. CASE Commit(c)
    <3>1. Job(c) = Work /\ At(c, "commit")
      BY <2>1, Working DEF Commit
    <3>2. CASE Refused(Work.file)
      BY <1>1, <2>1, <3>1, <3>2 DEF Commit
    <3>3. CASE ~Refused(Work.file)
      BY <2>1, <3>1, <3>3, Replaces DEF OthersStay
    <3> QED BY <3>2, <3>3
  <2>2. CASE ~Commit(c)
    <3>1. UNCHANGED <<blocks, egress>>
      BY <1>2, <2>2 DEF SyncStep, SyncBegin, Classify, Announce, StopOne, Replace, Save, RestartOne, SyncReturns
    <3> QED BY <1>1, <3>1
  <2> QED BY <2>1, <2>2
<1>3. ASSUME NEW c \in SyncClients, ForgetStep(c)
      PROVE  OthersStay
  <2>1. UNCHANGED <<blocks, egress>>
    BY <1>3 DEF ForgetStep, ForgetBegin, ForgetStop, ForgetDrop
  <2> QED BY <1>1, <2>1
<1>4. ASSUME NEW n \in Names, Up(n) \/ Down(n) \/ Respawn(n) PROVE OthersStay
  BY <1>1, <1>4 DEF Up, Down, Respawn
<1>5. ASSUME NEW b \in SecretNames, EditGlobal(b) PROVE OthersStay
  <2>1. UNCHANGED egress
    BY <1>5 DEF EditGlobal
  <2> QED BY <1>5, <2>1, EditGlobalKeeps DEF OthersStay
<1>6. CASE SyncCrash
  BY <1>6 DEF SyncCrash, Empty, OthersStay
<1>7. CASE RestoreUp
  BY <1>1, <1>7 DEF RestoreUp
<1>8. ASSUME NEW autostart \in BOOLEAN, RestoreLoad(autostart) PROVE OthersStay
  <2>1. blocks = Empty.blocks /\ egress = Empty.egress
    BY <1>8 DEF RestoreLoad, SyncInv, BootFits
  <2> QED BY <2>1 DEF Empty, OthersStay
<1> QED BY <1>2, <1>3, <1>4, <1>5, <1>6, <1>7, <1>8 DEF SyncNext

\* Only a return answers a sync.
LEMMA Answered ==
  ASSUME SyncInv, NEW c \in SyncClients, At(c, "restart"), SyncNext, syncs'[c] = Idle, boot' = "done"
  PROVE  SyncReturns(c)
<1>1. /\ gate = c /\ gate # Nobody /\ Work = syncs[c] /\ Work.pc = "restart" /\ syncs[c] \in JobType /\ boot = "done"
  BY Working
<1>2. syncs[c] # Idle /\ syncs' # syncs
  BY DEF At
<1>3. ASSUME NEW d \in SyncClients, NEW pc, pc # "restart", At(d, pc) PROVE FALSE
  BY <1>1, <1>3, Working
<1>4. ASSUME NEW d \in SyncClients, SyncStep(d) PROVE SyncReturns(c)
  <2>1. RestartOne(d) \/ SyncReturns(d)
    BY <1>1, <1>3, <1>4 DEF SyncStep, SyncBegin, Classify, Commit, Announce, StopOne, Replace, Save
  <2>2. d = c
    <3>1. At(d, "restart")
      BY <2>1 DEF RestartOne, SyncReturns
    <3> QED BY <1>1, <3>1, Working
  <2>3. ~RestartOne(c)
    <3> SUFFICES ASSUME RestartOne(c) PROVE FALSE
      OBVIOUS
    <3>1. PICK n \in Work.restart : syncs' = [syncs EXCEPT ![c].restart = Work.restart \ {n}]
      BY <1>1 DEF RestartOne, Job
    <3>2. syncs'[c] = [syncs[c] EXCEPT !.restart = Work.restart \ {n}]
      BY <3>1 DEF SyncInv, GateFits
    <3>3. PICK j : j = syncs[c]
      OBVIOUS
    <3>4. j \in JobType /\ j.pc = "restart" /\ Work.restart = j.restart
      BY <1>1, <3>3
    <3>5. PICK k : k = [j EXCEPT !.restart = j.restart \ {n}]
      OBVIOUS
    <3>6. k = [pc |-> "restart", file |-> j.file, stop |-> j.stop, restart |-> j.restart \ {n},
               moved |-> j.moved, wanted |-> j.wanted]
      <4>1. j = [pc |-> "restart", file |-> j.file, stop |-> j.stop, restart |-> j.restart,
                 moved |-> j.moved, wanted |-> j.wanted]
        BY <3>4, JobFields
      <4> QED BY <3>5, <4>1
    <3>7. k \in SyncRequest
      BY <3>4, <3>6, JobFields DEF SyncRequest
    <3>8. k = Idle
      BY <3>2, <3>3, <3>4, <3>5
    <3> QED BY <3>7, <3>8, SyncAssumption
  <2> QED BY <2>1, <2>2, <2>3
<1>5. ASSUME NEW d \in SyncClients, ForgetStep(d) PROVE FALSE
  BY <1>1, <1>3, <1>5 DEF ForgetStep, ForgetBegin, ForgetStop, ForgetDrop
<1>6. ASSUME NEW n \in Names, Up(n) \/ Down(n) \/ Respawn(n) PROVE FALSE
  BY <1>2, <1>6 DEF Up, Down, Respawn
<1>7. ASSUME NEW b \in SecretNames, EditGlobal(b) PROVE FALSE
  BY <1>2, <1>7 DEF EditGlobal
<1>8. CASE SyncCrash \/ RestoreUp \/ \E autostart \in BOOLEAN : RestoreLoad(autostart)
  BY <1>1, <1>8 DEF SyncCrash, RestoreUp, RestoreLoad
<1> QED BY <1>4, <1>5, <1>6, <1>7, <1>8 DEF SyncNext

LEMMA AnswersApplied ==
  ASSUME SyncInv, SyncNext
  PROVE  AnswerApplied
<1> SUFFICES ASSUME NEW c \in SyncClients, At(c, "restart"), syncs'[c] = Idle, boot' = "done",
                    NEW f, f = Job(c).file
             PROVE  /\ Held(f.root) = DOMAIN f.services
                    /\ \A n \in DOMAIN f.services : slots[n].def = f.services[n]
                    /\ {b \in SecretNames : blocks[b] = f.root} = f.blocks
                    /\ {e \in EgressNames : egress[e] # NoEgress /\ egress[e].root = f.root} = DOMAIN f.egress
                    /\ \A n \in (Job(c).wanted \cap DOMAIN f.services) \ touched :
                         /\ slots[n].desired /\ runner[n] = f.services[n]
                         /\ f.services[n].host \in RouteHosts =>
                              routed[f.services[n].host] = [source |-> "service", owner |-> n]
  BY DEF AnswerApplied
<1>1. /\ gate = c /\ Work = syncs[c] /\ Job(c) = Work /\ Work.pc = "restart" /\ syncs[c] \in JobType /\ boot = "done"
      /\ (boot = "done") = TRUE /\ JobInv(Work, slots, blocks, egress, touched)
  BY Working
<1>2. SyncReturns(c)
  BY Answered
<1>3. Work.restart = {} /\ f = Work.file
  BY <1>1, <1>2 DEF SyncReturns
<1>4. f \in Files /\ RestartsFit(Work, slots, touched) /\ TablesOf(blocks, egress, f)
  BY <1>1, <1>3 DEF JobInv, Replaced
<1>5. Held(f.root) = DOMAIN f.services /\ \A n \in DOMAIN f.services : slots[n].def = f.services[n]
  BY <1>3, <1>4, Sets DEF RestartsFit, SlotsOf
<1>6. DOMAIN f.services \subseteq Names
  BY <1>4, SyncAssumption DEF IsFile
<1>7. ASSUME NEW n \in (Job(c).wanted \cap DOMAIN f.services) \ touched
      PROVE  /\ slots[n].desired /\ runner[n] = f.services[n]
             /\ f.services[n].host \in RouteHosts => routed[f.services[n].host] = SvcRoute(n)
  <2>1. n \in Names /\ Wants(slots, n)
    BY <1>1, <1>3, <1>4, <1>6, <1>7 DEF RestartsFit
  <2>2. slots[n].def = f.services[n] /\ slots[n].desired
    BY <1>5, <2>1 DEF Wants
  <2>3. runner[n] = slots[n].def
    BY <1>1, <2>1 DEF SyncInv, RunnersFit
  <2>4. RouteInv(routed, slots, Left(Work, slots), {}, TRUE)
    BY <1>1, Phase DEF SyncInv, ServicesRouted
  <2>5. slots[n].def.host \in RouteHosts => routed[slots[n].def.host] = SvcRoute(n)
    BY <2>1, <2>4 DEF RouteInv
  <2> QED BY <2>2, <2>3, <2>5
<1> QED BY <1>4, <1>5, <1>7 DEF TablesOf, SvcRoute

\* Whatever syncs, forgets, commands and crashes interleave: nobody's services,
\* blocks or routes are taken over, an answered sync is in place in full, and
\* the tables, the registry and services.json agree (supervisor.rs:717, 891,
\* 1515), for every set of configurations in which two repositories claim no
\* host, which sync does not check, when no up runs beside a sync.
THEOREM SyncAlwaysTrue ==
  ASSUME ~UpBeside, HostsApart
  PROVE  SyncSpec => SyncTrue
<1>1. SyncInit => SyncInv
  BY InitFits
<1>2. SyncInv /\ [SyncNext]_syncVars => SyncInv'
  BY SyncInvStep
<1>3. SyncInv => TablesAgree
  BY TablesFollow
<1>4. SyncInv' => TablesAgree'
  BY <1>3, PTL
<1>5. SyncInv /\ SyncInv' /\ [SyncNext]_syncVars => [OwnersStay /\ AnswerApplied /\ TablesAgree']_syncVars
  <2> SUFFICES ASSUME SyncInv, SyncInv', SyncNext PROVE OwnersStay /\ AnswerApplied /\ TablesAgree'
    OBVIOUS
  <2>1. OwnersStay
    <3>1. \A n \in Names : SlotStays(n)
      BY SlotsStay
    <3>2. OthersStay
      BY OthersKept
    <3> QED BY <3>1, <3>2 DEF OwnersStay, SlotStays, OthersStay
  <2>2. AnswerApplied
    BY AnswersApplied
  <2> QED BY <1>4, <2>1, <2>2
<1> QED BY <1>1, <1>2, <1>5, PTL DEF SyncSpec, SyncTrue
===============================================================================
