-------------------------------- MODULE Sync --------------------------------
(***************************************************************************)
(* Configuration sync (supervisor.rs): `portman up` hands the daemon the    *)
(* services, secrets blocks and egress routes of one repository, and the    *)
(* daemon replaces what that repository had before.  forget drops services, *)
(* up and down are commands that run beside it, global blocks are edited,   *)
(* and the daemon may die anywhere and restore services.json.  A runner is  *)
(* here the definition its attempt was started with; how it starts and      *)
(* stops is in module Supervisor.                                          *)
(***************************************************************************)
EXTENDS Naturals

CONSTANTS
    SyncClients,                                  \* requests under way at once
    Names, SecretNames, EgressNames, RouteHosts,
    Files,          \* configurations: root, services, blocks, egress
    Global,         \* the owner of a daemon-global block
    NoSlot, NoRunner, NoEgress, Nobody, Free, Idle,
    UpBeside,       \* may an up run beside a sync or a forget?
    MaxCrashes      \* bound

Roots == {f.root : f \in Files}
Defs == UNION {{f.services[n] : n \in DOMAIN f.services} : f \in Files}
EgressHosts == UNION {{f.egress[e].host : e \in DOMAIN f.egress} : f \in Files}
Slot == [root : Roots, def : Defs, desired : BOOLEAN]
EgressEntry == [root : Roots, host : EgressHosts]
RouteEntry == [source : {"service", "egress"}, owner : Names \cup EgressNames]
SyncRequest ==
    [pc : {"classify", "commit", "announce", "stop", "replace", "save", "restart", "forget"},
     file : Files \cup {Idle}, stop : SUBSET Names, restart : SUBSET Names,
     moved : SUBSET EgressHosts, wanted : SUBSET Names]
\* What validating a configuration gives: dependencies are services of the file,
\* and no host is claimed twice (a service need not have one).
IsFile(f) ==
    /\ DOMAIN f.services \subseteq Names /\ DOMAIN f.egress \subseteq EgressNames
    /\ f.blocks \subseteq SecretNames
    /\ \A n \in DOMAIN f.services : f.services[n].depends \subseteq DOMAIN f.services
    /\ \A h \in RouteHosts :
         /\ \A n, m \in DOMAIN f.services : f.services[n].host = h /\ f.services[m].host = h => n = m
         /\ \A e, d \in DOMAIN f.egress : f.egress[e].host = h /\ f.egress[d].host = h => e = d
         /\ \A n \in DOMAIN f.services, e \in DOMAIN f.egress :
              ~(f.services[n].host = h /\ f.egress[e].host = h)
ASSUME SyncAssumption ==
    /\ \A f \in Files : IsFile(f)
    /\ NoSlot \notin Slot /\ NoRunner \notin Defs /\ NoEgress \notin EgressEntry
    /\ Free \notin RouteEntry /\ Idle \notin Files \cup SyncRequest
    /\ Global \notin Roots /\ Nobody \notin Roots \cup {Global} \cup SyncClients

VARIABLES
    slots,    \* Inner.slots: owner, definition and intent of each service
    runner,   \* the definition each service's runner was started with
    blocks,   \* Inner.secrets: the owner of each block
    egress,   \* Inner.egress
    routed,   \* the registry: what each host is routed for
    saved,    \* services.json
    gate,     \* who holds sync_gate
    syncs,    \* what each request is doing
    boot,     \* restore: "load" services.json, bring "up", "done"
    touched,  \* services another command touched while a sync or forget ran
    torn,     \* did the daemon die inside a sync or a forget?
    crashes

syncVars == <<slots, runner, blocks, egress, routed, saved, gate, syncs, boot,
              touched, torn, crashes>>

Present(n) == slots[n] # NoSlot
Wanted(n) == Present(n) /\ slots[n].desired
Held(r) == {n \in Names : Present(n) /\ slots[n].root = r}
Snapshot == [slots |-> slots, blocks |-> blocks, egress |-> egress]
Empty == [slots  |-> [n \in Names |-> NoSlot],
          blocks |-> [b \in SecretNames |-> Nobody],
          egress |-> [e \in EgressNames |-> NoEgress]]

SyncInit ==
    /\ saved = Empty
    /\ slots = Empty.slots /\ blocks = Empty.blocks /\ egress = Empty.egress
    /\ runner = [n \in Names |-> NoRunner]
    /\ routed = [h \in RouteHosts |-> Free]
    /\ gate = Nobody /\ syncs = [c \in SyncClients |-> Idle]
    /\ boot = "done" /\ touched = {} /\ torn = FALSE /\ crashes = 0

\* RouteBinder: whoever registers a host takes it, and it is released only by
\* the kind of owner that holds it.  `host` maps owners to their hosts.
Claim(reg, source, host) ==
    [h \in RouteHosts |->
        IF \E o \in DOMAIN host : host[o] = h
        THEN [source |-> source, owner |-> CHOOSE o \in DOMAIN host : host[o] = h]
        ELSE reg[h]]
Release(reg, source, hosts) ==
    [h \in RouteHosts |-> IF h \in hosts /\ reg[h] # Free /\ reg[h].source = source
                          THEN Free ELSE reg[h]]
HostsOf(names) == {slots[n].def.host : n \in names}

-----------------------------------------------------------------------------
(* Commands on one service, beside a sync or a forget.                       *)

\* expand_targets closes the names over their dependencies; up skips those
\* that are no slots.
Closure(names) ==
    LET closed(set) == \A n \in set : Present(n) => slots[n].def.depends \subseteq set
    IN  {n \in Names : Present(n) /\ \A set \in SUBSET Names :
                          names \subseteq set /\ closed(set) => n \in set}

\* up: intent, runner and route of every target.
BringUp(targets) ==
    /\ slots' = [n \in Names |-> IF n \in targets THEN [slots[n] EXCEPT !.desired = TRUE]
                                 ELSE slots[n]]
    /\ runner' = [n \in Names |-> IF n \in targets /\ runner[n] = NoRunner
                                  THEN slots[n].def ELSE runner[n]]
    /\ routed' = Claim(routed, "service", [n \in targets |-> slots[n].def.host])

\* stop_and_join: the intent goes first, the runner is waited for.
StopRunner(n) ==
    /\ slots' = [slots EXCEPT ![n].desired = FALSE]
    /\ runner' = [runner EXCEPT ![n] = NoRunner]

Touch(names) == touched' = IF gate = Nobody THEN touched ELSE touched \cup names

Up(n) ==
    /\ boot = "done" /\ Present(n)
    /\ UpBeside \/ gate = Nobody
    /\ BringUp(Closure({n}))
    /\ Touch(Closure({n}))
    /\ saved' = [Snapshot EXCEPT !.slots = slots']
    /\ UNCHANGED <<blocks, egress, gate, syncs, boot, torn, crashes>>

Down(n) ==
    /\ boot = "done" /\ Present(n)
    /\ StopRunner(n)
    /\ routed' = Release(routed, "service", HostsOf({n}))
    /\ touched' = IF gate = Nobody THEN touched \ {n} ELSE touched \cup {n}
    /\ saved' = [Snapshot EXCEPT !.slots = slots']
    /\ UNCHANGED <<blocks, egress, gate, syncs, boot, torn, crashes>>

\* supervise_once reads the definition anew; the runner saves at every attempt.
Respawn(n) ==
    /\ runner[n] # NoRunner /\ Present(n)
    /\ runner' = [runner EXCEPT ![n] = slots[n].def]
    /\ saved' = Snapshot
    /\ UNCHANGED <<slots, blocks, egress, routed, gate, syncs, boot, touched, torn, crashes>>

\* set_global_block and remove_global_block refuse a block of a repository.
EditGlobal(b) ==
    /\ boot = "done" /\ blocks[b] \in {Nobody, Global}
    /\ \E owner \in {Nobody, Global} \ {blocks[b]} : blocks' = [blocks EXCEPT ![b] = owner]
    /\ saved' = [Snapshot EXCEPT !.blocks = blocks']
    /\ UNCHANGED <<slots, runner, egress, routed, gate, syncs, boot, touched, torn, crashes>>

-----------------------------------------------------------------------------
(* sync *)

Job(c) == syncs[c]
At(c, pc) == syncs[c] # Idle /\ syncs[c].pc = pc
Proceeds(c, pc) == syncs' = [syncs EXCEPT ![c].pc = pc]
LeaveGate(c) == /\ syncs' = [syncs EXCEPT ![c] = Idle]
            /\ gate' = Nobody

\* A sync waits for sync_gate.  `wanted` notes for the properties what was up.
SyncBegin(c, f) ==
    /\ boot = "done" /\ syncs[c] = Idle
    /\ gate = Nobody /\ gate' = c
    /\ syncs' = [syncs EXCEPT ![c] = [pc |-> "classify", file |-> f, stop |-> {},
                  restart |-> {}, moved |-> {}, wanted |-> {n \in Names : Wanted(n)}]]
    /\ UNCHANGED <<slots, runner, blocks, egress, routed, saved, boot, touched, torn, crashes>>

\* Under one hold of the slots: a name of another root is refused; changed and
\* missing services will be stopped, and the wanted ones brought up again.
Classify(c) ==
    LET f == Job(c).file
        changed == {n \in DOMAIN f.services : Present(n) /\ slots[n].def # f.services[n]}
        gone == Held(f.root) \ DOMAIN f.services
        foreign == {n \in DOMAIN f.services : Present(n) /\ slots[n].root # f.root}
    IN  /\ At(c, "classify")
        /\ IF foreign # {} THEN LeaveGate(c)
           ELSE /\ syncs' = [syncs EXCEPT ![c].pc = "commit", ![c].stop = changed \cup gone,
                                          ![c].restart = {n \in changed : Wanted(n)}]
                /\ UNCHANGED gate
        /\ UNCHANGED <<slots, runner, blocks, egress, routed, saved, boot, touched, torn, crashes>>

\* Every remaining refusal: a block or a route of somebody else, a route whose
\* block is neither in this file nor of another owner.
Refused(f) ==
    \/ \E b \in f.blocks : blocks[b] \notin {Nobody, f.root}
    \/ \E e \in DOMAIN f.egress :
         \/ f.egress[e].block \notin f.blocks
            /\ blocks[f.egress[e].block] \in {Nobody, f.root}
         \/ egress[e] # NoEgress /\ egress[e].root # f.root

\* Under one hold of the blocks and the routes: refuse, or replace the root's.
Commit(c) ==
    LET f == Job(c).file
        mine == {e \in EgressNames : egress[e] # NoEgress /\ egress[e].root = f.root}
        moved == {e \in mine : e \notin DOMAIN f.egress \/ f.egress[e].host # egress[e].host}
    IN  /\ At(c, "commit")
        /\ IF Refused(f) THEN LeaveGate(c) /\ UNCHANGED <<blocks, egress>>
           ELSE /\ blocks' = [b \in SecretNames |->
                     IF b \in f.blocks THEN f.root
                     ELSE IF blocks[b] = f.root THEN Nobody ELSE blocks[b]]
                /\ egress' = [e \in EgressNames |->
                     IF e \in DOMAIN f.egress THEN [root |-> f.root, host |-> f.egress[e].host]
                     ELSE IF e \in mine THEN NoEgress ELSE egress[e]]
                /\ syncs' = [syncs EXCEPT ![c].pc = "announce",
                                          ![c].moved = {egress[e].host : e \in moved}]
                /\ UNCHANGED gate
        /\ UNCHANGED <<slots, runner, routed, saved, boot, touched, torn, crashes>>

\* Removed and moved routes are released, then all of the file's registered.
Announce(c) ==
    LET new == [e \in DOMAIN Job(c).file.egress |-> Job(c).file.egress[e].host]
    IN  /\ At(c, "announce")
        /\ routed' = Claim(Release(routed, "egress", Job(c).moved), "egress", new)
        /\ Proceeds(c, "stop")
        /\ UNCHANGED <<slots, runner, blocks, egress, saved, gate, boot, touched, torn, crashes>>

\* stop_and_join of each; a runner that stops saves.
StopOne(c) ==
    \/ /\ At(c, "stop")
       /\ \E n \in Job(c).stop :
            /\ IF Present(n) THEN StopRunner(n) ELSE UNCHANGED <<slots, runner>>
            /\ syncs' = [syncs EXCEPT ![c].stop = Job(c).stop \ {n}]
       /\ saved' = [Snapshot EXCEPT !.slots = slots']
       /\ UNCHANGED <<blocks, egress, routed, gate, boot, touched, torn, crashes>>
    \/ /\ At(c, "stop") /\ Job(c).stop = {} /\ Proceeds(c, "replace")
       /\ UNCHANGED <<slots, runner, blocks, egress, routed, saved, gate, boot, touched, torn, crashes>>

\* Dropping a slot drops the sender its runner listens to, which ends it.
Dropped(names) ==
    /\ slots' = [n \in Names |-> IF n \in names THEN NoSlot ELSE slots[n]]
    /\ runner' = [n \in Names |-> IF n \in names THEN NoRunner ELSE runner[n]]
    /\ routed' = Release(routed, "service", HostsOf(names))

\* Removed slots go, kept ones get the new definition and keep their intent.
Replace(c) ==
    LET f == Job(c).file
        gone == Held(f.root) \ DOMAIN f.services
        moved == {n \in DOMAIN f.services :
                    Present(n) /\ slots[n].def.host # f.services[n].host}
    IN  /\ At(c, "replace")
        /\ slots' = [n \in Names |->
             IF n \in gone THEN NoSlot
             ELSE IF n \in DOMAIN f.services
                  THEN [root |-> IF Present(n) THEN slots[n].root ELSE f.root,
                        def |-> f.services[n], desired |-> Wanted(n)]
                  ELSE slots[n]]
        /\ runner' = [n \in Names |-> IF n \in gone THEN NoRunner ELSE runner[n]]
        /\ routed' = Release(routed, "service", HostsOf(gone \cup moved))
        /\ Proceeds(c, "save")
        /\ UNCHANGED <<blocks, egress, saved, gate, boot, touched, torn, crashes>>

Save(c) ==
    /\ At(c, "save")
    /\ saved' = Snapshot
    /\ IF Job(c).file = Idle THEN LeaveGate(c) ELSE Proceeds(c, "restart") /\ UNCHANGED gate
    /\ UNCHANGED <<slots, runner, blocks, egress, routed, boot, touched, torn, crashes>>

\* up of every service that was wanted, one after the other.
RestartOne(c) ==
    /\ At(c, "restart")
    /\ \E n \in Job(c).restart :
         /\ BringUp(Closure({n}))
         /\ syncs' = [syncs EXCEPT ![c].restart = Job(c).restart \ {n}]
    /\ saved' = [Snapshot EXCEPT !.slots = slots']
    /\ UNCHANGED <<blocks, egress, gate, boot, touched, torn, crashes>>

SyncReturns(c) ==
    /\ At(c, "restart") /\ Job(c).restart = {}
    /\ LeaveGate(c)
    /\ UNCHANGED <<slots, runner, blocks, egress, routed, saved, boot, touched, torn, crashes>>

-----------------------------------------------------------------------------
(* forget *)

\* Mutant: forget does not wait for its turn.
ForgetUngated(c, names) ==
    /\ boot = "done" /\ syncs[c] = Idle /\ \A n \in names : Present(n)
    /\ \A n \in Names \ names : Present(n) => slots[n].def.depends \cap names = {}
    /\ gate' = c
    /\ syncs' = [syncs EXCEPT ![c] = [pc |-> "forget", file |-> Idle, stop |-> names,
                                      restart |-> names, moved |-> {}, wanted |-> {}]]
    /\ UNCHANGED <<slots, runner, blocks, egress, routed, saved, boot, touched, torn, crashes>>
\* Unknown names and names that a kept service depends on are refused.
ForgetBegin(c, names) ==
    /\ boot = "done" /\ syncs[c] = Idle /\ \A n \in names : Present(n)
    /\ \A n \in Names \ names : Present(n) => slots[n].def.depends \cap names = {}
    /\ gate = Nobody /\ gate' = c
    /\ syncs' = [syncs EXCEPT ![c] = [pc |-> "forget", file |-> Idle, stop |-> names,
                                      restart |-> names, moved |-> {}, wanted |-> {}]]
    /\ UNCHANGED <<slots, runner, blocks, egress, routed, saved, boot, touched, torn, crashes>>

\* The services are stopped, then their slots dropped under one hold.
ForgetStop(c) ==
    /\ At(c, "forget")
    /\ \E n \in Job(c).stop :
         /\ IF Present(n) THEN StopRunner(n) ELSE UNCHANGED <<slots, runner>>
         /\ syncs' = [syncs EXCEPT ![c].stop = Job(c).stop \ {n}]
    /\ saved' = [Snapshot EXCEPT !.slots = slots']
    /\ UNCHANGED <<blocks, egress, routed, gate, boot, touched, torn, crashes>>
ForgetDrop(c) ==
    /\ At(c, "forget") /\ Job(c).stop = {}
    /\ Dropped({n \in Job(c).restart : Present(n)})
    /\ Proceeds(c, "save")
    /\ UNCHANGED <<blocks, egress, saved, gate, boot, touched, torn, crashes>>

-----------------------------------------------------------------------------
(* The daemon dies and comes back: restore_with.                             *)

SyncCrash ==
    /\ crashes < MaxCrashes /\ crashes' = crashes + 1
    /\ slots' = Empty.slots /\ blocks' = Empty.blocks /\ egress' = Empty.egress
    /\ runner' = [n \in Names |-> NoRunner]
    /\ routed' = [h \in RouteHosts |-> Free]
    /\ gate' = Nobody /\ syncs' = [c \in SyncClients |-> Idle]
    /\ boot' = "load" /\ touched' = {} /\ torn' = (torn \/ gate # Nobody)
    /\ UNCHANGED saved

\* The file is read into memory and its egress routes registered.
RestoreLoad(autostart) ==
    /\ boot = "load" /\ boot' = "up"
    /\ slots' = [n \in Names |-> IF saved.slots[n] = NoSlot THEN NoSlot
                  ELSE [saved.slots[n] EXCEPT !.desired = @ /\ autostart]]
    /\ blocks' = saved.blocks /\ egress' = saved.egress
    /\ routed' = Claim(routed, "egress",
         [e \in {d \in EgressNames : saved.egress[d] # NoEgress} |-> saved.egress[e].host])
    /\ saved' = [saved EXCEPT !.slots = slots']
    /\ UNCHANGED <<runner, gate, syncs, touched, torn, crashes>>

RestoreUp ==
    /\ boot = "up" /\ boot' = "done"
    /\ BringUp(Closure({n \in Names : Wanted(n)}))
    /\ saved' = [Snapshot EXCEPT !.slots = slots']
    /\ UNCHANGED <<blocks, egress, gate, syncs, touched, torn, crashes>>

SyncStep(c) ==
    \/ \E f \in Files : SyncBegin(c, f)
    \/ Classify(c) \/ Commit(c) \/ Announce(c) \/ StopOne(c) \/ Replace(c) \/ Save(c)
    \/ RestartOne(c) \/ SyncReturns(c)
ForgetStep(c) ==
    \/ \E names \in SUBSET Names \ {{}} : ForgetBegin(c, names)
    \/ ForgetStop(c) \/ ForgetDrop(c)
SyncNext ==
    \/ \E c \in SyncClients : SyncStep(c) \/ ForgetStep(c)
    \/ \E n \in Names : Up(n) \/ Down(n) \/ Respawn(n)
    \/ \E b \in SecretNames : EditGlobal(b)
    \/ SyncCrash \/ RestoreUp \/ \E autostart \in BOOLEAN : RestoreLoad(autostart)

SyncSpec == SyncInit /\ [][SyncNext]_syncVars

-----------------------------------------------------------------------------
\* No kept service is left with a dependency the daemon does not know, in
\* memory or in services.json, whatever syncs, forgets and crashes interleave
\* (forget: "refuses to leave a kept service with a dangling dependency").
DependsKnown ==
    \A table \in {slots, saved.slots} : \A n \in Names :
        table[n] # NoSlot => \A d \in table[n].def.depends : table[d] # NoSlot

\* What one repository or the operator owns is never taken over by another,
\* and a service is redefined only by a sync of its own root and dropped only
\* by one or by a forget that names it ("service names are global", "block names are global").
OwnersStay ==
    /\ \A n \in Names : Present(n) /\ boot' # "load" =>
         IF slots'[n] = NoSlot
         THEN \E c \in SyncClients : syncs[c] # Idle
                /\ \/ At(c, "forget") /\ n \in Job(c).restart
                   \/ At(c, "replace") /\ Job(c).file.root = slots[n].root
         ELSE /\ slots'[n].root = slots[n].root
              /\ slots'[n].def # slots[n].def =>
                   \E c \in SyncClients : At(c, "replace") /\ Job(c).file.root = slots[n].root
    /\ \A b \in SecretNames : blocks[b] # Nobody => blocks'[b] \in {blocks[b], Nobody}
    /\ \A e \in EgressNames :
         egress[e] # NoEgress /\ egress'[e] # NoEgress => egress'[e].root = egress[e].root

\* A sync that is answered has replaced the root's services, blocks and routes
\* by those of its file, whatever ran beside it; and a service that was up when
\* it began, that the file still has and that no other command touched, is up
\* again, with the definition and on the host of the file.
AnswerApplied ==
    \A c \in SyncClients :
      At(c, "restart") /\ syncs'[c] = Idle /\ boot' = "done" =>
        LET f == Job(c).file
        IN  /\ Held(f.root) = DOMAIN f.services
            /\ \A n \in DOMAIN f.services : slots[n].def = f.services[n]
            /\ {b \in SecretNames : blocks[b] = f.root} = f.blocks
            /\ {e \in EgressNames : egress[e] # NoEgress /\ egress[e].root = f.root}
                 = DOMAIN f.egress
            /\ \A n \in (Job(c).wanted \cap DOMAIN f.services) \ touched :
                 LET def == f.services[n]
                 IN  /\ slots[n].desired /\ runner[n] = def
                     /\ def.host \in RouteHosts =>
                          routed[def.host] = [source |-> "service", owner |-> n]

\* Between syncs the registry carries exactly the egress routes the daemon
\* knows, also after routes were swapped or exchanged hosts with a service
\* ("syncing them IS the start, removing them is the stop").
EgressRouted ==
    gate = Nobody /\ boot # "load" /\ ~torn =>
        \A h \in RouteHosts : \A e \in EgressNames :
            routed[h] = [source |-> "egress", owner |-> e]
            <=> egress[e] # NoEgress /\ egress[e].host = h

\* Between syncs no service runs an old definition or holds a host it moved
\* away from, and none that is wanted lacks its route, unless a command
\* touched it while the sync was at work, or the daemon died inside the sync.
RunsWhatWasSynced ==
    gate = Nobody /\ boot = "done" /\ ~torn =>
        /\ \A n \in Names \ touched :
             /\ runner[n] # NoRunner <=> Wanted(n)
             /\ Wanted(n) => runner[n] = slots[n].def
        /\ \A h \in RouteHosts : \A n \in Names \ touched :
             routed[h] = [source |-> "service", owner |-> n]
             <=> Wanted(n) /\ slots[n].def.host = h

\* What the tables of the daemon and its registry say of one another.
TablesAgree == DependsKnown /\ EgressRouted /\ RunsWhatWasSynced
\* What a sync, a forget and a restore promise of each step, and of what holds
\* after it (supervisor.rs:717, 891, 1515).
SyncTrue == [][OwnersStay /\ AnswerApplied /\ TablesAgree']_syncVars
=============================================================================
