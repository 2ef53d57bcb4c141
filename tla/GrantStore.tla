------------------------------ MODULE GrantStore ------------------------------
(***************************************************************************)
(* The egress grants (egress_grants.rs): which bearer may use which route, *)
(* and until when, kept in egress-grants.json only.  Every operation reads *)
(* the file, may record the time it observed, and writes the file durably; *)
(* a write may fail before or after its rename.  The clock may be set to   *)
(* any time, the daemon may stop, and a power failure may take back a      *)
(* rename that was not synced.                                             *)
(*                                                                         *)
(* Times are seconds.  A scope is a host with a route identity, and a      *)
(* bearer is its digest.  The gate covers a whole operation, so each one   *)
(* is a step; the time of a request is read before.                        *)
(***************************************************************************)
EXTENDS Naturals

CONSTANTS
  Id,         \* grant ids
  Digest,     \* digests of bearers
  Scope,      \* hosts with a route identity
  Request,    \* requests to egress routes
  MaxTime,    \* bound on the clock
  MaxDeaths,   \* bound on how often the daemon dies
  Unused,     \* an id the store does not know
  Tombstone   \* an id revoked before it was issued

Time  == 0 .. MaxTime
Grant == [scope : Scope, digest : Digest, expires : Time, revoked : BOOLEAN]

ASSUME GrantBound == MaxTime \in Nat /\ MaxDeaths \in Nat
ASSUME MarkAssumption  == Unused \notin Grant /\ Tombstone \notin Grant /\ Unused # Tombstone

VARIABLES
  up,       \* the daemon runs
  wall,     \* what the clock shows
  floor,    \* started_at and the seconds elapsed since
  file,     \* egress-grants.json
  risk,     \* the contents a power failure may leave in it
  req,      \* req[r]: request r, with the time read for it
  deaths,    \* daemon deaths so far
  seen,     \* history: the latest time ever saved
  revoked   \* history: the ids whose revocation was answered with success

grantVars == <<up, wall, floor, file, risk, req, deaths, seen, revoked>>

Records == [observed : Time, grants : [Id -> Grant \cup {Unused, Tombstone}]]
NoRecords   == [observed |-> 0, grants |-> [id \in Id |-> Unused]]
Call    == [at : {"sent", "admitted", "denied"}, now : Time, digest : Digest, scope : Scope]
Idle    == [at |-> "idle"]

GrantsInit ==
  /\ up = TRUE
  /\ wall \in Time
  /\ floor = wall
  /\ file = NoRecords
  /\ risk = {NoRecords}
  /\ req = [r \in Request |-> Idle]
  /\ deaths = 0
  /\ seen = 0
  /\ revoked = {}

-----------------------------------------------------------------------------
\* What a write that fails may leave, before and after its rename.
Fails(old, safe, new) == \/ file' = old /\ risk' = safe
                         \/ file' = new /\ risk' = safe \cup {new}

Later(s, t) == IF s < t THEN t ELSE s

\* Mutant: only the time since the start counts.
NoRollbackSinceStart(now) == now >= floor

\* observe: the clock has not been set back.
NoRollback(now) == now >= floor /\ now >= file.observed

\* The file once observe has saved the time, and what is then at risk.
Observed(now)  == [file EXCEPT !.observed = Later(@, now)]
SafeAfter(now) == IF now > file.observed THEN {Observed(now)} ELSE risk
SeenAfter(now) == IF now > file.observed THEN Later(seen, now) ELSE seen

ObserveFails(now) == /\ now > file.observed
                     /\ Fails(file, risk, Observed(now))
                     /\ seen' = seen

IsGrant(g) == g \notin {Unused, Tombstone}

Live(g) == IsGrant(g) /\ ~g.revoked

Digests(records) == {records.grants[id].digest : id \in {i \in Id : IsGrant(records.grants[i])}}

Issuable(id, g) ==
  file.grants[id] = Unused /\ g.expires > wall /\ g.digest \notin Digests(file)

Issue(id, g) ==
  /\ up /\ ~g.revoked /\ NoRollback(wall)
  /\ LET new == [Observed(wall) EXCEPT !.grants[id] = g] IN
     \/ ObserveFails(wall)
     \/ /\ seen' = SeenAfter(wall)
        /\ IF Issuable(id, g)
             THEN \/ file' = new /\ risk' = {new}
                  \/ Fails(Observed(wall), SafeAfter(wall), new)
             ELSE file' = Observed(wall) /\ risk' = SafeAfter(wall)
  /\ UNCHANGED <<up, wall, floor, req, deaths, revoked>>

Revoked(g) == IF IsGrant(g) THEN [g EXCEPT !.revoked = TRUE] ELSE Tombstone

\* Mutant: what is revoked already is not written again.
RevokeOnce(id) ==
  /\ up
  /\ LET new == [file EXCEPT !.grants[id] = Revoked(@)] IN
     \/ /\ file' = new
        /\ risk' = IF new = file THEN risk ELSE {new}
        /\ revoked' = revoked \cup {id}
     \/ Fails(file, risk, new) /\ UNCHANGED revoked
  /\ UNCHANGED <<up, wall, floor, req, deaths, seen>>

\* revoke needs no clock.
Revoke(id) ==
  /\ up
  /\ LET new == [file EXCEPT !.grants[id] = Revoked(@)] IN
     \/ file' = new /\ risk' = {new} /\ revoked' = revoked \cup {id}
     \/ Fails(file, risk, new) /\ UNCHANGED revoked
  /\ UNCHANGED <<up, wall, floor, req, deaths, seen>>

-----------------------------------------------------------------------------
\* authorize reads the clock before permits takes the gate.
Send(r, d, s) ==
  /\ up
  /\ req[r].at # "sent"
  /\ req' = [req EXCEPT ![r] = [at |-> "sent", now |-> wall, digest |-> d, scope |-> s]]
  /\ UNCHANGED <<up, wall, floor, file, risk, deaths, seen, revoked>>

Answer(r, a) == req' = [req EXCEPT ![r].at = a]

\* The grant admits the call.
Admits(g, c) == Live(g) /\ g.scope = c.scope /\ c.now < g.expires /\ g.digest = c.digest

Permits(r) ==
  /\ up /\ req[r].at = "sent"
  /\ LET now == req[r].now IN
     \/ /\ Answer(r, "denied")   \* the clock was set back, or the file cannot be read
        /\ UNCHANGED <<file, risk, seen>>
     \/ /\ NoRollback(now)
        /\ ObserveFails(now)
        /\ Answer(r, "denied")
     \/ /\ NoRollback(now)
        /\ file' = Observed(now)
        /\ risk' = SafeAfter(now)
        /\ seen' = SeenAfter(now)
        /\ Answer(r, IF \E id \in Id : Admits(file.grants[id], req[r])
                       THEN "admitted" ELSE "denied")
  /\ UNCHANGED <<up, wall, floor, deaths, revoked>>

-----------------------------------------------------------------------------
Tick ==
  /\ up /\ wall < MaxTime /\ floor < MaxTime
  /\ wall' = wall + 1
  /\ floor' = floor + 1
  /\ UNCHANGED <<up, file, risk, req, deaths, seen, revoked>>

\* The clock is set, or time passes while nothing runs.
SetClock ==
  /\ wall' \in Time \ {wall}
  /\ UNCHANGED <<up, floor, file, risk, req, deaths, seen, revoked>>

\* The daemon ends, alone or with the machine.
Die ==
  /\ up /\ deaths < MaxDeaths
  /\ up' = FALSE
  /\ deaths' = deaths + 1
  /\ req' = [r \in Request |-> Idle]
  /\ \/ UNCHANGED <<file, risk>>
     \/ file' \in risk /\ risk' = {file'}
  /\ floor' = 0
  /\ UNCHANGED <<wall, seen, revoked>>

\* GrantStore::new
Start ==
  /\ ~up
  /\ up' = TRUE
  /\ floor' = wall
  /\ UNCHANGED <<wall, file, risk, req, deaths, seen, revoked>>

GrantsNext ==
  \/ \E id \in Id, g \in Grant : Issue(id, g)
  \/ \E id \in Id : Revoke(id)
  \/ \E r \in Request : Permits(r) \/ \E d \in Digest, s \in Scope : Send(r, d, s)
  \/ Tick \/ SetClock \/ Die \/ Start

GrantsSpec == GrantsInit /\ [][GrantsNext]_grantVars

-----------------------------------------------------------------------------
(* Properties. *)

\* Type invariant: every variable keeps its shape.
GrantTypes ==
  /\ up \in BOOLEAN /\ wall \in Time /\ floor \in Time /\ deaths \in Nat
  /\ file \in Records /\ risk \subseteq Records
  /\ req \in [Request -> Call \cup {Idle}]
  /\ seen \in Time /\ revoked \subseteq Id

\* A revocation that was answered is final: no crash, no power failure, no
\* setting of the clock and no later issue brings the id to life again
\* (egress_grants.rs:20 "None is a terminal tombstone, including revoke-before-issue").
RevocationFinal == \A id \in revoked, S \in risk : S.grants[id] # Unused /\ ~Live(S.grants[id])
\* A bearer has one grant: reusing it would broaden its authority
\* (egress_grants.rs:109).
OneGrantPerDigest ==
  \A i, k \in Id : /\ IsGrant(file.grants[i]) /\ IsGrant(file.grants[k])
                   /\ file.grants[i].digest = file.grants[k].digest
                   => i = k
\* What issue and revoke promise of the records, whatever happens in between.
GrantsHold == RevocationFinal /\ OneGrantPerDigest

Admission(r) == req[r].at = "sent" /\ req'[r].at = "admitted"
Justified(r) ==
  \E id \in Id \ revoked : Admits(file.grants[id], req[r]) /\ file.grants[id].expires > seen

\* A request is admitted by a grant that was not revoked and that had not
\* expired at any time ever saved, whatever the clock shows now
\* (egress_grants.rs clock_rollback_cannot_reactivate_expired_grants_after_restart).
AdmissionsJustified == [][\A r \in Request : Admission(r) => Justified(r)]_grantVars

=============================================================================
