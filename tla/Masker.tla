------------------------------- MODULE Masker -------------------------------
(***************************************************************************)
(* Masking of secret values in captured output (secret_masker.rs) along a   *)
(* spawn attempt (supervisor.rs, supervise_once) and an egress resolution.  *)
(* A value is a model value and Within says which values contain which; a   *)
(* line is one printed value, and what is stored of it is the marker, the   *)
(* value itself, or the remainder of a value whose part was masked.         *)
(***************************************************************************)
EXTENDS Naturals, FiniteSets

CONSTANTS
    Secrets,     \* the maskable values a service can be given
    Within,      \* pairs <<short, long>>: short is a part of long
    Supervised,  \* services: numbers, in the order of their names
    EgressOwner, \* the number of the egress registration, before every service
    GivenTo,     \* the sets of values each owner can be handed
    MaxLines,    \* bound: lines in a pipe
    TwoRunners   \* may an attempt begin before the last one of its service ended?

ASSUME MaskerConstants ==
    /\ Supervised \subseteq Nat /\ EgressOwner \in Nat \ Supervised
    /\ Within \subseteq Secrets \X Secrets
    /\ GivenTo \in [Supervised \cup {EgressOwner} -> SUBSET SUBSET Secrets]
    /\ {TwoRunners} \subseteq BOOLEAN

VARIABLES
    registered, \* by_service: the values of each owner
    attempts,   \* spawn attempts: their service, values and progress
    pipe,       \* lines printed and not yet read, with the attempt's values
    stored      \* what reached the log store: value given, how it looks

maskVars == <<registered, attempts, pipe, stored>>

Owners == Supervised \cup {EgressOwner}

MaskerInit ==
    /\ registered = [o \in Owners |-> {}]
    /\ attempts = {} /\ pipe = {} /\ stored = {}

\* mask: the owners in the order of their names, the values of each longest
\* first; a part that is replaced first leaves the remainder of the value.
Touches(o, v) == \E s \in registered[o] : s = v \/ <<s, v>> \in Within
Mask(v) ==
    LET hits == {o \in Owners : Touches(o, v)}
        first == CHOOSE o \in hits : \A p \in hits : o <= p
    IN  IF hits = {} THEN "raw" ELSE IF v \in registered[first] THEN "marker" ELSE "rest"

Of(s) == {a \in attempts : a.service = s}
Moves(a, stage) == attempts' = (attempts \ {a}) \cup {[a EXCEPT !.stage = stage]}

\* The environment is composed: provider values and env_files.
Compose(s, given) ==
    /\ TwoRunners \/ Of(s) = {}
    /\ Cardinality(Of(s)) < 2
    /\ attempts' = attempts \cup {[service |-> s, given |-> given, stage |-> "composed"]}
    /\ UNCHANGED <<registered, pipe, stored>>

\* register replaces the service's values, before the spawn.
RegisterValues(a) ==
    /\ a.stage = "composed"
    /\ registered' = [registered EXCEPT ![a.service] = a.given]
    /\ Moves(a, "registered")
    /\ UNCHANGED <<pipe, stored>>

\* The program is found and spawned, or the attempt fails and the values stay
\* registered.
SpawnChild(a) ==
    /\ a.stage = "registered"
    /\ Moves(a, "running") \/ attempts' = attempts \ {a}
    /\ UNCHANGED <<registered, pipe, stored>>

Prints(a, v) ==
    /\ a.stage = "running" /\ v \in a.given /\ Cardinality(pipe) < MaxLines
    /\ pipe' = pipe \cup {[of |-> a.service, given |-> a.given, value |-> v]}
    /\ UNCHANGED <<registered, attempts, stored>>

\* A reader takes a line and stores it through MaskingSink.
Read(l) ==
    /\ l \in pipe
    /\ stored' = stored \cup {<<l.value, Mask(l.value)>>}
    /\ pipe' = pipe \ {l}
    /\ UNCHANGED <<registered, attempts>>

ChildEnds(a) ==
    /\ a.stage = "running" /\ Moves(a, "draining")
    /\ UNCHANGED <<registered, pipe, stored>>

\* The readers reach the end of the pipe, or are cut off after a moment.
Drain(a) ==
    /\ a.stage = "draining"
    /\ pipe' = {l \in pipe : l.of # a.service}
    /\ Moves(a, "drained")
    /\ UNCHANGED <<registered, stored>>

\* Mutant: the attempt unregisters as soon as its child has ended.
UnregisterEarly(a) ==
    /\ a.stage = "draining"
    /\ registered' = [registered EXCEPT ![a.service] = {}]
    /\ UNCHANGED <<attempts, pipe, stored>>
Unregister(a) ==
    /\ a.stage = "drained"
    /\ registered' = [registered EXCEPT ![a.service] = {}]
    /\ attempts' = attempts \ {a}
    /\ UNCHANGED <<pipe, stored>>

\* resolve_egress_value registers under a name of its own and never
\* unregisters.
EgressResolved(given) ==
    /\ registered[EgressOwner] # given
    /\ registered' = [registered EXCEPT ![EgressOwner] = given]
    /\ UNCHANGED <<attempts, pipe, stored>>

AttemptStep(a) ==
    \/ RegisterValues(a) \/ SpawnChild(a) \/ ChildEnds(a) \/ Drain(a) \/ Unregister(a)
    \/ \E v \in Secrets : Prints(a, v)
MaskerNext ==
    \/ \E s \in Supervised : \E given \in GivenTo[s] : Compose(s, given)
    \/ \E a \in attempts : AttemptStep(a)
    \/ \E l \in pipe : Read(l)
    \/ \E given \in GivenTo[EgressOwner] : EgressResolved(given)

MaskerSpec == MaskerInit /\ [][MaskerNext]_maskVars

-----------------------------------------------------------------------------
\* A value a service was given and prints is never stored, whole or in part,
\* whatever other values are registered with it and however late its lines
\* are read.
NothingExposed == \A line \in stored : line[2] = "marker"

=============================================================================
