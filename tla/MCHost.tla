------------------------------- MODULE MCHost -------------------------------
(***************************************************************************)
(* What the daemon keeps on the machine, from one start to the next: the    *)
(* broker's inference routes and grants, the mode of the data directory, the *)
(* installed daemon and the resolver files, certificates, and the config     *)
(* files the dashboard edits; each on an instance of its own, the others     *)
(* resting in an initial state.                                             *)
(***************************************************************************)
EXTENDS InferenceRoutes, GrantStore, Boot, Install, Certs, Dashboard

CONSTANTS
    Stores,     \* of these, the ones a run looks at
    a1, a2, l1  \* contents of config files
\* A committed file that one local file fits, and another that it does not.
MCFits == {<<a1, NoSuchFile>>, <<a2, NoSuchFile>>, <<a1, l1>>}

\* Calls of each kind to the dashboard: with and without a body, from another
\* site or a rebound name, with no token or a wrong one.
Sent(route, declared, host, origin, bearer, query) ==
    [route |-> route, version |-> 1, host |-> host, origin |-> origin, bearer |-> bearer, query |-> query,
     head |-> 2, declared |-> declared, names |-> {"x"}, parses |-> TRUE, sound |-> TRUE]
MCCalls ==
    {Sent(r, IF r \in WithBody THEN 2 ELSE 0, h, o, b, q) :
        r \in {"up", "restart", "unset key", "logs", "app.js", "nowhere"}, h \in {"localhost", "rebound"},
        o \in {"none", "own", "other"}, b \in {"none", "token"}, q \in {"none", "token"}}
    \cup {[Sent("forget", 2, "::1", "own", "other", "token") EXCEPT !.sound = s, !.parses = p, !.version = v,
                   !.bearer = b, !.declared = d, !.head = n] :
            s \in BOOLEAN, p \in BOOLEAN, v \in {0, 1}, b \in {"other", "token"}, d \in {0, 2, 4}, n \in {2, 6}}
    \cup {Sent(r, 1, "127.0.0.1", "own", "token", "none") :
            r \in {"down", "static", "set key", "set block", "credentials", "up one", "down one", "start",
                   "unstatic", "unset block"}}

VARIABLE store
hostVars == <<store, vars, grantVars, bootVars, installVars, certVars, dashboardVars, apiVars>>
HostInit ==
    /\ store \in Stores
    /\ Init /\ GrantsInit /\ BootInit /\ InstallInit /\ CertsInit /\ DashboardInit /\ ApiInit
    /\ (store # "grants" => wall = 0)
    /\ (store # "install" => os = "linux" /\ ~dev /\ others = {})
    /\ (store # "dashboard" => held = <<a1, NoSuchFile>>)
    /\ store # "boot" => socket = "none" /\ opened.jobs = {} /\ opened.gates = NoGate
HostNext ==
    /\ UNCHANGED store
    /\ IF store = "inference" THEN Next ELSE UNCHANGED vars
    /\ IF store = "grants" THEN GrantsNext ELSE UNCHANGED grantVars
    /\ IF store = "boot" THEN BootNext ELSE UNCHANGED bootVars
    /\ IF store = "install" THEN InstallNext ELSE UNCHANGED installVars
    /\ IF store = "certs" THEN CertsNext ELSE UNCHANGED certVars
    /\ IF store = "dashboard" THEN DashboardNext ELSE UNCHANGED dashboardVars
    /\ IF store = "api" THEN ApiNext ELSE UNCHANGED apiVars
HostSpec == HostInit /\ [][HostNext]_hostVars

=============================================================================
