-------------------------------- MODULE Tui --------------------------------
(***************************************************************************)
(* The terminal interface (portman-cli/src/tui.rs): its event loop, the     *)
(* panels with their selections, the modals, and the two ways it reads the  *)
(* daemon's rows: a background refresh, one at a time, and a foreground one  *)
(* after each change.  The requests of a refresh are answered one by one,   *)
(* while the daemon changes or is away.  What is drawn and typed is left     *)
(* out, the state of the bridge is a choice, and the log pane's lines are in *)
(* LogStore.  A panel lists its rows in their order.                         *)
(***************************************************************************)
EXTENDS Naturals, FiniteSets

CONSTANTS
    RowsOf,     \* numbers: what each panel can list
    ListPanels, \* a subset of {"entries", "tlds", "services"}
    Unselected, NotRead,
    MayBeAway   \* may the daemon die and come back?

VARIABLES
    daemon,   \* is it there, and its rows, panel by panel
    rows, sel, \* the rows shown; the index selected in each panel
    focus, modal, pane, \* panel, modal, and whether the log pane is open
    refresh,  \* refresh_inflight, and what that refresh has read
    job      \* the key being handled: its request, then its refresh

tuiVars == <<daemon, rows, sel, focus, modal, pane, refresh, job>>
shownNow == <<rows, sel>>
screen == <<focus, modal, pane>>

Step(pc) == [pc |-> pc, got |-> [p \in ListPanels |-> NotRead]]

Listings ==
    {l \in [ListPanels -> SUBSET UNION {RowsOf[p] : p \in ListPanels}] :
        \A p \in ListPanels : l[p] \subseteq RowsOf[p]}

TuiInit ==
    /\ daemon \in [up : {TRUE}, rows : Listings]
    /\ rows = [p \in ListPanels |-> {}] /\ sel = [p \in ListPanels |-> Unselected]
    /\ focus = "entries" /\ modal = "none" /\ pane = FALSE
    /\ refresh = Step("reading") /\ job = Step("none")

-----------------------------------------------------------------------------
(* Refresh.                                                                  *)

Unread(got) == {p \in ListPanels : got[p] = NotRead}
\* fetch_all: the failure of the services' request only empties their panel,
\* that of any other one fails the refresh.
Fetched(r, s) ==
    \E p \in Unread(r.got) :
        \/ daemon.up /\ s = [r EXCEPT !.got[p] = daemon.rows[p]]
        \/ ~daemon.up /\ s = IF p = "services" THEN [r EXCEPT !.got[p] = {}]
                             ELSE [r EXCEPT !.pc = "failed"]
Complete(r) == r.pc = "failed" \/ (r.pc = "reading" /\ Unread(r.got) = {})

\* clamp_selection.
Clamp(s, n) ==
    IF n = 0 THEN Unselected ELSE IF s = Unselected THEN 0 ELSE IF s >= n THEN n - 1 ELSE s

\* apply_refresh: an error leaves the rows of the last good one.
ApplyRefresh(r) ==
    IF r.pc = "failed" THEN UNCHANGED shownNow
    ELSE /\ rows' = r.got
         /\ sel' = [p \in ListPanels |-> Clamp(sel[p], Cardinality(r.got[p]))]

\* The loop takes ticks, outcomes and keys; a key holds it until it is done.
Looping == job.pc = "none"

\* The ticker starts a refresh unless one is in flight.
TickerStarts ==
    /\ Looping /\ refresh.pc = "none"
    /\ refresh' = Step("reading")
    /\ UNCHANGED <<daemon, shownNow, screen, job>>
RefreshReads ==
    /\ refresh.pc = "reading" /\ Fetched(refresh, refresh')
    /\ UNCHANGED <<daemon, shownNow, screen, job>>
\* Mutant: a failed refresh stays in flight.
ReceivedGood ==
    /\ Looping /\ Complete(refresh) /\ refresh.pc = "reading"
    /\ ApplyRefresh(refresh)
    /\ refresh' = Step("none")
    /\ UNCHANGED <<daemon, screen, job>>
RefreshReceived ==
    /\ Looping /\ Complete(refresh)
    /\ ApplyRefresh(refresh)
    /\ refresh' = Step("none")
    /\ UNCHANGED <<daemon, screen, job>>

\* refresh(), in the handling of a key.
JobReads ==
    /\ job.pc = "reading" /\ Fetched(job, job')
    /\ UNCHANGED <<daemon, shownNow, screen, refresh>>
JobEnds ==
    /\ Complete(job)
    /\ ApplyRefresh(job)
    /\ job' = Step("none")
    /\ UNCHANGED <<daemon, screen, refresh>>

-----------------------------------------------------------------------------
(* Keys, which reach an open modal before anything else.                     *)

FreeKey == Looping /\ modal = "none"
KeyOnly == UNCHANGED <<daemon, shownNow, refresh>>

\* `?`, and `a` in the panels that can grow.
OpenModal ==
    /\ FreeKey
    /\ \/ modal' = "help"
       \/ focus \in {"entries", "tlds"} /\ modal' = "add"
    /\ KeyOnly /\ UNCHANGED <<focus, pane, job>>
CancelModal ==
    /\ Looping /\ modal # "none" /\ modal' = "none"
    /\ KeyOnly /\ UNCHANGED <<focus, pane, job>>
\* The modal closes before its request is sent.
SubmitModal ==
    /\ Looping /\ modal \in {"add", "confirm"} /\ modal' = "none"
    /\ job' = Step(modal)
    /\ KeyOnly /\ UNCHANGED <<focus, pane>>

Panels == <<"status", "entries", "tlds", "services">>
\* A panel's number; Tab goes round, except from the log pane.
FocusKey ==
    /\ FreeKey
    /\ \/ \E i \in 1..4 : focus' = Panels[i]
       \/ \E i, j \in 1..4 :
            focus = Panels[i] /\ focus' = Panels[j] /\ (j = (i % 4) + 1 \/ i = (j % 4) + 1)
    /\ KeyOnly /\ UNCHANGED <<modal, pane, job>>

\* move_sel wraps around; select_first and select_last.
MoveSel ==
    /\ FreeKey /\ focus \in ListPanels /\ rows[focus] # {}
    /\ LET n == Cardinality(rows[focus])
           cur == IF sel[focus] = Unselected THEN 0 ELSE sel[focus]
       IN  \E to \in {(cur + 1) % n, (cur + n - 1) % n, 0, n - 1} :
             sel' = [sel EXCEPT ![focus] = to]
    /\ UNCHANGED <<daemon, rows, screen, refresh, job>>

Selected(p) ==
    IF sel[p] = Unselected THEN {}
    ELSE {i \in rows[p] : Cardinality({j \in rows[p] : j < i}) = sel[p]}

OpenPane ==
    /\ FreeKey /\ focus = "services" /\ focus \in ListPanels /\ Selected("services") # {}
    /\ pane' = TRUE /\ focus' = "logs"
    /\ KeyOnly /\ UNCHANGED <<modal, job>>
ClosePane ==
    /\ FreeKey /\ focus = "logs"
    /\ pane' = FALSE /\ focus' = "services"
    /\ KeyOnly /\ UNCHANGED <<modal, job>>

\* `b` asks first if the status shown has the bridge enabled.
BridgeKey ==
    /\ FreeKey
    /\ \/ modal' = "confirm" /\ UNCHANGED job
       \/ job' = Step("confirm") /\ UNCHANGED modal
    /\ KeyOnly /\ UNCHANGED <<focus, pane>>

\* `r`, and `d`, which removes the selected entry or TLD or shows an error.
ActKey ==
    /\ FreeKey
    /\ \/ job' = Step("reading")
       \/ focus \in ListPanels \ {"services"} /\ Selected(focus) # {} /\ job' = Step("remove")
    /\ KeyOnly /\ UNCHANGED screen

\* The daemon does what it was asked, or refuses, or is away.
JobAnswered ==
    /\ job.pc \in {"remove", "add", "confirm"}
    /\ \/ UNCHANGED daemon
       \/ /\ daemon.up /\ job.pc = "remove"
          /\ daemon' = [daemon EXCEPT !.rows[focus] = @ \ Selected(focus)]
       \/ /\ daemon.up /\ job.pc = "add" /\ focus \in ListPanels
          /\ \E i \in RowsOf[focus] : daemon' = [daemon EXCEPT !.rows[focus] = @ \cup {i}]
    /\ job' = Step("reading")
    /\ UNCHANGED <<shownNow, screen, refresh>>

\* Rows come and go for other reasons too; the daemon dies and comes back.
DaemonChanges ==
    /\ \/ \E p \in ListPanels : \E i \in RowsOf[p] :
            daemon' = [daemon EXCEPT !.rows[p] = IF i \in @ THEN @ \ {i} ELSE @ \cup {i}]
       \/ MayBeAway /\ daemon' = [daemon EXCEPT !.up = ~@]
    /\ UNCHANGED <<shownNow, screen, refresh, job>>

TuiKeys ==
    \/ OpenModal \/ CancelModal \/ SubmitModal \/ FocusKey \/ MoveSel
    \/ OpenPane \/ ClosePane \/ BridgeKey \/ ActKey
HandleKey == JobAnswered \/ JobReads \/ JobEnds
TuiLoop == TickerStarts \/ RefreshReads \/ RefreshReceived \/ HandleKey
TuiNext == TuiLoop \/ TuiKeys \/ DaemonChanges

\* Tasks run, requests end, and the loop takes every ready branch in its turn.
TuiFair ==
    /\ WF_tuiVars(RefreshReads) /\ WF_tuiVars(HandleKey)
    /\ SF_tuiVars(TickerStarts) /\ SF_tuiVars(RefreshReceived)
TuiSpec == TuiInit /\ [][TuiNext]_tuiVars /\ TuiFair

-----------------------------------------------------------------------------
\* A selection is a row of its panel, or there is none to select, however the
\* rows shrank and grew; and the focus is on the log pane only while it is
\* open, so that a key is never taken for a panel that is not there.
ViewSound ==
    /\ \A p \in ListPanels :
         IF rows[p] = {} THEN sel[p] = Unselected ELSE sel[p] \in 0..(Cardinality(rows[p]) - 1)
    /\ focus = "logs" => pane

\* When the daemon is back and its rows stay, they are shown: no failed
\* refresh is the last one, and rows read before a change do not stay; and
\* however the rows shrink and grow meanwhile, the view stays sound.
RowsCatchUp ==
    /\ []ViewSound
    /\ <>[][UNCHANGED daemon]_daemon /\ <>[]daemon.up => <>[](rows = daemon.rows)
=============================================================================
