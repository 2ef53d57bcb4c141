------------------------------ MODULE LogStore ------------------------------
(***************************************************************************)
(* Captured output: from the pipe readers through the bounded channel and   *)
(* the drain task into logs.db (log_store.rs), swept there, and read by     *)
(* cursor polls of the log panes and of `portman logs -f` (handlers.rs,     *)
(* tui.rs, cmd/services.rs), whose processes outlive the daemon.  A line is *)
(* the number it was printed with, which is also its age; its size counts   *)
(* towards the budget of an answer.  The database's lock makes a query, an  *)
(* append and a sweep one step each.                                        *)
(***************************************************************************)
EXTENDS Naturals, Sequences, FiniteSets

CONSTANTS
    LogServices, Viewers,
    Sizes,           \* of a line, truncated when it is captured
    ChannelCapacity, MaxBatch, ByteBudget, PerService,
    TailLimit, PollLimit, \* lines a viewer asks for first, and then
    Scrollback, PageUp,   \* lines a pane keeps; lines a page scrolls
    NoView,
    MaxPrinted, MaxRestarts \* bounds

\* A pane.
View == [service : LogServices, cursor : Nat, primed : BOOLEAN, lines : Seq(Nat),
         scroll : Nat, follow : BOOLEAN, anchor : Nat]
ASSUME LogStoreAssumption ==
    /\ Sizes \subseteq Nat /\ NoView \notin View
    /\ {ChannelCapacity, MaxBatch, ByteBudget, TailLimit, PollLimit, PageUp} \subseteq Nat
    /\ Scrollback \in Nat \ {0}

VARIABLES
    printed,  \* how many lines the services have printed
    channel,  \* captured lines on their way to the drain task
    batch,    \* the lines of the append under way
    log,      \* every line ever committed, at its id
    kept,     \* the ids that are still in the table
    views,    \* the log panes
    restarts

logVars == <<printed, channel, batch, log, kept, views, restarts>>

LogStoreInit ==
    /\ printed = 0 /\ restarts = 0
    /\ channel = <<>> /\ batch = <<>> /\ log = <<>> /\ kept = {}
    /\ views = [v \in Viewers |-> NoView]

Lesser(a, b) == IF a <= b THEN a ELSE b
Less(a, b) == IF a <= b THEN 0 ELSE a - b

\* StoreSink::line: a full channel drops the line rather than wait.
PrintLine(s, size) ==
    /\ printed < MaxPrinted /\ printed' = printed + 1
    /\ channel' = IF Len(channel) < ChannelCapacity
                  THEN Append(channel, [service |-> s, seq |-> printed', size |-> size])
                  ELSE channel
    /\ UNCHANGED <<batch, log, kept, views, restarts>>

\* spawn_drain: whatever is queued, up to a batch.
TakeBatch ==
    /\ batch = <<>> /\ channel # <<>>
    /\ LET n == Lesser(Len(channel), MaxBatch)
       IN  /\ batch' = SubSeq(channel, 1, n)
           /\ channel' = SubSeq(channel, n + 1, Len(channel))
    /\ UNCHANGED <<printed, log, kept, views, restarts>>

\* The ids that were ever given out: AUTOINCREMENT gives none of them again.
Issued == log

\* append_batch is one transaction: all of its lines or, when it fails, none.
AppendBatch ==
    /\ batch # <<>> /\ batch' = <<>>
    /\ \/ /\ log' = Issued \o batch
          /\ kept' = kept \cup (DOMAIN log' \ DOMAIN Issued)
       \/ UNCHANGED <<log, kept>>
    /\ UNCHANGED <<printed, channel, views, restarts>>

Rows(s) == {i \in kept : log[i].service = s}
Newer(rows, i) == {j \in rows : j > i}

\* sweep: the lines older than the cutoff, then all but the newest of each
\* service; an error ends it between two services.
Sweep(cutoff, services) ==
    /\ LET young == {i \in kept : log[i].seq >= cutoff}
           mine(i) == {j \in young : log[j].service = log[i].service}
       IN  kept' = {i \in young : log[i].service \in services
                                  => Cardinality(Newer(mine(i), i)) < PerService}
    /\ UNCHANGED <<printed, channel, batch, log, views, restarts>>

-----------------------------------------------------------------------------
(* Queries: the ids of an answer.                                            *)

Cost(rows) == LET c[n \in 0..Len(log)] ==
                    IF n = 0 THEN 0 ELSE c[n - 1] + (IF n \in rows THEN log[n].size ELSE 0)
              IN  c[Len(log)]
Before(rows, i) == {j \in rows : j < i}

\* The line that exhausts the budget is the last one of the answer.
Chunk(rows) == {i \in rows : Cost(Before(rows, i)) < ByteBudget}

QueryAfter(s, cursor, limit) ==
    LET rows == Newer(Rows(s), cursor)
    IN  Chunk({i \in rows : Cardinality(Before(rows, i)) < limit})
TailOf(s, limit) ==
    LET rows == Rows(s)
    IN  Chunk({i \in rows : Cardinality(Newer(rows, i)) < limit})

\* Mutant: the cursor moves to the end of the table.
EndOfTable(ids, cursor) == Len(log)
\* last_id: of the last line of the answer, or the cursor that was asked with.
LastId(ids, cursor) ==
    IF ids = {} THEN cursor ELSE CHOOSE i \in ids : \A j \in ids : j <= i

-----------------------------------------------------------------------------
(* LogView: lines, and how far from the bottom the pane is scrolled.  `anchor` *)
(* notes for the properties which line was last when the user scrolled.      *)

OpenView(v, s) ==
    /\ views' = [views EXCEPT ![v] = [service |-> s, cursor |-> 0, primed |-> FALSE,
                    lines |-> <<>>, scroll |-> 0, follow |-> TRUE, anchor |-> 0]]
    /\ UNCHANGED <<printed, channel, batch, log, kept, restarts>>
CloseView(v) ==
    /\ views[v] # NoView /\ views' = [views EXCEPT ![v] = NoView]
    /\ UNCHANGED <<printed, channel, batch, log, kept, restarts>>

InOrder(ids) ==
    LET f[n \in 0..Len(log)] ==
          IF n = 0 THEN <<>> ELSE IF n \in ids THEN Append(f[n - 1], log[n].seq) ELSE f[n - 1]
    IN  f[Len(log)]

\* ingest: the cursor never goes back, the oldest lines make room.
Ingest(view, ids, last) ==
    LET all == view.lines \o InOrder(ids)
        drop == Less(Len(all), Scrollback)
    IN  [view EXCEPT !.primed = TRUE,
           !.cursor = IF last > @ THEN last ELSE @,
           !.lines = SubSeq(all, drop + 1, Len(all)),
           !.scroll = IF view.follow THEN @
                      ELSE Lesser(@ + Cardinality(ids), Less(Len(all) - drop, 1))]

\* poll_logs; an error of any kind leaves the pane as it is.
PollLogs(v) ==
    /\ views[v] # NoView
    /\ LET view == views[v]
           ids == IF view.primed THEN QueryAfter(view.service, view.cursor, PollLimit)
                  ELSE TailOf(view.service, TailLimit)
           last == LastId(ids, IF view.primed THEN view.cursor ELSE 0)
       IN  views' = [views EXCEPT ![v] = Ingest(view, ids, last)]
    /\ UNCHANGED <<printed, channel, batch, log, kept, restarts>>

Anchored(view) ==
    [view EXCEPT !.anchor = IF view.lines = <<>> THEN 0
                            ELSE view.lines[Len(view.lines) - view.scroll]]
Scrolled(view, scroll, follow) ==
    Anchored([view EXCEPT !.scroll = scroll, !.follow = follow])

ScrollUp(v, n) ==
    /\ views[v] # NoView
    /\ views' = [views EXCEPT ![v] =
                   Scrolled(@, Lesser(@.scroll + n, Less(Len(@.lines), 1)), FALSE)]
    /\ UNCHANGED <<printed, channel, batch, log, kept, restarts>>
ScrollDown(v, n) ==
    /\ views[v] # NoView
    /\ views' = [views EXCEPT ![v] =
                   Scrolled(@, Less(@.scroll, n), @.follow \/ Less(@.scroll, n) = 0)]
    /\ UNCHANGED <<printed, channel, batch, log, kept, restarts>>
JumpToBottom(v) ==
    /\ views[v] # NoView
    /\ views' = [views EXCEPT ![v] = Scrolled(@, 0, TRUE)]
    /\ UNCHANGED <<printed, channel, batch, log, kept, restarts>>

\* The daemon dies and comes back: what was not committed is lost.
LogRestart ==
    /\ restarts < MaxRestarts /\ restarts' = restarts + 1
    /\ channel' = <<>> /\ batch' = <<>>
    /\ UNCHANGED <<printed, log, kept, views>>

PaneKeys(v) ==
    \/ CloseView(v) \/ JumpToBottom(v) \/ \E s \in LogServices : OpenView(v, s)
    \/ \E n \in {1, PageUp} : ScrollUp(v, n) \/ ScrollDown(v, n)
LogStoreNext ==
    \/ \E s \in LogServices, size \in Sizes : PrintLine(s, size)
    \/ TakeBatch \/ AppendBatch \/ LogRestart
    \/ \E cutoff \in 0..printed, services \in SUBSET LogServices : Sweep(cutoff, services)
    \/ \E v \in Viewers : PollLogs(v) \/ PaneKeys(v)
LogStoreSpec == LogStoreInit /\ [][LogStoreNext]_logVars

-----------------------------------------------------------------------------
Shown(view) == {view.lines[i] : i \in DOMAIN view.lines}

\* A pane shows each line once and in order, and has skipped none that the
\* table still holds between its first line and its cursor, whatever was
\* swept, dropped, restarted or polled again after an error.
NothingSkipped(view) ==
    /\ \A i, j \in DOMAIN view.lines : i < j => view.lines[i] < view.lines[j]
    /\ \A i \in Rows(view.service) :
         i <= view.cursor => view.lines # <<>>
                             /\ (log[i].seq >= view.lines[1] => log[i].seq \in Shown(view))

\* A pane that does not follow stays at the line the user scrolled to until
\* that line leaves the scrollback.
StaysAnchored(view) ==
    ~view.follow /\ view.lines # <<>> /\ view.anchor >= view.lines[1]
    => view.lines[Len(view.lines) - view.scroll] = view.anchor

\* What the panes of log_store.rs and tui.rs promise, together.
PaneTrue ==
    \A v \in Viewers : views[v] # NoView =>
        NothingSkipped(views[v]) /\ StaysAnchored(views[v])
=============================================================================
