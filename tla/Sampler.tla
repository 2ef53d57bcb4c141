------------------------------ MODULE Sampler ------------------------------
(***************************************************************************)
(* Resource sampling (resources.rs): one task collects what Docker and the  *)
(* process table report, keeps each container's counters as the baseline of *)
(* the next sample, and folds the snapshot into bounded time series.        *)
(* Time is in sample periods.  A counter starts again from zero when its    *)
(* container restarts; `used` is what the container really consumed, ever.  *)
(***************************************************************************)
EXTENDS Naturals, Sequences, SequencesExt

CONSTANTS
    Sampled,    \* containers
    Groups,     \* supervised services that may have a process group
    HistoryCapacity,
    NoSample,
    MaxTime, MaxUsed, \* bounds: the clock, and what a container consumes
    Width       \* the counters are integers modulo Width
ASSUME SamplerAssumption == HistoryCapacity \in Nat \ {0}

VARIABLES
    clock,      \* the time, and the tick the sampler waits for
    usage,      \* of each container: is it up, its counter, and all it ever used
    collecting, \* collect: where it is, containers listed, rows and samples so far
    samples,    \* resource_samples: the baseline of each container
    latest,     \* HistoryState: the snapshot requests are answered with ...
    series      \* ... and the times of each series' points

samplerVars == <<clock, usage, collecting, samples, latest, series>>

Keys == Sampled \cup Groups \cup {"total"}
Collecting(pc) == [pc |-> pc, listed |-> {}, rows |-> <<>>, next |-> <<>>, groups |-> {}]
Previous(f, c) == IF c \in DOMAIN f THEN f[c] ELSE NoSample
Put(f, c, x) == [d \in DOMAIN f \cup {c} |-> IF d = c THEN x ELSE f[d]]

SamplerInit ==
    /\ clock = [now |-> 0, tick |-> 0]
    /\ usage = [c \in Sampled |-> [up |-> FALSE, count |-> 0, used |-> 0]]
    /\ samples = <<>> /\ series = <<>>
    /\ collecting = Collecting("idle")
    /\ latest = [at |-> 0, rows |-> <<>>, services |-> {}]

-----------------------------------------------------------------------------
(* What is sampled. *)
Elapse ==
    /\ clock.now < MaxTime
    /\ clock' = [clock EXCEPT !.now = @ + 1]
    /\ UNCHANGED <<usage, collecting, samples, latest, series>>
ContainerRuns(c) ==
    /\ usage' = [usage EXCEPT ![c] = IF @.up THEN [@ EXCEPT !.up = FALSE]
                                     ELSE [@ EXCEPT !.up = TRUE, !.count = 0]]
    /\ UNCHANGED <<clock, collecting, samples, latest, series>>
Consumes(c) ==
    /\ usage[c].up /\ usage[c].used < MaxUsed
    /\ usage' = [usage EXCEPT ![c] = [up |-> TRUE, count |-> @.count + 1, used |-> @.used + 1]]
    /\ UNCHANGED <<clock, collecting, samples, latest, series>>

-----------------------------------------------------------------------------
(* collect.  A rate is the consumption `per` over the time `over`.          *)
None == [per |-> 0, over |-> 0]
\* Mutant: a counter that went backwards is not told apart.
RateWraps(count, previous, window) ==
    IF window = 0 THEN None ELSE [per |-> (count + Width - previous) % Width, over |-> window]
CounterRate(count, previous, window) ==
    IF window = 0 \/ count < previous THEN None ELSE [per |-> count - previous, over |-> window]
\* The system's CPU counter runs with the clock.
CpuPercent(count, previous, system) ==
    IF count <= previous \/ system = 0 THEN None ELSE [per |-> count - previous, over |-> system]

StatsSample(c) == [count |-> usage[c].count, at |-> clock.now, used |-> usage[c].used]
ErrorRow == [cpu |-> None, rate |-> None, grown |-> 0]
UsageFromStats(sample, previous) ==
    IF previous = NoSample THEN ErrorRow
    ELSE LET window == sample.at - previous.at
         IN [cpu |-> CpuPercent(sample.count, previous.count, window),
             rate |-> CounterRate(sample.count, previous.count, window),
             grown |-> sample.used - previous.used]

\* A tick: Docker lists what runs, or the sample is skipped.
ListContainers ==
    /\ collecting.pc = "idle" /\ clock.tick <= clock.now
    /\ clock' = [clock EXCEPT !.tick = clock.now + 1]
    /\ \/ collecting' = [Collecting("stats") EXCEPT !.listed = {c \in Sampled : usage[c].up}]
       \/ UNCHANGED collecting
    /\ UNCHANGED <<usage, samples, latest, series>>
Awaited == collecting.listed \ DOMAIN collecting.rows
\* Each container's stats come by themselves: a sample, one without CPU
\* counters, or an error.  The baseline is the one there was at the listing.
CollectContainer(c) ==
    /\ collecting.pc = "stats" /\ c \in Awaited
    /\ \/ collecting' = [collecting EXCEPT
                !.rows = Put(@, c, UsageFromStats(StatsSample(c), Previous(samples, c))),
                !.next = Put(@, c, StatsSample(c))]
       \/ collecting' = [collecting EXCEPT !.rows = Put(@, c, ErrorRow)]
    /\ UNCHANGED <<clock, usage, samples, latest, series>>
\* All answered: their samples replace the baselines; the services' groups
\* (running_groups) are swept on another thread, where a panic leaves none.
StatsCollected ==
    /\ collecting.pc = "stats" /\ Awaited = {}
    /\ samples' = collecting.next
    /\ \E groups \in SUBSET Groups : collecting' = [collecting EXCEPT !.pc = "record", !.groups = groups]
    /\ UNCHANGED <<clock, usage, latest, series>>

Pushed(snapshot, key) ==
    \/ key = "total" \/ key \in DOMAIN snapshot.rows \/ key \in snapshot.services
Push(points, at) ==
    LET longer == Append(points, at)
    IN SubSeq(longer, IF Len(longer) > HistoryCapacity THEN 2 ELSE 1, Len(longer))
Points(key) == IF key \in DOMAIN series THEN series[key] ELSE <<>>
Retain(snapshot, pushed) ==
    LET kept == {k \in DOMAIN pushed : pushed[k][Len(pushed[k])] + HistoryCapacity >= snapshot.at}
    IN [k \in kept |-> pushed[k]]
RecordSnapshot(snapshot) ==
    LET keys == DOMAIN series \cup {k \in Keys : Pushed(snapshot, k)}
    IN /\ series' = Retain(snapshot, [k \in keys |-> IF Pushed(snapshot, k) THEN Push(Points(k), snapshot.at)
                                                     ELSE series[k]])
       /\ latest' = snapshot
Record ==
    /\ collecting.pc = "record"
    /\ RecordSnapshot([at |-> clock.now, rows |-> collecting.rows, services |-> collecting.groups])
    /\ collecting' = Collecting("idle")
    /\ UNCHANGED <<clock, usage, samples>>

SamplerNext ==
    \/ Elapse
    \/ \E c \in Sampled : ContainerRuns(c) \/ Consumes(c) \/ CollectContainer(c)
    \/ ListContainers \/ StatsCollected \/ Record
SamplerSpec == SamplerInit /\ [][SamplerNext]_samplerVars

-----------------------------------------------------------------------------
Claimed(rate, grown) == rate.per <= grown /\ (rate.per > 0 => rate.over > 0)
\* What ResourceUsage and ResourceHistory answer is true of some sampling: no
\* rate claims more than the container used since the baseline it was computed
\* from, across its restarts, failed samples and missed ticks; a series is in
\* the order of time, within its capacity, has the latest point of whatever
\* the latest snapshot shows, and ends no earlier than the retention window
\* (record_snapshot, counter_rate_per_second, calculate_cpu_percent).
UsageTrue ==
    /\ \A c \in DOMAIN latest.rows :
         Claimed(latest.rows[c].cpu, latest.rows[c].grown) /\ Claimed(latest.rows[c].rate, latest.rows[c].grown)
    /\ \A k \in DOMAIN series :
         /\ Len(series[k]) \in 1..HistoryCapacity
         /\ \A i \in 1..(Len(series[k]) - 1) : series[k][i] <= series[k][i + 1]
         /\ series[k][Len(series[k])] + HistoryCapacity >= latest.at
         /\ Pushed(latest, k) => series[k][Len(series[k])] = latest.at
=============================================================================
