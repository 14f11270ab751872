----------------------------- MODULE Telemetry ------------------------------
(***************************************************************************)
(* What the numbers of a running test are made of: the collector of every  *)
(* worker (netanvil-metrics, collector.rs), the aggregate of a control     *)
(* tick (aggregate.rs), the sliding window, the external signals and the   *)
(* saturation assessment of the coordinator (netanvil-core), and the state *)
(* it shares with the HTTP handlers (netanvil-api, types.rs).  Which       *)
(* requests are counted is the subject of Engine; this module is about     *)
(* what is computed from them.  Time is counted in control intervals,      *)
(* delays in milliseconds.                                                 *)
(***************************************************************************)
EXTENDS Integers, Sequences, FiniteSets, SequencesExt, FiniteSetsExt

CONSTANTS
    Cores,              \* the workers, 1..n in the order the coordinator drains them
    CoreCapacity,       \* in-flight limit of a core
    TelemetryTests,     \* the tests that are looked at: records of the fields below
    TargetRate          \* requests per control interval the controller asks for

(* aggregation and polls configure the signals; outcomes, values, delays   *)
(* and gaps are what the outcome of a request, its response header, its    *)
(* scheduling delay and the time between two ticks may be; the others      *)
(* bound the requests recorded, the fires, the pushes, the ticks, and the  *)
(* snapshots of a core that wait.                                          *)
TelemetryTest ==
    [aggregation : {"Mean", "Max", "Last"}, polls : BOOLEAN,
     outcomes : SUBSET {"ok", "slow", "error", "timeout"}, values : SUBSET Int,
     delays : SUBSET Nat, gaps : SUBSET (Nat \ {0}),
     recorded : Nat, fires : Nat, pushes : Nat, ticks : Nat, waiting : Nat]

ASSUME TelemetryAssumption ==
    /\ Cores \in SUBSET Nat /\ IsFiniteSet(Cores)
    /\ CoreCapacity \in Nat \ {0} /\ TargetRate \in Nat \ {0}
    /\ TelemetryTests \subseteq TelemetryTest

NoValue == <<>>                 \* a signal that is not present; <<v>> is one that is
WindowDuration == 3             \* SlidingWindow::new(control_interval * 3)
SignalNames == {"header", "polled"}

VARIABLES
    observed,       \* the test, one of TelemetryTests
    collector,      \* per core: its HdrMetricsCollector
    in_flight,      \* per core: requests in flight
    reports,        \* per core: snapshots on their way to the coordinator
    timer_stats,    \* TimerStats: dispatched and dropped
    last_stats,     \* last_timer_dispatched and last_timer_dropped
    sliding,        \* sliding_window: a sequence of [at, requests]
    pushed,         \* SharedState.pushed_signals
    shown,          \* SharedState: what GET /metrics answers
    tick,           \* the last control tick: its aggregate and its summary
    past            \* history: the ticks so far, the pushes so far, the drops reported

telemetryVars ==
    <<observed, collector, in_flight, reports, timer_stats, last_stats, sliding, pushed, shown,
      tick, past>>

-----------------------------------------------------------------------------
(* Collectors.                                                             *)

(* ResponseSignalAccumulator::default, and one more value.                 *)
NoSignal == [sum |-> 0, count |-> 0, max |-> 0, last |-> 0]

Accumulate(acc, v) ==
    [sum |-> acc.sum + v, count |-> acc.count + 1, max |-> Max({acc.max, v}), last |-> v]

(* A collector with an empty window.  Of the latency histogram it keeps    *)
(* how many latencies are in it and how many of them are over 5s.          *)
(* "values" is history: the signal values recorded in the window.          *)
NewCollector ==
    [requests |-> 0, errors |-> 0, measured |-> 0, slow |-> 0,
     delay_sum |-> 0, delay_max |-> 0, over_1ms |-> 0, signal |-> NoSignal, values |-> <<>>]

(* HdrMetricsCollector::record: a timeout is an error, and nothing else of *)
(* it is recorded.                                                         *)
Recorded(c, outcome, delay, v) ==
    IF outcome = "timeout"
    THEN [c EXCEPT !.requests = @ + 1, !.errors = @ + 1]
    ELSE [requests |-> c.requests + 1,
          errors |-> c.errors + (IF outcome = "error" THEN 1 ELSE 0),
          measured |-> c.measured + 1, slow |-> c.slow + (IF outcome = "slow" THEN 1 ELSE 0),
          delay_sum |-> c.delay_sum + delay,
          delay_max |-> Max({c.delay_max, delay}),
          over_1ms |-> c.over_1ms + (IF delay > 1 THEN 1 ELSE 0),
          signal |-> IF v = NoValue THEN c.signal ELSE Accumulate(c.signal, v[1]),
          values |-> c.values \o v]

AfterSnapshot(c) == NewCollector

(* Bound: what happens after the last tick is not looked at.               *)
MoreTicks == Len(past.ticks) < observed.ticks

(* A request is put in flight, when the core's limit has room.             *)
TelIssue(w) ==
    /\ MoreTicks /\ in_flight[w] < CoreCapacity
    /\ past.recorded + MapThenSumSet(LAMBDA c : in_flight[c], Cores) < observed.recorded
    /\ in_flight' = [in_flight EXCEPT ![w] = @ + 1]
    /\ UNCHANGED <<observed, collector, reports, timer_stats, last_stats, sliding, pushed, shown,
                   tick, past>>

(* It ends and is recorded.                                                *)
TelRecord(w) ==
    /\ MoreTicks /\ in_flight[w] > 0
    /\ in_flight' = [in_flight EXCEPT ![w] = @ - 1]
    /\ \E outcome \in observed.outcomes, delay \in observed.delays,
          v \in {NoValue} \cup {<<x>> : x \in observed.values} :
          /\ collector' = [collector EXCEPT ![w] = Recorded(@, outcome, delay, v)]
    /\ past' = [past EXCEPT !.recorded = @ + 1]
    /\ UNCHANGED <<observed, reports, timer_stats, last_stats, sliding, pushed, shown, tick>>

(* The worker takes a snapshot, stamps its in-flight gauge and sends it.   *)
TelReport(w) ==
    /\ MoreTicks /\ Len(reports[w]) < observed.waiting
    /\ reports' = [reports EXCEPT ![w] =
                      Append(@, collector[w] @@ [in_flight |-> in_flight[w],
                                                 capacity |-> CoreCapacity])]
    /\ collector' = [collector EXCEPT ![w] = AfterSnapshot(@)]
    /\ UNCHANGED <<observed, in_flight, timer_stats, last_stats, sliding, pushed, shown, tick,
                   past>>

(* The timer sends a fire, or drops it because the channel is full.        *)
TelFire ==
    /\ timer_stats.dispatched + timer_stats.dropped < observed.fires
    /\ \/ timer_stats' = [timer_stats EXCEPT !.dispatched = @ + 1]
       \/ timer_stats' = [timer_stats EXCEPT !.dropped = @ + 1]
    /\ UNCHANGED <<observed, collector, in_flight, reports, last_stats, sliding, pushed, shown,
                   tick, past>>

-----------------------------------------------------------------------------
(* AggregateMetrics.                                                       *)

NewAggregate == NewCollector @@ [in_flight |-> 0, capacity |-> 0]

CapacityMerged(a, s) == a.capacity + s.capacity

(* merge: sums of sums, maxima of maxima, and the last value of the last   *)
(* snapshot that has one.                                                  *)
Merge(s, a) ==
    [requests |-> a.requests + s.requests, errors |-> a.errors + s.errors,
     measured |-> a.measured + s.measured, slow |-> a.slow + s.slow,
     delay_sum |-> a.delay_sum + s.delay_sum, delay_max |-> Max({a.delay_max, s.delay_max}),
     over_1ms |-> a.over_1ms + s.over_1ms,
     signal |-> IF s.signal.count = 0 THEN a.signal
                ELSE [sum |-> a.signal.sum + s.signal.sum,
                      count |-> a.signal.count + s.signal.count,
                      max |-> Max({a.signal.max, s.signal.max}),
                      last |-> s.signal.last],
     values |-> a.values \o s.values,
     in_flight |-> a.in_flight + s.in_flight, capacity |-> CapacityMerged(a, s)]

(* Every waiting snapshot, worker by worker.                               *)
Waiting == FlattenSeq([i \in 1..Cardinality(Cores) |-> reports[SetToSortSeq(Cores, <)[i]]])

TickAggregate == FoldLeft(LAMBDA a, s : Merge(s, a), NewAggregate, Waiting)

(* compute_response_signals.  A mean is kept as <<sum, count>>.            *)
ResponseSignal(acc) ==
    CASE acc.count = 0 -> NoValue
      [] observed.aggregation = "Mean" /\ acc.count > 0 -> <<acc.sum, acc.count>>
      [] observed.aggregation = "Max" /\ acc.count > 0 -> <<acc.max>>
      [] observed.aggregation = "Last" /\ acc.count > 0 -> <<acc.last>>

-----------------------------------------------------------------------------
(* External signals.                                                       *)

(* SharedState::push_signal: the last value pushed under a name wins.      *)
PutSignal(name) ==
    /\ MoreTicks /\ past.pushes < observed.pushes
    /\ past' = [past EXCEPT !.pushes = @ + 1]
    /\ pushed' = [pushed EXCEPT ![name] = <<past.pushes + 1>>]
    /\ UNCHANGED <<observed, collector, in_flight, reports, timer_stats, last_stats, sliding,
                   shown, tick>>

(* upsert_signals: what is merged later overrides what is there.           *)
Upsert(target, source) ==
    [n \in SignalNames |-> IF source[n] # NoValue THEN source[n] ELSE target[n]]

(* drain_pushed_signals takes them.                                        *)
Drained == [n \in SignalNames |-> NoValue]

OnlySignal(name, v) == [n \in SignalNames |-> IF n = name THEN v ELSE NoValue]

-----------------------------------------------------------------------------
(* Sliding window.                                                         *)

Expired(e, now) == e.at < now - WindowDuration

(* push and evict.                                                         *)
PushWindow(now, requests) ==
    LET Fresh(e) == ~Expired(e, now)
    IN SelectSeq(Append(sliding, [at |-> now, requests |-> requests]), Fresh)

(* Faulty variant: the first entry's requests are counted.                 *)
CountedEntriesAll(w) == w

(* Requests of the first entry were made before the span.                  *)
CountedEntries(w) == Tail(w)

(* request_rate, as requests and the intervals they were made in.          *)
RequestRate(w) ==
    IF Len(w) < 2
    THEN [requests |-> w[1].requests, span |-> WindowDuration]
    ELSE [requests |-> FoldLeft(LAMBDA n, e : n + e.requests, 0, CountedEntries(w)),
          span |-> Last(w).at - w[1].at]

-----------------------------------------------------------------------------
(* The control tick.                                                       *)

(* Between two ticks only what the tick before was pushed is remembered.   *)
IdleTick(used) ==
    LET none == [n \in SignalNames |-> NoValue]
    IN [pc |-> "idle", agg |-> NewAggregate, rate |-> [requests |-> 0, span |-> 1],
        signals |-> used, offered |-> <<none, none, used>>]

(* The first half of tick(): metrics, signals, smoothed rate.  The polled  *)
(* endpoint answers or does not.                                           *)
TelCollect ==
    /\ tick.pc = "idle" /\ MoreTicks
    /\ \E gap \in observed.gaps, poll \in {NoValue} \cup (IF observed.polls THEN {<<0>>} ELSE {}) :
          LET now == (IF past.ticks = <<>> THEN 0 ELSE Last(past.ticks).at) + gap
              agg == TickAggregate
              header == OnlySignal("header", ResponseSignal(agg.signal))
          IN /\ sliding' = PushWindow(now, agg.requests)
             /\ tick' = [pc |-> "saturation", agg |-> agg, rate |-> RequestRate(sliding'),
                         signals |-> Upsert(Upsert(header, OnlySignal("polled", poll)), pushed),
                         offered |-> <<header, OnlySignal("polled", poll), pushed>>]
             /\ past' = [past EXCEPT !.ticks = Append(@, [at |-> now, requests |-> agg.requests])]
    /\ pushed' = Drained
    /\ reports' = [w \in Cores |-> <<>>]
    /\ UNCHANGED <<observed, collector, in_flight, timer_stats, last_stats, shown>>

(* The thresholds of compute_saturation: 1% of the fires dropped, a mean   *)
(* delay of 5ms, 10% of the requests delayed, or 90% of the rate missed.   *)
ClientSignals(agg, dispatched, dropped, rate) ==
    \/ dropped * 100 > dispatched + dropped
    \/ agg.requests > 0 /\ agg.delay_sum \div agg.requests > 5
    \/ agg.over_1ms * 10 > agg.requests
    \/ agg.requests > 0 /\ rate.requests * 10 < 9 * TargetRate * rate.span

(* 5% errors, or a 99th percentile over 5s.                                *)
ServerSignals(agg) == agg.errors * 20 > agg.requests \/ agg.slow > agg.measured \div 100

Assessment(client, server) ==
    CASE ~client /\ ~server -> "Healthy"
      [] client /\ ~server -> "ClientSaturated"
      [] ~client /\ server -> "ServerSaturated"
      [] client /\ server -> "BothSaturated"

SeenStats == timer_stats

(* compute_saturation, and the progress that the callback hands over.      *)
ComputeSaturation ==
    LET dispatched == timer_stats.dispatched - last_stats.dispatched
        dropped == timer_stats.dropped - last_stats.dropped
        assessment == Assessment(ClientSignals(tick.agg, dispatched, dropped, tick.rate),
                                 ServerSignals(tick.agg))
    IN /\ tick.pc = "saturation"
       /\ last_stats' = SeenStats
       /\ tick' = IdleTick(tick.offered[3])
       /\ past' = [past EXCEPT !.drops = @ + dropped]
       /\ shown' = [requests |-> shown.requests + tick.agg.requests,
                    errors |-> shown.errors + tick.agg.errors, assessment |-> assessment]
       /\ UNCHANGED <<observed, collector, in_flight, reports, timer_stats, sliding, pushed>>

TelemetryInit ==
    /\ observed \in TelemetryTests
    /\ collector = [w \in Cores |-> NewCollector]
    /\ in_flight = [w \in Cores |-> 0]
    /\ reports = [w \in Cores |-> <<>>]
    /\ timer_stats = [dispatched |-> 0, dropped |-> 0]
    /\ last_stats = timer_stats
    /\ sliding = <<>>
    /\ pushed = [n \in SignalNames |-> NoValue]
    /\ shown = [requests |-> 0, errors |-> 0, assessment |-> "Healthy"]
    /\ tick = IdleTick(pushed)
    /\ past = [ticks |-> <<>>, recorded |-> 0, pushes |-> 0, drops |-> 0]

TelemetryNext ==
    \/ \E w \in Cores : TelIssue(w) \/ TelRecord(w) \/ TelReport(w)
    \/ \E n \in SignalNames : PutSignal(n)
    \/ TelFire \/ TelCollect \/ ComputeSaturation

-----------------------------------------------------------------------------
(* The reported rate counts each request once: the requests of exactly the *)
(* ticks after the oldest one that is not older than the window, over the  *)
(* time since that tick ("We skip it to avoid a fencepost overcount",      *)
(* coordinator.rs).                                                        *)
SmoothedRateExact ==
    LET now == Last(past.ticks).at
        kept == {t \in Range(past.ticks) : t.at >= now - WindowDuration}
        from == Min({t.at : t \in kept})
    IN Len(past.ticks) > 1 /\ from < now /\ tick.pc = "saturation" =>
          tick.rate =
              [requests |-> MapThenSumSet(LAMBDA t : t.requests, {t \in kept : t.at > from}),
               span |-> now - from]

(* Every fire the timer dropped is reported by one tick and by one only,   *)
(* whenever the timer thread runs between the loads of the counters.       *)
TickDropsOnce == past.drops = last_stats.dropped /\ last_stats.dropped <= timer_stats.dropped

(* The value of a response signal is the aggregate of the header values of *)
(* exactly the requests in the snapshots of this tick; "Last" is last in   *)
(* the order in which the snapshots are merged, core by core.  Max starts  *)
(* at 0: negative values alone give 0.                                     *)
SignalExact ==
    LET vs == tick.agg.values IN
    tick.offered[1]["header"] =
        CASE vs = <<>> -> NoValue
          [] vs # <<>> /\ observed.aggregation = "Mean" ->
                <<FoldLeft(LAMBDA n, v : n + v, 0, vs), Len(vs)>>
          [] vs # <<>> /\ observed.aggregation = "Max" -> <<Max({0} \cup Range(vs))>>
          [] vs # <<>> /\ observed.aggregation = "Last" -> <<Last(vs)>>

(* A signal of the summary is the pushed value when one was pushed since   *)
(* the tick before, otherwise the polled one, otherwise the one from the   *)
(* response headers ("pushed signals override any with the same key").     *)
PushedFirst ==
    \A n \in SignalNames :
        tick.signals[n] = IF tick.offered[3][n] # NoValue THEN tick.offered[3][n]
                          ELSE IF tick.offered[2][n] # NoValue THEN tick.offered[2][n]
                          ELSE tick.offered[1][n]

(* A push is used by one tick: "each push is a single update, not a        *)
(* persistent value" (SharedState::drain_pushed_signals).                  *)
PushUsedOnce ==
    [][\A n \in SignalNames :
        tick'.pc = "saturation" /\ tick.pc = "idle" /\ tick'.offered[3][n] # NoValue =>
            tick'.offered[3][n] # tick.offered[3][n]]_telemetryVars

(* The reported gauge fits its reported capacity, however many snapshots   *)
(* of a core one tick merges (both are sums over snapshots).               *)
GaugeFits == tick.agg.in_flight <= tick.agg.capacity

(* The numbers of a tick are those of its requests, fires and signals,     *)
(* each counted in one tick and in one only.                               *)
NumbersExact ==
    /\ [](SmoothedRateExact /\ TickDropsOnce /\ SignalExact /\ PushedFirst /\ GaugeFits)
    /\ PushUsedOnce

=============================================================================
