---------------------------- MODULE Exploration -----------------------------
(***************************************************************************)
(* The exploration of autotune.rs: a step of the rate, the response of     *)
(* every metric measured, and the gains that the response suggests.        *)
(* A manager is a record m; the ticks of a phase count from its start.     *)
(***************************************************************************)
EXTENDS Constraints, Folds

CONSTANTS
    BaselineTicks,      \* baseline_duration_ticks(), at least 3
    StepTicks           \* step_duration_ticks(), at least 5

ASSUME ExplorationAssumption == BaselineTicks \in Nat \ {0} /\ StepTicks \in Nat \ {0}

(* MetricExploration::new.                                                 *)
MetricExploration(metric, target) ==
    [metric |-> metric, target |-> target, baseline |-> <<>>, step |-> <<>>, dead_time |-> NoValue]

(* ExplorationManager::new.                                                *)
ExplorationManager(metrics, initial_rps) ==
    [phase |-> "Baseline", metrics |-> metrics, tick |-> 0, initial_rps |-> initial_rps]

NoManager == ExplorationManager(<<>>, 0)

SumOf(seq) == FoldLeft(LAMBDA acc, x : acc + x, 0, seq)
baseline_mean(x) == IF x.baseline = <<>> THEN 0 ELSE SumOf(x.baseline) \div Len(x.baseline)
noise_threshold(x) == Max({Percent(baseline_mean(x), 5), 1})

Abs(n) == IF n < 0 THEN -n ELSE n

(* The three last measurements are as close as noise is.                   *)
settled(x) ==
    /\ Len(x.step) >= 3
    /\ LET recent == {x.step[i] : i \in Len(x.step) - 2 .. Len(x.step)}
       IN  Max(recent) - Min(recent) < noise_threshold(x)

(* The measurement of a metric; the first one that is not noise tells the  *)
(* dead time.                                                              *)
MeasureBaseline(x, s) == [x EXCEPT !.baseline = Append(@, extract_metric(x.metric, s))]
MeasureStep(x, s, offset) ==
    LET v == extract_metric(x.metric, s)
    IN  [x EXCEPT !.step = Append(@, v),
                  !.dead_time = IF @ = NoValue /\ Abs(v - baseline_mean(x)) > noise_threshold(x)
                                THEN offset ELSE @]

(* tick returns the manager and the rate to use, NoValue when it is done.  *)
ManagerTick(m, s) ==
    LET n      == m.tick + 1
        based  == [i \in DOMAIN m.metrics |-> MeasureBaseline(m.metrics[i], s)]
        stepped == [i \in DOMAIN m.metrics |-> MeasureStep(m.metrics[i], s, n)]
        over   == n >= StepTicks \/ \A i \in DOMAIN stepped : settled(stepped[i])
    IN  CASE m.phase = "Baseline" /\ n < BaselineTicks ->
               [m |-> [m EXCEPT !.tick = n, !.metrics = based], rate |-> m.initial_rps \div 2]
          [] m.phase = "Baseline" /\ n >= BaselineTicks ->
               [m |-> [m EXCEPT !.tick = 0, !.metrics = based, !.phase = "StepResponse"], rate |-> m.initial_rps]
          [] m.phase = "StepResponse" ->
               [m |-> [m EXCEPT !.tick = n, !.metrics = stepped, !.phase = IF over THEN "Complete" ELSE @],
                rate |-> IF over THEN NoValue ELSE m.initial_rps]
          [] m.phase = "Complete" -> [m |-> m, rate |-> NoValue]

-----------------------------------------------------------------------------
(* The gains in thousandths; r is the ratio of dead time and time constant *)
(* in percent, ti and td are ticks in percent.                             *)
compute_cohen_coon_gains(target, dead_time, time_constant) ==
    LET r       == Clamp((100 * dead_time) \div time_constant, 10, 200)
        te      == Max({target \div 2, 1})
        kp      == (1500 * (100 + 5000 \div r)) \div (100 * te)
        ti_den  == 10000 - 39 * r
        ti      == IF Abs(ti_den) > 100
                   THEN Max({(dead_time * (25000 - 200 * r) * 100) \div ti_den, 100 * dead_time})
                   ELSE 500 * dead_time
        td_den  == 10000 - 81 * r
        td      == IF Abs(td_den) > 100 THEN (dead_time * (37 - r) * 10000) \div td_den ELSE 0
    IN  [kp |-> kp, ki |-> (100 * kp) \div ti, kd |-> IF td > 0 THEN (kp * td) \div 100 ELSE 0]

(* The gains of a metric from what was measured; a metric that did not     *)
(* respond, or a step of at most one request per second, gives defaults.   *)
compute_gains_for(m, x) ==
    LET base     == baseline_mean(x)
        delta    == (IF x.step = <<>> THEN base ELSE Last(x.step)) - base
        dead     == Max({IF x.dead_time = NoValue THEN 3 ELSE x.dead_time, 1})
        reached  == {i \in DOMAIN x.step : IF delta > 0 THEN 1000 * (x.step[i] - base) >= 632 * delta
                                           ELSE 1000 * (x.step[i] - base) <= 632 * delta}
        constant == IF reached = {} THEN 2 * dead ELSE Min(reached)
    IN  IF delta = 0 \/ m.initial_rps - m.initial_rps \div 2 <= 1 THEN CONSERVATIVE_GAINS
        ELSE compute_cohen_coon_gains(x.target, dead, Max({constant, 1}))

(* The gains for a constraint on the metric: those of the first match.     *)
GainsFor(m, metric) ==
    LET match == {i \in DOMAIN m.metrics : m.metrics[i].metric = metric}
    IN  IF match = {} \/ m.phase # "Complete" THEN CONSERVATIVE_GAINS
        ELSE compute_gains_for(m, m.metrics[Min(match)])
=============================================================================
