---------------------------- MODULE Constraints -----------------------------
(***************************************************************************)
(* The constraints of the adaptive rate controller: smoothing.rs,          *)
(* constraints.rs, threshold.rs, pid_math.rs and pid_constraint.rs.        *)
(*                                                                         *)
(* A constraint is a pair of a record k, what was configured, and a record *)
(* c, its state.  Rates and metrics are integers, severities and factors   *)
(* are percent, the fractions of timeouts and drops per mille, gains       *)
(* thousandths.  The operators are functions of k and c; Arbiter calls     *)
(* them.                                                                   *)
(***************************************************************************)
EXTENDS Integers, Sequences, SequencesExt, FiniteSetsExt

CONSTANTS
    HugeRate,           \* exp(PID_LOG_RATE_MAX): above every bound
    IntegralLimit,      \* INTEGRAL_HARD_LIMIT, 1000 in the code
    RecoveryCap         \* bound on the ticks counted for a recovery

ASSUME ConstraintsAssumption == {HugeRate, IntegralLimit, RecoveryCap} \subseteq Nat

NoValue == -1           \* an Option that is None; all values are naturals

Percent(x, p) == (x * p) \div 100
Clamp(x, lo, hi) == IF x < lo THEN lo ELSE IF x > hi THEN hi ELSE x
CapAt(x, n) == IF x > n THEN n ELSE x

-----------------------------------------------------------------------------
(* Smoothing.  The state of a smoother is the sequence win: empty before   *)
(* the first sample, the last value for none and EMA, the window for the   *)
(* median.                                                                 *)

smooth(sm, win, raw) ==
    CASE sm.kind = "none"   -> <<raw>>
      [] sm.kind = "ema"    -> <<IF win = <<>> THEN raw
                                 ELSE (sm.alpha * raw + (100 - sm.alpha) * win[1]) \div 100>>
      [] sm.kind = "median" -> IF Len(win) < sm.size THEN Append(win, raw) ELSE Append(Tail(win), raw)

(* The element at position n / 2 of the sorted window.                     *)
current(win) == IF win = <<>> THEN 0 ELSE SortSeq(win, <)[Len(win) \div 2 + 1]

min_samples(sm) == IF sm.kind = "median" THEN sm.size ELSE 1

-----------------------------------------------------------------------------
(* Actions of a threshold constraint, in the order of their severity.      *)

ActionLevel == [AllowIncrease |-> 0, Hold |-> 1, GentleBackoff |-> 2, ModerateBackoff |-> 3, HardBackoff |-> 4]
is_backoff(a) == ActionLevel[a] >= 2
backoff_factor(b, a) ==
    CASE a = "GentleBackoff"   -> b.gentle
      [] a = "ModerateBackoff" -> b.moderate
      [] a = "HardBackoff"     -> b.hard
      [] OTHER                 -> 100

SEVERITY_BYPASS_PERSISTENCE == 300

graduated_action(severity) ==
    CASE severity < 70                      -> "AllowIncrease"
      [] severity \in 70..99                -> "Hold"
      [] severity \in 100..149              -> "GentleBackoff"
      [] severity \in 150..199              -> "ModerateBackoff"
      [] severity >= 200                    -> "HardBackoff"

(* The streak is compared with the persistence only, which caps it.        *)
update_streak(streak, persistence, severity) ==
    CASE severity >= 100 -> CapAt(streak + 1, persistence)
      [] severity < 70   -> 0
      [] OTHER           -> streak

apply_persistence(a, streak, persistence, severity) ==
    IF ~is_backoff(a) \/ streak >= persistence \/ severity > SEVERITY_BYPASS_PERSISTENCE THEN a ELSE "Hold"

-----------------------------------------------------------------------------
(* Recovery: the ticks from a backoff until the severity is low again.  Of *)
(* the last severity only its comparison with the threshold is kept.       *)

RECOVERY_MIN_TICKS == 3
RECOVERY_MIN_SAMPLES == 3
RECOVERY_SEVERITY_THRESHOLD == 90
IsRecovered(severity) == severity < RECOVERY_SEVERITY_THRESHOLD

cooldown_estimate(k, c) ==
    IF c.recovery_samples >= RECOVERY_MIN_SAMPLES THEN c.recovery_ema ELSE Max({c.recovery_ema, k.recovery_seed})

advance_recovery(c) ==
    LET ticks == CapAt(c.since_backoff + 1, RecoveryCap)
    IN  IF c.since_backoff = NoValue THEN c
        ELSE IF ticks >= RECOVERY_MIN_TICKS /\ c.recovered
        THEN [c EXCEPT !.recovery_samples = CapAt(@ + 1, RECOVERY_MIN_SAMPLES),
                       !.recovery_ema = (30 * ticks + 70 * @) \div 100,
                       !.since_backoff = NoValue]
        ELSE [c EXCEPT !.since_backoff = ticks]

-----------------------------------------------------------------------------
(* Threshold constraints.                                                  *)

(* The percentiles of the latency are not told apart.                      *)
LatencyMetrics == {"LatencyP50", "LatencyP90", "LatencyP99"}

(* What a constraint reads from the summary s of a tick; a signal that was *)
(* not received is not in the domain of s.signals.                         *)
extract(metric, s, current_rate) ==
    CASE metric = "TimeoutFraction"      -> IF s.requests = 0 THEN NoValue ELSE (1000 * s.timeouts) \div s.requests
      [] metric = "InFlightDropFraction" -> IF current_rate <= 0 THEN NoValue ELSE (1000 * s.drops) \div current_rate
      [] metric \in LatencyMetrics       -> s.latency
      [] metric = "ErrorRate"            -> s.error_pct
      [] metric = "External"             -> IF "signal" \in DOMAIN s.signals THEN s.signals["signal"] ELSE NoValue

(* The limits of the timeout mapping are per mille, like its value.        *)
HardTimeouts(max_error) == Max({(5 * max_error) \div 2, 50})
SoftTimeouts(max_error) == Max({max_error \div 2, 10})

map_to_action(k, c, severity, raw) ==
    CASE k.mapping = "Graduated"       -> graduated_action(severity)
      [] k.mapping = "TimeoutDirect"   -> IF raw >= HardTimeouts(c.max_error) THEN "HardBackoff"
                                          ELSE IF raw >= SoftTimeouts(c.max_error) THEN "GentleBackoff"
                                          ELSE "AllowIncrease"
      [] k.mapping = "InFlightDirect"  -> IF raw > 10 THEN "GentleBackoff"
                                          ELSE IF raw > 1 THEN "Hold" ELSE "AllowIncrease"
      [] k.mapping = "ErrorRateDirect" -> IF raw < c.max_error THEN "AllowIncrease"
                                          ELSE IF 2 * raw < 3 * c.max_error THEN "GentleBackoff"
                                          ELSE "HardBackoff"

compute_severity(k, c, smoothed) ==
    IF k.direction = "HigherIsWorse"
    THEN IF c.threshold > 0 THEN (100 * smoothed) \div c.threshold ELSE 0
    ELSE IF smoothed > 0 THEN (100 * c.threshold) \div smoothed ELSE SEVERITY_BYPASS_PERSISTENCE + 100

NoObjection(severity) == [intent |-> "NoObjection", rate |-> 0, severity |-> severity]
Wants(intent, rate, severity) == [intent |-> intent, rate |-> rate, severity |-> severity]
Inactive == [intent |-> "Inactive", rate |-> 0, severity |-> 0]

action_to_intent(k, a, rate, severity) ==
    CASE a = "AllowIncrease" -> NoObjection(severity)
      [] a = "Hold"          -> Wants("Hold", rate, severity)
      [] OTHER               -> Wants("DesireRate", Percent(rate, backoff_factor(k.backoff, a)), severity)

(* ThresholdConstraint::new.                                               *)
ThresholdState(k) ==
    [threshold |-> k.threshold, max_error |-> k.max_error, win |-> <<>>, violation_streak |-> 0,
     ticks_since_seen |-> 0, missing_streak |-> 0, recovery_ema |-> k.recovery_seed,
     recovery_samples |-> 0, since_backoff |-> NoValue, recovered |-> TRUE]

Result(c, out) == [c |-> c, out |-> out]

(* The severity, the streak and the gate of persistence.                   *)
Judge(k, c, action, severity, rate) ==
    LET streak == update_streak(c.violation_streak, k.persistence, severity)
    IN  Result([c EXCEPT !.violation_streak = streak, !.recovered = IsRecovered(severity)],
               action_to_intent(k, apply_persistence(action, streak, k.persistence, severity), rate, severity))

(* The configured signal is not in the summary.                            *)
EvaluateMissing(k, c, rate) ==
    LET seen    == CapAt(c.ticks_since_seen + 1, k.stale_after_ticks + 1)
        missing == IF seen > k.stale_after_ticks THEN CapAt(c.missing_streak + 1, k.persistence) ELSE c.missing_streak
        d       == [c EXCEPT !.ticks_since_seen = seen, !.missing_streak = missing]
    IN  IF missing < k.persistence \/ k.on_missing = "Ignore" THEN Result(d, Inactive)
        ELSE IF k.on_missing = "Hold" THEN Judge(k, d, "Hold", 85, rate)
        ELSE Judge(k, d, "HardBackoff", SEVERITY_BYPASS_PERSISTENCE + 100, rate)

(* A measured value: smoothing, severity, the cap of a violation that the  *)
(* controller did not cause, persistence.                                  *)
EvaluateValue(k, c, raw, rate, ticks_since_increase) ==
    LET win      == smooth(k.smoother, c.win, raw)
        severity == compute_severity(k, c, current(win))
        d        == [c EXCEPT !.win = win, !.recovered = IsRecovered(severity)]
        action   == map_to_action(k, d, severity, raw)
        capped   == IF is_backoff(action) THEN "Hold" ELSE action
    IN  IF k.self_caused_cap # NoValue /\ ticks_since_increase > 2 /\ severity < k.self_caused_cap
        THEN Result(d, action_to_intent(k, capped, rate, severity))
        ELSE Judge(k, d, action, severity, rate)

ThresholdEvaluate(k, c, s, rate, ticks_since_increase) ==
    LET raw  == extract(k.metric, s, rate)
        seen == IF k.metric = "External" THEN [c EXCEPT !.ticks_since_seen = 0, !.missing_streak = 0] ELSE c
    IN  IF k.metric = "External" /\ raw = NoValue THEN EvaluateMissing(k, c, rate)
        ELSE IF raw = NoValue THEN Result(c, Inactive)
        ELSE EvaluateValue(k, seen, raw, rate, ticks_since_increase)

ThresholdPostSelect(c, is_binding) ==
    advance_recovery(IF is_binding THEN [c EXCEPT !.since_backoff = 0] ELSE c)

(* The threshold of a constraint with a baseline multiplier is set from    *)
(* the median latency of the warmup.                                       *)
on_warmup_complete(k, c, baseline) ==
    IF k.baseline_multiplier = NoValue \/ baseline <= 0 THEN c
    ELSE [c EXCEPT !.threshold = Percent(Max({baseline, k.baseline_floor}), k.baseline_multiplier)]

set_max_error_rate(k, c, pct) ==
    CASE k.mapping = "TimeoutDirect"   -> [c EXCEPT !.max_error = 10 * pct, !.threshold = SoftTimeouts(10 * pct)]
      [] k.mapping = "ErrorRateDirect" -> [c EXCEPT !.max_error = pct, !.threshold = pct]
      [] OTHER                         -> c

ThresholdUpdate(k, c, action, v) ==
    CASE action = "set_threshold"      -> [c EXCEPT !.threshold = v]
      [] action = "set_max_error_rate" -> set_max_error_rate(k, c, v)
      [] OTHER                         -> c

-----------------------------------------------------------------------------
(* PID constraints, in log-rate space.  A step of the log-rate is counted  *)
(* in units of 1/10000.  Which rate it leads to is not computed: exp is    *)
(* increasing, so the sign of the step decides on which side of the        *)
(* current rate the desired one is.                                        *)

PID_LOG_RATE_MAX == 700 * 10000
MAX_INTEGRAL_LOG_CONTRIBUTION == 5 * 10000

CONSERVATIVE_GAINS == [kp |-> 20, ki |-> 1, kd |-> 10]

(* A signal that is missing reads as zero.                                 *)
extract_metric(metric, s) ==
    CASE metric \in LatencyMetrics -> s.latency
      [] metric = "ErrorRate"      -> s.error_pct
      [] metric \in {"ThroughputSend", "ThroughputRecv"} -> s.throughput
      [] metric = "External"       -> IF "signal" \in DOMAIN s.signals THEN s.signals["signal"] ELSE 0

(* Scales of the gains by the error in percent of the target, in tenths.   *)
gain_schedule(e) ==
    CASE e > 40              -> [kp |-> 20, ki |-> 5,  kd |-> 10, reset_integral |-> FALSE]
      [] e > 10 /\ e <= 40   -> [kp |-> 10, ki |-> 8,  kd |-> 15, reset_integral |-> FALSE]
      [] e > -10 /\ e <= 10  -> [kp |-> 7,  ki |-> 10, kd |-> 10, reset_integral |-> FALSE]
      [] e > -30 /\ e <= -10 -> [kp |-> 15, ki |-> 3,  kd |-> 20, reset_integral |-> FALSE]
      [] OTHER               -> [kp |-> 30, ki |-> 0,  kd |-> 25, reset_integral |-> TRUE]

Unscheduled == [kp |-> 10, ki |-> 10, kd |-> 10, reset_integral |-> FALSE]

effective_gains(k, c, error) ==
    LET m == IF ~k.use_scheduling THEN Unscheduled
             ELSE gain_schedule(IF c.target # 0 THEN (100 * error) \div c.target ELSE error)
    IN  [kp |-> c.kp * m.kp, ki |-> c.ki * m.ki, kd |-> c.kd * m.kd, reset_integral |-> m.reset_integral]

NoCache == [valid |-> FALSE, error |-> 0, desired_rate |-> 0, ki |-> 0]

(* PidConstraint::from_config and auto_tuning.                             *)
PidState(k) ==
    [target |-> k.target, win |-> <<>>, samples_seen |-> 0, kp |-> k.gains.kp, ki |-> k.gains.ki,
     kd |-> k.gains.kd, integral |-> 0, last_error |-> 0, derivative_valid |-> FALSE,
     eval_cache |-> NoCache, awaiting_exploration |-> k.auto]

(* In percent of the target, and never negative.                           *)
pid_severity(k, c, error) ==
    LET worse == IF k.direction = "HigherIsWorse" THEN -error ELSE error
    IN  IF c.target = 0 THEN 0 ELSE Max({(100 * worse) \div c.target, 0})

(* A rate on the side of the current one that the step demands.            *)
Reachable(step, current_rate, rate) ==
    /\ step > 0 => rate >= current_rate
    /\ step < 0 => rate <= current_rate
    /\ step = 0 => rate = current_rate

(* Every result of evaluate; the desired rate is taken from Rates.         *)
PidEvaluate(k, c, s, current_rate, Rates) ==
    LET win     == smooth(k.smoother, c.win, extract_metric(k.metric, s))
        samples == CapAt(c.samples_seen + 1, min_samples(k.smoother))
        error   == c.target - current(win)
        gains   == effective_gains(k, c, error)
        sampled == [c EXCEPT !.win = win, !.samples_seen = samples]
        reset   == IF gains.reset_integral THEN [sampled EXCEPT !.integral = 0, !.derivative_valid = FALSE]
                   ELSE sampled
        deriv   == IF reset.derivative_valid THEN error - c.last_error ELSE 0
        severity == pid_severity(k, c, error)
        step    == gains.kp * error + gains.ki * reset.integral + gains.kd * deriv
        cached(d, rate) == [d EXCEPT !.eval_cache = [valid |-> TRUE, error |-> error,
                                                     desired_rate |-> rate, ki |-> gains.ki]]
    IN  CASE c.awaiting_exploration -> {Result(c, Inactive)}
          [] ~c.awaiting_exploration /\ samples < min_samples(k.smoother) -> {Result(sampled, Inactive)}
          [] ~c.awaiting_exploration /\ samples >= min_samples(k.smoother) /\ step > PID_LOG_RATE_MAX ->
             {Result(cached([reset EXCEPT !.integral = 0, !.derivative_valid = FALSE], HugeRate),
                     Wants("DesireRate", HugeRate, severity))}
          [] OTHER ->
             {Result(cached([reset EXCEPT !.derivative_valid = TRUE], rate), Wants("DesireRate", rate, severity)) :
                 rate \in {r \in Rates : Reachable(step, current_rate, r)}}

(* Anti-windup: the integral does not grow in the direction in which the   *)
(* selected rate did not follow.  The tolerance is one percent.            *)
Saturated(cache, selected_rate) ==
    \/ 100 * cache.desired_rate > 101 * selected_rate /\ cache.error > 0
    \/ 101 * cache.desired_rate < 100 * selected_rate /\ cache.error < 0

(* The contribution of the integral to a step is limited as well.          *)
IntegralMax(ki) == IF ki = 0 THEN IntegralLimit ELSE Min({MAX_INTEGRAL_LOG_CONTRIBUTION \div ki, IntegralLimit})
clamp_integral(x, ki) == Clamp(x, -IntegralMax(ki), IntegralMax(ki))

(* The integral that back-calculation leads to depends on logarithms of    *)
(* the rates: it is one of a few values within the limit.                  *)
pid_back_calculate_log(c, ki) ==
    IF ki = 0 THEN {c.integral} ELSE {clamp_integral(i, ki) : i \in {c.integral, 0, -IntegralLimit, IntegralLimit}}

(* Every result of post_select.  A constraint that is not binding tracks   *)
(* the selected rate.                                                      *)
PidPostSelect(c, selected_rate, is_binding) ==
    LET cache     == c.eval_cache
        done      == [c EXCEPT !.eval_cache = NoCache, !.last_error = cache.error]
        integrals == IF ~is_binding THEN pid_back_calculate_log(c, cache.ki)
                     ELSE IF Saturated(cache, selected_rate) THEN {c.integral} ELSE {c.integral + cache.error}
    IN  IF ~cache.valid THEN {c}
        ELSE {[done EXCEPT !.integral = clamp_integral(i, cache.ki)] : i \in integrals}

on_rate_override(c) == [c EXCEPT !.derivative_valid = FALSE, !.eval_cache = NoCache]

(* The integral is rescaled so that its contribution stays the same.       *)
set_gains(c, g) ==
    [c EXCEPT !.integral = IF g.ki = 0 THEN 0 ELSE IF c.ki # 0 THEN (@ * c.ki) \div g.ki ELSE @,
              !.kp = g.kp, !.ki = g.ki, !.kd = g.kd]

on_exploration_complete(c, gains) ==
    IF c.awaiting_exploration THEN [set_gains(c, gains) EXCEPT !.awaiting_exploration = FALSE] ELSE c

reset_integrator(c) == [c EXCEPT !.integral = 0, !.derivative_valid = FALSE]

PidUpdate(c, action, v) ==
    CASE action = "set_target"       -> reset_integrator([c EXCEPT !.target = v])
      [] action = "set_gains"        -> set_gains(c, [kp |-> v, ki |-> v, kd |-> v])
      [] action = "reset_integrator" -> reset_integrator(c)
      [] OTHER                       -> c
=============================================================================
