----------------------------- MODULE RateConfig -----------------------------
(***************************************************************************)
(* What a test is configured with, types/config.rs, and how builder.rs     *)
(* turns it into a controller.  An Option that is None is NoValue or the   *)
(* empty record.                                                           *)
(***************************************************************************)
EXTENDS Exploration

CONSTANTS
    CatastrophicSeed,   \* default_recovery_seed: 20 ticks in the code
    OperatingPointSeed, \* 5 ticks in the code
    FloorWindow,        \* default_floor_window: 60 seconds in the code
    CeilingRamp         \* half of the duration of the test, in ticks

None == [kind |-> "default"]
DefaultBackoff == [gentle |-> 90, moderate |-> 75, hard |-> 50]
DefaultIncrease == [factor |-> 110, congestion |-> FALSE]
DefaultCongestionAvoidance == [trigger |-> 85, additive |-> 1, alpha |-> 30]
DefaultCooldown == [min_ticks |-> 2, multiplier |-> 150]
DefaultFloor == [fraction |-> 80]
DefaultLimits == [increase |-> 20, decrease |-> 50]
DefaultBaselineFloor == 4
default_smoothing == 30
BackoffDetectionThreshold == 98

(* ThresholdConstraintConfig and SetpointConstraintConfig with every field *)
(* that serde fills in.                                                    *)
ThresholdDefaults ==
    [type |-> "Threshold", id |-> "", metric |-> "", smoother |-> None, class |-> "default",
     threshold |-> 0, from_baseline |-> NoValue, baseline_floor |-> DefaultBaselineFloor, persistence |-> 1,
     self_caused_cap |-> NoValue, backoff |-> DefaultBackoff,
     signal_direction |-> "HigherIsWorse", on_missing |-> "Ignore", stale_after_ticks |-> 3]
SetpointDefaults ==
    [type |-> "Setpoint", id |-> "", metric |-> "", smoother |-> None, target |-> 0,
     auto |-> TRUE, gains |-> CONSERVATIVE_GAINS, smoothing |-> default_smoothing]

-----------------------------------------------------------------------------
default_smoother_for_metric(metric) ==
    IF metric \in LatencyMetrics THEN [kind |-> "median", size |-> 3] ELSE [kind |-> "ema", alpha |-> 30]

map_smoother_config(cc) == IF cc.smoother = None THEN default_smoother_for_metric(cc.metric) ELSE cc.smoother

map_smoother_config_for_pid(cc) ==
    CASE cc.smoother # None -> cc.smoother
      [] cc.smoother = None /\ cc.auto -> [kind |-> "ema", alpha |-> cc.smoothing]
      [] OTHER -> default_smoother_for_metric(cc.metric)

map_constraint_class(cc) ==
    CASE cc.class # "default" -> cc.class
      [] cc.class = "default" /\ cc.metric \in {"TimeoutFraction", "InFlightDropFraction"} -> "Catastrophic"
      [] OTHER -> "OperatingPoint"

map_metric_direction(cc) == IF cc.metric = "External" THEN cc.signal_direction ELSE "HigherIsWorse"

MetricDirection(metric) ==
    IF metric \in {"ThroughputSend", "ThroughputRecv"} THEN "LowerIsWorse" ELSE "HigherIsWorse"

map_severity_for_threshold(metric) ==
    CASE metric = "TimeoutFraction"      -> "TimeoutDirect"
      [] metric = "InFlightDropFraction" -> "InFlightDirect"
      [] metric = "ErrorRate"            -> "ErrorRateDirect"
      [] OTHER                           -> "Graduated"

default_recovery_seed(class) == IF class = "Catastrophic" THEN CatastrophicSeed ELSE OperatingPointSeed

(* The configurations for which building a constraint does not panic.      *)
Buildable(rate) ==
    \A i \in DOMAIN rate.constraints :
        LET cc == rate.constraints[i]
        IN  CASE cc.type = "Threshold" -> /\ cc.metric \notin {"ThroughputSend", "ThroughputRecv"}
                                          /\ cc.from_baseline # NoValue => rate.warmup # None
              [] cc.type = "Setpoint"  -> cc.metric \notin {"TimeoutFraction", "InFlightDropFraction"}

BuildThreshold(cc) ==
    LET class == map_constraint_class(cc)
    IN  [type |-> "Threshold", id |-> cc.id, class |-> class, metric |-> cc.metric,
         smoother |-> map_smoother_config(cc), direction |-> map_metric_direction(cc), backoff |-> cc.backoff,
         threshold |-> IF cc.from_baseline = NoValue THEN cc.threshold ELSE 0, max_error |-> cc.threshold,
         baseline_multiplier |-> cc.from_baseline, baseline_floor |-> cc.baseline_floor,
         mapping |-> map_severity_for_threshold(cc.metric), persistence |-> cc.persistence,
         recovery_seed |-> default_recovery_seed(class), self_caused_cap |-> cc.self_caused_cap,
         on_missing |-> cc.on_missing, stale_after_ticks |-> cc.stale_after_ticks]

(* Gains that are not given are found by exploration, which also schedules *)
(* them.                                                                   *)
BuildSetpoint(cc) ==
    [type |-> "Setpoint", id |-> cc.id, class |-> "OperatingPoint", metric |-> cc.metric,
     direction |-> MetricDirection(cc.metric), target |-> cc.target, gains |-> cc.gains, auto |-> cc.auto,
     smoother |-> map_smoother_config_for_pid(cc), use_scheduling |-> cc.auto]

build_adaptive_constraint(cc) == IF cc.type = "Threshold" THEN BuildThreshold(cc) ELSE BuildSetpoint(cc)

(* initial_rps, or the rate of the warmup, or the lower bound.             *)
effective_initial_rps(rate) ==
    CASE rate.initial_rps # NoValue -> rate.initial_rps
      [] rate.initial_rps = NoValue /\ rate.warmup # None -> rate.warmup.rps
      [] OTHER -> rate.bounds.min_rps

(* An additive policy leaves the factor at one and ignores the increment.  *)
BuildIncrease(inc) ==
    CASE inc.kind = "default"        -> [factor |-> DefaultIncrease.factor, congestion |-> FALSE]
      [] inc.kind = "Additive"       -> [factor |-> 100, congestion |-> FALSE]
      [] inc.kind = "Multiplicative" -> [factor |-> inc.factor, congestion |-> inc.congestion]

(* The configuration with its constraints built.                           *)
Built(rate) ==
    IF rate.kind # "Adaptive" THEN rate
    ELSE [rate EXCEPT !.constraints = [i \in DOMAIN @ |-> build_adaptive_constraint(@[i])],
                      !.increase = BuildIncrease(@)]

(* The metrics to explore, in the order of the constraints.                *)
auto_explorations(g) ==
    LET auto == SelectSeq(g.constraints, LAMBDA k : k.type = "Setpoint" /\ k.auto)
    IN  [i \in DOMAIN auto |-> MetricExploration(auto[i].metric, auto[i].target)]
=============================================================================
