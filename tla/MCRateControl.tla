--------------------------- MODULE MCRateControl ----------------------------
(* Instances of RateControl: one configuration for each kind of controller *)
(* and each path through the arbiter.                                      *)
EXTENDS RateControl

Timeout == [ThresholdDefaults EXCEPT !.id = "timeout", !.metric = "TimeoutFraction", !.threshold = 20,
                                     !.smoother = [kind |-> "none"]]
Drops == [ThresholdDefaults EXCEPT !.id = "drops", !.metric = "InFlightDropFraction", !.threshold = 10,
                                   !.smoother = [kind |-> "none"]]
Latency == [ThresholdDefaults EXCEPT !.id = "latency", !.metric = "LatencyP99", !.threshold = 100,
                                     !.persistence = 2, !.self_caused_cap = 150,
                                     !.smoother = [kind |-> "none"]]
FromBaseline == [ThresholdDefaults EXCEPT !.id = "baseline", !.metric = "LatencyP99", !.from_baseline = 200]
Errors == [ThresholdDefaults EXCEPT !.id = "errors", !.metric = "ErrorRate", !.threshold = 5,
                                    !.smoother = [kind |-> "none"]]
Signal(missing) == [ThresholdDefaults EXCEPT !.id = "signal", !.metric = "External", !.threshold = 50,
                                             !.smoother = [kind |-> "none"], !.signal_direction = "LowerIsWorse",
                                             !.on_missing = missing, !.stale_after_ticks = 1]
AutoLatency == [SetpointDefaults EXCEPT !.id = "pid", !.metric = "LatencyP90", !.target = 80,
                                        !.smoother = [kind |-> "none"]]
ManualLatency == [AutoLatency EXCEPT !.auto = FALSE, !.gains = [kp |-> 10000, ki |-> 10, kd |-> 0]]

Base == [name |-> "", kind |-> "Adaptive", bounds |-> [min_rps |-> 10, max_rps |-> 14], warmup |-> None, initial_rps |-> 10,
         constraints |-> <<>>, increase |-> None, congestion |-> DefaultCongestionAvoidance,
         cooldown |-> DefaultCooldown, floor |-> DefaultFloor, limits |-> DefaultLimits]

(* The rates are kept close together where a PID has many states.          *)
Narrow == [Base EXCEPT !.bounds = [min_rps |-> 10, max_rps |-> 12]]

Guarded == [Base EXCEPT !.name = "guarded", !.constraints = <<Timeout, Latency>>]
Warmed == [Base EXCEPT !.name = "warmed", !.constraints = <<FromBaseline, Errors>>, !.warmup = [rps |-> 12, ticks |-> 2],
                       !.initial_rps = NoValue, !.increase = [kind |-> "Multiplicative", factor |-> 110, congestion |-> TRUE],
                       !.congestion = [DefaultCongestionAvoidance EXCEPT !.additive = 10]]
Signalled(missing) == [Base EXCEPT !.name = IF missing = "Backoff" THEN "signal" ELSE "signal_held",
                                   !.constraints = <<Signal(missing)>>]
Tuned == [Narrow EXCEPT !.name = "tuned", !.constraints = <<AutoLatency, Drops>>]
TunedWarm == [Narrow EXCEPT !.name = "tuned_warm", !.constraints = <<AutoLatency, Errors>>,
                            !.warmup = [rps |-> 12, ticks |-> 1]]
Timed == [Base EXCEPT !.name = "timed", !.constraints = <<Timeout>>]
Manual == [Narrow EXCEPT !.name = "manual", !.constraints = <<ManualLatency>>]
Fixed == [name |-> "fixed", kind |-> "Static", rps |-> 10]
Stepped == [name |-> "stepped", kind |-> "Step", steps |-> <<[offset |-> 0, rps |-> 10], [offset |-> 2, rps |-> 20], [offset |-> 4, rps |-> 15]>>]

MCConfigs == {Guarded, Warmed, Signalled("Ignore"), Signalled("Hold"), Signalled("Backoff"), Tuned, TunedWarm, Timed, Manual, Fixed, Stepped}

Quiet == [requests |-> 100, timeouts |-> 0, drops |-> 0, latency |-> 40, error_pct |-> 0, throughput |-> 0, signals |-> <<>>]

MCSummaries(g) ==
    CASE g.name = "guarded" -> {[Quiet EXCEPT !.timeouts = t, !.latency = l] : t \in {0, 5}, l \in {40, 80, 120}}
      [] g.name = "warmed"  -> {[Quiet EXCEPT !.requests = r, !.latency = l] : r \in {0, 100}, l \in {40, 80}}
                        \cup {[Quiet EXCEPT !.error_pct = 8]}
      [] g.name = "tuned"   -> {Quiet, [Quiet EXCEPT !.drops = 1], [Quiet EXCEPT !.latency = 120]}
      [] g.name = "tuned_warm" -> {[Quiet EXCEPT !.latency = l] : l \in {40, 120}}
      [] g.name = "timed"   -> {[Quiet EXCEPT !.requests = r, !.timeouts = t] : r \in {0, 100}, t \in {0, 5}}
      [] g.name = "manual"  -> {[Quiet EXCEPT !.latency = l] : l \in {0, 40, 80, 120}}
      [] OTHER       -> {Quiet} \cup {[Quiet EXCEPT !.signals = "signal" :> v] : v \in {20, 40, 100}}

MCMaxCommands(g) == CASE g.name \in {"guarded", "warmed", "tuned", "signal_held"} -> 0
                      [] g.name \in {"fixed", "stepped"} -> 2
                      [] OTHER -> 1

MCOverrides == {5, 13}
MCMaxRates == {11, 12}
MCMinRates == {11, 15}
MCUpdates == {[id |-> "timeout", action |-> "set_max_error_rate", value |-> 4], [id |-> "errors", action |-> "set_max_error_rate", value |-> 10],
              [id |-> "signal", action |-> "set_threshold", value |-> 100],
              [id |-> "pid", action |-> "set_target", value |-> 120], [id |-> "pid", action |-> "set_gains", value |-> 5],
              [id |-> "pid", action |-> "reset_integrator", value |-> 0], [id |-> "nobody", action |-> "set_threshold", value |-> 1]}
=============================================================================
