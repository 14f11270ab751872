------------------------------ MODULE Arbiter -------------------------------
(***************************************************************************)
(* The adaptive rate controller, arbiter.rs with composition.rs and        *)
(* ceiling.rs.  The state is a record a, the configuration a record g with *)
(* its constraints built.  rate is current_rps and target the last         *)
(* decision, which differ after an override.  Every operator returns the   *)
(* state or the set of states that the method of its name can lead to.     *)
(* Time is counted in control ticks: what holds an Instant in the code     *)
(* holds an age here, that stops growing when it no longer matters.        *)
(***************************************************************************)
EXTENDS RateConfig

NewConstraint(k) == IF k.type = "Threshold" THEN ThresholdState(k) ELSE PidState(k)

(* Arbiter::new.                                                           *)
NewArbiter(g) ==
    LET metrics == auto_explorations(g)
        initial == effective_initial_rps(g)
        phase   == IF metrics # <<>> THEN "Exploration" ELSE IF g.warmup # None THEN "Warmup" ELSE "Active"
        rate    == CASE phase = "Exploration" -> initial \div 2
                     [] phase = "Warmup"      -> g.warmup.rps
                     [] phase = "Active"      -> initial
    IN  [phase |-> phase, rate |-> rate, min |-> g.bounds.min_rps, max |-> g.bounds.max_rps,
         initial |-> initial, ceiling_age |-> IF phase = "Active" THEN 0 ELSE NoValue,
         cooldown |-> 0, known_max |-> rate, known_age |-> 0, failure_ema |-> 0, since_increase |-> 0,
         warm_age |-> 0, warm_samples |-> <<>>, warmup_pending |-> g.warmup # None,
         manager |-> IF metrics = <<>> THEN NoManager ELSE ExplorationManager(metrics, initial),
         cons |-> [i \in DOMAIN g.constraints |-> NewConstraint(g.constraints[i])], binding |-> 0, target |-> rate]

(* One control interval goes by.                                           *)
Aged(g, a) ==
    [a EXCEPT !.ceiling_age = IF @ = NoValue THEN NoValue ELSE CapAt(@ + 1, CeilingRamp),
              !.known_age = CapAt(@ + 1, FloorWindow + 1),
              !.warm_age = IF a.phase = "Warmup" THEN CapAt(@ + 1, g.warmup.ticks) ELSE @]

-----------------------------------------------------------------------------
(* The parts of a decision.                                                *)

(* ProgressiveCeiling: linear from the initial rate to max_rps.            *)
ceiling(a) ==
    CASE a.ceiling_age = NoValue -> a.initial
      [] a.ceiling_age # NoValue /\ CeilingRamp = 0 -> a.max
      [] OTHER -> a.initial + (a.ceiling_age * (a.max - a.initial)) \div CeilingRamp

(* Faulty variant: the known good rate never decays.                       *)
UpdateKnownGoodForever(a) == IF a.rate > a.known_max THEN [a EXCEPT !.known_max = a.rate, !.known_age = 0] ELSE a

(* KnownGoodTracker: the highest recent rate, that decays.                 *)
UpdateKnownGood(a) ==
    CASE a.rate > a.known_max -> [a EXCEPT !.known_max = a.rate, !.known_age = 0]
      [] a.rate <= a.known_max /\ a.known_age > FloorWindow ->
         [a EXCEPT !.known_max = Percent(@, 95), !.known_age = 0]
      [] OTHER -> a
floor(g, a) == Max({Percent(a.known_max, g.floor.fraction), a.min})

(* IncreasePolicy::compute.                                                *)
increase_rate(g, a) ==
    LET inc == g.increase
        ca  == g.congestion
    IN  CASE a.cooldown > 0 -> a.rate
          [] a.cooldown = 0 /\ inc.congestion /\ a.failure_ema > 0 /\ a.rate > Percent(a.failure_ema, ca.trigger) ->
             a.rate + Percent(a.failure_ema, ca.additive)
          [] OTHER -> Percent(a.rate, inc.factor)

(* IncreasePolicy::record_backoff; without congestion avoidance the rate   *)
(* of failure is only reported.                                            *)
record_backoff(g, a) ==
    [a EXCEPT !.failure_ema = IF ~g.increase.congestion THEN @ ELSE IF @ = 0 THEN a.rate
                              ELSE (g.congestion.alpha * a.rate + (100 - g.congestion.alpha) * @) \div 100]

RateChangeClamp(g, desired, rate) == Clamp(desired, Percent(rate, 100 - g.limits.decrease), Percent(rate, 100 + g.limits.increase))

(* MinSelector: the first of the lowest rates that a constraint asks for;  *)
(* binding is its index, zero when no constraint has an opinion.           *)
Opinions(outs) == {i \in DOMAIN outs : outs[i].out.intent \in {"Hold", "DesireRate"}}
compose(outs, default_rate) ==
    LET lowest == Min({outs[i].out.rate : i \in Opinions(outs)})
    IN  IF Opinions(outs) = {} THEN [rate |-> default_rate, binding |-> 0]
        ELSE [rate |-> lowest, binding |-> Min({i \in Opinions(outs) : outs[i].out.rate = lowest})]

(* CooldownState::engage: the longest recovery that the constraints which  *)
(* asked for the backoff expect.                                           *)
engage(g, cons, triggering) ==
    LET estimates == {cooldown_estimate(g.constraints[i], cons[i]) :
                         i \in {j \in triggering : g.constraints[j].type = "Threshold"}}
        longest   == Max(estimates \cup {0})
    IN  Max({(longest * g.cooldown.multiplier + 99) \div 100, g.cooldown.min_ticks})

-----------------------------------------------------------------------------
(* The rates that a PID may ask for, by their ratio to the current one.    *)
DesiredRates(rate) == {Percent(rate, p) : p \in {40, 100, 200}}

Evaluate(g, i, c, s, a, since_increase) ==
    LET k == g.constraints[i]
    IN  IF k.type = "Threshold" THEN {ThresholdEvaluate(k, c, s, a.rate, since_increase)}
        ELSE PidEvaluate(k, c, s, a.rate, DesiredRates(a.rate))

(* Every way in which the constraints of the set are evaluated.            *)
Evaluations(g, a, s, indices, since_increase) ==
    LET results == [i \in indices |-> Evaluate(g, i, a.cons[i], s, a, since_increase)]
    IN  {f \in [indices -> UNION {results[i] : i \in indices}] : \A i \in indices : f[i] \in results[i]}

PostSelect(g, i, c, selected, is_binding) ==
    IF g.constraints[i].type = "Threshold" THEN {ThresholdPostSelect(c, is_binding)}
    ELSE PidPostSelect(c, selected, is_binding)

PostSelections(g, cons, selected, binding) ==
    LET results == [i \in DOMAIN cons |-> PostSelect(g, i, cons[i], selected, i = binding)]
    IN  {f \in [DOMAIN cons -> UNION {results[i] : i \in DOMAIN cons}] : \A i \in DOMAIN cons : f[i] \in results[i]}

(* f64::clamp panics when the bounds cross.                                *)
Panicked(a) == [a EXCEPT !.phase = "Panicked"]

(* Faulty variant: the ceiling is forgotten.                               *)
SelectRateNoCeiling(g, a, result) ==
    Clamp(Max({RateChangeClamp(g, result.rate, a.rate), floor(g, a)}), a.min, a.max)

(* Faulty variant: the floor holds whatever constraint binds.              *)
SelectRateFloored(g, a, result) ==
    Clamp(Max({Min({RateChangeClamp(g, result.rate, a.rate), ceiling(a)}), floor(g, a)}), a.min, a.max)

(* The rate of a decision: the composition limited by the change allowed   *)
(* in one tick, by the ceiling, by the floor unless a catastrophic         *)
(* constraint binds, and by the bounds.                                    *)
SelectRate(g, a, result) ==
    LET limited == Min({RateChangeClamp(g, result.rate, a.rate), ceiling(a)})
        floored == IF result.binding # 0 /\ g.constraints[result.binding].class = "Catastrophic" THEN limited
                   ELSE Max({limited, floor(g, a)})
    IN  Clamp(floored, a.min, a.max)

IsBackoff(rate, current_rps) == 100 * rate < current_rps * BackoffDetectionThreshold

(* The cooldown and the failure rate after a decision.                     *)
AfterBackoff(g, a, outs, result) ==
    LET triggering == {i \in Opinions(outs) : IsBackoff(outs[i].out.rate, a.rate)}
    IN  IF result.binding # 0 /\ IsBackoff(result.rate, a.rate)
        THEN [record_backoff(g, a) EXCEPT !.cooldown = engage(g, a.cons, triggering)]
        ELSE [a EXCEPT !.cooldown = Max({@ - 1, 0})]

active_tick(g, a0, s) ==
    UNION {LET result == compose(outs, increase_rate(g, a0))
               a      == UpdateKnownGood(a0)
               rate   == SelectRate(g, a, result)
               judged == [i \in DOMAIN a.cons |-> outs[i].c]
           IN  IF a.min > a.max THEN {Panicked(a)}
               ELSE {[AfterBackoff(g, [a EXCEPT !.cons = cons], outs, result) EXCEPT
                         !.rate = rate, !.target = rate, !.binding = result.binding,
                         !.since_increase = IF rate > a.rate THEN 0 ELSE CapAt(@ + 1, 3)] :
                     cons \in PostSelections(g, judged, rate, result.binding)} :
           outs \in Evaluations(g, a0, s, DOMAIN a0.cons, a0.since_increase)}

-----------------------------------------------------------------------------
(* Warmup: a fixed rate until the time is over and three latencies of      *)
(* served requests were seen; their median is the baseline.                *)
WarmupOver(g, a) == a.warm_age >= g.warmup.ticks /\ Len(a.warm_samples) >= 3

Activated(g, a) ==
    LET baseline == current(a.warm_samples)
    IN  [a EXCEPT !.phase = "Active", !.ceiling_age = 0, !.known_max = g.warmup.rps, !.known_age = 0,
                  !.warm_samples = <<>>,
                  !.cons = [i \in DOMAIN @ |-> IF g.constraints[i].type = "Threshold"
                                               THEN on_warmup_complete(g.constraints[i], @[i], baseline)
                                               ELSE @[i]]]

warmup_tick(g, a0, s) ==
    LET a == IF s.requests > 0 /\ s.latency > 0 THEN [a0 EXCEPT !.warm_samples = Append(@, s.latency)] ELSE a0
    IN  IF WarmupOver(g, a) THEN active_tick(g, Activated(g, a), s) ELSE {[a EXCEPT !.target = g.warmup.rps]}

(* finish_exploration and transition_post_exploration: the constraints get *)
(* their gains, and the rate that was reached is given up.                 *)
finish_exploration(g, a) ==
    LET tuned == [i \in DOMAIN a.cons |->
                     IF g.constraints[i].type = "Setpoint"
                     THEN on_exploration_complete(a.cons[i], GainsFor(a.manager, g.constraints[i].metric))
                     ELSE a.cons[i]]
        done  == [a EXCEPT !.cons = tuned, !.manager = NoManager]
    IN  IF a.warmup_pending
        THEN [done EXCEPT !.phase = "Warmup", !.warmup_pending = FALSE, !.rate = g.warmup.rps, !.warm_age = 0]
        ELSE [done EXCEPT !.phase = "Active", !.rate = a.initial, !.ceiling_age = 0]

(* The catastrophic constraints whose gains are not being sought.          *)
Guards(g, a) == {i \in DOMAIN a.cons : g.constraints[i].class = "Catastrophic"}

EXPLORATION_ABORT_THRESHOLD == 85

Aborts(out, safe_rate) ==
    \/ out.intent = "Hold" /\ out.severity >= 100
    \/ out.intent = "DesireRate" /\ 100 * out.rate < safe_rate * EXPLORATION_ABORT_THRESHOLD

exploration_tick(g, a0, s) ==
    LET t == ManagerTick(a0.manager, s)
        a == [a0 EXCEPT !.manager = t.m]
        Guarded(outs) ==
            LET b == [a EXCEPT !.cons = [i \in DOMAIN @ |-> IF i \in DOMAIN outs THEN outs[i].c ELSE @[i]]]
            IN  CASE b.min > b.max -> Panicked(b)
                  [] b.min <= b.max /\ (\E i \in DOMAIN outs : Aborts(outs[i].out, t.rate)) ->
                     LET f == finish_exploration(g, b) IN [f EXCEPT !.target = f.rate]
                  [] OTHER -> LET rate == Clamp(t.rate, b.min, b.max) IN [b EXCEPT !.rate = rate, !.target = rate]
        finished == finish_exploration(g, a)
    IN  IF t.rate # NoValue THEN {Guarded(outs) : outs \in Evaluations(g, a, s, Guards(g, a), 0)}
        ELSE IF finished.phase = "Warmup" THEN warmup_tick(g, finished, s)
        ELSE active_tick(g, finished, s)

-----------------------------------------------------------------------------
(* The methods of RateController.                                          *)

ArbiterUpdate(g, a, s) ==
    CASE a.phase = "Exploration" -> exploration_tick(g, Aged(g, a), s)
      [] a.phase = "Warmup"      -> warmup_tick(g, Aged(g, a), s)
      [] a.phase = "Active"      -> active_tick(g, Aged(g, a), s)

(* An override outside of the bounds is clamped; it ends the exploration.  *)
ArbiterSetRate(g, a, rps) ==
    LET rate == Clamp(rps, a.min, a.max)
        told == IF rate = a.rate THEN a
                ELSE [a EXCEPT !.rate = rate,
                               !.cons = [i \in DOMAIN @ |-> IF g.constraints[i].type = "Setpoint"
                                                            THEN on_rate_override(@[i]) ELSE @[i]]]
    IN  CASE a.min > a.max -> Panicked(a)
          [] a.min <= a.max /\ a.phase = "Exploration" -> finish_exploration(g, told)
          [] OTHER -> told

ArbiterSetMaxRps(a, max) == [a EXCEPT !.max = Max({max, a.min})]
ArbiterSetMinRps(a, min) == [a EXCEPT !.min = min]

(* constraint.<id>.<action>: the first constraint with the id; an unknown  *)
(* id or action changes nothing.                                           *)
ArbiterConstraintUpdate(g, a, id, action, v) ==
    LET match == {i \in DOMAIN a.cons : g.constraints[i].id = id}
        i     == Min(match)
    IN  IF match = {} THEN a
        ELSE [a EXCEPT !.cons[i] = IF g.constraints[i].type = "Threshold"
                                   THEN ThresholdUpdate(g.constraints[i], @, action, v)
                                   ELSE PidUpdate(@, action, v)]
=============================================================================
