---------------------------- MODULE RateControl -----------------------------
(***************************************************************************)
(* The rate controller of a test behind the trait RateController: static,  *)
(* step or adaptive, built from the configuration cfg.  The coordinator    *)
(* calls update once per control interval; between two updates it applies  *)
(* the commands of the operator: set_rate, set_max_rps and the updates of  *)
(* apply_update.                                                           *)
(***************************************************************************)
EXTENDS Arbiter

CONSTANTS
    Configs,            \* the configurations of a test
    Summaries(_),       \* the summaries that the workers may report, given cfg
    Overrides,          \* rates that the operator asks for
    MaxRates,           \* upper bounds that the operator asks for
    MinRates,           \* lower bounds that the operator asks for
    Updates,            \* [id, action, value]: updates of a constraint
    MaxCommands(_)      \* bound on the commands of the operator, given cfg

VARIABLES
    cfg,                \* the configuration
    ctl,                \* the state of the controller
    commands,           \* commands that were applied
    beat                \* alternates with every tick

vars == <<cfg, ctl, commands, beat>>

-----------------------------------------------------------------------------
(* StepRateController: the steps are pairs of an offset and a rate.        *)

LastOffset(g) == Max({g.steps[i].offset : i \in DOMAIN g.steps})

(* Faulty variant: a step begins after its offset, not at it.              *)
current_step_index_late(steps, elapsed) ==
    Max({i \in DOMAIN steps : \A j \in 1..i : elapsed > steps[j].offset} \cup {1})

(* The loop stops at the first step that has not begun.                    *)
current_step_index(steps, elapsed) ==
    LET begun == {i \in DOMAIN steps : \A j \in 1..i : elapsed >= steps[j].offset}
    IN  Max(begun \cup {1})

StepUpdate(g, c) ==
    LET elapsed == CapAt(c.elapsed + 1, LastOffset(g))
        rate    == g.steps[current_step_index(g.steps, elapsed)].rps
    IN  [c EXCEPT !.elapsed = elapsed, !.rate = rate, !.target = rate]

jump_to_step(g, c, i) == [c EXCEPT !.rate = g.steps[i].rps, !.elapsed = g.steps[i].offset]

NewScheduled(rate) == [rate |-> rate, target |-> rate, elapsed |-> 0]

(* build_rate_controller.                                                  *)
build_rate_controller(g) ==
    CASE g.kind = "Static"   -> NewScheduled(g.rps)
      [] g.kind = "Step"     -> NewScheduled(g.steps[1].rps)
      [] g.kind = "Adaptive" -> NewArbiter(g)

Adaptive == cfg.kind = "Adaptive"
Running == Adaptive => ctl.phase # "Panicked"

-----------------------------------------------------------------------------
Init == /\ cfg \in {Built(g) : g \in {h \in Configs : h.kind = "Adaptive" => Buildable(h)}}
        /\ ctl = build_rate_controller(cfg)
        /\ commands = 0 /\ beat = 0

(* The tick of the control loop.                                           *)
Update ==
    /\ Running
    /\ CASE cfg.kind = "Static"   -> ctl' = [ctl EXCEPT !.target = ctl.rate]
         [] cfg.kind = "Step"     -> ctl' = StepUpdate(cfg, ctl)
         [] cfg.kind = "Adaptive" -> \E s \in Summaries(cfg) : ctl' \in ArbiterUpdate(cfg, ctl, s)
    /\ beat' = 1 - beat
    /\ UNCHANGED <<cfg, commands>>

Command == Running /\ commands < MaxCommands(cfg) /\ commands' = commands + 1 /\ UNCHANGED <<cfg, beat>>

SetRate ==
    /\ Command
    /\ \E rps \in Overrides : ctl' = IF Adaptive THEN ArbiterSetRate(cfg, ctl, rps) ELSE [ctl EXCEPT !.rate = rps]

(* Static and step controllers have no upper bound.                        *)
SetMaxRps ==
    /\ Command
    /\ \E max \in MaxRates : ctl' = IF Adaptive THEN ArbiterSetMaxRps(ctl, max) ELSE ctl

SetMinRps ==
    /\ Adaptive /\ Command
    /\ \E min \in MinRates : ctl' = ArbiterSetMinRps(ctl, min)

UpdateConstraint ==
    /\ Adaptive /\ Command
    /\ \E u \in Updates : ctl' = ArbiterConstraintUpdate(cfg, ctl, u.id, u.action, u.value)

JumpToStep ==
    /\ cfg.kind = "Step" /\ Command
    /\ \E i \in DOMAIN cfg.steps : ctl' = jump_to_step(cfg, ctl, i)

Next == Update \/ SetRate \/ SetMaxRps \/ SetMinRps \/ UpdateConstraint \/ JumpToStep

(* The control loop goes on ticking while the controller runs; the         *)
(* operator may do nothing.  A tick is the only step that changes beat and *)
(* is possible whenever the controller runs.                               *)
Beat == Running /\ beat' = 1 - beat
Spec == Init /\ [][Next]_vars /\ WF_beat(Beat)

-----------------------------------------------------------------------------
ThresholdIds == {i \in DOMAIN cfg.constraints : cfg.constraints[i].type = "Threshold"}
SetpointIds == DOMAIN cfg.constraints \ ThresholdIds
Class(i) == cfg.constraints[i].class
Active == Adaptive /\ ctl.phase = "Active"

Ticked == beat' # beat

(* Type invariant of RateControl.                                          *)
TypeOK ==
    /\ commands \in 0..MaxCommands(cfg) /\ beat \in 0..1
    /\ ctl.rate \in Nat /\ ctl.target \in Nat
    /\ Adaptive => /\ ctl.phase \in {"Exploration", "Warmup", "Active", "Panicked"}
                   /\ ctl.cooldown \in Nat /\ ctl.since_increase \in 0..3
                   /\ ctl.ceiling_age \in {NoValue} \cup 0..CeilingRamp
                   /\ ctl.known_age \in 0..FloorWindow + 1
                   /\ \A i \in SetpointIds : ~ctl.cons[i].eval_cache.valid

(* While nobody interferes the rate stays below the progressive ceiling.   *)
(* The floor is applied after the ceiling (arbiter.rs:802) and could lift  *)
(* the rate above it; it does not, because the known good rate was itself  *)
(* below an earlier, lower ceiling.                                        *)
CeilingHolds == Active /\ commands = 0 => ctl.rate <= ceiling(ctl)

(* A constraint that needs a measurement before it can judge has it when   *)
(* the active phase begins, whichever way exploration and warmup ended: an *)
(* awaiting PID and a threshold of zero would never object (arbiter.rs:558,*)
(* threshold.rs:638).                                                      *)
ReadyWhenActive ==
    Active => /\ \A i \in SetpointIds : ~ctl.cons[i].awaiting_exploration
              /\ \A i \in ThresholdIds : ctl.cons[i].threshold > 0

(* What holds of every controller between two ticks.                       *)
ControllerInv == TypeOK /\ CeilingHolds /\ ReadyWhenActive

(* In the cooldown after a backoff a controller without setpoints raises   *)
(* the rate at most to the known good floor, and the cooldown loses one    *)
(* tick at a time unless another backoff engages it anew (arbiter.rs:183   *)
(* and arbiter.rs:838).                                                    *)
CooldownOnlyFloorRaises ==
    [][Ticked /\ Active /\ SetpointIds = {} /\ ctl.cooldown > 0 /\ ctl'.phase = "Active" =>
          /\ ctl'.rate <= Max({ctl.rate, floor(cfg, ctl')})
          /\ ctl'.cooldown = ctl.cooldown - 1 \/ ctl'.binding # 0]_vars

(* A catastrophic constraint that binds with a backoff lowers the rate,    *)
(* down to the lower bound: the known good floor does not hold it up       *)
(* (arbiter.rs:802).                                                       *)
CatastropheLowersRate ==
    [][/\ Ticked /\ Active /\ ctl'.phase = "Active"
       /\ ctl'.binding # 0 /\ Class(ctl'.binding) = "Catastrophic" /\ ctl'.cooldown > ctl.cooldown
       => ctl'.rate < ctl.rate \/ ctl'.rate = ctl.min]_vars

(* During exploration the constraints of the operating point are neither   *)
(* smoothed nor counted: the step would be taken for a violation           *)
(* (arbiter.rs:595).                                                       *)
OperatingPointUntouched ==
    [][Adaptive /\ ctl.phase = "Exploration" /\ ctl'.phase = "Exploration" /\ Ticked =>
          \A i \in DOMAIN ctl.cons : Class(i) = "OperatingPoint" => ctl'.cons[i] = ctl.cons[i]]_vars

(* What a tick of the adaptive controller never does: undo a backoff, hold *)
(* the rate up in a catastrophe, or take its own step for one (active_tick *)
(* and exploration_tick).                                                  *)
BackoffsHeld == CooldownOnlyFloorRaises /\ CatastropheLowersRate /\ OperatingPointUntouched

(* The step controller follows its schedule: after a tick the rate is that *)
(* of the last step that has begun, whatever was overridden or jumped to   *)
(* before (step_rate.rs:93).                                               *)
StepFollowsSchedule ==
    [][cfg.kind = "Step" /\ Ticked =>
          \E i \in DOMAIN cfg.steps :
              /\ ctl'.rate = cfg.steps[i].rps
              /\ i = 1 \/ ctl'.elapsed >= cfg.steps[i].offset
              /\ i = Len(cfg.steps) \/ ctl'.elapsed < cfg.steps[i + 1].offset]_vars

(* Exploration ends: the step response is cut off after StepTicks ticks    *)
(* even when the metrics never settle (autotune.rs:202).                   *)
ExplorationEnds == (Adaptive /\ ctl.phase = "Exploration") ~> (Adaptive /\ ctl.phase # "Exploration")

(* When no constraint objects any more, the rate reaches its upper bound:  *)
(* neither the cooldown nor the ceiling, the floor or the limits of change *)
(* hold it back for ever.                                                  *)
RampCompletes ==
    <>[](Active /\ ctl.binding = 0 /\ ctl.min <= ctl.max) => <>[](Active /\ ctl.rate = ctl.max)

(* A signal that stays away under on_missing = Backoff brings the rate     *)
(* down to the lower bound: the known good floor decays (arbiter.rs:111)   *)
(* and does not hold the rate up for ever.                                 *)
MissingSignalReachesMin ==
    <>[](Active /\ \E i \in ThresholdIds : /\ cfg.constraints[i].on_missing = "Backoff"
                                           /\ ctl.cons[i].missing_streak >= cfg.constraints[i].persistence)
        => <>[](Active /\ ctl.rate = ctl.min)

(* The rate gets where the measurements send it: out of exploration, up to *)
(* the maximum when nothing objects, down to the minimum without a signal. *)
RateArrives == ExplorationEnds /\ RampCompletes /\ MissingSignalReachesMin

=============================================================================
