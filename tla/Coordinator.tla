---------------------------- MODULE Coordinator -----------------------------
(***************************************************************************)
(* Coordinator of one engine: run, tick, handle_external_command,          *)
(* is_test_complete and collect_final_metrics, with AggregateMetrics as    *)
(* the sets of requests merged into it.  The rate controller is abstract:  *)
(* update() may return any rate.  Time is counted in control intervals.    *)
(***************************************************************************)
EXTENDS EngineBase, FiniteSetsExt

CONSTANTS
    Duration,               \* test_duration, in control intervals
    Warmup,                 \* warmup_duration, in control intervals, or None
    MaxRequests,            \* Option: stop after this many requests
    AutostopThreshold,      \* Option: stop at this many errors
    RefusestopThreshold,    \* Option: the refused-connection threshold
    TargetBytes,            \* Option: stop at this many response units
    Commands,               \* kinds of external commands that are sent
    MaxCommands             \* bound: external commands sent in one test

ASSUME CoordinatorAssumption ==
    /\ Duration \in Nat
    /\ Warmup \in Nat \cup {None}
    /\ MaxRequests \in Nat \cup {None}
    /\ AutostopThreshold \in Nat \cup {None}
    /\ RefusestopThreshold \in Nat \cup {None}
    /\ TargetBytes \in Nat \cup {None}
    /\ Commands \subseteq {"rate", "targets", "metadata", "stop", "hold", "release", "controller"}
    /\ MaxCommands \in Nat

WorkerCommand ==
    [kind : {"rate", "targets", "metadata", "stop", "hold", "release", "controller"}, v : Nat]

VARIABLES
    coord_pc,           \* "sleep", "commands", "stop", "drain", "join", "collect", "done"
    ext_q,              \* external commands, unbounded
    ext_sent,           \* number of external commands sent so far
    commands,           \* the commands this tick took from ext_q
    elapsed,            \* control intervals since start_time
    hold,               \* hold_state: the held rate, or None when released
    ctl_rate,           \* rate_controller.current_rate()
    target_rps,         \* the rate of the last tick's decision
    stopped,
    warmup_complete,
    total,              \* requests counted in total_aggregate
    total_drops,        \* in-flight drops counted in total_aggregate
    excluded,           \* history: requests merged during warmup only
    excluded_drops      \* history: in-flight drops merged during warmup only

coordVars == <<coord_pc, ext_q, ext_sent, commands, elapsed, hold, ctl_rate, target_rps,
               stopped, warmup_complete, total, total_drops,
               excluded, excluded_drops>>

CoordTypeOK ==
    /\ coord_pc \in {"sleep", "commands", "stop", "drain", "join", "collect", "done"}
    /\ ext_q \in Seq(WorkerCommand)
    /\ ext_sent \in Nat
    /\ commands \in Seq(WorkerCommand)
    /\ elapsed \in Nat
    /\ hold \in Nat \cup {None}
    /\ ctl_rate \in Rates
    /\ target_rps \in Nat
    /\ stopped \in BOOLEAN
    /\ warmup_complete \in BOOLEAN
    /\ total \in [Workers -> SUBSET Event]
    /\ total_drops \in [Workers -> SUBSET Event]
    /\ excluded \in [Workers -> SUBSET Event]
    /\ excluded_drops \in [Workers -> SUBSET Event]

CoordInit ==
    /\ coord_pc = "sleep"
    /\ ext_q = <<>>
    /\ ext_sent = 0
    /\ commands = <<>>
    /\ elapsed = 0
    /\ hold = None
    /\ ctl_rate = InitialRate
    /\ target_rps = InitialRate
    /\ stopped = FALSE
    /\ warmup_complete = FALSE
    /\ total = [w \in Workers |-> {}]
    /\ total_drops = [w \in Workers |-> {}]
    /\ excluded = [w \in Workers |-> {}]
    /\ excluded_drops = [w \in Workers |-> {}]

(* The control API sends a command.  Target and header lists are           *)
(* numbered in the order in which they are sent.                           *)
SendCommand ==
    /\ coord_pc # "done" /\ ext_sent < MaxCommands
    /\ ext_sent' = ext_sent + 1
    /\ \E k \in Commands :
       \E x \in CASE k \in {"rate", "hold"} -> Rates
                  [] k \in {"targets", "metadata"} -> {ext_sent + 1}
                  [] OTHER -> {0} :
          ext_q' = Append(ext_q, Msg(k, x))
    /\ UNCHANGED <<channelVars, timer_pc, worker_pc, coord_pc, commands, elapsed, hold,
                   ctl_rate, target_rps, stopped, warmup_complete,
                   total, total_drops, excluded, excluded_drops>>

(* Faulty variant: the commands are taken in reverse.                      *)
CollectCommandsReversed == [i \in DOMAIN ext_q |-> ext_q[Len(ext_q) + 1 - i]]

CollectCommands == ext_q

(* The control interval is over: tick() collects the pending commands.     *)
CoordWake ==
    /\ coord_pc = "sleep"
    /\ coord_pc' = "commands"
    /\ elapsed' = elapsed + 1
    /\ commands' = CollectCommands
    /\ ext_q' = <<>>
    /\ UNCHANGED <<channelVars, timer_pc, worker_pc, ext_sent, hold, ctl_rate, target_rps,
                   stopped, warmup_complete,
                   total, total_drops, excluded, excluded_drops>>

(* handle_external_command.                                                *)
CoordCommand ==
    LET c == Head(commands) IN
    /\ coord_pc = "commands" /\ commands # <<>>
    /\ commands' = Tail(commands)
    /\ hold' = CASE c.kind \in {"rate", "hold"} -> c.v
                 [] c.kind = "release" -> None
                 [] OTHER -> hold
    /\ stopped' = (stopped \/ c.kind = "stop")
    /\ IF c.kind = "controller" THEN ctl_rate' \in Rates ELSE UNCHANGED ctl_rate
    /\ cmd_q' = IF c.kind \in {"rate", "targets", "metadata", "stop"} THEN SendTimer(c) ELSE cmd_q
    /\ UNCHANGED <<fire_q, metrics_q, timer_pc, worker_pc, coord_pc, ext_q, ext_sent, elapsed,
                   target_rps, warmup_complete,
                   total, total_drops, excluded, excluded_drops>>

WarmupOver == warmup_complete \/ Warmup = None \/ elapsed >= Warmup

(* What the snapshots waiting for worker w contain.                        *)
ReqsOf(q) == UNION {q[i].reqs : i \in DOMAIN q}
PendingReqs(w) == ReqsOf(metrics_q[w])
PendingDrops(w) == UNION {metrics_q[w][i].drops : i \in DOMAIN metrics_q[w]}

(* AggregateMetrics::merge of every pending snapshot into total_aggregate. *)
MergeIntoTotal ==
    /\ total' = [w \in Workers |-> total[w] \cup PendingReqs(w)]
    /\ total_drops' = [w \in Workers |-> total_drops[w] \cup PendingDrops(w)]

MergeIntoTickOnly ==
    /\ excluded' = [w \in Workers |-> excluded[w] \cup PendingReqs(w)]
    /\ excluded_drops' = [w \in Workers |-> excluded_drops[w] \cup PendingDrops(w)]
    /\ UNCHANGED <<total, total_drops>>

ClearMetrics == metrics_q' = [w \in Workers |-> <<>>]

Total(tot) == MapThenSumSet(LAMBDA w : Cardinality(tot[w]), Workers)

Reached(limit, n) == limit # None /\ n >= limit

(* is_test_complete, on the requests counted in total_aggregate.  A        *)
(* response that is not an error brings one unit of bytes.                 *)
IsTestComplete(tot, errs) ==
    LET errors == Total([w \in Workers |-> tot[w] \cap errs[w]]) IN
    \/ stopped
    \/ elapsed >= Duration
    \/ Reached(MaxRequests, Total(tot))
    \/ Reached(AutostopThreshold, errors)
    \/ Reached(RefusestopThreshold, errors)
    \/ Reached(TargetBytes, Total(tot) - errors)

(* Faulty variant: a held rate is not sent to the timer.                   *)
DistributeRateReleased(rps) ==
    cmd_q' = IF hold = None THEN SendTimer(Msg("rate", rps)) ELSE cmd_q

DistributeRate(rps) == cmd_q' = SendTimer(Msg("rate", rps))

(* The rest of tick(), and the check that ends the loop of run().  A held  *)
(* rate skips the controller.  errs is the error flag of the results.      *)
CoordTick(errs) ==
    /\ coord_pc = "commands" /\ commands = <<>>
    /\ warmup_complete' = WarmupOver
    /\ IF WarmupOver
       THEN MergeIntoTotal /\ UNCHANGED <<excluded, excluded_drops>>
       ELSE MergeIntoTickOnly
    /\ ClearMetrics
    /\ \/ hold # None /\ target_rps' = hold /\ UNCHANGED ctl_rate
       \/ hold = None /\ ctl_rate' \in Rates /\ target_rps' = ctl_rate'
    /\ DistributeRate(target_rps')
    /\ coord_pc' = IF IsTestComplete(total', errs) THEN "stop" ELSE "sleep"
    /\ UNCHANGED <<fire_q, timer_pc, worker_pc, ext_q, ext_sent, commands, elapsed, hold, stopped>>

(* stop_workers.                                                           *)
CoordStop ==
    /\ coord_pc = "stop"
    /\ coord_pc' = "drain"
    /\ cmd_q' = SendTimer(StopMsg)
    /\ UNCHANGED <<fire_q, metrics_q, timer_pc, worker_pc, ext_q, ext_sent, commands, elapsed,
                   hold, ctl_rate, target_rps, stopped, warmup_complete,
                   total, total_drops, excluded, excluded_drops>>

(* collect_final_metrics: drain after 200ms, join the timer and then the   *)
(* workers, drain once more.                                               *)
CoordFinalDrain(from, to) ==
    /\ coord_pc = from
    /\ coord_pc' = to
    /\ MergeIntoTotal
    /\ ClearMetrics
    /\ UNCHANGED <<cmd_q, fire_q, timer_pc, worker_pc, ext_q, ext_sent, commands, elapsed,
                   hold, ctl_rate, target_rps, stopped, warmup_complete,
                   excluded, excluded_drops>>

CoordDrain == CoordFinalDrain("drain", "join")
CoordCollect == CoordFinalDrain("collect", "done")

(* Faulty variant: only the timer thread is joined.                        *)
ThreadsEndedTimer == TimerGone

ThreadsEnded == TimerGone /\ \A w \in Workers : WorkerGone(w)

CoordJoin ==
    /\ coord_pc = "join" /\ ThreadsEnded
    /\ coord_pc' = "collect"
    /\ UNCHANGED <<channelVars, timer_pc, worker_pc, ext_q, ext_sent, commands, elapsed,
                   hold, ctl_rate, target_rps, stopped, warmup_complete,
                   total, total_drops, excluded, excluded_drops>>

CoordStep(errs) ==
    \/ CoordWake \/ CoordCommand \/ CoordTick(errs) \/ CoordStop
    \/ CoordDrain \/ CoordJoin \/ CoordCollect
=============================================================================
