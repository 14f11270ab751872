----------------------------- MODULE EngineBase -----------------------------
(***************************************************************************)
(* What the threads of one load test share (netanvil-core): the channels   *)
(* between the coordinator, the timer thread and the I/O workers, and the  *)
(* parameters of the test.  The threads themselves are the modules         *)
(* TimerThread, IoWorker and Coordinator; Engine composes them.            *)
(***************************************************************************)
EXTENDS Naturals, Sequences, FiniteSets

CONSTANTS
    NumWorkers,     \* I/O workers, one per core
    FireCap,        \* capacity of a fire channel (FIRE_CHANNEL_CAPACITY)
    MaxEvents,      \* bound: events one scheduler produces before its end time
    Rates,          \* the aggregate request rates that are told apart
    InitialRate,    \* config.initial_rps()
    None            \* an Option that is not set

ASSUME EngineAssumption ==
    /\ NumWorkers \in Nat \ {0}
    /\ FireCap \in Nat \ {0}
    /\ MaxEvents \in Nat \ {0}
    /\ Rates \subseteq Nat
    /\ InitialRate \in Rates
    /\ None \notin Nat

Workers == 1..NumWorkers

VARIABLES
    cmd_q,          \* coordinator -> timer, unbounded
    fire_q,         \* timer -> worker, bounded by FireCap
    metrics_q,      \* worker -> coordinator, unbounded
    timer_pc,       \* "done" once timer_loop has returned and dropped its channel ends
    worker_pc       \* "exited" or "crashed" once the worker dropped its channel ends

channelVars == <<cmd_q, fire_q, metrics_q>>

(* A request is named by the index of its event in its worker's schedule,  *)
(* which stands for intended_time: a scheduler never repeats one.          *)
Event == Nat

(* ScheduledRequest: v is the event of a Fire, the version of a new target *)
(* or header list otherwise.                                               *)
FireMsg == [kind : {"fire", "targets", "metadata", "stop"}, v : Nat]
ControlMsg == [kind : {"targets", "metadata", "stop"}, v : Nat]
TimerCommand == [kind : {"rate", "targets", "metadata", "stop"}, v : Nat]

Msg(k, x) == [kind |-> k, v |-> x]
StopMsg == Msg("stop", 0)

(* A MetricsSnapshot.  A counter is the set of what it counted since the   *)
(* snapshot before, so that counting twice can be seen.                    *)
Snapshot == [reqs : SUBSET Event, drops : SUBSET Event, in_flight : Nat]

TimerGone == timer_pc = "done"
WorkerGone(w) == worker_pc[w] \in {"exited", "crashed"}

(* flume: a send on a channel whose receiver is dropped fails.             *)
SendTimer(cmd) == IF TimerGone THEN cmd_q ELSE Append(cmd_q, cmd)

(* try_send(Stop) to every worker: a full or closed channel loses it.      *)
OfferStop(w) ==
    IF ~WorkerGone(w) /\ Len(fire_q[w]) < FireCap
    THEN Append(fire_q[w], StopMsg)
    ELSE fire_q[w]

(* The events of the Fire messages that wait in a fire channel.            *)
FiresOf(q) == {q[i].v : i \in {j \in DOMAIN q : q[j].kind = "fire"}}
Queued(w) == FiresOf(fire_q[w])
=============================================================================
