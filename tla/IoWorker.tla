------------------------------ MODULE IoWorker ------------------------------
(***************************************************************************)
(* io_worker_loop, handle_message, InFlightLimit and the counters of the   *)
(* metrics collector.  A worker is one thread with a single-threaded       *)
(* runtime: a spawned request task runs only while the loop awaits, that   *)
(* is while it waits for a message ("wait"), yields in the drain loop      *)
(* ("yield") or sleeps before the final snapshot ("grace").                *)
(***************************************************************************)
EXTENDS EngineBase

CONSTANTS
    MaxInFlight,        \* max_in_flight_per_core, 0 = unlimited
    GracefulShutdown,   \* config.graceful_shutdown
    WantsResponses,     \* generator.wants_responses()
    ResponseCap,        \* capacity of the response channel
    Outcomes,           \* what a request may end with
    MaxPanics           \* bound: workers whose generator panics

ASSUME WorkerAssumption ==
    /\ MaxInFlight \in Nat
    /\ GracefulShutdown \in BOOLEAN
    /\ WantsResponses \in BOOLEAN
    /\ ResponseCap \in Nat \ {0}
    /\ Outcomes \subseteq {"ok", "error"}
    /\ MaxPanics \in Nat

VARIABLES
    in_flight,      \* requests that hold a permit
    collector,      \* requests recorded since the last snapshot
    limit_drops,    \* in_flight_drops: requests refused a permit
    last_drops,     \* last_in_flight_drops
    targets,        \* version of the generator's target list
    metadata,       \* version of the transformer's header list
    responses,      \* results waiting to be given to the generator
    failed,         \* history: recorded requests that count as errors
    lost            \* history: dispatched requests that no snapshot will report

workerVars == <<worker_pc, in_flight, collector, limit_drops, last_drops,
                targets, metadata, responses, failed, lost>>

WorkerTypeOK ==
    /\ worker_pc \in [Workers -> {"recv", "wait", "drain", "yield", "grace", "exited", "crashed"}]
    /\ in_flight \in [Workers -> SUBSET Event]
    /\ \A w \in Workers : IsFiniteSet(in_flight[w])
    /\ collector \in [Workers -> SUBSET Event]
    /\ limit_drops \in [Workers -> SUBSET Event]
    /\ last_drops \in [Workers -> SUBSET Event]
    /\ targets \in [Workers -> Nat]
    /\ metadata \in [Workers -> Nat]
    /\ responses \in [Workers -> SUBSET Event]
    /\ failed \in [Workers -> SUBSET Event]
    /\ lost \in [Workers -> SUBSET Event]

WorkerInit ==
    /\ worker_pc = [w \in Workers |-> "recv"]
    /\ in_flight = [w \in Workers |-> {}]
    /\ collector = [w \in Workers |-> {}]
    /\ limit_drops = [w \in Workers |-> {}]
    /\ last_drops = [w \in Workers |-> {}]
    /\ targets = [w \in Workers |-> 0]
    /\ metadata = [w \in Workers |-> 0]
    /\ responses = [w \in Workers |-> {}]
    /\ failed = [w \in Workers |-> {}]
    /\ lost = [w \in Workers |-> {}]

(* Faulty variant: the limit is off by one.                                *)
CanAcquireOneMore(w) == MaxInFlight = 0 \/ Cardinality(in_flight[w]) <= MaxInFlight

(* InFlightLimit::try_acquire.                                             *)
CanAcquire(w) == MaxInFlight = 0 \/ Cardinality(in_flight[w]) < MaxInFlight

Refuse(w, n) == limit_drops' = [limit_drops EXCEPT ![w] = @ \cup {n}]

(* handle_message for everything but Stop.                                 *)
HandleMessage(w, m) ==
    /\ IF m.kind = "fire" /\ CanAcquire(w)
       THEN in_flight' = [in_flight EXCEPT ![w] = @ \cup {m.v}]
       ELSE UNCHANGED in_flight
    /\ IF m.kind = "fire" /\ ~CanAcquire(w)
       THEN Refuse(w, m.v)
       ELSE UNCHANGED limit_drops
    /\ targets' = IF m.kind = "targets" THEN [targets EXCEPT ![w] = m.v] ELSE targets
    /\ metadata' = IF m.kind = "metadata" THEN [metadata EXCEPT ![w] = m.v] ELSE metadata

Receive(w) ==
    /\ fire_q[w] # <<>>
    /\ fire_q' = [fire_q EXCEPT ![w] = Tail(@)]

(* Faulty variant: the permit of the request being reported is counted as  *)
(* already released.                                                       *)
TakeSnapshotReleased(w) ==
    [reqs |-> collector[w],
     drops |-> limit_drops[w] \ last_drops[w],
     in_flight |-> Cardinality(in_flight[w]) - 1]

(* metrics.snapshot() reads and clears the collector; in_flight_drops is   *)
(* stamped as the difference to the report before.                         *)
TakeSnapshot(w) ==
    [reqs |-> collector[w],
     drops |-> limit_drops[w] \ last_drops[w],
     in_flight |-> Cardinality(in_flight[w])]

(* Faulty variant: snapshot() does not reset the collector.                *)
SendSnapshotKeep(w) ==
    /\ metrics_q' = [metrics_q EXCEPT ![w] = Append(@, TakeSnapshot(w))]
    /\ UNCHANGED collector

SendSnapshot(w) ==
    /\ metrics_q' = [metrics_q EXCEPT ![w] = Append(@, TakeSnapshot(w))]
    /\ collector' = [collector EXCEPT ![w] = {}]

(* recv_async: a message that is there is taken without suspending.        *)
WorkerRecv(w) ==
    /\ worker_pc[w] \in {"recv", "wait"}
    /\ Receive(w)
    /\ LET m == Head(fire_q[w]) IN
       \/ /\ m.kind # "stop"
          /\ HandleMessage(w, m)
          /\ worker_pc' = [worker_pc EXCEPT ![w] = "drain"]
       \/ /\ m.kind = "stop"
          /\ worker_pc' = [worker_pc EXCEPT ![w] = "grace"]
          /\ UNCHANGED <<in_flight, limit_drops, targets, metadata>>
    /\ UNCHANGED <<cmd_q, metrics_q, timer_pc, collector, last_drops,
                   responses, failed, lost>>

WorkerSuspend(w) ==
    /\ worker_pc[w] = "recv" /\ fire_q[w] = <<>> /\ ~TimerGone
    /\ worker_pc' = [worker_pc EXCEPT ![w] = "wait"]
    /\ UNCHANGED <<channelVars, timer_pc, in_flight, collector, limit_drops, last_drops,
                   targets, metadata, responses, failed, lost>>

(* Faulty variant: a closed channel does not end the loop.                 *)
WorkerDisconnectedIgnored(w) ==
    /\ worker_pc[w] \in {"recv", "wait"} /\ fire_q[w] = <<>> /\ TimerGone
    /\ worker_pc' = [worker_pc EXCEPT ![w] = "wait"]
    /\ UNCHANGED <<channelVars, timer_pc, in_flight, collector, limit_drops, last_drops,
                   targets, metadata, responses, failed, lost>>

WorkerDisconnected(w) ==
    /\ worker_pc[w] \in {"recv", "wait"} /\ fire_q[w] = <<>> /\ TimerGone
    /\ worker_pc' = [worker_pc EXCEPT ![w] = "grace"]
    /\ UNCHANGED <<channelVars, timer_pc, in_flight, collector, limit_drops, last_drops,
                   targets, metadata, responses, failed, lost>>

(* The runtime is dropped with the thread, and the spawned tasks with it.  *)
Exit(w) ==
    /\ worker_pc' = [worker_pc EXCEPT ![w] = "exited"]
    /\ SendSnapshot(w)
    /\ lost' = [lost EXCEPT ![w] = @ \cup in_flight[w]]
    /\ in_flight' = [in_flight EXCEPT ![w] = {}]
    /\ responses' = [responses EXCEPT ![w] = {}]

(* One turn of the drain loop: deliver responses, handle a message, and    *)
(* yield if 50us have passed.                                              *)
WorkerDrain(w) ==
    /\ worker_pc[w] = "drain"
    /\ Receive(w)
    /\ Head(fire_q[w]).kind # "stop"
    /\ HandleMessage(w, Head(fire_q[w]))
    /\ responses' = [responses EXCEPT ![w] = {}]
    /\ \E next \in {"drain", "yield"} : worker_pc' = [worker_pc EXCEPT ![w] = next]
    /\ UNCHANGED <<cmd_q, metrics_q, timer_pc, collector, last_drops, failed, lost>>

(* Stop in the drain loop: final snapshot and return, without the sleep.   *)
WorkerDrainStop(w) ==
    /\ worker_pc[w] = "drain"
    /\ Receive(w)
    /\ Head(fire_q[w]).kind = "stop"
    /\ Exit(w)
    /\ UNCHANGED <<cmd_q, timer_pc, limit_drops, last_drops, targets, metadata, failed>>

WorkerResume(w) ==
    /\ worker_pc[w] = "yield"
    /\ worker_pc' = [worker_pc EXCEPT ![w] = "drain"]
    /\ UNCHANGED <<channelVars, timer_pc, in_flight, collector, limit_drops, last_drops,
                   targets, metadata, responses, failed, lost>>

(* Faulty variant: the delta starts from the first report every time.      *)
RememberDropsNot(w) == UNCHANGED last_drops

RememberDrops(w) == last_drops' = [last_drops EXCEPT ![w] = limit_drops[w]]

(* The channel is drained: report if metrics_interval has passed, then     *)
(* deliver responses at the top of the loop.                               *)
WorkerLoop(w) ==
    /\ worker_pc[w] = "drain" /\ fire_q[w] = <<>>
    /\ worker_pc' = [worker_pc EXCEPT ![w] = "recv"]
    /\ responses' = [responses EXCEPT ![w] = {}]
    /\ \/ SendSnapshot(w) /\ RememberDrops(w)
       \/ UNCHANGED <<metrics_q, collector, last_drops>>
    /\ UNCHANGED <<cmd_q, fire_q, timer_pc, in_flight, limit_drops,
                   targets, metadata, failed, lost>>

WorkerExit(w) ==
    /\ worker_pc[w] = "grace"
    /\ Exit(w)
    /\ UNCHANGED <<cmd_q, fire_q, timer_pc, limit_drops, last_drops,
                   targets, metadata, failed>>

(* The loop awaits, so spawned tasks can run.                              *)
Awaiting(w) == worker_pc[w] \in {"wait", "yield"} \/ (worker_pc[w] = "grace" /\ GracefulShutdown)

(* HdrMetricsCollector::record: every result counts as a request, an error *)
(* or timeout also as an error.                                            *)
Record(w, n, outcome) ==
    /\ collector' = [collector EXCEPT ![w] = @ \cup {n}]
    /\ failed' = IF outcome = "ok" THEN failed ELSE [failed EXCEPT ![w] = @ \cup {n}]

(* A spawned task ends: record, feed back, release the permit.             *)
TaskComplete(w) ==
    /\ Awaiting(w)
    /\ \E n \in in_flight[w], outcome \in Outcomes :
       /\ Record(w, n, outcome)
       /\ responses' = IF WantsResponses /\ Cardinality(responses[w]) < ResponseCap
                       THEN [responses EXCEPT ![w] = @ \cup {n}]
                       ELSE responses
       /\ in_flight' = [in_flight EXCEPT ![w] = @ \ {n}]
    /\ UNCHANGED <<channelVars, timer_pc, worker_pc, limit_drops, last_drops, targets, metadata, lost>>

(* generate() or transform() panics: the thread unwinds and reports        *)
(* nothing more.                                                           *)
WorkerPanic(w) ==
    /\ worker_pc[w] \in {"recv", "wait", "drain"}
    /\ Cardinality({x \in Workers : worker_pc[x] = "crashed"}) < MaxPanics
    /\ fire_q[w] # <<>> /\ Head(fire_q[w]).kind = "fire" /\ CanAcquire(w)
    /\ worker_pc' = [worker_pc EXCEPT ![w] = "crashed"]
    /\ lost' = [lost EXCEPT ![w] = @ \cup in_flight[w] \cup collector[w] \cup Queued(w)
                                     \cup (limit_drops[w] \ last_drops[w])]
    /\ in_flight' = [in_flight EXCEPT ![w] = {}]
    /\ collector' = [collector EXCEPT ![w] = {}]
    /\ limit_drops' = [limit_drops EXCEPT ![w] = last_drops[w]]
    /\ fire_q' = [fire_q EXCEPT ![w] = <<>>]
    /\ responses' = [responses EXCEPT ![w] = {}]
    /\ UNCHANGED <<cmd_q, metrics_q, timer_pc, last_drops, targets, metadata, failed>>

WorkerLoopStep(w) ==
    \/ WorkerRecv(w) \/ WorkerSuspend(w) \/ WorkerDisconnected(w) \/ WorkerDrain(w)
    \/ WorkerDrainStop(w) \/ WorkerResume(w) \/ WorkerLoop(w) \/ WorkerExit(w)

WorkerNext(w) == WorkerLoopStep(w) \/ TaskComplete(w) \/ WorkerPanic(w)
=============================================================================
