------------------------------- MODULE Engine -------------------------------
(***************************************************************************)
(* One load test: the coordinator, the timer thread and the I/O workers    *)
(* that run_test_core spawns, interleaved.                                 *)
(***************************************************************************)
EXTENDS TimerThread, IoWorker, Coordinator

VARIABLE early      \* history: requests recorded before the warmup was over

vars == <<channelVars, timerVars, workerVars, coordVars, early>>

timerOnly == <<heap, next_ev, sched_rate, due, forward, dispatched, dropped>>
workerOnly == <<in_flight, collector, limit_drops, last_drops,
                targets, metadata, responses, failed, lost>>

TypeOK ==
    /\ cmd_q \in Seq(TimerCommand)
    /\ fire_q \in [Workers -> Seq(FireMsg)]
    /\ metrics_q \in [Workers -> Seq(Snapshot)]
    /\ TimerTypeOK
    /\ WorkerTypeOK
    /\ CoordTypeOK
    /\ early \in [Workers -> SUBSET Event]

(* run() distributes the controller's first rate before the loop.          *)
Init ==
    /\ cmd_q = <<Msg("rate", InitialRate)>>
    /\ fire_q = [w \in Workers |-> <<>>]
    /\ metrics_q = [w \in Workers |-> <<>>]
    /\ TimerInit
    /\ WorkerInit
    /\ CoordInit
    /\ early = [w \in Workers |-> {}]

DuringWarmup == Warmup # None /\ elapsed < Warmup

Timer == TimerNext /\ UNCHANGED <<workerOnly, coordVars, early>>
WorkerThread(w) == WorkerLoopStep(w) /\ UNCHANGED <<timerOnly, coordVars, early>>
Task(w) ==
    /\ TaskComplete(w)
    /\ early' = IF DuringWarmup THEN [early EXCEPT ![w] = @ \cup collector'[w]] ELSE early
    /\ UNCHANGED <<timerOnly, coordVars>>
Panic(w) == WorkerPanic(w) /\ UNCHANGED <<timerOnly, coordVars, early>>
Coord == CoordStep(failed) /\ UNCHANGED <<timerOnly, workerOnly, early>>
Api == SendCommand /\ UNCHANGED <<timerOnly, workerOnly, early>>

(* run_test_core returned: all threads are joined.                         *)
Finished == coord_pc = "done" /\ UNCHANGED vars

Next ==
    \/ Timer
    \/ \E w \in Workers : WorkerThread(w) \/ Task(w) \/ Panic(w)
    \/ Coord
    \/ Api
    \/ Finished

Spec == Init /\ [][Next]_vars

(* The operating system runs every thread.  That a request completes, that *)
(* a plugin panics or that a command arrives is not assumed.               *)
Fairness ==
    /\ WF_vars(Timer)
    /\ WF_vars(Coord)
    /\ \A w \in Workers : WF_vars(WorkerThread(w))

FairSpec == Spec /\ Fairness

-----------------------------------------------------------------------------
(* Requests that worker w took from its channel, by what became of them.   *)
Reported(w) == PendingReqs(w) \cup total[w] \cup excluded[w]
Handled(w) == limit_drops[w] \cup in_flight[w] \cup collector[w] \cup Reported(w) \cup lost[w]

Disjoint(A, B) == A \cap B = {}
SnapshotsApart(q) == \A i, j \in DOMAIN q : i # j => Disjoint(q[i].reqs, q[j].reqs)
InOrder(q) ==
    \A i, j \in DOMAIN q : i < j /\ q[i].kind = "fire" /\ q[j].kind = "fire" => q[i].v < q[j].v

(* No request is counted twice: while it is in flight it is in no counter, *)
(* a recorded request is in the collector or in one snapshot or in the     *)
(* total, and only one of them (io_worker.rs, collector.rs snapshot(),     *)
(* coordinator.rs tick() and collect_final_metrics()).                     *)
CountedOnce ==
    \A w \in Workers :
        /\ Disjoint(in_flight[w], collector[w] \cup Reported(w))
        /\ Disjoint(collector[w], Reported(w))
        /\ Disjoint(PendingReqs(w), total[w] \cup excluded[w])
        /\ Disjoint(total[w], excluded[w])
        /\ Disjoint(lost[w], in_flight[w] \cup collector[w] \cup Reported(w))
        /\ SnapshotsApart(metrics_q[w])

(* A request refused by the in-flight limit is reported as a drop in one   *)
(* snapshot only, whatever path the worker leaves its loop by: the deltas  *)
(* against last_in_flight_drops never overlap and never skip one.          *)
DropsReportedOnce ==
    \A w \in Workers :
        /\ Disjoint(PendingDrops(w), total_drops[w] \cup excluded_drops[w])
        /\ Disjoint(total_drops[w], excluded_drops[w])
        /\ \A i, j \in DOMAIN metrics_q[w] :
              i # j => Disjoint(metrics_q[w][i].drops, metrics_q[w][j].drops)
        /\ LET reported == PendingDrops(w) \cup total_drops[w] \cup excluded_drops[w] IN
           reported = IF worker_pc[w] = "exited" THEN limit_drops[w] ELSE last_drops[w]

(* The requests that have left the timer thread, with their workers.       *)
Sent == UNION {{<<w, n>> : n \in Queued(w) \cup Handled(w)} : w \in Workers}

(* The timer's dispatch counter agrees with the workers: a dispatched      *)
(* request waits in its channel or was handled, none disappears.           *)
DispatchedAccounted == dispatched = Cardinality(Sent)

(* No event gets lost between timer, worker and coordinator, and no drop   *)
(* is reported twice, on any of the exit paths of a worker (timer_loop,    *)
(* io_worker_loop).                                                        *)
EventsAccounted == DispatchedAccounted /\ DropsReportedOnce

(* A worker handles its requests in the order they were scheduled: what is *)
(* queued is in schedule order and later than all it took before.          *)
InScheduleOrder ==
    \A w \in Workers :
        /\ InOrder(fire_q[w])
        /\ \A n \in Queued(w), m \in Handled(w) : m < n

(* Memory is bounded under overload: a fire channel holds FireCap          *)
(* messages, a worker runs and reports at most MaxInFlight requests at     *)
(* once, and ResponseCap results wait for its generator.                   *)
BoundedWork ==
    \A w \in Workers :
        /\ Len(fire_q[w]) <= FireCap
        /\ MaxInFlight > 0 =>
              /\ Cardinality(in_flight[w]) <= MaxInFlight
              /\ \A i \in DOMAIN metrics_q[w] : metrics_q[w][i].in_flight <= MaxInFlight
        /\ Cardinality(responses[w]) <= ResponseCap

(* When run() returns, every channel is empty and every request that was   *)
(* recorded by a worker that did not panic is in the result (or was taken  *)
(* out by the warmup): the drain after the join misses no last snapshot.   *)
FinalResultComplete ==
    coord_pc = "done" =>
        \A w \in Workers :
            /\ fire_q[w] = <<>> /\ metrics_q[w] = <<>>
            /\ worker_pc[w] = "exited" =>
                  /\ failed[w] \subseteq total[w] \cup excluded[w]
                  /\ Handled(w) = total[w] \cup excluded[w] \cup limit_drops[w] \cup lost[w]
                  /\ limit_drops[w] = total_drops[w] \cup excluded_drops[w]

(* A control message is not lost and not overtaken: a worker that leaves   *)
(* its loop has applied the last list the timer forwarded, even when the   *)
(* Stop message itself did not fit into the channel.                       *)
ControlApplied ==
    \A w \in Workers :
        worker_pc[w] = "exited" /\ TimerGone =>
            /\ forward.msg.kind = "targets" => targets[w] = forward.msg.v
            /\ forward.msg.kind = "metadata" => metadata[w] = forward.msg.v

(* Lists are applied in the order in which they were sent to the API.      *)
ControlInOrder ==
    [][\A w \in Workers : targets'[w] >= targets[w] /\ metadata'[w] >= metadata[w]]_vars

RateCommands == {i \in DOMAIN cmd_q : cmd_q[i].kind = "rate"}

(* Between two ticks the schedulers run at, or will be set to, the share   *)
(* of the rate that the last tick decided; a held rate is never overtaken  *)
(* by an older decision that still waits in the command channel.           *)
RateFollowsDecision ==
    coord_pc = "sleep" /\ ~TimerGone =>
        IF RateCommands = {}
        THEN \A w \in Workers : sched_rate[w] = PerWorker(target_rps)
        ELSE cmd_q[Max(RateCommands)].v = target_rps

(* The test ends: coordinator, timer and workers never wait for each other *)
(* forever, with channels full, Stop lost, or a worker gone.               *)
Termination == <>(coord_pc = "done")

-----------------------------------------------------------------------------
(* What a comment of the repository says and the code does not keep.       *)

(* The result has no request that was recorded before the warmup was over  *)
(* (coordinator.rs, tick()).                                               *)
WarmupExcluded ==
    coord_pc = "done" => \A w \in Workers : Disjoint(total[w], early[w])

=============================================================================
