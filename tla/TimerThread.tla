----------------------------- MODULE TimerThread ----------------------------
(***************************************************************************)
(* timer_loop: one thread owns the schedulers of all workers, takes the    *)
(* next event of any of them from a heap, sleeps until it is due and       *)
(* offers it to the worker.  Instants are abstracted: any worker in the    *)
(* heap may be the next one, and a scheduler may reach its end time after  *)
(* any of its events.                                                      *)
(***************************************************************************)
EXTENDS EngineBase

VARIABLES
    heap,           \* workers that have an event in the heap
    next_ev,        \* the next event of each scheduler
    sched_rate,     \* the rate each scheduler was given
    due,            \* the worker whose event was popped
    forward,        \* control message being forwarded, and the next worker to get it
    dispatched,     \* stats.dispatched
    dropped         \* stats.dropped

timerVars == <<timer_pc, heap, next_ev, sched_rate, due, forward, dispatched, dropped>>

TimerTypeOK ==
    /\ timer_pc \in {"drain", "forward", "sleep", "done"}
    /\ heap \subseteq Workers
    /\ next_ev \in [Workers -> Event]
    /\ sched_rate \in [Workers -> Nat]
    /\ due \in Workers
    /\ forward \in [msg : ControlMsg, to : Nat]
    /\ timer_pc = "forward" => forward.to \in Workers
    /\ dispatched \in Nat
    /\ dropped \in Nat

PerWorker(rps) == rps \div NumWorkers

(* A scheduler yields no first event when the test has no duration.        *)
TimerInit ==
    /\ timer_pc = "drain"
    /\ heap \in {Workers, {}}
    /\ next_ev = [w \in Workers |-> 1]
    /\ sched_rate = [w \in Workers |-> PerWorker(InitialRate)]
    /\ due = 1
    /\ forward = [msg |-> StopMsg, to |-> 1]
    /\ dispatched = 0
    /\ dropped = 0

TimerReturn ==
    /\ timer_pc' = "done"
    /\ fire_q' = [w \in Workers |-> OfferStop(w)]
    /\ UNCHANGED <<heap, next_ev, sched_rate, due, forward, dispatched, dropped>>

TimerUpdateRate ==
    /\ timer_pc = "drain" /\ cmd_q # <<>> /\ Head(cmd_q).kind = "rate"
    /\ sched_rate' = [w \in Workers |-> PerWorker(Head(cmd_q).v)]
    /\ cmd_q' = Tail(cmd_q)
    /\ UNCHANGED <<timer_pc, heap, next_ev, due, forward, dispatched, dropped,
                   fire_q, metrics_q, worker_pc>>

TimerTakeControl ==
    /\ timer_pc = "drain" /\ cmd_q # <<>> /\ Head(cmd_q).kind \in {"targets", "metadata"}
    /\ forward' = [msg |-> Head(cmd_q), to |-> 1]
    /\ timer_pc' = "forward"
    /\ cmd_q' = Tail(cmd_q)
    /\ UNCHANGED <<heap, next_ev, sched_rate, due, dispatched, dropped,
                   fire_q, metrics_q, worker_pc>>

(* Faulty variant: try_send, which loses the message when the channel is   *)
(* full.                                                                   *)
SendBlockingTry(w, m) ==
    IF WorkerGone(w) \/ Len(fire_q[w]) = FireCap
    THEN UNCHANGED fire_q
    ELSE fire_q' = [fire_q EXCEPT ![w] = Append(@, m)]

(* The blocking send: the timer waits while the channel is full.           *)
SendBlocking(w, m) ==
    \/ WorkerGone(w) /\ UNCHANGED fire_q
    \/ /\ ~WorkerGone(w) /\ Len(fire_q[w]) < FireCap
       /\ fire_q' = [fire_q EXCEPT ![w] = Append(@, m)]

TimerForward ==
    LET w == forward.to IN
    /\ timer_pc = "forward"
    /\ SendBlocking(w, forward.msg)
    /\ forward' = [forward EXCEPT !.to = w + 1]
    /\ timer_pc' = IF w = NumWorkers THEN "drain" ELSE "forward"
    /\ UNCHANGED <<heap, next_ev, sched_rate, due, dispatched, dropped,
                   cmd_q, metrics_q, worker_pc>>

TimerStop ==
    /\ timer_pc = "drain" /\ cmd_q # <<>> /\ Head(cmd_q).kind = "stop"
    /\ cmd_q' = <<>>
    /\ TimerReturn
    /\ UNCHANGED <<metrics_q, worker_pc>>

TimerPop ==
    /\ timer_pc = "drain" /\ cmd_q = <<>>
    /\ \E w \in heap : due' = w /\ heap' = heap \ {w}
    /\ timer_pc' = "sleep"
    /\ UNCHANGED <<next_ev, sched_rate, forward, dispatched, dropped,
                   cmd_q, fire_q, metrics_q, worker_pc>>

TimerExhausted ==
    /\ timer_pc = "drain" /\ cmd_q = <<>> /\ heap = {}
    /\ TimerReturn
    /\ UNCHANGED <<cmd_q, metrics_q, worker_pc>>

(* Faulty variant: the event stays the next one of the scheduler.          *)
AdvanceSchedulerNot(w) ==
    /\ UNCHANGED next_ev
    /\ \/ next_ev[w] < MaxEvents /\ heap' = heap \cup {w}
       \/ UNCHANGED heap

(* next_request_time: another event, or None from the end time on.         *)
AdvanceScheduler(w) ==
    /\ next_ev' = [next_ev EXCEPT ![w] = @ + 1]
    /\ \/ next_ev[w] < MaxEvents /\ heap' = heap \cup {w}
       \/ UNCHANGED heap

TimerDispatch ==
    /\ timer_pc = "sleep"
    /\ ~WorkerGone(due) /\ Len(fire_q[due]) < FireCap
    /\ fire_q' = [fire_q EXCEPT ![due] = Append(@, Msg("fire", next_ev[due]))]
    /\ dispatched' = dispatched + 1
    /\ AdvanceScheduler(due)
    /\ timer_pc' = "drain"
    /\ UNCHANGED <<sched_rate, due, forward, dropped, cmd_q, metrics_q, worker_pc>>

TimerDrop ==
    /\ timer_pc = "sleep"
    /\ ~WorkerGone(due) /\ Len(fire_q[due]) = FireCap
    /\ dropped' = dropped + 1
    /\ AdvanceScheduler(due)
    /\ timer_pc' = "drain"
    /\ UNCHANGED <<sched_rate, due, forward, dispatched, cmd_q, fire_q, metrics_q, worker_pc>>

(* The worker is gone: its scheduler is not put back into the heap.        *)
TimerSkip ==
    /\ timer_pc = "sleep" /\ WorkerGone(due)
    /\ timer_pc' = "drain"
    /\ UNCHANGED <<heap, next_ev, sched_rate, due, forward, dispatched, dropped,
                   cmd_q, fire_q, metrics_q, worker_pc>>

TimerNext ==
    \/ TimerUpdateRate \/ TimerTakeControl \/ TimerForward \/ TimerStop
    \/ TimerPop \/ TimerExhausted \/ TimerDispatch \/ TimerDrop \/ TimerSkip
=============================================================================
