------------------------------- MODULE Agent --------------------------------
(***************************************************************************)
(* The agent server (netanvil-api, agent.rs): a long-lived HTTP server     *)
(* whose handlers share AgentInner, under a mutex, with the threads of the *)
(* tests that POST /test/start spawns.  A test is named by the number of   *)
(* its accepted start.  The engine that a test thread runs is abstract: it *)
(* signals readiness, ticks, and returns when it is stopped or its time is *)
(* over (module Engine is the detailed one).  A handler runs to its next   *)
(* await without interruption by other handlers, not by the test threads.  *)
(***************************************************************************)
EXTENDS Naturals, FiniteSets

CONSTANTS
    MaxTests,       \* bound: tests that are started
    MaxTimeouts,    \* bound: starts that take longer than the 30s of the handler
    MaxFailures,    \* bound: engines that fail before they are ready
    MaxPanics       \* bound: test threads that panic or cannot be spawned

ASSUME AgentAssumption ==
    /\ MaxTests \in Nat \ {0}
    /\ MaxTimeouts \in Nat /\ MaxFailures \in Nat /\ MaxPanics \in Nat

Tests == 1..MaxTests
NoTest == 0
TestOrNone == Tests \cup {NoTest}

VARIABLES
    state,          \* AgentInner.state
    command_tx,     \* the test whose command channel is held, or NoTest
    shared_state,   \* the SharedState that the handlers serve: the one of a test, or the first
    last_result,    \* the test whose result is served, or NoTest
    started,        \* number of accepted starts
    thread,         \* where the thread of each test is
    ready,          \* the readiness channel of each test
    handler,        \* the POST /test/start handler of each test
    stop_sent,      \* a Stop waits in the command channel of the test
    metrics,        \* SharedState.metrics is Some
    reset           \* the SharedState that the deferred reset of a test will clear, if any

vars == <<state, command_tx, shared_state, last_result, started, thread, ready, handler,
          stop_sent, metrics, reset>>

TypeOK ==
    /\ state \in {"Idle", "Running"}
    /\ command_tx \in TestOrNone
    /\ shared_state \in TestOrNone
    /\ last_result \in TestOrNone
    /\ started \in 0..MaxTests
    /\ thread \in [Tests -> {"none", "starting", "running", "returned", "failed", "panicked", "done"}]
    /\ ready \in [Tests -> {"open", "sent", "dropped"}]
    /\ handler \in [Tests -> {"none", "waiting", "ok", "conflict", "cancelled"}]
    /\ stop_sent \in [Tests -> BOOLEAN]
    /\ metrics \in [TestOrNone -> BOOLEAN]
    /\ reset \in [Tests -> SUBSET TestOrNone]

(* make_inner: an idle agent with an empty SharedState.                    *)
Init ==
    /\ state = "Idle"
    /\ command_tx = NoTest
    /\ shared_state = NoTest
    /\ last_result = NoTest
    /\ started = 0
    /\ thread = [t \in Tests |-> "none"]
    /\ ready = [t \in Tests |-> "open"]
    /\ handler = [t \in Tests |-> "none"]
    /\ stop_sent = [t \in Tests |-> FALSE]
    /\ metrics = [t \in TestOrNone |-> FALSE]
    /\ reset = [t \in Tests |-> {}]

(* The engine of the test exists, and its command channel is open.         *)
Live(t) == thread[t] \in {"starting", "running"}

-----------------------------------------------------------------------------
(* Handlers.                                                               *)

(* Faulty variant: a start is accepted while a test is running.            *)
MayStartAlways == TRUE

MayStart == state # "Running"

ForgetResult == NoTest

(* The block of start_test_spawn under the lock.                           *)
Accept(t) ==
    /\ started < MaxTests /\ MayStart
    /\ started' = t
    /\ state' = "Running"
    /\ command_tx' = t
    /\ shared_state' = t
    /\ last_result' = ForgetResult
    /\ UNCHANGED <<stop_sent, metrics, reset>>

(* start_test_spawn: everything up to the await of the readiness signal.   *)
PostTestStart ==
    LET t == started + 1 IN
    /\ Accept(t)
    /\ thread' = [thread EXCEPT ![t] = "starting"]
    /\ handler' = [handler EXCEPT ![t] = "waiting"]
    /\ UNCHANGED ready

(* The thread cannot be spawned: the handler returns the error at once and *)
(* takes nothing back.                                                     *)
SpawnFailed ==
    LET t == started + 1 IN
    /\ Accept(t)
    /\ Cardinality({x \in Tests : thread[x] = "panicked"}) < MaxPanics
    /\ thread' = [thread EXCEPT ![t] = "panicked"]
    /\ ready' = [ready EXCEPT ![t] = "dropped"]
    /\ handler' = [handler EXCEPT ![t] = "conflict"]

StartSucceeded(t) ==
    /\ handler[t] = "waiting" /\ ready[t] = "sent"
    /\ handler' = [handler EXCEPT ![t] = "ok"]
    /\ UNCHANGED <<state, command_tx, shared_state, last_result, started, thread, ready,
                   stop_sent, metrics, reset>>

(* The error branches of start_test_async.                                 *)
GiveUp(t) ==
    /\ handler' = [handler EXCEPT ![t] = "conflict"]
    /\ state' = "Idle"
    /\ command_tx' = NoTest
    /\ UNCHANGED <<shared_state, last_result, started, thread, ready,
                   stop_sent, metrics, reset>>

StartFailed(t) ==
    /\ handler[t] = "waiting" /\ ready[t] = "dropped"
    /\ GiveUp(t)

StartTimedOut(t) ==
    /\ handler[t] = "waiting" /\ ready[t] = "open"
    /\ Cardinality({x \in Tests : handler[x] = "conflict" /\ ready[x] # "dropped"}) < MaxTimeouts
    /\ GiveUp(t)

(* The client closes its connection: the handler's future is dropped.      *)
StartCancelled(t) ==
    /\ handler[t] = "waiting"
    /\ handler' = [handler EXCEPT ![t] = "cancelled"]
    /\ UNCHANGED <<state, command_tx, shared_state, last_result, started, thread, ready,
                   stop_sent, metrics, reset>>

(* The command channel is closed once the engine has returned: the send    *)
(* fails and the handler ignores it.                                       *)
PostStop ==
    /\ command_tx # NoTest
    /\ stop_sent' = [stop_sent EXCEPT ![command_tx] = @ \/ Live(command_tx)]
    /\ UNCHANGED <<state, command_tx, shared_state, last_result, started, thread, ready,
                   handler, metrics, reset>>

-----------------------------------------------------------------------------
(* Test threads.                                                           *)

(* Coordinator::run signals readiness, whether or not anybody waits.       *)
EngineReady(t) ==
    /\ thread[t] = "starting"
    /\ thread' = [thread EXCEPT ![t] = "running"]
    /\ ready' = [ready EXCEPT ![t] = "sent"]
    /\ UNCHANGED <<state, command_tx, shared_state, last_result, started, handler,
                   stop_sent, metrics, reset>>

EngineFailed(t) ==
    /\ thread[t] = "starting"
    /\ Cardinality({x \in Tests : ready[x] = "dropped" /\ thread[x] # "panicked"}) < MaxFailures
    /\ thread' = [thread EXCEPT ![t] = "failed"]
    /\ ready' = [ready EXCEPT ![t] = "dropped"]
    /\ UNCHANGED <<state, command_tx, shared_state, last_result, started, handler,
                   stop_sent, metrics, reset>>

(* A tick reports progress to the SharedState of the test.                 *)
EngineTick(t) ==
    /\ thread[t] = "running" /\ ~stop_sent[t]
    /\ metrics' = [metrics EXCEPT ![t] = TRUE]
    /\ UNCHANGED <<state, command_tx, shared_state, last_result, started, thread, ready, handler,
                   stop_sent, reset>>

(* The tick that finds a Stop, or the test's time over, is the last one.   *)
EngineReturn(t) ==
    /\ thread[t] = "running"
    /\ metrics' = [metrics EXCEPT ![t] = TRUE]
    /\ thread' = [thread EXCEPT ![t] = "returned"]
    /\ stop_sent' = [stop_sent EXCEPT ![t] = FALSE]
    /\ UNCHANGED <<state, command_tx, shared_state, last_result, started, ready, handler, reset>>

(* The thread unwinds: nothing after the engine's call runs.               *)
ThreadPanic(t) ==
    /\ Live(t)
    /\ Cardinality({x \in Tests : thread[x] = "panicked"}) < MaxPanics
    /\ thread' = [thread EXCEPT ![t] = "panicked"]
    /\ ready' = [ready EXCEPT ![t] = IF @ = "sent" THEN @ ELSE "dropped"]
    /\ UNCHANGED <<state, command_tx, shared_state, last_result, started, handler,
                   stop_sent, metrics, reset>>

BecomeIdle(t) == state' = "Idle"

(* The block after the engine's call, under the lock.                      *)
ThreadComplete(t) ==
    /\ thread[t] \in {"returned", "failed"}
    /\ thread' = [thread EXCEPT ![t] = "done"]
    /\ BecomeIdle(t)
    /\ command_tx' = NoTest
    /\ last_result' = IF thread[t] = "returned" THEN t ELSE last_result
    /\ reset' = [reset EXCEPT ![t] = {shared_state}]
    /\ UNCHANGED <<shared_state, started, ready, handler, stop_sent, metrics>>

(* Faulty variant: the metrics that are served by then are cleared.        *)
ResetTargetServed(t) == {shared_state}

ResetTarget(t) == reset[t]

(* reset_metrics, five seconds later.                                      *)
DeferredReset(t) ==
    /\ reset[t] # {}
    /\ metrics' = [u \in TestOrNone |-> metrics[u] /\ u \notin ResetTarget(t)]
    /\ reset' = [reset EXCEPT ![t] = {}]
    /\ UNCHANGED <<state, command_tx, shared_state, last_result, started, thread, ready,
                   handler, stop_sent>>

-----------------------------------------------------------------------------
Handler(t) == StartSucceeded(t) \/ StartFailed(t) \/ StartTimedOut(t) \/ StartCancelled(t)
Thread(t) ==
    \/ EngineReady(t) \/ EngineFailed(t) \/ EngineTick(t) \/ EngineReturn(t)
    \/ ThreadPanic(t) \/ ThreadComplete(t)

Next ==
    \/ PostTestStart \/ SpawnFailed \/ PostStop
    \/ \E t \in Tests : Handler(t) \/ Thread(t) \/ DeferredReset(t)

Spec == Init /\ [][Next]_vars

-----------------------------------------------------------------------------
(* The engines of two tests never run at the same time: they would share   *)
(* the cores (start_test_spawn, "test already running").                   *)
OneTest == \A t, u \in Tests : Live(t) /\ Live(u) => t = u

(* The handlers act on the test that runs: its commands reach it, and the  *)
(* metrics that are served are its own, from the start of its thread to    *)
(* the return of its engine ("Command sender for the running test (None    *)
(* when idle)", agent.rs).                                                 *)
ControlReachesTest ==
    \A t \in Tests : Live(t) => command_tx = t /\ shared_state = t /\ state = "Running"

(* The result that is served is the one of the latest test.                *)
ResultIsLatest == last_result \in {NoTest, started}

(* At any time there is one test, and it is the one that the handlers, the *)
(* command channel and the result are about (start_test_async, and the end *)
(* of the test thread).                                                    *)
OneTestInControl == TypeOK /\ OneTest /\ ControlReachesTest /\ ResultIsLatest

(* The metrics of a running test never disappear: the deferred reset of an *)
(* earlier test clears that test's own metrics only.                       *)
LiveMetricsKept ==
    [][\A t \in Tests : thread[t] = "running" /\ metrics[t] => metrics'[t]]_vars

(* idle -> running -> idle: an agent that was started becomes idle again.  *)
ReturnsToIdle == state = "Running" ~> state = "Idle"

=============================================================================
