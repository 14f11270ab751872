----------------------------- MODULE MCServices -----------------------------
(***************************************************************************)
(* The long-lived services: an agent, the control endpoints of a running   *)
(* test, the queue of the leader and a test server.  A behaviour is about  *)
(* the one that focus names, and the others stay in an initial state.      *)
(*                                                                         *)
(* There are two agents.  The threads of the first may panic; the starts   *)
(* of the second may time out or fail.                                     *)
(***************************************************************************)
EXTENDS Agent, ControlApi, TestServer

VARIABLES
    focus,
    \* the second agent
    s_state, s_command_tx, s_shared_state, s_last_result, s_started, s_thread, s_ready,
    s_handler, s_stop_sent, s_metrics, s_reset,
    \* the queue of the leader, see TestQueue and ResultStore
    entries, index, save, doomed, created, pending, running, all_tests, phase, cancel,
    hold_tx, hold_state, updates, applied, answer, blocked, asked, holds, cancels,
    stopping, failures, crashes

Second ==
    INSTANCE Agent
    WITH MaxTests <- 3, MaxTimeouts <- 1, MaxFailures <- 1, MaxPanics <- 0,
         state <- s_state, command_tx <- s_command_tx, shared_state <- s_shared_state,
         last_result <- s_last_result, started <- s_started, thread <- s_thread,
         ready <- s_ready, handler <- s_handler, stop_sent <- s_stop_sent,
         metrics <- s_metrics, reset <- s_reset

Queue ==
    INSTANCE TestQueue
    WITH MaxTests <- 3, max_results <- 1, Capacity <- 2, Rates <- {1}, MaxHolds <- 0,
         MaxUpdates <- 0, MaxCancels <- 1, MaxFailures <- 1, MaxCrashes <- 0

secondVars ==
    <<s_state, s_command_tx, s_shared_state, s_last_result, s_started, s_thread, s_ready,
      s_handler, s_stop_sent, s_metrics, s_reset>>
queueVars ==
    <<entries, index, save, doomed, created, pending, running, all_tests, phase, cancel,
      hold_tx, hold_state, updates, applied, answer, blocked, asked, holds, cancels,
      stopping, failures, crashes>>
servicesVars == <<focus, vars, secondVars, queueVars, apiVars, serverVars>>

ServicesInit ==
    /\ focus \in {"agent", "second", "queue", "api", "server"}
    /\ Init /\ Second!Init /\ Queue!Init
    /\ ApiInit /\ (focus # "api" => api.server = "agent")
    /\ TestServerInit /\ (focus # "server" => mode = "None")

-----------------------------------------------------------------------------
notSecond == <<focus, vars, queueVars, apiVars, serverVars>>
notQueue == <<focus, vars, secondVars, apiVars, serverVars>>
notApi == <<focus, vars, secondVars, queueVars, serverVars>>
notServer == <<focus, vars, secondVars, queueVars, apiVars>>

AgentSteps ==
    focus = "agent" /\ Next /\ UNCHANGED <<focus, secondVars, queueVars, apiVars, serverVars>>
SecondSteps == focus = "second" /\ Second!Next /\ UNCHANGED notSecond
QueueSteps == focus = "queue" /\ Queue!Next /\ UNCHANGED notQueue
ApiSteps == focus = "api" /\ ApiNext /\ UNCHANGED notApi
ServerSteps == focus = "server" /\ TestServerNext /\ UNCHANGED notServer

ServicesNext == AgentSteps \/ SecondSteps \/ QueueSteps \/ ApiSteps \/ ServerSteps

-----------------------------------------------------------------------------
(* Threads are scheduled, sleeps, timers and disk operations end, a test   *)
(* has a finite duration, and the join of an ended thread returns.  No     *)
(* client is assumed to do anything, or to go on waiting.                  *)

(* The thread of a test of the second agent, the handler of a call that    *)
(* was begun, a worker of the test server.                                 *)
Proceeds(i) ==
    \/ /\ focus = "second" /\ i \in 1..3
       /\ \/ Second!EngineReady(i) \/ Second!EngineFailed(i)
          \/ Second!EngineReturn(i) \/ Second!ThreadComplete(i)
       /\ UNCHANGED notSecond
    \/ focus = "api" /\ i \in Calls /\ ApiAnswer(i) /\ UNCHANGED notApi
    \/ /\ focus = "server" /\ i \in Workers
       /\ WorkerBinds(i) \/ WorkerSeesShutdown(i) \/ WorkerEnds(i)
       /\ UNCHANGED notServer

(* The scheduler of the queue; the owner of the test server, in build()    *)
(* and in Drop.                                                            *)
MainProceeds ==
    \/ focus = "queue" /\ Queue!Scheduler /\ UNCHANGED notQueue
    \/ /\ focus = "server"
       /\ AwaitWorker \/ AwaitFails \/ BuildReturns \/ DropReturns
       /\ UNCHANGED notServer

(* The disk of the leader; the reporter of the test server.                *)
BackgroundProceeds ==
    \/ focus = "queue" /\ Queue!Disk /\ UNCHANGED notQueue
    \/ focus = "server" /\ Reporter /\ UNCHANGED notServer

DurationElapses == focus = "queue" /\ Queue!TickOver /\ UNCHANGED notQueue

ServicesSpec ==
    /\ ServicesInit /\ [][ServicesNext]_servicesVars
    /\ \A i \in 1..3 : WF_servicesVars(Proceeds(i))
    /\ WF_servicesVars(MainProceeds) /\ WF_servicesVars(BackgroundProceeds)
    /\ SF_servicesVars(DurationElapses)

-----------------------------------------------------------------------------
(* idle -> running -> idle: an agent whose start succeeded, failed or took *)
(* too long becomes idle again (start_test_async, and the end of the test  *)
(* thread).                                                                *)
SecondReturnsToIdle == Second!ReturnsToIdle

(* Every test that the leader accepts ends, cancelled or not, even when a  *)
(* disk operation of its save fails.                                       *)
QueueDrains == Queue!TestsEnd

(* No service gets stuck: tests, calls and servers come to their end.      *)
ServicesComplete == SecondReturnsToIdle /\ QueueDrains /\ CallsAnswered /\ DropCompletes

=============================================================================
