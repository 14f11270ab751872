---------------------------- MODULE ServiceProofs ---------------------------
(***************************************************************************)
(* Proofs about the services of MCServices, and about the Redis client.    *)
(*                                                                         *)
(* An agent runs one test at a time and its handlers act on that test, for *)
(* any number of tests, dropped connections and panics, provided that      *)
(* every engine becomes ready in time and none fails before it is ready.   *)
(* Without that it is not true: a start that was given up goes on, and the *)
(* thread of a failed start may complete late.                             *)
(*                                                                         *)
(* A test server is handed out with every worker bound, and its reports    *)
(* are true of what the workers counted, for any number of workers.        *)
(*                                                                         *)
(* Every answer that the Redis client takes is that of the command it was  *)
(* sent for, for any number of requests and connections.                   *)
(***************************************************************************)
EXTENDS Agent, TestServer, Redis, DataLemmas, FiniteSetTheorems, TLAPS

StartsWell == MaxTimeouts = 0 /\ MaxFailures = 0

(* The test owns the agent: its thread has not completed and its handler   *)
(* has not given it up.                                                    *)
Owns(t) ==
    /\ thread[t] \in {"starting", "running", "returned", "panicked"}
    /\ handler[t] # "conflict"

(* Strengthening: the owner is the latest test, only a panicked test drops *)
(* its readiness channel, and a pending reset is of a completed test.      *)
OwnerInv ==
    /\ TypeOK
    /\ \A t \in Tests : Owns(t) => t = started /\ state = "Running" /\ command_tx = t /\ shared_state = t
    /\ \A t \in Tests : t > started => thread[t] = "none" /\ handler[t] = "none" /\ ready[t] = "open"
    /\ \A t \in Tests : handler[t] = "waiting" /\ ready[t] = "dropped" => thread[t] = "panicked"
    /\ \A t \in Tests : handler[t] = "conflict" => thread[t] = "panicked"
    /\ \A t \in Tests : thread[t] # "failed"
    /\ \A t \in Tests : reset[t] # {} => reset[t] = {t} /\ thread[t] = "done"
    /\ last_result \in {NoTest, started}

(* The ownership invariant holds initially.                                *)
LEMMA OwnerInit == Init => OwnerInv
  BY AgentAssumption DEF Init, OwnerInv, TypeOK, Owns, Tests, TestOrNone, NoTest

(* Nothing is below a bound of zero.                                       *)
LEMMA NoneBelowZero == ASSUME NEW S, IsFiniteSet(S) PROVE ~(Cardinality(S) < 0)
  BY FS_CardinalityType

(* With both bounds at zero, no start times out and none fails.            *)
LEMMA NoBadStart ==
    ASSUME StartsWell, NEW t \in Tests PROVE ~StartTimedOut(t) /\ ~EngineFailed(t)
  <1>1. IsFiniteSet(Tests)
    BY AgentAssumption, FS_Interval DEF Tests
  <1>2. IsFiniteSet({x \in Tests : handler[x] = "conflict" /\ ready[x] # "dropped"})
    BY <1>1, FS_Subset
  <1>3. IsFiniteSet({x \in Tests : ready[x] = "dropped" /\ thread[x] # "panicked"})
    BY <1>1, FS_Subset
  <1> QED
    BY <1>2, <1>3, NoneBelowZero DEF StartsWell, StartTimedOut, EngineFailed

(* Every step keeps it, one case for each handler and thread step.         *)
LEMMA OwnerStep == ASSUME StartsWell, OwnerInv, [Next]_vars PROVE OwnerInv'
  <1> USE DEF OwnerInv, TypeOK, Owns, Tests, TestOrNone, NoTest
  <1>1. CASE PostTestStart
    <2>1. MaxTests \in Nat /\ started + 1 \in Tests /\ started \in Nat
      BY <1>1, AgentAssumption DEF PostTestStart, Accept
    <2>2. \A t \in Tests : ~Owns(t)
      BY <1>1 DEF PostTestStart, Accept, MayStart
    <2>3. \A t \in Tests : t # started + 1 => thread'[t] = thread[t] /\ handler'[t] = handler[t]
      BY <1>1 DEF PostTestStart
    <2>4. thread'[started + 1] = "starting" /\ handler'[started + 1] = "waiting"
      BY <1>1, <2>1 DEF PostTestStart
    <2>5. thread[started + 1] = "none" /\ ready[started + 1] = "open"
      BY <2>1
    <2>6. TypeOK'
      BY <1>1, <2>1 DEF PostTestStart, Accept, ForgetResult
    <2>7. /\ started' = started + 1 /\ state' = "Running" /\ command_tx' = started + 1
          /\ shared_state' = started + 1 /\ last_result' = 0 /\ ready' = ready /\ reset' = reset
      BY <1>1 DEF PostTestStart, Accept, ForgetResult
    <2>8. \A t \in Tests : Owns(t)' => t = started' /\ state' = "Running" /\ command_tx' = t /\ shared_state' = t
      BY <2>2, <2>3, <2>7
    <2>9. \A t \in Tests : t > started' => thread'[t] = "none" /\ handler'[t] = "none" /\ ready'[t] = "open"
      BY <2>1, <2>3, <2>7
    <2>10. \A t \in Tests : handler'[t] = "waiting" /\ ready'[t] = "dropped" => thread'[t] = "panicked"
      BY <2>1, <2>3, <2>5, <2>7
    <2>11. \A t \in Tests : (handler'[t] = "conflict" => thread'[t] = "panicked") /\ thread'[t] # "failed"
      BY <2>3, <2>4
    <2>12. \A t \in Tests : reset'[t] # {} => reset'[t] = {t} /\ thread'[t] = "done"
      BY <2>3, <2>5, <2>7
    <2>13. last_result' \in {NoTest, started'}
      BY <2>7
    <2> HIDE DEF TypeOK
    <2> QED
      BY <2>6, <2>8, <2>9, <2>10, <2>11, <2>12, <2>13
  <1>2. ASSUME NEW t \in Tests, StartSucceeded(t) \/ StartCancelled(t) PROVE OwnerInv'
    <2>1. CASE StartSucceeded(t)
      BY <2>1 DEF StartSucceeded
    <2>2. CASE StartCancelled(t)
      BY <2>2 DEF StartCancelled
    <2> QED
      BY <1>2, <2>1, <2>2
  <1>3. ASSUME NEW t \in Tests, StartFailed(t) PROVE OwnerInv'
    BY <1>3 DEF StartFailed, GiveUp
  <1>4. CASE PostStop
    BY <1>4 DEF PostStop
  <1>6. ASSUME NEW t \in Tests, EngineReady(t) PROVE OwnerInv'
    BY <1>6 DEF EngineReady
  <1>7. ASSUME NEW t \in Tests, EngineTick(t) PROVE OwnerInv'
    BY <1>7 DEF EngineTick
  <1>8. ASSUME NEW t \in Tests, EngineReturn(t) PROVE OwnerInv'
    BY <1>8 DEF EngineReturn
  <1>9. ASSUME NEW t \in Tests, ThreadPanic(t) PROVE OwnerInv'
    BY <1>9 DEF ThreadPanic, Live
  <1>10. ASSUME NEW t \in Tests, ThreadComplete(t) PROVE OwnerInv'
    BY <1>10 DEF ThreadComplete, BecomeIdle
  <1>11. ASSUME NEW t \in Tests, DeferredReset(t) PROVE OwnerInv'
    <2>1. metrics' \in [TestOrNone -> BOOLEAN]
      BY <1>11 DEF DeferredReset
    <2> QED
      BY <1>11, <2>1 DEF DeferredReset
  <1>12. CASE UNCHANGED vars
    BY <1>12 DEF vars
  <1>13. CASE SpawnFailed
    <2>1. started + 1 \in Tests /\ started \in Nat
      BY <1>13, AgentAssumption DEF SpawnFailed, Accept
    <2>2. \A t \in Tests : ~Owns(t)
      BY <1>13 DEF SpawnFailed, Accept, MayStart
    <2>3. \A t \in Tests : t # started + 1 => thread'[t] = thread[t] /\ handler'[t] = handler[t] /\ ready'[t] = ready[t]
      BY <1>13 DEF SpawnFailed
    <2>4. thread'[started + 1] = "panicked" /\ handler'[started + 1] = "conflict"
      BY <1>13, <2>1 DEF SpawnFailed
    <2>5. thread[started + 1] = "none"
      BY <2>1
    <2>6. TypeOK'
      BY <1>13, <2>1 DEF SpawnFailed, Accept, ForgetResult
    <2>7. started' = started + 1 /\ last_result' = 0 /\ reset' = reset
      BY <1>13 DEF SpawnFailed, Accept, ForgetResult
    <2>8. \A t \in Tests : ~Owns(t)'
      BY <2>2, <2>3, <2>4
    <2>9. \A t \in Tests : t > started' => thread'[t] = "none" /\ handler'[t] = "none" /\ ready'[t] = "open"
      BY <2>1, <2>3, <2>7
    <2>10. \A t \in Tests : handler'[t] = "waiting" /\ ready'[t] = "dropped" => thread'[t] = "panicked"
      BY <2>3, <2>4
    <2>11. \A t \in Tests : (handler'[t] = "conflict" => thread'[t] = "panicked") /\ thread'[t] # "failed"
      BY <2>3, <2>4
    <2>12. \A t \in Tests : reset'[t] # {} => reset'[t] = {t} /\ thread'[t] = "done"
      BY <2>3, <2>5, <2>7
    <2> HIDE DEF TypeOK
    <2> QED
      BY <2>6, <2>7, <2>8, <2>9, <2>10, <2>11, <2>12
  <1> QED
    BY <1>1, <1>2, <1>3, <1>4, <1>6, <1>7, <1>8, <1>9, <1>10, <1>11, <1>12, <1>13, NoBadStart, Zenon
    DEF Next, Handler, Thread

(* Ownership gives the properties that the runs check.                     *)
LEMMA OwnerImplies == OwnerInv => OneTestInControl
  <1> SUFFICES ASSUME OwnerInv PROVE OneTest /\ ControlReachesTest
    BY DEF OwnerInv, OneTestInControl, ResultIsLatest
  <1>1. \A t \in Tests : Live(t) => Owns(t)
    BY DEF OwnerInv, Live, Owns
  <1> QED
    BY <1>1 DEF OwnerInv, OneTest, ControlReachesTest

(* While every engine starts in time, an agent runs one test at a time and *)
(* its handlers act on that test: start_test_spawn, start_test_async and   *)
(* the completion of the test thread.                                      *)
THEOREM AgentControl ==
    ASSUME StartsWell PROVE Spec => []OneTestInControl
  <1>1. OwnerInv /\ [Next]_vars => OwnerInv'
    BY OwnerStep
  <1> QED
    BY <1>1, OwnerInit, OwnerImplies, PTL DEF Spec

(* The deferred reset of a completed test never clears the metrics of a    *)
(* running one.                                                            *)
THEOREM AgentMetricsKept == ASSUME StartsWell PROVE Spec => LiveMetricsKept
  <1>1. ASSUME OwnerInv, [Next]_vars
        PROVE  [\A t \in Tests : thread[t] = "running" /\ metrics[t] => metrics'[t]]_vars
    <2> SUFFICES ASSUME Next, NEW u \in Tests, thread[u] = "running", metrics[u] PROVE metrics'[u]
      BY <1>1
    <2> USE <1>1 DEF OwnerInv, TypeOK, TestOrNone
    <2>1. ASSUME NEW t \in Tests, DeferredReset(t) PROVE metrics'[u]
      BY <2>1 DEF DeferredReset, ResetTarget
    <2>2. ASSUME NEW t \in Tests, Handler(t) PROVE metrics'[u]
      BY <2>2 DEF Handler, StartSucceeded, StartFailed, StartTimedOut, StartCancelled, GiveUp
    <2>3. ASSUME NEW t \in Tests, Thread(t) PROVE metrics'[u]
      BY <2>3 DEF Thread, EngineReady, EngineFailed, EngineTick, EngineReturn, ThreadPanic, ThreadComplete
    <2>4. CASE PostTestStart \/ SpawnFailed \/ PostStop
      BY <2>4 DEF PostTestStart, SpawnFailed, Accept, PostStop
    <2> QED
      BY <2>1, <2>2, <2>3, <2>4 DEF Next
  <1>2. OwnerInv /\ [Next]_vars => OwnerInv'
    BY OwnerStep
  <1> QED
    BY <1>1, <1>2, OwnerInit, PTL DEF Spec, LiveMetricsKept

-----------------------------------------------------------------------------
(* The test server.  Counters of the workers, and what the reporter keeps. *)
Counter == [accepted : Nat, closed : Nat]
Counters == [Workers -> Counter]

(* What a counter that was written down field by field holds.              *)
LEMMA CounterFields ==
    \A r, x, y : r = [accepted |-> x, closed |-> y] => r.accepted = x /\ r.closed = y
  OBVIOUS
ReaderType ==
    [pc : {"unborn", "baseline", "sleeping", "reading", "final", "ended"}, next : Nat \ {0}, cur : Counters,
     prev : Counters, base : Counters, printed : Counters, reports : Nat, open : [Workers -> Nat], last : BOOLEAN]

(* Every worker that is bound has sent its message, and build() takes one  *)
(* for each worker.                                                        *)
BoundStates == {"serving", "draining", "ended"}
Bound == {w \in Workers : workers[w] \in BoundStates}
ReadyOK ==
    /\ workers \in [Workers -> BoundStates \cup {"starting", "panicked"}]
    /\ readiness \in Nat /\ awaited \in Nat
    /\ readiness + awaited = Cardinality(Bound)
    /\ server \in {"up", "dropping", "down"} => awaited = NumWorkers
    /\ server = "building" => rep.pc = "unborn"

(* What a reader p that has loaded some counters of the workers c knows:   *)
(* never more than there is, since its last snapshot never less, and when  *)
(* accepted was loaded first, no more open connections than there were.    *)
Loaded(p, c) ==
    \A w \in Workers :
       /\ p.cur[w].accepted <= c[w].accepted /\ p.cur[w].closed <= c[w].closed
       /\ p.prev[w].accepted <= c[w].accepted /\ p.prev[w].closed <= c[w].closed
       /\ p.next >= 2 * w => /\ p.prev[w].accepted <= p.cur[w].accepted
                             /\ p.cur[w].accepted <= c[w].closed + p.open[w]
       /\ p.next >= 2 * w + 1 => /\ p.prev[w].closed <= p.cur[w].closed
                                 /\ p.cur[w].accepted <= p.cur[w].closed + p.open[w]

Printed(p) ==
    /\ Plus(p.base, p.printed) = p.prev
    /\ p.pc \in {"unborn", "baseline"} => p.printed = Zeros
    /\ p.last => p.next > 2 * NumWorkers /\ p.pc = "ended"

ReadsOK ==
    /\ counters \in Counters /\ (\A w \in Workers : counters[w].closed <= counters[w].accepted)
    /\ rep \in ReaderType /\ Loaded(rep, counters) /\ Printed(rep)

ServerInv == ReadyOK /\ ReadsOK

(* The workers are as many as there are.                                   *)
LEMMA WorkersFinite == IsFiniteSet(Workers) /\ Cardinality(Workers) = NumWorkers /\ NumWorkers \in Nat
  <1>1. NumWorkers \in Nat \ {0}
    BY TestServerAssumption
  <1>2. 1 \in Int /\ NumWorkers \in Int
    BY <1>1
  <1>3. /\ IsFiniteSet(1..NumWorkers)
        /\ Cardinality(1..NumWorkers) = IF 1 > NumWorkers THEN 0 ELSE NumWorkers - 1 + 1
    BY <1>2, FS_Interval, Zenon
  <1> QED
    BY <1>1, <1>3 DEF Workers

(* A server that was handed out has every worker bound.                    *)
LEMMA AllBound == ReadyOK => BuiltIsBound
  <1> SUFFICES ASSUME ReadyOK, server \in {"up", "dropping", "down"}
               PROVE  \A w \in Workers : workers[w] \notin {"starting", "panicked"}
    BY Zenon DEF BuiltIsBound
  <1>1. Bound \in SUBSET Workers /\ IsFiniteSet(Workers)
    BY WorkersFinite, Zenon DEF Bound
  <1>2. IsFiniteSet(Bound) /\ Cardinality(Bound) <= Cardinality(Workers)
    BY <1>1, FS_Subset, Zenon
  <1>3. Cardinality(Bound) = Cardinality(Workers)
    <2>1. readiness + NumWorkers = Cardinality(Bound) /\ readiness \in Nat
      BY Zenon DEF ReadyOK
    <2> QED
      BY <1>2, <2>1, WorkersFinite
  <1>4. Bound = Workers
    BY <1>1, <1>3, FS_Subset, Zenon
  <1>5. \A w \in Workers : workers[w] \in BoundStates
    BY <1>4, Zenon DEF Bound
  <1>6. \A s \in BoundStates : s \notin {"starting", "panicked"}
    BY DEF BoundStates
  <1> QED
    BY <1>5, <1>6, Zenon

(* Steps that bind nobody.                                                 *)
LEMMA BoundStays ==
    ASSUME ReadyOK, NEW w \in Workers, NEW s \in BoundStates, workers[w] \in BoundStates,
           workers' = [workers EXCEPT ![w] = s], UNCHANGED <<server, readiness, awaited, rep>>
    PROVE  ReadyOK'
  <1>1. /\ workers' \in [Workers -> BoundStates \cup {"starting", "panicked"}] /\ workers'[w] = s
        /\ \A u \in Workers : u # w => workers'[u] = workers[u]
    BY DEF ReadyOK
  <1>2. Bound' = Bound
    BY <1>1, Zenon DEF Bound
  <1>3. server' = server /\ readiness' = readiness /\ awaited' = awaited /\ rep' = rep
    OBVIOUS
  <1> QED
    BY <1>1, <1>2, <1>3, Zenon DEF ReadyOK

(* A worker binds its listeners, or panics.                                *)
LEMMA BindsReady == ASSUME ReadyOK, NEW w \in Workers, WorkerBinds(w) PROVE ReadyOK'
  <1>1. /\ workers \in [Workers -> BoundStates \cup {"starting", "panicked"}] /\ workers[w] = "starting"
        /\ readiness \in Nat /\ awaited \in Nat /\ readiness + awaited = Cardinality(Bound)
    BY Zenon DEF ReadyOK, WorkerBinds
  <1>2. server' = server /\ awaited' = awaited /\ rep' = rep
    BY DEF WorkerBinds
  <1>3. "starting" \notin BoundStates /\ "panicked" \notin BoundStates /\ "serving" \in BoundStates
    BY DEF BoundStates
  <1>4. CASE workers' = [workers EXCEPT ![w] = "serving"] /\ readiness' = readiness + 1
    <2>1. /\ workers' \in [Workers -> BoundStates \cup {"starting", "panicked"}] /\ workers'[w] = "serving"
          /\ \A u \in Workers : u # w => workers'[u] = workers[u]
      BY <1>1, <1>3, <1>4, Zenon
    <2>2. Bound' = Bound \cup {w} /\ w \notin Bound
      BY <1>1, <1>3, <2>1, Zenon DEF Bound
    <2>3. IsFiniteSet(Bound)
      <3>1. Bound \in SUBSET Workers
        BY Zenon DEF Bound
      <3> QED
        BY <3>1, WorkersFinite, FS_Subset, Zenon
    <2>4. Cardinality(Bound') = Cardinality(Bound) + 1
      BY <2>2, <2>3, FS_AddElement, Zenon
    <2>5. readiness' \in Nat /\ readiness' + awaited = Cardinality(Bound')
      BY <1>1, <1>4, <2>4
    <2> QED
      BY <1>1, <1>2, <2>1, <2>5, Zenon DEF ReadyOK
  <1>5. CASE workers' = [workers EXCEPT ![w] = "panicked"] /\ readiness' = readiness
    <2>1. /\ workers' \in [Workers -> BoundStates \cup {"starting", "panicked"}] /\ workers'[w] = "panicked"
          /\ \A u \in Workers : u # w => workers'[u] = workers[u]
      BY <1>1, <1>5, Zenon
    <2>2. Bound' = Bound
      BY <1>1, <1>3, <2>1, Zenon DEF Bound
    <2> QED
      BY <1>1, <1>2, <1>5, <2>1, <2>2, Zenon DEF ReadyOK
  <1> QED
    BY <1>4, <1>5, Zenon DEF WorkerBinds


(* The steps of build(), of Drop and of the reporter.                      *)
LEMMA ReadyKept ==
    ASSUME ReadyOK, AwaitWorker \/ AwaitFails \/ BuildReturns \/ DropBegins \/ DropReturns \/ Reporter
    PROVE  ReadyOK'
  <1>1. /\ workers \in [Workers -> BoundStates \cup {"starting", "panicked"}]
        /\ readiness \in Nat /\ awaited \in Nat /\ readiness + awaited = Cardinality(Bound)
        /\ (server \in {"up", "dropping", "down"} => awaited = NumWorkers) /\ (server = "building" => rep.pc = "unborn")
    BY Zenon DEF ReadyOK
  <1>2. workers' = workers
    BY DEF AwaitWorker, AwaitFails, BuildReturns, DropBegins, DropReturns, Reporter
  <1>3. Bound' = Bound
    BY <1>2 DEF Bound
  <1>4. CASE AwaitWorker
    <2>1. server' = server /\ server = "building" /\ rep' = rep
      BY <1>4 DEF AwaitWorker
    <2>2. readiness' \in Nat /\ awaited' \in Nat /\ readiness' + awaited' = Cardinality(Bound)
      BY <1>1, <1>4 DEF AwaitWorker
    <2>3. server' \notin {"up", "dropping", "down"}
      BY <2>1
    <2> QED
      BY <1>1, <1>2, <1>3, <2>1, <2>2, <2>3, Zenon DEF ReadyOK
  <1>5. CASE AwaitFails
    <2>1. server' \notin {"up", "dropping", "down"} /\ server' # "building" /\ readiness' = readiness /\ awaited' = awaited
      BY <1>5 DEF AwaitFails
    <2> QED
      BY <1>1, <1>2, <1>3, <2>1, Zenon DEF ReadyOK
  <1>6. CASE BuildReturns
    <2>1. server' # "building" /\ readiness' = readiness /\ awaited' = awaited /\ awaited = NumWorkers
      BY <1>6 DEF BuildReturns, AwaitAll
    <2> QED
      BY <1>1, <1>2, <1>3, <2>1, Zenon DEF ReadyOK
  <1>7. CASE DropBegins \/ DropReturns
    <2>1. server' # "building" /\ server \in {"up", "dropping"} /\ readiness' = readiness /\ awaited' = awaited
      BY <1>7 DEF DropBegins, DropReturns
    <2>2. awaited = NumWorkers
      BY <1>1, <2>1
    <2> QED
      BY <1>1, <1>2, <1>3, <2>1, <2>2, Zenon DEF ReadyOK
  <1>8. CASE Reporter
    <2>1. server' = server /\ readiness' = readiness /\ awaited' = awaited
      BY <1>8 DEF Reporter
    <2>2. rep.pc # "unborn"
      BY <1>8 DEF Reporter, Baseline, ReporterWakes, run_reporter, FinalReport
    <2> QED
      BY <1>1, <1>2, <1>3, <2>1, <2>2, Zenon DEF ReadyOK
  <1> QED
    BY <1>4, <1>5, <1>6, <1>7, <1>8, Zenon

(* A counter grows by one.                                                 *)
LEMMA CountersGrow ==
    ASSUME ReadsOK, NEW c \in Counters, \A w \in Workers : c[w].closed <= c[w].accepted,
           \A w \in Workers : counters[w].accepted <= c[w].accepted /\ counters[w].closed <= c[w].closed,
           counters' = c, rep' = rep
    PROVE  ReadsOK'
  <1>1. counters \in Counters /\ rep \in ReaderType /\ Loaded(rep, counters) /\ Printed(rep)
    BY Zenon DEF ReadsOK
  <1>2. /\ rep.cur \in Counters /\ rep.prev \in Counters /\ rep.open \in [Workers -> Nat] /\ rep.next \in Nat
    BY <1>1 DEF ReaderType
  <1>3. Loaded(rep, c)
    <2> SUFFICES ASSUME NEW w \in Workers
                 PROVE  /\ rep.cur[w].accepted <= c[w].accepted /\ rep.cur[w].closed <= c[w].closed
                        /\ rep.prev[w].accepted <= c[w].accepted /\ rep.prev[w].closed <= c[w].closed
                        /\ rep.next >= 2 * w => /\ rep.prev[w].accepted <= rep.cur[w].accepted
                                                /\ rep.cur[w].accepted <= c[w].closed + rep.open[w]
                        /\ rep.next >= 2 * w + 1 => /\ rep.prev[w].closed <= rep.cur[w].closed
                                                    /\ rep.cur[w].accepted <= rep.cur[w].closed + rep.open[w]
      BY Zenon DEF Loaded
    <2>1. /\ rep.cur[w].accepted <= counters[w].accepted /\ rep.cur[w].closed <= counters[w].closed
          /\ rep.prev[w].accepted <= counters[w].accepted /\ rep.prev[w].closed <= counters[w].closed
          /\ rep.next >= 2 * w => /\ rep.prev[w].accepted <= rep.cur[w].accepted
                                  /\ rep.cur[w].accepted <= counters[w].closed + rep.open[w]
          /\ rep.next >= 2 * w + 1 => /\ rep.prev[w].closed <= rep.cur[w].closed
                                      /\ rep.cur[w].accepted <= rep.cur[w].closed + rep.open[w]
      BY <1>1, Zenon DEF Loaded
    <2> DEFINE ca == counters[w].accepted
               cc == counters[w].closed
               na == c[w].accepted
               nc == c[w].closed
               ra == rep.cur[w].accepted
               rc == rep.cur[w].closed
               pa == rep.prev[w].accepted
               pc == rep.prev[w].closed
               o == rep.open[w]
    <2>2. /\ ca \in Nat /\ cc \in Nat /\ na \in Nat /\ nc \in Nat /\ ra \in Nat /\ rc \in Nat /\ pa \in Nat /\ pc \in Nat
          /\ o \in Nat
      BY <1>1, <1>2 DEF Counters, Counter
    <2>3. ca <= na /\ cc <= nc
      BY Zenon
    <2> HIDE DEF ca, cc, na, nc, ra, rc, pa, pc, o
    <2>4. ra <= ca /\ rc <= cc /\ pa <= ca /\ pc <= cc
      BY <2>1, Zenon DEF ca, cc, ra, rc, pa, pc
    <2>5. ra <= na /\ rc <= nc /\ pa <= na /\ pc <= nc
      BY <2>2, <2>3, <2>4
    <2>6. ra <= cc + o => ra <= nc + o
      BY <2>2, <2>3
    <2> QED
      BY <2>1, <2>5, <2>6, Zenon DEF ca, cc, na, nc, ra, rc, pa, pc, o
  <1> QED
    BY <1>1, <1>3, Zenon DEF ReadsOK

(* A connection is accepted, or closes.                                    *)
LEMMA WorkerCounts ==
    ASSUME ReadsOK, NEW w \in Workers, AcceptsTcp(w) \/ ConnectionCloses(w)
    PROVE  ReadsOK'
  <1> DEFINE a == counters[w].accepted
             b == counters[w].closed
  <1>1. counters \in Counters /\ (\A u \in Workers : counters[u].closed <= counters[u].accepted) /\ rep' = rep
    BY DEF ReadsOK, AcceptsTcp, ConnectionCloses
  <1>2. a \in Nat /\ b \in Nat /\ b <= a /\ counters[w] = [accepted |-> a, closed |-> b]
    BY <1>1 DEF Counters, Counter
  <1>3. \A u \in Workers : counters[u].accepted \in Nat /\ counters[u].closed \in Nat
    BY <1>1 DEF Counters, Counter
  <1>4. ASSUME NEW x \in Nat, NEW y \in Nat, a <= x, b <= y, y <= x,
               counters' = [counters EXCEPT ![w] = [accepted |-> x, closed |-> y]]
        PROVE  ReadsOK'
    <2> DEFINE n == [accepted |-> x, closed |-> y]
    <2>1. n \in Counter /\ n.accepted = x /\ n.closed = y
      BY DEF Counter
    <2> HIDE DEF n
    <2>2. counters' = [counters EXCEPT ![w] = n]
      BY <1>4, Zenon DEF n
    <2>3. counters' \in Counters /\ counters'[w] = n /\ \A u \in Workers : u # w => counters'[u] = counters[u]
      BY <1>1, <2>1, <2>2, Zenon DEF Counters
    <2>4. \A u \in Workers : counters'[u].closed <= counters'[u].accepted
      BY <1>1, <1>4, <2>1, <2>3, Zenon
    <2>5. \A u \in Workers : counters[u].accepted <= counters'[u].accepted /\ counters[u].closed <= counters'[u].closed
      <3> SUFFICES ASSUME NEW u \in Workers
                   PROVE  counters[u].accepted <= counters'[u].accepted /\ counters[u].closed <= counters'[u].closed
        BY Zenon
      <3>1. CASE u = w
        BY <1>4, <2>1, <2>3, <3>1, Zenon
      <3>2. CASE u # w
        BY <1>3, <2>3, <3>2
      <3> QED
        BY <3>1, <3>2
    <2> QED
      BY <1>1, <2>3, <2>4, <2>5, CountersGrow
  <1>5. CASE AcceptsTcp(w)
    <2>1. counters' = [counters EXCEPT ![w].accepted = @ + 1]
      BY <1>5, Zenon DEF AcceptsTcp
    <2> DEFINE n == [counters[w] EXCEPT !.accepted = a + 1]
    <2>4. counters' = [counters EXCEPT ![w] = n]
      BY <2>1
    <2>5. n = [accepted |-> a + 1, closed |-> b]
      BY <1>2
    <2> HIDE DEF n
    <2>2. counters' = [counters EXCEPT ![w] = [accepted |-> a + 1, closed |-> b]]
      BY <2>4, <2>5, Zenon
    <2>3. a + 1 \in Nat /\ a <= a + 1 /\ b <= b /\ b <= a + 1
      BY <1>2
    <2> HIDE DEF a, b
    <2> QED
      BY <1>2, <1>4, <2>2, <2>3, Zenon
  <1>6. CASE ConnectionCloses(w)
    <2>1. counters' = [counters EXCEPT ![w].closed = @ + 1] /\ b < a
      BY <1>6, Zenon DEF ConnectionCloses
    <2> DEFINE n == [counters[w] EXCEPT !.closed = b + 1]
    <2>4. counters' = [counters EXCEPT ![w] = n]
      BY <2>1
    <2>5. n = [accepted |-> a, closed |-> b + 1]
      BY <1>2
    <2> HIDE DEF n
    <2>2. counters' = [counters EXCEPT ![w] = [accepted |-> a, closed |-> b + 1]]
      BY <2>4, <2>5, Zenon
    <2>3. b + 1 \in Nat /\ b <= b + 1 /\ a <= a /\ b + 1 <= a
      BY <1>2, <2>1
    <2> HIDE DEF a, b
    <2> QED
      BY <1>2, <1>4, <2>2, <2>3, Zenon
  <1> QED
    BY <1>5, <1>6

(* What a load leaves in the reader p when it stores n for the worker w.   *)
Stored(p, q, w, n, o) ==
    /\ q \in ReaderType /\ q.next = p.next + 1
    /\ q.cur = [p.cur EXCEPT ![w] = n] /\ q.open = [p.open EXCEPT ![w] = o]
    /\ q.prev = p.prev /\ q.base = p.base /\ q.printed = p.printed /\ q.pc = p.pc /\ q.last = p.last

(* The load numbered k is one of the worker (k + 1) \div 2.                *)
LEMMA LoadNumbers ==
    ASSUME NEW k \in Nat \ {0}, k <= 2 * NumWorkers
    PROVE  LET w == (k + 1) \div 2
           IN  w \in Workers /\ (LoadsAccepted(k) => k = 2 * w - 1) /\ (~LoadsAccepted(k) => k = 2 * w)
  <1>1. NumWorkers \in Nat \ {0}
    BY TestServerAssumption
  <1>2. k % 2 \in {0, 1} /\ k = 2 * (k \div 2) + (k % 2) /\ k \div 2 \in Nat
    OBVIOUS
  <1>3. (k + 1) \div 2 \in Nat /\ (k + 1) % 2 \in {0, 1} /\ k + 1 = 2 * ((k + 1) \div 2) + ((k + 1) % 2)
    OBVIOUS
  <1> QED
    BY <1>1, <1>2, <1>3 DEF LoadsAccepted, Workers

(* A load of an accepted counter stores it and what is open.               *)
LEMMA AcceptedStored ==
    ASSUME NEW p \in ReaderType, NEW w \in Workers, NEW a \in Nat, NEW o \in Nat
    PROVE  Stored(p, [p EXCEPT !.next = @ + 1, !.cur[w].accepted = a, !.open[w] = o], w,
                  [accepted |-> a, closed |-> p.cur[w].closed], o)
  <1> DEFINE q == [p EXCEPT !.next = @ + 1, !.cur[w].accepted = a, !.open[w] = o]
             n == [accepted |-> a, closed |-> p.cur[w].closed]
             m == [p.cur[w] EXCEPT !.accepted = a]
  <1>1. p.cur \in Counters /\ p.open \in [Workers -> Nat] /\ p.next + 1 \in Nat \ {0}
    BY DEF ReaderType
  <1>2. p.cur[w] \in Counter
    BY <1>1 DEF Counters
  <1>3. m = n /\ n \in Counter
    BY <1>2 DEF Counter
  <1> DEFINE r == [p.cur EXCEPT ![w] = m]
             s == [p.open EXCEPT ![w] = o]
             z == p.next + 1
  <1>4. r \in Counters /\ r = [p.cur EXCEPT ![w] = n]
    <2> HIDE DEF m, n
    <2> QED
      BY <1>1, <1>3 DEF Counters
  <1>5. s \in [Workers -> Nat] /\ z \in Nat \ {0}
    BY <1>1
  <1>6. q = [p EXCEPT !.next = z, !.cur = r, !.open = s]
    OBVIOUS
  <1> HIDE DEF r, s, z, m, n
  <1>7. /\ [p EXCEPT !.next = z, !.cur = r, !.open = s] \in ReaderType
        /\ [p EXCEPT !.next = z, !.cur = r, !.open = s].next = z
        /\ [p EXCEPT !.next = z, !.cur = r, !.open = s].cur = r
        /\ [p EXCEPT !.next = z, !.cur = r, !.open = s].open = s
        /\ [p EXCEPT !.next = z, !.cur = r, !.open = s].prev = p.prev
        /\ [p EXCEPT !.next = z, !.cur = r, !.open = s].base = p.base
        /\ [p EXCEPT !.next = z, !.cur = r, !.open = s].printed = p.printed
        /\ [p EXCEPT !.next = z, !.cur = r, !.open = s].pc = p.pc
        /\ [p EXCEPT !.next = z, !.cur = r, !.open = s].last = p.last
    BY <1>4, <1>5, Zenon DEF ReaderType
  <1> HIDE DEF q
  <1>8. Stored(p, q, w, n, o)
    BY <1>4, <1>6, <1>7, Zenon DEF Stored, s, z
  <1> QED
    BY <1>8, Zenon DEF q, n

(* A load of a closed counter stores it.                                   *)
LEMMA ClosedStored ==
    ASSUME NEW p \in ReaderType, NEW w \in Workers, NEW c \in Nat
    PROVE  Stored(p, [p EXCEPT !.next = @ + 1, !.cur[w].closed = c], w,
                  [accepted |-> p.cur[w].accepted, closed |-> c], p.open[w])
  <1> DEFINE q == [p EXCEPT !.next = @ + 1, !.cur[w].closed = c]
             n == [accepted |-> p.cur[w].accepted, closed |-> c]
             m == [p.cur[w] EXCEPT !.closed = c]
  <1>1. p.cur \in Counters /\ p.open \in [Workers -> Nat] /\ p.next + 1 \in Nat \ {0}
    BY DEF ReaderType
  <1>2. p.cur[w] \in Counter
    BY <1>1 DEF Counters
  <1>3. m = n /\ n \in Counter
    BY <1>2 DEF Counter
  <1> DEFINE r == [p.cur EXCEPT ![w] = m]
             z == p.next + 1
  <1>4. r \in Counters /\ r = [p.cur EXCEPT ![w] = n]
    <2> HIDE DEF m, n
    <2> QED
      BY <1>1, <1>3 DEF Counters
  <1>5. z \in Nat \ {0}
    BY <1>1
  <1>6. q = [p EXCEPT !.next = z, !.cur = r]
    OBVIOUS
  <1>9. p.open = [p.open EXCEPT ![w] = p.open[w]]
    BY <1>1
  <1> HIDE DEF r, z, m, n
  <1>7. /\ [p EXCEPT !.next = z, !.cur = r] \in ReaderType
        /\ [p EXCEPT !.next = z, !.cur = r].next = z
        /\ [p EXCEPT !.next = z, !.cur = r].cur = r
        /\ [p EXCEPT !.next = z, !.cur = r].open = p.open
        /\ [p EXCEPT !.next = z, !.cur = r].prev = p.prev
        /\ [p EXCEPT !.next = z, !.cur = r].base = p.base
        /\ [p EXCEPT !.next = z, !.cur = r].printed = p.printed
        /\ [p EXCEPT !.next = z, !.cur = r].pc = p.pc
        /\ [p EXCEPT !.next = z, !.cur = r].last = p.last
    BY <1>4, <1>5, Zenon DEF ReaderType
  <1> HIDE DEF q
  <1>8. Stored(p, q, w, n, p.open[w])
    BY <1>4, <1>6, <1>7, <1>9, Zenon DEF Stored, z
  <1> QED
    BY <1>8, Zenon DEF q, n

(* One load of a counter of c: of accepted, or of closed.                  *)
Loads(p, q, w, n, o, c) ==
    /\ p \in ReaderType /\ Loaded(p, c) /\ Printed(p) /\ p.pc # "ended"
    /\ c \in Counters /\ w \in Workers /\ n \in Counter /\ o \in Nat /\ c[w].closed <= c[w].accepted
    /\ Stored(p, q, w, n, o)
    /\ \/ p.next = 2 * w - 1 /\ n = [accepted |-> c[w].accepted, closed |-> p.cur[w].closed]
          /\ o = c[w].accepted - c[w].closed
       \/ p.next = 2 * w /\ n = [accepted |-> p.cur[w].accepted, closed |-> c[w].closed] /\ o = p.open[w]

(* A load keeps what the reader knows.                                     *)
LEMMA LoadKeeps ==
    ASSUME NEW p, NEW q, NEW w, NEW n, NEW o, NEW c, Loads(p, q, w, n, o, c)
    PROVE  Loaded(q, c) /\ Printed(q)
  <1> p \in ReaderType /\ w \in Workers /\ n \in Counter /\ o \in Nat /\ c \in Counters
    BY Zenon DEF Loads
  <1> /\ c[w].closed <= c[w].accepted /\ Loaded(p, c) /\ Printed(p) /\ p.pc # "ended" /\ Stored(p, q, w, n, o)
      /\ \/ p.next = 2 * w - 1 /\ n = [accepted |-> c[w].accepted, closed |-> p.cur[w].closed]
            /\ o = c[w].accepted - c[w].closed
         \/ p.next = 2 * w /\ n = [accepted |-> p.cur[w].accepted, closed |-> c[w].closed] /\ o = p.open[w]
    BY Zenon DEF Loads
  <1>1. /\ q.next = p.next + 1 /\ q.cur = [p.cur EXCEPT ![w] = n] /\ q.open = [p.open EXCEPT ![w] = o]
        /\ q.prev = p.prev /\ q.base = p.base /\ q.printed = p.printed /\ q.pc = p.pc /\ q.last = p.last
    BY Zenon DEF Stored
  <1>2. Printed(q)
    BY <1>1, Zenon DEF Printed
  <1>3. p.cur \in Counters /\ p.prev \in Counters /\ p.open \in [Workers -> Nat] /\ p.next \in Nat
    BY DEF ReaderType
  <1>4. /\ q.cur[w] = n /\ q.open[w] = o
        /\ \A u \in Workers : u # w => q.cur[u] = p.cur[u] /\ q.open[u] = p.open[u]
    BY <1>1, <1>3, Zenon DEF Counters
  <1>5. Loaded(q, c)
    <2> SUFFICES ASSUME NEW u \in Workers
                 PROVE  /\ q.cur[u].accepted <= c[u].accepted /\ q.cur[u].closed <= c[u].closed
                        /\ q.prev[u].accepted <= c[u].accepted /\ q.prev[u].closed <= c[u].closed
                        /\ q.next >= 2 * u => /\ q.prev[u].accepted <= q.cur[u].accepted
                                              /\ q.cur[u].accepted <= c[u].closed + q.open[u]
                        /\ q.next >= 2 * u + 1 => /\ q.prev[u].closed <= q.cur[u].closed
                                                  /\ q.cur[u].accepted <= q.cur[u].closed + q.open[u]
      BY Zenon DEF Loaded
    <2> DEFINE ca == c[u].accepted
               cc == c[u].closed
               ra == p.cur[u].accepted
               rc == p.cur[u].closed
               pa == p.prev[u].accepted
               pc == p.prev[u].closed
               b == p.open[u]
    <2>1. /\ ra <= ca /\ rc <= cc /\ pa <= ca /\ pc <= cc
          /\ p.next >= 2 * u => pa <= ra /\ ra <= cc + b
          /\ p.next >= 2 * u + 1 => pc <= rc /\ ra <= rc + b
      BY Zenon DEF Loaded
    <2>2. ca \in Nat /\ cc \in Nat /\ ra \in Nat /\ rc \in Nat /\ pa \in Nat /\ pc \in Nat /\ b \in Nat
      BY <1>3 DEF Counters, Counter
    <2>3. u \in Nat /\ w \in Nat
      BY DEF Workers
    <2> HIDE DEF ca, cc, ra, rc, pa, pc, b
    <2>4. CASE u # w
      <3>1. p.next + 1 >= 2 * u => p.next >= 2 * u
        <4>1. p.next = 2 * w - 1 \/ p.next = 2 * w
          BY Zenon
        <4> QED
          BY <1>3, <2>3, <2>4, <4>1
      <3>2. p.next + 1 >= 2 * u + 1 => p.next >= 2 * u + 1
        <4>1. p.next = 2 * w - 1 \/ p.next = 2 * w
          BY Zenon
        <4> QED
          BY <1>3, <2>3, <2>4, <4>1
      <3> QED
        BY <1>1, <1>4, <2>1, <2>4, <3>1, <3>2, Zenon DEF ca, cc, ra, rc, pa, pc, b
    <2>5. CASE u = w /\ p.next = 2 * w - 1
      <3>1. n = [accepted |-> c[w].accepted, closed |-> p.cur[w].closed] /\ o = c[w].accepted - c[w].closed
        <4>1. 2 * w - 1 # 2 * w
          BY <2>3
        <4> QED
          BY <2>5, <4>1, Zenon
      <3>2. q.cur[u].accepted = ca /\ q.cur[u].closed = rc
        <4>1. q.cur[u] = n
          BY <1>4, <2>5, Zenon
        <4>2. n.accepted = c[w].accepted /\ n.closed = p.cur[w].closed
          BY <3>1, CounterFields, Zenon
        <4> QED
          BY <2>5, <4>1, <4>2, Zenon DEF ca, rc
      <3>3. q.open[u] = ca - cc
        BY <1>4, <2>5, <3>1, Zenon DEF ca, cc
      <3>4. ca <= ca /\ rc <= cc /\ pa <= ca /\ pc <= cc /\ ca <= cc + (ca - cc)
        BY <2>1, <2>2, Counting, Zenon
      <3>5. ~(q.next >= 2 * u + 1)
        <4>1. \A x \in Nat : ~((2 * x - 1) + 1 >= 2 * x + 1)
          OBVIOUS
        <4>2. q.next = (2 * u - 1) + 1
          BY <1>1, <2>5, Zenon
        <4> QED
          BY <2>3, <4>1, <4>2, Zenon
      <3>6. q.prev[u].accepted = pa /\ q.prev[u].closed = pc
        BY <1>1, Zenon DEF pa, pc
      <3> QED
        BY <3>2, <3>3, <3>4, <3>5, <3>6, Zenon DEF ca, cc
    <2>6. CASE u = w /\ p.next = 2 * w
      <3>1. n = [accepted |-> p.cur[w].accepted, closed |-> c[w].closed] /\ o = p.open[w]
        <4>1. 2 * w - 1 # 2 * w
          BY <2>3
        <4> QED
          BY <2>6, <4>1, Zenon
      <3>2. q.cur[u].accepted = ra /\ q.cur[u].closed = cc
        <4>1. q.cur[u] = n
          BY <1>4, <2>6, Zenon
        <4>2. n.accepted = p.cur[w].accepted /\ n.closed = c[w].closed
          BY <3>1, CounterFields, Zenon
        <4> QED
          BY <2>6, <4>1, <4>2, Zenon DEF ra, cc
      <3>3. q.open[u] = b
        BY <1>4, <2>6, <3>1, Zenon DEF b
      <3>4. p.next >= 2 * u
        <4>1. \A x \in Nat : 2 * x >= 2 * x
          OBVIOUS
        <4> QED
          BY <2>3, <2>6, <4>1, Zenon
      <3>5. ra <= ca /\ cc <= cc /\ pa <= ca /\ pc <= cc /\ pa <= ra /\ ra <= cc + b
        BY <2>1, <2>2, <3>4
      <3>6. q.prev[u].accepted = pa /\ q.prev[u].closed = pc
        BY <1>1, Zenon DEF pa, pc
      <3> QED
        BY <3>2, <3>3, <3>5, <3>6, Zenon DEF ca, cc
    <2> QED
      BY <2>4, <2>5, <2>6, Zenon
  <1> QED
    BY <1>2, <1>5

(* One load of a snapshot.                                                 *)
LEMMA SnapshotReads ==
    ASSUME ReadsOK, snapshot, counters' = counters, rep.pc # "ended"
    PROVE  ReadsOK'
  <1> DEFINE w == (rep.next + 1) \div 2
             a == counters[w].accepted
             b == counters[w].closed
             o == counters[w].accepted - counters[w].closed
  <1>1. /\ counters \in Counters /\ (\A u \in Workers : counters[u].closed <= counters[u].accepted)
        /\ rep \in ReaderType /\ Loaded(rep, counters) /\ Printed(rep)
    BY Zenon DEF ReadsOK
  <1>2. rep.next \in Nat \ {0} /\ rep.next <= 2 * NumWorkers
    BY <1>1 DEF ReaderType, snapshot
  <1>3. w \in Workers /\ (LoadsAccepted(rep.next) => rep.next = 2 * w - 1) /\ (~LoadsAccepted(rep.next) => rep.next = 2 * w)
    BY <1>2, LoadNumbers
  <1>4. /\ LoadsAccepted(rep.next) =>
             rep' = [rep EXCEPT !.next = @ + 1, !.cur[w].accepted = a, !.open[w] = o]
        /\ ~LoadsAccepted(rep.next) => rep' = [rep EXCEPT !.next = @ + 1, !.cur[w].closed = b]
    BY DEF snapshot
  <1> HIDE DEF w
  <1>5. a \in Nat /\ b \in Nat /\ b <= a /\ o = a - b /\ rep.cur[w] \in Counter /\ rep.open[w] \in Nat
    BY <1>1, <1>3 DEF Counters, Counter, ReaderType
  <1>6. o \in Nat
    <2> HIDE DEF a, b, o
    <2> QED
      BY <1>5
  <1>7. /\ [accepted |-> a, closed |-> rep.cur[w].closed] \in Counter
        /\ [accepted |-> rep.cur[w].accepted, closed |-> b] \in Counter
    <2> HIDE DEF a, b
    <2> QED
      BY <1>5 DEF Counter
  <1>8. rep' \in ReaderType /\ Loaded(rep', counters) /\ Printed(rep')
    <2>1. CASE LoadsAccepted(rep.next)
      <3>1. Stored(rep, rep', w, [accepted |-> a, closed |-> rep.cur[w].closed], o)
        <4> HIDE DEF a, b, o
        <4>1. Stored(rep, [rep EXCEPT !.next = @ + 1, !.cur[w].accepted = a, !.open[w] = o], w,
                     [accepted |-> a, closed |-> rep.cur[w].closed], o)
          <5>1. rep \in ReaderType /\ w \in Workers /\ a \in Nat /\ o \in Nat
            BY <1>1, <1>3, <1>5, <1>6, Zenon
          <5> QED
            BY <5>1, AcceptedStored, Zenon
        <4> QED
          BY <1>4, <2>1, <4>1, Zenon
      <3>2. rep.next = 2 * w - 1
        BY <1>3, <2>1, Zenon
      <3>3. Loads(rep, rep', w, [accepted |-> a, closed |-> rep.cur[w].closed], o, counters)
        BY <1>1, <1>3, <1>5, <1>6, <1>7, <3>1, <3>2, Zenon DEF Loads
      <3>4. Loaded(rep', counters) /\ Printed(rep')
        BY <3>3, LoadKeeps, Zenon
      <3> QED
        BY <3>1, <3>4, Zenon DEF Stored
    <2>2. CASE ~LoadsAccepted(rep.next)
      <3>1. Stored(rep, rep', w, [accepted |-> rep.cur[w].accepted, closed |-> b], rep.open[w])
        <4> HIDE DEF a, b, o
        <4> QED
          BY <1>1, <1>3, <1>4, <1>5, <2>2, ClosedStored, Zenon
      <3>2. rep.next = 2 * w
        BY <1>3, <2>2, Zenon
      <3>3. Loads(rep, rep', w, [accepted |-> rep.cur[w].accepted, closed |-> b], rep.open[w], counters)
        BY <1>1, <1>3, <1>5, <1>7, <3>1, <3>2, Zenon DEF Loads
      <3>4. Loaded(rep', counters) /\ Printed(rep')
        BY <3>3, LoadKeeps, Zenon
      <3> QED
        BY <3>1, <3>4, Zenon DEF Stored
    <2> QED
      BY <2>1, <2>2, Zenon
  <1> QED
    BY <1>1, <1>8, Zenon DEF ReadsOK

(* A reader between two snapshots, with base b, last snapshot v and the    *)
(* printed rows t.                                                         *)
Slept(q, b, v, t) ==
    /\ q \in ReaderType /\ q.pc = "sleeping" /\ q.next = 1 /\ q.cur = Zeros
    /\ q.base = b /\ q.prev = v /\ q.printed = t /\ q.last = FALSE

(* No connection yet is a reading of the counters.                         *)
LEMMA ZerosAre == /\ Zeros \in Counters /\ \A w \in Workers : Zeros[w].accepted = 0 /\ Zeros[w].closed = 0
                  /\ [w \in Workers |-> 0] \in [Workers -> Nat]
  BY DEF Zeros, Counters, Counter

(* The reader goes to sleep.                                               *)
LEMMA AsleepIs ==
    ASSUME rep \in ReaderType, rep.last = FALSE
    PROVE  Slept(Asleep, rep.base, rep.prev, rep.printed)
  <1> DEFINE s == "sleeping"
             k == 1
             c == Reader.cur
             o == Reader.open
  <1>1. c = Zeros /\ o \in [Workers -> Nat]
    BY ZerosAre DEF Reader
  <1>2. c \in Counters
    BY <1>1, ZerosAre, Zenon
  <1>3. s \in {"unborn", "baseline", "sleeping", "reading", "final", "ended"} /\ k \in Nat \ {0}
    OBVIOUS
  <1>4. Asleep = [rep EXCEPT !.pc = s, !.next = k, !.cur = c, !.open = o]
    BY DEF Asleep
  <1> HIDE DEF s, k, c, o
  <1>5. /\ Asleep \in ReaderType /\ Asleep.pc = s /\ Asleep.next = k /\ Asleep.cur = c
        /\ Asleep.base = rep.base /\ Asleep.prev = rep.prev /\ Asleep.printed = rep.printed /\ Asleep.last = rep.last
    BY <1>2, <1>1, <1>3, <1>4, Zenon DEF ReaderType
  <1> QED
    BY <1>1, <1>5, Zenon DEF Slept, s, k

(* A sleeping reader whose rows lead from its base to its last snapshot.   *)
LEMMA SleepReads ==
    ASSUME ReadsOK, counters' = counters, NEW b, NEW v \in Counters, NEW t, Slept(rep', b, v, t), Plus(b, t) = v,
           \A w \in Workers : v[w].accepted <= counters[w].accepted /\ v[w].closed <= counters[w].closed
    PROVE  ReadsOK'
  <1>1. counters \in Counters /\ (\A u \in Workers : counters[u].closed <= counters[u].accepted)
    BY Zenon DEF ReadsOK
  <1>2. /\ rep' \in ReaderType /\ rep'.pc = "sleeping" /\ rep'.next = 1 /\ rep'.cur = Zeros
        /\ rep'.base = b /\ rep'.prev = v /\ rep'.printed = t /\ rep'.last = FALSE
    BY Zenon DEF Slept
  <1>3. \A w \in Workers : /\ ~(rep'.next >= 2 * w) /\ ~(rep'.next >= 2 * w + 1)
    BY <1>2 DEF Workers
  <1>4. \A w \in Workers : rep'.cur[w].accepted <= counters[w].accepted /\ rep'.cur[w].closed <= counters[w].closed
    <2> SUFFICES ASSUME NEW w \in Workers
                 PROVE  rep'.cur[w].accepted <= counters[w].accepted /\ rep'.cur[w].closed <= counters[w].closed
      BY Zenon
    <2>1. counters[w].accepted \in Nat /\ counters[w].closed \in Nat
      BY <1>1 DEF Counters, Counter
    <2>2. rep'.cur[w].accepted = 0 /\ rep'.cur[w].closed = 0
      BY <1>2, ZerosAre, Zenon
    <2> QED
      BY <2>1, <2>2
  <1>5. Loaded(rep', counters)
    BY <1>2, <1>3, <1>4, Zenon DEF Loaded
  <1>6. "sleeping" \notin {"unborn", "baseline"}
    OBVIOUS
  <1>7. Printed(rep')
    BY <1>2, <1>6, Zenon DEF Printed
  <1> QED
    BY <1>1, <1>2, <1>5, <1>7, Zenon DEF ReadsOK

(* A reader that has loaded everything has read no less than its last      *)
(* snapshot, and no more than there is.                                    *)
LEMMA TakenIs ==
    ASSUME ReadsOK, Taken, NEW w \in Workers
    PROVE  /\ rep.cur[w].accepted \in Nat /\ rep.cur[w].closed \in Nat
           /\ rep.prev[w].accepted \in Nat /\ rep.prev[w].closed \in Nat /\ rep.open[w] \in Nat
           /\ rep.prev[w].accepted <= rep.cur[w].accepted /\ rep.prev[w].closed <= rep.cur[w].closed
           /\ rep.cur[w].accepted <= counters[w].accepted /\ rep.cur[w].closed <= counters[w].closed
           /\ rep.cur[w].accepted <= rep.cur[w].closed + rep.open[w]
  <1>1. rep \in ReaderType /\ Loaded(rep, counters)
    BY Zenon DEF ReadsOK
  <1>2. rep.cur \in Counters /\ rep.prev \in Counters /\ rep.open \in [Workers -> Nat] /\ rep.next \in Nat
    BY <1>1 DEF ReaderType
  <1>3. rep.next >= 2 * w + 1 /\ rep.next >= 2 * w
    <2>1. NumWorkers \in Nat /\ rep.next > 2 * NumWorkers
      BY TestServerAssumption DEF Taken
    <2> QED
      BY <1>2, <2>1 DEF Workers
  <1>4. /\ rep.prev[w].accepted <= rep.cur[w].accepted /\ rep.prev[w].closed <= rep.cur[w].closed
        /\ rep.cur[w].accepted <= counters[w].accepted /\ rep.cur[w].closed <= counters[w].closed
        /\ rep.cur[w].accepted <= rep.cur[w].closed + rep.open[w]
    BY <1>1, <1>3, Zenon DEF Loaded
  <1>5. /\ rep.cur[w].accepted \in Nat /\ rep.cur[w].closed \in Nat
        /\ rep.prev[w].accepted \in Nat /\ rep.prev[w].closed \in Nat /\ rep.open[w] \in Nat
    BY <1>2 DEF Counters, Counter
  <1> QED
    BY <1>4, <1>5, Zenon

(* The baseline of the reporter.                                           *)
LEMMA BaselineReads ==
    ASSUME ReadsOK, Baseline, counters' = counters
    PROVE  ReadsOK'
  <1>1. rep \in ReaderType /\ Loaded(rep, counters) /\ Printed(rep) /\ rep.pc = "baseline"
    BY Zenon DEF ReadsOK, Baseline
  <1>2. rep.pc # "ended" /\ rep.pc \in {"unborn", "baseline"}
    BY <1>1
  <1>3. rep.last = FALSE
    <2>1. rep.last \in BOOLEAN
      BY <1>1 DEF ReaderType
    <2> QED
      BY <1>1, <1>2, <2>1, Zenon DEF Printed
  <1>4. Slept(Asleep, rep.base, rep.prev, rep.printed) /\ rep.printed = Zeros /\ Plus(rep.base, rep.printed) = rep.prev
    BY <1>1, <1>2, <1>3, AsleepIs, Zenon DEF Printed
  <1>5. rep.prev \in Counters /\ rep.cur \in Counters
    BY <1>1 DEF ReaderType
  <1>6. CASE rep' = Asleep
    <2>1. \A w \in Workers : rep.prev[w].accepted <= counters[w].accepted /\ rep.prev[w].closed <= counters[w].closed
      BY <1>1, Zenon DEF Loaded
    <2>2. Slept(rep', rep.base, rep.prev, rep.printed)
      BY <1>4, <1>6, Zenon
    <2> QED
      BY <1>4, <1>5, <2>1, <2>2, SleepReads
  <1>7. CASE snapshot
    BY <1>2, <1>7, SnapshotReads, Zenon
  <1>8. CASE Taken /\ rep' = [Asleep EXCEPT !.base = rep.cur, !.prev = rep.cur]
    <2>1. Asleep \in ReaderType
      BY <1>4, Zenon DEF Slept
    <2> DEFINE p == Asleep
               c == rep.cur
    <2>2. p \in ReaderType /\ c \in Counters /\ rep' = [p EXCEPT !.base = c, !.prev = c]
      BY <1>5, <1>8, <2>1, Zenon
    <2> HIDE DEF p, c
    <2>3. /\ rep' \in ReaderType /\ rep'.base = c /\ rep'.prev = c /\ rep'.pc = p.pc /\ rep'.next = p.next
          /\ rep'.cur = p.cur /\ rep'.printed = p.printed /\ rep'.last = p.last
      BY <2>2, Zenon DEF ReaderType
    <2>4. Slept(rep', c, c, Zeros)
      BY <1>4, <2>3, Zenon DEF Slept, p
    <2>5. Plus(c, Zeros) = c
      BY <2>2, ZerosAre DEF Plus, Counters, Counter
    <2>6. \A w \in Workers : c[w].accepted <= counters[w].accepted /\ c[w].closed <= counters[w].closed
      BY <1>1, Zenon DEF Loaded, c
    <2> QED
      BY <2>2, <2>4, <2>5, <2>6, SleepReads
  <1> QED
    BY <1>6, <1>7, <1>8, Zenon DEF Baseline

(* A report of the interval.                                               *)
LEMMA ReportReads ==
    ASSUME ReadsOK, run_reporter, counters' = counters
    PROVE  ReadsOK'
  <1>1. rep \in ReaderType /\ Loaded(rep, counters) /\ Printed(rep) /\ rep.pc = "reading"
    BY Zenon DEF ReadsOK, run_reporter
  <1>2. rep.pc # "ended"
    BY <1>1
  <1>3. rep.last = FALSE
    <2>1. rep.last \in BOOLEAN
      BY <1>1 DEF ReaderType
    <2> QED
      BY <1>1, <1>2, <2>1, Zenon DEF Printed
  <1>4. Slept(Asleep, rep.base, rep.prev, rep.printed) /\ Plus(rep.base, rep.printed) = rep.prev
    BY <1>1, <1>3, AsleepIs, Zenon DEF Printed
  <1>5. rep.prev \in Counters /\ rep.cur \in Counters /\ rep.base \in Counters /\ rep.printed \in Counters
    BY <1>1 DEF ReaderType
  <1>6. CASE rep' = Asleep
    <2>1. \A w \in Workers : rep.prev[w].accepted <= counters[w].accepted /\ rep.prev[w].closed <= counters[w].closed
      BY <1>1, Zenon DEF Loaded
    <2>2. Slept(rep', rep.base, rep.prev, rep.printed)
      BY <1>4, <1>6, Zenon
    <2> QED
      BY <1>4, <1>5, <2>1, <2>2, SleepReads
  <1>7. CASE snapshot
    BY <1>2, <1>7, SnapshotReads, Zenon
  <1>8. CASE /\ Taken
             /\ rep' = [Asleep EXCEPT !.prev = NextPrev, !.printed = Plus(rep.printed, delta(rep.cur, rep.prev))]
    <2>1. Asleep \in ReaderType
      BY <1>4, Zenon DEF Slept
    <2> DEFINE p == Asleep
               c == rep.cur
               v == rep.prev
               b == rep.base
               s == rep.printed
               t == Plus(s, delta(c, v))
    <2>2. /\ c \in Counters /\ v \in Counters /\ b \in Counters /\ s \in Counters /\ Plus(b, s) = v
          /\ \A w \in Workers : v[w].accepted <= c[w].accepted /\ v[w].closed <= c[w].closed
      BY <1>4, <1>5, <1>8, TakenIs, Zenon
    <2>3. p \in ReaderType /\ rep' = [p EXCEPT !.prev = c, !.printed = t]
      BY <1>8, <2>1, Zenon DEF NextPrev
    <2> HIDE DEF p, c, v, b, s
    <2>4. delta(c, v) = [w \in Workers |-> [accepted |-> c[w].accepted - v[w].accepted,
                                            closed |-> c[w].closed - v[w].closed]]
      <3>1. \A w \in Workers : /\ SaturatingSub(c[w].accepted, v[w].accepted) = c[w].accepted - v[w].accepted
                               /\ SaturatingSub(c[w].closed, v[w].closed) = c[w].closed - v[w].closed
        BY <2>2 DEF Counters, Counter, SaturatingSub
      <3> QED
        BY <3>1 DEF delta
    <2>5. \A w \in Workers : /\ t[w] = [accepted |-> s[w].accepted + (c[w].accepted - v[w].accepted),
                                        closed |-> s[w].closed + (c[w].closed - v[w].closed)]
                             /\ t[w] \in Counter
      BY <2>2, <2>4 DEF Plus, Counters, Counter
    <2>6. t \in Counters
      BY <2>5, Zenon DEF Plus, Counters
    <2>7. \A w \in Workers : v[w].accepted = b[w].accepted + s[w].accepted /\ v[w].closed = b[w].closed + s[w].closed
      BY <2>2 DEF Plus
    <2> HIDE DEF t
    <2>8. Plus(b, t) = c
      <3>1. \A w \in Workers : b[w].accepted + t[w].accepted = c[w].accepted /\ b[w].closed + t[w].closed = c[w].closed
        <4> SUFFICES ASSUME NEW w \in Workers
                     PROVE  b[w].accepted + t[w].accepted = c[w].accepted /\ b[w].closed + t[w].closed = c[w].closed
          BY Zenon
        <4> DEFINE x == s[w].accepted + (c[w].accepted - v[w].accepted)
                   y == s[w].closed + (c[w].closed - v[w].closed)
        <4>1. t[w].accepted = x /\ t[w].closed = y
          <5>1. t[w] = [accepted |-> x, closed |-> y]
            BY <2>5, Zenon
          <5> HIDE DEF x, y
          <5> QED
            BY <5>1
        <4>2. /\ b[w].accepted \in Nat /\ b[w].closed \in Nat /\ s[w].accepted \in Nat /\ s[w].closed \in Nat
              /\ c[w].accepted \in Nat /\ c[w].closed \in Nat
          BY <2>2 DEF Counters, Counter
        <4> QED
          BY <2>7, <4>1, <4>2
      <3>2. \A w \in Workers : c[w] = [accepted |-> c[w].accepted, closed |-> c[w].closed]
        BY <2>2 DEF Counters, Counter
      <3>3. Plus(b, t) = [w \in Workers |-> c[w]]
        BY <3>1, <3>2 DEF Plus
      <3> QED
        BY <2>2, <3>3, Zenon DEF Counters
    <2>9. /\ rep' \in ReaderType /\ rep'.base = p.base /\ rep'.prev = c /\ rep'.pc = p.pc /\ rep'.next = p.next
          /\ rep'.cur = p.cur /\ rep'.printed = t /\ rep'.last = p.last
      BY <2>2, <2>3, <2>6, Zenon DEF ReaderType
    <2>10. Slept(rep', b, c, t)
      BY <1>4, <2>9, Zenon DEF Slept, p, b
    <2>11. \A w \in Workers : c[w].accepted <= counters[w].accepted /\ c[w].closed <= counters[w].closed
      BY <1>1, Zenon DEF Loaded, c
    <2> QED
      BY <2>2, <2>8, <2>10, <2>11, SleepReads
  <1> QED
    BY <1>6, <1>7, <1>8, Zenon DEF run_reporter

(* The reader changes nothing but where it is.                             *)
LEMMA PcReads ==
    ASSUME ReadsOK, counters' = counters, rep' \in ReaderType, rep'.next = rep.next, rep'.cur = rep.cur,
           rep'.open = rep.open, rep'.prev = rep.prev, rep'.base = rep.base, rep'.printed = rep.printed,
           rep'.last => rep.next > 2 * NumWorkers /\ rep'.pc = "ended",
           rep'.pc \in {"unborn", "baseline"} => rep.pc \in {"unborn", "baseline"}
    PROVE  ReadsOK'
  <1>1. /\ counters \in Counters /\ (\A w \in Workers : counters[w].closed <= counters[w].accepted)
        /\ Loaded(rep, counters) /\ Printed(rep)
    BY Zenon DEF ReadsOK
  <1>2. Loaded(rep', counters)
    BY <1>1, Zenon DEF Loaded
  <1>3. Printed(rep')
    BY <1>1, Zenon DEF Printed
  <1> QED
    BY <1>1, <1>2, <1>3, Zenon DEF ReadsOK

(* The reader is created, wakes up, or ends.                               *)
LEMMA PcSteps ==
    ASSUME ReadsOK, counters' = counters,
           \/ rep.pc = "unborn" /\ \E s \in {"unborn", "baseline"} : rep' = [rep EXCEPT !.pc = s]
           \/ ReporterWakes
           \/ rep.pc = "final" /\ Taken /\ rep' = [rep EXCEPT !.pc = "ended", !.last = TRUE]
    PROVE  ReadsOK'
  <1>1. rep \in ReaderType /\ Printed(rep)
    BY Zenon DEF ReadsOK
  <1>2. rep.last => rep.pc = "ended"
    BY <1>1, Zenon DEF Printed
  <1>3. ASSUME rep.pc # "ended", NEW s \in {"unborn", "baseline", "sleeping", "reading", "final", "ended"}, NEW n \in Nat,
               rep' = [rep EXCEPT !.pc = s, !.reports = n],
               s \in {"unborn", "baseline"} => rep.pc \in {"unborn", "baseline"}
        PROVE  ReadsOK'
    <2>1. /\ rep' \in ReaderType /\ rep'.next = rep.next /\ rep'.cur = rep.cur /\ rep'.open = rep.open
          /\ rep'.prev = rep.prev /\ rep'.base = rep.base /\ rep'.printed = rep.printed /\ rep'.last = rep.last
          /\ rep'.pc = s
      BY <1>1, <1>3, Zenon DEF ReaderType
    <2>2. ~rep'.last
      BY <1>2, <1>3, <2>1, Zenon
    <2> QED
      BY <1>3, <2>1, <2>2, PcReads, Zenon
  <1>8. rep.reports \in Nat
    BY <1>1 DEF ReaderType
  <1>4. rep.reports \in Nat /\ \A s : [rep EXCEPT !.pc = s] = [rep EXCEPT !.pc = s, !.reports = rep.reports]
    BY <1>1, Zenon DEF ReaderType
  <1>5. CASE rep.pc = "unborn" /\ \E s \in {"unborn", "baseline"} : rep' = [rep EXCEPT !.pc = s]
    <2>1. PICK s \in {"unborn", "baseline"} : rep' = [rep EXCEPT !.pc = s]
      BY <1>5, Zenon
    <2>2. rep' = [rep EXCEPT !.pc = s, !.reports = rep.reports]
      BY <1>4, <2>1, Zenon
    <2>3. rep.pc # "ended" /\ rep.pc \in {"unborn", "baseline"}
      BY <1>5
    <2>4. s \in {"unborn", "baseline", "sleeping", "reading", "final", "ended"}
      BY <2>1
    <2> QED
      BY <1>3, <1>4, <2>2, <2>3, <2>4, Zenon
  <1>6. CASE ReporterWakes
    <2>1. PICK s \in {"ended", "final", "reading"}, n \in Nat : rep' = [rep EXCEPT !.pc = s, !.reports = n]
      <3>1. CASE rep' = [rep EXCEPT !.pc = "ended"]
        BY <1>4, <3>1, Zenon
      <3>2. CASE rep' = [rep EXCEPT !.pc = "final"]
        BY <1>4, <3>2, Zenon
      <3>3. CASE rep' = [rep EXCEPT !.pc = "reading", !.reports = @ + 1]
        <4>1. rep.reports + 1 \in Nat
          BY <1>8
        <4> QED
          BY <3>3, <4>1, Zenon
      <3> QED
        BY <1>6, <3>1, <3>2, <3>3, Zenon DEF ReporterWakes
    <2>2. rep.pc # "ended"
      BY <1>6 DEF ReporterWakes
    <2>3. s \in {"unborn", "baseline", "sleeping", "reading", "final", "ended"} /\ s \notin {"unborn", "baseline"}
      BY <2>1
    <2> QED
      BY <1>3, <2>1, <2>2, <2>3, Zenon
  <1>7. CASE rep.pc = "final" /\ Taken /\ rep' = [rep EXCEPT !.pc = "ended", !.last = TRUE]
    <2>1. /\ rep' \in ReaderType /\ rep'.next = rep.next /\ rep'.cur = rep.cur /\ rep'.open = rep.open
          /\ rep'.prev = rep.prev /\ rep'.base = rep.base /\ rep'.printed = rep.printed
          /\ rep'.pc = "ended"
      BY <1>1, <1>7, Zenon DEF ReaderType
    <2>2. rep.next > 2 * NumWorkers
      BY <1>7, Zenon DEF Taken
    <2>3. "ended" \notin {"unborn", "baseline"}
      OBVIOUS
    <2> QED
      BY <2>1, <2>2, <2>3, PcReads, Zenon
  <1> QED
    BY <1>5, <1>6, <1>7, Zenon

(* No gauge exceeds what was open when the accepted counters were loaded.  *)
LEMMA GaugeBounded == ReadsOK => ActiveNotOverstated
  <1> SUFFICES ASSUME ReadsOK, Taken PROVE connections_active <= OverWorkers(rep.open)
    BY Zenon DEF ActiveNotOverstated
  <1> DEFINE f == [w \in Workers |-> rep.cur[w].accepted]
             g == [w \in Workers |-> rep.cur[w].closed]
             h == rep.open
  <1>1. IsFiniteSet(Workers)
    BY WorkersFinite, Zenon
  <1>2. \A w \in Workers : f[w] = rep.cur[w].accepted /\ g[w] = rep.cur[w].closed
    OBVIOUS
  <1>3. NatOn(f, Workers) /\ NatOn(g, Workers) /\ NatOn(h, Workers) /\ \A w \in Workers : f[w] <= g[w] + h[w]
    <2> HIDE DEF f, g
    <2> QED
      BY <1>2, TakenIs, Zenon DEF NatOn
  <1> HIDE DEF f, g, h
  <1>4. OverWorkers(f) = Total(f, Workers) /\ OverWorkers(g) = Total(g, Workers) /\ OverWorkers(h) = Total(h, Workers)
    BY <1>1, <1>3, SumIsTotal, Zenon DEF OverWorkers, MapThenSumSet, MapThenFoldSet
  <1>5. Total(f, Workers) <= Total(g, Workers) + Total(h, Workers)
    BY <1>1, <1>3, TotalBelow, Zenon
  <1>6. Total(f, Workers) \in Nat /\ Total(g, Workers) \in Nat /\ Total(h, Workers) \in Nat
    BY <1>1, <1>3, UnitsFinite, Zenon
  <1>7. connections_active = SaturatingSub(Total(f, Workers), Total(g, Workers))
    BY <1>4, Zenon DEF connections_active, f, g
  <1>8. SaturatingSub(Total(f, Workers), Total(g, Workers)) <= Total(h, Workers)
    BY <1>5, <1>6 DEF SaturatingSub
  <1> QED
    BY <1>4, <1>7, <1>8, Zenon DEF h

(* The rows lead from the baseline to the last snapshot.                   *)
LEMMA RowsAddUp == ReadsOK => IntervalsAddUp
  <1> SUFFICES ASSUME ReadsOK PROVE IntervalsAddUp
    BY Zenon
  <1>1. Printed(rep)
    BY Zenon DEF ReadsOK
  <1>2. ASSUME rep.last, NEW w \in Workers
        PROVE  rep.cur[w].accepted >= rep.prev[w].accepted /\ rep.cur[w].closed >= rep.prev[w].closed
    <2>1. Taken
      BY <1>1, <1>2, Zenon DEF Printed, Taken
    <2>2. /\ rep.cur[w].accepted \in Nat /\ rep.cur[w].closed \in Nat
          /\ rep.prev[w].accepted \in Nat /\ rep.prev[w].closed \in Nat
          /\ rep.prev[w].accepted <= rep.cur[w].accepted /\ rep.prev[w].closed <= rep.cur[w].closed
      BY <2>1, TakenIs, Zenon
    <2> QED
      BY <2>2
  <1> QED
    BY <1>1, <1>2, Zenon DEF IntervalsAddUp, Printed

(* A server that is being built.                                           *)
LEMMA ServerInit == TestServerInit => ServerInv
  <1> SUFFICES ASSUME TestServerInit PROVE ReadyOK /\ ReadsOK
    BY Zenon DEF ServerInv
  <1>1. /\ server = "building" /\ workers = [w \in Workers |-> "starting"] /\ readiness = 0 /\ awaited = 0
        /\ counters = Zeros /\ rep = Reader
    BY Zenon DEF TestServerInit
  <1>2. Bound = {}
    BY <1>1 DEF Bound, BoundStates
  <1>3. Cardinality(Bound) = 0
    BY <1>2, FS_EmptySet, Zenon
  <1>4. rep.pc = "unborn" /\ server \notin {"up", "dropping", "down"}
    BY <1>1 DEF Reader
  <1>5. workers \in [Workers -> BoundStates \cup {"starting", "panicked"}]
    BY <1>1
  <1>6. readiness \in Nat /\ awaited \in Nat /\ readiness + awaited = Cardinality(Bound)
    BY <1>1, <1>3
  <1>7. ReadyOK
    BY <1>4, <1>5, <1>6, Zenon DEF ReadyOK
  <1> DEFINE z == Zeros
             o == [w \in Workers |-> 0]
  <1>8. z \in Counters /\ o \in [Workers -> Nat] /\ \A w \in Workers : z[w].accepted = 0 /\ z[w].closed = 0
    BY ZerosAre
  <1>9. Plus(z, z) = z
    BY <1>8 DEF Plus, Counters, Counter
  <1>10. rep = [pc |-> "unborn", next |-> 1, cur |-> z, prev |-> z, base |-> z, printed |-> z, reports |-> 0,
                open |-> o, last |-> FALSE]
    BY <1>1, Zenon DEF Reader
  <1> HIDE DEF z, o
  <1>11. /\ rep \in ReaderType /\ rep.cur = z /\ rep.prev = z /\ rep.base = z /\ rep.printed = z /\ rep.next = 1
         /\ rep.last = FALSE
    BY <1>8, <1>10 DEF ReaderType
  <1>12. \A w \in Workers : ~(rep.next >= 2 * w) /\ ~(rep.next >= 2 * w + 1)
    BY <1>11 DEF Workers
  <1>13. 0 <= 0
    OBVIOUS
  <1>14. Loaded(rep, counters)
    BY <1>1, <1>8, <1>11, <1>12, <1>13, Zenon DEF Loaded, z
  <1>15. Printed(rep)
    BY <1>9, <1>11, Zenon DEF Printed, z
  <1>16. ReadsOK
    BY <1>1, <1>8, <1>11, <1>13, <1>14, <1>15, Zenon DEF ReadsOK, z
  <1> QED
    BY <1>7, <1>16

(* One step of the server.                                                 *)
LEMMA ServerStep == ServerInv /\ [TestServerNext]_serverVars => ServerInv'
  <1> SUFFICES ASSUME ReadyOK, ReadsOK, [TestServerNext]_serverVars PROVE ReadyOK' /\ ReadsOK'
    BY Zenon DEF ServerInv
  <1>1. ASSUME counters' = counters, rep' = rep PROVE ReadsOK'
    BY <1>1, Zenon DEF ReadsOK
  <1>2. ASSUME workers' = workers, readiness' = readiness, awaited' = awaited, server' = server, rep' = rep PROVE ReadyOK'
    BY <1>2, Zenon DEF ReadyOK, Bound
  <1>3. ASSUME NEW w \in Workers, WorkerBinds(w) PROVE ReadyOK' /\ ReadsOK'
    BY <1>1, <1>3, BindsReady, Zenon DEF WorkerBinds
  <1>4. ASSUME NEW w \in Workers, WorkerSeesShutdown(w) \/ WorkerEnds(w) PROVE ReadyOK' /\ ReadsOK'
    <2>1. PICK s \in {"draining", "ended"} : workers' = [workers EXCEPT ![w] = s]
      BY <1>4, Zenon DEF WorkerSeesShutdown, WorkerEnds
    <2>2. s \in BoundStates /\ workers[w] \in BoundStates
      BY <1>4, <2>1 DEF WorkerSeesShutdown, WorkerEnds, BoundStates
    <2>3. UNCHANGED <<server, readiness, awaited, rep>> /\ counters' = counters /\ rep' = rep
      BY <1>4, Zenon DEF WorkerSeesShutdown, WorkerEnds
    <2>4. ReadyOK'
      BY <1>4, <2>1, <2>2, <2>3, BoundStays, Zenon
    <2> QED
      BY <1>1, <2>3, <2>4, Zenon
  <1>5. ASSUME NEW w \in Workers, AcceptsTcp(w) \/ ConnectionCloses(w) PROVE ReadyOK' /\ ReadsOK'
    BY <1>2, <1>5, WorkerCounts, Zenon DEF AcceptsTcp, ConnectionCloses
  <1>6. CASE AwaitWorker \/ AwaitFails \/ DropBegins \/ DropReturns
    BY <1>1, <1>6, ReadyKept, Zenon DEF AwaitWorker, AwaitFails, DropBegins, DropReturns
  <1>7. CASE BuildReturns
    <2>1. rep.pc = "unborn"
      BY <1>7, Zenon DEF ReadyOK, BuildReturns
    <2>2. \E s \in {"unborn", "baseline"} : rep' = [rep EXCEPT !.pc = s]
      BY <1>7, <2>1 DEF BuildReturns
    <2> QED
      BY <1>7, <2>1, <2>2, ReadyKept, PcSteps, Zenon DEF BuildReturns
  <1>8. CASE Reporter
    <2>1. counters' = counters /\ (Baseline \/ ReporterWakes \/ run_reporter \/ FinalReport)
      BY <1>8, Zenon DEF Reporter
    <2>2. ASSUME FinalReport PROVE ReadsOK'
      <3>1. rep.pc # "ended"
        BY <2>2 DEF FinalReport
      <3> QED
        BY <2>1, <2>2, <3>1, SnapshotReads, PcSteps, Zenon DEF FinalReport
    <2> QED
      BY <1>8, <2>1, <2>2, ReadyKept, BaselineReads, PcSteps, ReportReads, Zenon
  <1>9. CASE UNCHANGED serverVars
    BY <1>1, <1>2, <1>9, Zenon DEF serverVars
  <1> QED
    BY <1>3, <1>4, <1>5, <1>6, <1>7, <1>8, <1>9, Zenon DEF TestServerNext

(* What a test server reports is true, for every number of workers and     *)
(* every interleaving of their counts with the loads of the reporter: a    *)
(* server that was handed out by build() has every worker bound, no gauge  *)
(* overstates the open connections, and the interval rows add up to the    *)
(* difference between the last snapshot and the baseline.                  *)
THEOREM ServerReportsTrue == TestServerSpec => []ReportsTrue
  <1>1. ServerInv => ReportsTrue
    BY AllBound, GaugeBounded, RowsAddUp, Zenon DEF ServerInv, ReportsTrue
  <1> QED
    BY <1>1, ServerInit, ServerStep, PTL DEF TestServerSpec

-----------------------------------------------------------------------------
(* Redis.  What is asked of the server, and a connection.                  *)
Asked == {"AUTH", "SELECT"} \cup {ToString(n) : n \in Nat}
Reply == [to : Asked, value : {"value", "error", "malformed"}]
RedisConn ==
    [open : BOOLEAN, closed : BOOLEAN, asked : Seq(Asked), replies : Seq(Reply), granted : SUBSET Asked]

Working == {"AUTH", "SELECT", "command"}
Expected(r) == IF r.pc = "command" THEN r.request ELSE r.pc

(* A connection in use waits for the one answer to what was asked last, or *)
(* has it, or the server has closed it; one that waits in the pool has     *)
(* nothing under way.                                                      *)
Awaits(k, e) ==
    \/ k.asked = <<e>> /\ k.replies = <<>>
    \/ /\ k.asked = <<>>
       /\ \E v \in {"value", "error", "malformed"} :
             k.replies = <<[to |-> e, value |-> v]>> /\ (v = "value" => e \in k.granted)
    \/ k.closed /\ k.asked = <<>> /\ k.replies = <<>>

WorkOK(k, r, d) ==
    /\ Awaits(k, Expected(r))
    /\ r.pc # "AUTH" /\ d.password => "AUTH" \in k.granted
    /\ r.pc = "command" /\ d.db => "SELECT" \in k.granted

PoolOK(k, d) ==
    /\ k.asked = <<>> /\ k.replies = <<>>
    /\ d.password => "AUTH" \in k.granted
    /\ d.db => "SELECT" \in k.granted

RequestOK(r) ==
    /\ r.pc \in {"free", "connect"} \cup Working
    /\ r.pc # "free" => r.request \in Asked
    /\ r.pc \in Working => r.conn \in RedisConns
    /\ r.pc \notin Working => r.conn = 0

RedisType ==
    /\ redis \in RedisConfigs /\ commands \in Nat
    /\ redis_conns \in [RedisConns -> RedisConn]
    /\ redis_pool \in Seq(RedisConns)
    /\ redis_tasks = [t \in RedisTasks |-> redis_tasks[t]]
    /\ \A t \in RedisTasks : RequestOK(redis_tasks[t])

(* Every open connection has one owner: a request or a place in the pool.  *)
Owned(tasks, conns, pool) ==
    /\ \A t \in RedisTasks : tasks[t].conn # 0 => conns[tasks[t].conn].open /\ ~ InPool(pool, tasks[t].conn)
    /\ \A t, u \in RedisTasks : tasks[t].conn # 0 /\ tasks[t].conn = tasks[u].conn => t = u
    /\ \A i, j \in 1..Len(pool) : pool[i] = pool[j] => i = j
    /\ \A c \in RedisConns : InPool(pool, c) => conns[c].open
    /\ \A c \in RedisConns : conns[c].open => InPool(pool, c) \/ \E t \in RedisTasks : tasks[t].conn = c
OwnersOK == Owned(redis_tasks, redis_conns, redis_pool)

ContentOK ==
    /\ \A t \in RedisTasks : redis_tasks[t].conn # 0 => WorkOK(redis_conns[redis_tasks[t].conn], redis_tasks[t], redis)
    /\ \A c \in RedisConns : InPool(redis_pool, c) => PoolOK(redis_conns[c], redis)

(* A request that is to make a connection has not found one, so that there *)
(* is room for it among those of the other requests.                       *)
OpenConns == {c \in RedisConns : redis_conns[c].open}
Connecting == {t \in RedisTasks : redis_tasks[t].pc = "connect"}
RoomOK ==
    /\ IsFiniteSet(OpenConns)
    /\ Cardinality(OpenConns) + Cardinality(Connecting) <= Cardinality(RedisTasks)

RedisIInv == RedisType /\ OwnersOK /\ ContentOK /\ RoomOK /\ ~ crossed

(* The records a request starts and ends with.                             *)
LEMMA NoRequestIs ==
    /\ RequestOK(NoRequest) /\ NoRequest.pc = "free" /\ NoRequest.conn = 0
    /\ NoRedisConn \in RedisConn /\ ~ NoRedisConn.open
  <1>1. NoRequest.pc = "free" /\ NoRequest.conn = 0 /\ "free" \notin Working
    BY DEF NoRequest, Working
  <1>2. RequestOK(NoRequest)
    BY <1>1, Zenon DEF RequestOK
  <1>3. NoRedisConn \in RedisConn /\ ~ NoRedisConn.open
    <2>1. <<>> \in Seq(Asked) /\ <<>> \in Seq(Reply) /\ {} \in SUBSET Asked
      OBVIOUS
    <2> QED
      BY <2>1 DEF NoRedisConn, RedisConn
  <1> QED
    BY <1>1, <1>2, <1>3

(* The step of one request with one connection: c was its connection, or   *)
(* nobody's, or in the pool; it becomes its connection, is closed, or is   *)
(* put into the pool.                                                      *)
OneStep(t, c, r, k) ==
    /\ k \in RedisConn /\ RequestOK(r) /\ redis' = redis /\ commands' \in Nat
    /\ redis_tasks' = [redis_tasks EXCEPT ![t] = r] /\ redis_conns' = [redis_conns EXCEPT ![c] = k]
    /\ redis_tasks[t].conn \in {0, c} /\ \A u \in RedisTasks : u # t => redis_tasks[u].conn # c
    /\ r.conn \in {0, c} /\ (r.conn = c => k.open /\ WorkOK(k, r, redis))
    /\ redis_pool' \in Seq(RedisConns)
    /\ \A i, j \in 1..Len(redis_pool') : redis_pool'[i] = redis_pool'[j] => i = j
    /\ \A d \in RedisConns : d # c => (InPool(redis_pool', d) <=> InPool(redis_pool, d))
    /\ InPool(redis_pool', c) => k.open /\ r.conn = 0 /\ PoolOK(k, redis)
    /\ k.open => r.conn = c \/ InPool(redis_pool', c)

(* Such a step leaves every record in its type, every connection with its  *)
(* owner, and what is under way on it as the owner expects it.             *)
LEMMA OneRequest ==
    ASSUME RedisType, OwnersOK, ContentOK, NEW t \in RedisTasks, NEW c \in RedisConns, NEW r, NEW k, OneStep(t, c, r, k)
    PROVE  RedisType' /\ OwnersOK' /\ ContentOK'
  <1> USE DEF OneStep
  <1>1. c # 0
    BY RedisAssumption
  <1>2. /\ redis_conns' \in [RedisConns -> RedisConn] /\ redis_conns'[c] = k
        /\ \A d \in RedisConns : d # c => redis_conns'[d] = redis_conns[d]
    BY DEF RedisType
  <1>3. /\ redis_tasks'[t] = r /\ (\A u \in RedisTasks : u # t => redis_tasks'[u] = redis_tasks[u])
        /\ redis_tasks' = [u \in RedisTasks |-> redis_tasks'[u]]
    BY DEF RedisType
  <1>4. RedisType'
    <2>1. \A u \in RedisTasks : RequestOK(redis_tasks'[u])
      BY <1>3, Zenon DEF RedisType
    <2> QED
      BY <1>2, <1>3, <2>1, Zenon DEF RedisType
  <1>5. /\ redis_tasks'[t].conn = r.conn
        /\ \A u \in RedisTasks : u # t => redis_tasks'[u].conn = redis_tasks[u].conn /\ redis_tasks[u].conn # c
    BY <1>3, Zenon
  <1>6. ASSUME NEW u \in RedisTasks, redis_tasks'[u].conn # 0
        PROVE  /\ redis_tasks'[u].conn \in RedisConns
               /\ redis_conns'[redis_tasks'[u].conn].open /\ ~ InPool(redis_pool', redis_tasks'[u].conn)
               /\ WorkOK(redis_conns'[redis_tasks'[u].conn], redis_tasks'[u], redis)
    <2>1. CASE u = t
      <3>1. redis_tasks'[u].conn = c /\ r.conn = c
        BY <1>5, <1>6, <2>1, Zenon
      <3>2. ~ InPool(redis_pool', c)
        BY <1>1, <3>1, Zenon
      <3> QED
        BY <1>2, <1>3, <2>1, <3>1, <3>2, Zenon
    <2>2. CASE u # t
      <3> DEFINE d == redis_tasks[u].conn
      <3>1. redis_tasks'[u].conn = d /\ d # c /\ d # 0 /\ redis_tasks'[u] = redis_tasks[u]
        BY <1>3, <1>5, <1>6, <2>2, Zenon
      <3>2. d \in RedisConns
        BY <3>1, Zenon DEF RedisType, RequestOK
      <3>3. redis_conns'[d] = redis_conns[d] /\ redis_conns[d].open /\ ~ InPool(redis_pool, d) /\ WorkOK(redis_conns[d], redis_tasks[u], redis)
        BY <1>2, <3>1, <3>2, Zenon DEF OwnersOK, Owned, ContentOK
      <3>4. ~ InPool(redis_pool', d)
        BY <3>1, <3>2, <3>3, Zenon
      <3> HIDE DEF d
      <3> QED
        BY <3>1, <3>2, <3>3, <3>4, Zenon
    <2> QED
      BY <2>1, <2>2
  <1>7. \A u, v \in RedisTasks : redis_tasks'[u].conn # 0 /\ redis_tasks'[u].conn = redis_tasks'[v].conn => u = v
    <2> SUFFICES ASSUME NEW u \in RedisTasks, NEW v \in RedisTasks, redis_tasks'[u].conn # 0,
                        redis_tasks'[u].conn = redis_tasks'[v].conn
                 PROVE  u = v
      BY Zenon
    <2>1. CASE u # t /\ v # t
      <3>1. redis_tasks[u].conn # 0 /\ redis_tasks[u].conn = redis_tasks[v].conn
        BY <1>5, <2>1
      <3> QED
        BY <3>1, Zenon DEF OwnersOK, Owned
    <2>2. CASE u = t /\ v # t
      BY <1>5, <2>2, Zenon
    <2>3. CASE u # t /\ v = t
      BY <1>5, <2>3, Zenon
    <2> QED
      BY <2>1, <2>2, <2>3, Zenon
  <1>8. \A d \in RedisConns : InPool(redis_pool', d) => redis_conns'[d].open /\ PoolOK(redis_conns'[d], redis)
    <2> SUFFICES ASSUME NEW d \in RedisConns, InPool(redis_pool', d) PROVE redis_conns'[d].open /\ PoolOK(redis_conns'[d], redis)
      BY Zenon
    <2>1. CASE d = c
      BY <1>2, <2>1, Zenon
    <2>2. CASE d # c
      BY <1>2, <2>2, Zenon DEF OwnersOK, Owned, ContentOK
    <2> QED
      BY <2>1, <2>2
  <1>9. \A d \in RedisConns : redis_conns'[d].open => InPool(redis_pool', d) \/ \E u \in RedisTasks : redis_tasks'[u].conn = d
    <2> SUFFICES ASSUME NEW d \in RedisConns, redis_conns'[d].open PROVE InPool(redis_pool', d) \/ \E u \in RedisTasks : redis_tasks'[u].conn = d
      BY Zenon
    <2>1. CASE d = c
      BY <1>2, <1>5, <2>1, Zenon
    <2>2. CASE d # c
      <3>1. InPool(redis_pool, d) \/ \E u \in RedisTasks : redis_tasks[u].conn = d
        BY <1>2, <2>2, Zenon DEF OwnersOK, Owned
      <3>2. \A u \in RedisTasks : redis_tasks[u].conn = d => u # t
        BY <1>1, <2>2, RedisAssumption
      <3> QED
        BY <1>5, <2>2, <3>1, <3>2, Zenon
    <2> QED
      BY <2>1, <2>2
  <1>10. OwnersOK'
    BY <1>6, <1>7, <1>8, <1>9, Zenon DEF OwnersOK, Owned
  <1>11. ContentOK'
    BY <1>6, <1>8, Zenon DEF ContentOK
  <1> QED
    BY <1>4, <1>10, <1>11

(* What does not open a connection and does not ask for one leaves room.   *)
LEMMA RoomStays ==
    ASSUME RoomOK, \A c \in RedisConns : redis_conns'[c].open => redis_conns[c].open,
           \A t \in RedisTasks : redis_tasks'[t].pc = "connect" => redis_tasks[t].pc = "connect"
    PROVE  RoomOK'
  <1>1. OpenConns' \in SUBSET OpenConns /\ Connecting' \in SUBSET Connecting /\ Connecting \in SUBSET RedisTasks
    BY Zenon DEF OpenConns, Connecting
  <1>2. IsFiniteSet(OpenConns) /\ IsFiniteSet(Connecting) /\ IsFiniteSet(RedisTasks)
    BY <1>1, FS_Subset, RedisAssumption, Zenon DEF RoomOK
  <1>3. /\ IsFiniteSet(OpenConns') /\ Cardinality(OpenConns') <= Cardinality(OpenConns)
        /\ IsFiniteSet(Connecting') /\ Cardinality(Connecting') <= Cardinality(Connecting)
    BY <1>1, <1>2, FS_Subset, Zenon
  <1>4. /\ Cardinality(OpenConns') \in Nat /\ Cardinality(OpenConns) \in Nat /\ Cardinality(Connecting') \in Nat
        /\ Cardinality(Connecting) \in Nat /\ Cardinality(RedisTasks) \in Nat
    BY <1>2, <1>3, FS_CardinalityType, Zenon
  <1>5. Cardinality(OpenConns) + Cardinality(Connecting) <= Cardinality(RedisTasks)
    BY Zenon DEF RoomOK
  <1>6. Cardinality(OpenConns') + Cardinality(Connecting') <= Cardinality(RedisTasks)
    BY <1>3, <1>4, <1>5
  <1> QED
    BY <1>3, <1>6, Zenon DEF RoomOK

(* A connection whose fields change keeps the others.                      *)
LEMMA ConnIs ==
    ASSUME NEW k \in RedisConn
    PROVE  /\ k = [open |-> k.open, closed |-> k.closed, asked |-> k.asked, replies |-> k.replies, granted |-> k.granted]
           /\ k.open \in BOOLEAN /\ k.closed \in BOOLEAN /\ k.asked \in Seq(Asked) /\ k.replies \in Seq(Reply)
           /\ k.granted \in SUBSET Asked
  <1>1. k = [open |-> k.open, closed |-> k.closed, asked |-> k.asked, replies |-> k.replies, granted |-> k.granted]
    BY DEF RedisConn
  <1>2. /\ k.open \in BOOLEAN /\ k.closed \in BOOLEAN /\ k.asked \in Seq(Asked) /\ k.replies \in Seq(Reply)
        /\ k.granted \in SUBSET Asked
    BY Zenon DEF RedisConn
  <1> QED
    BY <1>1, <1>2

ConnOf(o, x, a, p, g) == [open |-> o, closed |-> x, asked |-> a, replies |-> p, granted |-> g]
Has(k, o, x, a, p, g) ==
    k \in RedisConn /\ k.open = o /\ k.closed = x /\ k.asked = a /\ k.replies = p /\ k.granted = g

(* A record with the fields of a connection is one.                        *)
LEMMA ConnFrom ==
    ASSUME NEW o \in BOOLEAN, NEW x \in BOOLEAN, NEW a \in Seq(Asked), NEW p \in Seq(Reply), NEW g \in SUBSET Asked
    PROVE  Has(ConnOf(o, x, a, p, g), o, x, a, p, g)
  <1>1. ConnOf(o, x, a, p, g) \in RedisConn
    BY Zenon DEF RedisConn, ConnOf
  <1> QED
    BY <1>1 DEF ConnOf, Has

(* A command is written to a connection.                                   *)
LEMMA ConnAsks ==
    ASSUME NEW k \in RedisConn, NEW n \in Seq(Asked)
    PROVE  LET s == [k EXCEPT !.asked = n] IN
           /\ s \in RedisConn /\ s.open = k.open /\ s.closed = k.closed /\ s.granted = k.granted
           /\ s.asked = n /\ s.replies = k.replies
  <1> DEFINE s == [k EXCEPT !.asked = n]
             o == k.open
             x == k.closed
             y == k.asked
             p == k.replies
             g == k.granted
  <1>1. /\ k = [open |-> o, closed |-> x, asked |-> y, replies |-> p, granted |-> g]
        /\ o \in BOOLEAN /\ x \in BOOLEAN /\ y \in Seq(Asked) /\ p \in Seq(Reply) /\ g \in SUBSET Asked
    BY ConnIs, Zenon
  <1> HIDE DEF o, x, y, p, g
  <1>2. s = [open |-> o, closed |-> x, asked |-> n, replies |-> p, granted |-> g]
    BY <1>1
  <1>3. s \in RedisConn /\ s.open = o /\ s.closed = x /\ s.asked = n /\ s.replies = p /\ s.granted = g
    <2>1. o \in BOOLEAN /\ x \in BOOLEAN /\ y \in Seq(Asked) /\ p \in Seq(Reply) /\ g \in SUBSET Asked
      BY <1>1, Zenon
    <2>2. s = ConnOf(o, x, n, p, g)
      BY <1>2, Zenon DEF ConnOf
    <2> HIDE DEF s
    <2>3. Has(ConnOf(o, x, n, p, g), o, x, n, p, g)
      BY <2>1, ConnFrom, Zenon
    <2> QED
      BY <2>2, <2>3, Zenon DEF Has
  <1> QED
    BY <1>3, Zenon DEF o, x, y, p, g

(* A reply is read from a connection.                                      *)
LEMMA ConnReads ==
    ASSUME NEW k \in RedisConn, NEW n \in Seq(Reply)
    PROVE  LET s == [k EXCEPT !.replies = n] IN
           /\ s \in RedisConn /\ s.open = k.open /\ s.closed = k.closed /\ s.granted = k.granted
           /\ s.replies = n /\ s.asked = k.asked
  <1> DEFINE s == [k EXCEPT !.replies = n]
             o == k.open
             x == k.closed
             y == k.asked
             p == k.replies
             g == k.granted
  <1>1. /\ k = [open |-> o, closed |-> x, asked |-> y, replies |-> p, granted |-> g]
        /\ o \in BOOLEAN /\ x \in BOOLEAN /\ y \in Seq(Asked) /\ p \in Seq(Reply) /\ g \in SUBSET Asked
    BY ConnIs, Zenon
  <1> HIDE DEF o, x, y, p, g
  <1>2. s = [open |-> o, closed |-> x, asked |-> y, replies |-> n, granted |-> g]
    BY <1>1
  <1>3. s \in RedisConn /\ s.open = o /\ s.closed = x /\ s.replies = n /\ s.asked = y /\ s.granted = g
    <2>1. o \in BOOLEAN /\ x \in BOOLEAN /\ y \in Seq(Asked) /\ p \in Seq(Reply) /\ g \in SUBSET Asked
      BY <1>1, Zenon
    <2>2. s = ConnOf(o, x, y, n, g)
      BY <1>2, Zenon DEF ConnOf
    <2> HIDE DEF s
    <2>3. Has(ConnOf(o, x, y, n, g), o, x, y, n, g)
      BY <2>1, ConnFrom, Zenon
    <2> QED
      BY <2>2, <2>3, Zenon DEF Has
  <1> QED
    BY <1>3, Zenon DEF o, x, y, p, g

(* One step of the server with a connection.                               *)
LEMMA ServerOnly ==
    ASSUME RedisIInv, NEW c \in RedisConns, NEW k \in RedisConn, redis_conns' = [redis_conns EXCEPT ![c] = k],
           k.open <=> redis_conns[c].open, UNCHANGED <<redis, redis_tasks, redis_pool, commands, crossed>>,
           \A t \in RedisTasks : redis_tasks[t].conn = c => WorkOK(k, redis_tasks[t], redis),
           InPool(redis_pool, c) => PoolOK(k, redis)
    PROVE  RedisIInv'
  <1>1. RedisType /\ OwnersOK /\ ContentOK /\ RoomOK /\ ~ crossed /\ redis_conns \in [RedisConns -> RedisConn]
    BY Zenon DEF RedisIInv, RedisType
  <1>2. /\ redis_conns' \in [RedisConns -> RedisConn] /\ redis_conns'[c] = k
        /\ \A d \in RedisConns : d # c => redis_conns'[d] = redis_conns[d]
    BY <1>1
  <1>3. /\ redis' = redis /\ redis_tasks' = redis_tasks /\ redis_pool' = redis_pool /\ commands' = commands /\ crossed' = crossed
    OBVIOUS
  <1>4. RedisType'
    BY <1>1, <1>2, <1>3, Zenon DEF RedisType
  <1>5. \A d \in RedisConns : redis_conns'[d].open <=> redis_conns[d].open
    BY <1>2, Zenon
  <1>6. \A t \in RedisTasks : redis_tasks[t].conn # 0 => redis_tasks[t].conn \in RedisConns
    BY <1>1, Zenon DEF RedisType, RequestOK
  <1>7. OwnersOK'
    <2>1. /\ \A t \in RedisTasks : redis_tasks[t].conn # 0 =>
                 redis_conns'[redis_tasks[t].conn].open /\ ~ InPool(redis_pool, redis_tasks[t].conn)
          /\ \A d \in RedisConns : InPool(redis_pool, d) => redis_conns'[d].open
          /\ \A d \in RedisConns : redis_conns'[d].open => InPool(redis_pool, d) \/ \E t \in RedisTasks : redis_tasks[t].conn = d
      BY <1>1, <1>5, <1>6, Zenon DEF OwnersOK, Owned
    <2> QED
      <3>1. /\ \A t, u \in RedisTasks : redis_tasks[t].conn # 0 /\ redis_tasks[t].conn = redis_tasks[u].conn => t = u
            /\ \A i, j \in 1..Len(redis_pool) : redis_pool[i] = redis_pool[j] => i = j
        BY <1>1, Zenon DEF OwnersOK, Owned
      <3>2. Owned(redis_tasks, redis_conns', redis_pool)
        BY <2>1, <3>1, Zenon DEF Owned
      <3> QED
        BY <1>3, <3>2, Zenon DEF OwnersOK
  <1>8. ContentOK'
    <2>1. \A t \in RedisTasks : redis_tasks[t].conn # 0 => WorkOK(redis_conns'[redis_tasks[t].conn], redis_tasks[t], redis)
      <3> SUFFICES ASSUME NEW t \in RedisTasks, redis_tasks[t].conn # 0
                   PROVE  WorkOK(redis_conns'[redis_tasks[t].conn], redis_tasks[t], redis)
        BY Zenon
      <3>1. CASE redis_tasks[t].conn = c
        BY <1>2, <3>1, Zenon
      <3>2. CASE redis_tasks[t].conn # c
        <4>1. redis_conns'[redis_tasks[t].conn] = redis_conns[redis_tasks[t].conn]
          BY <1>2, <1>6, <3>2, Zenon
        <4>2. WorkOK(redis_conns[redis_tasks[t].conn], redis_tasks[t], redis)
          BY <1>1, Zenon DEF ContentOK
        <4> QED
          BY <4>1, <4>2, Zenon
      <3> QED
        BY <3>1, <3>2
    <2>2. \A d \in RedisConns : InPool(redis_pool, d) => PoolOK(redis_conns'[d], redis)
      BY <1>1, <1>2, Zenon DEF ContentOK
    <2> QED
      BY <1>3, <2>1, <2>2, Zenon DEF ContentOK
  <1>9. RoomOK'
    BY <1>1, <1>3, <1>5, RoomStays
  <1>10. ~ crossed'
    BY <1>1, <1>3
  <1> QED
    BY <1>4, <1>7, <1>8, <1>9, <1>10, Zenon DEF RedisIInv

(* The server answers what it was asked first.                             *)
LEMMA AnswersKeeps == ASSUME RedisIInv, NEW c \in RedisConns, RedisAnswers(c) PROVE RedisIInv'
  <1> DEFINE k == redis_conns[c]
             o == k.open
             x == k.closed
  <1>1. RedisType /\ ContentOK /\ k \in RedisConn /\ redis_conns \in [RedisConns -> RedisConn]
    BY Zenon DEF RedisIInv, RedisType
  <1>2. /\ k.asked # <<>> /\ ~ k.closed /\ UNCHANGED <<redis, redis_tasks, redis_pool, commands, crossed>>
    BY DEF RedisAnswers
  <1>3. PICK value \in {"value", "error", "malformed"} :
              redis_conns' = [redis_conns EXCEPT ![c].asked = Tail(@),
                  ![c].replies = Append(@, [to |-> Head(k.asked), value |-> value]),
                  ![c].granted = IF value = "value" THEN @ \cup {Head(k.asked)} ELSE @]
    BY Zenon DEF RedisAnswers
  <1> DEFINE a == Tail(k.asked)
             p == Append(k.replies, [to |-> Head(k.asked), value |-> value])
             g == IF value = "value" THEN k.granted \cup {Head(k.asked)} ELSE k.granted
             n == [open |-> o, closed |-> x, asked |-> a, replies |-> p, granted |-> g]
  <1>4. /\ o \in BOOLEAN /\ x \in BOOLEAN /\ k.asked \in Seq(Asked) /\ k.replies \in Seq(Reply) /\ k.granted \in SUBSET Asked
        /\ k = [open |-> o, closed |-> x, asked |-> k.asked, replies |-> k.replies, granted |-> k.granted]
    BY <1>1, ConnIs
  <1>5. a \in Seq(Asked) /\ Head(k.asked) \in Asked
    BY <1>2, <1>4
  <1>6. p \in Seq(Reply)
    <2>1. [to |-> Head(k.asked), value |-> value] \in Reply
      BY <1>3, <1>5 DEF Reply
    <2>2. \A S : \A r \in Seq(S), e \in S : Append(r, e) \in Seq(S)
      OBVIOUS
    <2> QED
      BY <1>4, <2>1, <2>2, Zenon
  <1>7. g \in SUBSET Asked
    BY <1>4, <1>5
  <1>8. redis_conns' = [redis_conns EXCEPT ![c] = n]
    <2> DEFINE m == [k EXCEPT !.asked = a, !.replies = p, !.granted = g]
    <2>1. redis_conns' = [redis_conns EXCEPT ![c] = m]
      BY <1>1, <1>3, Zenon
    <2> HIDE DEF a, p, g, o, x
    <2>2. m = n
      <3> DEFINE y == k.asked
                 z == k.replies
                 w == k.granted
                 m1 == [k EXCEPT !.asked = a]
                 m2 == [m1 EXCEPT !.replies = p]
      <3>1. k = [open |-> o, closed |-> x, asked |-> y, replies |-> z, granted |-> w]
        BY <1>4
      <3> HIDE DEF k, y, z, w
      <3>2. m1 = [open |-> o, closed |-> x, asked |-> a, replies |-> z, granted |-> w]
        BY <3>1
      <3>3. m = [m2 EXCEPT !.granted = g]
        BY <3>1
      <3> HIDE DEF m1
      <3>4. m2 = [open |-> o, closed |-> x, asked |-> a, replies |-> p, granted |-> w]
        BY <3>2
      <3> HIDE DEF m2
      <3>5. [m2 EXCEPT !.granted = g] = n
        BY <3>4
      <3> QED
        BY <3>3, <3>5
    <2> QED
      BY <2>1, <2>2, Zenon
  <1> HIDE DEF o, x, a, p, g, n
  <1>9. n \in RedisConn /\ n.open = o /\ n.closed = x /\ n.asked = a /\ n.replies = p /\ n.granted = g
    <2>1. n = ConnOf(o, x, a, p, g)
      BY Zenon DEF n, ConnOf
    <2> QED
      <3>1. Has(ConnOf(o, x, a, p, g), o, x, a, p, g)
        BY <1>4, <1>5, <1>6, <1>7, ConnFrom, Zenon
      <3> QED
        BY <2>1, <3>1, Zenon DEF Has
  <1>10. ASSUME NEW t \in RedisTasks, redis_tasks[t].conn = c PROVE WorkOK(n, redis_tasks[t], redis)
    <2> DEFINE e == Expected(redis_tasks[t])
    <2>1. WorkOK(k, redis_tasks[t], redis)
      BY <1>1, <1>10, RedisAssumption DEF ContentOK
    <2>2. k.asked = <<e>> /\ k.replies = <<>>
      BY <1>2, <2>1, Zenon DEF WorkOK, Awaits
    <2>3. a = <<>> /\ Head(k.asked) = e
      BY <2>2 DEF a
    <2>4. p = <<[to |-> e, value |-> value]>>
      <3>1. p = Append(<<>>, [to |-> e, value |-> value])
        BY <2>2, <2>3 DEF p
      <3> QED
        BY <3>1
    <2>5. (value = "value" => e \in g) /\ \A y \in k.granted : y \in g
      BY <2>3 DEF g
    <2>6. Awaits(n, e)
      BY <1>9, <2>3, <2>4, <2>5, Zenon DEF Awaits
    <2> QED
      BY <1>9, <2>1, <2>5, <2>6, Zenon DEF WorkOK
  <1>11. ~ InPool(redis_pool, c)
    BY <1>1, <1>2, Zenon DEF ContentOK, PoolOK
  <1>12. n.open <=> redis_conns[c].open
    BY <1>9, Zenon DEF o
  <1> QED
    BY <1>2, <1>8, <1>9, <1>10, <1>11, <1>12, ServerOnly, Zenon

(* The server closes a connection: what it has not answered it never will. *)
LEMMA ClosesKeeps == ASSUME RedisIInv, NEW c \in RedisConns, RedisCloses(c) PROVE RedisIInv'
  <1> DEFINE k == redis_conns[c]
             o == k.open
             p == k.replies
             g == k.granted
             yes == TRUE
             none == <<>>
             n == [open |-> o, closed |-> yes, asked |-> none, replies |-> p, granted |-> g]
  <1>1. RedisType /\ ContentOK /\ k \in RedisConn /\ redis_conns \in [RedisConns -> RedisConn]
    BY Zenon DEF RedisIInv, RedisType
  <1>2. /\ UNCHANGED <<redis, redis_tasks, redis_pool, commands, crossed>>
        /\ redis_conns' = [redis_conns EXCEPT ![c].closed = TRUE, ![c].asked = <<>>]
    BY DEF RedisCloses
  <1>3. /\ o \in BOOLEAN /\ p \in Seq(Reply) /\ g \in SUBSET Asked
        /\ k = [open |-> o, closed |-> k.closed, asked |-> k.asked, replies |-> p, granted |-> g]
    BY <1>1, ConnIs
  <1>4. redis_conns' = [redis_conns EXCEPT ![c] = n]
    <2> DEFINE m == [k EXCEPT !.closed = yes, !.asked = none]
               x == k.closed
               y == k.asked
               m1 == [k EXCEPT !.closed = yes]
    <2>1. redis_conns' = [redis_conns EXCEPT ![c] = m]
      BY <1>1, <1>2, Zenon
    <2>2. k = [open |-> o, closed |-> x, asked |-> y, replies |-> p, granted |-> g]
      BY <1>3
    <2>3. m = [m1 EXCEPT !.asked = none]
      BY <2>2
    <2> HIDE DEF o, p, g, k, x, y, yes, none
    <2>4. m1 = [open |-> o, closed |-> yes, asked |-> y, replies |-> p, granted |-> g]
      BY <2>2
    <2> HIDE DEF m1
    <2>5. [m1 EXCEPT !.asked = none] = n
      BY <2>4
    <2> HIDE DEF m, n
    <2>6. m = n
      BY <2>3, <2>5
    <2> QED
      BY <2>1, <2>6
  <1> HIDE DEF o, p, g, n, yes, none
  <1>5. n \in RedisConn /\ n.open = o /\ n.closed = yes /\ n.asked = none /\ n.replies = p /\ n.granted = g
    <2>1. yes \in BOOLEAN /\ none \in Seq(Asked)
      BY DEF yes, none
    <2> QED
      <3>1. n = ConnOf(o, yes, none, p, g)
        BY Zenon DEF n, ConnOf
      <3>2. o \in BOOLEAN /\ p \in Seq(Reply) /\ g \in SUBSET Asked
        BY <1>3, Zenon
      <3>3. Has(ConnOf(o, yes, none, p, g), o, yes, none, p, g)
        BY <2>1, <3>2, ConnFrom, Zenon
      <3> QED
        BY <3>1, <3>3, Zenon DEF Has
  <1>6. ASSUME NEW t \in RedisTasks, redis_tasks[t].conn = c PROVE WorkOK(n, redis_tasks[t], redis)
    <2>1. WorkOK(k, redis_tasks[t], redis)
      BY <1>1, <1>6, RedisAssumption DEF ContentOK
    <2>2. Awaits(n, Expected(redis_tasks[t]))
      BY <1>5, <2>1, Zenon DEF WorkOK, Awaits, p, g, yes, none
    <2> QED
      BY <1>5, <2>1, <2>2, Zenon DEF WorkOK, g
  <1>7. InPool(redis_pool, c) => PoolOK(n, redis)
    BY <1>1, <1>5, Zenon DEF ContentOK, PoolOK, p, g, none
  <1>8. n.open <=> redis_conns[c].open
    BY <1>5, Zenon DEF o
  <1> QED
    BY <1>2, <1>4, <1>5, <1>6, <1>7, <1>8, ServerOnly, Zenon

(* What the invariant says of the request and its connection.              *)
LEMMA OwnConn ==
    ASSUME RedisIInv, NEW t \in RedisTasks, redis_tasks[t].pc \in Working
    PROVE  LET c == redis_tasks[t].conn IN
           /\ c \in RedisConns /\ c # 0 /\ redis_conns[c] \in RedisConn /\ redis_conns[c].open
           /\ ~ InPool(redis_pool, c) /\ \A u \in RedisTasks : u # t => redis_tasks[u].conn # c
           /\ WorkOK(redis_conns[c], redis_tasks[t], redis) /\ redis_tasks[t].request \in Asked
  <1> DEFINE c == redis_tasks[t].conn
  <1>1. RedisType /\ OwnersOK /\ ContentOK
    BY Zenon DEF RedisIInv
  <1>2. RequestOK(redis_tasks[t]) /\ redis_conns \in [RedisConns -> RedisConn]
    BY <1>1, Zenon DEF RedisType
  <1>3. redis_tasks[t].pc # "free"
    BY DEF Working
  <1>4. c \in RedisConns /\ redis_tasks[t].request \in Asked
    BY <1>2, <1>3, Zenon DEF RequestOK
  <1>5. c # 0
    BY <1>4, RedisAssumption
  <1>6. /\ redis_conns[c] \in RedisConn /\ redis_conns[c].open /\ ~ InPool(redis_pool, c)
        /\ \A u \in RedisTasks : u # t => redis_tasks[u].conn # c
    BY <1>1, <1>2, <1>4, <1>5, Zenon DEF OwnersOK, Owned
  <1>7. WorkOK(redis_conns[c], redis_tasks[t], redis)
    BY <1>1, <1>5, Zenon DEF ContentOK
  <1> QED
    BY <1>4, <1>5, <1>6, <1>7, Zenon

(* A request ends and its connection is dropped.                           *)
LEMMA DropKeeps ==
    ASSUME RedisIInv, NEW t \in RedisTasks, redis_tasks[t].pc \in Working, EndRequest(t),
           redis_conns' = [redis_conns EXCEPT ![redis_tasks[t].conn] = NoRedisConn],
           UNCHANGED <<redis, redis_pool, commands>>, ~ crossed'
    PROVE  RedisIInv'
  <1> DEFINE c == redis_tasks[t].conn
  <1>1. RedisType /\ OwnersOK /\ ContentOK /\ RoomOK
    BY Zenon DEF RedisIInv
  <1>2. /\ c \in RedisConns /\ c # 0 /\ ~ InPool(redis_pool, c) /\ \A u \in RedisTasks : u # t => redis_tasks[u].conn # c
    BY OwnConn, Zenon
  <1>3. /\ redis_tasks' = [redis_tasks EXCEPT ![t] = NoRequest] /\ redis' = redis /\ redis_pool' = redis_pool
        /\ commands' = commands /\ commands \in Nat /\ redis_pool \in Seq(RedisConns)
        /\ \A i, j \in 1..Len(redis_pool) : redis_pool[i] = redis_pool[j] => i = j
        /\ redis_conns \in [RedisConns -> RedisConn] /\ redis_tasks = [u \in RedisTasks |-> redis_tasks[u]]
    BY <1>1, Zenon DEF EndRequest, RedisType, OwnersOK, Owned
  <1>4. /\ redis_conns' = [redis_conns EXCEPT ![c] = NoRedisConn] /\ redis_tasks[t].conn \in {0, c} /\ NoRequest.conn \in {0, c}
        /\ NoRequest.conn # c
    BY <1>2, NoRequestIs
  <1> HIDE DEF c
  <1>5. RedisType' /\ OwnersOK' /\ ContentOK'
    <2>1. \A d \in RedisConns : d # c => (InPool(redis_pool', d) <=> InPool(redis_pool, d))
      BY <1>3
    <2>2. /\ redis_pool' \in Seq(RedisConns) /\ commands' \in Nat /\ ~ InPool(redis_pool', c)
          /\ \A i, j \in 1..Len(redis_pool') : redis_pool'[i] = redis_pool'[j] => i = j
      BY <1>2, <1>3
    <2>3. /\ NoRequest.conn = c => NoRedisConn.open /\ WorkOK(NoRedisConn, NoRequest, redis)
          /\ InPool(redis_pool', c) => NoRedisConn.open /\ NoRequest.conn = 0 /\ PoolOK(NoRedisConn, redis)
          /\ NoRedisConn.open => NoRequest.conn = c \/ InPool(redis_pool', c)
      BY <1>4, <2>2, NoRequestIs, Zenon
    <2>4. NoRedisConn \in RedisConn /\ RequestOK(NoRequest)
      BY NoRequestIs, Zenon
    <2>5. OneStep(t, c, NoRequest, NoRedisConn)
      BY <1>2, <1>3, <1>4, <2>1, <2>2, <2>3, <2>4, Zenon DEF OneStep
    <2> QED
      BY <1>1, <1>2, <2>5, OneRequest, Zenon
  <1>6. RoomOK'
    <2>1. \A d \in RedisConns : redis_conns'[d].open => redis_conns[d].open
      <3>1. /\ redis_conns'[c] = NoRedisConn /\ \A d \in RedisConns : d # c => redis_conns'[d] = redis_conns[d]
        BY <1>2, <1>3, <1>4
      <3> QED
        BY <3>1, NoRequestIs, Zenon
    <2>2. \A u \in RedisTasks : redis_tasks'[u].pc = "connect" => redis_tasks[u].pc = "connect"
      <3>1. redis_tasks'[t] = NoRequest /\ \A u \in RedisTasks : u # t => redis_tasks'[u] = redis_tasks[u]
        BY <1>3
      <3>2. NoRequest.pc # "connect"
        BY NoRequestIs
      <3> QED
        BY <3>1, <3>2, Zenon
    <2> QED
      BY <1>1, <2>1, <2>2, RoomStays
  <1> QED
    BY <1>5, <1>6, Zenon DEF RedisIInv

(* A request without a connection changes.                                 *)
LEMMA TaskOnly ==
    ASSUME RedisType, OwnersOK, ContentOK, NEW t \in RedisTasks, NEW r, RequestOK(r), r.conn = 0, redis_tasks[t].conn = 0,
           redis_tasks' = [redis_tasks EXCEPT ![t] = r], UNCHANGED <<redis, redis_conns, redis_pool>>, commands' \in Nat
    PROVE  RedisType' /\ OwnersOK' /\ ContentOK'
  <1>1. /\ redis_tasks'[t] = r /\ (\A u \in RedisTasks : u # t => redis_tasks'[u] = redis_tasks[u])
        /\ redis_tasks' = [u \in RedisTasks |-> redis_tasks'[u]]
    BY DEF RedisType
  <1>2. redis' = redis /\ redis_conns' = redis_conns /\ redis_pool' = redis_pool
    OBVIOUS
  <1>3. \A u \in RedisTasks : /\ redis_tasks'[u].conn = redis_tasks[u].conn
                              /\ redis_tasks'[u].conn # 0 => redis_tasks'[u] = redis_tasks[u]
    BY <1>1, Zenon
  <1>4. RedisType'
    <2>1. \A u \in RedisTasks : RequestOK(redis_tasks'[u])
      BY <1>1, Zenon DEF RedisType
    <2> QED
      BY <1>1, <1>2, <2>1, Zenon DEF RedisType
  <1>5. OwnersOK'
    <2>1. \A u \in RedisTasks : redis_tasks'[u].conn # 0 =>
             redis_conns[redis_tasks'[u].conn].open /\ ~ InPool(redis_pool, redis_tasks'[u].conn)
      BY <1>3, Zenon DEF OwnersOK, Owned
    <2>2. \A u, v \in RedisTasks : redis_tasks'[u].conn # 0 /\ redis_tasks'[u].conn = redis_tasks'[v].conn => u = v
      <3> SUFFICES ASSUME NEW u \in RedisTasks, NEW v \in RedisTasks, redis_tasks'[u].conn # 0,
                          redis_tasks'[u].conn = redis_tasks'[v].conn
                   PROVE  u = v
        BY Zenon
      <3>1. redis_tasks[u].conn # 0 /\ redis_tasks[u].conn = redis_tasks[v].conn
        BY <1>3
      <3> QED
        BY <3>1, Zenon DEF OwnersOK, Owned
    <2>3. \A d \in RedisConns : redis_conns[d].open => InPool(redis_pool, d) \/ \E u \in RedisTasks : redis_tasks'[u].conn = d
      <3> SUFFICES ASSUME NEW d \in RedisConns, redis_conns[d].open, ~ InPool(redis_pool, d)
                   PROVE  \E u \in RedisTasks : redis_tasks'[u].conn = d
        BY Zenon
      <3>1. PICK u \in RedisTasks : redis_tasks[u].conn = d
        BY Zenon DEF OwnersOK, Owned
      <3>2. redis_tasks'[u].conn = d
        BY <1>3, <3>1
      <3> QED
        BY <3>2, Zenon
    <2>4. /\ \A i, j \in 1..Len(redis_pool) : redis_pool[i] = redis_pool[j] => i = j
          /\ \A d \in RedisConns : InPool(redis_pool, d) => redis_conns[d].open
      BY Zenon DEF OwnersOK, Owned
    <2>5. Owned(redis_tasks', redis_conns, redis_pool)
      BY <2>1, <2>2, <2>3, <2>4, Zenon DEF Owned
    <2> QED
      BY <1>2, <2>5, Zenon DEF OwnersOK
  <1>6. ContentOK'
    <2>1. \A u \in RedisTasks : redis_tasks'[u].conn # 0 => WorkOK(redis_conns[redis_tasks'[u].conn], redis_tasks'[u], redis)
      <3> SUFFICES ASSUME NEW u \in RedisTasks, redis_tasks'[u].conn # 0
                   PROVE  WorkOK(redis_conns[redis_tasks'[u].conn], redis_tasks'[u], redis)
        BY Zenon
      <3>1. redis_tasks'[u] = redis_tasks[u] /\ redis_tasks[u].conn # 0
        BY <1>3
      <3>2. WorkOK(redis_conns[redis_tasks[u].conn], redis_tasks[u], redis)
        BY <3>1, Zenon DEF ContentOK
      <3> QED
        BY <3>1, <3>2, Zenon
    <2>2. \A d \in RedisConns : InPool(redis_pool, d) => PoolOK(redis_conns[d], redis)
      BY Zenon DEF ContentOK
    <2> QED
      BY <1>2, <2>1, <2>2, Zenon DEF ContentOK
  <1> QED
    BY <1>4, <1>5, <1>6

(* A request that has no connection yet ends.                              *)
LEMMA EndsWithout ==
    ASSUME RedisIInv, NEW t \in RedisTasks, redis_tasks[t].conn = 0, EndRequest(t),
           UNCHANGED <<redis, redis_conns, redis_pool, commands>>, ~ crossed'
    PROVE  RedisIInv'
  <1>1. RedisType /\ OwnersOK /\ ContentOK /\ RoomOK /\ commands \in Nat /\ redis_tasks = [u \in RedisTasks |-> redis_tasks[u]]
    BY Zenon DEF RedisIInv, RedisType
  <1>2. /\ redis_tasks' = [redis_tasks EXCEPT ![t] = NoRequest] /\ UNCHANGED <<redis, redis_conns, redis_pool>>
        /\ commands' = commands
    BY DEF EndRequest
  <1>3. RedisType' /\ OwnersOK' /\ ContentOK'
    BY <1>1, <1>2, NoRequestIs, TaskOnly
  <1>4. \A u \in RedisTasks : redis_tasks'[u].pc = "connect" => redis_tasks[u].pc = "connect"
    <2>1. redis_tasks'[t] = NoRequest /\ \A u \in RedisTasks : u # t => redis_tasks'[u] = redis_tasks[u]
      BY <1>1, <1>2
    <2>2. NoRequest.pc # "connect"
      BY NoRequestIs
    <2> QED
      BY <2>1, <2>2, Zenon
  <1>5. \A d \in RedisConns : redis_conns'[d].open => redis_conns[d].open
    BY <1>2
  <1>6. RoomOK'
    BY <1>1, <1>4, <1>5, RoomStays
  <1> QED
    BY <1>3, <1>6, Zenon DEF RedisIInv


(* A connection on which what can be asked next, and one that belongs to   *)
(* the request when it asks.                                               *)
Ready(what, k) ==
    /\ k \in RedisConn /\ k.open /\ k.asked = <<>> /\ k.replies = <<>>
    /\ what # "AUTH" /\ redis.password => "AUTH" \in k.granted
    /\ what = "command" /\ redis.db => "SELECT" \in k.granted

Acquired(t, c) ==
    /\ redis' = redis /\ commands' \in Nat
    /\ redis_tasks[t].conn \in {0, c} /\ \A u \in RedisTasks : u # t => redis_tasks[u].conn # c
    /\ redis_pool' \in Seq(RedisConns) /\ ~ InPool(redis_pool', c)
    /\ \A i, j \in 1..Len(redis_pool') : redis_pool'[i] = redis_pool'[j] => i = j
    /\ \A d \in RedisConns : d # c => (InPool(redis_pool', d) <=> InPool(redis_pool, d))

(* The connection after a write: it waits for the answer to what was asked.*)
LEMMA SentConn ==
    ASSUME NEW what \in Working, NEW request \in Asked, NEW c, NEW k, Ready(what, k)
    PROVE  LET s == [k EXCEPT !.asked = Append(@, IF what = "command" THEN request ELSE what)]
               r == [pc |-> what, conn |-> c, request |-> request]
           IN  s \in RedisConn /\ s.open /\ WorkOK(s, r, redis)
  <1> DEFINE s == [k EXCEPT !.asked = Append(@, IF what = "command" THEN request ELSE what)]
             r == [pc |-> what, conn |-> c, request |-> request]
             e == IF what = "command" THEN request ELSE what
  <1>1. r.pc = what /\ r.conn = c /\ r.request = request
    OBVIOUS
  <1>2. e \in Asked /\ Expected(r) = e
    <2>1. CASE what = "command"
      BY <1>1, <2>1 DEF Expected
    <2>2. CASE what # "command"
      <3>1. e = what /\ what \in {"AUTH", "SELECT"}
        BY <2>2 DEF Working
      <3>2. Expected(r) = what
        BY <1>1, <2>2 DEF Expected
      <3> QED
        BY <3>1, <3>2, Zenon DEF Asked
    <2> QED
      BY <2>1, <2>2
  <1>3. k.open /\ k \in RedisConn /\ k.asked = <<>> /\ k.replies = <<>>
    BY Zenon DEF Ready
  <1>5. Append(k.asked, e) \in Seq(Asked) /\ Append(k.asked, e) = <<e>> /\ <<e>> \in Seq(Asked)
    BY <1>2, <1>3
  <1>6. s = [k EXCEPT !.asked = <<e>>]
    BY <1>5
  <1> HIDE DEF e, s, r
  <1>8. s \in RedisConn
    BY <1>3, <1>5, <1>6, ConnAsks, Zenon
  <1>9. s.open /\ s.asked = <<e>> /\ s.replies = <<>> /\ s.granted = k.granted
    <2>1. s.open = k.open /\ s.asked = <<e>> /\ s.replies = k.replies /\ s.granted = k.granted
      BY <1>3, <1>5, <1>6, ConnAsks, Zenon
    <2> QED
      BY <1>3, <2>1, Zenon
  <1>10. WorkOK(s, r, redis)
    <2>1. Awaits(s, Expected(r))
      BY <1>2, <1>9, Zenon DEF Awaits
    <2> QED
      BY <1>1, <1>9, <2>1, Zenon DEF WorkOK, Ready
  <1> QED
    BY <1>8, <1>9, <1>10, Zenon DEF s, r

(* Writing keeps the order of things, whether the server has closed the    *)
(* connection or not.                                                      *)
LEMMA WriteKeeps ==
    ASSUME RedisType, OwnersOK, ContentOK, NEW t \in RedisTasks, NEW c \in RedisConns, NEW what \in Working,
           NEW request \in Asked, NEW k, Ready(what, k), Send(t, c, what, request, k), Acquired(t, c)
    PROVE  /\ RedisType' /\ OwnersOK' /\ ContentOK' /\ crossed' = crossed
           /\ \A d \in RedisConns : d # c => redis_conns'[d] = redis_conns[d]
           /\ \A u \in RedisTasks : redis_tasks'[u].pc = "connect" => u # t /\ redis_tasks[u].pc = "connect"
  <1>0. redis_conns \in [RedisConns -> RedisConn] /\ redis_tasks = [u \in RedisTasks |-> redis_tasks[u]] /\ c # 0
    BY RedisAssumption DEF RedisType
  <1>1. CASE ~ k.closed
    <2> DEFINE s == [k EXCEPT !.asked = Append(@, IF what = "command" THEN request ELSE what)]
               r == [pc |-> what, conn |-> c, request |-> request]
    <2>1. /\ redis_conns' = [redis_conns EXCEPT ![c] = s] /\ redis_tasks' = [redis_tasks EXCEPT ![t] = r]
          /\ crossed' = crossed
      BY <1>1, Zenon DEF Send
    <2>2. s \in RedisConn /\ s.open /\ WorkOK(s, r, redis)
      BY SentConn, Zenon
    <2>3. r.pc = what /\ r.conn = c /\ r.request = request
      OBVIOUS
    <2> HIDE DEF s, r
    <2>4. RequestOK(r)
      <3>1. what # "free"
        BY DEF Working
      <3> QED
        BY <2>3, <3>1 DEF RequestOK
    <2>5. OneStep(t, c, r, s)
      BY <2>1, <2>2, <2>3, <2>4, Zenon DEF OneStep, Acquired
    <2>6. \A d \in RedisConns : d # c => redis_conns'[d] = redis_conns[d]
      BY <1>0, <2>1
    <2>7. \A u \in RedisTasks : redis_tasks'[u].pc = "connect" => u # t /\ redis_tasks[u].pc = "connect"
      <3>1. redis_tasks'[t] = r /\ \A u \in RedisTasks : u # t => redis_tasks'[u] = redis_tasks[u]
        BY <1>0, <2>1
      <3>2. what # "connect"
        BY DEF Working
      <3> QED
        BY <2>3, <3>1, <3>2, Zenon
    <2> QED
      BY <2>1, <2>5, <2>6, <2>7, OneRequest, Zenon
  <1>2. CASE k.closed
    <2>1. /\ redis_conns' = [redis_conns EXCEPT ![c] = NoRedisConn] /\ redis_tasks' = [redis_tasks EXCEPT ![t] = NoRequest]
          /\ crossed' = crossed
      BY <1>2, Zenon DEF Send, EndRequest
    <2>2. NoRequest.conn # c /\ NoRequest.conn \in {0, c}
      BY <1>0, NoRequestIs
    <2>5. OneStep(t, c, NoRequest, NoRedisConn)
      BY <2>1, <2>2, NoRequestIs, Zenon DEF OneStep, Acquired
    <2>6. \A d \in RedisConns : d # c => redis_conns'[d] = redis_conns[d]
      BY <1>0, <2>1
    <2>7. \A u \in RedisTasks : redis_tasks'[u].pc = "connect" => u # t /\ redis_tasks[u].pc = "connect"
      <3>1. redis_tasks'[t] = NoRequest /\ \A u \in RedisTasks : u # t => redis_tasks'[u] = redis_tasks[u]
        BY <1>0, <2>1
      <3>2. NoRequest.pc # "connect"
        BY NoRequestIs
      <3> QED
        BY <3>1, <3>2, Zenon
    <2> QED
      BY <2>1, <2>5, <2>6, <2>7, OneRequest, Zenon
  <1>3. k.closed \in BOOLEAN
    BY ConnIs, Zenon DEF Ready
  <1> QED
    BY <1>1, <1>2, Zenon

(* A request takes the oldest connection of the pool.                      *)
LEMMA ExecutePooledKeeps ==
    ASSUME RedisIInv, NEW t \in RedisTasks, RedisExecute(t), Pooled
    PROVE  RedisIInv'
  <1> DEFINE c == Head(redis_pool)
             k == redis_conns[c]
             n == ToString(commands)
  <1>1. RedisType /\ OwnersOK /\ ContentOK /\ RoomOK /\ ~ crossed /\ commands \in Nat /\ redis_pool \in Seq(RedisConns)
    BY Zenon DEF RedisIInv, RedisType
  <1>2. /\ redis_tasks[t].pc = "free" /\ commands' = commands + 1 /\ redis_pool' = Tail(redis_pool) /\ redis' = redis
        /\ Send(t, c, "command", n, k)
    BY Zenon DEF RedisExecute, Popped
  <1>3. redis_pool # <<>> /\ \A i, j \in 1..Len(redis_pool) : redis_pool[i] = redis_pool[j] => i = j
    BY <1>1, Zenon DEF Pooled, OwnersOK, Owned
  <1>4. /\ redis_pool' \in Seq(RedisConns) /\ c \in RedisConns /\ InPool(redis_pool, c) /\ ~ InPool(redis_pool', c)
        /\ \A i, j \in 1..Len(redis_pool') : redis_pool'[i] = redis_pool'[j] => i = j
        /\ \A d \in RedisConns : d # c => (InPool(redis_pool', d) <=> InPool(redis_pool, d))
    BY <1>1, <1>2, <1>3, PoolTail
  <1>5. k \in RedisConn /\ k.open /\ PoolOK(k, redis)
    BY <1>1, <1>4, Zenon DEF RedisType, OwnersOK, Owned, ContentOK
  <1>6. \A u \in RedisTasks : redis_tasks[u].conn # c
    <2>1. c # 0 /\ InPool(redis_pool, c)
      BY <1>4, RedisAssumption
    <2>2. \A u \in RedisTasks : redis_tasks[u].conn # 0 => ~ InPool(redis_pool, redis_tasks[u].conn)
      BY <1>1, Zenon DEF OwnersOK, Owned
    <2> HIDE DEF c
    <2> QED
      BY <2>1, <2>2, Zenon
  <1>7. redis_tasks[t].conn = 0
    <2>1. RequestOK(redis_tasks[t]) /\ redis_tasks[t].pc \notin Working
      <3>1. "free" \notin Working
        BY DEF Working
      <3> QED
        BY <1>1, <1>2, <3>1, Zenon DEF RedisType
    <2> QED
      BY <2>1, Zenon DEF RequestOK
  <1>8. "command" \in Working /\ n \in Asked /\ commands' \in Nat
    BY <1>1, <1>2 DEF Working, Asked
  <1> HIDE DEF c, k, n
  <1>9. Ready("command", k) /\ Acquired(t, c)
    <2>1. Ready("command", k)
      BY <1>5, Zenon DEF Ready, PoolOK
    <2>2. redis_tasks[t].conn \in {0, c}
      BY <1>7
    <2> QED
      BY <1>2, <1>4, <1>6, <1>8, <2>1, <2>2, Zenon DEF Acquired
  <1>10. /\ RedisType' /\ OwnersOK' /\ ContentOK' /\ crossed' = crossed
         /\ \A d \in RedisConns : d # c => redis_conns'[d] = redis_conns[d]
         /\ \A u \in RedisTasks : redis_tasks'[u].pc = "connect" => redis_tasks[u].pc = "connect"
    BY <1>1, <1>2, <1>4, <1>8, <1>9, WriteKeeps, Zenon
  <1>11. RoomOK'
    <2>1. \A d \in RedisConns : redis_conns'[d].open => redis_conns[d].open
      BY <1>5, <1>10, Zenon DEF k
    <2> QED
      BY <1>1, <1>10, <2>1, RoomStays, Zenon
  <1> QED
    BY <1>1, <1>10, <1>11, Zenon DEF RedisIInv

(* There is room for one more connection when none is idle: every open one *)
(* belongs to a request that is at work.                                   *)
LEMMA RoomForOne ==
    ASSUME RedisType, OwnersOK, IsFiniteSet(OpenConns), redis_pool = <<>>, NEW t \in RedisTasks, redis_tasks[t].pc = "free"
    PROVE  Cardinality(OpenConns) + Cardinality(Connecting \cup {t}) <= Cardinality(RedisTasks)
  <1> DEFINE W == {u \in RedisTasks : redis_tasks[u].pc \in Working}
             C == Connecting \cup {t}
             conn == [u \in W |-> redis_tasks[u].conn]
             I == {conn[u] : u \in W}
  <1>1. W \cap C = {} /\ W \cup C \in SUBSET RedisTasks /\ W \in SUBSET RedisTasks /\ C \in SUBSET RedisTasks
    <2>1. "free" \notin Working /\ "connect" \notin Working
      BY DEF Working
    <2> QED
      BY <2>1 DEF Connecting
  <1>2. /\ IsFiniteSet(W) /\ IsFiniteSet(C) /\ IsFiniteSet(W \cup C)
        /\ Cardinality(W \cup C) <= Cardinality(RedisTasks)
    BY <1>1, RedisAssumption, FS_Subset, Zenon
  <1>3. Cardinality(W \cup C) = Cardinality(W) + Cardinality(C)
    <2>1. Cardinality(W \cup C) = Cardinality(W) + Cardinality(C) - Cardinality(W \cap C)
      BY <1>2, FS_Union, Zenon
    <2>2. Cardinality(W \cap C) = 0
      BY <1>1, FS_EmptySet, Zenon
    <2>3. Cardinality(W) \in Nat /\ Cardinality(C) \in Nat
      BY <1>2, FS_CardinalityType, Zenon
    <2>4. \A x, y \in Nat : x + y - 0 = x + y
      OBVIOUS
    <2> QED
      BY <2>1, <2>2, <2>3, <2>4, Zenon
  <1>4. OpenConns \in SUBSET I
    <2> SUFFICES ASSUME NEW d \in OpenConns PROVE d \in I
      BY Zenon
    <2>1. d \in RedisConns /\ redis_conns[d].open
      BY Zenon DEF OpenConns
    <2>2. ~ InPool(redis_pool, d)
      BY DEF InPool
    <2>3. PICK u \in RedisTasks : redis_tasks[u].conn = d
      BY <2>1, <2>2, Zenon DEF OwnersOK, Owned
    <2>4. d # 0
      BY <2>1, RedisAssumption
    <2>5. redis_tasks[u].pc \in Working
      BY <2>3, <2>4, Zenon DEF RedisType, RequestOK
    <2>6. u \in W /\ conn[u] = d
      BY <2>3, <2>5
    <2> QED
      BY <2>6, Zenon
  <1>5. IsFiniteSet(I) /\ Cardinality(I) <= Cardinality(W)
    <2> HIDE DEF W, conn
    <2>1. IsFiniteSet(W)
      BY <1>2
    <2>2. conn \in Surjection(W, I)
      BY DEF Surjection, conn
    <2> HIDE DEF I
    <2> QED
      BY <2>1, <2>2, FS_Surjection, Zenon
  <1>6. Cardinality(OpenConns) <= Cardinality(I)
    BY <1>4, <1>5, FS_Subset, Zenon
  <1>7. /\ Cardinality(OpenConns) \in Nat /\ Cardinality(I) \in Nat /\ Cardinality(W) \in Nat /\ Cardinality(C) \in Nat
        /\ Cardinality(RedisTasks) \in Nat
    BY <1>2, <1>5, RedisAssumption, FS_CardinalityType, Zenon
  <1> HIDE DEF W, C, I
  <1> QED
    <2>1. Cardinality(OpenConns) + Cardinality(C) <= Cardinality(RedisTasks)
      BY <1>2, <1>3, <1>5, <1>6, <1>7
    <2> QED
      BY <2>1, Zenon DEF C

(* A request that finds the pool empty is to make a connection.            *)
LEMMA ExecuteConnectsKeeps ==
    ASSUME RedisIInv, NEW t \in RedisTasks, RedisExecute(t), ~ Pooled
    PROVE  RedisIInv'
  <1> DEFINE r == [pc |-> "connect", conn |-> 0, request |-> ToString(commands)]
  <1>1. /\ RedisType /\ OwnersOK /\ ContentOK /\ RoomOK /\ ~ crossed /\ commands \in Nat
        /\ redis_tasks = [u \in RedisTasks |-> redis_tasks[u]]
    BY Zenon DEF RedisIInv, RedisType
  <1>2. /\ redis_tasks[t].pc = "free" /\ commands' = commands + 1 /\ redis_tasks' = [redis_tasks EXCEPT ![t] = r]
        /\ UNCHANGED <<redis, redis_conns, redis_pool>> /\ crossed' = crossed
    BY DEF RedisExecute
  <1>3. r.pc = "connect" /\ r.conn = 0 /\ r.request = ToString(commands)
    OBVIOUS
  <1> HIDE DEF r
  <1>4. RequestOK(r)
    <2>1. "connect" \notin Working /\ r.request \in Asked
      BY <1>1, <1>3 DEF Working, Asked
    <2> QED
      BY <1>3, <2>1 DEF RequestOK
  <1>5. redis_tasks[t].conn = 0
    <2>1. "free" \notin Working
      BY DEF Working
    <2> QED
      BY <1>1, <1>2, <2>1, Zenon DEF RedisType, RequestOK
  <1>6. RedisType' /\ OwnersOK' /\ ContentOK'
    <2>1. commands' \in Nat
      BY <1>1, <1>2
    <2> QED
      BY <1>1, <1>2, <1>3, <1>4, <1>5, <2>1, TaskOnly, Zenon
  <1>7. RoomOK'
    <2>1. redis_tasks'[t] = r /\ \A u \in RedisTasks : u # t => redis_tasks'[u] = redis_tasks[u]
      BY <1>1, <1>2
    <2>2. Connecting' = Connecting \cup {t}
      BY <1>3, <2>1 DEF Connecting
    <2>3. OpenConns' = OpenConns
      BY <1>2 DEF OpenConns
    <2>4. IsFiniteSet(OpenConns) /\ redis_pool = <<>>
      BY <1>1, Zenon DEF RoomOK, Pooled
    <2>5. Cardinality(OpenConns) + Cardinality(Connecting \cup {t}) <= Cardinality(RedisTasks)
      BY <1>1, <1>2, <2>4, RoomForOne, Zenon
    <2> QED
      BY <2>2, <2>3, <2>4, <2>5, Zenon DEF RoomOK
  <1> QED
    BY <1>1, <1>2, <1>6, <1>7, Zenon DEF RedisIInv

(* The next thing to do on a connection.                                   *)
LEMMA SetupNext ==
    ASSUME RedisType, NEW done
    PROVE  /\ AfterSetup(done) \in Working
           /\ AfterSetup(done) # "AUTH" /\ redis.password => "AUTH" \in done
           /\ AfterSetup(done) = "command" /\ redis.db => "SELECT" \in done
           /\ "AUTH" \in done => AfterSetup(done) # "AUTH"
  <1>1. redis.password \in BOOLEAN /\ redis.db \in BOOLEAN
    BY RedisAssumption DEF RedisType
  <1> DEFINE a == AfterSetup(done)
  <1>2. CASE "AUTH" \notin done /\ redis.password
    <2>1. a = "AUTH"
      BY <1>2, Zenon DEF AfterSetup
    <2>2. a \in Working /\ a # "command"
      BY <2>1 DEF Working
    <2> QED
      BY <1>2, <2>1, <2>2, Zenon
  <1>3. CASE ~("AUTH" \notin done /\ redis.password) /\ "SELECT" \notin done /\ redis.db
    <2>1. a = "SELECT"
      BY <1>3, Zenon DEF AfterSetup
    <2>2. a \in Working /\ a # "command" /\ a # "AUTH"
      BY <2>1 DEF Working
    <2> QED
      BY <1>3, <2>2, Zenon
  <1>4. CASE ~("AUTH" \notin done /\ redis.password) /\ ~("SELECT" \notin done /\ redis.db)
    <2>1. a = "command"
      BY <1>4, Zenon DEF AfterSetup
    <2>2. a \in Working /\ a # "AUTH"
      BY <2>1 DEF Working
    <2> QED
      BY <1>4, <2>2, Zenon
  <1> QED
    BY <1>2, <1>3, <1>4, Zenon

(* A connection is made, and the first command written to it.              *)
LEMMA ConnectKeeps == ASSUME RedisIInv, NEW t \in RedisTasks, RedisConnect(t) PROVE RedisIInv'
  <1> DEFINE none == {d \in RedisConns : ~ redis_conns[d].open}
             c == CHOOSE d \in none : \A e \in none : d <= e
             k == [NoRedisConn EXCEPT !.open = TRUE]
             a == AfterSetup({})
             n == redis_tasks[t].request
  <1>1. /\ RedisType /\ OwnersOK /\ ContentOK /\ RoomOK /\ ~ crossed /\ commands \in Nat
        /\ redis_pool \in Seq(RedisConns) /\ RequestOK(redis_tasks[t])
    BY Zenon DEF RedisIInv, RedisType
  <1>2. /\ redis_tasks[t].pc = "connect" /\ redis' = redis /\ redis_pool' = redis_pool /\ commands' = commands
        /\ Send(t, c, a, n, k) /\ none # {}
    BY DEF RedisConnect
  <1>3. c \in RedisConns /\ ~ redis_conns[c].open
    <2>1. none \in SUBSET Nat
      BY RedisAssumption, Zenon
    <2>2. \E d \in none : \A e \in none : d <= e
      BY <1>2, <2>1, LeastOne, Zenon
    <2>3. c \in none
      BY <2>2, Zenon
    <2> QED
      BY <2>3, Zenon
  <1>4. c # 0 /\ ~ InPool(redis_pool, c) /\ \A u \in RedisTasks : redis_tasks[u].conn # c
    <2>1. c # 0
      BY <1>3, RedisAssumption, Zenon
    <2> QED
      BY <1>1, <1>3, <2>1, Zenon DEF OwnersOK, Owned
  <1>5. redis_tasks[t].conn = 0 /\ n \in Asked
    <2>1. "connect" \notin Working /\ "connect" # "free"
      BY DEF Working
    <2> QED
      BY <1>1, <1>2, <2>1, Zenon DEF RequestOK
  <1>6. k \in RedisConn /\ k.open /\ k.asked = <<>> /\ k.replies = <<>> /\ ~ k.closed
    <2>1. k = [open |-> TRUE, closed |-> FALSE, asked |-> <<>>, replies |-> <<>>, granted |-> {}]
      <3> DEFINE yes == TRUE
                 no == FALSE
                 empty == <<>>
                 nobody == {}
      <3>1. NoRedisConn = [open |-> no, closed |-> no, asked |-> empty, replies |-> empty, granted |-> nobody]
        BY Zenon DEF NoRedisConn
      <3> HIDE DEF yes, no, empty, nobody
      <3>2. [NoRedisConn EXCEPT !.open = yes] = [open |-> yes, closed |-> no, asked |-> empty, replies |-> empty, granted |-> nobody]
        BY <3>1
      <3> QED
        BY <3>2, Zenon DEF yes, no, empty, nobody
    <2>2. /\ TRUE \in BOOLEAN /\ FALSE \in BOOLEAN /\ <<>> \in Seq(Asked) /\ <<>> \in Seq(Reply) /\ {} \in SUBSET Asked
      OBVIOUS
    <2>3. k \in RedisConn
      BY <2>1, <2>2, Zenon DEF RedisConn
    <2> QED
      BY <2>1, <2>3
  <1>7. a \in Working /\ Ready(a, k)
    <2>1. /\ a \in Working /\ (a # "AUTH" /\ redis.password => "AUTH" \in {})
          /\ a = "command" /\ redis.db => "SELECT" \in {}
      BY <1>1, SetupNext
    <2> HIDE DEF a, k
    <2> QED
      BY <1>6, <2>1, Zenon DEF Ready
  <1>8. Acquired(t, c)
    <2>1. /\ redis_tasks[t].conn \in {0, c} /\ commands' \in Nat /\ redis_pool' \in Seq(RedisConns) /\ ~ InPool(redis_pool', c)
          /\ \A d \in RedisConns : d # c => (InPool(redis_pool', d) <=> InPool(redis_pool, d))
      BY <1>1, <1>2, <1>4, <1>5, Zenon
    <2>2. \A i, j \in 1..Len(redis_pool') : redis_pool'[i] = redis_pool'[j] => i = j
      BY <1>1, <1>2, Zenon DEF OwnersOK, Owned
    <2> HIDE DEF c
    <2> QED
      BY <1>2, <1>4, <2>1, <2>2, Zenon DEF Acquired
  <1> HIDE DEF c, k, a, n, none
  <1>9. /\ RedisType' /\ OwnersOK' /\ ContentOK' /\ crossed' = crossed
        /\ \A d \in RedisConns : d # c => redis_conns'[d] = redis_conns[d]
        /\ \A u \in RedisTasks : redis_tasks'[u].pc = "connect" => u # t /\ redis_tasks[u].pc = "connect"
    BY <1>1, <1>2, <1>3, <1>5, <1>7, <1>8, WriteKeeps, Zenon
  <1>10. RoomOK'
    <2>1. OpenConns' \in SUBSET (OpenConns \cup {c}) /\ Connecting' \in SUBSET (Connecting \ {t})
      BY <1>9 DEF OpenConns, Connecting
    <2>2. IsFiniteSet(OpenConns) /\ IsFiniteSet(Connecting) /\ t \in Connecting /\ c \notin OpenConns
      <3>1. Connecting \in SUBSET RedisTasks
        BY Zenon DEF Connecting
      <3>2. IsFiniteSet(Connecting) /\ IsFiniteSet(OpenConns)
        BY <1>1, <3>1, RedisAssumption, FS_Subset, Zenon DEF RoomOK
      <3> QED
        BY <1>2, <1>3, <3>2, Zenon DEF Connecting, OpenConns
    <2>3. IsFiniteSet(OpenConns \cup {c}) /\ Cardinality(OpenConns \cup {c}) = Cardinality(OpenConns) + 1
      BY <2>2, FS_AddElement
    <2>4. IsFiniteSet(Connecting \ {t}) /\ Cardinality(Connecting \ {t}) = Cardinality(Connecting) - 1
      BY <2>2, FS_RemoveElement
    <2>5. IsFiniteSet(OpenConns') /\ Cardinality(OpenConns') <= Cardinality(OpenConns \cup {c})
      BY <2>1, <2>3, FS_Subset, Zenon
    <2>6. IsFiniteSet(Connecting') /\ Cardinality(Connecting') <= Cardinality(Connecting \ {t})
      BY <2>1, <2>4, FS_Subset, Zenon
    <2>7. /\ Cardinality(OpenConns) \in Nat /\ Cardinality(Connecting) \in Nat /\ Cardinality(OpenConns') \in Nat
          /\ Cardinality(Connecting') \in Nat /\ Cardinality(RedisTasks) \in Nat
      BY <2>2, <2>5, <2>6, RedisAssumption, FS_CardinalityType, Zenon
    <2>8. Cardinality(OpenConns) + Cardinality(Connecting) <= Cardinality(RedisTasks)
      BY <1>1, Zenon DEF RoomOK
    <2>9. Cardinality(OpenConns') + Cardinality(Connecting') <= Cardinality(RedisTasks)
      BY <2>3, <2>4, <2>5, <2>6, <2>7, <2>8
    <2> QED
      BY <2>5, <2>9, Zenon DEF RoomOK
  <1> QED
    BY <1>1, <1>9, <1>10, Zenon DEF RedisIInv

(* A reply that has come is the only one, and the one that was asked for.  *)
LEMMA OneReply ==
    ASSUME NEW k, NEW r, NEW d, WorkOK(k, r, d), k.replies # <<>>
    PROVE  /\ k.asked = <<>> /\ Tail(k.replies) = <<>> /\ Head(k.replies).to = Expected(r)
           /\ Head(k.replies).value \in {"value", "error", "malformed"}
           /\ Head(k.replies).value = "value" => Expected(r) \in k.granted
  <1>1. k.asked = <<>> /\ \E v \in {"value", "error", "malformed"} :
             k.replies = <<[to |-> Expected(r), value |-> v]>> /\ (v = "value" => Expected(r) \in k.granted)
    BY Zenon DEF WorkOK, Awaits
  <1>2. PICK v \in {"value", "error", "malformed"} :
             k.replies = <<[to |-> Expected(r), value |-> v]>> /\ (v = "value" => Expected(r) \in k.granted)
    BY <1>1, Zenon
  <1> DEFINE e == Expected(r)
             a == [to |-> e, value |-> v]
             q == <<a>>
  <1>3. k.replies = q
    BY <1>2, Zenon
  <1>4. a.to = e /\ a.value = v
    OBVIOUS
  <1> HIDE DEF a, e
  <1>5. Head(q) = a /\ Tail(q) = <<>>
    OBVIOUS
  <1> HIDE DEF q
  <1>6. Head(k.replies) = a /\ Tail(k.replies) = <<>>
    BY <1>3, <1>5, Zenon
  <1> QED
    BY <1>1, <1>2, <1>4, <1>6, Zenon DEF e

(* AUTH or SELECT is answered.                                             *)
LEMMA SetupKeeps == ASSUME RedisIInv, NEW t \in RedisTasks, RedisSetup(t) PROVE RedisIInv'
  <1> DEFINE r == redis_tasks[t]
             c == r.conn
             k == redis_conns[c]
             reply == Head(k.replies)
             done == IF r.pc = "AUTH" THEN {"AUTH"} ELSE {"AUTH", "SELECT"}
             a == AfterSetup(done)
             s == [k EXCEPT !.replies = Tail(@)]
  <1>1. RedisType /\ OwnersOK /\ ContentOK /\ RoomOK /\ ~ crossed /\ commands \in Nat /\ redis_pool \in Seq(RedisConns)
    BY Zenon DEF RedisIInv, RedisType
  <1>2. r.pc \in {"AUTH", "SELECT"} /\ k.replies # <<>> /\ redis' = redis /\ redis_pool' = redis_pool /\ commands' = commands
    BY DEF RedisSetup
  <1>3. r.pc \in Working /\ r.pc # "command"
    BY <1>2 DEF Working
  <1>4. /\ c \in RedisConns /\ c # 0 /\ k \in RedisConn /\ k.open /\ ~ InPool(redis_pool, c)
        /\ \A u \in RedisTasks : u # t => redis_tasks[u].conn # c
        /\ WorkOK(k, r, redis) /\ r.request \in Asked
    BY <1>3, OwnConn, Zenon
  <1>5. /\ k.asked = <<>> /\ Tail(k.replies) = <<>> /\ reply.value \in {"value", "error", "malformed"}
        /\ reply.value = "value" => Expected(r) \in k.granted
    BY <1>2, <1>4, OneReply, Zenon
  <1>6. CASE Refused(reply)
    <2>1. EndRequest(t) /\ redis_conns' = [redis_conns EXCEPT ![c] = NoRedisConn] /\ crossed' = crossed
      BY <1>6, Zenon DEF RedisSetup
    <2> QED
      BY <1>1, <1>2, <1>3, <2>1, DropKeeps, Zenon
  <1>7. CASE ~ Refused(reply)
    <2>1. Send(t, c, a, r.request, s)
      BY <1>7, Zenon DEF RedisSetup
    <2>2. r.pc \in k.granted
      <3>1. reply.value = "value"
        BY <1>5, <1>7 DEF Refused
      <3> QED
        BY <1>3, <1>5, <3>1, Zenon DEF Expected
    <2>3. s \in RedisConn /\ s.open /\ s.asked = <<>> /\ s.replies = <<>> /\ s.granted = k.granted
      <3>0. <<>> \in Seq(Reply)
        OBVIOUS
      <3>1. Tail(k.replies) \in Seq(Reply)
        BY <1>5, <3>0, Zenon
      <3> DEFINE n == Tail(k.replies)
      <3>2. s = [k EXCEPT !.replies = n]
        OBVIOUS
      <3> HIDE DEF n, s
      <3>3. s \in RedisConn /\ s.open = k.open /\ s.asked = k.asked /\ s.replies = n /\ s.granted = k.granted
        BY <1>4, <3>1, <3>2, ConnReads, Zenon DEF n
      <3> QED
        BY <1>4, <1>5, <3>3, Zenon DEF n
    <2>4. /\ a \in Working /\ (a # "AUTH" /\ redis.password => "AUTH" \in done)
          /\ (a = "command" /\ redis.db => "SELECT" \in done) /\ ("AUTH" \in done => a # "AUTH")
      BY <1>1, SetupNext, Zenon
    <2> HIDE DEF a, s
    <2>5. /\ a # "AUTH" /\ redis.password => "AUTH" \in k.granted
          /\ a = "command" /\ redis.db => "SELECT" \in k.granted
      <3>1. CASE r.pc = "AUTH"
        <4>1. "AUTH" \in k.granted /\ "SELECT" \notin done
          BY <2>2, <3>1
        <4> QED
          BY <2>4, <4>1, Zenon
      <3>2. CASE r.pc = "SELECT"
        <4>1. "SELECT" \in k.granted /\ r.pc # "AUTH"
          BY <2>2, <3>2
        <4> QED
          BY <1>4, <4>1, Zenon DEF WorkOK
      <3> QED
        BY <1>2, <3>1, <3>2, Zenon
    <2>6. Ready(a, s)
      BY <2>3, <2>5, Zenon DEF Ready
    <2>7. Acquired(t, c)
      <3>1. /\ redis_tasks[t].conn \in {0, c} /\ commands' \in Nat /\ redis_pool' \in Seq(RedisConns) /\ ~ InPool(redis_pool', c)
            /\ \A d \in RedisConns : d # c => (InPool(redis_pool', d) <=> InPool(redis_pool, d))
        BY <1>1, <1>2, <1>4, Zenon
      <3>2. \A i, j \in 1..Len(redis_pool') : redis_pool'[i] = redis_pool'[j] => i = j
        BY <1>1, <1>2, Zenon DEF OwnersOK, Owned
      <3> QED
        BY <1>2, <1>4, <3>1, <3>2, Zenon DEF Acquired
    <2> HIDE DEF c, k, reply, done
    <2>8. /\ RedisType' /\ OwnersOK' /\ ContentOK' /\ crossed' = crossed
          /\ \A d \in RedisConns : d # c => redis_conns'[d] = redis_conns[d]
          /\ \A u \in RedisTasks : redis_tasks'[u].pc = "connect" => redis_tasks[u].pc = "connect"
      BY <1>1, <1>4, <2>1, <2>4, <2>6, <2>7, WriteKeeps, Zenon
    <2>9. \A d \in RedisConns : redis_conns'[d].open => redis_conns[d].open
      BY <1>4, <2>8, Zenon DEF k
    <2>10. RoomOK'
      BY <1>1, <2>8, <2>9, RoomStays, Zenon
    <2> QED
      BY <1>1, <2>8, <2>10, Zenon DEF RedisIInv
  <1> QED
    BY <1>6, <1>7, Zenon

(* The command is answered: it is the answer to this request, and the      *)
(* connection goes back with nothing under way.                            *)
LEMMA ReplyKeeps == ASSUME RedisIInv, NEW t \in RedisTasks, RedisReply(t) PROVE RedisIInv'
  <1> DEFINE r == redis_tasks[t]
             c == r.conn
             k == redis_conns[c]
             reply == Head(k.replies)
             n == Tail(k.replies)
             s == [k EXCEPT !.replies = n]
  <1>1. RedisType /\ OwnersOK /\ ContentOK /\ RoomOK /\ ~ crossed /\ commands \in Nat /\ redis_pool \in Seq(RedisConns)
    BY Zenon DEF RedisIInv, RedisType
  <1>2. /\ r.pc = "command" /\ k.replies # <<>> /\ redis' = redis /\ commands' = commands /\ EndRequest(t)
        /\ crossed' = (crossed \/ reply.to # r.request)
    BY DEF RedisReply
  <1>3. r.pc \in Working
    BY <1>2 DEF Working
  <1>4. /\ c \in RedisConns /\ c # 0 /\ k \in RedisConn /\ k.open /\ ~ InPool(redis_pool, c)
        /\ \A u \in RedisTasks : u # t => redis_tasks[u].conn # c
        /\ WorkOK(k, r, redis)
    BY <1>3, OwnConn, Zenon
  <1>5. k.asked = <<>> /\ n = <<>> /\ reply.to = Expected(r)
    BY <1>2, <1>4, OneReply, Zenon
  <1>6. ~ crossed'
    <2>1. Expected(r) = r.request
      BY <1>2, Zenon DEF Expected
    <2> QED
      BY <1>1, <1>2, <1>5, <2>1, Zenon
  <1>7. CASE reply.value = "malformed"
    <2>1. redis_conns' = [redis_conns EXCEPT ![c] = NoRedisConn] /\ redis_pool' = redis_pool
      BY <1>7, Zenon DEF RedisReply
    <2> QED
      BY <1>1, <1>2, <1>3, <1>6, <2>1, DropKeeps, Zenon
  <1>8. CASE reply.value # "malformed"
    <2>1. redis_conns' = [redis_conns EXCEPT ![c].replies = Tail(@)] /\ redis_pool' = Append(redis_pool, c)
      BY <1>8, Zenon DEF RedisReply
    <2>2. redis_conns \in [RedisConns -> RedisConn] /\ redis_tasks = [u \in RedisTasks |-> redis_tasks[u]]
      BY <1>1, Zenon DEF RedisType
    <2>3. redis_conns' = [redis_conns EXCEPT ![c] = s]
      BY <1>4, <2>1, <2>2
    <2>4. s \in RedisConn /\ s.open /\ s.asked = <<>> /\ s.replies = <<>> /\ s.granted = k.granted
      <3>0. <<>> \in Seq(Reply)
        OBVIOUS
      <3>1. n \in Seq(Reply)
        BY <1>5, <3>0, Zenon
      <3> HIDE DEF n
      <3>2. s \in RedisConn /\ s.open = k.open /\ s.asked = k.asked /\ s.replies = n /\ s.granted = k.granted
        BY <1>4, <3>1, ConnReads, Zenon
      <3> HIDE DEF s
      <3> QED
        BY <1>4, <1>5, <3>2, Zenon
    <2> HIDE DEF s
    <2>5. PoolOK(s, redis)
      <3>1. r.pc # "AUTH"
        BY <1>2
      <3> QED
        BY <1>2, <1>4, <2>4, <3>1, Zenon DEF PoolOK, WorkOK
    <2>6. /\ redis_pool' \in Seq(RedisConns) /\ InPool(redis_pool', c)
          /\ \A i, j \in 1..Len(redis_pool') : redis_pool'[i] = redis_pool'[j] => i = j
          /\ \A d \in RedisConns : d # c => (InPool(redis_pool', d) <=> InPool(redis_pool, d))
      <3>1. \A i, j \in 1..Len(redis_pool) : redis_pool[i] = redis_pool[j] => i = j
        BY <1>1, Zenon DEF OwnersOK, Owned
      <3> HIDE DEF c
      <3> QED
        BY <1>1, <1>4, <2>1, <3>1, PoolAppend
    <2>7. OneStep(t, c, NoRequest, s)
      <3>1. redis_tasks' = [redis_tasks EXCEPT ![t] = NoRequest] /\ redis_tasks[t].conn \in {0, c}
        BY <1>2 DEF EndRequest
      <3>2. NoRequest.conn = 0 /\ NoRequest.conn # c /\ NoRequest.conn \in {0, c} /\ RequestOK(NoRequest) /\ commands' \in Nat
        BY <1>1, <1>2, <1>4, NoRequestIs
      <3> HIDE DEF c
      <3> QED
        BY <1>2, <1>4, <2>3, <2>4, <2>5, <2>6, <3>1, <3>2, Zenon DEF OneStep
    <2>8. RedisType' /\ OwnersOK' /\ ContentOK'
      BY <1>1, <1>4, <2>7, OneRequest, Zenon
    <2>9. RoomOK'
      <3>1. \A d \in RedisConns : redis_conns'[d].open => redis_conns[d].open
        <4>1. redis_conns'[c] = s /\ \A d \in RedisConns : d # c => redis_conns'[d] = redis_conns[d]
          BY <1>4, <2>2, <2>3
        <4> QED
          BY <1>4, <4>1, Zenon
      <3>2. \A u \in RedisTasks : redis_tasks'[u].pc = "connect" => redis_tasks[u].pc = "connect"
        <4>1. redis_tasks'[t] = NoRequest /\ \A u \in RedisTasks : u # t => redis_tasks'[u] = redis_tasks[u]
          BY <1>2, <2>2 DEF EndRequest
        <4>2. NoRequest.pc # "connect"
          BY NoRequestIs
        <4> QED
          BY <4>1, <4>2, Zenon
      <3> QED
        BY <1>1, <3>1, <3>2, RoomStays, Zenon
    <2> QED
      BY <1>6, <2>8, <2>9, Zenon DEF RedisIInv
  <1> QED
    BY <1>7, <1>8, Zenon

(* A request that is not at work has no connection.                        *)
LEMMA NotWorking == ASSUME RedisIInv, NEW t \in RedisTasks, redis_tasks[t].pc \notin Working PROVE redis_tasks[t].conn = 0
  BY Zenon DEF RedisIInv, RedisType, RequestOK

(* The connection cannot be made; the stream ends; the time is up.         *)
LEMMA EndKeepsRedis ==
    ASSUME RedisIInv, NEW t \in RedisTasks, RedisConnectFails(t) \/ RedisEof(t) \/ RedisTimeout(t)
    PROVE  RedisIInv'
  <1>1. EndRequest(t) /\ UNCHANGED <<redis, redis_pool, commands>> /\ ~ crossed'
    <2>1. ~ crossed
      BY Zenon DEF RedisIInv
    <2>2. CASE RedisConnectFails(t)
      BY <2>1, <2>2, Zenon DEF RedisConnectFails
    <2>3. CASE RedisEof(t)
      BY <2>1, <2>3, Zenon DEF RedisEof
    <2>4. CASE RedisTimeout(t)
      BY <2>1, <2>4, Zenon DEF RedisTimeout
    <2> QED
      BY <2>2, <2>3, <2>4
  <1>2. CASE redis_tasks[t].pc \in Working
    <2>1. redis_conns' = [redis_conns EXCEPT ![redis_tasks[t].conn] = NoRedisConn]
      <3>1. redis_tasks[t].pc # "connect"
        BY <1>2 DEF Working
      <3>2. redis_tasks[t].conn # 0
        BY <1>2, OwnConn, Zenon
      <3> QED
        BY <3>1, <3>2, Zenon DEF RedisConnectFails, RedisEof, RedisTimeout
    <2> QED
      BY <1>1, <1>2, <2>1, DropKeeps, Zenon
  <1>3. CASE redis_tasks[t].pc \notin Working
    <2>1. redis_tasks[t].conn = 0
      BY <1>3, NotWorking, Zenon
    <2>2. redis_conns' = redis_conns
      <3>1. ~ RedisEof(t)
        BY <1>3, Zenon DEF RedisEof, Working
      <3> QED
        BY <2>1, <3>1 DEF RedisConnectFails, RedisTimeout
    <2> QED
      BY <1>1, <2>1, <2>2, EndsWithout
  <1> QED
    BY <1>2, <1>3, Zenon

(* No connection is there at the start.                                    *)
LEMMA RedisInitInv == RedisInit => RedisIInv
  <1> SUFFICES ASSUME RedisInit PROVE RedisIInv
    OBVIOUS
  <1>1. /\ redis \in RedisConfigs /\ redis_tasks = [t \in RedisTasks |-> NoRequest]
        /\ redis_conns = [c \in RedisConns |-> NoRedisConn] /\ redis_pool = <<>> /\ commands = 0 /\ ~ crossed
    BY DEF RedisInit
  <1>2. \A t \in RedisTasks : redis_tasks[t] = NoRequest
    BY <1>1
  <1>3. \A c \in RedisConns : redis_conns[c] = NoRedisConn
    BY <1>1
  <1>4. \A c : ~ InPool(redis_pool, c)
    BY <1>1 DEF InPool
  <1>5. RedisType
    <2>1. redis_pool \in Seq(RedisConns) /\ commands \in Nat
      BY <1>1
    <2>2. redis_conns \in [RedisConns -> RedisConn]
      BY <1>1, NoRequestIs
    <2>3. redis_tasks = [t \in RedisTasks |-> redis_tasks[t]]
      BY <1>1
    <2>4. \A t \in RedisTasks : RequestOK(redis_tasks[t])
      BY <1>2, NoRequestIs, Zenon
    <2> QED
      BY <1>1, <2>1, <2>2, <2>3, <2>4, Zenon DEF RedisType
  <1>6. \A t \in RedisTasks : redis_tasks[t].conn = 0
    BY <1>2, NoRequestIs, Zenon
  <1>7. \A c \in RedisConns : ~ redis_conns[c].open
    BY <1>3, NoRequestIs, Zenon
  <1>8. OwnersOK
    <2>1. \A i, j \in 1..Len(redis_pool) : redis_pool[i] = redis_pool[j] => i = j
      BY <1>1
    <2> QED
      BY <1>4, <1>6, <1>7, <2>1, Zenon DEF OwnersOK, Owned
  <1>9. ContentOK
    BY <1>4, <1>6, Zenon DEF ContentOK
  <1>10. RoomOK
    <2>1. OpenConns = {} /\ Connecting = {}
      <3>1. NoRequest.pc # "connect"
        BY NoRequestIs
      <3> QED
        BY <1>2, <1>7, <3>1, Zenon DEF OpenConns, Connecting
    <2>2. IsFiniteSet({}) /\ Cardinality({}) = 0 /\ Cardinality(RedisTasks) \in Nat
      BY FS_EmptySet, FS_CardinalityType, RedisAssumption, Zenon
    <2> QED
      BY <2>1, <2>2 DEF RoomOK
  <1> QED
    BY <1>1, <1>5, <1>8, <1>9, <1>10, Zenon DEF RedisIInv

(* Every step of the executor and of the server.                           *)
LEMMA RedisNextInv == RedisIInv /\ [RedisNext]_redisVars => RedisIInv'
  <1> SUFFICES ASSUME RedisIInv, [RedisNext]_redisVars PROVE RedisIInv'
    OBVIOUS
  <1>1. ASSUME NEW t \in RedisTasks, RedisStep(t) PROVE RedisIInv'
    <2>1. CASE RedisExecute(t)
      BY <2>1, ExecutePooledKeeps, ExecuteConnectsKeeps, Zenon
    <2>2. CASE RedisConnect(t)
      BY <2>2, ConnectKeeps, Zenon
    <2>3. CASE RedisSetup(t)
      BY <2>3, SetupKeeps, Zenon
    <2>4. CASE RedisReply(t)
      BY <2>4, ReplyKeeps, Zenon
    <2>5. CASE RedisConnectFails(t) \/ RedisEof(t) \/ RedisTimeout(t)
      BY <2>5, EndKeepsRedis, Zenon
    <2> QED
      BY <1>1, <2>1, <2>2, <2>3, <2>4, <2>5, Zenon DEF RedisStep
  <1>2. ASSUME NEW c \in RedisConns, RedisAnswers(c) \/ RedisCloses(c) PROVE RedisIInv'
    BY <1>2, AnswersKeeps, ClosesKeeps, Zenon
  <1>3. CASE UNCHANGED redisVars
    BY <1>3 DEF redisVars, RedisIInv, RedisType, OwnersOK, Owned, ContentOK, RoomOK, OpenConns, Connecting
  <1> QED
    BY <1>1, <1>2, <1>3, Zenon DEF RedisNext

(* An open connection is in the pool once and no request has it, or one    *)
(* request has it and it is not in the pool.                               *)
LEMMA OwnedOnce ==
    ASSUME RedisIInv, NEW c \in RedisConns, redis_conns[c].open
    PROVE  Cardinality({i \in DOMAIN redis_pool : redis_pool[i] = c})
               + Cardinality({t \in RedisTasks : redis_tasks[t].conn = c}) = 1
  <1> DEFINE P == {i \in DOMAIN redis_pool : redis_pool[i] = c}
             U == {t \in RedisTasks : redis_tasks[t].conn = c}
  <1>1. OwnersOK /\ redis_pool \in Seq(RedisConns) /\ c # 0
    BY RedisAssumption DEF RedisIInv, RedisType
  <1>2. DOMAIN redis_pool = 1..Len(redis_pool)
    BY <1>1
  <1>3. CASE InPool(redis_pool, c)
    <2>1. PICK i \in 1..Len(redis_pool) : redis_pool[i] = c
      BY <1>3, Zenon DEF InPool
    <2>2. \A j \in P : j = i
      BY <1>1, <1>2, <2>1, Zenon DEF OwnersOK, Owned
    <2>3. i \in P
      BY <1>2, <2>1
    <2>4. P = {i}
      BY <2>2, <2>3, Zenon
    <2>5. \A t \in RedisTasks : redis_tasks[t].conn # c
      BY <1>1, <1>3, Zenon DEF OwnersOK, Owned
    <2>6. U = {}
      BY <2>5, Zenon
    <2> HIDE DEF P, U
    <2>7. Cardinality(P) = 1 /\ Cardinality(U) = 0
      BY <2>4, <2>6, FS_Singleton, FS_EmptySet, Zenon
    <2>8. Cardinality(P) + Cardinality(U) = 1
      BY <2>7
    <2> QED
      BY <2>8, Zenon DEF P, U
  <1>4. CASE ~ InPool(redis_pool, c)
    <2>1. PICK t \in RedisTasks : redis_tasks[t].conn = c
      BY <1>1, <1>4, Zenon DEF OwnersOK, Owned
    <2>2. \A u \in U : u = t
      BY <1>1, <2>1, Zenon DEF OwnersOK, Owned
    <2>3. U = {t}
      BY <2>1, <2>2, Zenon
    <2>4. P = {}
      BY <1>2, <1>4, Zenon DEF InPool
    <2> HIDE DEF P, U
    <2>5. Cardinality(P) = 0 /\ Cardinality(U) = 1
      BY <2>3, <2>4, FS_Singleton, FS_EmptySet, Zenon
    <2>6. Cardinality(P) + Cardinality(U) = 1
      BY <2>5
    <2> QED
      BY <2>6, Zenon DEF P, U
  <1> QED
    BY <1>3, <1>4, Zenon

(* The invariant says what is wanted.                                      *)
LEMMA RedisImplies == RedisIInv => RedisInv
  <1> SUFFICES ASSUME RedisIInv PROVE RedisInv
    OBVIOUS
  <1>1. RepliesOwn
    BY Zenon DEF RedisIInv, RepliesOwn
  <1>2. SetUpFirst
    <2> SUFFICES ASSUME NEW t \in RedisTasks, redis_tasks[t].pc = "command"
                 PROVE  /\ redis.password => "AUTH" \in redis_conns[redis_tasks[t].conn].granted
                        /\ redis.db => "SELECT" \in redis_conns[redis_tasks[t].conn].granted
      BY Zenon DEF SetUpFirst
    <2>1. redis_tasks[t].pc \in Working /\ redis_tasks[t].pc # "AUTH"
      BY DEF Working
    <2>2. WorkOK(redis_conns[redis_tasks[t].conn], redis_tasks[t], redis)
      BY <2>1, OwnConn, Zenon
    <2> QED
      BY <2>1, <2>2, Zenon DEF WorkOK
  <1>3. ConnectionsBounded
    <2>1. /\ IsFiniteSet(OpenConns) /\ Cardinality(OpenConns) + Cardinality(Connecting) <= Cardinality(RedisTasks)
          /\ Connecting \in SUBSET RedisTasks
      BY Zenon DEF RedisIInv, RoomOK, Connecting
    <2>2. IsFiniteSet(Connecting)
      BY <2>1, RedisAssumption, FS_Subset, Zenon
    <2>3. Cardinality(OpenConns) \in Nat /\ Cardinality(Connecting) \in Nat /\ Cardinality(RedisTasks) \in Nat
      BY <2>1, <2>2, RedisAssumption, FS_CardinalityType, Zenon
    <2>4. Cardinality(OpenConns) <= Cardinality(RedisTasks)
      BY <2>1, <2>3
    <2> QED
      BY <2>4, Zenon DEF ConnectionsBounded, OpenConns
  <1>4. RedisOwnedOnce
    BY OwnedOnce, Zenon DEF RedisOwnedOnce
  <1> QED
    BY <1>1, <1>2, <1>3, <1>4, Zenon DEF RedisInv

(* A Redis connection is set up before a command is written to it, has one *)
(* owner (the pool or one request), carries nothing over from one request  *)
(* to the next, and there are never more than requests can be in flight:   *)
(* the pool of the executor needs no limit of its own.                     *)
THEOREM ConnectionsAreSound == RedisSpec => []RedisInv
  <1>1. RedisInit => RedisIInv
    BY RedisInitInv
  <1>2. RedisIInv /\ [RedisNext]_redisVars => RedisIInv'
    BY RedisNextInv
  <1>3. RedisIInv => RedisInv
    BY RedisImplies
  <1> QED
    BY <1>1, <1>2, <1>3, PTL DEF RedisSpec

=============================================================================
