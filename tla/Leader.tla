------------------------------ MODULE Leader --------------------------------
(***************************************************************************)
(* The distributed coordinator (netanvil-distributed, coordinator.rs and   *)
(* http_cluster.rs) and the agents it drives over HTTP, for a sequence of  *)
(* tests.  Each test has a new coordinator and a new discovery, so nothing *)
(* but the agents survives from one to the next.  An agent is reduced to   *)
(* what the leader can see of it (module Agent is the detailed one).  A    *)
(* call may be lost, or carried out with its answer lost or late.          *)
(***************************************************************************)
EXTENDS Naturals, Sequences, FiniteSets, FiniteSetsExt, Functions, Filter

CONSTANTS
    NodeList,       \* the agents, in the order of the command line
    Cores,          \* the cores of each agent
    Rates,          \* total rates that the rate controller may decide
    MaxTests,       \* bound: tests
    MaxWork,        \* bound: progress reports of an agent in one test
    MaxFaults       \* bound: calls that fail

Nodes == Range(NodeList)

ASSUME LeaderAssumption ==
    /\ NodeList \in Seq(Nodes) /\ NodeList # <<>>
    /\ \A i, j \in DOMAIN NodeList : NodeList[i] = NodeList[j] => i = j
    /\ Cores \in [Nodes -> Nat \ {0}]
    /\ Rates \subseteq Nat
    /\ MaxTests \in Nat /\ MaxWork \in Nat /\ MaxFaults \in Nat

VARIABLES
    pc,             \* where run() is
    test,           \* the number of the test
    cores,          \* cores that the discovery knows of
    failed,         \* nodes marked as failed
    nodes,          \* nodes of the current tick: the answer of discover()
    todo,           \* nodes that the current loop has still to call
    decision,       \* the total rate that is being distributed
    sent,           \* the rates sent in the current distribution
    node_metrics,   \* DistributedCoordinator.node_metrics: total_requests of each node
    faults,         \* history: calls that failed
    run,            \* the test that each agent runs, or 0
    rate,           \* the rate of each agent's engine
    stop,           \* a Stop waits for the agent's engine
    work            \* the requests that the agent's metrics show, 0 without metrics

leaderVars == <<pc, test, cores, failed, nodes, todo, decision, sent, node_metrics>>
agentVars == <<run, rate, stop, work>>
vars == <<pc, test, cores, failed, nodes, todo, decision, sent, node_metrics, faults,
          run, rate, stop, work>>

Idle == 0

TypeOK ==
    /\ pc \in {"idle", "starting", "first", "sleeping", "fetching", "rating", "final", "stopping"}
    /\ test \in 0..MaxTests
    /\ cores \in [Nodes -> Nat \ {0}]
    /\ failed \subseteq Nodes /\ nodes \subseteq Nodes
    /\ todo \in Seq(Nodes)
    /\ decision \in Rates
    /\ sent \in [Nodes -> Nat]
    /\ node_metrics \in [Nodes -> 0..MaxWork]
    /\ faults \in 0..MaxFaults
    /\ run \in [Nodes -> 0..MaxTests]
    /\ rate \in [Nodes -> Nat]
    /\ stop \in [Nodes -> BOOLEAN]
    /\ work \in [Nodes -> 0..MaxWork]

Zero == [n \in Nodes |-> 0]

Init ==
    /\ pc = "idle" /\ test = 0
    /\ cores = Cores /\ failed = {} /\ nodes = {} /\ todo = <<>>
    /\ decision \in Rates /\ sent = Zero /\ node_metrics = Zero
    /\ faults = 0
    /\ run = [n \in Nodes |-> Idle] /\ rate = Zero /\ work = Zero
    /\ stop = [n \in Nodes |-> FALSE]

-----------------------------------------------------------------------------
(* Faulty variant: nodes that failed are discovered again.                 *)
DiscoverAll == NodeList

(* discover(): the nodes that were not marked as failed, in order.         *)
Discover == Filtered(NodeList, {i \in DOMAIN NodeList : NodeList[i] \notin failed})

(* The sum of a number of each node.                                       *)
SumOver(f, S) == MapThenSumSet(LAMBDA n : f[n], S)

TotalCores == SumOver(cores, nodes)

(* Faulty variant: the weights are those of all nodes of the command line. *)
WeightedStale(total, n) == (total * cores[n]) \div SumOver(cores, Nodes)

(* compute_weights and the product of distribute_rate.                     *)
Weighted(total, n) == (total * cores[n]) \div TotalCores

(* What becomes of a call: it is answered, or it fails before or after the *)
(* agent has carried it out.                                               *)
Outcomes == {"answered", "lost", "unanswered"}
Delivered(o) == o # "lost"
Fault(o) ==
    /\ faults' = IF o = "answered" THEN faults ELSE faults + 1
    /\ faults' <= MaxFaults

-----------------------------------------------------------------------------
(* The coordinator.                                                        *)

Probed(n, silent) == IF n \in silent THEN 1 ELSE Cores[n]

(* The cores that a discovery may know of.                                 *)
Discovered == {[n \in Nodes |-> Probed(n, silent)] : silent \in SUBSET Nodes}

(* The code divides in floating point.  Here the rates are divisible by    *)
(* the cores of any nodes, so that every share is a whole number.          *)
ASSUME ExactShares ==
    \A r \in Rates, c \in Discovered, some \in SUBSET Nodes :
        some # {} => r % SumOver(c, some) = 0

(* The discovery of a new test probes every agent; one that does not       *)
(* answer gets a single core.                                              *)
Begin ==
    /\ pc = "idle" /\ test < MaxTests
    /\ \E silent \in SUBSET Nodes :
        /\ faults' = faults + Cardinality(silent) /\ faults' <= MaxFaults
        /\ cores' = [n \in Nodes |-> Probed(n, silent)]
    /\ test' = test + 1
    /\ failed' = {} /\ nodes' = Nodes /\ todo' = NodeList
    /\ decision' \in Rates
    /\ node_metrics' = Zero
    /\ sent' = Zero
    /\ pc' = "starting"
    /\ UNCHANGED agentVars

(* POST /test/start.  An agent that runs a test refuses; start_test does   *)
(* not look at the status of the answer.                                   *)
StartNode(o) ==
    LET n == Head(todo) IN
    /\ pc = "starting" /\ todo # <<>>
    /\ Fault(o)
    /\ IF Delivered(o) /\ run[n] = Idle
       THEN /\ run' = [run EXCEPT ![n] = test]
            /\ rate' = [rate EXCEPT ![n] = Weighted(decision, n)]
            /\ stop' = [stop EXCEPT ![n] = FALSE]
            /\ work' = [work EXCEPT ![n] = 0]
       ELSE UNCHANGED agentVars
    /\ failed' = IF o = "answered" THEN failed ELSE failed \cup {n}
    /\ todo' = Tail(todo)
    /\ UNCHANGED <<pc, test, cores, nodes, decision, sent, node_metrics>>

(* A new discover() after all nodes were started.                          *)
Started ==
    /\ pc = "starting" /\ todo = <<>>
    /\ nodes' = Range(Discover)
    /\ todo' = Discover
    /\ pc' = IF Discover = <<>> THEN "idle" ELSE "first"
    /\ sent' = Zero
    /\ UNCHANGED <<test, cores, failed, decision, node_metrics, faults, agentVars>>

(* put_rate of an agent: its engine is set to the new rate.                *)
RateApplied(n) == [rate EXCEPT ![n] = Weighted(decision, n)]

(* PUT /rate, one node after the other.  A failure is only logged.         *)
SetRate(o) ==
    LET n == Head(todo) IN
    /\ pc \in {"first", "rating"} /\ todo # <<>>
    /\ Fault(o)
    /\ sent' = [sent EXCEPT ![n] = Weighted(decision, n)]
    /\ rate' = IF Delivered(o) /\ run[n] # Idle THEN RateApplied(n) ELSE rate
    /\ todo' = Tail(todo)
    /\ UNCHANGED <<pc, test, cores, failed, nodes, decision, node_metrics, run, stop, work>>

(* The time is not over and the test is not cancelled: tick again.  Both   *)
(* are looked at only after a tick, not after the first distribution.      *)
TickAgain ==
    /\ pc \in {"first", "rating"} /\ todo = <<>>
    /\ pc' = "sleeping"
    /\ UNCHANGED <<test, cores, failed, nodes, todo, decision, sent, node_metrics, faults, agentVars>>

LeaveLoop ==
    /\ pc = "rating" /\ todo = <<>>
    /\ pc' = "final"
    /\ nodes' = Range(Discover)
    /\ todo' = Discover
    /\ UNCHANGED <<test, cores, failed, decision, sent, node_metrics, faults, agentVars>>

(* Faulty variant: a leader without nodes waits for them to come back.     *)
TickEmptyWaits == "sleeping"

(* Without a node left the loop ends.                                      *)
TickEmpty == "final"

(* The beginning of a tick.                                                *)
Tick ==
    /\ pc = "sleeping"
    /\ nodes' = Range(Discover)
    /\ todo' = Discover
    /\ pc' = IF Discover = <<>> THEN TickEmpty ELSE "fetching"
    /\ UNCHANGED <<test, cores, failed, decision, sent, node_metrics, faults, agentVars>>

(* Faulty variant: a call that fails counts as zero requests.              *)
FetchedZero(n, o) == IF o = "answered" THEN work[n] ELSE 0

Fetched(n, o) == IF o = "answered" THEN work[n] ELSE node_metrics[n]

(* GET /metrics of all nodes at once: the agents answer in any order.  An  *)
(* agent without metrics answers with an error that is read as all zeros.  *)
(* A call that fails marks the node as failed in a tick and is ignored at  *)
(* the end of the test.                                                    *)
Fetch(n, o) ==
    /\ pc \in {"fetching", "final"} /\ n \in Range(todo)
    /\ Fault(o)
    /\ node_metrics' = [node_metrics EXCEPT ![n] = Fetched(n, o)]
    /\ failed' = IF o # "answered" /\ pc = "fetching" THEN failed \cup {n} ELSE failed
    /\ todo' = Filtered(todo, {i \in DOMAIN todo : todo[i] # n})
    /\ UNCHANGED <<pc, test, cores, nodes, decision, sent, agentVars>>

(* The nodes of this tick, in order.                                       *)
InTick == Filtered(NodeList, {i \in DOMAIN NodeList : NodeList[i] \in nodes})

(* The rate decision is distributed to the nodes of this tick, the ones    *)
(* that failed during it included.                                         *)
Decide ==
    /\ pc = "fetching" /\ todo = <<>>
    /\ decision' \in Rates
    /\ sent' = Zero
    /\ todo' = InTick
    /\ pc' = "rating"
    /\ UNCHANGED <<test, cores, failed, nodes, node_metrics, faults, agentVars>>

(* The nodes that are told to stop.                                        *)
ToStop == InTick

FinalFetched ==
    /\ pc = "final" /\ todo = <<>>
    /\ todo' = ToStop
    /\ pc' = "stopping"
    /\ UNCHANGED <<test, cores, failed, nodes, decision, sent, node_metrics, faults, agentVars>>

(* POST /stop: the engine of the agent ends later.                         *)
StopNode(o) ==
    LET n == Head(todo) IN
    /\ pc = "stopping" /\ todo # <<>>
    /\ Fault(o)
    /\ stop' = IF Delivered(o) THEN [stop EXCEPT ![n] = run[n] # Idle] ELSE stop
    /\ todo' = Tail(todo)
    /\ UNCHANGED <<pc, test, cores, failed, nodes, decision, sent, node_metrics, run, rate, work>>

(* run() returns its result.                                               *)
Return ==
    /\ pc = "stopping" /\ todo = <<>>
    /\ pc' = "idle"
    /\ UNCHANGED <<test, cores, failed, nodes, todo, decision, sent, node_metrics, faults, agentVars>>

-----------------------------------------------------------------------------
(* The agents.                                                             *)

AgentWorks(n) ==
    /\ run[n] # Idle /\ work[n] < MaxWork
    /\ work' = [work EXCEPT ![n] = @ + 1]
    /\ UNCHANGED <<leaderVars, faults, run, rate, stop>>

(* The engine was stopped, its time is over, or a limit of the test's      *)
(* configuration ends it early.                                            *)
AgentEnds(n) ==
    /\ run[n] # Idle
    /\ run' = [run EXCEPT ![n] = Idle]
    /\ rate' = [rate EXCEPT ![n] = 0]
    /\ stop' = [stop EXCEPT ![n] = FALSE]
    /\ UNCHANGED <<leaderVars, faults, work>>

(* The deferred reset, five seconds after the end.                         *)
AgentResets(n) ==
    /\ run[n] = Idle /\ work[n] # 0
    /\ work' = [work EXCEPT ![n] = 0]
    /\ UNCHANGED <<leaderVars, faults, run, rate, stop>>

-----------------------------------------------------------------------------
Call(o) == StartNode(o) \/ SetRate(o) \/ StopNode(o) \/ \E n \in Nodes : Fetch(n, o)
Coordinator ==
    \/ Begin \/ Started \/ TickAgain \/ LeaveLoop \/ Tick \/ Decide \/ FinalFetched \/ Return
    \/ \E o \in Outcomes : Call(o)
AgentStep(n) == AgentWorks(n) \/ AgentEnds(n) \/ AgentResets(n)

Next == Coordinator \/ \E n \in Nodes : AgentStep(n)

Spec == Init /\ [][Next]_vars

(* Every call has a timeout, and the duration of a test is finite.         *)
Fairness == WF_vars(Coordinator) /\ SF_vars(LeaveLoop)

FairSpec == Spec /\ Fairness

-----------------------------------------------------------------------------
(* The rates that one distribution sends add up to the decision, whatever  *)
(* nodes have failed before or fail during the tick (compute_weights,      *)
(* distribute_rate).                                                       *)
SharesAddUp ==
    pc \in {"first", "rating"} /\ todo = <<>> => SumOver(sent, Nodes) = decision

(* A node that was marked as failed in an earlier tick is sent no rate and *)
(* is not asked for metrics ("excluded from future ticks"): the nodes of a *)
(* tick had not failed when it began.                                      *)
FailedExcluded ==
    [][/\ pc = "sleeping" /\ pc' # "sleeping" => nodes' \cap failed = {}
       /\ sent' # sent => \A n \in Nodes : sent'[n] # 0 => n \in nodes]_vars

(* "Stop all nodes": if no call failed, no agent runs this test without    *)
(* having been told to stop when run() returns.                            *)
AllStopped == pc = "idle" /\ faults = 0 => \A n \in Nodes : run[n] # Idle /\ run[n] = test => stop[n]

(* The agents together never run above the rate that was decided, once it  *)
(* has been distributed and if no call failed (distribute_rate).  A call   *)
(* that fails may leave an agent at its rate while others take its share.  *)
LoadIsTarget ==
    pc = "sleeping" /\ faults = 0 => SumOver(rate, Nodes) <= decision

(* What holds of the leader and its agents in every state: a distribution  *)
(* adds up, and without a failing call the load is the target and nothing  *)
(* is left running (run).                                                  *)
LeaderInv == TypeOK /\ SharesAddUp /\ AllStopped /\ LoadIsTarget

(* What the leader knows of an agent only grows during a test, whatever    *)
(* calls fail, unless the agent has discarded its metrics: then it answers *)
(* without numbers, which are read as zeros (fetch_metrics).               *)
MetricsOnlyGrow ==
    [][test' = test => \A n \in Nodes :
        \/ node_metrics'[n] >= node_metrics[n]
        \/ node_metrics'[n] = 0 /\ work[n] = 0]_vars

(* Every test of the leader ends, whatever calls fail (run).               *)
LeaderEnds == pc # "idle" ~> pc = "idle"

-----------------------------------------------------------------------------
(* What the documents of the repository say and the code does not keep.    *)

(* "executes them one at a time": the agents never run two tests at once.  *)
OneTestAtATime ==
    \A n, m \in Nodes : run[n] # Idle /\ run[m] # Idle => run[n] = run[m]

=============================================================================
