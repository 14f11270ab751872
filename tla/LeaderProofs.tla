--------------------------- MODULE LeaderProofs -----------------------------
(***************************************************************************)
(* Proofs about the distributed coordinator, for any number of nodes,      *)
(* tests and faults: a node that failed is left out of later ticks         *)
(* (FailedExcluded), what the leader knows of an agent only grows          *)
(* (MetricsOnlyGrow), the shares of a distribution add up to the decision, *)
(* and without a failing call the load stays within it and every agent is  *)
(* told to stop (LeaderInv).                                               *)
(*                                                                         *)
(* And about the event recorder, for any batch size, sampling and schema,  *)
(* and any number of requests: the file says what happened (RecorderInv).  *)
(***************************************************************************)
EXTENDS Leader, EventRecorder, DataLemmas

(* The types of everything but the rates.                                  *)
Types ==
    /\ test \in Nat /\ faults \in Nat
    /\ failed \subseteq Nodes /\ nodes \subseteq Nodes /\ todo \in Seq(Nodes)
    /\ DOMAIN sent = Nodes
    /\ node_metrics \in [Nodes -> Nat] /\ work \in [Nodes -> Nat]
    /\ run \in [Nodes -> Nat] /\ stop \in [Nodes -> BOOLEAN]

(* A distribution goes to the nodes of the tick.                           *)
SentInTick ==
    pc \in {"first", "rating"} => Range(todo) \subseteq nodes /\ \A n \in Nodes : sent[n] # 0 => n \in nodes

(* What the leader knows of an agent is what it has done, unless the agent *)
(* has discarded its metrics.  A test starts with nothing known.           *)
KnownIsDone ==
    /\ \A n \in Nodes : node_metrics[n] <= work[n] \/ (work[n] = 0 /\ run[n] = Idle)
    /\ pc = "starting" => \A n \in Nodes : node_metrics[n] = 0

(* Without a failing call no node is left out, and a node that runs the    *)
(* test is still to be told to stop, or has been told.                     *)
NoneLeftOut ==
    faults = 0 =>
        /\ failed = {}
        /\ pc # "idle" => nodes = Nodes
        /\ pc \in {"idle", "stopping"} =>
              \A n \in Nodes : run[n] # Idle /\ run[n] = test => stop[n] \/ (pc = "stopping" /\ n \in Range(todo))

LeaderIInv == Types /\ SentInTick /\ KnownIsDone /\ NoneLeftOut

(* Every node of the tick that has been called was sent its share.         *)
SharesSent ==
    pc \in {"first", "rating"} => \A n \in nodes : n \notin Range(todo) => sent[n] = Weighted(decision, n)

(* Without a failing call, no engine of a node that has been called runs   *)
(* above its share.                                                        *)
WithinShares ==
    faults = 0 /\ pc \in {"first", "sleeping", "rating"} =>
        \A n \in Nodes : n \notin Range(todo) => rate[n] <= Weighted(decision, n)

(* What a distribution needs and does.                                     *)
Distributed ==
    /\ cores \in Discovered
    /\ pc # "idle" => test # 0
    /\ pc \in {"starting", "first", "sleeping", "fetching", "rating"} => nodes # {}
    /\ \A n \in Nodes : run[n] = Idle => rate[n] = 0
    /\ pc = "sleeping" => todo = <<>>
    /\ SharesSent /\ WithinShares

-----------------------------------------------------------------------------
(* The sums of the model.                                                  *)
LEMMA SumOverIs ==
    ASSUME NEW S, IsFiniteSet(S), NEW f, NatOn(f, S)
    PROVE  SumOver(f, S) = Total(f, S)
  BY SumIsTotal, Zenon DEF SumOver, MapThenSumSet, MapThenFoldSet

(* discover() finds the nodes that have not failed, a distribution and the *)
(* stop take the nodes of the tick, and a fetch leaves the other nodes.    *)
LEMMA Lists ==
    ASSUME nodes \subseteq Nodes, todo \in Seq(Nodes)
    PROVE  /\ Discover \in Seq(Nodes) /\ Range(Discover) = Nodes \ failed
           /\ InTick \in Seq(Nodes) /\ Range(InTick) = nodes
           /\ \A n : LET rest == Filtered(todo, {i \in DOMAIN todo : todo[i] # n}) IN
                     rest \in Seq(Nodes) /\ Range(rest) = Range(todo) \ {n}
           /\ NodeList \in Seq(Nodes) /\ Range(NodeList) = Nodes /\ Nodes # {}
  <1>1. NodeList \in Seq(Nodes) /\ NodeList # <<>>
    BY LeaderAssumption
  <1>2. ASSUME NEW s \in Seq(Nodes), NEW K \in SUBSET DOMAIN s
        PROVE  Filtered(s, K) \in Seq(Nodes) /\ Range(Filtered(s, K)) = {s[k] : k \in K}
    <2>1. Filtered(s, K) \in Seq(Nodes)
      BY FilterKeeps
    <2>2. {Filtered(s, K)[m] : m \in DOMAIN Filtered(s, K)} = {s[k] : k \in K}
      BY FilterRange, Zenon
    <2> QED
      BY <2>1, <2>2, Zenon DEF Range
  <1>3. Discover \in Seq(Nodes) /\ Range(Discover) = Nodes \ failed
    <2> DEFINE K == {i \in DOMAIN NodeList : NodeList[i] \notin failed}
    <2>1. K \in SUBSET DOMAIN NodeList
      OBVIOUS
    <2>2. {NodeList[k] : k \in K} = Nodes \ failed
      BY DEF Nodes, Range
    <2> HIDE DEF K
    <2>3. Filtered(NodeList, K) \in Seq(Nodes) /\ Range(Filtered(NodeList, K)) = {NodeList[k] : k \in K}
      BY <1>1, <1>2, <2>1, Zenon
    <2> QED
      BY <2>2, <2>3, Zenon DEF Discover, K
  <1>4. InTick \in Seq(Nodes) /\ Range(InTick) = nodes
    <2> DEFINE K == {i \in DOMAIN NodeList : NodeList[i] \in nodes}
    <2>1. K \in SUBSET DOMAIN NodeList
      OBVIOUS
    <2>2. {NodeList[k] : k \in K} = nodes
      BY DEF Nodes, Range
    <2> HIDE DEF K
    <2>3. Filtered(NodeList, K) \in Seq(Nodes) /\ Range(Filtered(NodeList, K)) = {NodeList[k] : k \in K}
      BY <1>1, <1>2, <2>1, Zenon
    <2> QED
      BY <2>2, <2>3, Zenon DEF InTick, K
  <1>5. ASSUME NEW n
        PROVE  LET rest == Filtered(todo, {i \in DOMAIN todo : todo[i] # n}) IN
               rest \in Seq(Nodes) /\ Range(rest) = Range(todo) \ {n}
    <2> DEFINE K == {i \in DOMAIN todo : todo[i] # n}
    <2>1. K \in SUBSET DOMAIN todo
      OBVIOUS
    <2>2. {todo[k] : k \in K} = Range(todo) \ {n}
      BY DEF Range
    <2> HIDE DEF K
    <2>3. Filtered(todo, K) \in Seq(Nodes) /\ Range(Filtered(todo, K)) = {todo[k] : k \in K}
      BY <1>2, <2>1, Zenon
    <2> QED
      BY <2>2, <2>3, Zenon DEF K
  <1>6. Range(NodeList) = Nodes /\ Nodes # {}
    <2>1. 1 \in DOMAIN NodeList
      BY <1>1
    <2> QED
      BY <2>1, Zenon DEF Nodes, Range
  <1> QED
    BY <1>1, <1>3, <1>4, <1>5, <1>6, Zenon

(* The command line names finitely many agents.                            *)
LEMMA NodesFinite == IsFiniteSet(Nodes)
  <1> DEFINE f == [i \in DOMAIN NodeList |-> NodeList[i]]
  <1>1. DOMAIN NodeList = 1..Len(NodeList) /\ Len(NodeList) \in Int /\ 1 \in Int
    BY LeaderAssumption
  <1>2. IsFiniteSet(DOMAIN NodeList)
    BY <1>1, FS_Interval, Zenon
  <1>3. f \in Surjection(DOMAIN NodeList, Nodes)
    BY DEF Surjection, Nodes, Range
  <1> QED
    BY <1>2, <1>3, FS_Surjection, Zenon

(* The loops over the nodes take the first and leave the others.           *)
LEMMA TakesFirst ==
    ASSUME todo \in Seq(Nodes), todo # <<>>
    PROVE  /\ Head(todo) \in Range(todo) /\ Head(todo) \in Nodes /\ Tail(todo) \in Seq(Nodes)
           /\ Range(todo) = {Head(todo)} \cup Range(Tail(todo))
  <1>1. /\ Len(todo) \in Nat \ {0} /\ DOMAIN todo = 1..Len(todo) /\ Head(todo) = todo[1] /\ todo[1] \in Nodes
        /\ Tail(todo) \in Seq(Nodes) /\ DOMAIN Tail(todo) = 1..(Len(todo) - 1)
        /\ \A i \in 1..(Len(todo) - 1) : Tail(todo)[i] = todo[i + 1]
    OBVIOUS
  <1>2. \A i \in DOMAIN todo : i = 1 \/ (i - 1 \in DOMAIN Tail(todo) /\ Tail(todo)[i - 1] = todo[i])
    BY <1>1
  <1>3. \A i \in DOMAIN Tail(todo) : i + 1 \in DOMAIN todo /\ Tail(todo)[i] = todo[i + 1]
    BY <1>1
  <1>4. 1 \in DOMAIN todo
    BY <1>1
  <1>5. Head(todo) \in Range(todo) /\ Head(todo) \in Nodes /\ Tail(todo) \in Seq(Nodes)
    BY <1>1, <1>4, Zenon DEF Range
  <1>6. ASSUME NEW n \in Range(todo) PROVE n \in {Head(todo)} \cup Range(Tail(todo))
    <2>1. PICK i \in DOMAIN todo : todo[i] = n
      BY Zenon DEF Range
    <2>2. i = 1 => n = Head(todo)
      BY <1>1, <2>1, Zenon
    <2>3. i # 1 => n \in Range(Tail(todo))
      BY <1>2, <2>1, Zenon DEF Range
    <2> QED
      BY <2>2, <2>3, Zenon
  <1>7. ASSUME NEW n \in Range(Tail(todo)) PROVE n \in Range(todo)
    <2>1. PICK i \in DOMAIN Tail(todo) : Tail(todo)[i] = n
      BY Zenon DEF Range
    <2> QED
      BY <1>3, <2>1, Zenon DEF Range
  <1> QED
    BY <1>5, <1>6, <1>7, Zenon

-----------------------------------------------------------------------------
(* A share is a whole number, and rounded down.                            *)
LEMMA RoundedDown ==
    ASSUME NEW a \in Nat, NEW t \in Nat \ {0}
    PROVE  a \div t \in Nat /\ t * (a \div t) <= a
  OBVIOUS

(* The share of a rate that is divisible.                                  *)
LEMMA ExactShare ==
    ASSUME NEW d \in Nat, NEW t \in Nat \ {0}, d % t = 0
    PROVE  /\ d \div t \in Nat /\ (d \div t) * t = d
           /\ \A c \in Nat : (d * c) \div t = (d \div t) * c
  <1> DEFINE q == d \div t
  <1>1. q \in Nat /\ d = q * t
    OBVIOUS
  <1> HIDE DEF q
  <1>2. \A k \in Nat : (k * t) \div t = k
    OBVIOUS
  <1>3. ASSUME NEW c \in Nat PROVE (d * c) \div t = q * c
    <2>1. d * c = (q * c) * t /\ q * c \in Nat
      BY <1>1
    <2> QED
      BY <1>2, <2>1, Zenon
  <1> QED
    BY <1>1, <1>3, Zenon DEF q

(* The weights: the cores of the nodes of the tick are added up, and every *)
(* node has a share that is rounded down.                                  *)
LEMMA WeightedIs ==
    ASSUME cores \in [Nodes -> Nat \ {0}], nodes \subseteq Nodes, nodes # {}, decision \in Nat
    PROVE  /\ TotalCores = Total(cores, nodes) /\ TotalCores \in Nat \ {0}
           /\ \A n \in Nodes : /\ Weighted(decision, n) \in Nat
                              /\ TotalCores * Weighted(decision, n) <= decision * cores[n]
  <1>1. IsFiniteSet(nodes)
    BY NodesFinite, FS_Subset, Zenon
  <1>2. \A n \in Nodes : cores[n] \in Nat /\ cores[n] # 0
    OBVIOUS
  <1>3. NatOn(cores, nodes)
    BY <1>2, Zenon DEF NatOn
  <1>4. TotalCores = Total(cores, nodes)
    BY <1>1, <1>3, SumOverIs, Zenon DEF TotalCores
  <1>5. Total(cores, nodes) \in Nat \ {0}
    <2>1. PICK x \in nodes : TRUE
      BY Zenon
    <2>2. /\ \A X \in SUBSET nodes : /\ Total(cores, X) \in Nat
                                    /\ \A y \in X : Total(cores, X) = cores[y] + Total(cores, X \ {y})
      BY <1>1, <1>3, TotalStep
    <2>3. nodes \in SUBSET nodes /\ nodes \ {x} \in SUBSET nodes
      BY Zenon
    <2>4. /\ Total(cores, nodes) \in Nat /\ Total(cores, nodes \ {x}) \in Nat
          /\ Total(cores, nodes) = cores[x] + Total(cores, nodes \ {x})
      BY <2>2, <2>3, Zenon
    <2>5. cores[x] \in Nat /\ cores[x] # 0
      BY <1>2, <2>1, Zenon
    <2> HIDE DEF Total
    <2> QED
      BY <2>4, <2>5
  <1>6. ASSUME NEW n \in Nodes
        PROVE  Weighted(decision, n) \in Nat /\ TotalCores * Weighted(decision, n) <= decision * cores[n]
    <2>1. decision * cores[n] \in Nat
      BY <1>2
    <2> QED
      BY <1>4, <1>5, <2>1, RoundedDown, Zenon DEF Weighted
  <1> QED
    BY <1>4, <1>5, <1>6, Zenon

(* The shares are the same as long as the nodes of the tick, their cores   *)
(* and the decision are.                                                   *)
LEMMA SameShares ==
    ASSUME UNCHANGED <<cores, nodes, decision>>
    PROVE  \A n \in Nodes : Weighted(decision, n)' = Weighted(decision, n)
  BY Zenon DEF Weighted, TotalCores

-----------------------------------------------------------------------------
(* The agents' steps change nothing that the leader holds.                 *)
LEMMA AgentSteps ==
    ASSUME LeaderIInv, NEW n \in Nodes, AgentStep(n)
    PROVE  LeaderIInv' /\ UNCHANGED leaderVars
  <1>0. Types /\ SentInTick /\ KnownIsDone /\ NoneLeftOut
    BY Zenon DEF LeaderIInv
  <1>1. /\ node_metrics \in [Nodes -> Nat] /\ work \in [Nodes -> Nat] /\ run \in [Nodes -> Nat]
        /\ stop \in [Nodes -> BOOLEAN]
    BY <1>0, Zenon DEF Types
  <1>2. UNCHANGED leaderVars /\ UNCHANGED faults
    BY Zenon DEF AgentStep, AgentWorks, AgentEnds, AgentResets
  <1>3. SentInTick'
    BY <1>0, <1>2, Zenon DEF SentInTick, leaderVars
  <1>4. CASE AgentWorks(n)
    <2>1. /\ run[n] # Idle /\ work' = [work EXCEPT ![n] = work[n] + 1] /\ UNCHANGED <<run, stop>>
      BY <1>4, Zenon DEF AgentWorks
    <2>2. work' \in [Nodes -> Nat] /\ \A m \in Nodes : work'[m] = IF m = n THEN work[m] + 1 ELSE work[m]
      BY <1>1, <2>1
    <2>3. \A m \in Nodes : node_metrics[m] <= work'[m] \/ (work'[m] = 0 /\ run'[m] = Idle)
      <3> SUFFICES ASSUME NEW m \in Nodes PROVE node_metrics[m] <= work'[m] \/ (work'[m] = 0 /\ run'[m] = Idle)
        BY Zenon
      <3>1. node_metrics[m] \in Nat /\ work[m] \in Nat
        BY <1>1
      <3>2. node_metrics[m] <= work[m] \/ (work[m] = 0 /\ run[m] = Idle)
        BY <1>0, Zenon DEF KnownIsDone
      <3>3. CASE m # n
        BY <2>1, <2>2, <3>2, <3>3, Zenon
      <3>4. CASE m = n
        <4>1. node_metrics[m] <= work[m]
          BY <2>1, <3>2, <3>4, Zenon
        <4>2. work'[m] = work[m] + 1
          BY <2>2, <3>4, Zenon
        <4> QED
          BY <3>1, <4>1, <4>2
      <3> QED
        BY <3>3, <3>4, Zenon
    <2> QED
      BY <1>0, <1>2, <1>3, <2>1, <2>2, <2>3, Zenon DEF LeaderIInv, Types, KnownIsDone, NoneLeftOut, leaderVars
  <1>5. CASE AgentEnds(n)
    <2>1. /\ run' = [run EXCEPT ![n] = Idle] /\ stop' = [stop EXCEPT ![n] = FALSE] /\ work' = work /\ run[n] # Idle
      BY <1>5, Zenon DEF AgentEnds
    <2>2. /\ run' \in [Nodes -> Nat] /\ stop' \in [Nodes -> BOOLEAN]
          /\ \A m \in Nodes : run'[m] = IF m = n THEN Idle ELSE run[m]
      BY <1>1, <2>1 DEF Idle
    <2>3. \A m \in Nodes : m # n => stop'[m] = stop[m]
      BY <1>1, <2>1, Zenon
    <2>4. \A m \in Nodes : node_metrics[m] <= work'[m] \/ (work'[m] = 0 /\ run'[m] = Idle)
      BY <1>0, <2>1, <2>2, Zenon DEF KnownIsDone
    <2>5. NoneLeftOut'
      BY <1>0, <1>2, <2>2, <2>3, Zenon DEF NoneLeftOut, leaderVars
    <2> QED
      BY <1>0, <1>2, <1>3, <2>1, <2>2, <2>4, <2>5, Zenon DEF LeaderIInv, Types, KnownIsDone, leaderVars
  <1>6. CASE AgentResets(n)
    <2>1. /\ run[n] = Idle /\ work' = [work EXCEPT ![n] = 0] /\ UNCHANGED <<run, stop>>
      BY <1>6, Zenon DEF AgentResets
    <2>2. work' \in [Nodes -> Nat] /\ \A m \in Nodes : work'[m] = IF m = n THEN 0 ELSE work[m]
      BY <1>1, <2>1
    <2>3. \A m \in Nodes : node_metrics[m] <= work'[m] \/ (work'[m] = 0 /\ run'[m] = Idle)
      BY <1>0, <2>1, <2>2, Zenon DEF KnownIsDone
    <2> QED
      BY <1>0, <1>2, <1>3, <2>1, <2>2, <2>3, Zenon DEF LeaderIInv, Types, KnownIsDone, NoneLeftOut, leaderVars
  <1> QED
    BY <1>2, <1>4, <1>5, <1>6, Zenon DEF AgentStep

(* A call that fails is counted.                                           *)
LEMMA FaultCounted ==
    ASSUME faults \in Nat, NEW o \in Outcomes, Fault(o)
    PROVE  faults' \in Nat /\ (faults' = 0 => faults = 0 /\ o = "answered")
  BY DEF Fault

(* POST /test/start to one node.                                           *)
LEMMA StartStep ==
    ASSUME LeaderIInv, NEW o \in Outcomes, StartNode(o)
    PROVE  LeaderIInv'
  <1> DEFINE n == Head(todo)
  <1>0. Types /\ SentInTick /\ KnownIsDone /\ NoneLeftOut
    BY Zenon DEF LeaderIInv
  <1>1. /\ node_metrics \in [Nodes -> Nat] /\ work \in [Nodes -> Nat] /\ run \in [Nodes -> Nat]
        /\ stop \in [Nodes -> BOOLEAN] /\ test \in Nat /\ faults \in Nat /\ failed \subseteq Nodes
        /\ todo \in Seq(Nodes)
    BY <1>0, Zenon DEF Types
  <1>2. /\ pc = "starting" /\ todo # <<>> /\ Fault(o) /\ todo' = Tail(todo)
        /\ failed' = IF o = "answered" THEN failed ELSE failed \cup {n}
        /\ UNCHANGED <<pc, test, cores, nodes, decision, sent, node_metrics>>
        /\ \/ /\ run' = [run EXCEPT ![n] = test] /\ stop' = [stop EXCEPT ![n] = FALSE]
              /\ work' = [work EXCEPT ![n] = 0]
           \/ UNCHANGED agentVars
    BY Zenon DEF StartNode
  <1>3. n \in Nodes /\ Tail(todo) \in Seq(Nodes)
    BY <1>1, <1>2, TakesFirst, Zenon
  <1> HIDE DEF n
  <1>4. /\ run' \in [Nodes -> Nat] /\ stop' \in [Nodes -> BOOLEAN] /\ work' \in [Nodes -> Nat]
    <2>1. 0 \in Nat /\ FALSE \in BOOLEAN
      OBVIOUS
    <2> QED
      BY <1>1, <1>2, <1>3, <2>1, Zenon DEF agentVars
  <1>5. faults' \in Nat /\ (faults' = 0 => faults = 0 /\ o = "answered")
    BY <1>1, <1>2, FaultCounted, Zenon
  <1>6. Types'
    <2>1. failed' \subseteq Nodes
      BY <1>1, <1>2, <1>3, Zenon
    <2> QED
      BY <1>0, <1>2, <1>3, <1>4, <1>5, <2>1, Zenon DEF Types
  <1>7. KnownIsDone'
    <2>1. \A m \in Nodes : node_metrics[m] = 0 /\ work'[m] \in Nat
      BY <1>0, <1>2, <1>4, Zenon DEF KnownIsDone
    <2>2. \A k \in Nat : 0 <= k
      OBVIOUS
    <2> QED
      BY <1>2, <2>1, <2>2, Zenon DEF KnownIsDone
  <1>8. "starting" \notin {"first", "rating"} /\ "starting" \notin {"idle", "stopping"}
    OBVIOUS
  <1> QED
    BY <1>0, <1>2, <1>5, <1>6, <1>7, <1>8, Zenon DEF LeaderIInv, SentInTick, NoneLeftOut

(* PUT /rate to one node: what is sent goes to a node of the tick.         *)
LEMMA RateStep ==
    ASSUME LeaderIInv, NEW o \in Outcomes, SetRate(o)
    PROVE  LeaderIInv' /\ \A m \in Nodes : sent'[m] # 0 => m \in nodes
  <1> DEFINE n == Head(todo)
  <1>0. Types /\ SentInTick /\ KnownIsDone /\ NoneLeftOut
    BY Zenon DEF LeaderIInv
  <1>1. faults \in Nat /\ todo \in Seq(Nodes) /\ DOMAIN sent = Nodes
    BY <1>0, Zenon DEF Types
  <1>2. /\ pc \in {"first", "rating"} /\ todo # <<>> /\ Fault(o) /\ todo' = Tail(todo)
        /\ sent' = [sent EXCEPT ![n] = Weighted(decision, n)]
        /\ UNCHANGED <<pc, test, cores, failed, nodes, decision, node_metrics, run, stop, work>>
    BY Zenon DEF SetRate
  <1>3. n \in Range(todo) /\ Tail(todo) \in Seq(Nodes) /\ Range(Tail(todo)) \subseteq Range(todo)
    BY <1>1, <1>2, TakesFirst, Zenon
  <1> HIDE DEF n
  <1>4. faults' \in Nat /\ (faults' = 0 => faults = 0)
    BY <1>1, <1>2, FaultCounted, Zenon
  <1>5. DOMAIN sent' = Nodes /\ \A m \in Nodes : m # n => sent'[m] = sent[m]
    BY <1>1, <1>2, Zenon
  <1>6. \A m \in Nodes : sent'[m] # 0 => m \in nodes
    BY <1>0, <1>2, <1>3, <1>5, Zenon DEF SentInTick
  <1>7. Types'
    BY <1>0, <1>2, <1>3, <1>4, <1>5, Zenon DEF Types
  <1>8. SentInTick'
    BY <1>0, <1>2, <1>3, <1>6, Zenon DEF SentInTick
  <1>9. KnownIsDone'
    BY <1>0, <1>2, Zenon DEF KnownIsDone
  <1>10. "first" \notin {"idle", "stopping"} /\ "rating" \notin {"idle", "stopping"}
    OBVIOUS
  <1>11. NoneLeftOut'
    BY <1>0, <1>2, <1>4, <1>10, Zenon DEF NoneLeftOut
  <1> QED
    BY <1>6, <1>7, <1>8, <1>9, <1>11, Zenon DEF LeaderIInv

(* GET /metrics of one node: what is known of it grows, or is zero because *)
(* the agent has discarded its metrics.                                    *)
LEMMA FetchStep ==
    ASSUME LeaderIInv, NEW o \in Outcomes, NEW n \in Nodes, Fetch(n, o)
    PROVE  /\ LeaderIInv' /\ UNCHANGED <<pc, sent>>
           /\ \A m \in Nodes : node_metrics'[m] >= node_metrics[m] \/ (node_metrics'[m] = 0 /\ work[m] = 0)
  <1>0. Types /\ SentInTick /\ KnownIsDone /\ NoneLeftOut
    BY Zenon DEF LeaderIInv
  <1>1. /\ node_metrics \in [Nodes -> Nat] /\ work \in [Nodes -> Nat] /\ faults \in Nat /\ todo \in Seq(Nodes)
        /\ failed \subseteq Nodes /\ nodes \subseteq Nodes
    BY <1>0, Zenon DEF Types
  <1>2. /\ pc \in {"fetching", "final"} /\ Fault(o)
        /\ node_metrics' = [node_metrics EXCEPT ![n] = Fetched(n, o)]
        /\ failed' = IF o # "answered" /\ pc = "fetching" THEN failed \cup {n} ELSE failed
        /\ todo' = Filtered(todo, {i \in DOMAIN todo : todo[i] # n})
        /\ UNCHANGED <<pc, test, cores, nodes, decision, sent, agentVars>>
    BY Zenon DEF Fetch
  <1>3. todo' \in Seq(Nodes)
    BY <1>1, <1>2, Lists, Zenon
  <1>4. faults' \in Nat /\ (faults' = 0 => faults = 0 /\ o = "answered")
    BY <1>1, <1>2, FaultCounted, Zenon
  <1>5. Fetched(n, o) \in {work[n], node_metrics[n]}
    BY Zenon DEF Fetched
  <1>6. node_metrics' \in [Nodes -> Nat] /\ \A m \in Nodes : node_metrics'[m] \in {work[m], node_metrics[m]}
    BY <1>1, <1>2, <1>5, Zenon
  <1>7. ASSUME NEW m \in Nodes
        PROVE  /\ node_metrics'[m] >= node_metrics[m] \/ (node_metrics'[m] = 0 /\ work[m] = 0)
               /\ node_metrics'[m] <= work[m] \/ (work[m] = 0 /\ run[m] = Idle)
    <2>1. node_metrics[m] <= work[m] \/ (work[m] = 0 /\ run[m] = Idle)
      BY <1>0, Zenon DEF KnownIsDone
    <2>2. node_metrics[m] \in Nat /\ work[m] \in Nat
      BY <1>1
    <2>3. CASE node_metrics'[m] = work[m]
      BY <2>1, <2>2, <2>3
    <2>4. CASE node_metrics'[m] = node_metrics[m]
      BY <2>1, <2>2, <2>4
    <2> QED
      BY <1>6, <2>3, <2>4, Zenon
  <1>8. /\ {"fetching", "final"} \cap {"first", "rating"} = {} /\ {"fetching", "final"} \cap {"idle", "stopping"} = {}
        /\ "starting" \notin {"fetching", "final"}
    OBVIOUS
  <1>9. Types'
    <2>1. failed' \subseteq Nodes
      BY <1>1, <1>2, Zenon
    <2> QED
      BY <1>0, <1>2, <1>3, <1>4, <1>6, <2>1, Zenon DEF Types, agentVars
  <1>10. SentInTick'
    BY <1>2, <1>8, Zenon DEF SentInTick
  <1>11. KnownIsDone'
    BY <1>2, <1>7, <1>8, Zenon DEF KnownIsDone, agentVars
  <1>12. NoneLeftOut'
    BY <1>0, <1>2, <1>4, <1>8, Zenon DEF NoneLeftOut
  <1> QED
    BY <1>2, <1>7, <1>9, <1>10, <1>11, <1>12, Zenon DEF LeaderIInv

(* POST /stop to one node.                                                 *)
LEMMA StopStep ==
    ASSUME LeaderIInv, NEW o \in Outcomes, StopNode(o)
    PROVE  LeaderIInv'
  <1> DEFINE n == Head(todo)
  <1>0. Types /\ SentInTick /\ KnownIsDone /\ NoneLeftOut
    BY Zenon DEF LeaderIInv
  <1>1. faults \in Nat /\ todo \in Seq(Nodes) /\ stop \in [Nodes -> BOOLEAN] /\ run \in [Nodes -> Nat]
    BY <1>0, Zenon DEF Types
  <1>2. /\ pc = "stopping" /\ todo # <<>> /\ Fault(o) /\ todo' = Tail(todo)
        /\ stop' = IF Delivered(o) THEN [stop EXCEPT ![n] = run[n] # Idle] ELSE stop
        /\ UNCHANGED <<pc, test, cores, failed, nodes, decision, sent, node_metrics, run, rate, work>>
    BY Zenon DEF StopNode
  <1>3. n \in Nodes /\ Tail(todo) \in Seq(Nodes) /\ Range(todo) = {n} \cup Range(Tail(todo))
    BY <1>1, <1>2, TakesFirst, Zenon
  <1> HIDE DEF n
  <1>4. faults' \in Nat /\ (faults' = 0 => faults = 0 /\ o = "answered")
    BY <1>1, <1>2, FaultCounted, Zenon
  <1>5. stop' \in [Nodes -> BOOLEAN]
    <2>1. (run[n] # Idle) \in BOOLEAN
      BY Zenon
    <2> QED
      BY <1>1, <1>2, <2>1, Zenon
  <1>6. Types'
    BY <1>0, <1>2, <1>3, <1>4, <1>5, Zenon DEF Types
  <1>7. "stopping" \notin {"first", "rating"} /\ "stopping" # "starting" /\ "stopping" # "idle" /\ "answered" # "lost"
    OBVIOUS
  <1>8. NoneLeftOut'
    <2> SUFFICES ASSUME faults' = 0
                 PROVE  /\ failed' = {} /\ nodes' = Nodes
                        /\ \A m \in Nodes : run'[m] # Idle /\ run'[m] = test' => stop'[m] \/ m \in Range(todo')
      BY <1>2, Zenon DEF NoneLeftOut
    <2>1. /\ failed = {} /\ nodes = Nodes
          /\ \A m \in Nodes : run[m] # Idle /\ run[m] = test => stop[m] \/ m \in Range(todo)
      BY <1>0, <1>2, <1>4, <1>7, Zenon DEF NoneLeftOut
    <2>2. stop' = [stop EXCEPT ![n] = run[n] # Idle]
      BY <1>2, <1>4, <1>7, Zenon DEF Delivered
    <2>3. \A m \in Nodes : stop'[m] = IF m = n THEN run[n] # Idle ELSE stop[m]
      BY <1>1, <2>2, Zenon
    <2> QED
      BY <1>2, <1>3, <2>1, <2>3, Zenon
  <1> QED
    BY <1>0, <1>2, <1>6, <1>7, <1>8, Zenon DEF LeaderIInv, SentInTick, KnownIsDone

(* A new test: every node is probed and starts without metrics.            *)
LEMMA BeginStep ==
    ASSUME LeaderIInv, Begin
    PROVE  LeaderIInv' /\ test' # test /\ \A n \in Nodes : sent'[n] = 0
  <1>0. Types
    BY Zenon DEF LeaderIInv
  <1>1. /\ test' = test + 1 /\ failed' = {} /\ nodes' = Nodes /\ todo' = NodeList /\ node_metrics' = Zero
        /\ sent' = Zero /\ pc' = "starting" /\ UNCHANGED <<run, stop, work>>
    BY Zenon DEF Begin, agentVars
  <1>2. faults' \in Nat
    <2>1. PICK silent \in SUBSET Nodes : faults' = faults + Cardinality(silent)
      BY Zenon DEF Begin
    <2>2. IsFiniteSet(Nodes)
      BY NodesFinite
    <2>3. Cardinality(silent) \in Nat
      BY <2>2, FS_Subset, FS_CardinalityType, Zenon
    <2>4. faults \in Nat
      BY <1>0, Zenon DEF Types
    <2> QED
      BY <2>1, <2>3, <2>4
  <1>3. /\ Zero \in [Nodes -> Nat] /\ DOMAIN Zero = Nodes /\ \A n \in Nodes : Zero[n] = 0
    BY DEF Zero
  <1>4. test \in Nat /\ test' \in Nat /\ test' # test
    BY <1>0, <1>1 DEF Types
  <1>5. Types'
    <2>1. NodeList \in Seq(Nodes) /\ {} \subseteq Nodes
      BY LeaderAssumption, Zenon
    <2> QED
      BY <1>0, <1>1, <1>2, <1>3, <1>4, <2>1, Zenon DEF Types
  <1>6. "starting" \notin {"first", "rating"} /\ "starting" \notin {"idle", "stopping"}
    OBVIOUS
  <1>7. KnownIsDone'
    <2>1. \A n \in Nodes : work[n] \in Nat
      BY <1>0, Zenon DEF Types
    <2>2. \A k \in Nat : 0 <= k
      OBVIOUS
    <2> QED
      BY <1>1, <1>3, <2>1, <2>2, Zenon DEF KnownIsDone
  <1> QED
    BY <1>1, <1>3, <1>4, <1>5, <1>6, <1>7, Zenon DEF LeaderIInv, SentInTick, NoneLeftOut

(* A step of the loop of run(): the nodes to call next are found.          *)
LEMMA LoopStep ==
    ASSUME LeaderIInv, Started \/ TickAgain \/ LeaveLoop \/ Tick \/ Decide \/ FinalFetched \/ Return
    PROVE  /\ LeaderIInv' /\ UNCHANGED <<test, node_metrics>>
           /\ sent' = sent \/ \A n \in Nodes : sent'[n] = 0
           /\ Tick => nodes' \cap failed = {}
  <1>0. Types /\ SentInTick /\ KnownIsDone /\ NoneLeftOut
    BY Zenon DEF LeaderIInv
  <1>1. UNCHANGED <<test, failed, node_metrics, faults, run, stop, work>>
    BY Zenon DEF Started, TickAgain, LeaveLoop, Tick, Decide, FinalFetched, Return, agentVars
  <1>2. /\ Discover \in Seq(Nodes) /\ Range(Discover) = Nodes \ failed
        /\ InTick \in Seq(Nodes) /\ Range(InTick) = nodes /\ Nodes # {}
    BY <1>0, Lists, Zenon DEF Types
  <1>3. /\ nodes' \in {nodes, Range(Discover)} /\ todo' \in {todo, Discover, InTick} /\ sent' \in {sent, Zero}
    BY Zenon DEF Started, TickAgain, LeaveLoop, Tick, Decide, FinalFetched, Return, ToStop
  <1>4. DOMAIN Zero = Nodes /\ \A n \in Nodes : Zero[n] = 0
    BY DEF Zero
  <1>5. Types'
    <2>1. nodes' \subseteq Nodes /\ todo' \in Seq(Nodes) /\ DOMAIN sent' = Nodes
      BY <1>0, <1>2, <1>3, <1>4, Zenon DEF Types
    <2> QED
      BY <1>0, <1>1, <2>1, Zenon DEF Types
  <1>6. pc' # "starting"
    BY DEF Started, TickAgain, LeaveLoop, Tick, Decide, FinalFetched, Return, TickEmpty
  <1>7. KnownIsDone'
    BY <1>0, <1>1, <1>6, Zenon DEF KnownIsDone
  <1>8. SentInTick'
    <2>1. CASE Started
      BY <1>2, <1>4, <2>1, Zenon DEF SentInTick, Started
    <2>2. CASE Decide
      BY <1>2, <1>4, <2>2, Zenon DEF SentInTick, Decide
    <2>3. CASE TickAgain \/ LeaveLoop \/ Tick \/ FinalFetched \/ Return
      <3>1. pc' \notin {"first", "rating"}
        BY <2>3 DEF TickAgain, LeaveLoop, Tick, FinalFetched, Return, TickEmpty
      <3> QED
        BY <3>1, Zenon DEF SentInTick
    <2> QED
      BY <2>1, <2>2, <2>3, Zenon
  <1>9. NoneLeftOut'
    <2> SUFFICES ASSUME faults = 0
                 PROVE  /\ pc' # "idle" => nodes' = Nodes
                        /\ pc' \in {"idle", "stopping"} =>
                              \A n \in Nodes : run[n] # Idle /\ run[n] = test =>
                                 stop[n] \/ (pc' = "stopping" /\ n \in Range(todo'))
      BY <1>0, <1>1, Zenon DEF NoneLeftOut
    <2>1. failed = {} /\ (pc # "idle" => nodes = Nodes)
      BY <1>0, Zenon DEF NoneLeftOut
    <2>2. Range(Discover) = Nodes /\ Discover # <<>>
      <3>1. Range(Discover) = Nodes
        BY <1>2, <2>1, Zenon
      <3>2. Range(<<>>) = {}
        BY DEF Range
      <3> QED
        BY <1>2, <3>1, <3>2, Zenon
    <2>3. pc # "idle"
      BY DEF Started, TickAgain, LeaveLoop, Tick, Decide, FinalFetched, Return
    <2>4. nodes' = Nodes
      BY <1>3, <2>1, <2>2, <2>3, Zenon
    <2>5. CASE Started \/ TickAgain \/ LeaveLoop \/ Tick \/ Decide
      <3>1. pc' \notin {"idle", "stopping"}
        BY <2>2, <2>5 DEF Started, TickAgain, LeaveLoop, Tick, Decide, TickEmpty
      <3> QED
        BY <2>4, <3>1, Zenon
    <2>6. CASE FinalFetched
      BY <1>2, <2>1, <2>3, <2>4, <2>6, Zenon DEF FinalFetched, ToStop
    <2>7. CASE Return
      <3>1. pc = "stopping" /\ todo = <<>> /\ Range(<<>>) = {}
        BY <2>7 DEF Return, Range
      <3>2. \A n \in Nodes : run[n] # Idle /\ run[n] = test => stop[n]
        BY <1>0, <3>1, Zenon DEF NoneLeftOut
      <3> QED
        BY <2>4, <3>2, Zenon
    <2> QED
      BY <2>5, <2>6, <2>7, Zenon
  <1>10. Tick => nodes' \cap failed = {}
    BY <1>2, Zenon DEF Tick
  <1> QED
    BY <1>1, <1>3, <1>4, <1>5, <1>7, <1>8, <1>9, <1>10, Zenon DEF LeaderIInv

(* The leader before its first test satisfies the invariant.               *)
LEMMA LeaderInit == Init => LeaderIInv
  <1> SUFFICES ASSUME Init PROVE LeaderIInv
    OBVIOUS
  <1>1. /\ pc = "idle" /\ test = 0 /\ failed = {} /\ nodes = {} /\ todo = <<>> /\ sent = Zero
        /\ node_metrics = Zero /\ faults = 0 /\ run = [n \in Nodes |-> Idle] /\ work = Zero
        /\ stop = [n \in Nodes |-> FALSE]
    BY Zenon DEF Init
  <1>2. /\ Zero \in [Nodes -> Nat] /\ DOMAIN Zero = Nodes /\ \A n \in Nodes : Zero[n] = 0 /\ 0 <= 0
        /\ [n \in Nodes |-> Idle] \in [Nodes -> Nat] /\ <<>> \in Seq(Nodes) /\ 0 \in Nat
    BY DEF Zero, Idle
  <1>3. [n \in Nodes |-> FALSE] \in [Nodes -> BOOLEAN] /\ {} \subseteq Nodes /\ \A n \in Nodes : run[n] = Idle
    BY <1>1, Zenon
  <1>4. "idle" \notin {"first", "rating"} /\ "idle" # "starting"
    OBVIOUS
  <1> QED
    BY <1>1, <1>2, <1>3, <1>4, Zenon DEF LeaderIInv, Types, SentInTick, KnownIsDone, NoneLeftOut

(* Every step keeps the invariant, sends rates only to nodes of the tick,  *)
(* begins a tick with nodes that have not failed, and forgets nothing.     *)
LEMMA LeaderStep ==
    ASSUME LeaderIInv, Next \/ UNCHANGED vars
    PROVE  /\ LeaderIInv'
           /\ pc = "sleeping" /\ pc' # "sleeping" => nodes' \cap failed = {}
           /\ sent' # sent => \A n \in Nodes : sent'[n] # 0 => n \in nodes
           /\ test' = test => \A n \in Nodes : \/ node_metrics'[n] >= node_metrics[n]
                                               \/ node_metrics'[n] = 0 /\ work[n] = 0
  <1>0. \A n \in Nodes : node_metrics[n] >= node_metrics[n]
    <2>1. \A n \in Nodes : node_metrics[n] \in Nat
      BY Zenon DEF LeaderIInv, Types
    <2>2. \A k \in Nat : k >= k
      OBVIOUS
    <2> QED
      BY <2>1, <2>2, Zenon
  <1>1. CASE Begin
    <2>1. pc # "sleeping"
      BY <1>1 DEF Begin
    <2> QED
      BY <1>1, <2>1, BeginStep, Zenon
  <1>2. CASE Started \/ TickAgain \/ LeaveLoop \/ Tick \/ Decide \/ FinalFetched \/ Return
    <2>1. pc = "sleeping" => Tick
      BY <1>2 DEF Started, TickAgain, LeaveLoop, Decide, FinalFetched, Return
    <2> QED
      BY <1>0, <1>2, <2>1, LoopStep, Zenon
  <1>3. ASSUME NEW o \in Outcomes, StartNode(o) \/ SetRate(o) \/ StopNode(o)
        PROVE  /\ LeaderIInv' /\ pc' = pc /\ node_metrics' = node_metrics
               /\ sent' # sent => \A n \in Nodes : sent'[n] # 0 => n \in nodes
    <2>1. pc' = pc /\ node_metrics' = node_metrics
      BY <1>3, Zenon DEF StartNode, SetRate, StopNode
    <2>2. StartNode(o) \/ StopNode(o) => sent' = sent
      BY Zenon DEF StartNode, StopNode
    <2> QED
      BY <1>3, <2>1, <2>2, StartStep, RateStep, StopStep, Zenon
  <1>4. ASSUME NEW n \in Nodes, AgentStep(n)
        PROVE  LeaderIInv' /\ UNCHANGED <<pc, sent, node_metrics>>
    BY <1>4, AgentSteps, Zenon DEF leaderVars
  <1>5. CASE UNCHANGED vars
    <2>1. UNCHANGED vars
      BY <1>5
    <2>2. LeaderIInv' /\ UNCHANGED <<pc, sent, node_metrics>>
      BY <2>1, Zenon DEF vars, LeaderIInv, Types, SentInTick, KnownIsDone, NoneLeftOut
    <2> QED
      BY <1>0, <2>2, Zenon
  <1>6. CASE \E o \in Outcomes : Call(o)
    <2>1. PICK o \in Outcomes : Call(o)
      BY <1>6, Zenon
    <2>2. CASE StartNode(o) \/ SetRate(o) \/ StopNode(o)
      BY <1>0, <1>3, <2>2, Zenon
    <2>3. CASE \E n \in Nodes : Fetch(n, o)
      BY <2>3, FetchStep, Zenon
    <2> QED
      BY <2>1, <2>2, <2>3, Zenon DEF Call
  <1>7. CASE \E n \in Nodes : AgentStep(n)
    BY <1>0, <1>4, <1>7, Zenon
  <1> QED
    BY <1>1, <1>2, <1>5, <1>6, <1>7, Zenon DEF Next, Coordinator

(* "excluded from future ticks", for any number of nodes and whatever      *)
(* calls fail: the nodes of a tick had not failed when it began, and rates *)
(* are sent only to nodes of the tick (discover, distribute_rate).         *)
THEOREM FailedAreExcluded == Spec => FailedExcluded
  <1>1. Init => LeaderIInv
    BY LeaderInit
  <1>2. LeaderIInv /\ [Next]_vars => LeaderIInv' /\
            [/\ pc = "sleeping" /\ pc' # "sleeping" => nodes' \cap failed = {}
             /\ sent' # sent => \A n \in Nodes : sent'[n] # 0 => n \in nodes]_vars
    BY LeaderStep, Zenon
  <1> QED
    BY <1>1, <1>2, PTL DEF Spec, FailedExcluded

(* What the leader has been told of an agent is never lost during a test,  *)
(* for any number of nodes and failing calls: a value is replaced by a     *)
(* larger one, or by zero when the agent has discarded its metrics         *)
(* (fetch_metrics, tick).                                                  *)
THEOREM MetricsGrow == Spec => MetricsOnlyGrow
  <1>1. Init => LeaderIInv
    BY LeaderInit
  <1>2. LeaderIInv /\ [Next]_vars => LeaderIInv' /\
            [test' = test => \A n \in Nodes : \/ node_metrics'[n] >= node_metrics[n]
                                              \/ node_metrics'[n] = 0 /\ work[n] = 0]_vars
    BY LeaderStep, Zenon
  <1> QED
    BY <1>1, <1>2, PTL DEF Spec, MetricsOnlyGrow

-----------------------------------------------------------------------------
(* The rates.                                                              *)
LoadInv == TypeOK /\ LeaderIInv /\ Distributed

(* While a test runs there are shares to send.                             *)
LEMMA SharesKnown ==
    ASSUME LoadInv, pc \in {"starting", "first", "sleeping", "fetching", "rating"}
    PROVE  \A n \in Nodes : Weighted(decision, n) \in Nat
  <1>1. /\ cores \in [Nodes -> Nat \ {0}] /\ nodes \subseteq Nodes /\ nodes # {} /\ decision \in Rates
    BY Zenon DEF LoadInv, TypeOK, Distributed
  <1>2. decision \in Nat
    BY <1>1, LeaderAssumption, Zenon
  <1> QED
    BY <1>1, <1>2, WeightedIs, Zenon

(* The agents' steps keep the rates: an engine that ends has none.         *)
LEMMA AgentLoad ==
    ASSUME LoadInv, NEW n \in Nodes, AgentStep(n)
    PROVE  TypeOK' /\ Distributed'
  <1>0. TypeOK /\ Distributed
    BY Zenon DEF LoadInv
  <1>1. /\ work \in [Nodes -> 0..MaxWork] /\ run \in [Nodes -> 0..MaxTests] /\ rate \in [Nodes -> Nat]
        /\ stop \in [Nodes -> BOOLEAN] /\ MaxTests \in Nat /\ MaxWork \in Nat
    BY <1>0, LeaderAssumption, Zenon DEF TypeOK
  <1>2. UNCHANGED leaderVars /\ UNCHANGED faults
    BY Zenon DEF AgentStep, AgentWorks, AgentEnds, AgentResets
  <1>3. \A m \in Nodes : Weighted(decision, m)' = Weighted(decision, m)
    BY <1>2, SameShares, Zenon DEF leaderVars
  <1>4. SharesSent'
    <2>1. nodes \subseteq Nodes
      BY <1>0, Zenon DEF TypeOK
    <2> QED
      BY <1>0, <1>2, <1>3, <2>1, Zenon DEF Distributed, SharesSent, leaderVars
  <1>5. CASE AgentWorks(n) \/ AgentResets(n)
    <2>1. /\ UNCHANGED <<run, rate, stop>>
          /\ \/ work' = [work EXCEPT ![n] = 0]
             \/ work[n] < MaxWork /\ work' = [work EXCEPT ![n] = work[n] + 1]
      BY <1>5, Zenon DEF AgentWorks, AgentResets
    <2>2. work' \in [Nodes -> 0..MaxWork]
      <3>1. work[n] \in 0..MaxWork
        BY <1>1, Zenon
      <3>2. 0 \in 0..MaxWork /\ (work[n] < MaxWork => work[n] + 1 \in 0..MaxWork)
        BY <1>1, <3>1
      <3> QED
        BY <1>1, <2>1, <3>2, Zenon
    <2>3. TypeOK'
      BY <1>0, <1>2, <2>1, <2>2, Zenon DEF TypeOK, leaderVars
    <2>4. WithinShares'
      BY <1>0, <1>2, <1>3, <2>1, Zenon DEF Distributed, WithinShares, leaderVars
    <2> QED
      BY <1>0, <1>2, <1>4, <2>1, <2>3, <2>4, Zenon DEF Distributed, leaderVars
  <1>6. CASE AgentEnds(n)
    <2>1. /\ run' = [run EXCEPT ![n] = Idle] /\ rate' = [rate EXCEPT ![n] = 0]
          /\ stop' = [stop EXCEPT ![n] = FALSE] /\ work' = work
      BY <1>6, Zenon DEF AgentEnds
    <2>2. Idle \in 0..MaxTests /\ 0 \in Nat /\ \A k \in Nat : 0 <= k
      BY <1>1 DEF Idle
    <2>3. /\ run' \in [Nodes -> 0..MaxTests] /\ rate' \in [Nodes -> Nat] /\ stop' \in [Nodes -> BOOLEAN]
          /\ \A m \in Nodes : rate'[m] = IF m = n THEN 0 ELSE rate[m]
          /\ \A m \in Nodes : m # n => run'[m] = run[m]
      BY <1>1, <2>1, <2>2, Zenon
    <2>4. TypeOK'
      BY <1>0, <1>2, <2>1, <2>3, Zenon DEF TypeOK, leaderVars
    <2>5. \A m \in Nodes : run'[m] = Idle => rate'[m] = 0
      BY <1>0, <2>3, Zenon DEF Distributed
    <2>6. ASSUME faults' = 0, pc' \in {"first", "sleeping", "rating"}, NEW m \in Nodes, m \notin Range(todo')
          PROVE  rate'[m] <= Weighted(decision, m)'
      <3>1. faults = 0 /\ pc \in {"first", "sleeping", "rating"} /\ m \notin Range(todo)
        BY <1>2, <2>6, Zenon DEF leaderVars
      <3>2. rate[m] <= Weighted(decision, m)
        BY <1>0, <3>1, Zenon DEF Distributed, WithinShares
      <3>3. 0 <= Weighted(decision, m)
        BY <2>2, <3>1, SharesKnown, Zenon
      <3> QED
        BY <1>3, <2>3, <3>2, <3>3, Zenon
    <2>7. WithinShares'
      BY <2>6, Zenon DEF WithinShares
    <2> QED
      BY <1>0, <1>2, <1>4, <2>4, <2>5, <2>7, Zenon DEF Distributed, leaderVars
  <1> QED
    BY <1>5, <1>6, Zenon DEF AgentStep

(* A call that fails is counted up to the bound.                           *)
LEMMA FaultBound ==
    ASSUME faults \in 0..MaxFaults, NEW o \in Outcomes, Fault(o)
    PROVE  faults' \in 0..MaxFaults
  BY LeaderAssumption DEF Fault

(* POST /test/start: the engine gets its share with the test.              *)
LEMMA StartLoad ==
    ASSUME LoadInv, NEW o \in Outcomes, StartNode(o), Types'
    PROVE  TypeOK' /\ Distributed'
  <1> DEFINE n == Head(todo)
  <1>0. TypeOK /\ Distributed
    BY Zenon DEF LoadInv
  <1>1. /\ work \in [Nodes -> 0..MaxWork] /\ run \in [Nodes -> 0..MaxTests] /\ rate \in [Nodes -> Nat]
        /\ test \in 0..MaxTests /\ faults \in 0..MaxFaults /\ todo \in Seq(Nodes)
    BY <1>0, Zenon DEF TypeOK
  <1>2. /\ pc = "starting" /\ todo # <<>> /\ Fault(o)
        /\ UNCHANGED <<pc, test, cores, nodes, decision, sent, node_metrics>>
        /\ \/ /\ run' = [run EXCEPT ![n] = test] /\ work' = [work EXCEPT ![n] = 0]
              /\ rate' = [rate EXCEPT ![n] = Weighted(decision, n)]
           \/ UNCHANGED agentVars
    BY Zenon DEF StartNode
  <1>3. n \in Nodes
    BY <1>1, <1>2, TakesFirst, Zenon
  <1> HIDE DEF n
  <1>4. "starting" # "idle" /\ "starting" \in {"starting", "first", "sleeping", "fetching", "rating"}
    OBVIOUS
  <1>5. Weighted(decision, n) \in Nat /\ test # Idle
    <2>1. test # 0
      BY <1>0, <1>2, <1>4, Zenon DEF Distributed
    <2> QED
      BY <1>2, <1>3, <1>4, <2>1, SharesKnown, Zenon DEF Idle
  <1>6. 0 \in 0..MaxWork
    BY LeaderAssumption
  <1>7. /\ run' \in [Nodes -> 0..MaxTests] /\ rate' \in [Nodes -> Nat] /\ work' \in [Nodes -> 0..MaxWork]
    BY <1>1, <1>2, <1>3, <1>5, <1>6, Zenon DEF agentVars
  <1>8. faults' \in 0..MaxFaults
    BY <1>1, <1>2, FaultBound, Zenon
  <1>9. TypeOK'
    BY <1>0, <1>2, <1>7, <1>8, Zenon DEF TypeOK, Types
  <1>10. \A m \in Nodes : run'[m] = Idle => rate'[m] = 0
    <2>1. \A m \in Nodes : run[m] = Idle => rate[m] = 0
      BY <1>0, Zenon DEF Distributed
    <2>2. CASE UNCHANGED agentVars
      BY <2>1, <2>2, Zenon DEF agentVars
    <2>3. CASE run' = [run EXCEPT ![n] = test] /\ rate' = [rate EXCEPT ![n] = Weighted(decision, n)]
      BY <1>1, <1>3, <1>5, <2>1, <2>3, Zenon
    <2> QED
      BY <1>2, <2>2, <2>3, Zenon
  <1>11. pc' \notin {"first", "rating"} /\ pc' \notin {"first", "sleeping", "rating"} /\ pc' # "sleeping"
    BY <1>2
  <1> QED
    BY <1>0, <1>2, <1>9, <1>10, <1>11, Zenon DEF Distributed, SharesSent, WithinShares
(* PUT /rate: the node is sent its share, and an engine that runs is set   *)
(* to it.                                                                  *)
LEMMA RateLoad ==
    ASSUME LoadInv, NEW o \in Outcomes, SetRate(o), Types'
    PROVE  TypeOK' /\ Distributed'
  <1> DEFINE n == Head(todo)
  <1>0. TypeOK /\ Distributed
    BY Zenon DEF LoadInv
  <1>1. /\ sent \in [Nodes -> Nat] /\ rate \in [Nodes -> Nat] /\ faults \in 0..MaxFaults /\ todo \in Seq(Nodes)
        /\ nodes \subseteq Nodes
    BY <1>0, Zenon DEF TypeOK
  <1>2. /\ pc \in {"first", "rating"} /\ todo # <<>> /\ Fault(o) /\ todo' = Tail(todo)
        /\ sent' = [sent EXCEPT ![n] = Weighted(decision, n)]
        /\ rate' = IF Delivered(o) /\ run[n] # Idle THEN [rate EXCEPT ![n] = Weighted(decision, n)] ELSE rate
        /\ UNCHANGED <<pc, test, cores, failed, nodes, decision, node_metrics, run, stop, work>>
    BY Zenon DEF SetRate, RateApplied
  <1>3. n \in Nodes /\ Range(todo) = {n} \cup Range(todo')
    BY <1>1, <1>2, TakesFirst, Zenon
  <1> HIDE DEF n
  <1>4. pc \in {"starting", "first", "sleeping", "fetching", "rating"} /\ pc # "sleeping"
    BY <1>2
  <1>5. \A m \in Nodes : Weighted(decision, m) \in Nat /\ Weighted(decision, m)' = Weighted(decision, m)
    BY <1>2, <1>4, SharesKnown, SameShares, Zenon
  <1>6. /\ sent' \in [Nodes -> Nat] /\ rate' \in [Nodes -> Nat]
        /\ \A m \in Nodes : sent'[m] = IF m = n THEN Weighted(decision, n) ELSE sent[m]
        /\ \A m \in Nodes : m # n => rate'[m] = rate[m]
        /\ rate'[n] = IF Delivered(o) /\ run[n] # Idle THEN Weighted(decision, n) ELSE rate[n]
    BY <1>1, <1>2, <1>3, <1>5, Zenon
  <1>7. faults' \in 0..MaxFaults
    BY <1>1, <1>2, FaultBound, Zenon
  <1>8. TypeOK'
    BY <1>0, <1>2, <1>6, <1>7, Zenon DEF TypeOK, Types
  <1>9. \A m \in Nodes : run[m] = Idle => rate'[m] = 0
    BY <1>0, <1>6, Zenon DEF Distributed
  <1>10. SharesSent'
    BY <1>0, <1>1, <1>2, <1>3, <1>5, <1>6, Zenon DEF Distributed, SharesSent
  <1>11. ASSUME faults' = 0, NEW m \in Nodes, m \notin Range(todo')
         PROVE  rate'[m] <= Weighted(decision, m)
    <2>1. faults = 0 /\ o = "answered"
      <3>1. faults \in Nat
        BY <1>1
      <3> QED
        BY <1>2, <1>11, <3>1, FaultCounted, Zenon
    <2>2. CASE m # n
      <3>1. m \notin Range(todo) /\ pc \in {"first", "sleeping", "rating"}
        BY <1>2, <1>3, <1>11, <2>2, Zenon
      <3> QED
        BY <1>0, <1>6, <2>1, <2>2, <3>1, Zenon DEF Distributed, WithinShares
    <2>3. CASE m = n
      <3>1. rate'[n] = Weighted(decision, n) \/ (run[n] = Idle /\ rate'[n] = 0)
        <4>1. Delivered(o)
          BY <2>1 DEF Delivered
        <4> QED
          BY <1>3, <1>6, <1>9, <4>1, Zenon
      <3>2. \A k \in Nat : k <= k /\ 0 <= k
        OBVIOUS
      <3> QED
        BY <1>3, <1>5, <2>3, <3>1, <3>2, Zenon
    <2> QED
      BY <2>2, <2>3, Zenon
  <1>12. WithinShares'
    BY <1>2, <1>5, <1>11, Zenon DEF WithinShares
  <1> QED
    BY <1>0, <1>2, <1>4, <1>8, <1>9, <1>10, <1>12, Zenon DEF Distributed

(* The calls that send no rate.                                            *)
LEMMA OtherLoad ==
    ASSUME LoadInv, NEW o \in Outcomes, Types', StopNode(o) \/ \E n \in Nodes : Fetch(n, o)
    PROVE  TypeOK' /\ Distributed'
  <1>0. TypeOK /\ Distributed
    BY Zenon DEF LoadInv
  <1>1. /\ node_metrics \in [Nodes -> 0..MaxWork] /\ work \in [Nodes -> 0..MaxWork] /\ faults \in 0..MaxFaults
    BY <1>0, Zenon DEF TypeOK
  <1>2. /\ Fault(o) /\ pc' = pc /\ UNCHANGED <<test, cores, nodes, decision, sent, run, rate, work>>
        /\ pc \in {"fetching", "final", "stopping"}
    <2>1. CASE StopNode(o)
      BY <2>1, Zenon DEF StopNode
    <2>2. CASE \E n \in Nodes : Fetch(n, o)
      BY <2>2, Zenon DEF Fetch, agentVars
    <2> QED
      BY <2>1, <2>2, Zenon
  <1>3. node_metrics' \in [Nodes -> 0..MaxWork]
    <2>1. CASE StopNode(o)
      BY <1>1, <2>1, Zenon DEF StopNode
    <2>2. ASSUME NEW n \in Nodes, Fetch(n, o) PROVE node_metrics' \in [Nodes -> 0..MaxWork]
      <3>1. node_metrics' = [node_metrics EXCEPT ![n] = Fetched(n, o)]
        BY <2>2, Zenon DEF Fetch
      <3>2. Fetched(n, o) \in 0..MaxWork
        BY <1>1, Zenon DEF Fetched
      <3> QED
        BY <1>1, <3>1, <3>2, Zenon
    <2> QED
      BY <2>1, <2>2, Zenon
  <1>4. faults' \in 0..MaxFaults
    BY <1>1, <1>2, FaultBound, Zenon
  <1>5. TypeOK'
    BY <1>0, <1>2, <1>3, <1>4, Zenon DEF TypeOK, Types
  <1>6. pc' \notin {"first", "rating"} /\ pc' \notin {"first", "sleeping", "rating"} /\ pc' # "sleeping"
    BY <1>2
  <1> QED
    BY <1>0, <1>2, <1>5, <1>6, Zenon DEF Distributed, SharesSent, WithinShares

(* A new test: all nodes, with the cores that the probes found.            *)
LEMMA BeginLoad ==
    ASSUME LoadInv, Begin, Types'
    PROVE  TypeOK' /\ Distributed'
  <1>0. TypeOK /\ Distributed
    BY Zenon DEF LoadInv
  <1>1. /\ test < MaxTests /\ test' = test + 1 /\ nodes' = Nodes /\ decision' \in Rates
        /\ node_metrics' = Zero /\ sent' = Zero /\ pc' = "starting" /\ UNCHANGED <<run, rate, stop, work>>
        /\ faults' <= MaxFaults /\ cores' \in Discovered
    BY Zenon DEF Begin, Discovered, agentVars
  <1>2. Zero \in [Nodes -> Nat] /\ Zero \in [Nodes -> 0..MaxWork]
    BY LeaderAssumption DEF Zero
  <1>3. test' \in 0..MaxTests /\ test' # 0
    BY <1>0, <1>1, LeaderAssumption DEF TypeOK
  <1>4. faults' \in 0..MaxFaults
    BY <1>1, LeaderAssumption DEF Types
  <1>5. cores' \in [Nodes -> Nat \ {0}]
    <2>1. PICK silent \in SUBSET Nodes : cores' = [n \in Nodes |-> Probed(n, silent)]
      BY <1>1, Zenon DEF Discovered
    <2>2. \A n \in Nodes : Probed(n, silent) \in Nat \ {0}
      BY LeaderAssumption DEF Probed
    <2> QED
      BY <2>1, <2>2, Zenon
  <1>6. Nodes # {}
    BY <1>0, Lists, Zenon DEF TypeOK
  <1>7. /\ pc' \notin {"first", "rating"} /\ pc' \notin {"first", "sleeping", "rating"} /\ pc' # "sleeping"
        /\ pc' \in {"idle", "starting", "first", "sleeping", "fetching", "rating", "final", "stopping"}
    BY <1>1
  <1>8. TypeOK'
    BY <1>0, <1>1, <1>2, <1>3, <1>4, <1>5, <1>7, Zenon DEF TypeOK, Types
  <1> QED
    BY <1>0, <1>1, <1>3, <1>6, <1>7, <1>8, Zenon DEF Distributed, SharesSent, WithinShares
(* A step of the loop of run(): a distribution begins with all nodes of    *)
(* the tick to call, and ends with none.                                   *)
LEMMA LoopLoad ==
    ASSUME LoadInv, Types', Started \/ TickAgain \/ LeaveLoop \/ Tick \/ Decide \/ FinalFetched \/ Return
    PROVE  TypeOK' /\ Distributed'
  <1>0. TypeOK /\ Distributed /\ NoneLeftOut
    BY Zenon DEF LoadInv, LeaderIInv
  <1>1. UNCHANGED <<test, cores, node_metrics, faults, run, rate, stop, work>>
    BY Zenon DEF Started, TickAgain, LeaveLoop, Tick, Decide, FinalFetched, Return, agentVars
  <1>2. /\ Range(Discover) = Nodes \ failed /\ Range(InTick) = nodes /\ Discover \in Seq(Nodes)
    BY <1>0, Lists, Zenon DEF TypeOK
  <1>3. decision' \in Rates /\ sent' \in {sent, Zero} /\ Zero \in [Nodes -> Nat]
    <2>1. decision' \in Rates /\ sent' \in {sent, Zero}
      BY <1>0, Zenon DEF Started, TickAgain, LeaveLoop, Tick, Decide, FinalFetched, Return, TypeOK
    <2> QED
      BY <2>1 DEF Zero
  <1>4. pc # "idle" /\ pc' \in {"idle", "starting", "first", "sleeping", "fetching", "rating", "final", "stopping"}
    BY DEF Started, TickAgain, LeaveLoop, Tick, Decide, FinalFetched, Return, TickEmpty
  <1>5. TypeOK'
    BY <1>0, <1>1, <1>3, <1>4, Zenon DEF TypeOK, Types
  <1>6. Discover # <<>> => Range(Discover) # {}
    <2> SUFFICES ASSUME Discover # <<>> PROVE Range(Discover) # {}
      BY Zenon
    <2>1. 1 \in DOMAIN Discover
      BY <1>2
    <2> QED
      BY <2>1, Zenon DEF Range
  <1>7. test' # 0 /\ \A n \in Nodes : run'[n] = Idle => rate'[n] = 0
    BY <1>0, <1>1, <1>4, Zenon DEF Distributed
  <1>8. faults' = 0 => failed = {} /\ nodes = Nodes
    BY <1>0, <1>1, <1>4, Zenon DEF NoneLeftOut
  <1>9. CASE Started
    <2>1. nodes' = Range(Discover) /\ todo' = Discover /\ (pc' = "idle" \/ (pc' = "first" /\ Discover # <<>>))
      BY <1>9, Zenon DEF Started
    <2>2. SharesSent'
      BY <2>1, Zenon DEF SharesSent
    <2>3. WithinShares'
      BY <1>2, <1>8, <2>1, Zenon DEF WithinShares
    <2>4. pc' # "sleeping" /\ (pc' \in {"starting", "first", "sleeping", "fetching", "rating"} => nodes' # {})
      BY <1>6, <2>1
    <2> QED
      BY <1>0, <1>1, <1>5, <1>7, <2>2, <2>3, <2>4, Zenon DEF Distributed
  <1>10. CASE TickAgain
    <2>1. /\ pc \in {"first", "rating"} /\ todo = <<>> /\ pc' = "sleeping"
          /\ UNCHANGED <<cores, nodes, todo, decision, faults, rate>>
      BY <1>10, Zenon DEF TickAgain, agentVars
    <2>2. pc' \notin {"first", "rating"} /\ pc \in {"starting", "first", "sleeping", "fetching", "rating"}
      BY <2>1
    <2>3. \A n \in Nodes : Weighted(decision, n)' = Weighted(decision, n)
      BY <2>1, SameShares, Zenon
    <2>4. WithinShares'
      BY <1>0, <2>1, <2>3, Zenon DEF WithinShares, Distributed
    <2>5. nodes' # {}
      BY <1>0, <2>1, <2>2, Zenon DEF Distributed
    <2> QED
      BY <1>0, <1>1, <1>5, <1>7, <2>1, <2>2, <2>4, <2>5, Zenon DEF Distributed, SharesSent
  <1>11. CASE Tick
    <2>1. nodes' = Range(Discover) /\ (pc' = "final" \/ (pc' = "fetching" /\ Discover # <<>>))
      BY <1>11, Zenon DEF Tick, TickEmpty
    <2>2. /\ pc' \notin {"first", "rating"} /\ pc' \notin {"first", "sleeping", "rating"} /\ pc' # "sleeping"
          /\ (pc' \in {"starting", "first", "sleeping", "fetching", "rating"} => nodes' # {})
      BY <1>6, <2>1
    <2> QED
      BY <1>0, <1>1, <1>5, <1>7, <2>2, Zenon DEF Distributed, SharesSent, WithinShares
  <1>12. CASE Decide
    <2>1. pc = "fetching" /\ nodes' = nodes /\ todo' = InTick /\ pc' = "rating"
      BY <1>12, Zenon DEF Decide
    <2>2. SharesSent'
      BY <1>2, <2>1, Zenon DEF SharesSent
    <2>3. WithinShares'
      BY <1>2, <1>8, <2>1, Zenon DEF WithinShares
    <2>4. pc' # "sleeping" /\ pc \in {"starting", "first", "sleeping", "fetching", "rating"}
      BY <2>1
    <2>5. nodes' # {}
      BY <1>0, <2>1, <2>4, Zenon DEF Distributed
    <2> QED
      BY <1>0, <1>1, <1>5, <1>7, <2>2, <2>3, <2>4, <2>5, Zenon DEF Distributed
  <1>13. CASE LeaveLoop \/ FinalFetched \/ Return
    <2>1. /\ pc' \notin {"first", "rating"} /\ pc' \notin {"first", "sleeping", "rating"} /\ pc' # "sleeping"
          /\ pc' \notin {"starting", "first", "sleeping", "fetching", "rating"}
      BY <1>13 DEF LeaveLoop, FinalFetched, Return
    <2> QED
      BY <1>0, <1>1, <1>5, <1>7, <2>1, Zenon DEF Distributed, SharesSent, WithinShares
  <1> QED
    BY <1>9, <1>10, <1>11, <1>12, <1>13, Zenon

(* The agents and the leader before the first test.                        *)
LEMMA LoadInit == Init => LoadInv
  <1> SUFFICES ASSUME Init PROVE LoadInv
    OBVIOUS
  <1>1. LeaderIInv
    BY LeaderInit, Zenon
  <1>2. /\ pc = "idle" /\ test = 0 /\ cores = Cores /\ decision \in Rates /\ sent = Zero
        /\ node_metrics = Zero /\ faults = 0 /\ run = [n \in Nodes |-> Idle] /\ rate = Zero /\ work = Zero
    BY Zenon DEF Init
  <1>3. /\ Zero \in [Nodes -> Nat] /\ Zero \in [Nodes -> 0..MaxWork] /\ \A n \in Nodes : Zero[n] = 0
        /\ [n \in Nodes |-> Idle] \in [Nodes -> 0..MaxTests] /\ 0 \in 0..MaxTests /\ 0 \in 0..MaxFaults
        /\ Cores \in [Nodes -> Nat \ {0}]
    BY LeaderAssumption DEF Zero, Idle
  <1>4. Cores \in Discovered
    <2>1. Cores = [n \in Nodes |-> Cores[n]]
      BY LeaderAssumption
    <2>2. [n \in Nodes |-> Cores[n]] = [n \in Nodes |-> Probed(n, {})]
      BY DEF Probed
    <2>3. {} \in SUBSET Nodes
      BY Zenon
    <2> QED
      BY <2>1, <2>2, <2>3, Zenon DEF Discovered
  <1>5. /\ pc \notin {"first", "rating"} /\ pc \notin {"first", "sleeping", "rating"} /\ pc # "sleeping"
        /\ pc \notin {"starting", "first", "sleeping", "fetching", "rating"}
        /\ pc \in {"idle", "starting", "first", "sleeping", "fetching", "rating", "final", "stopping"}
    BY <1>2
  <1>6. TypeOK
    BY <1>1, <1>2, <1>3, <1>5, Zenon DEF TypeOK, LeaderIInv, Types
  <1> QED
    BY <1>1, <1>2, <1>3, <1>4, <1>5, <1>6, Zenon DEF LoadInv, Distributed, SharesSent, WithinShares

(* Every step keeps the distribution.                                      *)
LEMMA LoadStep ==
    ASSUME LoadInv, Next \/ UNCHANGED vars
    PROVE  LoadInv'
  <1>1. LeaderIInv' /\ Types'
    BY LeaderStep, Zenon DEF LoadInv, LeaderIInv
  <1>2. CASE UNCHANGED vars
    <2>1. \A n \in Nodes : Weighted(decision, n)' = Weighted(decision, n)
      BY <1>2, SameShares, Zenon DEF vars
    <2>2. TypeOK /\ Distributed /\ nodes \subseteq Nodes
      BY Zenon DEF LoadInv, TypeOK
    <2>3. TypeOK'
      BY <1>2, <2>2, Zenon DEF TypeOK, vars
    <2>4. SharesSent' /\ WithinShares'
      BY <1>2, <2>1, <2>2, Zenon DEF Distributed, SharesSent, WithinShares, vars
    <2>5. Distributed'
      BY <1>2, <2>2, <2>4, Zenon DEF Distributed, vars
    <2> QED
      BY <1>1, <2>3, <2>5, Zenon DEF LoadInv
  <1>3. CASE \E o \in Outcomes : Call(o)
    BY <1>1, <1>3, StartLoad, RateLoad, OtherLoad, Zenon DEF Call, LoadInv
  <1>4. CASE \E n \in Nodes : AgentStep(n)
    BY <1>1, <1>4, AgentLoad, Zenon DEF LoadInv
  <1>5. CASE Begin
    BY <1>1, <1>5, BeginLoad, Zenon DEF LoadInv
  <1>6. CASE Started \/ TickAgain \/ LeaveLoop \/ Tick \/ Decide \/ FinalFetched \/ Return
    BY <1>1, <1>6, LoopLoad, Zenon DEF LoadInv
  <1> QED
    BY <1>2, <1>3, <1>4, <1>5, <1>6, Zenon DEF Next, Coordinator
(* The shares of a distribution that is complete add up to the decision.   *)
LEMMA SharesTotal == LoadInv => SharesAddUp
  <1> SUFFICES ASSUME LoadInv, pc \in {"first", "rating"}, todo = <<>> PROVE SumOver(sent, Nodes) = decision
    BY Zenon DEF SharesAddUp
  <1> DEFINE q == decision \div TotalCores
  <1>0. pc \in {"starting", "first", "sleeping", "fetching", "rating"} /\ Range(<<>>) = {}
    BY DEF Range
  <1>1. /\ cores \in [Nodes -> Nat \ {0}] /\ nodes \subseteq Nodes /\ nodes # {} /\ decision \in Rates
        /\ sent \in [Nodes -> Nat] /\ cores \in Discovered
    BY <1>0, Zenon DEF LoadInv, TypeOK, Distributed
  <1>2. decision \in Nat
    BY <1>1, LeaderAssumption, Zenon
  <1>3. TotalCores = Total(cores, nodes) /\ TotalCores \in Nat \ {0}
    BY <1>1, <1>2, WeightedIs, Zenon
  <1>4. decision % TotalCores = 0
    BY <1>1, ExactShares, Zenon DEF TotalCores
  <1>5. IsFiniteSet(Nodes) /\ IsFiniteSet(nodes)
    BY <1>1, NodesFinite, FS_Subset, Zenon
  <1>6. /\ \A n \in nodes : sent[n] = Weighted(decision, n)
        /\ \A n \in Nodes : sent[n] # 0 => n \in nodes
    BY <1>0, Zenon DEF LoadInv, Distributed, SharesSent, LeaderIInv, SentInTick
  <1>7. \A n \in nodes : cores[n] \in Nat /\ sent[n] \in Nat
    BY <1>1
  <1>8. q \in Nat /\ q * TotalCores = decision /\ \A n \in nodes : sent[n] = q * cores[n]
    <2>0. TotalCores \in Nat \ {0}
      BY <1>3, Zenon
    <2>1. /\ q \in Nat /\ q * TotalCores = decision
          /\ \A c \in Nat : (decision * c) \div TotalCores = q * c
      BY <1>2, <1>4, <2>0, ExactShare, Zenon
    <2> HIDE DEF q
    <2>2. \A n \in nodes : sent[n] = q * cores[n]
      BY <1>6, <1>7, <2>1, Zenon DEF Weighted
    <2> QED
      BY <2>1, <2>2, Zenon
  <1> HIDE DEF q
  <1>9. Total(sent, nodes) = q * Total(cores, nodes)
    BY <1>5, <1>7, <1>8, TotalScaled, Zenon
  <1>10. Total(sent, Nodes) = Total(sent, nodes)
    <2>1. ASSUME NEW p \in Nodes \X Nat, p[2] \in 1..sent[p[1]] PROVE p \in nodes \X Nat
      <3>1. p[1] \in Nodes /\ p[2] \in Nat /\ p = <<p[1], p[2]>>
        OBVIOUS
      <3>2. sent[p[1]] # 0
        BY <2>1
      <3>3. p[1] \in nodes
        BY <1>6, <3>1, <3>2, Zenon
      <3> QED
        BY <3>1, <3>3
    <2>2. nodes \X Nat \subseteq Nodes \X Nat
      BY <1>1
    <2>3. Units(sent, Nodes) = Units(sent, nodes)
      BY <2>1, <2>2, Zenon DEF Units
    <2> QED
      BY <2>3, Zenon DEF Total
  <1>11. SumOver(sent, Nodes) = Total(sent, Nodes)
    <2>1. NatOn(sent, Nodes)
      BY <1>1, Zenon DEF NatOn
    <2> QED
      BY <1>5, <2>1, SumOverIs, Zenon
  <1> QED
    BY <1>3, <1>8, <1>9, <1>10, <1>11, Zenon

(* Without a failing call the engines together are within the decision:    *)
(* each is within its share, and the shares are within the decision even   *)
(* where they are rounded down.                                            *)
LEMMA LoadTotal == LoadInv => LoadIsTarget
  <1> SUFFICES ASSUME LoadInv, pc = "sleeping", faults = 0 PROVE SumOver(rate, Nodes) <= decision
    BY Zenon DEF LoadIsTarget
  <1> DEFINE T == TotalCores
             low == [n \in Nodes |-> T * rate[n]]
             high == [n \in Nodes |-> decision * cores[n]]
  <1>0. /\ pc \in {"starting", "first", "sleeping", "fetching", "rating"} /\ Range(<<>>) = {}
        /\ pc \in {"first", "sleeping", "rating"} /\ pc # "idle"
    BY DEF Range
  <1>1. /\ cores \in [Nodes -> Nat \ {0}] /\ nodes = Nodes /\ nodes # {} /\ decision \in Rates
        /\ rate \in [Nodes -> Nat] /\ todo = <<>>
    BY <1>0, Zenon DEF LoadInv, TypeOK, Distributed, LeaderIInv, NoneLeftOut
  <1>2. decision \in Nat
    BY <1>1, LeaderAssumption, Zenon
  <1>3. /\ T = Total(cores, Nodes) /\ T \in Nat \ {0}
        /\ \A n \in Nodes : Weighted(decision, n) \in Nat /\ T * Weighted(decision, n) <= decision * cores[n]
    <2>1. nodes \subseteq Nodes
      BY <1>1, Zenon
    <2> QED
      BY <1>1, <1>2, <2>1, WeightedIs, Zenon
  <1>4. \A n \in Nodes : rate[n] \in Nat /\ cores[n] \in Nat /\ rate[n] <= Weighted(decision, n)
    <2>1. \A n \in Nodes : rate[n] \in Nat /\ cores[n] \in Nat
      BY <1>1
    <2> QED
      BY <1>0, <1>1, <2>1, Zenon DEF LoadInv, Distributed, WithinShares
  <1> HIDE DEF T
  <1>5. ASSUME NEW n \in Nodes
        PROVE  low[n] \in Nat /\ high[n] \in Nat /\ low[n] <= high[n] /\ low[n] = T * rate[n] /\ high[n] = decision * cores[n]
    <2> DEFINE w == Weighted(decision, n)
    <2>1. rate[n] \in Nat /\ cores[n] \in Nat /\ rate[n] <= w /\ w \in Nat /\ T * w <= decision * cores[n] /\ T \in Nat
      BY <1>3, <1>4, Zenon
    <2>2. low[n] = T * rate[n] /\ high[n] = decision * cores[n]
      BY Zenon
    <2> HIDE DEF w, low, high
    <2>3. \A a, b, c \in Nat : a <= b => c * a <= c * b
      OBVIOUS
    <2>4. T * rate[n] <= T * w
      BY <2>1, <2>3, Zenon
    <2>5. T * rate[n] \in Nat /\ decision * cores[n] \in Nat /\ T * w \in Nat
      BY <1>2, <2>1
    <2>6. \A a, b, c \in Nat : a <= b /\ b <= c => a <= c
      OBVIOUS
    <2>7. T * rate[n] <= decision * cores[n]
      BY <2>1, <2>4, <2>5, <2>6, Zenon
    <2> QED
      BY <2>2, <2>5, <2>7, Zenon
  <1> HIDE DEF low, high
  <1>6. Total(low, Nodes) <= Total(high, Nodes)
    BY <1>5, NodesFinite, TotalMonotone, Zenon
  <1>7. Total(low, Nodes) = T * Total(rate, Nodes)
    <2>1. T \in Nat /\ \A n \in Nodes : rate[n] \in Nat /\ low[n] \in Nat /\ low[n] = T * rate[n]
      BY <1>3, <1>4, <1>5, Zenon
    <2> QED
      BY <2>1, NodesFinite, TotalScaled, Zenon
  <1>8. Total(high, Nodes) = decision * T
    <2>1. \A n \in Nodes : cores[n] \in Nat /\ high[n] \in Nat /\ high[n] = decision * cores[n]
      BY <1>4, <1>5, Zenon
    <2>2. Total(high, Nodes) = decision * Total(cores, Nodes)
      BY <1>2, <2>1, NodesFinite, TotalScaled, Zenon
    <2> QED
      BY <1>3, <2>2, Zenon
  <1>9. SumOver(rate, Nodes) = Total(rate, Nodes) /\ Total(rate, Nodes) \in Nat
    <2>1. NatOn(rate, Nodes) /\ Nodes \in SUBSET Nodes
      BY <1>4, Zenon DEF NatOn
    <2> QED
      BY <2>1, NodesFinite, SumOverIs, UnitsFinite, Zenon
  <1>10. \A a, d \in Nat, t \in Nat \ {0} : t * a <= d * t => a <= d
    OBVIOUS
  <1> QED
    BY <1>2, <1>3, <1>6, <1>7, <1>8, <1>9, <1>10, Zenon

(* The leader, for any number of nodes, tests and failing calls: what a    *)
(* distribution sends adds up to the decision whatever nodes have failed,  *)
(* and if no call failed the engines together stay within the decision and *)
(* none is left without a stop when run() returns (compute_weights,        *)
(* distribute_rate, stop_test).                                            *)
THEOREM LeaderIsCorrect == Spec => []LeaderInv
  <1>1. Init => LoadInv
    BY LoadInit
  <1>2. LoadInv /\ [Next]_vars => LoadInv'
    BY LoadStep, Zenon
  <1>3. LoadInv => LeaderInv
    <2>1. LeaderIInv => AllStopped
      <3>1. "idle" # "stopping"
        OBVIOUS
      <3> QED
        BY <3>1, Zenon DEF LeaderIInv, NoneLeftOut, AllStopped
    <2> QED
      BY <2>1, SharesTotal, LoadTotal, Zenon DEF LoadInv, LeaderInv
  <1> QED
    BY <1>1, <1>2, <1>3, PTL DEF Spec

-----------------------------------------------------------------------------
(* The event recorder.  The columns that a property is about, what a cell  *)
(* holds, and what the row of a request says.                              *)
IdCol == <<"request_id", "u64">>
CoreCol == <<"core_id", "u16">>
IntendedCol == <<"intended_us", "u64">>
LagCol == <<"timer_lag_us", "u64">>
TransitCol == <<"channel_transit_us", "u64">>
GapCol == <<"dispatch_gap_us", "u64">>

Cells == Nat \cup BOOLEAN \cup {"value", "null"}
Cols(s) == Range(FinishOrder(s))
Base == EventCore * IdSpan

RowTrue(row, s) ==
    \E n \in Nat, t \in EventTimes :
        /\ row[IdCol] = Base + n /\ row[CoreCol] = core_of(Base + n)
        /\ s.co => /\ row[IntendedCol] = to_epoch_us(t[1])
                   /\ row[LagCol] = Saturating(to_epoch_us(t[2]), to_epoch_us(t[1]))
                   /\ row[TransitCol] = Saturating(to_epoch_us(t[3]), to_epoch_us(t[2]))
                   /\ row[GapCol] = Saturating(to_epoch_us(t[4]), to_epoch_us(t[3]))

EventOK(e, m) ==
    /\ \E n \in Nat : e.id = Base + n /\ n < m
    /\ e.times \in EventTimes /\ e.status \in Nat /\ e.error \in BOOLEAN

(* The builders hold n rows.                                               *)
Builds(b, n, s) ==
    /\ b \in [Cols(s) -> Seq(Cells)] /\ \A f \in Cols(s) : Len(b[f]) = n
    /\ \A i \in 1..n : RowTrue(Row(b, i), s)

(* The rows of k, of the first m, that were not lost; those of the file.   *)
Written(k, m, lost) == {i \in 1..m : k[i] \notin lost}
FileIds(r) == [i \in 1..Len(r.file) |-> RowId(r.file[i])]

(* The last rows that were sampled are in the builders, and all others     *)
(* that were not lost are in the file.                                     *)
RecOK(r, k, s) ==
    /\ DOMAIN r = {"state", "builders", "buffered", "file", "lost"}
    /\ r.buffered \in Nat /\ r.buffered <= Len(k)
    /\ Builds(r.builders, r.buffered, s)
    /\ r.file \in Seq([Cols(s) -> Cells]) /\ \A i \in 1..Len(r.file) : RowTrue(r.file[i], s)
    /\ \A x \in r.lost : InPool(k, x)
    /\ \A i \in 1..r.buffered : /\ r.builders[IdCol][i] = k[(Len(k) - r.buffered) + i]
                                /\ k[(Len(k) - r.buffered) + i] \notin r.lost
    /\ FileIds(r) = Filtered(k, Written(k, Len(k) - r.buffered, r.lost))

(* A request is recorded once: no two tasks have the same one, and none    *)
(* has one that was recorded before.                                       *)
Distinct(k) == \A i, j \in 1..Len(k) : k[i] = k[j] => i = j

EventsOnce ==
    /\ kept \in Seq(Nat) /\ Distinct(kept)
    /\ \A i \in 1..Len(kept) : kept[i] < Base + issues
    /\ \A e \in recording : EventOK(e, issues) /\ ~ InPool(kept, e.id)
    /\ \A e, f \in recording : e.id = f.id => e = f

EventInv ==
    /\ schema \in EventSchemas /\ issues \in Nat
    /\ EventsOnce /\ RecOK(rec, kept, schema)
    /\ rec.state \in {"open", "closed"} /\ (rec.state = "closed" => rec.buffered = 0)

(* Two sequences one after the other, and their elements.                  *)
Joined(r, p, q, S) ==
    /\ r \in Seq(S) /\ Len(r) = Len(p) + Len(q) /\ Len(p) \in Nat /\ Len(q) \in Nat
    /\ DOMAIN r = 1..Len(r) /\ DOMAIN p = 1..Len(p) /\ DOMAIN q = 1..Len(q)
    /\ \A i \in 1..Len(p) : r[i] = p[i]
    /\ \A i \in 1..Len(q) : r[Len(p) + i] = q[i]

(* p \o q is p and then q.                                                 *)
LEMMA ConcatIs ==
    ASSUME NEW S, NEW p \in Seq(S), NEW q \in Seq(S)
    PROVE  Joined(p \o q, p, q, S)
  BY DEF Joined

(* The elements of either are elements of both.                            *)
LEMMA ConcatRange ==
    ASSUME NEW S, NEW p \in Seq(S), NEW q \in Seq(S)
    PROVE  p \o q \in Seq(S) /\ Range(p) \subseteq Range(p \o q) /\ Range(q) \subseteq Range(p \o q)
  <1> DEFINE r == p \o q
  <1>1. Joined(r, p, q, S)
    BY ConcatIs, Zenon
  <1> HIDE DEF r
  <1>2. ASSUME NEW i \in 1..Len(p) PROVE p[i] \in Range(r)
    <2>1. i \in 1..Len(r)
      BY <1>1 DEF Joined
    <2> QED
      BY <1>1, <2>1, Zenon DEF Range, Joined
  <1>3. ASSUME NEW i \in 1..Len(q) PROVE q[i] \in Range(r)
    <2>1. Len(p) + i \in 1..Len(r)
      BY <1>1 DEF Joined
    <2> QED
      BY <1>1, <2>1, Zenon DEF Range, Joined
  <1>4. Range(p) \subseteq Range(r)
    BY <1>1, <1>2, Zenon DEF Range, Joined
  <1>5. Range(q) \subseteq Range(r)
    BY <1>1, <1>3, Zenon DEF Range, Joined
  <1> QED
    BY <1>1, <1>4, <1>5, Zenon DEF r, Joined

(* A sequence with one more element.                                       *)
LEMMA ConcatOne ==
    ASSUME NEW S, NEW p \in Seq(S), NEW q \in Seq(S)
    PROVE  Len(q) = 1 => /\ p \o q \in Seq(S) /\ Len(p \o q) = Len(p) + 1 /\ (p \o q)[Len(p) + 1] = q[1]
                         /\ \A i \in 1..Len(p) : (p \o q)[i] = p[i]
  <1> DEFINE r == p \o q
  <1>1. /\ r \in Seq(S) /\ Len(r) = Len(p) + Len(q)
        /\ \A i \in 1..Len(p) : r[i] = p[i]
        /\ \A i \in 1..Len(q) : r[Len(p) + i] = q[i]
    OBVIOUS
  <1> HIDE DEF r
  <1>2. HAVE Len(q) = 1
  <1>3. 1 \in 1..Len(q)
    BY <1>2
  <1>4. r[Len(p) + 1] = q[1]
    BY <1>1, <1>3, Zenon
  <1>5. Len(r) = Len(p) + 1
    BY <1>1, <1>2, Zenon
  <1> QED
    BY <1>1, <1>4, <1>5, Zenon DEF r

(* What is assumed of the constants.                                       *)
LEMMA EventConstants ==
    /\ IdSpan \in Nat \ {0} /\ EventCore \in Nat /\ EventCore < U16 /\ Base \in Nat
    /\ EventSchemas \subseteq EventSchema
    /\ \A t \in EventTimes : /\ t[1] \in Nat /\ t[2] \in Nat /\ t[3] \in Nat /\ t[4] \in Nat
                            /\ t[1] <= t[2] /\ t[2] <= t[3] /\ t[3] <= t[4]
  <1>1. IdSpan \in Nat \ {0} /\ EventCore \in Nat /\ EventCore < U16 /\ EventSchemas \subseteq EventSchema
    BY EventAssumption, Zenon
  <1>2. EventCore * IdSpan \in Nat
    BY <1>1
  <1>3. ASSUME NEW t \in EventTimes
        PROVE  /\ t[1] \in Nat /\ t[2] \in Nat /\ t[3] \in Nat /\ t[4] \in Nat
               /\ t[1] <= t[2] /\ t[2] <= t[3] /\ t[3] <= t[4]
    <2>1. t \in [1..4 -> Nat] /\ t[1] <= t[2] /\ t[2] <= t[3] /\ t[3] <= t[4]
      BY EventAssumption, Zenon DEF Ascending
    <2> QED
      BY <2>1
  <1> QED
    BY <1>1, <1>2, <1>3, Zenon DEF Base

(* Every schema has the columns that the properties are about.             *)
LEMMA ColsAre ==
    ASSUME NEW s \in EventSchemas
    PROVE  /\ IdCol \in Cols(s) /\ CoreCol \in Cols(s) /\ build_arrow_schema(s) = FinishOrder(s)
           /\ s.co => {IntendedCol, LagCol, TransitCol, GapCol} \subseteq Cols(s)
  <1> DEFINE F == {IdCol, CoreCol, IntendedCol, LagCol, TransitCol, GapCol, HeaderField, ConstantField,
                   <<"timestamp_us", "u64">>, <<"status", "u16">>, <<"protocol", "utf8">>,
                   <<"dns_us", "u64">>, <<"tcp_us", "u64">>, <<"tls_us", "u64">>, <<"ttfb_us", "u64">>,
                   <<"transfer_us", "u64">>, <<"total_us", "u64">>, <<"bytes_sent", "u64">>,
                   <<"response_size", "u64">>, <<"is_error", "bool">>, <<"error_kind", "utf8">>}
             a == Only(s.co, CoFields)
             b == Only(s.timing, TimingFields)
             c == Only(s.bytes, BytesFields)
             d == Only(s.errors, ErrorFields)
             e == Only(s.header, <<HeaderField>>)
             f == Only(s.constant, <<ConstantField>>)
  <1>1. Common \in Seq(F) /\ IdCol \in Range(Common) /\ CoreCol \in Range(Common)
    <2>1. Common \in Seq(F) /\ DOMAIN Common = 1..5 /\ Common[1] = IdCol /\ Common[2] = CoreCol
      <3>1. \A i, j, k, l, m \in F : /\ <<i, j, k, l, m>> \in Seq(F) /\ DOMAIN <<i, j, k, l, m>> = 1..5
                                    /\ <<i, j, k, l, m>>[1] = i /\ <<i, j, k, l, m>>[2] = j
        <4> HIDE DEF F
        <4> QED
          OBVIOUS
      <3>2. /\ IdCol \in F /\ CoreCol \in F /\ <<"timestamp_us", "u64">> \in F /\ <<"status", "u16">> \in F
            /\ <<"protocol", "utf8">> \in F
        BY Zenon
      <3>3. Common = <<IdCol, CoreCol, <<"timestamp_us", "u64">>, <<"status", "u16">>, <<"protocol", "utf8">>>>
        BY Zenon DEF Common, IdCol, CoreCol
      <3> HIDE DEF F
      <3> QED
        BY <3>1, <3>2, <3>3
    <2>2. 1 \in 1..5 /\ 2 \in 1..5
      OBVIOUS
    <2> QED
      BY <2>1, <2>2, Zenon DEF Range
  <1>2. CoFields \in Seq(F) /\ {IntendedCol, LagCol, TransitCol, GapCol} \subseteq Range(CoFields)
    <2>1. /\ CoFields \in Seq(F) /\ DOMAIN CoFields = 1..4 /\ CoFields[1] = IntendedCol /\ CoFields[2] = LagCol
          /\ CoFields[3] = TransitCol /\ CoFields[4] = GapCol
      <3>1. \A i, j, k, l \in F : /\ <<i, j, k, l>> \in Seq(F) /\ DOMAIN <<i, j, k, l>> = 1..4 /\ <<i, j, k, l>>[1] = i
                                 /\ <<i, j, k, l>>[2] = j /\ <<i, j, k, l>>[3] = k /\ <<i, j, k, l>>[4] = l
        <4> HIDE DEF F
        <4> QED
          OBVIOUS
      <3>2. IntendedCol \in F /\ LagCol \in F /\ TransitCol \in F /\ GapCol \in F
        BY Zenon
      <3>3. CoFields = <<IntendedCol, LagCol, TransitCol, GapCol>>
        BY Zenon DEF CoFields, IntendedCol, LagCol, TransitCol, GapCol
      <3> HIDE DEF F
      <3> QED
        BY <3>1, <3>2, <3>3
    <2>2. 1 \in 1..4 /\ 2 \in 1..4 /\ 3 \in 1..4 /\ 4 \in 1..4
      OBVIOUS
    <2>3. IntendedCol \in Range(CoFields) /\ LagCol \in Range(CoFields) /\ TransitCol \in Range(CoFields)
          /\ GapCol \in Range(CoFields)
      BY <2>1, <2>2, Zenon DEF Range
    <2> QED
      BY <2>1, <2>3
  <1>3. /\ TimingFields \in Seq(F) /\ BytesFields \in Seq(F) /\ ErrorFields \in Seq(F)
        /\ <<HeaderField>> \in Seq(F) /\ <<ConstantField>> \in Seq(F) /\ << >> \in Seq(F)
    <2>1. /\ \A i, j, k, l, m, n \in F : <<i, j, k, l, m, n>> \in Seq(F)
          /\ \A i, j \in F : <<i, j>> \in Seq(F)
          /\ \A i \in F : <<i>> \in Seq(F)
          /\ << >> \in Seq(F)
      <3> HIDE DEF F
      <3> QED
        OBVIOUS
    <2>4. TimingFields \in Seq(F)
      <3>1. /\ <<"dns_us", "u64">> \in F /\ <<"tcp_us", "u64">> \in F /\ <<"tls_us", "u64">> \in F
            /\ <<"ttfb_us", "u64">> \in F /\ <<"transfer_us", "u64">> \in F /\ <<"total_us", "u64">> \in F
        BY Zenon
      <3> HIDE DEF F
      <3> QED
        BY <2>1, <3>1, Zenon DEF TimingFields
    <2>5. BytesFields \in Seq(F) /\ ErrorFields \in Seq(F)
      <3>1. /\ <<"bytes_sent", "u64">> \in F /\ <<"response_size", "u64">> \in F
            /\ <<"is_error", "bool">> \in F /\ <<"error_kind", "utf8">> \in F
        BY Zenon
      <3> HIDE DEF F
      <3> QED
        BY <2>1, <3>1, Zenon DEF BytesFields, ErrorFields
    <2>6. <<HeaderField>> \in Seq(F) /\ <<ConstantField>> \in Seq(F)
      <3>1. HeaderField \in F /\ ConstantField \in F
        BY Zenon
      <3> HIDE DEF F
      <3> QED
        BY <2>1, <3>1, Zenon
    <2> HIDE DEF F
    <2> QED
      BY <2>1, <2>4, <2>5, <2>6, Zenon
  <1>4. a \in Seq(F) /\ b \in Seq(F) /\ c \in Seq(F) /\ d \in Seq(F) /\ e \in Seq(F) /\ f \in Seq(F)
    BY <1>2, <1>3, Zenon DEF Only
  <1>5. s.co => {IntendedCol, LagCol, TransitCol, GapCol} \subseteq Range(a)
    BY <1>2, Zenon DEF Only
  <1>6. FinishOrder(s) = Common \o a \o b \o c \o d \o e \o f /\ build_arrow_schema(s) = FinishOrder(s)
    BY Zenon DEF FinishOrder, build_arrow_schema
  <1> HIDE DEF F, a, b, c, d, e, f
  <1> DEFINE p == Common \o a
             q == p \o b
             r == q \o c
             t == r \o d
             u == t \o e
             v == u \o f
  <1>7. p \in Seq(F) /\ Range(Common) \subseteq Range(p) /\ Range(a) \subseteq Range(p)
    BY <1>1, <1>4, ConcatRange, Zenon
  <1> HIDE DEF p
  <1>8. q \in Seq(F) /\ Range(p) \subseteq Range(q)
    BY <1>4, <1>7, ConcatRange, Zenon
  <1> HIDE DEF q
  <1>9. r \in Seq(F) /\ Range(q) \subseteq Range(r)
    BY <1>4, <1>8, ConcatRange, Zenon
  <1> HIDE DEF r
  <1>10. t \in Seq(F) /\ Range(r) \subseteq Range(t)
    BY <1>4, <1>9, ConcatRange, Zenon
  <1> HIDE DEF t
  <1>11. u \in Seq(F) /\ Range(t) \subseteq Range(u)
    BY <1>4, <1>10, ConcatRange, Zenon
  <1> HIDE DEF u
  <1>12. Range(u) \subseteq Range(v)
    BY <1>4, <1>11, ConcatRange, Zenon
  <1>13. FinishOrder(s) = v
    BY <1>6, Zenon DEF p, q, r, t, u
  <1> HIDE DEF v
  <1>14. Range(Common) \subseteq Range(v) /\ Range(a) \subseteq Range(v)
    BY <1>7, <1>8, <1>9, <1>10, <1>11, <1>12, Zenon
  <1> QED
    BY <1>1, <1>5, <1>6, <1>13, <1>14, Zenon DEF Cols

(* Later instants are not earlier after the conversion to microseconds.    *)
LEMMA EpochGrows ==
    ASSUME NEW i \in Nat, NEW j \in Nat, i <= j
    PROVE  to_epoch_us(i) \in Nat /\ to_epoch_us(j) \in Nat /\ to_epoch_us(i) <= to_epoch_us(j)
  <1>1. Anchor.epoch = 100 /\ Anchor.instant = 4
    BY DEF Anchor
  <1>2. \A n \in Nat : to_epoch_us(n) = IF n >= 4 THEN 100 + (n - 4) \div 2 ELSE 100 - (4 - n) \div 2
    BY <1>1 DEF to_epoch_us
  <1> QED
    BY <1>2

(* The lags of ascending times add up.                                     *)
LEMMA LagsAdd ==
    ASSUME NEW t \in EventTimes
    PROVE  /\ \A i \in 1..4 : to_epoch_us(t[i]) \in Nat
           /\ to_epoch_us(t[1]) + Saturating(to_epoch_us(t[2]), to_epoch_us(t[1]))
                + Saturating(to_epoch_us(t[3]), to_epoch_us(t[2]))
                + Saturating(to_epoch_us(t[4]), to_epoch_us(t[3])) = to_epoch_us(t[4])
  <1> DEFINE a == to_epoch_us(t[1])
             b == to_epoch_us(t[2])
             c == to_epoch_us(t[3])
             d == to_epoch_us(t[4])
  <1>1. t[1] \in Nat /\ t[2] \in Nat /\ t[3] \in Nat /\ t[4] \in Nat /\ t[1] <= t[2] /\ t[2] <= t[3] /\ t[3] <= t[4]
    BY EventConstants, Zenon
  <1>2. a \in Nat /\ b \in Nat /\ c \in Nat /\ d \in Nat /\ a <= b /\ b <= c /\ c <= d
    BY <1>1, EpochGrows, Zenon
  <1>3. \A i \in 1..4 : to_epoch_us(t[i]) \in Nat
    <2>1. \A i \in 1..4 : i = 1 \/ i = 2 \/ i = 3 \/ i = 4
      OBVIOUS
    <2> QED
      BY <1>2, <2>1, Zenon
  <1> HIDE DEF a, b, c, d
  <1>4. a + Saturating(b, a) + Saturating(c, b) + Saturating(d, c) = d
    BY <1>2 DEF Saturating
  <1> QED
    BY <1>3, <1>4, Zenon DEF a, b, c, d

(* A cell.                                                                 *)
LEMMA CellsAre ==
    ASSUME NEW e, EventOK(e, issues), issues \in Nat
    PROVE  (\A name : Value(name, e) \in Cells) /\ HeaderCell(e) \in Seq(Cells) /\ Len(HeaderCell(e)) = 1
  <1>1. /\ e.times \in EventTimes /\ e.status \in Nat /\ e.error \in BOOLEAN /\ e.id \in Nat
    <2>1. Base \in Nat
      BY EventConstants, Zenon
    <2> QED
      BY <2>1 DEF EventOK
  <1>2. \A i \in 1..4 : to_epoch_us(e.times[i]) \in Nat
    BY <1>1, LagsAdd, Zenon
  <1>3. \A a \in Nat, b \in Nat : Saturating(a, b) \in Nat
    BY DEF Saturating
  <1>4. 1 \in 1..4 /\ 2 \in 1..4 /\ 3 \in 1..4 /\ 4 \in 1..4
    OBVIOUS
  <1>5. core_of(e.id) \in Nat
    <2>1. IdSpan \in Nat \ {0}
      BY EventConstants, Zenon
    <2>2. e.id \div IdSpan \in Int
      BY <1>1, <2>1
    <2>3. \A n \in Int : n % U16 \in Nat
      BY DEF U16
    <2> QED
      BY <2>2, <2>3, Zenon DEF core_of
  <1>6. is_error(e) \in BOOLEAN
    BY <1>1, Zenon DEF is_error
  <1>7. Gap(e) \in Nat
    BY <1>2, <1>3, <1>4, Zenon DEF Gap
  <1>8. ASSUME NEW name PROVE Value(name, e) \in Nat \/ Value(name, e) \in BOOLEAN
    <2>1. /\ to_epoch_us(e.times[3]) \in Nat /\ to_epoch_us(e.times[1]) \in Nat
          /\ Saturating(to_epoch_us(e.times[2]), to_epoch_us(e.times[1])) \in Nat
          /\ Saturating(to_epoch_us(e.times[3]), to_epoch_us(e.times[2])) \in Nat
      BY <1>2, <1>3, <1>4, Zenon
    <2> QED
      BY <1>1, <1>5, <1>6, <1>7, <2>1 DEF Value
  <1>9. HeaderCell(e) \in Seq(Cells) /\ Len(HeaderCell(e)) = 1
    <2>1. \A v \in Cells : <<v>> \in Seq(Cells) /\ Len(<<v>>) = 1
      <3> HIDE DEF Cells
      <3> QED
        OBVIOUS
    <2>2. "value" \in Cells /\ "null" \in Cells
      BY DEF Cells
    <2> QED
      BY <2>1, <2>2, Zenon DEF HeaderCell
  <1> QED
    BY <1>8, <1>9, Zenon DEF Cells

(* What record appends to the columns that the properties are about.       *)
LEMMA NamedColumns ==
    ASSUME NEW e
    PROVE  /\ IdCol # HeaderField /\ Value(IdCol[1], e) = e.id
           /\ CoreCol # HeaderField /\ Value(CoreCol[1], e) = core_of(e.id)
           /\ IntendedCol # HeaderField /\ Value(IntendedCol[1], e) = to_epoch_us(e.times[1])
           /\ LagCol # HeaderField
           /\ Value(LagCol[1], e) = Saturating(to_epoch_us(e.times[2]), to_epoch_us(e.times[1]))
           /\ TransitCol # HeaderField
           /\ Value(TransitCol[1], e) = Saturating(to_epoch_us(e.times[3]), to_epoch_us(e.times[2]))
           /\ GapCol # HeaderField
           /\ Value(GapCol[1], e) = Saturating(to_epoch_us(e.times[4]), to_epoch_us(e.times[3]))
  <1>1. /\ IdCol[1] = "request_id" /\ CoreCol[1] = "core_id" /\ IntendedCol[1] = "intended_us" /\ LagCol[1] = "timer_lag_us"
        /\ TransitCol[1] = "channel_transit_us" /\ GapCol[1] = "dispatch_gap_us" /\ HeaderField[1] = "header"
    BY DEF IdCol, CoreCol, IntendedCol, LagCol, TransitCol, GapCol, HeaderField
  <1>2. /\ IdCol # HeaderField /\ CoreCol # HeaderField /\ IntendedCol # HeaderField /\ LagCol # HeaderField
        /\ TransitCol # HeaderField /\ GapCol # HeaderField
    BY <1>1
  <1>3. /\ Value("request_id", e) = e.id /\ Value("core_id", e) = core_of(e.id)
        /\ Value("intended_us", e) = to_epoch_us(e.times[1])
        /\ Value("timer_lag_us", e) = Saturating(to_epoch_us(e.times[2]), to_epoch_us(e.times[1]))
        /\ Value("channel_transit_us", e) = Saturating(to_epoch_us(e.times[3]), to_epoch_us(e.times[2]))
        /\ Value("dispatch_gap_us", e) = Gap(e)
    BY DEF Value
  <1> QED
    BY <1>1, <1>2, <1>3, Zenon DEF Gap

(* The ids of the builders b and then that of e.                           *)
IdsGrow(c, b, n, e) == c[IdCol][n + 1] = e.id /\ \A i \in 1..n : c[IdCol][i] = b[IdCol][i]

(* Recording an event adds its row to those in the builders.               *)
LEMMA AppendKeeps ==
    ASSUME NEW s \in EventSchemas, NEW b, NEW n \in Nat, Builds(b, n, s), NEW e, EventOK(e, issues), issues \in Nat
    PROVE  Builds(Appended(b, e), n + 1, s) /\ IdsGrow(Appended(b, e), b, n, e)
  <1> DEFINE cell(f) == IF f = HeaderField THEN HeaderCell(e) ELSE <<Value(f[1], e)>>
             c == Appended(b, e)
  <1>1. /\ b \in [Cols(s) -> Seq(Cells)] /\ DOMAIN b = Cols(s) /\ \A f \in Cols(s) : Len(b[f]) = n
        /\ \A i \in 1..n : RowTrue(Row(b, i), s)
    <2>1. b \in [Cols(s) -> Seq(Cells)] /\ (\A f \in Cols(s) : Len(b[f]) = n) /\ \A i \in 1..n : RowTrue(Row(b, i), s)
      BY Zenon DEF Builds
    <2> QED
      BY <2>1, Zenon
  <1>2. \A f : cell(f) \in Seq(Cells) /\ Len(cell(f)) = 1
    <2>1. \A v \in Cells : <<v>> \in Seq(Cells) /\ Len(<<v>>) = 1
      <3> HIDE DEF Cells
      <3> QED
        OBVIOUS
    <2> QED
      BY <2>1, CellsAre, Zenon
  <1>3. \A f \in Cols(s) : c[f] = b[f] \o cell(f)
    BY <1>1, Zenon DEF Appended
  <1>4. DOMAIN c = Cols(s) /\ c = [f \in Cols(s) |-> c[f]]
    BY <1>1, Zenon DEF Appended
  <1>5. \A f \in Cols(s) : f # HeaderField => cell(f)[1] = Value(f[1], e)
    OBVIOUS
  <1> HIDE DEF cell, c
  <1>6. ASSUME NEW f \in Cols(s)
        PROVE  /\ c[f] \in Seq(Cells) /\ Len(c[f]) = n + 1 /\ c[f][n + 1] = cell(f)[1]
               /\ \A i \in 1..n : c[f][i] = b[f][i]
    <2>1. /\ b[f] \in Seq(Cells) /\ Len(b[f]) = n /\ cell(f) \in Seq(Cells) /\ Len(cell(f)) = 1
          /\ c[f] = b[f] \o cell(f)
      BY <1>1, <1>2, <1>3, Zenon
    <2> DEFINE p == b[f]
               q == cell(f)
    <2>2. p \in Seq(Cells) /\ Len(p) = n /\ q \in Seq(Cells) /\ Len(q) = 1
      BY <2>1, Zenon
    <2> HIDE DEF p, q
    <2>3. /\ p \o q \in Seq(Cells) /\ Len(p \o q) = Len(p) + 1 /\ (p \o q)[Len(p) + 1] = q[1]
          /\ \A i \in 1..Len(p) : (p \o q)[i] = p[i]
      BY <2>2, ConcatOne, Zenon
    <2> QED
      BY <2>1, <2>2, <2>3, Zenon DEF p, q
  <1>7. c \in [Cols(s) -> Seq(Cells)]
    BY <1>4, <1>6, Zenon
  <1>8. ASSUME NEW i \in 1..n PROVE RowTrue(Row(c, i), s)
    <2>1. Row(c, i) = Row(b, i)
      BY <1>1, <1>4, <1>6, Zenon DEF Row
    <2> QED
      BY <1>1, <2>1, Zenon
  <1>9. RowTrue(Row(c, n + 1), s)
    <2> DEFINE row == Row(c, n + 1)
    <2>1. \A f \in Cols(s) : f # HeaderField => row[f] = Value(f[1], e)
      BY <1>4, <1>5, <1>6, Zenon DEF Row
    <2>2. PICK m \in Nat : e.id = Base + m
      BY Zenon DEF EventOK
    <2>3. e.times \in EventTimes
      BY Zenon DEF EventOK
    <2> HIDE DEF row
    <2>4. row[IdCol] = Base + m /\ row[CoreCol] = core_of(Base + m)
      BY <2>1, <2>2, ColsAre, NamedColumns, Zenon
    <2>5. ASSUME s.co
          PROVE  /\ row[IntendedCol] = to_epoch_us(e.times[1])
                 /\ row[LagCol] = Saturating(to_epoch_us(e.times[2]), to_epoch_us(e.times[1]))
                 /\ row[TransitCol] = Saturating(to_epoch_us(e.times[3]), to_epoch_us(e.times[2]))
                 /\ row[GapCol] = Saturating(to_epoch_us(e.times[4]), to_epoch_us(e.times[3]))
      <3>1. IntendedCol \in Cols(s) /\ LagCol \in Cols(s) /\ TransitCol \in Cols(s) /\ GapCol \in Cols(s)
        BY <2>5, ColsAre, Zenon
      <3> QED
        BY <2>1, <3>1, NamedColumns, Zenon
    <2> QED
      BY <2>3, <2>4, <2>5, Zenon DEF RowTrue, row
  <1>10. \A i \in 1..n + 1 : i \in 1..n \/ i = n + 1
    OBVIOUS
  <1>11. \A f \in Cols(s) : Len(c[f]) = n + 1
    BY <1>6, Zenon
  <1>12. Builds(c, n + 1, s)
    BY <1>7, <1>8, <1>9, <1>10, <1>11, Zenon DEF Builds
  <1>13. c[IdCol][n + 1] = e.id /\ \A i \in 1..n : c[IdCol][i] = b[IdCol][i]
    BY <1>5, <1>6, ColsAre, NamedColumns, Zenon
  <1> QED
    BY <1>12, <1>13, Zenon DEF c, IdsGrow

(* Sequences with the same elements are equal.                             *)
LEMMA SameSeq ==
    ASSUME NEW S, NEW p \in Seq(S), NEW q \in Seq(S), Len(p) = Len(q), \A i \in 1..Len(p) : p[i] = q[i]
    PROVE  p = q
  OBVIOUS

(* What is filtered depends on nothing but the elements that are kept.     *)
LEMMA FilterSame ==
    ASSUME NEW S, NEW p \in Seq(S), NEW q \in Seq(S), NEW K \in SUBSET (1..Len(p)), \A k \in K : p[k] = q[k]
    PROVE  Filtered(p, K) = Filtered(q, K)
  <1>1. ASSUME NEW n \in 1..Cardinality(K)
        PROVE  p[CHOOSE k \in K : PosRank(K, k) = n] = q[CHOOSE k \in K : PosRank(K, k) = n]
    <2>1. \E k \in K : PosRank(K, k) = n
      <3>1. K \in SUBSET DOMAIN p
        OBVIOUS
      <3>2. \A i \in 1..Cardinality(K) : \E k \in K : PosRank(K, k) = i /\ Filtered(p, K)[i] = p[k]
        BY <3>1, FilterKeeps, Zenon
      <3> QED
        BY <3>2, Zenon
    <2>2. (CHOOSE k \in K : PosRank(K, k) = n) \in K
      BY <2>1, Zenon
    <2> QED
      BY <2>2, Zenon
  <1> QED
    BY <1>1, ZenonT(30) DEF Filtered

(* q is what s has after its first m elements.                             *)
TailOf(q, s, m) == m <= Len(s) /\ Len(q) = Len(s) - m /\ \A i \in 1..Len(q) : q[i] = s[m + i]

(* Keeping the tail of a sequence appends it to what is kept before it.    *)
LEMMA FilterConcat ==
    ASSUME NEW S, NEW s \in Seq(S), NEW q \in Seq(S), NEW m \in Nat, TailOf(q, s, m), NEW K \in SUBSET (1..m)
    PROVE  Filtered(s, K \cup ((m + 1)..Len(s))) = Filtered(s, K) \o q
  <1> DEFINE n == Len(s)
             T(k) == (m + 1)..k
             L == K \cup T(n)
             c == Cardinality(K)
             F == Filtered(s, L)
             G == Filtered(s, K)
  <1>1. n \in Nat /\ m <= n /\ DOMAIN s = 1..n /\ Len(q) = n - m /\ \A i \in 1..Len(q) : q[i] = s[m + i]
    BY DEF TailOf
  <1> HIDE DEF n
  <1>2. IsFiniteSet(K) /\ c \in Nat
    BY PosFinite, Zenon
  <1>3. ASSUME NEW k \in Nat, m <= k
        PROVE  Cardinality(K \cup T(k)) = c + (k - m)
    <2>1. IsFiniteSet(T(k)) /\ Cardinality(T(k)) = k - m
      <3>1. IsFiniteSet(T(k)) /\ Cardinality(T(k)) = IF m + 1 > k THEN 0 ELSE k - (m + 1) + 1
        <4>1. m + 1 \in Int /\ k \in Int
          OBVIOUS
        <4> QED
          BY <4>1, FS_Interval, Zenon
      <3> HIDE DEF T
      <3> QED
        BY <1>3, <3>1
    <2>2. K \cap T(k) = {}
      OBVIOUS
    <2> HIDE DEF T
    <2>3. Cardinality(K \cup T(k)) = Cardinality(K) + Cardinality(T(k)) - Cardinality(K \cap T(k))
      BY <1>2, <2>1, FS_Union, Zenon
    <2>4. Cardinality(K \cap T(k)) = 0
      BY <2>2, FS_EmptySet, Zenon
    <2> DEFINE u == Cardinality(K \cup T(k))
               v == Cardinality(T(k))
               w == Cardinality(K \cap T(k))
    <2>5. u = c + v - w /\ v = k - m /\ w = 0 /\ c \in Nat
      BY <1>2, <2>1, <2>3, <2>4, Zenon
    <2> HIDE DEF c, u, v, w
    <2>6. u = c + (k - m)
      BY <2>5
    <2> QED
      BY <2>6, Zenon DEF u
  <1>4. L \in SUBSET (1..n) /\ K \in SUBSET (1..n) /\ Cardinality(L) = c + (n - m)
    <2>1. L \in SUBSET (1..n) /\ K \in SUBSET (1..n)
      BY <1>1
    <2> QED
      BY <1>1, <1>3, <2>1, Zenon
  <1>5. \A k \in K : PosRank(L, k) = PosRank(K, k)
    <2>1. \A k \in K : {j \in L : j <= k} = {j \in K : j <= k}
      OBVIOUS
    <2> HIDE DEF L
    <2> QED
      BY <2>1, Zenon DEF PosRank
  <1>6. ASSUME NEW k \in T(n) PROVE PosRank(L, k) = c + (k - m)
    <2>1. {i \in L : i <= k} = K \cup T(k)
      <3>1. ASSUME NEW j \in L, j <= k PROVE j \in K \cup T(k)
        BY <1>1, <3>1
      <3>2. ASSUME NEW j \in K PROVE j \in L /\ j <= k
        BY <1>1
      <3>3. ASSUME NEW j \in T(k) PROVE j \in L /\ j <= k
        BY <1>1
      <3> HIDE DEF L, T
      <3> QED
        BY <3>1, <3>2, <3>3, Zenon
    <2>2. k \in Nat /\ m <= k
      BY <1>1
    <2> HIDE DEF L, T
    <2> QED
      BY <1>3, <2>1, <2>2, Zenon DEF PosRank
  <1>7. /\ F \in Seq(S) /\ Len(F) = c + (n - m)
        /\ \A k \in L : F[PosRank(L, k)] = s[k]
    <2>1. L \in SUBSET DOMAIN s
      BY <1>1, <1>4, Zenon
    <2> HIDE DEF L
    <2> QED
      BY <1>4, <2>1, FilterKeeps, Zenon
  <1>8. /\ G \in Seq(S) /\ Len(G) = c
        /\ \A i \in 1..c : \E k \in K : PosRank(K, k) = i /\ G[i] = s[k]
    <2>1. K \in SUBSET DOMAIN s
      BY <1>1, <1>4, Zenon
    <2> QED
      BY <2>1, FilterKeeps, Zenon
  <1>9. \A k \in K : k \in L
    BY Zenon
  <1>10. \A k \in T(n) : k \in L
    BY Zenon
  <1> HIDE DEF L, F, G
  <1>11. /\ G \o q \in Seq(S) /\ Len(G \o q) = c + (n - m)
         /\ \A i \in 1..c : (G \o q)[i] = G[i]
         /\ \A i \in 1..(n - m) : (G \o q)[c + i] = q[i]
    <2> DEFINE r == G \o q
    <2>1. Joined(r, G, q, S)
      BY <1>8, ConcatIs, Zenon
    <2> HIDE DEF r
    <2>2. /\ r \in Seq(S) /\ Len(r) = Len(G) + Len(q)
          /\ \A i \in 1..Len(G) : r[i] = G[i]
          /\ \A i \in 1..Len(q) : r[Len(G) + i] = q[i]
      BY <2>1, Zenon DEF Joined
    <2> QED
      BY <1>1, <1>8, <2>2, Zenon DEF r
  <1>12. ASSUME NEW i \in 1..c PROVE F[i] = (G \o q)[i]
    <2>1. PICK k \in K : PosRank(K, k) = i /\ G[i] = s[k]
      BY <1>8, Zenon
    <2> QED
      BY <1>5, <1>7, <1>9, <1>11, <2>1, Zenon
  <1>13. ASSUME NEW i \in 1..(n - m) PROVE F[c + i] = (G \o q)[c + i]
    <2>1. m + i \in T(n) /\ (m + i) - m = i
      BY <1>1
    <2>2. PosRank(L, m + i) = c + i
      BY <1>6, <2>1, Zenon
    <2>3. q[i] = s[m + i]
      BY <1>1, Zenon
    <2> QED
      BY <1>7, <1>10, <1>11, <2>1, <2>2, <2>3, Zenon
  <1>14. \A i \in 1..Len(F) : F[i] = (G \o q)[i]
    <2>1. \A i \in 1..(c + (n - m)) : i \in 1..c \/ \E j \in 1..(n - m) : i = c + j
      <3> HIDE DEF c
      <3>1. \A i \in 1..(c + (n - m)) : i \in 1..c \/ (i - c \in 1..(n - m) /\ i = c + (i - c))
        BY <1>1, <1>2
      <3> QED
        BY <3>1, Zenon
    <2> QED
      BY <1>7, <1>12, <1>13, <2>1, Zenon
  <1>15. Len(F) = Len(G \o q)
    BY <1>7, <1>11, Zenon
  <1>16. F = G \o q
    BY <1>7, <1>11, <1>14, <1>15, SameSeq, Zenon
  <1> QED
    BY <1>16, Zenon DEF F, G, L, n

(* New builders hold no rows.                                              *)
LEMMA EmptyBuilds ==
    ASSUME NEW s
    PROVE  Builds(Empty(s), 0, s)
  <1>1. << >> \in Seq(Cells) /\ Len(<< >>) = 0
    <2> HIDE DEF Cells
    <2> QED
      OBVIOUS
  <1>2. \A i \in 1..0 : FALSE
    OBVIOUS
  <1>3. Empty(s) \in [Cols(s) -> Seq(Cells)] /\ \A f \in Cols(s) : Len(Empty(s)[f]) = 0
    BY <1>1, Zenon DEF Empty, Cols
  <1> QED
    BY <1>2, <1>3, Zenon DEF Builds

(* The rows of the builders, as a batch.                                   *)
Batch(b, n) == [i \in 1..n |-> Row(b, i)]
BatchOf(rows, b, n, s) ==
    /\ rows \in Seq([Cols(s) -> Cells]) /\ Len(rows) = n /\ DOMAIN rows = 1..n
    /\ \A i \in 1..n : RowTrue(rows[i], s) /\ RowId(rows[i]) = b[IdCol][i]

(* A batch has a row for each position, with the ids of the first column.  *)
LEMMA BatchRows ==
    ASSUME NEW s \in EventSchemas, NEW b, NEW n \in Nat, Builds(b, n, s)
    PROVE  BatchOf(Batch(b, n), b, n, s)
  <1>1. /\ b \in [Cols(s) -> Seq(Cells)] /\ \A f \in Cols(s) : Len(b[f]) = n
        /\ \A i \in 1..n : RowTrue(Row(b, i), s)
    BY Zenon DEF Builds
  <1>2. DOMAIN b = Cols(s)
    BY <1>1, Zenon
  <1>3. ASSUME NEW i \in 1..n, NEW f \in Cols(s) PROVE b[f][i] \in Cells
    <2>1. b[f] \in Seq(Cells) /\ Len(b[f]) = n
      BY <1>1, Zenon
    <2> HIDE DEF Cells
    <2> QED
      BY <2>1
  <1>4. \A i \in 1..n : Row(b, i) \in [Cols(s) -> Cells]
    BY <1>2, <1>3, Zenon DEF Row
  <1>5. Batch(b, n) \in [1..n -> [Cols(s) -> Cells]] /\ \A i \in 1..n : Batch(b, n)[i] = Row(b, i)
    BY <1>4, Zenon DEF Batch
  <1>6. \A T : \A g \in [1..n -> T] : g \in Seq(T) /\ Len(g) = n /\ DOMAIN g = 1..n
    OBVIOUS
  <1>7. \A i \in 1..n : RowId(Row(b, i)) = b[IdCol][i]
    BY <1>2, ColsAre, Zenon DEF RowId, Row, IdCol
  <1>8. Batch(b, n) \in Seq([Cols(s) -> Cells]) /\ Len(Batch(b, n)) = n /\ DOMAIN Batch(b, n) = 1..n
    BY <1>5, <1>6, Zenon
  <1> QED
    BY <1>1, <1>5, <1>7, <1>8, Zenon DEF BatchOf

(* f is a file of p and then q.                                            *)
FileOf(f, p, q, T) ==
    /\ f \in Seq(T) /\ \A i \in 1..Len(f) : f[i] \in Range(p) \cup Range(q)
    /\ ([i \in 1..Len(f) |-> RowId(f[i])]) = [i \in 1..Len(p) |-> RowId(p[i])] \o [i \in 1..Len(q) |-> RowId(q[i])]

(* The ids of a file to which a batch is written.                          *)
LEMMA FileGrows ==
    ASSUME NEW T, NEW p \in Seq(T), NEW q \in Seq(T)
    PROVE  FileOf(p \o q, p, q, T)
  <1> DEFINE r == p \o q
             ids(x) == [i \in 1..Len(x) |-> RowId(x[i])]
             U == {RowId(x) : x \in T}
  <1>1. Joined(r, p, q, T)
    BY ConcatIs, Zenon
  <1> HIDE DEF r
  <1>2. r \in Seq(T) /\ Len(r) = Len(p) + Len(q) /\ Len(p) \in Nat /\ Len(q) \in Nat
    BY <1>1, Zenon DEF Joined
  <1>3. ASSUME NEW x \in Seq(T) PROVE ids(x) \in Seq(U) /\ Len(ids(x)) = Len(x) /\ \A i \in 1..Len(x) : ids(x)[i] = RowId(x[i])
    <2>1. \A i \in 1..Len(x) : x[i] \in T
      OBVIOUS
    <2>2. ids(x) \in [1..Len(x) -> U] /\ \A i \in 1..Len(x) : ids(x)[i] = RowId(x[i])
      BY <2>1, Zenon
    <2>3. Len(x) \in Nat
      OBVIOUS
    <2> HIDE DEF U, ids
    <2>4. \A g \in [1..Len(x) -> U] : g \in Seq(U) /\ Len(g) = Len(x)
      BY <2>3
    <2> QED
      BY <2>2, <2>4, Zenon
  <1>4. \A i \in 1..Len(r) : i \in 1..Len(p) \/ \E j \in 1..Len(q) : i = Len(p) + j
    <2>1. \A i \in 1..Len(r) : i \in 1..Len(p) \/ (i - Len(p) \in 1..Len(q) /\ i = Len(p) + (i - Len(p)))
      BY <1>2
    <2> QED
      BY <2>1, Zenon
  <1>5. \A i \in 1..Len(r) : r[i] \in Range(p) \cup Range(q)
    BY <1>1, <1>4, Zenon DEF Joined, Range
  <1> HIDE DEF U, ids
  <1> DEFINE h == ids(p) \o ids(q)
  <1>6. Joined(h, ids(p), ids(q), U)
    BY <1>3, ConcatIs, Zenon
  <1> HIDE DEF h
  <1>7. h \in Seq(U) /\ Len(h) = Len(r)
    BY <1>2, <1>3, <1>6, Zenon DEF Joined
  <1>8. ASSUME NEW i \in 1..Len(p) PROVE ids(r)[i] = h[i]
    <2>1. i \in 1..Len(r)
      BY <1>2
    <2>2. ids(r)[i] = RowId(p[i])
      BY <1>1, <1>2, <1>3, <2>1, Zenon DEF Joined
    <2>3. h[i] = RowId(p[i])
      BY <1>3, <1>6, Zenon DEF Joined
    <2> QED
      BY <2>2, <2>3, Zenon
  <1>9. ASSUME NEW j \in 1..Len(q) PROVE ids(r)[Len(p) + j] = h[Len(p) + j]
    <2>1. Len(p) + j \in 1..Len(r)
      BY <1>2
    <2>2. ids(r)[Len(p) + j] = RowId(q[j])
      BY <1>1, <1>2, <1>3, <2>1, Zenon DEF Joined
    <2>3. h[Len(p) + j] = RowId(q[j])
      BY <1>3, <1>6, Zenon DEF Joined
    <2> QED
      BY <2>2, <2>3, Zenon
  <1>10. ids(r) \in Seq(U) /\ Len(ids(r)) = Len(h) /\ \A i \in 1..Len(ids(r)) : ids(r)[i] = h[i]
    BY <1>2, <1>3, <1>4, <1>7, <1>8, <1>9, ZenonT(30)
  <1>11. ids(r) = h
    BY <1>7, <1>10, SameSeq, Zenon
  <1>12. FileOf(r, p, q, T)
    BY <1>2, <1>5, <1>11, Zenon DEF h, ids, FileOf
  <1> QED
    BY <1>12, Zenon DEF r

(* The rows of a batch that was written are those that were buffered.      *)
LEMMA BatchWritten ==
    ASSUME NEW s \in EventSchemas, NEW k \in Seq(Nat), NEW r, RecOK(r, k, s)
    PROVE  Filtered(k, Written(k, Len(k), r.lost)) = FileIds(r) \o [i \in 1..r.buffered |-> r.builders[IdCol][i]]
  <1> DEFINE n == r.buffered
             l == Len(k)
             m == l - n
             K == Written(k, m, r.lost)
             q == [i \in 1..n |-> r.builders[IdCol][i]]
  <1>1. /\ n \in Nat /\ n <= l /\ l \in Nat
        /\ \A i \in 1..n : r.builders[IdCol][i] = k[m + i] /\ k[m + i] \notin r.lost
        /\ FileIds(r) = Filtered(k, K)
    <2>1. /\ n \in Nat /\ n <= l
          /\ \A i \in 1..n : r.builders[IdCol][i] = k[m + i] /\ k[m + i] \notin r.lost
          /\ FileIds(r) = Filtered(k, K)
      BY Zenon DEF RecOK
    <2>2. l \in Nat
      OBVIOUS
    <2> QED
      BY <2>1, <2>2, Zenon
  <1> HIDE DEF n
  <1>2. m \in Nat /\ m <= l /\ n = l - m /\ \A i \in 1..n : m + i \in 1..l
    <2> HIDE DEF l
    <2> QED
      BY <1>1
  <1> HIDE DEF m
  <1>3. \A i \in 1..l : k[i] \in Nat
    OBVIOUS
  <1> HIDE DEF l
  <1>4. q \in Seq(Nat) /\ Len(q) = n /\ \A i \in 1..n : q[i] = k[m + i]
    <2>1. \A i \in 1..n : r.builders[IdCol][i] \in Nat
      BY <1>1, <1>2, <1>3, Zenon
    <2>2. q \in [1..n -> Nat] /\ \A i \in 1..n : q[i] = k[m + i]
      BY <1>1, <2>1, Zenon
    <2> HIDE DEF q
    <2>3. \A g \in [1..n -> Nat] : g \in Seq(Nat) /\ Len(g) = n
      BY <1>1
    <2> QED
      BY <2>2, <2>3, Zenon
  <1>5. K \in SUBSET (1..m)
    BY Zenon DEF Written
  <1>6. Written(k, l, r.lost) = K \cup ((m + 1)..l)
    <2>1. ASSUME NEW i \in (m + 1)..l PROVE i \in 1..l /\ k[i] \notin r.lost
      <3>1. i - m \in 1..n /\ m + (i - m) = i /\ i \in 1..l
        BY <1>1, <1>2
      <3> QED
        BY <1>1, <3>1, Zenon
    <2>2. \A i \in 1..l : i \in 1..m \/ i \in (m + 1)..l
      BY <1>2
    <2>3. \A i \in 1..m : i \in 1..l
      BY <1>1, <1>2
    <2> QED
      BY <2>1, <2>2, <2>3, Zenon DEF Written
  <1>7. Filtered(k, K \cup ((m + 1)..l)) = Filtered(k, K) \o q
    <2>1. TailOf(q, k, m)
      BY <1>2, <1>4, Zenon DEF l, TailOf
    <2> HIDE DEF K, q
    <2>2. Filtered(k, K \cup ((m + 1)..Len(k))) = Filtered(k, K) \o q
      BY <1>2, <1>4, <1>5, <2>1, FilterConcat, Zenon
    <2> QED
      BY <2>2, Zenon DEF l
  <1> QED
    BY <1>1, <1>6, <1>7, Zenon DEF l, n

(* What is lost once a batch is.                                           *)
WithBatch(r) == r.lost \cup {r.builders[IdCol][i] : i \in 1..r.buffered}

(* A batch that is lost takes its own rows and no others.                  *)
LEMMA BatchLost ==
    ASSUME NEW s \in EventSchemas, NEW k \in Seq(Nat), NEW r, RecOK(r, k, s),
           Distinct(k)
    PROVE  /\ Written(k, Len(k), WithBatch(r)) = Written(k, Len(k) - r.buffered, r.lost)
           /\ \A x \in WithBatch(r) : InPool(k, x)
  <1> DEFINE X == WithBatch(r)
             n == r.buffered
             l == Len(k)
             m == l - n
  <1>1. /\ n \in Nat /\ n <= l /\ l \in Nat /\ \A x \in r.lost : InPool(k, x)
        /\ \A i \in 1..n : r.builders[IdCol][i] = k[m + i]
    <2>1. /\ n \in Nat /\ n <= l /\ \A x \in r.lost : InPool(k, x)
          /\ \A i \in 1..n : r.builders[IdCol][i] = k[m + i]
      BY Zenon DEF RecOK
    <2>2. l \in Nat
      OBVIOUS
    <2> QED
      BY <2>1, <2>2, Zenon
  <1>2. X = r.lost \cup {k[m + i] : i \in 1..n} /\ \A i, j \in 1..l : k[i] = k[j] => i = j
    <2> DEFINE u(i) == r.builders[IdCol][i]
               v(i) == k[m + i]
    <2>1. \A i \in 1..n : u(i) = v(i)
      BY <1>1, Zenon
    <2>2. X = r.lost \cup {u(i) : i \in 1..n} /\ \A i, j \in 1..l : k[i] = k[j] => i = j
      BY Zenon DEF WithBatch, Distinct
    <2> HIDE DEF u, v
    <2>3. {u(i) : i \in 1..n} = {v(i) : i \in 1..n}
      BY <2>1
    <2> QED
      BY <2>2, <2>3, Zenon DEF v
  <1> HIDE DEF n, X
  <1>3. m \in Nat /\ m <= l /\ n = l - m
    <2> HIDE DEF l
    <2> QED
      BY <1>1
  <1> HIDE DEF m, l
  <1>4. \A i \in 1..n : m + i \in 1..l
    BY <1>1, <1>3
  <1>5. ASSUME NEW i \in (m + 1)..l PROVE k[i] \in X
    <2>1. i - m \in 1..n /\ m + (i - m) = i
      BY <1>1, <1>3
    <2> QED
      BY <1>2, <2>1, Zenon
  <1>6. ASSUME NEW i \in 1..m, k[i] \notin r.lost PROVE k[i] \notin X
    <2>1. \A j \in 1..n : i # m + j /\ i \in 1..l
      BY <1>1, <1>3
    <2> QED
      BY <1>2, <1>4, <1>6, <2>1, Zenon
  <1>7. \A i \in 1..l : i \in 1..m \/ i \in (m + 1)..l
    BY <1>3
  <1>8. \A i \in 1..m : i \in 1..l
    BY <1>1, <1>3
  <1>9. Written(k, l, X) = Written(k, m, r.lost)
    BY <1>2, <1>5, <1>6, <1>7, <1>8, Zenon DEF Written
  <1>10. ASSUME NEW i \in 1..n PROVE InPool(k, k[m + i])
    BY <1>4, Zenon DEF InPool, l
  <1> QED
    BY <1>1, <1>2, <1>9, <1>10, Zenon DEF l, m, n, X

(* The fields of a recorder.                                               *)
RecIs(r, st, bu, nu, fi, lo) ==
    /\ DOMAIN r = {"state", "builders", "buffered", "file", "lost"}
    /\ r.state = st /\ r.builders = bu /\ r.buffered = nu /\ r.file = fi /\ r.lost = lo

(* An update of a recorder changes one of its fields.                      *)
LEMMA RecWith ==
    ASSUME NEW r, NEW st, NEW bu, NEW nu, NEW fi, NEW lo, RecIs(r, st, bu, nu, fi, lo), NEW x
    PROVE  /\ RecIs([r EXCEPT !.state = x], x, bu, nu, fi, lo)
           /\ RecIs([r EXCEPT !.builders = x], st, x, nu, fi, lo)
           /\ RecIs([r EXCEPT !.buffered = x], st, bu, x, fi, lo)
           /\ RecIs([r EXCEPT !.file = x], st, bu, nu, x, lo)
           /\ RecIs([r EXCEPT !.lost = x], st, bu, nu, fi, x)
  BY DEF RecIs

(* The batch of flush_batch always fits: its rows are written or lost.     *)
LEMMA FlushIs ==
    ASSUME schema \in EventSchemas, NEW k \in Seq(Nat), NEW r, RecOK(r, k, schema), r.buffered # 0, NEW q \in flush_batch(r)
    PROVE  \/ RecIs(q, r.state, Empty(schema), 0, r.file \o Batch(r.builders, r.buffered), r.lost)
           \/ RecIs(q, r.state, Empty(schema), 0, r.file, WithBatch(r))
  <1> DEFINE n == r.buffered
             b == r.builders
             rows == Batch(b, n)
             ids == {RowId(row) : row \in Range(rows)}
             em == Empty(schema)
             part == [r EXCEPT !.builders = em]
             done == [part EXCEPT !.buffered = 0]
  <1>1. RecIs(r, r.state, b, n, r.file, r.lost) /\ n \in Nat /\ Builds(b, n, schema)
    BY Zenon DEF RecOK, RecIs
  <1>2. BatchFits(b)
    <2>1. DOMAIN b = Cols(schema) /\ \A f \in Cols(schema) : Len(b[f]) = n
      <3>1. b \in [Cols(schema) -> Seq(Cells)] /\ \A f \in Cols(schema) : Len(b[f]) = n
        BY <1>1, Zenon DEF Builds
      <3> QED
        BY <3>1, Zenon
    <2> QED
      BY <2>1, ColsAre, Zenon DEF BatchFits
  <1>3. r.lost \cup ids = WithBatch(r)
    <2>1. BatchOf(rows, b, n, schema)
      BY <1>1, BatchRows, Zenon
    <2> HIDE DEF rows
    <2>2. DOMAIN rows = 1..n /\ \A i \in 1..n : RowId(rows[i]) = b[IdCol][i]
      BY <2>1, Zenon DEF BatchOf
    <2> DEFINE u(i) == b[IdCol][i]
               v(i) == RowId(rows[i])
    <2>3. \A i \in 1..n : u(i) = v(i)
      BY <2>2, Zenon
    <2> HIDE DEF u, n, b
    <2>4. ids = {v(i) : i \in 1..n}
      BY <2>2 DEF Range
    <2> HIDE DEF v, ids
    <2>5. {u(i) : i \in 1..n} = {v(i) : i \in 1..n}
      BY <2>3
    <2> QED
      BY <2>4, <2>5, Zenon DEF u, b, n, WithBatch
  <1>4. q = [done EXCEPT !.file = done.file \o rows] \/ q = [done EXCEPT !.lost = done.lost \cup ids]
    BY <1>2, Zenon DEF flush_batch, Batch
  <1> HIDE DEF rows, ids, em, n, b
  <1>5. RecIs(part, r.state, em, n, r.file, r.lost)
    BY <1>1, RecWith, Zenon
  <1> HIDE DEF part
  <1>6. RecIs(done, r.state, em, 0, r.file, r.lost)
    BY <1>5, RecWith, Zenon
  <1> HIDE DEF done
  <1>7. done.file = r.file /\ done.lost = r.lost
    BY <1>6, Zenon DEF RecIs
  <1>8. /\ RecIs([done EXCEPT !.file = done.file \o rows], r.state, em, 0, done.file \o rows, r.lost)
        /\ RecIs([done EXCEPT !.lost = done.lost \cup ids], r.state, em, 0, r.file, done.lost \cup ids)
    <2> DEFINE x == done.file \o rows
               y == done.lost \cup ids
    <2> HIDE DEF x, y
    <2>1. /\ RecIs([done EXCEPT !.file = x], r.state, em, 0, x, r.lost)
          /\ RecIs([done EXCEPT !.lost = y], r.state, em, 0, r.file, y)
      BY <1>6, RecWith, Zenon
    <2> QED
      BY <2>1, Zenon DEF x, y
  <1> QED
    BY <1>3, <1>4, <1>7, <1>8, Zenon DEF em, rows, n, b

(* flush_batch keeps the state and leaves nothing in the builders.         *)
LEMMA FlushKeeps ==
    ASSUME schema \in EventSchemas, NEW k \in Seq(Nat), NEW r, RecOK(r, k, schema), Distinct(k), NEW q \in flush_batch(r)
    PROVE  RecOK(q, k, schema) /\ q.buffered = 0 /\ q.state = r.state
  <1> DEFINE n == r.buffered
             b == r.builders
             rows == Batch(b, n)
             T == [Cols(schema) -> Cells]
             ids(f) == [i \in 1..Len(f) |-> RowId(f[i])]
  <1>1. /\ n \in Nat /\ Builds(b, n, schema)
        /\ r.file \in Seq(T) /\ (\A i \in 1..Len(r.file) : RowTrue(r.file[i], schema))
        /\ (\A x \in r.lost : InPool(k, x))
        /\ ids(r.file) = Filtered(k, Written(k, Len(k) - n, r.lost))
    BY Zenon DEF RecOK, FileIds
  <1>2. CASE n = 0
    <2>1. q = r
      BY <1>2, Zenon DEF flush_batch
    <2> QED
      BY <1>2, <2>1, Zenon
  <1>3. ASSUME NEW fl \in Seq(T), NEW lo, RecIs(q, r.state, Empty(schema), 0, fl, lo),
               \A i \in 1..Len(fl) : RowTrue(fl[i], schema), \A x \in lo : InPool(k, x),
               ids(fl) = Filtered(k, Written(k, Len(k), lo))
        PROVE  RecOK(q, k, schema) /\ q.buffered = 0 /\ q.state = r.state
    <2>1. /\ DOMAIN q = {"state", "builders", "buffered", "file", "lost"}
          /\ q.state = r.state /\ q.builders = Empty(schema) /\ q.buffered = 0 /\ q.file = fl /\ q.lost = lo
      BY <1>3, Zenon DEF RecIs
    <2>2. 0 \in Nat /\ 0 <= Len(k) /\ Len(k) - 0 = Len(k) /\ \A i \in 1..0 : FALSE
      OBVIOUS
    <2>3. FileIds(q) = Filtered(k, Written(k, Len(k) - q.buffered, q.lost))
      BY <1>3, <2>1, <2>2, Zenon DEF FileIds
    <2>4. RecOK(q, k, schema)
      BY <1>3, <2>1, <2>2, <2>3, EmptyBuilds, Zenon DEF RecOK
    <2> QED
      BY <2>1, <2>4, Zenon
  <1>4. CASE RecIs(q, r.state, Empty(schema), 0, r.file \o rows, r.lost)
    <2> DEFINE fl == r.file \o rows
    <2>1. BatchOf(rows, b, n, schema)
      BY <1>1, BatchRows, Zenon
    <2> HIDE DEF rows
    <2>2. /\ rows \in Seq(T) /\ Len(rows) = n /\ DOMAIN rows = 1..n
          /\ \A i \in 1..n : RowTrue(rows[i], schema) /\ RowId(rows[i]) = b[IdCol][i]
      BY <2>1, Zenon DEF BatchOf
    <2>3. ids(rows) = [i \in 1..n |-> b[IdCol][i]]
      BY <2>2, Zenon
    <2>4. Filtered(k, Written(k, Len(k), r.lost)) = ids(r.file) \o [i \in 1..n |-> b[IdCol][i]]
      BY BatchWritten, Zenon DEF FileIds
    <2> HIDE DEF T
    <2>5. FileOf(fl, r.file, rows, T)
      BY <1>1, <2>2, FileGrows, Zenon
    <2>6. DOMAIN r.file = 1..Len(r.file)
      BY <1>1
    <2>7. RecIs(q, r.state, Empty(schema), 0, fl, r.lost)
      BY <1>4, Zenon
    <2> HIDE DEF fl
    <2>8. fl \in Seq(T) /\ \A i \in 1..Len(fl) : RowTrue(fl[i], schema)
      BY <1>1, <2>2, <2>5, <2>6, Zenon DEF Range, FileOf
    <2>9. ids(fl) = Filtered(k, Written(k, Len(k), r.lost))
      BY <2>3, <2>4, <2>5, Zenon DEF FileOf
    <2> QED
      BY <1>1, <1>3, <2>7, <2>8, <2>9, Zenon
  <1>5. CASE RecIs(q, r.state, Empty(schema), 0, r.file, WithBatch(r))
    <2>1. Written(k, Len(k), WithBatch(r)) = Written(k, Len(k) - n, r.lost) /\ \A x \in WithBatch(r) : InPool(k, x)
      BY BatchLost, Zenon
    <2> QED
      BY <1>1, <1>3, <1>5, <2>1, Zenon
  <1>6. n # 0 => \/ RecIs(q, r.state, Empty(schema), 0, r.file \o rows, r.lost)
                 \/ RecIs(q, r.state, Empty(schema), 0, r.file, WithBatch(r))
    BY FlushIs, Zenon
  <1> QED
    BY <1>2, <1>4, <1>5, <1>6, Zenon

(* What record does to the recorder before it may flush.                   *)
WithEvent(e) == [rec EXCEPT !.builders = Appended(@, e), !.buffered = @ + 1]

(* Recording a new request keeps the recorder in step with what was kept.  *)
LEMMA RecordKeeps ==
    ASSUME schema \in EventSchemas, issues \in Nat, kept \in Seq(Nat), RecOK(rec, kept, schema),
           NEW e, EventOK(e, issues), ~InPool(kept, e.id)
    PROVE  RecOK(WithEvent(e), Append(kept, e.id), schema) /\ WithEvent(e).state = rec.state
  <1> DEFINE n == rec.buffered
             l == Len(kept)
             b == rec.builders
             c == Appended(b, e)
             k == Append(kept, e.id)
             part == [rec EXCEPT !.builders = c]
             r == [part EXCEPT !.buffered = part.buffered + 1]
  <1>1. RecIs(rec, rec.state, b, n, rec.file, rec.lost) /\ n \in Nat /\ n <= l /\ Builds(b, n, schema)
    BY Zenon DEF RecOK, RecIs
  <1>2. WithEvent(e) = r
    BY Zenon DEF WithEvent
  <1>3. /\ Builds(c, n + 1, schema) /\ c[IdCol][n + 1] = e.id
        /\ \A i \in 1..n : c[IdCol][i] = b[IdCol][i]
    <2>1. Builds(c, n + 1, schema) /\ IdsGrow(c, b, n, e)
      BY <1>1, AppendKeeps, Zenon
    <2> QED
      BY <2>1, Zenon DEF IdsGrow
  <1>4. e.id \in Nat
    <2>1. Base \in Nat
      BY EventConstants, Zenon
    <2> QED
      BY <2>1 DEF EventOK
  <1>5. /\ k \in Seq(Nat) /\ Len(k) = l + 1 /\ l \in Nat /\ k[l + 1] = e.id
        /\ \A i \in 1..l : k[i] = kept[i]
    BY <1>4
  <1> HIDE DEF c, k
  <1>6. RecIs(part, rec.state, c, n, rec.file, rec.lost)
    BY <1>1, RecWith, Zenon
  <1> HIDE DEF part
  <1>7. RecIs(r, rec.state, c, n + 1, rec.file, rec.lost)
    <2> DEFINE x == part.buffered + 1
    <2>1. x = n + 1
      BY <1>6, Zenon DEF RecIs
    <2> HIDE DEF x
    <2>2. RecIs([part EXCEPT !.buffered = x], rec.state, c, x, rec.file, rec.lost)
      BY <1>6, RecWith, Zenon
    <2> QED
      BY <2>1, <2>2, Zenon DEF x
  <1> HIDE DEF r
  <1>8. /\ rec.file \in Seq([Cols(schema) -> Cells]) /\ (\A i \in 1..Len(rec.file) : RowTrue(rec.file[i], schema))
        /\ (\A x \in rec.lost : InPool(kept, x))
        /\ (\A i \in 1..n : b[IdCol][i] = kept[(l - n) + i] /\ kept[(l - n) + i] \notin rec.lost)
        /\ FileIds(rec) = Filtered(kept, Written(kept, l - n, rec.lost))
    BY Zenon DEF RecOK
  <1>9. /\ DOMAIN r = {"state", "builders", "buffered", "file", "lost"} /\ r.state = rec.state
        /\ r.builders = c /\ r.buffered = n + 1 /\ r.file = rec.file /\ r.lost = rec.lost
    BY <1>7, Zenon DEF RecIs
  <1> HIDE DEF n, b
  <1>10. n + 1 \in Nat /\ n + 1 <= Len(k) /\ Len(k) - (n + 1) = l - n
    <2> HIDE DEF l
    <2> QED
      BY <1>1, <1>5
  <1>11. \A x \in rec.lost : InPool(k, x)
    <2>1. \A i \in 1..l : i \in 1..Len(k)
      <3> HIDE DEF l
      <3> QED
        BY <1>5
    <2> QED
      BY <1>5, <1>8, <2>1, Zenon DEF InPool
  <1>12. e.id \notin rec.lost
    BY <1>8, Zenon
  <1>13. ASSUME NEW i \in 1..(n + 1) PROVE c[IdCol][i] = k[(l - n) + i] /\ k[(l - n) + i] \notin rec.lost
    <2>1. CASE i = n + 1
      <3>1. (l - n) + i = l + 1
        <4> HIDE DEF l
        <4> QED
          BY <1>1, <1>5, <2>1
      <3> QED
        BY <1>3, <1>5, <1>12, <2>1, <3>1, Zenon
    <2>2. CASE i # n + 1
      <3>1. i \in 1..n /\ (l - n) + i \in 1..l
        <4> HIDE DEF l
        <4> QED
          BY <1>1, <1>5, <2>2
      <3> QED
        BY <1>3, <1>5, <1>8, <3>1, Zenon
    <2> QED
      BY <2>1, <2>2, Zenon
  <1>14. FileIds(r) = Filtered(k, Written(k, l - n, rec.lost))
    <2> DEFINE K == Written(kept, l - n, rec.lost)
    <2>1. \A i \in 1..(l - n) : i \in 1..l
      <3> HIDE DEF l
      <3> QED
        BY <1>1, <1>5
    <2>2. K \in SUBSET (1..Len(kept)) /\ \A i \in K : kept[i] = k[i]
      BY <1>5, <2>1, Zenon DEF Written
    <2>3. Written(k, l - n, rec.lost) = K
      BY <1>5, <2>1, Zenon DEF Written
    <2> HIDE DEF K
    <2>4. Filtered(kept, K) = Filtered(k, K)
      BY <1>5, <2>2, FilterSame, Zenon
    <2> QED
      BY <1>8, <1>9, <2>3, <2>4, Zenon DEF FileIds, K
  <1>15. RecOK(r, k, schema)
    BY <1>3, <1>8, <1>9, <1>10, <1>11, <1>13, <1>14, Zenon DEF RecOK
  <1> QED
    BY <1>2, <1>9, <1>15, Zenon DEF k

(* The initial state satisfies EventInv: nothing was recorded.             *)
LEMMA EventInitially ==
    ASSUME EventInit
    PROVE  EventInv
  <1>1. /\ schema \in EventSchemas /\ recording = {} /\ issues = 0 /\ kept = << >>
        /\ rec = [state |-> "open", builders |-> Empty(schema), buffered |-> 0, file |-> << >>, lost |-> {}]
    BY Zenon DEF EventInit
  <1>2. /\ DOMAIN rec = {"state", "builders", "buffered", "file", "lost"} /\ rec.state = "open" /\ rec.lost = {}
        /\ rec.builders = Empty(schema) /\ rec.buffered = 0 /\ rec.file = << >>
    BY <1>1
  <1>3. /\ kept \in Seq(Nat) /\ Len(kept) = 0 /\ \A i \in 1..0 : FALSE
    BY <1>1
  <1>4. issues \in Nat /\ 0 \in Nat /\ 0 <= 0 /\ 0 - 0 = 0
    BY <1>1
  <1>5. << >> \in Seq([Cols(schema) -> Cells]) /\ Len(<< >>) = 0
    <2> DEFINE T == [Cols(schema) -> Cells]
    <2> HIDE DEF T
    <2>1. << >> \in Seq(T) /\ Len(<< >>) = 0
      OBVIOUS
    <2> QED
      BY <2>1, Zenon DEF T
  <1>6. FileIds(rec) = Filtered(kept, Written(kept, 0, rec.lost))
    <2>1. Written(kept, 0, rec.lost) = {}
      BY <1>3, Zenon DEF Written
    <2>2. Cardinality({}) = 0
      BY FS_EmptySet, Zenon
    <2>3. ASSUME NEW f, NEW g, DOMAIN f = 1..0, DOMAIN g = 1..0, f = [i \in 1..0 |-> f[i]], g = [i \in 1..0 |-> g[i]]
          PROVE  f = g
      BY <1>3, <2>3, Zenon
    <2> DEFINE K == {}
    <2>4. /\ DOMAIN FileIds(rec) = 1..0 /\ FileIds(rec) = [i \in 1..0 |-> FileIds(rec)[i]]
      BY <1>2, <1>5, Zenon DEF FileIds
    <2>5. Cardinality(K) = 0 /\ Written(kept, 0, rec.lost) = K
      BY <2>1, <2>2, Zenon
    <2> HIDE DEF K
    <2>6. /\ DOMAIN Filtered(kept, K) = 1..0 /\ Filtered(kept, K) = [i \in 1..0 |-> Filtered(kept, K)[i]]
      <3> DEFINE at(n) == kept[CHOOSE k \in K : PosRank(K, k) = n]
      <3>1. Filtered(kept, K) = [n \in 1..0 |-> at(n)]
        BY <2>5, Zenon DEF Filtered
      <3> HIDE DEF at
      <3> QED
        BY <3>1, Zenon
    <2> QED
      BY <2>3, <2>4, <2>5, <2>6, Zenon
  <1>7. RecOK(rec, kept, schema)
    BY <1>2, <1>3, <1>4, <1>5, <1>6, EmptyBuilds, Zenon DEF RecOK
  <1>8. EventsOnce
    BY <1>1, <1>3, Zenon DEF EventsOnce, Distinct
  <1> QED
    BY <1>1, <1>2, <1>4, <1>7, <1>8, Zenon DEF EventInv

(* A request that is handed to a task has a new id.                        *)
LEMMA IssueKeeps ==
    ASSUME EventInv, Issue
    PROVE  EventInv'
  <1>1. /\ schema \in EventSchemas /\ issues \in Nat /\ RecOK(rec, kept, schema) /\ rec.state \in {"open", "closed"}
        /\ (rec.state = "closed" => rec.buffered = 0) /\ kept \in Seq(Nat) /\ Distinct(kept)
        /\ (\A i \in 1..Len(kept) : kept[i] < Base + issues)
        /\ (\A e \in recording : EventOK(e, issues) /\ ~ InPool(kept, e.id))
        /\ (\A e, f \in recording : e.id = f.id => e = f)
    BY Zenon DEF EventInv, EventsOnce
  <1>2. PICK z : /\ recording' = recording \cup {z} /\ z.id = Base + issues
                 /\ z.times \in EventTimes /\ z.status \in Nat /\ z.error = FALSE
    <2>1. PICK t \in EventTimes, st \in {200, 500}, h \in BOOLEAN :
            recording' = recording \cup {[id |-> EventCore * IdSpan + issues, times |-> t,
                                          status |-> st, error |-> FALSE, header |-> h]}
      BY DEF Issue
    <2> DEFINE z == [id |-> EventCore * IdSpan + issues, times |-> t, status |-> st, error |-> FALSE, header |-> h]
    <2>2. z.id = Base + issues /\ z.times \in EventTimes /\ z.status \in Nat /\ z.error = FALSE
      BY DEF Base
    <2>3. recording' = recording \cup {z}
      BY <2>1
    <2> HIDE DEF z
    <2> QED
      BY <2>2, <2>3
  <1>3. issues' = issues + 1 /\ schema' = schema /\ rec' = rec /\ kept' = kept
    BY Zenon DEF Issue
  <1>4. Base \in Nat
    BY EventConstants, Zenon
  <1>5. issues + 1 \in Nat /\ issues < issues + 1 /\ \A n \in Nat : n < issues => n < issues + 1
    BY <1>1
  <1>6. \A i \in 1..Len(kept) : kept[i] < Base + issues /\ kept[i] < Base + (issues + 1) /\ kept[i] # Base + issues
    BY <1>1, <1>4
  <1>7. ASSUME NEW e \in recording PROVE e.id # z.id
    <2>1. PICK n \in Nat : e.id = Base + n /\ n < issues
      BY <1>1, Zenon DEF EventOK
    <2> QED
      BY <1>1, <1>2, <1>4, <2>1
  <1>8. ~ InPool(kept, z.id)
    BY <1>2, <1>6, Zenon DEF InPool
  <1>9. \A e \in recording : EventOK(e, issues + 1)
    BY <1>1, <1>5, Zenon DEF EventOK
  <1>10. EventOK(z, issues + 1)
    BY <1>1, <1>2, <1>5, Zenon DEF EventOK
  <1>11. EventsOnce'
    BY <1>1, <1>2, <1>3, <1>6, <1>7, <1>8, <1>9, <1>10, Zenon DEF EventsOnce
  <1> QED
    BY <1>1, <1>3, <1>5, <1>11, Zenon DEF EventInv

(* The ids that were kept and the requests that are left after a record.   *)
LEMMA RecordedOnce ==
    ASSUME EventsOnce, issues \in Nat, NEW e \in recording, recording' = recording \ {e}, issues' = issues
    PROVE  /\ kept' = kept => EventsOnce'
           /\ kept' = Append(kept, e.id) => EventsOnce'
           /\ Append(kept, e.id) \in Seq(Nat) /\ Distinct(Append(kept, e.id)) /\ EventOK(e, issues) /\ ~InPool(kept, e.id)
  <1> DEFINE k == Append(kept, e.id)
             l == Len(kept)
  <1>1. /\ kept \in Seq(Nat) /\ Distinct(kept) /\ (\A i \in 1..l : kept[i] < Base + issues)
        /\ (\A f \in recording : EventOK(f, issues) /\ ~ InPool(kept, f.id))
        /\ (\A f, g \in recording : f.id = g.id => f = g)
    BY Zenon DEF EventsOnce
  <1>2. \A f \in recording : EventOK(f, issues')
    BY <1>1, Zenon DEF EventOK
  <1>3. e.id \in Nat /\ e.id < Base + issues
    <2>1. Base \in Nat
      BY EventConstants, Zenon
    <2>2. PICK n \in Nat : e.id = Base + n /\ n < issues
      BY <1>1, Zenon DEF EventOK
    <2> QED
      BY <2>1, <2>2
  <1>4. /\ k \in Seq(Nat) /\ Len(k) = l + 1 /\ l \in Nat /\ k[l + 1] = e.id
        /\ \A i \in 1..l : k[i] = kept[i]
    BY <1>1, <1>3
  <1> HIDE DEF k, l
  <1>5. \A i \in 1..Len(k) : i \in 1..l \/ i = l + 1
    BY <1>4
  <1>6. ~InPool(kept, e.id) /\ EventOK(e, issues)
    BY <1>1, Zenon
  <1>7. \A i \in 1..l : k[i] # e.id
    BY <1>4, <1>6, Zenon DEF InPool, l
  <1>8. Distinct(k)
    BY <1>1, <1>4, <1>5, <1>7, Zenon DEF Distinct, l
  <1>9. \A i \in 1..Len(k) : k[i] < Base + issues
    BY <1>1, <1>3, <1>4, <1>5, Zenon
  <1>10. ASSUME NEW f \in recording, f # e PROVE ~InPool(k, f.id)
    <2>1. f.id # e.id /\ ~InPool(kept, f.id)
      BY <1>1, <1>10, Zenon
    <2> QED
      BY <1>4, <1>5, <2>1, Zenon DEF InPool, l
  <1>11. ASSUME kept' = kept PROVE EventsOnce'
    BY <1>1, <1>2, <1>11, Zenon DEF EventsOnce, l
  <1>12. ASSUME kept' = k PROVE EventsOnce'
    BY <1>1, <1>2, <1>4, <1>8, <1>9, <1>10, <1>12, Zenon DEF EventsOnce
  <1> QED
    BY <1>4, <1>6, <1>8, <1>11, <1>12, Zenon DEF k

(* A completed request is sampled out, or is one more row, and the batch   *)
(* that it may fill is flushed.                                            *)
LEMMA EventRecordKeeps ==
    ASSUME EventInv, NEW e \in recording, record(e)
    PROVE  EventInv'
  <1>1. /\ schema \in EventSchemas /\ issues \in Nat /\ RecOK(rec, kept, schema) /\ EventsOnce /\ kept \in Seq(Nat)
    BY Zenon DEF EventInv, EventsOnce
  <1>2. rec.state = "open" /\ recording' = recording \ {e} /\ schema' = schema /\ issues' = issues
    BY Zenon DEF record
  <1>3. /\ kept' = kept => EventsOnce'
        /\ kept' = Append(kept, e.id) => EventsOnce'
        /\ Append(kept, e.id) \in Seq(Nat) /\ Distinct(Append(kept, e.id)) /\ EventOK(e, issues) /\ ~InPool(kept, e.id)
    BY <1>1, <1>2, RecordedOnce, Zenon
  <1>4. CASE rec' = rec /\ kept' = kept
    BY <1>1, <1>2, <1>3, <1>4, Zenon DEF EventInv
  <1>5. CASE /\ kept' = Append(kept, e.id)
             /\ rec' \in IF WithEvent(e).buffered >= schema.batch_size THEN flush_batch(WithEvent(e)) ELSE {WithEvent(e)}
    <2> DEFINE r == WithEvent(e)
               k == Append(kept, e.id)
    <2>1. RecOK(r, k, schema) /\ r.state = "open"
      BY <1>1, <1>2, <1>3, RecordKeeps, Zenon
    <2>2. k \in Seq(Nat) /\ Distinct(k)
      BY <1>3, Zenon
    <2>3. rec' \in flush_batch(r) \/ rec' = r
      BY <1>5, Zenon
    <2> HIDE DEF r, k
    <2>4. RecOK(rec', k, schema) /\ rec'.state = "open"
      BY <1>1, <2>1, <2>2, <2>3, FlushKeeps, Zenon
    <2>5. kept' = k
      BY <1>5, Zenon DEF k
    <2>6. RecOK(rec, kept, schema)'
      BY <1>2, <2>4, <2>5, Zenon DEF RecOK, FileIds
    <2> QED
      BY <1>1, <1>2, <1>3, <1>5, <2>4, <2>6, Zenon DEF EventInv
  <1> QED
    BY <1>4, <1>5, Zenon DEF record, WithEvent

(* The worker's flush empties the builders.                                *)
LEMMA EventFlushKeeps ==
    ASSUME EventInv, flush
    PROVE  EventInv'
  <1>1. /\ schema \in EventSchemas /\ issues \in Nat /\ RecOK(rec, kept, schema) /\ EventsOnce
        /\ kept \in Seq(Nat) /\ Distinct(kept)
    BY Zenon DEF EventInv, EventsOnce
  <1>2. /\ rec.state = "open" /\ rec' \in flush_batch(rec)
        /\ schema' = schema /\ recording' = recording /\ issues' = issues /\ kept' = kept
    BY Zenon DEF flush
  <1>3. RecOK(rec', kept, schema) /\ rec'.state = "open"
    BY <1>1, <1>2, FlushKeeps, Zenon
  <1>4. RecOK(rec, kept, schema)'
    BY <1>2, <1>3, Zenon DEF RecOK, FileIds
  <1>5. EventsOnce'
    BY <1>1, <1>2, Zenon DEF EventsOnce
  <1> QED
    BY <1>1, <1>2, <1>3, <1>4, <1>5, Zenon DEF EventInv

(* The recorder's drop flushes it and closes the file.                     *)
LEMMA RecorderDropKeeps ==
    ASSUME EventInv, RecorderDrops
    PROVE  EventInv'
  <1>1. /\ schema \in EventSchemas /\ issues \in Nat /\ RecOK(rec, kept, schema) /\ EventsOnce
        /\ kept \in Seq(Nat) /\ Distinct(kept)
    BY Zenon DEF EventInv, EventsOnce
  <1>2. /\ rec.state = "open" /\ recording' = {} /\ schema' = schema /\ issues' = issues /\ kept' = kept
        /\ \E r \in flush_batch(rec) : rec' = [r EXCEPT !.state = IF r.state = "open" THEN "closed" ELSE r.state]
    BY Zenon DEF RecorderDrops, DropFlush
  <1>3. PICK r \in flush_batch(rec) : rec' = [r EXCEPT !.state = IF r.state = "open" THEN "closed" ELSE r.state]
    BY <1>2, Zenon
  <1>4. RecOK(r, kept, schema) /\ r.buffered = 0 /\ r.state = "open"
    BY <1>1, <1>2, FlushKeeps, Zenon
  <1>5. rec' = [r EXCEPT !.state = "closed"]
    BY <1>3, <1>4, Zenon
  <1>6. RecIs(r, r.state, r.builders, r.buffered, r.file, r.lost)
    BY <1>4, Zenon DEF RecOK, RecIs
  <1>7. RecIs(rec', "closed", r.builders, r.buffered, r.file, r.lost)
    BY <1>5, <1>6, RecWith, Zenon
  <1>8. /\ DOMAIN rec' = DOMAIN r /\ rec'.state = "closed" /\ rec'.builders = r.builders
        /\ rec'.buffered = r.buffered /\ rec'.file = r.file /\ rec'.lost = r.lost
    BY <1>6, <1>7, Zenon DEF RecIs
  <1>9. RecOK(rec', kept, schema)
    BY <1>4, <1>8, Zenon DEF RecOK, FileIds
  <1>10. RecOK(rec, kept, schema)'
    BY <1>2, <1>9, Zenon DEF RecOK, FileIds
  <1>11. EventsOnce'
    BY <1>1, <1>2, Zenon DEF EventsOnce
  <1> QED
    BY <1>1, <1>2, <1>4, <1>8, <1>10, <1>11, Zenon DEF EventInv

(* The rows of the file have true columns.                                 *)
LEMMA RowsTrue ==
    ASSUME EventInv
    PROVE  \A row \in Range(rec.file) : RowTrue(row, schema)
  <1>1. (\A i \in 1..Len(rec.file) : RowTrue(rec.file[i], schema)) /\ rec.file \in Seq([Cols(schema) -> Cells])
    BY Zenon DEF EventInv, RecOK
  <1>2. DOMAIN rec.file = 1..Len(rec.file)
    BY <1>1
  <1> QED
    BY <1>1, <1>2, Zenon DEF Range

(* EventInv implies the properties of the recorder.                        *)
LEMMA EventImplied ==
    ASSUME EventInv
    PROVE  RecorderInv
  <1>1. /\ schema \in EventSchemas /\ RecOK(rec, kept, schema) /\ kept \in Seq(Nat)
        /\ rec.state \in {"open", "closed"} /\ (rec.state = "closed" => rec.buffered = 0)
    BY Zenon DEF EventInv, EventsOnce
  <1>2. BatchesFit
    BY <1>1, Zenon DEF BatchesFit
  <1>3. RowsOnce
    <2> DEFINE n == rec.buffered
               ids == rec.builders[IdCol]
    <2>1. n \in Nat /\ Builds(rec.builders, n, schema)
      BY <1>1, Zenon DEF RecOK
    <2>2. ids \in Seq(Cells) /\ Len(ids) = n
      BY <1>1, <2>1, ColsAre, Zenon DEF Builds
    <2>3. Filtered(kept, Written(kept, Len(kept), rec.lost)) = FileIds(rec) \o [i \in 1..n |-> ids[i]]
      BY <1>1, BatchWritten, Zenon
    <2> HIDE DEF ids, n
    <2>4. ids = [i \in 1..n |-> ids[i]]
      <3> HIDE DEF Cells
      <3> QED
        BY <2>2
    <2>5. DOMAIN kept = 1..Len(kept)
      BY <1>1
    <2>6. FileIds(rec) \o ids = Filtered(kept, {i \in DOMAIN kept : kept[i] \notin rec.lost})
      BY <2>3, <2>4, <2>5, Zenon DEF Written
    <2> QED
      BY <1>1, <2>6, Zenon DEF RowsOnce, FileIds, ids, IdCol
  <1>4. LagsAddUp
    <2> SUFFICES ASSUME schema.co, NEW row \in Range(rec.file)
                 PROVE  \E t \in EventTimes :
                          /\ to_epoch_us(t[1]) = row[IntendedCol]
                          /\ row[IntendedCol] + row[LagCol] + row[TransitCol] + row[GapCol] = to_epoch_us(t[4])
      BY Zenon DEF LagsAddUp, IntendedCol, LagCol, TransitCol, GapCol
    <2>1. PICK t \in EventTimes :
            /\ row[IntendedCol] = to_epoch_us(t[1])
            /\ row[LagCol] = Saturating(to_epoch_us(t[2]), to_epoch_us(t[1]))
            /\ row[TransitCol] = Saturating(to_epoch_us(t[3]), to_epoch_us(t[2]))
            /\ row[GapCol] = Saturating(to_epoch_us(t[4]), to_epoch_us(t[3]))
      BY RowsTrue, Zenon DEF RowTrue
    <2>2. to_epoch_us(t[1]) + Saturating(to_epoch_us(t[2]), to_epoch_us(t[1]))
            + Saturating(to_epoch_us(t[3]), to_epoch_us(t[2]))
            + Saturating(to_epoch_us(t[4]), to_epoch_us(t[3])) = to_epoch_us(t[4])
      BY LagsAdd, Zenon
    <2> QED
      BY <2>1, <2>2, Zenon
  <1>5. RowsNameCore
    <2> SUFFICES ASSUME NEW row \in Range(rec.file), row[IdCol] - Base < IdSpan
                 PROVE  row[CoreCol] = EventCore
      BY Zenon DEF RowsNameCore, RowId, IdCol, CoreCol, Base
    <2>1. PICK n \in Nat : row[IdCol] = Base + n /\ row[CoreCol] = core_of(Base + n)
      BY RowsTrue, Zenon DEF RowTrue
    <2>2. Base \in Nat /\ IdSpan \in Nat \ {0} /\ EventCore \in Nat /\ EventCore < U16
      BY EventConstants, Zenon
    <2>3. n \in 0..(IdSpan - 1)
      BY <2>1, <2>2
    <2>4. (EventCore * IdSpan + n) \div IdSpan = EventCore
      BY <2>2, <2>3
    <2>5. EventCore % U16 = EventCore
      BY <2>2 DEF U16
    <2> QED
      BY <2>1, <2>4, <2>5, Zenon DEF core_of, Base
  <1> QED
    BY <1>2, <1>3, <1>4, <1>5, Zenon DEF RecorderInv

(* The event log is exact (record, flush_batch and the Drop of             *)
(* EventRecorder): whatever columns the schema has, whatever headers       *)
(* responses lack and whenever batches are flushed or refused, every batch *)
(* fits the schema, the file and the builders have each sampled request    *)
(* once and in order except those of refused batches, nothing is left when *)
(* the recorder is dropped, the lags of a row add up and it names its core.*)
THEOREM RecorderIsExact == EventSpec => []RecorderInv
  <1>1. EventInit => EventInv
    BY EventInitially
  <1>2. EventInv /\ [EventNext]_eventVars => EventInv'
    <2> SUFFICES ASSUME EventInv, [EventNext]_eventVars PROVE EventInv'
      OBVIOUS
    <2>1. CASE Issue
      BY <2>1, IssueKeeps
    <2>2. CASE \E e \in recording : record(e)
      BY <2>2, EventRecordKeeps
    <2>3. CASE flush
      BY <2>3, EventFlushKeeps
    <2>4. CASE RecorderDrops
      BY <2>4, RecorderDropKeeps
    <2>5. CASE UNCHANGED eventVars
      <3>1. schema' = schema /\ recording' = recording /\ issues' = issues /\ rec' = rec /\ kept' = kept
        BY <2>5 DEF eventVars
      <3>2. RecOK(rec, kept, schema)'
        BY <3>1, Zenon DEF EventInv
      <3> QED
        BY <3>1, <3>2, Zenon DEF EventInv, EventsOnce
    <2> QED
      BY <2>1, <2>2, <2>3, <2>4, <2>5, Zenon DEF EventNext
  <1>3. EventInv => RecorderInv
    BY EventImplied
  <1> QED
    BY <1>1, <1>2, <1>3, PTL DEF EventSpec

=============================================================================
