---------------------------- MODULE EngineProofs ----------------------------
(* Theorems about Engine for every number of workers, channel capacity,    *)
(* schedule length and in-flight limit.                                    *)
EXTENDS Engine, FiniteSetTheorems, TLAPS


(* The share of a rate that each scheduler gets is a natural number.       *)
LEMMA PerWorkerNat == ASSUME NEW r \in Nat PROVE PerWorker(r) \in Nat
  BY EngineAssumption DEF EngineAssumption, PerWorker

(* A version is at least itself.                                           *)
LEMMA AtLeastItself == \A x \in Nat : x >= x
  OBVIOUS

(* Reading from and appending to a typed sequence.                         *)
LEMMA HeadTail ==
    ASSUME NEW S, NEW s \in Seq(S), s # <<>>
    PROVE  Head(s) \in S /\ Tail(s) \in Seq(S)
  OBVIOUS

(* Appending to a typed sequence.                                          *)
LEMMA AppendSeq ==
    ASSUME NEW S, NEW s \in Seq(S), NEW e \in S
    PROVE  Append(s, e) \in Seq(S)
  OBVIOUS

(* The empty sequence is typed.                                            *)
LEMMA EmptySeq == ASSUME NEW S PROVE <<>> \in Seq(S)
  OBVIOUS

(* The messages built by Msg are well typed.                               *)
LEMMA MsgType ==
    /\ StopMsg \in FireMsg /\ StopMsg \in TimerCommand /\ StopMsg \in ControlMsg
    /\ ControlMsg \subseteq FireMsg
    /\ \A n \in Nat : Msg("fire", n) \in FireMsg /\ Msg("rate", n) \in TimerCommand
  BY DEF StopMsg, Msg, FireMsg, TimerCommand, ControlMsg

(* The initial state is well typed.                                        *)
LEMMA InitTypeOK == Init => TypeOK
  <1> SUFFICES ASSUME Init PROVE TypeOK
    OBVIOUS
  <1> USE EngineAssumption DEF EngineAssumption
  <1>1. TimerTypeOK
    <2>1. PerWorker(InitialRate) \in Nat
      BY PerWorkerNat
    <2> QED
      BY <2>1, MsgType DEF Init, TimerInit, TimerTypeOK, Workers, Event
  <1>2. WorkerTypeOK
    BY FS_EmptySet DEF Init, WorkerInit, WorkerTypeOK
  <1>3. CoordTypeOK
    <2>1. InitialRate \in Nat
      OBVIOUS
    <2> QED
      BY <2>1, EmptySeq, Zenon DEF Init, CoordInit, CoordTypeOK
  <1> QED
    BY <1>1, <1>2, <1>3 DEF Init, TypeOK, TimerCommand, Msg

(* Every step of the timer thread keeps the types.                         *)
LEMMA TimerTypeStep == TypeOK /\ Timer => TypeOK'
  <1> SUFFICES ASSUME TypeOK, Timer PROVE TypeOK'
    OBVIOUS
  <1> USE EngineAssumption DEF EngineAssumption, TypeOK, TimerTypeOK
  <1>u. UNCHANGED <<workerOnly, coordVars, early>> /\ UNCHANGED <<metrics_q, worker_pc>>
    BY DEF Timer, TimerNext, TimerUpdateRate, TimerTakeControl, TimerForward, TimerStop,
           TimerPop, TimerExhausted, TimerDispatch, TimerDrop, TimerSkip
  <1>w. WorkerTypeOK' /\ CoordTypeOK' /\ (metrics_q \in [Workers -> Seq(Snapshot)])'
        /\ (early \in [Workers -> SUBSET Event])'
    BY <1>u DEF workerOnly, coordVars, WorkerTypeOK, CoordTypeOK
  <1>o. \A w \in Workers : OfferStop(w) \in Seq(FireMsg)
    BY AppendSeq, MsgType DEF OfferStop
  <1>r. TimerReturn => TimerTypeOK' /\ (fire_q \in [Workers -> Seq(FireMsg)])'
    BY <1>o DEF TimerReturn
  <1>1. CASE TimerUpdateRate
    <2>1. Head(cmd_q).v \in Nat /\ Tail(cmd_q) \in Seq(TimerCommand)
      <3>1. Head(cmd_q) \in TimerCommand /\ Tail(cmd_q) \in Seq(TimerCommand)
        BY <1>1, HeadTail DEF TimerUpdateRate
      <3> QED
        BY <3>1 DEF TimerCommand
    <2>2. PerWorker(Head(cmd_q).v) \in Nat
      BY <2>1, PerWorkerNat, Zenon
    <2> QED
      BY <1>1, <2>1, <2>2, <1>w DEF TimerUpdateRate
  <1>2. CASE TimerTakeControl
    <2>1. Head(cmd_q) \in TimerCommand /\ Tail(cmd_q) \in Seq(TimerCommand)
      BY <1>2, HeadTail DEF TimerTakeControl
    <2>2. Head(cmd_q) \in ControlMsg
      BY <1>2, <2>1 DEF TimerTakeControl, TimerCommand, ControlMsg
    <2>3. 1 \in Workers /\ 1 \in Nat
      BY DEF Workers
    <2>4. forward' = [msg |-> Head(cmd_q), to |-> 1]
      BY <1>2 DEF TimerTakeControl
    <2>5. (forward \in [msg : ControlMsg, to : Nat])' /\ forward'.to \in Workers
      BY <2>2, <2>3, <2>4
    <2>6. TimerTypeOK'
      BY <1>2, <2>5, Zenon DEF TimerTakeControl
    <2> QED
      BY <1>2, <2>1, <2>6, <1>w, Zenon DEF TimerTakeControl
  <1>3. CASE TimerForward
    <2>1. forward.msg \in ControlMsg /\ forward.msg \in FireMsg /\ forward.to \in Workers
      BY <1>3, MsgType DEF TimerForward
    <2>2. \A w \in Workers : Append(fire_q[w], forward.msg) \in Seq(FireMsg)
      BY <2>1, AppendSeq
    <2>3. (fire_q \in [Workers -> Seq(FireMsg)])'
      <3>1. \/ fire_q' = fire_q
            \/ fire_q' = [fire_q EXCEPT ![forward.to] = Append(fire_q[forward.to], forward.msg)]
        BY <1>3, Zenon DEF TimerForward, SendBlocking
      <3> HIDE DEF TimerTypeOK
      <3> QED
        BY <2>1, <2>2, <3>1, Zenon
    <2>4. forward' = [msg |-> forward.msg, to |-> forward.to + 1]
      BY <1>3, Zenon DEF TimerForward
    <2> HIDE DEF TypeOK, TimerTypeOK
    <2>g. forward.to \in Nat /\ forward.to + 1 \in Nat /\ (forward.to # NumWorkers => forward.to + 1 \in Workers)
      BY <2>1 DEF Workers
    <2>h. forward'.to = forward.to + 1
      BY <2>4
    <2>i. timer_pc' = "forward" => forward.to # NumWorkers
      BY <1>3, Zenon DEF TimerForward
    <2>t. (timer_pc = "forward" => forward.to \in Workers)' /\ forward.to + 1 \in Nat
      BY <2>g, <2>h, <2>i, Zenon
    <2>f. (forward \in [msg : ControlMsg, to : Nat])'
      BY <2>1, <2>4, <2>t
    <2>5. TimerTypeOK'
      BY <1>3, <2>t, <2>f, Zenon DEF TimerForward, TypeOK, TimerTypeOK
    <2> QED
      BY <1>3, <2>3, <2>5, <1>w, Zenon DEF TimerForward, TypeOK
  <1>4. CASE TimerStop
    BY <1>4, <1>r, <1>w, EmptySeq, Zenon DEF TimerStop
  <1>5. CASE TimerPop
    BY <1>5, <1>w DEF TimerPop
  <1>6. CASE TimerExhausted
    BY <1>6, <1>r, <1>w, Zenon DEF TimerExhausted
  <1>7. CASE TimerDispatch
    <2>1. next_ev[due] \in Nat
      BY DEF Event
    <2>2. Append(fire_q[due], Msg("fire", next_ev[due])) \in Seq(FireMsg)
      BY <2>1, AppendSeq, MsgType
    <2>3. TimerTypeOK'
      <3>1. next_ev[due] + 1 \in Event /\ dispatched + 1 \in Nat
        BY DEF Event
      <3>2. (next_ev \in [Workers -> Event])'
        BY <1>7, <3>1, Zenon DEF TimerDispatch, AdvanceScheduler
      <3>3. (heap \subseteq Workers)'
        BY <1>7, Zenon DEF TimerDispatch, AdvanceScheduler
      <3> QED
        BY <1>7, <3>1, <3>2, <3>3, Zenon DEF TimerDispatch
    <2> QED
      BY <1>7, <2>2, <2>3, <1>w, Zenon DEF TimerDispatch
  <1>8. CASE TimerDrop
    <2>1. TimerTypeOK'
      BY <1>8 DEF TimerDrop, AdvanceScheduler, Event
    <2> QED
      BY <1>8, <2>1, <1>w DEF TimerDrop
  <1>9. CASE TimerSkip
    BY <1>9, <1>w DEF TimerSkip
  <1> QED
    BY <1>1, <1>2, <1>3, <1>4, <1>5, <1>6, <1>7, <1>8, <1>9, Zenon DEF Timer, TimerNext

(* A snapshot is well typed.                                               *)
LEMMA SnapshotType ==
    ASSUME TypeOK, NEW w \in Workers
    PROVE  /\ TakeSnapshot(w) \in Snapshot
           /\ Append(metrics_q[w], TakeSnapshot(w)) \in Seq(Snapshot)
  <1>1. Cardinality(in_flight[w]) \in Nat
    BY FS_CardinalityType DEF TypeOK, WorkerTypeOK
  <1>2. TakeSnapshot(w) \in Snapshot
    BY <1>1 DEF TypeOK, WorkerTypeOK, TakeSnapshot, Snapshot
  <1>3. metrics_q[w] \in Seq(Snapshot)
    BY DEF TypeOK
  <1> QED
    BY <1>2, <1>3, AppendSeq

(* The message at the head of a fire channel is well typed.                *)
LEMMA ReceiveType ==
    ASSUME TypeOK, NEW w \in Workers, fire_q[w] # <<>>
    PROVE  /\ Head(fire_q[w]) \in FireMsg
           /\ Tail(fire_q[w]) \in Seq(FireMsg)
           /\ Head(fire_q[w]).v \in Nat
  <1>1. Head(fire_q[w]) \in FireMsg /\ Tail(fire_q[w]) \in Seq(FireMsg)
    BY HeadTail DEF TypeOK
  <1> QED
    BY <1>1 DEF FireMsg

(* Handling a message keeps the types of what it changes.                  *)
LEMMA HandleType ==
    ASSUME TypeOK, NEW w \in Workers, NEW m \in FireMsg, HandleMessage(w, m)
    PROVE  /\ (in_flight \in [Workers -> SUBSET Event])'
           /\ (\A x \in Workers : IsFiniteSet(in_flight[x]))'
           /\ (limit_drops \in [Workers -> SUBSET Event])'
           /\ (targets \in [Workers -> Nat])'
           /\ (metadata \in [Workers -> Nat])'
  <1>1. m.v \in Nat
    BY DEF FireMsg
  <1>2. IsFiniteSet(in_flight[w] \cup {m.v})
    BY FS_AddElement, Zenon DEF TypeOK, WorkerTypeOK
  <1>3. (in_flight \in [Workers -> SUBSET Event])' /\ (\A x \in Workers : IsFiniteSet(in_flight[x]))'
    <2>1. in_flight' = [in_flight EXCEPT ![w] = @ \cup {m.v}] \/ in_flight' = in_flight
      BY DEF HandleMessage
    <2>2. in_flight \in [Workers -> SUBSET Event] /\ \A x \in Workers : IsFiniteSet(in_flight[x])
      BY DEF TypeOK, WorkerTypeOK
    <2>3. in_flight[w] \cup {m.v} \in SUBSET Event
      BY <1>1, <2>2 DEF Event
    <2>4. (in_flight \in [Workers -> SUBSET Event])'
      BY <2>1, <2>2, <2>3
    <2>5. ASSUME NEW x \in Workers PROVE IsFiniteSet(in_flight'[x])
      BY <1>2, <2>1, <2>2
    <2> QED
      BY <2>4, <2>5
  <1>4. (limit_drops \in [Workers -> SUBSET Event])'
    <2>1. limit_drops' = [limit_drops EXCEPT ![w] = @ \cup {m.v}] \/ limit_drops' = limit_drops
      BY DEF HandleMessage, Refuse
    <2>2. limit_drops \in [Workers -> SUBSET Event]
      BY DEF TypeOK, WorkerTypeOK
    <2>3. limit_drops[w] \cup {m.v} \in SUBSET Event
      BY <1>1, <2>2 DEF Event
    <2> QED
      BY <2>1, <2>2, <2>3
  <1>5. (targets \in [Workers -> Nat])' /\ (metadata \in [Workers -> Nat])'
    BY <1>1 DEF TypeOK, WorkerTypeOK, HandleMessage
  <1> QED
    BY <1>3, <1>4, <1>5

(* Leaving the loop keeps the types of what it changes.                    *)
LEMMA ExitType ==
    ASSUME TypeOK, NEW w \in Workers, Exit(w)
    PROVE  /\ (worker_pc \in [Workers -> {"recv", "wait", "drain", "yield", "grace", "exited", "crashed"}])'
           /\ (in_flight \in [Workers -> SUBSET Event])'
           /\ (\A x \in Workers : IsFiniteSet(in_flight[x]))'
           /\ (metrics_q \in [Workers -> Seq(Snapshot)])'
           /\ (collector \in [Workers -> SUBSET Event])'
           /\ (responses \in [Workers -> SUBSET Event])'
           /\ (lost \in [Workers -> SUBSET Event])'
  BY SnapshotType, FS_EmptySet DEF TypeOK, WorkerTypeOK, Exit, SendSnapshot

(* Every step of a worker's loop, of a request task, and a panic keep the  *)
(* types.                                                                  *)
LEMMA WorkerTypeStep ==
    ASSUME TypeOK, NEW w \in Workers, WorkerThread(w) \/ Task(w) \/ Panic(w)
    PROVE  TypeOK'
  <1>u. UNCHANGED <<cmd_q, timer_pc>> /\ UNCHANGED timerOnly /\ UNCHANGED coordVars
    BY Zenon DEF WorkerThread, Task, Panic, WorkerLoopStep, WorkerRecv, WorkerSuspend,
           WorkerDisconnected, WorkerDrain, WorkerDrainStop, WorkerResume, WorkerLoop,
           WorkerExit, TaskComplete, WorkerPanic, channelVars
  <1>t. TimerTypeOK' /\ CoordTypeOK' /\ (cmd_q \in Seq(TimerCommand))'
    BY <1>u DEF timerOnly, coordVars, TypeOK, TimerTypeOK, CoordTypeOK
  <1>e. WorkerThread(w) \/ Panic(w) => (early \in [Workers -> SUBSET Event])'
    BY DEF TypeOK, WorkerThread, Panic
  <1> DEFINE FQ == (fire_q \in [Workers -> Seq(FireMsg)])'
             MQ == (metrics_q \in [Workers -> Seq(Snapshot)])'
  <1>s. SUFFICES WorkerTypeOK' /\ FQ /\ MQ /\ (early \in [Workers -> SUBSET Event])'
    BY <1>t DEF TypeOK
  <1>r. Receive(w) => FQ
    BY ReceiveType DEF Receive, TypeOK
  <1>1. CASE WorkerThread(w) /\ WorkerRecv(w)
    <2>1. Receive(w) /\ Head(fire_q[w]) \in FireMsg
      BY <1>1, ReceiveType DEF WorkerRecv, Receive
    <2>2. CASE HandleMessage(w, Head(fire_q[w]))
               /\ worker_pc' = [worker_pc EXCEPT ![w] = "drain"]
      <3>1. WorkerTypeOK'
        BY <1>1, <2>1, <2>2, HandleType, Zenon DEF WorkerRecv, TypeOK, WorkerTypeOK
      <3> QED
        BY <1>1, <1>e, <1>r, <2>1, <3>1 DEF WorkerRecv, TypeOK
    <2>3. CASE worker_pc' = [worker_pc EXCEPT ![w] = "grace"]
               /\ UNCHANGED <<in_flight, limit_drops, targets, metadata>>
      BY <1>1, <1>e, <1>r, <2>1, <2>3 DEF WorkerRecv, TypeOK, WorkerTypeOK
    <2> QED
      BY <1>1, <2>2, <2>3 DEF WorkerRecv
  <1>2. CASE WorkerThread(w) /\ (WorkerSuspend(w) \/ WorkerDisconnected(w) \/ WorkerResume(w))
    BY <1>2, <1>e, Zenon DEF WorkerSuspend, WorkerDisconnected, WorkerResume, channelVars,
                      TypeOK, WorkerTypeOK
  <1>3. CASE WorkerThread(w) /\ WorkerDrain(w)
    <2>1. Receive(w) /\ Head(fire_q[w]) \in FireMsg
      BY <1>3, ReceiveType DEF WorkerDrain, Receive
    <2>2. HandleMessage(w, Head(fire_q[w]))
      BY <1>3 DEF WorkerDrain
    <2>3. (worker_pc \in [Workers -> {"recv", "wait", "drain", "yield", "grace", "exited", "crashed"}])'
      BY <1>3 DEF WorkerDrain, TypeOK, WorkerTypeOK
    <2>4. WorkerTypeOK'
      BY <1>3, <2>1, <2>2, <2>3, HandleType DEF WorkerDrain, TypeOK, WorkerTypeOK
    <2> QED
      BY <1>3, <1>e, <1>r, <2>1, <2>4 DEF WorkerDrain, TypeOK
  <1>4. CASE WorkerThread(w) /\ WorkerDrainStop(w)
    <2>1. WorkerTypeOK' /\ MQ
      BY <1>4, ExitType DEF WorkerDrainStop, TypeOK, WorkerTypeOK
    <2> QED
      BY <1>4, <1>e, <1>r, <2>1 DEF WorkerDrainStop
  <1>5. CASE WorkerThread(w) /\ WorkerLoop(w)
    <2>1. MQ /\ (collector \in [Workers -> SUBSET Event])' /\ (last_drops \in [Workers -> SUBSET Event])'
      <3>1. CASE SendSnapshot(w) /\ RememberDrops(w)
        BY <3>1, SnapshotType DEF SendSnapshot, RememberDrops, TypeOK, WorkerTypeOK
      <3>2. CASE UNCHANGED <<metrics_q, collector, last_drops>>
        BY <3>2 DEF TypeOK, WorkerTypeOK
      <3> QED
        BY <1>5, <3>1, <3>2, Zenon DEF WorkerLoop
    <2>2. WorkerTypeOK'
      BY <1>5, <2>1, Zenon DEF WorkerLoop, TypeOK, WorkerTypeOK
    <2> QED
      BY <1>5, <1>e, <2>1, <2>2 DEF WorkerLoop, TypeOK
  <1>6. CASE WorkerThread(w) /\ WorkerExit(w)
    <2>1. WorkerTypeOK' /\ MQ
      BY <1>6, ExitType, Zenon DEF WorkerExit, TypeOK, WorkerTypeOK
    <2> QED
      BY <1>6, <1>e, <2>1 DEF WorkerExit, TypeOK
  <1>7. CASE Task(w)
    <2>1. PICK n \in in_flight[w], outcome \in Outcomes :
            /\ Record(w, n, outcome)
            /\ responses' = IF WantsResponses /\ Cardinality(responses[w]) < ResponseCap
                            THEN [responses EXCEPT ![w] = @ \cup {n}]
                            ELSE responses
            /\ in_flight' = [in_flight EXCEPT ![w] = @ \ {n}]
      BY <1>7, Zenon DEF Task, TaskComplete
    <2>2. n \in Event /\ IsFiniteSet(in_flight[w] \ {n})
      BY FS_RemoveElement DEF TypeOK, WorkerTypeOK
    <2>3. (in_flight \in [Workers -> SUBSET Event])' /\ (\A x \in Workers : IsFiniteSet(in_flight[x]))'
      BY <2>1, <2>2 DEF TypeOK, WorkerTypeOK
    <2>4. /\ (collector \in [Workers -> SUBSET Event])'
          /\ (failed \in [Workers -> SUBSET Event])'
          /\ (responses \in [Workers -> SUBSET Event])'
      BY <2>1, <2>2 DEF Record, TypeOK, WorkerTypeOK
    <2>5. (early \in [Workers -> SUBSET Event])'
      BY <1>7, <2>4, Zenon DEF Task, TypeOK
    <2>6. WorkerTypeOK'
      BY <1>7, <2>3, <2>4, Zenon DEF Task, TaskComplete, TypeOK, WorkerTypeOK
    <2> QED
      BY <1>7, <2>5, <2>6, Zenon DEF Task, TaskComplete, channelVars, TypeOK
  <1>8. CASE Panic(w)
    <2>1. Queued(w) \subseteq Event
      <3>1. \A i \in DOMAIN fire_q[w] : fire_q[w][i] \in FireMsg
        BY DEF TypeOK
      <3>2. \A i \in DOMAIN fire_q[w] : fire_q[w][i].v \in Nat
        BY <3>1 DEF FireMsg
      <3> QED
        BY <3>2 DEF Queued, FiresOf, Event
    <2>2. (lost \in [Workers -> SUBSET Event])' /\ (limit_drops \in [Workers -> SUBSET Event])'
      BY <1>8, <2>1, Zenon DEF Panic, WorkerPanic, TypeOK, WorkerTypeOK
    <2>3. WorkerTypeOK'
      BY <1>8, <2>2, FS_EmptySet, Zenon DEF Panic, WorkerPanic, TypeOK, WorkerTypeOK
    <2>4. FQ
      BY <1>8, EmptySeq, Zenon DEF Panic, WorkerPanic, TypeOK
    <2> QED
      BY <1>8, <1>e, <2>3, <2>4, Zenon DEF Panic, WorkerPanic, TypeOK
  <1> QED
    BY <1>1, <1>2, <1>3, <1>4, <1>5, <1>6, <1>7, <1>8 DEF WorkerThread, WorkerLoopStep

(* A command sent to the timer keeps its channel well typed.               *)
LEMMA SendTimerType ==
    ASSUME TypeOK, NEW c \in TimerCommand
    PROVE  SendTimer(c) \in Seq(TimerCommand)
  BY AppendSeq DEF TypeOK, SendTimer

(* What a worker's waiting snapshots contain is a set of events.           *)
LEMMA PendingType ==
    ASSUME TypeOK, NEW w \in Workers
    PROVE  /\ PendingReqs(w) \subseteq Event
           /\ PendingDrops(w) \subseteq Event
           /\ [i \in DOMAIN metrics_q[w] |-> metrics_q[w][i].in_flight] \in Seq(Nat)
  <1>1. metrics_q[w] \in Seq(Snapshot)
    BY DEF TypeOK
  <1>2. \A i \in DOMAIN metrics_q[w] : metrics_q[w][i] \in Snapshot
    BY <1>1
  <1>3. \A i \in DOMAIN metrics_q[w] : /\ metrics_q[w][i].reqs \subseteq Event
                                       /\ metrics_q[w][i].drops \subseteq Event
                                       /\ metrics_q[w][i].in_flight \in Nat
    BY <1>2 DEF Snapshot
  <1>4. DOMAIN metrics_q[w] = 1..Len(metrics_q[w]) /\ Len(metrics_q[w]) \in Nat
    BY <1>1
  <1>5. [i \in DOMAIN metrics_q[w] |-> metrics_q[w][i].in_flight] \in Seq(Nat)
    BY <1>3, <1>4
  <1> QED
    BY <1>3, <1>5 DEF PendingReqs, ReqsOf, PendingDrops

(* Every step of the coordinator keeps the types.                          *)
LEMMA CoordTypeStep == TypeOK /\ Coord => TypeOK'
  <1> SUFFICES ASSUME TypeOK, Coord PROVE TypeOK'
    OBVIOUS
  <1> USE EngineAssumption, CoordinatorAssumption DEF EngineAssumption
  <1>u. UNCHANGED <<timerOnly, workerOnly, early>> /\ UNCHANGED <<timer_pc, worker_pc, fire_q>>
    BY DEF Coord, CoordStep, CoordWake, CoordCommand, CoordTick, CoordStop, CoordDrain,
           CoordCollect, CoordFinalDrain, CoordJoin, channelVars
  <1>t. TimerTypeOK' /\ WorkerTypeOK' /\ (fire_q \in [Workers -> Seq(FireMsg)])'
        /\ (early \in [Workers -> SUBSET Event])'
    BY <1>u, Zenon DEF timerOnly, workerOnly, TypeOK, TimerTypeOK, WorkerTypeOK
  <1>s. SUFFICES /\ CoordTypeOK'
                 /\ (cmd_q \in Seq(TimerCommand))'
                 /\ (metrics_q \in [Workers -> Seq(Snapshot)])'
    BY <1>t DEF TypeOK
  <1>c. ClearMetrics => (metrics_q \in [Workers -> Seq(Snapshot)])'
    BY EmptySeq DEF ClearMetrics
  <1>m. MergeIntoTotal => (total \in [Workers -> SUBSET Event])' /\ (total_drops \in [Workers -> SUBSET Event])'
    <2>1. total \in [Workers -> SUBSET Event] /\ total_drops \in [Workers -> SUBSET Event]
      BY Zenon DEF TypeOK, CoordTypeOK
    <2>2. \A w \in Workers : PendingReqs(w) \subseteq Event /\ PendingDrops(w) \subseteq Event
      BY PendingType, Zenon
    <2> QED
      BY <2>1, <2>2 DEF MergeIntoTotal
  <1>1. CASE CoordWake
    <2>1. elapsed + 1 \in Nat
      BY DEF TypeOK, CoordTypeOK
    <2> QED
      BY <1>1, <2>1, EmptySeq, Zenon DEF CoordWake, CollectCommands, channelVars, TypeOK, CoordTypeOK
  <1>2. CASE CoordCommand
    <2>1. Head(commands) \in WorkerCommand /\ Tail(commands) \in Seq(WorkerCommand)
      BY <1>2, HeadTail DEF CoordCommand, TypeOK, CoordTypeOK
    <2>2. Head(commands).v \in Nat
      BY <2>1 DEF WorkerCommand
    <2>3. (hold \in Nat \cup {None})' /\ (stopped \in BOOLEAN)' /\ (ctl_rate \in Rates)'
      BY <1>2, <2>2 DEF CoordCommand, TypeOK, CoordTypeOK
    <2>4. Head(commands).kind \in {"rate", "targets", "metadata", "stop"} => Head(commands) \in TimerCommand
      BY <2>1 DEF WorkerCommand, TimerCommand
    <2>5. (cmd_q \in Seq(TimerCommand))'
      BY <1>2, <2>4, SendTimerType DEF CoordCommand, TypeOK
    <2> QED
      BY <1>2, <2>1, <2>3, <2>5, Zenon DEF CoordCommand, TypeOK, CoordTypeOK
  <1>3. CASE CoordTick(failed)
    <2>1. /\ (total \in [Workers -> SUBSET Event])' /\ (total_drops \in [Workers -> SUBSET Event])'
          /\ (excluded \in [Workers -> SUBSET Event])' /\ (excluded_drops \in [Workers -> SUBSET Event])'
      <3>1. CASE MergeIntoTotal /\ UNCHANGED <<excluded, excluded_drops>>
        BY <3>1, <1>m DEF TypeOK, CoordTypeOK
      <3>2. CASE MergeIntoTickOnly
        BY <3>2, PendingType, Zenon DEF MergeIntoTickOnly, TypeOK, CoordTypeOK
      <3> QED
        BY <1>3, <3>1, <3>2 DEF CoordTick
    <2>2. (target_rps \in Nat)' /\ (ctl_rate \in Rates)'
      BY <1>3, Zenon DEF CoordTick, TypeOK, CoordTypeOK
    <2>3. (cmd_q \in Seq(TimerCommand))'
      BY <1>3, <2>2, MsgType, SendTimerType DEF CoordTick, DistributeRate
    <2>5. (coord_pc \in {"stop", "sleep"})'
      BY <1>3 DEF CoordTick
    <2>6. (warmup_complete \in BOOLEAN)'
      BY <1>3 DEF CoordTick, WarmupOver, TypeOK, CoordTypeOK
    <2> QED
      BY <1>3, <1>c, <2>1, <2>2, <2>3, <2>5, <2>6, Zenon DEF CoordTick, TypeOK, CoordTypeOK
  <1>4. CASE CoordStop
    BY <1>4, MsgType, SendTimerType, Zenon DEF CoordStop, TypeOK, CoordTypeOK
  <1>5. CASE CoordDrain \/ CoordCollect
    BY <1>5, <1>c, <1>m, Zenon DEF CoordDrain, CoordCollect, CoordFinalDrain, TypeOK, CoordTypeOK
  <1>6. CASE CoordJoin
    BY <1>6 DEF CoordJoin, channelVars, TypeOK, CoordTypeOK
  <1> QED
    BY <1>1, <1>2, <1>3, <1>4, <1>5, <1>6 DEF Coord, CoordStep

(* An API call keeps the types.                                            *)
LEMMA ApiTypeStep == TypeOK /\ Api => TypeOK'
  <1> SUFFICES ASSUME TypeOK, Api PROVE TypeOK'
    OBVIOUS
  <1>1. PICK k \in Commands :
          \E x \in CASE k \in {"rate", "hold"} -> Rates
                     [] k \in {"targets", "metadata"} -> {ext_sent + 1}
                     [] OTHER -> {0} : ext_q' = Append(ext_q, Msg(k, x))
    BY DEF Api, SendCommand
  <1>2. PICK x \in Nat : ext_q' = Append(ext_q, Msg(k, x))
    <2> DEFINE X == CASE k \in {"rate", "hold"} -> Rates
                      [] k \in {"targets", "metadata"} -> {ext_sent + 1}
                      [] OTHER -> {0}
    <2>1. ext_sent + 1 \in Nat /\ Rates \subseteq Nat
      BY EngineAssumption DEF EngineAssumption, TypeOK, CoordTypeOK
    <2>2. X = Rates \/ X = {ext_sent + 1} \/ X = {0}
      OBVIOUS
    <2>3. X \subseteq Nat
      BY <2>1, <2>2
    <2> QED
      BY <1>1, <2>3
  <1>3. Msg(k, x) \in WorkerCommand
    BY CoordinatorAssumption DEF CoordinatorAssumption, WorkerCommand, Msg
  <1>4. (ext_q \in Seq(WorkerCommand))'
    BY <1>2, <1>3, AppendSeq DEF TypeOK, CoordTypeOK
  <1>5. CoordTypeOK'
    BY <1>4 DEF Api, SendCommand, TypeOK, CoordTypeOK
  <1> QED
    BY <1>5 DEF Api, SendCommand, TypeOK, TimerTypeOK, WorkerTypeOK, timerOnly, workerOnly, channelVars

(* In every reachable state of a test, every channel holds well-typed      *)
(* messages and every counter is a set of events.                          *)
THEOREM TypeCorrect == Spec => []TypeOK
  <1>1. Init => TypeOK
    BY InitTypeOK
  <1>2. TypeOK /\ [Next]_vars => TypeOK'
    <2> SUFFICES ASSUME TypeOK, [Next]_vars PROVE TypeOK'
      OBVIOUS
    <2>1. CASE UNCHANGED vars
      BY <2>1, Zenon DEF vars, channelVars, timerVars, workerVars, coordVars,
                  TypeOK, TimerTypeOK, WorkerTypeOK, CoordTypeOK
    <2>2. CASE Next
      BY <2>1, <2>2, TimerTypeStep, WorkerTypeStep, CoordTypeStep, ApiTypeStep DEF Next, Finished
    <2> QED
      BY <2>1, <2>2
  <1> QED
    BY <1>1, <1>2, PTL DEF Spec

-----------------------------------------------------------------------------
(* What a worker holds is bounded.  A finite set of waiting results is     *)
(* what makes their number meaningful.                                     *)
SnapshotsBounded(q) == \A i \in DOMAIN q : q[i].in_flight <= MaxInFlight

WorkerBounded(w) ==
    /\ Len(fire_q[w]) <= FireCap
    /\ MaxInFlight > 0 => Cardinality(in_flight[w]) <= MaxInFlight /\ SnapshotsBounded(metrics_q[w])
    /\ IsFiniteSet(responses[w]) /\ Cardinality(responses[w]) <= ResponseCap

BoundInv == TypeOK /\ \A w \in Workers : WorkerBounded(w)

-----------------------------------------------------------------------------
(* One more element in a set below its limit.                              *)
LEMMA AddBelow ==
    ASSUME NEW S, IsFiniteSet(S), NEW n, NEW k \in Nat, Cardinality(S) < k
    PROVE  IsFiniteSet(S \cup {n}) /\ Cardinality(S \cup {n}) <= k
  <1>1. Cardinality(S) \in Nat
    BY FS_CardinalityType
  <1>2. IsFiniteSet(S \cup {n})
    BY FS_AddElement
  <1>3. Cardinality(S \cup {n}) = Cardinality(S) \/ Cardinality(S \cup {n}) = Cardinality(S) + 1
    BY FS_AddElement, Zenon
  <1> QED
    BY <1>1, <1>2, <1>3

(* Every step of the timer thread keeps the fire channels bounded.         *)
LEMMA TimerBound ==
    ASSUME BoundInv, TimerNext, UNCHANGED <<workerOnly, coordVars>>, NEW x \in Workers
    PROVE  WorkerBounded(x)'
  <1>1. fire_q \in [Workers -> Seq(FireMsg)] /\ due \in Workers /\ FireCap \in Nat /\ WorkerBounded(x)
    BY EngineAssumption DEF EngineAssumption, BoundInv, TypeOK, TimerTypeOK
  <1>2. \A m : Len(fire_q[x]) < FireCap => Len(Append(fire_q[x], m)) <= FireCap
    BY <1>1
  <1>3. UNCHANGED <<metrics_q, in_flight, responses>>
    BY DEF TimerNext, TimerUpdateRate, TimerTakeControl, TimerForward, TimerStop, TimerPop,
           TimerExhausted, TimerDispatch, TimerDrop, TimerSkip, workerOnly
  <1>4. Len(fire_q'[x]) <= FireCap
    <2>1. CASE TimerUpdateRate \/ TimerTakeControl \/ TimerPop \/ TimerDrop \/ TimerSkip
      BY <1>1, <2>1, Zenon DEF WorkerBounded, TimerUpdateRate, TimerTakeControl, TimerPop, TimerDrop, TimerSkip
    <2>2. CASE TimerForward
      BY <1>1, <1>2, <2>2 DEF WorkerBounded, TimerForward, SendBlocking
    <2>3. CASE TimerStop \/ TimerExhausted
      BY <1>1, <1>2, <2>3, Zenon DEF WorkerBounded, TimerStop, TimerExhausted, TimerReturn, OfferStop
    <2>4. CASE TimerDispatch
      BY <1>1, <1>2, <2>4, Zenon DEF WorkerBounded, TimerDispatch
    <2> QED
      BY <2>1, <2>2, <2>3, <2>4 DEF TimerNext
  <1> QED
    BY <1>1, <1>3, <1>4 DEF WorkerBounded

(* A snapshot reports the requests in flight, so a bound on them bounds    *)
(* what is reported.                                                       *)
LEMMA SnapshotBound ==
    ASSUME BoundInv, NEW w \in Workers, SendSnapshot(w), NEW x \in Workers, MaxInFlight > 0
    PROVE  SnapshotsBounded(metrics_q[x])'
  <1>1. metrics_q \in [Workers -> Seq(Snapshot)] /\ WorkerBounded(x) /\ WorkerBounded(w)
    BY DEF BoundInv, TypeOK
  <1>2. CASE x # w
    BY <1>1, <1>2, Zenon DEF SendSnapshot, WorkerBounded
  <1>3. CASE x = w
    <2>1. metrics_q'[w] = Append(metrics_q[w], TakeSnapshot(w)) /\ metrics_q[w] \in Seq(Snapshot)
      BY <1>1 DEF SendSnapshot
    <2>2. TakeSnapshot(w).in_flight <= MaxInFlight
      BY <1>1, Zenon DEF TakeSnapshot, WorkerBounded
    <2>3. SnapshotsBounded(metrics_q[w])
      BY <1>1, Zenon DEF WorkerBounded
    <2>4. \A q \in Seq(Snapshot) : \A t : SnapshotsBounded(q) /\ t.in_flight <= MaxInFlight
                                               => SnapshotsBounded(Append(q, t))
      BY DEF SnapshotsBounded
    <2> QED
      BY <1>3, <2>1, <2>2, <2>3, <2>4, Zenon
  <1> QED
    BY <1>2, <1>3

(* A worker's step keeps every bound: a permit is taken only below the     *)
(* limit and a result is queued only below the capacity.                   *)
LEMMA WorkerBound ==
    ASSUME BoundInv, NEW w \in Workers, WorkerNext(w), NEW x \in Workers
    PROVE  WorkerBounded(x)'
  <1>1. /\ fire_q \in [Workers -> Seq(FireMsg)] /\ metrics_q \in [Workers -> Seq(Snapshot)]
        /\ in_flight \in [Workers -> SUBSET Event] /\ responses \in [Workers -> SUBSET Event]
        /\ IsFiniteSet(in_flight[w])
    BY DEF BoundInv, TypeOK, WorkerTypeOK
  <1>2. FireCap \in Nat \ {0} /\ MaxInFlight \in Nat /\ ResponseCap \in Nat \ {0}
    BY EngineAssumption, WorkerAssumption DEF EngineAssumption, WorkerAssumption
  <1>3. WorkerBounded(x) /\ WorkerBounded(w)
    BY DEF BoundInv
  <1>e. IsFiniteSet({}) /\ Cardinality({}) = 0
    BY FS_EmptySet
  <1>4. Len(fire_q'[x]) <= FireCap
    <2>1. fire_q'[x] = fire_q[x] \/ (fire_q[x] # <<>> /\ fire_q'[x] = Tail(fire_q[x])) \/ fire_q'[x] = <<>>
      BY <1>1, Zenon DEF WorkerNext, WorkerLoopStep, WorkerRecv, WorkerSuspend, WorkerDisconnected, WorkerDrain,
                  WorkerDrainStop, WorkerResume, WorkerLoop, WorkerExit, TaskComplete, WorkerPanic,
                  Receive, channelVars
    <2>2. fire_q[x] \in Seq(FireMsg)
      BY <1>1
    <2>3. fire_q[x] # <<>> => Len(Tail(fire_q[x])) = Len(fire_q[x]) - 1
      BY <2>2
    <2>4. Len(fire_q[x]) <= FireCap /\ Len(fire_q[x]) \in Nat /\ Len(<<>>) = 0
      <3>1. Len(fire_q[x]) <= FireCap
        BY <1>3, Zenon DEF WorkerBounded
      <3> QED
        BY <2>2, <3>1
    <2>5. Len(fire_q'[x]) \in {Len(fire_q[x]), Len(fire_q[x]) - 1, 0}
      BY <2>1, <2>3, <2>4, Zenon
    <2> QED
      BY <1>2, <2>4, <2>5
  <1>5. MaxInFlight > 0 => Cardinality(in_flight'[x]) <= MaxInFlight
    <2> SUFFICES ASSUME MaxInFlight > 0 PROVE Cardinality(in_flight'[x]) <= MaxInFlight
      OBVIOUS
    <2>1. Cardinality(in_flight[x]) <= MaxInFlight /\ Cardinality(in_flight[w]) \in Nat
      BY <1>1, <1>3, FS_CardinalityType DEF WorkerBounded
    <2>2. CASE WorkerRecv(w) \/ WorkerDrain(w)
      <3>1. in_flight' = in_flight \/ \E n : CanAcquire(w) /\ in_flight' = [in_flight EXCEPT ![w] = @ \cup {n}]
        BY <2>2, Zenon DEF WorkerRecv, WorkerDrain, HandleMessage
      <3>2. ASSUME NEW n, CanAcquire(w) PROVE Cardinality(in_flight[w] \cup {n}) <= MaxInFlight
        <4>1. Cardinality(in_flight[w]) < MaxInFlight
          BY <1>2, <2>1, <3>2 DEF CanAcquire
        <4> QED
          BY <1>1, <1>2, <4>1, AddBelow, Zenon
      <3> QED
        BY <1>1, <2>1, <3>1, <3>2, Zenon
    <2>3. CASE WorkerDrainStop(w) \/ WorkerExit(w) \/ WorkerPanic(w)
      <3>1. in_flight' = [in_flight EXCEPT ![w] = {}]
        BY <2>3, Zenon DEF WorkerDrainStop, WorkerExit, WorkerPanic, Exit
      <3> QED
        BY <1>1, <1>2, <1>e, <2>1, <3>1
    <2>4. CASE WorkerSuspend(w) \/ WorkerDisconnected(w) \/ WorkerResume(w) \/ WorkerLoop(w)
      BY <2>1, <2>4, Zenon DEF WorkerSuspend, WorkerDisconnected, WorkerResume, WorkerLoop
    <2>5. CASE TaskComplete(w)
      <3>1. PICK n \in in_flight[w] : in_flight' = [in_flight EXCEPT ![w] = @ \ {n}]
        BY <2>5, Zenon DEF TaskComplete
      <3>2. Cardinality(in_flight[w] \ {n}) = Cardinality(in_flight[w]) - 1
        BY <1>1, FS_RemoveElement, Zenon
      <3>3. Cardinality(in_flight[w]) <= MaxInFlight
        BY <1>3, Zenon DEF WorkerBounded
      <3> QED
        BY <1>1, <1>2, <2>1, <3>1, <3>2, <3>3
    <2> QED
      BY <2>2, <2>3, <2>4, <2>5 DEF WorkerNext, WorkerLoopStep
  <1>6. MaxInFlight > 0 => SnapshotsBounded(metrics_q[x])'
    <2> SUFFICES ASSUME MaxInFlight > 0 PROVE SnapshotsBounded(metrics_q[x])'
      OBVIOUS
    <2>1. SendSnapshot(w) \/ metrics_q' = metrics_q
      BY Zenon DEF WorkerNext, WorkerLoopStep, WorkerRecv, WorkerSuspend, WorkerDisconnected, WorkerDrain,
                  WorkerDrainStop, WorkerResume, WorkerLoop, WorkerExit, TaskComplete, WorkerPanic,
                  Exit, channelVars
    <2> QED
      BY <1>3, <2>1, SnapshotBound, Zenon DEF WorkerBounded
  <1>7. IsFiniteSet(responses'[x]) /\ Cardinality(responses'[x]) <= ResponseCap
    <2>1. IsFiniteSet(responses[x]) /\ Cardinality(responses[x]) <= ResponseCap /\ Cardinality(responses[x]) \in Nat
      BY <1>3, FS_CardinalityType, Zenon DEF WorkerBounded
    <2>2. CASE responses' = responses \/ responses' = [responses EXCEPT ![w] = {}]
      <3>1. responses'[x] = responses[x] \/ responses'[x] = {}
        BY <1>1, <2>2
      <3> QED
        <4>1. CASE responses'[x] = responses[x]
          BY <2>1, <4>1, Zenon
        <4>2. CASE responses'[x] = {}
          BY <1>2, <1>e, <4>2
        <4> QED
          BY <3>1, <4>1, <4>2, Zenon
    <2>3. CASE TaskComplete(w)
      <3>1. responses' = responses
            \/ \E n : Cardinality(responses[w]) < ResponseCap /\ responses' = [responses EXCEPT ![w] = @ \cup {n}]
        BY <2>3, Zenon DEF TaskComplete
      <3>2. ASSUME NEW n, Cardinality(responses[x]) < ResponseCap
            PROVE  IsFiniteSet(responses[x] \cup {n}) /\ Cardinality(responses[x] \cup {n}) <= ResponseCap
        BY <1>2, <2>1, <3>2, AddBelow, Zenon
      <3> QED
        BY <1>1, <2>1, <3>1, <3>2, Zenon
    <2> QED
      BY <2>2, <2>3, Zenon DEF WorkerNext, WorkerLoopStep, WorkerRecv, WorkerSuspend, WorkerDisconnected, WorkerDrain,
                  WorkerDrainStop, WorkerResume, WorkerLoop, WorkerExit, WorkerPanic, Exit
  <1> QED
    BY <1>4, <1>5, <1>6, <1>7, Zenon DEF WorkerBounded

(* The coordinator only empties the metrics channels.                      *)
LEMMA CoordBound ==
    ASSUME BoundInv, CoordStep(failed) \/ SendCommand, UNCHANGED workerOnly, NEW x \in Workers
    PROVE  WorkerBounded(x)'
  <1>1. UNCHANGED <<fire_q, in_flight, responses>> /\ WorkerBounded(x)
    BY Zenon DEF BoundInv, CoordStep, CoordWake, CoordCommand, CoordTick, CoordStop, CoordDrain,
           CoordCollect, CoordFinalDrain, CoordJoin, SendCommand, channelVars, workerOnly
  <1>2. metrics_q' = metrics_q \/ metrics_q'[x] = <<>>
    BY Zenon DEF CoordStep, CoordWake, CoordCommand, CoordTick, CoordStop, CoordDrain,
           CoordCollect, CoordFinalDrain, CoordJoin, SendCommand, channelVars, ClearMetrics
  <1>3. SnapshotsBounded(<<>>)
    BY DEF SnapshotsBounded
  <1> QED
    BY <1>1, <1>2, <1>3, Zenon DEF WorkerBounded

(* However far the workers fall behind, a test holds a bounded number of   *)
(* messages, requests and results per worker (timer_loop's try_send,       *)
(* InFlightLimit and the response channel of io_worker_loop).              *)
THEOREM WorkIsBounded == Spec => []BoundedWork
  <1>1. Init => BoundInv
    <2> SUFFICES ASSUME Init, NEW w \in Workers PROVE WorkerBounded(w)
      BY InitTypeOK DEF BoundInv
    <2>1. /\ fire_q[w] = <<>> /\ metrics_q[w] = <<>> /\ in_flight[w] = {} /\ responses[w] = {}
      BY DEF Init, WorkerInit
    <2>2. FireCap \in Nat \ {0} /\ MaxInFlight \in Nat /\ ResponseCap \in Nat \ {0}
      BY EngineAssumption, WorkerAssumption DEF EngineAssumption, WorkerAssumption
    <2>3. Len(<<>>) <= FireCap /\ (MaxInFlight > 0 => 0 <= MaxInFlight) /\ 0 <= ResponseCap
      BY <2>2
    <2>4. SnapshotsBounded(<<>>)
      BY DEF SnapshotsBounded
    <2> QED
      BY <2>1, <2>3, <2>4, FS_EmptySet, Zenon DEF WorkerBounded
  <1>2. BoundInv /\ TypeOK' /\ [Next]_vars => BoundInv'
    <2> SUFFICES ASSUME BoundInv, TypeOK', [Next]_vars, NEW x \in Workers PROVE WorkerBounded(x)'
      BY DEF BoundInv, Workers
    <2>1. CASE Timer
      BY <2>1, TimerBound DEF Timer
    <2>2. ASSUME NEW w \in Workers, WorkerThread(w) \/ Task(w) \/ Panic(w) PROVE WorkerBounded(x)'
      BY <2>2, WorkerBound, Zenon DEF WorkerThread, Task, Panic, WorkerNext
    <2>3. CASE Coord \/ Api
      BY <2>3, CoordBound DEF Coord, Api
    <2>4. CASE UNCHANGED vars
      BY <2>4, Zenon DEF vars, channelVars, workerVars, BoundInv, WorkerBounded
    <2> QED
      BY <2>1, <2>2, <2>3, <2>4 DEF Next, Finished
  <1>3. BoundInv => BoundedWork
    BY Zenon DEF BoundInv, WorkerBounded, BoundedWork, SnapshotsBounded
  <1>4. Spec => []TypeOK
    BY TypeCorrect
  <1> QED
    BY <1>1, <1>2, <1>3, <1>4, PTL DEF Spec

-----------------------------------------------------------------------------
(* What a worker counts.                                                   *)
CountersSame(w) ==
    /\ limit_drops'[w] = limit_drops[w] /\ last_drops'[w] = last_drops[w] /\ in_flight'[w] = in_flight[w]
    /\ collector'[w] = collector[w] /\ metrics_q'[w] = metrics_q[w]
    /\ total'[w] = total[w] /\ excluded'[w] = excluded[w] /\ lost'[w] = lost[w]

(* All of its state: a step of another worker leaves it alone.             *)
WorkerSame(w) ==
    /\ CountersSame(w)
    /\ fire_q'[w] = fire_q[w] /\ worker_pc'[w] = worker_pc[w] /\ failed'[w] = failed[w]
    /\ targets'[w] = targets[w] /\ metadata'[w] = metadata[w]

(* No worker writes what belongs to another.                               *)
LEMMA OthersSame ==
    ASSUME TypeOK, NEW w \in Workers, NEW x \in Workers, x # w, WorkerNext(w), UNCHANGED coordVars
    PROVE  WorkerSame(x)
  <1>1. /\ fire_q \in [Workers -> Seq(FireMsg)] /\ metrics_q \in [Workers -> Seq(Snapshot)]
        /\ in_flight \in [Workers -> SUBSET Event] /\ collector \in [Workers -> SUBSET Event]
        /\ limit_drops \in [Workers -> SUBSET Event] /\ last_drops \in [Workers -> SUBSET Event]
        /\ lost \in [Workers -> SUBSET Event] /\ failed \in [Workers -> SUBSET Event]
        /\ targets \in [Workers -> Nat] /\ metadata \in [Workers -> Nat]
        /\ DOMAIN worker_pc = Workers
    BY DEF TypeOK, WorkerTypeOK
  <1>2. total' = total /\ excluded' = excluded
    BY DEF coordVars
  <1> USE <1>1, <1>2 DEF WorkerSame, CountersSame, channelVars
  <1>3. CASE WorkerRecv(w) \/ WorkerDrain(w)
    BY <1>3, Zenon DEF WorkerRecv, WorkerDrain, Receive, HandleMessage, Refuse
  <1>4. CASE WorkerSuspend(w) \/ WorkerDisconnected(w) \/ WorkerResume(w)
    BY <1>4, Zenon DEF WorkerSuspend, WorkerDisconnected, WorkerResume
  <1>5. CASE WorkerDrainStop(w) \/ WorkerExit(w)
    BY <1>5, Zenon DEF WorkerDrainStop, WorkerExit, Receive, Exit, SendSnapshot
  <1>6. CASE WorkerLoop(w)
    BY <1>6, Zenon DEF WorkerLoop, SendSnapshot, RememberDrops
  <1>7. CASE TaskComplete(w)
    BY <1>7, Zenon DEF TaskComplete, Record
  <1>8. CASE WorkerPanic(w)
    BY <1>8, Zenon DEF WorkerPanic
  <1> QED
    BY <1>3, <1>4, <1>5, <1>6, <1>7, <1>8, Zenon DEF WorkerNext, WorkerLoopStep

(* What a worker's step does to its channel and its lists.                 *)
TakesHead(w) ==
    /\ fire_q[w] # <<>> /\ fire_q'[w] = Tail(fire_q[w])
    /\ targets'[w] = IF Head(fire_q[w]).kind = "targets" THEN Head(fire_q[w]).v ELSE targets[w]
    /\ metadata'[w] = IF Head(fire_q[w]).kind = "metadata" THEN Head(fire_q[w]).v ELSE metadata[w]
KeepsLists(w) == targets'[w] = targets[w] /\ metadata'[w] = metadata[w]

(* A worker applies the head of its channel, leaves channel and lists      *)
(* alone, or panics.                                                       *)
LEMMA WorkerLists ==
    ASSUME TypeOK, NEW w \in Workers, WorkerNext(w)
    PROVE  /\ worker_pc[w] # "crashed"
           /\ \/ TakesHead(w)
              \/ /\ KeepsLists(w)
                 /\ fire_q'[w] = fire_q[w] \/ (fire_q'[w] = <<>> /\ worker_pc'[w] = "crashed")
  <1>1. /\ fire_q \in [Workers -> Seq(FireMsg)] /\ targets \in [Workers -> Nat] /\ metadata \in [Workers -> Nat]
        /\ DOMAIN worker_pc = Workers
    BY DEF TypeOK, WorkerTypeOK
  <1>2. CASE WorkerRecv(w) \/ WorkerDrain(w) \/ WorkerDrainStop(w)
    <2>1. fire_q[w] # <<>> /\ fire_q'[w] = Tail(fire_q[w]) /\ worker_pc[w] # "crashed"
      BY <1>1, <1>2, Zenon DEF WorkerRecv, WorkerDrain, WorkerDrainStop, Receive
    <2>2. CASE HandleMessage(w, Head(fire_q[w]))
      BY <1>1, <2>1, <2>2, Zenon DEF HandleMessage, TakesHead
    <2>3. CASE Head(fire_q[w]).kind = "stop" /\ UNCHANGED <<targets, metadata>>
      BY <2>1, <2>3, Zenon DEF TakesHead
    <2> QED
      BY <1>2, <2>1, <2>2, <2>3, Zenon DEF WorkerRecv, WorkerDrain, WorkerDrainStop
  <1>3. CASE WorkerSuspend(w) \/ WorkerDisconnected(w) \/ WorkerResume(w) \/ WorkerLoop(w) \/ WorkerExit(w) \/ TaskComplete(w)
    BY <1>3, Zenon DEF WorkerSuspend, WorkerDisconnected, WorkerResume, WorkerLoop, WorkerExit, TaskComplete, Awaiting,
                channelVars, KeepsLists
  <1>4. CASE WorkerPanic(w)
    BY <1>1, <1>4, Zenon DEF WorkerPanic, KeepsLists
  <1> QED
    BY <1>2, <1>3, <1>4, Zenon DEF WorkerNext, WorkerLoopStep

-----------------------------------------------------------------------------
(* The lists of targets and headers that the control API sets are used by  *)
(* the workers in the order in which they were sent, for every number of   *)
(* workers and every capacity.                                             *)

(* The versions of the lists of kind k in a channel, and their order.      *)
ListsIn(q, k) == {q[i].v : i \in {j \in DOMAIN q : q[j].kind = k}}
Ascends(q, k) ==
    \A i, j \in DOMAIN q : i < j /\ q[i].kind = k /\ q[j].kind = k => q[i].v <= q[j].v
NotAfter(A, B) == \A a \in A, b \in B : a <= b

(* The way of a list to a worker: used by it (U), in its fire channel (F), *)
(* being forwarded (P), in the timer's command channel (C), taken by the   *)
(* tick (M), in the external channel (E).  Nothing downstream is later.    *)
Staged(U, F, P, C, M, E, n) ==
    /\ NotAfter(U, F)
    /\ NotAfter(U \cup F, P)
    /\ NotAfter(U \cup F \cup P, C)
    /\ NotAfter(U \cup F \cup P \cup C, M)
    /\ NotAfter(U \cup F \cup P \cup C \cup M, E)
    /\ NotAfter(U \cup F \cup P \cup C \cup M \cup E, {n})

(* The version that the timer thread is still to send to worker w.         *)
Awaits(w, k) ==
    IF timer_pc = "forward" /\ forward.msg.kind = k /\ forward.to <= w THEN {forward.msg.v} ELSE {}

WorkerStaged(w, k, x) ==
    /\ Staged({x}, ListsIn(fire_q[w], k), Awaits(w, k), ListsIn(cmd_q, k), ListsIn(commands, k),
              ListsIn(ext_q, k), ext_sent)
    /\ Ascends(fire_q[w], k)

ChannelsAscend(k) == Ascends(cmd_q, k) /\ Ascends(commands, k) /\ Ascends(ext_q, k)

OrderInv ==
    /\ TypeOK
    /\ ChannelsAscend("targets") /\ ChannelsAscend("metadata")
    /\ \A w \in Workers : WorkerStaged(w, "targets", targets[w]) /\ WorkerStaged(w, "metadata", metadata[w])

(* The first list of the fire channel becomes the one in use.             *)
LEMMA StagedUse ==
    ASSUME NEW U, NEW F, NEW P, NEW C, NEW M, NEW E, NEW n, NEW h, NEW G,
           Staged(U, F, P, C, M, E, n), F = G \cup {h}, NotAfter({h}, G)
    PROVE  Staged({h}, G, P, C, M, E, n)
  BY DEF Staged, NotAfter

(* The forwarded list enters the fire channel.                             *)
LEMMA StagedForward ==
    ASSUME NEW U, NEW F, NEW P, NEW C, NEW M, NEW E, NEW n, Staged(U, F, P, C, M, E, n)
    PROVE  Staged(U, F \cup P, {}, C, M, E, n)
  BY DEF Staged, NotAfter

(* The first list of the command channel is taken to be forwarded.         *)
LEMMA StagedTake ==
    ASSUME NEW U, NEW F, NEW C, NEW M, NEW E, NEW n, NEW h, NEW D,
           Staged(U, F, {}, C, M, E, n), C = D \cup {h}, NotAfter({h}, D)
    PROVE  Staged(U, F, {h}, D, M, E, n)
  BY DEF Staged, NotAfter

(* The first list of a tick enters the command channel.                    *)
LEMMA StagedCommand ==
    ASSUME NEW U, NEW F, NEW P, NEW C, NEW M, NEW E, NEW n, NEW h, NEW D,
           Staged(U, F, P, C, M, E, n), M = D \cup {h}, NotAfter({h}, D)
    PROVE  Staged(U, F, P, C \cup {h}, D, E, n)
  BY DEF Staged, NotAfter

(* A tick takes the external channel.                                      *)
LEMMA StagedCollect ==
    ASSUME NEW U, NEW F, NEW P, NEW C, NEW M, NEW E, NEW n, Staged(U, F, P, C, M, E, n)
    PROVE  Staged(U, F, P, C, E, {}, n)
  BY DEF Staged, NotAfter

(* Lists that get lost on the way disturb no order.                        *)
LEMMA StagedLess ==
    ASSUME NEW U, NEW F, NEW P, NEW C, NEW M, NEW E, NEW n, Staged(U, F, P, C, M, E, n),
           NEW F2 \in SUBSET F, NEW P2 \in SUBSET P, NEW C2 \in SUBSET C, NEW M2 \in SUBSET M
    PROVE  Staged(U, F2, P2, C2, M2, E, n)
  BY DEF Staged, NotAfter

(* A list gets the next number.                                            *)
LEMMA StagedSend ==
    ASSUME NEW U \in SUBSET Nat, NEW F \in SUBSET Nat, NEW P \in SUBSET Nat, NEW C \in SUBSET Nat,
           NEW M \in SUBSET Nat, NEW E \in SUBSET Nat, NEW n \in Nat, Staged(U, F, P, C, M, E, n)
    PROVE  Staged(U, F, P, C, M, E, n + 1) /\ Staged(U, F, P, C, M, E \cup {n + 1}, n + 1)
  <1>1. \A a \in U \cup F \cup P \cup C \cup M \cup E : a <= n
    BY DEF Staged, NotAfter
  <1>2. \A a \in U \cup F \cup P \cup C \cup M \cup E : a <= n + 1
    BY <1>1
  <1>3. n + 1 <= n + 1
    OBVIOUS
  <1>4. /\ NotAfter(U, F) /\ NotAfter(U \cup F, P) /\ NotAfter(U \cup F \cup P, C)
        /\ NotAfter(U \cup F \cup P \cup C, M) /\ NotAfter(U \cup F \cup P \cup C \cup M, E)
    BY DEF Staged
  <1>5. NotAfter(U \cup F \cup P \cup C \cup M, E \cup {n + 1})
    BY <1>2, <1>4 DEF NotAfter
  <1>6. /\ NotAfter(U \cup F \cup P \cup C \cup M \cup E, {n + 1})
        /\ NotAfter(U \cup F \cup P \cup C \cup M \cup (E \cup {n + 1}), {n + 1})
    BY <1>2, <1>3 DEF NotAfter
  <1> QED
    BY <1>4, <1>5, <1>6, Zenon DEF Staged

(* A message appended to a channel.                                        *)
LEMMA ListsAppend ==
    ASSUME NEW S, NEW q \in Seq(S), NEW m \in S, NEW k
    PROVE  /\ ListsIn(Append(q, m), k) = ListsIn(q, k) \cup (IF m.kind = k THEN {m.v} ELSE {})
           /\ Ascends(q, k) /\ (m.kind = k => NotAfter(ListsIn(q, k), {m.v})) => Ascends(Append(q, m), k)
  <1>1. DOMAIN Append(q, m) = 1 .. (Len(q) + 1) /\ DOMAIN q = 1 .. Len(q) /\ Len(q) \in Nat
    OBVIOUS
  <1>2. \A i \in DOMAIN q : Append(q, m)[i] = q[i]
    OBVIOUS
  <1>3. Append(q, m)[Len(q) + 1] = m
    OBVIOUS
  <1>4. DOMAIN Append(q, m) = DOMAIN q \cup {Len(q) + 1}
    BY <1>1
  <1>5. ListsIn(Append(q, m), k) = ListsIn(q, k) \cup (IF m.kind = k THEN {m.v} ELSE {})
    BY <1>2, <1>3, <1>4 DEF ListsIn
  <1>6. ASSUME Ascends(q, k), m.kind = k => NotAfter(ListsIn(q, k), {m.v}) PROVE Ascends(Append(q, m), k)
    <2> SUFFICES ASSUME NEW i \in DOMAIN Append(q, m), NEW j \in DOMAIN Append(q, m), i < j,
                        Append(q, m)[i].kind = k, Append(q, m)[j].kind = k
                 PROVE  Append(q, m)[i].v <= Append(q, m)[j].v
      BY DEF Ascends
    <2>1. i \in DOMAIN q
      BY <1>1
    <2>2. CASE j \in DOMAIN q
      BY <1>2, <1>6, <2>1, <2>2, Zenon DEF Ascends
    <2>3. CASE j = Len(q) + 1
      <3>1. q[i].v \in ListsIn(q, k)
        BY <1>2, <2>1, Zenon DEF ListsIn
      <3> QED
        BY <1>2, <1>3, <1>6, <2>1, <2>3, <3>1, Zenon DEF NotAfter
    <2> QED
      BY <1>4, <2>2, <2>3
  <1> QED
    BY <1>5, <1>6

(* The head taken from a channel.                                          *)
LEMMA ListsTail ==
    ASSUME NEW S, NEW q \in Seq(S), q # <<>>, NEW k
    PROVE  /\ ListsIn(q, k) = ListsIn(Tail(q), k) \cup (IF Head(q).kind = k THEN {Head(q).v} ELSE {})
           /\ Ascends(q, k) => Ascends(Tail(q), k)
           /\ Ascends(q, k) /\ Head(q).kind = k => NotAfter({Head(q).v}, ListsIn(Tail(q), k))
  <1>1. DOMAIN Tail(q) = 1 .. (Len(q) - 1) /\ DOMAIN q = 1 .. Len(q) /\ Len(q) \in Nat \ {0}
    OBVIOUS
  <1>2. \A i \in DOMAIN Tail(q) : Tail(q)[i] = q[i + 1] /\ i + 1 \in DOMAIN q /\ 1 < i + 1
    BY <1>1
  <1>3. \A i \in DOMAIN q : i = 1 \/ (i - 1 \in DOMAIN Tail(q) /\ Tail(q)[i - 1] = q[i])
    BY <1>1, <1>2
  <1>4. Head(q) = q[1] /\ 1 \in DOMAIN q
    BY <1>1
  <1>5. ASSUME NEW n \in ListsIn(q, k)
        PROVE  n \in ListsIn(Tail(q), k) \/ (Head(q).kind = k /\ n = Head(q).v)
    <2>1. PICK i \in DOMAIN q : q[i].kind = k /\ n = q[i].v
      BY <1>5 DEF ListsIn
    <2> QED
      BY <1>3, <1>4, <2>1, Zenon DEF ListsIn
  <1>6. ASSUME NEW n \in ListsIn(Tail(q), k) PROVE n \in ListsIn(q, k)
    BY <1>2, <1>6 DEF ListsIn
  <1>7. Head(q).kind = k => Head(q).v \in ListsIn(q, k)
    BY <1>4 DEF ListsIn
  <1>8. Ascends(q, k) => Ascends(Tail(q), k)
    <2>1. \A i, j \in DOMAIN Tail(q) : i < j => i + 1 < j + 1
      BY <1>1
    <2> QED
      BY <1>2, <2>1, Zenon DEF Ascends
  <1>9. ASSUME Ascends(q, k), Head(q).kind = k, NEW n \in ListsIn(Tail(q), k) PROVE Head(q).v <= n
    <2>1. PICK i \in DOMAIN Tail(q) : Tail(q)[i].kind = k /\ n = Tail(q)[i].v
      BY <1>9 DEF ListsIn
    <2> QED
      BY <1>2, <1>4, <1>9, <2>1, Zenon DEF Ascends
  <1> QED
    BY <1>5, <1>6, <1>7, <1>8, <1>9, Zenon DEF NotAfter

(* An empty channel holds no list.                                         *)
LEMMA ListsEmpty == ASSUME NEW k PROVE ListsIn(<<>>, k) = {} /\ Ascends(<<>>, k)
  BY DEF ListsIn, Ascends

(* The versions of the lists in a channel are numbers.                     *)
LEMMA ListsNat ==
    ASSUME NEW S, NEW q \in Seq(S), \A m \in S : m.v \in Nat, NEW k
    PROVE  ListsIn(q, k) \subseteq Nat
  <1>1. \A i \in DOMAIN q : q[i] \in S
    OBVIOUS
  <1> QED
    BY <1>1 DEF ListsIn

(* The channels of a well-typed state hold numbered lists.                 *)
LEMMA ListTypes ==
    ASSUME TypeOK
    PROVE  /\ cmd_q \in Seq(TimerCommand) /\ commands \in Seq(WorkerCommand) /\ ext_q \in Seq(WorkerCommand)
           /\ \A m \in TimerCommand \cup WorkerCommand \cup FireMsg : m.v \in Nat
           /\ \A k : ListsIn(cmd_q, k) \subseteq Nat /\ ListsIn(commands, k) \subseteq Nat /\ ListsIn(ext_q, k) \subseteq Nat
           /\ \A k : \A w \in Workers : ListsIn(fire_q[w], k) \subseteq Nat /\ Awaits(w, k) \subseteq Nat
  <1>1. /\ cmd_q \in Seq(TimerCommand) /\ commands \in Seq(WorkerCommand) /\ ext_q \in Seq(WorkerCommand)
        /\ fire_q \in [Workers -> Seq(FireMsg)] /\ forward.msg.v \in Nat
    BY DEF TypeOK, CoordTypeOK, TimerTypeOK, ControlMsg
  <1>2. /\ \A m \in TimerCommand : m.v \in Nat
        /\ \A m \in WorkerCommand : m.v \in Nat
        /\ \A m \in FireMsg : m.v \in Nat
    BY DEF TimerCommand, WorkerCommand, FireMsg
  <1>3. \A k : ListsIn(cmd_q, k) \subseteq Nat /\ ListsIn(commands, k) \subseteq Nat /\ ListsIn(ext_q, k) \subseteq Nat
    BY <1>1, <1>2, ListsNat, Zenon
  <1>4. \A k : \A w \in Workers : ListsIn(fire_q[w], k) \subseteq Nat
    <2>1. \A w \in Workers : fire_q[w] \in Seq(FireMsg)
      BY <1>1
    <2> QED
      BY <1>2, <2>1, ListsNat
  <1>5. \A k : \A w \in Workers : Awaits(w, k) \subseteq Nat
    BY <1>1 DEF Awaits
  <1> QED
    BY <1>1, <1>2, <1>3, <1>4, <1>5, Zenon

(* The timer thread forwards lists in the order of its command channel.    *)
LEMMA TimerOrder ==
    ASSUME TypeOK, Timer, NEW k \in {"targets", "metadata"}, ChannelsAscend(k),
           NEW w \in Workers, NEW x, WorkerStaged(w, k, x)
    PROVE  ChannelsAscend(k)' /\ WorkerStaged(w, k, x)'
  <1> DEFINE F == ListsIn(fire_q[w], k)
             C == ListsIn(cmd_q, k)
             M == ListsIn(commands, k)
             E == ListsIn(ext_q, k)
  <1>0. /\ fire_q \in [Workers -> Seq(FireMsg)] /\ due \in Workers /\ next_ev[due] \in Nat /\ w \in Nat
        /\ forward \in [msg : ControlMsg, to : Nat] /\ forward.msg \in FireMsg /\ w >= 1 /\ w <= NumWorkers
        /\ NumWorkers \in Nat /\ cmd_q \in Seq(TimerCommand) /\ fire_q[w] \in Seq(FireMsg)
        /\ timer_pc = "forward" => forward.to \in Nat
    <2>1. /\ fire_q \in [Workers -> Seq(FireMsg)] /\ due \in Workers /\ next_ev[due] \in Nat
          /\ forward \in [msg : ControlMsg, to : Nat] /\ cmd_q \in Seq(TimerCommand)
      BY DEF TypeOK, TimerTypeOK, Event
    <2>2. w \in Nat /\ w >= 1 /\ w <= NumWorkers /\ NumWorkers \in Nat
      BY EngineAssumption DEF Workers, EngineAssumption
    <2>3. forward.msg \in FireMsg /\ forward.to \in Nat /\ fire_q[w] \in Seq(FireMsg)
      BY <2>1 DEF ControlMsg, FireMsg
    <2> QED
      BY <2>1, <2>2, <2>3, Zenon
  <1>1. /\ UNCHANGED <<commands, ext_q, ext_sent>>
        /\ Staged({x}, F, Awaits(w, k), C, M, E, ext_sent) /\ Ascends(fire_q[w], k)
        /\ Ascends(cmd_q, k) /\ Ascends(commands, k) /\ Ascends(ext_q, k)
    BY Zenon DEF Timer, coordVars, WorkerStaged, ChannelsAscend
  <1>2. ASSUME ListsIn(fire_q'[w], k) = F, Ascends(fire_q'[w], k), Awaits(w, k)' \subseteq Awaits(w, k),
               ListsIn(cmd_q', k) \subseteq C, Ascends(cmd_q', k)
        PROVE  ChannelsAscend(k)' /\ WorkerStaged(w, k, x)'
    <2>1. Staged({x}, F, Awaits(w, k)', ListsIn(cmd_q', k), M, E, ext_sent)
      BY <1>1, <1>2, StagedLess, Zenon
    <2> QED
      BY <1>1, <1>2, <2>1, Zenon DEF ChannelsAscend, WorkerStaged
  <1>a. \A m \in FireMsg :
            /\ ListsIn(Append(fire_q[w], m), k) = F \cup (IF m.kind = k THEN {m.v} ELSE {})
            /\ (m.kind = k => NotAfter(F, {m.v})) => Ascends(Append(fire_q[w], m), k)
    <2>1. fire_q[w] \in Seq(FireMsg) /\ Ascends(fire_q[w], k)
      BY <1>0, <1>1, Zenon
    <2>2. ASSUME NEW m \in FireMsg
          PROVE  /\ ListsIn(Append(fire_q[w], m), k) = F \cup (IF m.kind = k THEN {m.v} ELSE {})
                 /\ Ascends(fire_q[w], k) /\ (m.kind = k => NotAfter(F, {m.v})) => Ascends(Append(fire_q[w], m), k)
      BY <2>1, ListsAppend, Zenon
    <2> QED
      BY <2>1, <2>2, Zenon
  <1>3. ASSUME fire_q'[w] = fire_q[w] \/ \E m \in FireMsg : m.kind # k /\ fire_q'[w] = Append(fire_q[w], m)
        PROVE  ListsIn(fire_q'[w], k) = F /\ Ascends(fire_q'[w], k)
    BY <1>1, <1>3, <1>a, Zenon
  <1>4. CASE TimerUpdateRate
    <2>1. fire_q' = fire_q /\ timer_pc # "forward" /\ timer_pc' # "forward" /\ cmd_q # <<>> /\ cmd_q' = Tail(cmd_q)
      BY <1>4 DEF TimerUpdateRate
    <2>2. ListsIn(Tail(cmd_q), k) \subseteq C /\ Ascends(Tail(cmd_q), k)
      <3>1. /\ C = ListsIn(Tail(cmd_q), k) \cup (IF Head(cmd_q).kind = k THEN {Head(cmd_q).v} ELSE {})
            /\ Ascends(cmd_q, k) => Ascends(Tail(cmd_q), k)
        <4>1. cmd_q \in Seq(TimerCommand) /\ cmd_q # <<>>
          BY <1>0, <2>1
        <4> QED
          BY <4>1, ListsTail, Zenon
      <3> QED
        BY <1>1, <3>1, Zenon
    <2>3. Awaits(w, k)' = {}
      BY <2>1, Zenon DEF Awaits
    <2> QED
      BY <1>2, <1>3, <2>1, <2>2, <2>3, Zenon
  <1>5. CASE TimerTakeControl
    <2>1. /\ fire_q' = fire_q /\ timer_pc = "drain" /\ timer_pc' = "forward" /\ cmd_q # <<>> /\ cmd_q' = Tail(cmd_q)
          /\ forward' = [msg |-> Head(cmd_q), to |-> 1]
      BY <1>5, Zenon DEF TimerTakeControl
    <2>2. /\ C = ListsIn(Tail(cmd_q), k) \cup (IF Head(cmd_q).kind = k THEN {Head(cmd_q).v} ELSE {})
          /\ Ascends(Tail(cmd_q), k)
          /\ Head(cmd_q).kind = k => NotAfter({Head(cmd_q).v}, ListsIn(Tail(cmd_q), k))
      BY <1>0, <1>1, <2>1, ListsTail, Zenon
    <2>3. Awaits(w, k) = {} /\ Awaits(w, k)' = IF Head(cmd_q).kind = k THEN {Head(cmd_q).v} ELSE {}
      BY <1>0, <2>1, Zenon DEF Awaits
    <2>4. CASE Head(cmd_q).kind = k
      <3>1. Staged({x}, F, {Head(cmd_q).v}, ListsIn(Tail(cmd_q), k), M, E, ext_sent)
        <4>1. C = ListsIn(Tail(cmd_q), k) \cup {Head(cmd_q).v} /\ NotAfter({Head(cmd_q).v}, ListsIn(Tail(cmd_q), k))
          BY <2>2, <2>4, Zenon
        <4>2. Staged({x}, F, {}, C, M, E, ext_sent)
          BY <1>1, <2>3, Zenon
        <4> QED
          BY <4>1, <4>2, StagedTake, Zenon
      <3> QED
        BY <1>1, <2>1, <2>2, <2>3, <2>4, <3>1, Zenon DEF ChannelsAscend, WorkerStaged
    <2>5. CASE Head(cmd_q).kind # k
      BY <1>2, <1>3, <2>1, <2>2, <2>3, <2>5, Zenon
    <2> QED
      BY <2>4, <2>5
  <1>6. CASE TimerForward
    <2>1. /\ forward'.msg = forward.msg /\ forward'.to = forward.to + 1 /\ cmd_q' = cmd_q
          /\ timer_pc = "forward" /\ timer_pc' = IF forward.to = NumWorkers THEN "drain" ELSE "forward"
      BY <1>0, <1>6 DEF TimerForward
    <2>2. forward.to \in Nat
      BY <1>0, <2>1
    <2>3. CASE w # forward.to \/ WorkerGone(w)
      <3>1. fire_q'[w] = fire_q[w]
        BY <1>0, <1>6, <2>3 DEF TimerForward, SendBlocking
      <3>2. Awaits(w, k)' \subseteq Awaits(w, k)
        <4>1. forward.to + 1 <= w => forward.to <= w
          BY <1>0, <2>2
        <4> QED
          BY <2>1, <4>1, Zenon DEF Awaits
      <3> QED
        BY <1>1, <1>2, <2>1, <3>1, <3>2, Zenon
    <2>4. CASE w = forward.to /\ ~WorkerGone(w)
      <3>1. fire_q'[w] = Append(fire_q[w], forward.msg)
        BY <1>0, <1>6, <2>4 DEF TimerForward, SendBlocking
      <3>2. Awaits(w, k)' = {} /\ Awaits(w, k) = IF forward.msg.kind = k THEN {forward.msg.v} ELSE {}
        <4>1. forward.to <= w /\ ~(forward.to + 1 <= w)
          BY <1>0, <2>2, <2>4
        <4> QED
          BY <2>1, <4>1, Zenon DEF Awaits
      <3>3. ListsIn(fire_q'[w], k) = F \cup Awaits(w, k)
        BY <1>0, <1>a, <3>1, <3>2, Zenon
      <3>4. Ascends(fire_q'[w], k)
        <4>1. forward.msg.kind = k => NotAfter(F, {forward.msg.v})
          BY <1>1, <3>2, Zenon DEF Staged, NotAfter
        <4> QED
          BY <1>0, <1>a, <3>1, <4>1, Zenon
      <3>5. Staged({x}, F \cup Awaits(w, k), {}, C, M, E, ext_sent)
        BY <1>1, StagedForward, Zenon
      <3> QED
        BY <1>1, <2>1, <3>2, <3>3, <3>4, <3>5, Zenon DEF ChannelsAscend, WorkerStaged
    <2> QED
      BY <2>3, <2>4
  <1>7. CASE TimerStop \/ TimerExhausted
    <2>1. fire_q'[w] = fire_q[w] \/ fire_q'[w] = Append(fire_q[w], StopMsg)
      BY <1>0, <1>7, Zenon DEF TimerStop, TimerExhausted, TimerReturn, OfferStop
    <2>2. StopMsg \in FireMsg /\ StopMsg.kind # k
      BY MsgType DEF StopMsg, Msg
    <2>3. (cmd_q' = cmd_q \/ cmd_q' = <<>>) /\ Awaits(w, k)' = {}
      BY <1>7, Zenon DEF TimerStop, TimerExhausted, TimerReturn, Awaits
    <2> QED
      BY <1>1, <1>2, <1>3, <2>1, <2>2, <2>3, ListsEmpty, Zenon
  <1>8. CASE TimerPop \/ TimerDrop \/ TimerSkip
    <2>1. fire_q' = fire_q /\ cmd_q' = cmd_q /\ timer_pc' # "forward"
      BY <1>8, Zenon DEF TimerPop, TimerDrop, TimerSkip
    <2> QED
      BY <1>1, <1>2, <2>1, Zenon DEF Awaits
  <1>9. CASE TimerDispatch
    <2>1. fire_q'[w] = fire_q[w] \/ fire_q'[w] = Append(fire_q[w], Msg("fire", next_ev[due]))
      BY <1>0, <1>9, Zenon DEF TimerDispatch
    <2>2. Msg("fire", next_ev[due]) \in FireMsg /\ Msg("fire", next_ev[due]).kind # k
      BY <1>0, MsgType, Zenon DEF Msg
    <2>3. cmd_q' = cmd_q /\ timer_pc' # "forward"
      BY <1>9 DEF TimerDispatch
    <2>4. ListsIn(fire_q'[w], k) = F /\ Ascends(fire_q'[w], k)
      BY <1>3, <2>1, <2>2, Zenon
    <2> QED
      BY <1>1, <1>2, <2>3, <2>4, Zenon DEF Awaits
  <1> QED
    BY <1>4, <1>5, <1>6, <1>7, <1>8, <1>9 DEF Timer, TimerNext

(* A worker puts the lists of its channel to use in their order.           *)
LEMMA WorkerOrder ==
    ASSUME NEW k, NEW w \in Workers, NEW x \in Nat, NEW y \in Nat, fire_q[w] \in Seq(FireMsg), WorkerStaged(w, k, x),
           NEW g,
           \/ /\ fire_q[w] # <<>> /\ g = Tail(fire_q[w])
              /\ y = IF Head(fire_q[w]).kind = k THEN Head(fire_q[w]).v ELSE x
           \/ y = x /\ (g = fire_q[w] \/ g = <<>>)
    PROVE  /\ Staged({y}, ListsIn(g, k), Awaits(w, k), ListsIn(cmd_q, k), ListsIn(commands, k),
                     ListsIn(ext_q, k), ext_sent)
           /\ Ascends(g, k)
           /\ y >= x
  <1> DEFINE F == ListsIn(fire_q[w], k)
             P == Awaits(w, k)
             C == ListsIn(cmd_q, k)
             M == ListsIn(commands, k)
             E == ListsIn(ext_q, k)
  <1>1. Staged({x}, F, P, C, M, E, ext_sent) /\ Ascends(fire_q[w], k)
    BY Zenon DEF WorkerStaged
  <1>2. ASSUME y = x, ListsIn(g, k) \subseteq F
        PROVE  Staged({y}, ListsIn(g, k), P, C, M, E, ext_sent) /\ y >= x
    <2>1. Staged({x}, ListsIn(g, k), P, C, M, E, ext_sent)
      BY <1>1, <1>2, StagedLess, Zenon
    <2>2. y >= x
      BY <1>2, AtLeastItself, Zenon
    <2> QED
      BY <1>2, <2>1, <2>2, Zenon
  <1>3. CASE y = x /\ (g = fire_q[w] \/ g = <<>>)
    <2>1. ListsIn(g, k) \subseteq F /\ Ascends(g, k)
      BY <1>1, <1>3, ListsEmpty, Zenon
    <2> QED
      BY <1>2, <1>3, <2>1, Zenon
  <1>4. CASE fire_q[w] # <<>> /\ g = Tail(fire_q[w]) /\ y = IF Head(fire_q[w]).kind = k THEN Head(fire_q[w]).v ELSE x
    <2>1. /\ F = ListsIn(g, k) \cup (IF Head(fire_q[w]).kind = k THEN {Head(fire_q[w]).v} ELSE {})
          /\ Ascends(fire_q[w], k) => Ascends(g, k)
          /\ Ascends(fire_q[w], k) /\ Head(fire_q[w]).kind = k => NotAfter({Head(fire_q[w]).v}, ListsIn(g, k))
      BY <1>4, ListsTail, Zenon
    <2>2. CASE Head(fire_q[w]).kind = k
      <3>1. F = ListsIn(g, k) \cup {y} /\ NotAfter({y}, ListsIn(g, k))
        BY <1>1, <1>4, <2>1, <2>2, Zenon
      <3>2. Staged({y}, ListsIn(g, k), P, C, M, E, ext_sent)
        BY <1>1, <3>1, StagedUse, Zenon
      <3>3. y >= x
        BY <1>1, <3>1, Zenon DEF Staged, NotAfter
      <3> QED
        BY <1>1, <2>1, <3>2, <3>3, Zenon
    <2>3. CASE Head(fire_q[w]).kind # k
      BY <1>1, <1>2, <1>4, <2>1, <2>3, Zenon
    <2> QED
      BY <2>2, <2>3, Zenon
  <1> QED
    BY <1>3, <1>4, Zenon

(* The coordinator passes the lists on in the order of the API.            *)
LEMMA CoordOrder ==
    ASSUME TypeOK, Coord, NEW k \in {"targets", "metadata"}, ChannelsAscend(k),
           NEW w \in Workers, NEW x, WorkerStaged(w, k, x)
    PROVE  ChannelsAscend(k)' /\ WorkerStaged(w, k, x)'
  <1> DEFINE F == ListsIn(fire_q[w], k)
             P == Awaits(w, k)
             C == ListsIn(cmd_q, k)
             M == ListsIn(commands, k)
             E == ListsIn(ext_q, k)
  <1>0. cmd_q \in Seq(TimerCommand) /\ commands \in Seq(WorkerCommand)
    BY Zenon DEF TypeOK, CoordTypeOK
  <1>1. /\ Staged({x}, F, P, C, M, E, ext_sent) /\ Ascends(fire_q[w], k)
        /\ Ascends(cmd_q, k) /\ Ascends(commands, k) /\ Ascends(ext_q, k)
    BY Zenon DEF WorkerStaged, ChannelsAscend
  <1>2. UNCHANGED <<fire_q, timer_pc, forward, ext_sent>>
    BY DEF Coord, CoordStep, CoordWake, CoordCommand, CoordTick, CoordStop, CoordDrain, CoordJoin, CoordCollect,
           CoordFinalDrain, timerOnly, channelVars
  <1>3. Awaits(w, k)' = P /\ ListsIn(fire_q[w], k)' = F
    BY <1>2, Zenon DEF Awaits
  <1>4. ASSUME NEW h \in TimerCommand, Ascends(cmd_q, k), h.kind = k => NotAfter(C, {h.v})
        PROVE  /\ ListsIn(Append(cmd_q, h), k) = C \cup (IF h.kind = k THEN {h.v} ELSE {})
               /\ Ascends(Append(cmd_q, h), k)
    <2>1. /\ ListsIn(Append(cmd_q, h), k) = C \cup (IF h.kind = k THEN {h.v} ELSE {})
          /\ Ascends(cmd_q, k) /\ (h.kind = k => NotAfter(C, {h.v})) => Ascends(Append(cmd_q, h), k)
      BY <1>0, ListsAppend, Zenon
    <2> QED
      BY <1>4, <2>1, Zenon
  <1>5. CASE CoordWake
    <2>1. commands' = ext_q /\ ext_q' = <<>> /\ cmd_q' = cmd_q
      BY <1>5 DEF CoordWake, CollectCommands, channelVars
    <2>2. Staged({x}, F, P, C, E, {}, ext_sent)
      BY <1>1, StagedCollect, Zenon
    <2> QED
      BY <1>1, <1>2, <1>3, <2>1, <2>2, ListsEmpty, Zenon DEF ChannelsAscend, WorkerStaged
  <1>6. CASE CoordCommand
    <2> DEFINE c == Head(commands)
    <2>1. /\ commands # <<>> /\ commands' = Tail(commands) /\ ext_q' = ext_q /\ c \in WorkerCommand
          /\ cmd_q' = IF c.kind \in {"rate", "targets", "metadata", "stop"} THEN SendTimer(c) ELSE cmd_q
      BY <1>0, <1>6 DEF CoordCommand
    <2>2. /\ M = ListsIn(commands', k) \cup (IF c.kind = k THEN {c.v} ELSE {})
          /\ Ascends(commands', k)
          /\ c.kind = k => NotAfter({c.v}, ListsIn(commands', k))
      BY <1>0, <1>1, <2>1, ListsTail, Zenon
    <2>3. ASSUME ListsIn(cmd_q', k) = C, Ascends(cmd_q', k)
          PROVE  ChannelsAscend(k)' /\ WorkerStaged(w, k, x)'
      <3>1. ListsIn(commands', k) \subseteq M
        BY <2>2
      <3>2. Staged({x}, F, P, C, ListsIn(commands', k), E, ext_sent)
        BY <1>1, <3>1, StagedLess, Zenon
      <3> QED
        BY <1>1, <1>2, <1>3, <2>1, <2>2, <2>3, <3>2, Zenon DEF ChannelsAscend, WorkerStaged
    <2>4. CASE cmd_q' = cmd_q
      BY <1>1, <2>3, <2>4
    <2>5. CASE cmd_q' = Append(cmd_q, c) /\ c.kind # k /\ c \in TimerCommand
      <3>1. ListsIn(Append(cmd_q, c), k) = C /\ Ascends(Append(cmd_q, c), k)
        BY <1>1, <1>4, <2>5, Zenon
      <3> QED
        BY <2>3, <2>5, <3>1
    <2>6. CASE cmd_q' = Append(cmd_q, c) /\ c.kind = k /\ c \in TimerCommand
      <3>1. M = ListsIn(commands', k) \cup {c.v} /\ NotAfter({c.v}, ListsIn(commands', k))
        BY <2>2, <2>6, Zenon
      <3>2. Staged({x}, F, P, C \cup {c.v}, ListsIn(commands', k), E, ext_sent)
        BY <1>1, <3>1, StagedCommand, Zenon
      <3>3. NotAfter(C, {c.v})
        BY <1>1, <3>1, Zenon DEF Staged, NotAfter
      <3>4. ListsIn(Append(cmd_q, c), k) = C \cup {c.v} /\ Ascends(Append(cmd_q, c), k)
        BY <1>1, <1>4, <2>6, <3>3, Zenon
      <3> QED
        BY <1>1, <1>2, <1>3, <2>1, <2>2, <2>6, <3>2, <3>4, Zenon DEF ChannelsAscend, WorkerStaged
    <2> QED
      BY <2>1, <2>4, <2>5, <2>6 DEF SendTimer, WorkerCommand, TimerCommand
  <1>7. CASE UNCHANGED <<commands, ext_q>> /\ (cmd_q' = cmd_q \/ \E h \in TimerCommand : h.kind # k /\ cmd_q' = Append(cmd_q, h))
    <2>1. ListsIn(cmd_q', k) = C /\ Ascends(cmd_q', k)
      BY <1>1, <1>4, <1>7, Zenon
    <2> QED
      BY <1>1, <1>2, <1>3, <1>7, <2>1, Zenon DEF ChannelsAscend, WorkerStaged
  <1>8. CASE CoordTick(failed)
    <2>1. target_rps' \in Nat
      BY <1>8, EngineAssumption, Zenon DEF CoordTick, TypeOK, CoordTypeOK, EngineAssumption
    <2>2. Msg("rate", target_rps') \in TimerCommand /\ Msg("rate", target_rps').kind # k
      BY <2>1 DEF Msg, TimerCommand
    <2> QED
      BY <1>7, <1>8, <2>2, Zenon DEF CoordTick, DistributeRate, SendTimer
  <1>9. CASE CoordStop
    <2>1. StopMsg \in TimerCommand /\ StopMsg.kind # k
      BY DEF Msg, StopMsg, TimerCommand
    <2> QED
      BY <1>7, <1>9, <2>1, Zenon DEF CoordStop, SendTimer
  <1>10. CASE CoordDrain \/ CoordJoin \/ CoordCollect
    BY <1>7, <1>10, Zenon DEF CoordDrain, CoordJoin, CoordCollect, CoordFinalDrain, channelVars
  <1> QED
    BY <1>5, <1>6, <1>8, <1>9, <1>10 DEF Coord, CoordStep

(* The API numbers the lists in the order in which they are sent.          *)
LEMMA ApiOrder ==
    ASSUME TypeOK, Api, NEW k \in {"targets", "metadata"}, ChannelsAscend(k),
           NEW w \in Workers, NEW x \in Nat, WorkerStaged(w, k, x)
    PROVE  ChannelsAscend(k)' /\ WorkerStaged(w, k, x)'
  <1> DEFINE F == ListsIn(fire_q[w], k)
             P == Awaits(w, k)
             C == ListsIn(cmd_q, k)
             M == ListsIn(commands, k)
             E == ListsIn(ext_q, k)
             n == ext_sent + 1
  <1>1. /\ Staged({x}, F, P, C, M, E, ext_sent) /\ Ascends(fire_q[w], k)
        /\ Ascends(cmd_q, k) /\ Ascends(commands, k) /\ Ascends(ext_q, k)
    BY Zenon DEF WorkerStaged, ChannelsAscend
  <1>2. UNCHANGED <<fire_q, cmd_q, commands, timer_pc, forward>> /\ ext_sent' = n
    BY DEF Api, SendCommand, timerOnly, channelVars
  <1>3. Awaits(w, k)' = P /\ ListsIn(fire_q[w], k)' = F
    BY <1>2, Zenon DEF Awaits
  <1>4. ext_q \in Seq(WorkerCommand) /\ ext_sent \in Nat
    BY DEF TypeOK, CoordTypeOK
  <1>5. PICK h \in WorkerCommand : ext_q' = Append(ext_q, h) /\ (h.kind = k => h.v = n)
    <2>1. PICK kk \in Commands :
             \E v \in CASE kk \in {"rate", "hold"} -> Rates
                        [] kk \in {"targets", "metadata"} -> {ext_sent + 1}
                        [] OTHER -> {0} : ext_q' = Append(ext_q, Msg(kk, v))
      BY DEF Api, SendCommand
    <2>2. PICK v \in Nat : ext_q' = Append(ext_q, Msg(kk, v)) /\ (kk = k => v = n)
      BY <1>4, <2>1, EngineAssumption DEF EngineAssumption
    <2>3. Msg(kk, v) \in WorkerCommand /\ Msg(kk, v).kind = kk /\ Msg(kk, v).v = v
      BY <2>1, <2>2, CoordinatorAssumption DEF Msg, WorkerCommand, CoordinatorAssumption
    <2> QED
      BY <2>2, <2>3
  <1>6. Staged({x}, F, P, C, M, E, n) /\ Staged({x}, F, P, C, M, E \cup {n}, n)
    <2>1. F \subseteq Nat /\ P \subseteq Nat /\ C \subseteq Nat /\ M \subseteq Nat /\ E \subseteq Nat /\ {x} \subseteq Nat
      BY ListTypes
    <2> QED
      BY <1>1, <1>4, <2>1, StagedSend, Zenon
  <1>7. /\ ListsIn(Append(ext_q, h), k) = E \cup (IF h.kind = k THEN {h.v} ELSE {})
        /\ Ascends(ext_q, k) /\ (h.kind = k => NotAfter(E, {h.v})) => Ascends(Append(ext_q, h), k)
    BY <1>4, ListsAppend, Zenon
  <1>8. NotAfter(E, {n})
    BY <1>6, Zenon DEF Staged, NotAfter
  <1>9. Staged({x}, F, P, C, M, ListsIn(ext_q', k), n) /\ Ascends(ext_q', k)
    BY <1>1, <1>5, <1>6, <1>7, <1>8, Zenon
  <1> QED
    BY <1>1, <1>2, <1>3, <1>9, Zenon DEF ChannelsAscend, WorkerStaged

(* A step of any thread keeps the order of the lists, and no worker goes   *)
(* back to an older one.                                                   *)
LEMMA OrderStep ==
    ASSUME OrderInv, TypeOK', [Next]_vars
    PROVE  OrderInv' /\ \A w \in Workers : targets'[w] >= targets[w] /\ metadata'[w] >= metadata[w]
  <1> DEFINE U(k) == IF k = "targets" THEN targets ELSE metadata
  <1>0. /\ TypeOK /\ \A w \in Workers : targets[w] \in Nat /\ metadata[w] \in Nat
        /\ \A w \in Workers : targets'[w] \in Nat /\ metadata'[w] \in Nat
        /\ \A w \in Workers : fire_q[w] \in Seq(FireMsg)
    BY Zenon DEF OrderInv, TypeOK, WorkerTypeOK
  <1>1. ASSUME UNCHANGED <<targets, metadata>>,
               \A k \in {"targets", "metadata"} : \A w \in Workers, x \in Nat :
                   ChannelsAscend(k) /\ WorkerStaged(w, k, x) => ChannelsAscend(k)' /\ WorkerStaged(w, k, x)'
        PROVE  OrderInv' /\ \A w \in Workers : targets'[w] >= targets[w] /\ metadata'[w] >= metadata[w]
    <2>1. ASSUME NEW w \in Workers
          PROVE  /\ ChannelsAscend("targets")' /\ ChannelsAscend("metadata")'
                 /\ WorkerStaged(w, "targets", targets[w])' /\ WorkerStaged(w, "metadata", metadata[w])'
                 /\ targets'[w] >= targets[w] /\ metadata'[w] >= metadata[w]
      <3> PICK x \in Nat, y \in Nat : x = targets[w] /\ y = metadata[w]
        BY <1>0, Zenon
      <3>1. ChannelsAscend("targets") /\ WorkerStaged(w, "targets", x) /\ ChannelsAscend("metadata") /\ WorkerStaged(w, "metadata", y)
        BY Zenon DEF OrderInv
      <3>2. /\ WorkerStaged(w, "targets", x)' /\ WorkerStaged(w, "metadata", y)'
            /\ ChannelsAscend("targets")' /\ ChannelsAscend("metadata")'
        BY <1>1, <3>1, Zenon
      <3>3. targets'[w] = x /\ metadata'[w] = y
        BY <1>1, Zenon
      <3>4. targets'[w] >= targets[w] /\ metadata'[w] >= metadata[w]
        BY <3>3, AtLeastItself, Zenon
      <3> QED
        BY <3>2, <3>3, <3>4, Zenon DEF WorkerStaged
    <2>2. 1 \in Workers
      BY EngineAssumption DEF EngineAssumption, Workers
    <2> QED
      BY <2>1, <2>2 DEF OrderInv
  <1>2. ASSUME NEW w \in Workers, WorkerThread(w) \/ Task(w) \/ Panic(w)
        PROVE  OrderInv' /\ \A z \in Workers : targets'[z] >= targets[z] /\ metadata'[z] >= metadata[z]
    <2>1. UNCHANGED <<cmd_q, commands, ext_q, ext_sent, forward, timer_pc>> /\ WorkerNext(w)
      BY <1>2, Zenon DEF WorkerNext, WorkerThread, Task, Panic, WorkerLoopStep, WorkerRecv, WorkerSuspend,
             WorkerDisconnected, WorkerDrain, WorkerDrainStop, WorkerResume, WorkerLoop, WorkerExit,
             TaskComplete, WorkerPanic, channelVars, timerOnly, coordVars
    <2>2. ASSUME NEW z \in Workers, NEW k \in {"targets", "metadata"}
          PROVE  WorkerStaged(z, k, U(k)[z])' /\ U(k)'[z] >= U(k)[z]
      <3>1. \/ /\ fire_q[z] # <<>> /\ fire_q'[z] = Tail(fire_q[z])
               /\ U(k)'[z] = IF Head(fire_q[z]).kind = k THEN Head(fire_q[z]).v ELSE U(k)[z]
            \/ U(k)'[z] = U(k)[z] /\ (fire_q'[z] = fire_q[z] \/ fire_q'[z] = <<>>)
        <4>1. CASE z = w
          BY <1>0, <2>1, <4>1, WorkerLists, Zenon DEF TakesHead, KeepsLists
        <4>2. CASE z # w
          <5>1. WorkerSame(z)
            <6>1. UNCHANGED coordVars
              BY <1>2, Zenon DEF WorkerThread, Task, Panic
            <6> QED
              BY <1>0, <2>1, <4>2, <6>1, OthersSame, Zenon
          <5> QED
            BY <5>1, Zenon DEF WorkerSame
        <4> QED
          BY <4>1, <4>2, Zenon
      <3>2. PICK x \in Nat, y \in Nat : x = U(k)[z] /\ y = U(k)'[z]
        BY <1>0, Zenon
      <3>3. WorkerStaged(z, k, x) /\ fire_q[z] \in Seq(FireMsg)
        BY <1>0, <3>2, Zenon DEF OrderInv
      <3>4. /\ Staged({y}, ListsIn(fire_q'[z], k), Awaits(z, k), ListsIn(cmd_q, k), ListsIn(commands, k),
                      ListsIn(ext_q, k), ext_sent)
            /\ Ascends(fire_q'[z], k)
            /\ y >= x
        <4>1. \/ /\ fire_q[z] # <<>> /\ fire_q'[z] = Tail(fire_q[z])
                 /\ y = IF Head(fire_q[z]).kind = k THEN Head(fire_q[z]).v ELSE x
              \/ y = x /\ (fire_q'[z] = fire_q[z] \/ fire_q'[z] = <<>>)
          BY <3>1, <3>2, Zenon
        <4> QED
          BY <3>3, <4>1, WorkerOrder, Zenon
      <3>5. Awaits(z, k)' = Awaits(z, k)
        BY <2>1, Zenon DEF Awaits
      <3> QED
        BY <2>1, <3>2, <3>4, <3>5, Zenon DEF WorkerStaged
    <2>3. ChannelsAscend("targets")' /\ ChannelsAscend("metadata")'
      BY <2>1, Zenon DEF OrderInv, ChannelsAscend
    <2>4. ASSUME NEW z \in Workers
          PROVE  /\ WorkerStaged(z, "targets", targets[z])' /\ WorkerStaged(z, "metadata", metadata[z])'
                 /\ targets'[z] >= targets[z] /\ metadata'[z] >= metadata[z]
      BY <2>2, Zenon DEF WorkerStaged
    <2> QED
      BY <2>3, <2>4, Zenon DEF OrderInv
  <1>3. CASE Timer
    <2>1. UNCHANGED <<targets, metadata>>
      BY <1>3 DEF Timer, workerOnly
    <2>2. ASSUME NEW k \in {"targets", "metadata"}, NEW w \in Workers, NEW x \in Nat, ChannelsAscend(k), WorkerStaged(w, k, x)
          PROVE  ChannelsAscend(k)' /\ WorkerStaged(w, k, x)'
      BY <1>0, <1>3, <2>2, TimerOrder, Zenon
    <2> QED
      BY <1>1, <2>1, <2>2, Zenon
  <1>4. CASE Coord
    <2>1. UNCHANGED <<targets, metadata>>
      BY <1>4 DEF Coord, workerOnly
    <2>2. ASSUME NEW k \in {"targets", "metadata"}, NEW w \in Workers, NEW x \in Nat, ChannelsAscend(k), WorkerStaged(w, k, x)
          PROVE  ChannelsAscend(k)' /\ WorkerStaged(w, k, x)'
      BY <1>0, <1>4, <2>2, CoordOrder, Zenon
    <2> QED
      BY <1>1, <2>1, <2>2, Zenon
  <1>5. CASE Api
    <2>1. UNCHANGED <<targets, metadata>>
      BY <1>5 DEF Api, workerOnly
    <2>2. ASSUME NEW k \in {"targets", "metadata"}, NEW w \in Workers, NEW x \in Nat, ChannelsAscend(k), WorkerStaged(w, k, x)
          PROVE  ChannelsAscend(k)' /\ WorkerStaged(w, k, x)'
      BY <1>0, <1>5, <2>2, ApiOrder, Zenon
    <2> QED
      BY <1>1, <2>1, <2>2, Zenon
  <1>6. CASE UNCHANGED vars
    <2>1. UNCHANGED <<targets, metadata, fire_q, cmd_q, commands, ext_q, ext_sent, timer_pc, forward>>
      BY <1>6, Zenon DEF vars, channelVars, timerVars, workerVars, coordVars
    <2>2. ASSUME NEW k \in {"targets", "metadata"}, NEW w \in Workers, NEW x \in Nat, ChannelsAscend(k), WorkerStaged(w, k, x)
          PROVE  ChannelsAscend(k)' /\ WorkerStaged(w, k, x)'
      BY <2>1, <2>2, Zenon DEF ChannelsAscend, WorkerStaged, Awaits
    <2> QED
      BY <1>1, <2>1, <2>2, Zenon
  <1> QED
    BY <1>2, <1>3, <1>4, <1>5, <1>6, Zenon DEF Next, Finished

(* Lists are applied in the order in which they were sent to the API, on   *)
(* every path through external channel, command channel, timer thread and  *)
(* fire channel: no worker ever goes back to an older list.                *)
THEOREM ListsInOrder == Spec => ControlInOrder
  <1> DEFINE Forth == \A w \in Workers : targets'[w] >= targets[w] /\ metadata'[w] >= metadata[w]
  <1>1. Init => OrderInv
    <2> SUFFICES ASSUME Init PROVE OrderInv
      OBVIOUS
    <2>1. TypeOK
      BY InitTypeOK
    <2>2. ASSUME NEW k \in {"targets", "metadata"}
          PROVE  /\ ListsIn(cmd_q, k) = {} /\ ListsIn(commands, k) = {} /\ ListsIn(ext_q, k) = {}
                 /\ ChannelsAscend(k)
      <3>1. commands = <<>> /\ ext_q = <<>> /\ cmd_q = <<Msg("rate", InitialRate)>>
        BY DEF Init, CoordInit
      <3>2. \A i \in DOMAIN cmd_q : cmd_q[i].kind # k
        BY <3>1 DEF Msg
      <3>3. ListsIn(cmd_q, k) = {} /\ Ascends(cmd_q, k)
        BY <3>2, Zenon DEF ListsIn, Ascends
      <3> QED
        BY <3>1, <3>3, ListsEmpty, Zenon DEF ChannelsAscend
    <2>3. ASSUME NEW w \in Workers, NEW k \in {"targets", "metadata"}
          PROVE  /\ ListsIn(fire_q[w], k) = {} /\ Ascends(fire_q[w], k) /\ Awaits(w, k) = {}
                 /\ ext_sent = 0 /\ targets[w] = 0 /\ metadata[w] = 0
      <3>1. fire_q[w] = <<>> /\ timer_pc # "forward" /\ ext_sent = 0 /\ targets[w] = 0 /\ metadata[w] = 0
        BY Zenon DEF Init, TimerInit, WorkerInit, CoordInit
      <3> QED
        BY <3>1, ListsEmpty, Zenon DEF Awaits
    <2>4. Staged({0}, {}, {}, {}, {}, {}, 0)
      BY DEF Staged, NotAfter
    <2> QED
      BY <2>1, <2>2, <2>3, <2>4, Zenon DEF OrderInv, WorkerStaged
  <1>2. OrderInv /\ TypeOK' /\ [Next]_vars => OrderInv' /\ Forth
    BY OrderStep, Zenon
  <1>3. Spec => []TypeOK
    BY TypeCorrect
  <1> QED
    BY <1>1, <1>2, <1>3, PTL DEF Spec, ControlInOrder
=============================================================================
