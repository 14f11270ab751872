--------------------------- MODULE EngineCounting ---------------------------
(***************************************************************************)
(* Proof that a load test counts every request once and in schedule order, *)
(* for every number of workers and every capacity.  The inductive          *)
(* invariant adds to the two properties that refused requests are in no    *)
(* other counter, and that the next event of a scheduler is later than all *)
(* that was dispatched: that is why a request taken from the channel is    *)
(* new to every counter.  On top of it, that every request sent and every  *)
(* request refused is accounted for, that the test ends with a complete    *)
(* result, and that commands and rates reach the workers.                  *)
(***************************************************************************)
EXTENDS EngineProofs

(* Refused, in flight, recorded, reported, merged, excluded and lost       *)
(* requests are pairwise apart.                                            *)
Apart(L, F, C, P, T, X, Z) ==
    /\ Disjoint(L, F) /\ Disjoint(L, C) /\ Disjoint(L, P) /\ Disjoint(L, T) /\ Disjoint(L, X) /\ Disjoint(L, Z)
    /\ Disjoint(F, C) /\ Disjoint(F, P) /\ Disjoint(F, T) /\ Disjoint(F, X) /\ Disjoint(F, Z)
    /\ Disjoint(C, P) /\ Disjoint(C, T) /\ Disjoint(C, X) /\ Disjoint(C, Z)
    /\ Disjoint(P, T) /\ Disjoint(P, X) /\ Disjoint(P, Z)
    /\ Disjoint(T, X) /\ Disjoint(T, Z)
    /\ Disjoint(X, Z)

WorkerApart(w) ==
    Apart(limit_drops[w], in_flight[w], collector[w], PendingReqs(w), total[w], excluded[w], lost[w])

WorkerOrdered(w) ==
    /\ InOrder(fire_q[w])
    /\ \A n \in Queued(w) : n < next_ev[w]
    /\ \A m \in Handled(w) : m < next_ev[w] /\ \A n \in Queued(w) : m < n

WorkerInv(w) ==
    /\ WorkerApart(w)
    /\ SnapshotsApart(metrics_q[w])
    /\ WorkerOrdered(w)
    /\ last_drops[w] \subseteq limit_drops[w]

CountingInv == TypeOK /\ \A w \in Workers : WorkerInv(w)

-----------------------------------------------------------------------------
(* The moves of a request between the counters, on sets: a new request     *)
(* enters one of the first two.                                            *)
LEMMA ApartNew ==
    ASSUME NEW L, NEW F, NEW C, NEW P, NEW T, NEW X, NEW Z, NEW n, Apart(L, F, C, P, T, X, Z),
           n \notin L, n \notin F, n \notin C, n \notin P, n \notin T, n \notin X, n \notin Z
    PROVE  Apart(L, F \cup {n}, C, P, T, X, Z) /\ Apart(L \cup {n}, F, C, P, T, X, Z)
  BY DEF Apart, Disjoint

(* A request in flight is recorded.                                        *)
LEMMA ApartRecord ==
    ASSUME NEW L, NEW F, NEW C, NEW P, NEW T, NEW X, NEW Z, NEW n \in F, Apart(L, F, C, P, T, X, Z)
    PROVE  Apart(L, F \ {n}, C \cup {n}, P, T, X, Z)
  BY DEF Apart, Disjoint

(* The recorded requests are reported, and those in flight are lost.       *)
LEMMA ApartReport ==
    ASSUME NEW L, NEW F, NEW C, NEW P, NEW T, NEW X, NEW Z, Apart(L, F, C, P, T, X, Z)
    PROVE  Apart(L, F, {}, P \cup C, T, X, Z) /\ Apart(L, {}, {}, P \cup C, T, X, Z \cup F)
  BY DEF Apart, Disjoint

(* All that is not reported is lost, with what is queued.                  *)
LEMMA ApartPanic ==
    ASSUME NEW L, NEW F, NEW C, NEW P, NEW T, NEW X, NEW Z, NEW D, NEW Q,
           Apart(L, F, C, P, T, X, Z), D \subseteq L,
           Disjoint(Q, L), Disjoint(Q, P), Disjoint(Q, T), Disjoint(Q, X)
    PROVE  Apart(D, {}, {}, P, T, X, Z \cup F \cup C \cup Q \cup (L \ D))
  BY DEF Apart, Disjoint

(* The reported requests are merged, or excluded.                          *)
LEMMA ApartMerge ==
    ASSUME NEW L, NEW F, NEW C, NEW P, NEW T, NEW X, NEW Z, Apart(L, F, C, P, T, X, Z)
    PROVE  Apart(L, F, C, {}, T \cup P, X, Z) /\ Apart(L, F, C, {}, T, X \cup P, Z)
  BY DEF Apart, Disjoint

-----------------------------------------------------------------------------
(* A message appended to a fire channel, and one taken from it.            *)
LEMMA FiresAppend ==
    ASSUME NEW q \in Seq(FireMsg), NEW m \in FireMsg
    PROVE  FiresOf(Append(q, m)) = FiresOf(q) \cup (IF m.kind = "fire" THEN {m.v} ELSE {})
  <1>1. DOMAIN Append(q, m) = DOMAIN q \cup {Len(q) + 1} /\ Len(q) + 1 \notin DOMAIN q
    OBVIOUS
  <1>2. \A i \in DOMAIN q : Append(q, m)[i] = q[i]
    OBVIOUS
  <1>3. Append(q, m)[Len(q) + 1] = m
    OBVIOUS
  <1> QED
    BY <1>1, <1>2, <1>3 DEF FiresOf

(* The events that wait in a channel are its head and those of its tail.   *)
LEMMA FiresTail ==
    ASSUME NEW q \in Seq(FireMsg), q # <<>>
    PROVE  FiresOf(q) = FiresOf(Tail(q)) \cup (IF Head(q).kind = "fire" THEN {Head(q).v} ELSE {})
  <1>1. DOMAIN Tail(q) = 1 .. (Len(q) - 1) /\ DOMAIN q = 1 .. Len(q) /\ Len(q) \in Nat \ {0}
    OBVIOUS
  <1>2. \A i \in DOMAIN Tail(q) : Tail(q)[i] = q[i + 1] /\ i + 1 \in DOMAIN q
    OBVIOUS
  <1>3. \A i \in DOMAIN q : i = 1 \/ (i - 1 \in DOMAIN Tail(q) /\ Tail(q)[i - 1] = q[i])
    BY <1>1, <1>2
  <1>4. Head(q) = q[1] /\ 1 \in DOMAIN q
    BY <1>1
  <1>5. ASSUME NEW n \in FiresOf(q)
        PROVE  n \in FiresOf(Tail(q)) \/ (Head(q).kind = "fire" /\ n = Head(q).v)
    <2>1. PICK i \in DOMAIN q : q[i].kind = "fire" /\ n = q[i].v
      BY <1>5 DEF FiresOf
    <2> QED
      BY <1>3, <1>4, <2>1, Zenon DEF FiresOf
  <1>6. ASSUME NEW n \in FiresOf(Tail(q)) PROVE n \in FiresOf(q)
    BY <1>2, <1>6 DEF FiresOf
  <1>7. Head(q).kind = "fire" => Head(q).v \in FiresOf(q)
    BY <1>4 DEF FiresOf
  <1> QED
    BY <1>5, <1>6, <1>7

(* The order of a channel survives both; the head precedes the rest.       *)
LEMMA OrderAppend ==
    ASSUME NEW q \in Seq(FireMsg), NEW m \in FireMsg, InOrder(q),
           m.kind = "fire" => \A n \in FiresOf(q) : n < m.v
    PROVE  InOrder(Append(q, m))
  <1>1. DOMAIN Append(q, m) = 1 .. (Len(q) + 1) /\ DOMAIN q = 1 .. Len(q) /\ Len(q) \in Nat
    OBVIOUS
  <1>2. \A i \in DOMAIN q : Append(q, m)[i] = q[i]
    OBVIOUS
  <1>3. Append(q, m)[Len(q) + 1] = m
    OBVIOUS
  <1>4. SUFFICES ASSUME NEW i \in DOMAIN Append(q, m), NEW j \in DOMAIN Append(q, m), i < j,
                        Append(q, m)[i].kind = "fire", Append(q, m)[j].kind = "fire"
                 PROVE  Append(q, m)[i].v < Append(q, m)[j].v
    BY DEF InOrder
  <1>5. i \in DOMAIN q
    BY <1>1, <1>4
  <1>6. CASE j \in DOMAIN q
    BY <1>2, <1>4, <1>5, <1>6 DEF InOrder
  <1>7. CASE j = Len(q) + 1
    <2>1. q[i].v \in FiresOf(q)
      BY <1>2, <1>4, <1>5 DEF FiresOf
    <2> QED
      BY <1>2, <1>3, <1>4, <1>5, <1>7, <2>1
  <1> QED
    BY <1>1, <1>6, <1>7

(* Taking the head keeps the order of a channel.                           *)
LEMMA OrderTail ==
    ASSUME NEW q \in Seq(FireMsg), q # <<>>, InOrder(q)
    PROVE  /\ InOrder(Tail(q))
           /\ Head(q).kind = "fire" => \A n \in FiresOf(Tail(q)) : Head(q).v < n
  <1>1. DOMAIN Tail(q) = 1 .. (Len(q) - 1) /\ DOMAIN q = 1 .. Len(q) /\ Len(q) \in Nat \ {0}
    OBVIOUS
  <1>2. \A i \in DOMAIN Tail(q) : Tail(q)[i] = q[i + 1] /\ i + 1 \in DOMAIN q
    OBVIOUS
  <1>3. Head(q) = q[1] /\ 1 \in DOMAIN q
    BY <1>1
  <1>4. InOrder(Tail(q))
    BY <1>1, <1>2 DEF InOrder
  <1>5. ASSUME Head(q).kind = "fire", NEW n \in FiresOf(Tail(q)) PROVE Head(q).v < n
    <2>1. PICK i \in DOMAIN Tail(q) : Tail(q)[i].kind = "fire" /\ n = Tail(q)[i].v
      BY <1>5 DEF FiresOf
    <2>2. 1 < i + 1 /\ i + 1 \in DOMAIN q /\ q[i + 1].kind = "fire" /\ n = q[i + 1].v
      BY <1>1, <1>2, <2>1
    <2> QED
      BY <1>3, <1>5, <2>2 DEF InOrder
  <1> QED
    BY <1>4, <1>5

(* A snapshot appended to a metrics channel.                               *)
LEMMA ReqsAppend ==
    ASSUME NEW q \in Seq(Snapshot), NEW t \in Snapshot
    PROVE  /\ ReqsOf(Append(q, t)) = ReqsOf(q) \cup t.reqs
           /\ SnapshotsApart(q) /\ Disjoint(t.reqs, ReqsOf(q)) => SnapshotsApart(Append(q, t))
  <1>1. DOMAIN Append(q, t) = DOMAIN q \cup {Len(q) + 1} /\ Len(q) + 1 \notin DOMAIN q
    OBVIOUS
  <1>2. \A i \in DOMAIN q : Append(q, t)[i] = q[i]
    OBVIOUS
  <1>3. Append(q, t)[Len(q) + 1] = t
    OBVIOUS
  <1>4. \A i \in DOMAIN q : q[i].reqs \subseteq ReqsOf(q)
    BY DEF ReqsOf
  <1>5. ReqsOf(Append(q, t)) = ReqsOf(q) \cup t.reqs
    BY <1>1, <1>2, <1>3 DEF ReqsOf
  <1>6. ASSUME SnapshotsApart(q), Disjoint(t.reqs, ReqsOf(q)) PROVE SnapshotsApart(Append(q, t))
    <2> SUFFICES ASSUME NEW i \in DOMAIN Append(q, t), NEW j \in DOMAIN Append(q, t), i # j
                 PROVE  Disjoint(Append(q, t)[i].reqs, Append(q, t)[j].reqs)
      BY DEF SnapshotsApart
    <2>1. CASE i \in DOMAIN q /\ j \in DOMAIN q
      BY <1>2, <1>6, <2>1 DEF SnapshotsApart
    <2>2. CASE i = Len(q) + 1 /\ j \in DOMAIN q
      BY <1>2, <1>3, <1>4, <1>6, <2>2 DEF Disjoint
    <2>3. CASE j = Len(q) + 1 /\ i \in DOMAIN q
      BY <1>2, <1>3, <1>4, <1>6, <2>3 DEF Disjoint
    <2> QED
      BY <1>1, <2>1, <2>2, <2>3
  <1> QED
    BY <1>5, <1>6

(* An empty channel reports nothing and holds no event.                    *)
LEMMA ReqsEmpty == ReqsOf(<<>>) = {} /\ SnapshotsApart(<<>>) /\ FiresOf(<<>>) = {} /\ InOrder(<<>>)
  BY DEF ReqsOf, SnapshotsApart, FiresOf, InOrder

-----------------------------------------------------------------------------
(* A worker whose counters are left alone keeps their separation.          *)
LEMMA CountersFrame ==
    ASSUME NEW w, CountersSame(w), WorkerInv(w)
    PROVE  /\ WorkerApart(w)' /\ SnapshotsApart(metrics_q[w])' /\ Handled(w)' = Handled(w)
           /\ last_drops'[w] \subseteq limit_drops'[w]
  BY DEF CountersSame, WorkerInv, WorkerApart, PendingReqs, Handled, Reported

(* The order is kept when nothing new is handled, and when the head of the *)
(* channel is.                                                             *)
LEMMA OrderSame ==
    ASSUME NEW w, WorkerInv(w), fire_q'[w] = fire_q[w], next_ev'[w] = next_ev[w],
           Handled(w)' \subseteq Handled(w)
    PROVE  WorkerOrdered(w)'
  BY DEF WorkerInv, WorkerOrdered, Queued

(* The head of an ordered channel precedes what remains.                   *)
LEMMA OrderTake ==
    ASSUME TypeOK, NEW w \in Workers, WorkerInv(w), fire_q[w] # <<>>,
           fire_q'[w] = Tail(fire_q[w]), next_ev'[w] = next_ev[w],
           Handled(w)' \subseteq Handled(w)
               \cup (IF Head(fire_q[w]).kind = "fire" THEN {Head(fire_q[w]).v} ELSE {})
    PROVE  WorkerOrdered(w)'
  <1>1. fire_q[w] \in Seq(FireMsg)
    BY DEF TypeOK
  <1>2. Queued(w) = FiresOf(Tail(fire_q[w]))
                    \cup (IF Head(fire_q[w]).kind = "fire" THEN {Head(fire_q[w]).v} ELSE {})
    BY <1>1, FiresTail DEF Queued
  <1>3. /\ InOrder(Tail(fire_q[w]))
        /\ Head(fire_q[w]).kind = "fire" => \A n \in FiresOf(Tail(fire_q[w])) : Head(fire_q[w]).v < n
    BY <1>1, OrderTail DEF WorkerInv, WorkerOrdered
  <1>4. Queued(w)' = FiresOf(Tail(fire_q[w]))
    BY DEF Queued
  <1>5. ASSUME NEW m \in Handled(w)'
        PROVE  m < next_ev[w] /\ \A n \in FiresOf(Tail(fire_q[w])) : m < n
    BY <1>2, <1>3, <1>5 DEF WorkerInv, WorkerOrdered
  <1> QED
    BY <1>2, <1>3, <1>4, <1>5 DEF WorkerInv, WorkerOrdered

(* A control message appended to the channel, or a fire of the next event. *)
LEMMA OrderControl ==
    ASSUME TypeOK, NEW w \in Workers, WorkerInv(w), NEW m \in ControlMsg,
           fire_q'[w] = Append(fire_q[w], m), next_ev'[w] = next_ev[w],
           Handled(w)' = Handled(w)
    PROVE  WorkerOrdered(w)'
  <1>1. fire_q[w] \in Seq(FireMsg) /\ m \in FireMsg /\ m.kind # "fire"
    BY MsgType DEF TypeOK, ControlMsg
  <1>2. FiresOf(Append(fire_q[w], m)) = FiresOf(fire_q[w])
    BY <1>1, FiresAppend, Zenon
  <1>3. InOrder(Append(fire_q[w], m))
    BY <1>1, OrderAppend DEF WorkerInv, WorkerOrdered
  <1> QED
    BY <1>2, <1>3 DEF WorkerInv, WorkerOrdered, Queued

(* A later event appended to an ordered channel keeps the order.           *)
LEMMA OrderFire ==
    ASSUME TypeOK, NEW w \in Workers, WorkerInv(w),
           fire_q'[w] = Append(fire_q[w], Msg("fire", next_ev[w])),
           next_ev'[w] = next_ev[w] + 1, Handled(w)' = Handled(w)
    PROVE  WorkerOrdered(w)'
  <1> DEFINE m == Msg("fire", next_ev[w])
  <1>0. next_ev[w] \in Nat
    BY DEF TypeOK, TimerTypeOK, Event
  <1>1. fire_q[w] \in Seq(FireMsg) /\ m \in FireMsg /\ m.kind = "fire" /\ m.v = next_ev[w]
    BY <1>0, MsgType, Zenon DEF TypeOK, Msg
  <1> HIDE DEF m
  <1>2. FiresOf(Append(fire_q[w], m)) = FiresOf(fire_q[w]) \cup {next_ev[w]}
    BY <1>1, FiresAppend
  <1>3. InOrder(Append(fire_q[w], m))
    BY <1>1, OrderAppend DEF WorkerInv, WorkerOrdered, Queued
  <1>4. fire_q'[w] = Append(fire_q[w], m)
    BY DEF m
  <1>5. \A n \in FiresOf(fire_q[w]) : n < next_ev[w]
    BY DEF WorkerInv, WorkerOrdered, Queued
  <1>6. FiresOf(fire_q[w]) \subseteq Nat /\ Handled(w) \subseteq Nat
    <2>1. \A i \in DOMAIN fire_q[w] : fire_q[w][i] \in FireMsg
      BY <1>1
    <2>2. FiresOf(fire_q[w]) \subseteq Nat
      BY <2>1 DEF FiresOf, FireMsg
    <2>3. PendingReqs(w) \subseteq Event
      BY PendingType, Zenon
    <2> QED
      BY <2>2, <2>3 DEF Handled, Reported, TypeOK, WorkerTypeOK, CoordTypeOK, Event
  <1>7. \A h \in Handled(w) : h < next_ev[w] /\ \A n \in FiresOf(fire_q[w]) : h < n
    BY DEF WorkerInv, WorkerOrdered, Queued
  <1> QED
    BY <1>0, <1>2, <1>3, <1>4, <1>5, <1>6, <1>7 DEF WorkerOrdered, Queued

(* What is handled and what is queued are event numbers.                   *)
LEMMA HandledNat == ASSUME TypeOK, NEW w \in Workers PROVE Handled(w) \subseteq Nat /\ Queued(w) \subseteq Nat
  <1>1. fire_q[w] \in Seq(FireMsg)
    BY DEF TypeOK
  <1>2. \A i \in DOMAIN fire_q[w] : fire_q[w][i] \in FireMsg
    BY <1>1
  <1>3. FiresOf(fire_q[w]) \subseteq Nat
    BY <1>2 DEF FiresOf, FireMsg
  <1>4. PendingReqs(w) \subseteq Event
    BY PendingType, Zenon
  <1> QED
    BY <1>3, <1>4 DEF Handled, Reported, Queued, TypeOK, WorkerTypeOK, CoordTypeOK, Event

(* The event at the head of a channel has not been handled before.         *)
LEMMA HeadIsNew ==
    ASSUME TypeOK, NEW w \in Workers, WorkerInv(w), fire_q[w] # <<>>, Head(fire_q[w]).kind = "fire"
    PROVE  Head(fire_q[w]).v \notin Handled(w)
  <1>1. fire_q[w] \in Seq(FireMsg)
    BY DEF TypeOK
  <1>2. Head(fire_q[w]).v \in Queued(w)
    BY <1>1, FiresTail DEF Queued
  <1> QED
    BY <1>2, HandledNat DEF WorkerInv, WorkerOrdered

(* The timer thread changes no counter and only appends to the channels.   *)
LEMMA TimerCounting ==
    ASSUME CountingInv, TimerNext, UNCHANGED <<workerOnly, coordVars>>, NEW x \in Workers
    PROVE  WorkerInv(x)'
  <1>1. CountersSame(x)
    BY DEF TimerNext, TimerUpdateRate, TimerTakeControl, TimerForward, TimerStop, TimerPop,
           TimerExhausted, TimerDispatch, TimerDrop, TimerSkip, workerOnly, coordVars, CountersSame
  <1>2. WorkerInv(x) /\ TypeOK
    BY DEF CountingInv
  <1>3. /\ WorkerApart(x)' /\ SnapshotsApart(metrics_q[x])' /\ Handled(x)' = Handled(x)
        /\ last_drops'[x] \subseteq limit_drops'[x]
    BY <1>1, <1>2, CountersFrame
  <1>4. fire_q \in [Workers -> Seq(FireMsg)] /\ next_ev \in [Workers -> Nat] /\ due \in Workers
        /\ forward.msg \in ControlMsg
    BY <1>2 DEF TypeOK, TimerTypeOK, Event
  <1>5. CASE fire_q'[x] = fire_q[x] /\ next_ev'[x] = next_ev[x]
    BY <1>2, <1>3, <1>5, OrderSame DEF WorkerInv
  <1>6. ASSUME NEW m \in ControlMsg, fire_q'[x] = Append(fire_q[x], m), next_ev'[x] = next_ev[x]
        PROVE  WorkerInv(x)'
    BY <1>2, <1>3, <1>6, OrderControl DEF WorkerInv
  <1>7. CASE TimerUpdateRate \/ TimerTakeControl \/ TimerPop \/ TimerSkip
    BY <1>5, <1>7 DEF TimerUpdateRate, TimerTakeControl, TimerPop, TimerSkip
  <1>8. CASE TimerForward
    <2>1. next_ev'[x] = next_ev[x]
      BY <1>8 DEF TimerForward
    <2>2. fire_q'[x] = fire_q[x] \/ fire_q'[x] = Append(fire_q[x], forward.msg)
      BY <1>4, <1>8 DEF TimerForward, SendBlocking
    <2> QED
      BY <1>4, <1>5, <1>6, <2>1, <2>2
  <1>9. CASE TimerStop \/ TimerExhausted
    <2>1. next_ev'[x] = next_ev[x]
      BY <1>9 DEF TimerStop, TimerExhausted, TimerReturn
    <2>2. fire_q'[x] = fire_q[x] \/ fire_q'[x] = Append(fire_q[x], StopMsg)
      BY <1>4, <1>9 DEF TimerStop, TimerExhausted, TimerReturn, OfferStop
    <2> QED
      BY <1>5, <1>6, <2>1, <2>2, MsgType
  <1>10. CASE TimerDispatch
    <2>1. CASE x = due
      <3>1. fire_q'[x] = Append(fire_q[x], Msg("fire", next_ev[x])) /\ next_ev'[x] = next_ev[x] + 1
        BY <1>4, <1>10, <2>1 DEF TimerDispatch, AdvanceScheduler
      <3> QED
        BY <1>2, <1>3, <3>1, OrderFire DEF WorkerInv
    <2>2. CASE x # due
      BY <1>4, <1>5, <1>10, <2>2 DEF TimerDispatch, AdvanceScheduler
    <2> QED
      BY <2>1, <2>2
  <1>11. CASE TimerDrop
    <2>1. fire_q'[x] = fire_q[x] /\ (next_ev'[x] = next_ev[x] \/ next_ev'[x] = next_ev[x] + 1)
      BY <1>4, <1>11 DEF TimerDrop, AdvanceScheduler
    <2>2. WorkerOrdered(x)'
      <3>1. Queued(x)' = Queued(x) /\ InOrder(fire_q[x])' /\ next_ev[x] \in Nat
        BY <1>2, <1>4, <2>1, Zenon DEF WorkerInv, WorkerOrdered, Queued
      <3>2. \A n \in Nat : n < next_ev[x] => n < next_ev'[x]
        BY <2>1, <3>1
      <3>3. Handled(x) \subseteq Nat /\ Queued(x) \subseteq Nat
        BY <1>2, HandledNat
      <3> QED
        BY <1>2, <1>3, <3>1, <3>2, <3>3, Zenon DEF WorkerInv, WorkerOrdered
    <2> QED
      BY <1>3, <2>2 DEF WorkerInv
  <1> QED
    BY <1>7, <1>8, <1>9, <1>10, <1>11 DEF TimerNext

(* A snapshot moves the collector's requests into the metrics channel.     *)
LEMMA SnapshotCounting ==
    ASSUME TypeOK, NEW w \in Workers, WorkerInv(w), SendSnapshot(w)
    PROVE  /\ PendingReqs(w)' = PendingReqs(w) \cup collector[w]
           /\ collector'[w] = {}
           /\ SnapshotsApart(metrics_q[w])'
           /\ \A x \in Workers : x # w => metrics_q'[x] = metrics_q[x] /\ collector'[x] = collector[x]
  <1>1. metrics_q \in [Workers -> Seq(Snapshot)] /\ collector \in [Workers -> SUBSET Event]
    BY DEF TypeOK, WorkerTypeOK
  <1>2. TakeSnapshot(w) \in Snapshot /\ TakeSnapshot(w).reqs = collector[w]
    BY SnapshotType, Zenon DEF TakeSnapshot
  <1>3. metrics_q'[w] = Append(metrics_q[w], TakeSnapshot(w)) /\ collector'[w] = {}
    BY <1>1 DEF SendSnapshot
  <1>4. Disjoint(TakeSnapshot(w).reqs, ReqsOf(metrics_q[w]))
    BY <1>2, Zenon DEF WorkerInv, WorkerApart, Apart, PendingReqs, Disjoint
  <1>5. metrics_q[w] \in Seq(Snapshot) /\ SnapshotsApart(metrics_q[w])
    BY <1>1 DEF WorkerInv
  <1>6. /\ ReqsOf(Append(metrics_q[w], TakeSnapshot(w))) = ReqsOf(metrics_q[w]) \cup collector[w]
        /\ SnapshotsApart(Append(metrics_q[w], TakeSnapshot(w)))
    BY <1>2, <1>4, <1>5, ReqsAppend
  <1>7. \A x \in Workers : x # w => metrics_q'[x] = metrics_q[x] /\ collector'[x] = collector[x]
    BY <1>1 DEF SendSnapshot
  <1> QED
    BY <1>3, <1>6, <1>7 DEF PendingReqs

(* A message other than Stop, taken from the channel and handled.          *)
LEMMA HandleCounting ==
    ASSUME TypeOK, NEW w \in Workers, WorkerInv(w), Receive(w),
           HandleMessage(w, Head(fire_q[w])),
           UNCHANGED <<metrics_q, next_ev, collector, last_drops, lost, total, excluded>>
    PROVE  WorkerInv(w)'
  <1> DEFINE m == Head(fire_q[w])
  <1>1. /\ in_flight \in [Workers -> SUBSET Event] /\ limit_drops \in [Workers -> SUBSET Event]
        /\ fire_q \in [Workers -> Seq(FireMsg)]
    BY DEF TypeOK, WorkerTypeOK
  <1>2. fire_q[w] # <<>> /\ fire_q'[w] = Tail(fire_q[w])
    BY <1>1 DEF Receive
  <1>3. PendingReqs(w)' = PendingReqs(w) /\ SnapshotsApart(metrics_q[w])'
    BY DEF PendingReqs, WorkerInv
  <1>4. CASE m.kind = "fire" /\ CanAcquire(w)
    <2>1. in_flight'[w] = in_flight[w] \cup {m.v} /\ limit_drops'[w] = limit_drops[w]
      BY <1>1, <1>4, Zenon DEF HandleMessage
    <2>2. m.v \notin Handled(w)
      BY <1>2, <1>4, HeadIsNew
    <2>3. WorkerApart(w)'
      <3>1. Apart(limit_drops[w], in_flight[w] \cup {m.v}, collector[w], PendingReqs(w), total[w], excluded[w], lost[w])
        BY <2>2, ApartNew, ZenonT(30) DEF WorkerInv, WorkerApart, Handled, Reported
      <3> QED
        BY <1>3, <2>1, <3>1, Zenon DEF WorkerApart
    <2>4. Handled(w)' \subseteq Handled(w) \cup {m.v}
      BY <1>3, <2>1, Zenon DEF Handled, Reported
    <2>5. WorkerOrdered(w)'
      BY <1>2, <1>4, <2>4, OrderTake, Zenon
    <2> QED
      BY <1>3, <2>1, <2>3, <2>5, Zenon DEF WorkerInv
  <1>5. CASE m.kind = "fire" /\ ~CanAcquire(w)
    <2>1. in_flight'[w] = in_flight[w] /\ limit_drops'[w] = limit_drops[w] \cup {m.v}
      BY <1>1, <1>5, ZenonT(30) DEF HandleMessage, Refuse
    <2>2. m.v \notin Handled(w)
      BY <1>2, <1>5, HeadIsNew, Zenon
    <2>3. WorkerApart(w)'
      <3>1. Apart(limit_drops[w] \cup {m.v}, in_flight[w], collector[w], PendingReqs(w), total[w], excluded[w], lost[w])
        BY <2>2, ApartNew, ZenonT(30) DEF WorkerInv, WorkerApart, Handled, Reported
      <3> QED
        BY <1>3, <2>1, <3>1, Zenon DEF WorkerApart
    <2>4. Handled(w)' \subseteq Handled(w) \cup {m.v}
      BY <1>3, <2>1, Zenon DEF Handled, Reported
    <2>5. WorkerOrdered(w)'
      BY <1>2, <1>5, <2>4, OrderTake, Zenon
    <2> QED
      BY <1>3, <2>1, <2>3, <2>5, Zenon DEF WorkerInv
  <1>6. CASE m.kind # "fire"
    <2>1. CountersSame(w)
      BY <1>1, <1>6, ZenonT(30) DEF HandleMessage, CountersSame
    <2>2. WorkerOrdered(w)'
      BY <1>2, <2>1, CountersFrame, OrderTake, Zenon
    <2> QED
      BY <2>1, <2>2, CountersFrame, ZenonT(30) DEF WorkerInv
  <1> QED
    BY <1>4, <1>5, <1>6

(* The last snapshot: what is recorded is reported, what is in flight is   *)
(* lost.                                                                   *)
LEMMA ExitCounting ==
    ASSUME TypeOK, NEW w \in Workers, WorkerInv(w), Exit(w),
           UNCHANGED <<limit_drops, last_drops, total, excluded>>
    PROVE  /\ WorkerApart(w)' /\ SnapshotsApart(metrics_q[w])' /\ Handled(w)' = Handled(w)
           /\ last_drops'[w] \subseteq limit_drops'[w]
           /\ \A x \in Workers : x # w => CountersSame(x)
  <1>1. in_flight \in [Workers -> SUBSET Event] /\ lost \in [Workers -> SUBSET Event]
    BY DEF TypeOK, WorkerTypeOK
  <1>2. in_flight'[w] = {} /\ lost'[w] = lost[w] \cup in_flight[w]
    BY <1>1 DEF Exit
  <1>3. /\ PendingReqs(w)' = PendingReqs(w) \cup collector[w] /\ collector'[w] = {}
        /\ SnapshotsApart(metrics_q[w])'
        /\ \A x \in Workers : x # w => metrics_q'[x] = metrics_q[x] /\ collector'[x] = collector[x]
    BY SnapshotCounting DEF Exit
  <1>4. WorkerApart(w)'
    <2>1. Apart(limit_drops[w], {}, {}, PendingReqs(w) \cup collector[w], total[w], excluded[w], lost[w] \cup in_flight[w])
      BY ApartReport, Zenon DEF WorkerInv, WorkerApart
    <2> QED
      BY <1>2, <1>3, <2>1, Zenon DEF WorkerApart
  <1>5. Handled(w)' = Handled(w)
    BY <1>2, <1>3, Zenon DEF Handled, Reported
  <1>6. \A x \in Workers : x # w => CountersSame(x)
    BY <1>1, <1>3, Zenon DEF Exit, CountersSame
  <1> QED
    BY <1>3, <1>4, <1>5, <1>6, Zenon DEF WorkerInv

(* A worker's step changes its own counters and no others.                 *)
LEMMA OtherWorkers ==
    ASSUME TypeOK, NEW w \in Workers, NEW x \in Workers, x # w, WorkerInv(w), WorkerInv(x),
           WorkerNext(w), UNCHANGED <<next_ev, total, excluded>>
    PROVE  WorkerInv(x)'
  <1>1. /\ fire_q \in [Workers -> Seq(FireMsg)] /\ metrics_q \in [Workers -> Seq(Snapshot)]
        /\ in_flight \in [Workers -> SUBSET Event] /\ collector \in [Workers -> SUBSET Event]
        /\ limit_drops \in [Workers -> SUBSET Event] /\ last_drops \in [Workers -> SUBSET Event]
        /\ lost \in [Workers -> SUBSET Event]
    BY DEF TypeOK, WorkerTypeOK
  <1>2. fire_q'[x] = fire_q[x]
    BY <1>1, Zenon DEF WorkerNext, WorkerLoopStep, WorkerRecv, WorkerSuspend, WorkerDisconnected, WorkerDrain,
                WorkerDrainStop, WorkerResume, WorkerLoop, WorkerExit, TaskComplete, WorkerPanic,
                Receive, channelVars
  <1>3. CASE WorkerDrainStop(w) \/ WorkerExit(w)
    <2>1. CountersSame(x)
      BY <1>3, ExitCounting, ZenonT(30) DEF WorkerDrainStop, WorkerExit
    <2> QED
      BY <1>2, <2>1, CountersFrame, OrderSame, Zenon DEF WorkerInv
  <1>4. CASE WorkerLoop(w)
    <2>1. CountersSame(x)
      BY <1>1, <1>4, Zenon DEF WorkerLoop, SendSnapshot, RememberDrops, CountersSame
    <2> QED
      BY <1>2, <2>1, CountersFrame, OrderSame, Zenon DEF WorkerInv
  <1>5. CASE WorkerRecv(w) \/ WorkerDrain(w)
    <2>1. CountersSame(x)
      BY <1>1, <1>5, Zenon DEF WorkerRecv, WorkerDrain, HandleMessage, Refuse, CountersSame
    <2> QED
      BY <1>2, <2>1, CountersFrame, OrderSame, Zenon DEF WorkerInv
  <1>6. CASE WorkerSuspend(w) \/ WorkerDisconnected(w) \/ WorkerResume(w)
    <2>1. CountersSame(x)
      BY <1>6, Zenon DEF WorkerSuspend, WorkerDisconnected, WorkerResume, CountersSame, channelVars
    <2> QED
      BY <1>2, <2>1, CountersFrame, OrderSame, Zenon DEF WorkerInv
  <1>7. CASE TaskComplete(w) \/ WorkerPanic(w)
    <2>1. CountersSame(x)
      BY <1>1, <1>7, Zenon DEF TaskComplete, WorkerPanic, Record, CountersSame, channelVars
    <2> QED
      BY <1>2, <2>1, CountersFrame, OrderSame, Zenon DEF WorkerInv
  <1> QED
    BY <1>3, <1>4, <1>5, <1>6, <1>7 DEF WorkerNext, WorkerLoopStep

(* The loop of the worker itself.                                          *)
LEMMA LoopCounting ==
    ASSUME TypeOK, NEW w \in Workers, WorkerInv(w),
           WorkerLoopStep(w), UNCHANGED <<next_ev, total, excluded>>
    PROVE  WorkerInv(w)'
  <1>1. fire_q \in [Workers -> Seq(FireMsg)] /\ limit_drops \in [Workers -> SUBSET Event]
        /\ last_drops \in [Workers -> SUBSET Event]
    BY DEF TypeOK, WorkerTypeOK
  <1>2. ASSUME CountersSame(w), Receive(w) PROVE WorkerInv(w)'
    <2>1. fire_q[w] # <<>> /\ fire_q'[w] = Tail(fire_q[w])
      BY <1>1, <1>2 DEF Receive
    <2> QED
      BY <1>2, <2>1, CountersFrame, OrderTake, Zenon DEF WorkerInv
  <1>3. ASSUME CountersSame(w), fire_q'[w] = fire_q[w] PROVE WorkerInv(w)'
    BY <1>3, CountersFrame, OrderSame, Zenon DEF WorkerInv
  <1>4. CASE WorkerRecv(w)
    <2>1. CASE Head(fire_q[w]).kind # "stop"
      BY <1>4, <2>1, HandleCounting DEF WorkerRecv
    <2>2. CASE Head(fire_q[w]).kind = "stop"
      BY <1>2, <1>4, <2>2, Zenon DEF WorkerRecv, CountersSame
    <2> QED
      BY <2>1, <2>2
  <1>5. CASE WorkerDrain(w)
    BY <1>5, HandleCounting DEF WorkerDrain
  <1>6. CASE WorkerSuspend(w) \/ WorkerDisconnected(w) \/ WorkerResume(w)
    BY <1>3, <1>6, Zenon DEF WorkerSuspend, WorkerDisconnected, WorkerResume, CountersSame, channelVars
  <1>7. CASE WorkerDrainStop(w)
    <2>1. fire_q[w] # <<>> /\ fire_q'[w] = Tail(fire_q[w])
      BY <1>1, <1>7 DEF WorkerDrainStop, Receive
    <2>2. /\ WorkerApart(w)' /\ SnapshotsApart(metrics_q[w])' /\ Handled(w)' = Handled(w)
          /\ last_drops'[w] \subseteq limit_drops'[w]
      BY <1>7, ExitCounting, ZenonT(30) DEF WorkerDrainStop
    <2> QED
      BY <2>1, <2>2, OrderTake, Zenon DEF WorkerInv
  <1>8. CASE WorkerExit(w)
    <2>1. /\ WorkerApart(w)' /\ SnapshotsApart(metrics_q[w])' /\ Handled(w)' = Handled(w)
          /\ last_drops'[w] \subseteq limit_drops'[w]
      BY <1>8, ExitCounting, ZenonT(30) DEF WorkerExit
    <2> QED
      BY <1>8, <2>1, OrderSame, Zenon DEF WorkerInv, WorkerExit
  <1>9. CASE WorkerLoop(w) /\ SendSnapshot(w) /\ RememberDrops(w)
    <2>1. /\ PendingReqs(w)' = PendingReqs(w) \cup collector[w] /\ collector'[w] = {}
          /\ SnapshotsApart(metrics_q[w])'
      BY <1>9, SnapshotCounting, Zenon
    <2>2. /\ limit_drops' = limit_drops /\ in_flight' = in_flight /\ lost' = lost /\ fire_q' = fire_q
          /\ last_drops'[w] = limit_drops[w]
      BY <1>1, <1>9 DEF WorkerLoop, RememberDrops
    <2>3. WorkerApart(w)'
      <3>1. Apart(limit_drops[w], in_flight[w], {}, PendingReqs(w) \cup collector[w], total[w], excluded[w], lost[w])
        BY ApartReport, Zenon DEF WorkerInv, WorkerApart
      <3> QED
        BY <2>1, <2>2, <3>1, Zenon DEF WorkerApart
    <2>4. Handled(w)' = Handled(w)
      BY <2>1, <2>2, Zenon DEF Handled, Reported
    <2> QED
      BY <2>1, <2>2, <2>3, <2>4, OrderSame, Zenon DEF WorkerInv
  <1>10. CASE WorkerLoop(w) /\ UNCHANGED <<metrics_q, collector, last_drops>>
    BY <1>3, <1>10, Zenon DEF WorkerLoop, CountersSame
  <1> QED
    BY <1>4, <1>5, <1>6, <1>7, <1>8, <1>9, <1>10, Zenon DEF WorkerLoopStep, WorkerLoop

(* A completed task moves its request from in_flight to the collector; a   *)
(* panic moves all that the worker has not reported to lost.               *)
LEMMA TaskCounting ==
    ASSUME TypeOK, NEW w \in Workers, WorkerInv(w),
           TaskComplete(w), UNCHANGED <<next_ev, total, excluded>>
    PROVE  WorkerInv(w)'
  <1>1. in_flight \in [Workers -> SUBSET Event] /\ collector \in [Workers -> SUBSET Event]
    BY DEF TypeOK, WorkerTypeOK
  <1>2. PICK n \in in_flight[w] : collector' = [collector EXCEPT ![w] = @ \cup {n}]
                                  /\ in_flight' = [in_flight EXCEPT ![w] = @ \ {n}]
    BY Zenon DEF TaskComplete, Record
  <1>3. collector'[w] = collector[w] \cup {n} /\ in_flight'[w] = in_flight[w] \ {n}
    BY <1>1, <1>2
  <1>4. UNCHANGED <<metrics_q, fire_q, limit_drops, last_drops, lost>>
    BY DEF TaskComplete, channelVars
  <1>5. PendingReqs(w)' = PendingReqs(w)
    BY <1>4, Zenon DEF PendingReqs
  <1>6. WorkerApart(w)'
    <2>1. Apart(limit_drops[w], in_flight[w] \ {n}, collector[w] \cup {n}, PendingReqs(w), total[w], excluded[w], lost[w])
      BY <1>2, ApartRecord, Zenon DEF WorkerInv, WorkerApart
    <2> QED
      BY <1>3, <1>4, <1>5, <2>1, Zenon DEF WorkerApart
  <1>7. Handled(w)' \subseteq Handled(w)
    BY <1>3, <1>4, <1>5, Zenon DEF Handled, Reported
  <1> QED
    BY <1>4, <1>6, <1>7, OrderSame, Zenon DEF WorkerInv

(* A panic moves requests to lost and keeps the counting invariant.        *)
LEMMA PanicCounting ==
    ASSUME TypeOK, NEW w \in Workers, WorkerInv(w),
           WorkerPanic(w), UNCHANGED <<next_ev, total, excluded>>
    PROVE  WorkerInv(w)'
  <1>1. /\ in_flight \in [Workers -> SUBSET Event] /\ collector \in [Workers -> SUBSET Event]
        /\ limit_drops \in [Workers -> SUBSET Event] /\ lost \in [Workers -> SUBSET Event]
        /\ fire_q \in [Workers -> Seq(FireMsg)]
    BY DEF TypeOK, WorkerTypeOK
  <1>2. /\ in_flight'[w] = {} /\ collector'[w] = {} /\ limit_drops'[w] = last_drops[w]
        /\ lost'[w] = lost[w] \cup in_flight[w] \cup collector[w] \cup Queued(w)
                              \cup (limit_drops[w] \ last_drops[w])
        /\ fire_q'[w] = <<>> /\ UNCHANGED <<metrics_q, last_drops>>
    BY <1>1, Zenon DEF WorkerPanic
  <1>3. PendingReqs(w)' = PendingReqs(w)
    BY <1>2, Zenon DEF PendingReqs
  <1>4. Disjoint(Queued(w), Handled(w))
    <2>1. ASSUME NEW n \in Queued(w), n \in Handled(w) PROVE FALSE
      <3>1. n < n
        BY <2>1 DEF WorkerInv, WorkerOrdered
      <3>2. n \in Nat
        BY <2>1, HandledNat
      <3> QED
        BY <3>1, <3>2
    <2> QED
      BY <2>1 DEF Disjoint
  <1>5. WorkerApart(w)'
    <2>1. /\ Disjoint(Queued(w), limit_drops[w]) /\ Disjoint(Queued(w), PendingReqs(w))
          /\ Disjoint(Queued(w), total[w]) /\ Disjoint(Queued(w), excluded[w])
      BY <1>4, Zenon DEF Disjoint, Handled, Reported
    <2>2. Apart(last_drops[w], {}, {}, PendingReqs(w), total[w], excluded[w],
                lost[w] \cup in_flight[w] \cup collector[w] \cup Queued(w) \cup (limit_drops[w] \ last_drops[w]))
      BY <2>1, ApartPanic, Zenon DEF WorkerInv, WorkerApart
    <2> QED
      BY <1>2, <1>3, <2>2, Zenon DEF WorkerApart
  <1>6. Handled(w)' \subseteq Handled(w) \cup Queued(w)
    BY <1>2, <1>3, Zenon DEF WorkerInv, Handled, Reported
  <1>7. Queued(w)' = {} /\ InOrder(fire_q[w])'
    BY <1>2, ReqsEmpty, Zenon DEF Queued
  <1> QED
    BY <1>2, <1>5, <1>6, <1>7, ZenonT(30) DEF WorkerInv, WorkerOrdered

(* The coordinator moves what the snapshots hold into one of the totals.   *)
LEMMA MergeCounting ==
    ASSUME NEW x \in Workers, WorkerInv(x), ClearMetrics,
           \/ MergeIntoTotal /\ UNCHANGED excluded
           \/ MergeIntoTickOnly,
           UNCHANGED <<fire_q, timerOnly, workerOnly>>
    PROVE  WorkerInv(x)'
  <1>1. metrics_q'[x] = <<>>
    BY DEF ClearMetrics
  <1>2. PendingReqs(x)' = {} /\ SnapshotsApart(metrics_q[x])'
    BY <1>1, ReqsEmpty, Zenon DEF PendingReqs, SnapshotsApart
  <1>3. \/ total'[x] = total[x] \cup PendingReqs(x) /\ excluded'[x] = excluded[x]
        \/ excluded'[x] = excluded[x] \cup PendingReqs(x) /\ total'[x] = total[x]
    BY Zenon DEF MergeIntoTotal, MergeIntoTickOnly
  <1>4. WorkerApart(x)'
    <2>1. /\ Apart(limit_drops[x], in_flight[x], collector[x], {}, total[x] \cup PendingReqs(x), excluded[x], lost[x])
          /\ Apart(limit_drops[x], in_flight[x], collector[x], {}, total[x], excluded[x] \cup PendingReqs(x), lost[x])
      BY ApartMerge, Zenon DEF WorkerInv, WorkerApart
    <2>2. UNCHANGED <<limit_drops, in_flight, collector, lost>>
      BY DEF workerOnly
    <2> QED
      BY <1>2, <1>3, <2>1, <2>2, Zenon DEF WorkerApart
  <1>5. Handled(x)' = Handled(x)
    BY <1>2, <1>3, Zenon DEF Handled, Reported, workerOnly
  <1>6. next_ev'[x] = next_ev[x] /\ last_drops'[x] \subseteq limit_drops'[x]
    BY Zenon DEF WorkerInv, timerOnly, workerOnly
  <1> QED
    BY <1>2, <1>4, <1>5, <1>6, OrderSame, Zenon DEF WorkerInv

(* The steps of the coordinator keep the counting invariant.               *)
LEMMA CoordCounting ==
    ASSUME NEW x \in Workers, WorkerInv(x), CoordStep(failed) \/ SendCommand,
           UNCHANGED <<timerOnly, workerOnly>>
    PROVE  WorkerInv(x)'
  <1>1. CASE CoordTick(failed)
    BY <1>1, MergeCounting DEF CoordTick
  <1>2. CASE CoordDrain \/ CoordCollect
    BY <1>2, MergeCounting DEF CoordDrain, CoordCollect, CoordFinalDrain
  <1>3. CASE CoordWake \/ CoordCommand \/ CoordStop \/ CoordJoin \/ SendCommand
    <2>1. UNCHANGED <<fire_q, metrics_q, total, excluded>>
      BY <1>3 DEF CoordWake, CoordCommand, CoordStop, CoordJoin, SendCommand, channelVars
    <2>2. CountersSame(x) /\ next_ev' = next_ev
      BY <2>1 DEF CountersSame, timerOnly, workerOnly
    <2> QED
      BY <2>1, <2>2, CountersFrame, OrderSame, Zenon DEF WorkerInv
  <1> QED
    BY <1>1, <1>2, <1>3 DEF CoordStep

-----------------------------------------------------------------------------
(* The counting invariant holds initially.                                 *)
LEMMA CountingInit == Init => CountingInv
  <1> SUFFICES ASSUME Init PROVE CountingInv
    OBVIOUS
  <1>1. TypeOK
    BY InitTypeOK
  <1>2. ASSUME NEW w \in Workers PROVE WorkerInv(w)
    <2>1. fire_q[w] = <<>> /\ metrics_q[w] = <<>>
      BY DEF Init
    <2>2. /\ limit_drops[w] = {} /\ last_drops[w] = {} /\ in_flight[w] = {} /\ collector[w] = {}
          /\ lost[w] = {} /\ total[w] = {} /\ excluded[w] = {}
      BY DEF Init, WorkerInit, CoordInit
    <2>3. PendingReqs(w) = {} /\ SnapshotsApart(metrics_q[w])
      BY <2>1, ReqsEmpty DEF PendingReqs, SnapshotsApart
    <2>4. Queued(w) = {} /\ InOrder(fire_q[w])
      BY <2>1, ReqsEmpty DEF Queued
    <2> QED
      BY <2>2, <2>3, <2>4, Zenon DEF WorkerInv, WorkerApart, Apart, Disjoint, WorkerOrdered, Handled, Reported
  <1> QED
    BY <1>1, <1>2 DEF CountingInv

(* Every step keeps the counting invariant.                                *)
LEMMA CountingStep == CountingInv /\ TypeOK' /\ [Next]_vars => CountingInv'
  <1> SUFFICES ASSUME CountingInv, TypeOK', [Next]_vars, NEW x \in Workers PROVE WorkerInv(x)'
    BY DEF CountingInv, Workers
  <1>0. TypeOK /\ \A w \in Workers : WorkerInv(w)
    BY DEF CountingInv
  <1>1. CASE Timer
    BY <1>1, TimerCounting DEF Timer
  <1>2. ASSUME NEW w \in Workers, WorkerThread(w) \/ Task(w) \/ Panic(w) PROVE WorkerInv(x)'
    <2>1. UNCHANGED <<next_ev, total, excluded>>
      BY <1>2, Zenon DEF WorkerThread, Task, Panic, timerOnly, coordVars
    <2>2. WorkerNext(w)
      BY <1>2, Zenon DEF WorkerThread, Task, Panic, WorkerNext
    <2>3. CASE x # w
      BY <1>0, <2>1, <2>2, <2>3, OtherWorkers
    <2>4. CASE x = w
      BY <1>0, <2>1, <2>2, <2>4, LoopCounting, TaskCounting, PanicCounting DEF WorkerNext
    <2> QED
      BY <2>3, <2>4
  <1>3. CASE Coord \/ Api
    BY <1>0, <1>3, CoordCounting DEF Coord, Api
  <1>4. CASE Finished \/ UNCHANGED vars
    <2>1. UNCHANGED vars
      BY <1>4 DEF Finished
    <2>2. CountersSame(x) /\ fire_q' = fire_q /\ next_ev' = next_ev
      BY <2>1, Zenon DEF vars, channelVars, timerVars, workerVars, coordVars, CountersSame
    <2> QED
      BY <1>0, <2>2, CountersFrame, OrderSame, Zenon DEF WorkerInv
  <1> QED
    BY <1>1, <1>2, <1>3, <1>4 DEF Next

(* The counting invariant implies the properties of interest.              *)
LEMMA CountingImplies == CountingInv => CountedOnce /\ InScheduleOrder
  <1> SUFFICES ASSUME CountingInv, NEW w \in Workers, WorkerInv(w)
               PROVE  /\ Disjoint(in_flight[w], collector[w] \cup Reported(w))
                      /\ Disjoint(collector[w], Reported(w))
                      /\ Disjoint(PendingReqs(w), total[w] \cup excluded[w])
                      /\ Disjoint(total[w], excluded[w])
                      /\ Disjoint(lost[w], in_flight[w] \cup collector[w] \cup Reported(w))
                      /\ SnapshotsApart(metrics_q[w])
                      /\ InOrder(fire_q[w])
                      /\ \A n \in Queued(w), m \in Handled(w) : m < n
    BY Zenon DEF CountingInv, CountedOnce, InScheduleOrder
  <1> QED
    BY Zenon DEF WorkerInv, WorkerApart, WorkerOrdered, Apart, Disjoint, Reported

(* The counters of the workers stay apart and in order in every load test. *)
LEMMA CountingHolds == Spec => []CountingInv
  <1>1. Init => CountingInv
    BY CountingInit
  <1>2. CountingInv /\ TypeOK' /\ [Next]_vars => CountingInv'
    BY CountingStep
  <1>3. Spec => []TypeOK
    BY TypeCorrect
  <1> QED
    BY <1>1, <1>2, <1>3, PTL DEF Spec

(* In every load test no request is counted twice, however the threads     *)
(* interleave (io_worker_loop, the coordinator's tick and final drain).    *)
THEOREM CountingCorrect == Spec => []CountedOnce
  <1>1. CountingInv => CountedOnce
    BY CountingImplies
  <1> QED
    BY <1>1, CountingHolds, PTL

(* Each worker handles its requests in schedule order, and what waits in   *)
(* its channel is later than all it has handled (timer_loop, io_worker).   *)
THEOREM ScheduleOrder == Spec => []InScheduleOrder
  <1>1. CountingInv => InScheduleOrder
    BY CountingImplies
  <1> QED
    BY <1>1, CountingHolds, PTL

-----------------------------------------------------------------------------
(* The drops reported by the snapshots of a metrics channel.               *)
DropsOf(q) == UNION {q[i].drops : i \in DOMAIN q}
DropsApart(q) == \A i, j \in DOMAIN q : i # j => Disjoint(q[i].drops, q[j].drops)

(* The reports of one worker partition what it has reported.               *)
WorkerDrops(w) ==
    /\ Disjoint(PendingDrops(w), total_drops[w]) /\ Disjoint(PendingDrops(w), excluded_drops[w])
    /\ Disjoint(total_drops[w], excluded_drops[w])
    /\ DropsApart(metrics_q[w])
    /\ PendingDrops(w) \cup total_drops[w] \cup excluded_drops[w]
       = IF worker_pc[w] = "exited" THEN limit_drops[w] ELSE last_drops[w]

(* The empty sequence has no positions.                                    *)
LEMMA NoPositions == DOMAIN << >> = {}
  OBVIOUS

(* A snapshot with new drops appended to a metrics channel.                *)
LEMMA DropsAppend ==
    ASSUME NEW q \in Seq(Snapshot), NEW t \in Snapshot
    PROVE  /\ DropsOf(Append(q, t)) = DropsOf(q) \cup t.drops
           /\ DropsApart(q) /\ Disjoint(t.drops, DropsOf(q)) => DropsApart(Append(q, t))
  <1>1. DOMAIN Append(q, t) = DOMAIN q \cup {Len(q) + 1} /\ Len(q) + 1 \notin DOMAIN q
    OBVIOUS
  <1>2. \A i \in DOMAIN q : Append(q, t)[i] = q[i]
    OBVIOUS
  <1>3. Append(q, t)[Len(q) + 1] = t
    OBVIOUS
  <1>4. \A i \in DOMAIN q : q[i].drops \subseteq DropsOf(q)
    BY DEF DropsOf
  <1>5. DropsOf(Append(q, t)) = DropsOf(q) \cup t.drops
    BY <1>1, <1>2, <1>3 DEF DropsOf
  <1>6. ASSUME DropsApart(q), Disjoint(t.drops, DropsOf(q)) PROVE DropsApart(Append(q, t))
    <2> SUFFICES ASSUME NEW i \in DOMAIN Append(q, t), NEW j \in DOMAIN Append(q, t), i # j
                 PROVE  Disjoint(Append(q, t)[i].drops, Append(q, t)[j].drops)
      BY DEF DropsApart
    <2>1. CASE i \in DOMAIN q /\ j \in DOMAIN q
      BY <1>2, <1>6, <2>1 DEF DropsApart
    <2>2. CASE i = Len(q) + 1 /\ j \in DOMAIN q
      BY <1>2, <1>3, <1>4, <1>6, <2>2, Zenon DEF Disjoint
    <2>3. CASE j = Len(q) + 1 /\ i \in DOMAIN q
      BY <1>2, <1>3, <1>4, <1>6, <2>3, Zenon DEF Disjoint
    <2> QED
      BY <1>1, <2>1, <2>2, <2>3
  <1> QED
    BY <1>5, <1>6

(* The delta against the report before is new to every report.             *)
LEMMA SnapshotDrops ==
    ASSUME TypeOK, NEW w \in Workers, WorkerDrops(w), worker_pc[w] # "exited",
           last_drops[w] \subseteq limit_drops[w], SendSnapshot(w),
           UNCHANGED <<total_drops, excluded_drops>>
    PROVE  /\ Disjoint(PendingDrops(w), total_drops[w])' /\ Disjoint(PendingDrops(w), excluded_drops[w])'
           /\ Disjoint(total_drops[w], excluded_drops[w])'
           /\ DropsApart(metrics_q[w])'
           /\ (PendingDrops(w) \cup total_drops[w] \cup excluded_drops[w])' = limit_drops[w]
  <1>1. metrics_q'[w] = Append(metrics_q[w], TakeSnapshot(w)) /\ metrics_q[w] \in Seq(Snapshot)
    BY Zenon DEF SendSnapshot, TypeOK
  <1>2. TakeSnapshot(w) \in Snapshot /\ TakeSnapshot(w).drops = limit_drops[w] \ last_drops[w]
    BY SnapshotType, Zenon DEF TakeSnapshot
  <1>3. PendingDrops(w) = DropsOf(metrics_q[w]) /\ PendingDrops(w)' = DropsOf(metrics_q'[w])
    BY Zenon DEF PendingDrops, DropsOf
  <1>4. PendingDrops(w) \cup total_drops[w] \cup excluded_drops[w] = last_drops[w]
    BY Zenon DEF WorkerDrops
  <1>5. /\ DropsOf(metrics_q'[w]) = DropsOf(metrics_q[w]) \cup (limit_drops[w] \ last_drops[w])
        /\ DropsApart(metrics_q'[w])
    <2>1. Disjoint(TakeSnapshot(w).drops, DropsOf(metrics_q[w])) /\ DropsApart(metrics_q[w])
      BY <1>2, <1>3, <1>4, Zenon DEF Disjoint, WorkerDrops
    <2> QED
      BY <1>1, <1>2, <2>1, DropsAppend, Zenon
  <1>6. PendingDrops(w)' = PendingDrops(w) \cup (limit_drops[w] \ last_drops[w])
    BY <1>3, <1>5, Zenon
  <1> QED
    BY <1>4, <1>5, <1>6, Zenon DEF Disjoint, WorkerDrops

(* A worker that reports nothing keeps its reports.                        *)
LEMMA DropsFrame ==
    ASSUME NEW w, WorkerDrops(w), metrics_q'[w] = metrics_q[w], last_drops'[w] = last_drops[w],
           UNCHANGED <<total_drops, excluded_drops>>,
           \/ worker_pc[w] # "exited" /\ worker_pc'[w] # "exited"
           \/ worker_pc'[w] = worker_pc[w] /\ limit_drops'[w] = limit_drops[w]
    PROVE  WorkerDrops(w)'
  BY Zenon DEF WorkerDrops, PendingDrops

(* A worker's step keeps its own reports.                                  *)
LEMMA WorkerDropsStep ==
    ASSUME TypeOK, NEW w \in Workers, WorkerDrops(w), last_drops[w] \subseteq limit_drops[w],
           WorkerNext(w), UNCHANGED coordVars
    PROVE  WorkerDrops(w)'
  <1>1. /\ metrics_q \in [Workers -> Seq(Snapshot)] /\ DOMAIN worker_pc = Workers
        /\ limit_drops \in [Workers -> SUBSET Event] /\ last_drops \in [Workers -> SUBSET Event]
    BY DEF TypeOK, WorkerTypeOK
  <1>2. UNCHANGED <<total_drops, excluded_drops>>
    BY Zenon DEF coordVars
  <1>3. CASE WorkerRecv(w) \/ WorkerDrain(w)
    <2>1. worker_pc[w] # "exited" /\ worker_pc'[w] # "exited" /\ UNCHANGED <<metrics_q, last_drops>>
      BY <1>1, <1>3, Zenon DEF WorkerRecv, WorkerDrain
    <2> QED
      BY <1>2, <2>1, DropsFrame, Zenon
  <1>4. CASE WorkerSuspend(w) \/ WorkerDisconnected(w) \/ WorkerResume(w) \/ TaskComplete(w) \/ WorkerPanic(w)
    <2>1. worker_pc[w] # "exited" /\ worker_pc'[w] # "exited" /\ UNCHANGED <<metrics_q, last_drops>>
      BY <1>1, <1>4, Zenon DEF WorkerSuspend, WorkerDisconnected, WorkerResume, TaskComplete, Awaiting,
                        WorkerPanic, channelVars
    <2> QED
      BY <1>2, <2>1, DropsFrame, Zenon
  <1>5. CASE WorkerLoop(w)
    <2>1. worker_pc[w] # "exited" /\ worker_pc'[w] # "exited" /\ UNCHANGED limit_drops
      BY <1>1, <1>5, Zenon DEF WorkerLoop
    <2>2. CASE SendSnapshot(w) /\ RememberDrops(w)
      <3>1. last_drops'[w] = limit_drops[w]
        BY <1>1, <2>2 DEF RememberDrops
      <3> QED
        BY <1>2, <2>1, <2>2, <3>1, SnapshotDrops, Zenon DEF WorkerDrops
    <2>3. CASE UNCHANGED <<metrics_q, collector, last_drops>>
      BY <1>2, <2>1, <2>3, DropsFrame, Zenon
    <2> QED
      BY <1>5, <2>2, <2>3, Zenon DEF WorkerLoop
  <1>6. CASE WorkerDrainStop(w) \/ WorkerExit(w)
    <2>1. worker_pc[w] # "exited" /\ worker_pc'[w] = "exited" /\ UNCHANGED limit_drops /\ SendSnapshot(w)
      BY <1>1, <1>6 DEF WorkerDrainStop, WorkerExit, Exit
    <2> QED
      BY <1>2, <2>1, SnapshotDrops, Zenon DEF WorkerDrops
  <1> QED
    BY <1>3, <1>4, <1>5, <1>6, Zenon DEF WorkerNext, WorkerLoopStep

(* The coordinator moves whole reports into one of its two totals.         *)
LEMMA CoordDropsStep ==
    ASSUME TypeOK, CoordStep(failed) \/ SendCommand, UNCHANGED workerOnly, NEW x \in Workers, WorkerDrops(x)
    PROVE  WorkerDrops(x)'
  <1>1. UNCHANGED <<worker_pc, limit_drops, last_drops>>
    BY Zenon DEF CoordStep, CoordWake, CoordCommand, CoordTick, CoordStop, CoordDrain,
           CoordCollect, CoordFinalDrain, CoordJoin, SendCommand, channelVars, workerOnly
  <1>2. CASE ClearMetrics /\ MergeIntoTotal /\ UNCHANGED excluded_drops
    <2>1. PendingDrops(x)' = {} /\ DropsApart(metrics_q[x])'
      <3>1. metrics_q'[x] = <<>>
        BY <1>2 DEF ClearMetrics
      <3> QED
        BY <3>1, NoPositions, Zenon DEF PendingDrops, DropsApart
    <2>2. total_drops'[x] = total_drops[x] \cup PendingDrops(x) /\ excluded_drops'[x] = excluded_drops[x]
      BY <1>2, Zenon DEF MergeIntoTotal
    <2> QED
      BY <1>1, <2>1, <2>2, Zenon DEF WorkerDrops, Disjoint
  <1>3. CASE ClearMetrics /\ MergeIntoTickOnly
    <2>1. PendingDrops(x)' = {} /\ DropsApart(metrics_q[x])'
      <3>1. metrics_q'[x] = <<>>
        BY <1>3 DEF ClearMetrics
      <3> QED
        BY <3>1, NoPositions, Zenon DEF PendingDrops, DropsApart
    <2>2. excluded_drops'[x] = excluded_drops[x] \cup PendingDrops(x) /\ total_drops'[x] = total_drops[x]
      BY <1>3, Zenon DEF MergeIntoTickOnly
    <2> QED
      BY <1>1, <2>1, <2>2, Zenon DEF WorkerDrops, Disjoint
  <1>4. CASE UNCHANGED <<metrics_q, total_drops, excluded_drops>>
    BY <1>1, <1>4, DropsFrame, Zenon
  <1> QED
    BY <1>2, <1>3, <1>4, Zenon DEF CoordStep, CoordWake, CoordCommand, CoordTick, CoordStop, CoordDrain,
           CoordCollect, CoordFinalDrain, CoordJoin, SendCommand, channelVars
-----------------------------------------------------------------------------
(* All requests of worker w that left the timer thread.                    *)
SentTo(w) == Queued(w) \cup Handled(w)

EventsInv ==
    /\ CountingInv
    /\ \A w \in Workers : WorkerDrops(w)
    /\ IsFiniteSet(Sent) /\ dispatched = Cardinality(Sent)

(* A message that the worker takes is still accounted for.                 *)
LEMMA HandleKeepsSent ==
    ASSUME TypeOK, NEW w \in Workers, Receive(w), HandleMessage(w, Head(fire_q[w])),
           UNCHANGED <<metrics_q, collector, lost, total, excluded>>
    PROVE  SentTo(w)' = SentTo(w)
  <1> DEFINE m == Head(fire_q[w])
  <1>1. /\ in_flight \in [Workers -> SUBSET Event] /\ limit_drops \in [Workers -> SUBSET Event]
        /\ fire_q \in [Workers -> Seq(FireMsg)]
    BY DEF TypeOK, WorkerTypeOK
  <1>2. fire_q[w] # <<>> /\ fire_q'[w] = Tail(fire_q[w]) /\ fire_q[w] \in Seq(FireMsg)
    BY <1>1 DEF Receive
  <1>3. FiresOf(fire_q[w]) = FiresOf(Tail(fire_q[w])) \cup (IF m.kind = "fire" THEN {m.v} ELSE {})
    BY <1>2, FiresTail, Zenon
  <1>4. Queued(w) = FiresOf(fire_q[w]) /\ Queued(w)' = FiresOf(Tail(fire_q[w]))
    BY <1>2 DEF Queued
  <1>5. PendingReqs(w)' = PendingReqs(w)
    BY DEF PendingReqs
  <1>6. CASE m.kind = "fire"
    <2>1. \/ in_flight'[w] = in_flight[w] \cup {m.v} /\ limit_drops'[w] = limit_drops[w]
          \/ in_flight'[w] = in_flight[w] /\ limit_drops'[w] = limit_drops[w] \cup {m.v}
      BY <1>1, <1>6, ZenonT(30) DEF HandleMessage, Refuse
    <2>2. Handled(w)' = Handled(w) \cup {m.v}
      <3>1. Reported(w)' = Reported(w) /\ collector'[w] = collector[w] /\ lost'[w] = lost[w]
        BY <1>5, Zenon DEF Reported
      <3>2. CASE in_flight'[w] = in_flight[w] \cup {m.v} /\ limit_drops'[w] = limit_drops[w]
        BY <3>1, <3>2, Zenon DEF Handled
      <3>3. CASE in_flight'[w] = in_flight[w] /\ limit_drops'[w] = limit_drops[w] \cup {m.v}
        BY <3>1, <3>3, Zenon DEF Handled
      <3> QED
        BY <2>1, <3>2, <3>3, Zenon
    <2> QED
      <3>1. Queued(w) = Queued(w)' \cup {m.v}
        BY <1>3, <1>4, <1>6, Zenon
      <3> QED
        BY <2>2, <3>1, Zenon DEF SentTo
  <1>7. CASE m.kind # "fire"
    <2>1. UNCHANGED <<in_flight, limit_drops>>
      BY <1>7, Zenon DEF HandleMessage
    <2>2. Handled(w)' = Handled(w)
      BY <1>5, <2>1, Zenon DEF Handled, Reported
    <2> QED
      BY <1>3, <1>4, <1>7, <2>2 DEF SentTo
  <1> QED
    BY <1>6, <1>7

(* A worker's step moves its requests around, and loses track of none.     *)
LEMMA WorkerKeepsSent ==
    ASSUME CountingInv, NEW w \in Workers, WorkerNext(w), UNCHANGED coordVars, NEW x \in Workers
    PROVE  SentTo(x)' = SentTo(x)
  <1>0. TypeOK /\ WorkerInv(w)
    BY DEF CountingInv
  <1>1. /\ in_flight \in [Workers -> SUBSET Event] /\ limit_drops \in [Workers -> SUBSET Event]
        /\ fire_q \in [Workers -> Seq(FireMsg)] /\ collector \in [Workers -> SUBSET Event]
        /\ lost \in [Workers -> SUBSET Event] /\ last_drops[w] \subseteq limit_drops[w]
    BY <1>0 DEF TypeOK, WorkerTypeOK, WorkerInv
  <1>2. UNCHANGED <<total, excluded>>
    BY DEF coordVars
  <1>3. CASE x # w
    <2>1. WorkerSame(x)
      BY <1>0, <1>3, OthersSame
    <2> QED
      BY <2>1, Zenon DEF WorkerSame, CountersSame, SentTo, Queued, Handled, Reported, PendingReqs
  <1>4. CASE x = w
    <2>0. SUFFICES SentTo(w)' = SentTo(w)
      BY <1>4
    <2>1. Receive(w) /\ Head(fire_q[w]).kind = "stop" => Queued(w)' = Queued(w)
      <3>1. fire_q[w] \in Seq(FireMsg)
        BY <1>1, Zenon
      <3>2. fire_q[w] # <<>> /\ Head(fire_q[w]).kind # "fire" => FiresOf(Tail(fire_q[w])) = FiresOf(fire_q[w])
        BY <3>1, FiresTail, Zenon
      <3> QED
        BY <1>1, <3>2, Zenon DEF Receive, Queued
    <2>2. CASE WorkerRecv(w)
      <3>1. CASE HandleMessage(w, Head(fire_q[w]))
        BY <1>0, <1>2, <2>2, <3>1, HandleKeepsSent, Zenon DEF WorkerRecv
      <3>2. CASE Head(fire_q[w]).kind = "stop" /\ UNCHANGED <<in_flight, limit_drops, targets, metadata>>
        BY <1>2, <2>1, <2>2, <3>2, Zenon DEF WorkerRecv, SentTo, Handled, Reported, PendingReqs
      <3> QED
        BY <2>2, <3>1, <3>2 DEF WorkerRecv
    <2>3. CASE WorkerDrain(w)
      BY <1>0, <1>2, <2>3, HandleKeepsSent, Zenon DEF WorkerDrain
    <2>4. CASE WorkerSuspend(w) \/ WorkerDisconnected(w) \/ WorkerResume(w)
      BY <1>2, <2>4, Zenon DEF WorkerSuspend, WorkerDisconnected, WorkerResume, channelVars,
                               SentTo, Queued, Handled, Reported, PendingReqs
    <2>5. CASE WorkerDrainStop(w) \/ WorkerExit(w)
      <3>1. Exit(w) /\ UNCHANGED <<limit_drops, last_drops, total, excluded>>
        BY <1>2, <2>5 DEF WorkerDrainStop, WorkerExit
      <3>2. Handled(w)' = Handled(w)
        BY <1>0, <3>1, ExitCounting, Zenon
      <3>3. Queued(w)' = Queued(w)
        BY <2>1, <2>5, Zenon DEF WorkerDrainStop, WorkerExit, Queued
      <3> QED
        BY <3>2, <3>3 DEF SentTo
    <2>6. CASE WorkerLoop(w)
      <3>1. UNCHANGED <<fire_q, in_flight, limit_drops, lost>>
        BY <2>6, Zenon DEF WorkerLoop
      <3>2. PendingReqs(w)' \cup collector'[w] = PendingReqs(w) \cup collector[w]
        <4>1. CASE SendSnapshot(w)
          BY <1>0, <4>1, SnapshotCounting, Zenon
        <4>2. CASE UNCHANGED <<metrics_q, collector, last_drops>>
          BY <4>2, Zenon DEF PendingReqs
        <4> QED
          BY <2>6, <4>1, <4>2, Zenon DEF WorkerLoop
      <3> QED
        BY <1>2, <3>1, <3>2, Zenon DEF SentTo, Queued, Handled, Reported
    <2>7. CASE TaskComplete(w)
      <3>1. PICK n \in in_flight[w] : /\ collector' = [collector EXCEPT ![w] = @ \cup {n}]
                                      /\ in_flight' = [in_flight EXCEPT ![w] = @ \ {n}]
        BY <2>7, Zenon DEF TaskComplete, Record
      <3>2. collector'[w] = collector[w] \cup {n} /\ in_flight'[w] = in_flight[w] \ {n}
        BY <1>1, <3>1, Zenon
      <3>3. UNCHANGED <<fire_q, metrics_q, limit_drops, lost>>
        BY <2>7, Zenon DEF TaskComplete, channelVars
      <3> QED
        BY <1>2, <3>2, <3>3, Zenon DEF SentTo, Queued, Handled, Reported, PendingReqs
    <2>8. CASE WorkerPanic(w)
      <3>1. /\ fire_q'[w] = <<>> /\ in_flight'[w] = {} /\ collector'[w] = {} /\ limit_drops'[w] = last_drops[w]
            /\ lost'[w] = lost[w] \cup in_flight[w] \cup collector[w] \cup Queued(w)
                          \cup (limit_drops[w] \ last_drops[w])
            /\ metrics_q' = metrics_q
        BY <1>1, <2>8, Zenon DEF WorkerPanic
      <3>2. Queued(w)' = {} /\ PendingReqs(w)' = PendingReqs(w)
        BY <3>1, ReqsEmpty, Zenon DEF Queued, PendingReqs
      <3> QED
        BY <1>1, <1>2, <3>1, <3>2, Zenon DEF SentTo, Handled, Reported
    <2> QED
      BY <2>2, <2>3, <2>4, <2>5, <2>6, <2>7, <2>8 DEF WorkerNext, WorkerLoopStep
  <1> QED
    BY <1>3, <1>4

(* Merging a report keeps what was reported.                               *)
LEMMA CoordKeepsReported ==
    ASSUME CoordStep(failed) \/ SendCommand, UNCHANGED workerOnly, NEW x \in Workers
    PROVE  /\ UNCHANGED <<fire_q, worker_pc, timer_pc, in_flight, collector, limit_drops, lost, failed>>
           /\ Reported(x)' = Reported(x)
  <1>1. UNCHANGED <<fire_q, worker_pc, timer_pc, in_flight, collector, limit_drops, lost, failed>>
    BY Zenon DEF CoordStep, CoordWake, CoordCommand, CoordTick, CoordStop, CoordDrain,
           CoordCollect, CoordFinalDrain, CoordJoin, SendCommand, channelVars, workerOnly
  <1>2. ClearMetrics => PendingReqs(x)' = {}
    BY ReqsEmpty DEF ClearMetrics, PendingReqs
  <1>3. MergeIntoTotal => total'[x] = total[x] \cup PendingReqs(x)
    BY Zenon DEF MergeIntoTotal
  <1>4. MergeIntoTickOnly => excluded'[x] = excluded[x] \cup PendingReqs(x) /\ total' = total
    BY DEF MergeIntoTickOnly
  <1>5. CASE ClearMetrics /\ MergeIntoTotal /\ UNCHANGED excluded
    BY <1>1, <1>2, <1>3, <1>5, Zenon DEF Reported
  <1>6. CASE ClearMetrics /\ MergeIntoTickOnly
    BY <1>1, <1>2, <1>4, <1>6, Zenon DEF Reported
  <1>7. CASE UNCHANGED <<metrics_q, total, excluded>>
    BY <1>1, <1>7, Zenon DEF Reported, PendingReqs
  <1> QED
    BY <1>1, <1>5, <1>6, <1>7, Zenon DEF CoordStep, CoordWake, CoordCommand, CoordTick, CoordStop, CoordDrain,
           CoordCollect, CoordFinalDrain, CoordJoin, SendCommand, channelVars

(* The coordinator sends no request and loses none.                        *)
LEMMA CoordKeepsSent ==
    ASSUME CoordStep(failed) \/ SendCommand, UNCHANGED workerOnly, NEW x \in Workers
    PROVE  SentTo(x)' = SentTo(x)
  BY CoordKeepsReported, Zenon DEF SentTo, Queued, Handled

(* The timer thread sends one new event, or none.                          *)
LEMMA TimerSends ==
    ASSUME CountingInv, TimerNext, UNCHANGED <<workerOnly, coordVars>>, NEW x \in Workers
    PROVE  \/ SentTo(x)' = SentTo(x) /\ (TimerDispatch => x # due)
           \/ TimerDispatch /\ x = due /\ SentTo(x)' = SentTo(x) \cup {next_ev[x]} /\ next_ev[x] \notin SentTo(x)
  <1>0. TypeOK /\ WorkerInv(x)
    BY DEF CountingInv
  <1>1. CountersSame(x)
    BY DEF TimerNext, TimerUpdateRate, TimerTakeControl, TimerForward, TimerStop, TimerPop,
           TimerExhausted, TimerDispatch, TimerDrop, TimerSkip, workerOnly, coordVars, CountersSame
  <1>2. Handled(x)' = Handled(x)
    BY <1>0, <1>1, CountersFrame, Zenon
  <1>3. /\ fire_q \in [Workers -> Seq(FireMsg)] /\ due \in Workers /\ next_ev[x] \in Nat
        /\ forward.msg \in FireMsg /\ forward.msg.kind # "fire"
    BY <1>0 DEF TypeOK, TimerTypeOK, Event, ControlMsg, FireMsg
  <1>4. \A m \in FireMsg : FiresOf(Append(fire_q[x], m)) = FiresOf(fire_q[x]) \cup (IF m.kind = "fire" THEN {m.v} ELSE {})
    BY <1>3, FiresAppend, Zenon
  <1>5. Queued(x) = FiresOf(fire_q[x]) /\ Queued(x)' = FiresOf(fire_q'[x])
    BY Zenon DEF Queued
  <1>6. CASE TimerUpdateRate \/ TimerTakeControl \/ TimerPop \/ TimerDrop \/ TimerSkip
    <2>1. fire_q' = fire_q /\ ~TimerDispatch
      <3>1. CASE TimerUpdateRate \/ TimerTakeControl \/ TimerPop
        BY <3>1, Zenon DEF TimerUpdateRate, TimerTakeControl, TimerPop, TimerDispatch
      <3>2. CASE TimerDrop
        <4>1. ~(FireCap < FireCap)
          BY EngineAssumption DEF EngineAssumption
        <4> QED
          BY <3>2, <4>1, Zenon DEF TimerDrop, TimerDispatch
      <3>3. CASE TimerSkip
        BY <3>3, Zenon DEF TimerSkip, TimerDispatch
      <3> QED
        BY <1>6, <3>1, <3>2, <3>3
    <2> QED
      BY <1>2, <1>5, <2>1, Zenon DEF SentTo
  <1>7. CASE TimerForward
    <2>1. fire_q'[x] = fire_q[x] \/ fire_q'[x] = Append(fire_q[x], forward.msg)
      BY <1>3, <1>7 DEF TimerForward, SendBlocking
    <2>2. Queued(x)' = Queued(x) /\ ~TimerDispatch
      BY <1>3, <1>4, <1>5, <1>7, <2>1, Zenon DEF TimerForward, TimerDispatch
    <2> QED
      BY <1>2, <2>2 DEF SentTo
  <1>8. CASE TimerStop \/ TimerExhausted
    <2>1. fire_q'[x] = fire_q[x] \/ fire_q'[x] = Append(fire_q[x], StopMsg)
      BY <1>3, <1>8, Zenon DEF TimerStop, TimerExhausted, TimerReturn, OfferStop
    <2>2. StopMsg \in FireMsg /\ StopMsg.kind # "fire"
      BY MsgType DEF StopMsg, Msg
    <2>3. Queued(x)' = Queued(x) /\ ~TimerDispatch
      BY <1>4, <1>5, <1>8, <2>1, <2>2, Zenon DEF TimerStop, TimerExhausted, TimerDispatch
    <2> QED
      BY <1>2, <2>3 DEF SentTo
  <1>9. CASE TimerDispatch
    <2>1. CASE x # due
      <3>1. fire_q'[x] = fire_q[x]
        BY <1>3, <1>9, <2>1, Zenon DEF TimerDispatch
      <3> QED
        BY <1>2, <1>5, <2>1, <3>1, Zenon DEF SentTo
    <2>2. CASE x = due
      <3> DEFINE m == Msg("fire", next_ev[x])
      <3>1. fire_q'[x] = Append(fire_q[x], m)
        BY <1>3, <1>9, <2>2, Zenon DEF TimerDispatch
      <3>2. m \in FireMsg /\ m.kind = "fire" /\ m.v = next_ev[x]
        BY <1>3, MsgType, Zenon DEF Msg
      <3> HIDE DEF m
      <3>3. Queued(x)' = Queued(x) \cup {next_ev[x]}
        BY <1>4, <1>5, <3>1, <3>2, Zenon
      <3>4. \A n \in SentTo(x) : n < next_ev[x]
        BY <1>0, Zenon DEF WorkerInv, WorkerOrdered, SentTo
      <3>5. next_ev[x] \notin SentTo(x)
        <4>1. ~(next_ev[x] < next_ev[x])
          <5>1. next_ev[x] \in Nat
            BY <1>3, Zenon
          <5>2. \A n \in Nat : ~(n < n)
            OBVIOUS
          <5> QED
            BY <5>1, <5>2, Zenon
        <4> QED
          BY <3>4, <4>1, Zenon
      <3> QED
        BY <1>2, <1>9, <2>2, <3>3, <3>5 DEF SentTo
    <2> QED
      BY <2>1, <2>2
  <1> QED
    BY <1>6, <1>7, <1>8, <1>9, Zenon DEF TimerNext

(* When no worker's requests change, the requests sent are the same.       *)
LEMMA SentSame ==
    ASSUME \A x \in Workers : SentTo(x)' = SentTo(x)
    PROVE  Sent' = Sent
  <1>1. Sent = UNION {{<<x, n>> : n \in SentTo(x)} : x \in Workers}
    BY Zenon DEF Sent, SentTo
  <1>2. Sent' = UNION {{<<x, n>> : n \in SentTo(x)'} : x \in Workers}
    BY Zenon DEF Sent, SentTo, Workers
  <1> QED
    BY <1>1, <1>2

(* A dispatch adds exactly one request to those sent.                      *)
LEMMA SentOneMore ==
    ASSUME NEW w \in Workers, NEW n, SentTo(w)' = SentTo(w) \cup {n}, n \notin SentTo(w),
           \A x \in Workers : x # w => SentTo(x)' = SentTo(x)
    PROVE  Sent' = Sent \cup {<<w, n>>} /\ <<w, n>> \notin Sent
  <1>1. \A p : p \in Sent <=> \E x \in Workers : \E k \in SentTo(x) : p = <<x, k>>
    <2>1. Sent = UNION {{<<x, k>> : k \in SentTo(x)} : x \in Workers}
      BY Zenon DEF Sent, SentTo
    <2> QED
      BY <2>1
  <1>2. \A p : p \in Sent' <=> \E x \in Workers : \E k \in SentTo(x)' : p = <<x, k>>
    <2>1. Sent' = UNION {{<<x, k>> : k \in SentTo(x)'} : x \in Workers}
      BY Zenon DEF Sent, SentTo, Workers
    <2> QED
      BY <2>1
  <1>3. <<w, n>> \notin Sent
    BY <1>1
  <1>4. ASSUME NEW p \in Sent' PROVE p \in Sent \cup {<<w, n>>}
    BY <1>1, <1>2, <1>4
  <1>5. ASSUME NEW p \in Sent \cup {<<w, n>>} PROVE p \in Sent'
    BY <1>1, <1>2, <1>5
  <1> QED
    BY <1>3, <1>4, <1>5

(* Every step keeps the drop reports apart.                                *)
LEMMA DropsStep ==
    ASSUME EventsInv, [Next]_vars, NEW x \in Workers
    PROVE  WorkerDrops(x)'
  <1>0. TypeOK /\ WorkerDrops(x) /\ \A w \in Workers : last_drops[w] \subseteq limit_drops[w]
    BY DEF EventsInv, CountingInv, WorkerInv
  <1>1. CASE Timer
    <2>1. UNCHANGED <<metrics_q, worker_pc, limit_drops, last_drops, total_drops, excluded_drops>>
      BY <1>1 DEF Timer, TimerNext, TimerUpdateRate, TimerTakeControl, TimerForward, TimerStop, TimerPop,
             TimerExhausted, TimerDispatch, TimerDrop, TimerSkip, workerOnly, coordVars
    <2> QED
      BY <1>0, <2>1, DropsFrame, Zenon
  <1>2. ASSUME NEW w \in Workers, WorkerThread(w) \/ Task(w) \/ Panic(w) PROVE WorkerDrops(x)'
    <2>1. WorkerNext(w) /\ UNCHANGED coordVars
      BY <1>2, Zenon DEF WorkerThread, Task, Panic, WorkerNext
    <2>2. CASE x # w
      <3>1. WorkerSame(x) /\ UNCHANGED <<total_drops, excluded_drops>>
        BY <1>0, <2>1, <2>2, OthersSame, Zenon DEF coordVars
      <3> QED
        BY <1>0, <3>1, DropsFrame, Zenon DEF WorkerSame, CountersSame
    <2>3. CASE x = w
      BY <1>0, <2>1, <2>3, WorkerDropsStep, Zenon
    <2> QED
      BY <2>2, <2>3
  <1>3. CASE Coord \/ Api
    BY <1>0, <1>3, CoordDropsStep DEF Coord, Api
  <1>4. CASE UNCHANGED vars
    BY <1>0, <1>4, DropsFrame, Zenon DEF vars, channelVars, workerVars, coordVars
  <1> QED
    BY <1>1, <1>2, <1>3, <1>4 DEF Next, Finished

(* Every step keeps the dispatch counter equal to the requests sent.       *)
LEMMA SentStep ==
    ASSUME EventsInv, [Next]_vars
    PROVE  IsFiniteSet(Sent)' /\ dispatched' = Cardinality(Sent')
  <1>0. CountingInv /\ TypeOK /\ IsFiniteSet(Sent) /\ dispatched = Cardinality(Sent)
    BY DEF EventsInv, CountingInv
  <1>1. CASE dispatched' = dispatched /\ \A x \in Workers : SentTo(x)' = SentTo(x)
    BY <1>0, <1>1, SentSame
  <1>2. CASE Timer /\ ~TimerDispatch
    <2>1. dispatched' = dispatched
      BY <1>2 DEF Timer, TimerNext, TimerUpdateRate, TimerTakeControl, TimerForward, TimerStop, TimerPop,
             TimerExhausted, TimerReturn, TimerDrop, TimerSkip
    <2> QED
      BY <1>0, <1>1, <1>2, <2>1, TimerSends DEF Timer
  <1>3. CASE Timer /\ TimerDispatch
    <2>1. PICK d \in Workers : d = due
      BY <1>0 DEF TypeOK, TimerTypeOK
    <2>2. SentTo(d)' = SentTo(d) \cup {next_ev[d]} /\ next_ev[d] \notin SentTo(d)
      BY <1>0, <1>3, <2>1, TimerSends DEF Timer
    <2>3. \A x \in Workers : x # d => SentTo(x)' = SentTo(x)
      BY <1>0, <1>3, <2>1, TimerSends DEF Timer
    <2>4. Sent' = Sent \cup {<<d, next_ev[d]>>} /\ <<d, next_ev[d]>> \notin Sent
      BY <2>2, <2>3, SentOneMore
    <2>5. dispatched' = dispatched + 1
      BY <1>3 DEF TimerDispatch
    <2>6. IsFiniteSet(Sent') /\ Cardinality(Sent') = Cardinality(Sent) + 1
      BY <1>0, <2>4, FS_AddElement, Zenon
    <2> QED
      BY <1>0, <2>5, <2>6
  <1>4. ASSUME NEW w \in Workers, WorkerThread(w) \/ Task(w) \/ Panic(w)
        PROVE  IsFiniteSet(Sent)' /\ dispatched' = Cardinality(Sent')
    <2>1. WorkerNext(w) /\ UNCHANGED coordVars /\ dispatched' = dispatched
      BY <1>4, Zenon DEF WorkerThread, Task, Panic, WorkerNext, timerOnly
    <2> QED
      BY <1>0, <1>1, <2>1, WorkerKeepsSent
  <1>5. CASE Coord \/ Api
    BY <1>1, <1>5, CoordKeepsSent DEF Coord, Api, timerOnly
  <1>6. CASE UNCHANGED vars
    BY <1>1, <1>6, Zenon DEF vars, channelVars, timerVars, workerVars, coordVars,
                      SentTo, Queued, Handled, Reported, PendingReqs
  <1> QED
    BY <1>2, <1>3, <1>4, <1>5, <1>6 DEF Next, Finished

(* Nothing is sent, reported or dropped in the initial state.              *)
LEMMA EventsInit == Init => EventsInv
  <1> SUFFICES ASSUME Init PROVE EventsInv
    OBVIOUS
  <1>1. \A w \in Workers :
          /\ fire_q[w] = <<>> /\ metrics_q[w] = <<>> /\ in_flight[w] = {} /\ collector[w] = {}
          /\ limit_drops[w] = {} /\ last_drops[w] = {} /\ lost[w] = {} /\ total[w] = {} /\ excluded[w] = {}
          /\ total_drops[w] = {} /\ excluded_drops[w] = {}
    BY Zenon DEF Init, WorkerInit, CoordInit
  <1>2. \A w \in Workers : PendingReqs(w) = {} /\ PendingDrops(w) = {} /\ Queued(w) = {}
    <2>1. DropsOf(<<>>) = {}
      BY DEF DropsOf
    <2>2. \A w : PendingDrops(w) = DropsOf(metrics_q[w])
      BY DEF PendingDrops, DropsOf
    <2> QED
      BY <1>1, <2>1, <2>2, ReqsEmpty, Zenon DEF PendingReqs, Queued
  <1>3. \A w \in Workers : Queued(w) \cup Handled(w) = {}
    BY <1>1, <1>2, Zenon DEF Handled, Reported
  <1>4. Sent = {} /\ dispatched = 0
    BY <1>3, Zenon DEF Sent, Init, TimerInit
  <1>5. \A w \in Workers : WorkerDrops(w)
    <2>0. DOMAIN <<>> = {}
      OBVIOUS
    <2>1. DropsApart(<<>>) /\ Disjoint({}, {})
      BY <2>0, Zenon DEF DropsApart, Disjoint
    <2>2. {} \cup {} \cup {} = {}
      OBVIOUS
    <2> QED
      BY <1>1, <1>2, <2>1, <2>2, Zenon DEF WorkerDrops
  <1> QED
    BY <1>4, <1>5, CountingInit, FS_EmptySet DEF EventsInv

(* Every step keeps the accounts.                                          *)
LEMMA EventsStep == EventsInv /\ TypeOK' /\ [Next]_vars => EventsInv'
  BY CountingStep, DropsStep, SentStep DEF EventsInv, Workers

(* The counters of timer, workers and coordinator agree in every state:    *)
(* every dispatched request is somewhere, and every refused one is in      *)
(* exactly one report (timer_loop's dispatched, in_flight_drops of         *)
(* io_worker_loop, AggregateMetrics::merge).                               *)
THEOREM NoEventLost == Spec => []EventsAccounted
  <1>1. EventsInv => EventsAccounted
    <2> SUFFICES ASSUME EventsInv, NEW w \in Workers, WorkerDrops(w)
                 PROVE  /\ Disjoint(PendingDrops(w), total_drops[w] \cup excluded_drops[w])
                        /\ Disjoint(total_drops[w], excluded_drops[w])
                        /\ \A i, j \in DOMAIN metrics_q[w] :
                              i # j => Disjoint(metrics_q[w][i].drops, metrics_q[w][j].drops)
                        /\ PendingDrops(w) \cup total_drops[w] \cup excluded_drops[w]
                           = IF worker_pc[w] = "exited" THEN limit_drops[w] ELSE last_drops[w]
      BY Zenon DEF EventsInv, EventsAccounted, DispatchedAccounted, DropsReportedOnce
    <2> QED
      BY Zenon DEF WorkerDrops, DropsApart, Disjoint
  <1>2. Spec => []TypeOK
    BY TypeCorrect
  <1> QED
    BY <1>1, <1>2, EventsInit, EventsStep, PTL DEF Spec

-----------------------------------------------------------------------------
(* A load test ends with a complete result, the lists of the control API   *)
(* reach the workers, and the schedulers follow the rate that was decided  *)
(* last, for every number of workers and every capacity.                   *)

(* How the threads end.  A Stop is the last message of its channel and     *)
(* comes from a timer thread that has returned; a worker out of its loop   *)
(* has an empty channel.                                                   *)
StopsAtEnd(q) == \A i \in DOMAIN q : q[i].kind = "stop" => i = Len(q)
NoStop(q) == \A i \in DOMAIN q : q[i].kind # "stop"

ChannelEnds(w) ==
    /\ StopsAtEnd(fire_q[w]) /\ (~TimerGone => NoStop(fire_q[w]))
    /\ worker_pc[w] \in {"grace", "exited"} => TimerGone
    /\ worker_pc[w] \in {"grace", "exited", "crashed"} => fire_q[w] = <<>>

(* What a worker that did not panic recorded is still to be reported or    *)
(* was, and nothing is left in one that has exited.                        *)
RecordsEnd(w) ==
    /\ worker_pc[w] = "exited" => in_flight[w] = {} /\ collector[w] = {}
    /\ worker_pc[w] # "crashed" => failed[w] \subseteq collector[w] \cup Reported(w)

(* The last drain comes after the joins.                                   *)
CoordEnds(w) ==
    /\ coord_pc \in {"collect", "done"} => TimerGone /\ WorkerGone(w)
    /\ coord_pc = "done" => metrics_q[w] = <<>>

ForwardsControl == timer_pc = "forward" => forward.msg.kind # "stop"

EndInv ==
    /\ EventsInv
    /\ ForwardsControl
    /\ \A w \in Workers : ChannelEnds(w) /\ RecordsEnd(w) /\ CoordEnds(w)

(* A message appended to, or taken from, a channel without an inner Stop.  *)
LEMMA StopAppend ==
    ASSUME NEW q \in Seq(FireMsg), NEW m \in FireMsg, NoStop(q)
    PROVE  /\ StopsAtEnd(Append(q, m))
           /\ m.kind # "stop" => NoStop(Append(q, m))
  <1>1. DOMAIN Append(q, m) = DOMAIN q \cup {Len(q) + 1} /\ Len(Append(q, m)) = Len(q) + 1
    OBVIOUS
  <1>2. \A i \in DOMAIN q : Append(q, m)[i] = q[i]
    OBVIOUS
  <1>3. Append(q, m)[Len(q) + 1] = m
    OBVIOUS
  <1> QED
    BY <1>1, <1>2, <1>3, Zenon DEF StopsAtEnd, NoStop

(* The tail of a channel; a Stop at the head was the only message.         *)
LEMMA StopTail ==
    ASSUME NEW q \in Seq(FireMsg), q # <<>>, StopsAtEnd(q)
    PROVE  /\ StopsAtEnd(Tail(q))
           /\ NoStop(q) => NoStop(Tail(q)) /\ Head(q).kind # "stop"
           /\ Head(q).kind = "stop" => Tail(q) = <<>>
  <1>1. Len(Tail(q)) = Len(q) - 1 /\ Len(q) \in Nat \ {0} /\ DOMAIN Tail(q) = 1 .. (Len(q) - 1)
        /\ DOMAIN q = 1 .. Len(q)
    OBVIOUS
  <1>2. \A i \in DOMAIN Tail(q) : Tail(q)[i] = q[i + 1] /\ i + 1 \in DOMAIN q
    OBVIOUS
  <1>3. Head(q) = q[1] /\ 1 \in DOMAIN q
    BY <1>1
  <1>4. StopsAtEnd(Tail(q))
    BY <1>1, <1>2 DEF StopsAtEnd
  <1>5. NoStop(q) => NoStop(Tail(q)) /\ Head(q).kind # "stop"
    BY <1>2, <1>3 DEF NoStop
  <1>6. Head(q).kind = "stop" => Len(q) = 1
    BY <1>3, Zenon DEF StopsAtEnd
  <1>7. \A s \in Seq(FireMsg) : Len(s) = 0 => s = <<>>
    OBVIOUS
  <1>8. Tail(q) \in Seq(FireMsg) /\ (Len(q) = 1 => Len(Tail(q)) = 0)
    BY <1>1
  <1> QED
    BY <1>4, <1>5, <1>6, <1>7, <1>8

(* An empty channel holds no Stop.                                         *)
LEMMA StopEmpty == StopsAtEnd(<<>>) /\ NoStop(<<>>)
  BY DEF StopsAtEnd, NoStop

(* The timer thread sends only while it runs, and its Stop last.           *)
LEMMA TimerEnds ==
    ASSUME EndInv, TimerNext, UNCHANGED <<workerOnly, coordVars>>, NEW x \in Workers
    PROVE  ChannelEnds(x)' /\ RecordsEnd(x)' /\ CoordEnds(x)' /\ ForwardsControl'
  <1>0. TypeOK /\ ChannelEnds(x) /\ RecordsEnd(x) /\ CoordEnds(x) /\ ForwardsControl
    BY DEF EndInv, EventsInv, CountingInv
  <1>1. /\ fire_q \in [Workers -> Seq(FireMsg)] /\ due \in Workers /\ next_ev[due] \in Nat
        /\ forward.msg \in FireMsg /\ worker_pc[x] \in {"recv", "wait", "drain", "yield", "grace", "exited", "crashed"}
    BY <1>0, MsgType, Zenon DEF TypeOK, TimerTypeOK, WorkerTypeOK, Event
  <1>2. UNCHANGED <<worker_pc, metrics_q>> /\ UNCHANGED <<in_flight, collector, failed, total, excluded, coord_pc>>
    BY DEF TimerNext, TimerUpdateRate, TimerTakeControl, TimerForward, TimerStop, TimerPop,
           TimerExhausted, TimerDispatch, TimerDrop, TimerSkip, workerOnly, coordVars
  <1>3. ~TimerGone
    BY DEF TimerGone, TimerNext, TimerUpdateRate, TimerTakeControl, TimerForward, TimerStop, TimerPop,
           TimerExhausted, TimerDispatch, TimerDrop, TimerSkip
  <1>4. RecordsEnd(x)'
    BY <1>0, <1>2, Zenon DEF RecordsEnd, Reported, PendingReqs
  <1>5. CoordEnds(x)'
    BY <1>0, <1>2, <1>3, Zenon DEF CoordEnds
  <1>6. ForwardsControl'
    <2>1. CASE TimerTakeControl
      BY <2>1, Zenon DEF TimerTakeControl, ForwardsControl
    <2>2. CASE TimerForward
      <3>1. forward'.msg = forward.msg
        BY <1>0, <2>2 DEF TimerForward, TypeOK, TimerTypeOK
      <3> QED
        BY <1>0, <2>2, <3>1 DEF TimerForward, ForwardsControl
    <2> QED
      BY <2>1, <2>2, Zenon DEF TimerNext, TimerUpdateRate, TimerStop, TimerPop,
           TimerExhausted, TimerReturn, TimerDispatch, TimerDrop, TimerSkip, ForwardsControl
  <1>7. NoStop(fire_q[x]) /\ worker_pc[x] \notin {"grace", "exited"} /\ (WorkerGone(x) => fire_q[x] = <<>>)
    BY <1>0, <1>3, Zenon DEF ChannelEnds, WorkerGone
  <1>8. ASSUME fire_q'[x] = fire_q[x] PROVE ChannelEnds(x)'
    BY <1>0, <1>2, <1>7, <1>8, Zenon DEF ChannelEnds
  <1>9. ASSUME NEW m \in FireMsg, fire_q'[x] = Append(fire_q[x], m), ~WorkerGone(x), m.kind = "stop" => TimerGone'
        PROVE  ChannelEnds(x)'
    <2>1. fire_q[x] \in Seq(FireMsg)
      BY <1>1, Zenon
    <2>2. StopsAtEnd(fire_q'[x]) /\ (~TimerGone' => NoStop(fire_q'[x]))
      BY <1>7, <1>9, <2>1, StopAppend, Zenon
    <2> QED
      BY <1>2, <1>7, <1>9, <2>2, Zenon DEF ChannelEnds, WorkerGone
  <1>10. ChannelEnds(x)'
    <2>1. CASE TimerUpdateRate \/ TimerTakeControl \/ TimerPop \/ TimerDrop \/ TimerSkip
      BY <1>8, <2>1, Zenon DEF TimerUpdateRate, TimerTakeControl, TimerPop, TimerDrop, TimerSkip
    <2>2. CASE TimerForward
      <3>1. fire_q'[x] = fire_q[x] \/ (fire_q'[x] = Append(fire_q[x], forward.msg) /\ ~WorkerGone(x))
        BY <1>1, <2>2 DEF TimerForward, SendBlocking
      <3>2. forward.msg.kind # "stop"
        BY <1>0, <2>2 DEF TimerForward, ForwardsControl
      <3> QED
        BY <1>1, <1>8, <1>9, <3>1, <3>2, Zenon
    <2>3. CASE TimerStop \/ TimerExhausted
      <3>1. fire_q'[x] = fire_q[x] \/ (fire_q'[x] = Append(fire_q[x], StopMsg) /\ ~WorkerGone(x))
        BY <1>1, <2>3, Zenon DEF TimerStop, TimerExhausted, TimerReturn, OfferStop
      <3>2. TimerGone'
        BY <2>3 DEF TimerStop, TimerExhausted, TimerReturn, TimerGone
      <3> QED
        BY <1>8, <1>9, <3>1, <3>2, MsgType, Zenon
    <2>4. CASE TimerDispatch
      <3>1. fire_q'[x] = fire_q[x] \/ (fire_q'[x] = Append(fire_q[x], Msg("fire", next_ev[due])) /\ ~WorkerGone(x))
        BY <1>1, <2>4, Zenon DEF TimerDispatch
      <3>2. Msg("fire", next_ev[due]) \in FireMsg /\ Msg("fire", next_ev[due]).kind # "stop"
        BY <1>1, MsgType, Zenon DEF Msg
      <3> QED
        BY <1>8, <1>9, <3>1, <3>2, Zenon
    <2> QED
      BY <2>1, <2>2, <2>3, <2>4 DEF TimerNext
  <1> QED
    BY <1>4, <1>5, <1>6, <1>10

(* A worker leaves its loop with an empty channel and reports what it      *)
(* recorded.                                                               *)
LEMMA WorkerEnds ==
    ASSUME EndInv, NEW w \in Workers, WorkerNext(w), UNCHANGED <<timerOnly, coordVars>>, NEW x \in Workers
    PROVE  ChannelEnds(x)' /\ RecordsEnd(x)' /\ CoordEnds(x)'
  <1>0. /\ TypeOK /\ ChannelEnds(x) /\ RecordsEnd(x) /\ CoordEnds(x) /\ ChannelEnds(w) /\ RecordsEnd(w)
        /\ CoordEnds(w) /\ WorkerInv(w)
    BY DEF EndInv, EventsInv, CountingInv
  <1>1. /\ fire_q \in [Workers -> Seq(FireMsg)] /\ DOMAIN worker_pc = Workers
        /\ in_flight \in [Workers -> SUBSET Event] /\ collector \in [Workers -> SUBSET Event]
        /\ failed \in [Workers -> SUBSET Event]
    BY <1>0, Zenon DEF TypeOK, WorkerTypeOK
  <1>2. timer_pc' = timer_pc /\ UNCHANGED <<coord_pc, total, excluded>> /\ ~WorkerGone(w)
    BY <1>1, Zenon DEF WorkerNext, WorkerLoopStep, WorkerRecv, WorkerSuspend, WorkerDisconnected, WorkerDrain,
                WorkerDrainStop, WorkerResume, WorkerLoop, WorkerExit, TaskComplete, Awaiting, WorkerPanic,
                WorkerGone, coordVars
  <1>3. CoordEnds(x)'
    BY <1>0, <1>2, Zenon DEF CoordEnds
  <1>4. CASE x # w
    <2>1. WorkerSame(x)
      BY <1>0, <1>4, OthersSame
    <2> QED
      BY <1>0, <1>2, <1>3, <2>1, Zenon DEF WorkerSame, CountersSame, ChannelEnds, RecordsEnd, Reported, PendingReqs, TimerGone
  <1>5. CASE x = w
    <2>0. TimerGone' = TimerGone /\ fire_q[w] \in Seq(FireMsg)
      BY <1>1, <1>2 DEF TimerGone
    <2>1. ASSUME Receive(w) PROVE /\ StopsAtEnd(fire_q'[w]) /\ (~TimerGone' => NoStop(fire_q'[w]))
                                  /\ Head(fire_q[w]).kind = "stop" => fire_q'[w] = <<>> /\ TimerGone
      <3>1. fire_q[w] # <<>> /\ fire_q'[w] = Tail(fire_q[w])
        BY <1>1, <2>1 DEF Receive
      <3> QED
        BY <1>0, <2>0, <3>1, StopTail, Zenon DEF ChannelEnds
    <2>2. ASSUME fire_q'[w] = fire_q[w] PROVE StopsAtEnd(fire_q'[w]) /\ (~TimerGone' => NoStop(fire_q'[w]))
      BY <1>0, <2>0, <2>2, Zenon DEF ChannelEnds
    <2>3. ASSUME UNCHANGED <<metrics_q, collector, failed>>, worker_pc'[w] # "exited", worker_pc[w] # "crashed"
          PROVE  RecordsEnd(w)'
      BY <1>0, <1>2, <2>3, Zenon DEF RecordsEnd, Reported, PendingReqs
    <2>4. ASSUME SendSnapshot(w), failed' = failed, worker_pc[w] # "crashed", worker_pc'[w] = "exited" => in_flight'[w] = {}
          PROVE  RecordsEnd(w)'
      <3>1. PendingReqs(w)' = PendingReqs(w) \cup collector[w] /\ collector'[w] = {}
        BY <1>0, <2>4, SnapshotCounting, Zenon
      <3> QED
        BY <1>0, <1>2, <2>4, <3>1, Zenon DEF RecordsEnd, Reported
    <2>5. CASE WorkerRecv(w) \/ WorkerDrain(w)
      <3>1. /\ Receive(w) /\ UNCHANGED <<metrics_q, collector, failed>> /\ worker_pc[w] \in {"recv", "wait", "drain"}
            /\ \/ worker_pc'[w] \in {"drain", "yield"}
               \/ worker_pc'[w] = "grace" /\ Head(fire_q[w]).kind = "stop"
        BY <1>1, <2>5, Zenon DEF WorkerRecv, WorkerDrain
      <3> QED
        BY <1>3, <1>5, <2>0, <2>1, <2>3, <3>1, Zenon DEF ChannelEnds
    <2>6. CASE WorkerSuspend(w) \/ WorkerResume(w) \/ WorkerDisconnected(w)
      <3>1. /\ UNCHANGED <<metrics_q, collector, failed, fire_q>> /\ worker_pc[w] \in {"recv", "wait", "yield"}
            /\ \/ worker_pc'[w] \in {"drain", "wait"}
               \/ worker_pc'[w] = "grace" /\ fire_q[w] = <<>> /\ TimerGone
        BY <1>1, <2>6, Zenon DEF WorkerSuspend, WorkerResume, WorkerDisconnected, channelVars
      <3> QED
        BY <1>3, <1>5, <2>0, <2>2, <2>3, <3>1, Zenon DEF ChannelEnds
    <2>7. CASE WorkerDrainStop(w)
      <3>1. /\ Receive(w) /\ SendSnapshot(w) /\ failed' = failed /\ worker_pc[w] = "drain" /\ worker_pc'[w] = "exited"
            /\ Head(fire_q[w]).kind = "stop" /\ in_flight'[w] = {}
        BY <1>1, <2>7, Zenon DEF WorkerDrainStop, Exit
      <3> QED
        BY <1>3, <1>5, <2>0, <2>1, <2>4, <3>1, Zenon DEF ChannelEnds
    <2>8. CASE WorkerExit(w)
      <3>1. /\ fire_q' = fire_q /\ SendSnapshot(w) /\ failed' = failed /\ worker_pc[w] = "grace" /\ worker_pc'[w] = "exited"
            /\ in_flight'[w] = {}
        BY <1>1, <2>8, Zenon DEF WorkerExit, Exit
      <3> QED
        BY <1>0, <1>3, <1>5, <2>0, <2>2, <2>4, <3>1, Zenon DEF ChannelEnds
    <2>9. CASE WorkerLoop(w)
      <3>1. /\ fire_q' = fire_q /\ failed' = failed /\ worker_pc[w] = "drain" /\ worker_pc'[w] = "recv"
            /\ SendSnapshot(w) \/ UNCHANGED <<metrics_q, collector>>
        BY <1>1, <2>9, Zenon DEF WorkerLoop
      <3> QED
        BY <1>3, <1>5, <2>2, <2>3, <2>4, <3>1, Zenon DEF ChannelEnds
    <2>10. CASE TaskComplete(w)
      <3>1. fire_q' = fire_q /\ metrics_q' = metrics_q /\ worker_pc' = worker_pc /\ worker_pc[w] \in {"wait", "yield", "grace"}
        BY <2>10, Zenon DEF TaskComplete, channelVars, Awaiting
      <3>2. PICK n \in in_flight[w] : /\ collector' = [collector EXCEPT ![w] = @ \cup {n}]
                                      /\ failed' = failed \/ failed' = [failed EXCEPT ![w] = @ \cup {n}]
        BY <2>10, Zenon DEF TaskComplete, Record
      <3>3. failed'[w] \subseteq failed[w] \cup {n} /\ collector'[w] = collector[w] \cup {n}
        BY <1>1, <3>2, Zenon
      <3>4. RecordsEnd(w)'
        BY <1>0, <1>2, <3>1, <3>3, Zenon DEF RecordsEnd, Reported, PendingReqs
      <3> QED
        BY <1>0, <1>3, <1>5, <2>0, <2>2, <3>1, <3>4, Zenon DEF ChannelEnds
    <2>11. CASE WorkerPanic(w)
      <3>1. fire_q'[w] = <<>> /\ worker_pc'[w] = "crashed"
        BY <1>1, <2>11, Zenon DEF WorkerPanic
      <3> QED
        BY <1>3, <1>5, <3>1, StopEmpty, Zenon DEF ChannelEnds, RecordsEnd
    <2> QED
      BY <2>5, <2>6, <2>7, <2>8, <2>9, <2>10, <2>11, Zenon DEF WorkerNext, WorkerLoopStep
  <1> QED
    BY <1>4, <1>5

(* The coordinator takes the last snapshots once all threads have ended.   *)
LEMMA CoordEndsStep ==
    ASSUME EndInv, CoordStep(failed) \/ SendCommand, UNCHANGED <<timerOnly, workerOnly>>, NEW x \in Workers
    PROVE  ChannelEnds(x)' /\ RecordsEnd(x)' /\ CoordEnds(x)' /\ ForwardsControl'
  <1>0. ChannelEnds(x) /\ RecordsEnd(x) /\ CoordEnds(x) /\ ForwardsControl
    BY DEF EndInv
  <1>1. /\ UNCHANGED <<fire_q, worker_pc, timer_pc, in_flight, collector, limit_drops, lost, failed>>
        /\ Reported(x)' = Reported(x) /\ forward' = forward
    BY CoordKeepsReported DEF timerOnly
  <1>2. ChannelEnds(x)' /\ RecordsEnd(x)' /\ ForwardsControl'
    BY <1>0, <1>1, Zenon DEF ChannelEnds, RecordsEnd, ForwardsControl, TimerGone
  <1>3. WorkerGone(x)' = WorkerGone(x) /\ TimerGone' = TimerGone
    BY <1>1 DEF WorkerGone, TimerGone
  <1>4. CoordEnds(x)'
    <2>1. CASE CoordWake \/ CoordCommand \/ CoordTick(failed) \/ CoordStop \/ CoordDrain
      <3>1. coord_pc' \notin {"collect", "done"}
        BY <2>1 DEF CoordWake, CoordCommand, CoordTick, CoordStop, CoordDrain, CoordFinalDrain
      <3> QED
        BY <3>1, Zenon DEF CoordEnds
    <2>2. CASE CoordJoin
      BY <1>3, <2>2, Zenon DEF CoordJoin, ThreadsEnded, CoordEnds
    <2>3. CASE CoordCollect
      <3>1. metrics_q'[x] = <<>> /\ coord_pc = "collect"
        BY <2>3 DEF CoordCollect, CoordFinalDrain, ClearMetrics
      <3> QED
        BY <1>0, <1>3, <3>1, Zenon DEF CoordEnds
    <2>4. CASE SendCommand
      BY <1>0, <1>3, <2>4 DEF SendCommand, channelVars, CoordEnds
    <2> QED
      BY <2>1, <2>2, <2>3, <2>4 DEF CoordStep
  <1> QED
    BY <1>2, <1>4

(* The ends of the threads, in the initial state.                          *)
LEMMA EndInit == Init => EndInv
  <1> SUFFICES ASSUME Init PROVE EndInv
    OBVIOUS
  <1>1. \A w \in Workers : fire_q[w] = <<>> /\ failed[w] = {} /\ worker_pc[w] = "recv"
    BY DEF Init, WorkerInit
  <1>2. coord_pc = "sleep" /\ timer_pc = "drain"
    BY Zenon DEF Init, CoordInit, TimerInit
  <1>3. \A w \in Workers : ChannelEnds(w) /\ RecordsEnd(w) /\ CoordEnds(w)
    BY <1>1, <1>2, StopEmpty, Zenon DEF ChannelEnds, RecordsEnd, CoordEnds
  <1> QED
    BY <1>2, <1>3, EventsInit DEF EndInv, ForwardsControl

(* Every step keeps how the threads end.                                   *)
LEMMA EndStep == EndInv /\ TypeOK' /\ [Next]_vars => EndInv'
  <1> SUFFICES ASSUME EndInv, TypeOK', [Next]_vars PROVE EndInv'
    OBVIOUS
  <1>1. EventsInv'
    BY EventsStep DEF EndInv
  <1>2. SUFFICES ForwardsControl' /\ \A x \in Workers : ChannelEnds(x)' /\ RecordsEnd(x)' /\ CoordEnds(x)'
    BY <1>1 DEF EndInv, Workers
  <1>3. CASE Timer
    <2>1. 1 \in Workers
      BY EngineAssumption DEF EngineAssumption, Workers
    <2> QED
      BY <1>3, <2>1, TimerEnds DEF Timer
  <1>4. ASSUME NEW w \in Workers, WorkerThread(w) \/ Task(w) \/ Panic(w)
        PROVE  ForwardsControl' /\ \A x \in Workers : ChannelEnds(x)' /\ RecordsEnd(x)' /\ CoordEnds(x)'
    <2>1. WorkerNext(w) /\ UNCHANGED <<timerOnly, coordVars>>
      BY <1>4, Zenon DEF WorkerThread, Task, Panic, WorkerNext
    <2>2. timer_pc' = timer_pc /\ forward' = forward
      BY <2>1, Zenon DEF WorkerNext, WorkerLoopStep, WorkerRecv, WorkerSuspend, WorkerDisconnected, WorkerDrain,
                  WorkerDrainStop, WorkerResume, WorkerLoop, WorkerExit, TaskComplete, WorkerPanic, timerOnly
    <2> QED
      BY <2>1, <2>2, WorkerEnds, Zenon DEF EndInv, ForwardsControl
  <1>5. CASE Coord \/ Api
    <2>1. 1 \in Workers
      BY EngineAssumption DEF EngineAssumption, Workers
    <2> QED
      BY <1>5, <2>1, CoordEndsStep DEF Coord, Api
  <1>6. CASE UNCHANGED vars
    BY <1>6, Zenon DEF EndInv, vars, channelVars, timerVars, workerVars, coordVars, ChannelEnds, RecordsEnd, CoordEnds,
                ForwardsControl, Reported, PendingReqs, TimerGone, WorkerGone
  <1> QED
    BY <1>3, <1>4, <1>5, <1>6, Zenon DEF Next, Finished

(* When run() returns, the result holds every request that was recorded    *)
(* by a worker that did not panic and every drop that it counted, and the  *)
(* channels are empty (collect_final_metrics after the joins).             *)
THEOREM ResultComplete == Spec => []FinalResultComplete
  <1>1. EndInv => FinalResultComplete
    <2> SUFFICES ASSUME EndInv, coord_pc = "done", NEW w \in Workers
                 PROVE  /\ fire_q[w] = <<>> /\ metrics_q[w] = <<>>
                        /\ worker_pc[w] = "exited" =>
                              /\ failed[w] \subseteq total[w] \cup excluded[w]
                              /\ Handled(w) = total[w] \cup excluded[w] \cup limit_drops[w] \cup lost[w]
                              /\ limit_drops[w] = total_drops[w] \cup excluded_drops[w]
      BY Zenon DEF FinalResultComplete
    <2>1. ChannelEnds(w) /\ RecordsEnd(w) /\ CoordEnds(w) /\ WorkerDrops(w)
      BY DEF EndInv, EventsInv
    <2>2. fire_q[w] = <<>> /\ metrics_q[w] = <<>>
      BY <2>1, Zenon DEF ChannelEnds, CoordEnds, WorkerGone
    <2>3. PendingReqs(w) = {} /\ PendingDrops(w) = {}
      <3>1. DropsOf(<<>>) = {} /\ PendingDrops(w) = DropsOf(metrics_q[w])
        BY DEF DropsOf, PendingDrops
      <3> QED
        BY <2>2, <3>1, ReqsEmpty, Zenon DEF PendingReqs
    <2> QED
      BY <2>1, <2>2, <2>3, Zenon DEF RecordsEnd, WorkerDrops, Handled, Reported
  <1>2. Spec => []TypeOK
    BY TypeCorrect
  <1> QED
    BY <1>1, <1>2, EndInit, EndStep, PTL DEF Spec

-----------------------------------------------------------------------------
(* The list of kind k that a worker with channel q and list x will end up  *)
(* with is v: v is the last of its kind in q, or is x when q has none.     *)
Settles(q, k, x, v) ==
    \/ x = v /\ \A i \in DOMAIN q : q[i].kind # k
    \/ \E i \in DOMAIN q : /\ q[i].kind = k /\ q[i].v = v
                           /\ \A j \in DOMAIN q : j > i => q[j].kind # k

(* The message being forwarded has been sent to worker w.                  *)
Forwarded(w) == worker_pc[w] # "crashed" /\ (timer_pc = "forward" => w < forward.to)

Delivered(w, k, x) ==
    forward.msg.kind = k /\ Forwarded(w) => Settles(fire_q[w], k, x, forward.msg.v)

WorkerControl(w) == Delivered(w, "targets", targets[w]) /\ Delivered(w, "metadata", metadata[w])

ControlInv == EndInv /\ \A w \in Workers : WorkerControl(w)

(* A message appended to the channel: one of another kind leaves the       *)
(* outcome, one of the kind decides it.                                    *)
LEMMA SettlesAppend ==
    ASSUME NEW S, NEW q \in Seq(S), NEW m \in S, NEW k, NEW x, NEW v
    PROVE  /\ m.kind # k /\ Settles(q, k, x, v) => Settles(Append(q, m), k, x, v)
           /\ m.kind = k => Settles(Append(q, m), k, x, m.v)
  <1>1. DOMAIN Append(q, m) = 1 .. (Len(q) + 1) /\ DOMAIN q = 1 .. Len(q) /\ Len(q) \in Nat
    OBVIOUS
  <1>2. \A i \in DOMAIN q : Append(q, m)[i] = q[i]
    OBVIOUS
  <1>3. Append(q, m)[Len(q) + 1] = m
    OBVIOUS
  <1>4. \A i \in DOMAIN Append(q, m) : i \in DOMAIN q \/ i = Len(q) + 1
    BY <1>1
  <1>5. ASSUME m.kind # k, Settles(q, k, x, v) PROVE Settles(Append(q, m), k, x, v)
    <2>1. CASE x = v /\ \A i \in DOMAIN q : q[i].kind # k
      BY <1>2, <1>3, <1>4, <1>5, <2>1, Zenon DEF Settles
    <2>2. ASSUME NEW i \in DOMAIN q, q[i].kind = k, q[i].v = v, \A j \in DOMAIN q : j > i => q[j].kind # k
          PROVE  Settles(Append(q, m), k, x, v)
      <3>1. i \in DOMAIN Append(q, m) /\ Append(q, m)[i].kind = k /\ Append(q, m)[i].v = v
        <4>1. \A l \in Nat : \A j \in 1..l : j \in 1..(l + 1)
          OBVIOUS
        <4> QED
          BY <1>1, <1>2, <2>2, <4>1, Zenon
      <3>2. \A j \in DOMAIN Append(q, m) : j > i => Append(q, m)[j].kind # k
        BY <1>2, <1>3, <1>4, <1>5, <2>2, Zenon
      <3> QED
        BY <3>1, <3>2, Zenon DEF Settles
    <2> QED
      BY <1>5, <2>1, <2>2, Zenon DEF Settles
  <1>6. ASSUME m.kind = k PROVE Settles(Append(q, m), k, x, m.v)
    <2>1. Len(q) + 1 \in DOMAIN Append(q, m)
      BY <1>1
    <2>2. \A j \in DOMAIN Append(q, m) : ~(j > Len(q) + 1)
      BY <1>1
    <2> QED
      BY <1>3, <1>6, <2>1, <2>2, Zenon DEF Settles
  <1> QED
    BY <1>5, <1>6

(* Applying the head of the channel leaves the outcome.                    *)
LEMMA SettlesTail ==
    ASSUME NEW S, NEW q \in Seq(S), q # <<>>, NEW k, NEW x, NEW v, Settles(q, k, x, v)
    PROVE  Settles(Tail(q), k, IF Head(q).kind = k THEN Head(q).v ELSE x, v)
  <1>1. DOMAIN Tail(q) = 1 .. (Len(q) - 1) /\ DOMAIN q = 1 .. Len(q) /\ Len(q) \in Nat \ {0}
    OBVIOUS
  <1>2. \A i \in DOMAIN Tail(q) : Tail(q)[i] = q[i + 1] /\ i + 1 \in DOMAIN q /\ i + 1 > 1
    BY <1>1
  <1>3. Head(q) = q[1] /\ 1 \in DOMAIN q
    BY <1>1
  <1>4. CASE x = v /\ \A i \in DOMAIN q : q[i].kind # k
    BY <1>2, <1>3, <1>4, Zenon DEF Settles
  <1>5. ASSUME NEW i \in DOMAIN q, q[i].kind = k, q[i].v = v, \A j \in DOMAIN q : j > i => q[j].kind # k
        PROVE  Settles(Tail(q), k, IF Head(q).kind = k THEN Head(q).v ELSE x, v)
    <2>1. CASE i = 1
      <3>1. \A j \in DOMAIN Tail(q) : Tail(q)[j].kind # k
        BY <1>2, <1>5, <2>1, Zenon
      <3> QED
        BY <1>3, <1>5, <2>1, <3>1, Zenon DEF Settles
    <2>2. CASE i # 1
      <3>1. i - 1 \in DOMAIN Tail(q) /\ Tail(q)[i - 1] = q[i]
        BY <1>1, <1>2, <2>2
      <3>2. \A j \in DOMAIN Tail(q) : j > i - 1 => Tail(q)[j].kind # k
        <4>1. \A j \in DOMAIN Tail(q) : j > i - 1 => j + 1 > i
          BY <1>1
        <4> QED
          BY <1>2, <1>5, <4>1
      <3> QED
        BY <1>5, <3>1, <3>2, Zenon DEF Settles
    <2> QED
      BY <2>1, <2>2, Zenon
  <1> QED
    BY <1>4, <1>5, Zenon DEF Settles

(* Forwarding a message to a worker settles its list; nothing else that    *)
(* the timer thread sends is of its kind.                                  *)
LEMMA TimerControl ==
    ASSUME EndInv, TimerNext, NEW x \in Workers, NEW k \in {"targets", "metadata"}, NEW y, Delivered(x, k, y)
    PROVE  Delivered(x, k, y)'
  <1>0. TypeOK /\ ChannelEnds(x)
    BY DEF EndInv, EventsInv, CountingInv
  <1>1. /\ fire_q \in [Workers -> Seq(FireMsg)] /\ due \in Workers /\ next_ev[due] \in Nat /\ x \in Nat
        /\ forward \in [msg : ControlMsg, to : Nat] /\ forward.msg \in FireMsg
        /\ x >= 1 /\ x <= NumWorkers /\ NumWorkers \in Nat
    <2>1. /\ fire_q \in [Workers -> Seq(FireMsg)] /\ due \in Workers /\ next_ev \in [Workers -> Nat]
          /\ forward \in [msg : ControlMsg, to : Nat]
      BY <1>0, Zenon DEF TypeOK, TimerTypeOK, Event
    <2>2. forward.msg \in ControlMsg
      BY <2>1
    <2>3. forward.msg \in FireMsg
      BY <2>2, MsgType, Zenon
    <2>4. NumWorkers \in Nat
      BY EngineAssumption DEF EngineAssumption
    <2>5. x \in Nat /\ x >= 1 /\ x <= NumWorkers
      BY <2>4 DEF Workers
    <2> QED
      BY <2>1, <2>3, <2>4, <2>5, Zenon
  <1>2. worker_pc' = worker_pc
    BY DEF TimerNext, TimerUpdateRate, TimerTakeControl, TimerForward, TimerStop, TimerPop,
           TimerExhausted, TimerDispatch, TimerDrop, TimerSkip
  <1>3. fire_q[x] \in Seq(FireMsg)
    BY <1>1
  <1>4. ASSUME forward' = forward, Forwarded(x)' => Forwarded(x), fire_q'[x] = fire_q[x]
        PROVE  Delivered(x, k, y)'
    BY <1>4, Zenon DEF Delivered
  <1>5. ASSUME forward' = forward, Forwarded(x)' => Forwarded(x), NEW m \in FireMsg, m.kind # k,
               fire_q'[x] = Append(fire_q[x], m)
        PROVE  Delivered(x, k, y)'
    BY <1>3, <1>5, SettlesAppend, Zenon DEF Delivered
  <1>6. CASE TimerUpdateRate \/ TimerPop \/ TimerDrop \/ TimerSkip
    <2>1. forward' = forward /\ fire_q' = fire_q /\ timer_pc # "forward"
      BY <1>6, Zenon DEF TimerUpdateRate, TimerPop, TimerDrop, TimerSkip
    <2> QED
      BY <1>2, <1>4, <2>1 DEF Forwarded
  <1>7. CASE TimerTakeControl
    <2>1. timer_pc' = "forward" /\ forward'.to = 1
      BY <1>7, Zenon DEF TimerTakeControl
    <2>2. ~(x < 1)
      BY <1>1
    <2> QED
      BY <2>1, <2>2, Zenon DEF Delivered, Forwarded
  <1>8. CASE TimerForward
    <2>1. /\ forward'.msg = forward.msg /\ forward'.to = forward.to + 1
          /\ timer_pc = "forward" /\ timer_pc' = IF forward.to = NumWorkers THEN "drain" ELSE "forward"
      BY <1>1, <1>8 DEF TimerForward
    <2>2. SUFFICES ASSUME forward.msg.kind = k, Forwarded(x)'
                   PROVE  Settles(fire_q'[x], k, y, forward.msg.v)
      BY <2>1, Zenon DEF Delivered
    <2>3. x <= forward.to /\ worker_pc[x] # "crashed" /\ forward.to \in Nat
      <3>1. worker_pc[x] # "crashed" /\ (timer_pc' = "forward" => x < forward'.to)
        BY <1>2, <2>2, Zenon DEF Forwarded
      <3>2. forward.to \in Nat /\ x \in Nat /\ x <= NumWorkers
        BY <1>1
      <3>3. timer_pc' = "forward" \/ forward.to = NumWorkers
        BY <2>1, Zenon
      <3>4. timer_pc' = "forward" => x < forward.to + 1
        BY <2>1, <3>1, Zenon
      <3> QED
        BY <3>1, <3>2, <3>3, <3>4
    <2>4. CASE x = forward.to
      <3>1. ~WorkerGone(x)
        BY <1>0, <2>1, <2>3, Zenon DEF WorkerGone, ChannelEnds, TimerGone
      <3>2. fire_q'[x] = Append(fire_q[x], forward.msg)
        BY <1>1, <1>8, <2>4, <3>1 DEF TimerForward, SendBlocking
      <3>3. Settles(Append(fire_q[x], forward.msg), k, y, forward.msg.v)
        BY <1>1, <1>3, <2>2, SettlesAppend, Zenon
      <3> QED
        BY <3>2, <3>3
    <2>5. CASE x # forward.to
      <3>1. fire_q'[x] = fire_q[x]
        BY <1>1, <1>8, <2>5 DEF TimerForward, SendBlocking
      <3>2. Forwarded(x)
        BY <1>1, <2>3, <2>5 DEF Forwarded
      <3> QED
        BY <2>2, <3>1, <3>2, Zenon DEF Delivered
    <2> QED
      BY <2>4, <2>5, Zenon
  <1>9. CASE TimerStop \/ TimerExhausted
    <2>1. fire_q'[x] = fire_q[x] \/ fire_q'[x] = Append(fire_q[x], StopMsg)
      BY <1>1, <1>9, Zenon DEF TimerStop, TimerExhausted, TimerReturn, OfferStop
    <2>2. forward' = forward /\ timer_pc # "forward" /\ StopMsg.kind # k
      BY <1>9, Zenon DEF TimerStop, TimerExhausted, TimerReturn, StopMsg, Msg
    <2> QED
      BY <1>2, <1>4, <1>5, <2>1, <2>2, MsgType, Zenon DEF Forwarded
  <1>10. CASE TimerDispatch
    <2>1. fire_q'[x] = fire_q[x] \/ fire_q'[x] = Append(fire_q[x], Msg("fire", next_ev[due]))
      BY <1>1, <1>10, Zenon DEF TimerDispatch
    <2>2. Msg("fire", next_ev[due]) \in FireMsg /\ Msg("fire", next_ev[due]).kind # k
      BY <1>1, MsgType, Zenon DEF Msg
    <2>3. forward' = forward /\ timer_pc # "forward"
      BY <1>10 DEF TimerDispatch
    <2> QED
      BY <1>2, <1>4, <1>5, <2>1, <2>2, <2>3, Zenon DEF Forwarded
  <1> QED
    BY <1>6, <1>7, <1>8, <1>9, <1>10 DEF TimerNext

(* A worker's step keeps what its list of one kind settles to.             *)
LEMMA SettleStep ==
    ASSUME TypeOK, NEW w \in Workers, NEW k, NEW x, NEW y, NEW v, Settles(fire_q[w], k, x, v),
           \/ /\ fire_q[w] # <<>> /\ fire_q'[w] = Tail(fire_q[w])
              /\ y = IF Head(fire_q[w]).kind = k THEN Head(fire_q[w]).v ELSE x
           \/ fire_q'[w] = fire_q[w] /\ y = x
    PROVE  Settles(fire_q'[w], k, y, v)
  <1>1. fire_q[w] \in Seq(FireMsg)
    BY Zenon DEF TypeOK
  <1> QED
    BY <1>1, SettlesTail, Zenon

(* Every step keeps what the control messages settle to.                   *)
LEMMA ControlStep ==
    ASSUME ControlInv, [Next]_vars, NEW x \in Workers
    PROVE  WorkerControl(x)'
  <1>0. EndInv /\ TypeOK /\ WorkerControl(x)
    BY DEF ControlInv, EndInv, EventsInv, CountingInv
  <1>1. ASSUME UNCHANGED <<forward, timer_pc>>, fire_q'[x] = fire_q[x], worker_pc'[x] = worker_pc[x], KeepsLists(x)
        PROVE  WorkerControl(x)'
    BY <1>0, <1>1, Zenon DEF WorkerControl, Delivered, Forwarded, KeepsLists
  <1>2. CASE Timer
    <2>1. TimerNext /\ targets' = targets /\ metadata' = metadata
      BY <1>2 DEF Timer, workerOnly
    <2>2. PICK t, d : t = targets[x] /\ d = metadata[x]
      OBVIOUS
    <2>3. Delivered(x, "targets", t) /\ Delivered(x, "metadata", d)
      BY <1>0, <2>2, Zenon DEF WorkerControl
    <2>4. Delivered(x, "targets", t)' /\ Delivered(x, "metadata", d)'
      BY <1>0, <2>1, <2>3, TimerControl
    <2> QED
      BY <2>1, <2>2, <2>4, Zenon DEF WorkerControl
  <1>3. ASSUME NEW w \in Workers, WorkerThread(w) \/ Task(w) \/ Panic(w) PROVE WorkerControl(x)'
    <2>1. WorkerNext(w) /\ UNCHANGED <<timerOnly, coordVars>>
      BY <1>3, Zenon DEF WorkerThread, Task, Panic, WorkerNext
    <2>2. timer_pc' = timer_pc /\ forward' = forward
      BY <2>1, Zenon DEF WorkerNext, WorkerLoopStep, WorkerRecv, WorkerSuspend, WorkerDisconnected, WorkerDrain,
                  WorkerDrainStop, WorkerResume, WorkerLoop, WorkerExit, TaskComplete, WorkerPanic, timerOnly
    <2>3. CASE x # w
      <3>1. WorkerSame(x)
        BY <1>0, <2>1, <2>3, OthersSame
      <3> QED
        BY <1>1, <2>2, <3>1, Zenon DEF WorkerSame, KeepsLists
    <2>4. CASE x = w
      <3>1. CASE worker_pc'[w] = "crashed"
        BY <2>4, <3>1, Zenon DEF WorkerControl, Delivered, Forwarded
      <3>2. CASE worker_pc'[w] # "crashed"
        <4>1. TakesHead(w) \/ (KeepsLists(w) /\ fire_q'[w] = fire_q[w])
          BY <1>0, <2>1, <3>2, WorkerLists, Zenon
        <4>2. Forwarded(w)' => Forwarded(w)
          BY <1>0, <2>1, <2>2, WorkerLists, Zenon DEF Forwarded
        <4>3. ASSUME Settles(fire_q[w], "targets", targets[w], forward.msg.v)
              PROVE  Settles(fire_q'[w], "targets", targets'[w], forward.msg.v)
          BY <1>0, <4>1, <4>3, SettleStep, Zenon DEF TakesHead, KeepsLists
        <4>4. ASSUME Settles(fire_q[w], "metadata", metadata[w], forward.msg.v)
              PROVE  Settles(fire_q'[w], "metadata", metadata'[w], forward.msg.v)
          BY <1>0, <4>1, <4>4, SettleStep, Zenon DEF TakesHead, KeepsLists
        <4> QED
          BY <1>0, <2>2, <2>4, <4>2, <4>3, <4>4, Zenon DEF WorkerControl, Delivered
      <3> QED
        BY <3>1, <3>2
    <2> QED
      BY <2>3, <2>4
  <1>4. CASE Coord \/ Api
    <2>1. UNCHANGED <<fire_q, worker_pc, timer_pc>>
      BY <1>4, CoordKeepsReported DEF Coord, Api
    <2> QED
      BY <1>1, <1>4, <2>1, Zenon DEF Coord, Api, timerOnly, workerOnly, KeepsLists
  <1>5. CASE UNCHANGED vars
    BY <1>1, <1>5, Zenon DEF vars, channelVars, timerVars, workerVars, KeepsLists
  <1> QED
    BY <1>2, <1>3, <1>4, <1>5 DEF Next, Finished

(* A worker that leaves its loop has applied the last target list and the  *)
(* last header list that the timer thread forwarded, even when the Stop    *)
(* did not fit into its channel (timer_loop's forwarding of                *)
(* UpdateTargets and UpdateMetadata, handle_message).                      *)
THEOREM ControlArrives == Spec => []ControlApplied
  <1>1. Init => ControlInv
    <2> SUFFICES ASSUME Init, NEW w \in Workers PROVE WorkerControl(w)
      BY EndInit DEF ControlInv
    <2>1. forward.msg.kind = "stop"
      BY Zenon DEF Init, TimerInit, StopMsg, Msg
    <2> QED
      BY <2>1, Zenon DEF WorkerControl, Delivered
  <1>2. ControlInv /\ TypeOK' /\ [Next]_vars => ControlInv'
    BY EndStep, ControlStep DEF ControlInv, Workers
  <1>3. ControlInv => ControlApplied
    <2> SUFFICES ASSUME ControlInv, NEW w \in Workers, worker_pc[w] = "exited", TimerGone
                 PROVE  /\ forward.msg.kind = "targets" => targets[w] = forward.msg.v
                        /\ forward.msg.kind = "metadata" => metadata[w] = forward.msg.v
      BY Zenon DEF ControlApplied
    <2>1. fire_q[w] = <<>> /\ Forwarded(w) /\ WorkerControl(w)
      BY Zenon DEF ControlInv, EndInv, ChannelEnds, Forwarded, TimerGone
    <2>2. \A k, x, v : Settles(<<>>, k, x, v) => x = v
      BY NoPositions, Zenon DEF Settles
    <2> QED
      BY <2>1, <2>2, Zenon DEF WorkerControl, Delivered
  <1>4. Spec => []TypeOK
    BY TypeCorrect
  <1> QED
    BY <1>1, <1>2, <1>3, <1>4, PTL DEF Spec

-----------------------------------------------------------------------------
(* The schedulers share one rate, and between two ticks the commands that  *)
(* wait for the timer thread settle it to the decided one.                 *)
RateInv ==
    \E r \in Nat :
        /\ \A w \in Workers : sched_rate[w] = PerWorker(r)
        /\ coord_pc = "sleep" /\ ~TimerGone => Settles(cmd_q, "rate", r, target_rps)

(* The greatest element of a set of numbers.                               *)
LEMMA MaxIs == ASSUME NEW S \in SUBSET Nat, NEW m \in S, \A y \in S : m >= y PROVE Max(S) = m
  <1>1. \A x \in S : (\A y \in S : x >= y) => x = m
    OBVIOUS
  <1> QED
    BY <1>1, Zenon DEF Max

(* Every step of the timer thread keeps the rate that will be in force.    *)
LEMMA TimerRate ==
    ASSUME TypeOK, RateInv, Timer
    PROVE  RateInv'
  <1>1. PICK r \in Nat : /\ \A w \in Workers : sched_rate[w] = PerWorker(r)
                         /\ coord_pc = "sleep" /\ ~TimerGone => Settles(cmd_q, "rate", r, target_rps)
    BY DEF RateInv
  <1>2. coord_pc' = coord_pc /\ target_rps' = target_rps /\ cmd_q \in Seq(TimerCommand)
    BY Zenon DEF Timer, coordVars, TypeOK
  <1>3. ASSUME sched_rate' = sched_rate, cmd_q' = cmd_q, TimerGone => TimerGone' PROVE RateInv'
    BY <1>1, <1>2, <1>3, Zenon DEF RateInv
  <1>4. CASE TimerUpdateRate
    <2>1. cmd_q # <<>> /\ Head(cmd_q).kind = "rate" /\ cmd_q' = Tail(cmd_q) /\ timer_pc' = timer_pc
      BY <1>4 DEF TimerUpdateRate
    <2>2. Head(cmd_q) \in TimerCommand
      BY <1>2, <2>1, HeadTail
    <2>3. Head(cmd_q).v \in Nat
      BY <2>2 DEF TimerCommand
    <2>4. \A w \in Workers : sched_rate'[w] = PerWorker(Head(cmd_q).v)
      BY <1>4, Zenon DEF TimerUpdateRate
    <2>5. coord_pc = "sleep" /\ ~TimerGone => Settles(Tail(cmd_q), "rate", Head(cmd_q).v, target_rps)
      <3> SUFFICES ASSUME Settles(cmd_q, "rate", r, target_rps)
                   PROVE  Settles(Tail(cmd_q), "rate", Head(cmd_q).v, target_rps)
        BY <1>1
      <3>1. Settles(Tail(cmd_q), "rate", IF Head(cmd_q).kind = "rate" THEN Head(cmd_q).v ELSE r, target_rps)
        BY <1>2, <2>1, SettlesTail
      <3> QED
        BY <2>1, <3>1
    <2> QED
      BY <1>2, <2>1, <2>3, <2>4, <2>5, Zenon DEF RateInv, TimerGone
  <1>5. CASE TimerTakeControl
    <2>1. cmd_q # <<>> /\ Head(cmd_q).kind # "rate" /\ cmd_q' = Tail(cmd_q) /\ sched_rate' = sched_rate /\ ~TimerGone
      BY <1>5, Zenon DEF TimerTakeControl, TimerGone
    <2>2. coord_pc = "sleep" => Settles(Tail(cmd_q), "rate", r, target_rps)
      <3> SUFFICES ASSUME Settles(cmd_q, "rate", r, target_rps)
                   PROVE  Settles(Tail(cmd_q), "rate", r, target_rps)
        BY <1>1, <2>1
      <3>1. Settles(Tail(cmd_q), "rate", IF Head(cmd_q).kind = "rate" THEN Head(cmd_q).v ELSE r, target_rps)
        BY <1>2, <2>1, SettlesTail
      <3> QED
        BY <2>1, <3>1
    <2> QED
      BY <1>1, <1>2, <2>1, <2>2, Zenon DEF RateInv
  <1>6. CASE TimerForward \/ TimerPop \/ TimerDispatch \/ TimerDrop \/ TimerSkip
    BY <1>3, <1>6 DEF TimerForward, TimerPop, TimerDispatch, TimerDrop, TimerSkip, TimerGone
  <1>7. CASE TimerStop \/ TimerExhausted
    <2>1. TimerGone' /\ sched_rate' = sched_rate
      BY <1>7, Zenon DEF TimerStop, TimerExhausted, TimerReturn, TimerGone
    <2> QED
      BY <1>1, <2>1 DEF RateInv
  <1> QED
    BY <1>4, <1>5, <1>6, <1>7 DEF Timer, TimerNext

(* A tick sends the decided rate after all that was sent before.           *)
LEMMA CoordRate ==
    ASSUME TypeOK, TypeOK', RateInv, Coord
    PROVE  RateInv'
  <1>1. PICK r \in Nat : /\ \A w \in Workers : sched_rate[w] = PerWorker(r)
                         /\ coord_pc = "sleep" /\ ~TimerGone => Settles(cmd_q, "rate", r, target_rps)
    BY DEF RateInv
  <1>2. sched_rate' = sched_rate
    BY DEF Coord, timerOnly
  <1>3. ASSUME coord_pc' # "sleep" PROVE RateInv'
    BY <1>1, <1>2, <1>3 DEF RateInv
  <1>4. CASE CoordWake \/ CoordCommand \/ CoordStop \/ CoordDrain \/ CoordJoin \/ CoordCollect
    BY <1>3, <1>4 DEF CoordWake, CoordCommand, CoordStop, CoordDrain, CoordCollect, CoordFinalDrain, CoordJoin
  <1>5. CASE CoordTick(failed)
    <2> DEFINE m == Msg("rate", target_rps')
    <2>1. cmd_q' = SendTimer(m) /\ timer_pc' = timer_pc /\ target_rps' \in Nat
      BY <1>5, Zenon DEF CoordTick, DistributeRate, TypeOK, CoordTypeOK
    <2>2. m \in TimerCommand /\ m.kind = "rate" /\ m.v = target_rps' /\ cmd_q \in Seq(TimerCommand)
      BY <2>1, MsgType, Zenon DEF Msg, TypeOK
    <2> HIDE DEF m
    <2>3. ~TimerGone => Settles(cmd_q', "rate", r, target_rps')
      BY <2>1, <2>2, SettlesAppend DEF SendTimer
    <2> QED
      BY <1>1, <1>2, <2>1, <2>3, Zenon DEF RateInv, TimerGone
  <1> QED
    BY <1>4, <1>5 DEF Coord, CoordStep

(* Between two ticks the schedulers run at their share of the rate that    *)
(* the last tick decided, or the last rate command that waits for the      *)
(* timer thread sets it (distribute_rate, timer_loop's UpdateRate).        *)
THEOREM RateDecided == Spec => []RateFollowsDecision
  <1>1. Init => RateInv
    <2> SUFFICES ASSUME Init PROVE RateInv
      OBVIOUS
    <2>1. InitialRate \in Nat /\ target_rps = InitialRate /\ cmd_q = <<Msg("rate", InitialRate)>>
      BY EngineAssumption, Zenon DEF EngineAssumption, Init, CoordInit
    <2>2. \A w \in Workers : sched_rate[w] = PerWorker(InitialRate)
      BY Zenon DEF Init, TimerInit
    <2>3. Settles(cmd_q, "rate", InitialRate, target_rps)
      <3>1. DOMAIN cmd_q = {1} /\ cmd_q[1] = Msg("rate", InitialRate)
        BY <2>1
      <3> QED
        BY <2>1, <3>1 DEF Settles, Msg
    <2> QED
      BY <2>1, <2>2, <2>3 DEF RateInv
  <1>2. RateInv /\ TypeOK /\ TypeOK' /\ [Next]_vars => RateInv'
    <2> SUFFICES ASSUME RateInv, TypeOK, TypeOK', [Next]_vars PROVE RateInv'
      OBVIOUS
    <2>1. ASSUME UNCHANGED <<sched_rate, cmd_q, timer_pc, coord_pc, target_rps>> PROVE RateInv'
      BY <2>1 DEF RateInv, TimerGone
    <2>2. ASSUME NEW w \in Workers, WorkerThread(w) \/ Task(w) \/ Panic(w) PROVE RateInv'
      BY <2>1, <2>2, Zenon DEF WorkerThread, Task, Panic, WorkerLoopStep, WorkerRecv, WorkerSuspend,
             WorkerDisconnected, WorkerDrain, WorkerDrainStop, WorkerResume, WorkerLoop, WorkerExit,
             TaskComplete, WorkerPanic, channelVars, timerOnly, coordVars
    <2>3. CASE Api
      BY <2>1, <2>3 DEF Api, SendCommand, channelVars, timerOnly
    <2>4. CASE UNCHANGED vars
      BY <2>1, <2>4, Zenon DEF vars, channelVars, timerVars, coordVars
    <2> QED
      BY <2>2, <2>3, <2>4, TimerRate, CoordRate DEF Next, Finished
  <1>3. RateInv /\ TypeOK => RateFollowsDecision
    <2> SUFFICES ASSUME RateInv, TypeOK, coord_pc = "sleep", ~TimerGone
                 PROVE  IF RateCommands = {}
                        THEN \A w \in Workers : sched_rate[w] = PerWorker(target_rps)
                        ELSE cmd_q[Max(RateCommands)].v = target_rps
      BY DEF RateFollowsDecision
    <2>1. PICK r \in Nat : (\A w \in Workers : sched_rate[w] = PerWorker(r)) /\ Settles(cmd_q, "rate", r, target_rps)
      BY DEF RateInv
    <2>2. CASE r = target_rps /\ \A i \in DOMAIN cmd_q : cmd_q[i].kind # "rate"
      BY <2>1, <2>2, Zenon DEF RateCommands
    <2>3. ASSUME NEW i \in DOMAIN cmd_q, cmd_q[i].kind = "rate", cmd_q[i].v = target_rps,
                 \A j \in DOMAIN cmd_q : j > i => cmd_q[j].kind # "rate"
          PROVE  RateCommands # {} /\ cmd_q[Max(RateCommands)].v = target_rps
      <3>0. DOMAIN cmd_q \subseteq Nat
        <4>1. cmd_q \in Seq(TimerCommand)
          BY Zenon DEF TypeOK
        <4>2. \A S : \A q \in Seq(S) : DOMAIN q \subseteq Nat
          OBVIOUS
        <4> QED
          BY <4>1, <4>2, Zenon
      <3>1. i \in RateCommands /\ RateCommands \in SUBSET Nat
        BY <2>3, <3>0, Zenon DEF RateCommands
      <3>2. \A j \in RateCommands : i >= j
        <4>1. \A j \in RateCommands : ~(j > i)
          BY <2>3, Zenon DEF RateCommands
        <4>2. \A a, b \in Nat : ~(b > a) => a >= b
          OBVIOUS
        <4> QED
          BY <3>1, <4>1, <4>2, Zenon
      <3>3. Max(RateCommands) = i
        BY <3>1, <3>2, MaxIs
      <3> QED
        BY <2>3, <3>1, <3>3, Zenon
    <2> QED
      BY <2>1, <2>2, <2>3, Zenon DEF Settles
  <1>4. Spec => []TypeOK
    BY TypeCorrect
  <1> QED
    BY <1>1, <1>2, <1>3, <1>4, PTL DEF Spec
=============================================================================
