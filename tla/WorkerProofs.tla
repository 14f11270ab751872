---------------------------- MODULE WorkerProofs ----------------------------
(***************************************************************************)
(* Theorems about what an I/O worker is made of: the token buckets, the    *)
(* loss tracker, UDP and DNS, and the connection policy of the HTTP client, *)
(* each for every configuration and every size.                            *)
(***************************************************************************)
EXTENDS Throttle, Udp, HttpClient, DataLemmas, FiniteSetTheorems, WellFoundedInduction, TLAPS

-----------------------------------------------------------------------------
(* The token bucket.  Level is what the bucket would hold if it were       *)
(* refilled now.                                                           *)
Earned(b, now) == b.tokens + (now - b.last_refill) * b.rate
Level(b, now) == IF Earned(b, now) < b.capacity THEN Earned(b, now) ELSE b.capacity

BucketType ==
    /\ bucket \in [rate : Nat \ {0}, capacity : Nat, tokens : Int, last_refill : Nat, pacing : BOOLEAN]
    /\ clock \in Nat /\ bucket.last_refill <= clock
    /\ flow \in [pc : {"idle", "wait", "debt"}, until : Nat, n : Nat]
    /\ flow.pc = "debt" => flow.n \in ReadSizes
    /\ burst \in Nat

(* What was handed over beyond the rate, with what is about to be, is at   *)
(* most what the bucket lacks and one read that came late; and a debt is   *)
(* paid when its sleep ends.                                               *)
BucketInv ==
    /\ BucketType
    /\ RateHeld
    /\ \E m \in ReadSizes :
          burst + (IF flow.pc = "debt" THEN flow.n ELSE 0) <= bucket.capacity - Level(bucket, clock) + m
    /\ flow.pc = "debt" => flow.until >= bucket.last_refill /\ Earned(bucket, flow.until) >= 0

(* A sleep of need / rate earns at least need (wait_time, debt_wait).      *)
LEMMA SleepEarns ==
    ASSUME NEW need \in Nat, NEW r \in Nat \ {0}
    PROVE  /\ (need + r - 1) \div r \in Nat
           /\ ((need + r - 1) \div r) * r >= need
  <1> DEFINE x == need + r - 1
             q == x \div r
  <1>1. x \in Nat /\ r \in Nat /\ r > 0
    OBVIOUS
  <1>2. q \in Nat
    BY <1>1
  <1>3. x = r * q + (x % r) /\ x % r \in 0..(r - 1)
    BY <1>1
  <1>4. r * q = q * r /\ r * q \in Int
    BY <1>1, <1>2
  <1> HIDE DEF q
  <1>5. q * r >= need
    BY <1>1, <1>2, <1>3, <1>4
  <1> QED
    BY <1>2, <1>5 DEF q

(* What a bucket earns grows with time.                                    *)
LEMMA EarnedGrows ==
    ASSUME NEW r \in Nat, NEW i \in Nat, NEW j \in Nat, i <= j
    PROVE  i * r <= j * r /\ i * r \in Nat /\ j * r \in Nat
  <1>1. j = i + (j - i) /\ j - i \in Nat
    OBVIOUS
  <1>2. j * r = i * r + (j - i) * r
    BY <1>1
  <1>3. (j - i) * r \in Nat /\ i * r \in Nat /\ j * r \in Nat
    BY <1>1
  <1> QED
    BY <1>2, <1>3

(* refill and consume: the bucket holds its level now, less what is taken. *)
LEMMA ConsumeIs ==
    ASSUME BucketType, NEW n \in Nat
    PROVE  /\ Level(bucket, clock) \in Int /\ Level(bucket, clock) <= bucket.capacity
           /\ refill(bucket) = [bucket EXCEPT !.tokens = Level(bucket, clock), !.last_refill = clock]
           /\ consume(bucket, n) = [bucket EXCEPT !.tokens = Level(bucket, clock) - n, !.last_refill = clock]
  <1>1. /\ bucket \in [rate : Nat \ {0}, capacity : Nat, tokens : Int, last_refill : Nat, pacing : BOOLEAN]
        /\ clock \in Nat /\ clock - bucket.last_refill \in Nat
    BY DEF BucketType
  <1>2. Earned(bucket, clock) \in Int
    BY <1>1 DEF Earned
  <1>3. Level(bucket, clock) \in Int /\ Level(bucket, clock) <= bucket.capacity
    BY <1>1, <1>2 DEF Level
  <1>4. refill(bucket) = [bucket EXCEPT !.tokens = Level(bucket, clock), !.last_refill = clock]
    BY DEF refill, Level, Earned
  <1>5. consume(bucket, n) = [bucket EXCEPT !.tokens = Level(bucket, clock) - n, !.last_refill = clock]
    BY <1>1, <1>3, <1>4, Zenon DEF consume
  <1> QED
    BY <1>3, <1>4, <1>5

(* A bucket that was just settled earns nothing yet.                       *)
LEMMA SettledIs ==
    ASSUME NEW b \in [rate : Nat \ {0}, capacity : Nat, tokens : Int, last_refill : Nat, pacing : BOOLEAN],
           b.tokens <= b.capacity
    PROVE  Level(b, b.last_refill) = b.tokens /\ Earned(b, b.last_refill) = b.tokens
  <1>1. (b.last_refill - b.last_refill) * b.rate = 0
    OBVIOUS
  <1> QED
    BY <1>1 DEF Level, Earned

(* A read or a send takes n tokens and sleeps until the debt is paid.      *)
LEMMA TakeKeeps ==
    ASSUME BucketInv, NEW n \in ReadSizes, flow.pc # "debt",
           bucket' = consume(bucket, n),
           flow' = [pc |-> "debt", until |-> Wakes(bucket', Debt(bucket')), n |-> n],
           UNCHANGED <<clock, burst>>
    PROVE  BucketInv'
  <1> DEFINE l == Level(bucket, clock)
             d == Debt(bucket')
  <1>1. /\ BucketType /\ n \in Nat /\ ReadSizes \subseteq Nat
        /\ bucket \in [rate : Nat \ {0}, capacity : Nat, tokens : Int, last_refill : Nat, pacing : BOOLEAN]
        /\ clock \in Nat /\ burst \in Nat
    BY BucketAssumption DEF BucketInv, BucketType
  <1>2. l \in Int /\ l <= bucket.capacity /\ bucket' = [bucket EXCEPT !.tokens = l - n, !.last_refill = clock]
    BY <1>1, ConsumeIs, Zenon
  <1> HIDE DEF l
  <1>3. /\ bucket' \in [rate : Nat \ {0}, capacity : Nat, tokens : Int, last_refill : Nat, pacing : BOOLEAN]
        /\ bucket'.tokens = l - n /\ bucket'.last_refill = clock /\ bucket'.capacity = bucket.capacity
        /\ bucket'.rate = bucket.rate /\ bucket'.rate \in Nat \ {0}
    <2>1. l - n \in Int
      BY <1>1, <1>2
    <2>2. /\ bucket' = [rate |-> bucket.rate, capacity |-> bucket.capacity, tokens |-> l - n,
                        last_refill |-> clock, pacing |-> bucket.pacing]
      BY <1>1, <1>2, Zenon
    <2> QED
      BY <1>1, <2>1, <2>2
  <1>4. d \in Nat /\ bucket'.tokens + d >= 0
    BY <1>1, <1>2, <1>3 DEF Debt
  <1> HIDE DEF d
  <1>5. /\ (d + bucket'.rate - 1) \div bucket'.rate \in Nat
        /\ ((d + bucket'.rate - 1) \div bucket'.rate) * bucket'.rate >= d
    BY <1>3, <1>4, SleepEarns, Zenon
  <1>6. flow'.until = clock + ((d + bucket'.rate - 1) \div bucket'.rate) /\ flow'.pc = "debt" /\ flow'.n = n
    BY DEF Wakes, d
  <1>7. flow'.until \in Nat /\ flow'.until >= clock
        /\ flow'.until - clock = (d + bucket'.rate - 1) \div bucket'.rate
    BY <1>1, <1>5, <1>6
  <1>8. Earned(bucket', flow'.until) >= 0
    <2>1. (flow'.until - clock) * bucket'.rate >= d /\ (flow'.until - clock) * bucket'.rate \in Int
      BY <1>3, <1>5, <1>7
    <2> QED
      BY <1>3, <1>4, <2>1 DEF Earned
  <1>9. BucketType'
    <2>1. flow' \in [pc : {"idle", "wait", "debt"}, until : Nat, n : Nat]
      BY <1>1, <1>6, <1>7
    <2> QED
      BY <1>1, <1>3, <1>6, <2>1 DEF BucketType
  <1>10. RateHeld'
    BY <1>3 DEF BucketInv, RateHeld
  <1>11. PICK m \in ReadSizes : burst <= bucket.capacity - l + m
    BY <1>1 DEF BucketInv, l
  <1>12. Level(bucket', clock') = l - n
    <2>1. bucket'.tokens <= bucket'.capacity
      BY <1>1, <1>2, <1>3
    <2> QED
      BY <1>3, <2>1, SettledIs
  <1>13. burst' + (IF flow'.pc = "debt" THEN flow'.n ELSE 0) <= bucket'.capacity - Level(bucket', clock') + m
    BY <1>1, <1>2, <1>3, <1>6, <1>11, <1>12
  <1> QED
    BY <1>3, <1>6, <1>7, <1>8, <1>9, <1>10, <1>13 DEF BucketInv

(* A tick earns the rate, and the excess over the rate shrinks by it.      *)
LEMMA TickKeeps == BucketInv /\ Tick => BucketInv'
  <1> SUFFICES ASSUME BucketInv, Tick PROVE BucketInv'
    OBVIOUS
  <1> DEFINE l == Level(bucket, clock)
             k == Level(bucket, clock + 1)
             held == IF flow.pc = "debt" THEN flow.n ELSE 0
  <1>1. /\ bucket \in [rate : Nat \ {0}, capacity : Nat, tokens : Int, last_refill : Nat, pacing : BOOLEAN]
        /\ clock \in Nat /\ burst \in Nat /\ ReadSizes \subseteq Nat /\ ReadSizes # {}
        /\ bucket.rate \in Nat /\ bucket.capacity \in Nat /\ bucket.tokens \in Int /\ bucket.last_refill \in Nat
        /\ flow.n \in Nat
        /\ flow.pc = "debt" => flow.n \in ReadSizes
    BY BucketAssumption DEF BucketInv, BucketType
  <1>2. Earned(bucket, clock) \in Int /\ Earned(bucket, clock + 1) = Earned(bucket, clock) + bucket.rate
    <2>1. (clock + 1 - bucket.last_refill) * bucket.rate
             = (clock - bucket.last_refill) * bucket.rate + bucket.rate
      BY <1>1
    <2>2. (clock - bucket.last_refill) * bucket.rate \in Int
      BY <1>1
    <2> QED
      BY <1>1, <2>1, <2>2 DEF Earned
  <1>3. l \in Int /\ k \in Int /\ k <= bucket.capacity /\ k <= l + bucket.rate
    BY <1>1, <1>2 DEF Level
  <1>4. PICK m \in ReadSizes : burst + held <= bucket.capacity - l + m
    BY DEF BucketInv
  <1> HIDE DEF l, k
  <1>5. UNCHANGED <<bucket, flow>> /\ clock' = clock + 1
        /\ burst' = IF burst > bucket.rate THEN burst - bucket.rate ELSE 0
    BY DEF Tick
  <1>6. burst' \in Nat /\ burst' <= burst
    BY <1>1, <1>5
  <1>7. BucketType'
    BY <1>1, <1>5, <1>6 DEF BucketInv, BucketType
  <1>8. RateHeld'
    <2>1. PICK n \in ReadSizes : burst <= bucket.capacity + n
      BY DEF BucketInv, RateHeld
    <2>2. burst' <= bucket.capacity + n
      BY <1>1, <1>6, <2>1
    <2> QED
      BY <1>5, <2>2 DEF RateHeld
  <1>9. held \in Nat /\ m \in Nat /\ (flow.pc = "debt" => held \in ReadSizes)
    BY <1>1
  <1>10. held = IF flow'.pc = "debt" THEN flow'.n ELSE 0
    BY <1>5
  <1>11. \E x \in ReadSizes : burst' + held <= bucket.capacity - k + x
    <2>1. CASE burst > bucket.rate
      <3>1. burst' + held <= bucket.capacity - k + m
        <4> HIDE DEF held
        <4> QED
          BY <1>1, <1>3, <1>4, <1>5, <1>9, <2>1
      <3> QED
        BY <3>1
    <2>2. CASE ~(burst > bucket.rate) /\ flow.pc = "debt"
      <3>1. burst' + held <= bucket.capacity - k + held
        <4> HIDE DEF held
        <4> QED
          BY <1>1, <1>3, <1>5, <1>9, <2>2
      <3> QED
        BY <1>9, <2>2, <3>1
    <2>3. CASE ~(burst > bucket.rate) /\ flow.pc # "debt"
      <3>1. burst' + held <= bucket.capacity - k + m
        BY <1>1, <1>3, <1>5, <1>9, <2>3
      <3> QED
        BY <3>1
    <2> QED
      BY <2>1, <2>2, <2>3
  <1>12. k = Level(bucket', clock')
    BY <1>5 DEF k
  <1>13. flow'.pc = "debt" => flow'.until >= bucket'.last_refill /\ Earned(bucket', flow'.until) >= 0
    BY <1>5 DEF BucketInv
  <1> HIDE DEF held
  <1> QED
    BY <1>5, <1>7, <1>8, <1>10, <1>11, <1>12, <1>13 DEF BucketInv

(* wait_time settles the bucket and hands nothing over.                    *)
LEMMA WaitKeeps == BucketInv /\ wait_time => BucketInv'
  <1> SUFFICES ASSUME BucketInv, wait_time PROVE BucketInv'
    OBVIOUS
  <1> DEFINE l == Level(bucket, clock)
  <1>1. /\ BucketType /\ ReadSizes \subseteq Nat /\ 0 \in Nat
        /\ bucket \in [rate : Nat \ {0}, capacity : Nat, tokens : Int, last_refill : Nat, pacing : BOOLEAN]
        /\ clock \in Nat /\ burst \in Nat
    BY BucketAssumption DEF BucketInv, BucketType
  <1>2. l \in Int /\ l <= bucket.capacity /\ bucket' = [bucket EXCEPT !.tokens = l, !.last_refill = clock]
    BY <1>1, ConsumeIs, Zenon DEF wait_time
  <1>3. PICK m \in ReadSizes : burst <= bucket.capacity - l + m
    <2>1. flow.pc # "debt"
      BY DEF wait_time
    <2>2. PICK m \in ReadSizes :
             burst + (IF flow.pc = "debt" THEN flow.n ELSE 0) <= bucket.capacity - Level(bucket, clock) + m
      BY DEF BucketInv
    <2> QED
      BY <1>1, <2>1, <2>2
  <1> HIDE DEF l
  <1>4. /\ bucket' \in [rate : Nat \ {0}, capacity : Nat, tokens : Int, last_refill : Nat, pacing : BOOLEAN]
        /\ bucket'.tokens = l /\ bucket'.last_refill = clock /\ bucket'.capacity = bucket.capacity
        /\ bucket'.rate = bucket.rate /\ bucket'.rate \in Nat \ {0}
    <2>1. bucket' = [rate |-> bucket.rate, capacity |-> bucket.capacity, tokens |-> l,
                     last_refill |-> clock, pacing |-> bucket.pacing]
      BY <1>1, <1>2, Zenon
    <2> QED
      BY <1>1, <1>2, <2>1
  <1>5. flow'.pc = "wait" /\ flow'.until \in Nat /\ flow'.n = 0
        /\ flow' \in [pc : {"idle", "wait", "debt"}, until : Nat, n : Nat]
    <2>1. CASE bucket'.tokens >= 1
      BY <1>1, <2>1 DEF wait_time
    <2>2. CASE ~(bucket'.tokens >= 1)
      <3>1. 1 - bucket'.tokens \in Nat
        BY <1>2, <1>4, <2>2
      <3>2. (1 - bucket'.tokens + bucket'.rate - 1) \div bucket'.rate \in Nat
        BY <1>4, <3>1, SleepEarns
      <3>3. Wakes(bucket', 1 - bucket'.tokens) \in Nat
        BY <1>1, <3>2 DEF Wakes
      <3> QED
        BY <1>1, <2>2, <3>3 DEF wait_time
    <2> QED
      BY <2>1, <2>2
  <1>6. UNCHANGED <<clock, burst>>
    BY DEF wait_time
  <1>7. BucketType'
    BY <1>1, <1>4, <1>5, <1>6 DEF BucketType
  <1>8. RateHeld'
    BY <1>4, <1>6 DEF BucketInv, RateHeld
  <1>9. Level(bucket', clock') = l
    BY <1>2, <1>4, <1>6, SettledIs, Zenon
  <1>10. burst' + (IF flow'.pc = "debt" THEN flow'.n ELSE 0) <= bucket'.capacity - Level(bucket', clock') + m
    BY <1>1, <1>3, <1>4, <1>5, <1>6, <1>9
  <1> QED
    BY <1>5, <1>7, <1>8, <1>10 DEF BucketInv

(* What is handed over was paid for.                                       *)
LEMMA HandOverKeeps == BucketInv /\ HandOver => BucketInv'
  <1> SUFFICES ASSUME BucketInv, HandOver PROVE BucketInv'
    OBVIOUS
  <1> DEFINE l == Level(bucket, clock)
  <1>1. /\ bucket \in [rate : Nat \ {0}, capacity : Nat, tokens : Int, last_refill : Nat, pacing : BOOLEAN]
        /\ clock \in Nat /\ burst \in Nat /\ ReadSizes \subseteq Nat
        /\ bucket.rate \in Nat /\ bucket.capacity \in Nat /\ bucket.tokens \in Int /\ bucket.last_refill \in Nat
        /\ flow.n \in Nat /\ flow.until \in Nat
    BY BucketAssumption DEF BucketInv, BucketType
  <1>2. /\ flow.pc = "debt" /\ clock >= flow.until /\ burst' = burst + flow.n
        /\ flow' = [pc |-> "idle", until |-> 0, n |-> 0] /\ UNCHANGED <<bucket, clock>>
    BY DEF HandOver
  <1>3. flow.until >= bucket.last_refill /\ Earned(bucket, flow.until) >= 0
    BY <1>2 DEF BucketInv
  <1>4. (flow.until - bucket.last_refill) * bucket.rate <= (clock - bucket.last_refill) * bucket.rate
        /\ (flow.until - bucket.last_refill) * bucket.rate \in Nat
        /\ (clock - bucket.last_refill) * bucket.rate \in Nat
    <2>1. /\ flow.until - bucket.last_refill \in Nat /\ clock - bucket.last_refill \in Nat
          /\ flow.until - bucket.last_refill <= clock - bucket.last_refill
      BY <1>1, <1>2, <1>3
    <2> QED
      BY <1>1, <2>1, EarnedGrows
  <1>5. Earned(bucket, clock) \in Int /\ Earned(bucket, clock) >= 0
    BY <1>1, <1>3, <1>4 DEF Earned
  <1>6. l \in Nat
    BY <1>1, <1>5 DEF Level
  <1>7. PICK m \in ReadSizes : burst + flow.n <= bucket.capacity - l + m
    BY <1>2 DEF BucketInv
  <1> HIDE DEF l
  <1>8. burst' <= bucket.capacity + m /\ burst' \in Nat
    BY <1>1, <1>2, <1>6, <1>7
  <1>9. RateHeld'
    BY <1>2, <1>8 DEF RateHeld
  <1>10. BucketType'
    BY <1>1, <1>2, <1>8 DEF BucketInv, BucketType
  <1>11. burst' + (IF flow'.pc = "debt" THEN flow'.n ELSE 0) <= bucket'.capacity - Level(bucket', clock') + m
    <2>1. flow'.pc # "debt" /\ Level(bucket', clock') = l
      BY <1>2 DEF l
    <2> QED
      BY <1>1, <1>2, <1>6, <1>7, <1>8, <2>1
  <1> QED
    BY <1>2, <1>9, <1>10, <1>11 DEF BucketInv

(* A read that is dropped leaves the bucket as it is.                      *)
LEMMA DroppedKeeps == BucketInv /\ ReadDropped => BucketInv'
  <1> SUFFICES ASSUME BucketInv, ReadDropped PROVE BucketInv'
    OBVIOUS
  <1>1. /\ bucket.capacity \in Nat /\ burst \in Nat /\ ReadSizes \subseteq Nat /\ flow.n \in Nat
        /\ Level(bucket, clock) \in Int
    <2>1. BucketType
      BY DEF BucketInv
    <2>2. Level(bucket, clock) \in Int
      BY <2>1, ConsumeIs, Zenon
    <2> QED
      BY <2>1, <2>2, BucketAssumption DEF BucketType
  <1>2. flow' = [pc |-> "idle", until |-> 0, n |-> 0] /\ UNCHANGED <<bucket, clock, burst>>
    BY DEF ReadDropped
  <1>3. PICK m \in ReadSizes :
             burst + (IF flow.pc = "debt" THEN flow.n ELSE 0) <= bucket.capacity - Level(bucket, clock) + m
    BY DEF BucketInv
  <1>4. burst' + (IF flow'.pc = "debt" THEN flow'.n ELSE 0) <= bucket'.capacity - Level(bucket', clock') + m
    <2>1. burst <= bucket.capacity - Level(bucket, clock) + m
      BY <1>1, <1>3
    <2> QED
      BY <1>1, <1>2, <2>1
  <1>5. BucketType'
    BY <1>2 DEF BucketInv, BucketType
  <1>6. RateHeld'
    BY <1>2 DEF BucketInv, RateHeld
  <1> QED
    BY <1>2, <1>4, <1>5, <1>6 DEF BucketInv

(* A new bucket has handed nothing over.                                   *)
LEMMA BucketInit == ThrottleInit => BucketInv
  <1> SUFFICES ASSUME ThrottleInit PROVE BucketInv
    OBVIOUS
  <1>1. /\ bucket \in [rate : Nat \ {0}, capacity : Nat, tokens : Nat, last_refill : {0}, pacing : BOOLEAN]
        /\ bucket.tokens <= bucket.capacity /\ clock = 0 /\ burst = 0
        /\ flow = [pc |-> "idle", until |-> 0, n |-> 0] /\ bucket.last_refill = clock
    BY BucketAssumption DEF ThrottleInit
  <1>2. BucketType
    BY <1>1 DEF BucketType
  <1>3. PICK m \in ReadSizes : m \in Nat
    BY BucketAssumption, Zenon
  <1>4. Level(bucket, clock) = bucket.tokens
    <2>1. bucket \in [rate : Nat \ {0}, capacity : Nat, tokens : Int, last_refill : Nat, pacing : BOOLEAN]
      BY <1>2 DEF BucketType
    <2> QED
      BY <1>1, <2>1, SettledIs
  <1>5. burst + (IF flow.pc = "debt" THEN flow.n ELSE 0) <= bucket.capacity - Level(bucket, clock) + m
    BY <1>1, <1>3, <1>4
  <1>6. RateHeld
    BY <1>1, <1>3 DEF RateHeld
  <1> QED
    BY <1>1, <1>2, <1>5, <1>6 DEF BucketInv

(* Whatever the rate, the burst and the sizes, and however reads are       *)
(* delayed or dropped, no interval gets more than the rate, one burst and  *)
(* one read (ThrottledStream::read, the pacing of the UDP server).         *)
THEOREM RateIsHeld == ThrottleSpec => []RateHeld
  <1>1. BucketInv /\ [ThrottleNext]_throttleVars => BucketInv'
    <2> SUFFICES ASSUME BucketInv, [ThrottleNext]_throttleVars PROVE BucketInv'
      OBVIOUS
    <2>1. CASE Tick
      BY <2>1, TickKeeps
    <2>2. CASE wait_time
      BY <2>2, WaitKeeps
    <2>3. CASE InnerRead
      BY <2>3, TakeKeeps DEF InnerRead
    <2>4. CASE try_consume
      BY <2>4, TakeKeeps DEF try_consume
    <2>5. CASE HandOver
      BY <2>5, HandOverKeeps
    <2>6. CASE ReadDropped
      BY <2>6, DroppedKeeps
    <2>7. CASE UNCHANGED throttleVars
      BY <2>7 DEF throttleVars, BucketInv, BucketType, RateHeld
    <2> QED
      BY <2>1, <2>2, <2>3, <2>4, <2>5, <2>6, <2>7 DEF ThrottleNext
  <1>2. BucketInv => RateHeld
    BY DEF BucketInv
  <1> QED
    BY <1>1, <1>2, BucketInit, PTL DEF ThrottleSpec

-----------------------------------------------------------------------------
(* The loss tracker.  Slot is the bit of the number d places after the one *)
(* that the bit at h stands for.                                           *)
Slot(h, d) == (h + d) % WINDOW
Slots == 0..(WINDOW - 1)

Counts == [sent : Nat, received : Nat, lost : Nat]
TrackerType ==
    [base : Nat, head : Slots, ring : SUBSET Slots, sent : Nat, received : Nat, lost : Nat, snap : Counts]

(* A number is received when its bit is set and lost when it leaves the    *)
(* window without it; the window never gets ahead of what was sent.        *)
LossCounts(t) ==
    /\ t \in TrackerType
    /\ t.received + t.lost = t.base + Cardinality(t.ring)
    /\ t.base = 0 => t.head = 0 /\ t.ring \subseteq 0..(t.sent - 1)
    /\ t.base > 0 => t.base + WINDOW <= t.sent

(* The ring has exactly the bits of the numbers seen in the window.        *)
InWindow(t, seen) == {s \in seen : s >= t.base}
RingExact(t, seen) ==
    /\ seen \subseteq 0..(t.sent - 1)
    /\ \A s \in seen : s < t.base + WINDOW
    /\ t.received = Cardinality(seen)
    /\ t.ring = {Slot(t.head, s - t.base) : s \in InWindow(t, seen)}

LossInv ==
    /\ LossCounts(tracker)
    /\ tracker_gap \/ RingExact(tracker, tracker_seen)
    /\ reported.sum = tracker.snap

(* Quotient and remainder.                                                 *)
LEMMA DivRest ==
    ASSUME NEW x \in Nat, NEW w \in Nat, w > 0
    PROVE  x \div w \in Nat /\ x = w * (x \div w) + (x % w) /\ x % w \in 0..(w - 1)
  <1>1. x \div w \in Nat
    OBVIOUS
  <1>2. x = w * (x \div w) + (x % w) /\ x % w \in 0..(w - 1)
    OBVIOUS
  <1> QED
    BY <1>1, <1>2

(* The first n numbers.                                                    *)
LEMMA FirstNumbers ==
    ASSUME NEW n \in Nat
    PROVE  IsFiniteSet(0..(n - 1)) /\ Cardinality(0..(n - 1)) = n
  <1>1. 0 \in Int /\ n - 1 \in Int
    OBVIOUS
  <1>2. /\ IsFiniteSet(0..(n - 1))
        /\ Cardinality(0..(n - 1)) = IF 0 > n - 1 THEN 0 ELSE n - 1 - 0 + 1
    BY <1>1, FS_Interval
  <1> QED
    BY <1>2

(* The remainder within two windows.                                       *)
LEMMA SlotIs ==
    ASSUME NEW h \in Slots, NEW d \in 0..WINDOW
    PROVE  /\ Slot(h, d) \in Slots
           /\ Slot(h, d) = IF h + d < WINDOW THEN h + d ELSE h + d - WINDOW
  <1> DEFINE x == h + d
             q == x \div WINDOW
             r == x % WINDOW
  <1>1. x \in Nat /\ WINDOW \in Nat /\ WINDOW > 0 /\ x < 2 * WINDOW
    BY WindowAssumption DEF Slots
  <1>2. q \in Nat /\ x = WINDOW * q + r /\ r \in 0..(WINDOW - 1)
    BY <1>1, DivRest, Zenon
  <1> HIDE DEF q, r
  <1>3. q = 0 \/ q = 1
    <2>1. ASSUME q >= 2 PROVE FALSE
      <3>1. WINDOW * q = WINDOW * 2 + WINDOW * (q - 2) /\ WINDOW * (q - 2) \in Nat
        <4>1. q - 2 \in Nat
          BY <1>2, <2>1
        <4> QED
          BY <1>1, <1>2, <4>1
      <3> HIDE DEF x
      <3> QED
        BY <1>1, <1>2, <3>1
    <2> QED
      BY <1>2, <2>1
  <1>4. CASE q = 0
    BY <1>1, <1>2, <1>4 DEF r, Slot, Slots
  <1>5. CASE q = 1
    BY <1>1, <1>2, <1>5 DEF r, Slot, Slots
  <1> QED
    BY <1>3, <1>4, <1>5

(* Different numbers of a window have different bits.                      *)
LEMMA SlotApart ==
    ASSUME NEW h \in Slots, NEW d \in Slots, NEW e \in Slots, Slot(h, d) = Slot(h, e)
    PROVE  d = e
  <1>1. d \in 0..WINDOW /\ e \in 0..WINDOW /\ WINDOW \in Nat
    BY WindowAssumption DEF Slots
  <1>2. /\ Slot(h, d) = IF h + d < WINDOW THEN h + d ELSE h + d - WINDOW
        /\ Slot(h, e) = IF h + e < WINDOW THEN h + e ELSE h + e - WINDOW
    BY <1>1, SlotIs
  <1>3. /\ h \in Nat /\ d \in Nat /\ e \in Nat
        /\ h < WINDOW /\ d < WINDOW /\ e < WINDOW
    BY <1>1 DEF Slots
  <1>4. (IF h + d < WINDOW THEN h + d ELSE h + d - WINDOW) = (IF h + e < WINDOW THEN h + e ELSE h + e - WINDOW)
    BY <1>2, Zenon
  <1> QED
    BY <1>1, <1>3, <1>4

(* A number keeps its bit when the window moves.                           *)
LEMMA SlotMoved ==
    ASSUME NEW h \in Slots, NEW c \in Nat, NEW d \in Nat, c + d \in Slots
    PROVE  Slot(Slot(h, c), d) = Slot(h, c + d)
  <1>1. c \in 0..WINDOW /\ d \in 0..WINDOW /\ c + d \in 0..WINDOW /\ WINDOW \in Nat
    BY WindowAssumption DEF Slots
  <1>2. Slot(h, c) \in Slots /\ Slot(h, c) = IF h + c < WINDOW THEN h + c ELSE h + c - WINDOW
    BY <1>1, SlotIs
  <1>3. Slot(Slot(h, c), d) = IF Slot(h, c) + d < WINDOW THEN Slot(h, c) + d ELSE Slot(h, c) + d - WINDOW
    BY <1>1, <1>2, SlotIs
  <1>4. Slot(h, c + d) = IF h + (c + d) < WINDOW THEN h + (c + d) ELSE h + (c + d) - WINDOW
    BY <1>1, SlotIs
  <1> QED
    BY <1>1, <1>2, <1>3, <1>4 DEF Slots

(* As many bits as numbers.                                                *)
LEMMA SlotsCount ==
    ASSUME NEW h \in Slots, NEW D \in SUBSET Slots
    PROVE  /\ IsFiniteSet(D) /\ Cardinality(D) \in Nat
           /\ Cardinality({Slot(h, d) : d \in D}) = Cardinality(D)
  <1> DEFINE T == {Slot(h, d) : d \in D}
             f == [d \in D |-> Slot(h, d)]
  <1>1. IsFiniteSet(D)
    <2>1. IsFiniteSet(Slots)
      BY FirstNumbers, WindowAssumption DEF Slots
    <2> QED
      BY <2>1, FS_Subset, Zenon
  <1>2. \A d, e \in D : f[d] = f[e] => d = e
    BY SlotApart
  <1>3. f \in [D -> T] /\ \A y \in T : \E d \in D : f[d] = y
    BY Zenon
  <1>4. f \in Bijection(D, T)
    BY <1>2, <1>3, Zenon DEF Bijection, Injection, IsInjective, Surjection
  <1>5. Cardinality(T) = Cardinality(D)
    BY <1>1, <1>4, FS_Bijection, Zenon DEF ExistsBijection
  <1> QED
    BY <1>1, <1>5, FS_CardinalityType, Zenon

(* advance, without LET.                                                   *)
LEMMA AdvanceFields ==
    ASSUME NEW t \in TrackerType, NEW c \in 1..WINDOW, t.base + c <= t.sent
    PROVE  /\ Advance(t, c).base = t.base + c
           /\ Advance(t, c).head = Slot(t.head, c)
           /\ Advance(t, c).ring = t.ring \ {Slot(t.head, i) : i \in 0..(c - 1)}
           /\ Advance(t, c).lost = t.lost + Cardinality({i \in 0..(c - 1) : Slot(t.head, i) \notin t.ring})
           /\ Advance(t, c).sent = t.sent
           /\ Advance(t, c).received = t.received
           /\ Advance(t, c).snap = t.snap
           /\ DOMAIN Advance(t, c) = DOMAIN t
  <1>1. WINDOW \in Nat /\ c \in Nat /\ t.base \in Nat /\ t.sent \in Nat
    BY WindowAssumption DEF TrackerType
  <1>2. {i \in 0..(c - 1) : t.base + i < t.sent} = 0..(c - 1)
    BY <1>1
  <1> DEFINE out == {i \in {j \in 0..(c - 1) : t.base + j < t.sent} : (t.head + i) % WINDOW \notin t.ring}
             bits == {(t.head + i) % WINDOW : i \in 0..(c - 1)}
  <1>3. out = {i \in 0..(c - 1) : Slot(t.head, i) \notin t.ring}
    BY <1>2, Zenon DEF Slot
  <1>4. bits = {Slot(t.head, i) : i \in 0..(c - 1)}
    BY Zenon DEF Slot
  <1>5. Advance(t, c) = [t EXCEPT !.lost = t.lost + Cardinality(out), !.ring = t.ring \ bits,
                                  !.head = (t.head + c) % WINDOW, !.base = t.base + c]
    BY DEF Advance, TrackerType
  <1>6. (t.head + c) % WINDOW = Slot(t.head, c)
    BY DEF Slot
  <1> HIDE DEF out, bits
  <1>7. DOMAIN t = {"base", "head", "ring", "sent", "received", "lost", "snap"}
    BY DEF TrackerType
  <1>8. /\ Advance(t, c).base = t.base + c
        /\ Advance(t, c).head = (t.head + c) % WINDOW
        /\ Advance(t, c).ring = t.ring \ bits
        /\ Advance(t, c).lost = t.lost + Cardinality(out)
        /\ Advance(t, c).sent = t.sent /\ Advance(t, c).received = t.received
        /\ Advance(t, c).snap = t.snap /\ DOMAIN Advance(t, c) = DOMAIN t
    BY <1>5, <1>7 DEF TrackerType
  <1> QED
    BY <1>3, <1>4, <1>6, <1>8, Zenon

(* What leaves the window was received or is counted as lost.              *)
LEMMA AdvanceCounts ==
    ASSUME NEW t \in TrackerType, NEW c \in 1..WINDOW, t.base + c <= t.sent
    PROVE  /\ Advance(t, c) \in TrackerType
           /\ Advance(t, c).lost + Cardinality(t.ring) = t.lost + c + Cardinality(Advance(t, c).ring)
           /\ Cardinality(Advance(t, c).ring) \in Nat
           /\ Cardinality(t.ring) \in Nat
  <1> DEFINE I == 0..(c - 1)
             h == t.head
             A == {Slot(h, i) : i \in I}
             In == {i \in I : Slot(h, i) \in t.ring}
             Out == {i \in I : Slot(h, i) \notin t.ring}
  <1>1. /\ WINDOW \in Nat /\ c \in Nat /\ c >= 1 /\ h \in Slots /\ t.ring \in SUBSET Slots /\ t.lost \in Nat
        /\ I \subseteq Slots /\ In \subseteq Slots /\ Out \subseteq I /\ In \subseteq I
    BY WindowAssumption DEF TrackerType, Slots
  <1>2. IsFiniteSet(I) /\ Cardinality(I) = c
    BY <1>1, FirstNumbers, Zenon
  <1>3. IsFiniteSet(t.ring) /\ Cardinality(t.ring) \in Nat
    BY <1>1, SlotsCount, Zenon
  <1> HIDE DEF I
  <1>4. t.ring \cap A = {Slot(h, i) : i \in In}
    BY Zenon
  <1>5. Cardinality(t.ring \cap A) = Cardinality(In) /\ Cardinality(In) \in Nat
    BY <1>1, <1>4, SlotsCount, Zenon
  <1>6. IsFiniteSet(t.ring \ A) /\ Cardinality(t.ring \ A) = Cardinality(t.ring) - Cardinality(t.ring \cap A)
    BY <1>3, FS_Difference, Zenon
  <1>7. Out = I \ In /\ I \cap In = In
    BY Zenon
  <1>8. IsFiniteSet(I \ In) /\ Cardinality(I \ In) = Cardinality(I) - Cardinality(I \cap In)
    BY <1>2, FS_Difference, Zenon
  <1>9. Cardinality(Out) = c - Cardinality(In) /\ Cardinality(Out) \in Nat
    <2>1. Cardinality(Out) \in Nat
      BY <1>7, <1>8, FS_CardinalityType, Zenon
    <2>2. Cardinality(Out) = c - Cardinality(In)
      BY <1>2, <1>7, <1>8, Zenon
    <2> QED
      BY <2>1, <2>2
  <1>10. Cardinality(t.ring \ A) \in Nat
    BY <1>6, FS_CardinalityType, Zenon
  <1>11. /\ Advance(t, c).base = t.base + c /\ Advance(t, c).head = Slot(t.head, c)
         /\ Advance(t, c).ring = t.ring \ A /\ Advance(t, c).lost = t.lost + Cardinality(Out)
         /\ Advance(t, c).sent = t.sent /\ Advance(t, c).received = t.received
         /\ Advance(t, c).snap = t.snap /\ DOMAIN Advance(t, c) = DOMAIN t
    BY AdvanceFields, Zenon DEF I
  <1> HIDE DEF A, In, Out
  <1>12. Advance(t, c).lost + Cardinality(t.ring) = t.lost + c + Cardinality(Advance(t, c).ring)
    BY <1>1, <1>3, <1>5, <1>6, <1>9, <1>10, <1>11
  <1>13. Advance(t, c) \in TrackerType
    <2>1. Advance(t, c).head \in Slots
      <3>1. c \in 0..WINDOW
        BY <1>1
      <3> QED
        BY <1>1, <1>11, <3>1, SlotIs, Zenon DEF h
    <2>2. Advance(t, c).lost \in Nat /\ Advance(t, c).base \in Nat
      BY <1>1, <1>9, <1>11 DEF TrackerType
    <2>3. Advance(t, c).ring \subseteq Slots
      BY <1>1, <1>11, Zenon
    <2>4. Advance(t, c) = [Advance(t, c) EXCEPT !.base = @]
      BY Zenon DEF Advance
    <2> QED
      BY <1>11, <2>1, <2>2, <2>3, <2>4 DEF TrackerType
  <1> QED
    BY <1>3, <1>10, <1>11, <1>12, <1>13, Zenon

(* The window moves up to a number that was sent, never past it.           *)
LEMMA WindowMoves ==
    ASSUME NEW base \in Nat, NEW seq \in Nat, seq - base >= WINDOW
    PROVE  /\ AdvanceBy(seq - base) \in 1..WINDOW
           /\ base + AdvanceBy(seq - base) + WINDOW <= seq + 1
           /\ base + AdvanceBy(seq - base) <= seq
           /\ seq < base + 2 * WINDOW => seq < base + AdvanceBy(seq - base) + WINDOW
  BY WindowAssumption DEF AdvanceBy

(* The counts after advance.                                               *)
LEMMA MoveCounts ==
    ASSUME NEW t, LossCounts(t), NEW seq \in Nat, seq < t.sent, seq - t.base >= WINDOW
    PROVE  /\ LossCounts(Advance(t, AdvanceBy(seq - t.base)))
           /\ Advance(t, AdvanceBy(seq - t.base)).base > 0
           /\ Advance(t, AdvanceBy(seq - t.base)).base <= seq
           /\ Advance(t, AdvanceBy(seq - t.base)).sent = t.sent
           /\ Advance(t, AdvanceBy(seq - t.base)).snap = t.snap
  <1> DEFINE c == AdvanceBy(seq - t.base)
             u == Advance(t, c)
  <1>1. /\ t \in TrackerType /\ t.base \in Nat /\ t.sent \in Nat /\ t.received \in Nat /\ t.lost \in Nat
        /\ t.received + t.lost = t.base + Cardinality(t.ring) /\ WINDOW \in Nat
    BY WindowAssumption DEF LossCounts, TrackerType
  <1>2. /\ c \in 1..WINDOW /\ t.base + c + WINDOW <= seq + 1 /\ t.base + c <= seq
    BY <1>1, WindowMoves, Zenon
  <1> HIDE DEF c
  <1>3. c \in Nat /\ c >= 1 /\ t.base + c <= t.sent /\ t.base + c + WINDOW <= t.sent
    BY <1>1, <1>2
  <1>4. /\ u.base = t.base + c /\ u.sent = t.sent /\ u.received = t.received /\ u.snap = t.snap
    BY <1>1, <1>2, <1>3, AdvanceFields, Zenon
  <1>5. /\ u \in TrackerType /\ u.lost + Cardinality(t.ring) = t.lost + c + Cardinality(u.ring)
        /\ Cardinality(u.ring) \in Nat /\ Cardinality(t.ring) \in Nat
    BY <1>1, <1>2, <1>3, AdvanceCounts
  <1> HIDE DEF u
  <1>6. u.lost \in Nat
    BY <1>5 DEF TrackerType
  <1>7. u.received + u.lost = u.base + Cardinality(u.ring)
    BY <1>1, <1>3, <1>4, <1>5, <1>6
  <1>8. u.base > 0 /\ u.base <= seq /\ u.base + WINDOW <= u.sent /\ ~(u.base = 0)
    BY <1>1, <1>2, <1>3, <1>4
  <1>9. LossCounts(u)
    BY <1>5, <1>7, <1>8, Zenon DEF LossCounts
  <1> QED
    BY <1>4, <1>8, <1>9 DEF u, c

(* The bits after advance, unless the burst was longer than two windows.   *)
LEMMA MoveExact ==
    ASSUME NEW t, LossCounts(t), NEW seen, RingExact(t, seen),
           NEW seq \in Nat, seq < t.sent, seq - t.base >= WINDOW
    PROVE  RingExact(Advance(t, AdvanceBy(seq - t.base)), seen)
  <1> DEFINE c == AdvanceBy(seq - t.base)
             u == Advance(t, c)
             h == t.head
             A == {Slot(h, i) : i \in 0..(c - 1)}
             R == {Slot(Slot(h, c), s - (t.base + c)) : s \in {x \in seen : x >= t.base + c}}
  <1>1. /\ t \in TrackerType /\ t.base \in Nat /\ t.sent \in Nat /\ h \in Slots
        /\ WINDOW \in Nat
    BY WindowAssumption DEF LossCounts, TrackerType
  <1>2. /\ c \in 1..WINDOW /\ t.base + c <= seq
    BY <1>1, WindowMoves, Zenon
  <1> HIDE DEF c
  <1>3. c \in Nat /\ c >= 1 /\ t.base + c <= t.sent
    BY <1>1, <1>2
  <1>4. /\ u.base = t.base + c /\ u.sent = t.sent /\ u.received = t.received
        /\ u.head = Slot(h, c) /\ u.ring = t.ring \ A
    BY <1>1, <1>2, <1>3, AdvanceFields, Zenon
  <1> HIDE DEF u
  <1>5. /\ seen \subseteq 0..(t.sent - 1) /\ t.received = Cardinality(seen)
        /\ \A s \in seen : s < t.base + WINDOW
        /\ t.ring = {Slot(h, s - t.base) : s \in {x \in seen : x >= t.base}}
    BY Zenon DEF RingExact, InWindow
  <1>6. ASSUME NEW s \in seen
        PROVE  s \in Nat /\ (s >= t.base => s - t.base \in Slots) /\ s < t.base + c + WINDOW
    BY <1>1, <1>3, <1>5 DEF Slots
  <1>7. ASSUME NEW s \in seen, s >= t.base + c
        PROVE  /\ Slot(Slot(h, c), s - (t.base + c)) = Slot(h, s - t.base)
               /\ s >= t.base
               /\ Slot(h, s - t.base) \notin A
    <2>1. /\ s - t.base \in Slots /\ s - (t.base + c) \in Nat /\ c + (s - (t.base + c)) = s - t.base /\ s >= t.base
      BY <1>1, <1>3, <1>6, <1>7
    <2>2. Slot(Slot(h, c), s - (t.base + c)) = Slot(h, s - t.base)
      <3>1. Slot(Slot(h, c), s - (t.base + c)) = Slot(h, c + (s - (t.base + c)))
        BY <1>1, <1>3, <2>1, SlotMoved
      <3> QED
        BY <2>1, <3>1, Zenon
    <2>3. ASSUME NEW i \in 0..(c - 1), Slot(h, s - t.base) = Slot(h, i) PROVE FALSE
      <3>1. i \in Slots
        BY <1>1, <1>2, <1>3 DEF Slots
      <3>2. s - t.base = i
        BY <1>1, <2>1, <2>3, <3>1, SlotApart, Zenon
      <3> QED
        BY <1>1, <1>3, <1>6, <1>7, <3>2
    <2> QED
      BY <2>1, <2>2, <2>3, Zenon
  <1>8. ASSUME NEW s \in seen, s >= t.base, Slot(h, s - t.base) \notin A PROVE s >= t.base + c
    <2>1. ASSUME ~(s >= t.base + c) PROVE FALSE
      <3>1. s - t.base \in 0..(c - 1)
        BY <1>1, <1>3, <1>6, <1>8, <2>1
      <3> QED
        BY <1>8, <3>1, Zenon
    <2> QED
      BY <2>1
  <1> HIDE DEF A
  <1>9. u.ring \subseteq R
    <2> SUFFICES ASSUME NEW x \in u.ring PROVE x \in R
      OBVIOUS
    <2>1. PICK s \in seen : s >= t.base /\ x = Slot(h, s - t.base)
      BY <1>4, <1>5, Zenon
    <2>2. s >= t.base + c
      BY <1>4, <1>8, <2>1, Zenon
    <2>3. x = Slot(Slot(h, c), s - (t.base + c))
      BY <1>7, <2>1, <2>2, Zenon
    <2> QED
      BY <2>2, <2>3, Zenon
  <1>10. R \subseteq u.ring
    <2> SUFFICES ASSUME NEW s \in seen, s >= t.base + c PROVE Slot(Slot(h, c), s - (t.base + c)) \in u.ring
      BY Zenon
    <2>1. /\ Slot(Slot(h, c), s - (t.base + c)) = Slot(h, s - t.base)
          /\ s >= t.base
          /\ Slot(h, s - t.base) \notin A
      BY <1>7, Zenon
    <2>2. Slot(h, s - t.base) \in t.ring
      BY <1>5, <2>1, Zenon
    <2> QED
      BY <1>4, <2>1, <2>2, Zenon
  <1>11. u.ring = {Slot(u.head, s - u.base) : s \in {x \in seen : x >= u.base}}
    BY <1>4, <1>9, <1>10, Zenon
  <1>12. /\ seen \subseteq 0..(u.sent - 1) /\ u.received = Cardinality(seen)
         /\ \A s \in seen : s < u.base + WINDOW
    BY <1>4, <1>5, <1>6, Zenon
  <1>13. RingExact(u, seen)
    BY <1>11, <1>12, Zenon DEF RingExact, InWindow
  <1> QED
    BY <1>13 DEF u, c

(* on_receive in two steps: the window moves, the bit is set.              *)
Moved(t, seq) == IF seq - t.base >= WINDOW THEN Advance(t, AdvanceBy(seq - t.base)) ELSE t
Bit(u, seq) == (u.head + seq - u.base) % WINDOW
Marked(u, seq) ==
    IF Bit(u, seq) \in u.ring THEN u ELSE [u EXCEPT !.ring = @ \cup {Bit(u, seq)}, !.received = @ + 1]

(* on_receive, without LET.                                                *)
LEMMA ReceiveIs ==
    ASSUME NEW t, NEW seq
    PROVE  on_receive(t, seq) = IF seq < t.base THEN t ELSE Marked(Moved(t, seq), seq)
  BY DEF on_receive, Moved, Marked, Bit

(* A bit is one of the ring.                                               *)
LEMMA BitInRing ==
    ASSUME NEW u \in TrackerType, NEW seq \in Nat, u.base <= seq
    PROVE  /\ Bit(u, seq) \in Slots
           /\ Bit(u, seq) = Slot(u.head, seq - u.base)
  <1>1. /\ u.head \in Nat /\ u.base \in Nat /\ WINDOW \in Nat /\ WINDOW > 0
    BY WindowAssumption DEF TrackerType, Slots
  <1>2. u.head + seq - u.base \in Nat /\ u.head + seq - u.base = u.head + (seq - u.base)
    BY <1>1
  <1>3. (u.head + seq - u.base) % WINDOW \in 0..(WINDOW - 1)
    BY <1>1, <1>2, DivRest
  <1> QED
    BY <1>2, <1>3, Zenon DEF Bit, Slot, Slots

(* The fields after a bit was set.                                         *)
LEMMA MarkedIs ==
    ASSUME NEW u \in TrackerType, NEW seq \in Nat, u.base <= seq, Bit(u, seq) \notin u.ring
    PROVE  /\ Marked(u, seq) \in TrackerType
           /\ Marked(u, seq).ring = u.ring \cup {Bit(u, seq)}
           /\ Marked(u, seq).received = u.received + 1
           /\ Marked(u, seq).base = u.base /\ Marked(u, seq).head = u.head
           /\ Marked(u, seq).sent = u.sent /\ Marked(u, seq).lost = u.lost /\ Marked(u, seq).snap = u.snap
           /\ Cardinality(Marked(u, seq).ring) = Cardinality(u.ring) + 1
           /\ Cardinality(u.ring) \in Nat
  <1>1. Bit(u, seq) \in Slots /\ u.ring \in SUBSET Slots /\ u.head \in Slots
    BY BitInRing DEF TrackerType
  <1>2. u.ring \cup {Bit(u, seq)} \in SUBSET Slots /\ u.received + 1 \in Nat
    BY <1>1 DEF TrackerType
  <1>3. Marked(u, seq) = [base |-> u.base, head |-> u.head, ring |-> u.ring \cup {Bit(u, seq)}, sent |-> u.sent,
                          received |-> u.received + 1, lost |-> u.lost, snap |-> u.snap]
    BY Zenon DEF Marked, TrackerType
  <1>4. IsFiniteSet(u.ring) /\ Cardinality(u.ring) \in Nat
    BY <1>1, SlotsCount, Zenon
  <1>5. Cardinality(u.ring \cup {Bit(u, seq)}) = Cardinality(u.ring) + 1
    BY <1>4, FS_AddElement, Zenon
  <1> QED
    BY <1>2, <1>3, <1>4, <1>5 DEF TrackerType

(* The counts after a bit was set.                                         *)
LEMMA MarkCounts ==
    ASSUME NEW u, LossCounts(u), NEW seq \in Nat, u.base <= seq, seq < u.sent, u.base = 0 => seq < WINDOW
    PROVE  LossCounts(Marked(u, seq)) /\ Marked(u, seq).snap = u.snap
  <1>1. CASE Bit(u, seq) \in u.ring
    BY <1>1 DEF Marked
  <1>2. CASE Bit(u, seq) \notin u.ring
    <2> DEFINE m == Marked(u, seq)
    <2>1. u \in TrackerType
      BY DEF LossCounts
    <2>2. /\ m \in TrackerType /\ m.ring = u.ring \cup {Bit(u, seq)}
          /\ m.received = u.received + 1 /\ m.base = u.base /\ m.head = u.head
          /\ m.sent = u.sent /\ m.lost = u.lost /\ m.snap = u.snap
          /\ Cardinality(m.ring) = Cardinality(u.ring) + 1 /\ Cardinality(u.ring) \in Nat
      BY <1>2, <2>1, MarkedIs
    <2> HIDE DEF m
    <2>3. u.received \in Nat /\ u.lost \in Nat /\ u.base \in Nat /\ u.sent \in Nat
      BY <2>1 DEF TrackerType
    <2>4. m.received + m.lost = m.base + Cardinality(m.ring)
      BY <2>2, <2>3 DEF LossCounts
    <2>5. ASSUME u.base = 0 PROVE Bit(u, seq) \in 0..(u.sent - 1)
      <3>1. u.head = 0 /\ seq < WINDOW /\ WINDOW \in Nat /\ 0 \in Slots /\ seq \in 0..WINDOW
        BY <2>5, WindowAssumption DEF LossCounts, Slots
      <3>2. Bit(u, seq) = Slot(u.head, seq - u.base) /\ seq - u.base = seq
        BY <2>1, <2>5, BitInRing
      <3>3. Slot(0, seq) = IF 0 + seq < WINDOW THEN 0 + seq ELSE 0 + seq - WINDOW
        BY <3>1, SlotIs
      <3>4. Bit(u, seq) = Slot(0, seq)
        BY <3>1, <3>2, Zenon
      <3> QED
        BY <2>3, <3>1, <3>3, <3>4
    <2>6. m.base = 0 => m.head = 0 /\ m.ring \subseteq 0..(m.sent - 1)
      BY <2>2, <2>5, Zenon DEF LossCounts
    <2>7. m.base > 0 => m.base + WINDOW <= m.sent
      BY <2>2, Zenon DEF LossCounts
    <2> QED
      BY <2>2, <2>4, <2>6, <2>7, Zenon DEF LossCounts, m
  <1> QED
    BY <1>1, <1>2

(* The bits after a bit was set: the bit of the number and no other.       *)
LEMMA MarkExact ==
    ASSUME NEW u, LossCounts(u), NEW seen, RingExact(u, seen),
           NEW seq \in Nat, u.base <= seq, seq < u.sent, seq < u.base + WINDOW
    PROVE  RingExact(Marked(u, seq), seen \cup {seq})
  <1> DEFINE b == Bit(u, seq)
             m == Marked(u, seq)
             more == seen \cup {seq}
  <1>1. /\ u \in TrackerType /\ u.base \in Nat /\ u.sent \in Nat /\ u.head \in Slots /\ WINDOW \in Nat
        /\ u.received \in Nat
    BY WindowAssumption DEF LossCounts, TrackerType
  <1>2. /\ seen \subseteq 0..(u.sent - 1) /\ u.received = Cardinality(seen)
        /\ \A s \in seen : s < u.base + WINDOW
        /\ u.ring = {Slot(u.head, s - u.base) : s \in {x \in seen : x >= u.base}}
    BY DEF RingExact, InWindow
  <1>3. b = Slot(u.head, seq - u.base) /\ seq - u.base \in Slots
    <2>1. seq - u.base \in Slots
      BY <1>1 DEF Slots
    <2> QED
      BY <1>1, <2>1, BitInRing
  <1>4. ASSUME NEW s \in seen, s >= u.base PROVE s - u.base \in Slots /\ (s - u.base = seq - u.base => s = seq)
    BY <1>1, <1>2, <1>4 DEF Slots
  <1>5. more \subseteq 0..(u.sent - 1) /\ \A s \in more : s < u.base + WINDOW
    BY <1>1, <1>2
  <1>6. seq >= u.base
    BY <1>1
  <1> HIDE DEF b
  <1>7. b \in u.ring <=> seq \in seen
    <2>1. ASSUME b \in u.ring PROVE seq \in seen
      <3>1. PICK s \in seen : s >= u.base /\ b = Slot(u.head, s - u.base)
        BY <1>2, <2>1, Zenon
      <3>2. s - u.base = seq - u.base
        BY <1>1, <1>3, <1>4, <3>1, SlotApart, Zenon
      <3> QED
        BY <1>4, <3>1, <3>2, Zenon
    <2>2. ASSUME seq \in seen PROVE b \in u.ring
      BY <1>2, <1>3, <1>6, <2>2, Zenon
    <2> QED
      BY <2>1, <2>2
  <1>8. u.ring \cup {b} = {Slot(u.head, s - u.base) : s \in {x \in more : x >= u.base}}
    BY <1>2, <1>3, <1>6, Zenon
  <1>9. CASE b \in u.ring
    <2>1. m = u
      BY <1>9, Zenon DEF Marked, b
    <2>2. more = seen
      BY <1>7, <1>9, Zenon
    <2> QED
      BY <2>1, <2>2, Zenon
  <1>10. CASE b \notin u.ring
    <2>1. /\ m.ring = u.ring \cup {b} /\ m.received = u.received + 1 /\ m.base = u.base /\ m.head = u.head
          /\ m.sent = u.sent
      BY <1>1, <1>10, MarkedIs, Zenon DEF b
    <2>2. IsFiniteSet(seen)
      <3>1. IsFiniteSet(0..(u.sent - 1))
        BY <1>1, FirstNumbers, Zenon
      <3> QED
        BY <1>2, <3>1, FS_Subset, Zenon
    <2>3. Cardinality(more) = Cardinality(seen) + 1
      BY <1>7, <1>10, <2>2, FS_AddElement, Zenon
    <2> HIDE DEF m
    <2>4. m.received = Cardinality(more)
      BY <1>2, <2>1, <2>3, Zenon
    <2> HIDE DEF more
    <2>5. RingExact(m, more)
      BY <1>5, <1>8, <2>1, <2>4, Zenon DEF RingExact, InWindow
    <2> QED
      BY <2>5 DEF m, more
  <1> QED
    BY <1>9, <1>10

(* on_receive keeps the counts, and the bits unless a burst of losses was  *)
(* longer than two windows.                                                *)
LEMMA ReceiveKeeps ==
    ASSUME NEW t, LossCounts(t), NEW seq \in Nat, seq < t.sent
    PROVE  /\ LossCounts(on_receive(t, seq))
           /\ on_receive(t, seq).snap = t.snap
           /\ \A seen : RingExact(t, seen) /\ seq < t.base + 2 * WINDOW =>
                 RingExact(on_receive(t, seq), IF seq >= t.base THEN seen \cup {seq} ELSE seen)
  <1>1. t.base \in Nat /\ t.sent \in Nat /\ WINDOW \in Nat
    BY WindowAssumption DEF LossCounts, TrackerType
  <1>2. CASE seq < t.base
    <2>1. on_receive(t, seq) = t /\ ~(seq >= t.base)
      BY <1>1, <1>2, ReceiveIs
    <2> QED
      BY <2>1, Zenon
  <1>3. CASE ~(seq < t.base) /\ seq - t.base >= WINDOW
    <2> DEFINE u == Advance(t, AdvanceBy(seq - t.base))
    <2>1. on_receive(t, seq) = Marked(u, seq) /\ seq >= t.base
      <3>1. on_receive(t, seq) = Marked(Moved(t, seq), seq)
        BY <1>3, ReceiveIs, Zenon
      <3>2. Moved(t, seq) = u
        BY <1>3 DEF Moved
      <3> QED
        BY <1>1, <1>3, <3>1, <3>2
    <2>2. LossCounts(u) /\ u.base > 0 /\ u.base <= seq /\ u.sent = t.sent /\ u.snap = t.snap
      BY <1>3, MoveCounts
    <2>3. ASSUME NEW seen, RingExact(t, seen), seq < t.base + 2 * WINDOW
          PROVE  RingExact(u, seen) /\ seq < u.base + WINDOW
      <3>1. RingExact(u, seen)
        BY <1>3, <2>3, MoveExact
      <3>2. /\ AdvanceBy(seq - t.base) \in 1..WINDOW /\ t.base + AdvanceBy(seq - t.base) <= t.sent
            /\ seq < t.base + AdvanceBy(seq - t.base) + WINDOW
        <4>1. /\ AdvanceBy(seq - t.base) \in 1..WINDOW /\ t.base + AdvanceBy(seq - t.base) <= seq
              /\ seq < t.base + AdvanceBy(seq - t.base) + WINDOW
          BY <1>1, <1>3, <2>3, WindowMoves, Zenon
        <4> QED
          BY <1>1, <4>1
      <3>3. u.base = t.base + AdvanceBy(seq - t.base)
        BY <3>2, AdvanceFields, Zenon DEF LossCounts
      <3> QED
        BY <3>1, <3>2, <3>3, Zenon
    <2> HIDE DEF u
    <2>4. LossCounts(Marked(u, seq)) /\ Marked(u, seq).snap = u.snap
      <3>1. u.base = 0 => seq < WINDOW
        BY <2>2 DEF LossCounts, TrackerType
      <3> QED
        BY <2>2, <3>1, MarkCounts, Zenon
    <2>5. ASSUME NEW seen, RingExact(t, seen), seq < t.base + 2 * WINDOW
          PROVE  RingExact(Marked(u, seq), seen \cup {seq})
      BY <2>2, <2>3, <2>5, MarkExact, Zenon
    <2> QED
      BY <2>1, <2>2, <2>4, <2>5, Zenon
  <1>4. CASE ~(seq < t.base) /\ ~(seq - t.base >= WINDOW)
    <2>1. on_receive(t, seq) = Marked(t, seq) /\ seq >= t.base
      <3>1. on_receive(t, seq) = Marked(Moved(t, seq), seq)
        BY <1>4, ReceiveIs, Zenon
      <3>2. Moved(t, seq) = t
        BY <1>4 DEF Moved
      <3> QED
        BY <1>1, <1>4, <3>1, <3>2
    <2>2. t.base <= seq /\ seq < t.base + WINDOW /\ (t.base = 0 => seq < WINDOW)
      BY <1>1, <1>4
    <2>3. LossCounts(Marked(t, seq)) /\ Marked(t, seq).snap = t.snap
      BY <2>2, MarkCounts, Zenon
    <2>4. ASSUME NEW seen, RingExact(t, seen) PROVE RingExact(Marked(t, seq), seen \cup {seq})
      BY <2>2, <2>4, MarkExact, Zenon
    <2> QED
      BY <2>1, <2>3, <2>4, Zenon
  <1> QED
    BY <1>2, <1>3, <1>4, Zenon

(* on_receive does not count as a packet sent.                             *)
LEMMA SentSame ==
    ASSUME NEW t, LossCounts(t), NEW seq \in Nat, seq < t.sent
    PROVE  on_receive(t, seq).sent = t.sent
  <1>1. t \in TrackerType /\ t.base \in Nat
    BY DEF LossCounts, TrackerType
  <1>2. ASSUME NEW u \in TrackerType, u.sent = t.sent PROVE Marked(u, seq).sent = t.sent
    BY <1>2 DEF Marked, TrackerType
  <1>3. CASE seq < t.base
    BY <1>3, ReceiveIs, Zenon
  <1>4. CASE ~(seq < t.base) /\ seq - t.base >= WINDOW
    <2>1. Moved(t, seq) \in TrackerType /\ Moved(t, seq).sent = t.sent
      BY <1>4, MoveCounts, Zenon DEF Moved, LossCounts
    <2> QED
      BY <1>2, <1>4, <2>1, ReceiveIs, Zenon
  <1>5. CASE ~(seq < t.base) /\ ~(seq - t.base >= WINDOW)
    <2>1. Moved(t, seq) = t
      BY <1>5 DEF Moved
    <2> QED
      BY <1>1, <1>2, <1>5, <2>1, ReceiveIs, Zenon
  <1> QED
    BY <1>3, <1>4, <1>5

(* An echo that the tracker learns of (Receives is what UdpReceive and     *)
(* PacketEchoed do to the tracker).                                        *)
Receives(seq) ==
    /\ tracker' = on_receive(tracker, seq)
    /\ tracker_seen' = IF seq >= tracker.base THEN tracker_seen \cup {seq} ELSE tracker_seen
    /\ tracker_gap' = (tracker_gap \/ seq >= tracker.base + 2 * WINDOW)
    /\ UNCHANGED reported

(* An echo keeps the invariant of the tracker.                             *)
LEMMA EchoKeeps ==
    ASSUME LossInv, NEW seq \in Nat, seq < tracker.sent, Receives(seq)
    PROVE  LossInv'
  <1>1. LossCounts(tracker') /\ tracker'.snap = tracker.snap
    BY ReceiveKeeps, Zenon DEF LossInv, Receives
  <1>2. reported'.sum = tracker'.snap
    BY <1>1, Zenon DEF LossInv, Receives
  <1>3. tracker_gap' \/ RingExact(tracker', tracker_seen')
    <2>1. CASE tracker_gap \/ seq >= tracker.base + 2 * WINDOW
      BY <2>1, Zenon DEF Receives
    <2>2. CASE ~tracker_gap /\ ~(seq >= tracker.base + 2 * WINDOW)
      <3>1. RingExact(tracker, tracker_seen)
        BY <2>2, Zenon DEF LossInv
      <3>2. seq < tracker.base + 2 * WINDOW
        BY <2>2, WindowAssumption DEF LossInv, LossCounts, TrackerType
      <3>3. RingExact(on_receive(tracker, seq), IF seq >= tracker.base THEN tracker_seen \cup {seq} ELSE tracker_seen)
        BY <3>1, <3>2, ReceiveKeeps DEF LossInv
      <3> QED
        BY <3>3, Zenon DEF Receives
    <2> QED
      BY <2>1, <2>2
  <1> QED
    BY <1>1, <1>2, <1>3, Zenon DEF LossInv

(* A packet that is sent.                                                  *)
LEMMA SendKeeps ==
    ASSUME LossInv, tracker' = on_send(tracker), UNCHANGED <<tracker_seen, tracker_gap, reported>>
    PROVE  LossInv'
  <1>1. tracker \in TrackerType /\ tracker.sent \in Nat /\ tracker.base \in Nat /\ WINDOW \in Nat
    BY WindowAssumption DEF LossInv, LossCounts, TrackerType
  <1>2. tracker' = [base |-> tracker.base, head |-> tracker.head, ring |-> tracker.ring, sent |-> tracker.sent + 1,
                    received |-> tracker.received, lost |-> tracker.lost, snap |-> tracker.snap]
    BY <1>1 DEF on_send, TrackerType
  <1>3. /\ tracker' \in TrackerType /\ tracker'.base = tracker.base /\ tracker'.head = tracker.head
        /\ tracker'.ring = tracker.ring /\ tracker'.received = tracker.received /\ tracker'.lost = tracker.lost
        /\ tracker'.snap = tracker.snap /\ tracker'.sent = tracker.sent + 1
    BY <1>1, <1>2 DEF TrackerType
  <1>4. 0..(tracker.sent - 1) \subseteq 0..(tracker'.sent - 1)
    BY <1>1, <1>3
  <1>5. tracker.base + WINDOW <= tracker.sent => tracker.base + WINDOW <= tracker'.sent
    BY <1>1, <1>3
  <1>6. LossCounts(tracker')
    BY <1>3, <1>4, <1>5, Zenon DEF LossInv, LossCounts
  <1>7. tracker_gap' \/ RingExact(tracker', tracker_seen')
    BY <1>3, <1>4, Zenon DEF LossInv, RingExact, InWindow
  <1> QED
    BY <1>3, <1>6, <1>7, Zenon DEF LossInv

(* What was reported, and what has come since, are the totals.             *)
LEMMA DeltasAdd ==
    ASSUME NEW t \in TrackerType
    PROVE  Plus(t.snap, Minus(Totals(t), t.snap)) = Totals(t) /\ Totals(t) \in Counts
  <1>1. /\ t.snap \in Counts /\ t.sent \in Nat /\ t.received \in Nat /\ t.lost \in Nat
    BY DEF TrackerType
  <1>2. Totals(t) \in Counts
    BY <1>1 DEF Totals, Counts
  <1>3. /\ DOMAIN t.snap = {"sent", "received", "lost"} /\ DOMAIN Totals(t) = {"sent", "received", "lost"}
        /\ \A k \in {"sent", "received", "lost"} : t.snap[k] \in Nat /\ Totals(t)[k] \in Nat
    BY <1>1 DEF Totals, Counts
  <1> DEFINE sum == Plus(t.snap, Minus(Totals(t), t.snap))
  <1>4. sum = [k \in {"sent", "received", "lost"} |-> t.snap[k] + (Totals(t)[k] - t.snap[k])]
    BY <1>3 DEF Plus, Minus
  <1>5. \A k \in {"sent", "received", "lost"} : t.snap[k] + (Totals(t)[k] - t.snap[k]) = Totals(t)[k]
    BY <1>3
  <1>6. Totals(t) = [k \in {"sent", "received", "lost"} |-> Totals(t)[k]]
    BY DEF Totals
  <1>7. sum = Totals(t)
    BY <1>4, <1>5, <1>6, Zenon
  <1> QED
    BY <1>2, <1>7

(* A snapshot moves the deltas to what was reported (take_deltas).         *)
LEMMA DeltasKeep == LossInv /\ take_packet_deltas => LossInv'
  <1> SUFFICES ASSUME LossInv, take_packet_deltas PROVE LossInv'
    OBVIOUS
  <1>1. tracker \in TrackerType
    BY DEF LossInv, LossCounts
  <1>2. /\ tracker' = [tracker EXCEPT !.snap = Totals(tracker)]
        /\ reported'.sum = Plus(reported.sum, Minus(Totals(tracker), tracker.snap))
        /\ UNCHANGED <<tracker_seen, tracker_gap>>
    BY DEF take_packet_deltas, take_deltas
  <1>3. Plus(tracker.snap, Minus(Totals(tracker), tracker.snap)) = Totals(tracker) /\ Totals(tracker) \in Counts
    BY <1>1, DeltasAdd
  <1>4. tracker' = [base |-> tracker.base, head |-> tracker.head, ring |-> tracker.ring, sent |-> tracker.sent,
                    received |-> tracker.received, lost |-> tracker.lost, snap |-> Totals(tracker)]
    BY <1>1, <1>2 DEF TrackerType
  <1>5. /\ tracker' \in TrackerType /\ tracker'.base = tracker.base /\ tracker'.head = tracker.head
        /\ tracker'.ring = tracker.ring /\ tracker'.received = tracker.received /\ tracker'.lost = tracker.lost
        /\ tracker'.snap = Totals(tracker) /\ tracker'.sent = tracker.sent
    BY <1>1, <1>3, <1>4 DEF TrackerType
  <1>6. LossCounts(tracker')
    BY <1>5, Zenon DEF LossInv, LossCounts
  <1>7. tracker_gap' \/ RingExact(tracker', tracker_seen')
    BY <1>2, <1>5, Zenon DEF LossInv, RingExact, InWindow
  <1>8. reported'.sum = tracker'.snap
    BY <1>2, <1>3, <1>5, Zenon DEF LossInv
  <1> QED
    BY <1>6, <1>7, <1>8, Zenon DEF LossInv

(* A new tracker has seen nothing.                                         *)
LEMMA LossStart == LossInit => LossInv
  <1> SUFFICES ASSUME LossInit PROVE LossInv
    OBVIOUS
  <1>1. tracker = NewTracker /\ tracker_seen = {} /\ reported.sum = Totals(NewTracker)
    BY DEF LossInit
  <1>2. tracker \in TrackerType
    BY <1>1, WindowAssumption DEF NewTracker, TrackerType, Slots, Counts
  <1>3. /\ tracker.base = 0 /\ tracker.head = 0 /\ tracker.ring = {} /\ tracker.received = 0 /\ tracker.lost = 0
        /\ tracker.snap = Totals(NewTracker)
    BY <1>1 DEF NewTracker, Totals
  <1>4. Cardinality({}) = 0
    BY FS_EmptySet, Zenon
  <1>5. LossCounts(tracker)
    BY <1>2, <1>3, <1>4 DEF LossCounts
  <1>6. RingExact(tracker, tracker_seen)
    <2>1. {Slot(tracker.head, s - tracker.base) : s \in InWindow(tracker, {})} = {}
      BY Zenon DEF InWindow
    <2> QED
      BY <1>1, <1>3, <1>4, <2>1, Zenon DEF RingExact
  <1> QED
    BY <1>1, <1>3, <1>5, <1>6, Zenon DEF LossInv

(* The invariant says what LossExact does.                                 *)
LEMMA LossImplies == LossInv => LossExact
  <1> SUFFICES ASSUME LossInv PROVE LossExact
    OBVIOUS
  <1> DEFINE t == tracker
             seen == tracker_seen
             later == {s \in seen : s >= t.base}
             below == {s \in seen : s < t.base}
  <1>1. /\ t \in TrackerType /\ t.base \in Nat /\ t.sent \in Nat /\ t.received \in Nat /\ t.lost \in Nat
        /\ t.head \in Slots /\ t.ring \in SUBSET Slots /\ WINDOW \in Nat
        /\ t.received + t.lost = t.base + Cardinality(t.ring)
    BY WindowAssumption DEF LossInv, LossCounts, TrackerType
  <1>2. IsFiniteSet(Slots) /\ Cardinality(Slots) = WINDOW
    BY <1>1, FirstNumbers, Zenon DEF Slots
  <1>3. Cardinality(t.ring) \in Nat /\ Cardinality(t.ring) <= WINDOW
    <2>1. IsFiniteSet(t.ring) /\ Cardinality(t.ring) <= Cardinality(Slots)
      BY <1>1, <1>2, FS_Subset, Zenon
    <2> QED
      BY <1>2, <2>1, FS_CardinalityType, Zenon
  <1>4. t.received + t.lost <= t.sent
    <2>1. CASE t.base > 0
      BY <1>1, <1>3, <2>1 DEF LossInv, LossCounts
    <2>2. CASE t.base = 0
      <3>1. t.ring \subseteq 0..(t.sent - 1)
        BY <2>2, Zenon DEF LossInv, LossCounts
      <3>2. IsFiniteSet(0..(t.sent - 1)) /\ Cardinality(0..(t.sent - 1)) = t.sent
        BY <1>1, FirstNumbers, Zenon
      <3>3. Cardinality(t.ring) <= Cardinality(0..(t.sent - 1))
        BY <3>1, <3>2, FS_Subset, Zenon
      <3> QED
        BY <1>1, <1>3, <2>2, <3>2, <3>3
    <2> QED
      BY <1>1, <2>1, <2>2
  <1>5. Plus(reported.sum, Minus(Totals(t), t.snap)) = Totals(t)
    BY <1>1, DeltasAdd, Zenon DEF LossInv
  <1>6. ASSUME ~tracker_gap
        PROVE  /\ t.received = Cardinality(seen)
               /\ t.lost = t.base - Cardinality(below)
               /\ t.ring = {(t.head + s - t.base) % WINDOW : s \in later}
    <2>1. /\ seen \subseteq 0..(t.sent - 1) /\ t.received = Cardinality(seen)
          /\ \A s \in seen : s < t.base + WINDOW
          /\ t.ring = {Slot(t.head, s - t.base) : s \in later}
      BY <1>6, Zenon DEF LossInv, RingExact, InWindow
    <2>2. \A s \in seen : s \in Nat
      BY <2>1
    <2>3. \A s \in later : (t.head + s - t.base) % WINDOW = Slot(t.head, s - t.base) /\ s - t.base \in Slots
      <3>1. \A s \in later : t.head + s - t.base = t.head + (s - t.base) /\ s - t.base \in Slots
        BY <1>1, <2>1, <2>2 DEF Slots
      <3> QED
        BY <3>1, Zenon DEF Slot
    <2>4. t.ring = {(t.head + s - t.base) % WINDOW : s \in later}
      BY <2>1, <2>3, Zenon
    <2> DEFINE D == {s - t.base : s \in later}
    <2>5. D \subseteq Slots /\ t.ring = {Slot(t.head, d) : d \in D}
      BY <2>1, <2>3, Zenon
    <2>6. Cardinality(t.ring) = Cardinality(D) /\ IsFiniteSet(D)
      BY <1>1, <2>5, SlotsCount, Zenon
    <2>7. IsFiniteSet(seen)
      <3>1. IsFiniteSet(0..(t.sent - 1))
        BY <1>1, FirstNumbers, Zenon
      <3> QED
        BY <2>1, <3>1, FS_Subset, Zenon
    <2>8. IsFiniteSet(later) /\ IsFiniteSet(below)
      BY <2>7, FS_Subset, Zenon
    <2>9. Cardinality(D) = Cardinality(later)
      <3> DEFINE f == [s \in later |-> s - t.base]
      <3>1. \A r, s \in later : f[r] = f[s] => r = s
        BY <1>1, <2>2
      <3>2. f \in [later -> D] /\ \A y \in D : \E s \in later : f[s] = y
        BY Zenon
      <3>3. f \in Bijection(later, D)
        BY <3>1, <3>2, Zenon DEF Bijection, Injection, IsInjective, Surjection
      <3> QED
        BY <2>8, <3>3, FS_Bijection, Zenon DEF ExistsBijection
    <2>10. seen = later \cup below /\ later \cap below = {}
      BY <1>1, <2>2
    <2> HIDE DEF t, seen, later, below, D
    <2>11. Cardinality(seen) = Cardinality(later) + Cardinality(below) - Cardinality({})
      <3>1. Cardinality(later \cup below) = Cardinality(later) + Cardinality(below) - Cardinality(later \cap below)
        BY <2>8, FS_Union, Zenon
      <3> QED
        BY <2>10, <3>1, Zenon
    <2>12. Cardinality({}) = 0
      BY FS_EmptySet, Zenon
    <2>13. Cardinality(later) \in Nat /\ Cardinality(below) \in Nat
      BY <2>8, FS_CardinalityType, Zenon
    <2>14. t.lost = t.base - Cardinality(below)
      <3>1. t.received = Cardinality(later) + Cardinality(below)
        BY <2>1, <2>11, <2>12, <2>13
      <3>2. Cardinality(t.ring) = Cardinality(later)
        BY <2>6, <2>9, Zenon
      <3> QED
        BY <1>1, <1>3, <2>13, <3>1, <3>2
    <2> QED
      BY <2>1, <2>4, <2>14, Zenon
  <1> QED
    BY <1>4, <1>5, <1>6, Zenon DEF LossExact

(* Until a burst of losses longer than two windows the ring knows what     *)
(* unlimited memory would; nothing is ever both received and lost, and the *)
(* deltas add up, for every window and every order of echoes (on_receive,  *)
(* advance, take_deltas).                                                  *)
THEOREM LossIsExact == LossSpec => []LossExact
  <1>1. LossInv /\ [LossNext]_lossVars => LossInv'
    <2> SUFFICES ASSUME LossInv, [LossNext]_lossVars PROVE LossInv'
      OBVIOUS
    <2>1. CASE PacketSent
      BY <2>1, SendKeeps DEF PacketSent
    <2>2. ASSUME NEW seq \in 0..(MaxPackets - 1), PacketEchoed(seq) PROVE LossInv'
      <3>1. seq \in Nat
        OBVIOUS
      <3> QED
        BY <2>2, <3>1, EchoKeeps, Zenon DEF PacketEchoed, Receives
    <2>3. CASE take_packet_deltas
      BY <2>3, DeltasKeep
    <2>4. CASE UNCHANGED lossVars
      BY <2>4, Zenon DEF lossVars, LossInv
    <2> QED
      BY <2>1, <2>2, <2>3, <2>4 DEF LossNext
  <1> QED
    BY <1>1, LossStart, LossImplies, PTL DEF LossSpec

-----------------------------------------------------------------------------
(* UDP and DNS.  Where a datagram can be, and what a session is.           *)
Dgram == [port : Ports, seq : Nat, copy : {0, 1}]
Session ==
    [mode : {"none", "Echo", "RR", "Sink", "Source", "Bidir", "Dns"}, sink : BOOLEAN, source : BOOLEAN,
     stop : BOOLEAN, queue : SUBSET Dgram]
InFlight(m) == m \in up \/ m \in down \/ m \in queue \/ \E p \in Ports : m \in sessions[p].queue

DgServerOK ==
    /\ dg \in DgConfigs
    /\ \A m : InFlight(m) => m \in Dgram
    /\ sessions \in [Ports -> Session]
    /\ \A p \in Ports : sessions[p].mode \in {"none", dg.mode}
    /\ ClientsHaveHandlers

(* A server that sends of its own accord does it with this.                *)
Unasked(m) == dg.mode \in {"Source", "Bidir"} /\ \E p \in Ports : m = [port |-> p, seq |-> 0, copy |-> 0]

(* What a step of the server may do with datagrams: pass them on.          *)
PassesOn == \A m : InFlight(m)' => InFlight(m) \/ Unasked(m)

(* A session that changes keeps its mode, and its peer is still known.     *)
LEMMA SessionKeeps ==
    ASSUME DgServerOK, NEW p \in Ports, NEW s \in Session, s.mode = sessions[p].mode, s.queue \subseteq sessions[p].queue,
           sessions' = [sessions EXCEPT ![p] = s], UNCHANGED <<dg, up, queue, active_clients>>,
           \A m : m \in down' => InFlight(m) \/ Unasked(m)
    PROVE  DgServerOK' /\ PassesOn
  <1>1. /\ sessions' \in [Ports -> Session]
        /\ \A q \in Ports : sessions'[q].mode = sessions[q].mode /\ sessions'[q].queue \subseteq sessions[q].queue
    BY Zenon DEF DgServerOK
  <1>2. PassesOn
    BY <1>1, Zenon DEF PassesOn, InFlight
  <1>3. \A m : Unasked(m) => m \in Dgram
    BY DEF Unasked, Dgram
  <1>4. \A m : InFlight(m)' => m \in Dgram
    BY <1>2, <1>3, Zenon DEF PassesOn, DgServerOK
  <1>5. ClientsHaveHandlers'
    BY <1>1, Zenon DEF DgServerOK, ClientsHaveHandlers, Live
  <1> QED
    BY <1>1, <1>2, <1>4, <1>5, Zenon DEF DgServerOK

(* A handler that returns takes its peer from the known ones.              *)
LEMMA ReturnKeeps ==
    ASSUME DgServerOK, NEW p \in Ports, Returns(p), UNCHANGED <<dg, up, queue>>
    PROVE  DgServerOK' /\ PassesOn
  <1>1. sessions' = [sessions EXCEPT ![p] = NoSession] /\ active_clients' = active_clients \ {p} /\ down' = down
    BY DEF Returns, Forget
  <1>2. NoSession \in Session /\ NoSession.mode = "none" /\ NoSession.queue = {}
    BY DEF NoSession, Session
  <1>3. /\ sessions' \in [Ports -> Session]
        /\ \A q \in Ports : q # p => sessions'[q] = sessions[q]
        /\ sessions'[p] = NoSession
    BY <1>1, <1>2, Zenon DEF DgServerOK
  <1>4. \A q \in Ports : sessions'[q].mode \in {"none", dg.mode} /\ sessions'[q].queue \subseteq sessions[q].queue
    BY <1>2, <1>3, Zenon DEF DgServerOK
  <1>5. PassesOn
    BY <1>1, <1>4, Zenon DEF PassesOn, InFlight
  <1>6. \A m : InFlight(m)' => m \in Dgram
    BY <1>1, <1>4, Zenon DEF DgServerOK, InFlight
  <1>7. ClientsHaveHandlers'
    BY <1>1, <1>2, <1>3, Zenon DEF DgServerOK, ClientsHaveHandlers, Live
  <1> QED
    BY <1>3, <1>4, <1>5, <1>6, <1>7, Zenon DEF DgServerOK

(* A handler takes a datagram from its socket and answers or ignores it.   *)
LEMMA TakenKeeps ==
    ASSUME DgServerOK, NEW p \in Ports, Replies(p) \/ Ignores(p), UNCHANGED <<dg, up, queue>>
    PROVE  DgServerOK' /\ PassesOn
  <1>1. PICK m \in sessions[p].queue : Taken(p, m) /\ (Answer(m) \/ Ignore(m))
    BY Zenon DEF Replies, Ignores
  <1> DEFINE s == [sessions[p] EXCEPT !.queue = @ \ {m}]
  <1>2. sessions[p] \in Session
    BY Zenon DEF DgServerOK
  <1>3. s \in Session /\ s.mode = sessions[p].mode /\ s.queue \subseteq sessions[p].queue
    BY <1>2 DEF Session
  <1>4. sessions' = [sessions EXCEPT ![p] = s] /\ UNCHANGED active_clients
    BY <1>1 DEF Taken
  <1>5. \A x : x \in down' => InFlight(x) \/ Unasked(x)
    BY <1>1, Zenon DEF Answer, Ignore, InFlight
  <1> HIDE DEF s
  <1> QED
    BY <1>3, <1>4, <1>5, SessionKeeps, Zenon

(* A handler that sends of its own accord.                                 *)
LEMMA SendsKeeps ==
    ASSUME DgServerOK, NEW p \in Ports, Sends(p), sessions[p].mode \in {"Source", "Bidir"}, UNCHANGED <<dg, up, queue>>
    PROVE  DgServerOK' /\ PassesOn
  <1>1. dg.mode \in {"Source", "Bidir"}
    <2>1. "none" \notin {"Source", "Bidir"}
      OBVIOUS
    <2> QED
      BY <2>1, Zenon DEF DgServerOK
  <1>2. UNCHANGED <<active_clients, sessions>> /\ down' = down \cup {[port |-> p, seq |-> 0, copy |-> 0]}
    BY DEF Sends
  <1>3. PassesOn
    BY <1>1, <1>2, Zenon DEF PassesOn, InFlight, Unasked
  <1>4. \A m : Unasked(m) => m \in Dgram
    BY DEF Unasked, Dgram
  <1>5. \A m : InFlight(m)' => m \in Dgram
    BY <1>3, <1>4, Zenon DEF PassesOn, DgServerOK
  <1>6. ClientsHaveHandlers'
    BY <1>2, Zenon DEF DgServerOK, ClientsHaveHandlers, Live
  <1> QED
    BY <1>2, <1>3, <1>5, <1>6, Zenon DEF DgServerOK

(* The tasks of a Bidir session end one by one.                            *)
LEMMA BidirKeeps ==
    ASSUME DgServerOK, NEW p \in Ports, NEW s \in Session,
           s.mode = sessions[p].mode, s.queue = sessions[p].queue,
           sessions' = [sessions EXCEPT ![p] = s], UNCHANGED <<dg, up, down, queue, active_clients>>
    PROVE  DgServerOK' /\ PassesOn
  <1>1. \A m : m \in down' => InFlight(m) \/ Unasked(m)
    BY Zenon DEF InFlight
  <1>2. s.queue \subseteq sessions[p].queue
    BY Zenon
  <1>3. UNCHANGED <<dg, up, queue, active_clients>>
    OBVIOUS
  <1> QED
    BY <1>1, <1>2, <1>3, SessionKeeps, Zenon

(* A step of a handler.                                                    *)
LEMMA HandlerKeeps ==
    ASSUME DgServerOK, NEW p \in Ports, dispatch_connected_udp(p) \/ BidirReceives(p)
    PROVE  DgServerOK' /\ PassesOn
  <1>1. UNCHANGED <<dg, up, queue>>
    BY DEF dispatch_connected_udp, BidirReceives
  <1>2. sessions[p] \in Session
    BY Zenon DEF DgServerOK
  <1>3. CASE Replies(p) \/ Ignores(p)
    BY <1>1, <1>3, TakenKeeps
  <1>4. CASE Returns(p)
    BY <1>1, <1>4, ReturnKeeps
  <1>5. CASE Sends(p) /\ sessions[p].mode \in {"Source", "Bidir"}
    BY <1>1, <1>5, SendsKeeps
  <1>6. CASE /\ sessions' = [sessions EXCEPT ![p] = SinkEnds(p)]
             /\ UNCHANGED <<down, active_clients>>
    <2>1. SinkEnds(p) \in Session /\ SinkEnds(p).mode = sessions[p].mode /\ SinkEnds(p).queue = sessions[p].queue
      BY <1>2, Zenon DEF SinkEnds, Session
    <2> QED
      BY <1>1, <1>6, <2>1, BidirKeeps, Zenon
  <1>7. CASE /\ sessions' = [sessions EXCEPT ![p].source = FALSE, ![p].stop = @ \/ p \in gone]
             /\ UNCHANGED <<down, active_clients>>
    <2> DEFINE b == sessions[p].stop \/ p \in gone
               s == [sessions[p] EXCEPT !.source = FALSE, !.stop = b]
    <2>1. b \in BOOLEAN
      OBVIOUS
    <2>2. sessions' = [sessions EXCEPT ![p] = s]
      BY <1>7, Zenon DEF DgServerOK, Session
    <2> HIDE DEF b
    <2>3. s \in Session /\ s.mode = sessions[p].mode /\ s.queue = sessions[p].queue
      BY <1>2, <2>1, Zenon DEF Session
    <2> HIDE DEF s
    <2> QED
      BY <1>1, <1>7, <2>2, <2>3, BidirKeeps, Zenon
  <1>8. ASSUME dispatch_connected_udp(p) PROVE DgServerOK' /\ PassesOn
    <2>1. CASE handle_udp_echo(p) \/ handle_udp_rr(p) \/ handle_udp_sink(p) \/ handle_connected_dns_client(p)
      BY <1>3, <1>4, <2>1, Zenon DEF handle_udp_echo, handle_udp_rr, handle_udp_sink, handle_connected_dns_client, IdleReturns
    <2>2. CASE handle_udp_source(p)
      BY <1>4, <1>5, <2>2, Zenon DEF handle_udp_source
    <2>3. CASE handle_udp_bidir(p)
      BY <1>4, <1>5, <1>7, <2>3, Zenon DEF handle_udp_bidir
    <2> QED
      BY <1>8, <2>1, <2>2, <2>3, Zenon DEF dispatch_connected_udp
  <1>9. ASSUME BidirReceives(p) PROVE DgServerOK' /\ PassesOn
    BY <1>3, <1>6, <1>9, Zenon DEF BidirReceives, BidirSink
  <1> QED
    BY <1>8, <1>9

(* A datagram reaches the socket of its session or the listener's.         *)
LEMMA ArriveKeeps == DgServerOK /\ Arrive => DgServerOK' /\ PassesOn
  <1> SUFFICES ASSUME DgServerOK, Arrive PROVE DgServerOK' /\ PassesOn
    OBVIOUS
  <1>1. PICK m \in up :
          /\ up' = up \ {m}
          /\ IF Live(m.port)
             THEN sessions' = [sessions EXCEPT ![m.port].queue = @ \cup {m}] /\ UNCHANGED queue
             ELSE queue' = queue \cup {m} /\ UNCHANGED sessions
    BY Zenon DEF Arrive
  <1>2. UNCHANGED <<dg, down, active_clients>>
    BY DEF Arrive
  <1>3. m \in Dgram /\ InFlight(m)
    BY Zenon DEF DgServerOK, InFlight
  <1>4. m.port \in Ports
    BY <1>3 DEF Dgram
  <1>5. CASE Live(m.port)
    <2> DEFINE p == m.port
               s == [sessions[p] EXCEPT !.queue = @ \cup {m}]
    <2>1. sessions[p] \in Session
      BY <1>4, Zenon DEF DgServerOK
    <2>2. s \in Session /\ s.mode = sessions[p].mode /\ s.queue = sessions[p].queue \cup {m}
      BY <1>3, <2>1 DEF Session
    <2>3. sessions' = [sessions EXCEPT ![p] = s] /\ queue' = queue
      BY <1>1, <1>5
    <2> HIDE DEF s
    <2>4. /\ sessions' \in [Ports -> Session]
          /\ \A q \in Ports : sessions'[q].mode = sessions[q].mode
          /\ \A q \in Ports : sessions'[q].queue \subseteq sessions[q].queue \cup {m}
      BY <1>4, <2>2, <2>3, Zenon DEF DgServerOK
    <2>5. \A x : InFlight(x)' => InFlight(x)
      BY <1>1, <1>2, <1>3, <2>3, <2>4, Zenon DEF InFlight
    <2>6. ClientsHaveHandlers'
      BY <1>2, <2>4, Zenon DEF DgServerOK, ClientsHaveHandlers, Live
    <2> QED
      BY <1>2, <2>4, <2>5, <2>6, Zenon DEF DgServerOK, PassesOn
  <1>6. CASE ~Live(m.port)
    <2>1. queue' = queue \cup {m} /\ sessions' = sessions
      BY <1>1, <1>6
    <2>2. \A x : InFlight(x)' => InFlight(x)
      BY <1>1, <1>2, <1>3, <2>1, Zenon DEF InFlight
    <2>3. ClientsHaveHandlers'
      BY <1>2, <2>1, Zenon DEF DgServerOK, ClientsHaveHandlers, Live
    <2> QED
      BY <1>2, <2>1, <2>2, <2>3, Zenon DEF DgServerOK, PassesOn
  <1> QED
    BY <1>5, <1>6

(* The listener answers, ignores, and opens a session for a new peer.      *)
LEMMA ListenKeeps == DgServerOK /\ Listen => DgServerOK' /\ PassesOn
  <1> SUFFICES ASSUME DgServerOK, Listen PROVE DgServerOK' /\ PassesOn
    OBVIOUS
  <1>1. PICK m \in queue :
          /\ queue' = queue \ {m}
          /\ IF dg.connected
             THEN udp_echo_loop_connected(m) \/ dns_echo_loop_connected(m)
             ELSE /\ udp_echo_loop_unconnected(m) \/ dns_echo_loop_unconnected(m)
                  /\ UNCHANGED <<active_clients, sessions>>
    BY DEF Listen
  <1>2. UNCHANGED <<dg, up>>
    BY DEF Listen
  <1>3. m \in Dgram /\ InFlight(m)
    BY Zenon DEF DgServerOK, InFlight
  <1>4. m.port \in Ports
    BY <1>3 DEF Dgram
  <1>5. \A x \in down' : x \in down \/ x = m
    BY <1>1, Zenon DEF udp_echo_loop_connected, dns_echo_loop_connected, udp_echo_loop_unconnected,
                       dns_echo_loop_unconnected, Answer, Ignore
  <1>6. UNCHANGED <<active_clients, sessions>> \/ ConnectClient(m)
    BY <1>1, Zenon DEF udp_echo_loop_connected, dns_echo_loop_connected
  <1>7. CASE UNCHANGED <<active_clients, sessions>>
    <2>1. \A x : InFlight(x)' => InFlight(x)
      BY <1>1, <1>2, <1>3, <1>5, <1>7, Zenon DEF InFlight
    <2>2. ClientsHaveHandlers'
      BY <1>7, Zenon DEF DgServerOK, ClientsHaveHandlers, Live
    <2> QED
      BY <1>2, <1>7, <2>1, <2>2, Zenon DEF DgServerOK, PassesOn
  <1>8. CASE /\ active_clients' = active_clients \cup {m.port}
             /\ sessions' = [sessions EXCEPT ![m.port] = Opened(dg.mode)]
    <2>1. dg.mode \in {"Echo", "RR", "Sink", "Source", "Bidir", "Dns"}
      BY DatagramAssumption DEF DgServerOK, DgConfiguration
    <2>2. /\ Opened(dg.mode) \in Session /\ Opened(dg.mode).mode = dg.mode /\ Opened(dg.mode).queue = {}
          /\ dg.mode # "none"
      <3> DEFINE mode == dg.mode
                 sink == mode # "Source"
                 source == mode \in {"Source", "Bidir"}
      <3>1. sink \in BOOLEAN /\ source \in BOOLEAN
        OBVIOUS
      <3>2. Opened(mode) = [NoSession EXCEPT !.mode = mode, !.sink = sink, !.source = source]
        BY Zenon DEF Opened
      <3>3. mode \in {"Echo", "RR", "Sink", "Source", "Bidir", "Dns"}
        BY <2>1
      <3> HIDE DEF mode, sink, source
      <3>4. /\ Opened(mode) \in Session /\ Opened(mode).mode = mode /\ Opened(mode).queue = {}
            /\ mode # "none"
        BY <3>1, <3>2, <3>3, Zenon DEF NoSession, Session
      <3> QED
        BY <3>4 DEF mode
    <2>3. /\ sessions' \in [Ports -> Session]
          /\ \A q \in Ports : q # m.port => sessions'[q] = sessions[q]
          /\ sessions'[m.port] = Opened(dg.mode)
      BY <1>4, <1>8, <2>2, Zenon DEF DgServerOK
    <2>4. \A q \in Ports : sessions'[q].mode \in {"none", dg.mode} /\ sessions'[q].queue \subseteq sessions[q].queue
      BY <2>2, <2>3, Zenon DEF DgServerOK
    <2>5. \A x : InFlight(x)' => InFlight(x)
      BY <1>1, <1>2, <1>3, <1>5, <2>4, Zenon DEF InFlight
    <2>6. ClientsHaveHandlers'
      BY <1>4, <1>8, <2>2, <2>3, Zenon DEF DgServerOK, ClientsHaveHandlers, Live
    <2> QED
      BY <1>2, <2>3, <2>4, <2>5, <2>6, Zenon DEF DgServerOK, PassesOn
  <1> QED
    BY <1>6, <1>7, <1>8, Zenon DEF ConnectClient

(* A step of the server.                                                   *)
LEMMA ServerKeeps == DgServerOK /\ DgServerNext => DgServerOK' /\ PassesOn
  <1> SUFFICES ASSUME DgServerOK, DgServerNext PROVE DgServerOK' /\ PassesOn
    OBVIOUS
  <1>1. CASE DgShutdown
    BY <1>1, Zenon DEF DgShutdown, dgServerVars, DgServerOK, PassesOn, InFlight, ClientsHaveHandlers, Live
  <1>2. CASE DgStop
    <2>1. /\ UNCHANGED <<dg, up, down>> /\ queue' = {} /\ active_clients' = {}
          /\ sessions' = [p \in Ports |-> NoSession]
      BY <1>2 DEF DgStop
    <2>2. NoSession \in Session /\ NoSession.mode = "none" /\ NoSession.queue = {}
      BY DEF NoSession, Session
    <2>3. \A p \in Ports : sessions'[p] = NoSession
      BY <2>1, Zenon
    <2>4. sessions' \in [Ports -> Session]
      BY <2>1, <2>2, Zenon
    <2>5. \A x : InFlight(x)' => InFlight(x)
      BY <2>1, <2>2, <2>3, Zenon DEF InFlight
    <2>6. ClientsHaveHandlers'
      BY <2>1, <2>2, <2>3, Zenon DEF ClientsHaveHandlers, Live
    <2>7. \A p \in Ports : sessions'[p].mode \in {"none", dg.mode}
      BY <2>2, <2>3, Zenon
    <2> QED
      BY <2>1, <2>4, <2>5, <2>6, <2>7, Zenon DEF DgServerOK, PassesOn
  <1> QED
    BY <1>1, <1>2, ArriveKeeps, ListenKeeps, HandlerKeeps, Zenon DEF DgServerNext

(* A request r of a test d: its number was given out before n, its port is *)
(* the executor's socket k if the test has one target, and for DNS one of  *)
(* the first o ports.                                                      *)
TaskType == [pc : {"free", "bind", "send", "receive"}, seq : Nat, target : Nat, port : Ports \cup {0}]
OneTarget(d) == d.client = "udp" /\ Cardinality(d.targets) = 1
TaskOK(r, d, n, k, o) ==
    /\ r \in TaskType
    /\ r.pc \in {"send", "receive"} => r.port \in Ports
    /\ r.pc # "free" => r.seq < n
    /\ OneTarget(d) => r.port \in {0, k} /\ (r.pc # "free" => r.target = 1)
    /\ d.client = "dns" => r.port <= o

TasksOK ==
    /\ DOMAIN dg_tasks = DgTasks /\ dg_tasks = [t \in DgTasks |-> dg_tasks[t]]
    /\ socket \in Ports \cup {0} /\ connected_to \in Nat /\ opened \in Nat /\ seqs \in Nat
    /\ \A t \in DgTasks : TaskOK(dg_tasks[t], dg, seqs, socket, opened)
    /\ OneTarget(dg) /\ socket # 0 => connected_to = 1

(* Every datagram of an executor has a number that was given out, and on   *)
(* the port of a DNS query there is nothing but its own.                   *)
FlightOK ==
    /\ dg.client # "other" => \A m : InFlight(m) => m.seq < seqs
    /\ dg.client = "dns" => \A m : InFlight(m) => m.port <= opened
    /\ dg.client = "dns" => \A t \in DgTasks : \A m :
          InFlight(m) /\ dg_tasks[t].pc = "receive" /\ m.port = dg_tasks[t].port => m.seq = dg_tasks[t].seq

TrackerOK == LossInv /\ (dg.client = "udp" => tracker.sent = seqs)

DgInv == DgServerOK /\ TasksOK /\ FlightOK /\ TrackerOK /\ NoStranger

(* A port, or none, is a number.                                           *)
LEMMA PortIsNat == \A p \in Ports \cup {0} : p \in Nat
  BY DatagramAssumption

(* One request changes, and numbers and ports are only given out.          *)
LEMMA TaskChanges ==
    ASSUME DgServerOK, TasksOK, NEW t \in DgTasks, NEW r, dg_tasks' = [dg_tasks EXCEPT ![t] = r],
           TaskOK(r, dg, seqs', socket, opened'),
           UNCHANGED <<dg, socket, connected_to>>,
           seqs' \in Nat, seqs' >= seqs, opened' \in Nat, opened' >= opened
    PROVE  TasksOK' /\ dg_tasks'[t] = r /\ \A u \in DgTasks : u # t => dg_tasks'[u] = dg_tasks[u]
  <1>1. /\ DOMAIN dg_tasks = DgTasks /\ DOMAIN dg_tasks' = DgTasks
        /\ dg_tasks' = [u \in DgTasks |-> dg_tasks'[u]]
        /\ dg_tasks'[t] = r /\ \A u \in DgTasks : u # t => dg_tasks'[u] = dg_tasks[u]
    BY Zenon DEF TasksOK
  <1>2. ASSUME NEW u \in DgTasks PROVE TaskOK(dg_tasks[u], dg, seqs', socket, opened')
    <2>1. TaskOK(dg_tasks[u], dg, seqs, socket, opened) /\ seqs \in Nat /\ opened \in Nat /\ Ports \subseteq Nat
      BY DatagramAssumption DEF TasksOK
    <2>2. dg_tasks[u].seq \in Nat /\ dg_tasks[u].port \in Nat
      <3>1. dg_tasks[u] \in TaskType
        BY <2>1, Zenon DEF TaskOK
      <3>2. dg_tasks[u].seq \in Nat /\ dg_tasks[u].port \in Ports \cup {0}
        BY <3>1 DEF TaskType
      <3> QED
        BY <3>2, PortIsNat, Zenon
    <2>3. /\ dg_tasks[u].seq < seqs => dg_tasks[u].seq < seqs'
          /\ dg_tasks[u].port <= opened => dg_tasks[u].port <= opened'
      BY <2>1, <2>2
    <2> QED
      BY <2>1, <2>3, Zenon DEF TaskOK
  <1>3. ASSUME NEW u \in DgTasks PROVE TaskOK(dg_tasks'[u], dg', seqs', socket', opened')
    <2>1. CASE u = t
      BY <1>1, <2>1, Zenon
    <2>2. CASE u # t
      BY <1>1, <1>2, <2>2, Zenon
    <2> QED
      BY <2>1, <2>2
  <1> QED
    BY <1>1, <1>3, Zenon DEF TasksOK

(* A request ends.                                                         *)
LEMMA EndTasks ==
    ASSUME DgServerOK, TasksOK, NEW t \in DgTasks, NEW o, EndQuery(t, o),
           UNCHANGED <<dg, socket, connected_to, opened, seqs>>
    PROVE  TasksOK' /\ dg_tasks'[t] = NoQuery /\ \A u \in DgTasks : u # t => dg_tasks'[u] = dg_tasks[u]
  <1>1. seqs \in Nat /\ opened \in Nat
    BY DEF TasksOK
  <1>2. TaskOK(NoQuery, dg, seqs', socket, opened')
    BY <1>1 DEF TaskOK, TaskType, NoQuery
  <1>3. dg_tasks' = [dg_tasks EXCEPT ![t] = NoQuery]
    BY DEF EndQuery
  <1>4. seqs' \in Nat /\ seqs' >= seqs /\ opened' \in Nat /\ opened' >= opened /\ UNCHANGED <<dg, socket, connected_to>>
    BY <1>1
  <1> QED
    BY <1>2, <1>3, <1>4, TaskChanges, Zenon

(* Nothing new is in flight, and no DNS query has begun.                   *)
LEMMA FlightKeeps ==
    ASSUME TasksOK, FlightOK, \A m : InFlight(m)' => InFlight(m) /\ m \in Dgram, UNCHANGED <<dg, opened>>,
           seqs' \in Nat, seqs' >= seqs,
           \A u \in DgTasks : dg.client = "dns" /\ dg_tasks'[u].pc = "receive" => dg_tasks'[u] = dg_tasks[u]
    PROVE  FlightOK'
  <1>1. dg.client # "other" => \A m : InFlight(m)' => m.seq < seqs'
    <2> SUFFICES ASSUME dg.client # "other", NEW m, InFlight(m)' PROVE m.seq < seqs'
      BY Zenon
    <2>1. m.seq < seqs
      BY Zenon DEF FlightOK
    <2>2. m \in Dgram
      BY Zenon
    <2> QED
      BY <2>1, <2>2 DEF TasksOK, Dgram
  <1>2. dg.client = "dns" => \A m : InFlight(m)' => m.port <= opened'
    BY Zenon DEF FlightOK
  <1>3. dg.client = "dns" => \A t \in DgTasks : \A m :
          InFlight(m)' /\ dg_tasks'[t].pc = "receive" /\ m.port = dg_tasks'[t].port => m.seq = dg_tasks'[t].seq
    BY Zenon DEF FlightOK
  <1> QED
    BY <1>1, <1>2, <1>3, Zenon DEF FlightOK

(* A client takes datagrams, and may send one.                             *)
LEMMA ClientServer ==
    ASSUME DgServerOK, UNCHANGED <<dg, dgServerVars>>, down' \subseteq down, NEW N \in SUBSET Dgram, up' \subseteq up \cup N
    PROVE  DgServerOK' /\ \A m : InFlight(m)' => (InFlight(m) \/ m \in N) /\ m \in Dgram
  <1>1. UNCHANGED <<queue, active_clients, sessions>>
    BY DEF dgServerVars
  <1>2. \A m : InFlight(m)' => InFlight(m) \/ m \in N
    BY <1>1, Zenon DEF InFlight
  <1>3. \A m : InFlight(m)' => m \in Dgram
    BY <1>2, Zenon DEF DgServerOK
  <1>4. ClientsHaveHandlers'
    BY <1>1, Zenon DEF DgServerOK, ClientsHaveHandlers, Live
  <1> QED
    BY <1>1, <1>2, <1>3, <1>4, Zenon DEF DgServerOK

(* A request ends, and the client has sent nothing; what it reports is     *)
(* not an answer to another query, and the tracker may have learnt of an   *)
(* echo.                                                                   *)
LEMMA EndKeeps ==
    ASSUME DgInv, NEW t \in DgTasks, NEW o, EndQuery(t, o), o # "stranger",
           UNCHANGED <<dg, up, dgServerVars, socket, connected_to, opened, seqs>>, down' \subseteq down,
           LossInv', tracker'.sent = tracker.sent
    PROVE  DgInv'
  <1>1. DgServerOK /\ TasksOK /\ FlightOK /\ TrackerOK /\ NoStranger /\ seqs \in Nat
    BY DEF DgInv, TasksOK
  <1>2. TasksOK' /\ dg_tasks'[t] = NoQuery /\ \A u \in DgTasks : u # t => dg_tasks'[u] = dg_tasks[u]
    BY <1>1, EndTasks, Zenon
  <1>3. DgServerOK' /\ \A m : InFlight(m)' => InFlight(m) /\ m \in Dgram
    <2>1. /\ {} \in SUBSET Dgram /\ up' \subseteq up \cup {}
      BY Zenon
    <2>2. UNCHANGED <<dg, dgServerVars>>
      BY Zenon
    <2>3. DgServerOK' /\ \A m : InFlight(m)' => (InFlight(m) \/ m \in {}) /\ m \in Dgram
      BY <1>1, <2>1, <2>2, ClientServer, Zenon
    <2> QED
      BY <2>3, Zenon
  <1>4. FlightOK'
    <2>1. NoQuery.pc # "receive"
      BY Zenon DEF NoQuery
    <2>2. \A u \in DgTasks : dg.client = "dns" /\ dg_tasks'[u].pc = "receive" => dg_tasks'[u] = dg_tasks[u]
      BY <1>2, <2>1, Zenon
    <2>3. UNCHANGED <<dg, opened>> /\ seqs' \in Nat /\ seqs' >= seqs
      <3>1. UNCHANGED <<dg, opened>> /\ seqs' = seqs
        BY Zenon
      <3>2. seqs \in Nat => seqs >= seqs
        OBVIOUS
      <3> QED
        BY <1>1, <3>1, <3>2, Zenon
    <2> QED
      BY <1>1, <1>3, <2>2, <2>3, FlightKeeps, Zenon
  <1>5. TrackerOK'
    BY <1>1, Zenon DEF TrackerOK
  <1>6. NoStranger'
    BY <1>1, Zenon DEF NoStranger, EndQuery
  <1> QED
    BY <1>2, <1>3, <1>4, <1>5, <1>6, Zenon DEF DgInv

(* The tracker does not change.                                            *)
LEMMA LossSame == LossInv /\ UNCHANGED lossVars => LossInv' /\ tracker'.sent = tracker.sent
  <1> SUFFICES ASSUME LossInv, UNCHANGED lossVars PROVE LossInv' /\ tracker'.sent = tracker.sent
    OBVIOUS
  <1>1. tracker' = tracker /\ tracker_seen' = tracker_seen /\ tracker_gap' = tracker_gap /\ reported' = reported
    BY DEF lossVars
  <1> QED
    BY <1>1, Zenon DEF LossInv

(* What is taken from the network is taken.                                *)
LEMMA TakingIs == ASSUME NEW M, Taking(M) PROVE down' \subseteq down
  BY Zenon DEF Taking

(* Requests of the UDP executor that end.                                  *)
LEMMA UdpEnds ==
    ASSUME DgInv, NEW t \in DgTasks, UdpBindFails(t) \/ UdpRefused(t) \/ UdpTimeout(t), UNCHANGED dgServerVars
    PROVE  DgInv'
  <1>1. /\ "connect" # "stranger" /\ "protocol" # "stranger" /\ "timeout" # "stranger"
    OBVIOUS
  <1>2. /\ UNCHANGED <<dg, up, socket, connected_to, opened, seqs>> /\ UNCHANGED lossVars
        /\ down' \subseteq down
        /\ EndQuery(t, "connect") \/ EndQuery(t, "protocol") \/ EndQuery(t, "timeout")
    <2>1. CASE UdpBindFails(t)
      BY <2>1, Zenon DEF UdpBindFails, netVars
    <2>2. CASE UdpRefused(t)
      BY <2>2, TakingIs, Zenon DEF UdpRefused
    <2>3. CASE UdpTimeout(t)
      BY <2>3, TakingIs, Zenon DEF UdpTimeout
    <2> QED
      BY <2>1, <2>2, <2>3, Zenon
  <1>3. LossInv' /\ tracker'.sent = tracker.sent
    BY <1>2, LossSame, Zenon DEF DgInv, TrackerOK
  <1>4. UNCHANGED <<dg, up, dgServerVars, socket, connected_to, opened, seqs>>
    BY <1>2
  <1>5. ASSUME NEW o, EndQuery(t, o), o # "stranger" PROVE DgInv'
    BY <1>2, <1>3, <1>4, <1>5, EndKeeps, Zenon
  <1> QED
    BY <1>1, <1>2, <1>5, Zenon

(* The answer of a request or of another one.                              *)
LEMMA UdpReceiveKeeps ==
    ASSUME DgInv, NEW t \in DgTasks, UdpReceive(t), UNCHANGED dgServerVars
    PROVE  DgInv'
  <1>1. PICK m \in down :
          /\ EndQuery(t, IF m.seq = dg_tasks[t].seq THEN "ok" ELSE "mismatch")
          /\ UNCHANGED socket /\ Taking({m})
          /\ Receives(m.seq)
    BY Zenon DEF UdpReceive, Receives
  <1>2. dg.client = "udp" /\ UNCHANGED <<dg, up, dgServerVars, socket, connected_to, opened, seqs>>
    BY <1>1, Zenon DEF UdpReceive
  <1>3. m.seq \in Nat /\ m.seq < tracker.sent
    <2>1. InFlight(m)
      BY Zenon DEF InFlight
    <2>2. m \in Dgram
      BY <2>1, Zenon DEF DgInv, DgServerOK
    <2>3. "udp" # "other"
      OBVIOUS
    <2>4. m.seq < seqs
      BY <1>2, <2>1, <2>3, Zenon DEF DgInv, FlightOK
    <2>5. tracker.sent = seqs
      BY <1>2, Zenon DEF DgInv, TrackerOK
    <2> QED
      BY <2>2, <2>4, <2>5 DEF Dgram
  <1>4. LossInv'
    BY <1>1, <1>3, EchoKeeps, Zenon DEF DgInv, TrackerOK
  <1>5. tracker'.sent = tracker.sent
    <2>1. LossCounts(tracker)
      BY Zenon DEF DgInv, TrackerOK, LossInv
    <2> QED
      BY <1>1, <1>3, <2>1, SentSame, Zenon DEF Receives
  <1>6. down' \subseteq down
    BY <1>1, TakingIs, Zenon
  <1>7. ASSUME NEW o, EndQuery(t, o), o # "stranger" PROVE DgInv'
    BY <1>2, <1>4, <1>5, <1>6, <1>7, EndKeeps
  <1>8. "ok" # "stranger" /\ "mismatch" # "stranger"
    OBVIOUS
  <1>9. CASE m.seq = dg_tasks[t].seq
    BY <1>1, <1>7, <1>8, <1>9, Zenon
  <1>10. CASE m.seq # dg_tasks[t].seq
    BY <1>1, <1>7, <1>8, <1>10, Zenon
  <1> QED
    BY <1>9, <1>10

(* The DNS executor: an answer is that of the query, as the port is.       *)
LEMMA DnsEnds ==
    ASSUME DgInv, NEW t \in DgTasks, DnsReceive(t) \/ DnsTimeout(t), UNCHANGED dgServerVars
    PROVE  DgInv'
  <1>1. /\ UNCHANGED <<dg, up, dgServerVars, socket, connected_to, opened, seqs>> /\ UNCHANGED lossVars
        /\ down' \subseteq down
    BY TakingIs, Zenon DEF DnsReceive, DnsTimeout
  <1>2. LossInv' /\ tracker'.sent = tracker.sent
    BY <1>1, LossSame, Zenon DEF DgInv, TrackerOK
  <1>3. ASSUME NEW o, EndQuery(t, o), o # "stranger" PROVE DgInv'
    BY <1>1, <1>2, <1>3, EndKeeps, Zenon
  <1>4. "ok" # "stranger" /\ "timeout" # "stranger"
    OBVIOUS
  <1>5. CASE DnsTimeout(t)
    BY <1>3, <1>4, <1>5, Zenon DEF DnsTimeout
  <1>6. CASE DnsReceive(t)
    <2>1. PICK m \in down :
          /\ m.port = dg_tasks[t].port
          /\ EndQuery(t, IF m.seq = dg_tasks[t].seq THEN "ok" ELSE "stranger")
      BY <1>6, Zenon DEF DnsReceive
    <2>2. m.seq = dg_tasks[t].seq
      BY <1>6, <2>1, Zenon DEF DnsReceive, DgInv, FlightOK, InFlight
    <2> QED
      BY <1>3, <1>4, <2>1, <2>2, Zenon
  <1> QED
    BY <1>5, <1>6

(* A request begins: it finds the socket of its target or will make one.   *)
LEMMA UdpExecuteKeeps ==
    ASSUME DgInv, NEW t \in DgTasks, UdpExecute(t), UNCHANGED dgServerVars
    PROVE  DgInv'
  <1> DEFINE target == 1 + (seqs % Cardinality(dg.targets))
             reuse == socket # 0 /\ connected_to = target
             port == IF reuse THEN socket ELSE 0
             r == [pc |-> IF reuse THEN "send" ELSE "bind", seq |-> seqs, target |-> target, port |-> port]
  <1>1. /\ DgServerOK /\ TasksOK /\ FlightOK /\ TrackerOK /\ NoStranger
        /\ seqs \in Nat /\ opened \in Nat /\ socket \in Ports \cup {0}
    BY Zenon DEF DgInv, TasksOK
  <1>2. /\ dg.client = "udp" /\ seqs' = seqs + 1 /\ tracker' = on_send(tracker)
        /\ UNCHANGED netVars /\ UNCHANGED <<tracker_seen, tracker_gap, reported, socket, connected_to, opened, outcomes>>
        /\ dg_tasks' = [dg_tasks EXCEPT ![t] = r]
    BY DEF UdpExecute
  <1>3. /\ target \in Nat
        /\ OneTarget(dg) => target = 1
    <2>1. Cardinality(dg.targets) \in Nat /\ Cardinality(dg.targets) > 0
      BY <1>1, DatagramAssumption DEF DgServerOK
    <2>2. seqs % Cardinality(dg.targets) \in 0..(Cardinality(dg.targets) - 1)
      BY <1>1, <2>1, DivRest
    <2> HIDE DEF reuse, port, r
    <2>3. seqs % Cardinality(dg.targets) \in Nat
      BY <2>1, <2>2
    <2>4. ASSUME Cardinality(dg.targets) = 1 PROVE seqs % Cardinality(dg.targets) = 0
      BY <2>2, <2>4
    <2> QED
      BY <2>3, <2>4 DEF OneTarget
  <1> HIDE DEF target
  <1>4. TaskOK(r, dg, seqs', socket, opened')
    <2>1. r.pc \in {"send", "bind"} /\ r.seq = seqs /\ r.target = target /\ r.port = port
      OBVIOUS
    <2>2. port \in Ports \cup {0} /\ port \in {0, socket}
      BY <1>1
    <2>3. r \in TaskType
      BY <1>1, <1>3, <2>2 DEF TaskType
    <2>4. r.pc \in {"send", "receive"} => r.port \in Ports
      BY <1>1
    <2>5. r.seq < seqs'
      BY <1>1, <1>2, <2>1, Counting, Zenon
    <2>6. dg.client # "dns"
      BY <1>2
    <2> HIDE DEF r, port
    <2> QED
      BY <1>3, <2>1, <2>2, <2>3, <2>4, <2>5, <2>6, Zenon DEF TaskOK
  <1>5. seqs' \in Nat /\ seqs' >= seqs /\ opened' \in Nat /\ opened' >= opened
        /\ UNCHANGED <<dg, socket, connected_to>>
    BY <1>1, <1>2, Counting, Zenon DEF netVars
  <1> HIDE DEF r
  <1>6. TasksOK'
    BY <1>1, <1>2, <1>4, <1>5, TaskChanges, Zenon
  <1>7. DgServerOK' /\ \A m : InFlight(m)' => InFlight(m) /\ m \in Dgram
    <2>1. /\ {} \in SUBSET Dgram /\ up' \subseteq up \cup {} /\ down' \subseteq down /\ UNCHANGED <<dg, dgServerVars>>
      BY <1>2 DEF netVars
    <2>2. DgServerOK' /\ \A m : InFlight(m)' => (InFlight(m) \/ m \in {}) /\ m \in Dgram
      BY <1>1, <2>1, ClientServer, Zenon
    <2> QED
      BY <2>2, Zenon
  <1>8. FlightOK'
    <2>1. \A u \in DgTasks : dg.client = "dns" /\ dg_tasks'[u].pc = "receive" => dg_tasks'[u] = dg_tasks[u]
      BY <1>2
    <2>2. UNCHANGED <<dg, opened>>
      BY <1>2, <1>5
    <2> QED
      BY <1>1, <1>5, <1>7, <2>1, <2>2, FlightKeeps
  <1>9. TrackerOK'
    <2>1. LossInv'
      BY <1>1, <1>2, SendKeeps DEF TrackerOK
    <2>2. tracker.sent = seqs /\ tracker \in TrackerType
      BY <1>1, <1>2, Zenon DEF TrackerOK, LossInv, LossCounts
    <2>3. tracker'.sent = seqs'
      BY <1>2, <2>2 DEF on_send, TrackerType
    <2> QED
      BY <2>1, <2>3, Zenon DEF TrackerOK
  <1>10. NoStranger'
    BY <1>1, <1>2, Zenon DEF NoStranger
  <1> QED
    BY <1>6, <1>7, <1>8, <1>9, <1>10, Zenon DEF DgInv

(* A request makes a socket, unless another one has meanwhile.             *)
LEMMA EnsureKeeps ==
    ASSUME DgInv, NEW t \in DgTasks, ensure_socket(t), UNCHANGED dgServerVars
    PROVE  DgInv'
  <1> DEFINE port == opened + 1
             old == dg_tasks[t]
             reuse == socket # 0 /\ connected_to = old.target
             r == [old EXCEPT !.pc = "send", !.port = IF reuse THEN socket ELSE port]
  <1>1. /\ DgServerOK /\ TasksOK /\ FlightOK /\ TrackerOK /\ NoStranger
        /\ seqs \in Nat /\ opened \in Nat /\ socket \in Ports \cup {0}
        /\ TaskOK(old, dg, seqs, socket, opened)
    BY Zenon DEF DgInv, TasksOK
  <1>2. /\ dg.client = "udp" /\ old.pc = "bind" /\ port \in Ports /\ opened' = port /\ Bound(t, port)
        /\ down' \subseteq down
        /\ UNCHANGED <<dg, up, seqs, outcomes>> /\ UNCHANGED lossVars
    BY TakingIs DEF ensure_socket
  <1>3. old \in TaskType /\ dg.client # "dns"
    <2>1. "udp" # "dns"
      OBVIOUS
    <2> QED
      BY <1>1, <1>2, <2>1, Zenon DEF TaskOK
  <1>4. /\ r \in TaskType /\ r.pc = "send" /\ r.seq = old.seq /\ r.target = old.target /\ r.port \in Ports
        /\ r.port = IF reuse THEN socket ELSE port
    BY <1>1, <1>2, <1>3, Zenon DEF TaskType
  <1>5. /\ dg_tasks' = [dg_tasks EXCEPT ![t] = r]
        /\ socket' = r.port
        /\ connected_to' = old.target /\ old.target \in Nat
    <2>1. CASE reuse
      BY <1>2, <1>3, <2>1, Zenon DEF Bound, TaskType
    <2>2. CASE ~reuse
      BY <1>2, <1>3, <2>2, Zenon DEF Bound, TaskType
    <2> QED
      BY <2>1, <2>2
  <1>6. OneTarget(dg) => old.target = 1 /\ (socket # 0 => socket' = socket)
    <2> SUFFICES ASSUME OneTarget(dg) PROVE old.target = 1 /\ (socket # 0 => socket' = socket)
      OBVIOUS
    <2>1. old.pc # "free"
      BY <1>2
    <2>2. old.target = 1
      BY <1>1, <2>1, Zenon DEF TaskOK
    <2>3. socket # 0 => reuse
      BY <1>1, <2>2, Zenon DEF TasksOK
    <2> QED
      BY <1>4, <1>5, <2>2, <2>3
  <1> HIDE DEF r, reuse, port
  <1>7. TaskOK(r, dg, seqs, socket', opened')
    <2>1. "send" # "free" /\ old.pc # "free"
      BY <1>2
    <2>2. r.seq < seqs
      BY <1>1, <1>4, <2>1, Zenon DEF TaskOK
    <2> QED
      BY <1>3, <1>4, <1>5, <1>6, <2>2, Zenon DEF TaskOK
  <1>8. ASSUME NEW u \in DgTasks, u # t PROVE TaskOK(dg_tasks[u], dg, seqs, socket', opened')
    <2>1. TaskOK(dg_tasks[u], dg, seqs, socket, opened)
      BY <1>1, Zenon DEF TasksOK
    <2>2. OneTarget(dg) => dg_tasks[u].port \in {0, socket'}
      BY <1>6, <2>1, Zenon DEF TaskOK
    <2> QED
      BY <1>3, <2>1, <2>2, Zenon DEF TaskOK
  <1>9. /\ DOMAIN dg_tasks' = DgTasks
        /\ dg_tasks' = [u \in DgTasks |-> dg_tasks'[u]]
        /\ dg_tasks'[t] = r /\ \A u \in DgTasks : u # t => dg_tasks'[u] = dg_tasks[u]
    BY <1>1, <1>5, Zenon DEF TasksOK
  <1>10. \A u \in DgTasks : TaskOK(dg_tasks'[u], dg', seqs', socket', opened')
    <2> SUFFICES ASSUME NEW u \in DgTasks PROVE TaskOK(dg_tasks'[u], dg', seqs', socket', opened')
      OBVIOUS
    <2>1. CASE u = t
      BY <1>2, <1>7, <1>9, <2>1, Zenon
    <2>2. CASE u # t
      BY <1>2, <1>8, <1>9, <2>2, Zenon
    <2> QED
      BY <2>1, <2>2
  <1>11. TasksOK'
    <2>1. opened' \in Nat /\ seqs' \in Nat /\ connected_to' \in Nat /\ socket' \in Ports \cup {0}
      BY <1>1, <1>2, <1>4, <1>5 DEF port
    <2>2. OneTarget(dg') /\ socket' # 0 => connected_to' = 1
      BY <1>2, <1>5, <1>6, Zenon
    <2> QED
      BY <1>9, <1>10, <2>1, <2>2, Zenon DEF TasksOK
  <1>12. DgServerOK' /\ \A m : InFlight(m)' => InFlight(m) /\ m \in Dgram
    <2>1. /\ {} \in SUBSET Dgram /\ up' \subseteq up \cup {} /\ down' \subseteq down /\ UNCHANGED <<dg, dgServerVars>>
      BY <1>2, Zenon
    <2>2. DgServerOK' /\ \A m : InFlight(m)' => (InFlight(m) \/ m \in {}) /\ m \in Dgram
      BY <1>1, <2>1, ClientServer, Zenon
    <2> QED
      BY <2>2, Zenon
  <1>13. FlightOK'
    BY <1>1, <1>2, <1>3, <1>12, Zenon DEF FlightOK
  <1>14. TrackerOK' /\ NoStranger'
    BY <1>1, <1>2, LossSame, Zenon DEF TrackerOK, NoStranger
  <1> QED
    BY <1>11, <1>12, <1>13, <1>14, Zenon DEF DgInv

(* A request is sent with its number and its port.                         *)
LEMMA UdpSendKeeps ==
    ASSUME DgInv, NEW t \in DgTasks, UdpSend(t), UNCHANGED dgServerVars
    PROVE  DgInv'
  <1> DEFINE old == dg_tasks[t]
             n == [port |-> old.port, seq |-> old.seq, copy |-> 0]
             r == [old EXCEPT !.pc = "receive"]
  <1>1. /\ DgServerOK /\ TasksOK /\ FlightOK /\ TrackerOK /\ NoStranger
        /\ seqs \in Nat /\ opened \in Nat
        /\ TaskOK(old, dg, seqs, socket, opened)
    BY Zenon DEF DgInv, TasksOK
  <1>2. /\ old.pc = "send" /\ dg.client = "udp" /\ up' = up \cup {n}
        /\ UNCHANGED <<dg, down, socket, connected_to, opened, seqs>> /\ UNCHANGED lossVars
        /\ \/ dg_tasks' = [dg_tasks EXCEPT ![t].pc = "receive"] /\ UNCHANGED outcomes
           \/ EndQuery(t, "ok")
    BY DEF UdpSend
  <1>3. /\ old \in TaskType /\ old.port \in Ports /\ old.seq < seqs /\ dg.client # "dns"
    <2>1. "send" \in {"send", "receive"} /\ "send" # "free" /\ "udp" # "dns"
      OBVIOUS
    <2> QED
      BY <1>1, <1>2, <2>1, Zenon DEF TaskOK
  <1>4. n \in Dgram /\ n.seq = old.seq
    BY <1>3, Zenon DEF Dgram, TaskType
  <1>5. DgServerOK' /\ \A m : InFlight(m)' => InFlight(m) \/ m = n
    <2>1. /\ {n} \in SUBSET Dgram /\ up' \subseteq up \cup {n} /\ down' \subseteq down /\ UNCHANGED <<dg, dgServerVars>>
      BY <1>2, <1>4
    <2>2. DgServerOK' /\ \A m : InFlight(m)' => (InFlight(m) \/ m \in {n}) /\ m \in Dgram
      BY <1>1, <2>1, ClientServer, Zenon
    <2> QED
      BY <2>2, Zenon
  <1>6. TasksOK'
    <2>1. CASE dg_tasks' = [dg_tasks EXCEPT ![t].pc = "receive"]
      <3>1. /\ r \in TaskType /\ r.pc = "receive" /\ r.seq = old.seq /\ r.port = old.port /\ r.target = old.target
        BY <1>3 DEF TaskType
      <3>2. dg_tasks' = [dg_tasks EXCEPT ![t] = r]
        BY <2>1
      <3> HIDE DEF r
      <3>3. "send" # "free"
        OBVIOUS
      <3>4. TaskOK(r, dg, seqs, socket, opened)
        BY <1>1, <1>2, <1>3, <3>1, <3>3, Zenon DEF TaskOK
      <3>5. seqs' \in Nat /\ seqs' >= seqs /\ opened' \in Nat /\ opened' >= opened
            /\ UNCHANGED <<dg, socket, connected_to>> /\ seqs' = seqs /\ opened' = opened
        BY <1>1, <1>2
      <3>6. TaskOK(r, dg, seqs', socket, opened')
        BY <3>4, <3>5, Zenon
      <3> QED
        BY <1>1, <3>2, <3>5, <3>6, TaskChanges, Zenon
    <2>2. CASE EndQuery(t, "ok")
      <3>1. UNCHANGED <<dg, socket, connected_to, opened, seqs>>
        BY <1>2
      <3> QED
        BY <1>1, <2>2, <3>1, EndTasks, Zenon
    <2> QED
      BY <1>2, <2>1, <2>2
  <1> HIDE DEF n
  <1>7. FlightOK'
    BY <1>1, <1>2, <1>3, <1>4, <1>5, Zenon DEF FlightOK
  <1>8. TrackerOK'
    BY <1>1, <1>2, LossSame, Zenon DEF TrackerOK
  <1>9. NoStranger'
    <2>1. "ok" # "stranger"
      OBVIOUS
    <2> QED
      BY <1>1, <1>2, <2>1, Zenon DEF NoStranger, EndQuery
  <1> QED
    BY <1>5, <1>6, <1>7, <1>8, <1>9, Zenon DEF DgInv

(* A query gets a port that no datagram has yet.                           *)
LEMMA DnsExecuteKeeps ==
    ASSUME DgInv, NEW t \in DgTasks, DnsExecute(t), UNCHANGED dgServerVars
    PROVE  DgInv'
  <1> DEFINE n == [port |-> DnsPort, seq |-> seqs, copy |-> 0]
             r == [pc |-> "receive", seq |-> seqs, target |-> 1, port |-> DnsPort]
  <1>1. /\ DgServerOK /\ TasksOK /\ FlightOK /\ TrackerOK /\ NoStranger
        /\ seqs \in Nat /\ opened \in Nat
    BY Zenon DEF DgInv, TasksOK
  <1>2. /\ dg.client = "dns" /\ DnsPort \in Ports /\ DnsPort = opened + 1
        /\ seqs' = seqs + 1 /\ opened' = DnsPort
        /\ dg_tasks' = [dg_tasks EXCEPT ![t] = r] /\ up' = up \cup {n}
        /\ UNCHANGED <<dg, down, socket, connected_to, outcomes>> /\ UNCHANGED lossVars
    BY Zenon DEF DnsExecute, DnsPort
  <1>3. /\ n \in Dgram /\ n.seq = seqs /\ n.port = DnsPort
        /\ r \in TaskType /\ r.seq = seqs /\ r.port = DnsPort /\ r.pc = "receive"
    BY <1>1, <1>2, Zenon DEF Dgram, TaskType
  <1>4. /\ seqs' \in Nat /\ seqs < seqs' /\ seqs' >= seqs /\ opened' \in Nat /\ opened' >= opened
        /\ DnsPort <= opened' /\ UNCHANGED <<dg, socket, connected_to>> /\ dg.client # "udp" /\ dg.client # "other"
    <2>1. UNCHANGED <<dg, socket, connected_to>> /\ dg.client # "udp" /\ dg.client # "other"
      BY <1>2
    <2>2. DnsPort \in Nat /\ DnsPort >= opened /\ DnsPort <= DnsPort /\ seqs + 1 \in Nat /\ seqs < seqs + 1 /\ seqs + 1 >= seqs
      BY <1>1, <1>2, Counting, Zenon
    <2> QED
      BY <1>2, <2>1, <2>2, Zenon
  <1> HIDE DEF n, r
  <1>5. TaskOK(r, dg, seqs', socket, opened')
    BY <1>2, <1>3, <1>4, Zenon DEF TaskOK, OneTarget
  <1>6. TasksOK' /\ dg_tasks'[t] = r /\ \A u \in DgTasks : u # t => dg_tasks'[u] = dg_tasks[u]
    BY <1>1, <1>2, <1>4, <1>5, TaskChanges, Zenon
  <1>7. DgServerOK' /\ \A m : InFlight(m)' => (InFlight(m) \/ m = n) /\ m \in Dgram
    <2>1. /\ {n} \in SUBSET Dgram /\ up' \subseteq up \cup {n} /\ down' \subseteq down /\ UNCHANGED <<dg, dgServerVars>>
      BY <1>2, <1>3
    <2>2. DgServerOK' /\ \A m : InFlight(m)' => (InFlight(m) \/ m \in {n}) /\ m \in Dgram
      BY <1>1, <2>1, ClientServer, Zenon
    <2> QED
      BY <2>2, Zenon
  <1>8. ASSUME NEW m, InFlight(m) PROVE m.seq < seqs' /\ m.port <= opened' /\ m.port # DnsPort
    <2>1. m \in Dgram /\ m.seq < seqs /\ m.port <= opened
      BY <1>1, <1>2, <1>4, <1>8, Zenon DEF DgServerOK, FlightOK
    <2>2. m.seq \in Nat /\ m.port \in Nat
      <3>1. m.seq \in Nat /\ m.port \in Ports
        BY <2>1 DEF Dgram
      <3> QED
        BY <3>1, PortIsNat, Zenon
    <2> QED
      BY <1>1, <1>2, <2>1, <2>2
  <1>9. ASSUME NEW u \in DgTasks PROVE dg_tasks[u].port # DnsPort
    <2>1. TaskOK(dg_tasks[u], dg, seqs, socket, opened)
      BY <1>1, Zenon DEF TasksOK
    <2>2. dg_tasks[u] \in TaskType /\ dg_tasks[u].port <= opened
      BY <1>2, <2>1, Zenon DEF TaskOK
    <2>3. dg_tasks[u].port \in Nat
      <3>1. dg_tasks[u].port \in Ports \cup {0}
        BY <2>2, Zenon DEF TaskType
      <3> QED
        BY <3>1, PortIsNat, Zenon
    <2> QED
      BY <1>1, <1>2, <2>2, <2>3
  <1>10. \A m : InFlight(m)' => m.seq < seqs' /\ m.port <= opened'
    <2> SUFFICES ASSUME NEW m, InFlight(m)' PROVE m.seq < seqs' /\ m.port <= opened'
      BY Zenon
    <2>1. CASE InFlight(m)
      BY <1>8, <2>1, Zenon
    <2>2. CASE m = n
      BY <1>3, <1>4, <2>2, Zenon
    <2> QED
      BY <1>7, <2>1, <2>2, Zenon
  <1>11. ASSUME NEW u \in DgTasks, NEW m, InFlight(m)', dg_tasks'[u].pc = "receive", m.port = dg_tasks'[u].port
         PROVE  m.seq = dg_tasks'[u].seq
    <2>1. CASE u = t
      <3>1. m.port = DnsPort
        BY <1>3, <1>6, <1>11, <2>1, Zenon
      <3>2. m = n
        BY <1>7, <1>8, <1>11, <3>1, Zenon
      <3> QED
        BY <1>3, <1>6, <2>1, <3>2, Zenon
    <2>2. CASE u # t
      <3>1. dg_tasks'[u] = dg_tasks[u] /\ dg_tasks[u].port # DnsPort
        BY <1>6, <1>9, <2>2, Zenon
      <3>2. InFlight(m)
        BY <1>3, <1>7, <1>11, <3>1, Zenon
      <3> QED
        BY <1>1, <1>2, <1>11, <3>1, <3>2, Zenon DEF FlightOK
    <2> QED
      BY <2>1, <2>2
  <1>12. FlightOK'
    BY <1>10, <1>11, Zenon DEF FlightOK
  <1>13. TrackerOK' /\ NoStranger'
    BY <1>1, <1>2, <1>4, LossSame, Zenon DEF TrackerOK, NoStranger
  <1> QED
    BY <1>6, <1>7, <1>12, <1>13, Zenon DEF DgInv

(* Numbers are given out, or not; requests stay.                           *)
LEMMA TasksSame ==
    ASSUME TasksOK, UNCHANGED <<dg, dg_tasks, socket, connected_to, opened>>, seqs' = seqs \/ seqs' = seqs + 1
    PROVE  TasksOK'
  <1>1. ASSUME NEW u \in DgTasks PROVE TaskOK(dg_tasks[u], dg, seqs', socket, opened)
    <2>1. TaskOK(dg_tasks[u], dg, seqs, socket, opened) /\ seqs \in Nat
      BY Zenon DEF TasksOK
    <2>2. dg_tasks[u].seq \in Nat
      BY <2>1 DEF TaskOK, TaskType
    <2>3. dg_tasks[u].seq < seqs => dg_tasks[u].seq < seqs'
      BY <2>1, <2>2, Counting, Zenon
    <2> QED
      BY <2>1, <2>3, Zenon DEF TaskOK
  <1>2. seqs' \in Nat
    BY DEF TasksOK
  <1> QED
    BY <1>1, <1>2, Zenon DEF TasksOK

(* A query that could not be sent has used a number.                       *)
LEMMA DnsFailsKeeps ==
    ASSUME DgInv, NEW t \in DgTasks, DnsFails(t), UNCHANGED dgServerVars
    PROVE  DgInv'
  <1>1. /\ DgServerOK /\ TasksOK /\ FlightOK /\ TrackerOK /\ NoStranger
        /\ seqs \in Nat /\ opened \in Nat
    BY Zenon DEF DgInv, TasksOK
  <1>2. /\ dg.client = "dns" /\ seqs' = seqs + 1 /\ outcomes' = outcomes \cup {"connect"}
        /\ UNCHANGED netVars /\ UNCHANGED lossVars /\ UNCHANGED <<dg_tasks, socket, connected_to, opened>>
    BY DEF DnsFails
  <1>3. /\ UNCHANGED <<dg, up, down>> /\ seqs' \in Nat /\ seqs' >= seqs /\ "connect" # "stranger" /\ dg.client # "udp"
    BY <1>1, <1>2 DEF netVars
  <1>4. TasksOK'
    <2>1. UNCHANGED <<dg, dg_tasks, socket, connected_to, opened>>
      BY <1>2, <1>3
    <2> QED
      BY <1>1, <1>2, <2>1, TasksSame
  <1>5. DgServerOK' /\ \A m : InFlight(m)' => InFlight(m) /\ m \in Dgram
    <2>1. /\ {} \in SUBSET Dgram /\ up' \subseteq up \cup {} /\ down' \subseteq down /\ UNCHANGED <<dg, dgServerVars>>
      BY <1>3
    <2>2. DgServerOK' /\ \A m : InFlight(m)' => (InFlight(m) \/ m \in {}) /\ m \in Dgram
      BY <1>1, <2>1, ClientServer, Zenon
    <2> QED
      BY <2>2, Zenon
  <1>6. FlightOK'
    <2>1. UNCHANGED <<dg, opened>>
      BY <1>2, <1>3
    <2>2. \A u \in DgTasks : dg.client = "dns" /\ dg_tasks'[u].pc = "receive" => dg_tasks'[u] = dg_tasks[u]
      BY <1>2, Zenon
    <2> QED
      BY <1>1, <1>3, <1>5, <2>1, <2>2, FlightKeeps
  <1>7. TrackerOK' /\ NoStranger'
    BY <1>1, <1>2, <1>3, LossSame, Zenon DEF TrackerOK, NoStranger
  <1> QED
    BY <1>4, <1>5, <1>6, <1>7, Zenon DEF DgInv

(* A client that is not the repository's own: nothing is said of what it   *)
(* has in flight but that they are datagrams.                              *)
LEMMA OtherKeeps ==
    ASSUME DgInv, OtherSend \/ OtherReceive \/ OtherCloses, UNCHANGED dgServerVars
    PROVE  DgInv'
  <1>1. /\ DgServerOK /\ TasksOK /\ FlightOK /\ TrackerOK /\ NoStranger
        /\ seqs \in Nat
    BY Zenon DEF DgInv, TasksOK
  <1>2. /\ dg.client = "other" /\ UNCHANGED <<dg, dg_tasks, socket, connected_to, opened, outcomes>> /\ UNCHANGED lossVars
        /\ (seqs' = seqs \/ seqs' = seqs + 1)
    BY Zenon DEF OtherSend, OtherReceive, OtherCloses, udpVars
  <1>3. \E N \in SUBSET Dgram : up' \subseteq up \cup N
    <2>1. CASE OtherSend
      <3>1. PICK p \in Ports : up' = up \cup {[port |-> p, seq |-> seqs, copy |-> 0]}
        BY <2>1, Zenon DEF OtherSend
      <3>2. [port |-> p, seq |-> seqs, copy |-> 0] \in Dgram
        BY <1>1 DEF Dgram
      <3>3. {[port |-> p, seq |-> seqs, copy |-> 0]} \in SUBSET Dgram
        BY <3>2, Zenon
      <3> QED
        BY <3>1, <3>3, Zenon
    <2>2. CASE OtherReceive \/ OtherCloses
      <3>1. up' = up
        BY <2>2, Zenon DEF OtherReceive, OtherCloses
      <3>2. {} \in SUBSET Dgram /\ up' \subseteq up \cup {}
        BY <3>1
      <3> QED
        BY <3>2, Zenon
    <2> QED
      BY <2>1, <2>2
  <1>4. down' \subseteq down
    BY Zenon DEF OtherSend, OtherReceive, OtherCloses
  <1>5. DgServerOK'
    <2>1. PICK N \in SUBSET Dgram : up' \subseteq up \cup N
      BY <1>3
    <2>2. UNCHANGED <<dg, dgServerVars>>
      BY <1>2
    <2> QED
      BY <1>1, <1>4, <2>1, <2>2, ClientServer
  <1>6. TasksOK'
    BY <1>1, <1>2, TasksSame
  <1>7. dg'.client = "other" /\ dg.client # "dns" /\ dg.client # "udp"
    BY <1>2
  <1>8. FlightOK'
    BY <1>2, <1>7, Zenon DEF FlightOK
  <1>9. TrackerOK' /\ NoStranger'
    BY <1>1, <1>2, <1>7, LossSame, Zenon DEF TrackerOK, NoStranger
  <1> QED
    BY <1>5, <1>6, <1>8, <1>9, Zenon DEF DgInv

(* A step of the network or of the server leaves the client's side alone.  *)
LEMMA ClientStays ==
    ASSUME DgInv, UNCHANGED <<lossVars, udpVars>>, dg' = dg, DgServerOK', FlightOK'
    PROVE  DgInv'
  <1>1. /\ TasksOK /\ TrackerOK /\ NoStranger
    BY Zenon DEF DgInv
  <1>2. /\ UNCHANGED <<dg, dg_tasks, socket, connected_to, opened>> /\ seqs' = seqs /\ outcomes' = outcomes /\ UNCHANGED lossVars
    BY DEF udpVars
  <1>3. TasksOK'
    BY <1>1, <1>2, TasksSame
  <1>4. TrackerOK' /\ NoStranger'
    BY <1>1, <1>2, LossSame, Zenon DEF TrackerOK, NoStranger
  <1> QED
    BY <1>3, <1>4, Zenon DEF DgInv

(* What is in flight after such a step has the port and the number of      *)
(* something that was.                                                     *)
LEMMA FlightStays ==
    ASSUME FlightOK, UNCHANGED udpVars, dg' = dg,
           dg.client # "other" => \A m : InFlight(m)' => \E n : InFlight(n) /\ n.port = m.port /\ n.seq = m.seq
    PROVE  FlightOK'
  <1>1. UNCHANGED <<dg_tasks, opened, seqs>>
    BY DEF udpVars
  <1>2. ASSUME dg.client = "dns" PROVE dg.client # "other"
    BY <1>2
  <1>3. dg.client # "other" => \A m : InFlight(m)' => m.seq < seqs
    BY Zenon DEF FlightOK
  <1>4. dg.client = "dns" => \A m : InFlight(m)' => m.port <= opened
    BY <1>2, Zenon DEF FlightOK
  <1>5. dg.client = "dns" => \A t \in DgTasks : \A m :
          InFlight(m)' /\ dg_tasks[t].pc = "receive" /\ m.port = dg_tasks[t].port => m.seq = dg_tasks[t].seq
    <2> SUFFICES ASSUME dg.client = "dns", NEW t \in DgTasks, NEW m, InFlight(m)',
                        dg_tasks[t].pc = "receive", m.port = dg_tasks[t].port
                 PROVE  m.seq = dg_tasks[t].seq
      BY Zenon
    <2>1. PICK n : InFlight(n) /\ n.port = m.port /\ n.seq = m.seq
      BY <1>2, Zenon
    <2>2. n.port = dg_tasks[t].port
      BY <2>1
    <2>3. n.seq = dg_tasks[t].seq
      BY <2>1, <2>2, Zenon DEF FlightOK
    <2> QED
      BY <2>1, <2>3
  <1> QED
    BY <1>1, <1>3, <1>4, <1>5, Zenon DEF FlightOK

(* A duplicate has the port and the number of its original.                *)
LEMMA DuplicateKeeps ==
    ASSUME DgInv, Duplicate, UNCHANGED <<lossVars, udpVars, dgServerVars>>
    PROVE  DgInv'
  <1>1. DgServerOK /\ FlightOK
    BY Zenon DEF DgInv
  <1>2. dg' = dg /\ UNCHANGED <<queue, active_clients, sessions>>
    BY DEF Duplicate, dgServerVars
  <1>3. PICK m : InFlight(m) /\ up' \subseteq up \cup {[m EXCEPT !.copy = 1]} /\ down' \subseteq down \cup {[m EXCEPT !.copy = 1]}
    <2>1. CASE \E m \in up : up' = up \cup {[m EXCEPT !.copy = 1]} /\ UNCHANGED down
      BY <2>1, Zenon DEF InFlight
    <2>2. CASE \E m \in down : down' = down \cup {[m EXCEPT !.copy = 1]} /\ UNCHANGED up
      BY <2>2, Zenon DEF InFlight
    <2> QED
      BY <2>1, <2>2, Zenon DEF Duplicate
  <1> DEFINE c == [m EXCEPT !.copy = 1]
  <1>4. m \in Dgram
    BY <1>1, <1>3, Zenon DEF DgServerOK
  <1>5. c \in Dgram /\ c.port = m.port /\ c.seq = m.seq
    BY <1>4 DEF Dgram
  <1>6. up' \subseteq up \cup {c} /\ down' \subseteq down \cup {c}
    BY <1>3
  <1> HIDE DEF c
  <1>7. \A n : InFlight(n)' => InFlight(n) \/ n = c
    BY <1>2, <1>6, Zenon DEF InFlight
  <1>8. DgServerOK'
    <2>1. \A n : InFlight(n)' => n \in Dgram
      BY <1>1, <1>5, <1>7, Zenon DEF DgServerOK
    <2>2. ClientsHaveHandlers'
      BY <1>1, <1>2, Zenon DEF DgServerOK, ClientsHaveHandlers, Live
    <2> QED
      BY <1>1, <1>2, <2>1, <2>2, Zenon DEF DgServerOK
  <1>9. \A n : InFlight(n)' => \E k : InFlight(k) /\ k.port = n.port /\ k.seq = n.seq
    BY <1>3, <1>5, <1>7, Zenon
  <1>10. UNCHANGED udpVars /\ UNCHANGED <<lossVars, udpVars>>
    OBVIOUS
  <1>11. FlightOK'
    BY <1>1, <1>2, <1>9, <1>10, FlightStays, Zenon
  <1> QED
    BY <1>2, <1>8, <1>10, <1>11, ClientStays

(* The server passes datagrams on, and sends unasked only to clients that  *)
(* are not the repository's own.                                           *)
LEMMA ServerStepKeeps ==
    ASSUME DgInv, DgServerNext, UNCHANGED <<lossVars, udpVars>>
    PROVE  DgInv'
  <1>1. DgServerOK /\ FlightOK /\ dg \in DgConfigs
    BY Zenon DEF DgInv, DgServerOK
  <1>2. DgServerOK' /\ PassesOn
    BY <1>1, ServerKeeps, Zenon
  <1>3. dg' = dg
    BY DEF DgServerNext, Arrive, Listen, dispatch_connected_udp, BidirReceives, DgShutdown, DgStop
  <1>4. dg.client # "other" => \A m : ~ Unasked(m)
    <2>1. dg.client \in {"udp", "dns", "other"} /\ (dg.client = "udp" => dg.mode = "Echo") /\ (dg.client = "dns" => dg.mode = "Dns")
      BY <1>1, DatagramAssumption DEF DgConfiguration
    <2>2. dg.client # "other" => dg.mode \notin {"Source", "Bidir"}
      BY <2>1
    <2> QED
      BY <2>2, Zenon DEF Unasked
  <1>5. dg.client # "other" => \A m : InFlight(m)' => \E n : InFlight(n) /\ n.port = m.port /\ n.seq = m.seq
    BY <1>2, <1>4, Zenon DEF PassesOn
  <1>6. UNCHANGED udpVars
    OBVIOUS
  <1>7. FlightOK'
    BY <1>1, <1>3, <1>5, <1>6, FlightStays
  <1> QED
    BY <1>2, <1>3, <1>7, ClientStays

(* Nothing is in flight, and nobody has asked for anything.                *)
LEMMA DgStart == DgInit => DgInv
  <1> SUFFICES ASSUME DgInit PROVE DgInv
    OBVIOUS
  <1>1. /\ dg \in DgConfigs /\ up = {} /\ down = {} /\ queue = {} /\ active_clients = {}
        /\ sessions = [p \in Ports |-> NoSession]
    BY DEF DgInit, NetInit, DgServerInit
  <1>2. /\ dg_tasks = [t \in DgTasks |-> NoQuery] /\ socket = 0 /\ connected_to = 0 /\ opened = 0 /\ seqs = 0 /\ outcomes = {}
    BY DEF DgInit, UdpInit
  <1>3. NoSession \in Session /\ NoSession.mode = "none" /\ NoSession.queue = {}
    BY DEF NoSession, Session
  <1>4. \A p \in Ports : sessions[p] = NoSession
    BY <1>1, Zenon
  <1>5. \A m : ~ InFlight(m)
    BY <1>1, <1>3, <1>4, Zenon DEF InFlight
  <1>6. DgServerOK
    <2>1. sessions \in [Ports -> Session]
      BY <1>1, <1>3, Zenon
    <2>2. ClientsHaveHandlers
      BY <1>1, <1>3, <1>4, Zenon DEF ClientsHaveHandlers, Live
    <2>3. \A p \in Ports : sessions[p].mode \in {"none", dg.mode}
      BY <1>3, <1>4, Zenon
    <2> QED
      BY <1>1, <1>5, <2>1, <2>2, <2>3, Zenon DEF DgServerOK
  <1>7. TasksOK
    <2>1. /\ NoQuery \in TaskType /\ NoQuery.pc = "free" /\ NoQuery.port = 0 /\ NoQuery.pc \notin {"send", "receive"}
      BY DEF NoQuery, TaskType
    <2>2. 0 <= 0 /\ 0 \in Nat /\ 0 \in Ports \cup {0}
      OBVIOUS
    <2>3. TaskOK(NoQuery, dg, 0, 0, 0)
      BY <2>1, <2>2, Zenon DEF TaskOK
    <2>4. \A t \in DgTasks : dg_tasks[t] = NoQuery
      BY <1>2, Zenon
    <2>5. DOMAIN dg_tasks = DgTasks /\ dg_tasks = [t \in DgTasks |-> dg_tasks[t]]
      BY <1>2, <2>4
    <2> QED
      BY <1>2, <2>2, <2>3, <2>4, <2>5, Zenon DEF TasksOK
  <1>8. FlightOK
    BY <1>5, Zenon DEF FlightOK
  <1>9. TrackerOK
    <2>1. LossInv /\ tracker = NewTracker
      BY LossStart DEF DgInit, LossInit
    <2>2. tracker.sent = 0
      BY <2>1 DEF NewTracker
    <2> QED
      BY <1>2, <2>1, <2>2, Zenon DEF TrackerOK
  <1>10. NoStranger
    BY <1>2, Zenon DEF NoStranger
  <1> QED
    BY <1>6, <1>7, <1>8, <1>9, <1>10, Zenon DEF DgInv

(* One step of the executor, of the network or of the server.              *)
LEMMA DgStepKeeps == DgInv /\ [DgNext]_dgVars => DgInv'
  <1> SUFFICES ASSUME DgInv, [DgNext]_dgVars PROVE DgInv'
    OBVIOUS
  <1>1. CASE Duplicate /\ UNCHANGED <<lossVars, udpVars, dgServerVars>>
    BY <1>1, DuplicateKeeps
  <1>2. CASE DgClientNext /\ UNCHANGED dgServerVars
    <2>1. CASE OtherSend \/ OtherReceive \/ OtherCloses
      BY <1>2, <2>1, OtherKeeps
    <2>2. ASSUME NEW t \in DgTasks, UdpStep(t) PROVE DgInv'
      BY <1>2, <2>2, UdpExecuteKeeps, EnsureKeeps, UdpEnds, UdpSendKeeps, UdpReceiveKeeps, Zenon DEF UdpStep
    <2>3. ASSUME NEW t \in DgTasks, DnsStep(t) PROVE DgInv'
      BY <1>2, <2>3, DnsExecuteKeeps, DnsEnds, DnsFailsKeeps, Zenon DEF DnsStep
    <2> QED
      BY <1>2, <2>1, <2>2, <2>3, Zenon DEF DgClientNext
  <1>3. CASE DgServerNext /\ UNCHANGED <<lossVars, udpVars>>
    BY <1>3, ServerStepKeeps
  <1>4. CASE UNCHANGED dgVars
    <2>1. UNCHANGED <<lossVars, udpVars>> /\ UNCHANGED udpVars /\ UNCHANGED <<dg, up, down, queue, active_clients, sessions>>
      BY <1>4 DEF dgVars, netVars, dgServerVars
    <2>2. DgServerOK /\ FlightOK
      BY Zenon DEF DgInv
    <2>3. \A m : InFlight(m)' <=> InFlight(m)
      BY <2>1, Zenon DEF InFlight
    <2>4. DgServerOK'
      BY <2>1, <2>2, <2>3, Zenon DEF DgServerOK, ClientsHaveHandlers, Live
    <2>5. \A m : InFlight(m)' => \E n : InFlight(n) /\ n.port = m.port /\ n.seq = m.seq
      BY <2>3, Zenon
    <2>6. FlightOK'
      BY <2>1, <2>2, <2>5, FlightStays
    <2> QED
      BY <2>1, <2>4, <2>6, ClientStays
  <1> QED
    BY <1>1, <1>2, <1>3, <1>4, Zenon DEF DgNext

(* In a UDP or DNS test of any size, on a network that loses, delays and   *)
(* duplicates: the requests to one target share one socket                 *)
(* (ensure_socket), the answer that a DNS query takes is its own although  *)
(* no transaction id is compared, and the server's listener knows exactly  *)
(* the peers that have a handler (handle_udp).                             *)
THEOREM DatagramsArrive == DgSpec => []DatagramInv
  <1>1. DgInv => DatagramInv
    <2> SUFFICES ASSUME DgInv PROVE DatagramInv
      OBVIOUS
    <2>1. DgServerOK /\ TasksOK /\ NoStranger
      BY Zenon DEF DgInv
    <2>2. SocketShared
      BY <2>1, Zenon DEF TasksOK, TaskOK, OneTarget, SocketShared
    <2> QED
      BY <2>1, <2>2, Zenon DEF DatagramInv, DgServerOK
  <1>2. DgSpec => []DgInv
    BY DgStart, DgStepKeeps, PTL DEF DgSpec
  <1> QED
    BY <1>1, <1>2, PTL

(* The loss that a UDP test reports is exact whatever the network does:    *)
(* the executor numbers its packets as the tracker counts them, and what   *)
(* comes back was sent (UdpExecutor::execute, PacketTracker::on_receive).  *)
THEOREM TestLossIsExact == DgSpec => []LossExact
  <1>1. DgInv => LossExact
    BY LossImplies, Zenon DEF DgInv, TrackerOK
  <1>2. DgSpec => []DgInv
    BY DgStart, DgStepKeeps, PTL DEF DgSpec
  <1> QED
    BY <1>1, <1>2, PTL

-----------------------------------------------------------------------------
(* The HTTP client.                                                        *)
HttpTask == [pc : {"free", "connect", "head", "body"}, conn : HttpConns \cup {0}, close : BOOLEAN]
HttpConn == [stage : {"none", "busy", "idle", "dangling"}, served : Nat, dup : BOOLEAN]

HttpType ==
    /\ http \in HttpConfigs
    /\ http_tasks \in [HttpTasks -> HttpTask]
    /\ http_conns \in [HttpConns -> HttpConn]
    /\ http_counter \in [count : Nat, limit : Nat]
    /\ http.limits # {} => http_counter.limit \in http.limits
    /\ \A t \in HttpTasks : http_tasks[t].pc \in {"head", "body"} => http_tasks[t].conn \in HttpConns

Flying(t) == http_tasks[t].pc # "free"
Resting(c) == http_conns[c].stage = "idle"

(* A client that keeps no connection has none that waits.                  *)
SingleUse == http.policy = "AlwaysNew" \/ noreuse
SingleInv ==
    /\ SingleUse => \A c \in HttpConns : ~ Resting(c) /\ http_conns[c].served <= 1
    /\ http.policy = "AlwaysNew" => \A t \in HttpTasks : Flying(t) => http_tasks[t].close

(* When requests come one by one, one connection is in use, by the request *)
(* or waiting, and it has served no more than the worker has counted; the  *)
(* request for which the worker starts to count anew is its last.          *)
OneByOne == http.policy = "Mixed" /\ http.limits # {} /\ http.in_flight = 1
Within(L, n) == \E limit \in L : n <= limit + 1
Counted(k, n) == n <= k.count /\ k.count <= k.limit
CountInv ==
    OneByOne =>
      /\ \A t, u \in HttpTasks : Flying(t) /\ Flying(u) => t = u
      /\ \A c, d \in HttpConns : Resting(c) /\ Resting(d) => c = d
      /\ \A t \in HttpTasks, c \in HttpConns : ~ (Flying(t) /\ Resting(c))
      /\ \A c \in HttpConns : Within(http.limits, http_conns[c].served)
      /\ \A c \in HttpConns : Resting(c) => Counted(http_counter, http_conns[c].served)
      /\ \A t \in HttpTasks : Flying(t) /\ ~ http_tasks[t].close => Counted(http_counter, 1)
      /\ \A t \in HttpTasks, c \in HttpConns :
            Flying(t) /\ ~ http_tasks[t].close /\ http_tasks[t].conn = c => Counted(http_counter, http_conns[c].served)

HttpInv == HttpType /\ SingleInv /\ CountInv

(* The number of a new connection is one that no connection has.           *)
LEMMA NewConn ==
    ASSUME NEW none \in SUBSET HttpConns, none # {}
    PROVE  (CHOOSE c \in none : \A d \in none : c <= d) \in none
  <1>1. none \in SUBSET Nat
    BY HttpAssumption
  <1>2. \E c \in none : \A d \in none : c <= d
    BY <1>1, LeastOne
  <1> QED
    BY <1>2, Zenon

(* With one request at a time, a request begins when there is none.        *)
LEMMA NoneFlying ==
    ASSUME Cardinality({u \in HttpTasks : http_tasks[u].pc # "free"}) < 1
    PROVE  \A u \in HttpTasks : ~ Flying(u)
  <1> DEFINE F == {u \in HttpTasks : http_tasks[u].pc # "free"}
  <1>1. IsFiniteSet(F)
    BY HttpAssumption, FS_Subset, Zenon
  <1>2. Cardinality(F) \in Nat
    BY <1>1, FS_CardinalityType, Zenon
  <1>3. Cardinality(F) = 0
    BY <1>2
  <1>4. F = {}
    BY <1>1, <1>3, FS_EmptySet, Zenon
  <1> QED
    BY <1>4, Zenon DEF Flying

(* What is said of the records by what the step does with them.            *)
LEMMA HttpStart == HttpInit => HttpInv
  <1> SUFFICES ASSUME HttpInit PROVE HttpInv
    OBVIOUS
  <1>1. /\ http \in HttpConfigs /\ http.limits \in SUBSET Nat
    BY HttpAssumption DEF HttpInit, HttpConfiguration
  <1>2. /\ NoHttpTask \in HttpTask /\ NoHttpTask.pc = "free" /\ NoHttpTask.pc \notin {"head", "body"}
        /\ NoHttpConn \in HttpConn /\ NoHttpConn.stage # "idle" /\ NoHttpConn.served = 0 /\ 0 <= 1
    BY DEF NoHttpTask, HttpTask, NoHttpConn, HttpConn
  <1>3. /\ \A t \in HttpTasks : http_tasks[t] = NoHttpTask
        /\ \A c \in HttpConns : http_conns[c] = NoHttpConn
        /\ http_tasks \in [HttpTasks -> HttpTask] /\ http_conns \in [HttpConns -> HttpConn]
    BY <1>2, Zenon DEF HttpInit
  <1>4. /\ http_counter \in [count : Nat, limit : Nat]
        /\ http.limits # {} => http_counter.limit \in http.limits
    BY <1>1 DEF HttpInit
  <1>5. HttpType
    BY <1>1, <1>2, <1>3, <1>4, Zenon DEF HttpType
  <1>6. (\A t \in HttpTasks : ~ Flying(t)) /\ (\A c \in HttpConns : ~ Resting(c))
    BY <1>2, <1>3, Zenon DEF Flying, Resting
  <1>7. SingleInv
    BY <1>2, <1>3, <1>6, Zenon DEF SingleInv
  <1>8. http.limits # {} => Within(http.limits, 0)
    BY <1>1 DEF Within
  <1>9. CountInv
    BY <1>2, <1>3, <1>6, <1>8, Zenon DEF CountInv, OneByOne
  <1> QED
    BY <1>5, <1>7, <1>9, Zenon DEF HttpInv

(* Requests end, and connections are dropped.                              *)
LEMMA HttpEnds ==
    ASSUME HttpInv, UNCHANGED <<http, http_counter>>,
           DOMAIN http_tasks' = HttpTasks, http_tasks' = [t \in HttpTasks |-> http_tasks'[t]],
           \A t \in HttpTasks : http_tasks'[t] = http_tasks[t] \/ http_tasks'[t] = NoHttpTask,
           http_conns' \in [HttpConns -> HttpConn],
           \A c \in HttpConns : \/ http_conns'[c] = http_conns[c]
                                \/ http_conns'[c].stage # "idle" /\ http_conns'[c].served <= http_conns[c].served
    PROVE  HttpInv'
  <1>1. HttpType /\ SingleInv /\ CountInv
    BY Zenon DEF HttpInv
  <1>2. /\ NoHttpTask \in HttpTask /\ NoHttpTask.pc = "free" /\ NoHttpTask.pc \notin {"head", "body"}
    BY DEF NoHttpTask, HttpTask
  <1>3. /\ http' = http /\ http_counter' = http_counter
    OBVIOUS
  <1>4. HttpType'
    <2>1. \A t \in HttpTasks : http_tasks[t] \in HttpTask
      BY <1>1, Zenon DEF HttpType
    <2>2. \A t \in HttpTasks : http_tasks'[t] \in HttpTask
      BY <1>2, <2>1, Zenon
    <2>3. http_tasks' \in [HttpTasks -> HttpTask]
      BY <2>2, Zenon
    <2>4. \A t \in HttpTasks : http_tasks'[t].pc \in {"head", "body"} => http_tasks'[t].conn \in HttpConns
      BY <1>1, <1>2, Zenon DEF HttpType
    <2> QED
      BY <1>1, <1>3, <2>3, <2>4, Zenon DEF HttpType
  <1>5. /\ \A t \in HttpTasks : Flying(t)' => Flying(t) /\ http_tasks'[t] = http_tasks[t]
        /\ \A c \in HttpConns : Resting(c)' => Resting(c) /\ http_conns'[c] = http_conns[c]
    BY <1>2, Zenon DEF Flying, Resting
  <1>6. \A c \in HttpConns : /\ http_conns'[c].served \in Nat /\ http_conns[c].served \in Nat
                             /\ http_conns'[c].served <= http_conns[c].served
    <2> SUFFICES ASSUME NEW c \in HttpConns
                 PROVE  /\ http_conns'[c].served \in Nat /\ http_conns[c].served \in Nat
                        /\ http_conns'[c].served <= http_conns[c].served
      OBVIOUS
    <2>1. http_conns[c] \in HttpConn /\ http_conns'[c] \in HttpConn
      BY <1>1, Zenon DEF HttpType
    <2>2. http_conns'[c].served \in Nat /\ http_conns[c].served \in Nat
      BY <2>1 DEF HttpConn
    <2> QED
      BY <2>2
  <1>7. SingleInv'
    <2>1. SingleUse' <=> SingleUse
      BY <1>3, Zenon DEF SingleUse, noreuse
    <2>2. \A c \in HttpConns : http_conns[c].served <= 1 => http_conns'[c].served <= 1
      BY <1>6
    <2> QED
      BY <1>1, <1>3, <1>5, <2>1, <2>2, Zenon DEF SingleInv
  <1>8. CountInv'
    <2> SUFFICES ASSUME OneByOne' PROVE CountInv'
      BY Zenon DEF CountInv
    <2>1. OneByOne
      BY <1>3, Zenon DEF OneByOne
    <2>3. \A c \in HttpConns : Within(http.limits, http_conns[c].served) => Within(http.limits, http_conns'[c].served)
      <3> SUFFICES ASSUME NEW c \in HttpConns, NEW limit \in http.limits, http_conns[c].served <= limit + 1
                   PROVE  http_conns'[c].served <= limit + 1
        BY Zenon DEF Within
      <3>1. limit \in Nat
        BY <1>1, HttpAssumption DEF HttpType, HttpConfiguration
      <3> QED
        BY <1>6, <3>1
    <2>4. \A c \in HttpConns : Counted(http_counter, http_conns[c].served) => Counted(http_counter, http_conns'[c].served)
      <3>1. http_counter.count \in Nat
        BY <1>1 DEF HttpType
      <3>2. \A c \in HttpConns : http_conns[c].served <= http_counter.count => http_conns'[c].served <= http_counter.count
        BY <1>6, <3>1
      <3> QED
        BY <3>2, Zenon DEF Counted
    <2>5. /\ \A t, u \in HttpTasks : Flying(t)' /\ Flying(u)' => t = u
          /\ \A c, d \in HttpConns : Resting(c)' /\ Resting(d)' => c = d
          /\ \A t \in HttpTasks, c \in HttpConns : ~ (Flying(t)' /\ Resting(c)')
      BY <1>1, <1>5, <2>1, Zenon DEF CountInv
    <2>6. /\ \A c \in HttpConns : Within(http.limits, http_conns'[c].served)
          /\ \A c \in HttpConns : Resting(c)' => Counted(http_counter, http_conns'[c].served)
          /\ \A t \in HttpTasks : Flying(t)' /\ ~ http_tasks'[t].close => Counted(http_counter, 1)
      BY <1>1, <1>5, <2>1, <2>3, <2>4, Zenon DEF CountInv
    <2>7. \A t \in HttpTasks, c \in HttpConns :
             Flying(t)' /\ ~ http_tasks'[t].close /\ http_tasks'[t].conn = c => Counted(http_counter, http_conns'[c].served)
      <3> SUFFICES ASSUME NEW t \in HttpTasks, NEW c \in HttpConns, Flying(t)', ~ http_tasks'[t].close, http_tasks'[t].conn = c
                   PROVE  Counted(http_counter, http_conns'[c].served)
        BY Zenon
      <3>1. Flying(t) /\ http_tasks'[t] = http_tasks[t]
        BY <1>5, Zenon
      <3>2. ~ http_tasks[t].close /\ http_tasks[t].conn = c
        BY <3>1, Zenon
      <3>3. Counted(http_counter, http_conns[c].served)
        BY <1>1, <2>1, <3>1, <3>2, Zenon DEF CountInv
      <3> QED
        BY <2>4, <3>3, Zenon
    <2> QED
      BY <1>3, <2>5, <2>6, <2>7, Zenon DEF CountInv
  <1> QED
    BY <1>4, <1>7, <1>8, Zenon DEF HttpInv

(* A connection that is dropped does not wait any more.                    *)
LEMMA DropIs ==
    ASSUME HttpType, NEW c \in HttpConns
    PROVE  /\ DropConn(c) \in [HttpConns -> HttpConn]
           /\ \A d \in HttpConns : \/ DropConn(c)[d] = http_conns[d]
                                   \/ DropConn(c)[d].stage # "idle" /\ DropConn(c)[d].served <= http_conns[d].served
  <1> DEFINE r == http_conns[c]
             n == IF r.dup THEN [r EXCEPT !.stage = "dangling"] ELSE NoHttpConn
  <1>1. http_conns \in [HttpConns -> HttpConn] /\ r \in HttpConn
    BY Zenon DEF HttpType
  <1>2. n \in HttpConn /\ n.stage # "idle" /\ n.served <= r.served
    <2>1. CASE r.dup
      <3>1. n = [stage |-> "dangling", served |-> r.served, dup |-> r.dup]
        BY <1>1, <2>1, Zenon DEF HttpConn
      <3>2. r.served \in Nat /\ r.dup \in BOOLEAN
        BY <1>1, Zenon DEF HttpConn
      <3> QED
        BY <3>1, <3>2 DEF HttpConn
    <2>2. CASE ~ r.dup
      <3>1. n = NoHttpConn /\ r.served \in Nat
        BY <1>1, <2>2 DEF HttpConn
      <3> QED
        BY <3>1 DEF NoHttpConn, HttpConn
    <2> QED
      BY <2>1, <2>2
  <1>3. DropConn(c) = [http_conns EXCEPT ![c] = n]
    BY DEF DropConn
  <1> HIDE DEF n
  <1> QED
    BY <1>1, <1>2, <1>3

(* What EndHttp does.                                                      *)
LEMMA EndIs ==
    ASSUME HttpType, NEW t \in HttpTasks, EndHttp(t)
    PROVE  /\ DOMAIN http_tasks' = HttpTasks /\ http_tasks' = [u \in HttpTasks |-> http_tasks'[u]]
           /\ \A u \in HttpTasks : http_tasks'[u] = http_tasks[u] \/ http_tasks'[u] = NoHttpTask
           /\ http_tasks'[t] = NoHttpTask /\ \A u \in HttpTasks : u # t => http_tasks'[u] = http_tasks[u]
  <1>1. http_tasks \in [HttpTasks -> HttpTask]
    BY Zenon DEF HttpType
  <1> QED
    BY <1>1, Zenon DEF EndHttp

(* The request fails, is given up, or was the last of its connection.      *)
LEMMA HttpFailsKeeps ==
    ASSUME HttpInv, NEW t \in HttpTasks, EndHttp(t), UNCHANGED <<http, http_counter>>,
           http_conns' = IF http_tasks[t].conn = 0 THEN http_conns ELSE DropConn(http_tasks[t].conn)
    PROVE  HttpInv'
  <1>1. HttpType
    BY Zenon DEF HttpInv
  <1>2. http_conns \in [HttpConns -> HttpConn] /\ http_tasks[t] \in HttpTask
    BY <1>1, Zenon DEF HttpType
  <1>3. /\ http_conns' \in [HttpConns -> HttpConn]
        /\ \A c \in HttpConns : \/ http_conns'[c] = http_conns[c]
                                \/ http_conns'[c].stage # "idle" /\ http_conns'[c].served <= http_conns[c].served
    <2>1. CASE http_tasks[t].conn = 0
      BY <1>2, <2>1, Zenon
    <2>2. CASE http_tasks[t].conn # 0
      <3>1. http_tasks[t].conn \in HttpConns /\ http_conns' = DropConn(http_tasks[t].conn)
        BY <1>2, <2>2, Zenon DEF HttpTask
      <3> QED
        BY <1>1, <3>1, DropIs, Zenon
    <2> QED
      BY <2>1, <2>2, Zenon
  <1> QED
    BY <1>1, <1>3, EndIs, HttpEnds, Zenon

(* The server closes.                                                      *)
LEMMA HttpServerKeeps == ASSUME HttpInv, NEW c \in HttpConns, HttpServerCloses(c) PROVE HttpInv'
  <1>1. HttpType
    BY Zenon DEF HttpInv
  <1>2. /\ UNCHANGED <<http, http_counter>> /\ http_tasks' = http_tasks /\ http_conns' = DropConn(c)
    BY DEF HttpServerCloses
  <1>3. http_tasks \in [HttpTasks -> HttpTask]
    BY <1>1, Zenon DEF HttpType
  <1>4. /\ DOMAIN http_tasks' = HttpTasks /\ http_tasks' = [t \in HttpTasks |-> http_tasks'[t]]
        /\ \A t \in HttpTasks : http_tasks'[t] = http_tasks[t] \/ http_tasks'[t] = NoHttpTask
    BY <1>2, <1>3
  <1>5. /\ http_conns' \in [HttpConns -> HttpConn]
        /\ \A d \in HttpConns : \/ http_conns'[d] = http_conns[d]
                                \/ http_conns'[d].stage # "idle" /\ http_conns'[d].served <= http_conns[d].served
    BY <1>1, <1>2, DropIs, Zenon
  <1> QED
    BY <1>2, <1>4, <1>5, HttpEnds

(* The limits of a test are numbers.                                       *)
LEMMA LimitsAreNat == HttpType => \A limit \in http.limits : limit \in Nat
  BY HttpAssumption DEF HttpType, HttpConfiguration

(* The head of the response is there.                                      *)
LEMMA HttpHeadKeeps == ASSUME HttpInv, NEW t \in HttpTasks, HttpHead(t) PROVE HttpInv'
  <1> DEFINE r == http_tasks[t]
  <1>1. HttpType /\ SingleInv /\ CountInv /\ http_tasks \in [HttpTasks -> HttpTask] /\ r \in HttpTask
    BY Zenon DEF HttpInv, HttpType
  <1>2. /\ r.pc = "head" /\ http_tasks' = [http_tasks EXCEPT ![t].pc = "body"] /\ UNCHANGED <<http, http_conns, http_counter>>
    BY DEF HttpHead
  <1>3. [r EXCEPT !.pc = "body"] = [pc |-> "body", conn |-> r.conn, close |-> r.close]
    BY <1>1 DEF HttpTask
  <1>4. r.conn \in HttpConns /\ r.close \in BOOLEAN
    BY <1>1, <1>2, Zenon DEF HttpTask, HttpType
  <1> DEFINE n == [pc |-> "body", conn |-> r.conn, close |-> r.close]
  <1>5. n \in HttpTask /\ n.pc # "free" /\ n.conn = r.conn /\ n.close = r.close /\ r.pc # "free"
    BY <1>2, <1>4 DEF HttpTask
  <1>6. http_tasks' = [http_tasks EXCEPT ![t] = n]
    BY <1>2, <1>3, Zenon
  <1> HIDE DEF n
  <1>7. /\ http_tasks' \in [HttpTasks -> HttpTask]
        /\ http_tasks'[t] = n /\ \A u \in HttpTasks : u # t => http_tasks'[u] = http_tasks[u]
    BY <1>1, <1>5, <1>6
  <1>8. \A u \in HttpTasks : /\ Flying(u)' <=> Flying(u)
                             /\ http_tasks'[u].conn = http_tasks[u].conn /\ http_tasks'[u].close = http_tasks[u].close
    BY <1>5, <1>7, Zenon DEF Flying
  <1>9. HttpType'
    <2>1. \A u \in HttpTasks : http_tasks'[u].pc \in {"head", "body"} => http_tasks'[u].conn \in HttpConns
      BY <1>1, <1>4, <1>5, <1>7, Zenon DEF HttpType
    <2> QED
      BY <1>1, <1>2, <1>7, <2>1, Zenon DEF HttpType
  <1>10. \A c \in HttpConns : Resting(c)' <=> Resting(c)
    BY <1>2, Zenon DEF Resting
  <1>11. SingleInv'
    <2>1. SingleUse' <=> SingleUse
      BY <1>2, Zenon DEF SingleUse, noreuse
    <2> QED
      BY <1>1, <1>2, <1>8, <1>10, <2>1, Zenon DEF SingleInv
  <1>12. CountInv'
    <2> SUFFICES ASSUME OneByOne' PROVE CountInv'
      BY Zenon DEF CountInv
    <2>1. OneByOne
      BY <1>2, Zenon DEF OneByOne
    <2>2. /\ \A u, v \in HttpTasks : Flying(u)' /\ Flying(v)' => u = v
          /\ \A c, d \in HttpConns : Resting(c)' /\ Resting(d)' => c = d
          /\ \A u \in HttpTasks, c \in HttpConns : ~ (Flying(u)' /\ Resting(c)')
          /\ \A c \in HttpConns : Within(http.limits, http_conns[c].served)
          /\ \A c \in HttpConns : Resting(c)' => Counted(http_counter, http_conns[c].served)
      BY <1>1, <1>8, <1>10, <2>1, Zenon DEF CountInv
    <2>3. \A u \in HttpTasks : Flying(u)' /\ ~ http_tasks'[u].close => Counted(http_counter, 1)
      BY <1>1, <1>8, <2>1, Zenon DEF CountInv
    <2>4. \A u \in HttpTasks, c \in HttpConns :
             Flying(u)' /\ ~ http_tasks'[u].close /\ http_tasks'[u].conn = c => Counted(http_counter, http_conns[c].served)
      <3> SUFFICES ASSUME NEW u \in HttpTasks, NEW c \in HttpConns, Flying(u)', ~ http_tasks'[u].close, http_tasks'[u].conn = c
                   PROVE  Counted(http_counter, http_conns[c].served)
        BY Zenon
      <3>1. Flying(u) /\ ~ http_tasks[u].close /\ http_tasks[u].conn = c
        BY <1>8, Zenon
      <3> QED
        BY <1>1, <2>1, <3>1, Zenon DEF CountInv
    <2> QED
      BY <1>2, <2>2, <2>3, <2>4, Zenon DEF CountInv
  <1> QED
    BY <1>9, <1>11, <1>12, Zenon DEF HttpInv

(* The response is complete: its connection is dropped, or waits for the   *)
(* next request.                                                           *)
LEMMA HttpBodyKeeps == ASSUME HttpInv, NEW t \in HttpTasks, HttpBody(t) PROVE HttpInv'
  <1> DEFINE c == http_tasks[t].conn
             r == http_conns[c]
             n == [stage |-> "idle", served |-> r.served, dup |-> r.dup]
  <1>1. HttpType /\ SingleInv /\ CountInv /\ http_conns \in [HttpConns -> HttpConn]
    BY Zenon DEF HttpInv, HttpType
  <1>2. /\ http_tasks[t].pc = "body" /\ EndHttp(t) /\ UNCHANGED <<http, http_counter>>
        /\ http_conns' = IF http_tasks[t].close \/ PoolDisabled THEN DropConn(c)
                         ELSE [http_conns EXCEPT ![c].stage = "idle"]
    BY DEF HttpBody
  <1>3. c \in HttpConns /\ c # 0 /\ Flying(t)
    <2>1. c \in HttpConns
      BY <1>1, <1>2, Zenon DEF HttpType
    <2> QED
      BY <1>2, <2>1, HttpAssumption DEF Flying
  <1>4. CASE http_tasks[t].close \/ PoolDisabled
    <2>1. http_conns' = IF http_tasks[t].conn = 0 THEN http_conns ELSE DropConn(http_tasks[t].conn)
      BY <1>2, <1>3, <1>4
    <2> QED
      BY <1>2, <2>1, HttpFailsKeeps
  <1>5. CASE ~ (http_tasks[t].close \/ PoolDisabled)
    <2>1. r \in HttpConn /\ r.served \in Nat /\ r.dup \in BOOLEAN
      <3>1. r \in HttpConn
        BY <1>1, <1>3, Zenon
      <3> QED
        BY <3>1, Zenon DEF HttpConn
    <2>2. n \in HttpConn /\ n.served = r.served /\ n.stage = "idle"
      BY <2>1, Zenon DEF HttpConn
    <2>3. http_conns' = [http_conns EXCEPT ![c] = n]
      <3>1. [r EXCEPT !.stage = "idle"] = n
        BY <2>1 DEF HttpConn
      <3>2. http_conns' = [http_conns EXCEPT ![c] = [r EXCEPT !.stage = "idle"]]
        BY <1>2, <1>5
      <3> QED
        BY <3>1, <3>2, Zenon
    <2> HIDE DEF n
    <2>4. /\ http_conns' \in [HttpConns -> HttpConn]
          /\ http_conns'[c] = n /\ \A d \in HttpConns : d # c => http_conns'[d] = http_conns[d]
      BY <1>1, <1>3, <2>2, <2>3, Zenon
    <2> HIDE DEF r, c
    <2>5. \A d \in HttpConns : http_conns'[d].served = http_conns[d].served
      BY <2>2, <2>4, Zenon DEF r
    <2>6. /\ http_tasks'[t] = NoHttpTask /\ \A u \in HttpTasks : u # t => http_tasks'[u] = http_tasks[u]
          /\ http_tasks' = [u \in HttpTasks |-> http_tasks'[u]]
          /\ NoHttpTask \in HttpTask /\ NoHttpTask.pc = "free" /\ NoHttpTask.pc \notin {"head", "body"}
      <3>1. NoHttpTask \in HttpTask /\ NoHttpTask.pc = "free" /\ NoHttpTask.pc \notin {"head", "body"}
        BY DEF NoHttpTask, HttpTask
      <3> QED
        BY <1>1, <1>2, <3>1, EndIs
    <2>7. HttpType'
      <3>1. \A u \in HttpTasks : /\ http_tasks'[u] \in HttpTask
                                 /\ http_tasks'[u].pc \in {"head", "body"} => http_tasks'[u].conn \in HttpConns
        BY <1>1, <2>6, Zenon DEF HttpType
      <3>2. http_tasks' \in [HttpTasks -> HttpTask]
        BY <2>6, <3>1, Zenon
      <3> QED
        BY <1>1, <1>2, <2>4, <3>1, <3>2, Zenon DEF HttpType
    <2>8. ~ SingleUse
      BY <1>1, <1>3, <1>5, Zenon DEF SingleUse, SingleInv, PoolDisabled, needs_custom_connector
    <2>9. SingleInv'
      <3>1. ~ SingleUse'
        BY <1>2, <2>8, Zenon DEF SingleUse, noreuse
      <3> QED
        BY <3>1, Zenon DEF SingleInv, SingleUse
    <2>10. CountInv'
      <3> SUFFICES ASSUME OneByOne' PROVE CountInv'
        BY Zenon DEF CountInv
      <3>1. OneByOne
        BY <1>2, Zenon DEF OneByOne
      <3>2. \A u \in HttpTasks : ~ Flying(u)'
        BY <1>1, <1>3, <2>6, <3>1, Zenon DEF CountInv, Flying
      <3>3. \A d \in HttpConns : Resting(d)' => d = c
        BY <1>1, <1>3, <2>4, <3>1, Zenon DEF CountInv, Resting
      <3>4. Counted(http_counter, http_conns[c].served)
        <4>1. ~ http_tasks[t].close /\ http_tasks[t].conn = c
          BY <1>5, Zenon DEF c
        <4> QED
          BY <1>1, <1>3, <3>1, <4>1, Zenon DEF CountInv
      <3>5. \A d \in HttpConns : Resting(d)' => Counted(http_counter, http_conns'[d].served)
        BY <1>3, <2>5, <3>3, <3>4, Zenon
      <3>6. \A d \in HttpConns : Within(http.limits, http_conns'[d].served)
        BY <1>1, <2>5, <3>1, Zenon DEF CountInv
      <3> QED
        BY <1>2, <3>2, <3>3, <3>5, <3>6, Zenon DEF CountInv
    <2> QED
      BY <2>7, <2>9, <2>10, Zenon DEF HttpInv
  <1> QED
    BY <1>4, <1>5

(* The record of a request that got its connection.                        *)
LEMMA ConnectedIs ==
    ASSUME NEW r \in HttpTask, NEW c
    PROVE  [r EXCEPT !.pc = "head", !.conn = c] = [pc |-> "head", conn |-> c, close |-> r.close]
  <1>1. r = [pc |-> r.pc, conn |-> r.conn, close |-> r.close]
    BY DEF HttpTask
  <1> DEFINE p == r.pc
             q == r.conn
             b == r.close
  <1> HIDE DEF p, q, b
  <1>2. r = [pc |-> p, conn |-> q, close |-> b]
    BY <1>1 DEF p, q, b
  <1> DEFINE m == [r EXCEPT !.pc = "head"]
  <1>3. m = [pc |-> "head", conn |-> q, close |-> b]
    BY <1>2
  <1>4. [r EXCEPT !.pc = "head", !.conn = c] = [m EXCEPT !.conn = c]
    BY <1>2
  <1> HIDE DEF m
  <1>5. [m EXCEPT !.conn = c] = [pc |-> "head", conn |-> c, close |-> b]
    BY <1>3
  <1> QED
    BY <1>4, <1>5 DEF b

(* A connection is made for a request that found none waiting.             *)
LEMMA HttpConnectKeeps == ASSUME HttpInv, NEW t \in HttpTasks, HttpConnect(t) PROVE HttpInv'
  <1> DEFINE r == http_tasks[t]
             none == {d \in HttpConns : http_conns[d].stage = "none"}
             c == CHOOSE d \in none : \A e \in none : d <= e
             kept == PoolDisabled
             k == [stage |-> "busy", served |-> 1, dup |-> kept]
             n == [pc |-> "head", conn |-> c, close |-> r.close]
  <1>1. /\ HttpType /\ SingleInv /\ CountInv /\ http_tasks \in [HttpTasks -> HttpTask] /\ r \in HttpTask
        /\ http_conns \in [HttpConns -> HttpConn]
    BY Zenon DEF HttpInv, HttpType
  <1>2. /\ r.pc = "connect" /\ none # {} /\ UNCHANGED <<http, http_counter>>
        /\ http_conns' = [http_conns EXCEPT ![c] = k]
        /\ http_tasks' = [http_tasks EXCEPT ![t].pc = "head", ![t].conn = c]
    BY DEF HttpConnect
  <1>3. c \in HttpConns
    <2>1. none \in SUBSET HttpConns
      OBVIOUS
    <2>2. c \in none
      BY <1>2, <2>1, NewConn, Zenon
    <2> QED
      BY <2>2
  <1> HIDE DEF c, none
  <1>4. n \in HttpTask /\ n.pc # "free" /\ n.pc \in {"head", "body"} /\ n.conn = c /\ n.close = r.close /\ Flying(t)
    <2>1. r.close \in BOOLEAN
      BY <1>1, Zenon DEF HttpTask
    <2> QED
      BY <1>2, <1>3, <2>1 DEF HttpTask, Flying
  <1>5. http_tasks' = [http_tasks EXCEPT ![t] = n]
    <2>1. [r EXCEPT !.pc = "head", !.conn = c] = n
      BY <1>1, ConnectedIs, Zenon
    <2>2. http_tasks' = [http_tasks EXCEPT ![t] = [r EXCEPT !.pc = "head", !.conn = c]]
      BY <1>1, <1>2, Zenon
    <2> QED
      BY <2>1, <2>2, Zenon
  <1>6. k \in HttpConn /\ k.stage # "idle" /\ k.served = 1
    <2>1. kept \in BOOLEAN
      BY DEF PoolDisabled
    <2> HIDE DEF kept
    <2> QED
      BY <2>1 DEF HttpConn
  <1> HIDE DEF n, k
  <1>7. /\ http_tasks' \in [HttpTasks -> HttpTask]
        /\ http_tasks'[t] = n /\ \A u \in HttpTasks : u # t => http_tasks'[u] = http_tasks[u]
    BY <1>1, <1>4, <1>5
  <1>8. /\ http_conns' \in [HttpConns -> HttpConn]
        /\ http_conns'[c] = k /\ \A d \in HttpConns : d # c => http_conns'[d] = http_conns[d]
    BY <1>1, <1>2, <1>3, <1>6
  <1> HIDE DEF r
  <1>9. HttpType'
    <2>1. \A u \in HttpTasks : http_tasks'[u].pc \in {"head", "body"} => http_tasks'[u].conn \in HttpConns
      BY <1>1, <1>3, <1>4, <1>7, Zenon DEF HttpType
    <2> QED
      BY <1>1, <1>2, <1>7, <1>8, <2>1, Zenon DEF HttpType
  <1>10. \A u \in HttpTasks : Flying(u)' => Flying(u) /\ http_tasks'[u].close = http_tasks[u].close
    BY <1>4, <1>7, Zenon DEF Flying, r
  <1>11. \A d \in HttpConns : Resting(d)' => Resting(d) /\ http_conns'[d] = http_conns[d]
    BY <1>6, <1>8, Zenon DEF Resting
  <1>12. SingleInv'
    <2>1. SingleUse' <=> SingleUse
      BY <1>2, Zenon DEF SingleUse, noreuse
    <2>2. 1 <= 1
      OBVIOUS
    <2>3. SingleUse => \A d \in HttpConns : http_conns'[d].served <= 1
      BY <1>1, <1>6, <1>8, <2>2, Zenon DEF SingleInv
    <2>4. http.policy = "AlwaysNew" => \A u \in HttpTasks : Flying(u)' => http_tasks'[u].close
      BY <1>1, <1>10, Zenon DEF SingleInv
    <2> QED
      BY <1>1, <1>2, <1>11, <2>1, <2>3, <2>4, Zenon DEF SingleInv
  <1>13. CountInv'
    <2> SUFFICES ASSUME OneByOne' PROVE CountInv'
      BY Zenon DEF CountInv
    <2>1. OneByOne
      BY <1>2, Zenon DEF OneByOne
    <2>2. /\ \A u, v \in HttpTasks : Flying(u)' /\ Flying(v)' => u = v
          /\ \A u \in HttpTasks : Flying(u)' => u = t
          /\ \A d \in HttpConns : ~ Resting(d)'
      BY <1>1, <1>4, <1>10, <1>11, <2>1, Zenon DEF CountInv
    <2>3. \A d \in HttpConns : Within(http.limits, http_conns'[d].served)
      <3>1. Within(http.limits, 1)
        <4>1. PICK limit \in http.limits : TRUE
          BY <2>1, Zenon DEF OneByOne
        <4>2. limit \in Nat
          BY <1>1, LimitsAreNat
        <4>3. 1 <= limit + 1
          BY <4>2, Counting, Zenon
        <4> QED
          BY <4>3, Zenon DEF Within
      <3> QED
        BY <1>1, <1>6, <1>8, <2>1, <3>1, Zenon DEF CountInv
    <2>4. ~ r.close => Counted(http_counter, 1)
      BY <1>1, <1>4, <2>1, Zenon DEF CountInv, r
    <2>5. \A u \in HttpTasks : Flying(u)' /\ ~ http_tasks'[u].close => Counted(http_counter, 1)
      BY <1>4, <1>7, <2>2, <2>4, Zenon
    <2>6. \A u \in HttpTasks, d \in HttpConns :
             Flying(u)' /\ ~ http_tasks'[u].close /\ http_tasks'[u].conn = d => Counted(http_counter, http_conns'[d].served)
      <3> SUFFICES ASSUME NEW u \in HttpTasks, NEW d \in HttpConns, Flying(u)', ~ http_tasks'[u].close, http_tasks'[u].conn = d
                   PROVE  Counted(http_counter, http_conns'[d].served)
        BY Zenon
      <3>1. u = t /\ d = c
        BY <1>4, <1>7, <2>2, Zenon
      <3>2. http_conns'[d].served = 1
        BY <1>6, <1>8, <3>1, Zenon
      <3> QED
        BY <2>5, <3>2, Zenon
    <2> QED
      BY <1>2, <2>2, <2>3, <2>5, <2>6, Zenon DEF CountInv
  <1> QED
    BY <1>9, <1>12, <1>13, Zenon DEF HttpInv

(* What the transformer does: a request that does not close is counted     *)
(* within the limit.                                                       *)
LEMMA TransformIs ==
    ASSUME HttpType, NEW close \in BOOLEAN, NEW counter, transform(close, counter)
    PROVE  /\ counter \in [count : Nat, limit : Nat]
           /\ http.limits # {} => counter.limit \in http.limits
           /\ http.policy = "AlwaysNew" => close
           /\ http.policy = "Mixed" /\ http.limits # {} /\ ~ close =>
                  counter.count = http_counter.count + 1 /\ counter.limit = http_counter.limit /\ counter.count <= counter.limit
  <1> DEFINE k == http_counter
             ticked == [count |-> k.count + 1, limit |-> k.limit]
  <1>1. /\ k \in [count : Nat, limit : Nat] /\ (http.limits # {} => k.limit \in http.limits)
        /\ http.policy \in {"KeepAlive", "AlwaysNew", "NoReuse", "Mixed"}
        /\ \A limit \in http.limits : limit \in Nat
    BY HttpAssumption, LimitsAreNat DEF HttpType, HttpConfiguration
  <1>2. [http_counter EXCEPT !.count = @ + 1] = ticked
    BY <1>1
  <1>3. CASE http.policy \in {"KeepAlive", "NoReuse"}
    <2>1. counter = k
      BY <1>3, Zenon DEF transform
    <2> QED
      BY <1>1, <1>3, <2>1
  <1>4. CASE http.policy = "AlwaysNew"
    <2>1. counter = k /\ close
      BY <1>4 DEF transform
    <2> QED
      BY <1>1, <1>4, <2>1
  <1>5. CASE http.policy = "Mixed" /\ http.limits = {}
    <2>1. counter = k
      BY <1>5 DEF transform
    <2> QED
      BY <1>1, <1>5, <2>1
  <1>6. CASE http.policy = "Mixed" /\ http.limits # {}
    <2>1. IF ticked.count > k.limit THEN close /\ counter \in [count : {1}, limit : http.limits]
          ELSE (close => http.closing) /\ counter = ticked
      BY <1>2, <1>6, Zenon DEF transform
    <2>2. CASE ticked.count > k.limit
      <3>1. close /\ counter \in [count : {1}, limit : http.limits]
        BY <2>1, <2>2, Zenon
      <3>2. counter \in [count : Nat, limit : Nat] /\ counter.limit \in http.limits
        BY <1>1, <3>1
      <3> QED
        BY <1>6, <3>1, <3>2
    <2>3. CASE ~ (ticked.count > k.limit)
      <3>1. counter = ticked
        BY <2>1, <2>3, Zenon
      <3>2. ticked \in [count : Nat, limit : Nat] /\ ticked.limit = k.limit /\ ticked.count = k.count + 1 /\ ticked.count <= k.limit
        <4>1. k.count \in Nat /\ k.limit \in Nat
          BY <1>1
        <4>2. ticked.limit = k.limit /\ ticked.count = k.count + 1
          OBVIOUS
        <4>3. k.count + 1 \in Nat /\ (~ (k.count + 1 > k.limit) => k.count + 1 <= k.limit)
          BY <4>1
        <4> HIDE DEF k
        <4>4. ticked \in [count : Nat, limit : Nat]
          BY <4>1, <4>3
        <4> QED
          BY <2>3, <4>2, <4>3, <4>4, Zenon
      <3> QED
        BY <1>1, <1>6, <3>1, <3>2, Zenon
    <2> QED
      BY <2>2, <2>3, Zenon
  <1> QED
    BY <1>1, <1>3, <1>4, <1>5, <1>6, Zenon

(* The record of a connection that serves another request.                 *)
LEMMA UsedIs ==
    ASSUME NEW r \in HttpConn
    PROVE  /\ [r EXCEPT !.stage = "busy", !.served = @ + 1] \in HttpConn
           /\ [r EXCEPT !.stage = "busy", !.served = @ + 1].stage # "idle"
           /\ [r EXCEPT !.stage = "busy", !.served = @ + 1].served = r.served + 1
           /\ r.served \in Nat
  <1> DEFINE q == r.served
             b == r.dup
             m == [r EXCEPT !.stage = "busy"]
             k == [r EXCEPT !.stage = "busy", !.served = @ + 1]
  <1>1. r = [stage |-> r.stage, served |-> q, dup |-> b]
    BY DEF HttpConn
  <1>2. q \in Nat /\ b \in BOOLEAN
    BY Zenon DEF HttpConn
  <1>3. k = [m EXCEPT !.served = @ + 1]
    BY <1>1
  <1> HIDE DEF q, b
  <1>4. m = [stage |-> "busy", served |-> q, dup |-> b]
    BY <1>1
  <1> HIDE DEF m
  <1>5. k = [stage |-> "busy", served |-> q + 1, dup |-> b]
    BY <1>3, <1>4
  <1> HIDE DEF k
  <1>6. k \in HttpConn /\ k.stage # "idle" /\ k.served = q + 1
    BY <1>2, <1>5 DEF HttpConn
  <1> QED
    BY <1>2, <1>6 DEF k, q

(* A request begins: with a connection that waits, or with none.           *)
LEMMA HttpExecuteKeeps == ASSUME HttpInv, NEW t \in HttpTasks, HttpExecute(t) PROVE HttpInv'
  <1>1. /\ HttpType /\ SingleInv /\ CountInv /\ http_tasks \in [HttpTasks -> HttpTask]
        /\ http_conns \in [HttpConns -> HttpConn] /\ http_counter \in [count : Nat, limit : Nat]
    BY Zenon DEF HttpInv, HttpType
  <1>2. PICK close \in BOOLEAN, counter \in [count : 0..(MaxHttp + 1), limit : http.limits \cup {0}] :
          /\ transform(close, counter)
          /\ http_counter' = counter
          /\ \/ /\ HttpIdle = {}
                /\ http_tasks' = [http_tasks EXCEPT ![t] = [pc |-> "connect", conn |-> 0, close |-> close]]
                /\ UNCHANGED http_conns
             \/ \E c \in HttpIdle :
                /\ http_tasks' = [http_tasks EXCEPT ![t] = [pc |-> "head", conn |-> c, close |-> close]]
                /\ http_conns' = [http_conns EXCEPT ![c].stage = "busy", ![c].served = @ + 1]
    BY Zenon DEF HttpExecute
  <1>3. http' = http
    BY DEF HttpExecute
  <1>4. /\ counter \in [count : Nat, limit : Nat]
        /\ http.limits # {} => counter.limit \in http.limits
        /\ http.policy = "AlwaysNew" => close
        /\ http.policy = "Mixed" /\ http.limits # {} /\ ~ close =>
               counter.count = http_counter.count + 1 /\ counter.limit = http_counter.limit /\ counter.count <= counter.limit
    BY <1>1, <1>2, TransformIs
  <1>5. OneByOne => \A u \in HttpTasks : ~ Flying(u)
    BY NoneFlying DEF HttpExecute, OneByOne
  <1>6. OneByOne /\ ~ close => Counted(counter, 1)
    <2> SUFFICES ASSUME OneByOne, ~ close PROVE Counted(counter, 1)
      OBVIOUS
    <2>1. counter.count = http_counter.count + 1 /\ counter.count <= counter.limit
      BY <1>4, Zenon DEF OneByOne
    <2>2. http_counter.count \in Nat
      BY <1>1
    <2>3. 1 <= counter.count
      BY <2>1, <2>2
    <2> QED
      BY <2>1, <2>3, Zenon DEF Counted
  (* What the two cases share: a request that is new, and connections of   *)
  (* which at most one has changed, to serve it.                           *)
  <1>7. ASSUME NEW n \in HttpTask, n.pc # "free", n.close = close, n.pc \in {"head", "body"} => n.conn \in HttpConns,
               http_tasks' = [http_tasks EXCEPT ![t] = n], http_conns' \in [HttpConns -> HttpConn],
               \A d \in HttpConns : Resting(d)' => Resting(d),
               OneByOne => \A d \in HttpConns : ~ Resting(d)',
               SingleUse => http_conns' = http_conns,
               OneByOne => \A d \in HttpConns : Within(http.limits, http_conns'[d].served),
               OneByOne /\ ~ close => \A d \in HttpConns : n.conn = d => Counted(counter, http_conns'[d].served)
        PROVE  HttpInv'
    <2>1. /\ http_tasks' \in [HttpTasks -> HttpTask]
          /\ http_tasks'[t] = n /\ \A u \in HttpTasks : u # t => http_tasks'[u] = http_tasks[u]
      BY <1>1, <1>7, Zenon
    <2>2. HttpType'
      <3>1. \A u \in HttpTasks : http_tasks'[u].pc \in {"head", "body"} => http_tasks'[u].conn \in HttpConns
        BY <1>1, <1>7, <2>1, Zenon DEF HttpType
      <3> QED
        BY <1>1, <1>2, <1>3, <1>4, <1>7, <2>1, <3>1, Zenon DEF HttpType
    <2>3. SingleInv'
      <3>1. SingleUse' <=> SingleUse
        BY <1>3, Zenon DEF SingleUse, noreuse
      <3>2. \A u \in HttpTasks : Flying(u)' => u = t \/ (Flying(u) /\ http_tasks'[u] = http_tasks[u])
        BY <2>1, Zenon DEF Flying
      <3>3. http.policy = "AlwaysNew" => \A u \in HttpTasks : Flying(u)' => http_tasks'[u].close
        <4> SUFFICES ASSUME http.policy = "AlwaysNew", NEW u \in HttpTasks, Flying(u)' PROVE http_tasks'[u].close
          BY Zenon
        <4>1. CASE u = t
          BY <1>4, <1>7, <2>1, <4>1, Zenon
        <4>2. CASE u # t
          <5>1. Flying(u) /\ http_tasks'[u] = http_tasks[u]
            BY <3>2, <4>2, Zenon
          <5>2. http_tasks[u].close
            BY <1>1, <5>1, Zenon DEF SingleInv
          <5> QED
            BY <5>1, <5>2, Zenon
        <4> QED
          BY <4>1, <4>2, Zenon
      <3> QED
        BY <1>1, <1>3, <1>7, <3>1, <3>3, Zenon DEF SingleInv
    <2>4. CountInv'
      <3> SUFFICES ASSUME OneByOne' PROVE CountInv'
        BY Zenon DEF CountInv
      <3>1. OneByOne
        BY <1>3, Zenon DEF OneByOne
      <3>2. /\ \A u \in HttpTasks : Flying(u)' => u = t
            /\ \A d \in HttpConns : ~ Resting(d)'
            /\ \A d \in HttpConns : Within(http.limits, http_conns'[d].served)
        BY <1>5, <1>7, <2>1, <3>1, Zenon DEF Flying
      <3>3. \A u \in HttpTasks : Flying(u)' /\ ~ http_tasks'[u].close => Counted(counter, 1)
        BY <1>6, <1>7, <2>1, <3>1, <3>2, Zenon
      <3>4. \A u \in HttpTasks, d \in HttpConns :
               Flying(u)' /\ ~ http_tasks'[u].close /\ http_tasks'[u].conn = d => Counted(counter, http_conns'[d].served)
        <4> SUFFICES ASSUME NEW u \in HttpTasks, NEW d \in HttpConns, Flying(u)', ~ http_tasks'[u].close, http_tasks'[u].conn = d
                     PROVE  Counted(counter, http_conns'[d].served)
          BY Zenon
        <4>1. u = t
          BY <3>2, Zenon
        <4>2. ~ close /\ n.conn = d
          BY <1>7, <2>1, <4>1, Zenon
        <4> QED
          BY <1>7, <3>1, <4>2, Zenon
      <3> QED
        BY <1>2, <1>3, <3>2, <3>3, <3>4, Zenon DEF CountInv
    <2> QED
      BY <2>2, <2>3, <2>4, Zenon DEF HttpInv
  <1>8. CASE /\ HttpIdle = {} /\ UNCHANGED http_conns
             /\ http_tasks' = [http_tasks EXCEPT ![t] = [pc |-> "connect", conn |-> 0, close |-> close]]
    <2> DEFINE n == [pc |-> "connect", conn |-> 0, close |-> close]
    <2>1. n \in HttpTask /\ n.pc # "free" /\ n.close = close /\ n.pc \notin {"head", "body"} /\ n.conn = 0 /\ 0 \notin HttpConns
      BY <1>2, HttpAssumption DEF HttpTask
    <2>2. http_tasks' = [http_tasks EXCEPT ![t] = n] /\ http_conns' = http_conns
      BY <1>8
    <2> HIDE DEF n
    <2>3. \A d \in HttpConns : ~ Resting(d)'
      BY <1>8, <2>2, Zenon DEF HttpIdle, Resting
    <2>4. OneByOne => \A d \in HttpConns : Within(http.limits, http_conns'[d].served)
      BY <1>1, <2>2, Zenon DEF CountInv
    <2>5. OneByOne /\ ~ close => \A d \in HttpConns : n.conn = d => Counted(counter, http_conns'[d].served)
      BY <2>1, Zenon
    <2> QED
      BY <1>1, <1>7, <2>1, <2>2, <2>3, <2>4, <2>5, Zenon
  <1>9. ASSUME NEW c \in HttpIdle,
               http_tasks' = [http_tasks EXCEPT ![t] = [pc |-> "head", conn |-> c, close |-> close]],
               http_conns' = [http_conns EXCEPT ![c].stage = "busy", ![c].served = @ + 1]
        PROVE  HttpInv'
    <2> DEFINE n == [pc |-> "head", conn |-> c, close |-> close]
               r == http_conns[c]
               k == [r EXCEPT !.stage = "busy", !.served = @ + 1]
    <2>1. c \in HttpConns /\ Resting(c) /\ r \in HttpConn
      BY <1>1, <1>9, Zenon DEF HttpIdle, Resting
    <2>2. n \in HttpTask /\ n.pc # "free" /\ n.close = close /\ n.conn = c
      BY <1>2, <2>1 DEF HttpTask
    <2>3. k \in HttpConn /\ k.stage # "idle" /\ k.served = r.served + 1 /\ r.served \in Nat
      BY <2>1, UsedIs, Zenon
    <2>4. http_tasks' = [http_tasks EXCEPT ![t] = n] /\ http_conns' = [http_conns EXCEPT ![c] = k]
      BY <1>9, Zenon
    <2> HIDE DEF n, k
    <2>5. /\ http_conns' \in [HttpConns -> HttpConn]
          /\ http_conns'[c] = k /\ \A d \in HttpConns : d # c => http_conns'[d] = http_conns[d]
      BY <1>1, <2>1, <2>3, <2>4, Zenon
    <2> HIDE DEF r
    <2>6. \A d \in HttpConns : Resting(d)' => Resting(d) /\ d # c
      BY <2>3, <2>5, Zenon DEF Resting
    <2>7. OneByOne => \A d \in HttpConns : ~ Resting(d)'
      BY <1>1, <2>1, <2>6, Zenon DEF CountInv
    <2>8. ~ SingleUse
      BY <1>1, <2>1, Zenon DEF SingleInv
    <2>9. OneByOne => Counted(http_counter, r.served)
      BY <1>1, <2>1, Zenon DEF CountInv, r
    <2>10. OneByOne => \A d \in HttpConns : Within(http.limits, http_conns'[d].served)
      <3> SUFFICES ASSUME OneByOne, NEW d \in HttpConns PROVE Within(http.limits, http_conns'[d].served)
        BY Zenon
      <3>1. CASE d # c
        BY <1>1, <2>5, <3>1, Zenon DEF CountInv
      <3>2. CASE d = c
        <4>1. http_counter.limit \in http.limits
          BY <1>1, Zenon DEF HttpType, OneByOne
        <4>2. http_counter.count \in Nat /\ http_counter.limit \in Nat
          BY <1>1
        <4>3. k.served <= http_counter.limit + 1
          BY <2>3, <2>9, <4>2, CountingOn, Zenon DEF Counted
        <4> QED
          BY <2>5, <3>2, <4>1, <4>3, Zenon DEF Within
      <3> QED
        BY <3>1, <3>2
    <2>11. OneByOne /\ ~ close => \A d \in HttpConns : n.conn = d => Counted(counter, http_conns'[d].served)
      <3> SUFFICES ASSUME OneByOne, ~ close, NEW d \in HttpConns, n.conn = d PROVE Counted(counter, http_conns'[d].served)
        BY Zenon
      <3>1. d = c /\ http_conns'[d] = k
        BY <2>2, <2>5, Zenon
      <3>2. counter.count = http_counter.count + 1 /\ counter.count <= counter.limit
        BY <1>4, Zenon DEF OneByOne
      <3>3. http_counter.count \in Nat /\ r.served <= http_counter.count
        BY <1>1, <2>9, Zenon DEF Counted
      <3>4. k.served <= counter.count
        <4>1. k.served = r.served + 1 /\ r.served \in Nat
          BY <2>3, Zenon
        <4>2. counter.count = http_counter.count + 1
          BY <3>2, Zenon
        <4> QED
          BY <3>3, <4>1, <4>2, Counting, Zenon
      <3> QED
        BY <3>1, <3>2, <3>4, Zenon DEF Counted
    <2> QED
      BY <1>7, <2>1, <2>2, <2>4, <2>5, <2>6, <2>7, <2>8, <2>10, <2>11, Zenon
  <1> QED
    BY <1>2, <1>8, <1>9, Zenon

(* One step of the client or of the server.                                *)
LEMMA HttpStepKeeps == HttpInv /\ [HttpNext]_httpVars => HttpInv'
  <1> SUFFICES ASSUME HttpInv, [HttpNext]_httpVars PROVE HttpInv'
    OBVIOUS
  <1>1. ASSUME NEW t \in HttpTasks, HttpStep(t) PROVE HttpInv'
    <2>1. CASE HttpFails(t) \/ HttpTimeout(t)
      <3>1. /\ EndHttp(t) /\ UNCHANGED <<http, http_counter>>
            /\ http_conns' = IF http_tasks[t].conn = 0 THEN http_conns ELSE DropConn(http_tasks[t].conn)
        BY <2>1, Zenon DEF HttpFails, HttpTimeout
      <3> QED
        BY <3>1, HttpFailsKeeps
    <2> QED
      BY <1>1, <2>1, HttpExecuteKeeps, HttpConnectKeeps, HttpHeadKeeps, HttpBodyKeeps, Zenon DEF HttpStep
  <1>2. ASSUME NEW c \in HttpConns, HttpServerCloses(c) PROVE HttpInv'
    BY <1>2, HttpServerKeeps
  <1>3. CASE UNCHANGED httpVars
    <2>1. UNCHANGED <<http, http_tasks, http_conns, http_counter>>
      BY <1>3 DEF httpVars
    <2>2. (SingleUse' <=> SingleUse) /\ (OneByOne' <=> OneByOne)
      BY <2>1, Zenon DEF SingleUse, noreuse, OneByOne
    <2> QED
      BY <2>1, <2>2, Zenon DEF HttpInv, HttpType, SingleInv, CountInv, Flying, Resting
  <1> QED
    BY <1>1, <1>2, <1>3, Zenon DEF HttpNext

(* The connection policy holds for any number of requests, connections and *)
(* limits: a connection serves one request with AlwaysNew or without reuse *)
(* and, when requests come one by one, at most one more than a sampled     *)
(* limit with Mixed (ConnectionPolicyTransformer, with_connection_config). *)
THEOREM PolicyIsHonoured == HttpSpec => []PolicyHonoured
  <1>1. HttpInv => PolicyHonoured
    BY Zenon DEF HttpInv, SingleInv, SingleUse, CountInv, OneByOne, Within, PolicyHonoured
  <1>2. HttpSpec => []HttpInv
    BY HttpStart, HttpStepKeeps, PTL DEF HttpSpec
  <1> QED
    BY <1>1, <1>2, PTL

=============================================================================
