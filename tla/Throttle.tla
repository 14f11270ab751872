------------------------------ MODULE Throttle ------------------------------
(***************************************************************************)
(* The two token buckets of the repository: the one that slows the reads   *)
(* of an HTTP test down (netanvil-http, throttle.rs) and the one that      *)
(* paces the datagrams of the UDP test server.  Time comes in ticks, rates *)
(* in tokens per tick; a sleep lasts at least as long as it was asked for. *)
(***************************************************************************)
EXTENDS Integers

CONSTANTS
    Buckets,        \* [rate, capacity, tokens, pacing]: see BucketInit
    ReadSizes,      \* what one read of the inner stream, or one send, takes
    MaxTime         \* bound on the clock

(* A rate is positive, and a bucket starts with no more than it holds.     *)
ASSUME BucketAssumption ==
    /\ Buckets \subseteq [rate : Nat \ {0}, capacity : Nat, tokens : Nat, last_refill : {0}, pacing : BOOLEAN]
    /\ \A b \in Buckets : b.tokens <= b.capacity
    /\ ReadSizes \subseteq Nat /\ ReadSizes # {}

VARIABLES
    bucket,         \* the token bucket
    clock,          \* ticks
    flow,           \* [pc, until, n]: what the reader or sender is doing
    burst           \* history: what was handed over beyond the rate, see RateHeld

throttleVars == <<bucket, clock, flow, burst>>

(* TokenBucket::new: the throttle starts full, with at least a packet; the *)
(* pacing starts with a second's worth of two.                             *)
NewThrottle(rate, packet) ==
    LET capacity == IF rate > packet THEN rate ELSE packet
    IN  [rate |-> rate, capacity |-> capacity, tokens |-> capacity, last_refill |-> 0, pacing |-> FALSE]
NewPacing(rate) ==
    [rate |-> rate, capacity |-> 2 * rate, tokens |-> rate, last_refill |-> 0, pacing |-> TRUE]

ThrottleInit ==
    /\ bucket \in Buckets
    /\ clock = 0
    /\ flow = [pc |-> "idle", until |-> 0, n |-> 0]
    /\ burst = 0

(* Faulty variant of refill: the tokens are not capped.                    *)
refill_uncapped(b) == [b EXCEPT !.tokens = b.tokens + (clock - b.last_refill) * b.rate, !.last_refill = clock]

refill(b) ==
    [b EXCEPT !.tokens = IF b.tokens + (clock - b.last_refill) * b.rate < b.capacity
                         THEN b.tokens + (clock - b.last_refill) * b.rate ELSE b.capacity,
              !.last_refill = clock]

(* consume, try_consume: the tokens may become a debt.                     *)
consume(b, n) == [refill(b) EXCEPT !.tokens = @ - n]
Debt(b) == IF b.tokens < 0 THEN -b.tokens ELSE 0

(* The first tick at which a sleep of need / rate is over.                 *)
Wakes(b, need) == clock + ((need + b.rate - 1) \div b.rate)

-----------------------------------------------------------------------------
Tick ==
    /\ clock < MaxTime
    /\ clock' = clock + 1
    /\ burst' = IF burst > bucket.rate THEN burst - bucket.rate ELSE 0
    /\ UNCHANGED <<bucket, flow>>

(* ThrottledStream::read: wait_time first; a debt is always paid by then,  *)
(* unless a read was dropped while it slept.                               *)
wait_time ==
    /\ flow.pc = "idle" /\ ~bucket.pacing
    /\ bucket' = refill(bucket)
    /\ flow' = [pc |-> "wait", until |-> IF bucket'.tokens >= 1 THEN clock ELSE Wakes(bucket', 1 - bucket'.tokens), n |-> 0]
    /\ UNCHANGED <<clock, burst>>

(* The inner stream has data: the debt is slept off before it is handed    *)
(* over.                                                                   *)
InnerRead ==
    /\ flow.pc = "wait" /\ clock >= flow.until
    /\ \E n \in ReadSizes :
          /\ bucket' = consume(bucket, n)
          /\ flow' = [pc |-> "debt", until |-> Wakes(bucket', Debt(bucket')), n |-> n]
    /\ UNCHANGED <<clock, burst>>

(* A handler of the UDP server is about to send.                           *)
try_consume ==
    /\ flow.pc = "idle" /\ bucket.pacing
    /\ \E n \in ReadSizes :
          /\ bucket' = consume(bucket, n)
          /\ flow' = [pc |-> "debt", until |-> Wakes(bucket', Debt(bucket')), n |-> n]
    /\ UNCHANGED <<clock, burst>>

(* The sleep is over: the read returns, or the datagram is sent.           *)
HandOver ==
    /\ flow.pc = "debt" /\ clock >= flow.until
    /\ burst' = burst + flow.n
    /\ flow' = [pc |-> "idle", until |-> 0, n |-> 0]
    /\ UNCHANGED <<bucket, clock>>

(* The request times out and its read with it: the bytes are gone.         *)
ReadDropped ==
    /\ flow.pc \in {"wait", "debt"} /\ ~bucket.pacing
    /\ flow' = [pc |-> "idle", until |-> 0, n |-> 0]
    /\ UNCHANGED <<bucket, clock, burst>>

ThrottleNext == Tick \/ wait_time \/ InnerRead \/ try_consume \/ HandOver \/ ReadDropped

ThrottleSpec == ThrottleInit /\ [][ThrottleNext]_throttleVars

-----------------------------------------------------------------------------
(* However the reads fall, and after whatever pause, no interval of time   *)
(* gets more than the configured rate, one burst and the read that was     *)
(* waiting: burst is the largest excess over the rate of all intervals     *)
(* that end now.                                                           *)
RateHeld == \E n \in ReadSizes : burst <= bucket.capacity + n
=============================================================================
