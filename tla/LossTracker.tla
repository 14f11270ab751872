----------------------------- MODULE LossTracker ----------------------------
(***************************************************************************)
(* The loss tracker of the UDP executor: a ring of bits over the last      *)
(* sequence numbers.  A number that leaves the window without its bit is   *)
(* lost.  tracker_seen is what a tracker with unlimited memory would know. *)
(***************************************************************************)
EXTENDS Integers, FiniteSets

CONSTANTS
    WINDOW,         \* bits of the ring (4096 in the code)
    MaxPackets,     \* bound: packets sent
    MaxDeltas       \* bound: snapshots taken

ASSUME WindowAssumption == WINDOW \in Nat \ {0}

VARIABLES
    tracker,        \* LossTracker
    tracker_seen,   \* history: numbers received while not behind the window
    tracker_gap,    \* history: a number arrived two windows or more ahead of the base
    reported        \* history: sum of the deltas taken

lossVars == <<tracker, tracker_seen, tracker_gap, reported>>

NewTracker == [base |-> 0, head |-> 0, ring |-> {}, sent |-> 0, received |-> 0, lost |-> 0,
               snap |-> [sent |-> 0, received |-> 0, lost |-> 0]]

on_send(t) == [t EXCEPT !.sent = @ + 1]

(* Faulty variant of AdvanceBy: the newest number is left outside.         *)
AdvanceByLess(offset) == IF offset - WINDOW < WINDOW THEN offset - WINDOW ELSE WINDOW

(* What the window moves by when offset lies outside of it; never more     *)
(* than its own length.                                                    *)
AdvanceBy(offset) == IF offset - WINDOW + 1 < WINDOW THEN offset - WINDOW + 1 ELSE WINDOW

(* The code clears word by word; bit by bit the result is the same.        *)
Advance(t, count) ==
    LET left == {i \in 0..(count - 1) : t.base + i < t.sent}
        at(i) == (t.head + i) % WINDOW
    IN  [t EXCEPT !.lost = @ + Cardinality({i \in left : at(i) \notin t.ring}),
                  !.ring = @ \ {at(i) : i \in 0..(count - 1)},
                  !.head = (@ + count) % WINDOW,
                  !.base = @ + count]

on_receive(t, seq) ==
    IF seq < t.base THEN t
    ELSE LET u   == IF seq - t.base >= WINDOW THEN Advance(t, AdvanceBy(seq - t.base)) ELSE t
             abs == (u.head + seq - u.base) % WINDOW
         IN  IF abs \in u.ring THEN u ELSE [u EXCEPT !.ring = @ \cup {abs}, !.received = @ + 1]

Totals(t) == [sent |-> t.sent, received |-> t.received, lost |-> t.lost]
Minus(a, b) == [k \in DOMAIN a |-> a[k] - b[k]]
Plus(a, b) == [k \in DOMAIN a |-> a[k] + b[k]]

take_deltas(t) == [deltas |-> Minus(Totals(t), t.snap), rest |-> [t EXCEPT !.snap = Totals(t)]]

-----------------------------------------------------------------------------
LossInit ==
    /\ tracker = NewTracker
    /\ tracker_seen = {}
    /\ tracker_gap = FALSE
    /\ reported = [sum |-> Totals(NewTracker), taken |-> 0]

PacketSent ==
    /\ tracker.sent < MaxPackets
    /\ tracker' = on_send(tracker)
    /\ UNCHANGED <<tracker_seen, tracker_gap, reported>>

(* An echo arrives: in any order, late, twice or never.                    *)
PacketEchoed(seq) ==
    /\ seq < tracker.sent
    /\ tracker' = on_receive(tracker, seq)
    /\ tracker_seen' = IF seq >= tracker.base THEN tracker_seen \cup {seq} ELSE tracker_seen
    /\ tracker_gap' = (tracker_gap \/ seq >= tracker.base + 2 * WINDOW)
    /\ UNCHANGED reported

take_packet_deltas ==
    /\ reported.taken < MaxDeltas
    /\ LET d == take_deltas(tracker) IN
          /\ tracker' = d.rest
          /\ reported' = [sum |-> Plus(reported.sum, d.deltas), taken |-> reported.taken + 1]
    /\ UNCHANGED <<tracker_seen, tracker_gap>>

LossNext == PacketSent \/ (\E seq \in 0..(MaxPackets - 1) : PacketEchoed(seq)) \/ take_packet_deltas

LossSpec == LossInit /\ [][LossNext]_lossVars

-----------------------------------------------------------------------------
(* Until a burst of losses longer than two windows, the ring knows exactly *)
(* what unlimited memory would: every number below the base is received or *)
(* lost, every one in the window has its own bit (on_receive, advance).    *)
(* After such a burst too, no packet is counted as received and as lost,   *)
(* and what the workers report adds up to the totals (take_deltas).        *)
LossExact ==
    /\ tracker_gap \/
         /\ tracker.received = Cardinality(tracker_seen)
         /\ tracker.lost = tracker.base - Cardinality({s \in tracker_seen : s < tracker.base})
         /\ tracker.ring = {(tracker.head + s - tracker.base) % WINDOW :
                               s \in {x \in tracker_seen : x >= tracker.base}}
    /\ tracker.received + tracker.lost <= tracker.sent
    /\ Plus(reported.sum, Minus(Totals(tracker), tracker.snap)) = Totals(tracker)
=============================================================================
