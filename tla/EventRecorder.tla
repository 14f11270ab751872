---------------------------- MODULE EventRecorder ----------------------------
(***************************************************************************)
(* The per-request event log of a worker (netanvil-events): results are    *)
(* appended to column builders as the requests complete, a full or flushed *)
(* set of builders becomes one batch of the worker's Arrow file, and the   *)
(* recorder's Drop, which runs after the last task that holds it, writes   *)
(* the rest.                                                               *)
(*                                                                         *)
(* Times are in ticks of half a microsecond, so that the truncation to     *)
(* microseconds of to_epoch_us is visible.                                 *)
(***************************************************************************)
EXTENDS Integers, Sequences, Functions, Filter

CONSTANTS EventSchemas, \* the schemas of the configurations
          EventTimes,   \* <<intended, sent, actual, dispatch>> of a request
          IdSpan,       \* 1_000_000_000: the request ids of one core
          EventCore,    \* the worker's core_id
          MaxEvents     \* bound: requests that complete

U16 == 65536 \* the values of a u16 column

(* The choices of an EventSchema.                                          *)
EventSchema ==
  [co : BOOLEAN, timing : BOOLEAN, bytes : BOOLEAN, errors : BOOLEAN,
   header : BOOLEAN, constant : BOOLEAN, sampling : BOOLEAN,
   threshold : Nat, batch_size : Nat]

(* A request is due, then sent by the timer, which sleeps until it is due, *)
(* then taken by the worker and dispatched, by one monotonic clock.        *)
Ascending(t) ==
  t \in [1 .. 4 -> Nat] /\ t[1] <= t[2] /\ t[2] <= t[3] /\ t[3] <= t[4]

ASSUME EventAssumption ==
  /\ IdSpan \in Nat \ {0} /\ EventCore \in Nat /\ EventCore < U16
  /\ EventSchemas \subseteq EventSchema
  /\ \A t \in EventTimes : Ascending(t)

VARIABLES schema,  \* the schema of the recorder
          recording, \* requests handed to a task, not completed
          issues,  \* request_seq of the worker
          rec,     \* the recorder
          kept     \* history: the ids of the rows sampled, in order

eventVars == <<schema, recording, issues, rec, kept>>

Anchor == [epoch |-> 100, instant |-> 4]

(* Instants are mapped to epoch microseconds through one anchor. *)
to_epoch_us(t) ==
  IF t >= Anchor.instant THEN Anchor.epoch + (t - Anchor.instant) \div 2
  ELSE Anchor.epoch - (Anchor.instant - t) \div 2

Saturating(a, b) == IF a > b THEN a - b ELSE 0

Only(flag, fields) == IF flag THEN fields ELSE << >>

Common == <<<<"request_id", "u64">>, <<"core_id", "u16">>,
            <<"timestamp_us", "u64">>, <<"status", "u16">>,
            <<"protocol", "utf8">>>>
CoFields == <<<<"intended_us", "u64">>, <<"timer_lag_us", "u64">>,
              <<"channel_transit_us", "u64">>, <<"dispatch_gap_us", "u64">>>>
TimingFields == <<<<"dns_us", "u64">>, <<"tcp_us", "u64">>,
                  <<"tls_us", "u64">>, <<"ttfb_us", "u64">>,
                  <<"transfer_us", "u64">>, <<"total_us", "u64">>>>
BytesFields == <<<<"bytes_sent", "u64">>, <<"response_size", "u64">>>>
ErrorFields == <<<<"is_error", "bool">>, <<"error_kind", "utf8">>>>
HeaderField == <<"header", "utf8">>
ConstantField == <<"constant", "u64">>

(* The fields of the Arrow schema, in the order of build_arrow_schema. *)
build_arrow_schema(s) ==
  Common \o Only(s.co, CoFields) \o Only(s.timing, TimingFields)
         \o Only(s.bytes, BytesFields) \o Only(s.errors, ErrorFields)
         \o Only(s.header, <<HeaderField>>)
         \o Only(s.constant, <<ConstantField>>)

(* The builders in the order flush_batch finishes them. *)
FinishOrder(s) ==
  Common \o Only(s.co, CoFields) \o Only(s.timing, TimingFields)
         \o Only(s.bytes, BytesFields) \o Only(s.errors, ErrorFields)
         \o Only(s.header, <<HeaderField>>)
         \o Only(s.constant, <<ConstantField>>)

Empty(s) == [f \in Range(FinishOrder(s)) |-> << >>]

(* "builders" holds the values appended to each column and "file" the rows *)
(* written; "lost" is a history variable, the rows of batches the writer   *)
(* refused.                                                                *)
EventInit ==
  /\ schema \in EventSchemas
  /\ recording = {} /\ issues = 0 /\ kept = << >>
  /\ rec = [state |-> "open", builders |-> Empty(schema), buffered |-> 0,
            file |-> << >>, lost |-> {}]

-----------------------------------------------------------------------------
core_of(id) == (id \div IdSpan) % U16

Gap(e) == Saturating(to_epoch_us(e.times[4]), to_epoch_us(e.times[3]))

is_error(e) == e.error \/ (schema.threshold > 0 /\ e.status >= schema.threshold)

(* What record appends to a column; the columns whose value is copied from *)
(* the result, or constant, are told apart by nothing here.                *)
Value(name, e) ==
  CASE name = "request_id" -> e.id
    [] name = "core_id" -> core_of(e.id)
    [] name = "timestamp_us" -> to_epoch_us(e.times[3])
    [] name = "intended_us" -> to_epoch_us(e.times[1])
    [] name = "timer_lag_us" -> Saturating(to_epoch_us(e.times[2]),
                                           to_epoch_us(e.times[1]))
    [] name = "channel_transit_us" -> Saturating(to_epoch_us(e.times[3]),
                                                 to_epoch_us(e.times[2]))
    [] name = "dispatch_gap_us" -> Gap(e)
    [] name = "is_error" -> is_error(e)
    [] OTHER -> e.status

(* Faulty variant: a response without the header appends nothing. *)
HeaderCellSkipped(e) == IF e.header THEN <<"value">> ELSE << >>

HeaderCell(e) == IF e.header THEN <<"value">> ELSE <<"null">>

Appended(b, e) ==
  [f \in DOMAIN b |-> b[f] \o IF f = HeaderField THEN HeaderCell(e)
                              ELSE <<Value(f[1], e)>>]

(* RecordBatch::try_new: the columns are the schema's, all of one length. *)
BatchFits(b) ==
  /\ FinishOrder(schema) = build_arrow_schema(schema)
  /\ \A f, g \in DOMAIN b : Len(b[f]) = Len(b[g])

Row(b, i) == [f \in DOMAIN b |-> b[f][i]]
RowId(row) == row[<<"request_id", "u64">>]

(* The outcomes of flush_batch: a batch the writer refuses is reported and *)
(* forgotten, and one that does not fit the schema panics.                 *)
flush_batch(r) ==
  LET rows == [i \in 1 .. r.buffered |-> Row(r.builders, i)]
      done == [r EXCEPT !.builders = Empty(schema), !.buffered = 0]
  IN IF r.buffered = 0 THEN {r}
     ELSE IF ~BatchFits(r.builders) THEN {[done EXCEPT !.state = "panicked"]}
     ELSE {[done EXCEPT !.file = @ \o rows],
           [done EXCEPT !.lost = @ \cup {RowId(row) : row \in Range(rows)}]}

(* The worker gives the next request to a task: handle_message. *)
Issue ==
  /\ rec.state = "open" /\ issues < MaxEvents
  /\ \E t \in EventTimes, st \in {200, 500}, h \in BOOLEAN :
       recording' = recording \cup {[id |-> EventCore * IdSpan + issues, times |-> t,
                             status |-> st, error |-> FALSE, header |-> h]}
  /\ issues' = issues + 1
  /\ UNCHANGED <<schema, rec, kept>>

(* A task whose request completed records it, unless it is sampled out. *)
record(e) ==
  /\ rec.state = "open"
  /\ recording' = recording \ {e}
  /\ \/ schema.sampling /\ UNCHANGED <<rec, kept>>
     \/ LET r == [rec EXCEPT !.builders = Appended(@, e), !.buffered = @ + 1] IN
        /\ kept' = Append(kept, e.id)
        /\ rec' \in IF r.buffered >= schema.batch_size THEN flush_batch(r)
                    ELSE {r}
  /\ UNCHANGED <<schema, issues>>

(* The worker flushes with each metrics report and when it stops. *)
flush ==
  /\ rec.state = "open" /\ rec.buffered > 0
  /\ rec' \in flush_batch(rec)
  /\ UNCHANGED <<schema, recording, issues, kept>>

DropFlush == flush_batch(rec)

(* The runtime is torn down: the tasks that have not completed are dropped *)
(* without a record, then the recorder is.                                 *)
RecorderDrops ==
  /\ rec.state = "open"
  /\ recording' = {}
  /\ rec' \in {[r EXCEPT !.state = IF @ = "open" THEN "closed" ELSE @] :
                r \in DropFlush}
  /\ UNCHANGED <<schema, issues, kept>>

EventNext ==
  \/ Issue
  \/ \E e \in recording : record(e)
  \/ flush
  \/ RecorderDrops

EventSpec == EventInit /\ [][EventNext]_eventVars

-----------------------------------------------------------------------------
(* No batch has a column too few, too many, out of order or of another     *)
(* length, whatever columns the schema has and whatever headers responses  *)
(* lack: the expect of flush_batch never fires.                            *)
BatchesFit == rec.state # "panicked"

(* Every sampled request is one row, in the order of completion: rows are  *)
(* missing only when the writer refused their batch, and none is left      *)
(* behind in the builders when the recorder is gone.                       *)
RowsOnce ==
  /\ [i \in 1 .. Len(rec.file) |-> RowId(rec.file[i])]
       \o rec.builders[<<"request_id", "u64">>]
       = Filtered(kept, {i \in DOMAIN kept : kept[i] \notin rec.lost})
  /\ rec.state = "closed" => rec.buffered = 0

(* The coordinated-omission columns account for the whole delay between    *)
(* the intended and the real dispatch of a request: the three lags add up, *)
(* although each is truncated to microseconds.                             *)
LagsAddUp ==
  schema.co =>
    \A row \in Range(rec.file) :
      \E t \in EventTimes :
        /\ to_epoch_us(t[1]) = row[<<"intended_us", "u64">>]
        /\ row[<<"intended_us", "u64">>] + row[<<"timer_lag_us", "u64">>]
            + row[<<"channel_transit_us", "u64">>]
            + row[<<"dispatch_gap_us", "u64">>] = to_epoch_us(t[4])

(* A row names the core its request ran on, up to the last id of the core. *)
RowsNameCore ==
  \A row \in Range(rec.file) :
    RowId(row) - EventCore * IdSpan < IdSpan =>
      row[<<"core_id", "u16">>] = EventCore

(* The file has every row that was not lost to the writer, once, complete  *)
(* and with true columns (record, flush_batch, drop).                      *)
RecorderInv == BatchesFit /\ RowsOnce /\ LagsAddUp /\ RowsNameCore

=============================================================================
