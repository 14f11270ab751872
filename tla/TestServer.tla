----------------------------- MODULE TestServer -----------------------------
(***************************************************************************)
(* The life of a TestServer (netanvil-test-servers): the builder starts    *)
(* one thread per worker and waits for each of them to bind its sockets;   *)
(* the workers count what they serve in atomic counters; a reporter thread *)
(* samples the counters while they move and prints the differences; the    *)
(* server's Drop sets the shutdown flag and joins the threads.             *)
(*                                                                         *)
(* Two counters per worker stand for the fourteen of WorkerMetrics: the    *)
(* connections accepted and the connections closed, which a snapshot loads *)
(* one after the other, in program order (as on x86; Ordering::Relaxed     *)
(* alone would allow another one).                                         *)
(***************************************************************************)
EXTENDS Naturals, FiniteSets, FiniteSetsExt

CONSTANTS NumWorkers,  \* config.num_workers
          ReportModes, \* the report modes of the configurations
          MaxAccepts,  \* bound: connections a worker accepts
          MaxReports   \* bound: intervals the reporter prints

ASSUME TestServerAssumption ==
  NumWorkers \in Nat \ {0} /\ MaxAccepts \in Nat /\ MaxReports \in Nat

VARIABLES server,   \* "building", "up", "failed", "dropping" or "down"
          mode,     \* config.report_mode
          workers,  \* the state of each worker thread
          readiness, \* messages in the ready channel
          awaited,  \* ready messages build() has received
          halt,     \* the shutdown flag
          counters, \* worker_metrics: accepted and closed per worker
          rep       \* the thread that reads the counters

serverVars == <<server, mode, workers, readiness, awaited, halt, counters, rep>>

Workers == 1 .. NumWorkers
Zeros == [w \in Workers |-> [accepted |-> 0, closed |-> 0]]

(* A reader of the counters. "next" counts the loads of the snapshot being *)
(* taken: load 2w-1 is worker w's accepted, load 2w its closed. "base" is  *)
(* the first snapshot and "printed" adds up the interval rows; "open" is a *)
(* history variable, the number of connections open on a worker when its   *)
(* accepted counter was loaded.                                            *)
Reader == [pc |-> "unborn", next |-> 1, cur |-> Zeros, prev |-> Zeros,
           base |-> Zeros, printed |-> Zeros, reports |-> 0,
           open |-> [w \in Workers |-> 0], last |-> FALSE]

TestServerInit ==
  /\ server = "building"
  /\ mode \in ReportModes
  /\ workers = [w \in Workers |-> "starting"]
  /\ readiness = 0
  /\ awaited = 0
  /\ halt = FALSE
  /\ counters = Zeros
  /\ rep = Reader

-----------------------------------------------------------------------------
(* build() *)

(* A worker binds its listeners; a bind that fails panics the thread. *)
WorkerBinds(w) ==
  /\ workers[w] = "starting"
  /\ \/ /\ workers' = [workers EXCEPT ![w] = "serving"]
        /\ readiness' = readiness + 1
     \/ /\ workers' = [workers EXCEPT ![w] = "panicked"]
        /\ UNCHANGED readiness
  /\ UNCHANGED <<server, mode, awaited, halt, counters, rep>>

AwaitAll == NumWorkers

(* One receive of the loop that waits for the workers. *)
AwaitWorker ==
  /\ server = "building" /\ awaited < AwaitAll /\ readiness > 0
  /\ readiness' = readiness - 1
  /\ awaited' = awaited + 1
  /\ UNCHANGED <<server, mode, workers, halt, counters, rep>>

(* The receive fails after 5 s, or at once when every sender is gone, and  *)
(* build() panics; nobody sets the shutdown flag of the other workers.     *)
AwaitFails ==
  /\ server = "building" /\ awaited < AwaitAll /\ readiness = 0
  /\ server' = "failed"
  /\ UNCHANGED <<mode, workers, readiness, awaited, halt, counters, rep>>

BuildReturns ==
  /\ server = "building" /\ awaited = AwaitAll
  /\ server' = "up"
  /\ rep' = [rep EXCEPT !.pc = IF mode = "None" THEN @ ELSE "baseline"]
  /\ UNCHANGED <<mode, workers, readiness, awaited, halt, counters>>

-----------------------------------------------------------------------------
(* The workers *)

AcceptsTcp(w) ==
  /\ workers[w] \in {"serving", "draining"}
  /\ counters[w].accepted < MaxAccepts
  /\ counters' = [counters EXCEPT ![w].accepted = @ + 1]
  /\ UNCHANGED <<server, mode, workers, readiness, awaited, halt, rep>>

ConnectionCloses(w) ==
  /\ workers[w] \in {"serving", "draining"}
  /\ counters[w].closed < counters[w].accepted
  /\ counters' = [counters EXCEPT ![w].closed = @ + 1]
  /\ UNCHANGED <<server, mode, workers, readiness, awaited, halt, rep>>

(* The loop that polls the flag every 100 ms sees it set. *)
WorkerSeesShutdown(w) ==
  /\ workers[w] = "serving" /\ halt
  /\ workers' = [workers EXCEPT ![w] = "draining"]
  /\ UNCHANGED <<server, mode, readiness, awaited, halt, counters, rep>>

(* The 200 ms given to the handlers are over. *)
WorkerEnds(w) ==
  /\ workers[w] = "draining"
  /\ workers' = [workers EXCEPT ![w] = "ended"]
  /\ UNCHANGED <<server, mode, readiness, awaited, halt, counters, rep>>

-----------------------------------------------------------------------------
(* The reporter *)

(* Faulty variant: closed is loaded before accepted. *)
LoadsClosedFirst(n) == n % 2 = 0

LoadsAccepted(n) == n % 2 = 1

(* One relaxed load of a snapshot. *)
snapshot ==
  LET w == (rep.next + 1) \div 2 IN
  /\ rep.next <= 2 * NumWorkers
  /\ rep' = IF LoadsAccepted(rep.next)
            THEN [rep EXCEPT !.next = @ + 1,
                    !.cur[w].accepted = counters[w].accepted,
                    !.open[w] = counters[w].accepted - counters[w].closed]
            ELSE [rep EXCEPT !.next = @ + 1,
                    !.cur[w].closed = counters[w].closed]

Taken == rep.next > 2 * NumWorkers

SaturatingSub(a, b) == IF a > b THEN a - b ELSE 0

(* The rows printed for one interval. *)
delta(cur, prev) ==
  [w \in Workers |->
     [accepted |-> SaturatingSub(cur[w].accepted, prev[w].accepted),
      closed |-> SaturatingSub(cur[w].closed, prev[w].closed)]]

Plus(a, b) == [w \in Workers |-> [accepted |-> a[w].accepted + b[w].accepted,
                                  closed |-> a[w].closed + b[w].closed]]

Asleep == [rep EXCEPT !.pc = "sleeping", !.next = 1, !.cur = Reader.cur,
                      !.open = Reader.open]

NextPrev == rep.cur

(* The baseline of run_reporter; the Prometheus thread has none. *)
Baseline ==
  /\ rep.pc = "baseline"
  /\ IF mode = "Prometheus" THEN rep' = Asleep
     ELSE \/ snapshot
          \/ Taken /\ rep' = [Asleep EXCEPT !.base = rep.cur,
                                              !.prev = rep.cur]

(* Faulty variant: the reporter reads the flag only after a report. *)
WakeFlagIgnored == FALSE

WakeFlag == halt

(* The reporter wakes up, or a scrape arrives, and a snapshot begins; a    *)
(* printing reporter that finds the flag set takes its last one.           *)
ReporterWakes ==
  /\ rep.pc = "sleeping"
  /\ \/ WakeFlag /\ mode = "Prometheus" /\ rep' = [rep EXCEPT !.pc = "ended"]
     \/ WakeFlag /\ mode # "Prometheus" /\ rep' = [rep EXCEPT !.pc = "final"]
     \/ /\ ~WakeFlag /\ rep.reports < MaxReports
        /\ rep' = [rep EXCEPT !.pc = "reading", !.reports = @ + 1]

run_reporter ==
  /\ rep.pc = "reading"
  /\ \/ snapshot
     \/ /\ Taken
        /\ rep' = IF mode = "Prometheus" THEN Asleep
                  ELSE [Asleep EXCEPT !.prev = NextPrev,
                          !.printed = Plus(rep.printed,
                                           delta(rep.cur, rep.prev))]

FinalReport ==
  /\ rep.pc = "final"
  /\ \/ snapshot
     \/ Taken /\ rep' = [rep EXCEPT !.pc = "ended", !.last = TRUE]

Reporter ==
  /\ Baseline \/ ReporterWakes \/ run_reporter \/ FinalReport
  /\ UNCHANGED <<server, mode, workers, readiness, awaited, halt, counters>>

(* The sum of a counter over the workers. *)
OverWorkers(f) == MapThenSumSet(LAMBDA w : f[w], Workers)

(* connections_active of a snapshot: from_snapshots, format_prometheus. *)
connections_active ==
  SaturatingSub(OverWorkers([w \in Workers |-> rep.cur[w].accepted]),
                OverWorkers([w \in Workers |-> rep.cur[w].closed]))

-----------------------------------------------------------------------------
(* Drop: the flag first, then the reporter, then the workers. *)
DropBegins ==
  /\ server = "up"
  /\ server' = "dropping"
  /\ halt' = TRUE
  /\ UNCHANGED <<mode, workers, readiness, awaited, counters, rep>>

DropReturns ==
  /\ server = "dropping"
  /\ rep.pc \in {"unborn", "ended"}
  /\ \A w \in Workers : workers[w] = "ended"
  /\ server' = "down"
  /\ UNCHANGED <<mode, workers, readiness, awaited, halt, counters, rep>>

TestServerNext ==
  \/ \E w \in Workers : \/ WorkerBinds(w) \/ AcceptsTcp(w) \/ ConnectionCloses(w)
                        \/ WorkerSeesShutdown(w) \/ WorkerEnds(w)
  \/ AwaitWorker \/ AwaitFails \/ BuildReturns
  \/ Reporter
  \/ DropBegins \/ DropReturns

TestServerSpec == TestServerInit /\ [][TestServerNext]_serverVars

-----------------------------------------------------------------------------
(* build() "blocks until all workers are ready": a server that was handed  *)
(* out has every worker bound, whatever order the workers came up in and   *)
(* however many of them failed.                                            *)
BuiltIsBound ==
  server \in {"up", "dropping", "down"} =>
    \A w \in Workers : workers[w] \notin {"starting", "panicked"}

(* A snapshot is not atomic, yet no report overstates the open             *)
(* connections: the gauge never exceeds the connections open on each       *)
(* worker when its accepted counter was loaded, because closed is loaded   *)
(* after accepted.                                                         *)
ActiveNotOverstated ==
  Taken => connections_active <= OverWorkers(rep.open)

(* The interval rows of the reporter leave no connection out and count     *)
(* none twice: what was printed is exactly what the last interval's        *)
(* snapshot says, less the baseline, and the final summary is no smaller.  *)
IntervalsAddUp ==
  /\ Plus(rep.base, rep.printed) = rep.prev
  /\ rep.last => \A w \in Workers :
       /\ rep.cur[w].accepted >= rep.prev[w].accepted
       /\ rep.cur[w].closed >= rep.prev[w].closed

(* A server that is dropped comes to an end: the reporter and every worker *)
(* see the flag and stop, and Drop returns.                                *)
DropCompletes == server = "dropping" ~> server = "down"

(* A server that was built is up, and its reports never show more than     *)
(* there was.                                                              *)
ReportsTrue == BuiltIsBound /\ ActiveNotOverstated /\ IntervalsAddUp

=============================================================================
