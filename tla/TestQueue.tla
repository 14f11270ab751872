----------------------------- MODULE TestQueue ------------------------------
(***************************************************************************)
(* The leader daemon (netanvil-distributed, test_queue.rs, leader_api.rs): *)
(* a queue of tests, the scheduler that runs them one at a time, and the   *)
(* API handlers.  Scheduler and handlers are tasks of one current_thread   *)
(* runtime, so a step lasts from one await to the next and a call that     *)
(* blocks stops everybody.  The distributed test is abstract: it starts,   *)
(* ticks and ends (module Leader is the detailed one).  Tests are numbered *)
(* in the order of their creation.                                         *)
(***************************************************************************)
EXTENDS ResultStore, FiniteSets

CONSTANTS
    Capacity,       \* of the hold and the update channel (4 in the code)
    Rates,          \* rates a hold may ask for
    MaxHolds,       \* bound: hold and release requests of one test
    MaxUpdates,     \* bound: controller updates
    MaxCancels,     \* bound: cancel requests of one running test
    MaxFailures,    \* bound: disk operations that fail
    MaxCrashes      \* bound: crashes of the daemon

ASSUME QueueAssumption ==
    /\ Capacity \in Nat \ {0}
    /\ Rates \subseteq Nat \ {0}
    /\ MaxHolds \in Nat /\ MaxUpdates \in Nat /\ MaxCancels \in Nat
    /\ MaxFailures \in Nat /\ MaxCrashes \in Nat

NoTest == 0
Released == 0       \* HoldState::Released, HoldCommand::Release; a rate means held at it
Updates == 1..MaxUpdates

VARIABLES
    created,        \* number of tests created
    pending,        \* QueueInner.pending
    running,        \* the test of QueueInner.running, or NoTest
    all_tests,      \* the status of every listed test, "unknown" for one not listed
    phase,          \* where the scheduler's call of run_test is
    cancel,         \* messages in the cancel channel, whose capacity is one
    hold_tx,        \* the hold channel
    hold_state,     \* HoldState of the coordinator
    updates,        \* the controller update channel
    applied,        \* controller updates that were applied
    answer,         \* what the client of each controller update was told
    blocked,        \* the only thread is blocked forever in a send
    asked,          \* history: the last hold request accepted for the running test
    holds,          \* history: hold requests for the running test
    cancels,        \* history: cancel requests for the running test
    stopping,       \* history: tests whose cancel was answered "stopping"
    failures,       \* history: disk operations that failed
    crashes         \* history: crashes

runVars == <<phase, cancel, hold_tx, hold_state, asked, holds, cancels>>
updateVars == <<updates, applied, answer>>
history == <<stopping, failures, crashes>>
vars == <<entries, index, save, doomed, created, pending, running, all_tests, phase, cancel,
          hold_tx, hold_state, updates, applied, answer, blocked, asked, holds, cancels,
          stopping, failures, crashes>>

TypeOK ==
    /\ StoreTypeOK
    /\ created \in 0..MaxTests
    /\ pending \in Seq(Tests)
    /\ running \in Tests \cup {NoTest}
    /\ all_tests \in [Tests -> Status \cup {"unknown"}]
    /\ phase \in {"none", "starting", "sleeping", "fetching", "ending"}
    /\ cancel \in 0..1
    /\ hold_tx \in Seq(Rates \cup {Released}) /\ Len(hold_tx) <= Capacity
    /\ hold_state \in Rates \cup {Released}
    /\ updates \in Seq(Updates) /\ Len(updates) <= Capacity
    /\ applied \subseteq Updates
    /\ answer \in [Updates -> {"none", "timeout", "not running"}]
    /\ blocked \in BOOLEAN
    /\ asked \in Rates \cup {Released}
    /\ holds \in Nat /\ cancels \in Nat /\ failures \in Nat /\ crashes \in Nat
    /\ stopping \subseteq Tests

(* TestQueue::new on an empty directory.                                   *)
Init ==
    /\ StoreInit
    /\ created = 0 /\ pending = <<>> /\ running = NoTest
    /\ all_tests = [t \in Tests |-> "unknown"]
    /\ phase = "none" /\ cancel = 0 /\ hold_tx = <<>> /\ hold_state = Released
    /\ updates = <<>> /\ applied = {} /\ answer = [u \in Updates |-> "none"]
    /\ blocked = FALSE
    /\ asked = Released /\ holds = 0 /\ cancels = 0
    /\ stopping = {} /\ failures = 0 /\ crashes = 0

(* The runtime's thread is free to take the next step of a task.           *)
Free == ~blocked /\ save.pc = "idle"

-----------------------------------------------------------------------------
(* API handlers.                                                           *)

(* POST /tests: enqueue_inner.                                             *)
CreateTest ==
    LET t == created + 1 IN
    /\ Free /\ created < MaxTests
    /\ created' = t
    /\ pending' = Append(pending, t)
    /\ all_tests' = [all_tests EXCEPT ![t] = "Queued"]
    /\ BeginSave(t, "Queued")
    /\ UNCHANGED <<running, runVars, updateVars, blocked, history>>

(* Faulty variant: the first test of the queue is removed.                 *)
WithoutFirst(t) == Tail(pending)

(* The first position of a test in the queue.                              *)
Position(t) == CHOOSE k \in DOMAIN pending : pending[k] = t /\ \A j \in 1..(k - 1) : pending[j] # t

Without(t) ==
    SubSeq(pending, 1, Position(t) - 1) \o SubSeq(pending, Position(t) + 1, Len(pending))

MayCancel(t) == t \in Range(pending)

(* DELETE /tests/{id} of a test that waits.                                *)
CancelPending(t) ==
    /\ Free
    /\ MayCancel(t)
    /\ pending' = Without(t)
    /\ all_tests' = [all_tests EXCEPT ![t] = "Cancelled"]
    /\ BeginSave(t, "Cancelled")
    /\ UNCHANGED <<created, running, runVars, updateVars, blocked, history>>

(* DELETE /tests/{id} of the running test.  The send blocks when a cancel  *)
(* is already in the channel, with the lock held, on the only thread that  *)
(* could receive it.                                                       *)
CancelRunning ==
    /\ Free
    /\ running # NoTest /\ cancels < MaxCancels
    /\ cancels' = cancels + 1
    /\ IF cancel = 0
       THEN cancel' = 1 /\ stopping' = stopping \cup {running} /\ UNCHANGED blocked
       ELSE blocked' = TRUE /\ UNCHANGED <<cancel, stopping>>
    /\ UNCHANGED <<storeVars, created, pending, running, all_tests, phase, hold_tx, hold_state,
                   asked, holds, updateVars, failures, crashes>>

HoldHasRoom == Len(hold_tx) < Capacity

(* PUT and DELETE /tests/{id}/hold: try_send; a full channel refuses.      *)
SendHold(c) ==
    /\ Free
    /\ running # NoTest /\ holds < MaxHolds
    /\ holds' = holds + 1
    /\ HoldHasRoom
    /\ hold_tx' = Append(hold_tx, c)
    /\ asked' = c
    /\ UNCHANGED <<storeVars, created, pending, running, all_tests, phase, cancel, hold_state,
                   cancels, updateVars, blocked, history>>

(* PUT /tests/{id}/controller: the handler waits ten seconds for a         *)
(* response that only the task it keeps from running could send.           *)
PutController(u) ==
    /\ Free
    /\ answer[u] = "none"
    /\ \A v \in Updates : v < u => answer[v] # "none"
    /\ IF running # NoTest /\ Len(updates) < Capacity
       THEN updates' = Append(updates, u) /\ answer' = [answer EXCEPT ![u] = "timeout"]
       ELSE answer' = [answer EXCEPT ![u] = "not running"] /\ UNCHANGED updates
    /\ UNCHANGED <<storeVars, created, pending, running, all_tests, runVars, applied, blocked,
                   history>>

(* The routes.  A body that is not what the handler expects, an unknown    *)
(* test and a test that does not run are answered without a change.        *)
create_test == CreateTest
cancel_test == CancelRunning \/ \E t \in Tests : CancelPending(t)
put_rate == \E r \in Rates : SendHold(r)
put_hold == \E r \in Rates : SendHold(r)
delete_hold == SendHold(Released)
put_controller == \E u \in Updates : PutController(u)

-----------------------------------------------------------------------------
(* The scheduler.                                                          *)

(* Faulty variant: the queue is served from its end.                       *)
NextTestLast == pending[Len(pending)]

NextTest == Head(pending)

(* try_dequeue, and the new coordinator.                                   *)
Dequeue ==
    /\ Free
    /\ running = NoTest /\ pending # <<>>
    /\ running' = NextTest
    /\ pending' = Without(NextTest)
    /\ all_tests' = [all_tests EXCEPT ![NextTest] = "Running"]
    /\ phase' = "starting" /\ cancel' = 0 /\ hold_tx' = <<>> /\ hold_state' = Released
    /\ asked' = Released /\ holds' = 0 /\ cancels' = 0
    /\ updates' = <<>>
    /\ UNCHANGED <<storeVars, created, applied, answer, blocked, history>>

GoTo(from, to) ==
    /\ Free
    /\ phase = from
    /\ phase' = to
    /\ UNCHANGED <<storeVars, created, pending, running, all_tests, hold_tx, hold_state, asked,
                   holds, cancels, updateVars, blocked, history>>

(* The agents are started, and the tick loop begins.                       *)
Start == GoTo("starting", "sleeping") /\ UNCHANGED cancel

(* Faulty variant: the first of the waiting commands wins.                 *)
LastCommandFirst == Head(hold_tx)

LastCommand == hold_tx[Len(hold_tx)]

(* process_commands, at the beginning of a tick.                           *)
ProcessCommands ==
    /\ Free
    /\ phase = "sleeping"
    /\ phase' = "fetching"
    /\ hold_state' = IF hold_tx = <<>> THEN hold_state ELSE LastCommand
    /\ hold_tx' = <<>>
    /\ applied' = applied \cup Range(updates)
    /\ updates' = <<>>
    /\ UNCHANGED <<storeVars, created, pending, running, all_tests, cancel, asked, holds, cancels,
                   answer, blocked, history>>

(* The end of a tick: the test goes on, its time is over, or it is         *)
(* cancelled.                                                              *)
TickOver == GoTo("fetching", "ending") /\ UNCHANGED cancel
TickCancelled == cancel = 1 /\ GoTo("fetching", "ending") /\ cancel' = 0
TickContinue == cancel = 0 /\ GoTo("fetching", "sleeping") /\ UNCHANGED cancel

(* discover() finds no node that has not failed.                           *)
AllNodesFailed == GoTo("sleeping", "ending") /\ UNCHANGED cancel

ClearRunning(status) == running' = NoTest

(* mark_completed; with the coordinator its channels are dropped.          *)
MarkCompleted(status) ==
    /\ Free
    /\ ClearRunning(status)
    /\ all_tests' = [all_tests EXCEPT ![running] = status]
    /\ BeginSave(running, status)
    /\ phase' = "none" /\ cancel' = 0 /\ hold_tx' = <<>> /\ hold_state' = Released
    /\ updates' = <<>>
    /\ UNCHANGED <<created, pending, asked, holds, cancels, applied, answer, blocked, history>>

(* The final metrics are fetched and the agents stopped.                   *)
Finish == phase = "ending" /\ MarkCompleted("Completed")

(* run() returns at once: there is no node, or none could be started.      *)
NoNodes == phase = "starting" /\ MarkCompleted("Completed")

(* run_test returns an error: the mTLS clients cannot be set up.           *)
SetupFailed == phase = "starting" /\ MarkCompleted("Failed")

-----------------------------------------------------------------------------
queueVars == <<created, pending, running, all_tests, runVars, updateVars, blocked>>

(* A disk operation of the save() that the current step executes.          *)
Disk == ~blocked /\ StoreStep /\ UNCHANGED <<queueVars, history>>

DiskFails ==
    /\ ~blocked /\ failures < MaxFailures
    /\ StoreFailure
    /\ failures' = failures + 1
    /\ UNCHANGED <<queueVars, stopping, crashes>>

(* The daemon stops at any point, and TestQueue::new loads the index.      *)
Restart ==
    /\ crashes < MaxCrashes
    /\ crashes' = crashes + 1
    /\ StoreCrash
    /\ pending' = <<>> /\ running' = NoTest /\ blocked' = FALSE
    /\ all_tests' = [t \in Tests |->
                        IF \E k \in DOMAIN index : index[k].id = t
                        THEN (CHOOSE i \in Range(index) : i.id = t).status
                        ELSE "unknown"]
    /\ phase' = "none" /\ cancel' = 0 /\ hold_tx' = <<>> /\ hold_state' = Released
    /\ asked' = Released /\ holds' = 0 /\ cancels' = 0 /\ updates' = <<>>
    /\ UNCHANGED <<created, applied, answer, stopping, failures>>

Api ==
    \/ create_test \/ cancel_test \/ put_rate \/ put_hold \/ delete_hold \/ put_controller

Scheduler ==
    \/ Dequeue \/ Start \/ ProcessCommands \/ TickOver \/ TickCancelled \/ TickContinue
    \/ AllNodesFailed \/ Finish \/ NoNodes \/ SetupFailed

Next == Api \/ Scheduler \/ Disk \/ DiskFails \/ Restart

Spec == Init /\ [][Next]_vars

(* The scheduler's task is polled, a disk operation ends, and the duration *)
(* of a test is finite.  No client is assumed to do anything.              *)
Fairness == WF_vars(Scheduler) /\ WF_vars(Disk) /\ SF_vars(TickOver)

FairSpec == Spec /\ Fairness

-----------------------------------------------------------------------------
(* What is listed agrees with the queue: every waiting test is listed as   *)
(* queued and waits once, and exactly the test of the scheduler as running *)
(* (QueueInner.all_tests against pending and running).  Until a restart,   *)
(* conversely, what is listed as queued waits: it will run, or cancel()    *)
(* finds it.                                                               *)
ListAgrees ==
    /\ \A k, l \in DOMAIN pending : pending[k] = pending[l] => k = l
    /\ \A t \in Range(pending) : all_tests[t] = "Queued"
    /\ crashes = 0 => \A t \in Tests : all_tests[t] = "Queued" => t \in Range(pending)
    /\ \A t \in Tests : all_tests[t] = "Running" <=> running = t
    /\ running = NoTest <=> phase = "none"

(* The list, the queue and the scheduler agree between any two steps.      *)
QueueInv == TypeOK /\ ListAgrees

(* Once the commands are processed, the coordinator holds what the last    *)
(* accepted request for this very test asked for (send_hold, send_release, *)
(* process_commands).                                                      *)
HoldFollowsLast == running # NoTest /\ hold_tx = <<>> => hold_state = asked

(* Between two saves, without crash or disk failure, the index lists the   *)
(* files, once each and with their status; they say what is listed, except *)
(* that a running test is on disk as queued and old results were pruned;   *)
(* and no more than max_results finished tests are kept (save, prune).     *)
StoreAgrees ==
    save.pc = "idle" /\ crashes = 0 /\ failures = 0 =>
        /\ Len(index) = Cardinality(Range(index))
        /\ Range(index) = {[id |-> t, status |-> entries[t]] : t \in {u \in Tests : entries[u] # "absent"}}
        /\ \A t \in Tests :
            /\ all_tests[t] = "unknown" => entries[t] = "absent"
            /\ all_tests[t] \in {"Queued", "Running"} => entries[t] = "Queued"
            /\ all_tests[t] \in Terminal => entries[t] \in {all_tests[t], "absent"}
        /\ Cardinality({t \in Tests : entries[t] \in Terminal}) <= max_results

(* A file that is removed is that of a finished test, and the files of at  *)
(* least max_results other finished tests remain, whatever crashed or      *)
(* failed before (prune).                                                  *)
PruneKeepsEnough ==
    [][\A t \in Tests : entries[t] # "absent" /\ entries'[t] = "absent" =>
        /\ entries[t] \in Terminal
        /\ Cardinality({u \in Tests : entries'[u] \in Terminal}) >= max_results]_vars

(* The queue, with its channels, its store and its crashes, keeps the      *)
(* promise of TestLife (enqueue, try_dequeue, cancel, mark_completed): the *)
(* list only ever shows a test accepted, run in its turn and alone,        *)
(* withdrawn or ended, an ended test stays as it ended while the daemon    *)
(* runs, and a restart brings back nothing that was not shown before.      *)
Life == INSTANCE TestLife WITH status <- all_tests, waiting <- Range(pending)
KeepsPromise == Life!LifeSpec

(* Every test that is created ends.  The tests are finitely many, so at    *)
(* some time none waits or runs.                                           *)
TestsEnd == <>[](\A t \in Tests : all_tests[t] \notin {"Queued", "Running"})

(* "Test is running; stop signal sent (will complete shortly)."            *)
(* (CancelResult::Stopping): a test whose cancel was answered so ends.     *)
CancelStops == \A t \in Tests : t \in stopping ~> all_tests[t] \in Terminal

-----------------------------------------------------------------------------
(* What a comment of the repository says and the code does not keep.       *)

(* "Send a controller parameter update and wait for the response": an      *)
(* update that is applied was not reported as timed out.                   *)
AppliedWasAnswered == \A u \in applied : answer[u] # "timeout"

=============================================================================
