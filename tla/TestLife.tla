------------------------------ MODULE TestLife ------------------------------
(***************************************************************************)
(* What the leader daemon promises its clients about tests: a test that is *)
(* accepted waits until it is its turn or it is cancelled, one test runs   *)
(* at a time, in the order in which they were accepted, and a test that    *)
(* has ended stays so.  A restart of the daemon forgets what waits and     *)
(* what runs; the list it comes back with is an older one.                 *)
(***************************************************************************)
EXTENDS Naturals, FiniteSets

CONSTANTS Tests

VARIABLES
    status,         \* what GET /tests says of every test
    waiting         \* the tests that will be run

lifeVars == <<status, waiting>>

Ended == {"Completed", "Failed", "Cancelled"}

LifeInit == status = [t \in Tests |-> "unknown"] /\ waiting = {}

Accept(t) ==
    /\ status[t] = "unknown" /\ \A u \in waiting : u < t
    /\ status' = [status EXCEPT ![t] = "Queued"]
    /\ waiting' = waiting \cup {t}

Run(t) ==
    /\ t \in waiting /\ \A u \in waiting : t <= u
    /\ \A u \in Tests : status[u] # "Running"
    /\ status' = [status EXCEPT ![t] = "Running"]
    /\ waiting' = waiting \ {t}

Withdraw(t) ==
    /\ t \in waiting
    /\ status' = [status EXCEPT ![t] = "Cancelled"]
    /\ waiting' = waiting \ {t}

End(t) ==
    /\ status[t] = "Running"
    /\ \E s \in {"Completed", "Failed"} : status' = [status EXCEPT ![t] = s]
    /\ UNCHANGED waiting

(* What a test was, what it was when it was accepted, or nothing.          *)
Forget ==
    /\ status' \in [Tests -> Ended \cup {"unknown", "Queued"}]
    /\ \A t \in Tests :
          \/ status'[t] \in {status[t], "unknown"}
          \/ status'[t] = "Queued" /\ status[t] # "unknown"
    /\ waiting' = {}

LifeNext == Forget \/ \E t \in Tests : Accept(t) \/ Run(t) \/ Withdraw(t) \/ End(t)

LifeSpec == LifeInit /\ [][LifeNext]_lifeVars

=============================================================================
