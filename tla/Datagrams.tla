------------------------------ MODULE Datagrams -----------------------------
(***************************************************************************)
(* The network between the UDP and DNS executors and the repository's UDP  *)
(* and DNS test servers.  A datagram is named by the request that it is    *)
(* about (its sequence number or its transaction).  It may be duplicated,  *)
(* delayed and overtaken, and it is lost if it is never delivered.         *)
(***************************************************************************)
EXTENDS Integers, FiniteSets

CONSTANTS
    DgTasks,        \* requests that can be in flight at a time
    Ports,          \* client sockets of a test (a port is not reused)
    DgConfigs,      \* tests and servers, see DgConfiguration
    MaxSends,       \* bound: requests of a test
    MaxCopies       \* bound: duplicated datagrams

(* mode is what the first bytes of a datagram say: the repository's client *)
(* sends no header ("Echo"), other clients of the test server may.  sends  *)
(* bounds the requests.                                                    *)
DgConfiguration ==
    [client : {"udp", "dns", "other"}, mode : {"Echo", "RR", "Sink", "Source", "Bidir", "Dns"},
     targets : SUBSET Nat, expect_response : BOOLEAN, connected : BOOLEAN, drops : BOOLEAN, sends : 0..MaxSends]

(* A test has a target; the executors send what they send to the server    *)
(* that is meant for it.                                                   *)
ASSUME DatagramAssumption ==
    /\ Ports \subseteq Nat \ {0}
    /\ DgConfigs \subseteq DgConfiguration
    /\ \A c \in DgConfigs :
          /\ Cardinality(c.targets) \in Nat \ {0}
          /\ c.client = "udp" => c.mode = "Echo"
          /\ c.client = "dns" => c.mode = "Dns"

VARIABLES
    dg,             \* the configuration
    up, down,       \* datagrams on their way to the server, to the client
    copies,         \* duplicates made so far
    dg_server,      \* "up", "stopping" once shutdown is set, "down"
    gone            \* ports that other clients have closed

netVars == <<dg, up, down, copies, dg_server, gone>>

NetInit ==
    /\ dg \in DgConfigs
    /\ up = {} /\ down = {}
    /\ copies = 0
    /\ dg_server = "up"
    /\ gone = {}

Duplicate ==
    /\ copies < MaxCopies
    /\ copies' = copies + 1
    /\ \/ \E m \in up : up' = up \cup {[m EXCEPT !.copy = 1]} /\ UNCHANGED down
       \/ \E m \in down : down' = down \cup {[m EXCEPT !.copy = 1]} /\ UNCHANGED up
    /\ UNCHANGED <<dg, dg_server, gone>>

=============================================================================
