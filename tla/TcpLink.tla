------------------------------ MODULE TcpLink -------------------------------
(***************************************************************************)
(* What a TCP test and the repository's TCP test server share: the         *)
(* connections between them, and what is configured.  TcpExecutor is the   *)
(* client, TcpServer the server; Tcp composes them.  Data is counted in    *)
(* units: a unit is a byte, or a part of the protocol header, and two      *)
(* payloads are told apart by their lengths and by where they start only.  *)
(***************************************************************************)
EXTENDS Integers, Sequences, FiniteSets

CONSTANTS
    Tasks,          \* requests that can be in flight at a time
    ConnIds,        \* connections that can exist at a time
    TcpConfigs,     \* tests and servers, see Configuration
    MaxRequests,    \* bound: requests of one test
    Window          \* bound: units that a socket buffers for its reader

HeaderUnits == 2    \* the sentinel and the length; the fields that follow

(* A test and its server: sizes is the set of request and response sizes   *)
(* that the generator samples from, limits that of connection lifetimes    *)
(* (empty when the policy has none), errors whether error_rate is set.     *)
Configuration ==
    [mode : {"Echo", "RR", "CRR", "Sink", "Source", "Bidir"},
     sizes : SUBSET [request : 0..Window, response : 0..Window], payload : 0..Window,
     framing : {"Raw", "Delimiter", "LengthPrefixed", "FixedSize"}, frame : 0..Window,
     expect_response : BOOLEAN, response_max_bytes : 0..Window, max_connections : Nat,
     policy : {"KeepAlive", "AlwaysNew", "NoReuse", "Mixed"}, limits : SUBSET Nat,
     errors : BOOLEAN, server_max : Nat]

VARIABLES
    tcp,            \* the configuration
    conns,          \* ConnIds -> the two ends of a connection and what is in between
    handlers,       \* active_connections of the accept loop
    server          \* "up", "stopping" once shutdown is set, "down" when the thread is gone

linkVars == <<tcp, conns, handlers, server>>

(* held: the client owns the stream; reader: the background reader of the  *)
(* Bidir mode has a clone of it.  header and up are on their way to the    *)
(* server, down to the client.  stage is where the server's handler is,    *)
(* left its leftover, mode and size what the header says; answered counts  *)
(* the transactions that the server completed.                             *)
NoConn == [stage |-> "none", held |-> FALSE, reader |-> FALSE, header_sent |-> FALSE,
           request_count |-> 0, header |-> 0, up |-> 0, down |-> 0,
           mode |-> "none", size |-> [request |-> 0, response |-> 0], left |-> 0, answered |-> 0]

ClientOpen(k) == k.held \/ k.reader
Handled(k) == k.stage \notin {"none", "backlog", "closed"}

(* A connection is forgotten when both of its ends are closed.             *)
Settle(k) == IF ~ClientOpen(k) /\ k.stage = "closed" THEN NoConn ELSE k

Incoming(k) == k.header + k.up
ServerEof(k) == ~ClientOpen(k) /\ Incoming(k) = 0
ClientEof(k) == k.stage = "closed" /\ k.down = 0
=============================================================================
