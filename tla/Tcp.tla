-------------------------------- MODULE Tcp ---------------------------------
(***************************************************************************)
(* A TCP test against the repository's own TCP test server: the executor   *)
(* of one I/O worker and the server, over connections that deliver in      *)
(* order but in any pieces.  The server may be stopped at any time.        *)
(***************************************************************************)
EXTENDS TcpExecutor, TcpServer

ASSUME TcpAssumption ==
    /\ TcpConfigs \subseteq Configuration
    /\ MaxRequests \in Nat /\ Window \in Nat
    /\ ConnIds \subseteq Nat \ {0} /\ IsFiniteSet(ConnIds)

vars == <<linkVars, clientVars>>

Init ==
    /\ tcp \in TcpConfigs
    /\ ServerInit
    /\ ClientInit

Next == ClientNext \/ (ServerNext /\ UNCHANGED clientVars)

TcpSpec == Init /\ [][Next]_vars

-----------------------------------------------------------------------------
Holding == {t \in Tasks : tasks[t].conn # 0}
Connecting == {t \in Tasks : tasks[t].pc = "connecting"}
Held == {c \in ConnIds : conns[c].held}

TypeOK ==
    /\ tcp \in TcpConfigs
    /\ idle \in Seq(ConnIds) /\ active \in Nat
    /\ handlers \in 0..Cardinality(ConnIds) /\ server \in {"up", "stopping", "down"}
    /\ \A t \in Tasks : tasks[t].pc \in {"free", "connecting", "header", "write", "read"}
    /\ \A c \in ConnIds : conns[c].down \in 0..Window /\ conns[c].header \in 0..HeaderUnits
    /\ results \in [Outcomes -> 0..MaxRequests]

(* Every stream that the client owns is owned once: by the request that    *)
(* checked it out or by the pool (take_idle, return_idle).                 *)
OwnedOnce ==
    /\ IsInjective(idle)
    /\ \A t \in Holding : tasks[t].conn \notin Range(idle)
    /\ \A s, t \in Holding : tasks[s].conn = tasks[t].conn => s = t
    /\ Held = Range(idle) \cup {tasks[t].conn : t \in Holding}

(* max_connections bounds what the worker really has open or is opening,   *)
(* because record_opened comes before the connect is awaited.              *)
SocketsWithinLimit ==
    tcp.max_connections > 0 => Cardinality(Held) + Cardinality(Connecting) <= tcp.max_connections

(* With one size for all requests, a connection that goes back to the pool *)
(* is in step with the server: all replies read, none outstanding.  A      *)
(* connection that is not (a timeout, an error) must never be reused.      *)
Transactional == tcp.mode = "RR" /\ \E s \in tcp.sizes : tcp.sizes = {s} /\ s.request > 0 /\ s.response > 0
IdleInStep ==
    Transactional =>
        \A c \in Range(idle) : /\ conns[c].down = 0 /\ Incoming(conns[c]) = 0
                               /\ conns[c].answered = conns[c].request_count

(* A connection carries at most one request more than its lifetime allows  *)
(* (tick comes after the request), when the pool has room for one only.    *)
LifetimeBounded ==
    tcp.policy = "Mixed" /\ tcp.max_connections = 1 /\ tcp.limits # {} =>
        \A c \in ConnIds : \E n \in tcp.limits : conns[c].request_count <= n + 1

(* The accept loop's counter is the number of live handlers, and they stay *)
(* within the server's max_connections.                                    *)
HandlersCounted ==
    /\ handlers = Cardinality({c \in ConnIds : Handled(conns[c])})
    /\ tcp.server_max > 0 => handlers <= tcp.server_max

(* A connection has one owner, counts against the limits while it has, and *)
(* is handed on only in step with its server (do_execute, ConnectionPool). *)
TcpInv ==
    TypeOK /\ OwnedOnce /\ SocketsWithinLimit /\ IdleInStep /\ LifetimeBounded /\ HandlersCounted

=============================================================================
