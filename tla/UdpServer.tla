------------------------------ MODULE UdpServer -----------------------------
(***************************************************************************)
(* The UDP and DNS test servers (netanvil-test-servers): a listener, and,  *)
(* when an idle timeout is configured, a connected socket and a handler    *)
(* for every peer.  All of it runs on one thread, interleaved at awaits.   *)
(* An injected latency and the pacing add to the delay of the network.     *)
(***************************************************************************)
EXTENDS Datagrams

VARIABLES
    queue,          \* datagrams that have reached the listener's socket
    active_clients, \* the listener's set of known peers
    sessions        \* Ports -> handler of the connected socket

dgServerVars == <<queue, active_clients, sessions>>

(* sink: the task that receives is running; source: the one that sends     *)
(* unasked; stop: the Cell that the two tasks of a Bidir session share.    *)
NoSession == [mode |-> "none", sink |-> FALSE, source |-> FALSE, stop |-> FALSE, queue |-> {}]
Live(p) == sessions[p].mode # "none"

DgServerInit ==
    /\ queue = {}
    /\ active_clients = {}
    /\ sessions = [p \in Ports |-> NoSession]

(* The kernel gives a datagram to the connected socket of its sender, or   *)
(* to the listener's.                                                      *)
Arrive ==
    /\ dg_server # "down"
    /\ \E m \in up :
          /\ up' = up \ {m}
          /\ IF Live(m.port)
             THEN sessions' = [sessions EXCEPT ![m.port].queue = @ \cup {m}] /\ UNCHANGED queue
             ELSE queue' = queue \cup {m} /\ UNCHANGED sessions
    /\ UNCHANGED <<dg, down, copies, dg_server, gone, active_clients>>

Answer(m) == down' = IF m.port \in gone THEN down ELSE down \cup {m}
Ignore(m) == UNCHANGED down

-----------------------------------------------------------------------------
(* The listener without an idle timeout.  The drop rate comes before the   *)
(* mode; Source and Bidir need a connected socket.                         *)
udp_echo_loop_unconnected(m) ==
    /\ dg.mode # "Dns"
    /\ \/ dg.drops /\ Ignore(m)
       \/ dg.mode \in {"Echo", "RR"} /\ Answer(m)
       \/ dg.mode \in {"Sink", "Source", "Bidir"} /\ Ignore(m)

dns_echo_loop_unconnected(m) == dg.mode = "Dns" /\ Answer(m)

(* The socket for a new peer may fail to be made: then its next datagram   *)
(* comes to the listener again.                                            *)
Opened(mode) == [NoSession EXCEPT !.mode = mode, !.sink = mode # "Source", !.source = mode \in {"Source", "Bidir"}]

ConnectClient(m) ==
    \/ UNCHANGED <<active_clients, sessions>>
    \/ /\ active_clients' = active_clients \cup {m.port}
       /\ sessions' = [sessions EXCEPT ![m.port] = Opened(dg.mode)]

(* The listener with one: a datagram of a known peer, which was in the     *)
(* queue before the peer's socket existed, is echoed whatever the mode.    *)
udp_echo_loop_connected(m) ==
    /\ dg.mode # "Dns"
    /\ IF m.port \in active_clients
       THEN Answer(m) /\ UNCHANGED <<active_clients, sessions>>
       ELSE /\ IF dg.mode \in {"Echo", "RR"} THEN Answer(m) ELSE Ignore(m)
            /\ ConnectClient(m)

dns_echo_loop_connected(m) ==
    /\ dg.mode = "Dns"
    /\ Answer(m)
    /\ IF m.port \in active_clients THEN UNCHANGED <<active_clients, sessions>> ELSE ConnectClient(m)

Listen ==
    /\ dg_server = "up"
    /\ \E m \in queue :
          /\ queue' = queue \ {m}
          /\ IF dg.connected
             THEN udp_echo_loop_connected(m) \/ dns_echo_loop_connected(m)
             ELSE /\ udp_echo_loop_unconnected(m) \/ dns_echo_loop_unconnected(m)
                  /\ UNCHANGED <<active_clients, sessions>>
    /\ UNCHANGED <<dg, up, copies, dg_server, gone>>

-----------------------------------------------------------------------------
(* The handlers.  Taken: one datagram less in the handler's socket.        *)
Taken(p, m) ==
    /\ dg_server = "up" /\ ~sessions[p].stop
    /\ sessions' = [sessions EXCEPT ![p].queue = @ \ {m}]
    /\ UNCHANGED active_clients
Replies(p) == \E m \in sessions[p].queue : Taken(p, m) /\ Answer(m)
Ignores(p) == \E m \in sessions[p].queue : Taken(p, m) /\ Ignore(m)

Forget(p) == active_clients' = active_clients \ {p}

(* The task of the handler returns.                                        *)
Returns(p) == sessions' = [sessions EXCEPT ![p] = NoSession] /\ Forget(p) /\ UNCHANGED down

(* Nothing has come for the idle timeout, or the server shuts down.        *)
Idle(p) == sessions[p].queue = {} \/ dg_server # "up"
IdleReturns(p) == Idle(p) /\ Returns(p)

handle_udp_echo(p) == sessions[p].mode = "Echo" /\ (Replies(p) \/ (dg.drops /\ Ignores(p)) \/ IdleReturns(p))
handle_udp_rr(p) == sessions[p].mode = "RR" /\ (Replies(p) \/ (dg.drops /\ Ignores(p)) \/ IdleReturns(p))
handle_udp_sink(p) == sessions[p].mode = "Sink" /\ (Ignores(p) \/ IdleReturns(p))
handle_connected_dns_client(p) == sessions[p].mode = "Dns" /\ (Replies(p) \/ IdleReturns(p))

Sends(p) ==
    /\ dg_server = "up" /\ ~sessions[p].stop /\ p \notin gone
    /\ down' = down \cup {[port |-> p, seq |-> 0, copy |-> 0]}
    /\ UNCHANGED <<active_clients, sessions>>

(* The idle timeout is ignored: the end is the peer's or the server's.     *)
handle_udp_source(p) ==
    sessions[p].mode = "Source" /\ (Sends(p) \/ ((dg_server # "up" \/ p \in gone) /\ Returns(p)))

SinkEnds(p) == [sessions[p] EXCEPT !.sink = FALSE, !.stop = TRUE]

(* The two tasks of a Bidir session: the one that receives,                *)
BidirSink(p) ==
    /\ sessions[p].mode = "Bidir" /\ sessions[p].sink
    /\ \/ Ignores(p)
       \/ /\ Idle(p) \/ sessions[p].stop
          /\ sessions' = [sessions EXCEPT ![p] = SinkEnds(p)]
          /\ UNCHANGED <<down, active_clients>>

(* and the handler's own, which sends, and in the end awaits the other.    *)
handle_udp_bidir(p) ==
    /\ sessions[p].mode = "Bidir"
    /\ \/ sessions[p].source /\ Sends(p)
       \/ /\ sessions[p].source
          /\ dg_server # "up" \/ sessions[p].stop \/ p \in gone
          /\ sessions' = [sessions EXCEPT ![p].source = FALSE, ![p].stop = @ \/ p \in gone]
          /\ UNCHANGED <<down, active_clients>>
       \/ ~sessions[p].source /\ ~sessions[p].sink /\ Returns(p)

dispatch_connected_udp(p) ==
    /\ \/ handle_udp_echo(p) \/ handle_udp_rr(p) \/ handle_udp_sink(p)
       \/ handle_udp_source(p) \/ handle_udp_bidir(p)
       \/ handle_connected_dns_client(p)
    /\ UNCHANGED <<dg, up, copies, dg_server, gone, queue>>

BidirReceives(p) == BidirSink(p) /\ UNCHANGED <<dg, up, copies, dg_server, gone, queue>>

-----------------------------------------------------------------------------
(* Dropping the handle sets shutdown; the loop sees it within 100ms, and   *)
(* the runtime ends with every handler that is left.                       *)
DgShutdown ==
    /\ dg_server = "up"
    /\ dg_server' = "stopping"
    /\ UNCHANGED <<dg, up, down, copies, gone, dgServerVars>>

DgStop ==
    /\ dg_server = "stopping"
    /\ dg_server' = "down"
    /\ queue' = {} /\ active_clients' = {} /\ sessions' = [p \in Ports |-> NoSession]
    /\ UNCHANGED <<dg, up, down, copies, gone>>

DgServerNext ==
    \/ Arrive \/ Listen
    \/ \E p \in Ports : dispatch_connected_udp(p) \/ BidirReceives(p)
    \/ DgShutdown \/ DgStop
=============================================================================
