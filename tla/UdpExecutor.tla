----------------------------- MODULE UdpExecutor ----------------------------
(***************************************************************************)
(* The UDP executor (netanvil-udp) of one worker: one socket for all       *)
(* requests to a target, shared by the requests in flight, and the loss    *)
(* tracker.  Any request may receive any answer that comes to the socket.  *)
(* The DNS executor (netanvil-dns) opens a socket for every query.         *)
(***************************************************************************)
EXTENDS Datagrams, LossTracker

VARIABLES
    dg_tasks,       \* DgTasks -> [pc, seq, target, port]
    socket,         \* the executor's socket: 0 or a port
    connected_to,   \* its target, or 0
    opened,         \* ports bound so far
    seqs,           \* the generator's next sequence number
    outcomes        \* history: what requests have reported

udpVars == <<dg_tasks, socket, connected_to, opened, seqs, outcomes>>

NoQuery == [pc |-> "free", seq |-> 0, target |-> 0, port |-> 0]

UdpInit ==
    /\ dg_tasks = [t \in DgTasks |-> NoQuery]
    /\ socket = 0 /\ connected_to = 0 /\ opened = 0
    /\ seqs = 0
    /\ outcomes = {}

(* Datagrams to a socket that nobody holds any more are dropped.           *)
Taking(taken) == down' = {m \in down \ taken : m.port \in {socket'} \cup {dg_tasks'[t].port : t \in DgTasks}}

EndQuery(t, outcome) ==
    /\ outcomes' = outcomes \cup {outcome}
    /\ dg_tasks' = [dg_tasks EXCEPT ![t] = NoQuery]

-----------------------------------------------------------------------------
(* generate and execute up to ensure_socket: the targets take turns.       *)
UdpExecute(t) ==
    /\ dg.client = "udp"
    /\ dg_tasks[t].pc = "free"
    /\ seqs < dg.sends
    /\ seqs' = seqs + 1
    /\ tracker' = on_send(tracker)
    /\ LET target == 1 + (seqs % Cardinality(dg.targets))
           reuse  == socket # 0 /\ connected_to = target
       IN  dg_tasks' = [dg_tasks EXCEPT ![t] = [pc |-> IF reuse THEN "send" ELSE "bind", seq |-> seqs,
                                                target |-> target, port |-> IF reuse THEN socket ELSE 0]]
    /\ UNCHANGED <<netVars, tracker_seen, tracker_gap, reported, socket, connected_to, opened, outcomes>>

(* Faulty variant of Bound: the second look is missing.                    *)
BoundAnyway(t, port) ==
    /\ dg_tasks' = [dg_tasks EXCEPT ![t].pc = "send", ![t].port = port]
    /\ socket' = port
    /\ connected_to' = dg_tasks[t].target

(* Another request may have made a socket for this target meanwhile.       *)
Bound(t, port) ==
    IF socket # 0 /\ connected_to = dg_tasks[t].target
    THEN /\ dg_tasks' = [dg_tasks EXCEPT ![t].pc = "send", ![t].port = socket]
         /\ UNCHANGED <<socket, connected_to>>
    ELSE /\ dg_tasks' = [dg_tasks EXCEPT ![t].pc = "send", ![t].port = port]
         /\ socket' = port
         /\ connected_to' = dg_tasks[t].target

ensure_socket(t) ==
    /\ dg_tasks[t].pc = "bind" /\ dg.client = "udp"
    /\ opened + 1 \in Ports
    /\ opened' = opened + 1
    /\ Bound(t, opened + 1)
    /\ Taking({})
    /\ UNCHANGED <<dg, up, copies, dg_server, gone, lossVars, seqs, outcomes>>

(* The socket cannot be made: the executor keeps the one it has.           *)
UdpBindFails(t) ==
    /\ dg_tasks[t].pc = "bind" /\ dg.client = "udp"
    /\ EndQuery(t, "connect")
    /\ UNCHANGED <<netVars, lossVars, socket, connected_to, opened, seqs>>

UdpSend(t) ==
    /\ dg_tasks[t].pc = "send" /\ dg.client = "udp"
    /\ up' = up \cup {[port |-> dg_tasks[t].port, seq |-> dg_tasks[t].seq, copy |-> 0]}
    /\ IF dg.expect_response
       THEN dg_tasks' = [dg_tasks EXCEPT ![t].pc = "receive"] /\ UNCHANGED outcomes
       ELSE EndQuery(t, "ok")
    /\ UNCHANGED <<dg, down, copies, dg_server, gone, lossVars, socket, connected_to, opened, seqs>>

(* The answer of this request or of another one: either way the tracker    *)
(* learns of it.                                                           *)
UdpReceive(t) ==
    /\ dg_tasks[t].pc = "receive" /\ dg.client = "udp"
    /\ \E m \in down :
          /\ m.port = dg_tasks[t].port
          /\ EndQuery(t, IF m.seq = dg_tasks[t].seq THEN "ok" ELSE "mismatch")
          /\ UNCHANGED socket /\ Taking({m})
          /\ tracker' = on_receive(tracker, m.seq)
          /\ tracker_seen' = IF m.seq >= tracker.base THEN tracker_seen \cup {m.seq} ELSE tracker_seen
          /\ tracker_gap' = (tracker_gap \/ m.seq >= tracker.base + 2 * WINDOW)
    /\ UNCHANGED <<dg, up, copies, dg_server, gone, reported, connected_to, opened, seqs>>

(* The server is gone: the next call on a connected socket reports it.     *)
UdpRefused(t) ==
    /\ dg_tasks[t].pc \in {"send", "receive"} /\ dg.client = "udp"
    /\ dg_server = "down"
    /\ EndQuery(t, "protocol")
    /\ UNCHANGED socket /\ Taking({})
    /\ UNCHANGED <<dg, up, copies, dg_server, gone, lossVars, connected_to, opened, seqs>>

(* The future is dropped; the socket lives on in the executor.             *)
UdpTimeout(t) ==
    /\ dg_tasks[t].pc # "free" /\ dg.client = "udp"
    /\ EndQuery(t, "timeout")
    /\ UNCHANGED socket /\ Taking({})
    /\ UNCHANGED <<dg, up, copies, dg_server, gone, lossVars, connected_to, opened, seqs>>

-----------------------------------------------------------------------------
DnsPort == opened + 1

(* DnsExecutor::execute: bind and send, neither under the timeout.         *)
DnsExecute(t) ==
    /\ dg.client = "dns"
    /\ dg_tasks[t].pc = "free"
    /\ seqs < dg.sends /\ DnsPort \in Ports
    /\ seqs' = seqs + 1
    /\ opened' = DnsPort
    /\ dg_tasks' = [dg_tasks EXCEPT ![t] = [pc |-> "receive", seq |-> seqs, target |-> 1, port |-> DnsPort]]
    /\ up' = up \cup {[port |-> DnsPort, seq |-> seqs, copy |-> 0]}
    /\ UNCHANGED <<dg, down, copies, dg_server, gone, lossVars, socket, connected_to, outcomes>>

(* Whatever comes is taken for the answer: the transaction id is not       *)
(* compared.                                                               *)
DnsReceive(t) ==
    /\ dg_tasks[t].pc = "receive" /\ dg.client = "dns"
    /\ \E m \in down :
          /\ m.port = dg_tasks[t].port
          /\ EndQuery(t, IF m.seq = dg_tasks[t].seq THEN "ok" ELSE "stranger")
          /\ UNCHANGED socket /\ Taking({m})
    /\ UNCHANGED <<dg, up, copies, dg_server, gone, lossVars, connected_to, opened, seqs>>

(* The socket cannot be made, or the query not be sent.                    *)
DnsFails(t) ==
    /\ dg.client = "dns"
    /\ dg_tasks[t].pc = "free"
    /\ seqs < dg.sends
    /\ seqs' = seqs + 1
    /\ outcomes' = outcomes \cup {"connect"}
    /\ UNCHANGED <<netVars, lossVars, dg_tasks, socket, connected_to, opened>>

DnsTimeout(t) ==
    /\ dg_tasks[t].pc = "receive" /\ dg.client = "dns"
    /\ EndQuery(t, "timeout")
    /\ UNCHANGED socket /\ Taking({})
    /\ UNCHANGED <<dg, up, copies, dg_server, gone, lossVars, connected_to, opened, seqs>>

-----------------------------------------------------------------------------
(* A client of the test server that is not this repository's executor:     *)
(* it sends, and takes what comes.                                         *)
OtherSend ==
    /\ dg.client = "other"
    /\ seqs < dg.sends
    /\ seqs' = seqs + 1
    /\ \E p \in Ports \ gone : up' = up \cup {[port |-> p, seq |-> seqs, copy |-> 0]}
    /\ UNCHANGED <<dg, down, copies, dg_server, gone, lossVars, dg_tasks, socket, connected_to, opened, outcomes>>

OtherReceive ==
    /\ dg.client = "other"
    /\ \E m \in down : down' = down \ {m}
    /\ UNCHANGED <<dg, up, copies, dg_server, gone, lossVars, udpVars>>

OtherCloses ==
    /\ dg.client = "other"
    /\ \E p \in Ports \ gone : gone' = gone \cup {p} /\ down' = {m \in down : m.port # p}
    /\ UNCHANGED <<dg, up, copies, dg_server, lossVars, udpVars>>

UdpStep(t) ==
    \/ UdpExecute(t) \/ ensure_socket(t) \/ UdpBindFails(t) \/ UdpSend(t)
    \/ UdpReceive(t) \/ UdpRefused(t) \/ UdpTimeout(t)
DnsStep(t) == DnsExecute(t) \/ DnsReceive(t) \/ DnsFails(t) \/ DnsTimeout(t)
DgClientNext == (\E t \in DgTasks : UdpStep(t) \/ DnsStep(t)) \/ OtherSend \/ OtherReceive \/ OtherCloses
=============================================================================
