-------------------------------- MODULE Udp ---------------------------------
(***************************************************************************)
(* A UDP or DNS test against the repository's own test servers.            *)
(***************************************************************************)
EXTENDS UdpExecutor, UdpServer

dgVars == <<netVars, lossVars, udpVars, dgServerVars>>

DgInit == NetInit /\ LossInit /\ UdpInit /\ DgServerInit

DgNext ==
    \/ Duplicate /\ UNCHANGED <<lossVars, udpVars, dgServerVars>>
    \/ DgClientNext /\ UNCHANGED dgServerVars
    \/ DgServerNext /\ UNCHANGED <<lossVars, udpVars>>

DgSpec == DgInit /\ [][DgNext]_dgVars

-----------------------------------------------------------------------------
(* All requests in flight to the one target of a test use one socket, even *)
(* when the first ones find none at the same time (ensure_socket).         *)
SocketShared ==
    dg.client = "udp" /\ Cardinality(dg.targets) = 1 =>
        \A t \in DgTasks : dg_tasks[t].port \in {0, socket}

(* The DNS executor compares no transaction id; that an answer belongs to  *)
(* its query follows from the socket of its own alone.                     *)
NoStranger == "stranger" \notin outcomes

(* The listener knows exactly the peers that have a handler: an entry that *)
(* outlives its handler would turn the sink or the source of the next      *)
(* session of this peer into an echo.                                      *)
ClientsHaveHandlers == active_clients = {p \in Ports : Live(p)}

(* A datagram finds the request or the session that it is meant for,       *)
(* however requests and sessions begin and end around it.                  *)
DatagramInv == SocketShared /\ NoStranger /\ ClientsHaveHandlers

=============================================================================
