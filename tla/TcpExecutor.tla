---------------------------- MODULE TcpExecutor -----------------------------
(***************************************************************************)
(* The TCP client (netanvil-tcp): the executor of one I/O worker, its      *)
(* connection pool, and the requests in flight, which are interleaved at   *)
(* their await points.  A timeout drops the future wherever it waits.      *)
(***************************************************************************)
EXTENDS TcpLink, Functions

VARIABLES
    tasks,          \* Tasks -> [pc, conn, size]
    idle, active,   \* ConnectionPool
    lifecycle,      \* LifecycleCounter: [count, limit]
    requests,       \* requests started
    results         \* how many ended with which outcome

clientVars == <<tasks, idle, active, lifecycle, requests, results>>

Outcomes == {"ok", "connect", "protocol", "timeout"}
NoTask == [pc |-> "free", conn |-> 0, size |-> [request |-> 0, response |-> 0]]

ClientInit ==
    /\ tasks = [t \in Tasks |-> NoTask]
    /\ idle = <<>>
    /\ active = 0
    /\ lifecycle \in {[count |-> 0, limit |-> n] : n \in tcp.limits \cup (IF tcp.limits = {} THEN {0} ELSE {})}
    /\ requests = 0
    /\ results = [o \in Outcomes |-> 0]

-----------------------------------------------------------------------------
(* ConnectionPool.                                                         *)
can_open_new == tcp.max_connections = 0 \/ active + Len(idle) < tcp.max_connections
Less(n) == IF n > 0 THEN n - 1 ELSE 0
record_dropped == active' = Less(active) /\ UNCHANGED idle
return_idle(c) == active' = Less(active) /\ idle' = Append(idle, c)

(* The client's stream goes out of scope; a clone keeps the socket open.   *)
Close(c) == conns' = [conns EXCEPT ![c] = Settle([@ EXCEPT !.held = FALSE])]

End(t, outcome) ==
    /\ tasks' = [tasks EXCEPT ![t] = NoTask]
    /\ results' = [results EXCEPT ![outcome] = @ + 1]

-----------------------------------------------------------------------------
(* do_execute, one action for what runs between two awaits.                *)

SendsHeader(k) == ~k.header_sent /\ tcp.mode # "Echo"
Enter(t, c, size, k) == tasks' = [tasks EXCEPT ![t] = [pc |-> IF SendsHeader(k) THEN "header" ELSE "write",
                                                       conn |-> c, size |-> size]]

(* acquire_connection: an idle connection, or a new one when the pool      *)
(* allows it.                                                              *)
Execute(t) ==
    /\ tasks[t].pc = "free"
    /\ requests < MaxRequests
    /\ requests' = requests + 1
    /\ \E size \in tcp.sizes :
          \/ /\ idle # <<>>
             /\ Enter(t, Head(idle), size, conns[Head(idle)])
             /\ idle' = Tail(idle)
             /\ active' = active + 1
             /\ UNCHANGED results
          \/ /\ idle = <<>> /\ can_open_new
             /\ tasks' = [tasks EXCEPT ![t] = [pc |-> "connecting", conn |-> 0, size |-> size]]
             /\ active' = active + 1
             /\ UNCHANGED <<idle, results>>
          \/ /\ idle = <<>> /\ ~can_open_new
             /\ End(t, "connect")
             /\ UNCHANGED <<idle, active>>
    /\ UNCHANGED <<linkVars, lifecycle>>

Connect(t) ==
    /\ tasks[t].pc = "connecting"
    /\ server = "up"
    /\ \E c \in ConnIds :
          /\ conns[c] = NoConn
          /\ \A d \in ConnIds : conns[d] = NoConn => c <= d
          /\ conns' = [conns EXCEPT ![c] = [NoConn EXCEPT !.stage = "backlog", !.held = TRUE]]
          /\ Enter(t, c, tasks[t].size, NoConn)
    /\ UNCHANGED <<tcp, handlers, server, idle, active, lifecycle, requests, results>>

ConnectFails(t) ==
    /\ tasks[t].pc = "connecting"
    /\ server # "up"
    /\ record_dropped
    /\ End(t, "connect")
    /\ UNCHANGED <<linkVars, lifecycle, requests>>

(* Faulty variant of Fail: the connection goes back to the pool.           *)
FailReturns(t) ==
    /\ return_idle(tasks[t].conn)
    /\ End(t, "protocol")
    /\ UNCHANGED <<linkVars, lifecycle, requests>>

(* An I/O error: the connection is not returned to the pool.               *)
Fail(t) ==
    /\ record_dropped
    /\ Close(tasks[t].conn)
    /\ End(t, "protocol")
    /\ UNCHANGED <<tcp, handlers, server, lifecycle, requests>>

(* The header tells the server the sizes of the request that sends it.     *)
SendHeader(t) ==
    /\ tasks[t].pc = "header"
    /\ LET c == tasks[t].conn IN
          \/ /\ conns' = [conns EXCEPT ![c].header_sent = TRUE, ![c].header = HeaderUnits,
                                       ![c].mode = tcp.mode, ![c].size = tasks[t].size]
             /\ tasks' = [tasks EXCEPT ![t].pc = "write"]
             /\ UNCHANGED <<tcp, handlers, server, idle, active, lifecycle, requests, results>>
          \/ conns[c].stage = "closed" /\ Fail(t)

(* encode_frame: the units that a payload takes on the wire.               *)
FrameLen ==
    CASE tcp.framing = "Raw" -> tcp.payload
      [] tcp.framing = "FixedSize" -> tcp.frame
      [] OTHER -> tcp.payload + 1

WriteLen(t) ==
    CASE tcp.mode = "Echo" -> FrameLen
      [] tcp.mode \in {"RR", "CRR"} -> tasks[t].size.request
      [] tcp.mode \in {"Sink", "Bidir"} -> tcp.payload
      [] tcp.mode = "Source" -> 0

Reads(t) ==
    \/ tcp.mode = "Echo" /\ tcp.expect_response
    \/ tcp.mode \in {"RR", "CRR"} /\ tasks[t].size.response > 0
    \/ tcp.mode = "Source"

(* should_keep_connection, with the lifecycle counter after it; the        *)
(* fraction of connections that persist is a free choice.                  *)
Expires == tcp.policy = "Mixed" /\ tcp.limits # {} /\ lifecycle.count + 1 > lifecycle.limit
Ticked ==
    IF tcp.policy # "Mixed" \/ tcp.limits = {} THEN {lifecycle}
    ELSE IF Expires THEN {[count |-> 0, limit |-> n] : n \in tcp.limits}
    ELSE {[lifecycle EXCEPT !.count = @ + 1]}
Keeps ==
    CASE tcp.policy = "KeepAlive" -> {TRUE}
      [] tcp.policy \in {"AlwaysNew", "NoReuse"} -> {FALSE}
      [] tcp.policy = "Mixed" -> IF Expires THEN {FALSE} ELSE BOOLEAN

(* The exchange is over; k is the connection after it.                     *)
Finish(t, k) ==
    /\ LET c    == tasks[t].conn
           done == [k EXCEPT !.request_count = @ + 1]
       IN  \/ /\ tcp.mode # "CRR"
              /\ lifecycle' \in Ticked
              /\ \E keep \in Keeps :
                    IF keep THEN return_idle(c) /\ conns' = [conns EXCEPT ![c] = done]
                    ELSE record_dropped /\ conns' = [conns EXCEPT ![c] = Settle([done EXCEPT !.held = FALSE])]
           \/ /\ tcp.mode = "CRR"
              /\ record_dropped
              /\ conns' = [conns EXCEPT ![c] = Settle([done EXCEPT !.held = FALSE])]
              /\ UNCHANGED lifecycle
    /\ End(t, "ok")
    /\ UNCHANGED <<tcp, handlers, server, requests>>

Write(t) ==
    /\ tasks[t].pc = "write"
    /\ LET c    == tasks[t].conn
           sent == [conns[c] EXCEPT !.up = IF conns[c].stage = "closed" THEN 0 ELSE @ + WriteLen(t),
                                    !.reader = @ \/ tcp.mode = "Bidir"]
       IN  \/ /\ Incoming(conns[c]) + WriteLen(t) <= Window + HeaderUnits
              /\ IF Reads(t)
                 THEN /\ conns' = [conns EXCEPT ![c] = sent]
                      /\ tasks' = [tasks EXCEPT ![t].pc = "read"]
                      /\ UNCHANGED <<tcp, handlers, server, idle, active, lifecycle, requests, results>>
                 ELSE Finish(t, sent)
           \/ conns[c].stage = "closed" /\ WriteLen(t) > 0 /\ Fail(t)

(* What read_exact or read_framed takes off the stream; a Raw frame is     *)
(* whatever one read returns.                                              *)
ReadLens(t) ==
    CASE tcp.mode = "Echo" /\ tcp.framing = "Raw" -> 1..tcp.response_max_bytes
      [] tcp.mode = "Echo" /\ tcp.framing # "Raw" -> {FrameLen}
      [] tcp.mode \in {"RR", "CRR"} -> {tasks[t].size.response}
      [] OTHER -> {IF tasks[t].size.response = 0 THEN 1 ELSE tasks[t].size.response}

(* A response over response_max_bytes is refused; the delimiter counts.    *)
TooLong ==
    /\ tcp.mode = "Echo"
    /\ \/ tcp.framing = "Delimiter" /\ FrameLen > tcp.response_max_bytes
       \/ tcp.framing = "LengthPrefixed" /\ tcp.payload > tcp.response_max_bytes

(* A single read, as Raw does it, returns no data at the end of the file.  *)
Single == tcp.mode = "Echo" /\ tcp.framing = "Raw"

Read(t) ==
    /\ tasks[t].pc = "read"
    /\ LET c == tasks[t].conn
           k == conns[c]
       IN  \/ \E n \in ReadLens(t) : n <= k.down /\ ~TooLong /\ Finish(t, [k EXCEPT !.down = @ - n])
           \/ TooLong /\ k.down > 0 /\ Fail(t)
           \/ Single /\ ClientEof(k) /\ Finish(t, k)
           \/ k.stage = "closed" /\ (\A n \in ReadLens(t) : n > k.down) /\ Fail(t)

(* Faulty variant of Timeout: only the connect is covered.                 *)
TimeoutConnect(t) ==
    /\ tasks[t].pc = "connecting"
    /\ End(t, "timeout")
    /\ UNCHANGED <<linkVars, idle, active, lifecycle, requests>>

(* compio::time::timeout in execute: the future is dropped and with it the *)
(* connection, a write possibly half done; the pool is not told.           *)
Timeout(t) ==
    /\ tasks[t].pc # "free"
    /\ LET c == tasks[t].conn
           k == conns[c]
       IN  \/ tasks[t].pc = "connecting" /\ UNCHANGED conns
           \/ tasks[t].pc = "read" /\ Close(c)
           \/ /\ tasks[t].pc = "header"
              /\ \E n \in 0..HeaderUnits :
                    conns' = [conns EXCEPT ![c] = Settle([k EXCEPT !.held = FALSE, !.header = n, !.mode = tcp.mode,
                                                                   !.size = tasks[t].size])]
           \/ /\ tasks[t].pc = "write"
              /\ \E n \in 0..WriteLen(t) :
                    /\ Incoming(k) + n <= Window + HeaderUnits
                    /\ conns' = [conns EXCEPT ![c] = Settle([k EXCEPT !.held = FALSE, !.up = @ + n])]
    /\ End(t, "timeout")
    /\ UNCHANGED <<tcp, handlers, server, idle, active, lifecycle, requests>>

(* The detached reader of the Bidir mode discards until the end of file.   *)
BackgroundRead(c) ==
    /\ conns[c].reader
    /\ \/ conns[c].down > 0 /\ conns' = [conns EXCEPT ![c].down = 0]
       \/ ClientEof(conns[c]) /\ conns' = [conns EXCEPT ![c] = Settle([@ EXCEPT !.reader = FALSE])]
    /\ UNCHANGED <<tcp, handlers, server, clientVars>>

ClientStep(t) == Execute(t) \/ Connect(t) \/ ConnectFails(t) \/ SendHeader(t) \/ Write(t) \/ Read(t) \/ Timeout(t)
ClientNext == (\E t \in Tasks : ClientStep(t)) \/ (\E c \in ConnIds : BackgroundRead(c))
=============================================================================
