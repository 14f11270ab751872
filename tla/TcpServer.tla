------------------------------ MODULE TcpServer -----------------------------
(***************************************************************************)
(* The TCP test server (netanvil-test-servers): one thread, whose accept   *)
(* loop spawns a handler for each connection.  The first read tells the    *)
(* protocol from a plain echo; the header tells the mode.                  *)
(***************************************************************************)
EXTENDS TcpLink

ServerInit ==
    /\ conns = [c \in ConnIds |-> NoConn]
    /\ handlers = 0
    /\ server = "up"

Becomes(c, k) == conns' = [conns EXCEPT ![c] = Settle(k)]

(* The handler returns: the task counts itself out and the stream is gone. *)
Return(c, k) ==
    /\ Becomes(c, [k EXCEPT !.stage = "closed", !.header = 0, !.up = 0, !.left = 0])
    /\ handlers' = handlers - 1
    /\ UNCHANGED <<tcp, server>>

Continue(c, k) ==
    /\ Becomes(c, k)
    /\ UNCHANGED <<tcp, handlers, server>>

LimitReached == tcp.server_max > 0 /\ handlers >= tcp.server_max

Accept(c) ==
    /\ server # "down"
    /\ conns[c].stage = "backlog"
    /\ IF LimitReached
       THEN /\ Becomes(c, [conns[c] EXCEPT !.stage = "closed", !.header = 0, !.up = 0])
            /\ UNCHANGED handlers
       ELSE /\ Becomes(c, [conns[c] EXCEPT !.stage = "first"])
            /\ handlers' = handlers + 1
    /\ UNCHANGED <<tcp, server>>

(* What the peer's kernel does with n units written to it: a first write   *)
(* to a peer that is gone succeeds, the next one fails.                    *)
CanWrite(k, n) == k.down + n <= Window /\ (ClientOpen(k) \/ k.down = 0)
WriteFails(k) == ~ClientOpen(k)

-----------------------------------------------------------------------------
(* dispatch_protocol, with what the first read took beyond the header.     *)
Dispatch(k, leftover) == [k EXCEPT !.stage = k.mode, !.left = IF k.mode \in {"Sink", "Source"} THEN 0 ELSE leftover]

(* handle_tcp_protocol: the first read takes a part of what has arrived.   *)
FirstRead(c) ==
    /\ conns[c].stage = "first"
    /\ LET k == conns[c] IN
          \/ /\ k.mode # "none" /\ k.header > 0
             /\ \/ \E u \in 0..k.up : k.header = HeaderUnits
                                      /\ Continue(c, Dispatch([k EXCEPT !.header = 0, !.up = @ - u], u))
                \/ \E h \in 1..(HeaderUnits - 1) :
                      h <= k.header /\ Continue(c, [k EXCEPT !.header = @ - h, !.stage = "header"])
          \/ /\ k.mode = "none"
             /\ \E n \in 1..k.up : \/ CanWrite(k, n) /\ Continue(c, [k EXCEPT !.up = @ - n, !.down = @ + n, !.stage = "Echo"])
                                   \/ WriteFails(k) /\ Return(c, k)
          \/ ServerEof(k) /\ Return(c, k)

(* read_header_bytes reads exactly the rest of the header.                 *)
ReadHeader(c) ==
    /\ conns[c].stage = "header"
    /\ LET k == conns[c] IN
          \/ k.header = HeaderUnits - 1 /\ Continue(c, Dispatch([k EXCEPT !.header = 0], 0))
          \/ ~ClientOpen(k) /\ k.header < HeaderUnits - 1 /\ Return(c, k)

-----------------------------------------------------------------------------
(* The request of a transaction: the leftover of the first read counts     *)
(* towards it, and what it has too much is lost.                           *)
Needed(k) == IF k.left >= k.size.request THEN 0 ELSE k.size.request - k.left

(* handle_bidir is handle_rr without injected errors.                      *)
Injects(k) == tcp.errors /\ k.stage # "Bidir"

(* handle_rr and handle_crr: an injected error is half a response, and the *)
(* connection is closed.                                                   *)
ReadRequest(c) ==
    /\ conns[c].stage \in {"RR", "CRR", "Bidir"}
    /\ LET k    == conns[c]
           taken == [k EXCEPT !.up = @ - Needed(k), !.left = 0]
           half == k.size.response \div 2
       IN  \/ Needed(k) <= k.up /\ Continue(c, [taken EXCEPT !.stage = "reply"])
           \/ /\ Needed(k) <= k.up /\ Injects(k)
              /\ \/ CanWrite(k, half) /\ Return(c, [taken EXCEPT !.down = @ + half])
                 \/ WriteFails(k) /\ Return(c, taken)
           \/ Needed(k) > k.up /\ ~ClientOpen(k) /\ Return(c, k)

Reply(c) ==
    /\ conns[c].stage = "reply"
    /\ LET k    == conns[c]
           done == [k EXCEPT !.stage = k.mode, !.down = @ + k.size.response, !.answered = @ + 1]
       IN  \/ /\ k.size.response = 0 \/ CanWrite(k, k.size.response)
              /\ IF k.mode = "CRR" THEN Return(c, done) ELSE Continue(c, done)
           \/ k.size.response > 0 /\ WriteFails(k) /\ Return(c, k)

SinkRead(c) ==
    /\ conns[c].stage = "Sink"
    /\ LET k == conns[c] IN
          \/ k.up > 0 /\ Continue(c, [k EXCEPT !.up = 0])
          \/ ServerEof(k) /\ Return(c, k)

SourceWrite(c) ==
    /\ conns[c].stage = "Source"
    /\ LET k == conns[c] IN
          \/ CanWrite(k, k.size.response) /\ Continue(c, [k EXCEPT !.down = @ + k.size.response])
          \/ WriteFails(k) /\ Return(c, k)

EchoLoop(c) ==
    /\ conns[c].stage = "Echo"
    /\ LET k == conns[c] IN
          \/ \E n \in 1..k.up : \/ CanWrite(k, n) /\ Continue(c, [k EXCEPT !.up = @ - n, !.down = @ + n])
                                \/ WriteFails(k) /\ Return(c, k)
          \/ ServerEof(k) /\ Return(c, k)

-----------------------------------------------------------------------------
(* Dropping the handle sets shutdown; the accept loop sees it within 100ms *)
(* and the runtime ends, with every handler and every connection.          *)
Shutdown ==
    /\ server = "up"
    /\ server' = "stopping"
    /\ UNCHANGED <<tcp, conns, handlers>>

StopThread ==
    /\ server = "stopping"
    /\ server' = "down"
    /\ handlers' = 0
    /\ conns' = [c \in ConnIds |-> IF conns[c].stage = "none" THEN conns[c]
                                   ELSE Settle([conns[c] EXCEPT !.stage = "closed", !.header = 0, !.up = 0, !.left = 0])]
    /\ UNCHANGED tcp

HandlerStep(c) == FirstRead(c) \/ ReadHeader(c) \/ ReadRequest(c) \/ Reply(c) \/ SinkRead(c) \/ SourceWrite(c) \/ EchoLoop(c)
ServerNext == (\E c \in ConnIds : Accept(c) \/ HandlerStep(c)) \/ Shutdown \/ StopThread
=============================================================================
