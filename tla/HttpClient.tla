----------------------------- MODULE HttpClient -----------------------------
(***************************************************************************)
(* The HTTP/1.1 executor (netanvil-http) of one worker with the connection *)
(* policy, which the engine applies to the requests (transformer.rs).  The *)
(* HTTP client library and its pool of idle connections are external.      *)
(***************************************************************************)
EXTENDS Integers, FiniteSets

CONSTANTS
    HttpTasks,      \* requests that can be in flight
    HttpConns,      \* connections that can exist at a time
    HttpConfigs,    \* tests, see HttpConfiguration
    MaxHttp         \* bound: requests of a test

(* by_agent: the executor is built by the agent or the command line, and   *)
(* not by another user of the crate; limits are the lifetimes that Mixed   *)
(* samples from (empty: none); closing: the persistent ratio is below one. *)
HttpConfiguration ==
    [policy : {"KeepAlive", "AlwaysNew", "NoReuse", "Mixed"}, limits : SUBSET Nat,
     closing : BOOLEAN, by_agent : BOOLEAN, bandwidth : BOOLEAN, version : {"Http1", "Auto"},
     tls : BOOLEAN, in_flight : Nat]

ASSUME HttpAssumption ==
    /\ IsFiniteSet(HttpTasks) /\ HttpConns \subseteq Nat \ {0}
    /\ HttpConfigs \subseteq HttpConfiguration

VARIABLES
    http,           \* the test
    http_tasks,     \* HttpTasks -> [pc, conn, close]
    http_conns,     \* HttpConns -> [stage, served, dup]
    http_counter,   \* the counter of the transformer: [count, limit]
    http_sent       \* requests so far

httpVars == <<http, http_tasks, http_conns, http_counter, http_sent>>

NoHttpConn == [stage |-> "none", served |-> 0, dup |-> FALSE]
NoHttpTask == [pc |-> "free", conn |-> 0, close |-> FALSE]

HttpInit ==
    /\ http \in HttpConfigs
    /\ http_tasks = [t \in HttpTasks |-> NoHttpTask]
    /\ http_conns = [c \in HttpConns |-> NoHttpConn]
    /\ http_counter \in [count : {0}, limit : IF http.limits = {} THEN {0} ELSE http.limits]
    /\ http_sent = 0

-----------------------------------------------------------------------------
(* ConnectionPolicyTransformer::transform: whether the request carries     *)
(* Connection: close, and what becomes of the counter.  The request that   *)
(* exceeds the limit closes, and counts as the first of the next life.     *)
transform(close, counter) ==
    LET ticked == [http_counter EXCEPT !.count = @ + 1]
    IN  CASE http.policy \in {"KeepAlive", "NoReuse"} -> ~close /\ counter = http_counter
          [] http.policy = "AlwaysNew" -> close /\ counter = http_counter
          [] http.policy = "Mixed" /\ http.limits = {} ->
                (close => http.closing) /\ counter = http_counter
          [] http.policy = "Mixed" /\ http.limits # {} ->
                IF ticked.count > http_counter.limit
                THEN close /\ counter \in [count : {1}, limit : http.limits]
                ELSE (close => http.closing) /\ counter = ticked

(* The agent and the command line never ask for it (run_http_test), other  *)
(* users of with_connection_config may.                                    *)
noreuse == ~http.by_agent /\ http.policy = "NoReuse"

(* Faulty variant of needs_custom_connector: noreuse is forgotten.         *)
needs_custom_forgotten == http.tls \/ http.bandwidth \/ http.version # "Http1"

(* with_connection_config: which client is built.                          *)
needs_custom_connector == http.tls \/ http.bandwidth \/ noreuse \/ http.version # "Http1"

(* build_throttled_executor: no idle connection is kept.                   *)
PoolDisabled == needs_custom_connector /\ noreuse

HttpIdle == {c \in HttpConns : http_conns[c].stage = "idle"}

(* execute: the request is built and handed to the client, which uses an   *)
(* idle connection or asks the connector for a new one.                    *)
HttpExecute(t) ==
    /\ http_tasks[t].pc = "free"
    /\ http_sent < MaxHttp
    /\ Cardinality({u \in HttpTasks : http_tasks[u].pc # "free"}) < http.in_flight
    /\ http_sent' = http_sent + 1
    /\ \E close \in BOOLEAN, counter \in [count : 0..(MaxHttp + 1), limit : http.limits \cup {0}] :
          /\ transform(close, counter)
          /\ http_counter' = counter
          /\ \/ /\ HttpIdle = {}
                /\ http_tasks' = [http_tasks EXCEPT ![t] =
                      [pc |-> "connect", conn |-> 0, close |-> close]]
                /\ UNCHANGED http_conns
             \/ \E c \in HttpIdle :
                /\ http_tasks' = [http_tasks EXCEPT ![t] =
                      [pc |-> "head", conn |-> c, close |-> close]]
                /\ http_conns' = [http_conns EXCEPT ![c].stage = "busy", ![c].served = @ + 1]
    /\ UNCHANGED http

(* ThrottledConnector::connect, or the library's own: the address, TCP,    *)
(* TLS; a duplicate of the descriptor is left behind with noreuse.         *)
HttpConnect(t) ==
    /\ http_tasks[t].pc = "connect"
    /\ LET none == {c \in HttpConns : http_conns[c].stage = "none"}
           c == CHOOSE c \in none : \A d \in none : c <= d
       IN  /\ none # {}
           /\ http_conns' = [http_conns EXCEPT ![c] =
                 [stage |-> "busy", served |-> 1, dup |-> PoolDisabled]]
           /\ http_tasks' = [http_tasks EXCEPT ![t].pc = "head", ![t].conn = c]
    /\ UNCHANGED <<http, http_counter, http_sent>>

(* A connection that is dropped is closed, unless a duplicate keeps it.    *)
DropConn(c) ==
    [http_conns EXCEPT ![c] = IF @.dup THEN [@ EXCEPT !.stage = "dangling"] ELSE NoHttpConn]
EndHttp(t) == http_tasks' = [http_tasks EXCEPT ![t] = NoHttpTask]

(* Name resolution, TCP or TLS fails (Connect, Tls), or the stream does    *)
(* (Http): the result has the error and no status.                         *)
HttpFails(t) ==
    /\ http_tasks[t].pc # "free"
    /\ http_conns' = IF http_tasks[t].conn = 0 THEN http_conns ELSE DropConn(http_tasks[t].conn)
    /\ EndHttp(t)
    /\ UNCHANGED <<http, http_counter, http_sent>>

(* do_execute_cyper, do_execute_throttled: the status, then the body.      *)
HttpHead(t) ==
    /\ http_tasks[t].pc = "head"
    /\ http_tasks' = [http_tasks EXCEPT ![t].pc = "body"]
    /\ UNCHANGED <<http, http_conns, http_counter, http_sent>>

HttpBody(t) ==
    LET c == http_tasks[t].conn
    IN  /\ http_tasks[t].pc = "body"
        /\ http_conns' = IF http_tasks[t].close \/ PoolDisabled THEN DropConn(c)
                         ELSE [http_conns EXCEPT ![c].stage = "idle"]
        /\ EndHttp(t)
        /\ UNCHANGED <<http, http_counter, http_sent>>

HttpTimeout(t) ==
    /\ http_tasks[t].pc # "free"
    /\ http_conns' = IF http_tasks[t].conn = 0 THEN http_conns ELSE DropConn(http_tasks[t].conn)
    /\ EndHttp(t)
    /\ UNCHANGED <<http, http_counter, http_sent>>

(* The server closes an idle connection.                                   *)
HttpServerCloses(c) ==
    /\ http_conns[c].stage = "idle"
    /\ http_conns' = DropConn(c)
    /\ UNCHANGED <<http, http_tasks, http_counter, http_sent>>

HttpStep(t) ==
    \/ HttpExecute(t) \/ HttpConnect(t) \/ HttpFails(t)
    \/ HttpHead(t) \/ HttpBody(t) \/ HttpTimeout(t)
HttpNext == (\E t \in HttpTasks : HttpStep(t)) \/ (\E c \in HttpConns : HttpServerCloses(c))

HttpSpec == HttpInit /\ [][HttpNext]_httpVars

-----------------------------------------------------------------------------
(* How many requests a connection may serve: one with AlwaysNew or with an *)
(* executor that does not reuse, and one more than the limit with Mixed,   *)
(* as long as requests come one by one (the counter is the worker's).      *)
PolicyHonoured ==
    \A c \in HttpConns :
        /\ http.policy = "AlwaysNew" \/ noreuse => http_conns[c].served <= 1
        /\ http.policy = "Mixed" /\ http.limits # {} /\ http.in_flight = 1 =>
               \E limit \in http.limits : http_conns[c].served <= limit + 1

=============================================================================
