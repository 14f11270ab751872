------------------------------ MODULE MCWorker ------------------------------
(***************************************************************************)
(* What an I/O worker is made of besides its loop (see Engine): the        *)
(* plugins that generate its requests, the transports that carry them, the *)
(* recorder of events and the metrics.  A behaviour is about the one part  *)
(* that focus names, and the others stay in an initial state.              *)
(***************************************************************************)
EXTENDS Tcp, Udp, Redis, HttpClient, Throttle, Wire, Plugin, EventRecorder, Telemetry

VARIABLE focus

formats == <<resp, wire>>
inWorker == <<pluginVars, eventVars, telemetryVars>>
transports == <<vars, dgVars, redisVars, httpVars, throttleVars, formats>>
workerVars == <<focus, transports, inWorker>>

-----------------------------------------------------------------------------
(* TCP: two requests in flight, and a configuration for each mode.         *)

Size(q, r) == [request |-> q, response |-> r]

PlainTcp == [mode |-> "RR", sizes |-> {Size(1, 1)}, payload |-> 1, framing |-> "Raw", frame |-> 2,
             expect_response |-> TRUE, response_max_bytes |-> 2, max_connections |-> 2,
             policy |-> "KeepAlive", limits |-> {}, errors |-> FALSE, server_max |-> 0]

LongTcp == [PlainTcp EXCEPT !.sizes = {Size(2, 1)}]

MCTcpConfigs ==
    {LongTcp,
     [PlainTcp EXCEPT !.sizes = {Size(1, 2)}, !.errors = TRUE, !.server_max = 1],
     [PlainTcp EXCEPT !.sizes = {Size(1, 2), Size(2, 1)}, !.max_connections = 1],
     [PlainTcp EXCEPT !.sizes = {Size(0, 1)}, !.max_connections = 1],
     [PlainTcp EXCEPT !.policy = "Mixed", !.limits = {1}, !.max_connections = 1],
     [PlainTcp EXCEPT !.mode = "CRR", !.policy = "Mixed", !.max_connections = 1, !.errors = TRUE],
     [PlainTcp EXCEPT !.mode = "Sink", !.policy = "Mixed", !.payload = 2, !.max_connections = 1],
     [PlainTcp EXCEPT !.mode = "Source", !.policy = "NoReuse", !.max_connections = 1],
     [PlainTcp EXCEPT !.mode = "Bidir", !.policy = "AlwaysNew", !.max_connections = 1],
     [PlainTcp EXCEPT !.mode = "Echo", !.max_connections = 0],
     [PlainTcp EXCEPT !.mode = "Echo", !.framing = "Delimiter", !.response_max_bytes = 1,
                      !.max_connections = 1],
     [PlainTcp EXCEPT !.mode = "Echo", !.framing = "LengthPrefixed", !.max_connections = 1],
     [PlainTcp EXCEPT !.mode = "Echo", !.framing = "FixedSize", !.expect_response = FALSE,
                      !.max_connections = 1]}

-----------------------------------------------------------------------------
(* UDP and DNS: the executors against an echo, and another client, which   *)
(* loses packets, against each mode of the server.                         *)

PlainDg == [client |-> "udp", mode |-> "Echo", targets |-> {1}, expect_response |-> TRUE,
            connected |-> FALSE, drops |-> FALSE, sends |-> 2]
OtherDg == [PlainDg EXCEPT !.client = "other", !.drops = TRUE]

MCDgConfigs ==
    {PlainDg, [PlainDg EXCEPT !.targets = {1, 2}], [PlainDg EXCEPT !.connected = TRUE],
     [PlainDg EXCEPT !.expect_response = FALSE]}
    \cup {[PlainDg EXCEPT !.client = "dns", !.mode = "Dns", !.connected = c] : c \in BOOLEAN}
    \cup {[OtherDg EXCEPT !.mode = m, !.connected = TRUE] : m \in {"Echo", "RR", "Sink"}}
    \cup {[OtherDg EXCEPT !.mode = m, !.connected = TRUE, !.sends = 1] : m \in {"Source", "Bidir"}}
    \cup {[OtherDg EXCEPT !.mode = m] : m \in {"Echo", "Sink", "Bidir"}}

-----------------------------------------------------------------------------
(* Redis: replies of every kind, nested once, followed by the beginning of *)
(* another; and tests with and without AUTH and SELECT.                    *)

RespTexts == {<<>>, <<"a">>, <<"CR", "LF", "a">>, <<"LF">>, <<"$">>}
PlainReplies ==
    {Line(k, t) : k \in {"+", "-"}, t \in {<<>>, <<"a">>, <<"LF">>}}
    \cup {Integer(n) : n \in {-1, 2}} \cup {Bulk(d) : d \in RespTexts} \cup {Nil}
MCRespValues ==
    PlainReplies \cup {Array(<<>>)} \cup {Array(<<a>>) : a \in PlainReplies}
    \cup {Array(<<a, b>>) : a, b \in PlainReplies}
    \cup {Array(<<Bulk(<<"a">>), Array(<<a>>), Nil>>) : a \in PlainReplies}
    \cup {Array(<<Array(<<>>), a>>) : a \in PlainReplies}
MCRespTails == {<<>>, <<"a">>, <<"LF">>, <<"+">>, <<"CR", "LF">>}

MCRedisConfigs ==
    {[password |-> TRUE, db |-> FALSE], [password |-> TRUE, db |-> TRUE],
     [password |-> FALSE, db |-> FALSE]}

-----------------------------------------------------------------------------
(* HTTP: a test for each connection policy.                                *)

PlainHttp == [policy |-> "KeepAlive", limits |-> {}, closing |-> FALSE, by_agent |-> FALSE,
              bandwidth |-> FALSE, version |-> "Http1", tls |-> FALSE, in_flight |-> 2]

MCHttpConfigs ==
    {PlainHttp, [PlainHttp EXCEPT !.policy = "AlwaysNew"], [PlainHttp EXCEPT !.policy = "NoReuse"],
     [PlainHttp EXCEPT !.policy = "Mixed", !.closing = TRUE],
     [PlainHttp EXCEPT !.policy = "Mixed", !.limits = {2}, !.in_flight = 1],
     [PlainHttp EXCEPT !.policy = "Mixed", !.limits = {1, 3}, !.bandwidth = TRUE]}

MCBuckets == {NewThrottle(1, 3), NewThrottle(2, 2), NewPacing(2)}

-----------------------------------------------------------------------------
(* Formats: boundary values of the header's fields, sequence numbers whose *)
(* first bytes look like a header, and names with and without odd labels.  *)

MCHeaderSpecs ==
    [mode : Modes, request_size : {0, 255, 256, 65535}, response_size : {0, 65536, 2147483647},
     latency_us : {None, 0, 70000}, error_rate : {None, 10000}]
MCPayloads == {<<>>, <<240, 10, 1, 0>>, [i \in 1..12 |-> 0]}
MCSeqs ==
    {0, 1, 240, 255, 256, 2800, 65535, 65536, 68335, 68336}
    \cup {a + 256 * b + 65536 * c : a \in {0, 240, 255}, b \in {9, 10, 11, 20, 255}, c \in 0..6}
MCQueries ==
    [txid : {1, 256, 61439, 65535}, recursion : BOOLEAN, dnssec : BOOLEAN,
     name : {<<>>, <<<<97>>>>, <<<<97, 98>>, <<97, 98, 99>>>>, <<<<97>>, <<>>, <<0, 1>>>>,
             <<[i \in 1..63 |-> 97], <<97>>>>}]

-----------------------------------------------------------------------------
(* Plugins: every runtime with responses of every kind; Lua without a      *)
(* response_config() or with one that fails; Rhai for the other protocols; *)
(* and hybrid plugins with several weights.                                *)

Object(fields) == [kind |-> "object", fields |-> fields]
Response(h, b, failed) ==
    [status |-> IF failed THEN 0 ELSE 1, error |-> failed, headers |-> h, body |-> b]

PlainPlugin ==
    [runtime |-> "LuaJIT", protocol |-> "http", on_response |-> TRUE,
     config |-> [kind |-> "given", headers |-> TRUE, body |-> TRUE],
     outputs |-> {Object({"method", "url"}), Object({"method"}), [kind |-> "error", fields |-> {}]},
     results |-> {Response("a", "text", FALSE), Response("b", "binary", FALSE),
                  Response("none", "none", TRUE)},
     weights |-> <<>>, updates |-> TRUE]

MCPluginTests ==
    {[PlainPlugin EXCEPT !.runtime = r] : r \in Runtimes \ {"Hybrid"}}
    \cup {[PlainPlugin EXCEPT !.config.kind = k, !.on_response = o] :
             k \in {"none", "fails"}, o \in BOOLEAN}
    \cup {[PlainPlugin EXCEPT !.runtime = "Rhai", !.protocol = p,
               !.outputs = {Object({"method"} \cup f) :
                              f \in SUBSET {"payload", "query_name", "command"}}
                           \cup {[kind |-> "other", fields |-> {}]},
               !.results = {Response("none", "none", FALSE)}] : p \in Protocols \ {"http"}}
    \cup {[PlainPlugin EXCEPT !.runtime = "Hybrid", !.on_response = FALSE,
               !.outputs = {Object({})}, !.results = {Response("none", "none", FALSE)},
               !.weights = w] : w \in {<<1>>, <<1, 1>>, <<2, 1>>, <<1, 2, 1>>}}

-----------------------------------------------------------------------------
(* The recorder of events: all the columns, or the lags and a header only, *)
(* with sampling.                                                          *)

FullSchema ==
    [co |-> TRUE, timing |-> TRUE, bytes |-> TRUE, errors |-> TRUE, header |-> TRUE,
     constant |-> TRUE, sampling |-> FALSE, threshold |-> 400, batch_size |-> 2]
MCEventSchemas ==
    {FullSchema, [FullSchema EXCEPT !.timing = FALSE, !.bytes = FALSE, !.errors = FALSE,
                                    !.constant = FALSE, !.sampling = TRUE]}
MCEventTimes == {<<1, 5, 6, 9>>}

-----------------------------------------------------------------------------
(* Metrics: a test for the sliding window, for the signals, for the        *)
(* saturation thresholds, and for each way to aggregate a header.          *)

PlainTelemetry ==
    [aggregation |-> "Max", polls |-> FALSE, outcomes |-> {"ok"}, values |-> {}, delays |-> {0},
     gaps |-> {1}, recorded |-> 2, fires |-> 0, pushes |-> 0, ticks |-> 4, waiting |-> 1]
MCTelemetryTests ==
    {[PlainTelemetry EXCEPT !.gaps = {1, 3}],
     [PlainTelemetry EXCEPT !.polls = TRUE, !.values = {2}, !.recorded = 1, !.pushes = 2, !.ticks = 3],
     [PlainTelemetry EXCEPT !.delays = {0, 6}, !.outcomes = {"ok", "slow", "error", "timeout"},
                            !.recorded = 1, !.fires = 2, !.ticks = 2]}
    \cup {[PlainTelemetry EXCEPT !.aggregation = a, !.values = {-1, 2}, !.ticks = 1, !.waiting = 2] :
             a \in {"Mean", "Max", "Last"}}

-----------------------------------------------------------------------------
(* What a variable of part p starts from: one of S, or d in a          *)
(* behaviour about another part.                                        *)
Choice(p, S, d) == IF focus = p THEN S ELSE {d}

WorkerInit ==
    /\ focus \in {"tcp", "udp", "loss", "redis", "resp", "http", "throttle", "wire",
                 "plugin", "events", "telemetry"}
    /\ tcp \in Choice("tcp", TcpConfigs, LongTcp) /\ ServerInit /\ ClientInit
    /\ dg \in Choice("udp", DgConfigs, PlainDg) /\ DgInit
    /\ redis \in Choice("redis", RedisConfigs, [password |-> FALSE, db |-> FALSE]) /\ RedisInit
    /\ http \in Choice("http", HttpConfigs, PlainHttp) /\ HttpInit
    /\ bucket \in Choice("throttle", Buckets, NewPacing(2)) /\ ThrottleInit
    /\ IF focus = "resp" THEN RespInit
       ELSE resp = [value |-> Nil, tail |-> <<>>, max_bytes |-> 30]
    /\ IF focus = "wire" THEN WireInit ELSE wire = [kind |-> "none"]
    /\ PluginInit /\ script.test \in Choice("plugin", PluginTests, PlainPlugin)
    /\ EventInit /\ schema \in Choice("events", EventSchemas, FullSchema)
    /\ TelemetryInit
    /\ observed \in Choice("telemetry", TelemetryTests, [PlainTelemetry EXCEPT !.gaps = {1, 3}])

-----------------------------------------------------------------------------
notTcp == <<focus, dgVars, redisVars, httpVars, throttleVars, formats, inWorker>>
notDg == <<focus, vars, redisVars, httpVars, throttleVars, formats, inWorker>>
notRedis == <<focus, vars, dgVars, httpVars, throttleVars, formats, inWorker>>
notHttp == <<focus, vars, dgVars, redisVars, throttleVars, formats, inWorker>>

TcpSteps == focus = "tcp" /\ Next /\ UNCHANGED notTcp
DatagramSteps == focus = "udp" /\ DgNext /\ UNCHANGED notDg
LossSteps == focus = "loss" /\ LossNext /\ UNCHANGED <<notDg, netVars, udpVars, dgServerVars>>
RedisSteps == focus = "redis" /\ RedisNext /\ UNCHANGED notRedis
HttpSteps == focus = "http" /\ HttpNext /\ UNCHANGED notHttp
ThrottleSteps ==
    /\ focus = "throttle" /\ ThrottleNext
    /\ UNCHANGED <<focus, vars, dgVars, redisVars, httpVars, formats, inWorker>>
PluginSteps ==
    /\ focus = "plugin" /\ PluginNext
    /\ UNCHANGED <<focus, transports, eventVars, telemetryVars>>
EventSteps ==
    /\ focus = "events" /\ EventNext
    /\ UNCHANGED <<focus, transports, pluginVars, telemetryVars>>
TelemetrySteps ==
    /\ focus = "telemetry" /\ TelemetryNext
    /\ UNCHANGED <<focus, transports, pluginVars, eventVars>>

WorkerNext ==
    \/ TcpSteps \/ DatagramSteps \/ LossSteps \/ RedisSteps \/ HttpSteps \/ ThrottleSteps
    \/ PluginSteps \/ EventSteps \/ TelemetrySteps

(* The timer of the runtime fires, and the runtime polls every task that   *)
(* can go on: the background reader and the handlers of the test servers.  *)
(* No server or network is assumed to answer.                              *)
TimerFires(t) ==
    \/ focus = "tcp" /\ Timeout(t) /\ UNCHANGED notTcp
    \/ /\ focus = "udp" /\ (UdpTimeout(t) \/ DnsTimeout(t))
       /\ UNCHANGED <<notDg, dgServerVars>>
    \/ focus = "redis" /\ RedisTimeout(t) /\ UNCHANGED notRedis
    \/ focus = "http" /\ HttpTimeout(t) /\ UNCHANGED notHttp
HandlerPolled(c) ==
    \/ focus = "tcp" /\ (Accept(c) \/ HandlerStep(c)) /\ UNCHANGED <<notTcp, clientVars>>
    \/ /\ focus = "udp" /\ c \in Ports /\ dispatch_connected_udp(c)
       /\ UNCHANGED <<notDg, lossVars, udpVars>>
ReaderPolled(c) ==
    \/ focus = "tcp" /\ BackgroundRead(c) /\ UNCHANGED notTcp
    \/ /\ focus = "udp" /\ c \in Ports /\ BidirReceives(c)
       /\ UNCHANGED <<notDg, lossVars, udpVars>>

WorkerSpec ==
    /\ WorkerInit /\ [][WorkerNext]_workerVars
    /\ \A t \in Tasks : WF_workerVars(TimerFires(t))
    /\ \A c \in ConnIds :
          WF_workerVars(HandlerPolled(c)) /\ WF_workerVars(ReaderPolled(c))

-----------------------------------------------------------------------------
Busy(t) ==
    \/ tasks[t].pc # "free" \/ dg_tasks[t].pc # "free"
    \/ redis_tasks[t].pc # "free" \/ http_tasks[t].pc # "free"

(* No request outlasts its timeout, on any transport and whatever the      *)
(* server and the network do (execute of the executors): a server that     *)
(* waits for more data than it will be sent, a lost datagram, a Redis that *)
(* never answers, a body that never ends.  The requests are finitely many, *)
(* so all of them have ended at some time.                                 *)
RequestsEnd == <>[](\A t \in Tasks : ~Busy(t))

(* The handler of a TCP connection whose client is gone returns, and the   *)
(* handler of a UDP peer that fell silent, both tasks of a Bidir session   *)
(* included.  A UDP Source session ends with its peer's socket only        *)
(* (handle_udp_source).                                                    *)
Deserted(c) ==
    \/ Handled(conns[c]) /\ ~ClientOpen(conns[c])
    \/ c \in Ports /\ Live(c) /\ sessions[c].mode # "Source"
HandlersEnd == <>[](\A c \in ConnIds : ~Deserted(c))

(* Everything that a worker or a test server has begun comes to its end.   *)
WorkEnds == RequestsEnd /\ HandlersEnd

=============================================================================
