------------------------------- MODULE Plugin -------------------------------
(***************************************************************************)
(* Plugin generators (netanvil-plugin, -luajit, -lua54, -v8) and the part  *)
(* of the I/O worker that drives them (netanvil-core, io_worker.rs): a     *)
(* script makes every request, and is shown the responses if it wants      *)
(* them.  The runtimes differ in what they keep between two calls: Lua and *)
(* V8 reuse one result object, Rhai makes a map, WASM a byte buffer.       *)
(* A hybrid plugin is asked once and its configuration is run natively.    *)
(***************************************************************************)
EXTENDS Naturals, Sequences, FiniteSets, SequencesExt, FiniteSetsExt

CONSTANTS
    PluginTests,        \* the plugins that are looked at, see PluginTest
    ResponseCapacity,   \* capacity of the response channel, 1024 in the code
    MaxFires,           \* bound: requests of the worker
    MaxTargets          \* bound: target lists the worker is sent

Runtimes == {"LuaJIT", "Lua54", "V8", "WASM", "Rhai", "Hybrid"}
Protocols == {"http", "tcp", "udp", "dns", "redis"}
SpecFields == {"method", "url", "query_name", "command", "payload"}

(* config is what response_config() says ("none" when the script has no    *)
(* such function), outputs is what generate() may do: return an object     *)
(* with some fields, something that is no object, or raise an error.       *)
(* results are the responses that may come; weights are a hybrid plugin's. *)
(* updates says whether the script has an update_targets() that works.     *)
PluginResults ==
    [status : 0..1, error : BOOLEAN, headers : {"none", "a", "b"},
     body : {"none", "text", "binary"}]
PluginTest ==
    [runtime : Runtimes, protocol : Protocols, on_response : BOOLEAN,
     config : [kind : {"none", "fails", "given"}, headers : BOOLEAN, body : BOOLEAN],
     outputs : SUBSET [kind : {"object", "other", "error"}, fields : SUBSET SpecFields],
     results : SUBSET PluginResults, weights : Seq(Nat \ {0}), updates : BOOLEAN]

ASSUME PluginAssumption ==
    /\ \A t \in PluginTests : t \in PluginTest
    /\ ResponseCapacity \in Nat \ {0} /\ MaxFires \in Nat /\ MaxTargets \in Nat

VARIABLES
    script,     \* the test, whether its generator runs, and what it keeps between calls
    worker,     \* where the worker is: "new", "await", "burst", "panicked"
    in_progress, \* requests in flight
    feedback,   \* the response channel: results, with the requests generated since they came
    told        \* history: the last response shown and what was shown of it, the ids
                \* that entered the channel and the ids shown, the patterns chosen

pluginVars == <<script, worker, in_progress, feedback, told>>

-----------------------------------------------------------------------------
(* Setup.                                                                  *)

NoData == [headers |-> FALSE, body |-> FALSE]
on_response_default == [headers |-> TRUE, body |-> FALSE]

(* ResponseConfig, as every runtime detects it.  WASM takes a              *)
(* response_config() that traps for "headers only", the same default.      *)
ResponseConfig(t) ==
    IF ~t.on_response THEN NoData
    ELSE IF t.config.kind # "given" THEN on_response_default
    ELSE [headers |-> t.config.headers, body |-> t.config.body]

(* The result object before the first response.                            *)
EmptyResult == [status |-> 0, error |-> FALSE, headers |-> "none", body |-> "none"]

PluginInit ==
    /\ \E t \in PluginTests :
          script = [test |-> t, cfg |-> NoData, table |-> EmptyResult, counter |-> 0,
                    generates |-> TRUE, sent |-> 0, targets |-> 0]
    /\ worker = "new"
    /\ in_progress = {}
    /\ feedback = <<>>
    /\ told = [of |-> EmptyResult, saw |-> EmptyResult, entered |-> <<>>, shown |-> <<>>,
               chosen |-> <<>>]

(* What can be wrong with a script: it does not run, its init() fails, it  *)
(* has no generate().                                                      *)
Loads == {"good", "broken", "init fails", "no generate"}

(* new() of the runtimes, by the scripts it takes.  Lua and Rhai find out  *)
(* at the first request that there is no generate(); V8 does not look at   *)
(* the outcome of init(), Rhai does not call it.                           *)
LuaJitNew == {"good", "no generate"}
Lua54New == {"good", "no generate"}
V8New == {"good", "init fails"}
RhaiNew == Loads \ {"broken"}
WasmNew == {"good"}
HybridNew == Loads

NewTakes(runtime) ==
    CASE runtime = "LuaJIT" -> LuaJitNew [] runtime = "Lua54" -> Lua54New
      [] runtime = "V8" -> V8New [] runtime = "Rhai" -> RhaiNew
      [] runtime = "WASM" -> WasmNew [] runtime = "Hybrid" -> HybridNew

(* The factory of the worker expects new() to succeed.                     *)
PluginNew ==
    /\ worker = "new"
    /\ \E load \in Loads :
          /\ worker' = IF load \in NewTakes(script.test.runtime) THEN "await" ELSE "panicked"
          /\ script' = [script EXCEPT !.cfg = ResponseConfig(script.test),
                           !.generates = load # "no generate" \/ script.test.runtime = "Hybrid"]
    /\ UNCHANGED <<in_progress, feedback, told>>

-----------------------------------------------------------------------------
(* From what generate() returned to a request.                             *)

Fallback == "fallback"          \* the request of S::fallback()
Panic == "panic"                \* an expect() that fails
Made == "made"                  \* the request the script described

(* from_lua_table, from_rhai_map, from_v8_object: the fields without which *)
(* there is no request.  The target of a request that is not HTTP is not   *)
(* among them: the conversions leave it at 0.0.0.0:0.                      *)
from_lua_table(p) ==
    CASE p = "http" -> {"method", "url"} [] p = "dns" -> {"query_name"}
      [] p = "redis" -> {"command"} [] p \in {"tcp", "udp"} -> {}

from_lua54_table(p) == {"method", "url"}

from_rhai_map(p) ==
    CASE p = "http" -> {"url"} [] p = "dns" -> {"query_name"}
      [] p = "redis" -> {"command"} [] p \in {"tcp", "udp"} -> {}

from_v8_object(p) ==
    CASE p = "http" -> {"method", "url"} [] p = "dns" -> {"query_name"}
      [] p \in {"tcp", "udp"} -> {}

(* The protocols a runtime has a conversion for.                           *)
Speaks(r) ==
    CASE r \in {"LuaJIT", "Rhai", "WASM"} -> Protocols
      [] r = "V8" -> Protocols \ {"redis"}
      [] r \in {"Lua54", "Hybrid"} -> {"http"}

Convert(needed, out) == IF needed \subseteq out.fields THEN Made ELSE Fallback

LuaJitGenerate(p, out) ==
    IF out.kind # "object" THEN Panic ELSE Convert(from_lua_table(p), out)

Lua54Generate(p, out) ==
    IF out.kind # "object" THEN Panic ELSE Convert(from_lua54_table(p), out)

RhaiGenerate(p, out) ==
    IF out.kind # "object" THEN Panic ELSE Convert(from_rhai_map(p), out)

(* A JavaScript exception is a fallback.                                   *)
V8Generate(p, out) ==
    IF out.kind # "object" THEN Fallback ELSE Convert(from_v8_object(p), out)

(* A guest encodes whole structures: the fields are all there, or the      *)
(* bytes do not decode.                                                    *)
from_postcard_bytes(out) == IF out.kind = "object" THEN Made ELSE Fallback

(* A trap panics.                                                          *)
WasmGenerate(out) == IF out.kind = "error" THEN Panic ELSE from_postcard_bytes(out)

Generated(t, out) ==
    CASE t.runtime = "LuaJIT" -> LuaJitGenerate(t.protocol, out)
      [] t.runtime = "Lua54" -> Lua54Generate(t.protocol, out)
      [] t.runtime = "Rhai" -> RhaiGenerate(t.protocol, out)
      [] t.runtime = "V8" -> V8Generate(t.protocol, out)
      [] t.runtime = "WASM" -> WasmGenerate(out)
      [] t.runtime = "Hybrid" -> Made

-----------------------------------------------------------------------------
(* HybridGenerator.                                                        *)

(* Cumulative weights, in halves.                                          *)
Cumulative(w) == [i \in DOMAIN w |-> 2 * FoldLeft(+, 0, SubSeq(w, 1, i))]

(* counter % total_weight + 0.5, in halves.                                *)
Position(counter, total) == (counter % total) * 2 + 1

select_pattern(w, counter) ==
    IF Len(w) = 1 THEN 1
    ELSE LET c == Cumulative(w)
             fits == {i \in DOMAIN w : Position(counter, Last(c) \div 2) <= c[i]}
         IN IF fits = {} THEN 1 ELSE Min(fits)

-----------------------------------------------------------------------------
(* What a script is shown of a response.                                   *)

(* Faulty variant: the headers of a response are added to what is there.   *)
HeadersSetKept(old, r) == IF r.headers = "none" THEN old.headers ELSE r.headers

(* The headers object is emptied and filled.                               *)
HeadersSet(old, r) == r.headers

(* update_result_table of the two Lua runtimes: the object is kept, every  *)
(* field of it is set again.                                               *)
LuaJitResult(old, r, cfg) ==
    [status |-> r.status, error |-> r.error,
     headers |-> IF cfg.headers THEN HeadersSet(old, r) ELSE old.headers,
     body |-> IF cfg.body THEN r.body ELSE old.body]

Lua54Result(old, r, cfg) ==
    [status |-> r.status, error |-> r.error,
     headers |-> IF cfg.headers THEN HeadersSet(old, r) ELSE old.headers,
     body |-> IF cfg.body THEN r.body ELSE old.body]

(* V8 strings are text: a body that is not UTF-8 is null.                  *)
V8Result(old, r, cfg) ==
    [status |-> r.status, error |-> r.error,
     headers |-> IF cfg.headers THEN HeadersSet(old, r) ELSE old.headers,
     body |-> IF cfg.body THEN (IF r.body = "text" THEN "text" ELSE "none") ELSE old.body]

(* on_response of Rhai: a new map, without headers and body whatever       *)
(* response_config() says.                                                 *)
RhaiResult(r) == [EmptyResult EXCEPT !.status = r.status, !.error = r.error]

(* RawResult and ResponseVarData: the variable part is sent when there is  *)
(* an error, or something that was asked for.                              *)
WasmResult(r, cfg) ==
    LET needs_var == \/ r.error
                     \/ cfg.headers /\ r.headers # "none"
                     \/ cfg.body /\ r.body # "none"
    IN [status |-> r.status, error |-> needs_var /\ r.error,
        headers |-> IF needs_var /\ cfg.headers THEN r.headers ELSE "none",
        body |-> IF needs_var /\ cfg.body THEN r.body ELSE "none"]

Shown(old, r) ==
    CASE script.test.runtime = "LuaJIT" -> LuaJitResult(old, r, script.cfg)
      [] script.test.runtime = "Lua54" -> Lua54Result(old, r, script.cfg)
      [] script.test.runtime = "V8" -> V8Result(old, r, script.cfg)
      [] script.test.runtime = "WASM" -> WasmResult(r, script.cfg)
      [] script.test.runtime = "Rhai" -> RhaiResult(r)

-----------------------------------------------------------------------------
(* The worker.                                                             *)

(* while let Ok(result) = rx.try_recv() { on_response }: what the script   *)
(* keeps and what it was told once the channel is empty.                   *)
Delivered ==
    FoldLeft(LAMBDA s, f : [table |-> Shown(s.table, f.result), of |-> f.result,
                            shown |-> Append(s.shown, f.id)],
             [table |-> script.table, of |-> told.of, shown |-> told.shown], feedback)

BurstDelivers == TRUE

(* generate() of a hybrid plugin: the pattern of the next request.         *)
Chosen ==
    IF script.test.runtime # "Hybrid" THEN <<>>
    ELSE <<select_pattern(script.test.weights, script.counter)>>

(* What the call of generate() may come to.                                *)
Outputs ==
    IF script.generates THEN script.test.outputs ELSE {[kind |-> "error", fields |-> {}]}

(* The responses are shown and the next request is generated and started.  *)
(* "deliver" is false for the first request after a wait: the channel was  *)
(* emptied before the wait.                                                *)
Generate(deliver) ==
    LET d == IF deliver THEN Delivered
             ELSE [table |-> script.table, of |-> told.of, shown |-> told.shown]
        left == IF deliver THEN <<>> ELSE feedback
        id == script.counter + 1
    IN \E out \in Outputs :
          /\ script.counter < MaxFires
          /\ worker' = IF Generated(script.test, out) = Panic THEN "panicked" ELSE "burst"
          /\ script' = [script EXCEPT !.table = d.table, !.counter = @ + 1]
          /\ told' = [told EXCEPT !.of = d.of, !.saw = d.table, !.shown = d.shown,
                         !.chosen = @ \o Chosen]
          /\ in_progress' = IF Generated(script.test, out) = Panic THEN in_progress
                             ELSE in_progress \cup {id}
          /\ feedback' = [i \in DOMAIN left |-> [left[i] EXCEPT !.age = @ + 1]]

(* A fire that ends the wait, and one that was waiting behind it.          *)
FirstFire == worker = "await" /\ Generate(FALSE)
BurstFire == worker = "burst" /\ Generate(BurstDelivers)

(* update_targets: Lua, V8 and WASM call the script's function, Rhai sets  *)
(* the variable the script reads, a hybrid plugin does nothing.            *)
NewTargets ==
    IF script.test.runtime = "Rhai" \/ (script.test.runtime # "Hybrid" /\ script.test.updates)
    THEN script.sent + 1 ELSE script.targets

UpdateTargets(deliver) ==
    /\ script.sent < MaxTargets
    /\ worker' = "burst"
    /\ script' = [script EXCEPT !.sent = @ + 1, !.targets = NewTargets,
                     !.table = IF deliver THEN Delivered.table ELSE @]
    /\ told' = IF ~deliver THEN told
               ELSE [told EXCEPT !.of = Delivered.of, !.saw = Delivered.table,
                                 !.shown = Delivered.shown]
    /\ feedback' = IF deliver THEN <<>> ELSE feedback
    /\ UNCHANGED in_progress

FirstUpdate == worker = "await" /\ UpdateTargets(FALSE)
BurstUpdate == worker = "burst" /\ UpdateTargets(BurstDelivers)

(* The burst is over: the channel is emptied at the top of the loop.       *)
BurstEnds ==
    /\ worker = "burst"
    /\ worker' = "await"
    /\ script' = [script EXCEPT !.table = Delivered.table]
    /\ told' = [told EXCEPT !.of = Delivered.of, !.saw = Delivered.table, !.shown = Delivered.shown]
    /\ feedback' = <<>>
    /\ UNCHANGED in_progress

(* try_send: a response that finds the channel full is dropped.            *)
Enqueued(f) == IF Len(feedback) < ResponseCapacity THEN Append(feedback, f) ELSE feedback

(* A request ends while the worker waits, or yields within a burst.        *)
RequestEnds ==
    /\ worker \in {"await", "burst"}
    /\ \E id \in in_progress, r \in script.test.results :
          /\ in_progress' = in_progress \ {id}
          /\ feedback' = IF script.test.on_response
                          THEN Enqueued([id |-> id, result |-> r, age |-> 0]) ELSE feedback
          /\ told' = IF feedback' = feedback THEN told
                     ELSE [told EXCEPT !.entered = Append(@, id)]
    /\ UNCHANGED <<script, worker>>

PluginNext ==
    \/ PluginNew \/ FirstFire \/ BurstFire \/ FirstUpdate \/ BurstUpdate
    \/ BurstEnds \/ RequestEnds

-----------------------------------------------------------------------------
(* A script sees a response as it is, in the parts it asked for and its    *)
(* runtime can carry: nothing of an earlier response is left in the object *)
(* that is reused (on_response of the runtimes).                           *)
SeenExact ==
    LET r == told.of  rt == script.test.runtime IN
    told.shown # <<>> =>
        told.saw = [status |-> r.status, error |-> r.error,
                    headers |-> IF script.cfg.headers /\ rt # "Rhai" THEN r.headers ELSE "none",
                    body |-> IF ~script.cfg.body \/ rt = "Rhai" THEN "none"
                             ELSE IF rt = "V8" /\ r.body = "binary" THEN "none" ELSE r.body]

(* Responses that entered the channel are shown once each, in the order in *)
(* which they ended.                                                       *)
ShownInOrder == told.shown \o [i \in DOMAIN feedback |-> feedback[i].id] = told.entered

(* A response is shown before the second request that is generated after   *)
(* it; before the first one only if that is not the one that ends a wait.  *)
ShownSoon == \A i \in DOMAIN feedback : feedback[i].age <= 1

(* Of any total_weight requests in a row a hybrid plugin makes exactly     *)
(* weight many with each pattern (select_pattern), for weights that are    *)
(* whole numbers.                                                          *)
HybridShares ==
    LET w == script.test.weights
        total == FoldLeft(+, 0, w)
    IN script.test.runtime = "Hybrid" =>
          \A n \in 0..(Len(told.chosen) - total), i \in DOMAIN w :
              Cardinality({k \in n + 1..n + total : told.chosen[k] = i}) = w[i]

(* A plugin that names a method makes the same requests in every runtime   *)
(* that has the protocol, as long as it returns an object: a port of a     *)
(* plugin to another language changes nothing.                             *)
RuntimesAgree ==
    LET t == script.test
        like == {r \in {"LuaJIT", "Lua54", "Rhai", "V8"} : t.protocol \in Speaks(r)}
    IN \A out \in t.outputs, r, s \in like :
          out.kind = "object" /\ "method" \in out.fields =>
              Generated([t EXCEPT !.runtime = r], out) = Generated([t EXCEPT !.runtime = s], out)

(* A script is shown the responses as they are, in order and in time, and  *)
(* what it returns means the same in every runtime.                        *)
PluginInv == SeenExact /\ ShownInOrder /\ ShownSoon /\ HybridShares /\ RuntimesAgree

=============================================================================
