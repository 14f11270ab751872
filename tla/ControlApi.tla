----------------------------- MODULE ControlApi -----------------------------
(***************************************************************************)
(* The control endpoints of a test (netanvil-api): the ControlServer of a  *)
(* test that was started on the command line (server.rs), which has one    *)
(* command channel for the life of its process, and those of the agent     *)
(* (agent.rs), whose channel is the one of the test that runs.  A call is  *)
(* one HTTP request; its handler runs to its next await without            *)
(* interruption by other handlers, not by the thread of the coordinator.   *)
(* The coordinator takes the commands at its ticks (netanvil-core).        *)
(***************************************************************************)
EXTENDS Naturals, Sequences, FiniteSets, SequencesExt

CONSTANTS
    ApiServers,     \* "control", "agent"
    ApiRates,       \* rates a call may ask for
    ApiTests,       \* bound: tests of the agent
    MaxCalls        \* bound: calls

ASSUME ApiAssumption ==
    /\ ApiServers \subseteq {"control", "agent"}
    /\ ApiRates \subseteq Nat \ {0}
    /\ ApiTests \in Nat \ {0} /\ MaxCalls \in Nat

Calls == 1..MaxCalls
NotHeld == 0            \* HoldState::Released

VARIABLES
    api,            \* the server, the running test (0: none) and the tests started so far
    calls,          \* every call: its endpoint, the test it reached for and its answer
    channel,        \* per test: the command channel
    batch,          \* per test: commands the tick has collected
    loop,           \* per test: where its coordinator is
    held,           \* per test: hold_state
    lists           \* per test: the calls whose targets or headers are in force

apiVars == <<api, calls, channel, batch, loop, held, lists>>

NewCall == [kind |-> "none", v |-> 0, test |-> 0, pc |-> "none", answer |-> "none",
            slot |-> "empty", view |-> NotHeld, expect |-> NotHeld]

ApiInit ==
    /\ \E s \in ApiServers :
          api = IF s = "control" THEN [server |-> s, tx |-> 1, started |-> 1]
                                 ELSE [server |-> s, tx |-> 0, started |-> 0]
    /\ calls = [c \in Calls |-> NewCall]
    /\ channel = [t \in 1..ApiTests |-> <<>>]
    /\ batch = [t \in 1..ApiTests |-> <<>>]
    /\ loop = [t \in 1..ApiTests |-> IF t <= api.started THEN "sleep" ELSE "none"]
    /\ held = [t \in 1..ApiTests |-> NotHeld]
    /\ lists = [t \in 1..ApiTests |-> [targets |-> 0, headers |-> 0]]

-----------------------------------------------------------------------------
(* Sending a command.                                                      *)

Holds(cmd) == calls[cmd].kind \in {"rate", "hold", "release"}

(* What hold_state will be once every command sent so far is handled.      *)
HoldAhead(t) ==
    LET q == SelectSeq(batch[t] \o channel[t], Holds)
    IN IF q = <<>> THEN held[t] ELSE calls[Last(q)].v

(* flume: the send fails once the receiver is dropped, and the handlers    *)
(* ignore it; the response channel goes with the command.                  *)
Sent(c, k, x, t) ==
    LET open == loop[t] # "gone"
        asks == k \in {"info", "update"}
    IN /\ channel' = IF open THEN [channel EXCEPT ![t] = Append(@, c)] ELSE channel
       /\ calls' = [calls EXCEPT ![c] =
             [kind |-> k, v |-> x, test |-> IF @.test = 0 THEN t ELSE @.test,
              pc |-> IF asks THEN "waiting" ELSE "done",
              answer |-> IF asks THEN "none" ELSE "ok",
              slot |-> IF open THEN "empty" ELSE "dropped",
              view |-> NotHeld, expect |-> HoldAhead(t)]]

NextCall(c) == calls[c].kind = "none" /\ \A d \in Calls : d < c => calls[d].kind # "none"

(* A call whose body is not what the endpoint expects: 400.                *)
json_or_error(c) ==
    /\ NextCall(c)
    /\ calls' = [calls EXCEPT ![c].kind = "bad", ![c].pc = "done", ![c].answer = "bad"]
    /\ UNCHANGED <<api, channel, batch, loop, held, lists>>

-----------------------------------------------------------------------------
(* ControlServer: the sender is the server's own.                          *)

Send(c, k, x) ==
    /\ api.server = "control" /\ NextCall(c)
    /\ Sent(c, k, x, 1)
    /\ UNCHANGED <<api, batch, loop, held, lists>>

put_rate(c) == \E r \in ApiRates : Send(c, "hold", r)
put_hold(c) == \E r \in ApiRates : Send(c, "hold", r)
delete_hold(c) == Send(c, "release", NotHeld)
get_controller(c) == Send(c, "info", 0)
put_controller(c) == Send(c, "update", 0)
put_targets(c) == Send(c, "targets", c)
put_headers(c) == Send(c, "headers", c)
post_stop(c) == Send(c, "stop", 0)

ControlServer(c) ==
    \/ put_rate(c) \/ put_hold(c) \/ delete_hold(c) \/ get_controller(c) \/ put_controller(c)
    \/ put_targets(c) \/ put_headers(c) \/ post_stop(c)

-----------------------------------------------------------------------------
(* Agent: the sender is taken from AgentInner under its lock, and used     *)
(* after the lock is released.                                             *)

(* require_command_tx: no test runs, 409.                                  *)
require_command_tx(c) ==
    /\ api.server = "agent" /\ NextCall(c)
    /\ api.tx = 0
    /\ calls' = [calls EXCEPT ![c].kind = "refused", ![c].pc = "done", ![c].answer = "conflict"]
    /\ UNCHANGED <<api, channel, batch, loop, held, lists>>

Take(c, k, x) ==
    /\ api.server = "agent" /\ NextCall(c)
    /\ api.tx # 0
    /\ calls' = [calls EXCEPT ![c].kind = k, ![c].v = x, ![c].test = api.tx, ![c].pc = "taken"]
    /\ UNCHANGED <<api, channel, batch, loop, held, lists>>

(* PUT /rate of an agent is UpdateRate, which holds the rate as well.      *)
agent_put_rate(c) == \E r \in ApiRates : Take(c, "rate", r)
agent_put_hold(c) == \E r \in ApiRates : Take(c, "hold", r)
agent_delete_hold(c) == Take(c, "release", NotHeld)
agent_get_controller(c) == Take(c, "info", 0)
agent_put_controller(c) == Take(c, "update", 0)
agent_put_targets(c) == Take(c, "targets", c)
agent_put_headers(c) == Take(c, "headers", c)
agent_post_stop(c) == Take(c, "stop", 0)

(* Faulty variant: the command goes to the test that runs by now.          *)
ReachedNow(c) == IF api.tx # 0 THEN api.tx ELSE calls[c].test

Reached(c) == calls[c].test

SendTaken(c) ==
    /\ calls[c].pc = "taken"
    /\ Sent(c, calls[c].kind, calls[c].v, Reached(c))
    /\ UNCHANGED <<api, batch, loop, held, lists>>

AgentServer(c) ==
    \/ agent_put_rate(c) \/ agent_put_hold(c) \/ agent_delete_hold(c) \/ agent_get_controller(c)
    \/ agent_put_controller(c) \/ agent_put_targets(c) \/ agent_put_headers(c)
    \/ agent_post_stop(c) \/ require_command_tx(c)

-----------------------------------------------------------------------------
(* Answers of GET and PUT /controller.                                     *)

Answered(c) ==
    /\ calls[c].pc = "waiting"
    /\ calls[c].slot # "empty"
    /\ calls' = [calls EXCEPT ![c].pc = "done",
                    ![c].answer = IF calls[c].slot = "dropped" THEN "failed" ELSE calls[c].slot]
    /\ UNCHANGED <<api, channel, batch, loop, held, lists>>

TimesOut(c) == calls[c].pc = "waiting"

(* Ten seconds without an answer.                                          *)
CallTimeout(c) ==
    /\ TimesOut(c) /\ calls[c].slot = "empty"
    /\ calls' = [calls EXCEPT ![c].pc = "done", ![c].answer = "failed"]
    /\ UNCHANGED <<api, channel, batch, loop, held, lists>>

-----------------------------------------------------------------------------
(* The coordinator of test t.                                              *)

Collected(t) == channel[t]

ApiCollect(t) ==
    /\ loop[t] = "sleep"
    /\ loop' = [loop EXCEPT ![t] = "commands"]
    /\ batch' = [batch EXCEPT ![t] = Collected(t)]
    /\ channel' = [channel EXCEPT ![t] = <<>>]
    /\ UNCHANGED <<api, calls, held, lists>>

(* apply_update accepts the update and applies it, or says why not.        *)
UpdateAnswers == {[applied |-> TRUE, slot |-> "ok"], [applied |-> FALSE, slot |-> "bad"]}

(* handle_external_command.  A response that nobody waits for is lost.     *)
ApiHandle(t) ==
    LET c == Head(batch[t])
        k == calls[c].kind
    IN /\ loop[t] \in {"commands", "stopping"} /\ batch[t] # <<>>
       /\ batch' = [batch EXCEPT ![t] = Tail(@)]
       /\ held' = IF Holds(c) THEN [held EXCEPT ![t] = calls[c].v] ELSE held
       /\ lists' = CASE k = "targets" -> [lists EXCEPT ![t].targets = c]
                     [] k = "headers" -> [lists EXCEPT ![t].headers = c]
                     [] OTHER -> lists
       /\ loop' = IF k = "stop" THEN [loop EXCEPT ![t] = "stopping"] ELSE loop
       /\ CASE k = "info" -> calls' = [calls EXCEPT ![c].slot = "ok", ![c].view = held[t]]
            [] k = "update" -> \E a \in UpdateAnswers :
                  calls' = [calls EXCEPT ![c].slot = a.slot, ![c].v = IF a.applied THEN 1 ELSE 0]
            [] OTHER -> UNCHANGED calls
       /\ UNCHANGED <<api, channel>>

(* The rest of the tick: it is the last one after a Stop, or at the end of *)
(* the test's time.                                                        *)
ApiTickEnds(t) ==
    /\ batch[t] = <<>>
    /\ \/ loop[t] = "commands" /\ loop' = [loop EXCEPT ![t] = "sleep"]
       \/ loop[t] \in {"commands", "stopping"} /\ loop' = [loop EXCEPT ![t] = "over"]
    /\ UNCHANGED <<api, calls, channel, batch, held, lists>>

(* The engine returns: commands that came after the last tick are dropped, *)
(* and their response channels with them.                                  *)
ApiEngineReturns(t) ==
    /\ loop[t] = "over"
    /\ loop' = [loop EXCEPT ![t] = "gone"]
    /\ channel' = [channel EXCEPT ![t] = <<>>]
    /\ calls' = [c \in Calls |-> IF c \in Range(channel[t])
                                 THEN [calls[c] EXCEPT !.slot = "dropped"] ELSE calls[c]]
    /\ UNCHANGED <<api, batch, held, lists>>

(* The end of the agent's test thread, and the next POST /test/start.      *)
AgentIdle(t) ==
    /\ api.server = "agent" /\ api.tx = t /\ loop[t] = "gone"
    /\ api' = [api EXCEPT !.tx = 0]
    /\ UNCHANGED <<calls, channel, batch, loop, held, lists>>

AgentStarts(t) ==
    /\ api.server = "agent" /\ api.tx = 0 /\ t = api.started + 1
    /\ api' = [api EXCEPT !.tx = t, !.started = t]
    /\ loop' = [loop EXCEPT ![t] = "sleep"]
    /\ UNCHANGED <<calls, channel, batch, held, lists>>

ApiCall(c) == json_or_error(c) \/ ControlServer(c) \/ AgentServer(c)
ApiAnswer(c) == SendTaken(c) \/ Answered(c) \/ CallTimeout(c)
ApiTest(t) ==
    \/ ApiCollect(t) \/ ApiHandle(t) \/ ApiTickEnds(t) \/ ApiEngineReturns(t)
    \/ AgentIdle(t) \/ AgentStarts(t)

ApiNext ==
    \/ \E c \in Calls : ApiCall(c) \/ ApiAnswer(c)
    \/ \E t \in 1..ApiTests : ApiTest(t)

-----------------------------------------------------------------------------
(* A client whose controller update is answered 200 or 400 is told what    *)
(* happened; only a 500 leaves it open (put_controller).                   *)
UpdateAnswerTrue ==
    \A c \in Calls : calls[c].kind = "update" =>
        /\ calls[c].answer = "ok" => calls[c].v = 1
        /\ calls[c].answer = "bad" => calls[c].v = 0

(* GET /controller shows the hold that was asked for by the calls answered *)
(* before it, whatever other clients sent and whichever tick answered.     *)
ViewCurrent ==
    \A c \in Calls :
        calls[c].kind = "info" /\ calls[c].answer = "ok" => calls[c].view = calls[c].expect

(* A command acts on the test whose sender its handler took, or on none:   *)
(* never on the test that was started meanwhile.                           *)
CommandsOwn ==
    \A t \in 1..ApiTests :
        /\ held[t] # NotHeld => \E c \in Calls : calls[c].test = t /\ calls[c].v = held[t]
        /\ \A c \in Range(channel[t]) \cup Range(batch[t]) : calls[c].test = t
        /\ \A c \in {lists[t].targets, lists[t].headers} \ {0} : calls[c].test = t

(* Every call of the controller endpoints is answered: by the coordinator, *)
(* by the end of the test, or by the handler's own time limit.  The calls  *)
(* are finitely many, so at some time none is left open.                   *)
CallsAnswered == <>[](\A c \in Calls : calls[c].pc \notin {"taken", "waiting"})

(* An answer of the control API is true, and a command acts on the test    *)
(* that its client has seen running.                                       *)
AnswersTrue == UpdateAnswerTrue /\ ViewCurrent /\ CommandsOwn

=============================================================================
