-------------------------------- MODULE Redis -------------------------------
(***************************************************************************)
(* The Redis executor (netanvil-redis) of one worker: a pool of            *)
(* connections without a limit, AUTH and SELECT on every new one, and one  *)
(* command and its reply for every request.  The server is external: it    *)
(* answers the commands of a connection in order, with anything, and may   *)
(* close it.  resp.rs, which finds the replies in the stream, is in Resp.  *)
(***************************************************************************)
EXTENDS Integers, Sequences, FiniteSets, TLC

CONSTANTS
    RedisTasks,     \* requests that can be in flight
    RedisConns,     \* connections that can exist at a time
    RedisConfigs,   \* [password : BOOLEAN, db : BOOLEAN]
    MaxCommands     \* bound: requests

ASSUME RedisAssumption ==
    /\ IsFiniteSet(RedisTasks) /\ RedisConns \subseteq Nat \ {0}
    /\ RedisConfigs \subseteq [password : BOOLEAN, db : BOOLEAN] /\ MaxCommands \in Nat

VARIABLES
    redis,          \* the configuration
    redis_tasks,    \* RedisTasks -> [pc, conn, request]
    redis_conns,    \* RedisConns -> a connection
    redis_pool,     \* pool: idle connections, the oldest first
    commands,       \* requests so far
    crossed         \* history: a request has reported the reply to another one

redisVars == <<redis, redis_tasks, redis_conns, redis_pool, commands, crossed>>

(* asked: commands that the server has not answered; replies: answers that *)
(* the client has not read; granted: commands of the set-up that the       *)
(* server has accepted.                                                    *)
NoRedisConn == [open |-> FALSE, closed |-> FALSE, asked |-> <<>>, replies |-> <<>>, granted |-> {}]
NoRequest == [pc |-> "free", conn |-> 0, request |-> "none"]

RedisInit ==
    /\ redis \in RedisConfigs
    /\ redis_tasks = [t \in RedisTasks |-> NoRequest]
    /\ redis_conns = [c \in RedisConns |-> NoRedisConn]
    /\ redis_pool = <<>>
    /\ commands = 0
    /\ crossed = FALSE

-----------------------------------------------------------------------------
(* The server and the network.  A nil is a value with another status.      *)
RedisAnswers(c) ==
    LET k == redis_conns[c]
    IN  /\ k.asked # <<>> /\ ~k.closed
        /\ \E value \in {"value", "error", "malformed"} :
              redis_conns' = [redis_conns EXCEPT ![c].asked = Tail(@),
                  ![c].replies = Append(@, [to |-> Head(k.asked), value |-> value]),
                  ![c].granted = IF value = "value" THEN @ \cup {Head(k.asked)} ELSE @]
        /\ UNCHANGED <<redis, redis_tasks, redis_pool, commands, crossed>>

RedisCloses(c) ==
    /\ redis_conns[c].open /\ ~redis_conns[c].closed
    /\ redis_conns' = [redis_conns EXCEPT ![c].closed = TRUE, ![c].asked = <<>>]
    /\ UNCHANGED <<redis, redis_tasks, redis_pool, commands, crossed>>

-----------------------------------------------------------------------------
(* The next thing to do on a connection after what, and writing it.        *)
AfterSetup(done) ==
    IF "AUTH" \notin done /\ redis.password THEN "AUTH"
    ELSE IF "SELECT" \notin done /\ redis.db THEN "SELECT" ELSE "command"

(* write_all: the bytes are under way, or the connection turns out to be   *)
(* closed, and is dropped with the request.                                *)
EndRequest(t) == redis_tasks' = [redis_tasks EXCEPT ![t] = NoRequest]

Send(t, c, what, request, k) ==
    \/ /\ ~k.closed
       /\ redis_conns' = [redis_conns EXCEPT ![c] =
              [k EXCEPT !.asked = Append(@, IF what = "command" THEN request ELSE what)]]
       /\ redis_tasks' = [redis_tasks EXCEPT ![t] = [pc |-> what, conn |-> c, request |-> request]]
       /\ UNCHANGED crossed
    \/ /\ k.closed
       /\ redis_conns' = [redis_conns EXCEPT ![c] = NoRedisConn]
       /\ EndRequest(t) /\ UNCHANGED crossed

Pooled == redis_pool # <<>>

Popped == Tail(redis_pool)

(* execute, up to the first await: an idle connection, or a new one.       *)
RedisExecute(t) ==
    /\ redis_tasks[t].pc = "free"
    /\ commands < MaxCommands
    /\ commands' = commands + 1
    /\ IF Pooled
       THEN /\ redis_pool' = Popped
            /\ LET c == Head(redis_pool)
               IN  Send(t, c, "command", ToString(commands), redis_conns[c])
       ELSE /\ redis_tasks' = [redis_tasks EXCEPT ![t] =
                  [pc |-> "connect", conn |-> 0, request |-> ToString(commands)]]
            /\ UNCHANGED <<redis_conns, redis_pool, crossed>>
    /\ UNCHANGED redis

RedisConnect(t) ==
    /\ redis_tasks[t].pc = "connect"
    /\ LET closed == {c \in RedisConns : ~redis_conns[c].open}
           c == CHOOSE c \in closed : \A d \in closed : c <= d
       IN  /\ closed # {}
           /\ Send(t, c, AfterSetup({}), redis_tasks[t].request, [NoRedisConn EXCEPT !.open = TRUE])
    /\ UNCHANGED <<redis, redis_pool, commands>>

RedisConnectFails(t) ==
    /\ redis_tasks[t].pc = "connect"
    /\ EndRequest(t) /\ UNCHANGED crossed
    /\ UNCHANGED <<redis, redis_conns, redis_pool, commands>>

Refused(reply) == reply.value \in {"error", "malformed"}

(* send_command has its reply: the next command of the set-up, the command *)
(* itself, or the end.                                                     *)
RedisSetup(t) ==
    LET c == redis_tasks[t].conn
        k == redis_conns[c]
        reply == Head(k.replies)
    IN  /\ redis_tasks[t].pc \in {"AUTH", "SELECT"}
        /\ k.replies # <<>>
        /\ IF Refused(reply)
           THEN redis_conns' = [redis_conns EXCEPT ![c] = NoRedisConn] /\ EndRequest(t) /\ UNCHANGED crossed
           ELSE Send(t, c, AfterSetup(IF redis_tasks[t].pc = "AUTH" THEN {"AUTH"} ELSE {"AUTH", "SELECT"}),
                     redis_tasks[t].request, [k EXCEPT !.replies = Tail(@)])
        /\ UNCHANGED <<redis, redis_pool, commands>>

(* The reply to the command: the connection goes back to the pool also     *)
(* when the reply is an error, unless it cannot be read.                   *)
RedisReply(t) ==
    LET c == redis_tasks[t].conn
        reply == Head(redis_conns[c].replies)
    IN  /\ redis_tasks[t].pc = "command"
        /\ redis_conns[c].replies # <<>>
        /\ IF reply.value = "malformed"
           THEN redis_conns' = [redis_conns EXCEPT ![c] = NoRedisConn] /\ UNCHANGED redis_pool
           ELSE /\ redis_conns' = [redis_conns EXCEPT ![c].replies = Tail(@)]
                /\ redis_pool' = Append(redis_pool, c)
        /\ EndRequest(t)
        /\ crossed' = (crossed \/ reply.to # redis_tasks[t].request)
        /\ UNCHANGED <<redis, commands>>

(* The stream ends before the reply.                                       *)
RedisEof(t) ==
    LET c == redis_tasks[t].conn
    IN  /\ redis_tasks[t].pc \in {"AUTH", "SELECT", "command"}
        /\ redis_conns[c].closed /\ redis_conns[c].replies = <<>>
        /\ redis_conns' = [redis_conns EXCEPT ![c] = NoRedisConn]
        /\ EndRequest(t) /\ UNCHANGED crossed
        /\ UNCHANGED <<redis, redis_pool, commands>>

(* Faulty variant of RedisTimeout: a connection that has been set up is    *)
(* kept.                                                                   *)
RedisTimeoutKeeps(t) ==
    LET c    == redis_tasks[t].conn
        kept == redis_tasks[t].pc = "command"
    IN  /\ redis_tasks[t].pc # "free"
        /\ redis_pool' = IF kept THEN Append(redis_pool, c) ELSE redis_pool
        /\ redis_conns' = IF kept \/ c = 0 THEN redis_conns ELSE [redis_conns EXCEPT ![c] = NoRedisConn]
        /\ EndRequest(t) /\ UNCHANGED crossed
        /\ UNCHANGED <<redis, commands>>

(* The timeout drops the future, and with it the connection.               *)
RedisTimeout(t) ==
    LET c == redis_tasks[t].conn
    IN  /\ redis_tasks[t].pc # "free"
        /\ redis_conns' = IF c = 0 THEN redis_conns ELSE [redis_conns EXCEPT ![c] = NoRedisConn]
        /\ EndRequest(t) /\ UNCHANGED crossed
        /\ UNCHANGED <<redis, redis_pool, commands>>

RedisStep(t) ==
    \/ RedisExecute(t) \/ RedisConnect(t) \/ RedisConnectFails(t) \/ RedisSetup(t)
    \/ RedisReply(t) \/ RedisEof(t) \/ RedisTimeout(t)
RedisNext ==
    \/ \E t \in RedisTasks : RedisStep(t)
    \/ \E c \in RedisConns : RedisAnswers(c) \/ RedisCloses(c)

RedisSpec == RedisInit /\ [][RedisNext]_redisVars

-----------------------------------------------------------------------------
(* The reply that a request reports is that of its own command: no reply   *)
(* to a request that gave up is left in a connection of the pool.          *)
RepliesOwn == ~crossed

(* A command is sent only on a connection on which the server has accepted *)
(* the password and the database.                                          *)
SetUpFirst ==
    \A t \in RedisTasks : redis_tasks[t].pc = "command" =>
        LET granted == redis_conns[redis_tasks[t].conn].granted
        IN  (redis.password => "AUTH" \in granted) /\ (redis.db => "SELECT" \in granted)

(* The pool has no limit, and needs none: there are never more connections *)
(* than requests have been in flight at a time.                            *)
ConnectionsBounded == Cardinality({c \in RedisConns : redis_conns[c].open}) <= Cardinality(RedisTasks)

(* A connection is in the pool once, or used by one request.               *)
RedisOwnedOnce ==
    \A c \in RedisConns : redis_conns[c].open =>
        Cardinality({i \in DOMAIN redis_pool : redis_pool[i] = c})
            + Cardinality({t \in RedisTasks : redis_tasks[t].conn = c}) = 1

(* A connection is set up before it is used, has one owner, and carries    *)
(* nothing over from one request to the next (acquire_connection,          *)
(* do_execute).                                                            *)
RedisInv == RepliesOwn /\ SetUpFirst /\ ConnectionsBounded /\ RedisOwnedOnce

=============================================================================
