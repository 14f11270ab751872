------------------------------ MODULE TcpProofs -----------------------------
(***************************************************************************)
(* Proofs about a TCP test against the TCP test server, for every          *)
(* configuration and any number of requests and connections: who owns a    *)
(* stream, what the pool counts, how far the server is with what it was    *)
(* sent, how long a connection lives, and how many handlers there are      *)
(* (TcpInv).                                                               *)
(***************************************************************************)
EXTENDS Tcp, DataLemmas

-----------------------------------------------------------------------------
(* The TCP executor and the TCP test server.                               *)
TcpModes == {"Echo", "RR", "CRR", "Sink", "Source", "Bidir"}
Stages == {"none", "backlog", "closed", "first", "header", "reply"} \cup TcpModes
TcpSize == [request : 0..Window, response : 0..Window]
TcpConn ==
    [stage : Stages, held : BOOLEAN, reader : BOOLEAN,
     header_sent : BOOLEAN, request_count : Nat, header : 0..2, up : Nat, down : 0..Window,
     mode : TcpModes \cup {"none"}, size : TcpSize, left : Nat, answered : Nat]

(* A handler that has seen a header has a mode.                            *)
ModeKnown(k) == k.stage \in {"header", "reply", "RR", "CRR", "Bidir", "Sink", "Source"} => k.mode # "none"

OnConn == {"header", "write", "read"}
TaskOK(r, w) ==
    /\ r = [pc |-> r.pc, conn |-> r.conn, size |-> r.size]
    /\ r.pc \in {"free", "connecting"} \cup OnConn
    /\ r.pc # "free" => r.size \in w.sizes
    /\ r.pc \in OnConn => r.conn \in ConnIds
    /\ r.pc \notin OnConn => r.conn = 0
    /\ r.pc = "header" => w.mode # "Echo"

TcpTypes ==
    /\ tcp \in TcpConfigs
    /\ conns \in [ConnIds -> TcpConn] /\ \A c \in ConnIds : ModeKnown(conns[c])
    /\ idle \in Seq(ConnIds)
    /\ tasks = [t \in Tasks |-> tasks[t]] /\ \A t \in Tasks : TaskOK(tasks[t], tcp)

(* Every stream of the client has one owner: a request or the pool.        *)
TcpOwners ==
    /\ \A t \in Tasks : tasks[t].conn # 0 => conns[tasks[t].conn].held /\ ~ InPool(idle, tasks[t].conn)
    /\ \A t, u \in Tasks : tasks[t].conn # 0 /\ tasks[t].conn = tasks[u].conn => t = u
    /\ \A i, j \in 1..Len(idle) : idle[i] = idle[j] => i = j
    /\ \A c \in ConnIds : InPool(idle, c) => conns[c].held
    /\ \A c \in ConnIds : conns[c].held => InPool(idle, c) \/ \E t \in Tasks : tasks[t].conn = c

(* Where a connection of a transactional test is, in step with its owner:  *)
(* before the header, before the request, until the reply, and idle.       *)
OnItsWay(k) ==
    \/ k.stage \in {"backlog", "first"} /\ k.header = 2 /\ k.left = 0
    \/ k.stage = "header" /\ k.header = 1 /\ k.left = 0
    \/ k.stage = "RR" /\ k.header = 0
Told(k, s) == k.header_sent /\ ~k.reader /\ k.mode = "RR" /\ k.size = s
Unanswered(k) == k.down = 0 /\ k.answered = k.request_count
BeforeHeader(k) ==
    /\ ~k.header_sent /\ ~k.reader /\ k.mode = "none" /\ k.stage \in {"backlog", "first", "closed"}
    /\ k.header = 0 /\ k.up = 0 /\ k.left = 0 /\ Unanswered(k)
BeforeWrite(k, s) ==
    Told(k, s) /\ Unanswered(k) /\ (k.stage = "closed" \/ (k.up = 0 /\ k.left = 0 /\ OnItsWay(k)))
BeforeReply(k, s) ==
    /\ Told(k, s)
    /\ \/ OnItsWay(k) /\ k.up + k.left = s.request /\ Unanswered(k)
       \/ k.stage = "reply" /\ k.header = 0 /\ k.up = 0 /\ k.left = 0 /\ Unanswered(k)
       \/ /\ k.stage \in {"RR", "closed"} /\ k.header = 0 /\ k.up = 0 /\ k.left = 0
          /\ k.down = s.response /\ k.answered = k.request_count + 1
       \/ k.stage = "closed" /\ k.down < s.response
AtRest(k, s) ==
    Told(k, s) /\ Unanswered(k) /\ k.stage \in {"RR", "closed"} /\ k.header = 0 /\ k.up = 0 /\ k.left = 0

Pace(k, pc, s) ==
    /\ pc = "header" => BeforeHeader(k)
    /\ pc = "write" => BeforeWrite(k, s)
    /\ pc = "read" => BeforeReply(k, s)
    /\ pc = "idle" => AtRest(k, s)
InStep(k, pc, w) ==
    \A s \in TcpSize : w.mode = "RR" /\ w.sizes = {s} /\ s.request > 0 /\ s.response > 0 => Pace(k, pc, s)

TcpInStep ==
    /\ \A t \in Tasks : tasks[t].conn # 0 => InStep(conns[tasks[t].conn], tasks[t].pc, tcp)
    /\ \A c \in ConnIds : InPool(idle, c) => InStep(conns[c], "idle", tcp)

(* The pool counts every request that has or makes a connection, and those *)
(* whose connection a timeout took.                                        *)
InFlight == {t \in Tasks : tasks[t].pc # "free"}
Ended == results["ok"] + results["connect"] + results["protocol"] + results["timeout"]
TcpCounts ==
    /\ active \in Nat /\ IsFiniteSet(InFlight) /\ Cardinality(InFlight) <= active
    /\ tcp.max_connections > 0 => active + Len(idle) <= tcp.max_connections
    /\ requests \in Nat /\ requests <= MaxRequests /\ results \in [Outcomes -> Nat]
    /\ Ended + Cardinality(InFlight) = requests

(* No connection has carried more than its worker has counted, as long as  *)
(* the client has it.                                                      *)
Limited(w) == w.policy = "Mixed" /\ w.max_connections = 1 /\ w.limits # {}
Lived(k, w, y) == (k.held => k.request_count <= y.count) /\ \E n \in w.limits : k.request_count <= n + 1
TcpLife ==
    /\ lifecycle \in [count : Nat, limit : Nat]
    /\ Limited(tcp) => /\ lifecycle.limit \in tcp.limits /\ lifecycle.count <= lifecycle.limit
                       /\ \A c \in ConnIds : Lived(conns[c], tcp, lifecycle)

LiveHandlers == {c \in ConnIds : Handled(conns[c])}
TcpHandlers ==
    /\ handlers = Cardinality(LiveHandlers) /\ server \in {"up", "stopping", "down"}
    /\ tcp.server_max > 0 => handlers <= tcp.server_max

TcpIInv == TcpTypes /\ TcpOwners /\ TcpInStep /\ TcpCounts /\ TcpLife /\ TcpHandlers

(* The step of one request with one connection: c was its connection, or   *)
(* nobody's, or in the pool; it becomes its connection, is closed, or is   *)
(* put into the pool.                                                      *)
TcpMove(t, c, r, k) ==
    /\ k \in TcpConn /\ ModeKnown(k) /\ TaskOK(r, tcp) /\ tcp' = tcp
    /\ tasks' = [tasks EXCEPT ![t] = r] /\ conns' = [conns EXCEPT ![c] = k]
    /\ tasks[t].conn \in {0, c} /\ \A u \in Tasks : u # t => tasks[u].conn # c
    /\ r.conn \in {0, c} /\ (r.conn = c => k.held /\ InStep(k, r.pc, tcp))
    /\ idle' \in Seq(ConnIds)
    /\ \A i, j \in 1..Len(idle') : idle'[i] = idle'[j] => i = j
    /\ \A d \in ConnIds : d # c => (InPool(idle', d) <=> InPool(idle, d))
    /\ InPool(idle', c) => k.held /\ r.conn = 0 /\ InStep(k, "idle", tcp)
    /\ k.held => r.conn = c \/ InPool(idle', c)

(* Such a step leaves every record in its type, every connection with its  *)
(* owner, and the server in step with it.                                  *)
LEMMA OneTask ==
    ASSUME TcpTypes, TcpOwners, TcpInStep, NEW t \in Tasks, NEW c \in ConnIds, NEW r, NEW k, TcpMove(t, c, r, k)
    PROVE  TcpTypes' /\ TcpOwners' /\ TcpInStep'
  <1> USE DEF TcpMove
  <1>1. c # 0
    BY TcpAssumption
  <1>2. /\ conns' \in [ConnIds -> TcpConn] /\ conns'[c] = k
        /\ \A d \in ConnIds : d # c => conns'[d] = conns[d]
    BY DEF TcpTypes
  <1>3. /\ tasks'[t] = r /\ (\A u \in Tasks : u # t => tasks'[u] = tasks[u])
        /\ tasks' = [u \in Tasks |-> tasks'[u]]
    BY DEF TcpTypes
  <1>4. TcpTypes'
    <2>1. \A u \in Tasks : TaskOK(tasks'[u], tcp)
      BY <1>3, Zenon DEF TcpTypes
    <2> QED
      BY <1>2, <1>3, <2>1, Zenon DEF TcpTypes
  <1>5. /\ tasks'[t].conn = r.conn
        /\ \A u \in Tasks : u # t => tasks'[u].conn = tasks[u].conn /\ tasks[u].conn # c
    BY <1>3, Zenon
  <1>6. ASSUME NEW u \in Tasks, tasks'[u].conn # 0
        PROVE  /\ tasks'[u].conn \in ConnIds
               /\ conns'[tasks'[u].conn].held /\ ~ InPool(idle', tasks'[u].conn)
               /\ InStep(conns'[tasks'[u].conn], tasks'[u].pc, tcp)
    <2>1. CASE u = t
      <3>1. tasks'[u].conn = c /\ r.conn = c
        BY <1>5, <1>6, <2>1, Zenon
      <3>2. ~ InPool(idle', c)
        BY <1>1, <3>1, Zenon
      <3> QED
        BY <1>2, <1>3, <2>1, <3>1, <3>2, Zenon
    <2>2. CASE u # t
      <3> DEFINE d == tasks[u].conn
      <3>1. tasks'[u].conn = d /\ d # c /\ d # 0 /\ tasks'[u] = tasks[u]
        BY <1>3, <1>5, <1>6, <2>2, Zenon
      <3>2. d \in ConnIds
        BY <3>1, Zenon DEF TcpTypes, TaskOK
      <3>3. conns'[d] = conns[d] /\ conns[d].held /\ ~ InPool(idle, d) /\ InStep(conns[d], tasks[u].pc, tcp)
        BY <1>2, <3>1, <3>2, Zenon DEF TcpOwners, TcpInStep
      <3>4. ~ InPool(idle', d)
        BY <3>1, <3>2, <3>3, Zenon
      <3> HIDE DEF d
      <3> QED
        BY <3>1, <3>2, <3>3, <3>4, Zenon
    <2> QED
      BY <2>1, <2>2
  <1>7. \A u, v \in Tasks : tasks'[u].conn # 0 /\ tasks'[u].conn = tasks'[v].conn => u = v
    <2> SUFFICES ASSUME NEW u \in Tasks, NEW v \in Tasks, tasks'[u].conn # 0,
                        tasks'[u].conn = tasks'[v].conn
                 PROVE  u = v
      BY Zenon
    <2>1. CASE u # t /\ v # t
      <3>1. tasks[u].conn # 0 /\ tasks[u].conn = tasks[v].conn
        BY <1>5, <2>1
      <3> QED
        BY <3>1, Zenon DEF TcpOwners
    <2>2. CASE u = t /\ v # t
      BY <1>5, <2>2, Zenon
    <2>3. CASE u # t /\ v = t
      BY <1>5, <2>3, Zenon
    <2> QED
      BY <2>1, <2>2, <2>3, Zenon
  <1>8. \A d \in ConnIds : InPool(idle', d) => conns'[d].held /\ InStep(conns'[d], "idle", tcp)
    <2> SUFFICES ASSUME NEW d \in ConnIds, InPool(idle', d) PROVE conns'[d].held /\ InStep(conns'[d], "idle", tcp)
      BY Zenon
    <2>1. CASE d = c
      BY <1>2, <2>1, Zenon
    <2>2. CASE d # c
      BY <1>2, <2>2, Zenon DEF TcpOwners, TcpInStep
    <2> QED
      BY <2>1, <2>2
  <1>9. \A d \in ConnIds : conns'[d].held => InPool(idle', d) \/ \E u \in Tasks : tasks'[u].conn = d
    <2> SUFFICES ASSUME NEW d \in ConnIds, conns'[d].held PROVE InPool(idle', d) \/ \E u \in Tasks : tasks'[u].conn = d
      BY Zenon
    <2>1. CASE d = c
      BY <1>2, <1>5, <2>1, Zenon
    <2>2. CASE d # c
      <3>1. InPool(idle, d) \/ \E u \in Tasks : tasks[u].conn = d
        BY <1>2, <2>2, Zenon DEF TcpOwners
      <3>2. \A u \in Tasks : tasks[u].conn = d => u # t
        BY <1>1, <2>2, TcpAssumption
      <3> QED
        BY <1>5, <2>2, <3>1, <3>2, Zenon
    <2> QED
      BY <2>1, <2>2
  <1>10. TcpOwners'
    BY <1>6, <1>7, <1>8, <1>9, Zenon DEF TcpOwners
  <1>11. TcpInStep'
    BY <1>6, <1>8, ZenonT(30) DEF TcpInStep
  <1> QED
    BY <1>4, <1>10, <1>11

(* The request of t goes on without a connection.                          *)
LEMMA TaskAlone ==
    ASSUME TcpTypes, TcpOwners, TcpInStep, NEW t \in Tasks, NEW r, TaskOK(r, tcp), r.conn = 0, tasks[t].conn = 0,
           tasks' = [tasks EXCEPT ![t] = r], UNCHANGED <<tcp, conns, idle>>
    PROVE  TcpTypes' /\ TcpOwners' /\ TcpInStep'
  <1>1. /\ tasks'[t] = r /\ (\A u \in Tasks : u # t => tasks'[u] = tasks[u]) /\ tasks' = [u \in Tasks |-> tasks'[u]]
    BY DEF TcpTypes
  <1>2. tcp' = tcp /\ conns' = conns /\ idle' = idle
    OBVIOUS
  <1>3. \A u \in Tasks : tasks'[u].conn = tasks[u].conn /\ (tasks'[u].conn # 0 => tasks'[u] = tasks[u])
    BY <1>1, Zenon
  <1>4. TcpTypes'
    BY <1>1, <1>2, Zenon DEF TcpTypes
  <1>5. TcpOwners'
    <2>1. \A u \in Tasks : tasks'[u].conn # 0 => conns'[tasks'[u].conn].held /\ ~ InPool(idle', tasks'[u].conn)
      BY <1>2, <1>3, ZenonT(30) DEF TcpOwners
    <2>2. \A u, v \in Tasks : tasks'[u].conn # 0 /\ tasks'[u].conn = tasks'[v].conn => u = v
      BY <1>3 DEF TcpOwners
    <2>3. \A c \in ConnIds : conns'[c].held => InPool(idle', c) \/ \E u \in Tasks : tasks'[u].conn = c
      BY <1>2, <1>3 DEF TcpOwners
    <2>4. /\ \A i, j \in 1..Len(idle') : idle'[i] = idle'[j] => i = j
          /\ \A c \in ConnIds : InPool(idle', c) => conns'[c].held
      BY <1>2, Zenon DEF TcpOwners
    <2> QED
      BY <2>1, <2>2, <2>3, <2>4 DEF TcpOwners
  <1>6. TcpInStep'
    BY <1>2, <1>3, Zenon DEF TcpInStep
  <1> QED
    BY <1>4, <1>5, <1>6

(* The connections go on without their owners.                             *)
LEMMA ConnsAlone ==
    ASSUME TcpTypes, TcpOwners, TcpInStep, UNCHANGED <<tcp, tasks, idle>>, conns' \in [ConnIds -> TcpConn],
           \A c \in ConnIds : /\ ModeKnown(conns'[c]) /\ conns'[c].held = conns[c].held
                              /\ \A pc : conns[c].held /\ InStep(conns[c], pc, tcp) => InStep(conns'[c], pc, tcp)
    PROVE  TcpTypes' /\ TcpOwners' /\ TcpInStep'
  <1>1. tcp' = tcp /\ tasks' = tasks /\ idle' = idle
    OBVIOUS
  <1>2. \A t \in Tasks : tasks[t].conn # 0 => tasks[t].conn \in ConnIds
    BY Zenon DEF TcpTypes, TaskOK
  <1>3. TcpTypes'
    BY <1>1, Zenon DEF TcpTypes
  <1>4. TcpOwners'
    <2>1. \A t \in Tasks : tasks'[t].conn # 0 => conns'[tasks'[t].conn].held /\ ~ InPool(idle', tasks'[t].conn)
      BY <1>1, <1>2 DEF TcpOwners
    <2>2. \A c \in ConnIds : InPool(idle', c) => conns'[c].held
      BY <1>1 DEF TcpOwners
    <2>3. \A c \in ConnIds : conns'[c].held => InPool(idle', c) \/ \E t \in Tasks : tasks'[t].conn = c
      BY <1>1 DEF TcpOwners
    <2>4. /\ \A i, j \in 1..Len(idle') : idle'[i] = idle'[j] => i = j
          /\ \A t, u \in Tasks : tasks'[t].conn # 0 /\ tasks'[t].conn = tasks'[u].conn => t = u
      BY <1>1 DEF TcpOwners
    <2> QED
      BY <2>1, <2>2, <2>3, <2>4 DEF TcpOwners
  <1>5. TcpInStep'
    <2>1. \A t \in Tasks : tasks[t].conn # 0 => conns[tasks[t].conn].held /\ InStep(conns[tasks[t].conn], tasks[t].pc, tcp)
      BY Zenon DEF TcpInStep, TcpOwners
    <2>2. \A c \in ConnIds : InPool(idle, c) => conns[c].held /\ InStep(conns[c], "idle", tcp)
      BY Zenon DEF TcpInStep, TcpOwners
    <2>3. \A t \in Tasks : tasks[t].conn # 0 => InStep(conns'[tasks[t].conn], tasks[t].pc, tcp)
      BY <1>2, <2>1, Zenon
    <2>4. \A c \in ConnIds : InPool(idle, c) => InStep(conns'[c], "idle", tcp)
      BY <2>2, Zenon
    <2> QED
      BY <1>1, <2>3, <2>4, Zenon DEF TcpInStep
  <1> QED
    BY <1>3, <1>4, <1>5

(* What a configuration says.                                              *)
LEMMA ConfigIs ==
    ASSUME tcp \in TcpConfigs
    PROVE  /\ tcp.mode \in TcpModes /\ tcp.sizes \subseteq TcpSize /\ tcp.payload \in Nat /\ tcp.frame \in Nat
           /\ tcp.max_connections \in Nat /\ tcp.limits \subseteq Nat /\ tcp.server_max \in Nat
           /\ tcp.framing \in {"Raw", "Delimiter", "LengthPrefixed", "FixedSize"}
           /\ tcp.policy \in {"KeepAlive", "AlwaysNew", "NoReuse", "Mixed"} /\ tcp.response_max_bytes \in Nat
  <1>1. tcp \in Configuration /\ Window \in Nat
    BY TcpAssumption, Zenon
  <1> QED
    BY <1>1 DEF Configuration, TcpModes, TcpSize

(* The records a task and a connection start with.                         *)
LEMMA EmptyRecords ==
    /\ NoTask.pc = "free" /\ NoTask.conn = 0 /\ \A w : TaskOK(NoTask, w)
    /\ NoConn \in TcpConn /\ ModeKnown(NoConn) /\ ~NoConn.held /\ ~Handled(NoConn) /\ NoConn.request_count = 0
  <1>1. /\ NoTask.pc = "free" /\ NoTask.conn = 0 /\ "free" \notin OnConn /\ "free" # "header"
        /\ NoTask = [pc |-> NoTask.pc, conn |-> NoTask.conn, size |-> NoTask.size]
    BY DEF NoTask, OnConn
  <1>2. \A w : TaskOK(NoTask, w)
    BY <1>1, Zenon DEF TaskOK
  <1>3. /\ NoConn.stage = "none" /\ NoConn.held = FALSE /\ NoConn.request_count = 0
    BY DEF NoConn
  <1>4. NoConn \in TcpConn
    <2>1. Window \in Nat
      BY TcpAssumption
    <2>2. 0 \in 0..Window /\ 0 \in 0..2
      BY <2>1
    <2>3. [request |-> 0, response |-> 0] \in TcpSize
      BY <2>2 DEF TcpSize
    <2> DEFINE z == [request |-> 0, response |-> 0]
    <2>4. z \in TcpSize
      BY <2>3
    <2> HIDE DEF z
    <2> QED
      BY <2>2, <2>4 DEF NoConn, TcpConn, Stages, z
  <1>5. ModeKnown(NoConn) /\ ~Handled(NoConn)
    BY <1>3 DEF ModeKnown, Handled
  <1> QED
    BY <1>1, <1>2, <1>3, <1>4, <1>5, Zenon

(* A connection that both ends have closed is forgotten.                   *)
LEMMA SettleIs ==
    ASSUME NEW k \in TcpConn, ModeKnown(k)
    PROVE  /\ Settle(k) \in TcpConn /\ ModeKnown(Settle(k)) /\ Settle(k).held = k.held /\ (k.held => Settle(k) = k)
           /\ (Handled(Settle(k)) <=> Handled(k)) /\ Settle(k).request_count \in Nat
           /\ Settle(k).request_count <= k.request_count
  <1>1. k.held \in BOOLEAN /\ k.request_count \in Nat
    BY DEF TcpConn
  <1>2. CASE ~ClientOpen(k) /\ k.stage = "closed"
    <2>1. Settle(k) = NoConn
      BY <1>2, Zenon DEF Settle
    <2>2. k.held = FALSE /\ ~Handled(k)
      BY <1>1, <1>2 DEF ClientOpen, Handled
    <2>3. NoConn.held = FALSE
      BY DEF NoConn
    <2>4. 0 <= k.request_count
      BY <1>1
    <2>5. /\ NoConn \in TcpConn /\ ModeKnown(NoConn) /\ ~Handled(NoConn) /\ NoConn.request_count = 0
      BY EmptyRecords, Zenon
    <2>6. NoConn.request_count \in Nat /\ NoConn.request_count <= k.request_count
      BY <2>4, <2>5
    <2> QED
      BY <2>1, <2>2, <2>3, <2>5, <2>6, Zenon
  <1>3. CASE ~(~ClientOpen(k) /\ k.stage = "closed")
    <2>1. Settle(k) = k
      BY <1>3, Zenon DEF Settle
    <2> QED
      BY <1>1, <2>1
  <1> QED
    BY <1>2, <1>3

(* A handler is neither begun nor ended.                                   *)
LEMMA HandlersKept ==
    ASSUME TcpHandlers, conns \in [ConnIds -> TcpConn], NEW c \in ConnIds, NEW k, Handled(k) <=> Handled(conns[c]),
           conns' = [conns EXCEPT ![c] = k], UNCHANGED <<tcp, handlers, server>>
    PROVE  TcpHandlers'
  <1>1. conns'[c] = k /\ \A d \in ConnIds : d # c => conns'[d] = conns[d]
    OBVIOUS
  <1>2. LiveHandlers' = LiveHandlers
    BY <1>1, Zenon DEF LiveHandlers
  <1> QED
    BY <1>2, Zenon DEF TcpHandlers

(* A connection carries no request more, and the client gets none that     *)
(* has carried any.                                                        *)
LEMMA LifeKept ==
    ASSUME TcpTypes, TcpLife, NEW c \in ConnIds, NEW k, conns' = [conns EXCEPT ![c] = k], UNCHANGED <<tcp, lifecycle>>,
           k.request_count \in Nat, k.request_count <= conns[c].request_count,
           k.held => conns[c].held \/ k.request_count = 0
    PROVE  TcpLife'
  <1>1. tcp' = tcp /\ lifecycle' = lifecycle /\ lifecycle \in [count : Nat, limit : Nat]
    BY DEF TcpLife
  <1> SUFFICES ASSUME Limited(tcp)
               PROVE  \A d \in ConnIds : Lived(conns'[d], tcp, lifecycle)
    BY <1>1, Zenon DEF TcpLife
  <1>2. \A d \in ConnIds : Lived(conns[d], tcp, lifecycle)
    BY Zenon DEF TcpLife
  <1>3. conns'[c] = k /\ \A d \in ConnIds : d # c => conns'[d] = conns[d]
    BY DEF TcpTypes
  <1>4. Lived(k, tcp, lifecycle)
    <2>1. conns[c].request_count \in Nat /\ lifecycle.count \in Nat /\ tcp.limits \subseteq Nat
      <3>1. conns[c] \in TcpConn
        BY DEF TcpTypes
      <3> QED
        BY <1>1, <3>1, ConfigIs DEF TcpTypes, TcpConn
    <2>2. Lived(conns[c], tcp, lifecycle)
      BY <1>2, Zenon
    <2>3. PICK n \in tcp.limits : conns[c].request_count <= n + 1
      BY <2>2, Zenon DEF Lived
    <2>4. n \in Nat
      BY <2>1, Zenon
    <2>5. k.request_count <= n + 1
      BY <2>1, <2>3, <2>4
    <2>6. k.held => k.request_count <= lifecycle.count
      <3>1. conns[c].held => conns[c].request_count <= lifecycle.count
        BY <2>2, Zenon DEF Lived
      <3> QED
        BY <2>1, <3>1
    <2> QED
      BY <2>5, <2>6, Zenon DEF Lived
  <1> QED
    BY <1>2, <1>3, <1>4, Zenon

(* The requests in flight when one begins, goes on, and ends.              *)
LEMMA FlightIs ==
    ASSUME TcpTypes, IsFiniteSet(InFlight), NEW t \in Tasks, NEW r, tasks' = [tasks EXCEPT ![t] = r]
    PROVE  /\ (r.pc # "free" <=> tasks[t].pc # "free") => InFlight' = InFlight
           /\ r.pc # "free" /\ tasks[t].pc = "free" =>
                IsFiniteSet(InFlight') /\ Cardinality(InFlight') = Cardinality(InFlight) + 1
           /\ r.pc = "free" /\ tasks[t].pc # "free" =>
                IsFiniteSet(InFlight') /\ Cardinality(InFlight') = Cardinality(InFlight) - 1
           /\ tasks[t].pc # "free" => Cardinality(InFlight) >= 1
           /\ Cardinality(InFlight) \in Nat
  <1>1. tasks'[t] = r /\ \A u \in Tasks : u # t => tasks'[u] = tasks[u]
    BY DEF TcpTypes
  <1>2. (r.pc # "free" <=> tasks[t].pc # "free") => InFlight' = InFlight
    BY <1>1, Zenon DEF InFlight
  <1>3. ASSUME r.pc # "free", tasks[t].pc = "free"
        PROVE  IsFiniteSet(InFlight') /\ Cardinality(InFlight') = Cardinality(InFlight) + 1
    <2>1. InFlight' = InFlight \cup {t} /\ t \notin InFlight
      BY <1>1, <1>3, Zenon DEF InFlight
    <2> QED
      BY <2>1, FS_AddElement, Zenon
  <1>4. ASSUME r.pc = "free", tasks[t].pc # "free"
        PROVE  IsFiniteSet(InFlight') /\ Cardinality(InFlight') = Cardinality(InFlight) - 1
    <2>1. InFlight' = InFlight \ {t} /\ t \in InFlight
      BY <1>1, <1>4, Zenon DEF InFlight
    <2> QED
      BY <2>1, FS_RemoveElement, Zenon
  <1>5. Cardinality(InFlight) \in Nat
    BY FS_CardinalityType, Zenon
  <1>6. ASSUME tasks[t].pc # "free" PROVE Cardinality(InFlight) >= 1
    <2>1. InFlight # {}
      BY <1>6, Zenon DEF InFlight
    <2>2. Cardinality(InFlight) # 0
      BY <2>1, FS_EmptySet, Zenon
    <2> QED
      BY <1>5, <2>2
  <1> QED
    BY <1>2, <1>3, <1>4, <1>5, <1>6, Zenon

(* The fields of a connection.                                             *)
LEMMA ConnIs ==
    ASSUME NEW k \in TcpConn
    PROVE  /\ k.stage \in Stages
           /\ k.held \in BOOLEAN /\ k.reader \in BOOLEAN /\ k.header_sent \in BOOLEAN /\ k.request_count \in Nat
           /\ k.header \in 0..2 /\ k.up \in Nat /\ k.down \in 0..Window /\ k.mode \in TcpModes \cup {"none"}
           /\ k.size \in TcpSize /\ k.size.request \in Nat /\ k.size.response \in Nat
           /\ k.left \in Nat /\ k.answered \in Nat
  <1>1. k.size \in TcpSize /\ Window \in Nat
    BY TcpAssumption DEF TcpConn
  <1>2. k.size.request \in Nat /\ k.size.response \in Nat
    BY <1>1 DEF TcpSize
  <1> QED
    BY <1>1, <1>2 DEF TcpConn

(* What the server does to a connection: neither the client's end of it    *)
(* nor its count changes, and it keeps in step with its owner.             *)
Paced(k, q) ==
    \A pc, s : s \in TcpSize /\ s.request > 0 /\ s.response > 0 /\ k.held /\ Pace(k, pc, s) => Pace(q, pc, s)
Serves(k, q) ==
    q \in TcpConn /\ ModeKnown(q) /\ q.held = k.held /\ q.request_count = k.request_count /\ Paced(k, q)

(* What the server does leaves the client and its pool as they should be.  *)
LEMMA ServerMove ==
    ASSUME TcpTypes, TcpOwners, TcpInStep, TcpCounts, TcpLife, NEW c \in ConnIds, NEW q, Serves(conns[c], q),
           conns' = [conns EXCEPT ![c] = Settle(q)], UNCHANGED <<tcp, clientVars>>
    PROVE  TcpTypes' /\ TcpOwners' /\ TcpInStep' /\ TcpCounts' /\ TcpLife'
  <1> DEFINE k == conns[c]
             z == Settle(q)
  <1>1. /\ tcp' = tcp /\ tasks' = tasks /\ idle' = idle /\ active' = active /\ lifecycle' = lifecycle
        /\ requests' = requests /\ results' = results
    BY DEF clientVars
  <1>2. k \in TcpConn /\ k.request_count \in Nat /\ ModeKnown(k)
    BY ConnIs DEF TcpTypes
  <1>3. q \in TcpConn /\ ModeKnown(q) /\ q.held = k.held /\ q.request_count = k.request_count
    BY Zenon DEF Serves
  <1>4. /\ z \in TcpConn /\ ModeKnown(z) /\ z.held = q.held /\ (q.held => z = q)
        /\ z.request_count \in Nat /\ z.request_count <= q.request_count
    BY <1>3, SettleIs, Zenon
  <1>5. ASSUME NEW pc, k.held, InStep(k, pc, tcp) PROVE InStep(z, pc, tcp)
    <2>1. z = q
      BY <1>3, <1>4, <1>5, Zenon
    <2>2. Paced(k, q)
      BY Zenon DEF Serves
    <2> HIDE DEF k, z
    <2> QED
      BY <1>5, <2>1, <2>2, Zenon DEF InStep, Paced
  <1>6. /\ conns' \in [ConnIds -> TcpConn] /\ conns'[c] = z /\ \A d \in ConnIds : d # c => conns'[d] = conns[d]
    <2>1. conns \in [ConnIds -> TcpConn] /\ conns' = [conns EXCEPT ![c] = z]
      BY DEF TcpTypes
    <2> HIDE DEF z
    <2> QED
      BY <1>4, <2>1
  <1> HIDE DEF z
  <1>7. \A d \in ConnIds : /\ ModeKnown(conns'[d]) /\ conns'[d].held = conns[d].held
                           /\ \A pc : conns[d].held /\ InStep(conns[d], pc, tcp) => InStep(conns'[d], pc, tcp)
    <2> SUFFICES ASSUME NEW d \in ConnIds
                 PROVE  /\ ModeKnown(conns'[d]) /\ conns'[d].held = conns[d].held
                        /\ \A pc : conns[d].held /\ InStep(conns[d], pc, tcp) => InStep(conns'[d], pc, tcp)
      BY Zenon
    <2>1. CASE d = c
      BY <1>3, <1>4, <1>5, <1>6, <2>1, Zenon
    <2>2. CASE d # c
      BY <1>6, <2>2, Zenon DEF TcpTypes
    <2> QED
      BY <2>1, <2>2
  <1>8. TcpTypes' /\ TcpOwners' /\ TcpInStep'
    BY <1>1, <1>6, <1>7, ConnsAlone, Zenon
  <1>9. TcpCounts'
    <2>1. InFlight' = InFlight
      BY <1>1, Zenon DEF InFlight
    <2> QED
      BY <1>1, <2>1, Zenon DEF TcpCounts, Ended
  <1>10. z.request_count <= k.request_count /\ (z.held => k.held \/ z.request_count = 0)
    BY <1>2, <1>3, <1>4, Zenon
  <1>11. conns' = [conns EXCEPT ![c] = z] /\ UNCHANGED <<tcp, lifecycle>>
    BY <1>1 DEF z
  <1>12. TcpLife'
    BY <1>4, <1>10, <1>11, LifeKept, Zenon
  <1> QED
    BY <1>8, <1>9, <1>12

(* What is left of a connection when its handler returns.                  *)
Closed(k) == [k EXCEPT !.stage = "closed", !.header = 0, !.up = 0, !.left = 0]

(* A connection with another value in one of its fields.                   *)
LEMMA ConnWith ==
    ASSUME NEW k \in TcpConn
    PROVE  /\ \A s \in Stages : [k EXCEPT !.stage = s] \in TcpConn
           /\ \A h \in 0..2 : [k EXCEPT !.header = h] \in TcpConn
           /\ \A n \in Nat : [k EXCEPT !.up = n] \in TcpConn /\ [k EXCEPT !.left = n] \in TcpConn
           /\ \A n \in Nat : [k EXCEPT !.answered = n] \in TcpConn /\ [k EXCEPT !.request_count = n] \in TcpConn
           /\ \A n \in 0..Window : [k EXCEPT !.down = n] \in TcpConn
           /\ \A b \in BOOLEAN : [k EXCEPT !.held = b] \in TcpConn /\ [k EXCEPT !.reader = b] \in TcpConn
           /\ \A b \in BOOLEAN : [k EXCEPT !.header_sent = b] \in TcpConn
           /\ \A m \in TcpModes : [k EXCEPT !.mode = m] \in TcpConn
           /\ \A z \in TcpSize : [k EXCEPT !.size = z] \in TcpConn
  <1>1. \A s \in Stages : [k EXCEPT !.stage = s] \in TcpConn
    BY DEF TcpConn
  <1>2. \A h \in 0..2 : [k EXCEPT !.header = h] \in TcpConn
    BY DEF TcpConn
  <1>3. \A n \in Nat : [k EXCEPT !.up = n] \in TcpConn /\ [k EXCEPT !.left = n] \in TcpConn
    BY DEF TcpConn
  <1>4. \A n \in Nat : [k EXCEPT !.answered = n] \in TcpConn /\ [k EXCEPT !.request_count = n] \in TcpConn
    BY DEF TcpConn
  <1>5. \A n \in 0..Window : [k EXCEPT !.down = n] \in TcpConn
    BY DEF TcpConn
  <1>6. \A b \in BOOLEAN : [k EXCEPT !.held = b] \in TcpConn /\ [k EXCEPT !.reader = b] \in TcpConn
    BY DEF TcpConn
  <1>7. \A b \in BOOLEAN : [k EXCEPT !.header_sent = b] \in TcpConn
    BY DEF TcpConn
  <1>8. \A m \in TcpModes : [k EXCEPT !.mode = m] \in TcpConn
    BY DEF TcpConn
  <1>9. \A z \in TcpSize : [k EXCEPT !.size = z] \in TcpConn
    BY DEF TcpConn
  <1> QED
    BY <1>1, <1>2, <1>3, <1>4, <1>5, <1>6, <1>7, <1>8, <1>9, Zenon

(* A closed connection is a connection, with the client's end as it was.   *)
LEMMA ClosedIs ==
    ASSUME NEW q \in TcpConn
    PROVE  /\ Closed(q) \in TcpConn /\ ModeKnown(Closed(q)) /\ Closed(q).held = q.held /\ ~Handled(Closed(q))
           /\ Closed(q).request_count = q.request_count /\ Closed(q).stage = "closed" /\ Closed(q).header = 0
           /\ Closed(q).up = 0 /\ Closed(q).left = 0 /\ Closed(q).down = q.down /\ Closed(q).answered = q.answered
           /\ Closed(q).mode = q.mode /\ Closed(q).size = q.size /\ Closed(q).header_sent = q.header_sent
           /\ Closed(q).reader = q.reader
  <1> DEFINE z == Closed(q)
  <1>1. /\ z.held = q.held /\ z.request_count = q.request_count /\ z.stage = "closed" /\ z.header = 0
        /\ z.up = 0 /\ z.left = 0 /\ z.down = q.down /\ z.answered = q.answered
        /\ z.mode = q.mode /\ z.size = q.size /\ z.header_sent = q.header_sent /\ z.reader = q.reader
    BY DEF Closed, TcpConn
  <1>2. z \in TcpConn
    <2> DEFINE a == [q EXCEPT !.stage = "closed"]
               b == [a EXCEPT !.header = 0]
               d == [b EXCEPT !.up = 0]
               e == [d EXCEPT !.left = 0]
    <2>1. 0 \in 0..2 /\ 0 \in Nat /\ "closed" \in Stages
      BY DEF Stages
    <2>2. z = e
      BY Zenon DEF Closed
    <2> HIDE DEF e
    <2>3. d \in TcpConn => e \in TcpConn
      BY <2>1, ConnWith, Zenon DEF e
    <2> HIDE DEF d
    <2>4. b \in TcpConn => d \in TcpConn
      BY <2>1, ConnWith, Zenon DEF d
    <2> HIDE DEF b
    <2>5. a \in TcpConn => b \in TcpConn
      BY <2>1, ConnWith, Zenon DEF b
    <2>6. a \in TcpConn
      BY <2>1, ConnWith, Zenon
    <2> QED
      BY <2>2, <2>3, <2>4, <2>5, <2>6, Zenon
  <1> HIDE DEF z
  <1>3. ModeKnown(z) /\ ~Handled(z)
    BY <1>1 DEF ModeKnown, Handled
  <1> QED
    BY <1>1, <1>2, <1>3, Zenon DEF z

(* A handler returns when the client has gone, or in the stage of another  *)
(* mode: no step of a transactional test is broken off by that.            *)
LEMMA GoneServes ==
    ASSUME NEW k, NEW q \in TcpConn, q.held = k.held, q.request_count = k.request_count, ~k.held
    PROVE  Serves(k, Closed(q))
  <1>1. Closed(q) \in TcpConn /\ ModeKnown(Closed(q)) /\ Closed(q).held = q.held /\ Closed(q).request_count = q.request_count
    BY ClosedIs, Zenon
  <1>2. Paced(k, Closed(q))
    BY Zenon DEF Paced
  <1> QED
    BY <1>1, <1>2, Zenon DEF Serves

(* A handler goes on.                                                      *)
LEMMA ContinueKeeps ==
    ASSUME TcpIInv, NEW c \in ConnIds, NEW q, Serves(conns[c], q), Handled(q) <=> Handled(conns[c]),
           Continue(c, q), UNCHANGED clientVars
    PROVE  TcpIInv'
  <1>1. conns' = [conns EXCEPT ![c] = Settle(q)] /\ UNCHANGED <<tcp, handlers, server>>
    BY Zenon DEF Continue, Becomes
  <1>2. TcpTypes' /\ TcpOwners' /\ TcpInStep' /\ TcpCounts' /\ TcpLife'
    <2>1. UNCHANGED <<tcp, clientVars>>
      BY <1>1
    <2> QED
      BY <1>1, <2>1, ServerMove, Zenon DEF TcpIInv
  <1>3. q \in TcpConn /\ ModeKnown(q)
    BY Zenon DEF Serves
  <1>4. Handled(Settle(q)) <=> Handled(conns[c])
    BY <1>3, SettleIs, Zenon
  <1>5. conns \in [ConnIds -> TcpConn]
    BY Zenon DEF TcpIInv, TcpTypes
  <1>6. TcpHandlers'
    BY <1>1, <1>4, <1>5, HandlersKept, Zenon DEF TcpIInv
  <1> QED
    BY <1>2, <1>6, Zenon DEF TcpIInv

(* The handlers when one begins and when one ends.                         *)
LEMMA HandlersAre ==
    ASSUME NEW c \in ConnIds, NEW z, conns \in [ConnIds -> TcpConn], conns' = [conns EXCEPT ![c] = z]
    PROVE  /\ IsFiniteSet(LiveHandlers) /\ Cardinality(LiveHandlers) \in Nat
           /\ Handled(z) /\ ~Handled(conns[c]) => Cardinality(LiveHandlers') = Cardinality(LiveHandlers) + 1
           /\ ~Handled(z) /\ Handled(conns[c]) => Cardinality(LiveHandlers') = Cardinality(LiveHandlers) - 1
  <1>1. conns'[c] = z /\ \A d \in ConnIds : d # c => conns'[d] = conns[d]
    OBVIOUS
  <1>2. IsFiniteSet(LiveHandlers)
    <2>1. IsFiniteSet(ConnIds) /\ LiveHandlers \subseteq ConnIds
      BY TcpAssumption, Zenon DEF LiveHandlers
    <2> QED
      BY <2>1, FS_Subset, Zenon
  <1>3. Cardinality(LiveHandlers) \in Nat
    BY <1>2, FS_CardinalityType, Zenon
  <1>4. ASSUME Handled(z), ~Handled(conns[c]) PROVE Cardinality(LiveHandlers') = Cardinality(LiveHandlers) + 1
    <2>1. LiveHandlers' = LiveHandlers \cup {c} /\ c \notin LiveHandlers
      BY <1>1, <1>4, Zenon DEF LiveHandlers
    <2> QED
      BY <1>2, <2>1, FS_AddElement, Zenon
  <1>5. ASSUME ~Handled(z), Handled(conns[c]) PROVE Cardinality(LiveHandlers') = Cardinality(LiveHandlers) - 1
    <2>1. LiveHandlers' = LiveHandlers \ {c} /\ c \in LiveHandlers
      BY <1>1, <1>5, Zenon DEF LiveHandlers
    <2> QED
      BY <1>2, <2>1, FS_RemoveElement, Zenon
  <1> QED
    BY <1>2, <1>3, <1>4, <1>5, Zenon

(* A handler returns.                                                      *)
LEMMA ReturnKeeps ==
    ASSUME TcpIInv, NEW c \in ConnIds, NEW q, Serves(conns[c], Closed(q)), q \in TcpConn, Handled(conns[c]),
           Return(c, q), UNCHANGED clientVars
    PROVE  TcpIInv'
  <1> DEFINE z == Settle(Closed(q))
  <1>1. conns' = [conns EXCEPT ![c] = z] /\ UNCHANGED <<tcp, server>> /\ handlers' = handlers - 1
    BY Zenon DEF Return, Becomes, Closed
  <1>2. TcpTypes' /\ TcpOwners' /\ TcpInStep' /\ TcpCounts' /\ TcpLife'
    <2>1. UNCHANGED <<tcp, clientVars>>
      BY <1>1
    <2> QED
      BY <1>1, <2>1, ServerMove, Zenon DEF TcpIInv
  <1>3. Closed(q) \in TcpConn /\ ModeKnown(Closed(q)) /\ ~Handled(Closed(q))
    BY ClosedIs, Zenon
  <1>4. ~Handled(z)
    BY <1>3, SettleIs, Zenon
  <1>5. conns \in [ConnIds -> TcpConn] /\ tcp \in TcpConfigs
    BY Zenon DEF TcpIInv, TcpTypes
  <1> HIDE DEF z
  <1>6. Cardinality(LiveHandlers) \in Nat /\ Cardinality(LiveHandlers') = Cardinality(LiveHandlers) - 1
    BY <1>1, <1>4, <1>5, HandlersAre, Zenon
  <1>7. /\ handlers = Cardinality(LiveHandlers) /\ server \in {"up", "stopping", "down"}
        /\ tcp.server_max > 0 => handlers <= tcp.server_max
    BY Zenon DEF TcpIInv, TcpHandlers
  <1>8. tcp.server_max \in Nat /\ tcp' = tcp /\ server' = server
    BY <1>1, <1>5, ConfigIs
  <1>9. handlers' = Cardinality(LiveHandlers') /\ (tcp.server_max > 0 => handlers' <= tcp.server_max)
    BY <1>1, <1>6, <1>7, <1>8
  <1>10. TcpHandlers'
    BY <1>7, <1>8, <1>9, Zenon DEF TcpHandlers
  <1> QED
    BY <1>2, <1>10, Zenon DEF TcpIInv

-----------------------------------------------------------------------------
(* The test server.                                                        *)

(* With the stream in its hand the client has the socket open.             *)
LEMMA HeldOpen ==
    ASSUME NEW k
    PROVE  ~ClientOpen(k) => ~k.held
  BY Zenon DEF ClientOpen

(* The stages that belong to no transactional test.                        *)
LEMMA OtherStage ==
    ASSUME NEW k \in TcpConn, NEW q, k.stage \in {"Echo", "Sink", "Source", "CRR", "Bidir"} \/ k.reader
    PROVE  Paced(k, q)
  <1> SUFFICES ASSUME NEW pc, NEW s, Pace(k, pc, s) PROVE Pace(q, pc, s)
    BY Zenon DEF Paced
  <1>1. ~BeforeHeader(k) /\ ~BeforeWrite(k, s) /\ ~BeforeReply(k, s) /\ ~AtRest(k, s)
    BY DEF BeforeHeader, BeforeWrite, BeforeReply, AtRest, OnItsWay, Told
  <1> QED
    BY <1>1, Zenon DEF Pace

(* The header is read, or the first part of it, in step with the client.   *)
LEMMA HeaderPaced ==
    ASSUME NEW k \in TcpConn, k.stage \in {"first", "header"}, NEW q, q.held = k.held, q.reader = k.reader,
           q.size = k.size, q.header_sent = k.header_sent, q.mode = k.mode, q.down = k.down, q.answered = k.answered,
           q.request_count = k.request_count, k.mode # "none", q.up \in Nat, q.left \in Nat,
           \/ q.header = 0 /\ q.stage = k.mode /\ (k.mode = "RR" => q.up + q.left = k.up)
           \/ k.stage = "first" /\ q.header = k.header - 1 /\ q.stage = "header" /\ q.up = k.up /\ q.left = k.left
    PROVE  Paced(k, q)
  <1> SUFFICES ASSUME NEW pc, NEW s, Pace(k, pc, s) PROVE Pace(q, pc, s)
    BY Zenon DEF Paced
  <1>1. /\ k.up \in Nat /\ k.left \in Nat
    BY ConnIs
  <1>2. ~BeforeHeader(k) /\ ~AtRest(k, s)
    BY DEF BeforeHeader, AtRest
  <1>3. ASSUME OnItsWay(k), k.mode = "RR" PROVE OnItsWay(q) /\ k.left = 0
    BY <1>3 DEF OnItsWay
  <1>4. ASSUME BeforeWrite(k, s) PROVE BeforeWrite(q, s)
    <2>1. Told(k, s) /\ Unanswered(k) /\ k.mode = "RR" /\ k.up = 0 /\ k.left = 0 /\ OnItsWay(k)
      BY <1>4 DEF BeforeWrite, Told
    <2>2. q.up = 0 /\ q.left = 0
      BY <2>1
    <2> QED
      BY <1>3, <2>1, <2>2 DEF BeforeWrite, Told, Unanswered
  <1>5. ASSUME BeforeReply(k, s) PROVE BeforeReply(q, s)
    <2>1. Told(k, s) /\ OnItsWay(k) /\ k.up + k.left = s.request /\ Unanswered(k) /\ k.mode = "RR"
      BY <1>5 DEF BeforeReply, Told
    <2>2. q.up + q.left = s.request
      BY <1>1, <1>3, <2>1
    <2> QED
      BY <1>3, <2>1, <2>2 DEF BeforeReply, Told, Unanswered
  <1> QED
    BY <1>2, <1>4, <1>5, Zenon DEF Pace

(* The handler of the mode goes on with what the first read left over.     *)
LEMMA DispatchIs ==
    ASSUME NEW b \in TcpConn, b.mode # "none", NEW u \in Nat
    PROVE  LET q == Dispatch(b, u) IN
           /\ q \in TcpConn /\ ModeKnown(q) /\ Handled(q) /\ q.held = b.held /\ q.reader = b.reader /\ q.size = b.size
           /\ q.header_sent = b.header_sent /\ q.mode = b.mode /\ q.down = b.down /\ q.answered = b.answered
           /\ q.request_count = b.request_count /\ q.up = b.up /\ q.header = b.header /\ q.stage = b.mode
           /\ q.left \in Nat /\ (b.mode = "RR" => q.left = u)
  <1> DEFINE l == IF b.mode \in {"Sink", "Source"} THEN 0 ELSE u
             d == [b EXCEPT !.stage = b.mode]
             q == [d EXCEPT !.left = l]
  <1>1. b.mode \in TcpModes \cup {"none"}
    BY ConnIs, Zenon
  <1>2. l \in Nat /\ b.mode \in Stages /\ (b.mode = "RR" => l = u)
    BY <1>1 DEF Stages
  <1>3. Dispatch(b, u) = q
    BY DEF Dispatch
  <1> HIDE DEF l
  <1>4. /\ q.held = b.held /\ q.reader = b.reader /\ q.size = b.size /\ q.header_sent = b.header_sent
        /\ q.mode = b.mode /\ q.down = b.down /\ q.answered = b.answered /\ q.request_count = b.request_count
        /\ q.up = b.up /\ q.left = l /\ q.stage = b.mode /\ q.header = b.header
    BY DEF TcpConn
  <1>5. d \in TcpConn
    BY <1>2, ConnWith, Zenon
  <1> HIDE DEF d
  <1>6. q \in TcpConn
    BY <1>2, <1>5, ConnWith, Zenon
  <1> HIDE DEF q
  <1>7. ModeKnown(q) /\ Handled(q)
    BY <1>1, <1>4 DEF ModeKnown, Handled, TcpModes
  <1> QED
    BY <1>2, <1>3, <1>4, <1>6, <1>7, Zenon

(* The handler has the header: b is the connection without it.             *)
LEMMA DispatchServes ==
    ASSUME NEW k \in TcpConn, k.stage \in {"first", "header"}, k.mode # "none", NEW u \in Nat, NEW b \in TcpConn,
           b.held = k.held, b.reader = k.reader, b.size = k.size, b.header_sent = k.header_sent, b.mode = k.mode,
           b.down = k.down, b.answered = k.answered, b.request_count = k.request_count, b.header = 0, b.up + u = k.up
    PROVE  Serves(k, Dispatch(b, u)) /\ Handled(Dispatch(b, u))
  <1> DEFINE q == Dispatch(b, u)
  <1>1. /\ q \in TcpConn /\ ModeKnown(q) /\ Handled(q) /\ q.held = b.held /\ q.reader = b.reader /\ q.size = b.size
        /\ q.header_sent = b.header_sent /\ q.mode = b.mode /\ q.down = b.down /\ q.answered = b.answered
        /\ q.request_count = b.request_count /\ q.up = b.up /\ q.header = b.header /\ q.stage = b.mode
        /\ q.left \in Nat /\ (b.mode = "RR" => q.left = u)
    BY DispatchIs, Zenon
  <1> HIDE DEF q
  <1>2. q.up \in Nat /\ (k.mode = "RR" => q.up + q.left = k.up)
    BY <1>1, ConnIs
  <1>3. Paced(k, q)
    BY <1>1, <1>2, HeaderPaced, Zenon
  <1> QED
    BY <1>1, <1>3, Zenon DEF Serves, q

(* FirstRead keeps the invariant.                                          *)
LEMMA FirstReadKeeps ==
    ASSUME TcpIInv, NEW c \in ConnIds, FirstRead(c), UNCHANGED clientVars
    PROVE  TcpIInv'
  <1> DEFINE k == conns[c]
  <1>1. k \in TcpConn /\ ModeKnown(k) /\ k.stage = "first"
    BY Zenon DEF TcpIInv, TcpTypes, FirstRead
  <1>2. Handled(k)
    BY <1>1 DEF Handled
  <1>3. k.up \in Nat /\ k.down \in 0..Window /\ k.header \in 0..2 /\ Window \in Nat
    BY <1>1, ConnIs, TcpAssumption, Zenon
  <1>4. ASSUME ~ClientOpen(k), Return(c, k) PROVE TcpIInv'
    <2>1. Serves(k, Closed(k))
      BY <1>1, <1>4, HeldOpen, GoneServes, Zenon
    <2> QED
      BY <1>1, <1>2, <1>4, <2>1, ReturnKeeps, Zenon
  <1>5. ASSUME k.mode # "none", k.header > 0, NEW u \in 0..k.up,
               Continue(c, Dispatch([k EXCEPT !.header = 0, !.up = @ - u], u))
        PROVE  TcpIInv'
    <2> DEFINE n == k.up - u
               a == [k EXCEPT !.header = 0]
               b == [a EXCEPT !.up = n]
    <2>1. n \in Nat /\ n + u = k.up /\ u \in Nat /\ 0 \in 0..2
      BY <1>3
    <2>2. a.up = k.up
      BY <1>1 DEF TcpConn
    <2>3. [k EXCEPT !.header = 0, !.up = @ - u] = b
      BY <2>2
    <2> HIDE DEF n
    <2>4. /\ b.held = k.held /\ b.reader = k.reader /\ b.size = k.size /\ b.header_sent = k.header_sent /\ b.mode = k.mode
          /\ b.down = k.down /\ b.answered = k.answered /\ b.request_count = k.request_count /\ b.header = 0 /\ b.up = n
      BY <1>1 DEF TcpConn
    <2>5. a \in TcpConn
      BY <1>1, <2>1, ConnWith, Zenon
    <2> HIDE DEF a
    <2>6. b \in TcpConn
      BY <2>1, <2>5, ConnWith, Zenon
    <2>7. b.up + u = k.up
      BY <2>1, <2>4
    <2> HIDE DEF b, k
    <2>8. Serves(k, Dispatch(b, u)) /\ Handled(Dispatch(b, u))
      BY <1>1, <1>5, <2>1, <2>4, <2>6, <2>7, DispatchServes, Zenon
    <2> QED
      BY <1>2, <1>5, <2>3, <2>8, ContinueKeeps, Zenon DEF k
  <1>6. ASSUME k.mode # "none", NEW h \in 1..(HeaderUnits - 1), h <= k.header,
               Continue(c, [k EXCEPT !.header = @ - h, !.stage = "header"])
        PROVE  TcpIInv'
    <2> DEFINE n == k.header - h
               a == [k EXCEPT !.header = n]
               q == [a EXCEPT !.stage = "header"]
    <2>1. n = k.header - 1 /\ n \in 0..2 /\ "header" \in Stages
      BY <1>3, <1>6 DEF HeaderUnits, Stages
    <2> HIDE DEF n
    <2>2. /\ q.held = k.held /\ q.reader = k.reader /\ q.size = k.size /\ q.header_sent = k.header_sent /\ q.mode = k.mode
          /\ q.down = k.down /\ q.answered = k.answered /\ q.request_count = k.request_count /\ q.header = n
          /\ q.up = k.up /\ q.left = k.left /\ q.stage = "header"
      BY <1>1 DEF TcpConn
    <2>3. a \in TcpConn
      BY <1>1, <2>1, ConnWith, Zenon
    <2> HIDE DEF a
    <2>4. q \in TcpConn
      BY <2>1, <2>3, ConnWith, Zenon
    <2> HIDE DEF q
    <2>5. q.up \in Nat /\ q.left \in Nat
      BY <2>4, ConnIs, Zenon
    <2>6. Paced(k, q)
      BY <1>1, <1>6, <2>1, <2>2, <2>5, HeaderPaced
    <2>7. ModeKnown(q) /\ Handled(q)
      BY <1>6, <2>2 DEF ModeKnown, Handled
    <2>8. Serves(k, q)
      BY <2>2, <2>4, <2>6, <2>7, Zenon DEF Serves
    <2> QED
      BY <1>2, <1>6, <2>7, <2>8, ContinueKeeps, Zenon DEF q, a, n
  <1>7. ASSUME k.mode = "none", NEW n \in 1..k.up, CanWrite(k, n),
               Continue(c, [k EXCEPT !.up = @ - n, !.down = @ + n, !.stage = "Echo"])
        PROVE  TcpIInv'
    <2> DEFINE m == k.up - n
               l == k.down + n
               a == [k EXCEPT !.up = m]
               b == [a EXCEPT !.down = l]
               q == [b EXCEPT !.stage = "Echo"]
    <2>1. m \in Nat /\ l \in 0..Window /\ "Echo" \in Stages /\ k.up > 0
      BY <1>3, <1>7 DEF CanWrite, Stages, TcpModes
    <2>2. a.down = k.down
      BY <1>1 DEF TcpConn
    <2>3. [k EXCEPT !.up = @ - n, !.down = @ + n, !.stage = "Echo"] = q
      BY <2>2
    <2> HIDE DEF m, l
    <2>4. q.held = k.held /\ q.request_count = k.request_count /\ q.stage = "Echo"
      BY <1>1 DEF TcpConn
    <2>5. a \in TcpConn
      BY <1>1, <2>1, ConnWith, Zenon
    <2> HIDE DEF a
    <2>6. b \in TcpConn
      BY <2>1, <2>5, ConnWith, Zenon
    <2> HIDE DEF b
    <2>7. q \in TcpConn
      BY <2>1, <2>6, ConnWith, Zenon
    <2> HIDE DEF q
    <2>8. Paced(k, q)
      <3> SUFFICES ASSUME NEW pc, NEW s, Pace(k, pc, s) PROVE Pace(q, pc, s)
        BY Zenon DEF Paced
      <3>1. ~BeforeHeader(k) /\ ~BeforeWrite(k, s) /\ ~BeforeReply(k, s) /\ ~AtRest(k, s)
        BY <1>7, <2>1 DEF BeforeHeader, BeforeWrite, BeforeReply, AtRest, Told
      <3> QED
        BY <3>1, Zenon DEF Pace
    <2>9. ModeKnown(q) /\ Handled(q)
      BY <2>4 DEF ModeKnown, Handled
    <2>10. Serves(k, q)
      BY <2>4, <2>7, <2>8, <2>9, Zenon DEF Serves
    <2> QED
      BY <1>2, <1>7, <2>3, <2>9, <2>10, ContinueKeeps, Zenon
  <1>8. ServerEof(k) => ~ClientOpen(k)
    BY Zenon DEF ServerEof
  <1>9. WriteFails(k) => ~ClientOpen(k)
    BY Zenon DEF WriteFails
  <1> HIDE DEF k
  <1> QED
    BY <1>4, <1>5, <1>6, <1>7, <1>8, <1>9, Zenon DEF FirstRead, k


(* A handler returns because the client has gone.                          *)
LEMMA GoneKeeps ==
    ASSUME TcpIInv, NEW c \in ConnIds, Handled(conns[c]), ~ClientOpen(conns[c]), Return(c, conns[c]), UNCHANGED clientVars
    PROVE  TcpIInv'
  <1>1. conns[c] \in TcpConn
    BY Zenon DEF TcpIInv, TcpTypes
  <1>2. Serves(conns[c], Closed(conns[c]))
    BY <1>1, HeldOpen, GoneServes, Zenon
  <1> QED
    BY <1>1, <1>2, ReturnKeeps, Zenon

(* ReadHeader keeps the invariant.                                         *)
LEMMA ReadHeaderKeeps ==
    ASSUME TcpIInv, NEW c \in ConnIds, ReadHeader(c), UNCHANGED clientVars
    PROVE  TcpIInv'
  <1> DEFINE k == conns[c]
             b == [k EXCEPT !.header = 0]
  <1>1. k \in TcpConn /\ ModeKnown(k) /\ k.stage = "header"
    BY Zenon DEF TcpIInv, TcpTypes, ReadHeader
  <1>2. Handled(k) /\ k.mode # "none"
    BY <1>1 DEF Handled, ModeKnown
  <1>3. ASSUME Continue(c, Dispatch(b, 0)) PROVE TcpIInv'
    <2>1. /\ b.held = k.held /\ b.reader = k.reader /\ b.size = k.size /\ b.header_sent = k.header_sent /\ b.mode = k.mode
          /\ b.down = k.down /\ b.answered = k.answered /\ b.request_count = k.request_count /\ b.header = 0 /\ b.up = k.up
      BY <1>1 DEF TcpConn
    <2>2. 0 \in 0..2 /\ 0 \in Nat
      OBVIOUS
    <2>3. b \in TcpConn
      BY <1>1, <2>2, ConnWith, Zenon
    <2>4. k.up \in Nat
      BY <1>1, ConnIs, Zenon
    <2>5. b.up + 0 = k.up
      BY <2>1, <2>4
    <2> HIDE DEF b, k
    <2>6. Serves(k, Dispatch(b, 0)) /\ Handled(Dispatch(b, 0))
      BY <1>1, <1>2, <2>1, <2>2, <2>3, <2>5, DispatchServes, Zenon
    <2> QED
      BY <1>2, <1>3, <2>6, ContinueKeeps, Zenon DEF k
  <1>4. ASSUME ~ClientOpen(k), Return(c, k) PROVE TcpIInv'
    BY <1>2, <1>4, GoneKeeps, Zenon
  <1> QED
    BY <1>3, <1>4, Zenon DEF ReadHeader

(* A request is read: q is the connection after it, in the stage of the    *)
(* reply, or closed with a part of the reply sent.                         *)
LEMMA RequestPaced ==
    ASSUME NEW k \in TcpConn, k.stage = "RR", Needed(k) <= k.up, NEW q, q.header_sent = k.header_sent,
           q.reader = k.reader, q.size = k.size, q.mode = k.mode, q.answered = k.answered,
           q.request_count = k.request_count, q.header = 0 \/ q.header = k.header, q.up = 0 \/ q.up = k.up - Needed(k),
           q.left = 0, \/ q.stage = "reply" /\ q.down = k.down
                       \/ q.stage = "closed" /\ q.down = k.down + (k.size.response \div 2)
    PROVE  Paced(k, q)
  <1> SUFFICES ASSUME NEW pc, NEW s \in TcpSize, s.request > 0, s.response > 0, Pace(k, pc, s) PROVE Pace(q, pc, s)
    BY Zenon DEF Paced
  <1>1. /\ k.up \in Nat /\ k.left \in Nat /\ k.size.request \in Nat /\ k.size.response \in Nat
    BY ConnIs
  <1>2. s.request \in Nat /\ s.response \in Nat
    BY TcpAssumption DEF TcpSize
  <1>3. ~BeforeHeader(k)
    BY DEF BeforeHeader
  <1>4. ASSUME k.up = 0, k.left = 0, k.size = s PROVE FALSE
    BY <1>2, <1>4 DEF Needed
  <1>5. ~BeforeWrite(k, s) /\ ~AtRest(k, s)
    BY <1>4 DEF BeforeWrite, AtRest, Told
  <1>6. ASSUME BeforeReply(k, s) PROVE BeforeReply(q, s)
    <2>1. Told(k, s) /\ OnItsWay(k) /\ k.up + k.left = s.request /\ Unanswered(k)
      BY <1>4, <1>6 DEF BeforeReply, Told
    <2>2. k.header = 0 /\ k.size = s
      BY <2>1 DEF OnItsWay, Told
    <2>3. k.up - Needed(k) = 0
      BY <1>1, <1>2, <2>1, <2>2 DEF Needed
    <2>4. q.up = 0 /\ q.header = 0
      BY <2>2, <2>3
    <2>5. CASE q.stage = "reply" /\ q.down = k.down
      BY <2>1, <2>4, <2>5 DEF BeforeReply, Told, Unanswered
    <2>6. CASE q.stage = "closed" /\ q.down = k.down + (k.size.response \div 2)
      <3>1. q.down < s.response
        BY <1>2, <2>1, <2>2, <2>6 DEF Unanswered
      <3> QED
        BY <2>1, <2>6, <3>1 DEF BeforeReply, Told
    <2> QED
      BY <2>5, <2>6
  <1> QED
    BY <1>3, <1>5, <1>6, Zenon DEF Pace

(* What ReadRequest leaves of the connection.                              *)
Taken(k) == [k EXCEPT !.up = @ - Needed(k), !.left = 0]

(* Reading a request changes nothing but what is on its way to the server. *)
LEMMA TakenIs ==
    ASSUME NEW k \in TcpConn, Needed(k) <= k.up
    PROVE  /\ Taken(k) \in TcpConn /\ Taken(k).held = k.held /\ Taken(k).request_count = k.request_count
           /\ Taken(k).down = k.down /\ Taken(k).header_sent = k.header_sent /\ Taken(k).reader = k.reader
           /\ Taken(k).size = k.size /\ Taken(k).mode = k.mode /\ Taken(k).answered = k.answered
           /\ Taken(k).header = k.header /\ Taken(k).up = k.up - Needed(k) /\ Taken(k).left = 0
  <1> DEFINE m == k.up - Needed(k)
             a == [k EXCEPT !.up = m]
             t == [a EXCEPT !.left = 0]
  <1>1. /\ k.up \in Nat /\ k.left \in Nat /\ k.size.request \in Nat
    BY ConnIs
  <1>2. m \in Nat /\ 0 \in Nat
    BY <1>1 DEF Needed
  <1>3. Taken(k) = t
    BY Zenon DEF Taken
  <1> HIDE DEF m
  <1>4. /\ t.held = k.held /\ t.request_count = k.request_count /\ t.down = k.down
        /\ t.header_sent = k.header_sent /\ t.reader = k.reader /\ t.size = k.size /\ t.mode = k.mode
        /\ t.answered = k.answered /\ t.header = k.header /\ t.up = m /\ t.left = 0
    BY DEF TcpConn
  <1>5. a \in TcpConn
    BY <1>2, ConnWith, Zenon
  <1> HIDE DEF a
  <1>6. t \in TcpConn
    BY <1>2, <1>5, ConnWith, Zenon
  <1> HIDE DEF t
  <1> QED
    BY <1>3, <1>4, <1>6, Zenon DEF m

(* ReadRequest keeps the invariant.                                        *)
LEMMA ReadRequestKeeps ==
    ASSUME TcpIInv, NEW c \in ConnIds, ReadRequest(c), UNCHANGED clientVars
    PROVE  TcpIInv'
  <1> DEFINE k     == conns[c]
             taken == Taken(k)
             half  == k.size.response \div 2
  <1>1. k \in TcpConn /\ ModeKnown(k) /\ k.stage \in {"RR", "CRR", "Bidir"}
    BY Zenon DEF TcpIInv, TcpTypes, ReadRequest
  <1>2. Handled(k) /\ k.mode # "none" /\ k.down \in 0..Window /\ k.size.response \in Nat
    BY <1>1, ConnIs DEF Handled, ModeKnown
  <1>3. ASSUME Needed(k) <= k.up, Continue(c, [taken EXCEPT !.stage = "reply"]) PROVE TcpIInv'
    <2> DEFINE q == [taken EXCEPT !.stage = "reply"]
    <2>1. "reply" \in Stages
      BY DEF Stages
    <2>2. /\ taken \in TcpConn /\ taken.held = k.held /\ taken.request_count = k.request_count
          /\ taken.down = k.down /\ taken.header_sent = k.header_sent /\ taken.reader = k.reader
          /\ taken.size = k.size /\ taken.mode = k.mode /\ taken.answered = k.answered
          /\ taken.header = k.header /\ taken.up = k.up - Needed(k) /\ taken.left = 0
      BY <1>1, <1>3, TakenIs, Zenon
    <2> HIDE DEF taken
    <2>3. q \in TcpConn
      BY <2>1, <2>2, ConnWith, Zenon
    <2>4. /\ q \in TcpConn /\ q.held = k.held /\ q.request_count = k.request_count /\ q.header_sent = k.header_sent
          /\ q.reader = k.reader /\ q.size = k.size /\ q.mode = k.mode /\ q.answered = k.answered /\ q.down = k.down
          /\ q.stage = "reply" /\ q.header = k.header /\ q.up = k.up - Needed(k) /\ q.left = 0
      BY <2>2, <2>3 DEF TcpConn
    <2> HIDE DEF q
    <2>5. Paced(k, q)
      <3>1. CASE k.stage = "RR"
        BY <1>1, <1>3, <2>4, <3>1, RequestPaced, Zenon
      <3>2. CASE k.stage # "RR"
        <4>1. k.stage \in {"CRR", "Bidir"}
          BY <1>1, <3>2
        <4>2. k.stage \in {"Echo", "Sink", "Source", "CRR", "Bidir"}
          BY <4>1
        <4> QED
          BY <1>1, <4>2, OtherStage, Zenon
      <3> QED
        BY <3>1, <3>2
    <2>6. ModeKnown(q) /\ Handled(q)
      BY <1>2, <2>4 DEF ModeKnown, Handled
    <2>7. Serves(k, q)
      BY <2>4, <2>5, <2>6, Zenon DEF Serves
    <2> QED
      BY <1>2, <1>3, <2>6, <2>7, ContinueKeeps, Zenon DEF q
  <1>4. ASSUME Needed(k) <= k.up, CanWrite(k, half), Return(c, [taken EXCEPT !.down = @ + half]) PROVE TcpIInv'
    <2> DEFINE w == k.down + half
               q == [taken EXCEPT !.down = w]
    <2>1. w \in 0..Window
      BY <1>2, <1>4, TcpAssumption DEF CanWrite
    <2>2. /\ taken \in TcpConn /\ taken.held = k.held /\ taken.request_count = k.request_count
          /\ taken.down = k.down /\ taken.header_sent = k.header_sent /\ taken.reader = k.reader
          /\ taken.size = k.size /\ taken.mode = k.mode /\ taken.answered = k.answered
      BY <1>1, <1>4, TakenIs, Zenon
    <2> HIDE DEF taken
    <2>3. /\ q \in TcpConn /\ q.held = k.held /\ q.request_count = k.request_count /\ q.header_sent = k.header_sent
          /\ q.reader = k.reader /\ q.size = k.size /\ q.mode = k.mode /\ q.answered = k.answered /\ q.down = w
      <3> HIDE DEF w
      <3>1. q \in TcpConn
        BY <2>1, <2>2, ConnWith, Zenon
      <3> QED
        BY <2>2, <3>1 DEF TcpConn
    <2>4. [taken EXCEPT !.down = @ + half] = q
      BY <2>2, Zenon
    <2> HIDE DEF q
    <2> DEFINE z == Closed(q)
    <2>5. /\ z \in TcpConn /\ ModeKnown(z) /\ z.held = q.held /\ z.request_count = q.request_count /\ z.stage = "closed"
          /\ z.header = 0 /\ z.up = 0 /\ z.left = 0 /\ z.down = q.down /\ z.answered = q.answered /\ z.mode = q.mode
          /\ z.size = q.size /\ z.header_sent = q.header_sent /\ z.reader = q.reader
      BY <2>3, ClosedIs, Zenon
    <2> HIDE DEF z
    <2>6. Paced(k, z)
      <3>1. CASE k.stage = "RR"
        <4>1. /\ z.header_sent = k.header_sent /\ z.reader = k.reader /\ z.size = k.size /\ z.mode = k.mode
              /\ z.answered = k.answered /\ z.request_count = k.request_count /\ z.down = k.down + (k.size.response \div 2)
          BY <2>3, <2>5, Zenon
        <4> QED
          BY <1>1, <1>4, <2>5, <3>1, <4>1, RequestPaced, Zenon
      <3>2. CASE k.stage # "RR"
        <4>1. k.stage \in {"CRR", "Bidir"}
          BY <1>1, <3>2
        <4>2. k.stage \in {"Echo", "Sink", "Source", "CRR", "Bidir"}
          BY <4>1
        <4> QED
          BY <1>1, <4>2, OtherStage, Zenon
      <3> QED
        BY <3>1, <3>2
    <2>7. Serves(k, Closed(q))
      BY <2>3, <2>5, <2>6, Zenon DEF Serves, z
    <2> QED
      BY <1>2, <1>4, <2>3, <2>4, <2>7, ReturnKeeps, Zenon
  <1>5. ASSUME Needed(k) <= k.up, WriteFails(k), Return(c, taken) PROVE TcpIInv'
    <2>2. taken \in TcpConn /\ taken.held = k.held /\ taken.request_count = k.request_count
      BY <1>1, <1>5, TakenIs, Zenon
    <2> HIDE DEF taken
    <2>3. ~k.held
      BY <1>5, HeldOpen, Zenon DEF WriteFails
    <2>4. Serves(k, Closed(taken))
      BY <2>2, <2>3, GoneServes, Zenon
    <2> QED
      BY <1>2, <1>5, <2>2, <2>4, ReturnKeeps, Zenon
  <1>6. ASSUME ~ClientOpen(k), Return(c, k) PROVE TcpIInv'
    BY <1>2, <1>6, GoneKeeps, Zenon
  <1> QED
    BY <1>3, <1>4, <1>5, <1>6, Zenon DEF ReadRequest, Taken

(* The reply is written in step with its reader.                           *)
LEMMA ReplyPaced ==
    ASSUME NEW k \in TcpConn, k.stage = "reply", NEW q, q.header_sent = k.header_sent, q.reader = k.reader,
           q.size = k.size, q.mode = k.mode, q.answered = k.answered + 1, q.request_count = k.request_count,
           q.header = k.header, q.up = k.up, q.left = k.left, q.stage = k.mode, q.down = k.down + k.size.response
    PROVE  Paced(k, q)
  <1> SUFFICES ASSUME NEW pc, NEW s \in TcpSize, Pace(k, pc, s) PROVE Pace(q, pc, s)
    BY Zenon DEF Paced
  <1>1. ~BeforeHeader(k) /\ ~BeforeWrite(k, s) /\ ~AtRest(k, s)
    BY DEF BeforeHeader, BeforeWrite, AtRest, OnItsWay
  <1>2. ASSUME BeforeReply(k, s) PROVE BeforeReply(q, s)
    <2>1. k.header = 0 /\ k.up = 0 /\ k.left = 0 /\ Told(k, s) /\ Unanswered(k)
      BY <1>2 DEF BeforeReply, OnItsWay
    <2>2. s.response \in Nat /\ k.down = 0 /\ k.answered = k.request_count /\ k.size = s /\ k.mode = "RR"
      BY <2>1, TcpAssumption DEF TcpSize, Unanswered, Told
    <2>3. q.down = s.response /\ q.answered = q.request_count + 1 /\ q.stage = "RR"
      BY <2>2
    <2> QED
      BY <2>1, <2>3 DEF BeforeReply, Told
  <1> QED
    BY <1>1, <1>2, Zenon DEF Pace

(* Reply keeps the invariant.                                              *)
LEMMA ReplyKeeps ==
    ASSUME TcpIInv, NEW c \in ConnIds, Reply(c), UNCHANGED clientVars
    PROVE  TcpIInv'
  <1> DEFINE k == conns[c]
             w == k.down + k.size.response
             n == k.answered + 1
             a == [k EXCEPT !.stage = k.mode]
             b == [a EXCEPT !.down = w]
             q == [b EXCEPT !.answered = n]
             done == [k EXCEPT !.stage = k.mode, !.down = @ + k.size.response, !.answered = @ + 1]
  <1>1. k \in TcpConn /\ ModeKnown(k) /\ k.stage = "reply"
    BY Zenon DEF TcpIInv, TcpTypes, Reply
  <1>2. /\ Handled(k) /\ k.mode # "none" /\ k.down \in 0..Window /\ k.size.response \in Nat /\ k.answered \in Nat
        /\ k.mode \in TcpModes \cup {"none"}
    BY <1>1, ConnIs DEF Handled, ModeKnown
  <1>3. ASSUME k.size.response = 0 \/ CanWrite(k, k.size.response),
               IF k.mode = "CRR" THEN Return(c, done) ELSE Continue(c, done)
        PROVE  TcpIInv'
    <2>1. w \in 0..Window /\ n \in Nat /\ k.mode \in Stages
      BY <1>2, <1>3, TcpAssumption DEF CanWrite, Stages
    <2>2. a.down = k.down /\ b.answered = k.answered
      BY <1>1 DEF TcpConn
    <2>3. done = q
      BY <2>2
    <2> HIDE DEF w, n
    <2>4. /\ q.held = k.held /\ q.request_count = k.request_count /\ q.header_sent = k.header_sent
          /\ q.reader = k.reader /\ q.size = k.size /\ q.mode = k.mode /\ q.answered = n /\ q.down = w
          /\ q.stage = k.mode /\ q.header = k.header /\ q.up = k.up /\ q.left = k.left
      BY <1>1 DEF TcpConn
    <2>5. a \in TcpConn
      BY <1>1, <2>1, ConnWith, Zenon
    <2> HIDE DEF a
    <2>6. b \in TcpConn
      BY <2>1, <2>5, ConnWith, Zenon
    <2> HIDE DEF b
    <2>7. q \in TcpConn
      BY <2>1, <2>6, ConnWith, Zenon
    <2> HIDE DEF q, done
    <2>8. CASE k.mode = "CRR"
      <3> DEFINE z == Closed(q)
      <3>1. z \in TcpConn /\ ModeKnown(z) /\ z.held = q.held /\ z.request_count = q.request_count
        BY <2>7, ClosedIs, Zenon
      <3>2. Paced(k, z)
        <4> SUFFICES ASSUME NEW pc, NEW s, Pace(k, pc, s) PROVE Pace(z, pc, s)
          BY Zenon DEF Paced
        <4>1. ~BeforeHeader(k) /\ ~BeforeWrite(k, s) /\ ~BeforeReply(k, s) /\ ~AtRest(k, s)
          BY <2>8 DEF BeforeHeader, BeforeWrite, BeforeReply, AtRest, Told
        <4> QED
          BY <4>1, Zenon DEF Pace
      <3>3. Serves(k, Closed(q))
        BY <2>4, <3>1, <3>2, Zenon DEF Serves
      <3>4. Return(c, q)
        BY <1>3, <2>3, <2>8, Zenon
      <3> QED
        BY <1>2, <2>7, <3>3, <3>4, ReturnKeeps, Zenon
    <2>9. CASE k.mode # "CRR"
      <3>1. Continue(c, q)
        BY <1>3, <2>3, <2>9, Zenon
      <3>2. Paced(k, q)
        BY <1>1, <2>4, ReplyPaced, Zenon DEF w, n
      <3>3. ModeKnown(q) /\ Handled(q)
        BY <1>2, <2>4 DEF ModeKnown, Handled, TcpModes
      <3>4. Serves(k, q)
        BY <2>4, <2>7, <3>2, <3>3, Zenon DEF Serves
      <3> QED
        BY <1>2, <3>1, <3>3, <3>4, ContinueKeeps, Zenon
    <2> QED
      BY <2>8, <2>9
  <1>4. ASSUME WriteFails(k), Return(c, k) PROVE TcpIInv'
    BY <1>2, <1>4, GoneKeeps, Zenon DEF WriteFails
  <1> QED
    BY <1>3, <1>4, Zenon DEF Reply

(* A stage of another mode goes on with q.                                 *)
LEMMA OtherKeeps ==
    ASSUME TcpIInv, NEW c \in ConnIds, conns[c].stage \in {"Echo", "Sink", "Source"}, NEW q \in TcpConn,
           q.stage = conns[c].stage, q.held = conns[c].held, q.request_count = conns[c].request_count,
           q.mode = conns[c].mode, Continue(c, q), UNCHANGED clientVars
    PROVE  TcpIInv'
  <1> DEFINE k == conns[c]
  <1>1. k \in TcpConn /\ ModeKnown(k)
    BY Zenon DEF TcpIInv, TcpTypes
  <1>2. Handled(k) /\ Handled(q) /\ ModeKnown(q) /\ k.stage \in {"Echo", "Sink", "Source", "CRR", "Bidir"}
    BY <1>1 DEF Handled, ModeKnown
  <1>3. Paced(k, q)
    BY <1>1, <1>2, OtherStage, Zenon
  <1>4. Serves(k, q)
    BY <1>2, <1>3, Zenon DEF Serves
  <1> QED
    BY <1>2, <1>4, ContinueKeeps, Zenon

(* SinkRead, SourceWrite and EchoLoop keep the invariant.                  *)
LEMMA StreamsKeep ==
    ASSUME TcpIInv, NEW c \in ConnIds, SinkRead(c) \/ SourceWrite(c) \/ EchoLoop(c), UNCHANGED clientVars
    PROVE  TcpIInv'
  <1> DEFINE k == conns[c]
  <1>1. k \in TcpConn /\ k.stage \in {"Echo", "Sink", "Source"}
    <2>1. k \in TcpConn
      BY Zenon DEF TcpIInv, TcpTypes
    <2>2. k.stage = "Echo" \/ k.stage = "Sink" \/ k.stage = "Source"
      BY Zenon DEF SinkRead, SourceWrite, EchoLoop
    <2> QED
      BY <2>1, <2>2
  <1>2. Handled(k) /\ k.up \in Nat /\ k.down \in 0..Window /\ k.size.response \in Nat /\ Window \in Nat
    BY <1>1, ConnIs, TcpAssumption DEF Handled
  <1>3. ASSUME ~ClientOpen(k), Return(c, k) PROVE TcpIInv'
    BY <1>2, <1>3, GoneKeeps, Zenon
  <1>4. ASSUME Continue(c, [k EXCEPT !.up = 0]) PROVE TcpIInv'
    <2> DEFINE q == [k EXCEPT !.up = 0]
    <2>1. 0 \in Nat
      OBVIOUS
    <2>2. q \in TcpConn
      BY <1>1, <2>1, ConnWith, Zenon
    <2>3. q.stage = k.stage /\ q.held = k.held /\ q.request_count = k.request_count /\ q.mode = k.mode
      BY <1>1 DEF TcpConn
    <2> HIDE DEF q
    <2> QED
      BY <1>1, <1>4, <2>2, <2>3, OtherKeeps, Zenon DEF q
  <1>5. ASSUME CanWrite(k, k.size.response), Continue(c, [k EXCEPT !.down = @ + k.size.response]) PROVE TcpIInv'
    <2> DEFINE w == k.down + k.size.response
               q == [k EXCEPT !.down = w]
    <2>1. w \in 0..Window
      BY <1>2, <1>5 DEF CanWrite
    <2> HIDE DEF w
    <2>2. q \in TcpConn
      BY <1>1, <2>1, ConnWith, Zenon
    <2>3. q.stage = k.stage /\ q.held = k.held /\ q.request_count = k.request_count /\ q.mode = k.mode
      BY <1>1 DEF TcpConn
    <2> HIDE DEF q
    <2> QED
      BY <1>1, <1>5, <2>2, <2>3, OtherKeeps, Zenon DEF q, w
  <1>6. ASSUME NEW n \in 1..k.up, CanWrite(k, n), Continue(c, [k EXCEPT !.up = @ - n, !.down = @ + n]) PROVE TcpIInv'
    <2> DEFINE m == k.up - n
               w == k.down + n
               a == [k EXCEPT !.up = m]
               q == [a EXCEPT !.down = w]
    <2>1. m \in Nat /\ w \in 0..Window
      BY <1>2, <1>6 DEF CanWrite
    <2>2. a.down = k.down
      BY <1>1 DEF TcpConn
    <2>3. [k EXCEPT !.up = @ - n, !.down = @ + n] = q
      BY <2>2
    <2> HIDE DEF m, w
    <2>4. q.stage = k.stage /\ q.held = k.held /\ q.request_count = k.request_count /\ q.mode = k.mode
      BY <1>1 DEF TcpConn
    <2>5. a \in TcpConn
      BY <1>1, <2>1, ConnWith, Zenon
    <2> HIDE DEF a
    <2>6. q \in TcpConn
      BY <2>1, <2>5, ConnWith, Zenon
    <2> HIDE DEF q
    <2> QED
      BY <1>1, <1>6, <2>3, <2>4, <2>6, OtherKeeps, Zenon
  <1>7. (ServerEof(k) => ~ClientOpen(k)) /\ (WriteFails(k) => ~ClientOpen(k))
    BY Zenon DEF ServerEof, WriteFails
  <1>8. CASE SinkRead(c)
    BY <1>3, <1>4, <1>7, <1>8, Zenon DEF SinkRead
  <1>9. CASE SourceWrite(c)
    BY <1>3, <1>5, <1>7, <1>9, Zenon DEF SourceWrite
  <1>10. CASE EchoLoop(c)
    BY <1>3, <1>6, <1>7, <1>10, Zenon DEF EchoLoop
  <1> QED
    BY <1>8, <1>9, <1>10

(* A connection closed while it waits or works: the client finds out.      *)
LEMMA ClosedPaced ==
    ASSUME NEW k \in TcpConn, NEW z, z.stage = "closed", z.header = 0, z.up = 0, z.left = 0 \/ k.stage = "backlog",
           z.left = 0 \/ z.left = k.left, z.down = k.down,
           z.answered = k.answered, z.mode = k.mode, z.size = k.size, z.header_sent = k.header_sent,
           z.reader = k.reader, z.request_count = k.request_count
    PROVE  Paced(k, z)
  <1> SUFFICES ASSUME NEW pc, NEW s, s.response > 0, Pace(k, pc, s) PROVE Pace(z, pc, s)
    BY Zenon DEF Paced
  <1>1. BeforeHeader(k) => BeforeHeader(z)
    BY DEF BeforeHeader, Unanswered
  <1>2. BeforeWrite(k, s) => BeforeWrite(z, s)
    BY DEF BeforeWrite, Unanswered, Told
  <1>3. AtRest(k, s) => AtRest(z, s)
    BY DEF AtRest, Unanswered, Told
  <1>4. ASSUME BeforeReply(k, s) PROVE BeforeReply(z, s)
    <2>1. Told(z, s)
      BY <1>4 DEF BeforeReply, Told
    <2>2. CASE Unanswered(k)
      <3>1. z.down < s.response
        BY <2>2 DEF Unanswered
      <3> QED
        BY <2>1, <3>1 DEF BeforeReply
    <2>3. CASE k.stage = "closed" /\ k.down < s.response
      BY <2>1, <2>3 DEF BeforeReply
    <2>4. CASE k.stage \in {"RR", "closed"} /\ k.down = s.response /\ k.answered = k.request_count + 1
      <3>1. z.left = 0
        BY <2>4
      <3> QED
        BY <2>1, <2>4, <3>1 DEF BeforeReply
    <2> QED
      BY <1>4, <2>2, <2>3, <2>4, Zenon DEF BeforeReply
  <1> QED
    BY <1>1, <1>2, <1>3, <1>4, Zenon DEF Pace

(* A connection that waited gets its handler, in step as it was.           *)
LEMMA FirstPaced ==
    ASSUME NEW k \in TcpConn, k.stage = "backlog", NEW q, q.stage = "first", q.header = k.header, q.up = k.up,
           q.left = k.left, q.down = k.down, q.answered = k.answered, q.mode = k.mode, q.size = k.size,
           q.header_sent = k.header_sent, q.reader = k.reader, q.request_count = k.request_count
    PROVE  Paced(k, q)
  <1> SUFFICES ASSUME NEW pc, NEW s, Pace(k, pc, s) PROVE Pace(q, pc, s)
    BY Zenon DEF Paced
  <1>1. BeforeHeader(k) => BeforeHeader(q)
    BY DEF BeforeHeader, Unanswered
  <1>2. OnItsWay(k) => OnItsWay(q)
    BY DEF OnItsWay
  <1>3. BeforeWrite(k, s) => BeforeWrite(q, s)
    BY <1>2 DEF BeforeWrite, Unanswered, Told
  <1>4. ~AtRest(k, s)
    BY DEF AtRest
  <1>5. BeforeReply(k, s) => BeforeReply(q, s)
    BY <1>2 DEF BeforeReply, Unanswered, Told
  <1> QED
    BY <1>1, <1>3, <1>4, <1>5, Zenon DEF Pace

(* Accept keeps the invariant.                                             *)
LEMMA AcceptKeeps ==
    ASSUME TcpIInv, NEW c \in ConnIds, Accept(c), UNCHANGED clientVars
    PROVE  TcpIInv'
  <1> DEFINE k == conns[c]
  <1>1. k \in TcpConn /\ ModeKnown(k) /\ k.stage = "backlog" /\ UNCHANGED <<tcp, server>>
    BY Zenon DEF TcpIInv, TcpTypes, Accept
  <1>2. ~Handled(k)
    BY <1>1 DEF Handled
  <1>3. UNCHANGED <<tcp, clientVars>> /\ conns \in [ConnIds -> TcpConn] /\ tcp \in TcpConfigs
    BY <1>1, Zenon DEF TcpIInv, TcpTypes
  <1>4. CASE LimitReached
    <2> DEFINE a == [k EXCEPT !.stage = "closed"]
               b == [a EXCEPT !.header = 0]
               q == [b EXCEPT !.up = 0]
    <2>1. conns' = [conns EXCEPT ![c] = Settle(q)] /\ UNCHANGED <<tcp, handlers, server>>
      BY <1>1, <1>4, Zenon DEF Accept, Becomes
    <2>2. 0 \in Nat /\ 0 \in 0..2 /\ "closed" \in Stages
      BY DEF Stages
    <2>3. /\ q.stage = "closed" /\ q.header = 0 /\ q.up = 0 /\ q.left = k.left /\ q.down = k.down
          /\ q.answered = k.answered /\ q.mode = k.mode /\ q.size = k.size /\ q.header_sent = k.header_sent
          /\ q.reader = k.reader /\ q.request_count = k.request_count /\ q.held = k.held
      BY <1>1 DEF TcpConn
    <2>4. a \in TcpConn
      BY <1>1, <2>2, ConnWith, Zenon
    <2> HIDE DEF a
    <2>5. b \in TcpConn
      BY <2>2, <2>4, ConnWith, Zenon
    <2> HIDE DEF b
    <2>6. q \in TcpConn
      BY <2>2, <2>5, ConnWith, Zenon
    <2> HIDE DEF q
    <2>7. ModeKnown(q) /\ ~Handled(q)
      BY <2>3 DEF ModeKnown, Handled
    <2>8. Paced(k, q)
      BY <1>1, <2>3, ClosedPaced, Zenon
    <2>9. Serves(k, q)
      BY <2>3, <2>6, <2>7, <2>8, Zenon DEF Serves
    <2>10. Continue(c, q)
      BY <2>1, Zenon DEF Continue, Becomes
    <2> QED
      BY <1>2, <2>7, <2>9, <2>10, ContinueKeeps, Zenon
  <1>5. CASE ~LimitReached
    <2> DEFINE q == [k EXCEPT !.stage = "first"]
    <2>1. conns' = [conns EXCEPT ![c] = Settle(q)] /\ handlers' = handlers + 1
      BY <1>5, Zenon DEF Accept, Becomes
    <2>2. "first" \in Stages
      BY DEF Stages
    <2>3. /\ q.stage = "first" /\ q.header = k.header /\ q.up = k.up /\ q.left = k.left /\ q.down = k.down
          /\ q.answered = k.answered /\ q.mode = k.mode /\ q.size = k.size /\ q.header_sent = k.header_sent
          /\ q.reader = k.reader /\ q.request_count = k.request_count /\ q.held = k.held
      BY <1>1 DEF TcpConn
    <2>4. q \in TcpConn
      BY <1>1, <2>2, ConnWith, Zenon
    <2> HIDE DEF q
    <2>5. ModeKnown(q) /\ Handled(q)
      BY <2>3 DEF ModeKnown, Handled
    <2>6. Paced(k, q)
      BY <1>1, <2>3, FirstPaced, Zenon
    <2>7. Serves(k, q)
      BY <2>3, <2>4, <2>5, <2>6, Zenon DEF Serves
    <2>8. TcpTypes' /\ TcpOwners' /\ TcpInStep' /\ TcpCounts' /\ TcpLife'
      BY <1>3, <2>1, <2>7, ServerMove, Zenon DEF TcpIInv
    <2>9. Handled(Settle(q))
      BY <2>4, <2>5, SettleIs, Zenon
    <2>10. Cardinality(LiveHandlers) \in Nat /\ Cardinality(LiveHandlers') = Cardinality(LiveHandlers) + 1
      BY <1>2, <1>3, <2>1, <2>9, HandlersAre, Zenon
    <2>11. /\ handlers = Cardinality(LiveHandlers) /\ server \in {"up", "stopping", "down"}
      BY Zenon DEF TcpIInv, TcpHandlers
    <2>12. tcp.server_max \in Nat /\ tcp' = tcp /\ server' = server
      BY <1>1, <1>3, ConfigIs
    <2>13. handlers' = Cardinality(LiveHandlers') /\ (tcp.server_max > 0 => handlers' <= tcp.server_max)
      BY <1>5, <2>1, <2>10, <2>11, <2>12 DEF LimitReached
    <2>14. TcpHandlers'
      BY <2>11, <2>12, <2>13, Zenon DEF TcpHandlers
    <2> QED
      BY <2>8, <2>14, Zenon DEF TcpIInv
  <1> QED
    BY <1>4, <1>5

(* Shutdown keeps the invariant.                                           *)
LEMMA ShutdownKeeps ==
    ASSUME TcpIInv, Shutdown, UNCHANGED clientVars
    PROVE  TcpIInv'
  <1>1. /\ tcp' = tcp /\ conns' = conns /\ handlers' = handlers /\ server' = "stopping"
        /\ tasks' = tasks /\ idle' = idle /\ active' = active /\ lifecycle' = lifecycle
        /\ requests' = requests /\ results' = results
    BY DEF Shutdown, clientVars
  <1>2. TcpTypes' /\ TcpOwners' /\ TcpInStep'
    <2>1. \A c \in ConnIds : ModeKnown(conns'[c]) /\ conns'[c].held = conns[c].held
                             /\ \A pc : conns[c].held /\ InStep(conns[c], pc, tcp) => InStep(conns'[c], pc, tcp)
      BY <1>1, Zenon DEF TcpIInv, TcpTypes
    <2>2. conns' \in [ConnIds -> TcpConn]
      BY <1>1, Zenon DEF TcpIInv, TcpTypes
    <2> QED
      BY <1>1, <2>1, <2>2, ConnsAlone, Zenon DEF TcpIInv
  <1>3. InFlight' = InFlight /\ LiveHandlers' = LiveHandlers
    BY <1>1, Zenon DEF InFlight, LiveHandlers
  <1>4. TcpCounts'
    BY <1>1, <1>3, Zenon DEF TcpIInv, TcpCounts, Ended
  <1>5. TcpLife'
    BY <1>1, Zenon DEF TcpIInv, TcpLife
  <1>6. TcpHandlers'
    BY <1>1, <1>3 DEF TcpIInv, TcpHandlers
  <1> QED
    BY <1>2, <1>4, <1>5, <1>6, Zenon DEF TcpIInv

(* StopThread keeps the invariant: every handler ends, no client's end of  *)
(* a connection is touched.                                                *)
LEMMA StopThreadKeeps ==
    ASSUME TcpIInv, StopThread, UNCHANGED clientVars
    PROVE  TcpIInv'
  <1>1. /\ tcp' = tcp /\ handlers' = 0 /\ server' = "down" /\ tcp \in TcpConfigs
        /\ tasks' = tasks /\ idle' = idle /\ active' = active /\ lifecycle' = lifecycle
        /\ requests' = requests /\ results' = results
        /\ conns' = [c \in ConnIds |-> IF conns[c].stage = "none" THEN conns[c] ELSE Settle(Closed(conns[c]))]
    <2>1. conns' = [c \in ConnIds |-> IF conns[c].stage = "none" THEN conns[c] ELSE Settle(Closed(conns[c]))]
      BY Zenon DEF StopThread, Closed
    <2>2. tcp' = tcp /\ handlers' = 0 /\ server' = "down" /\ tcp \in TcpConfigs
      BY Zenon DEF TcpIInv, TcpTypes, StopThread
    <2>3. /\ tasks' = tasks /\ idle' = idle /\ active' = active /\ lifecycle' = lifecycle
          /\ requests' = requests /\ results' = results
      BY DEF clientVars
    <2> QED
      BY <2>1, <2>2, <2>3, Zenon
  <1>2. ASSUME NEW c \in ConnIds
        PROVE  /\ conns'[c] \in TcpConn /\ ModeKnown(conns'[c]) /\ conns'[c].held = conns[c].held /\ ~Handled(conns'[c])
               /\ conns'[c].request_count \in Nat /\ conns'[c].request_count <= conns[c].request_count
               /\ \A pc : conns[c].held /\ InStep(conns[c], pc, tcp) => InStep(conns'[c], pc, tcp)
    <2> DEFINE k == conns[c]
    <2>1. k \in TcpConn /\ ModeKnown(k) /\ k.request_count \in Nat
      BY ConnIs, Zenon DEF TcpIInv, TcpTypes
    <2>2. conns'[c] = IF k.stage = "none" THEN k ELSE Settle(Closed(k))
      BY <1>1
    <2>3. CASE k.stage = "none"
      <3>1. conns'[c] = k /\ ~Handled(k) /\ k.request_count <= k.request_count
        BY <2>1, <2>2, <2>3 DEF Handled
      <3> QED
        BY <2>1, <3>1, Zenon
    <2>4. CASE k.stage # "none"
      <3> DEFINE q == Closed(k)
                 z == Settle(q)
      <3>1. conns'[c] = z
        BY <2>2, <2>4, Zenon
      <3>2. /\ q \in TcpConn /\ ModeKnown(q) /\ q.held = k.held /\ ~Handled(q) /\ q.request_count = k.request_count
            /\ q.stage = "closed" /\ q.header = 0 /\ q.up = 0 /\ q.left = 0 /\ q.down = k.down /\ q.answered = k.answered
            /\ q.mode = k.mode /\ q.size = k.size /\ q.header_sent = k.header_sent /\ q.reader = k.reader
        BY <2>1, ClosedIs, Zenon
      <3> HIDE DEF q
      <3>3. /\ z \in TcpConn /\ ModeKnown(z) /\ z.held = q.held /\ (q.held => z = q) /\ (Handled(z) <=> Handled(q))
            /\ z.request_count \in Nat /\ z.request_count <= q.request_count
        BY <3>2, SettleIs, Zenon
      <3> HIDE DEF z
      <3>4. Paced(k, q)
        BY <2>1, <3>2, ClosedPaced, Zenon
      <3>5. ASSUME NEW pc, k.held, InStep(k, pc, tcp) PROVE InStep(z, pc, tcp)
        <4>1. z = q
          BY <3>2, <3>3, <3>5, Zenon
        <4> HIDE DEF k
        <4> QED
          BY <3>4, <3>5, <4>1, Zenon DEF InStep, Paced
      <3>6. /\ z.held = k.held /\ ~Handled(z) /\ z.request_count <= k.request_count
        BY <3>2, <3>3, Zenon
      <3> QED
        BY <3>1, <3>3, <3>5, <3>6, Zenon
    <2> QED
      BY <2>3, <2>4
  <1>3. conns' \in [ConnIds -> TcpConn]
    BY <1>1, <1>2
  <1>4. TcpTypes' /\ TcpOwners' /\ TcpInStep'
    BY <1>1, <1>2, <1>3, ConnsAlone, Zenon DEF TcpIInv
  <1>5. InFlight' = InFlight
    BY <1>1, Zenon DEF InFlight
  <1>6. TcpCounts'
    BY <1>1, <1>5, Zenon DEF TcpIInv, TcpCounts, Ended
  <1>7. TcpLife'
    <2>1. lifecycle \in [count : Nat, limit : Nat]
      BY Zenon DEF TcpIInv, TcpLife
    <2>2. lifecycle.count \in Nat /\ tcp.limits \subseteq Nat
      BY <1>1, <2>1, ConfigIs
    <2>3. ASSUME Limited(tcp), NEW c \in ConnIds PROVE Lived(conns'[c], tcp, lifecycle)
      <3>1. Lived(conns[c], tcp, lifecycle) /\ conns[c].request_count \in Nat
        BY <2>3, ConnIs, Zenon DEF TcpIInv, TcpTypes, TcpLife
      <3>2. PICK n \in tcp.limits : conns[c].request_count <= n + 1
        BY <3>1, Zenon DEF Lived
      <3>3. conns'[c].request_count \in Nat /\ conns'[c].request_count <= conns[c].request_count
        BY <1>2, Zenon
      <3>4. n \in Nat
        BY <2>2, Zenon
      <3>5. conns'[c].request_count <= n + 1
        BY <3>1, <3>2, <3>3, <3>4
      <3>6. conns'[c].held => conns'[c].request_count <= lifecycle.count
        <4>1. conns'[c].held => conns[c].request_count <= lifecycle.count
          BY <1>2, <3>1, Zenon DEF Lived
        <4> QED
          BY <2>2, <3>1, <3>3, <4>1
      <3> QED
        BY <3>5, <3>6, Zenon DEF Lived
    <2> QED
      BY <1>1, <2>3, Zenon DEF TcpIInv, TcpLife
  <1>8. TcpHandlers'
    <2>1. LiveHandlers' = {}
      BY <1>2, Zenon DEF LiveHandlers
    <2>2. Cardinality(LiveHandlers') = 0
      BY <2>1, FS_EmptySet, Zenon
    <2>3. tcp.server_max \in Nat
      BY <1>1, ConfigIs
    <2> QED
      BY <1>1, <2>2, <2>3 DEF TcpHandlers
  <1> QED
    BY <1>4, <1>6, <1>7, <1>8, Zenon DEF TcpIInv

(* BackgroundRead keeps the invariant.                                     *)
LEMMA BackgroundReadKeeps ==
    ASSUME TcpIInv, NEW c \in ConnIds, BackgroundRead(c)
    PROVE  TcpIInv'
  <1> DEFINE k == conns[c]
  <1>1. /\ k \in TcpConn /\ ModeKnown(k) /\ k.reader /\ UNCHANGED <<tcp, handlers, server>> /\ UNCHANGED clientVars
        /\ conns \in [ConnIds -> TcpConn]
    <2>1. k \in TcpConn /\ ModeKnown(k) /\ conns \in [ConnIds -> TcpConn]
      BY Zenon DEF TcpIInv, TcpTypes
    <2> QED
      BY <2>1 DEF BackgroundRead
  <1>2. ASSUME NEW q \in TcpConn, q.stage = k.stage, q.held = k.held, q.request_count = k.request_count,
               q.mode = k.mode, Continue(c, q)
        PROVE  TcpIInv'
    <2>1. ModeKnown(q) /\ (Handled(q) <=> Handled(k))
      BY <1>1, <1>2 DEF ModeKnown, Handled
    <2>2. Paced(k, q)
      BY <1>1, OtherStage, Zenon
    <2>3. Serves(k, q)
      BY <1>2, <2>1, <2>2, Zenon DEF Serves
    <2> QED
      BY <1>1, <1>2, <2>1, <2>3, ContinueKeeps, Zenon
  <1>3. CASE conns' = [conns EXCEPT ![c].down = 0]
    <2> DEFINE q == [k EXCEPT !.down = 0]
    <2>1. 0 \in 0..Window
      BY TcpAssumption
    <2>2. q \in TcpConn
      BY <1>1, <2>1, ConnWith, Zenon
    <2>3. /\ q.stage = k.stage /\ q.held = k.held /\ q.request_count = k.request_count /\ q.mode = k.mode
          /\ q.reader = k.reader
      <3>1. k \in TcpConn
        BY <1>1, Zenon
      <3> HIDE DEF k
      <3> QED
        BY <3>1 DEF TcpConn
    <2>4. conns' = [conns EXCEPT ![c] = q]
      BY <1>3, Zenon
    <2> HIDE DEF q
    <2>5. Settle(q) = q
      BY <1>1, <2>3, Zenon DEF Settle, ClientOpen
    <2>6. Continue(c, q)
      BY <1>1, <2>4, <2>5, Zenon DEF Continue, Becomes
    <2> QED
      BY <1>2, <2>2, <2>3, <2>6, Zenon
  <1>4. CASE conns' = [conns EXCEPT ![c] = Settle([@ EXCEPT !.reader = FALSE])]
    <2> DEFINE q == [k EXCEPT !.reader = FALSE]
    <2>1. FALSE \in BOOLEAN
      BY Zenon
    <2>2. q \in TcpConn
      BY <1>1, <2>1, ConnWith, Zenon
    <2>3. q.stage = k.stage /\ q.held = k.held /\ q.request_count = k.request_count /\ q.mode = k.mode
      BY <1>1 DEF TcpConn
    <2>4. conns' = [conns EXCEPT ![c] = Settle(q)]
      BY <1>4, Zenon
    <2> HIDE DEF q
    <2>5. Continue(c, q)
      BY <1>1, <2>4, Zenon DEF Continue, Becomes
    <2> QED
      BY <1>2, <2>2, <2>3, <2>5, Zenon
  <1> QED
    BY <1>3, <1>4, Zenon DEF BackgroundRead

-----------------------------------------------------------------------------
(* The client.                                                             *)

(* One more request has ended.                                             *)
LEMMA EndedGrows ==
    ASSUME results \in [Outcomes -> Nat], NEW o \in Outcomes, results' = [results EXCEPT ![o] = @ + 1]
    PROVE  results' \in [Outcomes -> Nat] /\ Ended \in Nat /\ Ended' = Ended + 1
  <1> DEFINE a == results["ok"]
             b == results["connect"]
             c == results["protocol"]
             d == results["timeout"]
  <1>1. a \in Nat /\ b \in Nat /\ c \in Nat /\ d \in Nat
    BY DEF Outcomes
  <1>2. results' \in [Outcomes -> Nat] /\ \A p \in Outcomes : results'[p] = IF p = o THEN results[p] + 1 ELSE results[p]
    OBVIOUS
  <1>3. /\ results'["ok"] = (IF o = "ok" THEN a + 1 ELSE a) /\ results'["connect"] = (IF o = "connect" THEN b + 1 ELSE b)
        /\ results'["protocol"] = (IF o = "protocol" THEN c + 1 ELSE c)
        /\ results'["timeout"] = (IF o = "timeout" THEN d + 1 ELSE d)
    BY <1>2 DEF Outcomes
  <1>4. o = "ok" \/ o = "connect" \/ o = "protocol" \/ o = "timeout"
    BY DEF Outcomes
  <1>5. Ended = a + b + c + d /\ Ended' = results'["ok"] + results'["connect"] + results'["protocol"] + results'["timeout"]
    BY DEF Ended
  <1> HIDE DEF a, b, c, d
  <1> QED
    BY <1>1, <1>2, <1>3, <1>4, <1>5

(* The pool's count when a request ends: with its connection put back,     *)
(* dropped, or, by a timeout, taken without a word.                        *)
LEMMA CountsEnd ==
    ASSUME TcpTypes, TcpCounts, NEW t \in Tasks, tasks[t].pc # "free", NEW o \in Outcomes, End(t, o),
           UNCHANGED <<tcp, requests>>,
           \/ active' \in {active, Less(active)} /\ Len(idle') = Len(idle)
           \/ active' = Less(active) /\ Len(idle') = Len(idle) + 1
    PROVE  TcpCounts'
  <1> DEFINE f == Cardinality(InFlight)
             g == Cardinality(InFlight')
             m == tcp.max_connections
  <1>1. tasks' = [tasks EXCEPT ![t] = NoTask] /\ results' = [results EXCEPT ![o] = @ + 1] /\ NoTask.pc = "free"
    BY EmptyRecords, Zenon DEF End
  <1>2. /\ active \in Nat /\ IsFiniteSet(InFlight) /\ f <= active /\ (m > 0 => active + Len(idle) <= m)
        /\ requests \in Nat /\ requests <= MaxRequests /\ results \in [Outcomes -> Nat]
        /\ Ended + f = requests
    BY Zenon DEF TcpCounts
  <1>3. IsFiniteSet(InFlight') /\ g = f - 1 /\ f >= 1 /\ f \in Nat
    <2>1. /\ NoTask.pc = "free" /\ tasks[t].pc # "free" => IsFiniteSet(InFlight') /\ g = f - 1
          /\ tasks[t].pc # "free" => f >= 1
          /\ f \in Nat
      BY <1>1, <1>2, FlightIs, Zenon
    <2> QED
      BY <1>1, <2>1, Zenon
  <1>4. tcp' = tcp /\ requests' = requests /\ m \in Nat /\ Len(idle) \in Nat
    BY ConfigIs DEF TcpTypes
  <1> HIDE DEF f, g, m
  <1>5. active >= 1 /\ Less(active) = active - 1
    BY <1>2, <1>3 DEF Less
  <1>6. active' \in Nat /\ g <= active' /\ (m > 0 => active' + Len(idle') <= m)
    <2>1. \/ (active' = active \/ active' = active - 1) /\ Len(idle') = Len(idle)
          \/ active' = active - 1 /\ Len(idle') = Len(idle) + 1
      BY <1>5
    <2> QED
      BY <1>2, <1>3, <1>4, <1>5, <2>1
  <1>7. results' \in [Outcomes -> Nat] /\ Ended \in Nat /\ Ended' = Ended + 1
    BY <1>1, <1>2, EndedGrows, Zenon
  <1>8. Ended' + g = requests
    BY <1>2, <1>3, <1>7
  <1> QED
    BY <1>2, <1>3, <1>4, <1>6, <1>7, <1>8, Zenon DEF TcpCounts, f, g, m

(* The pool's count while a request goes on.                               *)
LEMMA CountsOn ==
    ASSUME TcpTypes, TcpCounts, NEW t \in Tasks, NEW r, tasks[t].pc # "free", r.pc # "free",
           tasks' = [tasks EXCEPT ![t] = r], UNCHANGED <<tcp, idle, active, requests, results>>
    PROVE  TcpCounts'
  <1>1. InFlight' = InFlight
    BY FlightIs, Zenon DEF TcpCounts
  <1>2. tcp' = tcp /\ idle' = idle /\ active' = active /\ requests' = requests /\ results' = results
    OBVIOUS
  <1> QED
    BY <1>1, <1>2, Zenon DEF TcpCounts, Ended

(* The pool's count when a request begins with a connection.               *)
LEMMA CountsBegin ==
    ASSUME TcpTypes, TcpCounts, NEW t \in Tasks, NEW r, tasks[t].pc = "free", r.pc # "free",
           tasks' = [tasks EXCEPT ![t] = r], UNCHANGED <<tcp, results>>, active' = active + 1, requests' = requests + 1,
           requests < MaxRequests, Len(idle') \in Nat,
           Len(idle') = Len(idle) - 1 \/ (can_open_new /\ Len(idle') = Len(idle))
    PROVE  TcpCounts'
  <1> DEFINE f == Cardinality(InFlight)
             g == Cardinality(InFlight')
             m == tcp.max_connections
             w == Ended
  <1>1. /\ active \in Nat /\ IsFiniteSet(InFlight) /\ f <= active /\ (m > 0 => active + Len(idle) <= m)
        /\ requests \in Nat /\ requests <= MaxRequests /\ results \in [Outcomes -> Nat] /\ w + f = requests
    BY Zenon DEF TcpCounts
  <1>2. IsFiniteSet(InFlight') /\ g = f + 1 /\ f \in Nat
    BY <1>1, FlightIs, Zenon
  <1>3. tcp' = tcp /\ results' = results /\ m \in Nat /\ Len(idle) \in Nat /\ MaxRequests \in Nat
    BY ConfigIs, TcpAssumption DEF TcpTypes
  <1>4. w \in Nat /\ Ended' = w
    BY <1>1, <1>3 DEF Outcomes, Ended
  <1>5. can_open_new => m = 0 \/ active + Len(idle) < m
    BY Zenon DEF can_open_new
  <1> HIDE DEF f, g, m, w
  <1>6. /\ active' \in Nat /\ g <= active' /\ requests' \in Nat /\ requests' <= MaxRequests
        /\ m > 0 => active' + Len(idle') <= m
    BY <1>1, <1>2, <1>3, <1>5
  <1>7. w + g = requests'
    BY <1>1, <1>2, <1>4
  <1> QED
    BY <1>1, <1>2, <1>3, <1>4, <1>6, <1>7, Zenon DEF TcpCounts, f, g, m

(* No connection is touched.                                               *)
LEMMA ConnsSame ==
    ASSUME TcpLife, TcpHandlers, UNCHANGED <<tcp, conns, handlers, server, lifecycle>>
    PROVE  TcpLife' /\ TcpHandlers'
  <1>1. tcp' = tcp /\ conns' = conns /\ handlers' = handlers /\ server' = server /\ lifecycle' = lifecycle
    OBVIOUS
  <1>2. LiveHandlers' = LiveHandlers
    BY <1>1, Zenon DEF LiveHandlers
  <1>3. TcpLife'
    BY <1>1, Zenon DEF TcpLife
  <1> QED
    BY <1>1, <1>2, <1>3, Zenon DEF TcpHandlers

(* A request takes an idle connection.                                     *)
LEMMA ReuseKeeps ==
    ASSUME TcpIInv, NEW t \in Tasks, tasks[t].pc = "free", requests < MaxRequests, requests' = requests + 1,
           NEW size \in tcp.sizes, idle # <<>>, Enter(t, Head(idle), size, conns[Head(idle)]), idle' = Tail(idle),
           active' = active + 1, UNCHANGED results, UNCHANGED <<linkVars, lifecycle>>
    PROVE  TcpIInv'
  <1> USE DEF TcpIInv
  <1> DEFINE c  == Head(idle)
             k  == conns[c]
             pc == IF SendsHeader(k) THEN "header" ELSE "write"
             r  == [pc |-> pc, conn |-> c, size |-> size]
  <1>1. /\ tcp' = tcp /\ conns' = conns /\ handlers' = handlers /\ server' = server /\ lifecycle' = lifecycle
        /\ results' = results
    BY DEF linkVars
  <1>2. idle \in Seq(ConnIds) /\ \A i, j \in 1..Len(idle) : idle[i] = idle[j] => i = j
    BY Zenon DEF TcpTypes, TcpOwners
  <1>3. /\ idle' \in Seq(ConnIds) /\ c \in ConnIds /\ InPool(idle, c) /\ ~ InPool(idle', c)
        /\ \A i, j \in 1..Len(idle') : idle'[i] = idle'[j] => i = j
        /\ \A d : d # c => (InPool(idle', d) <=> InPool(idle, d))
    <2> DEFINE q == Tail(idle)
    <2>1. /\ q \in Seq(ConnIds) /\ c \in ConnIds /\ InPool(idle, c) /\ ~ InPool(q, c)
          /\ \A i, j \in 1..Len(q) : q[i] = q[j] => i = j
          /\ \A d : d # c => (InPool(q, d) <=> InPool(idle, d))
      BY <1>2, PoolTail, Zenon
    <2>2. idle' = q
      OBVIOUS
    <2> HIDE DEF q, c
    <2> QED
      BY <2>1, <2>2, Zenon
  <1>4. Len(idle') \in Nat /\ Len(idle') = Len(idle) - 1
    BY <1>2
  <1>5. tasks' = [tasks EXCEPT ![t] = r]
    BY Zenon DEF Enter
  <1>6. /\ r.pc = pc /\ r.conn = c /\ r.size = size /\ (pc = "header" \/ pc = "write") /\ (pc = "header" => SendsHeader(k))
        /\ r = [pc |-> r.pc, conn |-> r.conn, size |-> r.size]
    <2>1. r.pc = pc /\ r.conn = c /\ r.size = size
      BY Zenon
    <2> QED
      BY <2>1, Zenon
  <1> HIDE DEF r, pc, c
  <1>7. k \in TcpConn /\ ModeKnown(k) /\ k.held /\ InStep(k, "idle", tcp)
    BY <1>3, Zenon DEF TcpTypes, TcpOwners, TcpInStep
  <1>8. TaskOK(r, tcp)
    <2>1. SendsHeader(k) => tcp.mode # "Echo"
      BY Zenon DEF SendsHeader
    <2> QED
      BY <1>3, <1>6, <2>1 DEF TaskOK, OnConn
  <1>9. InStep(k, pc, tcp)
    <2> SUFFICES ASSUME NEW s \in TcpSize, AtRest(k, s) PROVE Pace(k, pc, s)
      <3>1. \A s \in TcpSize : Pace(k, "idle", s) => AtRest(k, s)
        BY Zenon DEF Pace
      <3> QED
        BY <1>7, <3>1, Zenon DEF InStep
    <2>1. pc = "write"
      BY <1>6 DEF AtRest, Told, SendsHeader
    <2>2. BeforeWrite(k, s)
      BY DEF AtRest, BeforeWrite, OnItsWay
    <2> QED
      BY <2>1, <2>2 DEF Pace
  <1>10. tasks[t].conn = 0 /\ \A u \in Tasks : u # t => tasks[u].conn # c
    <2>1. tasks[t].conn = 0
      BY DEF TcpTypes, TaskOK, OnConn
    <2>2. c # 0
      BY <1>3, TcpAssumption
    <2>3. \A u \in Tasks : tasks[u].conn # 0 => ~ InPool(idle, tasks[u].conn)
      BY Zenon DEF TcpOwners
    <2> QED
      BY <1>3, <2>1, <2>2, <2>3, Zenon
  <1>11. conns' = [conns EXCEPT ![c] = k]
    BY <1>1, <1>3 DEF TcpTypes
  <1>12. TcpMove(t, c, r, k)
    <2>1. tasks[t].conn \in {0, c} /\ r.conn \in {0, c}
      BY <1>6, <1>10
    <2> HIDE DEF k
    <2> QED
      BY <1>1, <1>3, <1>5, <1>6, <1>7, <1>8, <1>9, <1>10, <1>11, <2>1, Zenon DEF TcpMove
  <1>13. TcpTypes' /\ TcpOwners' /\ TcpInStep'
    BY <1>3, <1>12, OneTask, Zenon
  <1>14. TcpCounts'
    <2>1. r.pc # "free"
      BY <1>6
    <2> QED
      BY <1>1, <1>4, <1>5, <2>1, CountsBegin, Zenon
  <1>15. TcpLife' /\ TcpHandlers'
    BY <1>1, ConnsSame, Zenon
  <1> QED
    BY <1>13, <1>14, <1>15, Zenon

(* Execute keeps the invariant.                                            *)
LEMMA TcpExecuteKeeps ==
    ASSUME TcpIInv, NEW t \in Tasks, Execute(t)
    PROVE  TcpIInv'
  <1> USE DEF TcpIInv
  <1>1. tasks[t].pc = "free" /\ requests < MaxRequests /\ requests' = requests + 1 /\ UNCHANGED <<linkVars, lifecycle>>
    BY Zenon DEF Execute
  <1>2. tcp' = tcp /\ conns' = conns /\ handlers' = handlers /\ server' = server /\ lifecycle' = lifecycle
    BY <1>1 DEF linkVars
  <1>3. TcpLife' /\ TcpHandlers'
    BY <1>2, ConnsSame, Zenon
  <1>4. tasks[t].conn = 0 /\ Len(idle) \in Nat
    BY <1>1 DEF TcpTypes, TaskOK, OnConn
  <1>5. ASSUME NEW size \in tcp.sizes, can_open_new, active' = active + 1, UNCHANGED <<idle, results>>,
               tasks' = [tasks EXCEPT ![t] = [pc |-> "connecting", conn |-> 0, size |-> size]]
        PROVE  TcpIInv'
    <2> DEFINE r == [pc |-> "connecting", conn |-> 0, size |-> size]
    <2>1. /\ r.pc = "connecting" /\ r.conn = 0 /\ r.size = size /\ r.pc # "free"
          /\ r = [pc |-> r.pc, conn |-> r.conn, size |-> r.size]
      OBVIOUS
    <2>2. tasks' = [tasks EXCEPT ![t] = r] /\ idle' = idle /\ results' = results
      BY <1>5
    <2> HIDE DEF r
    <2>3. TaskOK(r, tcp)
      BY <2>1 DEF TaskOK, OnConn
    <2>4. TcpTypes' /\ TcpOwners' /\ TcpInStep'
      BY <1>2, <1>4, <2>1, <2>2, <2>3, TaskAlone, Zenon
    <2>5. Len(idle') \in Nat /\ Len(idle') = Len(idle)
      BY <1>4, <2>2, Zenon
    <2>6. TcpCounts'
      BY <1>1, <1>2, <1>5, <2>1, <2>2, <2>5, CountsBegin, Zenon
    <2> QED
      BY <1>3, <2>4, <2>6, Zenon
  <1>6. ASSUME End(t, "connect"), UNCHANGED <<idle, active>>
        PROVE  TcpIInv'
    <2>1. tasks' = [tasks EXCEPT ![t] = NoTask] /\ results' = [results EXCEPT !["connect"] = @ + 1]
      BY <1>6, Zenon DEF End
    <2>2. NoTask.pc = "free" /\ NoTask.conn = 0 /\ TaskOK(NoTask, tcp)
      BY EmptyRecords, Zenon
    <2>3. TcpTypes' /\ TcpOwners' /\ TcpInStep'
      BY <1>2, <1>4, <1>6, <2>1, <2>2, TaskAlone, Zenon
    <2>4. InFlight' = InFlight
      <3>1. IsFiniteSet(InFlight)
        BY Zenon DEF TcpCounts
      <3> QED
        BY <1>1, <2>1, <2>2, <3>1, FlightIs, Zenon
    <2> DEFINE f == Cardinality(InFlight)
    <2>5. /\ IsFiniteSet(InFlight) /\ active \in Nat /\ f <= active /\ requests \in Nat /\ results \in [Outcomes -> Nat]
          /\ tcp.max_connections > 0 => active + Len(idle) <= tcp.max_connections
          /\ Ended + f = requests
      BY Zenon DEF TcpCounts
    <2>6. f \in Nat
      BY <2>5, FS_CardinalityType, Zenon
    <2> HIDE DEF f
    <2>7. results' \in [Outcomes -> Nat] /\ Ended \in Nat /\ Ended' = Ended + 1
      <3>1. "connect" \in Outcomes
        BY DEF Outcomes
      <3> QED
        BY <2>1, <2>5, <3>1, EndedGrows, Zenon
    <2>8. Ended' + f = requests'
      BY <1>1, <2>5, <2>6, <2>7
    <2>9. requests' \in Nat /\ requests' <= MaxRequests
      BY <1>1, <2>5, TcpAssumption
    <2>10. TcpCounts'
      <3>1. idle' = idle /\ active' = active
        BY <1>6
      <3> QED
        BY <1>2, <2>4, <2>5, <2>7, <2>8, <2>9, <3>1, Zenon DEF TcpCounts, f
    <2> QED
      BY <1>3, <2>3, <2>10, Zenon
  <1>7. ASSUME NEW size \in tcp.sizes, idle # <<>>, Enter(t, Head(idle), size, conns[Head(idle)]), idle' = Tail(idle),
               active' = active + 1, UNCHANGED results
        PROVE  TcpIInv'
    BY <1>1, <1>7, ReuseKeeps, Zenon
  <1> QED
    BY <1>5, <1>6, <1>7, Zenon DEF Execute

(* Connect keeps the invariant.                                            *)
LEMMA TcpConnectKeeps ==
    ASSUME TcpIInv, NEW t \in Tasks, Connect(t)
    PROVE  TcpIInv'
  <1> USE DEF TcpIInv
  <1>1. PICK c \in ConnIds : /\ conns[c] = NoConn
                             /\ conns' = [conns EXCEPT ![c] = [NoConn EXCEPT !.stage = "backlog", !.held = TRUE]]
                             /\ Enter(t, c, tasks[t].size, NoConn)
    BY Zenon DEF Connect
  <1>2. /\ tasks[t].pc = "connecting" /\ tcp' = tcp /\ handlers' = handlers /\ server' = server /\ idle' = idle
        /\ active' = active /\ lifecycle' = lifecycle /\ requests' = requests /\ results' = results
    BY DEF Connect
  <1> DEFINE k  == [NoConn EXCEPT !.stage = "backlog", !.held = TRUE]
             a  == [NoConn EXCEPT !.stage = "backlog"]
             pc == IF SendsHeader(NoConn) THEN "header" ELSE "write"
             r  == [pc |-> pc, conn |-> c, size |-> tasks[t].size]
  <1>3. tasks' = [tasks EXCEPT ![t] = r] /\ conns' = [conns EXCEPT ![c] = k]
    BY <1>1, Zenon DEF Enter
  <1>4. /\ r.pc = pc /\ r.conn = c /\ r.size = tasks[t].size /\ (pc = "header" \/ pc = "write")
        /\ (pc = "header" => tcp.mode # "Echo") /\ (tcp.mode # "Echo" => pc = "header")
        /\ r = [pc |-> r.pc, conn |-> r.conn, size |-> r.size]
    <2>1. r.pc = pc /\ r.conn = c /\ r.size = tasks[t].size
      BY Zenon
    <2>2. SendsHeader(NoConn) <=> tcp.mode # "Echo"
      BY DEF SendsHeader, NoConn
    <2> QED
      BY <2>2, <2>1, Zenon
  <1>5. /\ k.stage = "backlog" /\ k.held = TRUE /\ k.reader = FALSE /\ k.header_sent = FALSE /\ k.request_count = 0
        /\ k.header = 0 /\ k.up = 0 /\ k.down = 0 /\ k.mode = "none" /\ k.left = 0 /\ k.answered = 0
    BY DEF NoConn
  <1>6. k \in TcpConn
    <2>1. "backlog" \in Stages /\ TRUE \in BOOLEAN
      BY DEF Stages
    <2>2. a \in TcpConn
      BY <2>1, EmptyRecords, ConnWith, Zenon
    <2> HIDE DEF a
    <2>3. [a EXCEPT !.held = TRUE] \in TcpConn
      BY <2>1, <2>2, ConnWith, Zenon
    <2> QED
      BY <2>3, Zenon DEF a
  <1> HIDE DEF k, r, pc
  <1>7. ModeKnown(k) /\ ~Handled(k) /\ ~Handled(conns[c]) /\ ~conns[c].held /\ conns[c].request_count = 0
    <2>1. ModeKnown(k) /\ ~Handled(k)
      BY <1>5 DEF ModeKnown, Handled
    <2> QED
      BY <1>1, <2>1, EmptyRecords, Zenon
  <1>8. tasks[t].conn = 0 /\ tasks[t].size \in tcp.sizes
    BY <1>2 DEF TcpTypes, TaskOK, OnConn
  <1>9. TaskOK(r, tcp)
    BY <1>4, <1>8 DEF TaskOK, OnConn
  <1>10. InStep(k, pc, tcp)
    <2> SUFFICES ASSUME NEW s, tcp.mode = "RR" PROVE Pace(k, pc, s)
      BY Zenon DEF InStep
    <2>1. pc = "header"
      BY <1>4
    <2>2. BeforeHeader(k)
      BY <1>5 DEF BeforeHeader, Unanswered
    <2> QED
      BY <2>1, <2>2 DEF Pace
  <1>11. ~ InPool(idle, c) /\ \A u \in Tasks : tasks[u].conn # c
    <2>1. c # 0
      BY TcpAssumption
    <2> QED
      BY <1>7, <2>1, Zenon DEF TcpOwners
  <1>12. TcpMove(t, c, r, k)
    <2>1. tasks[t].conn \in {0, c} /\ r.conn \in {0, c}
      BY <1>4, <1>8
    <2>2. idle' \in Seq(ConnIds) /\ \A i, j \in 1..Len(idle') : idle'[i] = idle'[j] => i = j
      BY <1>2, Zenon DEF TcpTypes, TcpOwners
    <2> QED
      BY <1>2, <1>3, <1>4, <1>5, <1>6, <1>7, <1>9, <1>10, <1>11, <2>1, <2>2, Zenon DEF TcpMove
  <1>13. TcpTypes' /\ TcpOwners' /\ TcpInStep'
    BY <1>12, OneTask, Zenon
  <1>14. TcpCounts'
    <2>1. tasks[t].pc # "free" /\ r.pc # "free"
      BY <1>2, <1>4
    <2> QED
      BY <1>2, <1>3, <2>1, CountsOn, Zenon
  <1>15. TcpLife'
    <2>1. k.request_count \in Nat /\ k.request_count <= conns[c].request_count
      BY <1>5, <1>7
    <2> QED
      BY <1>2, <1>3, <1>5, <2>1, LifeKept, Zenon
  <1>16. TcpHandlers'
    <2>1. conns \in [ConnIds -> TcpConn]
      BY Zenon DEF TcpTypes
    <2> QED
      BY <1>2, <1>3, <1>7, <2>1, HandlersKept, Zenon
  <1> QED
    BY <1>13, <1>14, <1>15, <1>16, Zenon

(* A connect that does not come about, refused or timed out.               *)
LEMMA NoConnectKeeps ==
    ASSUME TcpIInv, NEW t \in Tasks, tasks[t].pc = "connecting", NEW o \in Outcomes, End(t, o),
           active' \in {active, Less(active)}, UNCHANGED <<linkVars, idle, lifecycle, requests>>
    PROVE  TcpIInv'
  <1> USE DEF TcpIInv
  <1>1. /\ tcp' = tcp /\ conns' = conns /\ handlers' = handlers /\ server' = server /\ idle' = idle
        /\ lifecycle' = lifecycle /\ requests' = requests
    BY DEF linkVars
  <1>2. tasks[t].conn = 0 /\ tasks[t].pc # "free"
    BY DEF TcpTypes, TaskOK, OnConn
  <1>3. tasks' = [tasks EXCEPT ![t] = NoTask] /\ NoTask.conn = 0 /\ TaskOK(NoTask, tcp)
    BY EmptyRecords, Zenon DEF End
  <1>4. TcpTypes' /\ TcpOwners' /\ TcpInStep'
    BY <1>1, <1>2, <1>3, TaskAlone, Zenon
  <1>5. TcpCounts'
    BY <1>1, <1>2, CountsEnd, Zenon
  <1>6. TcpLife' /\ TcpHandlers'
    BY <1>1, ConnsSame, Zenon
  <1> QED
    BY <1>4, <1>5, <1>6, Zenon

(* The connection of a request that has one.                               *)
LEMMA WithConn ==
    ASSUME TcpTypes, TcpOwners, TcpInStep, NEW t \in Tasks, tasks[t].pc \in OnConn
    PROVE  LET c == tasks[t].conn IN
           /\ c \in ConnIds /\ c # 0 /\ conns[c] \in TcpConn /\ ModeKnown(conns[c]) /\ conns[c].held /\ ~ InPool(idle, c)
           /\ InStep(conns[c], tasks[t].pc, tcp) /\ \A u \in Tasks : u # t => tasks[u].conn # c
           /\ tasks[t].pc # "free" /\ tasks[t].size \in tcp.sizes
  <1> DEFINE c == tasks[t].conn
  <1>1. tasks[t].pc # "free"
    BY DEF OnConn
  <1>2. c \in ConnIds /\ tasks[t].size \in tcp.sizes
    BY <1>1, Zenon DEF TcpTypes, TaskOK
  <1>3. c # 0
    BY <1>2, TcpAssumption
  <1>4. conns[c] \in TcpConn /\ ModeKnown(conns[c])
    BY <1>2, Zenon DEF TcpTypes
  <1>5. conns[c].held /\ ~ InPool(idle, c) /\ InStep(conns[c], tasks[t].pc, tcp)
    BY <1>3, Zenon DEF TcpOwners, TcpInStep
  <1>6. \A u \in Tasks : u # t => tasks[u].conn # c
    BY <1>3, Zenon DEF TcpOwners
  <1> QED
    BY <1>1, <1>2, <1>3, <1>4, <1>5, <1>6, Zenon

(* A request ends and its connection is gone.                              *)
LEMMA DropKeeps ==
    ASSUME TcpIInv, NEW t \in Tasks, tasks[t].pc \in OnConn, NEW o \in Outcomes, End(t, o), NEW q \in TcpConn,
           ModeKnown(q), ~q.held, q.stage = conns[tasks[t].conn].stage,
           conns' = [conns EXCEPT ![tasks[t].conn] = Settle(q)],
           active' \in {active, Less(active)}, UNCHANGED <<tcp, handlers, server, idle, requests>>
    PROVE  TcpTypes' /\ TcpOwners' /\ TcpInStep' /\ TcpCounts' /\ TcpHandlers'
  <1> USE DEF TcpIInv
  <1> DEFINE c == tasks[t].conn
             z == Settle(q)
  <1>1. /\ c \in ConnIds /\ c # 0 /\ conns[c] \in TcpConn /\ ~ InPool(idle, c)
        /\ (\A u \in Tasks : u # t => tasks[u].conn # c) /\ tasks[t].pc # "free"
    BY WithConn, Zenon
  <1>2. tcp' = tcp /\ handlers' = handlers /\ server' = server /\ idle' = idle /\ requests' = requests
    OBVIOUS
  <1>3. tasks' = [tasks EXCEPT ![t] = NoTask] /\ NoTask.conn = 0 /\ TaskOK(NoTask, tcp)
    BY EmptyRecords, Zenon DEF End
  <1>4. z \in TcpConn /\ ModeKnown(z) /\ z.held = q.held /\ (Handled(z) <=> Handled(q))
    BY SettleIs, Zenon
  <1>5. Handled(q) <=> Handled(conns[c])
    BY Zenon DEF Handled
  <1> HIDE DEF z
  <1>6. TcpMove(t, c, NoTask, z)
    <2>1. tasks[t].conn \in {0, c} /\ NoTask.conn \in {0, c}
      BY <1>3
    <2>2. idle' \in Seq(ConnIds) /\ \A i, j \in 1..Len(idle') : idle'[i] = idle'[j] => i = j
      BY <1>2, ZenonT(30) DEF TcpTypes, TcpOwners
    <2>3. conns' = [conns EXCEPT ![c] = z]
      BY Zenon DEF z
    <2> QED
      BY <1>1, <1>2, <1>3, <1>4, <2>1, <2>2, <2>3, Zenon DEF TcpMove
  <1>7. TcpTypes' /\ TcpOwners' /\ TcpInStep'
    BY <1>1, <1>6, OneTask, Zenon
  <1>8. TcpCounts'
    BY <1>1, <1>2, CountsEnd, Zenon
  <1>9. TcpHandlers'
    <2>1. conns \in [ConnIds -> TcpConn]
      BY Zenon DEF TcpTypes
    <2> QED
      BY <1>1, <1>2, <1>4, <1>5, <2>1, HandlersKept, Zenon DEF z
  <1> QED
    BY <1>7, <1>8, <1>9, Zenon

(* The connection that was dropped had carried what it had carried.        *)
LEMMA DropLife ==
    ASSUME TcpTypes, TcpLife, NEW c \in ConnIds, NEW q \in TcpConn, ModeKnown(q), ~q.held,
           q.request_count = conns[c].request_count, conns' = [conns EXCEPT ![c] = Settle(q)], UNCHANGED <<tcp, lifecycle>>
    PROVE  TcpLife'
  <1> DEFINE z == Settle(q)
  <1>1. z.held = q.held /\ z.request_count \in Nat /\ z.request_count <= q.request_count
    BY SettleIs, Zenon
  <1>2. z.request_count <= conns[c].request_count /\ ~z.held /\ conns' = [conns EXCEPT ![c] = z]
    BY <1>1, Zenon
  <1> HIDE DEF z
  <1> QED
    BY <1>1, <1>2, LifeKept, Zenon

(* The stream that the client lets go.                                     *)
LEMMA LetGo ==
    ASSUME NEW k \in TcpConn, ModeKnown(k)
    PROVE  LET q == [k EXCEPT !.held = FALSE] IN
           q \in TcpConn /\ ModeKnown(q) /\ ~q.held /\ q.stage = k.stage /\ q.request_count = k.request_count
  <1> DEFINE q == [k EXCEPT !.held = FALSE]
  <1>1. FALSE \in BOOLEAN
    BY Zenon
  <1>2. q \in TcpConn
    BY <1>1, ConnWith, Zenon
  <1>3. q.held = FALSE /\ q.stage = k.stage /\ q.request_count = k.request_count /\ q.mode = k.mode
    BY DEF TcpConn
  <1> HIDE DEF q
  <1>4. ModeKnown(q)
    BY <1>3, Zenon DEF ModeKnown
  <1> QED
    BY <1>2, <1>3, <1>4, Zenon DEF q

(* A request ends and its stream is closed: an I/O error, or a timeout     *)
(* while it waited for the reply.                                          *)
LEMMA CloseKeeps ==
    ASSUME TcpIInv, NEW t \in Tasks, tasks[t].pc \in OnConn, NEW o \in Outcomes, End(t, o), Close(tasks[t].conn),
           active' \in {active, Less(active)}, UNCHANGED <<tcp, handlers, server, idle, requests>>, UNCHANGED lifecycle
    PROVE  TcpIInv'
  <1> DEFINE c == tasks[t].conn
             q == [conns[c] EXCEPT !.held = FALSE]
  <1>1. c \in ConnIds /\ conns[c] \in TcpConn /\ ModeKnown(conns[c])
    BY WithConn, Zenon DEF TcpIInv
  <1>2. conns' = [conns EXCEPT ![c] = Settle(q)]
    BY Zenon DEF Close
  <1>3. q \in TcpConn /\ ModeKnown(q) /\ ~q.held /\ q.stage = conns[c].stage /\ q.request_count = conns[c].request_count
    BY <1>1, LetGo, Zenon
  <1> HIDE DEF q
  <1>4. TcpTypes' /\ TcpOwners' /\ TcpInStep' /\ TcpCounts' /\ TcpHandlers'
    BY <1>2, <1>3, DropKeeps, Zenon
  <1>5. UNCHANGED <<tcp, lifecycle>>
    OBVIOUS
  <1>6. TcpLife'
    BY <1>1, <1>2, <1>3, <1>5, DropLife, Zenon DEF TcpIInv
  <1> QED
    BY <1>4, <1>6, Zenon DEF TcpIInv

(* Fail keeps the invariant.                                               *)
LEMMA TcpFailKeeps ==
    ASSUME TcpIInv, NEW t \in Tasks, tasks[t].pc \in OnConn, Fail(t)
    PROVE  TcpIInv'
  <1>1. active' \in {active, Less(active)} /\ idle' = idle
    BY DEF Fail, record_dropped
  <1>2. /\ Close(tasks[t].conn) /\ End(t, "protocol") /\ UNCHANGED <<tcp, handlers, server, idle, requests>>
        /\ UNCHANGED lifecycle
    BY <1>1 DEF Fail
  <1>3. "protocol" \in Outcomes
    BY DEF Outcomes
  <1> QED
    BY <1>1, <1>2, <1>3, CloseKeeps, Zenon

(* What a request writes.                                                  *)
LEMMA WriteLenIs ==
    ASSUME TcpTypes, NEW t \in Tasks, tasks[t].size \in tcp.sizes
    PROVE  WriteLen(t) \in Nat /\ (tcp.mode = "RR" => WriteLen(t) = tasks[t].size.request)
  <1>1. /\ tcp.mode \in TcpModes /\ tcp.sizes \subseteq TcpSize /\ tcp.payload \in Nat /\ tcp.frame \in Nat
        /\ tcp.framing \in {"Raw", "Delimiter", "LengthPrefixed", "FixedSize"}
    BY ConfigIs, Zenon DEF TcpTypes
  <1>2. tasks[t].size.request \in Nat
    BY <1>1, TcpAssumption DEF TcpSize
  <1>3. FrameLen \in Nat
    BY <1>1 DEF FrameLen
  <1> QED
    BY <1>1, <1>2, <1>3 DEF WriteLen, TcpModes

(* Timeout keeps the invariant.                                            *)
LEMMA TcpTimeoutKeeps ==
    ASSUME TcpIInv, NEW t \in Tasks, Timeout(t)
    PROVE  TcpIInv'
  <1> DEFINE c == tasks[t].conn
             k == conns[c]
  <1>1. /\ End(t, "timeout") /\ UNCHANGED <<tcp, handlers, server, idle, requests>> /\ UNCHANGED lifecycle
        /\ active' = active /\ UNCHANGED <<tcp, lifecycle>>
    <2>1. End(t, "timeout") /\ UNCHANGED <<tcp, handlers, server, idle, active, lifecycle, requests>>
      BY Zenon DEF Timeout
    <2> QED
      BY <2>1
  <1>2. "timeout" \in Outcomes /\ active' \in {active, Less(active)}
    BY <1>1 DEF Outcomes
  <1>3. CASE tasks[t].pc = "connecting" /\ UNCHANGED conns
    <2>1. UNCHANGED <<linkVars, idle, lifecycle, requests>>
      BY <1>1, <1>3 DEF linkVars
    <2> QED
      BY <1>1, <1>2, <1>3, <2>1, NoConnectKeeps, Zenon
  <1>4. CASE tasks[t].pc = "read" /\ Close(c)
    <2>1. tasks[t].pc \in OnConn
      BY <1>4 DEF OnConn
    <2> QED
      BY <1>1, <1>2, <1>4, <2>1, CloseKeeps, Zenon
  <1>5. ASSUME tasks[t].pc \in OnConn, NEW q \in TcpConn, ModeKnown(q), ~q.held, q.stage = k.stage,
               q.request_count = k.request_count, conns' = [conns EXCEPT ![c] = Settle(q)]
        PROVE  TcpIInv'
    <2>1. TcpTypes' /\ TcpOwners' /\ TcpInStep' /\ TcpCounts' /\ TcpHandlers'
      BY <1>1, <1>2, <1>5, DropKeeps, Zenon
    <2>2. c \in ConnIds
      BY <1>5, WithConn, Zenon DEF TcpIInv
    <2>3. TcpLife'
      BY <1>1, <1>5, <2>2, DropLife, Zenon DEF TcpIInv
    <2> QED
      BY <2>1, <2>3, Zenon DEF TcpIInv
  <1>6. ASSUME tasks[t].pc \in OnConn
        PROVE  /\ k \in TcpConn /\ ModeKnown(k) /\ tasks[t].size \in tcp.sizes /\ tasks[t].size \in TcpSize
               /\ WriteLen(t) \in Nat /\ k.up \in Nat /\ tcp.mode \in TcpModes
    <2>1. k \in TcpConn /\ ModeKnown(k) /\ tasks[t].size \in tcp.sizes
      BY <1>6, WithConn, Zenon DEF TcpIInv
    <2>2. tcp.sizes \subseteq TcpSize /\ tcp.mode \in TcpModes
      BY ConfigIs, Zenon DEF TcpIInv, TcpTypes
    <2>3. WriteLen(t) \in Nat
      BY <2>1, WriteLenIs, Zenon DEF TcpIInv
    <2>4. k.up \in Nat
      BY <2>1, ConnIs, Zenon
    <2> QED
      BY <2>1, <2>2, <2>3, <2>4, Zenon
  <1>7. ASSUME tasks[t].pc = "header", NEW n \in 0..HeaderUnits,
               conns' = [conns EXCEPT ![c] = Settle([k EXCEPT !.held = FALSE, !.header = n, !.mode = tcp.mode,
                                                              !.size = tasks[t].size])]
        PROVE  TcpIInv'
    <2> DEFINE a == [k EXCEPT !.held = FALSE]
               b == [a EXCEPT !.header = n]
               d == [b EXCEPT !.mode = tcp.mode]
               q == [d EXCEPT !.size = tasks[t].size]
    <2>1. tasks[t].pc \in OnConn /\ n \in 0..2
      BY <1>7 DEF OnConn, HeaderUnits
    <2>2. k \in TcpConn /\ ModeKnown(k) /\ tasks[t].size \in TcpSize /\ tcp.mode \in TcpModes
      BY <1>6, <2>1, Zenon
    <2>3. a \in TcpConn /\ ~a.held /\ a.stage = k.stage /\ a.request_count = k.request_count
      BY <2>2, LetGo, Zenon
    <2>4. conns' = [conns EXCEPT ![c] = Settle(q)]
      BY <1>7, Zenon
    <2> HIDE DEF a
    <2>5. q.held = a.held /\ q.stage = a.stage /\ q.request_count = a.request_count /\ q.mode = tcp.mode
      BY <2>3 DEF TcpConn
    <2>6. b \in TcpConn
      BY <2>1, <2>3, ConnWith, Zenon
    <2> HIDE DEF b
    <2>7. d \in TcpConn
      BY <2>2, <2>6, ConnWith, Zenon
    <2> HIDE DEF d
    <2>8. q \in TcpConn
      BY <2>2, <2>7, ConnWith, Zenon
    <2> HIDE DEF q
    <2>9. ModeKnown(q)
      BY <2>2, <2>5 DEF ModeKnown, TcpModes
    <2> QED
      BY <1>5, <2>1, <2>3, <2>4, <2>5, <2>8, <2>9, Zenon
  <1>8. ASSUME tasks[t].pc = "write", NEW n \in 0..WriteLen(t),
               conns' = [conns EXCEPT ![c] = Settle([k EXCEPT !.held = FALSE, !.up = @ + n])]
        PROVE  TcpIInv'
    <2> DEFINE m == k.up + n
               a == [k EXCEPT !.held = FALSE]
               q == [a EXCEPT !.up = m]
    <2>1. tasks[t].pc \in OnConn
      BY <1>8 DEF OnConn
    <2>2. k \in TcpConn /\ ModeKnown(k) /\ WriteLen(t) \in Nat /\ k.up \in Nat
      BY <1>6, <2>1, Zenon
    <2>3. m \in Nat
      BY <2>2
    <2>4. a \in TcpConn /\ ~a.held /\ a.stage = k.stage /\ a.request_count = k.request_count
      BY <2>2, LetGo, Zenon
    <2>5. a.up = k.up /\ a.mode = k.mode
      BY <2>2 DEF TcpConn
    <2>6. conns' = [conns EXCEPT ![c] = Settle(q)]
      BY <1>8, <2>5, Zenon
    <2> HIDE DEF a, m
    <2>7. q.held = a.held /\ q.stage = a.stage /\ q.request_count = a.request_count /\ q.mode = a.mode
      BY <2>4 DEF TcpConn
    <2>8. q \in TcpConn
      BY <2>3, <2>4, ConnWith, Zenon
    <2> HIDE DEF q
    <2>9. ModeKnown(q)
      BY <2>2, <2>4, <2>5, <2>7, Zenon DEF ModeKnown
    <2> QED
      BY <1>5, <2>1, <2>4, <2>6, <2>7, <2>8, <2>9, Zenon
  <1> QED
    BY <1>3, <1>4, <1>7, <1>8, Zenon DEF Timeout

(* A request goes on with its connection, of which the client changes q.   *)
LEMMA GoesOnKeeps ==
    ASSUME TcpIInv, NEW t \in Tasks, tasks[t].pc \in OnConn, NEW pc \in OnConn, pc # "header",
           tasks' = [tasks EXCEPT ![t].pc = pc], NEW q \in TcpConn, ModeKnown(q), q.held,
           q.stage = conns[tasks[t].conn].stage, q.request_count = conns[tasks[t].conn].request_count,
           InStep(q, pc, tcp), conns' = [conns EXCEPT ![tasks[t].conn] = q],
           UNCHANGED <<tcp, handlers, server, idle, active, lifecycle, requests, results>>
    PROVE  TcpIInv'
  <1> USE DEF TcpIInv
  <1> DEFINE c == tasks[t].conn
             r == [tasks[t] EXCEPT !.pc = pc]
  <1>1. /\ c \in ConnIds /\ c # 0 /\ conns[c] \in TcpConn /\ ~ InPool(idle, c) /\ conns[c].held
        /\ (\A u \in Tasks : u # t => tasks[u].conn # c) /\ tasks[t].pc # "free" /\ tasks[t].size \in tcp.sizes
    BY WithConn, Zenon
  <1>2. /\ tcp' = tcp /\ handlers' = handlers /\ server' = server /\ idle' = idle /\ requests' = requests
        /\ active' = active /\ lifecycle' = lifecycle /\ results' = results
    OBVIOUS
  <1>3. tasks' = [tasks EXCEPT ![t] = r]
    BY Zenon
  <1>4. r.pc = pc /\ r.conn = c /\ r.size = tasks[t].size
    <2>1. tasks[t] = [pc |-> tasks[t].pc, conn |-> c, size |-> tasks[t].size]
      BY Zenon DEF TcpTypes, TaskOK
    <2>2. r = [pc |-> pc, conn |-> c, size |-> tasks[t].size]
      BY <2>1
    <2> QED
      BY <2>2
  <1>5. r = [pc |-> r.pc, conn |-> r.conn, size |-> r.size]
    <2>1. tasks[t] = [pc |-> tasks[t].pc, conn |-> c, size |-> tasks[t].size]
      BY Zenon DEF TcpTypes, TaskOK
    <2>2. r = [pc |-> pc, conn |-> c, size |-> tasks[t].size]
      BY <2>1
    <2> QED
      BY <1>4, <2>2, Zenon
  <1> HIDE DEF r
  <1>6. TaskOK(r, tcp)
    <2>1. pc \in {"free", "connecting"} \cup OnConn
      OBVIOUS
    <2> QED
      BY <1>1, <1>4, <1>5, <2>1, Zenon DEF TaskOK
  <1>7. TcpMove(t, c, r, q)
    <2>1. tasks[t].conn \in {0, c} /\ r.conn \in {0, c}
      BY <1>4
    <2>2. idle' \in Seq(ConnIds) /\ \A i, j \in 1..Len(idle') : idle'[i] = idle'[j] => i = j
      BY <1>2, Zenon DEF TcpTypes, TcpOwners
    <2> QED
      BY <1>1, <1>2, <1>3, <1>4, <1>6, <2>1, <2>2, Zenon DEF TcpMove
  <1>8. TcpTypes' /\ TcpOwners' /\ TcpInStep'
    BY <1>1, <1>7, OneTask, Zenon
  <1>9. TcpCounts'
    <2>1. r.pc # "free"
      BY <1>4 DEF OnConn
    <2> QED
      BY <1>1, <1>2, <1>3, <2>1, CountsOn, Zenon
  <1>10. conns \in [ConnIds -> TcpConn] /\ q.request_count \in Nat /\ q.request_count <= conns[c].request_count
    <2>1. conns \in [ConnIds -> TcpConn] /\ q.request_count \in Nat
      BY ConnIs, Zenon DEF TcpTypes
    <2> QED
      BY <2>1
  <1>11. TcpLife'
    BY <1>1, <1>2, <1>10, LifeKept, Zenon
  <1>12. TcpHandlers'
    <2>1. Handled(q) <=> Handled(conns[c])
      BY Zenon DEF Handled
    <2> QED
      BY <1>1, <1>2, <1>10, <2>1, HandlersKept, Zenon
  <1> QED
    BY <1>8, <1>9, <1>11, <1>12, Zenon

(* SendHeader keeps the invariant.                                         *)
LEMMA SendHeaderKeeps ==
    ASSUME TcpIInv, NEW t \in Tasks, SendHeader(t)
    PROVE  TcpIInv'
  <1> DEFINE c == tasks[t].conn
             k == conns[c]
             s == tasks[t].size
             a == [k EXCEPT !.header_sent = TRUE]
             b == [a EXCEPT !.header = 2]
             d == [b EXCEPT !.mode = tcp.mode]
             q == [d EXCEPT !.size = s]
  <1>1. tasks[t].pc = "header" /\ tasks[t].pc \in OnConn /\ "write" \in OnConn /\ "write" # "header"
    <2>1. tasks[t].pc = "header"
      BY Zenon DEF SendHeader
    <2> QED
      BY <2>1 DEF OnConn
  <1>2. k \in TcpConn /\ ModeKnown(k) /\ k.held /\ InStep(k, "header", tcp) /\ s \in tcp.sizes
    BY <1>1, WithConn, Zenon DEF TcpIInv
  <1>3. tcp.sizes \subseteq TcpSize /\ tcp.mode \in TcpModes /\ conns \in [ConnIds -> TcpConn] /\ c \in ConnIds
    BY <1>1, WithConn, ConfigIs, Zenon DEF TcpIInv, TcpTypes
  <1>4. CASE Fail(t)
    BY <1>1, <1>4, TcpFailKeeps, Zenon
  <1>5. ASSUME conns' = [conns EXCEPT ![c].header_sent = TRUE, ![c].header = HeaderUnits,
                                      ![c].mode = tcp.mode, ![c].size = tasks[t].size],
               tasks' = [tasks EXCEPT ![t].pc = "write"],
               UNCHANGED <<tcp, handlers, server, idle, active, lifecycle, requests, results>>
        PROVE  TcpIInv'
    <2>1. conns' = [conns EXCEPT ![c] = q]
      BY <1>3, <1>5, Zenon DEF HeaderUnits
    <2>2. TRUE \in BOOLEAN /\ 2 \in 0..2 /\ s \in TcpSize
      BY <1>2, <1>3
    <2>3. /\ q.header_sent = TRUE /\ q.header = 2 /\ q.mode = tcp.mode /\ q.size = s /\ q.held = k.held
          /\ q.stage = k.stage /\ q.request_count = k.request_count /\ q.reader = k.reader /\ q.up = k.up
          /\ q.left = k.left /\ q.down = k.down /\ q.answered = k.answered
      <3>1. k \in TcpConn
        BY <1>2, Zenon
      <3> HIDE DEF k, s
      <3> QED
        BY <3>1 DEF TcpConn
    <2>4. a \in TcpConn
      BY <1>2, <2>2, ConnWith, Zenon
    <2> HIDE DEF a
    <2>5. b \in TcpConn
      BY <2>2, <2>4, ConnWith, Zenon
    <2> HIDE DEF b
    <2>6. d \in TcpConn
      BY <1>3, <2>5, ConnWith, Zenon
    <2> HIDE DEF d
    <2>7. q \in TcpConn
      BY <2>2, <2>6, ConnWith, Zenon
    <2> HIDE DEF q
    <2>8. ModeKnown(q)
      BY <1>3, <2>3 DEF ModeKnown, TcpModes
    <2>9. InStep(q, "write", tcp)
      <3> SUFFICES ASSUME NEW z \in TcpSize, tcp.mode = "RR", tcp.sizes = {z}, Pace(k, "header", z)
                   PROVE  Pace(q, "write", z)
        BY <1>2, Zenon DEF InStep
      <3>1. s = z
        BY <1>2
      <3>2. BeforeHeader(k)
        BY DEF Pace
      <3>3. Told(q, z) /\ Unanswered(q)
        BY <2>3, <3>1, <3>2, Zenon DEF BeforeHeader, Told, Unanswered
      <3>4. q.stage = "closed" \/ (q.up = 0 /\ q.left = 0 /\ OnItsWay(q))
        BY <2>3, <3>2, Zenon DEF BeforeHeader, OnItsWay
      <3>5. BeforeWrite(q, z)
        BY <3>3, <3>4, Zenon DEF BeforeWrite
      <3> QED
        BY <3>5 DEF Pace
    <2>10. q.held
      BY <1>2, <2>3, Zenon
    <2> QED
      BY <1>1, <1>5, <2>1, <2>3, <2>7, <2>8, <2>9, <2>10, GoesOnKeeps, Zenon
  <1> QED
    BY <1>4, <1>5, Zenon DEF SendHeader


(* With room for one connection, a request that has one has the only one.  *)
LEMMA OnlyOne ==
    ASSUME TcpIInv, Limited(tcp), NEW t \in Tasks, tasks[t].pc \in OnConn, NEW d \in ConnIds, conns[d].held
    PROVE  d = tasks[t].conn
  <1> USE DEF TcpIInv
  <1> DEFINE f == Cardinality(InFlight)
  <1>1. tasks[t].pc # "free" /\ tcp.max_connections = 1 /\ Len(idle) \in Nat /\ idle \in Seq(ConnIds)
    BY DEF OnConn, Limited, TcpTypes
  <1>2. t \in InFlight
    BY <1>1, Zenon DEF InFlight
  <1>3. active \in Nat /\ IsFiniteSet(InFlight) /\ f <= active /\ active + Len(idle) <= 1
    BY <1>1 DEF TcpCounts
  <1>4. f \in Nat /\ f # 0
    BY <1>2, <1>3, FS_CardinalityType, FS_EmptySet, Zenon
  <1>5. f = 1 /\ Len(idle) = 0
    BY <1>1, <1>3, <1>4
  <1>6. PICK u : InFlight = {u}
    BY <1>3, <1>5, FS_Singleton, Zenon
  <1>7. ~ InPool(idle, d)
    BY <1>5 DEF InPool
  <1>8. PICK v \in Tasks : tasks[v].conn = d
    BY <1>7, Zenon DEF TcpOwners
  <1>9. tasks[v].pc # "free"
    <2>1. d # 0
      BY TcpAssumption
    <2> QED
      BY <1>8, <2>1 DEF TcpTypes, TaskOK, OnConn
  <1>10. v \in InFlight
    BY <1>9, Zenon DEF InFlight
  <1>11. v = t
    BY <1>2, <1>6, <1>10
  <1> QED
    BY <1>8, <1>11, Zenon

(* What the lifecycle counter becomes.                                     *)
LEMMA TickedIs ==
    ASSUME TcpTypes, TcpLife, NEW y \in Ticked
    PROVE  /\ y \in [count : Nat, limit : Nat]
           /\ Limited(tcp) => /\ y.limit \in tcp.limits /\ y.count <= y.limit
                              /\ \/ Expires /\ y.count = 0
                                 \/ ~Expires /\ y.count = lifecycle.count + 1
  <1>1. lifecycle \in [count : Nat, limit : Nat] /\ tcp.limits \subseteq Nat
    BY ConfigIs, Zenon DEF TcpTypes, TcpLife
  <1>2. CASE tcp.policy # "Mixed" \/ tcp.limits = {}
    <2>1. y = lifecycle
      BY <1>2 DEF Ticked
    <2> QED
      BY <1>1, <1>2, <2>1 DEF Limited
  <1>3. CASE ~(tcp.policy # "Mixed" \/ tcp.limits = {}) /\ Expires
    <2>1. y \in {[count |-> 0, limit |-> n] : n \in tcp.limits}
      BY <1>3 DEF Ticked
    <2>2. PICK n \in tcp.limits : y = [count |-> 0, limit |-> n]
      BY <2>1
    <2>3. n \in Nat
      BY <1>1, Zenon
    <2> QED
      BY <1>3, <2>2, <2>3
  <1>4. CASE ~(tcp.policy # "Mixed" \/ tcp.limits = {}) /\ ~Expires
    <2>1. y = [lifecycle EXCEPT !.count = @ + 1]
      BY <1>4 DEF Ticked
    <2>2. y \in [count : Nat, limit : Nat] /\ y.count = lifecycle.count + 1 /\ y.limit = lifecycle.limit
      BY <1>1, <2>1
    <2>3. lifecycle.count + 1 <= lifecycle.limit
      <3>1. ~(lifecycle.count + 1 > lifecycle.limit)
        BY <1>4, Zenon DEF Expires
      <3>2. lifecycle.count \in Nat /\ lifecycle.limit \in Nat
        BY <1>1
      <3> QED
        BY <3>1, <3>2
    <2>4. Limited(tcp) => lifecycle.limit \in tcp.limits
      BY Zenon DEF TcpLife
    <2>5. y.count <= y.limit
      BY <2>2, <2>3, Zenon
    <2> QED
      BY <1>4, <2>2, <2>4, <2>5, Zenon
  <1> QED
    BY <1>2, <1>3, <1>4

(* The lifetimes when a request is done: its connection has carried one    *)
(* request more, and is kept only when the counter does not expire.        *)
LEMMA FinishLife ==
    ASSUME TcpIInv, NEW t \in Tasks, tasks[t].pc \in OnConn, NEW z, conns' = [conns EXCEPT ![tasks[t].conn] = z],
           z.request_count \in Nat, z.request_count <= conns[tasks[t].conn].request_count + 1, tcp' = tcp,
           \/ lifecycle' \in Ticked /\ (Expires => ~z.held)
           \/ lifecycle' = lifecycle /\ ~z.held
    PROVE  TcpLife'
  <1> DEFINE c == tasks[t].conn
  <1>1. /\ c \in ConnIds /\ conns[c] \in TcpConn /\ conns[c].held /\ conns[c].request_count \in Nat
        /\ conns \in [ConnIds -> TcpConn] /\ TcpTypes /\ TcpLife
    BY WithConn, ConnIs, Zenon DEF TcpIInv, TcpTypes
  <1>2. lifecycle \in [count : Nat, limit : Nat] /\ tcp.limits \subseteq Nat
    BY <1>1, ConfigIs, Zenon DEF TcpTypes, TcpLife
  <1>3. lifecycle' \in [count : Nat, limit : Nat]
    BY <1>1, <1>2, TickedIs, Zenon
  <1> SUFFICES ASSUME Limited(tcp)
               PROVE  /\ lifecycle'.limit \in tcp.limits /\ lifecycle'.count <= lifecycle'.limit
                      /\ \A d \in ConnIds : Lived(conns'[d], tcp, lifecycle')
    BY <1>3, Zenon DEF TcpLife
  <1>4. /\ lifecycle.limit \in tcp.limits /\ lifecycle.count <= lifecycle.limit
        /\ \A d \in ConnIds : Lived(conns[d], tcp, lifecycle)
    BY <1>1, Zenon DEF TcpLife
  <1>5. lifecycle'.limit \in tcp.limits /\ lifecycle'.count <= lifecycle'.limit
    BY <1>1, <1>4, TickedIs, Zenon
  <1>6. conns'[c] = z /\ \A d \in ConnIds : d # c => conns'[d] = conns[d]
    BY <1>1
  <1>7. ASSUME NEW d \in ConnIds, d # c PROVE Lived(conns'[d], tcp, lifecycle')
    <2>1. ~conns[d].held
      BY <1>7, OnlyOne, Zenon
    <2>2. Lived(conns[d], tcp, lifecycle) /\ conns'[d] = conns[d]
      BY <1>4, <1>6, <1>7, Zenon
    <2> QED
      BY <2>1, <2>2, Zenon DEF Lived
  <1>8. Lived(z, tcp, lifecycle')
    <2>1. conns[c].request_count <= lifecycle.count
      BY <1>1, <1>4, Zenon DEF Lived
    <2>2. lifecycle.count \in Nat /\ lifecycle.limit \in Nat /\ lifecycle'.count \in Nat
      BY <1>2, <1>3
    <2>3. z.request_count <= lifecycle.limit + 1
      <3>1. \A x, y, l, n \in Nat : n <= x + 1 /\ x <= y /\ y <= l => n <= l + 1
        OBVIOUS
      <3> QED
        BY <1>1, <1>4, <2>1, <2>2, <3>1, Zenon
    <2>4. z.held => z.request_count <= lifecycle'.count
      <3>1. z.held => lifecycle'.count = lifecycle.count + 1
        BY <1>1, TickedIs, Zenon
      <3> QED
        BY <1>1, <2>1, <2>2, <3>1
    <2> QED
      BY <1>4, <2>3, <2>4, Zenon DEF Lived
  <1> QED
    BY <1>5, <1>6, <1>7, <1>8, Zenon

(* The connection after the exchange, counted.                             *)
LEMMA DoneIs ==
    ASSUME NEW k \in TcpConn, ModeKnown(k)
    PROVE  LET done == [k EXCEPT !.request_count = @ + 1] IN
           /\ done \in TcpConn /\ ModeKnown(done) /\ done.held = k.held /\ done.stage = k.stage
           /\ done.request_count = k.request_count + 1 /\ done.request_count \in Nat
  <1> DEFINE n == k.request_count + 1
             done == [k EXCEPT !.request_count = n]
  <1>1. n \in Nat
    BY ConnIs
  <1> HIDE DEF n
  <1>2. done.held = k.held /\ done.stage = k.stage /\ done.request_count = n /\ done.mode = k.mode
    BY DEF TcpConn
  <1>3. done \in TcpConn
    BY <1>1, ConnWith, Zenon
  <1> HIDE DEF done
  <1>4. ModeKnown(done)
    BY <1>2, Zenon DEF ModeKnown
  <1> QED
    BY <1>1, <1>2, <1>3, <1>4, Zenon DEF done, n

(* The connection goes back to the pool.                                   *)
LEMMA ReturnIdleKeeps ==
    ASSUME TcpIInv, NEW t \in Tasks, tasks[t].pc \in OnConn, NEW q \in TcpConn, ModeKnown(q), q.held,
           q.stage = conns[tasks[t].conn].stage, InStep(q, "idle", tcp), conns' = [conns EXCEPT ![tasks[t].conn] = q],
           End(t, "ok"), return_idle(tasks[t].conn), UNCHANGED <<tcp, handlers, server, requests>>
    PROVE  TcpTypes' /\ TcpOwners' /\ TcpInStep' /\ TcpCounts' /\ TcpHandlers'
  <1> USE DEF TcpIInv
  <1> DEFINE c == tasks[t].conn
             p == Append(idle, c)
  <1>1. /\ c \in ConnIds /\ c # 0 /\ conns[c] \in TcpConn /\ ~ InPool(idle, c)
        /\ (\A u \in Tasks : u # t => tasks[u].conn # c) /\ tasks[t].pc # "free"
    BY WithConn, Zenon
  <1>2. tcp' = tcp /\ handlers' = handlers /\ server' = server /\ requests' = requests
    OBVIOUS
  <1>3. tasks' = [tasks EXCEPT ![t] = NoTask] /\ NoTask.conn = 0 /\ TaskOK(NoTask, tcp)
    BY EmptyRecords, Zenon DEF End
  <1>4. active' = Less(active) /\ idle' = p
    BY Zenon DEF return_idle
  <1>5. idle \in Seq(ConnIds) /\ \A i, j \in 1..Len(idle) : idle[i] = idle[j] => i = j
    BY Zenon DEF TcpTypes, TcpOwners
  <1>6. /\ p \in Seq(ConnIds) /\ InPool(p, c)
        /\ \A i, j \in 1..Len(p) : p[i] = p[j] => i = j
        /\ \A d : d # c => (InPool(p, d) <=> InPool(idle, d))
    <2> HIDE DEF c
    <2> QED
      BY <1>1, <1>5, PoolAppend, Zenon
  <1>7. Len(idle') = Len(idle) + 1
    BY <1>1, <1>4, <1>5, SMTT(30)
  <1> HIDE DEF p
  <1>8. TcpMove(t, c, NoTask, q)
    <2>1. tasks[t].conn \in {0, c} /\ NoTask.conn \in {0, c}
      BY <1>3
    <2>2. /\ idle' \in Seq(ConnIds) /\ (\A i, j \in 1..Len(idle') : idle'[i] = idle'[j] => i = j) /\ InPool(idle', c)
          /\ \A d \in ConnIds : d # c => (InPool(idle', d) <=> InPool(idle, d))
      BY <1>4, <1>6, Zenon
    <2> QED
      BY <1>1, <1>2, <1>3, <2>1, <2>2, Zenon DEF TcpMove
  <1>9. TcpTypes' /\ TcpOwners' /\ TcpInStep'
    BY <1>1, <1>8, OneTask, Zenon
  <1>10. TcpCounts'
    <2>1. "ok" \in Outcomes
      BY DEF Outcomes
    <2> QED
      BY <1>1, <1>2, <1>4, <1>7, <2>1, CountsEnd, Zenon
  <1>11. TcpHandlers'
    <2>1. conns \in [ConnIds -> TcpConn] /\ (Handled(q) <=> Handled(conns[c]))
      BY Zenon DEF TcpTypes, Handled
    <2> QED
      BY <1>1, <1>2, <2>1, HandlersKept, Zenon
  <1> QED
    BY <1>9, <1>10, <1>11, Zenon

(* A connection is kept only when the counter does not expire.             *)
LEMMA KeepsIs ==
    ASSUME tcp \in TcpConfigs
    PROVE  Keeps \subseteq BOOLEAN /\ (TRUE \in Keeps => ~Expires)
  <1>1. tcp.policy \in {"KeepAlive", "AlwaysNew", "NoReuse", "Mixed"}
    BY ConfigIs, Zenon
  <1>2. CASE tcp.policy = "KeepAlive"
    <2>1. Keeps = {TRUE}
      BY <1>2 DEF Keeps
    <2>2. ~Expires
      BY <1>2 DEF Expires
    <2> QED
      BY <2>1, <2>2, Zenon
  <1>3. CASE tcp.policy \in {"AlwaysNew", "NoReuse"}
    <2>1. tcp.policy # "KeepAlive" /\ tcp.policy # "Mixed"
      BY <1>3
    <2>2. Keeps = {FALSE}
      BY <1>3, <2>1, Zenon DEF Keeps
    <2> QED
      BY <2>2, Zenon
  <1>4. CASE tcp.policy = "Mixed"
    <2>1. Keeps = IF Expires THEN {FALSE} ELSE BOOLEAN
      BY <1>4 DEF Keeps
    <2> QED
      BY <2>1, Zenon
  <1>5. tcp.policy = "KeepAlive" \/ tcp.policy \in {"AlwaysNew", "NoReuse"} \/ tcp.policy = "Mixed"
    BY <1>1
  <1> QED
    BY <1>2, <1>3, <1>4, <1>5, Zenon

(* Finish keeps the invariant.                                             *)
LEMMA FinishKeeps ==
    ASSUME TcpIInv, NEW t \in Tasks, tasks[t].pc \in OnConn, NEW k \in TcpConn, ModeKnown(k), k.held,
           k.stage = conns[tasks[t].conn].stage, k.request_count = conns[tasks[t].conn].request_count,
           InStep([k EXCEPT !.request_count = @ + 1], "idle", tcp), Finish(t, k)
    PROVE  TcpIInv'
  <1> DEFINE c == tasks[t].conn
             q == [k EXCEPT !.request_count = @ + 1]
             d == [q EXCEPT !.held = FALSE]
             z == Settle(d)
  <1>1. c \in ConnIds /\ tcp \in TcpConfigs
    BY WithConn, Zenon DEF TcpIInv, TcpTypes
  <1>2. End(t, "ok") /\ UNCHANGED <<tcp, handlers, server, requests>> /\ tcp' = tcp
    <2>1. End(t, "ok") /\ UNCHANGED <<tcp, handlers, server, requests>>
      BY Zenon DEF Finish
    <2> QED
      BY <2>1
  <1>3. /\ q \in TcpConn /\ ModeKnown(q) /\ q.held = k.held /\ q.stage = k.stage
        /\ q.request_count = k.request_count + 1 /\ q.request_count \in Nat
    BY DoneIs, Zenon
  <1>4. InStep(q, "idle", tcp)
    OBVIOUS
  <1>5. \/ lifecycle' \in Ticked /\ TRUE \in Keeps /\ return_idle(c) /\ conns' = [conns EXCEPT ![c] = q]
        \/ lifecycle' \in Ticked /\ record_dropped /\ conns' = [conns EXCEPT ![c] = z]
        \/ lifecycle' = lifecycle /\ record_dropped /\ conns' = [conns EXCEPT ![c] = z]
    <2>1. CASE tcp.mode # "CRR"
      <3>1. /\ lifecycle' \in Ticked
            /\ \E keep \in Keeps : IF keep THEN return_idle(c) /\ conns' = [conns EXCEPT ![c] = q]
                                   ELSE record_dropped /\ conns' = [conns EXCEPT ![c] = z]
        BY <2>1, Zenon DEF Finish
      <3>2. PICK keep \in Keeps : IF keep THEN return_idle(c) /\ conns' = [conns EXCEPT ![c] = q]
                                  ELSE record_dropped /\ conns' = [conns EXCEPT ![c] = z]
        BY <3>1, Zenon
      <3>3. keep \in BOOLEAN
        BY <1>1, KeepsIs, Zenon
      <3>4. keep = TRUE \/ keep = FALSE
        BY <3>3, Zenon
      <3> QED
        BY <3>1, <3>2, <3>4, Zenon
    <2>2. CASE tcp.mode = "CRR"
      BY <2>2, Zenon DEF Finish
    <2> QED
      BY <2>1, <2>2, Zenon
  <1> HIDE DEF q
  <1>6. CASE lifecycle' \in Ticked /\ TRUE \in Keeps /\ return_idle(c) /\ conns' = [conns EXCEPT ![c] = q]
    <2>1. q.held /\ q.stage = conns[c].stage
      BY <1>3, Zenon
    <2>2. TcpTypes' /\ TcpOwners' /\ TcpInStep' /\ TcpCounts' /\ TcpHandlers'
      BY <1>2, <1>3, <1>4, <1>6, <2>1, ReturnIdleKeeps, Zenon
    <2>3. ~Expires
      BY <1>1, <1>6, KeepsIs, Zenon
    <2>4. q.request_count <= conns[c].request_count + 1
      BY <1>3
    <2>5. TcpLife'
      BY <1>2, <1>3, <1>6, <2>3, <2>4, FinishLife, Zenon
    <2> QED
      BY <2>2, <2>5, Zenon DEF TcpIInv
  <1>7. CASE (lifecycle' \in Ticked \/ lifecycle' = lifecycle) /\ record_dropped /\ conns' = [conns EXCEPT ![c] = z]
    <2>1. d \in TcpConn /\ ModeKnown(d) /\ ~d.held /\ d.stage = q.stage /\ d.request_count = q.request_count
      BY <1>3, LetGo, Zenon
    <2> HIDE DEF d
    <2>2. z.held = d.held /\ z.request_count \in Nat /\ z.request_count <= d.request_count
      BY <2>1, SettleIs, Zenon
    <2>3. active' \in {active, Less(active)} /\ UNCHANGED <<tcp, handlers, server, idle, requests>> /\ "ok" \in Outcomes
      BY <1>2, <1>7 DEF record_dropped, Outcomes
    <2>4. d.stage = conns[c].stage
      BY <1>3, <2>1, Zenon
    <2>5. TcpTypes' /\ TcpOwners' /\ TcpInStep' /\ TcpCounts' /\ TcpHandlers'
      BY <1>2, <1>7, <2>1, <2>3, <2>4, DropKeeps, Zenon
    <2> HIDE DEF z
    <2>6. z.request_count <= conns[c].request_count + 1 /\ ~z.held
      BY <1>3, <2>1, <2>2, Zenon
    <2>7. TcpLife'
      BY <1>2, <1>7, <2>2, <2>6, FinishLife, Zenon
    <2> QED
      BY <2>5, <2>7, Zenon DEF TcpIInv
  <1> QED
    BY <1>5, <1>6, <1>7, Zenon

(* What a request reads.                                                   *)
LEMMA ReadLensAre ==
    ASSUME TcpTypes, NEW t \in Tasks, tasks[t].size \in tcp.sizes, NEW n \in ReadLens(t)
    PROVE  n \in Nat /\ (tcp.mode = "RR" => n = tasks[t].size.response)
  <1>1. /\ tcp.mode \in TcpModes /\ tcp.sizes \subseteq TcpSize /\ tcp.payload \in Nat /\ tcp.frame \in Nat
        /\ tcp.framing \in {"Raw", "Delimiter", "LengthPrefixed", "FixedSize"} /\ tcp.response_max_bytes \in Nat
    BY ConfigIs, Zenon DEF TcpTypes
  <1>2. tasks[t].size.response \in Nat
    BY <1>1, TcpAssumption DEF TcpSize
  <1>3. FrameLen \in Nat
    BY <1>1 DEF FrameLen
  <1>4. CASE tcp.mode = "Echo" /\ tcp.framing = "Raw"
    <2>1. n \in 1..tcp.response_max_bytes
      BY <1>4 DEF ReadLens
    <2> QED
      BY <1>1, <1>4, <2>1
  <1>5. CASE tcp.mode = "Echo" /\ tcp.framing # "Raw"
    <2>1. n = FrameLen
      BY <1>5 DEF ReadLens
    <2> QED
      BY <1>3, <1>5, <2>1
  <1>6. CASE tcp.mode \in {"RR", "CRR"}
    <2>1. n = tasks[t].size.response
      BY <1>6 DEF ReadLens
    <2> QED
      BY <1>2, <2>1
  <1>7. CASE tcp.mode \notin {"Echo", "RR", "CRR"}
    <2>1. n = 1 \/ n = tasks[t].size.response
      BY <1>7 DEF ReadLens
    <2> QED
      BY <1>2, <1>7, <2>1
  <1> QED
    BY <1>4, <1>5, <1>6, <1>7

(* The reply is read, the request counted: the connection is at rest.      *)
LEMMA RestPaced ==
    ASSUME NEW k \in TcpConn, NEW q, NEW s, s.response > 0, BeforeReply(k, s), s.response <= k.down,
           q.down = k.down - s.response, q.request_count = k.request_count + 1, q.answered = k.answered,
           q.stage = k.stage, q.header = k.header, q.up = k.up, q.left = k.left, q.mode = k.mode, q.size = k.size,
           q.header_sent = k.header_sent, q.reader = k.reader, s \in TcpSize
    PROVE  AtRest(q, s)
  <1>1. s.response \in Nat /\ k.down \in Nat
    BY ConnIs, TcpAssumption DEF TcpSize
  <1>2. ~Unanswered(k)
    BY <1>1 DEF Unanswered
  <1>3. /\ k.stage \in {"RR", "closed"} /\ k.header = 0 /\ k.up = 0 /\ k.left = 0 /\ k.down = s.response
        /\ k.answered = k.request_count + 1 /\ Told(k, s)
    BY <1>1, <1>2 DEF BeforeReply
  <1>4. q.down = 0 /\ q.answered = q.request_count
    BY <1>1, <1>3, Counting, Zenon
  <1> QED
    BY <1>3, <1>4 DEF AtRest, Told, Unanswered

(* Read keeps the invariant.                                               *)
LEMMA TcpReadKeeps ==
    ASSUME TcpIInv, NEW t \in Tasks, Read(t)
    PROVE  TcpIInv'
  <1> DEFINE c == tasks[t].conn
             k == conns[c]
  <1>1. tasks[t].pc = "read" /\ tasks[t].pc \in OnConn
    <2>1. tasks[t].pc = "read"
      BY Zenon DEF Read
    <2> QED
      BY <2>1 DEF OnConn
  <1>2. k \in TcpConn /\ ModeKnown(k) /\ k.held /\ InStep(k, "read", tcp) /\ tasks[t].size \in tcp.sizes
    BY <1>1, WithConn, Zenon DEF TcpIInv
  <1>3. CASE Fail(t)
    BY <1>1, <1>3, TcpFailKeeps, Zenon
  <1>4. ASSUME Single, Finish(t, k) PROVE TcpIInv'
    <2>1. InStep([k EXCEPT !.request_count = @ + 1], "idle", tcp)
      BY <1>4 DEF InStep, Single
    <2> QED
      BY <1>1, <1>2, <1>4, <2>1, FinishKeeps, Zenon
  <1>5. ASSUME NEW n \in ReadLens(t), n <= k.down, Finish(t, [k EXCEPT !.down = @ - n]) PROVE TcpIInv'
    <2> DEFINE m == k.down - n
               q == [k EXCEPT !.down = m]
               i == q.request_count + 1
               z == [q EXCEPT !.request_count = i]
    <2>1. n \in Nat /\ (tcp.mode = "RR" => n = tasks[t].size.response)
      BY <1>2, ReadLensAre, Zenon DEF TcpIInv
    <2>2. k.down \in 0..Window /\ Window \in Nat
      BY <1>2, ConnIs, TcpAssumption, Zenon
    <2>3. m \in 0..Window
      BY <1>5, <2>1, <2>2
    <2>4. q \in TcpConn
      <3> HIDE DEF m
      <3> QED
        BY <1>2, <2>3, ConnWith, Zenon
    <2>5. /\ q.held = k.held /\ q.stage = k.stage /\ q.request_count = k.request_count /\ q.mode = k.mode
          /\ q.down = m /\ q.answered = k.answered /\ q.header = k.header /\ q.up = k.up /\ q.left = k.left
          /\ q.size = k.size /\ q.header_sent = k.header_sent /\ q.reader = k.reader
      <3>1. k \in TcpConn
        BY <1>2, Zenon
      <3> HIDE DEF k, m
      <3> QED
        BY <3>1 DEF TcpConn
    <2> HIDE DEF q
    <2>6. ModeKnown(q) /\ q.held
      BY <1>2, <2>5, Zenon DEF ModeKnown
    <2>7. /\ z.request_count = i /\ z.stage = q.stage /\ z.mode = q.mode /\ z.down = q.down /\ z.answered = q.answered
          /\ z.header = q.header /\ z.up = q.up /\ z.left = q.left /\ z.size = q.size
          /\ z.header_sent = q.header_sent /\ z.reader = q.reader
      BY <2>4 DEF TcpConn
    <2>8. InStep(z, "idle", tcp)
      <3> HIDE DEF z, k
      <3> SUFFICES ASSUME NEW s \in TcpSize, tcp.mode = "RR", tcp.sizes = {s}, s.response > 0, Pace(k, "read", s)
                   PROVE  Pace(z, "idle", s)
        BY <1>2, Zenon DEF InStep
      <3>1. BeforeReply(k, s) /\ n = s.response
        <4>1. tasks[t].size = s
          BY <1>2, Zenon
        <4>2. BeforeReply(k, s)
          BY DEF Pace
        <4> QED
          BY <2>1, <4>1, <4>2, Zenon
      <3>2. /\ s.response <= k.down /\ z.down = k.down - s.response /\ z.request_count = k.request_count + 1
            /\ z.answered = k.answered /\ z.stage = k.stage /\ z.header = k.header /\ z.up = k.up /\ z.left = k.left
            /\ z.mode = k.mode /\ z.size = k.size /\ z.header_sent = k.header_sent /\ z.reader = k.reader
        BY <1>5, <2>5, <2>7, <3>1, Zenon
      <3>3. AtRest(z, s)
        BY <1>2, <3>1, <3>2, RestPaced, Zenon
      <3> QED
        BY <3>3, Zenon DEF Pace
    <2>9. Finish(t, q)
      BY <1>5, Zenon DEF q
    <2> QED
      BY <1>1, <1>2, <2>4, <2>5, <2>6, <2>8, <2>9, FinishKeeps, Zenon
  <1> QED
    BY <1>3, <1>4, <1>5, Zenon DEF Read

(* Write keeps the invariant.                                              *)
LEMMA WriteKeeps ==
    ASSUME TcpIInv, NEW t \in Tasks, Write(t)
    PROVE  TcpIInv'
  <1> DEFINE c == tasks[t].conn
             k == conns[c]
             n == IF k.stage = "closed" THEN 0 ELSE k.up + WriteLen(t)
             r == k.reader \/ tcp.mode = "Bidir"
             a == [k EXCEPT !.up = n]
             q == [a EXCEPT !.reader = r]
             sent == [k EXCEPT !.up = IF k.stage = "closed" THEN 0 ELSE @ + WriteLen(t),
                               !.reader = @ \/ tcp.mode = "Bidir"]
  <1>1. tasks[t].pc = "write" /\ tasks[t].pc \in OnConn /\ "read" \in OnConn /\ "read" # "header"
    <2>1. tasks[t].pc = "write"
      BY Zenon DEF Write
    <2> QED
      BY <2>1 DEF OnConn
  <1>2. k \in TcpConn /\ ModeKnown(k) /\ k.held /\ InStep(k, "write", tcp) /\ tasks[t].size \in tcp.sizes
    BY <1>1, WithConn, Zenon DEF TcpIInv
  <1>3. /\ WriteLen(t) \in Nat /\ (tcp.mode = "RR" => WriteLen(t) = tasks[t].size.request)
        /\ k.up \in Nat /\ k.reader \in BOOLEAN
    BY <1>2, WriteLenIs, ConnIs, Zenon DEF TcpIInv
  <1>4. n \in Nat
    BY <1>3
  <1>5. r \in BOOLEAN /\ (tcp.mode = "RR" /\ ~k.reader => ~r)
    <2>1. tcp.mode = "RR" => tcp.mode # "Bidir"
      OBVIOUS
    <2> QED
      BY <2>1, Zenon
  <1>6. a.reader = k.reader
    <2>1. k \in TcpConn
      BY <1>2, Zenon
    <2> HIDE DEF k, n
    <2> QED
      BY <2>1 DEF TcpConn
  <1>7. sent = q
    BY <1>6, Zenon
  <1>8. /\ q.held = k.held /\ q.stage = k.stage /\ q.request_count = k.request_count /\ q.mode = k.mode
        /\ q.down = k.down /\ q.answered = k.answered /\ q.header = k.header /\ q.up = n /\ q.left = k.left
        /\ q.size = k.size /\ q.header_sent = k.header_sent /\ q.reader = r
    <2>1. k \in TcpConn
      BY <1>2, Zenon
    <2> HIDE DEF k, n, r
    <2> QED
      BY <2>1 DEF TcpConn
  <1> HIDE DEF r
  <1>9. a \in TcpConn
    <2> HIDE DEF n
    <2> QED
      BY <1>2, <1>4, ConnWith, Zenon
  <1> HIDE DEF a
  <1>10. q \in TcpConn
    BY <1>5, <1>9, ConnWith, Zenon
  <1> HIDE DEF q, sent
  <1>11. ModeKnown(q) /\ q.held
    BY <1>2, <1>8, Zenon DEF ModeKnown
  <1>12. ASSUME Reads(t), conns' = [conns EXCEPT ![c] = sent], tasks' = [tasks EXCEPT ![t].pc = "read"],
                UNCHANGED <<tcp, handlers, server, idle, active, lifecycle, requests, results>>
         PROVE  TcpIInv'
    <2>1. InStep(q, "read", tcp)
      <3> SUFFICES ASSUME NEW s \in TcpSize, tcp.mode = "RR", tcp.sizes = {s}, s.response > 0, Pace(k, "write", s)
                   PROVE  Pace(q, "read", s)
        BY <1>2, Zenon DEF InStep
      <3>1. tasks[t].size = s /\ BeforeWrite(k, s)
        BY <1>2, Zenon DEF Pace
      <3>2. Told(q, s) /\ Unanswered(q)
        <4>1. Told(k, s) /\ Unanswered(k) /\ ~r
          BY <1>5, <3>1, Zenon DEF BeforeWrite, Told
        <4> QED
          BY <1>8, <4>1, Zenon DEF Told, Unanswered
      <3>3. CASE k.stage = "closed"
        <4>1. q.stage = "closed" /\ q.down < s.response
          BY <1>8, <3>2, <3>3, Zenon DEF Unanswered
        <4> QED
          BY <3>2, <4>1, Zenon DEF BeforeReply, Pace
      <3>4. CASE k.stage # "closed"
        <4>1. k.up = 0 /\ k.left = 0 /\ OnItsWay(k)
          BY <3>1, <3>4, Zenon DEF BeforeWrite
        <4>2. q.up + q.left = s.request
          <5>1. q.up = k.up + WriteLen(t) /\ WriteLen(t) = s.request
            BY <1>3, <1>8, <3>1, <3>4, Zenon
          <5> QED
            <6>1. \A x \in Nat : (0 + x) + 0 = x
              OBVIOUS
            <6>2. q.up = 0 + WriteLen(t) /\ q.left = 0
              BY <1>8, <4>1, <5>1, Zenon
            <6>3. (0 + WriteLen(t)) + 0 = WriteLen(t)
              BY <1>3, <6>1, Zenon
            <6> QED
              BY <5>1, <6>2, <6>3, Zenon
        <4>3. OnItsWay(q)
          BY <1>8, <4>1, Zenon DEF OnItsWay
        <4> QED
          BY <3>2, <4>2, <4>3, Zenon DEF BeforeReply, Pace
      <3> QED
        BY <3>3, <3>4
    <2> QED
      BY <1>1, <1>7, <1>8, <1>10, <1>11, <1>12, <2>1, GoesOnKeeps, Zenon
  <1>13. ASSUME ~Reads(t), Finish(t, sent) PROVE TcpIInv'
    <2>1. InStep([q EXCEPT !.request_count = @ + 1], "idle", tcp)
      <3> DEFINE z == [q EXCEPT !.request_count = @ + 1]
      <3> HIDE DEF z
      <3> SUFFICES ASSUME NEW s \in TcpSize, tcp.mode = "RR", tcp.sizes = {s}, s.response > 0
                   PROVE  FALSE
        BY Zenon DEF InStep, z
      <3>1. tasks[t].size = s
        BY <1>2
      <3> QED
        BY <1>13, <3>1 DEF Reads
    <2> QED
      BY <1>1, <1>7, <1>8, <1>10, <1>11, <1>13, <2>1, FinishKeeps, Zenon
  <1>14. CASE Fail(t)
    BY <1>1, <1>14, TcpFailKeeps, Zenon
  <1> QED
    BY <1>12, <1>13, <1>14, Zenon DEF Write, sent

-----------------------------------------------------------------------------
(* The invariant holds before the first request.                           *)
LEMMA TcpInitially == Init => TcpIInv
  <1> SUFFICES ASSUME Init PROVE TcpIInv
    OBVIOUS
  <1>1. /\ tcp \in TcpConfigs /\ conns = [c \in ConnIds |-> NoConn] /\ handlers = 0 /\ server = "up"
        /\ tasks = [t \in Tasks |-> NoTask] /\ idle = <<>> /\ active = 0 /\ requests = 0
        /\ results = [o \in Outcomes |-> 0]
    BY Zenon DEF Init, ServerInit, ClientInit
  <1>2. /\ \A c \in ConnIds : conns[c] = NoConn
        /\ \A t \in Tasks : tasks[t] = NoTask
    BY <1>1, Zenon
  <1>3. \A c : ~ InPool(idle, c)
    BY <1>1 DEF InPool
  <1>4. TcpTypes
    <2>1. idle \in Seq(ConnIds)
      BY <1>1
    <2>2. tasks = [t \in Tasks |-> tasks[t]]
      BY <1>1
    <2>3. conns \in [ConnIds -> TcpConn]
      BY <1>1, EmptyRecords
    <2> QED
      BY <1>1, <1>2, <2>1, <2>2, <2>3, EmptyRecords, Zenon DEF TcpTypes
  <1>5. TcpOwners
    <2>1. \A i, j \in 1..Len(idle) : idle[i] = idle[j] => i = j
      BY <1>1
    <2> QED
      BY <1>2, <1>3, <2>1, EmptyRecords, Zenon DEF TcpOwners
  <1>6. TcpInStep
    BY <1>2, <1>3, EmptyRecords, Zenon DEF TcpInStep
  <1>7. TcpCounts
    <2>1. InFlight = {}
      BY <1>2, EmptyRecords, Zenon DEF InFlight
    <2>2. IsFiniteSet(InFlight) /\ Cardinality(InFlight) = 0
      BY <2>1, FS_EmptySet, Zenon
    <2>3. Len(idle) = 0
      BY <1>1
    <2>4. results \in [Outcomes -> Nat] /\ Ended = 0
      BY <1>1 DEF Outcomes, Ended
    <2>5. tcp.max_connections \in Nat /\ MaxRequests \in Nat
      BY <1>1, ConfigIs, TcpAssumption, Zenon
    <2> QED
      BY <1>1, <2>2, <2>3, <2>4, <2>5 DEF TcpCounts
  <1>8. TcpLife
    <2>1. tcp.limits \in SUBSET Nat
      BY <1>1, ConfigIs, Zenon
    <2>2. PICK n \in tcp.limits \cup (IF tcp.limits = {} THEN {0} ELSE {}) : lifecycle = [count |-> 0, limit |-> n]
      BY Zenon DEF Init, ClientInit
    <2>3. n \in Nat /\ (tcp.limits # {} => n \in tcp.limits)
      BY <2>1, <2>2
    <2>4. lifecycle \in [count : Nat, limit : Nat] /\ lifecycle.count = 0 /\ lifecycle.limit = n
      BY <2>2, <2>3
    <2>5. ASSUME Limited(tcp), NEW c \in ConnIds PROVE Lived(conns[c], tcp, lifecycle)
      <3>1. conns[c].request_count = 0
        BY <1>2, <2>5, EmptyRecords, Zenon
      <3>2. n \in tcp.limits
        BY <2>3, <2>5, Zenon DEF Limited
      <3> QED
        BY <2>3, <2>4, <3>1, <3>2 DEF Lived
    <2>6. Limited(tcp) => lifecycle.limit \in tcp.limits /\ lifecycle.count <= lifecycle.limit
      BY <2>3, <2>4 DEF Limited
    <2> QED
      BY <2>4, <2>5, <2>6, Zenon DEF TcpLife
  <1>9. TcpHandlers
    <2>1. LiveHandlers = {}
      BY <1>2, EmptyRecords, Zenon DEF LiveHandlers
    <2>2. Cardinality(LiveHandlers) = 0
      BY <2>1, FS_EmptySet, Zenon
    <2>3. tcp.server_max \in Nat
      BY <1>1, ConfigIs, Zenon
    <2> QED
      BY <1>1, <2>2, <2>3 DEF TcpHandlers
  <1> QED
    BY <1>4, <1>5, <1>6, <1>7, <1>8, <1>9, Zenon DEF TcpIInv

(* A step of the server keeps the invariant.                               *)
LEMMA TcpServerKeeps ==
    ASSUME TcpIInv, ServerNext, UNCHANGED clientVars
    PROVE  TcpIInv'
  <1>1. ASSUME NEW c \in ConnIds, Accept(c) PROVE TcpIInv'
    BY <1>1, AcceptKeeps, Zenon
  <1>2. ASSUME NEW c \in ConnIds, HandlerStep(c) PROVE TcpIInv'
    <2>1. CASE FirstRead(c)
      BY <2>1, FirstReadKeeps, Zenon
    <2>2. CASE ReadHeader(c)
      BY <2>2, ReadHeaderKeeps, Zenon
    <2>3. CASE ReadRequest(c)
      BY <2>3, ReadRequestKeeps, Zenon
    <2>4. CASE Reply(c)
      BY <2>4, ReplyKeeps, Zenon
    <2>5. CASE SinkRead(c) \/ SourceWrite(c) \/ EchoLoop(c)
      BY <2>5, StreamsKeep, Zenon
    <2> QED
      BY <1>2, <2>1, <2>2, <2>3, <2>4, <2>5, Zenon DEF HandlerStep
  <1>3. CASE Shutdown
    BY <1>3, ShutdownKeeps, Zenon
  <1>4. CASE StopThread
    BY <1>4, StopThreadKeeps, Zenon
  <1> QED
    BY <1>1, <1>2, <1>3, <1>4, Zenon DEF ServerNext

(* A step of the client keeps the invariant.                               *)
LEMMA TcpClientKeeps ==
    ASSUME TcpIInv, ClientNext
    PROVE  TcpIInv'
  <1>1. ASSUME NEW t \in Tasks, ClientStep(t) PROVE TcpIInv'
    <2>1. CASE Execute(t)
      BY <2>1, TcpExecuteKeeps, Zenon
    <2>2. CASE Connect(t)
      BY <2>2, TcpConnectKeeps, Zenon
    <2>3. CASE ConnectFails(t)
      <3>1. tasks[t].pc = "connecting" /\ End(t, "connect") /\ active' = Less(active) /\ idle' = idle
            /\ UNCHANGED <<linkVars, lifecycle, requests>>
        BY <2>3, Zenon DEF ConnectFails, record_dropped
      <3>2. UNCHANGED <<linkVars, idle, lifecycle, requests>> /\ active' \in {active, Less(active)} /\ "connect" \in Outcomes
        BY <3>1 DEF Outcomes
      <3> QED
        BY <3>1, <3>2, NoConnectKeeps, Zenon
    <2>4. CASE SendHeader(t)
      BY <2>4, SendHeaderKeeps, Zenon
    <2>5. CASE Write(t)
      BY <2>5, WriteKeeps, Zenon
    <2>6. CASE Read(t)
      BY <2>6, TcpReadKeeps, Zenon
    <2>7. CASE Timeout(t)
      BY <2>7, TcpTimeoutKeeps, Zenon
    <2> QED
      BY <1>1, <2>1, <2>2, <2>3, <2>4, <2>5, <2>6, <2>7, Zenon DEF ClientStep
  <1>2. ASSUME NEW c \in ConnIds, BackgroundRead(c) PROVE TcpIInv'
    BY <1>2, BackgroundReadKeeps, Zenon
  <1> QED
    BY <1>1, <1>2, Zenon DEF ClientNext

(* Nothing changes, and the invariant stays.                               *)
LEMMA TcpStutterKeeps ==
    ASSUME TcpIInv, UNCHANGED vars
    PROVE  TcpIInv'
  <1>1. /\ tcp' = tcp /\ conns' = conns /\ handlers' = handlers /\ server' = server
        /\ tasks' = tasks /\ idle' = idle /\ active' = active /\ lifecycle' = lifecycle
        /\ requests' = requests /\ results' = results
    BY DEF vars, linkVars, clientVars
  <1>2. TcpTypes' /\ TcpOwners' /\ TcpInStep'
    BY <1>1, Zenon DEF TcpIInv, TcpTypes, TcpOwners, TcpInStep
  <1>3. TcpCounts' /\ TcpLife' /\ TcpHandlers'
    <2>1. InFlight' = InFlight /\ LiveHandlers' = LiveHandlers /\ Ended' = Ended
      BY <1>1, Zenon DEF InFlight, LiveHandlers, Ended
    <2> QED
      BY <1>1, <2>1, Zenon DEF TcpIInv, TcpCounts, TcpLife, TcpHandlers
  <1> QED
    BY <1>2, <1>3, Zenon DEF TcpIInv

-----------------------------------------------------------------------------
(* The elements of the pool and the elements of the sequence are the same. *)
LEMMA PoolRange ==
    ASSUME NEW S, NEW p \in Seq(S)
    PROVE  /\ DOMAIN p = 1..Len(p) /\ \A c : c \in Range(p) <=> InPool(p, c)
           /\ IsFiniteSet(Range(p)) /\ Cardinality(Range(p)) \in Nat /\ Cardinality(Range(p)) <= Len(p)
  <1>1. DOMAIN p = 1..Len(p) /\ Len(p) \in Nat /\ p \in [1..Len(p) -> S]
    OBVIOUS
  <1>2. Range(p) = {p[i] : i \in 1..Len(p)}
    BY <1>1, Zenon DEF Range
  <1>3. \A c : c \in Range(p) <=> InPool(p, c)
    BY <1>2, Zenon DEF InPool
  <1>4. p \in [1..Len(p) -> Range(p)]
    BY <1>1, <1>2
  <1>5. p \in Surjection(1..Len(p), Range(p))
    <2>1. \A c \in Range(p) : \E i \in 1..Len(p) : p[i] = c
      BY <1>3, Zenon DEF InPool
    <2> QED
      BY <1>4, <2>1, Zenon DEF Surjection
  <1>6. IsFiniteSet(1..Len(p)) /\ Cardinality(1..Len(p)) = Len(p)
    BY <1>1, FS_Interval
  <1>7. IsFiniteSet(Range(p)) /\ Cardinality(Range(p)) <= Len(p)
    <2>1. IsFiniteSet(Range(p)) /\ Cardinality(Range(p)) <= Cardinality(1..Len(p))
      <3> DEFINE I == 1..Len(p)
                 T == Range(p)
      <3>1. p \in Surjection(I, T) /\ IsFiniteSet(I)
        BY <1>5, <1>6, Zenon
      <3> HIDE DEF I, T
      <3>2. IsFiniteSet(T) /\ Cardinality(T) <= Cardinality(I)
        BY <3>1, FS_Surjection, Zenon
      <3> QED
        BY <3>2, Zenon DEF I, T
    <2> QED
      BY <1>6, <2>1, Zenon
  <1>8. Cardinality(Range(p)) \in Nat
    BY <1>7, FS_CardinalityType, Zenon
  <1> QED
    BY <1>1, <1>3, <1>7, <1>8, Zenon

(* What the worker holds or is opening is at most what its pool counts.    *)
LEMMA SocketsCounted ==
    ASSUME TcpIInv
    PROVE  /\ IsFiniteSet(Held) /\ Cardinality(Held) \in Nat /\ Cardinality(Connecting) \in Nat
           /\ Cardinality(Held) + Cardinality(Connecting) <= Len(idle) + Cardinality(InFlight)
  <1> USE DEF TcpIInv
  <1> DEFINE Own == {tasks[t].conn : t \in Holding}
             f   == [t \in Holding |-> tasks[t].conn]
             P   == Range(idle)
  <1>1. IsFiniteSet(InFlight) /\ idle \in Seq(ConnIds)
    BY DEF TcpCounts, TcpTypes
  <1>2. \A t \in Tasks : TaskOK(tasks[t], tcp)
    BY Zenon DEF TcpTypes
  <1>3. Holding \in SUBSET InFlight /\ Connecting \in SUBSET InFlight /\ Holding \cap Connecting = {}
    <2>1. \A t \in Tasks : tasks[t].conn # 0 => tasks[t].pc \in OnConn
      BY <1>2, Zenon DEF TaskOK
    <2>2. "free" \notin OnConn /\ "connecting" \notin OnConn /\ "connecting" # "free"
      BY DEF OnConn
    <2>3. \A t \in Holding : t \in InFlight /\ t \notin Connecting
      BY <2>1, <2>2, Zenon DEF Holding, InFlight, Connecting
    <2>4. \A t \in Connecting : t \in InFlight
      BY <2>2, Zenon DEF InFlight, Connecting
    <2> QED
      BY <2>3, <2>4
  <1>4. /\ IsFiniteSet(Holding) /\ Cardinality(Holding) \in Nat
        /\ IsFiniteSet(Connecting) /\ Cardinality(Connecting) \in Nat
        /\ Cardinality(InFlight) \in Nat
    BY <1>1, <1>3, FS_Subset, FS_CardinalityType, Zenon
  <1>5. Cardinality(Holding) + Cardinality(Connecting) <= Cardinality(InFlight)
    <2>1. Cardinality(Holding \cup Connecting) = Cardinality(Holding) + Cardinality(Connecting) - Cardinality({})
      BY <1>3, <1>4, FS_Union, Zenon
    <2>2. Holding \cup Connecting \in SUBSET InFlight
      BY <1>3
    <2>3. Cardinality(Holding \cup Connecting) <= Cardinality(InFlight)
      BY <1>1, <2>2, FS_Subset, Zenon
    <2> QED
      BY <1>4, <2>1, <2>3, FS_EmptySet
  <1>6. IsFiniteSet(Own) /\ Cardinality(Own) \in Nat /\ Cardinality(Own) <= Cardinality(Holding)
    <2>1. f \in Surjection(Holding, Own)
      BY Zenon DEF Surjection
    <2>2. IsFiniteSet(Own) /\ Cardinality(Own) <= Cardinality(Holding)
      <3> HIDE DEF Own, f
      <3> QED
        BY <1>4, <2>1, FS_Surjection, Zenon
    <2> QED
      BY <2>2, FS_CardinalityType, Zenon
  <1>7. IsFiniteSet(P) /\ Cardinality(P) \in Nat /\ Cardinality(P) <= Len(idle) /\ Len(idle) \in Nat
    BY <1>1, PoolRange
  <1>8. Held \in SUBSET (P \cup Own)
    <2> SUFFICES ASSUME NEW c \in Held PROVE c \in P \cup Own
      BY Zenon
    <2>1. c \in ConnIds /\ conns[c].held /\ c # 0
      BY TcpAssumption DEF Held
    <2>2. InPool(idle, c) \/ \E t \in Tasks : tasks[t].conn = c
      BY <2>1, Zenon DEF TcpOwners
    <2>3. CASE InPool(idle, c)
      BY <1>1, <2>3, PoolRange
    <2>4. ASSUME NEW t \in Tasks, tasks[t].conn = c PROVE c \in Own
      BY <2>1, <2>4, Zenon DEF Holding
    <2> HIDE DEF Own
    <2> QED
      BY <2>2, <2>3, <2>4, Zenon
  <1> HIDE DEF Own, P
  <1>9. /\ IsFiniteSet(P \cup Own) /\ Cardinality(P \cap Own) \in Nat
        /\ Cardinality(P \cup Own) = Cardinality(P) + Cardinality(Own) - Cardinality(P \cap Own)
    <2>1. P \cap Own \in SUBSET P
      OBVIOUS
    <2> QED
      BY <1>6, <1>7, <2>1, FS_Union, FS_Subset, FS_CardinalityType, Zenon
  <1>10. IsFiniteSet(Held) /\ Cardinality(Held) \in Nat /\ Cardinality(Held) <= Cardinality(P \cup Own)
    BY <1>8, <1>9, FS_Subset, FS_CardinalityType, Zenon
  <1> DEFINE h == Cardinality(Held)
             o == Cardinality(Own)
             p == Cardinality(P)
             x == Cardinality(P \cap Own)
             y == Cardinality(P \cup Own)
             g == Cardinality(Holding)
             w == Cardinality(Connecting)
             n == Cardinality(InFlight)
  <1>11. /\ h \in Nat /\ o \in Nat /\ p \in Nat /\ x \in Nat /\ g \in Nat /\ w \in Nat /\ n \in Nat /\ Len(idle) \in Nat
         /\ h <= y /\ y = p + o - x /\ p <= Len(idle) /\ o <= g /\ g + w <= n
    BY <1>4, <1>5, <1>6, <1>7, <1>9, <1>10, Zenon
  <1>12. h + w <= Len(idle) + n
    <2> HIDE DEF h, o, p, x, y, g, w, n
    <2> QED
      BY <1>11
  <1> QED
    BY <1>4, <1>10, <1>12, Zenon

(* What the run checks follows from the invariant.                         *)
LEMMA TcpImplied == TcpIInv => TcpInv
  <1> SUFFICES ASSUME TcpIInv PROVE TcpInv
    OBVIOUS
  <1> USE DEF TcpIInv
  <1>1. /\ tcp \in TcpConfigs /\ idle \in Seq(ConnIds) /\ conns \in [ConnIds -> TcpConn]
        /\ \A t \in Tasks : TaskOK(tasks[t], tcp)
    BY Zenon DEF TcpTypes
  <1>2. DOMAIN idle = 1..Len(idle) /\ \A c : c \in Range(idle) <=> InPool(idle, c)
    BY <1>1, PoolRange
  <1>3. TypeOK
    <2>1. handlers \in 0..Cardinality(ConnIds)
      <3>1. LiveHandlers \in SUBSET ConnIds
        BY DEF LiveHandlers
      <3>2. Cardinality(LiveHandlers) <= Cardinality(ConnIds) /\ Cardinality(LiveHandlers) \in Nat
            /\ Cardinality(ConnIds) \in Nat
        BY <3>1, TcpAssumption, FS_Subset, FS_CardinalityType, Zenon
      <3>3. handlers = Cardinality(LiveHandlers)
        BY Zenon DEF TcpHandlers
      <3> QED
        BY <3>2, <3>3
    <2>2. \A t \in Tasks : tasks[t].pc \in {"free", "connecting", "header", "write", "read"}
      <3>1. {"free", "connecting"} \cup OnConn = {"free", "connecting", "header", "write", "read"}
        BY DEF OnConn
      <3> QED
        BY <1>1, <3>1, Zenon DEF TaskOK
    <2>3. \A c \in ConnIds : conns[c].down \in 0..Window /\ conns[c].header \in 0..HeaderUnits
      BY <1>1 DEF TcpConn, HeaderUnits
    <2>4. results \in [Outcomes -> 0..MaxRequests]
      <3>1. Cardinality(InFlight) \in Nat
        BY FS_CardinalityType, Zenon DEF TcpCounts
      <3>2. /\ requests \in Nat /\ requests <= MaxRequests /\ MaxRequests \in Nat /\ results \in [Outcomes -> Nat]
            /\ Ended + Cardinality(InFlight) = requests
        BY TcpAssumption, Zenon DEF TcpCounts
      <3> DEFINE n == Cardinality(InFlight)
      <3>3. \A o \in Outcomes : results[o] \in 0..MaxRequests
        <4>1. n \in Nat /\ Ended + n = requests
          BY <3>1, <3>2, Zenon
        <4> HIDE DEF n
        <4> QED
          BY <3>2, <4>1 DEF Outcomes, Ended
      <3> QED
        BY <3>2, <3>3
    <2>5. active \in Nat /\ server \in {"up", "stopping", "down"}
      BY Zenon DEF TcpCounts, TcpHandlers
    <2> QED
      BY <1>1, <2>1, <2>2, <2>3, <2>4, <2>5, Zenon DEF TypeOK
  <1>4. OwnedOnce
    <2>1. IsInjective(idle)
      BY <1>2, Zenon DEF IsInjective, TcpOwners
    <2>2. \A t \in Holding : tasks[t].conn \notin Range(idle)
      BY <1>2, Zenon DEF Holding, TcpOwners
    <2>3. \A s, t \in Holding : tasks[s].conn = tasks[t].conn => s = t
      BY Zenon DEF Holding, TcpOwners
    <2>4. Held = Range(idle) \cup {tasks[t].conn : t \in Holding}
      <3> DEFINE Own == {tasks[t].conn : t \in Holding}
      <3>1. ASSUME NEW c \in Held PROVE c \in Range(idle) \cup Own
        <4>1. c \in ConnIds /\ conns[c].held /\ c # 0
          BY <3>1, TcpAssumption DEF Held
        <4>2. InPool(idle, c) \/ \E t \in Tasks : tasks[t].conn = c
          BY <4>1, Zenon DEF TcpOwners
        <4>3. ASSUME NEW t \in Tasks, tasks[t].conn = c PROVE c \in Own
          BY <4>1, <4>3, Zenon DEF Holding
        <4> HIDE DEF Own
        <4> QED
          BY <1>2, <4>2, <4>3, Zenon
      <3>2. ASSUME NEW c \in Range(idle) PROVE c \in Held
        <4>1. InPool(idle, c)
          BY <1>2, <3>2, Zenon
        <4>2. c \in ConnIds
          BY <1>1, <4>1 DEF InPool
        <4> QED
          BY <4>1, <4>2, Zenon DEF Held, TcpOwners
      <3>3. ASSUME NEW t \in Holding PROVE tasks[t].conn \in Held
        <4>1. t \in Tasks /\ tasks[t].conn # 0
          BY <3>3, Zenon DEF Holding
        <4>2. tasks[t].conn \in ConnIds
          BY <1>1, <4>1, Zenon DEF TaskOK
        <4> QED
          BY <4>1, <4>2, Zenon DEF Held, TcpOwners
      <3>4. \A c \in Own : c \in Held
        BY <3>3, Zenon
      <3> HIDE DEF Own
      <3>5. Held = Range(idle) \cup Own
        BY <3>1, <3>2, <3>4
      <3> QED
        BY <3>5, Zenon DEF Own
    <2> QED
      BY <2>1, <2>2, <2>3, <2>4, Zenon DEF OwnedOnce
  <1>5. SocketsWithinLimit
    <2> DEFINE h == Cardinality(Held)
               w == Cardinality(Connecting)
               n == Cardinality(InFlight)
               m == tcp.max_connections
    <2>1. h \in Nat /\ w \in Nat /\ h + w <= Len(idle) + n
      BY SocketsCounted, Zenon
    <2>2. n \in Nat /\ n <= active /\ active \in Nat /\ (m > 0 => active + Len(idle) <= m)
      BY FS_CardinalityType, Zenon DEF TcpCounts
    <2>3. m \in Nat /\ Len(idle) \in Nat
      BY <1>1, ConfigIs
    <2>4. m > 0 => h + w <= m
      <3> HIDE DEF h, w, n, m
      <3> QED
        BY <2>1, <2>2, <2>3
    <2> QED
      BY <2>4, Zenon DEF SocketsWithinLimit
  <1>6. IdleInStep
    <2> SUFFICES ASSUME Transactional, NEW c \in Range(idle)
                 PROVE  conns[c].down = 0 /\ Incoming(conns[c]) = 0 /\ conns[c].answered = conns[c].request_count
      BY Zenon DEF IdleInStep
    <2>1. PICK s \in tcp.sizes : tcp.mode = "RR" /\ tcp.sizes = {s} /\ s.request > 0 /\ s.response > 0
      BY Zenon DEF Transactional
    <2>2. s \in TcpSize
      <3>1. tcp.sizes \subseteq TcpSize
        BY <1>1, ConfigIs, Zenon
      <3> QED
        BY <2>1, <3>1
    <2>3. InPool(idle, c)
      BY <1>2, Zenon
    <2>4. c \in ConnIds
      BY <1>1, <2>3 DEF InPool
    <2>5. AtRest(conns[c], s)
      BY <2>1, <2>2, <2>3, <2>4, Zenon DEF TcpInStep, InStep, Pace
    <2> QED
      BY <2>5 DEF AtRest, Unanswered, Incoming
  <1>7. LifetimeBounded
    BY Zenon DEF LifetimeBounded, TcpLife, Limited, Lived
  <1>8. HandlersCounted
    BY Zenon DEF HandlersCounted, TcpHandlers, LiveHandlers
  <1> QED
    BY <1>3, <1>4, <1>5, <1>6, <1>7, <1>8, Zenon DEF TcpInv

(* For every configuration of the test and of the server and any number of *)
(* concurrent requests: a stream of the TCP executor has one owner, the    *)
(* request that checked it out or the pool; what is open or being opened   *)
(* stays within max_connections, whatever timeouts leave uncounted; a      *)
(* connection that goes back to the pool of a transactional test has all   *)
(* its replies read and none outstanding; a Mixed connection carries at    *)
(* most one request more than a lifetime; and the accept loop's counter is *)
(* the number of live handlers (do_execute, ConnectionPool,                *)
(* tcp_accept_loop).                                                       *)
THEOREM TcpCorrect == TcpSpec => []TcpInv
  <1>1. Init => TcpIInv
    BY TcpInitially
  <1>2. TcpIInv /\ [Next]_vars => TcpIInv'
    <2> SUFFICES ASSUME TcpIInv, [Next]_vars PROVE TcpIInv'
      OBVIOUS
    <2>1. CASE ClientNext
      BY <2>1, TcpClientKeeps, Zenon
    <2>2. CASE ServerNext /\ UNCHANGED clientVars
      BY <2>2, TcpServerKeeps, Zenon
    <2>3. CASE UNCHANGED vars
      BY <2>3, TcpStutterKeeps, Zenon
    <2> QED
      BY <2>1, <2>2, <2>3, Zenon DEF Next
  <1>3. TcpIInv => TcpInv
    BY TcpImplied
  <1> QED
    BY <1>1, <1>2, <1>3, PTL DEF TcpSpec
=============================================================================
