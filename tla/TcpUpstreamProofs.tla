-------------------------- MODULE TcpUpstreamProofs --------------------------
(***************************************************************************)
(* Proofs about the way to a TCP upstream, for any number of workers,      *)
(* clients, connections, branches, retransmissions and faults.             *)
(***************************************************************************)
EXTENDS TcpUpstream, SequenceTheorems, FiniteSetTheorems, TLAPS

USE TcpAssumption

-----------------------------------------------------------------------------
(* Type correctness *)

\* What a task holds goes with what it is doing: a request unless it is idle, a branch
\* from prepare_forward on, a connection once it has got one.
HasConn == {"pool", "check", "insert", "write", "evict", "record", "wait"}
Shaped(j) ==
    /\ j.pc # "idle" => j.req \in Request
    /\ j.pc = "idle" => j = NoJob
    /\ j.pc \in SendSteps \cup {"wait"} => j.branch \in Branch
    /\ j.pc \in SendSteps => j.attempt \in 1..2
    /\ j.pc \in HasConn => j.conn \in Conn
TasksShaped == \A t \in Task : Shaped(task[t])
TypeInv == TypeOK /\ TasksShaped

\* The bounds one by one, and what the handlers are.
LEMMA Bounds ==
    /\ MaxConn \in Nat /\ MaxBranch \in Nat /\ MaxFaults \in Nat /\ QueueSize \in Nat /\ MaxSends \in Nat
    /\ MaxSends >= 1 /\ Handlers \in Nat \ {0} /\ Worker = 0..Handlers - 1
<1>1. Cardinality(Worker) \in Nat
  BY FS_CardinalityType
<1>2. Cardinality(Worker) # 0
  BY <1>1
<1>. QED BY <1>1, <1>2 DEF Handlers

Txn == Invite \cup UdpOther \cup TcpOther
Begins(r) == r.method \notin FollowUp
\* What the methods of requests say of their transactions, and who is no request or task.
LEMMA RequestFacts ==
    /\ NoRequest \notin Request /\ NoTask \notin Task
    /\ \A r \in Request : r.txn \in Txn
    /\ \A r \in Request : r.method \in FollowUp \cup {"INVITE", "CANCEL", "ACK"} => r.txn \in Invite
    /\ \A r \in Request : OverTcp(r) => r.txn \in Task
    /\ \A r, q \in Request : r.txn = q.txn /\ Begins(r) /\ Begins(q) => r = q
<1>1. NoTask \notin Task
  <2>1. NoTask \notin Worker
    BY Bounds DEF NoTask
  <2>. QED BY <2>1 DEF NoTask, Task, Client
<1>2. \A r, q \in Request : r.txn = q.txn /\ Begins(r) /\ Begins(q) => r = q
  BY DEF Request, Invite, Begins
<1>3. \A r \in Request : OverTcp(r) => r.txn \in Task
  BY DEF OverTcp, Task
<1>. QED BY <1>1, <1>2, <1>3 DEF NoRequest, Request, Txn

\* An idle task holds nothing.
LEMMA NoJobFacts ==
    /\ NoJob \in Job /\ Shaped(NoJob)
    /\ NoJob.pc = "idle" /\ NoJob.branch = 0 /\ NoJob.req = NoRequest /\ NoJob.conn = 0
BY Bounds DEF NoJob, Doing, Job, Shaped, SendSteps, HasConn

\* A step of one task leaves the others alone.
OnlyTask(t) == \A u \in Task \ {t} : task'[u] = task[u]
Pc == {"idle", "wait", "reject"} \cup SendSteps
Moves(t, pc) ==
    /\ task'[t].pc = pc /\ task'[t].req = task[t].req /\ task'[t].branch = task[t].branch
    /\ task'[t].conn = task[t].conn /\ task'[t].attempt = task[t].attempt

\* Goto changes the program counter and nothing else of a task.
LEMMA GotoEffect ==
    ASSUME NEW t \in Task, NEW pc \in Pc, task \in [Task -> Job], Goto(t, pc)
    PROVE  task' \in [Task -> Job] /\ OnlyTask(t) /\ Moves(t, pc)
<1>1. task' = [task EXCEPT ![t].pc = pc]
  BY DEF Goto
<1>2. task[t] \in Job /\ [task[t] EXCEPT !.pc = pc] \in Job
  BY DEF Job, Pc
<1>. QED BY <1>1, <1>2 DEF OnlyTask, Moves, Job

\* A task that takes up something else.
LEMMA SetTaskEffect ==
    ASSUME NEW t \in Task, NEW j \in Job, task \in [Task -> Job], task' = [task EXCEPT ![t] = j]
    PROVE  task' \in [Task -> Job] /\ OnlyTask(t) /\ task'[t] = j
BY DEF OnlyTask

\* It is enough to look at the task that moves.
LEMMA ShapesKept ==
    ASSUME NEW t \in Task, TasksShaped, OnlyTask(t), Shaped(task'[t])
    PROVE  TasksShaped'
BY DEF TasksShaped, OnlyTask, Shaped, NoJob, Doing

\* What a route change gives.
LEMMA WithRouteType ==
    ASSUME NEW c \in Conn, NEW b \in Branch, NEW t \in Task \cup {NoTask},
           routes \in [Conn -> [Branch -> Task \cup {NoTask}]]
    PROVE  /\ WithRoute(c, b, t) \in [Conn -> [Branch -> Task \cup {NoTask}]]
           /\ WithRoute(c, b, t)[c][b] = t
           /\ \A d \in Conn, a \in Branch : d # c \/ a # b => WithRoute(c, b, t)[d][a] = routes[d][a]
BY DEF WithRoute

Delivery == [to : Request, answer : Request, isFinal : BOOLEAN]
OutOK == relayed \subseteq Delivery /\ finals \in [Request -> Nat]

\* What a client gets is a response.
LEMMA RelayType ==
    ASSUME NEW r \in Request, NEW a \in Request, NEW isFinal \in BOOLEAN, OutOK
    PROVE  /\ Relay(r, a, isFinal) => OutOK'
           /\ SendTrying(r) => OutOK'
           /\ UNCHANGED out => OutOK'
<1>1. \A x \in Request, y \in BOOLEAN : Relay(r, x, y) => OutOK'
  BY DEF Relay, OutOK, Delivery
<1>2. UNCHANGED out => OutOK'
  BY DEF out, OutOK
<1>. QED BY <1>1, <1>2 DEF SendTrying

\* The types, variable by variable.
Types ==
    /\ queue \in [Task -> Seq(Request)] /\ nextHandler \in Worker
    /\ \A w \in Worker : Len(queue[w]) <= QueueSize
    /\ task \in [Task -> Job] /\ inbox \in [Task -> Seq(Answer)]
    /\ pool \in 0..MaxConn /\ conn \in [Conn -> Connection]
    /\ routes \in [Conn -> [Branch -> Task \cup {NoTask}]]
    /\ received \subseteq [conn : Conn, branch : Branch, req : Request, rang : BOOLEAN]
    /\ cached \subseteq Request /\ final \in [Request -> Request \cup {NoRequest}]
    /\ inviteTx \in [Invite -> 0..MaxBranch] /\ rejections \subseteq Invite
    /\ nextBranch \in 1..MaxBranch + 1
    /\ OutOK
    /\ sends \in [Request -> 0..MaxSends]
    /\ faults \in 0..MaxFaults /\ pruned \in BOOLEAN
    /\ TasksShaped

\* They are the type invariant.
LEMMA TypesAre == TypeInv <=> Types
BY DEF TypeInv, TypeOK, Types, OutOK, Delivery

\* A fault is counted.
LEMMA FaultType ==
    ASSUME Types
    PROVE  /\ Fault => faults' \in 0..MaxFaults /\ pruned' = pruned
           /\ faults < MaxFaults => faults + 1 \in 0..MaxFaults
BY Bounds DEF Types, Fault

\* The moves of a task that only go on in the program.
LEMMA GotoType ==
    ASSUME Types, NEW t \in Task, NEW pc \in Pc, Goto(t, pc), task[t].pc # "idle", pc # "idle",
           pc \in SendSteps \cup {"wait"} => task[t].pc \in SendSteps \cup {"wait"},
           pc \in SendSteps => task[t].pc \in SendSteps,
           pc \in HasConn => task[t].pc \in HasConn
    PROVE  task' \in [Task -> Job] /\ TasksShaped'
<1>0. task \in [Task -> Job] /\ TasksShaped
  BY DEF Types
<1>1. task' \in [Task -> Job] /\ OnlyTask(t) /\ Moves(t, pc)
  BY <1>0, GotoEffect
<1>2. Shaped(task[t])
  BY <1>0 DEF TasksShaped
<1>3. Shaped(task'[t])
  BY <1>1, <1>2 DEF Shaped, Moves
<1>. QED BY <1>0, <1>1, <1>3, ShapesKept

\* A task that takes up something else.
LEMMA SetTaskType ==
    ASSUME Types, NEW t \in Task, NEW j \in Job, Shaped(j), task' = [task EXCEPT ![t] = j]
    PROVE  task' \in [Task -> Job] /\ TasksShaped'
<1>0. task \in [Task -> Job] /\ TasksShaped
  BY DEF Types
<1>1. task' \in [Task -> Job] /\ OnlyTask(t) /\ task'[t] = j
  BY <1>0, SetTaskEffect
<1>2. Shaped(task'[t])
  BY <1>1
<1>. QED BY <1>0, <1>1, <1>2, ShapesKept

\* The local answer.
LEMMA RejectType ==
    ASSUME Types, NEW t \in Task, task[t].pc # "idle", RejectLocally(t)
    PROVE  task' \in [Task -> Job] /\ TasksShaped' /\ OutOK' /\ rejections' \subseteq Invite
<1>1. task[t].req \in Request
  BY DEF Types, TasksShaped, Shaped
<1>2. OutOK'
  BY <1>1, RelayType DEF RejectLocally, Types
<1>3. task' \in [Task -> Job] /\ TasksShaped'
  BY NoJobFacts, SetTaskType DEF RejectLocally
<1>4. rejections' \subseteq Invite
  BY <1>1, RequestFacts DEF RejectLocally, Types
<1>. QED BY <1>2, <1>3, <1>4

\* The round robin over the handlers stays within them.
LEMMA HandlerIsWorker ==
    ASSUME Types, NEW offset \in Nat
    PROVE  HandlerAt(offset) \in Worker
<1>1. nextHandler + offset \in Nat
  BY Bounds DEF Types
<1>2. \A n \in Nat : n % Handlers \in 0..Handlers - 1
  BY Bounds
<1>. QED BY <1>1, <1>2, Bounds DEF HandlerAt

\* A step that sets one field of a connection.
LEMMA ConnKept ==
    ASSUME conn \in [Conn -> Connection], NEW c \in Conn
    PROVE  /\ conn' = [conn EXCEPT ![c].alive = FALSE] => conn' \in [Conn -> Connection]
           /\ conn' = [conn EXCEPT ![c].garbled = TRUE] => conn' \in [Conn -> Connection]
           /\ conn' = [conn EXCEPT ![c].sock = "closed"] => conn' \in [Conn -> Connection]
           /\ conn' = [conn EXCEPT ![c].sock = "unread"] => conn' \in [Conn -> Connection]
           /\ conn' = [conn EXCEPT ![c].cleared = TRUE] => conn' \in [Conn -> Connection]
<1>1. /\ [conn[c] EXCEPT !.alive = FALSE] \in Connection /\ [conn[c] EXCEPT !.garbled = TRUE] \in Connection
      /\ [conn[c] EXCEPT !.sock = "closed"] \in Connection /\ [conn[c] EXCEPT !.sock = "unread"] \in Connection
      /\ [conn[c] EXCEPT !.cleared = TRUE] \in Connection
  BY DEF Connection
<1>. QED BY <1>1


\* What a step leaves alone keeps its type.
LEMMA TypesKept ==
    ASSUME Types
    PROVE  (task' = task => TasksShaped') /\ (UNCHANGED out => OutOK')
BY DEF Types, TasksShaped, Shaped, OutOK, out, NoJob, Doing

\* Every step keeps the types.
LEMMA TypeStep ==
    ASSUME Types, [Next]_vars
    PROVE  Types'
<1>0. /\ queue \in [Task -> Seq(Request)] /\ task \in [Task -> Job] /\ inbox \in [Task -> Seq(Answer)]
      /\ pool \in 0..MaxConn /\ conn \in [Conn -> Connection]
      /\ routes \in [Conn -> [Branch -> Task \cup {NoTask}]] /\ nextBranch \in 1..MaxBranch + 1
      /\ received \subseteq [conn : Conn, branch : Branch, req : Request, rang : BOOLEAN]
      /\ final \in [Request -> Request \cup {NoRequest}] /\ cached \subseteq Request
      /\ inviteTx \in [Invite -> 0..MaxBranch] /\ rejections \subseteq Invite
      /\ \A t \in Task : task[t] \in Job /\ Shaped(task[t])
  BY DEF Types, TasksShaped
<1>1. ASSUME NEW r \in Request, ReceiveUdp(r) PROVE Types'
  <2>1. sends' \in [Request -> 0..MaxSends]
    BY <1>1, Bounds DEF ReceiveUdp, ClientMaySend, Types
  <2>2. ASSUME NEW offset \in Worker, HasRoom(HandlerAt(offset)),
               queue' = [queue EXCEPT ![HandlerAt(offset)] = Append(@, r)],
               nextHandler' = HandlerAt(offset + 1)
        PROVE  queue' \in [Task -> Seq(Request)] /\ nextHandler' \in Worker
                 /\ \A w \in Worker : Len(queue'[w]) <= QueueSize
    <3>1. offset \in Nat /\ offset + 1 \in Nat
      BY Bounds
    <3>2. HandlerAt(offset) \in Worker /\ HandlerAt(offset + 1) \in Worker
      BY <3>1, HandlerIsWorker
    <3>. DEFINE h == HandlerAt(offset)
    <3>3. h \in Worker /\ h \in Task /\ Len(queue[h]) < QueueSize
      BY <2>2, <3>2 DEF Task, HasRoom
    <3>. HIDE DEF h
    <3>4. queue' = [queue EXCEPT ![h] = Append(queue[h], r)]
      BY <2>2 DEF h
    <3>5. queue[h] \in Seq(Request) /\ Append(queue[h], r) \in Seq(Request)
          /\ Len(Append(queue[h], r)) = Len(queue[h]) + 1 /\ Len(queue[h]) \in Nat
      BY <1>0, <3>3
    <3>6. \A w \in Worker : w \in Task /\ Len(queue[w]) <= QueueSize
      BY DEF Types, Task
    <3>7. ASSUME NEW w \in Worker PROVE Len(queue'[w]) <= QueueSize
      <4>1. w \in Task /\ Len(queue[w]) <= QueueSize
        BY <3>6
      <4>2. CASE w = h
        BY <1>0, <3>3, <3>4, <3>5, <4>1, <4>2, Bounds
      <4>3. CASE w # h
        BY <1>0, <3>3, <3>4, <4>1, <4>3
      <4>. QED BY <4>2, <4>3
    <3>8. queue' \in [Task -> Seq(Request)]
      BY <1>0, <3>3, <3>4, <3>5
    <3>. QED BY <2>2, <3>2, <3>7, <3>8
  <2>3. CASE \E w \in Worker : HasRoom(w)
    <3>1. queue' \in [Task -> Seq(Request)] /\ nextHandler' \in Worker
            /\ \A w \in Worker : Len(queue'[w]) <= QueueSize
      BY <1>1, <2>2, <2>3 DEF ReceiveUdp
    <3>. QED BY <1>1, <2>1, <3>1, TypesKept DEF ReceiveUdp, Types, sockets, clients, bounds
  <2>4. CASE ~\E w \in Worker : HasRoom(w)
    <3>1. nextHandler' \in Worker /\ queue' = queue
      BY <1>1, <2>4, HandlerIsWorker DEF ReceiveUdp
    <3>. QED BY <1>1, <2>1, <3>1, TypesKept DEF ReceiveUdp, Types, sockets, clients, bounds
  <2>. QED BY <2>3, <2>4
<1>2. ASSUME NEW r \in Request, ReceiveTcp(r) PROVE Types'
  <2>1. sends' \in [Request -> 0..MaxSends]
    BY <1>2, Bounds DEF ReceiveTcp, ClientMaySend, Types
  <2>2. r.txn \in Task /\ r.txn \in Client
    BY <1>2, RequestFacts DEF ReceiveTcp, OverTcp
  <2>3. queue' = [queue EXCEPT ![r.txn] = Append(queue[r.txn], r)]
    BY <1>2 DEF ReceiveTcp
  <2>4. queue[r.txn] \in Seq(Request) /\ Append(queue[r.txn], r) \in Seq(Request)
    BY <1>0, <2>2
  <2>5. queue' \in [Task -> Seq(Request)]
    BY <1>0, <2>3, <2>4
  <2>6. \A w \in Worker : Len(queue'[w]) <= QueueSize
    <3>1. ASSUME NEW w \in Worker PROVE w \in Task /\ w # r.txn /\ Len(queue[w]) <= QueueSize
      BY <2>2 DEF Task, Client, Types
    <3>. QED BY <1>0, <2>2, <2>3, <3>1
  <2>. QED BY <1>2, <2>1, <2>5, <2>6, TypesKept DEF ReceiveTcp, Types, sockets, clients, bounds
<1>3. ASSUME NEW t \in Task, Take(t) PROVE Types'
  <2>. DEFINE r == NextMessage(t)
  <2>1. r \in Request /\ Tail(queue[t]) \in Seq(Request) /\ Len(Tail(queue[t])) = Len(queue[t]) - 1
    BY <1>0, <1>3 DEF Take, NextMessage
  <2>2. queue' = [queue EXCEPT ![t] = Tail(queue[t])]
    BY <1>3 DEF Take
  <2>3. queue' \in [Task -> Seq(Request)] /\ \A w \in Worker : Len(queue'[w]) <= QueueSize
    <3>1. queue' \in [Task -> Seq(Request)]
      BY <1>0, <2>1, <2>2
    <3>2. ASSUME NEW w \in Worker PROVE Len(queue'[w]) <= QueueSize
      <4>1. w \in Task /\ Len(queue[w]) <= QueueSize /\ Len(queue[w]) \in Nat
        BY <1>0 DEF Types, Task
      <4>. QED BY <1>0, <2>1, <2>2, <4>1, Bounds
    <3>. QED BY <3>1, <3>2
  <2>4. ASSUME task' \in [Task -> Job], TasksShaped', OutOK', rejections' \subseteq Invite,
               nextBranch' \in 1..MaxBranch + 1, faults' \in 0..MaxFaults, pruned' = pruned,
               UNCHANGED <<cached, final, inviteTx>>
        PROVE  Types'
    BY <1>3, <2>3, <2>4 DEF Take, Types, sockets
  <2>5. CASE /\ ConsumesRejection(r)
             /\ rejections' = rejections \ {r.txn}
             /\ UNCHANGED <<task, cached, final, inviteTx, nextBranch, out, bounds>>
    BY <1>0, <2>4, <2>5, TypesKept DEF Types, bounds
  <2>6. CASE /\ Fault /\ task' = [task EXCEPT ![t] = Doing("reject", r, 0, 0, 0)] /\ UNCHANGED <<clients, out>>
    <3>1. Doing("reject", r, 0, 0, 0) \in Job /\ Shaped(Doing("reject", r, 0, 0, 0))
      BY <2>1, Bounds DEF Doing, Job, Shaped, SendSteps, HasConn
    <3>2. task' \in [Task -> Job] /\ TasksShaped'
      BY <2>6, <3>1, SetTaskType
    <3>3. UNCHANGED <<rejections, nextBranch, cached, final, inviteTx>> /\ UNCHANGED out
      BY <2>6 DEF clients
    <3>. QED BY <1>0, <2>4, <2>6, <3>2, <3>3, TypesKept, FaultType
  <2>7. CASE /\ Absorbs(r) /\ UNCHANGED <<task, clients, bounds>>
             /\ IF final[r] # NoRequest THEN Relay(r, final[r], TRUE) ELSE SendTrying(r)
    <3>1. OutOK'
      BY <1>0, <2>1, <2>7, RelayType DEF Types
    <3>. QED BY <1>0, <2>4, <2>7, <3>1, TypesKept DEF Types, clients, bounds
  <2>8. CASE /\ ~Absorbs(r)
             /\ FollowsInvite(r) \/ nextBranch <= MaxBranch
             /\ nextBranch' = IF FollowsInvite(r) THEN nextBranch ELSE nextBranch + 1
             /\ task' = [task EXCEPT ![t] =
                           Doing("get", r, IF FollowsInvite(r) THEN inviteTx[r.txn] ELSE nextBranch, 0, 1)]
             /\ SendTrying(r)
             /\ UNCHANGED <<cached, final, inviteTx, rejections, bounds>>
    <3>. DEFINE b == IF FollowsInvite(r) THEN inviteTx[r.txn] ELSE nextBranch
    <3>1. b \in Branch
      <4>1. CASE FollowsInvite(r)
        BY <1>0, <2>1, <4>1, RequestFacts, Bounds DEF FollowsInvite, Branch
      <4>2. CASE ~FollowsInvite(r)
        BY <1>0, <2>8, <4>2, Bounds DEF Branch
      <4>. QED BY <4>1, <4>2
    <3>. HIDE DEF b
    <3>2. Doing("get", r, b, 0, 1) \in Job /\ Shaped(Doing("get", r, b, 0, 1))
      BY <2>1, <3>1, Bounds DEF Doing, Job, Shaped, SendSteps, HasConn, Branch
    <3>3. task' \in [Task -> Job] /\ TasksShaped'
      BY <2>8, <3>2, SetTaskType DEF b
    <3>4. nextBranch' \in 1..MaxBranch + 1
      BY <1>0, <2>8, Bounds
    <3>5. OutOK'
      BY <2>1, <2>8, RelayType DEF Types
    <3>. QED BY <1>0, <2>4, <2>8, <3>3, <3>4, <3>5 DEF Types, bounds
  <2>. QED BY <1>3, <2>5, <2>6, <2>7, <2>8 DEF Take
<1>4. ASSUME NEW t \in Task, GetConnection(t) PROVE Types'
  <2>. DEFINE j == task[t]
            d == Doing("check", j.req, j.branch, pool, j.attempt)
  <2>1. CASE pool # 0 /\ task' = [task EXCEPT ![t] = d]
    <3>1. d \in Job /\ Shaped(d)
      BY <1>0, <1>4, <2>1, Bounds DEF GetConnection, Doing, Job, Shaped, SendSteps, HasConn, Conn
    <3>. HIDE DEF d
    <3>2. task' \in [Task -> Job] /\ TasksShaped'
      BY <2>1, <3>1, SetTaskType
    <3>. QED BY <1>4, <3>2, TypesKept DEF GetConnection, Types, sockets, clients, bounds
  <2>2. CASE Goto(t, "connect")
    <3>1. task' \in [Task -> Job] /\ TasksShaped'
      BY <1>4, <2>2, GotoType DEF GetConnection, Pc, SendSteps, HasConn
    <3>. QED BY <1>4, <3>1, TypesKept DEF GetConnection, Types, sockets, clients, bounds
  <2>. QED BY <1>4, <2>1, <2>2 DEF GetConnection
<1>5. ASSUME NEW t \in Task, Connect(t) PROVE Types'
  <2>. DEFINE j == task[t]
  <2>1. PICK c \in Conn : /\ conn' = [conn EXCEPT ![c] = Connected]
                          /\ task' = [task EXCEPT ![t] = Doing("pool", j.req, j.branch, c, j.attempt)]
    BY <1>5 DEF Connect
  <2>. DEFINE d == Doing("pool", j.req, j.branch, c, j.attempt)
  <2>2. d \in Job /\ Shaped(d)
    BY <1>0, <1>5, Bounds DEF Connect, Doing, Job, Shaped, SendSteps, HasConn, Conn
  <2>3. task' = [task EXCEPT ![t] = d]
    BY <2>1
  <2>. HIDE DEF d
  <2>4. task' \in [Task -> Job] /\ TasksShaped'
    BY <2>2, <2>3, SetTaskType
  <2>5. conn' \in [Conn -> Connection]
    BY <1>0, <2>1 DEF Connected, Connection
  <2>. QED BY <1>5, <2>4, <2>5, TypesKept DEF Connect, Types, clients, bounds
<1>6. ASSUME NEW t \in Task, ConnectFails(t) PROVE Types'
  <2>1. task' \in [Task -> Job] /\ TasksShaped'
    BY <1>6, GotoType DEF ConnectFails, Pc, SendSteps, HasConn
  <2>2. faults' \in 0..MaxFaults /\ pruned' \in BOOLEAN
    BY <1>6, FaultType DEF ConnectFails, Types, bounds
  <2>. QED BY <1>6, <2>1, <2>2, TypesKept DEF ConnectFails, Types, sockets, clients
<1>7. ASSUME NEW t \in Task, PoolInsert(t) PROVE Types'
  <2>1. task' \in [Task -> Job] /\ TasksShaped'
    BY <1>7, GotoType DEF PoolInsert, Pc, SendSteps, HasConn
  <2>2. pool' \in 0..MaxConn
    BY <1>0, <1>7 DEF PoolInsert, Job
  <2>. QED BY <1>7, <2>1, <2>2, TypesKept DEF PoolInsert, Types, clients, bounds
<1>8. ASSUME NEW t \in Task, CheckAlive(t) PROVE Types'
  <2>1. Goto(t, "insert") \/ Goto(t, "evict")
    BY <1>8 DEF CheckAlive
  <2>2. task' \in [Task -> Job] /\ TasksShaped'
    BY <1>8, <2>1, GotoType DEF CheckAlive, Pc, SendSteps, HasConn
  <2>. QED BY <1>8, <2>2, TypesKept DEF CheckAlive, Types, sockets, clients, bounds
<1>9. ASSUME NEW t \in Task, InsertRoute(t) PROVE Types'
  <2>1. task' \in [Task -> Job] /\ TasksShaped'
    BY <1>9, GotoType DEF InsertRoute, Pc, SendSteps, HasConn
  <2>2. task[t].conn \in Conn /\ task[t].branch \in Branch
    BY <1>0, <1>9 DEF InsertRoute, Shaped, SendSteps, HasConn
  <2>3. routes' \in [Conn -> [Branch -> Task \cup {NoTask}]]
    BY <1>0, <1>9, <2>2, WithRouteType DEF InsertRoute
  <2>4. inbox' \in [Task -> Seq(Answer)]
    BY <1>0, <1>9 DEF InsertRoute
  <2>. QED BY <1>9, <2>1, <2>3, <2>4, TypesKept DEF InsertRoute, Types, clients, bounds
<1>10. ASSUME NEW t \in Task, Write(t) PROVE Types'
  <2>1. task' \in [Task -> Job] /\ TasksShaped'
    BY <1>10, GotoType DEF Write, Pc, SendSteps, HasConn
  <2>2. task[t].conn \in Conn /\ task[t].branch \in Branch /\ task[t].req \in Request
    BY <1>0, <1>10 DEF Write, Shaped, SendSteps, HasConn
  <2>3. received' \subseteq [conn : Conn, branch : Branch, req : Request, rang : BOOLEAN]
    <3>. DEFINE f == [conn |-> task[t].conn, branch |-> task[t].branch, req |-> task[t].req, rang |-> FALSE]
    <3>1. f \in [conn : Conn, branch : Branch, req : Request, rang : BOOLEAN]
      BY <2>2
    <3>2. received' \subseteq received \cup {f}
      BY <1>10 DEF Write
    <3>. HIDE DEF f
    <3>. QED BY <1>0, <3>1, <3>2
  <2>. QED BY <1>10, <2>1, <2>3, TypesKept DEF Write, Types, clients, bounds
<1>11. ASSUME NEW t \in Task, WriteFails(t) PROVE Types'
  <2>1. task' \in [Task -> Job] /\ TasksShaped'
    BY <1>11, GotoType DEF WriteFails, Pc, SendSteps, HasConn
  <2>2. task[t].conn \in Conn /\ task[t].branch \in Branch
    BY <1>0, <1>11 DEF WriteFails, Shaped, SendSteps, HasConn
  <2>3. routes' \in [Conn -> [Branch -> Task \cup {NoTask}]]
    BY <1>0, <1>11, <2>2, WithRouteType DEF WriteFails
  <2>4. conn' \in [Conn -> Connection]
    BY <1>0, <1>11, <2>2, ConnKept DEF WriteFails
  <2>. QED BY <1>11, <2>1, <2>3, <2>4, TypesKept DEF WriteFails, Types, clients, bounds
<1>12. ASSUME NEW t \in Task, WriteTimesOut(t) PROVE Types'
  <2>1. task' \in [Task -> Job] /\ TasksShaped'
    BY <1>12, GotoType DEF WriteTimesOut, Pc, SendSteps, HasConn
  <2>2. task[t].conn \in Conn
    BY <1>0, <1>12 DEF WriteTimesOut, Shaped, SendSteps, HasConn
  <2>3. conn' \in [Conn -> Connection]
    BY <1>0, <1>12, <2>2, ConnKept DEF WriteTimesOut
  <2>. QED BY <1>12, <2>1, <2>3, TypesKept, FaultType DEF WriteTimesOut, Types, clients
<1>13. ASSUME NEW t \in Task, Evict(t) PROVE Types'
  <2>. DEFINE d == NextAttempt(task[t])
  <2>1. d \in Job /\ Shaped(d)
    BY <1>0, <1>13, Bounds DEF Evict, NextAttempt, Doing, Job, Shaped, SendSteps, HasConn
  <2>2. task' = [task EXCEPT ![t] = d]
    BY <1>13 DEF Evict
  <2>. HIDE DEF d
  <2>3. task' \in [Task -> Job] /\ TasksShaped'
    BY <2>1, <2>2, SetTaskType
  <2>4. pool' \in 0..MaxConn
    BY <1>0, <1>13, Bounds DEF Evict
  <2>. QED BY <1>13, <2>3, <2>4, TypesKept DEF Evict, Types, clients, bounds
<1>14. ASSUME NEW t \in Task, SendFailed(t) PROVE Types'
  <2>1. task' \in [Task -> Job] /\ TasksShaped' /\ OutOK' /\ rejections' \subseteq Invite
    BY <1>14, RejectType DEF SendFailed
  <2>. QED BY <1>14, <2>1 DEF SendFailed, Types, sockets, bounds
<1>15. ASSUME NEW t \in Task, Record(t) PROVE Types'
  <2>1. task' \in [Task -> Job] /\ TasksShaped'
    BY <1>15, GotoType DEF Record, Pc, SendSteps, HasConn
  <2>2. task[t].req \in Request /\ task[t].branch \in 0..MaxBranch
    BY <1>0, <1>15 DEF Record, Shaped, Job
  <2>3. cached' \subseteq Request /\ final' \in [Request -> Request \cup {NoRequest}]
    BY <1>0, <1>15, <2>2 DEF Record
  <2>4. inviteTx' \in [Invite -> 0..MaxBranch]
    BY <1>0, <1>15, <2>2, RequestFacts DEF Record
  <2>. QED BY <1>15, <2>1, <2>3, <2>4, TypesKept DEF Record, Types, sockets, bounds
<1>16. ASSUME NEW t \in Task, Reject(t) PROVE Types'
  <2>1. task' \in [Task -> Job] /\ TasksShaped' /\ OutOK' /\ rejections' \subseteq Invite
    BY <1>16, RejectType DEF Reject
  <2>. QED BY <1>16, <2>1 DEF Reject, Types, sockets, bounds
<1>17. ASSUME NEW t \in Task, RelayResponse(t) PROVE Types'
  <2>. DEFINE answer == Head(inbox[t])
  <2>1. answer \in Answer /\ Tail(inbox[t]) \in Seq(Answer) /\ task[t].req \in Request
    BY <1>0, <1>17 DEF RelayResponse, Shaped
  <2>2. answer.req \in Request /\ answer.isFinal \in BOOLEAN
    BY <2>1 DEF Answer
  <2>. HIDE DEF answer
  <2>3. inbox' \in [Task -> Seq(Answer)]
    BY <1>0, <1>17, <2>1 DEF RelayResponse
  <2>4. final' \in [Request -> Request \cup {NoRequest}]
    BY <1>0, <1>17, <2>1, <2>2 DEF RelayResponse, answer
  <2>5. OutOK'
    <3>1. Relay(task[t].req, answer.req, answer.isFinal)
      BY <1>17 DEF RelayResponse, answer
    <3>. QED BY <2>1, <2>2, <3>1, RelayType DEF Types
  <2>6. task' = task \/ task' = [task EXCEPT ![t] = NoJob]
    BY <1>17 DEF RelayResponse
  <2>7. task' \in [Task -> Job] /\ TasksShaped'
    BY <1>0, <2>6, NoJobFacts, SetTaskType, TypesKept
  <2>. QED BY <1>17, <2>3, <2>4, <2>5, <2>7 DEF RelayResponse, Types, sockets, bounds
<1>18. ASSUME NEW t \in Task, ChannelClosed(t) PROVE Types'
  <2>1. task' \in [Task -> Job] /\ TasksShaped'
    BY <1>18, GotoType DEF ChannelClosed, Pc, SendSteps, HasConn
  <2>. QED BY <1>18, <2>1, TypesKept DEF ChannelClosed, Types, sockets, clients, bounds
<1>19. ASSUME NEW t \in Task, ResponseTimesOut(t) PROVE Types'
  <2>1. task' \in [Task -> Job] /\ TasksShaped'
    BY <1>19, GotoType DEF ResponseTimesOut, Pc, SendSteps, HasConn
  <2>. QED BY <1>19, <2>1, TypesKept DEF ResponseTimesOut, Types, sockets, clients, bounds
<1>20. ASSUME NEW f \in received, NEW isFinal \in BOOLEAN, Dispatch(f, isFinal) PROVE Types'
  <2>1. f \in [conn : Conn, branch : Branch, req : Request, rang : BOOLEAN]
    BY <1>0
  <2>2. f.conn \in Conn /\ f.branch \in Branch /\ f.req \in Request
        /\ [f EXCEPT !.rang = TRUE] \in [conn : Conn, branch : Branch, req : Request, rang : BOOLEAN]
    BY <2>1
  <2>3. received' \subseteq [conn : Conn, branch : Branch, req : Request, rang : BOOLEAN]
    BY <1>0, <1>20, <2>2 DEF Dispatch
  <2>4. routes' \in [Conn -> [Branch -> Task \cup {NoTask}]]
    BY <1>0, <1>20, <2>2, WithRouteType DEF Dispatch
  <2>. DEFINE u == routes[f.conn][f.branch]
              a == [req |-> f.req, isFinal |-> isFinal]
  <2>5. u \in Task \cup {NoTask} /\ a \in Answer
    BY <1>0, <2>2 DEF Answer
  <2>6. inbox' = inbox \/ (u \in Task /\ inbox' = [inbox EXCEPT ![u] = Append(inbox[u], a)])
    BY <1>20, <2>5 DEF Dispatch
  <2>. HIDE DEF u, a
  <2>7. ASSUME u \in Task PROVE Append(inbox[u], a) \in Seq(Answer)
    BY <1>0, <2>5, <2>7
  <2>8. inbox' \in [Task -> Seq(Answer)]
    BY <1>0, <2>6, <2>7
  <2>. QED BY <1>20, <2>3, <2>4, <2>8, TypesKept DEF Dispatch, Types, clients, bounds
<1>21. ASSUME NEW c \in Conn, UpstreamCloses(c) PROVE Types'
  <2>1. conn' \in [Conn -> Connection]
    BY <1>0, <1>21, ConnKept DEF UpstreamCloses
  <2>2. received' \subseteq received
    BY <1>21 DEF UpstreamCloses
  <2>. QED BY <1>0, <1>21, <2>1, <2>2, TypesKept, FaultType DEF UpstreamCloses, Types, clients
<1>22. ASSUME NEW c \in Conn, ReaderEnds(c) PROVE Types'
  <2>1. conn' \in [Conn -> Connection]
    BY <1>0, <1>22, ConnKept DEF ReaderEnds
  <2>2. routes' \in [Conn -> [Branch -> Task \cup {NoTask}]]
    <3>1. [b \in Branch |-> NoTask] \in [Branch -> Task \cup {NoTask}]
      OBVIOUS
    <3>2. routes' = routes \/ routes' = [routes EXCEPT ![c] = [b \in Branch |-> NoTask]]
      BY <1>22 DEF ReaderEnds
    <3>. QED BY <1>0, <3>1, <3>2
  <2>. QED BY <1>22, <2>1, <2>2, TypesKept DEF ReaderEnds, Types, clients, bounds
<1>23. ASSUME NEW c \in Conn, NEW b \in Branch, PruneRoute(c, b) PROVE Types'
  <2>1. routes' \in [Conn -> [Branch -> Task \cup {NoTask}]]
    BY <1>0, <1>23, WithRouteType DEF PruneRoute
  <2>. QED BY <1>23, <2>1, TypesKept, FaultType DEF PruneRoute, Types, clients
<1>25. ASSUME NEW c \in Conn, ReaderFails(c) PROVE Types'
  <2>1. conn' \in [Conn -> Connection]
    BY <1>0, <1>25, ConnKept DEF ReaderFails
  <2>. QED BY <1>0, <1>25, <2>1, TypesKept, FaultType DEF ReaderFails, Types, clients
<1>24. CASE UNCHANGED vars
  BY <1>24, TypesKept DEF vars, Types, sockets, clients, bounds
<1>. QED
  BY <1>1, <1>2, <1>3, <1>4, <1>5, <1>6, <1>7, <1>8, <1>9, <1>10, <1>11, <1>12, <1>13, <1>14,
     <1>15, <1>16, <1>17, <1>18, <1>19, <1>20, <1>21, <1>22, <1>23, <1>24, <1>25 DEF Next, TaskStep

\* The initial state has the types.
LEMMA TypeInit == Init => Types
<1>. SUFFICES ASSUME Init PROVE Types
  OBVIOUS
<1>1. TasksShaped
  BY NoJobFacts DEF Init, TasksShaped
<1>2. nextHandler \in Worker
  BY Bounds DEF Init
<1>3. OutOK
  BY DEF Init, OutOK
<1>4. queue \in [Task -> Seq(Request)] /\ inbox \in [Task -> Seq(Answer)] /\ \A w \in Worker : Len(queue[w]) <= QueueSize
  BY Bounds DEF Init, Task
<1>5. conn \in [Conn -> Connection] /\ task \in [Task -> Job]
  BY NoJobFacts DEF Init, NoConnection, Connection
<1>6. routes \in [Conn -> [Branch -> Task \cup {NoTask}]]
  BY DEF Init
<1>7. inviteTx \in [Invite -> 0..MaxBranch] /\ sends \in [Request -> 0..MaxSends]
      /\ final \in [Request -> Request \cup {NoRequest}]
  BY Bounds DEF Init
<1>8. /\ pool = 0 /\ nextBranch = 1 /\ faults = 0 /\ pruned = FALSE
      /\ received = {} /\ cached = {} /\ rejections = {}
  BY DEF Init
<1>9. /\ 0 \in 0..MaxConn /\ 1 \in 1..MaxBranch + 1 /\ 0 \in 0..MaxFaults
  BY Bounds
<1>10. /\ pool \in 0..MaxConn /\ nextBranch \in 1..MaxBranch + 1 /\ faults \in 0..MaxFaults /\ pruned \in BOOLEAN
       /\ received \subseteq [conn : Conn, branch : Branch, req : Request, rang : BOOLEAN]
       /\ cached \subseteq Request /\ rejections \subseteq Invite
  BY <1>8, <1>9, Zenon
<1>. QED BY <1>1, <1>2, <1>3, <1>4, <1>5, <1>6, <1>7, <1>10 DEF Types

\* Type correctness of the way to a TCP upstream: in particular the queues of the workers
\* never grow past queue_size_per_worker, and a task that sends always has a request, a
\* branch and, once get_or_connect has given it one, a connection.
THEOREM TypeCorrect == Spec => []TypeInv
<1>1. Types => TypeInv
  BY TypesAre
<1>. QED BY <1>1, TypeInit, TypeStep, PTL DEF Spec

-----------------------------------------------------------------------------
(* What a step changes *)


\* A task other than the one that acts does not move, and one that acts gets on with its
\* request, lets go of it, refuses the next one, or begins to send it.
Refused(t) ==
    /\ Take(t) /\ task'[t] = Doing("reject", NextMessage(t), 0, 0, 0)
    /\ UNCHANGED nextBranch
Begun(t) ==
    LET r == NextMessage(t) IN
    /\ Take(t) /\ ~Absorbs(r)
    /\ FollowsInvite(r) \/ nextBranch <= MaxBranch
    /\ nextBranch' = IF FollowsInvite(r) THEN nextBranch ELSE nextBranch + 1
    /\ task'[t] = Doing("get", r, IF FollowsInvite(r) THEN inviteTx[r.txn] ELSE nextBranch, 0, 1)
Written == {"record", "wait", "reject"}
Advanced(t) ==
    /\ task[t].pc # "idle" /\ task'[t].pc # "idle"
    /\ task'[t].req = task[t].req /\ task'[t].branch = task[t].branch
    /\ task[t].pc \in Written => task'[t].pc \in Written
    /\ task'[t].pc = "write" => InsertRoute(t)
    /\ task'[t].pc = "record" => Write(t)
    /\ task'[t].pc = "wait" => Record(t)
    /\ task'[t].pc = "evict" => CheckAlive(t) \/ WriteFails(t) \/ WriteTimesOut(t)
    /\ task'[t].pc \in {"write", "record", "wait"} => task'[t].conn = task[t].conn
    /\ task'[t].pc \in HasConn => \/ task[t].pc \in HasConn /\ task'[t].conn = task[t].conn
                                  \/ task'[t].conn = pool /\ pool \in Conn /\ conn[pool].alive
                                  \/ task'[t].conn \in Conn /\ conn'[task'[t].conn].sock = "open"
Still(t) == task'[t] = task[t] \/ task'[t] = NoJob \/ Refused(t) \/ Begun(t) \/ Advanced(t)

\* A step of the program only goes on with the request.
LEMMA GotoAdvances ==
    ASSUME Types, NEW t \in Task, NEW pc \in Pc, Goto(t, pc), task[t].pc # "idle", pc # "idle",
           task[t].pc \in Written => pc \in Written,
           pc = "write" => InsertRoute(t), pc = "record" => Write(t), pc = "wait" => Record(t),
           pc = "evict" => CheckAlive(t) \/ WriteFails(t) \/ WriteTimesOut(t),
           pc \in HasConn => task[t].pc \in HasConn
    PROVE  \A u \in Task : Still(u)
<1>0. task \in [Task -> Job]
  BY DEF Types
<1>1. OnlyTask(t) /\ Moves(t, pc)
  BY <1>0, GotoEffect
<1>2. Advanced(t)
  BY <1>1 DEF Moves, Advanced
<1>. QED BY <1>1, <1>2 DEF Still, OnlyTask

\* A task that takes up something else.
LEMMA SetTaskAdvances ==
    ASSUME Types, NEW t \in Task, NEW j \in Job, task' = [task EXCEPT ![t] = j],
           task'[t] = j => Still(t)
    PROVE  \A u \in Task : Still(u)
<1>0. task \in [Task -> Job]
  BY DEF Types
<1>1. OnlyTask(t) /\ task'[t] = j
  BY <1>0, SetTaskEffect
<1>. QED BY <1>1 DEF Still, OnlyTask

\* So it is with every step.
LEMMA TaskMoves ==
    ASSUME Types, [Next]_vars
    PROVE  \A t \in Task : Still(t)
<1>0. /\ task \in [Task -> Job] /\ conn \in [Conn -> Connection] /\ pool \in 0..MaxConn
      /\ queue \in [Task -> Seq(Request)] /\ inviteTx \in [Invite -> 0..MaxBranch]
      /\ nextBranch \in 1..MaxBranch + 1
      /\ \A t \in Task : task[t] \in Job /\ Shaped(task[t])
  BY DEF Types, TasksShaped
<1>. DEFINE Goal == \A t \in Task : Still(t)
<1>1. task' = task => Goal
  BY DEF Still
<1>2. ASSUME NEW t \in Task, Take(t) PROVE Goal
  <2>. DEFINE r == NextMessage(t)
  <2>0. r \in Request
    BY <1>0, <1>2 DEF Take, NextMessage
  <2>1. CASE Fault /\ task' = [task EXCEPT ![t] = Doing("reject", r, 0, 0, 0)] /\ UNCHANGED <<clients, out>>
    <3>1. Doing("reject", r, 0, 0, 0) \in Job
      BY <2>0, Bounds DEF Doing, Job, SendSteps
    <3>. DEFINE j == Doing("reject", r, 0, 0, 0)
    <3>2. task'[t] = j => Still(t)
      BY <1>2, <2>1 DEF Still, Refused, clients
    <3>. HIDE DEF j
    <3>3. j \in Job /\ task' = [task EXCEPT ![t] = j]
      BY <2>1, <3>1 DEF j
    <3>. QED BY <3>2, <3>3, SetTaskAdvances
  <2>2. CASE /\ ~Absorbs(r)
             /\ FollowsInvite(r) \/ nextBranch <= MaxBranch
             /\ nextBranch' = IF FollowsInvite(r) THEN nextBranch ELSE nextBranch + 1
             /\ task' = [task EXCEPT ![t] =
                           Doing("get", r, IF FollowsInvite(r) THEN inviteTx[r.txn] ELSE nextBranch, 0, 1)]
    <3>. DEFINE j == Doing("get", r, IF FollowsInvite(r) THEN inviteTx[r.txn] ELSE nextBranch, 0, 1)
    <3>1. j \in Job
      <4>1. CASE FollowsInvite(r)
        BY <1>0, <2>0, <4>1, RequestFacts, Bounds DEF FollowsInvite, Doing, Job, SendSteps
      <4>2. CASE ~FollowsInvite(r)
        BY <1>0, <2>0, <2>2, <4>2, Bounds DEF Doing, Job, SendSteps
      <4>. QED BY <4>1, <4>2
    <3>2. task'[t] = j => Still(t)
      BY <1>2, <2>2 DEF Still, Begun
    <3>3. task' = [task EXCEPT ![t] = j]
      BY <2>2
    <3>. HIDE DEF j
    <3>. QED BY <3>1, <3>2, <3>3, SetTaskAdvances
  <2>. QED BY <1>1, <1>2, <2>1, <2>2 DEF Take
<1>3. ASSUME NEW t \in Task, GetConnection(t) PROVE Goal
  <2>. DEFINE j == Doing("check", task[t].req, task[t].branch, pool, task[t].attempt)
  <2>1. CASE pool # 0 /\ conn[pool].alive /\ task' = [task EXCEPT ![t] = j]
    <3>1. j \in Job
      BY <1>0, Bounds DEF Doing, Job, SendSteps, GetConnection
    <3>2. /\ j.pc = "check" /\ j.req = task[t].req /\ j.branch = task[t].branch /\ j.conn = pool
      BY DEF Doing
    <3>. HIDE DEF j
    <3>3. pool \in Conn /\ task[t].pc = "get"
      BY <1>0, <1>3, <2>1, Bounds DEF Conn, GetConnection
    <3>4. task'[t] = j => Advanced(t)
      BY <2>1, <3>2, <3>3 DEF Advanced, Written
    <3>. QED BY <2>1, <3>1, <3>4, SetTaskAdvances DEF Still
  <2>2. CASE Goto(t, "connect")
    BY <1>3, <2>2, GotoAdvances DEF GetConnection, Pc, SendSteps, HasConn, Written
  <2>. QED BY <1>3, <2>1, <2>2 DEF GetConnection
<1>4. ASSUME NEW t \in Task, Connect(t) PROVE Goal
  <2>1. PICK c \in Conn : /\ conn' = [conn EXCEPT ![c] = Connected]
                          /\ task' = [task EXCEPT ![t] = Doing("pool", task[t].req, task[t].branch, c, task[t].attempt)]
    BY <1>4 DEF Connect
  <2>. DEFINE j == Doing("pool", task[t].req, task[t].branch, c, task[t].attempt)
  <2>2. j \in Job
    BY <1>0, Bounds DEF Doing, Job, SendSteps, Conn
  <2>3. /\ j.pc = "pool" /\ j.req = task[t].req /\ j.branch = task[t].branch /\ j.conn = c
    BY DEF Doing
  <2>4. task' = [task EXCEPT ![t] = j]
    BY <2>1
  <2>. HIDE DEF j
  <2>5. conn'[c].sock = "open" /\ task[t].pc = "connect"
    BY <1>0, <1>4, <2>1 DEF Connected, Connect
  <2>6. task'[t] = j => Advanced(t)
    BY <2>3, <2>5 DEF Advanced, Written
  <2>. QED BY <2>2, <2>4, <2>6, SetTaskAdvances DEF Still
<1>5. ASSUME NEW t \in Task, ConnectFails(t) PROVE Goal
  BY <1>5, GotoAdvances DEF ConnectFails, Pc, SendSteps, HasConn, Written
<1>6. ASSUME NEW t \in Task, PoolInsert(t) PROVE Goal
  BY <1>6, GotoAdvances DEF PoolInsert, Pc, SendSteps, HasConn, Written
<1>7. ASSUME NEW t \in Task, CheckAlive(t) PROVE Goal
  <2>1. Goto(t, "insert") \/ Goto(t, "evict")
    BY <1>7 DEF CheckAlive
  <2>. QED BY <1>7, <2>1, GotoAdvances DEF CheckAlive, Pc, SendSteps, HasConn, Written
<1>8. ASSUME NEW t \in Task, InsertRoute(t) PROVE Goal
  <2>1. Goto(t, "write") /\ task[t].pc = "insert"
    BY <1>8 DEF InsertRoute
  <2>. QED BY <1>8, <2>1, GotoAdvances DEF Pc, SendSteps, HasConn, Written
<1>9. ASSUME NEW t \in Task, Write(t) PROVE Goal
  <2>1. Goto(t, "record") /\ task[t].pc = "write"
    BY <1>9 DEF Write
  <2>. QED BY <1>9, <2>1, GotoAdvances DEF Pc, SendSteps, HasConn, Written
<1>10. ASSUME NEW t \in Task, WriteFails(t) \/ WriteTimesOut(t) PROVE Goal
  <2>1. Goto(t, "evict") /\ task[t].pc = "write"
    BY <1>10 DEF WriteFails, WriteTimesOut
  <2>. QED BY <1>10, <2>1, GotoAdvances DEF Pc, SendSteps, HasConn, Written
<1>11. ASSUME NEW t \in Task, Evict(t) PROVE Goal
  <2>. DEFINE j == NextAttempt(task[t])
  <2>1. task[t].pc = "evict" /\ task[t].attempt \in 1..2
    BY <1>0, <1>11 DEF Evict, Shaped, SendSteps
  <2>2. j \in Job
    BY <1>0, <2>1 DEF NextAttempt, Doing, Job, SendSteps
  <2>3. j.pc \in {"failed", "get"} /\ j.req = task[t].req /\ j.branch = task[t].branch
    BY DEF NextAttempt, Doing
  <2>4. task' = [task EXCEPT ![t] = j]
    BY <1>11 DEF Evict
  <2>. HIDE DEF j
  <2>5. task'[t] = j => Advanced(t)
    BY <2>1, <2>3 DEF Advanced, Written, HasConn
  <2>. QED BY <2>2, <2>4, <2>5, SetTaskAdvances DEF Still
<1>12. ASSUME NEW t \in Task, SendFailed(t) \/ Reject(t) \/ RelayResponse(t) PROVE Goal
  <2>1. task' = task \/ task' = [task EXCEPT ![t] = NoJob]
    BY <1>12 DEF SendFailed, Reject, RelayResponse, RejectLocally
  <2>. QED BY <1>1, <2>1, NoJobFacts, SetTaskAdvances DEF Still
<1>13. ASSUME NEW t \in Task, Record(t) PROVE Goal
  <2>1. Goto(t, "wait") /\ task[t].pc = "record"
    BY <1>13 DEF Record
  <2>. QED BY <1>13, <2>1, GotoAdvances DEF Pc, SendSteps, HasConn, Written
<1>14. ASSUME NEW t \in Task, ChannelClosed(t) \/ ResponseTimesOut(t) PROVE Goal
  <2>1. Goto(t, "reject") /\ task[t].pc = "wait"
    BY <1>14 DEF ChannelClosed, ResponseTimesOut
  <2>. QED BY <2>1, GotoAdvances DEF Pc, SendSteps, HasConn, Written
<1>15. ASSUME \/ \E r \in Request : ReceiveUdp(r) \/ ReceiveTcp(r)
              \/ \E f \in received, isFinal \in BOOLEAN : Dispatch(f, isFinal)
              \/ \E c \in Conn : UpstreamCloses(c) \/ ReaderFails(c) \/ ReaderEnds(c)
              \/ \E c \in Conn, b \in Branch : PruneRoute(c, b)
              \/ UNCHANGED vars
       PROVE  Goal
  <2>1. task' = task
    BY <1>15 DEF ReceiveUdp, ReceiveTcp, Dispatch, UpstreamCloses, ReaderFails, ReaderEnds, PruneRoute, vars
  <2>. QED BY <1>1, <2>1
<1>. HIDE DEF Goal
<1>16. Goal
  BY <1>2, <1>3, <1>4, <1>5, <1>6, <1>7, <1>8, <1>9, <1>10, <1>11, <1>12, <1>13, <1>14, <1>15
     DEF Next, TaskStep
<1>. QED BY <1>16 DEF Goal

Sent(r) == sends[r] > 0
\* Requests are only sent again, and a request that has been followed stays so.
LEMMA SendsGrow ==
    ASSUME Types, [Next]_vars
    PROVE  /\ \A r \in Request : Sent(r) => Sent(r)'
           /\ \A r : Followed(r) => Followed(r)'
<1>0. sends \in [Request -> 0..MaxSends] /\ sends' \in [Request -> 0..MaxSends]
  BY TypeStep DEF Types
<1>1. sends' = sends \/ \E r \in Request : sends' = [sends EXCEPT ![r] = @ + 1]
  BY DEF Next, TaskStep, ReceiveUdp, ReceiveTcp, Take, GetConnection, Connect, ConnectFails, PoolInsert,
         CheckAlive, InsertRoute, Write, WriteFails, WriteTimesOut, Evict, SendFailed, Record, Reject,
         RelayResponse, ChannelClosed, ResponseTimesOut, Dispatch, UpstreamCloses, ReaderFails, ReaderEnds, PruneRoute, vars
<1>2. \A r \in Request : sends[r] > 0 => sends'[r] > 0
  BY <1>0, <1>1, Bounds
<1>. QED BY <1>2 DEF Sent, Followed

\* A prune is not forgotten.
LEMMA PrunedStays ==
    ASSUME [Next]_vars
    PROVE  pruned => pruned'
BY DEF Next, TaskStep, ReceiveUdp, ReceiveTcp, Take, GetConnection, Connect, ConnectFails, PoolInsert,
       CheckAlive, InsertRoute, Write, WriteFails, WriteTimesOut, Evict, SendFailed, Record, Reject,
       RelayResponse, ChannelClosed, ResponseTimesOut, Dispatch, UpstreamCloses, ReaderFails, ReaderEnds, PruneRoute,
       Fault, bounds, vars

Message(t, rang) == [conn |-> task[t].conn, branch |-> task[t].branch, req |-> task[t].req, rang |-> rang]
\* What the upstream has got, it had, or has rung for, or a task has just written it.
LEMMA ReceivedStep ==
    ASSUME [Next]_vars, NEW f \in received'
    PROVE  \/ f \in received
           \/ \E t \in Task : Write(t) /\ f = Message(t, FALSE)
           \/ \E g \in received : Dispatch(g, FALSE) /\ f = [g EXCEPT !.rang = TRUE]
BY ZenonT(60) DEF Next, TaskStep, ReceiveUdp, ReceiveTcp, Take, GetConnection, Connect, ConnectFails, PoolInsert,
       CheckAlive, InsertRoute, Write, WriteFails, WriteTimesOut, Evict, SendFailed, Record, Reject,
       RelayResponse, ChannelClosed, ResponseTimesOut, Dispatch, UpstreamCloses, ReaderFails, ReaderEnds, PruneRoute,
       sockets, vars, Message

\* The pool changes hands in two places.
LEMMA PoolStep ==
    ASSUME [Next]_vars
    PROVE  pool' = pool \/ \E t \in Task : PoolInsert(t) \/ Evict(t)
BY DEF Next, TaskStep, ReceiveUdp, ReceiveTcp, Take, GetConnection, Connect, ConnectFails, PoolInsert,
       CheckAlive, InsertRoute, Write, WriteFails, WriteTimesOut, Evict, SendFailed, Record, Reject,
       RelayResponse, ChannelClosed, ResponseTimesOut, Dispatch, UpstreamCloses, ReaderFails, ReaderEnds, PruneRoute,
       sockets, vars

\* remember_successful_forward is the only writer of the INVITE transactions.
LEMMA InviteStep ==
    ASSUME [Next]_vars
    PROVE  \/ inviteTx' = inviteTx
           \/ \E t \in Task : Record(t) /\ inviteTx' = [inviteTx EXCEPT ![task[t].req.txn] = task[t].branch]
BY ZenonT(60) DEF Next, TaskStep, ReceiveUdp, ReceiveTcp, Take, GetConnection, Connect, ConnectFails, PoolInsert,
       CheckAlive, InsertRoute, Write, WriteFails, WriteTimesOut, Evict, SendFailed, Record, Reject,
       RelayResponse, ChannelClosed, ResponseTimesOut, Dispatch, UpstreamCloses, ReaderFails, ReaderEnds, PruneRoute,
       clients, vars

\* A branch is used up by a task that begins to send.
LEMMA BranchStep ==
    ASSUME Types, [Next]_vars
    PROVE  \/ nextBranch' = nextBranch
           \/ \E t \in Task : Begun(t) /\ ~FollowsInvite(NextMessage(t)) /\ nextBranch' = nextBranch + 1
<1>1. nextBranch' = nextBranch \/ \E t \in Task : Take(t)
  BY DEF Next, TaskStep, ReceiveUdp, ReceiveTcp, GetConnection, Connect, ConnectFails, PoolInsert,
         CheckAlive, InsertRoute, Write, WriteFails, WriteTimesOut, Evict, SendFailed, Record, Reject,
         RelayResponse, ChannelClosed, ResponseTimesOut, Dispatch, UpstreamCloses, ReaderFails, ReaderEnds, PruneRoute,
         clients, vars
<1>2. ASSUME NEW t \in Task, Take(t), nextBranch' # nextBranch
      PROVE  Begun(t) /\ ~FollowsInvite(NextMessage(t)) /\ nextBranch' = nextBranch + 1
  <2>. DEFINE r == NextMessage(t)
  <2>1. /\ ~Absorbs(r)
        /\ FollowsInvite(r) \/ nextBranch <= MaxBranch
        /\ nextBranch' = IF FollowsInvite(r) THEN nextBranch ELSE nextBranch + 1
        /\ task' = [task EXCEPT ![t] =
                       Doing("get", r, IF FollowsInvite(r) THEN inviteTx[r.txn] ELSE nextBranch, 0, 1)]
    BY <1>2 DEF Take, clients
  <2>2. task \in [Task -> Job]
    BY DEF Types
  <2>. QED BY <1>2, <2>1, <2>2 DEF Begun
<1>. QED BY <1>1, <1>2

\* A socket is opened once, and only an open one becomes alive.
LEMMA SockStep ==
    ASSUME Types, [Next]_vars, NEW c \in Conn
    PROVE  /\ \/ conn'[c].sock = conn[c].sock
              \/ conn[c].sock = "none" /\ conn'[c].sock = "open"
              \/ conn'[c].sock \in {"unread", "closed"}
           /\ conn'[c].alive => conn[c].alive \/ conn'[c].sock = "open"
           /\ Works(c)' => Works(c) \/ conn[c].sock = "none"
<1>0. conn \in [Conn -> Connection] /\ \A t \in Task : Shaped(task[t])
  BY DEF Types, TasksShaped
<1>1. CASE conn' = conn
  BY <1>1 DEF Works
<1>2. ASSUME NEW t \in Task, Connect(t)
      PROVE  \/ conn'[c] = conn[c]
             \/ conn[c].sock = "none" /\ conn'[c].sock = "open"
  BY <1>0, <1>2 DEF Connect, Connected
<1>3. ASSUME NEW t \in Task, WriteFails(t) \/ WriteTimesOut(t)
      PROVE  /\ conn'[c].sock = conn[c].sock /\ (conn'[c].alive => conn[c].alive)
             /\ conn[c].garbled => conn'[c].garbled
  BY <1>0, <1>3 DEF WriteFails, WriteTimesOut, Connection
<1>4. ASSUME NEW d \in Conn, UpstreamCloses(d) \/ ReaderFails(d)
      PROVE  \/ conn'[c] = conn[c]
             \/ conn'[c].sock \in {"unread", "closed"} /\ conn'[c].alive = conn[c].alive
  BY <1>0, <1>4 DEF UpstreamCloses, ReaderFails, Connection
<1>5. ASSUME NEW d \in Conn, ReaderEnds(d)
      PROVE  /\ conn'[c].sock = conn[c].sock /\ (conn'[c].alive => conn[c].alive)
             /\ conn'[c].garbled = conn[c].garbled
  BY <1>0, <1>5 DEF ReaderEnds, Connection
<1>6. \/ conn' = conn \/ \E t \in Task : Connect(t) \/ WriteFails(t) \/ WriteTimesOut(t)
      \/ \E d \in Conn : UpstreamCloses(d) \/ ReaderFails(d) \/ ReaderEnds(d)
  BY DEF Next, TaskStep, ReceiveUdp, ReceiveTcp, Take, GetConnection, ConnectFails, PoolInsert,
         CheckAlive, InsertRoute, Write, Evict, SendFailed, Record, Reject,
         RelayResponse, ChannelClosed, ResponseTimesOut, Dispatch, PruneRoute,
         sockets, vars
<1>. QED BY <1>1, <1>2, <1>3, <1>4, <1>5, <1>6 DEF Works

Answered(f) == Dispatch(f, TRUE)
\* What can happen to a channel in the map.
LEMMA RouteStep ==
    ASSUME Types, [Next]_vars, NEW c \in Conn, NEW b \in Branch
    PROVE  \/ routes'[c][b] = routes[c][b]
           \/ \E t \in Task : /\ InsertRoute(t) \/ WriteFails(t)
                              /\ task[t].conn = c /\ task[t].branch = b
           \/ \E f \in received : Answered(f) /\ f.conn = c /\ f.branch = b
           \/ conn[c].sock # "open"
           \/ pruned'
<1>0. /\ routes \in [Conn -> [Branch -> Task \cup {NoTask}]] /\ \A t \in Task : Shaped(task[t])
      /\ received \subseteq [conn : Conn, branch : Branch, req : Request, rang : BOOLEAN]
  BY DEF Types, TasksShaped
<1>1. CASE routes' = routes
  BY <1>1
<1>2. ASSUME NEW t \in Task, InsertRoute(t) \/ WriteFails(t)
      PROVE  routes'[c][b] = routes[c][b] \/ (task[t].conn = c /\ task[t].branch = b)
  <2>1. task[t].conn \in Conn /\ task[t].branch \in Branch
    BY <1>0, <1>2 DEF InsertRoute, WriteFails, Shaped, SendSteps, HasConn
  <2>. QED BY <1>0, <1>2, <2>1, WithRouteType DEF InsertRoute, WriteFails
<1>3. ASSUME NEW f \in received, Answered(f)
      PROVE  routes'[c][b] = routes[c][b] \/ (f.conn = c /\ f.branch = b)
  <2>1. f.conn \in Conn /\ f.branch \in Branch
    BY <1>0
  <2>. QED BY <1>0, <1>3, <2>1, WithRouteType DEF Answered, Dispatch, TakesChannel
<1>4. ASSUME NEW d \in Conn, ReaderEnds(d)
      PROVE  routes'[c][b] = routes[c][b] \/ conn[c].sock # "open"
  BY <1>0, <1>4 DEF ReaderEnds
<1>5. \/ routes' = routes
      \/ \E t \in Task : InsertRoute(t) \/ WriteFails(t)
      \/ \E f \in received : Answered(f)
      \/ \E d \in Conn : ReaderEnds(d)
      \/ pruned'
  BY DEF Next, TaskStep, ReceiveUdp, ReceiveTcp, Take, GetConnection, Connect, ConnectFails, PoolInsert,
         CheckAlive, Write, WriteTimesOut, Evict, SendFailed, Record, Reject,
         RelayResponse, ChannelClosed, ResponseTimesOut, Answered, Dispatch, TakesChannel, UpstreamCloses, ReaderFails, PruneRoute,
         sockets, vars
<1>. QED BY <1>1, <1>2, <1>3, <1>4, <1>5

-----------------------------------------------------------------------------
(* What is handled has been sent *)

\* Nothing is in a queue, with a task or with the upstream that a client has not sent.
QueuedSent == \A t \in Task : \A i \in 1..Len(queue[t]) : Sent(queue[t][i])
HandledSent == \A t \in Task : task[t].pc # "idle" => Sent(task[t].req)
ReceivedSent == \A f \in received : Sent(f.req)
AllSent == QueuedSent /\ HandledSent /\ ReceivedSent

\* A packet in a queue was there, or has just been sent.
LEMMA QueueStep ==
    ASSUME Types, [Next]_vars, NEW t \in Task, NEW i \in 1..Len(queue'[t])
    PROVE  \/ \E k \in 1..Len(queue[t]) : queue'[t][i] = queue[t][k]
           \/ sends'[queue'[t][i]] > 0
<1>0. queue \in [Task -> Seq(Request)] /\ sends \in [Request -> 0..MaxSends]
  BY DEF Types
<1>1. ASSUME NEW u \in Task, NEW r \in Request, queue' = [queue EXCEPT ![u] = Append(@, r)],
             sends' = [sends EXCEPT ![r] = @ + 1]
      PROVE  \/ \E k \in 1..Len(queue[t]) : queue'[t][i] = queue[t][k]
             \/ sends'[queue'[t][i]] > 0
  <2>1. CASE t = u
    <3>1. queue[t] \in Seq(Request) /\ queue'[t] = Append(queue[t], r)
      BY <1>0, <1>1, <2>1
    <3>2. i \in 1..Len(queue[t]) \/ i = Len(queue[t]) + 1
      BY <3>1
    <3>3. i \in 1..Len(queue[t]) => queue'[t][i] = queue[t][i]
      BY <3>1
    <3>4. i = Len(queue[t]) + 1 => queue'[t][i] = r
      BY <3>1
    <3>5. sends'[r] > 0
      BY <1>0, <1>1
    <3>. QED BY <3>2, <3>3, <3>4, <3>5
  <2>2. CASE t # u
    BY <1>0, <1>1, <2>2
  <2>. QED BY <2>1, <2>2
<1>2. ASSUME NEW u \in Task, Take(u)
      PROVE  \E k \in 1..Len(queue[t]) : queue'[t][i] = queue[t][k]
  <2>1. CASE t = u
    <3>1. queue[t] \in Seq(Request) /\ queue[t] # <<>> /\ queue'[t] = Tail(queue[t])
      BY <1>0, <1>2, <2>1 DEF Take
    <3>2. i + 1 \in 1..Len(queue[t]) /\ queue'[t][i] = queue[t][i + 1]
      BY <3>1
    <3>. QED BY <3>2
  <2>2. CASE t # u
    BY <1>0, <1>2, <2>2 DEF Take
  <2>. QED BY <2>1, <2>2
<1>3. ASSUME NEW r \in Request, ReceiveUdp(r)
      PROVE  \/ queue' = queue
             \/ \E u \in Task : queue' = [queue EXCEPT ![u] = Append(@, r)]
  <2>1. \A offset \in Worker : HandlerAt(offset) \in Task
    BY HandlerIsWorker, Bounds DEF Task
  <2>. QED BY <1>3, <2>1 DEF ReceiveUdp
<1>4. ASSUME NEW r \in Request, ReceiveTcp(r)
      PROVE  \E u \in Task : queue' = [queue EXCEPT ![u] = Append(@, r)]
  BY <1>4, RequestFacts DEF ReceiveTcp
<1>5. \/ queue' = queue \/ \E u \in Task : Take(u)
      \/ \E r \in Request : ReceiveUdp(r) \/ ReceiveTcp(r)
  BY DEF Next, TaskStep, GetConnection, Connect, ConnectFails, PoolInsert,
         CheckAlive, InsertRoute, Write, WriteFails, WriteTimesOut, Evict, SendFailed, Record, Reject,
         RelayResponse, ChannelClosed, ResponseTimesOut, Dispatch, UpstreamCloses, ReaderFails, ReaderEnds, PruneRoute, vars
<1>6. \A r \in Request : ReceiveUdp(r) \/ ReceiveTcp(r) => sends' = [sends EXCEPT ![r] = @ + 1]
  BY DEF ReceiveUdp, ReceiveTcp
<1>. QED BY <1>1, <1>2, <1>3, <1>4, <1>5, <1>6

\* The packet a task takes has been sent.
LEMMA NextIsSent ==
    ASSUME Types, QueuedSent, NEW t \in Task, Take(t)
    PROVE  NextMessage(t) \in Request /\ Sent(NextMessage(t))
<1>1. queue[t] \in Seq(Request) /\ queue[t] # <<>>
  BY DEF Types, Take
<1>2. 1 \in 1..Len(queue[t]) /\ NextMessage(t) = queue[t][1]
  BY <1>1 DEF NextMessage
<1>. QED BY <1>1, <1>2 DEF QueuedSent

\* Nothing comes from anywhere else.
LEMMA AllSentStep ==
    ASSUME Types, AllSent, [Next]_vars
    PROVE  AllSent'
<1>0. \A r \in Request : Sent(r) => Sent(r)'
  BY SendsGrow
<1>1. QueuedSent'
  <2>1. ASSUME NEW t \in Task, NEW i \in 1..Len(queue'[t]) PROVE sends'[queue'[t][i]] > 0
    <3>1. ASSUME NEW k \in 1..Len(queue[t]) PROVE queue[t][k] \in Request /\ Sent(queue[t][k])
      BY DEF Types, AllSent, QueuedSent
    <3>2. \A k \in 1..Len(queue[t]) : sends'[queue[t][k]] > 0
      BY <1>0, <3>1 DEF Sent
    <3>. QED BY <3>2, QueueStep
  <2>. QED BY <2>1 DEF QueuedSent, Sent
<1>2. HandledSent'
  <2>1. ASSUME NEW t \in Task, task'[t].pc # "idle" PROVE sends'[task'[t].req] > 0
    <3>0. task[t].pc # "idle" => task[t].req \in Request /\ Sent(task[t].req)
      BY DEF Types, TasksShaped, Shaped, AllSent, HandledSent
    <3>1. CASE task'[t] = task[t] \/ Advanced(t)
      BY <1>0, <2>1, <3>0, <3>1 DEF Advanced, Sent
    <3>2. CASE Refused(t) \/ Begun(t)
      <4>1. Take(t) /\ task'[t].req = NextMessage(t)
        BY <3>2 DEF Refused, Begun, Doing
      <4>. QED BY <1>0, <4>1, NextIsSent DEF AllSent, Sent
    <3>3. CASE task'[t] = NoJob
      BY <2>1, <3>3, NoJobFacts
    <3>. QED BY <3>1, <3>2, <3>3, TaskMoves DEF Still
  <2>. QED BY <2>1 DEF HandledSent, Sent
<1>3. ReceivedSent'
  <2>1. ASSUME NEW f \in received' PROVE sends'[f.req] > 0
    <3>1. CASE f \in received
      BY <1>0, <3>1 DEF Types, AllSent, ReceivedSent, Sent
    <3>2. ASSUME NEW t \in Task, Write(t), f = Message(t, FALSE) PROVE sends'[f.req] > 0
      <4>1. f.req = task[t].req /\ task[t].pc = "write"
        BY <3>2 DEF Write, Message
      <4>2. task[t].req \in Request /\ Sent(task[t].req)
        BY <4>1 DEF Types, TasksShaped, Shaped, AllSent, HandledSent
      <4>. QED BY <1>0, <4>1, <4>2 DEF Sent
    <3>3. ASSUME NEW g \in received, f = [g EXCEPT !.rang = TRUE] PROVE sends'[f.req] > 0
      <4>1. g.req \in Request /\ Sent(g.req)
        BY DEF Types, AllSent, ReceivedSent
      <4>2. f.req = g.req
        BY <3>3 DEF Types
      <4>. QED BY <1>0, <4>1, <4>2 DEF Sent
    <3>. QED BY <3>1, <3>2, <3>3, ReceivedStep
  <2>. QED BY <2>1 DEF ReceivedSent, Sent
<1>. QED BY <1>1, <1>2, <1>3 DEF AllSent

-----------------------------------------------------------------------------
(* Whose a branch is *)

\* A branch belongs to a transaction: a task sends under it, the upstream has a request
\* under it, or CANCELs and ACKs will be sent under it.
TaskUses(b, x) == \E t \in Task : task[t].branch = b /\ task[t].req.txn = x
WireUses(b, x) == \E f \in received : f.branch = b /\ f.req.txn = x
Uses(b, x) == TaskUses(b, x) \/ WireUses(b, x) \/ (x \in Invite /\ inviteTx[x] = b)

\* Branches in use have been generated, and belong to one transaction each.
GivenOut == \A b \in Branch, x \in Txn : Uses(b, x) => b < nextBranch
OneOwner == \A b \in Branch, x \in Txn, y \in Txn : Uses(b, x) /\ Uses(b, y) => x = y
BranchInv == GivenOut /\ OneOwner

\* A task with a branch has a request.
LEMMA BranchHasRequest ==
    ASSUME Types, NEW t \in Task
    PROVE  /\ task[t].branch \in 0..MaxBranch
           /\ task[t].branch # 0 => /\ task[t].branch \in Branch /\ task[t].pc # "idle"
                                    /\ task[t].req \in Request /\ task[t].req.txn \in Txn
                                    /\ Uses(task[t].branch, task[t].req.txn)
<1>1. task[t].branch \in 0..MaxBranch /\ Shaped(task[t])
  BY DEF Types, TasksShaped, Job
<1>2. task[t].branch # 0 => task[t].pc # "idle"
  BY <1>1, NoJobFacts DEF Shaped
<1>3. task[t].branch # 0 => task[t].req \in Request /\ task[t].req.txn \in Txn
  BY <1>1, <1>2, RequestFacts DEF Shaped
<1>4. Uses(task[t].branch, task[t].req.txn)
  BY DEF Uses, TaskUses
<1>. QED BY <1>1, <1>2, <1>3, <1>4, Bounds DEF Branch

\* A transaction comes by a branch only as the next one generated.
LEMMA UsesStep ==
    ASSUME Types, [Next]_vars, NEW b \in Branch, NEW x \in Txn, Uses(b, x)'
    PROVE  \/ Uses(b, x)
           \/ \E t \in Task : /\ Begun(t) /\ x = NextMessage(t).txn
                              /\ b = nextBranch /\ nextBranch' = nextBranch + 1
<1>0. b # 0 /\ \A t \in Task : task[t].pc # "idle" => task[t].req \in Request
  BY Bounds DEF Branch, Types, TasksShaped, Shaped
<1>1. ASSUME NEW t \in Task, task'[t].branch = b, task'[t].req.txn = x
      PROVE  \/ Uses(b, x)
             \/ Begun(t) /\ x = NextMessage(t).txn /\ b = nextBranch /\ nextBranch' = nextBranch + 1
  <2>1. CASE task'[t] = task[t] \/ Advanced(t)
    BY <1>1, <2>1 DEF Advanced, Uses, TaskUses
  <2>2. CASE task'[t] = NoJob
    BY <1>0, <1>1, <2>2, NoJobFacts
  <2>3. CASE Refused(t)
    BY <1>0, <1>1, <2>3 DEF Refused, Doing
  <2>4. CASE Begun(t)
    <3>. DEFINE r == NextMessage(t)
    <3>1. x = r.txn /\ b = IF FollowsInvite(r) THEN inviteTx[r.txn] ELSE nextBranch
      BY <1>1, <2>4 DEF Begun, Doing
    <3>2. CASE FollowsInvite(r)
      <4>1. r \in Request
        BY <2>4 DEF Begun, Take, NextMessage, Types
      <4>2. r.txn \in Invite
        BY <3>2, <4>1, RequestFacts DEF FollowsInvite
      <4>. QED BY <3>1, <3>2, <4>2 DEF Uses
    <3>3. CASE ~FollowsInvite(r)
      BY <2>4, <3>1, <3>3 DEF Begun
    <3>. QED BY <3>2, <3>3
  <2>. QED BY <2>1, <2>2, <2>3, <2>4, TaskMoves DEF Still
<1>2. ASSUME NEW f \in received', f.branch = b, f.req.txn = x PROVE Uses(b, x)
  <2>1. CASE f \in received
    BY <1>2, <2>1 DEF Uses, WireUses
  <2>2. ASSUME NEW t \in Task, f = Message(t, FALSE) PROVE Uses(b, x)
    BY <1>2, <2>2 DEF Message, Uses, TaskUses
  <2>3. ASSUME NEW g \in received, f = [g EXCEPT !.rang = TRUE] PROVE Uses(b, x)
    <3>1. f.branch = g.branch /\ f.req = g.req
      BY <2>3 DEF Types
    <3>. QED BY <1>2, <3>1 DEF Uses, WireUses
  <2>. QED BY <2>1, <2>2, <2>3, ReceivedStep
<1>3. ASSUME x \in Invite, inviteTx'[x] = b PROVE Uses(b, x)
  <2>1. CASE inviteTx' = inviteTx
    BY <1>3, <2>1 DEF Uses
  <2>2. ASSUME NEW t \in Task, inviteTx' = [inviteTx EXCEPT ![task[t].req.txn] = task[t].branch]
        PROVE  Uses(b, x)
    BY <1>3, <2>2 DEF Uses, TaskUses, Types
  <2>. QED BY <2>1, <2>2, InviteStep
<1>. QED BY <1>1, <1>2, <1>3 DEF Uses, TaskUses, WireUses

\* One task at a time takes a packet.
LEMMA OneTakes ==
    ASSUME Types, NEW t \in Task, NEW u \in Task, Take(t), Take(u)
    PROVE  t = u
<1>0. queue \in [Task -> Seq(Request)]
  BY DEF Types
<1>1. SUFFICES ASSUME t # u PROVE FALSE
  OBVIOUS
<1>2. queue'[t] = Tail(queue[t]) /\ queue[t] # <<>>
  BY <1>0 DEF Take
<1>3. queue'[t] = queue[t]
  BY <1>0, <1>1 DEF Take
<1>4. Len(Tail(queue[t])) # Len(queue[t])
  BY <1>0, <1>2
<1>. QED BY <1>2, <1>3, <1>4

\* unique_id() gives each transaction its own branches.
LEMMA BranchInvStep ==
    ASSUME Types, BranchInv, [Next]_vars
    PROVE  BranchInv'
<1>0. nextBranch \in Nat /\ nextBranch' \in Nat /\ nextBranch' >= nextBranch
  BY BranchStep, Bounds DEF Types
<1>1. \A b \in Branch, x \in Txn : Uses(b, x) => b < nextBranch
  BY DEF BranchInv, GivenOut
<1>2. ASSUME NEW b \in Branch, NEW x \in Txn, Uses(b, x)' PROVE b < nextBranch'
  <2>1. Uses(b, x) \/ (b = nextBranch /\ nextBranch' = nextBranch + 1)
    BY <1>2, UsesStep
  <2>. QED BY <1>0, <1>1, <2>1 DEF Branch
<1>3. ASSUME NEW b \in Branch, NEW x \in Txn, NEW y \in Txn, Uses(b, x)', Uses(b, y)' PROVE x = y
  <2>1. CASE Uses(b, x) /\ Uses(b, y)
    BY <2>1 DEF BranchInv, OneOwner
  <2>2. CASE b = nextBranch
    <3>1. ~Uses(b, x) /\ ~Uses(b, y)
      BY <1>0, <1>1, <2>2
    <3>2. PICK t \in Task : Begun(t) /\ x = NextMessage(t).txn
      BY <1>3, <3>1, UsesStep
    <3>3. PICK u \in Task : Begun(u) /\ y = NextMessage(u).txn
      BY <1>3, <3>1, UsesStep
    <3>4. t = u
      BY <3>2, <3>3, OneTakes DEF Begun
    <3>. QED BY <3>2, <3>3, <3>4
  <2>. QED BY <1>3, <2>1, <2>2, UsesStep
<1>. QED BY <1>2, <1>3 DEF BranchInv, GivenOut, OneOwner

-----------------------------------------------------------------------------
(* The channel of a request that nothing has followed *)

\* The task of such a request is the only one with its branch, and until it has written
\* the request the upstream has nothing under that branch.
Unfollowed(t) == task[t].branch # 0 /\ ~Followed(task[t].req)
Alone == \A t \in Task : Unfollowed(t) =>
    /\ \A u \in Task \ {t} : task[u].branch # task[t].branch
    /\ task[t].pc \notin Written => \A f \in received : f.branch # task[t].branch
\* The upstream has such a request once.
OneReceived == \A f \in received, g \in received :
    f.conn = g.conn /\ f.branch = g.branch /\ ~Followed(f.req) => f = g
\* Connections in use have been opened.
Opened == /\ \A t \in Task : task[t].pc \in HasConn => conn[task[t].conn].sock # "none"
          /\ \A c \in Conn : conn[c].alive => conn[c].sock # "none"
\* Its channel is in the map from before the write on, as long as the answer can be read.
WriteReady(t) == task[t].pc = "write" /\ conn[task[t].conn].sock = "open" => HasRoute(t)
WaitReady(t) == task[t].pc \in {"record", "wait"} /\ conn[task[t].conn].sock = "open" =>
    \A f \in received : f.branch = task[t].branch /\ f.conn = task[t].conn => HasRoute(t)
RouteReady == ~pruned => \A t \in Task : Unfollowed(t) => WriteReady(t) /\ WaitReady(t)

RouteInv == /\ Types /\ AllSent /\ BranchInv /\ Alone /\ OneReceived /\ Opened /\ RouteReady

\* Whether a request has been followed depends on its transaction, and a CANCEL or ACK
\* that has been sent follows.
LEMMA FollowedFacts ==
    ASSUME NEW r \in Request, NEW q \in Request, r.txn = q.txn
    PROVE  /\ Followed(r) <=> Followed(q)
           /\ Sent(r) /\ r.method \in {"CANCEL", "ACK"} => Followed(q)
<1>1. r.method \in {"CANCEL", "ACK"} => r.method \in FollowUp
  BY DEF Request
<1>. QED BY <1>1 DEF Followed, Sent

\* A task whose request nothing has followed keeps its branch, or has just got a new one.
LEMMA UnfollowedStep ==
    ASSUME Types, AllSent, [Next]_vars, NEW t \in Task, Unfollowed(t)'
    PROVE  \/ /\ Unfollowed(t) /\ task'[t].branch = task[t].branch /\ task'[t].req = task[t].req
              /\ task'[t] = task[t] \/ Advanced(t)
           \/ Begun(t) /\ ~FollowsInvite(NextMessage(t)) /\ task'[t].branch = nextBranch /\ task'[t].pc = "get"
<1>1. CASE task'[t] = task[t] \/ Advanced(t)
  <2>1. task'[t].branch = task[t].branch /\ task'[t].req = task[t].req
    BY <1>1 DEF Advanced
  <2>2. Unfollowed(t)
    BY <2>1, SendsGrow DEF Unfollowed
  <2>. QED BY <1>1, <2>1, <2>2
<1>2. CASE task'[t] = NoJob \/ Refused(t)
  BY <1>2, NoJobFacts DEF Unfollowed, Refused, Doing
<1>3. CASE Begun(t)
  <2>. DEFINE r == NextMessage(t)
  <2>1. r \in Request /\ Sent(r)
    BY <1>3, NextIsSent DEF Begun, AllSent
  <2>2. task'[t].req = r /\ task'[t].pc = "get"
    BY <1>3 DEF Begun, Doing
  <2>3. FollowsInvite(r) => Followed(r)
    BY <2>1, FollowedFacts DEF FollowsInvite
  <2>4. ~FollowsInvite(r)
    BY <2>2, <2>3, SendsGrow DEF Unfollowed
  <2>. QED BY <1>3, <2>2, <2>4 DEF Begun, Doing
<1>. QED BY <1>1, <1>2, <1>3, TaskMoves DEF Still

\* Any task keeps its branch, drops it, gets the next one, or follows an INVITE.
LEMMA BranchMoves ==
    ASSUME Types, AllSent, [Next]_vars, NEW u \in Task
    PROVE  \/ task'[u].branch = task[u].branch \/ task'[u].branch = 0
           \/ Begun(u) /\ task'[u].branch = nextBranch
           \/ Begun(u) /\ \E r \in Request : /\ r.txn \in Invite /\ task'[u].branch = inviteTx[r.txn]
                                /\ Sent(r) /\ r.method \in {"CANCEL", "ACK"}
<1>1. CASE task'[u] = task[u] \/ Advanced(u)
  BY <1>1 DEF Advanced
<1>2. CASE task'[u] = NoJob \/ Refused(u)
  BY <1>2, NoJobFacts DEF Refused, Doing
<1>3. CASE Begun(u)
  <2>. DEFINE r == NextMessage(u)
  <2>1. r \in Request /\ Sent(r)
    BY <1>3, NextIsSent DEF Begun, AllSent
  <2>2. FollowsInvite(r) => r.txn \in Invite /\ r.method \in {"CANCEL", "ACK"}
    BY <2>1, RequestFacts DEF FollowsInvite
  <2>. QED BY <1>3, <2>1, <2>2 DEF Begun, Doing
<1>. QED BY <1>1, <1>2, <1>3, TaskMoves DEF Still

\* A task that takes a packet leaves what the upstream has got alone.
LEMMA TakeWritesNot ==
    ASSUME NEW t \in Task, Take(t)
    PROVE  received' = received /\ routes' = routes /\ conn' = conn
BY DEF Take, sockets

\* Another task comes by a branch in use only with a CANCEL or ACK.
LEMMA AloneStep ==
    ASSUME Types, AllSent, BranchInv, Alone, [Next]_vars
    PROVE  Alone'
<1>. SUFFICES ASSUME NEW t \in Task, Unfollowed(t)'
              PROVE  /\ \A u \in Task \ {t} : task'[u].branch # task'[t].branch
                     /\ task'[t].pc \notin Written => \A f \in received' : f.branch # task'[t].branch
  BY DEF Alone
<1>0. /\ nextBranch \in Nat \ {0}
      /\ \A b \in Branch, x \in Txn : Uses(b, x) => b < nextBranch
      /\ \A b \in Branch, x \in Txn, y \in Txn : Uses(b, x) /\ Uses(b, y) => x = y
  BY Bounds DEF Types, BranchInv, GivenOut, OneOwner
<1>1. ASSUME NEW u \in Task PROVE task[u].branch = 0 \/ (task[u].branch \in Branch /\ task[u].branch < nextBranch)
  BY <1>0, BranchHasRequest
<1>2. ASSUME NEW f \in received
      PROVE  /\ f.branch \in Branch /\ f.req \in Request /\ f.req.txn \in Txn
             /\ Uses(f.branch, f.req.txn) /\ f.branch < nextBranch
  <2>1. f.branch \in Branch /\ f.req \in Request /\ f.req.txn \in Txn
    BY RequestFacts DEF Types
  <2>2. Uses(f.branch, f.req.txn)
    BY DEF Uses, WireUses
  <2>. QED BY <1>0, <2>1, <2>2
<1>3. CASE Begun(t) /\ task'[t].branch = nextBranch /\ task'[t].pc = "get"
  <2>1. ASSUME NEW u \in Task \ {t} PROVE task'[u].branch # nextBranch
    <3>1. ~Take(u)
      BY <1>3, <2>1, OneTakes DEF Begun
    <3>2. task'[u].branch = task[u].branch \/ task'[u].branch = 0
      BY <3>1, BranchMoves DEF Begun
    <3>. QED BY <1>0, <1>1, <3>2 DEF Branch
  <2>2. ASSUME NEW f \in received' PROVE f.branch # nextBranch
    <3>2. f \in received
      BY <1>3, TakeWritesNot DEF Begun
    <3>. QED BY <1>0, <1>2, <3>2 DEF Branch
  <2>. QED BY <1>3, <2>1, <2>2
<1>4. CASE /\ Unfollowed(t) /\ task'[t].branch = task[t].branch /\ task'[t].req = task[t].req
           /\ task'[t] = task[t] \/ Advanced(t)
  <2>0. /\ task[t].branch \in Branch /\ task[t].req \in Request /\ task[t].req.txn \in Txn
        /\ Uses(task[t].branch, task[t].req.txn) /\ task[t].branch # 0 /\ ~Followed(task[t].req)
    BY <1>4, BranchHasRequest DEF Unfollowed
  <2>1. \A u \in Task \ {t} : task[u].branch # task[t].branch
    BY <1>4 DEF Alone
  <2>2. ASSUME NEW u \in Task \ {t} PROVE task'[u].branch # task[t].branch
    <3>1. CASE task'[u].branch = task[u].branch \/ task'[u].branch = 0
      BY <2>0, <2>1, <3>1
    <3>2. CASE task'[u].branch = nextBranch
      BY <1>0, <1>1, <2>0, <3>2
    <3>3. ASSUME NEW r \in Request, r.txn \in Invite, task'[u].branch = inviteTx[r.txn],
                 Sent(r), r.method \in {"CANCEL", "ACK"}, task'[u].branch = task[t].branch
          PROVE  FALSE
      <4>1. r.txn \in Txn /\ Uses(task[t].branch, r.txn)
        BY <3>3 DEF Txn, Uses
      <4>2. r.txn = task[t].req.txn
        BY <1>0, <2>0, <4>1
      <4>. QED BY <2>0, <3>3, <4>2, FollowedFacts
    <3>. QED BY <3>1, <3>2, <3>3, BranchMoves
  <2>3. ASSUME task'[t].pc \notin Written, NEW f \in received' PROVE f.branch # task[t].branch
    <3>1. task[t].pc \notin Written
      BY <1>4, <2>3 DEF Advanced
    <3>2. \A g \in received : g.branch # task[t].branch
      BY <1>4, <3>1 DEF Alone
    <3>3. ASSUME NEW u \in Task, Write(u), f = Message(u, FALSE) PROVE f.branch # task[t].branch
      <4>1. f.branch = task[u].branch /\ Goto(u, "record")
        BY <3>3 DEF Message, Write
      <4>2. task'[u].pc = "record"
        BY <4>1, GotoEffect DEF Types, Pc, SendSteps, Moves
      <4>3. u # t
        BY <2>3, <4>2 DEF Written
      <4>. QED BY <2>1, <4>1, <4>3
    <3>4. ASSUME NEW g \in received, f = [g EXCEPT !.rang = TRUE] PROVE f.branch # task[t].branch
      <4>1. f.branch = g.branch
        BY <3>4 DEF Types
      <4>. QED BY <3>2, <4>1
    <3>. QED BY <3>2, <3>3, <3>4, ReceivedStep
  <2>. QED BY <1>4, <2>2, <2>3
<1>. QED BY <1>3, <1>4, UnfollowedStep

\* A request of the upstream's under the branch of a task is of the same transaction.
LEMMA SameOwner ==
    ASSUME Types, BranchInv, NEW t \in Task, task[t].branch # 0, NEW f \in received,
           f.branch = task[t].branch
    PROVE  f.req \in Request /\ f.req.txn = task[t].req.txn /\ (Followed(f.req) <=> Followed(task[t].req))
<1>1. f.branch \in Branch /\ f.req \in Request /\ f.req.txn \in Txn
  BY RequestFacts DEF Types
<1>2. Uses(f.branch, f.req.txn)
  BY DEF Uses, WireUses
<1>3. /\ task[t].req \in Request /\ task[t].req.txn \in Txn /\ Uses(f.branch, task[t].req.txn)
  BY BranchHasRequest
<1>4. f.req.txn = task[t].req.txn
  BY <1>1, <1>2, <1>3 DEF BranchInv, OneOwner
<1>. QED BY <1>1, <1>3, <1>4, FollowedFacts

\* What a task writes is the only thing the upstream has under its branch.
LEMMA OneReceivedStep ==
    ASSUME Types, BranchInv, Alone, OneReceived, [Next]_vars
    PROVE  OneReceived'
<1>. SUFFICES ASSUME NEW f \in received', NEW g \in received', f.conn = g.conn, f.branch = g.branch,
                     ~Followed(f.req)'
              PROVE  f = g
  BY DEF OneReceived
<1>0. ~Followed(f.req)
  BY SendsGrow
<1>1. CASE f \in received /\ g \in received
  BY <1>0, <1>1 DEF OneReceived
<1>2. ASSUME NEW t \in Task, Write(t) PROVE f = g
  <2>1. /\ received' \subseteq received \cup {Message(t, FALSE)} /\ task[t].pc = "write"
    BY <1>2 DEF Write, Message
  <2>2. task[t].branch \in Branch /\ task[t].branch # 0
    BY <2>1, Bounds DEF Types, TasksShaped, Shaped, SendSteps, Branch
  <2>3. Message(t, FALSE).branch = task[t].branch /\ Message(t, FALSE).req = task[t].req
    BY DEF Message
  <2>4. ~Followed(task[t].req) => \A e \in received : e.branch # task[t].branch
    BY <2>1, <2>2 DEF Alone, Unfollowed, Written
  <2>5. CASE f = Message(t, FALSE) /\ g \in received
    BY <1>0, <2>3, <2>4, <2>5
  <2>6. CASE g = Message(t, FALSE) /\ f \in received
    <3>1. Followed(f.req) <=> Followed(task[t].req)
      BY <2>2, <2>3, <2>6, SameOwner
    <3>. QED BY <1>0, <2>3, <2>4, <2>6, <3>1
  <2>. QED BY <1>1, <2>1, <2>5, <2>6
<1>3. ASSUME NEW e \in received, Dispatch(e, FALSE) PROVE f = g
  <2>. DEFINE rung == [e EXCEPT !.rang = TRUE]
  <2>1. received' = (received \ {e}) \cup {rung}
    BY <1>3 DEF Dispatch
  <2>2. rung.conn = e.conn /\ rung.branch = e.branch /\ rung.req = e.req
    BY DEF Types
  <2>. HIDE DEF rung
  <2>3. CASE f = rung /\ g \in received \ {e}
    BY <1>0, <2>2, <2>3 DEF OneReceived
  <2>4. CASE g = rung /\ f \in received \ {e}
    BY <1>0, <2>2, <2>4 DEF OneReceived
  <2>. QED BY <1>1, <2>1, <2>3, <2>4
<1>. QED BY <1>1, <1>2, <1>3, ReceivedStep

\* A connection a task has was opened before.
LEMMA OpenedStep ==
    ASSUME Types, Opened, [Next]_vars
    PROVE  Opened'
<1>0. \A c \in Conn : conn[c].sock # "none" => conn'[c].sock # "none"
  BY SockStep
<1>1. ASSUME NEW c \in Conn, conn'[c].alive PROVE conn'[c].sock # "none"
  BY <1>0, <1>1, SockStep DEF Opened
<1>2. ASSUME NEW t \in Task, task'[t].pc \in HasConn PROVE conn'[task'[t].conn].sock # "none"
  <2>1. CASE task'[t] = task[t]
    BY <1>0, <1>2, <2>1 DEF Opened, Types, TasksShaped, Shaped
  <2>2. CASE Advanced(t)
    <3>1. task[t].pc \in HasConn => task[t].conn \in Conn /\ conn[task[t].conn].sock # "none"
      BY DEF Opened, Types, TasksShaped, Shaped
    <3>2. pool \in Conn /\ conn[pool].alive => conn[pool].sock # "none"
      BY DEF Opened
    <3>. QED BY <1>0, <1>2, <2>2, <3>1, <3>2 DEF Advanced
  <2>3. CASE task'[t] = NoJob \/ Refused(t) \/ Begun(t)
    BY <1>2, <2>3, NoJobFacts DEF Refused, Begun, Doing, HasConn
  <2>. QED BY <2>1, <2>2, <2>3, TaskMoves DEF Still
<1>. QED BY <1>1, <1>2 DEF Opened

\* An attempt that is about to evict holds a connection that does not work, and one
\* that does not work never works again.
EvictsBroken == \A t \in Task : task[t].pc = "evict" => ~Works(task[t].conn)
LEMMA EvictsBrokenStep ==
    ASSUME Types, Opened, EvictsBroken, [Next]_vars
    PROVE  EvictsBroken'
<1>0. task \in [Task -> Job] /\ conn \in [Conn -> Connection]
      /\ \A t \in Task : task[t].pc \in HasConn => task[t].conn \in Conn
  BY DEF Types, TasksShaped, Shaped
<1>. DEFINE Broken(c) == ~(conn'[c].sock = "open" /\ conn'[c].alive /\ ~conn'[c].garbled)
<1>. SUFFICES ASSUME NEW t \in Task, task'[t].pc = "evict" PROVE Broken(task'[t].conn)
  BY DEF EvictsBroken, Works
<1>1. CASE task'[t] = task[t]
  <2>1. task[t].conn \in Conn /\ conn[task[t].conn].sock # "none" /\ ~Works(task[t].conn)
    BY <1>0, <1>1 DEF Opened, EvictsBroken, HasConn
  <2>. QED BY <1>1, <2>1, SockStep DEF Works
<1>2. CASE CheckAlive(t) \/ WriteFails(t) \/ WriteTimesOut(t)
  <2>1. task[t].conn \in Conn /\ task'[t].conn = task[t].conn
    BY <1>0, <1>2, GotoEffect DEF CheckAlive, WriteFails, WriteTimesOut, HasConn, Pc, SendSteps, Moves
  <2>2. CASE CheckAlive(t)
    <3>1. conn[task[t].conn].alive => task'[t].pc = "insert"
      BY <1>0, <2>2, GotoEffect DEF CheckAlive, Pc, SendSteps, Moves
    <3>. QED BY <2>1, <2>2, <3>1 DEF CheckAlive, Works, sockets
  <2>3. CASE WriteFails(t) \/ WriteTimesOut(t)
    BY <1>0, <2>1, <2>3 DEF WriteFails, WriteTimesOut, Works, Connection
  <2>. QED BY <1>2, <2>2, <2>3
<1>3. CASE Advanced(t)
  BY <1>2, <1>3 DEF Advanced
<1>4. CASE task'[t] = NoJob \/ Refused(t) \/ Begun(t)
  BY <1>4, NoJobFacts DEF Refused, Begun, Doing
<1>. QED BY <1>1, <1>3, <1>4, TaskMoves DEF Still

\* A channel in the map stays there for the task that is alone with its branch, unless
\* the final answer takes it, a reader that has left its loop, the task's own write
\* that fails, or a prune.
LEMMA RouteKept ==
    ASSUME Types, Alone, [Next]_vars, NEW t \in Task, Unfollowed(t), HasRoute(t), ~pruned',
           task[t].pc \in {"write", "record", "wait"}, task'[t].pc \in {"write", "record", "wait"},
           task'[t].conn = task[t].conn, task'[t].branch = task[t].branch,
           conn[task[t].conn].sock = "open",
           \A f \in received : ~(Answered(f) /\ f.conn = task[t].conn /\ f.branch = task[t].branch)
    PROVE  HasRoute(t)'
<1>1. PICK c \in Conn, b \in Branch : c = task[t].conn /\ b = task[t].branch
  BY DEF Types, TasksShaped, Shaped, SendSteps, HasConn
<1>2. ASSUME NEW u \in Task, InsertRoute(u) \/ WriteFails(u), task[u].branch = b PROVE FALSE
  <2>1. u = t
    BY <1>1, <1>2 DEF Alone
  <2>2. WriteFails(t)
    BY <1>2, <2>1 DEF InsertRoute
  <2>3. task'[t].pc = "evict"
    BY <2>2, GotoEffect DEF WriteFails, Types, Pc, SendSteps, Moves
  <2>. QED BY <2>3
<1>3. conn[c].sock = "open" /\ \A f \in received : ~(Answered(f) /\ f.conn = c /\ f.branch = b)
  BY <1>1
<1>4. routes[c][b] = t /\ c # 0
  BY <1>1 DEF HasRoute
<1>5. task'[t].conn = c /\ task'[t].branch = b
  BY <1>1
<1>6. routes'[c][b] = routes[c][b]
  <2>1. \/ routes'[c][b] = routes[c][b]
        \/ \E u \in Task : /\ InsertRoute(u) \/ WriteFails(u)
                           /\ task[u].conn = c /\ task[u].branch = b
        \/ \E f \in received : Answered(f) /\ f.conn = c /\ f.branch = b
        \/ conn[c].sock # "open"
        \/ pruned'
    BY <1>1, RouteStep
  <2>2. ~\E u \in Task : /\ InsertRoute(u) \/ WriteFails(u)
                         /\ task[u].conn = c /\ task[u].branch = b
    BY <1>2
  <2>. QED BY <1>3, <2>1, <2>2
<1>. QED BY <1>4, <1>5, <1>6 DEF HasRoute

\* The channel is there from InsertRoute until the final answer takes it.
LEMMA RouteReadyStep ==
    ASSUME RouteInv, [Next]_vars
    PROVE  RouteReady'
<1>0. Types /\ AllSent /\ BranchInv /\ Alone /\ OneReceived /\ Opened /\ RouteReady
  BY DEF RouteInv
<1>. SUFFICES ASSUME ~pruned', NEW t \in Task, Unfollowed(t)'
              PROVE  WriteReady(t)' /\ WaitReady(t)'
  BY DEF RouteReady
<1>1. CASE task'[t].pc \notin {"write", "record", "wait"}
  BY <1>1 DEF WriteReady, WaitReady
<1>2. CASE task'[t].pc \in {"write", "record", "wait"}
  <2>1. /\ Unfollowed(t) /\ task'[t].branch = task[t].branch /\ task'[t].req = task[t].req
        /\ task'[t] = task[t] \/ Advanced(t)
    BY <1>0, <1>2, UnfollowedStep
  <2>2. WriteReady(t) /\ WaitReady(t) /\ task[t].branch # 0 /\ ~Followed(task[t].req)
    BY <1>0, <2>1, PrunedStays DEF RouteReady, Unfollowed
  <2>3. CASE task'[t] = task[t]
    <3>0. task[t].conn \in Conn /\ task[t].pc \in {"write", "record", "wait"} /\ task'[t].conn = task[t].conn
      BY <1>0, <1>2, <2>3 DEF Types, TasksShaped, Shaped, HasConn
    <3>1. CASE task[t].pc = "write" /\ conn'[task[t].conn].sock = "open"
      <4>1. conn[task[t].conn].sock = "open"
        <5>1. conn[task[t].conn].sock # "none"
          BY <1>0, <3>1 DEF Opened, HasConn
        <5>. QED BY <1>0, <3>0, <3>1, <5>1, SockStep
      <4>2. HasRoute(t)
        BY <2>2, <3>1, <4>1 DEF WriteReady
      <4>3. \A f \in received : f.branch # task[t].branch
        BY <1>0, <2>1, <3>1 DEF Alone, Written
      <4>4. HasRoute(t)'
        BY <1>0, <1>2, <2>1, <3>0, <4>1, <4>2, <4>3, RouteKept
      <4>. QED BY <2>3, <3>1, <4>4 DEF WriteReady, WaitReady
    <3>2. ASSUME task[t].pc \in {"record", "wait"}, NEW f \in received', f.branch = task[t].branch,
                 f.conn = task[t].conn, conn'[task[t].conn].sock = "open"
          PROVE  HasRoute(t)'
      <4>1. PICK g \in received : g.branch = f.branch /\ g.conn = f.conn /\ ~Answered(g)
        <5>1. CASE f \in received
          <6>1. ~Answered(f)
            BY <5>1 DEF Answered, Dispatch
          <6>. QED BY <5>1, <6>1
        <5>2. ASSUME NEW u \in Task, Write(u), f = Message(u, FALSE) PROVE FALSE
          <6>1. task[u].branch = task[t].branch /\ task[u].pc = "write"
            BY <3>2, <5>2 DEF Message, Write
          <6>2. u # t
            BY <3>2, <6>1
          <6>. QED BY <1>0, <2>1, <6>1, <6>2 DEF Alone
        <5>3. ASSUME NEW g \in received, Dispatch(g, FALSE), f = [g EXCEPT !.rang = TRUE]
              PROVE  g.branch = f.branch /\ g.conn = f.conn /\ ~Answered(g)
          <6>1. g.branch = f.branch /\ g.conn = f.conn
            BY <1>0, <5>3 DEF Types
          <6>2. ~Answered(g)
            <7>1. g \in [conn : Conn, branch : Branch, req : Request, rang : BOOLEAN]
              BY <1>0 DEF Types
            <7>2. ~g.rang /\ f.rang = TRUE
              BY <5>3, <7>1 DEF Dispatch
            <7>3. f \in received' /\ f # g /\ g \notin received'
              BY <3>2, <5>3, <7>2 DEF Dispatch
            <7>4. Answered(g) => received' = received \ {g}
              BY DEF Answered, Dispatch
            <7>5. f \notin received
              BY <1>0, <2>1, <2>2, <3>2, <6>1, <7>3, SameOwner DEF OneReceived
            <7>. QED BY <7>3, <7>4, <7>5
          <6>. QED BY <6>1, <6>2
        <5>. QED BY <5>1, <5>2, <5>3, ReceivedStep
      <4>3. conn[task[t].conn].sock = "open"
        <5>1. conn[task[t].conn].sock # "none"
          BY <1>0, <3>2 DEF Opened, HasConn
        <5>. QED BY <1>0, <3>0, <3>2, <5>1, SockStep
      <4>2. HasRoute(t)
        BY <2>2, <3>2, <4>1, <4>3 DEF WaitReady
      <4>4. ~Followed(g.req)
        BY <1>0, <2>2, <3>2, <4>1, SameOwner
      <4>5. \A e \in received : ~(Answered(e) /\ e.conn = task[t].conn /\ e.branch = task[t].branch)
        BY <1>0, <3>2, <4>1, <4>4 DEF OneReceived
      <4>. QED BY <1>0, <1>2, <2>1, <3>0, <4>2, <4>3, <4>5, RouteKept
    <3>. QED BY <2>3, <3>0, <3>1, <3>2 DEF WriteReady, WaitReady
  <2>4. CASE Advanced(t) /\ task'[t].pc = "write"
    <3>1. InsertRoute(t) /\ task'[t].conn = task[t].conn
      BY <2>4 DEF Advanced
    <3>2. task[t].conn \in Conn /\ task[t].branch \in Branch /\ routes' = WithRoute(task[t].conn, task[t].branch, t)
      BY <1>0, <3>1 DEF InsertRoute, Types, TasksShaped, Shaped, SendSteps, HasConn
    <3>3. routes'[task[t].conn][task[t].branch] = t /\ task[t].conn # 0
      <4>1. routes \in [Conn -> [Branch -> Task \cup {NoTask}]] /\ t \in Task \cup {NoTask}
        BY <1>0 DEF Types
      <4>2. WithRoute(task[t].conn, task[t].branch, t)[task[t].conn][task[t].branch] = t
        BY <3>2, <4>1, WithRouteType
      <4>3. task[t].conn # 0
        BY <3>2, Bounds DEF Conn
      <4>. QED BY <3>2, <4>2, <4>3
    <3>. QED BY <2>1, <2>4, <3>1, <3>3 DEF WriteReady, WaitReady, HasRoute
  <2>5. CASE Advanced(t) /\ task'[t].pc = "record"
    <3>1. Write(t) /\ task'[t].conn = task[t].conn /\ task[t].pc = "write"
      BY <2>5 DEF Advanced, Write
    <3>2. \A f \in received : f.branch # task[t].branch
      BY <1>0, <2>1, <3>1 DEF Alone, Written
    <3>3. conn' = conn
      BY <3>1 DEF Write
    <3>4. ASSUME conn'[task[t].conn].sock = "open" PROVE HasRoute(t)'
      <4>1. HasRoute(t)
        BY <2>2, <3>1, <3>3, <3>4 DEF WriteReady
      <4>. QED BY <2>1, <3>1, <4>1 DEF HasRoute, Write
    <3>. QED BY <2>1, <2>5, <3>1, <3>4 DEF WriteReady, WaitReady
  <2>6. CASE Advanced(t) /\ task'[t].pc = "wait"
    <3>1. Record(t) /\ task'[t].conn = task[t].conn /\ task[t].pc = "record"
      BY <2>6 DEF Advanced, Record
    <3>2. received' = received /\ routes' = routes /\ conn' = conn
      BY <3>1 DEF Record, sockets
    <3>. QED BY <2>1, <2>2, <2>6, <3>1, <3>2 DEF WriteReady, WaitReady, HasRoute
  <2>. QED BY <1>2, <2>1, <2>3, <2>4, <2>5, <2>6
<1>. QED BY <1>1, <1>2

\* The empty map, with nothing sent, is a beginning.
LEMMA RouteInit == Init => RouteInv
<1>. SUFFICES ASSUME Init PROVE RouteInv
  OBVIOUS
<1>0. Types
  BY TypeInit
<1>1. /\ \A t \in Task : task[t] = NoJob /\ queue[t] = <<>>
      /\ \A x \in Invite : inviteTx[x] = 0
      /\ \A c \in Conn : ~conn[c].alive
  BY DEF Init, NoConnection
<1>9. received = {}
  BY DEF Init
<1>2. AllSent
  <2>1. \A t \in Task : 1..Len(queue[t]) = {}
    BY <1>1
  <2>. QED BY <1>1, <1>9, <2>1, NoJobFacts DEF AllSent, QueuedSent, HandledSent, ReceivedSent
<1>3. \A b \in Branch, x \in Txn : ~Uses(b, x)
  <2>1. 0 \notin Branch
    BY Bounds DEF Branch
  <2>. QED BY <1>1, <1>9, <2>1, NoJobFacts DEF Uses, TaskUses, WireUses
<1>5. \A t \in Task : ~Unfollowed(t)
  BY <1>1, NoJobFacts DEF Unfollowed
<1>6. Opened
  BY <1>1, NoJobFacts DEF Opened, HasConn
<1>. QED BY <1>0, <1>2, <1>3, <1>9, <1>5, <1>6
            DEF RouteInv, BranchInv, GivenOut, OneOwner, Alone, OneReceived, RouteReady

\* Every step keeps it.
LEMMA RouteInvStep ==
    ASSUME RouteInv, [Next]_vars
    PROVE  RouteInv'
<1>0. Types /\ AllSent /\ BranchInv /\ Alone /\ OneReceived /\ Opened
  BY DEF RouteInv
<1>. QED BY <1>0, TypeStep, AllSentStep, BranchInvStep, AloneStep, OneReceivedStep, OpenedStep,
            RouteReadyStep DEF RouteInv

\* A task that waits for a request that the upstream has, and that no CANCEL or ACK has
\* followed, has its channel in the map of its connection: a retry on another connection,
\* a connection replaced in the pool or a write that timed out does not take it away, as
\* long as the reader of the connection is in its loop and no channel has been pruned.
THEOREM WaitersAreReached == Spec => []UnfollowedWaiterHasRoute
<1>1. RouteInv => UnfollowedWaiterHasRoute
  <2>. SUFFICES ASSUME RouteInv, NEW t \in Task, NEW f \in received, task[t].pc = "wait", f.conn = task[t].conn,
                       f.branch = task[t].branch, f.req = task[t].req, conn[f.conn].sock = "open", ~pruned,
                       ~Followed(f.req)
                PROVE  HasRoute(t)
    BY DEF UnfollowedWaiterHasRoute
  <2>1. task[t].branch # 0
    BY Bounds DEF RouteInv, Types, Branch
  <2>. QED BY <2>1 DEF RouteInv, RouteReady, Unfollowed, WaitReady
<1>. QED BY <1>1, RouteInit, RouteInvStep, PTL DEF Spec

\* A working connection is never evicted from the pool: a task evicts the connection its
\* attempt failed on, if the pool has it still, and that one never works again.
THEOREM WorkingConnectionsStay == Spec => WorkingConnectionStays
<1>. DEFINE Kept == (pool # 0 /\ pool' = 0) => ~Works(pool)
<1>. DEFINE Inv == Types /\ Opened /\ EvictsBroken
<1>1. Init => Inv
  BY RouteInit, NoJobFacts DEF RouteInv, EvictsBroken, Init
<1>2. Inv /\ [Next]_vars => Inv'
  BY TypeStep, OpenedStep, EvictsBrokenStep
<1>3. ASSUME Inv, [Next]_vars PROVE Kept
  <2>1. ASSUME NEW t \in Task, PoolInsert(t) PROVE pool' # 0
    BY <1>3, <2>1, Bounds DEF PoolInsert, Types, TasksShaped, Shaped, HasConn, Conn
  <2>2. ASSUME NEW t \in Task, Evict(t) PROVE Kept
    BY <1>3, <2>2 DEF Evict, EvictsBroken
  <2>. QED BY <1>3, <2>1, <2>2, PoolStep
<1>. QED BY <1>1, <1>2, <1>3, PTL DEF Spec, WorkingConnectionStays

-----------------------------------------------------------------------------
(* A client gets answers to its own requests *)

\* What is in the channel that a task reads, and what is remembered as the final response
\* to a request, answers a request of the same transaction that was sent.
Own(r, a) == a \in Request /\ a.txn = r.txn /\ Sent(a)
Reading == {"write", "record", "wait"}
InboxOwn == \A t \in Task : task[t].pc \in Reading =>
                \A i \in 1..Len(inbox[t]) : Own(task[t].req, inbox[t][i].req)
FinalOwn == \A r \in Request : final[r] # NoRequest => Own(r, final[r])

\* Own answers stay so.
LEMMA OwnStays ==
    ASSUME Types, [Next]_vars, NEW r, NEW a, Own(r, a)
    PROVE  Own(r, a)'
BY SendsGrow DEF Own

\* A task that reads a channel after a step read it before, or finds it empty.
LEMMA ReadingStep ==
    ASSUME Types, [Next]_vars, NEW t \in Task, task'[t].pc \in Reading
    PROVE  \/ task[t].pc \in Reading /\ task'[t].req = task[t].req
           \/ inbox'[t] = <<>>
<1>1. CASE task'[t] = task[t]
  BY <1>1
<1>2. CASE Advanced(t)
  <2>1. CASE task'[t].pc = "write"
    BY <1>2, <2>1 DEF Advanced, InsertRoute, Types
  <2>2. CASE task'[t].pc \in {"record", "wait"}
    BY <1>2, <2>2 DEF Advanced, Write, Record, Reading
  <2>. QED BY <1>2, <2>1, <2>2 DEF Reading
<1>3. CASE task'[t] = NoJob \/ Refused(t) \/ Begun(t)
  BY <1>3, NoJobFacts DEF Refused, Begun, Doing, Reading
<1>. QED BY <1>1, <1>2, <1>3, TaskMoves DEF Still

\* A response in a channel was there, or answers a request that the upstream had under
\* the branch of the task that reads it.
LEMMA InboxStep ==
    ASSUME Types, [Next]_vars, NEW t \in Task, NEW i \in 1..Len(inbox'[t])
    PROVE  \/ \E k \in 1..Len(inbox[t]) : inbox'[t][i] = inbox[t][k]
           \/ task' = task /\ \E f \in received : f.branch = task[t].branch /\ inbox'[t][i].req = f.req
<1>0. inbox \in [Task -> Seq(Answer)]
  BY DEF Types
<1>1. CASE inbox' = inbox
  BY <1>1
<1>2. ASSUME NEW u \in Task, InsertRoute(u) PROVE \E k \in 1..Len(inbox[t]) : inbox'[t][i] = inbox[t][k]
  <2>1. CASE t = u
    BY <1>0, <1>2, <2>1 DEF InsertRoute
  <2>2. CASE t # u
    BY <1>0, <1>2, <2>2 DEF InsertRoute
  <2>. QED BY <2>1, <2>2
<1>3. ASSUME NEW u \in Task, RelayResponse(u) PROVE \E k \in 1..Len(inbox[t]) : inbox'[t][i] = inbox[t][k]
  <2>1. CASE t = u
    <3>1. inbox[t] \in Seq(Answer) /\ inbox[t] # <<>> /\ inbox'[t] = Tail(inbox[t])
      BY <1>0, <1>3, <2>1 DEF RelayResponse
    <3>2. i + 1 \in 1..Len(inbox[t]) /\ inbox'[t][i] = inbox[t][i + 1]
      BY <3>1
    <3>. QED BY <3>2
  <2>2. CASE t # u
    BY <1>0, <1>3, <2>2 DEF RelayResponse
  <2>. QED BY <2>1, <2>2
<1>4. ASSUME NEW f \in received, NEW isFinal \in BOOLEAN, Dispatch(f, isFinal)
      PROVE  \/ \E k \in 1..Len(inbox[t]) : inbox'[t][i] = inbox[t][k]
             \/ task' = task /\ f.branch = task[t].branch /\ inbox'[t][i].req = f.req
  <2>1. CASE inbox'[t] = inbox[t]
    BY <2>1
  <2>2. CASE inbox'[t] # inbox[t]
    <3>. DEFINE u == routes[f.conn][f.branch]
                e == [req |-> f.req, isFinal |-> isFinal]
    <3>1. u # NoTask /\ Reads(u, f.conn, f.branch) /\ inbox' = [inbox EXCEPT ![u] = Append(@, e)]
      BY <1>4, <2>2 DEF Dispatch
    <3>2. e \in Answer /\ e.req = f.req
      BY DEF Answer, Types
    <3>. HIDE DEF u, e
    <3>3. t = u /\ inbox'[t] = Append(inbox[t], e)
      BY <1>0, <2>2, <3>1
    <3>4. inbox[t] \in Seq(Answer)
      BY <1>0
    <3>5. i \in 1..Len(inbox[t]) \/ i = Len(inbox[t]) + 1
      BY <3>2, <3>3, <3>4
    <3>6. i \in 1..Len(inbox[t]) => inbox'[t][i] = inbox[t][i]
      BY <3>2, <3>3, <3>4
    <3>7. i = Len(inbox[t]) + 1 => inbox'[t][i] = e
      BY <3>2, <3>3, <3>4
    <3>8. task' = task /\ task[t].branch = f.branch
      BY <1>4, <3>1, <3>3 DEF Dispatch, Reads
    <3>. QED BY <3>2, <3>5, <3>6, <3>7, <3>8
  <2>. QED BY <2>1, <2>2
<1>5. \/ inbox' = inbox \/ \E u \in Task : InsertRoute(u) \/ RelayResponse(u)
      \/ \E f \in received, isFinal \in BOOLEAN : Dispatch(f, isFinal)
  BY DEF Next, TaskStep, ReceiveUdp, ReceiveTcp, Take, GetConnection, Connect, ConnectFails, PoolInsert,
         CheckAlive, Write, WriteFails, WriteTimesOut, Evict, SendFailed, Record, Reject,
         ChannelClosed, ResponseTimesOut, UpstreamCloses, ReaderFails, ReaderEnds, PruneRoute, vars
<1>. QED BY <1>1, <1>2, <1>3, <1>4, <1>5

\* A channel gets the answers of its own transaction.
LEMMA InboxOwnStep ==
    ASSUME Types, AllSent, BranchInv, InboxOwn, [Next]_vars
    PROVE  InboxOwn'
<1>1. ASSUME NEW t \in Task, task'[t].pc \in Reading, NEW i \in 1..Len(inbox'[t])
      PROVE  Own(task[t].req, inbox'[t][i].req)
  <2>1. task[t].pc \in Reading
    BY <1>1, ReadingStep
  <2>2. CASE \E k \in 1..Len(inbox[t]) : inbox'[t][i] = inbox[t][k]
    BY <2>1, <2>2 DEF InboxOwn
  <2>3. ASSUME NEW f \in received, f.branch = task[t].branch, inbox'[t][i].req = f.req
        PROVE  Own(task[t].req, inbox'[t][i].req)
    <3>1. task[t].branch # 0
      BY <2>1, Bounds DEF Types, TasksShaped, Shaped, SendSteps, Reading, Branch
    <3>2. f.req \in Request /\ f.req.txn = task[t].req.txn /\ Sent(f.req)
      BY <2>3, <3>1, SameOwner DEF AllSent, ReceivedSent
    <3>. QED BY <2>3, <3>2 DEF Own
  <2>. QED BY <1>1, <2>2, <2>3, InboxStep
<1>2. ASSUME NEW t \in Task, task'[t].pc \in Reading, NEW i \in 1..Len(inbox'[t])
      PROVE  /\ inbox'[t][i].req \in Request /\ inbox'[t][i].req.txn = task'[t].req.txn
             /\ sends'[inbox'[t][i].req] > 0
  <2>1. task'[t].req = task[t].req
    BY <1>2, ReadingStep
  <2>2. Own(task[t].req, inbox'[t][i].req)
    BY <1>1, <1>2
  <2>3. \A a \in Request : sends[a] > 0 => sends'[a] > 0
    BY SendsGrow DEF Sent
  <2>. QED BY <2>1, <2>2, <2>3 DEF Own, Sent
<1>. QED BY <1>2 DEF InboxOwn, Own, Sent

\* So does the cache.
LEMMA FinalOwnStep ==
    ASSUME Types, InboxOwn, FinalOwn, [Next]_vars
    PROVE  FinalOwn'
<1>. SUFFICES ASSUME NEW r \in Request, final'[r] # NoRequest
              PROVE  final'[r] \in Request /\ final'[r].txn = r.txn /\ sends'[final'[r]] > 0
  BY DEF FinalOwn, Own, Sent
<1>0. final \in [Request -> Request \cup {NoRequest}]
  BY DEF Types
<1>1. CASE final'[r] = final[r]
  BY <1>1, SendsGrow DEF FinalOwn, Own, Sent
<1>2. ASSUME NEW t \in Task, Record(t) PROVE final'[r] = final[r]
  BY <1>0, <1>2 DEF Record, Types, TasksShaped, Shaped
<1>3. ASSUME NEW t \in Task, RelayResponse(t), final'[r] # final[r]
      PROVE  final'[r] \in Request /\ final'[r].txn = r.txn /\ sends'[final'[r]] > 0
  <2>1. inbox[t] \in Seq(Answer) /\ inbox[t] # <<>> /\ task[t].pc = "wait" /\ sends' = sends
    BY <1>3 DEF RelayResponse, Types
  <2>2. 1 \in 1..Len(inbox[t]) /\ Head(inbox[t]) = inbox[t][1]
    BY <2>1
  <2>3. Own(task[t].req, Head(inbox[t]).req)
    BY <2>1, <2>2 DEF InboxOwn, Reading
  <2>4. r = task[t].req /\ final'[r] = Head(inbox[t]).req
    BY <1>0, <1>3 DEF RelayResponse
  <2>. QED BY <2>1, <2>3, <2>4 DEF Own, Sent
<1>4. final' = final \/ \E t \in Task : Record(t) \/ RelayResponse(t)
  BY DEF Next, TaskStep, ReceiveUdp, ReceiveTcp, Take, GetConnection, Connect, ConnectFails, PoolInsert,
         CheckAlive, InsertRoute, Write, WriteFails, WriteTimesOut, Evict, SendFailed, Reject, Dispatch,
         ChannelClosed, ResponseTimesOut, UpstreamCloses, ReaderFails, ReaderEnds, PruneRoute, clients, vars
<1>. QED BY <1>1, <1>2, <1>3, <1>4

-----------------------------------------------------------------------------
(* No more final answers than requests *)

\* The copies of a request that are with a task (place 0) or in its queue (places 1, 2, ...):
\* each has been sent once and may still bring one final response.
Held(tasks, q, a) ==
    {p \in Task \X Nat : \/ p[2] = 0 /\ tasks[p[1]].req = a
                         \/ p[2] \in 1..Len(q[p[1]]) /\ q[p[1]][p[2]] = a}
Outstanding(a) == Held(task, queue, a)
Counted == \A a \in Request :
    /\ IsFiniteSet(Outstanding(a))
    /\ ~Followed(a) => finals[a] + Cardinality(Outstanding(a)) <= sends[a]

\* A step that only lets go of copies.
LEMMA HeldShrinks ==
    ASSUME NEW S, NEW T, IsFiniteSet(S), T \subseteq S
    PROVE  /\ IsFiniteSet(T) /\ Cardinality(T) \in Nat /\ Cardinality(S) \in Nat
           /\ Cardinality(T) <= Cardinality(S)
           /\ \A x \in S : x \notin T => Cardinality(T) + 1 <= Cardinality(S)
<1>1. IsFiniteSet(T) /\ Cardinality(T) <= Cardinality(S) /\ Cardinality(T) \in Nat /\ Cardinality(S) \in Nat
  BY FS_Subset, FS_CardinalityType
<1>2. ASSUME NEW x \in S, x \notin T PROVE Cardinality(T) + 1 <= Cardinality(S)
  <2>1. Cardinality(S) = Cardinality(T) => S = T
    BY FS_Subset
  <2>. QED BY <1>1, <1>2, <2>1
<1>. QED BY <1>1, <1>2

\* A task that takes a packet moves its copies up by one place.
LEMMA HeldTake ==
    ASSUME Types, NEW t \in Task, Take(t), NEW a \in Request, IsFiniteSet(Held(task, queue, a)),
           NEW tasks, \A u \in Task \ {t} : tasks[u] = task[u], tasks[t].req \in {NoRequest, NextMessage(t)}
    PROVE  /\ IsFiniteSet(Held(tasks, queue', a))
           /\ Cardinality(Held(tasks, queue', a)) \in Nat /\ Cardinality(Held(task, queue, a)) \in Nat
           /\ Cardinality(Held(tasks, queue', a)) <= Cardinality(Held(task, queue, a))
           /\ a = NextMessage(t) /\ tasks[t].req = NoRequest =>
                 Cardinality(Held(tasks, queue', a)) + 1 <= Cardinality(Held(task, queue, a))
<1>. DEFINE H == Held(task, queue, a)
            K == Held(tasks, queue', a)
            up(p) == IF p[1] = t THEN <<t, p[2] + 1>> ELSE p
            I == {up(p) : p \in K}
<1>0. queue \in [Task -> Seq(Request)] /\ queue[t] \in Seq(Request) /\ queue[t] # <<>>
      /\ queue' = [queue EXCEPT ![t] = Tail(queue[t])] /\ a # NoRequest
  BY RequestFacts DEF Types, Take
<1>1. /\ queue'[t] = Tail(queue[t]) /\ \A u \in Task \ {t} : queue'[u] = queue[u]
      /\ Len(queue'[t]) = Len(queue[t]) - 1 /\ Len(queue[t]) \in Nat \ {0}
      /\ \A i \in 1..Len(queue'[t]) : i + 1 \in 1..Len(queue[t]) /\ queue'[t][i] = queue[t][i + 1]
      /\ NextMessage(t) = queue[t][1]
  BY <1>0 DEF NextMessage
<1>2. ASSUME NEW p \in K PROVE /\ up(p) \in H
                               /\ p \in Task \X Nat /\ up(p) # <<t, 0>>
                               /\ tasks[t].req = NoRequest => up(p) # <<t, 1>>
  <2>1. p \in Task \X Nat /\ p[1] \in Task /\ p[2] \in Nat /\ p = <<p[1], p[2]>>
    BY <1>2 DEF Held
  <2>2. CASE p[1] # t
    <3>1. up(p) = p
      BY <2>2
    <3>2. tasks[p[1]] = task[p[1]] /\ queue'[p[1]] = queue[p[1]]
      BY <1>1, <2>1, <2>2
    <3>3. p \in H
      BY <1>2, <2>1, <3>2 DEF Held
    <3>4. p # <<t, 0>> /\ p # <<t, 1>>
      BY <2>1, <2>2
    <3>. QED BY <2>1, <3>1, <3>3, <3>4
  <2>3. CASE p[1] = t
    <3>1. up(p) = <<t, p[2] + 1>> /\ <<t, p[2] + 1>> \in Task \X Nat
      BY <2>1, <2>3
    <3>2. CASE p[2] = 0
      <4>1. tasks[t].req = a
        BY <1>1, <1>2, <2>1, <2>3, <3>2 DEF Held
      <4>2. a = queue[t][1] /\ 1 \in 1..Len(queue[t]) /\ tasks[t].req # NoRequest
        BY <1>0, <1>1, <4>1
      <4>3. up(p) = <<t, 1>> /\ <<t, 1>> \in H
        BY <3>1, <3>2, <4>2 DEF Held
      <4>. QED BY <2>1, <4>2, <4>3
    <3>3. CASE p[2] # 0
      <4>1. p[2] \in 1..Len(queue'[t]) /\ queue'[t][p[2]] = a
        BY <1>2, <2>3, <3>3 DEF Held
      <4>2. p[2] + 1 \in 1..Len(queue[t]) /\ queue[t][p[2] + 1] = a
        BY <1>1, <4>1
      <4>3. up(p) \in H
        BY <3>1, <4>2 DEF Held
      <4>4. <<t, p[2] + 1>> # <<t, 0>> /\ <<t, p[2] + 1>> # <<t, 1>>
        BY <2>1, <3>3
      <4>. QED BY <2>1, <3>1, <4>3, <4>4
    <3>. QED BY <3>2, <3>3
  <2>. QED BY <2>2, <2>3
<1>3. ASSUME NEW p \in K, NEW o \in K, up(p) = up(o) PROVE p = o
  <2>1. /\ p[1] \in Task /\ p[2] \in Nat /\ p = <<p[1], p[2]>>
        /\ o[1] \in Task /\ o[2] \in Nat /\ o = <<o[1], o[2]>>
    <3>1. p \in Task \X Nat /\ o \in Task \X Nat
      BY <1>2
    <3>. QED BY <3>1
  <2>2. CASE p[1] = t /\ o[1] = t
    BY <1>3, <2>1, <2>2
  <2>3. CASE p[1] # t \/ o[1] # t
    BY <1>3, <2>1, <2>3
  <2>. QED BY <2>2, <2>3
<1>. DEFINE f == [p \in K |-> up(p)]
<1>4. I \subseteq H
  BY <1>2
<1>5. IsFiniteSet(I) /\ Cardinality(I) \in Nat /\ Cardinality(H) \in Nat /\ Cardinality(I) <= Cardinality(H)
      /\ \A x \in H : x \notin I => Cardinality(I) + 1 <= Cardinality(H)
  <2>. HIDE DEF I, H
  <2>. QED BY <1>4, HeldShrinks DEF H
<1>6. f \in Injection(K, I)
  <2>1. f \in [K -> I]
    OBVIOUS
  <2>2. \A p, o \in K : f[p] = f[o] => p = o
    BY <1>3
  <2>. HIDE DEF f, K, I
  <2>. QED BY <2>1, <2>2 DEF Injection, IsInjective
<1>7. IsFiniteSet(K) /\ Cardinality(K) <= Cardinality(I) /\ Cardinality(K) \in Nat
  <2>. HIDE DEF f, K, I
  <2>. QED BY <1>5, <1>6, FS_Injection, FS_CardinalityType
<1>8. a = NextMessage(t) /\ tasks[t].req = NoRequest => <<t, 1>> \in H /\ <<t, 1>> \notin I
  <2>1. a = NextMessage(t) => <<t, 1>> \in H
    BY <1>1 DEF Held
  <2>2. tasks[t].req = NoRequest => <<t, 1>> \notin I
    BY <1>2
  <2>. QED BY <2>1, <2>2
<1>. HIDE DEF H, K, I, f
<1>9. Cardinality(K) <= Cardinality(H)
  BY <1>5, <1>7
<1>10. <<t, 1>> \in H /\ <<t, 1>> \notin I => Cardinality(K) + 1 <= Cardinality(H)
  BY <1>5, <1>7
<1>. QED BY <1>5, <1>7, <1>8, <1>9, <1>10 DEF H, K

\* Everything the promise to the client rests on.
RelayInv == Types /\ AllSent /\ BranchInv /\ InboxOwn /\ FinalOwn /\ Counted

\* An answer to another request of the transaction means that something has followed.
LEMMA SameRequest ==
    ASSUME NEW r \in Request, NEW a \in Request, Sent(r), Own(r, a), ~Followed(a)
    PROVE  a = r
<1>1. a.txn = r.txn /\ Sent(a)
  BY DEF Own
<1>2. Begins(a) /\ Begins(r)
  BY <1>1 DEF Begins, Followed, Sent
<1>. QED BY <1>1, <1>2, RequestFacts

\* A copy in hand has not been answered yet.
LEMMA CopyCounts ==
    ASSUME Types, Counted, NEW a \in Request, ~Followed(a), NEW x \in Outstanding(a)
    PROVE  finals[a] < sends[a]
<1>1. IsFiniteSet(Outstanding(a)) /\ finals[a] + Cardinality(Outstanding(a)) <= sends[a]
  BY DEF Counted
<1>2. finals[a] \in Nat /\ sends[a] \in Nat
  BY Bounds DEF Types, OutOK
<1>3. Cardinality({}) + 1 <= Cardinality(Outstanding(a)) /\ Cardinality(Outstanding(a)) \in Nat
  BY <1>1, HeldShrinks
<1>. QED BY <1>1, <1>2, <1>3, FS_EmptySet

\* A task that takes a packet changes its queue.
LEMMA TakeMovesQueue ==
    ASSUME Types, NEW t \in Task, Take(t)
    PROVE  queue' # queue
<1>0. queue \in [Task -> Seq(Request)]
  BY DEF Types
<1>1. queue'[t] = Tail(queue[t]) /\ queue[t] # <<>>
  BY <1>0 DEF Take
<1>2. Len(Tail(queue[t])) # Len(queue[t])
  BY <1>0, <1>1
<1>. QED BY <1>1, <1>2

\* What kind of step it is: for the clients nothing happens, a request comes, a task takes
\* a packet, gives a local answer, or hands on a response.
LEMMA RelayKinds ==
    ASSUME [Next]_vars
    PROVE  \/ UNCHANGED <<queue, sends, relayed, finals>>
           \/ \E r \in Request : ReceiveUdp(r) \/ ReceiveTcp(r)
           \/ \E t \in Task : Take(t) \/ RelayResponse(t)
           \/ \E t \in Task : /\ RejectLocally(t) /\ task[t].pc # "idle"
                              /\ UNCHANGED <<queue, sends>>
BY ZenonT(60) DEF Next, TaskStep, GetConnection, Connect, ConnectFails, PoolInsert,
       CheckAlive, InsertRoute, Write, WriteFails, WriteTimesOut, Evict, SendFailed, Record, Reject,
       ChannelClosed, ResponseTimesOut, Dispatch, UpstreamCloses, ReaderFails, ReaderEnds, PruneRoute, out, vars

\* What taking a packet tells its client: nothing, 100 Trying, or the remembered final
\* response.
LEMMA TakeRelays ==
    ASSUME NEW t \in Task, Take(t)
    PROVE  LET r == NextMessage(t) IN
           /\ UNCHANGED sends
           /\ \/ UNCHANGED out
              \/ Relay(r, r, FALSE)
              \/ task' = task /\ final[r] # NoRequest /\ Relay(r, final[r], TRUE)
BY DEF Take, SendTrying, clients

\* For its clients the proxy does what the abstract specification says.
LEMMA RelayStep ==
    ASSUME RelayInv, [Next]_vars
    PROVE  \/ UNCHANGED <<sends, relayed, finals>>
           \/ \E r \in Request : sends' = [sends EXCEPT ![r] = @ + 1] /\ UNCHANGED <<relayed, finals>>
           \/ /\ UNCHANGED sends
              /\ \E r \in Request, a \in Request, isFinal \in BOOLEAN :
                    /\ Relay(r, a, isFinal) /\ Own(r, a) /\ Sent(r)
                    /\ isFinal /\ ~Followed(a) => finals[a] < sends[a]
<1>0. Types /\ AllSent /\ InboxOwn /\ FinalOwn /\ Counted
  BY DEF RelayInv
<1>. DEFINE Says(r, a, isFinal) ==
              /\ Relay(r, a, isFinal) /\ Own(r, a) /\ Sent(r)
              /\ isFinal /\ ~Followed(a) => finals[a] < sends[a]
<1>1. ASSUME NEW r \in Request, ReceiveUdp(r) \/ ReceiveTcp(r)
      PROVE  sends' = [sends EXCEPT ![r] = @ + 1] /\ UNCHANGED <<relayed, finals>>
  BY <1>1 DEF ReceiveUdp, ReceiveTcp, out
<1>2. ASSUME NEW t \in Task, Take(t)
      PROVE  /\ UNCHANGED sends
             /\ \/ UNCHANGED <<relayed, finals>>
                \/ \E r \in Request, a \in Request, isFinal \in BOOLEAN : Says(r, a, isFinal)
  <2>. DEFINE r == NextMessage(t)
  <2>1. r \in Request /\ Sent(r)
    BY <1>0, <1>2, NextIsSent DEF AllSent
  <2>2. CASE Relay(r, r, FALSE)
    <3>1. Says(r, r, FALSE)
      BY <2>1, <2>2 DEF Own
    <3>. HIDE DEF r, Says
    <3>. QED BY <1>2, <2>1, <3>1, TakeRelays
  <2>3. CASE final[r] # NoRequest /\ Relay(r, final[r], TRUE)
    <3>1. PICK a \in Request : a = final[r] /\ Own(r, a)
      BY <1>0, <2>1, <2>3 DEF FinalOwn, Own
    <3>2. <<t, 1>> \in Outstanding(r)
      <4>1. queue[t] \in Seq(Request) /\ queue[t] # <<>>
        BY <1>0, <1>2 DEF Types, Take
      <4>2. 1 \in 1..Len(queue[t]) /\ queue[t][1] = r
        BY <4>1 DEF NextMessage
      <4>. QED BY <4>2 DEF Outstanding, Held
    <3>3. ~Followed(a) => finals[a] < sends[a]
      <4>1. ASSUME ~Followed(a) PROVE a = r
        BY <2>1, <3>1, <4>1, SameRequest
      <4>. QED BY <1>0, <2>1, <3>2, <4>1, CopyCounts
    <3>4. Says(r, a, TRUE)
      BY <2>1, <2>3, <3>1, <3>3
    <3>. HIDE DEF r, Says
    <3>. QED BY <1>2, <2>1, <3>4, TakeRelays
  <2>. QED BY <1>2, <2>2, <2>3, TakeRelays DEF out
<1>3. ASSUME NEW t \in Task, RelayResponse(t)
      PROVE  /\ UNCHANGED sends
             /\ \E r \in Request, a \in Request, isFinal \in BOOLEAN : Says(r, a, isFinal)
  <2>1. inbox[t] \in Seq(Answer) /\ inbox[t] # <<>> /\ task[t].pc = "wait" /\ sends' = sends
    BY <1>0, <1>3 DEF RelayResponse, Types
  <2>2. 1 \in 1..Len(inbox[t]) /\ Head(inbox[t]) = inbox[t][1] /\ Head(inbox[t]) \in Answer
    BY <2>1
  <2>3. Own(task[t].req, Head(inbox[t]).req) /\ Head(inbox[t]).isFinal \in BOOLEAN
    BY <1>0, <2>1, <2>2 DEF InboxOwn, Reading, Answer
  <2>4. PICK r \in Request, a \in Request, isFinal \in BOOLEAN :
            /\ r = task[t].req /\ a = Head(inbox[t]).req /\ isFinal = Head(inbox[t]).isFinal
            /\ Own(r, a) /\ Sent(r) /\ Relay(r, a, isFinal)
    <3>1. task[t].req \in Request /\ Sent(task[t].req)
      BY <1>0, <2>1 DEF Types, TasksShaped, Shaped, AllSent, HandledSent
    <3>2. Head(inbox[t]).req \in Request
      BY <2>3 DEF Own
    <3>3. Relay(task[t].req, Head(inbox[t]).req, Head(inbox[t]).isFinal)
      BY <1>3 DEF RelayResponse
    <3>. QED BY <2>3, <3>1, <3>2, <3>3, Zenon
  <2>5. <<t, 0>> \in Outstanding(r)
    BY <2>4 DEF Outstanding, Held
  <2>6. ~Followed(a) => finals[a] < sends[a]
    <3>1. ASSUME ~Followed(a) PROVE a = r
      BY <2>4, <3>1, SameRequest
    <3>. QED BY <1>0, <2>5, <3>1, CopyCounts
  <2>. QED BY <2>1, <2>4, <2>6
<1>4. ASSUME NEW t \in Task, RejectLocally(t), task[t].pc # "idle"
      PROVE  \E r \in Request, a \in Request, isFinal \in BOOLEAN : Says(r, a, isFinal)
  <2>1. PICK r \in Request : r = task[t].req /\ Sent(r) /\ Relay(r, r, TRUE)
    BY <1>0, <1>4 DEF Types, TasksShaped, Shaped, AllSent, HandledSent, RejectLocally
  <2>2. <<t, 0>> \in Outstanding(r)
    BY <2>1 DEF Outstanding, Held
  <2>3. ~Followed(r) => finals[r] < sends[r]
    BY <1>0, <2>2, CopyCounts
  <2>. QED BY <2>1, <2>3 DEF Own
<1>. HIDE DEF Says
<1>5. \/ UNCHANGED <<sends, relayed, finals>>
      \/ \E r \in Request : sends' = [sends EXCEPT ![r] = @ + 1] /\ UNCHANGED <<relayed, finals>>
      \/ UNCHANGED sends /\ \E r \in Request, a \in Request, isFinal \in BOOLEAN : Says(r, a, isFinal)
  BY <1>1, <1>2, <1>3, <1>4, RelayKinds
<1>. QED BY <1>5 DEF Says

\* Copies of a request that are let go of, and none that come.
LEMMA HeldKept ==
    ASSUME Types, [Next]_vars, queue' = queue, NEW a \in Request
    PROVE  Held(task', queue', a) \subseteq Held(task, queue, a)
<1>1. ASSUME NEW u \in Task, task'[u].req = a PROVE task[u].req = a
  <2>1. ~Take(u)
    BY TakeMovesQueue
  <2>2. a # NoRequest
    BY RequestFacts
  <2>3. task'[u] # NoJob
    BY <1>1, <2>2, NoJobFacts
  <2>4. task'[u] = task[u] \/ Advanced(u)
    BY <2>1, <2>3, TaskMoves DEF Still, Refused, Begun
  <2>. QED BY <1>1, <2>4 DEF Advanced
<1>. QED BY <1>1 DEF Held

\* A request that comes is one more copy.
LEMMA HeldReceive ==
    ASSUME Types, NEW r \in Request, ReceiveUdp(r) \/ ReceiveTcp(r), NEW a \in Request
    PROVE  \/ Held(task', queue', a) \subseteq Held(task, queue, a)
           \/ a = r /\ \E x : Held(task', queue', a) \subseteq Held(task, queue, a) \cup {x}
<1>0. queue \in [Task -> Seq(Request)] /\ task' = task
  BY DEF Types, ReceiveUdp, ReceiveTcp
<1>1. ASSUME NEW u \in Task, queue' = [queue EXCEPT ![u] = Append(@, r)]
      PROVE  \/ Held(task', queue', a) \subseteq Held(task, queue, a)
             \/ a = r /\ \E x : Held(task', queue', a) \subseteq Held(task, queue, a) \cup {x}
  <2>. DEFINE x == <<u, Len(queue[u]) + 1>>
  <2>1. /\ queue[u] \in Seq(Request) /\ queue'[u] = Append(queue[u], r) /\ Len(queue'[u]) = Len(queue[u]) + 1
        /\ \A i \in 1..Len(queue[u]) : queue'[u][i] = queue[u][i]
        /\ queue'[u][Len(queue[u]) + 1] = r /\ \A v \in Task \ {u} : queue'[v] = queue[v]
    BY <1>0, <1>1
  <2>2. ASSUME NEW p \in Held(task', queue', a) PROVE p \in Held(task, queue, a) \/ (p = x /\ a = r)
    <3>1. p \in Task \X Nat /\ p[1] \in Task /\ p[2] \in Nat /\ p = <<p[1], p[2]>>
      BY <2>2 DEF Held
    <3>2. CASE p[2] = 0 \/ p[1] # u
      BY <1>0, <2>1, <2>2, <3>1, <3>2 DEF Held
    <3>3. CASE p[2] # 0 /\ p[1] = u
      <4>1. p[2] \in 1..Len(queue'[u]) /\ queue'[u][p[2]] = a
        BY <2>2, <3>3 DEF Held
      <4>2. p[2] \in 1..Len(queue[u]) \/ p[2] = Len(queue[u]) + 1
        BY <2>1, <4>1
      <4>3. CASE p[2] \in 1..Len(queue[u])
        BY <2>1, <3>1, <3>3, <4>1, <4>3 DEF Held
      <4>4. CASE p[2] = Len(queue[u]) + 1
        BY <2>1, <3>1, <3>3, <4>1, <4>4
      <4>. QED BY <4>2, <4>3, <4>4
    <3>. QED BY <3>2, <3>3
  <2>. HIDE DEF x
  <2>. QED BY <2>2
<1>2. CASE queue' = queue
  BY <1>0, <1>2 DEF Held
<1>3. queue' = queue \/ \E u \in Task : queue' = [queue EXCEPT ![u] = Append(@, r)]
  <2>1. CASE ReceiveUdp(r)
    <3>1. \A offset \in Worker : HandlerAt(offset) \in Task
      BY HandlerIsWorker, Bounds DEF Task
    <3>. QED BY <2>1, <3>1 DEF ReceiveUdp
  <2>2. CASE ReceiveTcp(r)
    BY <2>2, RequestFacts DEF ReceiveTcp
  <2>. QED BY <2>1, <2>2
<1>. QED BY <1>1, <1>2, <1>3

\* A final response counts once for the request that it answers.
LEMMA RelayCount ==
    ASSUME Types, NEW r \in Request, NEW b \in Request, NEW a \in Request
    PROVE  /\ Relay(r, b, TRUE) => finals'[a] = IF a = b THEN finals[a] + 1 ELSE finals[a]
           /\ Relay(r, b, FALSE) => finals'[a] = finals[a]
           /\ UNCHANGED out => finals'[a] = finals[a]
BY DEF Types, OutOK, Relay, out

\* A copy that is let go of with a final response makes up for it.
LEMMA CountedStep ==
    ASSUME RelayInv, [Next]_vars
    PROVE  Counted'
<1>0. Types /\ AllSent /\ InboxOwn /\ FinalOwn /\ Counted
  BY DEF RelayInv
<1>. SUFFICES ASSUME NEW a \in Request
              PROVE  /\ IsFiniteSet(Held(task', queue', a))
                     /\ ~Followed(a)' => finals'[a] + Cardinality(Held(task', queue', a)) <= sends'[a]
  BY DEF Counted, Outstanding
<1>. DEFINE H == Held(task, queue, a)
            K == Held(task', queue', a)
            Goal == IsFiniteSet(K) /\ (~Followed(a)' => finals'[a] + Cardinality(K) <= sends'[a])
<1>1. IsFiniteSet(H) /\ (~Followed(a) => finals[a] + Cardinality(H) <= sends[a])
  BY <1>0 DEF Counted, Outstanding
<1>2. finals[a] \in Nat /\ sends[a] \in Nat /\ Cardinality(H) \in Nat
  BY <1>0, <1>1, Bounds, FS_CardinalityType DEF Types, OutOK
<1>3. ~Followed(a)' => ~Followed(a)
  BY <1>0, SendsGrow
<1>. HIDE DEF H, K
<1>4. ASSUME K \subseteq H, finals'[a] = finals[a], sends'[a] = sends[a] PROVE Goal
  <2>1. IsFiniteSet(K) /\ Cardinality(K) \in Nat /\ Cardinality(K) <= Cardinality(H)
    BY <1>1, <1>4, HeldShrinks
  <2>. QED BY <1>1, <1>2, <1>3, <1>4, <2>1
<1>5. ASSUME K \subseteq H, NEW x \in H, x \notin K, finals'[a] = finals[a] + 1, sends'[a] = sends[a] PROVE Goal
  <2>1. IsFiniteSet(K) /\ Cardinality(K) \in Nat /\ Cardinality(K) + 1 <= Cardinality(H)
    BY <1>1, <1>5, HeldShrinks
  <2>. QED BY <1>1, <1>2, <1>3, <1>5, <2>1, SMTT(30)
<1>6. ASSUME UNCHANGED <<queue, sends, relayed, finals>> PROVE Goal
  BY <1>0, <1>4, <1>6, HeldKept DEF H, K
<1>7. ASSUME NEW r \in Request, ReceiveUdp(r) \/ ReceiveTcp(r) PROVE Goal
  <2>1. finals'[a] = finals[a] /\ sends' = [sends EXCEPT ![r] = @ + 1]
    BY <1>7 DEF ReceiveUdp, ReceiveTcp, out
  <2>2. sends'[a] = IF a = r THEN sends[a] + 1 ELSE sends[a]
    BY <1>0, <2>1 DEF Types
  <2>3. CASE K \subseteq H
    <3>1. IsFiniteSet(K) /\ Cardinality(K) \in Nat /\ Cardinality(K) <= Cardinality(H)
      BY <1>1, <2>3, HeldShrinks
    <3>. QED BY <1>1, <1>2, <1>3, <2>1, <2>2, <3>1
  <2>4. ASSUME NEW x, K \subseteq H \cup {x}, a = r PROVE Goal
    <3>1. IsFiniteSet(H \cup {x}) /\ Cardinality(H \cup {x}) <= Cardinality(H) + 1 /\ Cardinality(H \cup {x}) \in Nat
      <4>1. IsFiniteSet(H \cup {x}) /\ Cardinality(H \cup {x}) = IF x \in H THEN Cardinality(H) ELSE Cardinality(H) + 1
        BY <1>1, FS_AddElement
      <4>. QED BY <1>2, <4>1
    <3>2. IsFiniteSet(K) /\ Cardinality(K) \in Nat /\ Cardinality(K) <= Cardinality(H \cup {x})
      BY <2>4, <3>1, HeldShrinks
    <3>. QED BY <1>1, <1>2, <1>3, <2>1, <2>2, <2>4, <3>1, <3>2
  <2>. QED BY <1>0, <1>7, <2>3, <2>4, HeldReceive DEF H, K
<1>8. ASSUME NEW t \in Task, Take(t) PROVE Goal
  <2>. DEFINE r == NextMessage(t)
  <2>1. r \in Request /\ Sent(r)
    BY <1>0, <1>8, NextIsSent DEF AllSent
  <2>2. sends'[a] = sends[a] /\ (UNCHANGED out \/ Relay(r, r, FALSE)
           \/ (task' = task /\ final[r] # NoRequest /\ Relay(r, final[r], TRUE)))
    BY <1>8, TakeRelays
  <2>3. task[t] = NoJob /\ task[t].req = NoRequest
    BY <1>0, <1>8, NoJobFacts DEF Take, Types, TasksShaped, Shaped
  <2>4. \A u \in Task \ {t} : task'[u] = task[u]
    <3>1. ASSUME NEW u \in Task \ {t} PROVE task'[u] = task[u]
      BY <1>0, <1>8 DEF Take, Types
    <3>. QED BY <3>1
  <2>5. task'[t].req \in {NoRequest, r}
    <3>1. CASE task' = task
      BY <2>3, <3>1
    <3>2. CASE task'[t] = NoJob \/ Refused(t) \/ Begun(t)
      BY <3>2, NoJobFacts DEF Refused, Begun, Doing
    <3>3. ~Advanced(t)
      BY <1>8 DEF Take, Advanced
    <3>. QED BY <1>0, <2>3, <3>2, <3>3, TaskMoves DEF Still
  <2>6. /\ IsFiniteSet(K) /\ Cardinality(K) \in Nat /\ Cardinality(K) <= Cardinality(H)
        /\ a = r /\ task'[t].req = NoRequest => Cardinality(K) + 1 <= Cardinality(H)
    <3>1. PICK tasks : tasks = task'
      OBVIOUS
    <3>. QED BY <1>0, <1>1, <1>8, <2>4, <2>5, <3>1, HeldTake DEF H, K
  <2>. HIDE DEF r
  <2>7. CASE finals'[a] = finals[a]
    BY <1>1, <1>2, <1>3, <2>2, <2>6, <2>7
  <2>8. CASE task' = task /\ final[r] # NoRequest /\ Relay(r, final[r], TRUE)
    <3>1. PICK b \in Request : b = final[r] /\ Own(r, b) /\ Relay(r, b, TRUE)
      BY <1>0, <2>1, <2>8 DEF FinalOwn, Own
    <3>2. finals'[a] = IF a = b THEN finals[a] + 1 ELSE finals[a]
      BY <1>0, <2>1, <3>1, RelayCount, ZenonT(60)
    <3>3. ASSUME ~Followed(a), a = b PROVE a = r
      BY <2>1, <3>1, <3>3, SameRequest
    <3>4. ASSUME ~Followed(a)' PROVE finals'[a] + Cardinality(K) <= sends'[a]
      <4>1. task'[t].req = NoRequest
        BY <2>3, <2>8
      <4>. QED BY <1>1, <1>2, <1>3, <2>2, <2>6, <3>2, <3>3, <3>4, <4>1, SMTT(30)
    <3>. QED BY <2>6, <3>4
  <2>9. UNCHANGED out \/ Relay(r, r, FALSE) => finals'[a] = finals[a]
    BY <1>0, <2>1, RelayCount
  <2>. QED BY <2>2, <2>7, <2>8, <2>9
<1>9. ASSUME NEW t \in Task, task[t].pc # "idle", task' = [task EXCEPT ![t] = NoJob], queue' = queue, sends' = sends,
             NEW r \in Request, r = task[t].req, NEW b \in Request, Own(r, b), Relay(r, b, TRUE)
      PROVE  Goal
  <2>1. finals'[a] = IF a = b THEN finals[a] + 1 ELSE finals[a]
    BY <1>0, <1>9, RelayCount, ZenonT(60)
  <2>2. K \subseteq H
    BY <1>0, <1>9, HeldKept DEF H, K
  <2>3. CASE a # b
    BY <1>4, <1>9, <2>1, <2>2, <2>3
  <2>4. CASE a = b /\ ~Followed(a)
    <3>1. a = r
      <4>1. Sent(r)
        BY <1>0, <1>9 DEF AllSent, HandledSent
      <4>. QED BY <1>9, <2>4, <4>1, SameRequest
    <3>2. task'[t] = NoJob /\ a # NoRequest
      BY <1>0, <1>9, RequestFacts DEF Types
    <3>3. <<t, 0>> \in H
      BY <1>9, <3>1 DEF H, Held
    <3>4. <<t, 0>> \notin K
      BY <3>2, NoJobFacts DEF K, Held
    <3>. QED BY <1>5, <1>9, <2>1, <2>2, <2>4, <3>3, <3>4
  <2>5. CASE Followed(a)
    BY <1>1, <1>3, <2>2, <2>5, HeldShrinks
  <2>. QED BY <2>3, <2>4, <2>5
<1>10. ASSUME NEW t \in Task, RelayResponse(t) PROVE Goal
  <2>1. inbox[t] \in Seq(Answer) /\ inbox[t] # <<>> /\ task[t].pc = "wait" /\ UNCHANGED <<sends, queue>>
    BY <1>0, <1>10 DEF RelayResponse, Types
  <2>2. 1 \in 1..Len(inbox[t]) /\ Head(inbox[t]) = inbox[t][1] /\ Head(inbox[t]) \in Answer
    BY <2>1
  <2>3. Own(task[t].req, Head(inbox[t]).req)
    BY <1>0, <2>1, <2>2 DEF InboxOwn, Reading
  <2>4. PICK r \in Request, b \in Request : r = task[t].req /\ b = Head(inbox[t]).req /\ Own(r, b)
    BY <1>0, <2>1, <2>3 DEF Own, Types, TasksShaped, Shaped
  <2>5. CASE Head(inbox[t]).isFinal
    <3>1. Head(inbox[t]).isFinal = TRUE
      BY <2>2, <2>5 DEF Answer
    <3>2. Relay(r, b, TRUE) /\ task' = [task EXCEPT ![t] = NoJob]
      BY <1>10, <2>4, <2>5, <3>1 DEF RelayResponse, Relay
    <3>. HIDE DEF Goal
    <3>. QED BY <1>9, <2>1, <2>4, <3>2
  <2>6. CASE ~Head(inbox[t]).isFinal
    <3>1. finals' = finals /\ task' = task
      BY <1>10, <2>6 DEF RelayResponse, Relay
    <3>. QED BY <1>4, <2>1, <3>1 DEF H, K
  <2>. QED BY <2>5, <2>6
<1>11. ASSUME NEW t \in Task, RejectLocally(t), task[t].pc # "idle", UNCHANGED <<queue, sends>> PROVE Goal
  <2>1. PICK r \in Request : r = task[t].req /\ Sent(r) /\ Relay(r, r, TRUE)
    BY <1>0, <1>11 DEF Types, TasksShaped, Shaped, AllSent, HandledSent, RejectLocally
  <2>2. Own(r, r) /\ task' = [task EXCEPT ![t] = NoJob]
    BY <1>11, <2>1 DEF Own, RejectLocally
  <2>. HIDE DEF Goal
  <2>. QED BY <1>9, <1>11, <2>1, <2>2
<1>. HIDE DEF Goal
<1>12. Goal
  <2>1. CASE \E r \in Request : ReceiveUdp(r) \/ ReceiveTcp(r)
    BY <1>7, <2>1
  <2>2. CASE \E t \in Task : Take(t) \/ RelayResponse(t)
    BY <1>8, <1>10, <2>2
  <2>3. CASE \E t \in Task : /\ RejectLocally(t) /\ task[t].pc # "idle"
                            /\ UNCHANGED <<queue, sends>>
    BY <1>11, <2>3
  <2>. QED BY <1>6, <2>1, <2>2, <2>3, RelayKinds
<1>. QED BY <1>12 DEF Goal, K

\* Nothing is in hand at the start.
LEMMA RelayInit == Init => RelayInv
<1>. SUFFICES ASSUME Init PROVE RelayInv
  OBVIOUS
<1>1. Types /\ AllSent /\ BranchInv
  BY RouteInit DEF RouteInv
<1>2. \A t \in Task : task[t] = NoJob /\ queue[t] = <<>>
  BY DEF Init
<1>3. InboxOwn /\ FinalOwn
  BY <1>2, NoJobFacts DEF Init, InboxOwn, FinalOwn, Reading
<1>4. Counted
  <2>. SUFFICES ASSUME NEW a \in Request
                PROVE  IsFiniteSet(Outstanding(a)) /\ finals[a] + Cardinality(Outstanding(a)) <= sends[a]
    BY DEF Counted
  <2>1. \A t \in Task : 1..Len(queue[t]) = {} /\ task[t].req # a
    BY <1>2, NoJobFacts, RequestFacts
  <2>2. Outstanding(a) = {}
    BY <2>1 DEF Outstanding, Held
  <2>3. finals[a] = 0 /\ sends[a] = 0
    BY DEF Init
  <2>. QED BY <2>2, <2>3, FS_EmptySet
<1>. QED BY <1>1, <1>3, <1>4 DEF RelayInv

\* Every step keeps what the promise rests on.
LEMMA RelayInvStep ==
    ASSUME RelayInv, [Next]_vars
    PROVE  RelayInv'
<1>0. Types /\ AllSent /\ BranchInv /\ InboxOwn /\ FinalOwn
  BY DEF RelayInv
<1>. QED BY <1>0, TypeStep, AllSentStep, BranchInvStep, InboxOwnStep, FinalOwnStep, CountedStep DEF RelayInv

\* The way to a TCP upstream implements SipRelay: with connections that fail and are
\* replaced, two attempts, answers that come late, under a branch that a CANCEL shares, or
\* out of the cache, a client gets answers to its own requests only, and to a request that
\* nothing has followed no more final ones than it sent it.
THEOREM ImplementsSipRelay == Spec => RelaysAnswers
<1>1. Init => Abstract!Init
  BY DEF Init, Abstract!Init
<1>2. ASSUME RelayInv, [Next]_vars PROVE [Abstract!Next]_(Abstract!vars)
  <2>1. CASE UNCHANGED <<sends, relayed, finals>>
    BY <2>1 DEF Abstract!vars
  <2>2. ASSUME NEW r \in Request, sends' = [sends EXCEPT ![r] = @ + 1], UNCHANGED <<relayed, finals>>
        PROVE  Abstract!Next
    BY <2>2 DEF Abstract!Next, Abstract!Ask
  <2>3. ASSUME UNCHANGED sends, NEW r \in Request, NEW a \in Request, NEW isFinal \in BOOLEAN,
               Relay(r, a, isFinal), Own(r, a), Sent(r), isFinal /\ ~Followed(a) => finals[a] < sends[a]
        PROVE  Abstract!Next
    <3>1. Abstract!IsFollowed(a) <=> Followed(a)
      BY DEF Abstract!IsFollowed, Followed
    <3>2. Abstract!Deliver(r, a, isFinal)
      BY <2>3, <3>1 DEF Abstract!Deliver, Relay, Own, Sent
    <3>. QED BY <3>2 DEF Abstract!Next
  <2>. QED BY <1>2, <2>1, <2>2, <2>3, RelayStep
<1>. QED BY <1>1, <1>2, RelayInit, RelayInvStep, PTL DEF Spec, RelaysAnswers, Abstract!Spec

=============================================================================
