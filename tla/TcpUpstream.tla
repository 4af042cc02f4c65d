----------------------------- MODULE TcpUpstream -----------------------------
(***************************************************************************)
(* The way of a request to a TCP upstream in proxy/server.rs: the bounded  *)
(* queues of the UDP handler workers, one task per downstream TCP client,  *)
(* the pool of upstream connections with their reader tasks, the map from  *)
(* proxy branches to response channels, and the wait for the responses.    *)
(*                                                                         *)
(* One upstream address is modelled, the pool treating each on its own.    *)
(* Transactions, methods and requests are those of UdpForward, and what a  *)
(* worker does before it asks the pool for a connection is one step here.  *)
(* A branch's channel is named by the task that waits on it: a task waits  *)
(* on one channel at a time, and a new channel for a branch replaces the   *)
(* old one.  A task that has let go of its channel no longer reads it.     *)
(***************************************************************************)
EXTENDS Integers, Sequences, FiniteSets

CONSTANTS
    Worker,         \* UDP handler workers 0..n-1 of a socket
    UdpInvite, UdpOther,    \* transactions of UDP clients
    TcpInvite, TcpOther,    \* transactions of TCP clients, each with its connection
    FollowUp,       \* what a client may send after its INVITE: CANCEL, ACK
    QueueSize,      \* queue_size_per_worker
    MaxConn,        \* bound: upstream connections opened
    MaxBranch,      \* bound: proxy branches generated
    MaxSends,       \* bound: times a UDP client sends a request
    MaxFaults       \* bound: failed connects and writes, closed connections,
                    \* readers that give up, rejections, and branches that
                    \* outlive TCP_BRANCH_TTL

ASSUME TcpAssumption ==
    /\ IsFiniteSet(Worker) /\ Worker = 0..Cardinality(Worker) - 1 /\ Worker # {}
    /\ (UdpInvite \cup TcpInvite) \cap (UdpOther \cup TcpOther) = {}
    /\ (Worker \cup {-1}) \cap (TcpInvite \cup TcpOther) = {}
    /\ FollowUp \subseteq {"CANCEL", "ACK"}
    /\ {QueueSize, MaxSends} \subseteq Nat \ {0}
    /\ {MaxConn, MaxBranch, MaxFaults} \subseteq Nat

VARIABLES
    queue,          \* packets waiting for each task
    nextHandler,    \* where run_udp tries its next packet first
    task,           \* what each task is doing, see Job
    inbox,          \* responses in the channel each task reads
    pool,           \* the pooled connection, or 0
    conn,           \* upstream connections, see Connection
    routes,         \* per connection: branch -> the task whose channel it has
    received,       \* requests the upstream has got and not answered finally
    cached, final,  \* udp_client_transactions and their final responses
    inviteTx,       \* invite_transactions: branch of an INVITE, or 0
    rejections,     \* local_invite_rejections
    nextBranch,     \* unique_id()
    relayed,        \* responses clients have got
    finals,         \* how many final responses each request has got
    sends,          \* how often each request has been sent
    faults, pruned

clients == <<cached, final, inviteTx, rejections, nextBranch>>
sockets == <<pool, conn, routes, received>>
out     == <<relayed, finals>>
bounds  == <<faults, pruned>>
vars    == <<queue, nextHandler, task, inbox, sockets, clients, out, sends, bounds>>

Invite  == UdpInvite \cup TcpInvite
Client  == TcpInvite \cup TcpOther
Task    == Worker \cup Client
Request == [txn : Invite, method : {"INVITE"} \cup FollowUp]
              \cup [txn : UdpOther \cup TcpOther, method : {"OTHER"}]
Conn    == 1..MaxConn
Branch  == 1..MaxBranch
NoRequest == [txn |-> "none", method |-> "none"]
NoTask    == -1
OverTcp(r) == r.txn \in Client

\* What a task does, for which request, under which branch, on which connection, and in
\* which attempt.
Doing(pc, r, b, c, n) == [pc |-> pc, req |-> r, branch |-> b, conn |-> c, attempt |-> n]
NoJob == Doing("idle", NoRequest, 0, 0, 0)
SendSteps == {"get", "connect", "pool", "check", "insert", "write", "evict", "failed", "record"}
Job == [pc : {"idle", "wait", "reject"} \cup SendSteps, req : Request \cup {NoRequest},
        branch : 0..MaxBranch, conn : 0..MaxConn, attempt : 0..2]
Answer == [req : Request, isFinal : BOOLEAN]

\* TcpUpstreamConnection: the socket ("unread" when it is open and its reader has
\* given up), the flag alive, the reader's end, and whether a write that timed out
\* has left part of a message on the stream.
Connection == [sock : {"none", "open", "unread", "closed"}, alive : BOOLEAN,
               cleared : BOOLEAN, garbled : BOOLEAN]
NoConnection == [sock |-> "none", alive |-> FALSE, cleared |-> FALSE, garbled |-> FALSE]
Connected    == [sock |-> "open", alive |-> TRUE, cleared |-> FALSE, garbled |-> FALSE]

TypeOK ==
    /\ queue \in [Task -> Seq(Request)] /\ nextHandler \in Worker
    /\ \A w \in Worker : Len(queue[w]) <= QueueSize
    /\ task \in [Task -> Job] /\ inbox \in [Task -> Seq(Answer)]
    /\ pool \in 0..MaxConn /\ conn \in [Conn -> Connection]
    /\ routes \in [Conn -> [Branch -> Task \cup {NoTask}]]
    /\ received \subseteq [conn : Conn, branch : Branch, req : Request, rang : BOOLEAN]
    /\ cached \subseteq Request /\ final \in [Request -> Request \cup {NoRequest}]
    /\ inviteTx \in [Invite -> 0..MaxBranch] /\ rejections \subseteq Invite
    /\ nextBranch \in 1..MaxBranch + 1
    /\ relayed \subseteq [to : Request, answer : Request, isFinal : BOOLEAN]
    /\ finals \in [Request -> Nat] /\ sends \in [Request -> 0..MaxSends]
    /\ faults \in 0..MaxFaults /\ pruned \in BOOLEAN

Init ==
    /\ queue = [t \in Task |-> <<>>] /\ nextHandler = 0
    /\ task = [t \in Task |-> NoJob] /\ inbox = [t \in Task |-> <<>>]
    /\ pool = 0 /\ conn = [c \in Conn |-> NoConnection]
    /\ routes = [c \in Conn |-> [b \in Branch |-> NoTask]] /\ received = {}
    /\ cached = {} /\ final = [r \in Request |-> NoRequest]
    /\ inviteTx = [t \in Invite |-> 0] /\ rejections = {} /\ nextBranch = 1
    /\ relayed = {} /\ finals = [r \in Request |-> 0]
    /\ sends = [r \in Request |-> 0] /\ faults = 0 /\ pruned = FALSE

Fault == faults < MaxFaults /\ faults' = faults + 1 /\ UNCHANGED pruned

-----------------------------------------------------------------------------
(* Packets reach the tasks *)

InviteOf(t) == [txn |-> t, method |-> "INVITE"]
HasGot(t, isFinal) == \E d \in relayed : d.answer = InviteOf(t) /\ d.isFinal = isFinal
ClientMaySend(r) ==
    /\ sends[r] < (IF OverTcp(r) THEN 1 ELSE MaxSends)
    /\ r.method = "CANCEL" => HasGot(r.txn, FALSE)
    /\ r.method = "ACK" => HasGot(r.txn, TRUE)

\* try_send_udp_packet_to_handlers: the first queue with room, from nextHandler
\* on; with none the packet is dropped and the start moves on by one.
Handlers == Cardinality(Worker)
HandlerAt(offset) == (nextHandler + offset) % Handlers
HasRoom(w) == Len(queue[w]) < QueueSize
ReceiveUdp(r) ==
    /\ ~OverTcp(r) /\ ClientMaySend(r)
    /\ sends' = [sends EXCEPT ![r] = @ + 1]
    /\ IF \E w \in Worker : HasRoom(w)
         THEN \E offset \in Worker :
                /\ HasRoom(HandlerAt(offset))
                /\ \A before \in 0..offset - 1 : ~HasRoom(HandlerAt(before))
                /\ queue' = [queue EXCEPT ![HandlerAt(offset)] = Append(@, r)]
                /\ nextHandler' = HandlerAt(offset + 1)
         ELSE nextHandler' = HandlerAt(1) /\ UNCHANGED queue
    /\ UNCHANGED <<task, inbox, sockets, clients, out, bounds>>

\* A TCP client's requests wait on its stream.
ReceiveTcp(r) ==
    /\ OverTcp(r) /\ ClientMaySend(r)
    /\ sends' = [sends EXCEPT ![r] = @ + 1]
    /\ queue' = [queue EXCEPT ![r.txn] = Append(@, r)]
    /\ UNCHANGED <<nextHandler, task, inbox, sockets, clients, out, bounds>>

-----------------------------------------------------------------------------
(* A task handles a request *)

Goto(t, pc) == task' = [task EXCEPT ![t].pc = pc]
Relay(r, answer, isFinal) ==
    /\ relayed' = relayed \cup {[to |-> r, answer |-> answer, isFinal |-> isFinal]}
    /\ finals' = IF isFinal THEN [finals EXCEPT ![answer] = @ + 1] ELSE finals
SendTrying(r) ==
    IF r.method = "INVITE" /\ ~OverTcp(r) THEN Relay(r, r, FALSE) ELSE UNCHANGED out

\* The 503, or another local answer; the rejection of an INVITE is remembered.
RejectLocally(t) ==
    LET r == task[t].req IN
    /\ rejections' = IF r.method = "INVITE" THEN rejections \cup {r.txn} ELSE rejections
    /\ Relay(r, r, TRUE)
    /\ task' = [task EXCEPT ![t] = NoJob]

ConsumesRejection(r) == r.method = "ACK" /\ r.txn \in rejections
Absorbs(r) == ~OverTcp(r) /\ r \in cached
FollowsInvite(r) == r.method \in {"CANCEL", "ACK"} /\ inviteTx[r.txn] # 0

\* A worker takes one packet at a time off its queue, a TCP client's task one
\* message at a time off its stream.
NextMessage(t) == Head(queue[t])

\* handle_udp_packet and handle_tcp_packet up to the pool: the ACK of a local
\* rejection, the limits and policies, the client transaction cache, the branch.
Take(t) ==
    LET r == NextMessage(t) IN
    /\ task[t].pc = "idle" /\ queue[t] # <<>>
    /\ queue' = [queue EXCEPT ![t] = Tail(@)]
    /\ \/ /\ ConsumesRejection(r)
          /\ rejections' = rejections \ {r.txn}
          /\ UNCHANGED <<task, cached, final, inviteTx, nextBranch, out, bounds>>
       \/ /\ ~ConsumesRejection(r) /\ Fault
          /\ task' = [task EXCEPT ![t] = Doing("reject", r, 0, 0, 0)]
          /\ UNCHANGED <<clients, out>>
       \/ /\ ~ConsumesRejection(r) /\ Absorbs(r)
          /\ IF final[r] # NoRequest THEN Relay(r, final[r], TRUE) ELSE SendTrying(r)
          /\ UNCHANGED <<task, clients, bounds>>
       \/ /\ ~ConsumesRejection(r) /\ ~Absorbs(r)
          /\ FollowsInvite(r) \/ nextBranch <= MaxBranch
          /\ nextBranch' = IF FollowsInvite(r) THEN nextBranch ELSE nextBranch + 1
          /\ task' = [task EXCEPT ![t] =
                        Doing("get", r, IF FollowsInvite(r) THEN inviteTx[r.txn] ELSE nextBranch, 0, 1)]
          /\ SendTrying(r)
          /\ UNCHANGED <<cached, final, inviteTx, rejections, bounds>>
    /\ UNCHANGED <<nextHandler, inbox, sockets, sends>>

\* get_or_connect
GetConnection(t) ==
    LET j == task[t] IN
    /\ j.pc = "get"
    /\ IF pool # 0 /\ conn[pool].alive
         THEN task' = [task EXCEPT ![t] = Doing("check", j.req, j.branch, pool, j.attempt)]
         ELSE Goto(t, "connect")
    /\ UNCHANGED <<queue, nextHandler, inbox, sockets, clients, out, sends, bounds>>

Connect(t) ==
    LET j == task[t] IN
    /\ j.pc = "connect"
    /\ \E c \in Conn :
         /\ conn[c].sock = "none" /\ \A d \in 1..c - 1 : conn[d].sock # "none"
         /\ conn' = [conn EXCEPT ![c] = Connected]
         /\ task' = [task EXCEPT ![t] = Doing("pool", j.req, j.branch, c, j.attempt)]
    /\ UNCHANGED <<queue, nextHandler, inbox, pool, routes, received, clients, out, sends, bounds>>

\* A connect that is refused or takes UPSTREAM_TIMEOUT ends send_request at once.
ConnectFails(t) ==
    /\ task[t].pc = "connect"
    /\ Fault \/ ((\A c \in Conn : conn[c].sock # "none") /\ UNCHANGED bounds)
    /\ Goto(t, "failed")
    /\ UNCHANGED <<queue, nextHandler, inbox, sockets, clients, out, sends>>

PoolInsert(t) ==
    /\ task[t].pc = "pool"
    /\ pool' = task[t].conn
    /\ Goto(t, "check")
    /\ UNCHANGED <<queue, nextHandler, inbox, conn, routes, received, clients, out, sends, bounds>>

\* TcpUpstreamConnection::send_request: alive?, the channel, the write.
CheckAlive(t) ==
    /\ task[t].pc = "check"
    /\ Goto(t, IF conn[task[t].conn].alive THEN "insert" ELSE "evict")
    /\ UNCHANGED <<queue, nextHandler, inbox, sockets, clients, out, sends, bounds>>

WithRoute(c, b, t) == [routes EXCEPT ![c] = [routes[c] EXCEPT ![b] = t]]
InsertRoute(t) ==
    LET j == task[t] IN
    /\ j.pc = "insert"
    /\ routes' = WithRoute(j.conn, j.branch, t)
    /\ inbox' = [inbox EXCEPT ![t] = <<>>]
    /\ Goto(t, "write")
    /\ UNCHANGED <<queue, nextHandler, pool, conn, received, clients, out, sends, bounds>>

\* What is written on a closed or broken stream does not arrive; that nobody reads
\* the answers does not keep a request from arriving.
Write(t) ==
    LET j == task[t] IN
    /\ j.pc = "write"
    /\ received' = IF conn[j.conn].sock \in {"open", "unread"} /\ ~conn[j.conn].garbled
                     THEN received \cup {[conn |-> j.conn, branch |-> j.branch, req |-> j.req, rang |-> FALSE]}
                     ELSE received
    /\ Goto(t, "record")
    /\ UNCHANGED <<queue, nextHandler, inbox, pool, conn, routes, clients, out, sends, bounds>>

\* A write on a socket the peer has closed may fail: whatever channel the branch
\* has goes, and the connection is dead.
WriteFails(t) ==
    LET j == task[t] IN
    /\ j.pc = "write" /\ conn[j.conn].sock = "closed"
    /\ routes' = WithRoute(j.conn, j.branch, NoTask)
    /\ conn' = [conn EXCEPT ![j.conn].alive = FALSE]
    /\ Goto(t, "evict")
    /\ UNCHANGED <<queue, nextHandler, inbox, pool, received, clients, out, sends, bounds>>

\* A write that times out leaves the channel, and the connection alive.
WriteTimesOut(t) ==
    /\ task[t].pc = "write" /\ Fault
    /\ conn' = [conn EXCEPT ![task[t].conn].garbled = TRUE]
    /\ Goto(t, "evict")
    /\ UNCHANGED <<queue, nextHandler, inbox, pool, routes, received, clients, out, sends>>

\* Two attempts are made.
NextAttempt(j) ==
    IF j.attempt = 2 THEN Doing("failed", j.req, j.branch, j.conn, 2)
                     ELSE Doing("get", j.req, j.branch, j.conn, j.attempt + 1)

\* Variant: a failed attempt takes whatever is pooled.
EvictAny(t) ==
    LET j == task[t] IN
    /\ j.pc = "evict"
    /\ pool' = 0
    /\ task' = [task EXCEPT ![t] = NextAttempt(j)]
    /\ UNCHANGED <<queue, nextHandler, inbox, conn, routes, received, clients, out, sends, bounds>>

\* remove_if_same, then the next attempt.
Evict(t) ==
    LET j == task[t] IN
    /\ j.pc = "evict"
    /\ pool' = IF pool = j.conn THEN 0 ELSE pool
    /\ task' = [task EXCEPT ![t] = NextAttempt(j)]
    /\ UNCHANGED <<queue, nextHandler, inbox, conn, routes, received, clients, out, sends, bounds>>

\* A request that could not be sent leaves the cache.
SendFailed(t) ==
    LET r == task[t].req IN
    /\ task[t].pc = "failed"
    /\ cached' = IF OverTcp(r) THEN cached ELSE cached \ {r}
    /\ RejectLocally(t)
    /\ UNCHANGED <<queue, nextHandler, inbox, sockets, final, inviteTx, nextBranch, sends, bounds>>

\* remember_udp_client_transaction and remember_successful_forward
Record(t) ==
    LET j == task[t] IN
    /\ j.pc = "record"
    /\ IF OverTcp(j.req) THEN UNCHANGED <<cached, final>>
       ELSE cached' = cached \cup {j.req} /\ final' = [final EXCEPT ![j.req] = NoRequest]
    /\ inviteTx' = IF j.req.method = "INVITE" THEN [inviteTx EXCEPT ![j.req.txn] = j.branch]
                                              ELSE inviteTx
    /\ Goto(t, "wait")
    /\ UNCHANGED <<queue, nextHandler, inbox, sockets, rejections, nextBranch, out, sends, bounds>>

Reject(t) ==
    /\ task[t].pc = "reject"
    /\ RejectLocally(t)
    /\ UNCHANGED <<queue, nextHandler, inbox, sockets, cached, final, inviteTx, nextBranch,
                   sends, bounds>>

-----------------------------------------------------------------------------
(* Responses *)

\* Variant: the loop goes on after a final response.
RelayResponseAndStay(t) ==
    LET r == task[t].req
        answer == Head(inbox[t]) IN
    /\ task[t].pc = "wait" /\ inbox[t] # <<>>
    /\ inbox' = [inbox EXCEPT ![t] = Tail(@)]
    /\ Relay(r, answer.req, answer.isFinal)
    /\ UNCHANGED <<queue, nextHandler, task, sockets, clients, sends, bounds>>

\* recv_upstream_response and what becomes of the response.
RelayResponse(t) ==
    LET r == task[t].req
        answer == Head(inbox[t]) IN
    /\ task[t].pc = "wait" /\ inbox[t] # <<>>
    /\ inbox' = [inbox EXCEPT ![t] = Tail(@)]
    /\ final' = IF answer.isFinal /\ ~OverTcp(r) /\ r \in cached
                  THEN [final EXCEPT ![r] = answer.req] ELSE final
    /\ Relay(r, answer.req, answer.isFinal)
    /\ task' = IF answer.isFinal THEN [task EXCEPT ![t] = NoJob] ELSE task
    /\ UNCHANGED <<queue, nextHandler, sockets, cached, inviteTx, rejections, nextBranch,
                   sends, bounds>>

HasRoute(t) == task[t].conn # 0 /\ routes[task[t].conn][task[t].branch] = t
ChannelClosed(t) ==
    /\ task[t].pc = "wait" /\ inbox[t] = <<>> /\ ~HasRoute(t)
    /\ Goto(t, "reject")
    /\ UNCHANGED <<queue, nextHandler, inbox, sockets, clients, out, sends, bounds>>

\* Variant: an INVITE waits for ever.
ResponseTimesOutShort(t) ==
    /\ task[t].pc = "wait" /\ inbox[t] = <<>> /\ HasRoute(t)
    /\ task[t].req.method # "INVITE"
    /\ Goto(t, "reject")
    /\ UNCHANGED <<queue, nextHandler, inbox, sockets, clients, out, sends, bounds>>

\* 300 s for an INVITE, 5 s for the rest; the channel stays in the map.
ResponseTimesOut(t) ==
    /\ task[t].pc = "wait" /\ inbox[t] = <<>> /\ HasRoute(t)
    /\ Goto(t, "reject")
    /\ UNCHANGED <<queue, nextHandler, inbox, sockets, clients, out, sends, bounds>>

Reads(t, c, b) == task[t].conn = c /\ task[t].branch = b /\ task[t].pc \in {"write", "record", "wait"}

\* Variant: the first response, final or not, takes the channel.
TakesChannelAtOnce(isFinal) == TRUE
TakesChannel(isFinal) == isFinal

\* The upstream answers on the connection the request came by, an INVITE also
\* provisionally (once is enough here); the reader hands the response to the
\* branch's channel, and a final one takes the channel out of the map.
Dispatch(f, isFinal) ==
    LET t == routes[f.conn][f.branch] IN
    /\ conn[f.conn].sock = "open"
    /\ f.req.method # "ACK" /\ (isFinal \/ (f.req.method = "INVITE" /\ ~f.rang))
    /\ received' = (received \ {f}) \cup (IF isFinal THEN {} ELSE {[f EXCEPT !.rang = TRUE]})
    /\ inbox' = IF t # NoTask /\ Reads(t, f.conn, f.branch)
                  THEN [inbox EXCEPT ![t] = Append(@, [req |-> f.req, isFinal |-> isFinal])]
                  ELSE inbox
    /\ routes' = IF TakesChannel(isFinal) THEN WithRoute(f.conn, f.branch, NoTask) ELSE routes
    /\ UNCHANGED <<queue, nextHandler, task, pool, conn, clients, out, sends, bounds>>

\* The upstream closes a connection, with whatever it has not answered.
UpstreamCloses(c) ==
    /\ conn[c].sock \in {"open", "unread"} /\ Fault
    /\ conn' = [conn EXCEPT ![c].sock = "closed"]
    /\ received' = {f \in received : f.conn # c}
    /\ UNCHANGED <<queue, nextHandler, task, inbox, pool, routes, clients, out, sends>>

\* read_message meets a message it cannot decode or that is longer than
\* max_message_bytes: the reader leaves its loop, the socket is open still.
ReaderFails(c) ==
    /\ conn[c].sock = "open" /\ Fault
    /\ conn' = [conn EXCEPT ![c].sock = "unread"]
    /\ UNCHANGED <<queue, nextHandler, task, inbox, pool, routes, received, clients, out, sends>>

\* The end of run_tcp_upstream_reader, in two steps.
ReaderEnds(c) ==
    /\ conn[c].sock \in {"closed", "unread"}
    /\ \/ /\ conn[c].alive
          /\ conn' = [conn EXCEPT ![c].alive = FALSE]
          /\ UNCHANGED routes
       \/ /\ ~conn[c].alive /\ ~conn[c].cleared
          /\ conn' = [conn EXCEPT ![c].cleared = TRUE]
          /\ routes' = [routes EXCEPT ![c] = [b \in Branch |-> NoTask]]
    /\ UNCHANGED <<queue, nextHandler, task, inbox, pool, received, clients, out, sends, bounds>>

\* prune_tcp_branches, when a channel is older than its TTL.
PruneRoute(c, b) ==
    /\ routes[c][b] # NoTask /\ faults < MaxFaults
    /\ faults' = faults + 1 /\ pruned' = TRUE
    /\ routes' = WithRoute(c, b, NoTask)
    /\ UNCHANGED <<queue, nextHandler, task, inbox, pool, conn, received, clients, out, sends>>

-----------------------------------------------------------------------------

\* What a task does without the help of anybody.
TaskStep(t) ==
    \/ Take(t) \/ GetConnection(t) \/ Connect(t) \/ ConnectFails(t) \/ PoolInsert(t)
    \/ CheckAlive(t) \/ InsertRoute(t) \/ Write(t) \/ WriteFails(t) \/ WriteTimesOut(t)
    \/ Evict(t) \/ SendFailed(t) \/ Record(t) \/ Reject(t)
    \/ RelayResponse(t) \/ ChannelClosed(t) \/ ResponseTimesOut(t)

Next ==
    \/ \E r \in Request : ReceiveUdp(r) \/ ReceiveTcp(r)
    \/ \E t \in Task : TaskStep(t)
    \/ \E f \in received, isFinal \in BOOLEAN : Dispatch(f, isFinal)
    \/ \E c \in Conn : UpstreamCloses(c) \/ ReaderFails(c) \/ ReaderEnds(c)
    \/ \E c \in Conn, b \in Branch : PruneRoute(c, b)

Spec == Init /\ [][Next]_vars

\* Tasks are scheduled, timers fire, and a reader that has left its loop ends.
FairSpec ==
    /\ Spec
    /\ \A t \in Task : WF_vars(TaskStep(t))
    /\ \A c \in Conn : WF_vars(ReaderEnds(c))

-----------------------------------------------------------------------------
(* Properties *)

\* A task that waits for a request that the peer has and will answer, and that no
\* CANCEL or ACK has followed, has its channel in the map as long as the reader of
\* its connection is in its loop, with connections replaced in the pool, attempts on
\* two of them, and writes that time out: the answer will reach it.  Left out are a
\* reader that gave up on a message (it clears every channel of the connection, and
\* answers still to come are lost) and channels that outlived TCP_BRANCH_TTL (pruned).
Followed(r) ==
    \E q \in Request : q.txn = r.txn /\ q.method \in FollowUp /\ sends[q] > 0
UnfollowedWaiterHasRoute ==
    \A t \in Task, f \in received :
        (task[t].pc = "wait" /\ f.conn = task[t].conn /\ f.branch = task[t].branch
           /\ f.req = task[t].req /\ conn[f.conn].sock = "open" /\ ~pruned /\ ~Followed(f.req))
          => HasRoute(t)

\* Whatever happens to connections, branches and channels, a client gets answers to
\* its own requests only, and to a request that nothing has followed no more final
\* ones than it sent it: from the upstream, the cache, or as a local 503.
Abstract == INSTANCE SipRelay WITH sent <- sends, delivered <- relayed
RelaysAnswers == Abstract!Spec

\* A connection that works (the socket open, its reader in its loop, the flag alive,
\* no half message on the stream) is never taken out of the pool and left without a
\* successor: what a failed attempt evicts steps later, when other tasks may have
\* replaced the connection it failed on, has itself failed.
Works(c) == conn[c].sock = "open" /\ conn[c].alive /\ ~conn[c].garbled
WorkingConnectionStays == [][(pool # 0 /\ pool' = 0) => ~Works(pool)]_vars

\* Every task gets through its packets: no wait for a connection or a response,
\* lost channels included, is without end.
Settled(t) == task[t].pc = "idle" /\ queue[t] = <<>>
EveryTaskReturns == \A t \in Task : []<>Settled(t)
=============================================================================
