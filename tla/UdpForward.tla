----------------------------- MODULE UdpForward -----------------------------
(***************************************************************************)
(* The UDP path of proxy/server.rs: several handler workers of one socket  *)
(* take requests and responses off the wire, forward a request under a     *)
(* proxy Via branch, relay a response along the route kept for its branch, *)
(* absorb retransmissions with a cache of client transactions, and send    *)
(* CANCEL and ACK after their INVITE.                                      *)
(*                                                                         *)
(* A transaction stands for a client's peer address, Via branch, Call-ID   *)
(* and CSeq number; a request is a transaction and a method, CANCEL and    *)
(* ACK sharing their INVITE's transaction (the ACK of a non-2xx answer).   *)
(* "OTHER" is any other method.  The network may duplicate, reorder, delay *)
(* and lose: a worker may take up anything ever sent, any number of times  *)
(* or never.  Every lock is released before the next is taken, so a worker *)
(* may be overtaken between any two of its steps.                          *)
(***************************************************************************)
EXTENDS Integers, FiniteSets

CONSTANTS
    Invite,         \* INVITE transactions
    Other,          \* transactions of other methods
    FollowUp,       \* what a client may send after its INVITE: CANCEL, ACK
    Sessions,       \* sets of requests that the clients may come with together
    Upstream,       \* upstream servers that select_upstream or affinity may give
    Worker,         \* the udp_handler_workers_per_socket tasks of a socket
    CacheLimit,     \* udp_client_transaction_shard_limit
    MaxBranch,      \* bound: proxy branches generated
    MaxFaults       \* bound: failed sends to an upstream, requests rejected by
                    \* security, policy or hop count, map entries that outlive
                    \* their TTL of 300 s, and restarts, together

ASSUME UdpAssumption ==
    /\ Invite \cap Other = {}
    /\ FollowUp \subseteq {"CANCEL", "ACK"}
    /\ CacheLimit \in Nat \ {0}
    /\ MaxBranch \in Nat /\ MaxFaults \in Nat

VARIABLES
    session,        \* the requests the clients have in this behaviour
    job,            \* what each worker is doing, see Job
    nextBranch,     \* unique_id(): the branches below it have been given out
    branches,       \* udp_branches: who a branch's responses go back to
    cached,         \* keys of udp_client_transactions
    final,          \* their final_response: the request it answers, or NoRequest
    inviteTx,       \* invite_transactions
    rejections,     \* local_invite_rejections
    forwarded,      \* requests sent to an upstream
    relayed,        \* responses sent to clients
    sendFails, rejects, expired, restarts   \* how often each of them happened

tables == <<branches, cached, final, inviteTx, rejections>>
net    == <<session, forwarded, relayed>>
bounds == <<sendFails, rejects, expired, restarts>>
vars   == <<job, nextBranch, tables, net, bounds>>

Txn     == Invite \cup Other
Request == [txn : Invite, method : {"INVITE"} \cup FollowUp] \cup [txn : Other, method : {"OTHER"}]
Branch  == 1..MaxBranch

ASSUME SessionAssumption == \A s \in Sessions : s \subseteq Request

NoRequest  == [txn |-> "none", method |-> "none"]
NoUpstream == "none"
NoRoute    == [req |-> NoRequest, up |-> NoUpstream]
Route      == [req : Request, up : Upstream] \cup {NoRoute}
NoInvite   == [branch |-> 0, up |-> NoUpstream]

\* What a worker holds: the request in hand, or the request of the route it has
\* looked up for a response, and the request that response answers.
Handling(pc, r, b, u) ==
    [pc |-> pc, req |-> r, branch |-> b, up |-> u, answer |-> NoRequest, isFinal |-> FALSE]
NoJob == Handling("idle", NoRequest, 0, NoUpstream)
RequestSteps  == {"lookup", "prepare", "insert", "remember", "send", "record", "undo", "reject"}
ResponseSteps == {"cache", "relay", "unroute"}
Job == [pc : {"idle"} \cup RequestSteps \cup ResponseSteps, req : Request \cup {NoRequest},
        branch : 0..MaxBranch, up : Upstream \cup {NoUpstream},
        answer : Request \cup {NoRequest}, isFinal : BOOLEAN]

Forward  == [branch : Branch, req : Request, up : Upstream]
Delivery == [to : Txn, answer : Request, isFinal : BOOLEAN]

TypeOK ==
    /\ session \in SUBSET Request
    /\ job \in [Worker -> Job]
    /\ nextBranch \in 1..MaxBranch + 1
    /\ branches \in [Branch -> Route]
    /\ cached \subseteq Request
    /\ final \in [Request -> Request \cup {NoRequest}]
    /\ inviteTx \in [Invite -> [branch : Branch, up : Upstream] \cup {NoInvite}]
    /\ rejections \subseteq Invite
    /\ forwarded \subseteq Forward
    /\ relayed \subseteq Delivery
    /\ {sendFails, rejects, expired, restarts} \subseteq 0..MaxFaults

Init ==
    /\ session \in Sessions
    /\ job = [w \in Worker |-> NoJob] /\ nextBranch = 1
    /\ branches = [b \in Branch |-> NoRoute]
    /\ cached = {} /\ final = [r \in Request |-> NoRequest]
    /\ inviteTx = [t \in Invite |-> NoInvite] /\ rejections = {}
    /\ forwarded = {} /\ relayed = {}
    /\ sendFails = 0 /\ rejects = 0 /\ expired = 0 /\ restarts = 0

-----------------------------------------------------------------------------
(* Clients and upstreams *)

InviteOf(t) == [txn |-> t, method |-> "INVITE"]
HasGot(t, isFinal) == [to |-> t, answer |-> InviteOf(t), isFinal |-> isFinal] \in relayed

\* A client cancels an INVITE that has been answered provisionally (the final
\* response may be on its way) and acknowledges a final response.
ClientMaySend(r) ==
    /\ r \in session
    /\ r.method = "CANCEL" => HasGot(r.txn, FALSE)
    /\ r.method = "ACK" => HasGot(r.txn, TRUE)

\* An upstream answers what it was sent, an INVITE also provisionally.
UpstreamMayAnswer(f, isFinal) ==
    f.req.method # "ACK" /\ (isFinal \/ f.req.method = "INVITE")

-----------------------------------------------------------------------------
(* A request *)

MayFail == sendFails + rejects + expired + restarts < MaxFaults

Goto(w, pc) == job' = [job EXCEPT ![w].pc = pc]
Finish(w)   == job' = [job EXCEPT ![w] = NoJob]
Send(to, answer, isFinal) ==
    relayed' = relayed \cup {[to |-> to, answer |-> answer, isFinal |-> isFinal]}

\* The 100 Trying a UDP client gets from the proxy for its INVITE.
SendTrying(r) == IF r.method = "INVITE" THEN Send(r.txn, r, FALSE) ELSE UNCHANGED relayed

\* handle_udp_packet up to the first await that matters: an ACK consumes the
\* rejection of its INVITE, and goes no further.
Receive(w, r) ==
    /\ job[w].pc = "idle" /\ ClientMaySend(r)
    /\ ~(r.method = "ACK" /\ r.txn \in rejections)
    /\ job' = [job EXCEPT ![w] = Handling("lookup", r, 0, NoUpstream)]
    /\ UNCHANGED <<nextBranch, tables, net, bounds>>

ConsumeLocalInviteAck(w, r) ==
    /\ job[w].pc = "idle" /\ ClientMaySend(r)
    /\ r.method = "ACK" /\ r.txn \in rejections
    /\ rejections' = rejections \ {r.txn}
    /\ UNCHANGED <<job, nextBranch, branches, cached, final, inviteTx, net, bounds>>

\* A request over a limit (503), against policy (403) or out of hops (483, 400).
RejectRequest(w) ==
    /\ job[w].pc = "lookup"
    /\ MayFail
    /\ rejects' = rejects + 1
    /\ Goto(w, "reject")
    /\ UNCHANGED <<nextBranch, tables, net, sendFails, expired, restarts>>

\* The local answer, also the 503 of a forward that failed; an INVITE's rejection
\* is remembered first.
SendRejection(w) ==
    LET r == job[w].req IN
    /\ job[w].pc = "reject"
    /\ rejections' = IF r.method = "INVITE" THEN rejections \cup {r.txn} ELSE rejections
    /\ Send(r.txn, r, TRUE)
    /\ Finish(w)
    /\ UNCHANGED <<nextBranch, branches, cached, final, inviteTx, session, forwarded, bounds>>

\* forward_udp: a retransmission is answered with the cached final response, or
\* absorbed (an INVITE gets another 100).
LookupHit(w) ==
    LET r == job[w].req IN
    /\ job[w].pc = "lookup" /\ r \in cached
    /\ IF final[r] # NoRequest THEN Send(r.txn, final[r], TRUE) ELSE SendTrying(r)
    /\ Finish(w)
    /\ UNCHANGED <<nextBranch, tables, session, forwarded, bounds>>

LookupMiss(w) ==
    /\ job[w].pc = "lookup" /\ job[w].req \notin cached
    /\ Goto(w, "prepare")
    /\ UNCHANGED <<nextBranch, tables, net, bounds>>

\* Variant: only CANCEL follows its INVITE.
CancelFollowsInvite(r) == r.method = "CANCEL" /\ inviteTx[r.txn] # NoInvite

\* prepare_forward: CANCEL and ACK reuse the upstream and the branch recorded for
\* their INVITE; everything else gets an upstream of its own and a new branch.
FollowsInvite(r) == r.method \in {"CANCEL", "ACK"} /\ inviteTx[r.txn] # NoInvite

\* Variant: the branch counter does not advance.
PrepareForwardSameBranch(w) ==
    /\ job[w].pc = "prepare"
    /\ \E u \in Upstream : job' = [job EXCEPT ![w] = Handling("insert", job[w].req, nextBranch, u)]
    /\ SendTrying(job[w].req)
    /\ UNCHANGED <<nextBranch, tables, session, forwarded, bounds>>

PrepareForward(w) ==
    LET r == job[w].req IN
    /\ job[w].pc = "prepare"
    /\ \/ /\ FollowsInvite(r)
          /\ job' = [job EXCEPT ![w] = Handling("insert", r, inviteTx[r.txn].branch, inviteTx[r.txn].up)]
          /\ UNCHANGED nextBranch
       \/ /\ ~FollowsInvite(r)
          /\ nextBranch <= MaxBranch
          /\ nextBranch' = nextBranch + 1
          /\ \E u \in Upstream : job' = [job EXCEPT ![w] = Handling("insert", r, nextBranch, u)]
    /\ SendTrying(r)
    /\ UNCHANGED <<tables, session, forwarded, bounds>>

InsertBranch(w) ==
    /\ job[w].pc = "insert"
    /\ branches' = [branches EXCEPT ![job[w].branch] = [req |-> job[w].req, up |-> job[w].up]]
    /\ Goto(w, "remember")
    /\ UNCHANGED <<nextBranch, cached, final, inviteTx, rejections, net, bounds>>

\* remember_udp_client_transaction: over the limit, the oldest entry of the shard
\* goes.  Which entries share a shard is up to the hash of their keys, so any
\* entry but the new one may be the one.
RememberClient(w) ==
    LET r == job[w].req IN
    /\ job[w].pc = "remember"
    /\ final' = [final EXCEPT ![r] = NoRequest]
    /\ IF Cardinality(cached \cup {r}) <= CacheLimit
         THEN cached' = cached \cup {r}
         ELSE \E oldest \in cached \ {r} : cached' = (cached \cup {r}) \ {oldest}
    /\ Goto(w, "send")
    /\ UNCHANGED <<nextBranch, branches, inviteTx, rejections, net, bounds>>

SendUpstream(w) ==
    LET j == job[w] IN
    /\ j.pc = "send"
    /\ forwarded' = forwarded \cup {[branch |-> j.branch, req |-> j.req, up |-> j.up]}
    /\ Goto(w, "record")
    /\ UNCHANGED <<nextBranch, tables, session, relayed, bounds>>

\* A failed send takes back the route, then the cache entry, then answers 503.
SendUpstreamFails(w) ==
    /\ job[w].pc = "send"
    /\ MayFail
    /\ sendFails' = sendFails + 1
    /\ branches' = [branches EXCEPT ![job[w].branch] = NoRoute]
    /\ Goto(w, "undo")
    /\ UNCHANGED <<nextBranch, cached, final, inviteTx, rejections, net, rejects, expired, restarts>>

\* Variant: the cache entry outlives the failed send.
ForgetNothing(w) ==
    /\ job[w].pc = "undo"
    /\ Goto(w, "reject")
    /\ UNCHANGED <<nextBranch, tables, net, bounds>>

ForgetClient(w) ==
    /\ job[w].pc = "undo"
    /\ cached' = cached \ {job[w].req}
    /\ Goto(w, "reject")
    /\ UNCHANGED <<nextBranch, branches, final, inviteTx, rejections, net, bounds>>

\* remember_successful_forward
RememberForward(w) ==
    LET j == job[w] IN
    /\ j.pc = "record"
    /\ inviteTx' = IF j.req.method = "INVITE"
                     THEN [inviteTx EXCEPT ![j.req.txn] = [branch |-> j.branch, up |-> j.up]]
                     ELSE inviteTx
    /\ Finish(w)
    /\ UNCHANGED <<nextBranch, branches, cached, final, rejections, net, bounds>>

-----------------------------------------------------------------------------
(* A response *)

\* handle_udp_response: the route is copied under its lock; without one the
\* response is dropped.
ReceiveResponse(w, f, isFinal) ==
    /\ job[w].pc = "idle" /\ UpstreamMayAnswer(f, isFinal)
    /\ branches[f.branch] # NoRoute
    /\ job' = [job EXCEPT ![w] =
                 [pc |-> "cache", req |-> branches[f.branch].req, branch |-> f.branch,
                  up |-> branches[f.branch].up, answer |-> f.req, isFinal |-> isFinal]]
    /\ UNCHANGED <<nextBranch, tables, net, bounds>>

\* Variant: a cache key without the method.
CacheFinalForAllMethods(w) ==
    LET j == job[w] IN
    /\ j.pc = "cache"
    /\ final' = [r \in Request |-> IF j.isFinal /\ r \in cached /\ r.txn = j.req.txn
                                     THEN j.answer ELSE final[r]]
    /\ Goto(w, "relay")
    /\ UNCHANGED <<nextBranch, branches, cached, inviteTx, rejections, net, bounds>>

\* remember_udp_client_transaction_final_response, if the entry is still there.
CacheFinal(w) ==
    LET j == job[w] IN
    /\ j.pc = "cache"
    /\ final' = IF j.isFinal /\ j.req \in cached
                  THEN [final EXCEPT ![j.req] = j.answer] ELSE final
    /\ Goto(w, "relay")
    /\ UNCHANGED <<nextBranch, branches, cached, inviteTx, rejections, net, bounds>>

\* Variant: the first response removes the route.
RemovesRouteAtOnce(j) == TRUE

\* The response goes to route.client_peer; remove_on_final is method # "INVITE".
RemovesRoute(j) == j.isFinal /\ j.req.method # "INVITE"

Relay(w) ==
    LET j == job[w] IN
    /\ j.pc = "relay"
    /\ Send(j.req.txn, j.answer, j.isFinal)
    /\ IF RemovesRoute(j) THEN Goto(w, "unroute") ELSE Finish(w)
    /\ UNCHANGED <<nextBranch, tables, session, forwarded, bounds>>

RemoveBranch(w) ==
    /\ job[w].pc = "unroute"
    /\ branches' = [branches EXCEPT ![job[w].branch] = NoRoute]
    /\ Finish(w)
    /\ UNCHANGED <<nextBranch, cached, final, inviteTx, rejections, net, bounds>>

\* The prune_* functions, whenever a map is next used after the TTL of an entry.
Expire ==
    /\ MayFail
    /\ expired' = expired + 1
    /\ \/ /\ \E b \in Branch : branches' = [branches EXCEPT ![b] = NoRoute]
          /\ UNCHANGED <<cached, inviteTx, rejections>>
       \/ /\ \E r \in cached : cached' = cached \ {r}
          /\ UNCHANGED <<branches, inviteTx, rejections>>
       \/ /\ \E t \in Invite : inviteTx' = [inviteTx EXCEPT ![t] = NoInvite]
          /\ UNCHANGED <<branches, cached, rejections>>
       \/ /\ \E t \in rejections : rejections' = rejections \ {t}
          /\ UNCHANGED <<branches, cached, inviteTx>>
    /\ UNCHANGED <<job, nextBranch, final, net, sendFails, rejects, restarts>>

\* A restart of the process forgets every map, and NEXT_ID starts at 1 again.
Restart ==
    /\ MayFail
    /\ restarts' = restarts + 1
    /\ job' = [w \in Worker |-> NoJob] /\ nextBranch' = 1
    /\ branches' = [b \in Branch |-> NoRoute]
    /\ cached' = {} /\ final' = [r \in Request |-> NoRequest]
    /\ inviteTx' = [t \in Invite |-> NoInvite] /\ rejections' = {}
    /\ UNCHANGED <<net, sendFails, rejects, expired>>

-----------------------------------------------------------------------------

WorkerStep(w) ==
    \/ RejectRequest(w) \/ SendRejection(w) \/ LookupHit(w) \/ LookupMiss(w)
    \/ PrepareForward(w) \/ InsertBranch(w) \/ RememberClient(w) \/ SendUpstream(w)
    \/ SendUpstreamFails(w) \/ ForgetClient(w) \/ RememberForward(w)
    \/ CacheFinal(w) \/ Relay(w) \/ RemoveBranch(w)

Next ==
    \/ \E w \in Worker, r \in Request : Receive(w, r) \/ ConsumeLocalInviteAck(w, r)
    \/ \E w \in Worker, f \in forwarded, isFinal \in BOOLEAN : ReceiveResponse(w, f, isFinal)
    \/ \E w \in Worker : WorkerStep(w)
    \/ Expire \/ Restart

Spec == Init /\ [][Next]_vars

-----------------------------------------------------------------------------
(* Properties *)

\* Until the process is restarted, which makes branch numbers repeat, a client only
\* ever gets responses to its own requests, whatever is duplicated, replayed from
\* the cache, evicted, expired or relayed along a shared branch.
ResponsesGoHome == restarts = 0 => \A d \in relayed : d.answer.txn = d.to

\* Until the process is restarted, a final response kept for replay answers the
\* client's own transaction, and one kept under an INVITE or another request that
\* begins a transaction answers that very request, never the CANCEL or ACK that has
\* taken over its branch.  The reverse is not said, as it is not so: forward_udp
\* gives the INVITE's branch to the CANCEL or ACK, and a final response to the
\* INVITE that arrives then is kept under, and replayed for, the follow-up.
CachedFinalIsOwn ==
    restarts = 0 =>
        \A r \in Request : final[r] # NoRequest =>
            /\ final[r].txn = r.txn
            /\ r.method \notin FollowUp => final[r] = r

HandlesRequest(w, r) == job[w].pc \in RequestSteps /\ job[w].req = r
HandlesFinal(w, f) ==
    /\ job[w].pc \in ResponseSteps /\ job[w].isFinal
    /\ job[w].branch = f.branch /\ job[w].answer = f.req

\* A cache entry without a final response absorbs every retransmission, so it may
\* only stay when the request did leave for an upstream: also when two workers
\* forward copies of one request and the send of one of them fails.
NoBlackHole ==
    \A r \in cached :
        \/ final[r] # NoRequest
        \/ \E f \in forwarded : f.req = r
        \/ \E w \in Worker : HandlesRequest(w, r)

\* While no route is lost to a TTL or a restart, a final response finds its way:
\* until one has been relayed, the branch of a forwarded request that an upstream
\* may answer has a route.
HasWayBack(f) ==
    (expired = 0 /\ restarts = 0 /\ UpstreamMayAnswer(f, TRUE))
        => \/ branches[f.branch] # NoRoute
           \/ [to |-> f.req.txn, answer |-> f.req, isFinal |-> TRUE] \in relayed
           \/ \E w \in Worker : HandlesFinal(w, f)
FinalHasRoute == \A f \in forwarded : HasWayBack(f)

\* So it is until a CANCEL or ACK follows the request, through eviction of its
\* cache entry, copies of it with other workers, and failing sends of those.
Follows(r, t) == r.txn = t /\ r.method \in FollowUp
Followed(t) ==
    \/ \E f \in forwarded : Follows(f.req, t)
    \/ \E d \in relayed : Follows(d.answer, t)
    \/ \E w \in Worker : Follows(job[w].req, t)
UnfollowedHasRoute == \A f \in forwarded : ~Followed(f.req.txn) => HasWayBack(f)

\* While nothing has expired and the process has not been restarted, a CANCEL or
\* ACK that is taken up when its INVITE has left and no worker still handles a copy
\* of it goes to an upstream that has the INVITE, under its branch: also after an
\* attempt that failed or was rejected, and after a copy that overtook it.
InviteForwards(t) == {g \in forwarded : g.req = InviteOf(t)}
InviteSettled(t) ==
    InviteForwards(t) # {} /\ \A w \in Worker : ~HandlesRequest(w, InviteOf(t))
SameUpstream ==
    [][\A w \in Worker :
         (/\ job[w].pc = "prepare" /\ job'[w].pc = "insert"
          /\ job[w].req.method \in FollowUp /\ InviteSettled(job[w].req.txn)
          /\ expired = 0 /\ restarts = 0)
             => \E g \in InviteForwards(job[w].req.txn) :
                   g.up = job'[w].up /\ g.branch = job'[w].branch]_vars
=============================================================================
