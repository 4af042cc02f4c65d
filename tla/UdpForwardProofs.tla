-------------------------- MODULE UdpForwardProofs --------------------------
(***************************************************************************)
(* Proofs about the UDP path, for every set of transactions, upstreams and *)
(* workers, every cache limit and any number of branches and faults.       *)
(***************************************************************************)
EXTENDS UdpForward, TLAPS

USE UdpAssumption

-----------------------------------------------------------------------------
(* Type correctness *)

\* What a worker holds goes with what it is doing: a request in hand unless it is
\* idle, a branch and an upstream from prepare_forward on.
HasBranch == {"insert", "remember", "send", "record", "undo"} \cup ResponseSteps
Shaped(j) ==
    /\ j.pc # "idle" => j.req \in Request
    /\ j.pc \in {"idle", "lookup", "prepare"} => j.branch = 0
    /\ j.pc = "idle" => j = NoJob
    /\ j.pc \in HasBranch => j.branch \in Branch /\ j.up \in Upstream
    /\ j.pc \in ResponseSteps => j.answer \in Request
JobsShaped == \A w \in Worker : Shaped(job[w])
TypeInv == TypeOK /\ JobsShaped

\* What the methods of requests say of their transactions.
LEMMA RequestFacts ==
    /\ NoRequest \notin Request /\ NoRequest.method \notin FollowUp
    /\ \A r \in Request : r.txn \in Txn /\ r.method \in {"INVITE", "OTHER"} \cup FollowUp
    /\ \A r \in Request : r.method \in FollowUp \cup {"INVITE"} <=> r.txn \in Invite
    /\ \A t \in Invite : InviteOf(t) \in Request
    /\ \A r, q \in Request :
         r.txn = q.txn /\ r.method \notin FollowUp /\ q.method \notin FollowUp => r = q
BY DEF NoRequest, Request, Txn, InviteOf

\* An idle worker holds nothing.
LEMMA NoJobFacts ==
    /\ NoJob \in Job /\ Shaped(NoJob)
    /\ NoJob.pc = "idle" /\ NoJob.branch = 0 /\ NoJob.req = NoRequest
BY DEF NoJob, Handling, Job, Shaped, HasBranch, RequestSteps, ResponseSteps

\* A step of one worker leaves the others alone.
OnlyJob(w) == \A v \in Worker \ {w} : job'[v] = job[v]

\* Goto changes the program counter and nothing else of a worker.
LEMMA GotoEffect ==
    ASSUME NEW w \in Worker, NEW pc \in {"idle"} \cup RequestSteps \cup ResponseSteps,
           job \in [Worker -> Job], Goto(w, pc)
    PROVE  /\ job' \in [Worker -> Job] /\ OnlyJob(w)
           /\ job'[w].pc = pc /\ job'[w].req = job[w].req /\ job'[w].branch = job[w].branch
           /\ job'[w].up = job[w].up /\ job'[w].answer = job[w].answer
           /\ job'[w].isFinal = job[w].isFinal
BY DEF Goto, Job, OnlyJob

\* A worker takes up a new job, or none.
LEMMA SetJobEffect ==
    ASSUME NEW w \in Worker, NEW j \in Job,
           job \in [Worker -> Job], job' = [job EXCEPT ![w] = j]
    PROVE  job' \in [Worker -> Job] /\ OnlyJob(w) /\ job'[w] = j
BY DEF OnlyJob

\* Finish makes a worker idle.
LEMMA FinishEffect ==
    ASSUME NEW w \in Worker, job \in [Worker -> Job], Finish(w)
    PROVE  job' \in [Worker -> Job] /\ OnlyJob(w) /\ job'[w] = NoJob
BY SetJobEffect, NoJobFacts DEF Finish

\* The jobs of the other workers keep their shape.
LEMMA ShapesKept ==
    ASSUME NEW w \in Worker, JobsShaped, OnlyJob(w), Shaped(job'[w])
    PROVE  JobsShaped'
BY DEF JobsShaped, OnlyJob, Shaped

\* What goes to a client is a delivery.
LEMMA SendType ==
    ASSUME NEW r \in Request, NEW a \in Request, NEW isFinal \in BOOLEAN,
           relayed \subseteq Delivery
    PROVE  /\ Send(r.txn, a, isFinal) => relayed' \subseteq Delivery
           /\ SendTrying(r) => relayed' \subseteq Delivery
<1>1. /\ [to |-> r.txn, answer |-> a, isFinal |-> isFinal] \in Delivery
      /\ [to |-> r.txn, answer |-> r, isFinal |-> FALSE] \in Delivery
  BY RequestFacts DEF Delivery
<1>. QED BY <1>1 DEF Send, SendTrying

\* One more fault is within the bound.
LEMMA BoundsType ==
    ASSUME TypeOK, MayFail
    PROVE  /\ sendFails + 1 \in 0..MaxFaults /\ rejects + 1 \in 0..MaxFaults
           /\ expired + 1 \in 0..MaxFaults /\ restarts + 1 \in 0..MaxFaults
<1>1. sendFails \in Nat /\ rejects \in Nat /\ expired \in Nat /\ restarts \in Nat
  BY DEF TypeOK
<1>. QED BY <1>1 DEF MayFail

\* Every variable keeps its type, and every job its shape.
THEOREM TypeCorrect == Spec => []TypeInv
<1>1. Init => TypeInv
  BY SessionAssumption, NoJobFacts DEF Init, TypeInv, TypeOK, JobsShaped, Route
<1>2. TypeInv /\ [Next]_vars => TypeInv'
  <2> SUFFICES ASSUME TypeInv, [Next]_vars PROVE TypeInv'
    OBVIOUS
  <2> USE RequestFacts DEF TypeInv
  <2>0. TypeOK /\ job \in [Worker -> Job]
    BY DEF TypeOK
  <2>1. ASSUME NEW w \in Worker, NEW r \in Request, Receive(w, r) PROVE TypeInv'
    <3> DEFINE j == Handling("lookup", r, 0, NoUpstream)
    <3>1. job' = [job EXCEPT ![w] = j]
      BY <2>1 DEF Receive
    <3>2. j \in Job /\ Shaped(j)
      BY DEF Handling, Job, Shaped, HasBranch, RequestSteps, ResponseSteps
    <3> HIDE DEF j
    <3>3. job' \in [Worker -> Job] /\ JobsShaped'
      BY <2>0, <3>1, <3>2, SetJobEffect, ShapesKept
    <3>. QED BY <2>0, <2>1, <3>3 DEF Receive, TypeOK, tables, net, bounds
  <2>2. ASSUME NEW w \in Worker, NEW r \in Request, ConsumeLocalInviteAck(w, r) PROVE TypeInv'
    BY <2>0, <2>2 DEF ConsumeLocalInviteAck, TypeOK, JobsShaped, Shaped, net, bounds
  <2>3. ASSUME NEW w \in Worker, NEW f \in forwarded, NEW isFinal \in BOOLEAN,
               ReceiveResponse(w, f, isFinal)
        PROVE  TypeInv'
    <3> DEFINE j == [pc |-> "cache", req |-> branches[f.branch].req, branch |-> f.branch,
                     up |-> branches[f.branch].up, answer |-> f.req, isFinal |-> isFinal]
    <3>1. f.branch \in Branch /\ f.req \in Request
          /\ branches[f.branch] \in [req : Request, up : Upstream]
      BY <2>3 DEF ReceiveResponse, TypeOK, Forward, Route
    <3>2. j \in Job /\ Shaped(j)
      BY <3>1 DEF Job, Shaped, HasBranch, RequestSteps, ResponseSteps, Branch
    <3>3. job' = [job EXCEPT ![w] = j]
      BY <2>3 DEF ReceiveResponse
    <3> HIDE DEF j
    <3>4. job' \in [Worker -> Job] /\ JobsShaped'
      BY <2>0, <3>2, <3>3, SetJobEffect, ShapesKept
    <3>. QED BY <2>0, <2>3, <3>4 DEF ReceiveResponse, TypeOK, tables, net, bounds
  <2>4. ASSUME NEW w \in Worker, RejectRequest(w) PROVE TypeInv'
    <3>1. Goto(w, "reject") /\ job[w].pc = "lookup" /\ Shaped(job[w])
      BY <2>4 DEF RejectRequest, JobsShaped
    <3>2. job' \in [Worker -> Job] /\ JobsShaped'
      BY <2>0, <3>1, GotoEffect, ShapesKept DEF RequestSteps, ResponseSteps, Shaped, HasBranch
    <3>. QED BY <2>0, <2>4, <3>2, BoundsType DEF RejectRequest, TypeOK, tables, net
  <2>5. ASSUME NEW w \in Worker, SendRejection(w) PROVE TypeInv'
    <3>1. job' \in [Worker -> Job] /\ JobsShaped'
      BY <2>0, <2>5, FinishEffect, NoJobFacts, ShapesKept DEF SendRejection
    <3>2. job[w].req \in Request
      BY <2>5 DEF SendRejection, JobsShaped, Shaped
    <3>3. relayed' \subseteq Delivery
      BY <2>0, <2>5, <3>2, SendType DEF SendRejection, TypeOK
    <3>4. rejections' \subseteq Invite
      BY <2>0, <2>5, <3>2 DEF SendRejection, TypeOK
    <3>. QED BY <2>0, <2>5, <3>1, <3>3, <3>4 DEF SendRejection, TypeOK, bounds
  <2>6. ASSUME NEW w \in Worker, LookupHit(w) PROVE TypeInv'
    <3>1. job' \in [Worker -> Job] /\ JobsShaped'
      BY <2>0, <2>6, FinishEffect, NoJobFacts, ShapesKept DEF LookupHit
    <3>2. job[w].req \in Request
      BY <2>6 DEF LookupHit, JobsShaped, Shaped
    <3>3. relayed' \subseteq Delivery
      BY <2>0, <2>6, <3>2, SendType DEF LookupHit, TypeOK
    <3>. QED BY <2>0, <2>6, <3>1, <3>3 DEF LookupHit, TypeOK, tables, bounds
  <2>7. ASSUME NEW w \in Worker, LookupMiss(w) PROVE TypeInv'
    <3>1. Goto(w, "prepare") /\ job[w].pc = "lookup" /\ Shaped(job[w])
      BY <2>7 DEF LookupMiss, JobsShaped
    <3>2. job' \in [Worker -> Job] /\ JobsShaped'
      BY <2>0, <3>1, GotoEffect, ShapesKept DEF RequestSteps, ResponseSteps, Shaped, HasBranch
    <3>. QED BY <2>0, <2>7, <3>2 DEF LookupMiss, TypeOK, tables, net, bounds
  <2>8. ASSUME NEW w \in Worker, PrepareForward(w) PROVE TypeInv'
    <3> DEFINE r == job[w].req
    <3>1. r \in Request
      BY <2>8 DEF PrepareForward, JobsShaped, Shaped
    <3>2. PICK b \in Branch, u \in Upstream : job' = [job EXCEPT ![w] = Handling("insert", r, b, u)]
      <4>1. CASE FollowsInvite(r)
        <5>1. inviteTx[r.txn].branch \in Branch /\ inviteTx[r.txn].up \in Upstream
          BY <2>0, <3>1, <4>1 DEF FollowsInvite, TypeOK, Request
        <5>. QED BY <2>8, <4>1, <5>1 DEF PrepareForward
      <4>2. CASE ~FollowsInvite(r)
        <5>1. nextBranch \in Branch
          BY <2>0, <2>8, <4>2 DEF PrepareForward, TypeOK, Branch
        <5>. QED BY <2>8, <4>2, <5>1 DEF PrepareForward
      <4>. QED BY <4>1, <4>2
    <3>3. Handling("insert", r, b, u) \in Job /\ Shaped(Handling("insert", r, b, u))
      BY <3>1 DEF Handling, Job, Shaped, HasBranch, RequestSteps, ResponseSteps, Branch
    <3>4. job' \in [Worker -> Job] /\ JobsShaped'
      BY <2>0, <3>2, <3>3, SetJobEffect, ShapesKept
    <3>5. nextBranch' \in 1..MaxBranch + 1
      BY <2>0, <2>8 DEF PrepareForward, TypeOK
    <3>6. relayed' \subseteq Delivery
      BY <2>0, <2>8, <3>1, SendType DEF PrepareForward, TypeOK
    <3>. QED BY <2>0, <2>8, <3>4, <3>5, <3>6 DEF PrepareForward, TypeOK, tables, bounds
  <2>9. ASSUME NEW w \in Worker, InsertBranch(w) PROVE TypeInv'
    <3>1. Goto(w, "remember") /\ job[w].pc = "insert" /\ Shaped(job[w])
      BY <2>9 DEF InsertBranch, JobsShaped
    <3>2. job' \in [Worker -> Job] /\ JobsShaped'
      BY <2>0, <3>1, GotoEffect, ShapesKept DEF RequestSteps, ResponseSteps, Shaped, HasBranch
    <3>3. branches' \in [Branch -> Route]
      BY <2>0, <2>9, <3>1 DEF InsertBranch, TypeOK, Route, Shaped, HasBranch
    <3>. QED BY <2>0, <2>9, <3>2, <3>3 DEF InsertBranch, TypeOK, net, bounds
  <2>10. ASSUME NEW w \in Worker, RememberClient(w) PROVE TypeInv'
    <3>1. Goto(w, "send") /\ job[w].pc = "remember" /\ Shaped(job[w])
      BY <2>10 DEF RememberClient, JobsShaped
    <3>2. job' \in [Worker -> Job] /\ JobsShaped'
      BY <2>0, <3>1, GotoEffect, ShapesKept DEF RequestSteps, ResponseSteps, Shaped, HasBranch
    <3>3. job[w].req \in Request
      BY <3>1 DEF Shaped
    <3>4. cached' \subseteq Request /\ final' \in [Request -> Request \cup {NoRequest}]
      BY <2>0, <2>10, <3>3 DEF RememberClient, TypeOK
    <3>. QED BY <2>0, <2>10, <3>2, <3>4 DEF RememberClient, TypeOK, net, bounds
  <2>11. ASSUME NEW w \in Worker, SendUpstream(w) PROVE TypeInv'
    <3>1. Goto(w, "record") /\ job[w].pc = "send" /\ Shaped(job[w])
      BY <2>11 DEF SendUpstream, JobsShaped
    <3>2. job' \in [Worker -> Job] /\ JobsShaped'
      BY <2>0, <3>1, GotoEffect, ShapesKept DEF RequestSteps, ResponseSteps, Shaped, HasBranch
    <3>3. forwarded' \subseteq Forward
      BY <2>0, <2>11, <3>1 DEF SendUpstream, TypeOK, Forward, Shaped, HasBranch
    <3>. QED BY <2>0, <2>11, <3>2, <3>3 DEF SendUpstream, TypeOK, tables, bounds
  <2>12. ASSUME NEW w \in Worker, SendUpstreamFails(w) PROVE TypeInv'
    <3>1. Goto(w, "undo") /\ job[w].pc = "send" /\ Shaped(job[w])
      BY <2>12 DEF SendUpstreamFails, JobsShaped
    <3>2. job' \in [Worker -> Job] /\ JobsShaped'
      BY <2>0, <3>1, GotoEffect, ShapesKept DEF RequestSteps, ResponseSteps, Shaped, HasBranch
    <3>3. branches' \in [Branch -> Route]
      BY <2>0, <2>12 DEF SendUpstreamFails, TypeOK, Route
    <3>. QED BY <2>0, <2>12, <3>2, <3>3, BoundsType DEF SendUpstreamFails, TypeOK, net
  <2>13. ASSUME NEW w \in Worker, ForgetClient(w) PROVE TypeInv'
    <3>1. Goto(w, "reject") /\ job[w].pc = "undo" /\ Shaped(job[w])
      BY <2>13 DEF ForgetClient, JobsShaped
    <3>2. job' \in [Worker -> Job] /\ JobsShaped'
      BY <2>0, <3>1, GotoEffect, ShapesKept DEF RequestSteps, ResponseSteps, Shaped, HasBranch
    <3>. QED BY <2>0, <2>13, <3>2 DEF ForgetClient, TypeOK, net, bounds
  <2>14. ASSUME NEW w \in Worker, RememberForward(w) PROVE TypeInv'
    <3>1. Shaped(job[w]) /\ job[w].pc = "record"
      BY <2>14 DEF RememberForward, JobsShaped
    <3>2. job' \in [Worker -> Job] /\ JobsShaped'
      BY <2>0, <2>14, FinishEffect, NoJobFacts, ShapesKept DEF RememberForward
    <3>3. inviteTx' \in [Invite -> [branch : Branch, up : Upstream] \cup {NoInvite}]
      BY <2>0, <2>14, <3>1 DEF RememberForward, TypeOK, Shaped, HasBranch
    <3>. QED BY <2>0, <2>14, <3>2, <3>3 DEF RememberForward, TypeOK, net, bounds
  <2>15. ASSUME NEW w \in Worker, CacheFinal(w) PROVE TypeInv'
    <3>1. Goto(w, "relay") /\ job[w].pc = "cache" /\ Shaped(job[w])
      BY <2>15 DEF CacheFinal, JobsShaped
    <3>2. job' \in [Worker -> Job] /\ JobsShaped'
      BY <2>0, <3>1, GotoEffect, ShapesKept DEF RequestSteps, ResponseSteps, Shaped, HasBranch
    <3>3. final' \in [Request -> Request \cup {NoRequest}]
      BY <2>0, <2>15, <3>1 DEF CacheFinal, TypeOK, Shaped, ResponseSteps
    <3>. QED BY <2>0, <2>15, <3>2, <3>3 DEF CacheFinal, TypeOK, net, bounds
  <2>16. ASSUME NEW w \in Worker, Relay(w) PROVE TypeInv'
    <3>1. job[w].pc = "relay" /\ Shaped(job[w])
      BY <2>16 DEF Relay, JobsShaped
    <3>2. job' \in [Worker -> Job] /\ JobsShaped'
      <4>1. CASE Goto(w, "unroute")
        BY <2>0, <3>1, <4>1, GotoEffect, ShapesKept
           DEF RequestSteps, ResponseSteps, Shaped, HasBranch
      <4>2. CASE Finish(w)
        BY <2>0, <4>2, FinishEffect, NoJobFacts, ShapesKept
      <4>. QED BY <2>16, <4>1, <4>2 DEF Relay
    <3>3. job[w].req \in Request /\ job[w].answer \in Request /\ job[w].isFinal \in BOOLEAN
      BY <2>0, <3>1 DEF Shaped, ResponseSteps, Job
    <3>4. relayed' \subseteq Delivery
      BY <2>0, <2>16, <3>3, SendType DEF Relay, TypeOK
    <3>. QED BY <2>0, <2>16, <3>2, <3>4 DEF Relay, TypeOK, tables, bounds
  <2>17. ASSUME NEW w \in Worker, RemoveBranch(w) PROVE TypeInv'
    <3>1. job' \in [Worker -> Job] /\ JobsShaped'
      BY <2>0, <2>17, FinishEffect, NoJobFacts, ShapesKept DEF RemoveBranch
    <3>2. branches' \in [Branch -> Route]
      BY <2>0, <2>17 DEF RemoveBranch, TypeOK, Route
    <3>. QED BY <2>0, <2>17, <3>1, <3>2 DEF RemoveBranch, TypeOK, net, bounds
  <2>18. CASE Expire
    <3>1. /\ branches' \in [Branch -> Route] /\ cached' \subseteq Request
          /\ inviteTx' \in [Invite -> [branch : Branch, up : Upstream] \cup {NoInvite}]
          /\ rejections' \subseteq Invite
      BY <2>0, <2>18 DEF Expire, TypeOK, Route
    <3>. QED BY <2>0, <2>18, <3>1, BoundsType DEF Expire, TypeOK, JobsShaped, Shaped, net
  <2>19. CASE Restart
    BY <2>0, <2>19, BoundsType, NoJobFacts DEF Restart, TypeOK, JobsShaped, Shaped, net, Route
  <2>20. CASE UNCHANGED vars
    BY <2>0, <2>20 DEF vars, tables, net, bounds, TypeOK, JobsShaped, Shaped
  <2>. QED
    BY <2>1, <2>2, <2>3, <2>4, <2>5, <2>6, <2>7, <2>8, <2>9, <2>10, <2>11, <2>12, <2>13,
       <2>14, <2>15, <2>16, <2>17, <2>18, <2>19, <2>20 DEF Next, WorkerStep
<1>. QED BY <1>1, <1>2, PTL DEF Spec

-----------------------------------------------------------------------------
(* No black hole *)

\* A cached request has left for an upstream, or its worker is about to send it or
\* to take the entry back; what a worker is about to record has left.
CachedIsOut ==
    \A r \in cached :
        \/ \E f \in forwarded : f.req = r
        \/ \E w \in Worker : job[w].pc \in {"send", "undo"} /\ job[w].req = r
SentForward(w) == [branch |-> job[w].branch, req |-> job[w].req, up |-> job[w].up]
RecordIsOut == \A w \in Worker : job[w].pc = "record" => SentForward(w) \in forwarded

\* Most steps neither cache a request nor come from or go to where these facts matter.
LEMMA OutKept ==
    ASSUME NEW w \in Worker, CachedIsOut, RecordIsOut, OnlyJob(w),
           job[w].pc \notin {"send", "undo"}, job'[w].pc # "record",
           cached' \subseteq cached, forwarded \subseteq forwarded'
    PROVE  CachedIsOut' /\ RecordIsOut'
BY DEF CachedIsOut, RecordIsOut, SentForward, OnlyJob

\* Every step keeps both facts.
LEMMA OutStep ==
    ASSUME TypeInv, [Next]_vars, CachedIsOut, RecordIsOut
    PROVE  CachedIsOut' /\ RecordIsOut'
<1>0. job \in [Worker -> Job]
  BY DEF TypeInv, TypeOK
<1> USE DEF tables, net, RequestSteps, ResponseSteps
<1>1. ASSUME NEW w \in Worker, NEW r \in Request, Receive(w, r) PROVE CachedIsOut' /\ RecordIsOut'
  <2>1. OnlyJob(w) /\ job'[w].pc = "lookup"
    BY <1>0, <1>1 DEF Receive, Handling, OnlyJob
  <2>. QED BY <1>1, <2>1, OutKept DEF Receive
<1>2. ASSUME NEW w \in Worker, NEW r \in Request, ConsumeLocalInviteAck(w, r)
      PROVE  CachedIsOut' /\ RecordIsOut'
  BY <1>2 DEF ConsumeLocalInviteAck, CachedIsOut, RecordIsOut, SentForward
<1>3. ASSUME NEW w \in Worker, NEW f \in forwarded, NEW isFinal \in BOOLEAN,
             ReceiveResponse(w, f, isFinal)
      PROVE  CachedIsOut' /\ RecordIsOut'
  <2>1. OnlyJob(w) /\ job'[w].pc = "cache"
    BY <1>0, <1>3 DEF ReceiveResponse, OnlyJob
  <2>. QED BY <1>3, <2>1, OutKept DEF ReceiveResponse
<1>4. ASSUME NEW w \in Worker, RejectRequest(w) PROVE CachedIsOut' /\ RecordIsOut'
  BY <1>0, <1>4, GotoEffect, OutKept DEF RejectRequest
<1>5. ASSUME NEW w \in Worker, SendRejection(w) PROVE CachedIsOut' /\ RecordIsOut'
  BY <1>0, <1>5, FinishEffect, NoJobFacts, OutKept DEF SendRejection
<1>6. ASSUME NEW w \in Worker, LookupHit(w) PROVE CachedIsOut' /\ RecordIsOut'
  BY <1>0, <1>6, FinishEffect, NoJobFacts, OutKept DEF LookupHit
<1>7. ASSUME NEW w \in Worker, LookupMiss(w) PROVE CachedIsOut' /\ RecordIsOut'
  BY <1>0, <1>7, GotoEffect, OutKept DEF LookupMiss
<1>8. ASSUME NEW w \in Worker, PrepareForward(w) PROVE CachedIsOut' /\ RecordIsOut'
  <2>1. OnlyJob(w) /\ job'[w].pc = "insert"
    BY <1>0, <1>8 DEF PrepareForward, Handling, OnlyJob
  <2>. QED BY <1>8, <2>1, OutKept DEF PrepareForward
<1>9. ASSUME NEW w \in Worker, InsertBranch(w) PROVE CachedIsOut' /\ RecordIsOut'
  BY <1>0, <1>9, GotoEffect, OutKept DEF InsertBranch
<1>10. ASSUME NEW w \in Worker, RememberClient(w) PROVE CachedIsOut' /\ RecordIsOut'
  <2>1. OnlyJob(w) /\ job'[w].pc = "send" /\ job'[w].req = job[w].req
    BY <1>0, <1>10, GotoEffect DEF RememberClient
  <2>2. cached' \subseteq cached \cup {job[w].req} /\ forwarded' = forwarded /\ job[w].pc = "remember"
    BY <1>10 DEF RememberClient
  <2>. QED BY <2>1, <2>2 DEF CachedIsOut, RecordIsOut, SentForward, OnlyJob
<1>11. ASSUME NEW w \in Worker, SendUpstream(w) PROVE CachedIsOut' /\ RecordIsOut'
  <2>1. /\ OnlyJob(w) /\ job'[w].pc = "record" /\ job'[w].req = job[w].req
        /\ job'[w].branch = job[w].branch /\ job'[w].up = job[w].up
    BY <1>0, <1>11, GotoEffect DEF SendUpstream
  <2>2. forwarded' = forwarded \cup {SentForward(w)} /\ cached' = cached
    BY <1>11 DEF SendUpstream, SentForward
  <2>3. RecordIsOut'
    BY <2>1, <2>2 DEF RecordIsOut, SentForward, OnlyJob
  <2>4. SentForward(w).req = job[w].req
    BY DEF SentForward
  <2>5. CachedIsOut'
    BY <2>1, <2>2, <2>4 DEF CachedIsOut, OnlyJob
  <2>. QED BY <2>3, <2>5
<1>12. ASSUME NEW w \in Worker, SendUpstreamFails(w) PROVE CachedIsOut' /\ RecordIsOut'
  <2>1. OnlyJob(w) /\ job'[w].pc = "undo" /\ job'[w].req = job[w].req
    BY <1>0, <1>12, GotoEffect DEF SendUpstreamFails
  <2>. QED BY <1>12, <2>1 DEF SendUpstreamFails, CachedIsOut, RecordIsOut, SentForward, OnlyJob
<1>13. ASSUME NEW w \in Worker, ForgetClient(w) PROVE CachedIsOut' /\ RecordIsOut'
  <2>1. OnlyJob(w) /\ job'[w].pc = "reject"
    BY <1>0, <1>13, GotoEffect DEF ForgetClient
  <2>. QED BY <1>13, <2>1 DEF ForgetClient, CachedIsOut, RecordIsOut, SentForward, OnlyJob
<1>14. ASSUME NEW w \in Worker, RememberForward(w) PROVE CachedIsOut' /\ RecordIsOut'
  BY <1>0, <1>14, FinishEffect, NoJobFacts, OutKept DEF RememberForward
<1>15. ASSUME NEW w \in Worker, CacheFinal(w) PROVE CachedIsOut' /\ RecordIsOut'
  BY <1>0, <1>15, GotoEffect, OutKept DEF CacheFinal
<1>16. ASSUME NEW w \in Worker, Relay(w) PROVE CachedIsOut' /\ RecordIsOut'
  BY <1>0, <1>16, GotoEffect, FinishEffect, NoJobFacts, OutKept DEF Relay
<1>17. ASSUME NEW w \in Worker, RemoveBranch(w) PROVE CachedIsOut' /\ RecordIsOut'
  BY <1>0, <1>17, FinishEffect, NoJobFacts, OutKept DEF RemoveBranch
<1>18. CASE Expire
  BY <1>18 DEF Expire, CachedIsOut, RecordIsOut, SentForward
<1>19. CASE Restart
  BY <1>19, NoJobFacts DEF Restart, CachedIsOut, RecordIsOut
<1>20. CASE UNCHANGED vars
  BY <1>20 DEF vars, CachedIsOut, RecordIsOut, SentForward
<1>. QED
  BY <1>1, <1>2, <1>3, <1>4, <1>5, <1>6, <1>7, <1>8, <1>9, <1>10, <1>11, <1>12, <1>13,
     <1>14, <1>15, <1>16, <1>17, <1>18, <1>19, <1>20 DEF Next, WorkerStep

\* Also over a restart: the caches go, what was sent has been sent.
LEMMA SentIsOut == Spec => [](CachedIsOut /\ RecordIsOut)
<1>1. Init => CachedIsOut /\ RecordIsOut
  BY NoJobFacts DEF Init, CachedIsOut, RecordIsOut
<1>. QED BY <1>1, OutStep, TypeCorrect, PTL DEF Spec

\* However copies of a request, failing sends, evictions and restarts interleave, the
\* cache never absorbs the retransmissions of a request that has not left: its entry
\* is one of a forwarded request or of one a worker has in hand.
THEOREM AbsorbedHasLeft == Spec => []NoBlackHole
<1>1. CachedIsOut => NoBlackHole
  BY DEF CachedIsOut, NoBlackHole, HandlesRequest, RequestSteps
<1>. QED BY <1>1, SentIsOut, PTL

-----------------------------------------------------------------------------
(* Whose branch it is *)

\* An INVITE or another request that begins a transaction, not one that follows.
Begins(r) == r.method \notin FollowUp

\* Branch b is in use for transaction t: by a worker, a route, an INVITE that CANCEL
\* and ACK may follow, or a request that has left under it.
Uses(b, t) ==
    \/ \E w \in Worker : job[w].branch = b /\ job[w].req.txn = t
    \/ branches[b] # NoRoute /\ branches[b].req.txn = t
    \/ t \in Invite /\ inviteTx[t].branch = b
    \/ \E f \in forwarded : f.branch = b /\ f.req.txn = t

\* A branch in use has been given out, and to one transaction.
GivenOut == \A b \in Branch, t \in Txn : Uses(b, t) => b < nextBranch
OneOwner == \A b \in Branch : \A t, u \in Txn : Uses(b, t) /\ Uses(b, u) => t = u

\* Until a request that begins a transaction has left, its branch is its worker's alone.
Unsent(w) == job[w].pc \in {"insert", "remember", "send"} /\ Begins(job[w].req)
OnlyUser(w) ==
    /\ \A v \in Worker \ {w} : job[v].branch # job[w].branch
    /\ \A t \in Invite : inviteTx[t].branch # job[w].branch
    /\ \A f \in forwarded : f.branch # job[w].branch
BranchIsNew == \A w \in Worker : Unsent(w) => OnlyUser(w)

\* Once a CANCEL or ACK has taken over the route of a branch, it keeps it.
FollowUpRoute(b) == branches[b] = NoRoute \/ ~Begins(branches[b].req)
RouteFollows ==
    /\ \A f \in forwarded : ~Begins(f.req) => FollowUpRoute(f.branch)
    /\ \A w \in Worker : job[w].pc \in {"remember", "send"} /\ ~Begins(job[w].req)
                            => FollowUpRoute(job[w].branch)

\* A response in hand, and a response kept, answer the transaction they are held for,
\* and the very request if that begins one.
Answers(r, answer) == answer.txn = r.txn /\ (Begins(r) => answer = r)
AnswerIsOwn ==
    \A w \in Worker : job[w].pc \in ResponseSteps => Answers(job[w].req, job[w].answer)
FinalIsOwn == \A r \in Request : final[r] # NoRequest => Answers(r, final[r])
HomeOnly == \A d \in relayed : d.answer.txn = d.to

Owned == GivenOut /\ OneOwner /\ BranchIsNew /\ RouteFollows /\ AnswerIsOwn /\ FinalIsOwn /\ HomeOnly

\* A worker's step that takes no branch into use.
NoNewUse(w) ==
    /\ OnlyJob(w)
    /\ \/ job'[w].branch = 0
       \/ job'[w].branch = job[w].branch /\ job'[w].req = job[w].req
    /\ \A b \in Branch : branches'[b] \in {branches[b], NoRoute}
    /\ \A t \in Invite : inviteTx'[t] \in {inviteTx[t], NoInvite}
    /\ forwarded' = forwarded

\* A step that gives no branch to a transaction only takes uses away.
LEMMA UsesShrink ==
    ASSUME NEW w \in Worker, NoNewUse(w), NEW b \in Branch, NEW t \in Txn, Uses(b, t)'
    PROVE  Uses(b, t)
<1>1. b # 0 /\ NoInvite.branch = 0
  BY DEF Branch, NoInvite
<1>2. ASSUME NEW v \in Worker, job'[v].branch = b, job'[v].req.txn = t PROVE Uses(b, t)
  BY <1>1, <1>2 DEF NoNewUse, OnlyJob, Uses
<1>3. CASE branches'[b] # NoRoute /\ branches'[b].req.txn = t
  BY <1>3 DEF NoNewUse, Uses
<1>4. CASE t \in Invite /\ inviteTx'[t].branch = b
  BY <1>1, <1>4 DEF NoNewUse, Uses
<1>5. ASSUME NEW f \in forwarded', f.branch = b, f.req.txn = t PROVE Uses(b, t)
  BY <1>5 DEF NoNewUse, Uses
<1>. QED BY <1>2, <1>3, <1>4, <1>5 DEF Uses

\* Such a step leaves the owners of branches alone.
LEMMA OwnersKept ==
    ASSUME NEW w \in Worker, TypeInv, GivenOut, OneOwner, BranchIsNew, NoNewUse(w), nextBranch' = nextBranch,
           Unsent(w)' => Unsent(w) /\ job'[w].branch = job[w].branch
    PROVE  GivenOut' /\ OneOwner' /\ BranchIsNew'
<1>1. GivenOut' /\ OneOwner'
  BY UsesShrink DEF GivenOut, OneOwner
<1>2. BranchIsNew'
  <2> SUFFICES ASSUME NEW v \in Worker, Unsent(v)' PROVE OnlyUser(v)'
    BY DEF BranchIsNew
  <2>1. Unsent(v) /\ job'[v].branch = job[v].branch
    BY DEF NoNewUse, OnlyJob, Unsent
  <2>2. job[v].branch # 0
    BY <2>1 DEF Unsent, TypeInv, JobsShaped, Shaped, HasBranch, Branch
  <2>3. OnlyUser(v)
    BY <2>1 DEF BranchIsNew
  <2>. QED BY <2>1, <2>2, <2>3 DEF OnlyUser, NoNewUse, OnlyJob, NoInvite
<1>. QED BY <1>1, <1>2

\* A step that inserts no route and sends no request leaves the routes to follow-ups.
LEMMA RoutesKept ==
    ASSUME NEW w \in Worker, RouteFollows, OnlyJob(w), forwarded' = forwarded,
           TypeInv,
           \A b \in Branch : branches'[b] \in {branches[b], NoRoute},
           job'[w].pc \in {"remember", "send"} =>
               /\ job[w].pc \in {"remember", "send"}
               /\ job'[w].req = job[w].req /\ job'[w].branch = job[w].branch
    PROVE  RouteFollows'
<1>1. \A f \in forwarded : f.branch \in Branch
  BY DEF TypeInv, TypeOK, Forward
<1>2. \A v \in Worker : job[v].pc \in {"remember", "send"} => job[v].branch \in Branch
  BY DEF TypeInv, JobsShaped, Shaped, HasBranch
<1>3. \A b \in Branch : FollowUpRoute(b) => FollowUpRoute(b)'
  BY DEF FollowUpRoute
<1>4. (\A f \in forwarded : ~Begins(f.req) => FollowUpRoute(f.branch))'
  BY <1>1, <1>3 DEF RouteFollows
<1>5. ASSUME NEW v \in Worker, job'[v].pc \in {"remember", "send"}, ~Begins(job'[v].req)
      PROVE  FollowUpRoute(job[v].branch)'
  BY <1>2, <1>3, <1>5 DEF RouteFollows, OnlyJob
<1>. QED BY <1>4, <1>5 DEF RouteFollows

\* A step that takes no branch into use and brings its worker nowhere new.
LEMMA QuietStep ==
    ASSUME NEW w \in Worker, TypeInv, Owned, NoNewUse(w), nextBranch' = nextBranch,
           \/ job'[w].pc \notin {"insert", "remember", "send"} \cup ResponseSteps
           \/ /\ job'[w].pc = "send" /\ job[w].pc = "remember"
              /\ job'[w].req = job[w].req /\ job'[w].branch = job[w].branch
           \/ /\ job'[w].pc \in ResponseSteps /\ job[w].pc \in ResponseSteps
              /\ job'[w].req = job[w].req /\ job'[w].answer = job[w].answer
    PROVE  GivenOut' /\ OneOwner' /\ BranchIsNew' /\ RouteFollows' /\ AnswerIsOwn'
<1>1. GivenOut' /\ OneOwner' /\ BranchIsNew'
  BY OwnersKept DEF Owned, Unsent, ResponseSteps
<1>2. RouteFollows'
  BY RoutesKept DEF Owned, NoNewUse, ResponseSteps
<1>3. AnswerIsOwn'
  BY DEF Owned, AnswerIsOwn, NoNewUse, OnlyJob, ResponseSteps
<1>. QED BY <1>1, <1>2, <1>3

\* Responses that go to their own transaction.
LEMMA SendHome ==
    ASSUME HomeOnly
    PROVE  /\ relayed' = relayed => HomeOnly'
           /\ \A to, answer, isFinal : answer.txn = to /\ Send(to, answer, isFinal) => HomeOnly'
           /\ \A r : SendTrying(r) => HomeOnly'
BY DEF HomeOnly, Send, SendTrying

\* Every step but a restart keeps each branch with one transaction.
LEMMA OwnedStep ==
    ASSUME TypeInv, Owned, [Next]_vars, ~Restart
    PROVE  Owned'
<1>0. TypeOK /\ job \in [Worker -> Job] /\ JobsShaped
  BY DEF TypeInv, TypeOK
<1>a. GivenOut /\ OneOwner /\ BranchIsNew /\ RouteFollows /\ AnswerIsOwn /\ FinalIsOwn /\ HomeOnly
  BY DEF Owned
<1> DEFINE Placed == GivenOut /\ OneOwner /\ BranchIsNew /\ RouteFollows /\ AnswerIsOwn
<1>b. Placed' /\ FinalIsOwn' /\ HomeOnly' => Owned'
  BY DEF Owned
<1>c. final' = final => FinalIsOwn'
  BY <1>a DEF FinalIsOwn
<1> HIDE DEF Placed
<1>1. ASSUME NEW w \in Worker, NEW r \in Request, Receive(w, r) PROVE Owned'
  <2>1. OnlyJob(w) /\ job'[w].pc = "lookup" /\ job'[w].branch = 0
    BY <1>0, <1>1 DEF Receive, Handling, OnlyJob
  <2>2. NoNewUse(w) /\ nextBranch' = nextBranch
    BY <1>1, <2>1 DEF Receive, NoNewUse, tables, net
  <2>3. Placed'
    BY <2>1, <2>2, QuietStep DEF Placed, ResponseSteps
  <2>. QED BY <1>1, <1>a, <1>b, <1>c, <2>3, SendHome DEF Receive, tables, net
<1>2. ASSUME NEW w \in Worker, NEW r \in Request, ConsumeLocalInviteAck(w, r) PROVE Owned'
  BY <1>2, <1>a DEF ConsumeLocalInviteAck, net, Owned, GivenOut, OneOwner, Uses, BranchIsNew, Unsent,
     OnlyUser, RouteFollows, FollowUpRoute, AnswerIsOwn, FinalIsOwn, HomeOnly
<1>3. ASSUME NEW w \in Worker, NEW f \in forwarded, NEW isFinal \in BOOLEAN,
             ReceiveResponse(w, f, isFinal)
      PROVE  Owned'
  <2> DEFINE b == f.branch
             route == branches[b]
  <2>1. b \in Branch /\ f.req \in Request /\ route # NoRoute /\ route.req \in Request
    BY <1>0, <1>3 DEF ReceiveResponse, TypeOK, Forward, Route
  <2>2. /\ OnlyJob(w) /\ job'[w].pc = "cache" /\ job'[w].req = route.req /\ job'[w].branch = b
        /\ job'[w].answer = f.req /\ nextBranch' = nextBranch /\ branches' = branches
        /\ inviteTx' = inviteTx /\ forwarded' = forwarded /\ final' = final /\ relayed' = relayed
    BY <1>0, <1>3 DEF ReceiveResponse, OnlyJob, tables, net
  <2>3. f.req.txn \in Txn /\ route.req.txn \in Txn /\ Uses(b, f.req.txn) /\ Uses(b, route.req.txn)
    BY <2>1, RequestFacts DEF Uses
  <2>4. Answers(route.req, f.req)
    <3>1. f.req.txn = route.req.txn
      BY <1>a, <2>1, <2>3 DEF OneOwner
    <3>2. Begins(route.req) => Begins(f.req)
      BY <1>a, <2>1 DEF RouteFollows, FollowUpRoute
    <3>. QED BY <2>1, <3>1, <3>2, RequestFacts DEF Answers, Begins
  <2>5. \A c \in Branch, t \in Txn : Uses(c, t)' => Uses(c, t)
    BY <2>1, <2>2, <2>3 DEF Uses, OnlyJob
  <2>6. GivenOut' /\ OneOwner'
    BY <1>a, <2>2, <2>5 DEF GivenOut, OneOwner
  <2>7. BranchIsNew'
    BY <1>a, <2>2 DEF BranchIsNew, Unsent, OnlyUser, OnlyJob
  <2>8. RouteFollows'
    BY <1>a, <2>2 DEF RouteFollows, FollowUpRoute, OnlyJob
  <2>9. AnswerIsOwn'
    BY <1>a, <2>2, <2>4 DEF AnswerIsOwn, OnlyJob
  <2>. QED BY <1>a, <1>c, <2>2, <2>6, <2>7, <2>8, <2>9, SendHome DEF Owned
<1>4. ASSUME NEW w \in Worker, RejectRequest(w) PROVE Owned'
  <2>1. OnlyJob(w) /\ job'[w].pc = "reject" /\ job'[w].req = job[w].req /\ job'[w].branch = job[w].branch
    BY <1>0, <1>4, GotoEffect DEF RejectRequest, RequestSteps
  <2>2. NoNewUse(w) /\ nextBranch' = nextBranch
    BY <1>4, <2>1 DEF RejectRequest, NoNewUse, tables, net
  <2>3. Placed'
    BY <2>1, <2>2, QuietStep DEF Placed, ResponseSteps
  <2>. QED BY <1>4, <1>a, <1>b, <1>c, <2>3, SendHome DEF RejectRequest, tables, net
<1>5. ASSUME NEW w \in Worker, SendRejection(w) PROVE Owned'
  <2>1. OnlyJob(w) /\ job'[w].pc = "idle" /\ job'[w].branch = 0
    BY <1>0, <1>5, FinishEffect, NoJobFacts DEF SendRejection
  <2>2. NoNewUse(w) /\ nextBranch' = nextBranch
    BY <1>5, <2>1 DEF SendRejection, NoNewUse
  <2>3. Placed'
    BY <2>1, <2>2, QuietStep DEF Placed, ResponseSteps
  <2>. QED BY <1>5, <1>a, <1>b, <1>c, <2>3, SendHome DEF SendRejection
<1>6. ASSUME NEW w \in Worker, LookupHit(w) PROVE Owned'
  <2>1. OnlyJob(w) /\ job'[w].pc = "idle" /\ job'[w].branch = 0
    BY <1>0, <1>6, FinishEffect, NoJobFacts DEF LookupHit
  <2>2. NoNewUse(w) /\ nextBranch' = nextBranch
    BY <1>6, <2>1 DEF LookupHit, NoNewUse, tables
  <2>3. Placed'
    BY <2>1, <2>2, QuietStep DEF Placed, ResponseSteps
  <2>4. job[w].req \in Request
    BY <1>0, <1>6 DEF LookupHit, JobsShaped, Shaped
  <2>5. HomeOnly'
    <3>1. CASE final[job[w].req] # NoRequest
      BY <1>6, <1>a, <2>4, <3>1, SendHome DEF LookupHit, FinalIsOwn, Answers
    <3>2. CASE final[job[w].req] = NoRequest
      BY <1>6, <1>a, <3>2, SendHome DEF LookupHit
    <3>. QED BY <3>1, <3>2
  <2>. QED BY <1>6, <1>b, <1>c, <2>3, <2>5 DEF LookupHit, tables
<1>7. ASSUME NEW w \in Worker, LookupMiss(w) PROVE Owned'
  <2>1. OnlyJob(w) /\ job'[w].pc = "prepare" /\ job'[w].req = job[w].req /\ job'[w].branch = job[w].branch
    BY <1>0, <1>7, GotoEffect DEF LookupMiss, RequestSteps
  <2>2. NoNewUse(w) /\ nextBranch' = nextBranch
    BY <1>7, <2>1 DEF LookupMiss, NoNewUse, tables, net
  <2>3. Placed'
    BY <2>1, <2>2, QuietStep DEF Placed, ResponseSteps
  <2>. QED BY <1>7, <1>a, <1>b, <1>c, <2>3, SendHome DEF LookupMiss, tables, net
<1>8. ASSUME NEW w \in Worker, PrepareForward(w) PROVE Owned'
  <2> DEFINE r == job[w].req
  <2>1. r \in Request /\ r.txn \in Txn
    BY <1>0, <1>8, RequestFacts DEF PrepareForward, JobsShaped, Shaped
  <2>2. /\ branches' = branches /\ inviteTx' = inviteTx /\ forwarded' = forwarded /\ final' = final
    BY <1>8 DEF PrepareForward, tables
  <2>3. HomeOnly'
    BY <1>8, <1>a, SendHome DEF PrepareForward
  <2>4. OnlyJob(w) /\ job'[w].pc = "insert" /\ job'[w].req = r
    BY <1>0, <1>8 DEF PrepareForward, OnlyJob, Handling
  <2>5. RouteFollows' /\ AnswerIsOwn'
    BY <1>a, <2>2, <2>4 DEF RouteFollows, FollowUpRoute, AnswerIsOwn, OnlyJob, ResponseSteps
  <2>6. CASE FollowsInvite(r)
    <3>1. /\ job'[w].branch = inviteTx[r.txn].branch /\ nextBranch' = nextBranch
      BY <1>0, <1>8, <2>6 DEF PrepareForward, Handling
    <3>2. r.txn \in Invite /\ ~Begins(r)
      BY <2>1, <2>6, RequestFacts DEF FollowsInvite, Begins, Request
    <3>3. \A c \in Branch, t \in Txn : Uses(c, t)' => Uses(c, t)
      BY <2>2, <2>4, <3>1, <3>2 DEF Uses, OnlyJob
    <3>4. GivenOut' /\ OneOwner'
      BY <1>a, <3>1, <3>3 DEF GivenOut, OneOwner
    <3>5. BranchIsNew'
      BY <1>a, <2>2, <2>4, <3>1, <3>2 DEF BranchIsNew, Unsent, OnlyUser, OnlyJob
    <3>. QED BY <1>c, <2>2, <2>3, <2>5, <3>4, <3>5 DEF Owned
  <2>7. CASE ~FollowsInvite(r)
    <3>1. job'[w].branch = nextBranch /\ nextBranch' = nextBranch + 1 /\ nextBranch \in Branch
      BY <1>0, <1>8, <2>7 DEF PrepareForward, Handling, Branch, TypeOK
    <3>2. \A t \in Txn : ~Uses(nextBranch, t)
      BY <1>a, <3>1 DEF GivenOut, Branch
    <3>3. \A c \in Branch, t \in Txn : Uses(c, t)' => Uses(c, t) \/ (c = nextBranch /\ t = r.txn)
      BY <2>2, <2>4, <3>1 DEF Uses, OnlyJob
    <3>4. GivenOut'
      BY <1>a, <3>1, <3>3 DEF GivenOut, Branch
    <3>5. OneOwner'
      BY <1>a, <3>2, <3>3 DEF OneOwner
    <3>6. BranchIsNew'
      <4>1. \A v \in Worker : Unsent(v) => job[v].branch # nextBranch
        <5> SUFFICES ASSUME NEW v \in Worker, Unsent(v), job[v].branch = nextBranch PROVE FALSE
          OBVIOUS
        <5>1. job[v].req.txn \in Txn
          BY <1>0, RequestFacts DEF Unsent, JobsShaped, Shaped
        <5>2. Uses(nextBranch, job[v].req.txn)
          BY DEF Uses
        <5>. QED BY <3>2, <5>1, <5>2
      <4>2. \A v \in Worker : job[v].branch # nextBranch
        <5> SUFFICES ASSUME NEW v \in Worker, job[v].branch = nextBranch PROVE FALSE
          OBVIOUS
        <5>1. job[v].pc # "idle"
          BY <1>0, <3>1 DEF JobsShaped, Shaped, Branch
        <5>2. job[v].req.txn \in Txn
          BY <1>0, <5>1, RequestFacts DEF JobsShaped, Shaped
        <5>3. Uses(nextBranch, job[v].req.txn)
          BY DEF Uses
        <5>. QED BY <3>2, <5>2, <5>3
      <4>3. \A t \in Invite : inviteTx[t].branch # nextBranch
        BY <3>2 DEF Uses, Txn
      <4>4. \A f \in forwarded : f.branch # nextBranch
        <5> SUFFICES ASSUME NEW f \in forwarded, f.branch = nextBranch PROVE FALSE
          OBVIOUS
        <5>1. f.req.txn \in Txn
          BY <1>0, RequestFacts DEF TypeOK, Forward
        <5>2. Uses(nextBranch, f.req.txn)
          BY DEF Uses
        <5>. QED BY <3>2, <5>1, <5>2
      <4>5. OnlyUser(w)'
        BY <2>2, <2>4, <3>1, <4>2, <4>3, <4>4 DEF OnlyUser, OnlyJob
      <4>6. ASSUME NEW v \in Worker, v # w, Unsent(v)' PROVE OnlyUser(v)'
        BY <1>a, <2>2, <2>4, <3>1, <4>1, <4>6 DEF BranchIsNew, Unsent, OnlyUser, OnlyJob
      <4>. QED BY <4>5, <4>6 DEF BranchIsNew
    <3>. QED BY <1>c, <2>2, <2>3, <2>5, <3>4, <3>5, <3>6 DEF Owned
  <2>. QED BY <2>6, <2>7
<1>9. ASSUME NEW w \in Worker, InsertBranch(w) PROVE Owned'
  <2> DEFINE r == job[w].req
             b == job[w].branch
  <2>1. r \in Request /\ r.txn \in Txn /\ b \in Branch /\ job[w].pc = "insert"
    BY <1>0, <1>9, RequestFacts DEF InsertBranch, JobsShaped, Shaped, HasBranch
  <2>2. OnlyJob(w) /\ job'[w].pc = "remember" /\ job'[w].req = r /\ job'[w].branch = b
    BY <1>0, <1>9, GotoEffect DEF InsertBranch, RequestSteps
  <2>3. /\ inviteTx' = inviteTx /\ forwarded' = forwarded /\ final' = final /\ relayed' = relayed
        /\ nextBranch' = nextBranch
    BY <1>9 DEF InsertBranch, net
  <2>4. branches'[b].req = r /\ \A c \in Branch : c # b => branches'[c] = branches[c]
    BY <1>0, <1>9, <2>1 DEF InsertBranch, TypeOK
  <2>5. \A c \in Branch, t \in Txn : Uses(c, t)' => Uses(c, t)
    BY <2>1, <2>2, <2>3, <2>4 DEF Uses, OnlyJob
  <2>6. GivenOut' /\ OneOwner'
    BY <1>a, <2>3, <2>5 DEF GivenOut, OneOwner
  <2>7. BranchIsNew'
    BY <1>a, <2>1, <2>2, <2>3 DEF BranchIsNew, Unsent, OnlyUser, OnlyJob
  <2>8. RouteFollows'
    <3>1. CASE Begins(r)
      <4>1. OnlyUser(w)
        BY <1>a, <2>1, <3>1 DEF BranchIsNew, Unsent
      <4>2. ASSUME NEW f \in forwarded, ~Begins(f.req) PROVE FollowUpRoute(f.branch)'
        <5>1. f.branch \in Branch /\ f.branch # b /\ FollowUpRoute(f.branch)
          BY <1>0, <1>a, <4>1, <4>2 DEF OnlyUser, TypeOK, Forward, RouteFollows
        <5>. QED BY <2>4, <5>1 DEF FollowUpRoute
      <4>3. ASSUME NEW v \in Worker, job'[v].pc \in {"remember", "send"}, ~Begins(job'[v].req)
            PROVE  FollowUpRoute(job[v].branch)'
        <5>1. v # w /\ job'[v] = job[v]
          BY <2>2, <3>1, <4>3 DEF OnlyJob
        <5>2. job[v].branch \in Branch /\ job[v].branch # b /\ FollowUpRoute(job[v].branch)
          BY <1>0, <1>a, <4>1, <4>3, <5>1 DEF OnlyUser, RouteFollows, JobsShaped, Shaped, HasBranch
        <5>. QED BY <2>4, <5>1, <5>2 DEF FollowUpRoute
      <4>. QED BY <2>3, <4>2, <4>3 DEF RouteFollows
    <3>2. CASE ~Begins(r)
      <4>1. \A c \in Branch : c = b \/ FollowUpRoute(c) => FollowUpRoute(c)'
        BY <2>4, <3>2 DEF FollowUpRoute
      <4>2. ASSUME NEW f \in forwarded, ~Begins(f.req) PROVE FollowUpRoute(f.branch)'
        BY <1>0, <1>a, <4>1, <4>2 DEF TypeOK, Forward, RouteFollows
      <4>3. ASSUME NEW v \in Worker, job'[v].pc \in {"remember", "send"}, ~Begins(job'[v].req)
            PROVE  FollowUpRoute(job[v].branch)'
        <5>1. CASE v = w
          BY <2>1, <2>2, <4>1, <5>1
        <5>2. CASE v # w
          <6>1. job'[v] = job[v]
            BY <2>2, <5>2 DEF OnlyJob
          <6>. QED BY <1>0, <1>a, <4>1, <4>3, <6>1 DEF RouteFollows, JobsShaped, Shaped, HasBranch
        <5>. QED BY <5>1, <5>2
      <4>. QED BY <2>3, <4>2, <4>3 DEF RouteFollows
    <3>. QED BY <3>1, <3>2
  <2>9. AnswerIsOwn'
    BY <1>a, <2>2 DEF AnswerIsOwn, OnlyJob, ResponseSteps
  <2>. QED BY <1>a, <1>c, <2>3, <2>6, <2>7, <2>8, <2>9, SendHome DEF Owned
<1>10. ASSUME NEW w \in Worker, RememberClient(w) PROVE Owned'
  <2>1. /\ OnlyJob(w) /\ job'[w].pc = "send" /\ job[w].pc = "remember" /\ job'[w].req = job[w].req
        /\ job'[w].branch = job[w].branch
    BY <1>0, <1>10, GotoEffect DEF RememberClient, RequestSteps
  <2>2. NoNewUse(w) /\ nextBranch' = nextBranch
    BY <1>10, <2>1 DEF RememberClient, NoNewUse, net
  <2>3. Placed'
    BY <2>1, <2>2, QuietStep DEF Placed
  <2>4. FinalIsOwn'
    BY <1>0, <1>10, <1>a DEF RememberClient, FinalIsOwn, TypeOK
  <2>. QED BY <1>10, <1>a, <1>b, <2>3, <2>4, SendHome DEF RememberClient, net
<1>11. ASSUME NEW w \in Worker, SendUpstream(w) PROVE Owned'
  <2> DEFINE r == job[w].req
             b == job[w].branch
  <2>1. r \in Request /\ r.txn \in Txn /\ b \in Branch /\ job[w].pc = "send"
    BY <1>0, <1>11, RequestFacts DEF SendUpstream, JobsShaped, Shaped, HasBranch
  <2>2. OnlyJob(w) /\ job'[w].pc = "record" /\ job'[w].req = r /\ job'[w].branch = b
    BY <1>0, <1>11, GotoEffect DEF SendUpstream, RequestSteps
  <2>3. /\ inviteTx' = inviteTx /\ branches' = branches /\ final' = final /\ relayed' = relayed
        /\ nextBranch' = nextBranch
    BY <1>11 DEF SendUpstream, tables
  <2> DEFINE g == SentForward(w)
  <2>4. forwarded' = forwarded \cup {g} /\ g.branch = b /\ g.req = r
    BY <1>11 DEF SendUpstream, SentForward
  <2> HIDE DEF g
  <2>5. \A c \in Branch, t \in Txn : Uses(c, t)' => Uses(c, t)
    BY <2>1, <2>2, <2>3, <2>4 DEF Uses, OnlyJob
  <2>6. GivenOut' /\ OneOwner'
    BY <1>a, <2>3, <2>5 DEF GivenOut, OneOwner
  <2>7. BranchIsNew'
    BY <1>a, <2>1, <2>2, <2>3, <2>4 DEF BranchIsNew, Unsent, OnlyUser, OnlyJob
  <2>8. RouteFollows'
    BY <1>a, <2>1, <2>2, <2>3, <2>4 DEF RouteFollows, FollowUpRoute, OnlyJob
  <2>9. AnswerIsOwn'
    BY <1>a, <2>2 DEF AnswerIsOwn, OnlyJob, ResponseSteps
  <2>. QED BY <1>a, <1>c, <2>3, <2>6, <2>7, <2>8, <2>9, SendHome DEF Owned
<1>12. ASSUME NEW w \in Worker, SendUpstreamFails(w) PROVE Owned'
  <2>1. OnlyJob(w) /\ job'[w].pc = "undo" /\ job'[w].req = job[w].req /\ job'[w].branch = job[w].branch
    BY <1>0, <1>12, GotoEffect DEF SendUpstreamFails, RequestSteps
  <2>2. NoNewUse(w) /\ nextBranch' = nextBranch
    BY <1>0, <1>12, <2>1 DEF SendUpstreamFails, NoNewUse, net, TypeOK
  <2>3. Placed'
    BY <2>1, <2>2, QuietStep DEF Placed, ResponseSteps
  <2>. QED BY <1>12, <1>a, <1>b, <1>c, <2>3, SendHome DEF SendUpstreamFails, net
<1>13. ASSUME NEW w \in Worker, ForgetClient(w) PROVE Owned'
  <2>1. OnlyJob(w) /\ job'[w].pc = "reject" /\ job'[w].req = job[w].req /\ job'[w].branch = job[w].branch
    BY <1>0, <1>13, GotoEffect DEF ForgetClient, RequestSteps
  <2>2. NoNewUse(w) /\ nextBranch' = nextBranch
    BY <1>13, <2>1 DEF ForgetClient, NoNewUse, net
  <2>3. Placed'
    BY <2>1, <2>2, QuietStep DEF Placed, ResponseSteps
  <2>. QED BY <1>13, <1>a, <1>b, <1>c, <2>3, SendHome DEF ForgetClient, net
<1>14. ASSUME NEW w \in Worker, RememberForward(w) PROVE Owned'
  <2> DEFINE r == job[w].req
             b == job[w].branch
  <2>1. r \in Request /\ r.txn \in Txn /\ b \in Branch /\ job[w].pc = "record"
    BY <1>0, <1>14, RequestFacts DEF RememberForward, JobsShaped, Shaped, HasBranch
  <2>2. OnlyJob(w) /\ job'[w].pc = "idle" /\ job'[w].branch = 0
    BY <1>0, <1>14, FinishEffect, NoJobFacts DEF RememberForward
  <2>3. /\ forwarded' = forwarded /\ branches' = branches /\ final' = final /\ relayed' = relayed
        /\ nextBranch' = nextBranch
    BY <1>14 DEF RememberForward, net
  <2>4. \A t \in Invite : \/ inviteTx'[t] = inviteTx[t]
                          \/ t = r.txn /\ inviteTx'[t].branch = b
    BY <1>0, <1>14 DEF RememberForward, TypeOK
  <2>5. \A c \in Branch, t \in Txn : Uses(c, t)' => Uses(c, t)
    BY <2>1, <2>2, <2>3, <2>4 DEF Uses, OnlyJob, Branch
  <2>6. GivenOut' /\ OneOwner'
    BY <1>a, <2>3, <2>5 DEF GivenOut, OneOwner
  <2>7. BranchIsNew'
    <3> SUFFICES ASSUME NEW v \in Worker, Unsent(v)' PROVE OnlyUser(v)'
      BY DEF BranchIsNew
    <3>1. v # w /\ job'[v] = job[v] /\ Unsent(v)
      BY <2>2 DEF Unsent, OnlyJob
    <3>2. OnlyUser(v) /\ job[v].branch # 0
      BY <1>0, <1>a, <3>1 DEF BranchIsNew, Unsent, JobsShaped, Shaped, HasBranch, Branch
    <3>. QED BY <2>2, <2>3, <2>4, <3>1, <3>2 DEF OnlyUser, OnlyJob
  <2>8. RouteFollows' /\ AnswerIsOwn'
    BY <1>a, <2>2, <2>3 DEF RouteFollows, FollowUpRoute, OnlyJob, AnswerIsOwn, ResponseSteps
  <2>. QED BY <1>a, <1>c, <2>3, <2>6, <2>7, <2>8, SendHome DEF Owned
<1>15. ASSUME NEW w \in Worker, CacheFinal(w) PROVE Owned'
  <2>1. /\ OnlyJob(w) /\ job'[w].pc = "relay" /\ job[w].pc = "cache" /\ job'[w].req = job[w].req
        /\ job'[w].branch = job[w].branch /\ job'[w].answer = job[w].answer
    BY <1>0, <1>15, GotoEffect DEF CacheFinal, ResponseSteps
  <2>2. NoNewUse(w) /\ nextBranch' = nextBranch
    BY <1>15, <2>1 DEF CacheFinal, NoNewUse, net
  <2>3. Placed'
    BY <2>1, <2>2, QuietStep DEF Placed, ResponseSteps
  <2>4. job[w].req \in Request /\ Answers(job[w].req, job[w].answer)
    BY <1>0, <1>a, <2>1 DEF AnswerIsOwn, JobsShaped, Shaped, ResponseSteps
  <2>5. FinalIsOwn'
    BY <1>0, <1>15, <1>a, <2>4 DEF CacheFinal, FinalIsOwn, TypeOK
  <2>. QED BY <1>15, <1>a, <1>b, <2>3, <2>5, SendHome DEF CacheFinal, net
<1>16. ASSUME NEW w \in Worker, Relay(w) PROVE Owned'
  <2>1. job[w].pc = "relay" /\ job[w].answer.txn = job[w].req.txn
    BY <1>a, <1>16 DEF Relay, AnswerIsOwn, Answers, ResponseSteps
  <2>2. Placed'
    <3>1. CASE Goto(w, "unroute")
      <4>1. /\ OnlyJob(w) /\ job'[w].pc = "unroute" /\ job'[w].req = job[w].req
            /\ job'[w].branch = job[w].branch /\ job'[w].answer = job[w].answer
        BY <1>0, <3>1, GotoEffect DEF ResponseSteps
      <4>2. NoNewUse(w) /\ nextBranch' = nextBranch
        BY <1>16, <4>1 DEF Relay, NoNewUse, tables
      <4>. QED BY <2>1, <4>1, <4>2, QuietStep DEF Placed, ResponseSteps
    <3>2. CASE Finish(w)
      <4>1. OnlyJob(w) /\ job'[w].pc = "idle" /\ job'[w].branch = 0
        BY <1>0, <3>2, FinishEffect, NoJobFacts
      <4>2. NoNewUse(w) /\ nextBranch' = nextBranch
        BY <1>16, <4>1 DEF Relay, NoNewUse, tables
      <4>. QED BY <4>1, <4>2, QuietStep DEF Placed, ResponseSteps
    <3>. QED BY <1>16, <3>1, <3>2 DEF Relay
  <2>3. HomeOnly'
    BY <1>16, <1>a, <2>1, SendHome DEF Relay
  <2>. QED BY <1>16, <1>b, <1>c, <2>2, <2>3 DEF Relay, tables
<1>17. ASSUME NEW w \in Worker, RemoveBranch(w) PROVE Owned'
  <2>1. OnlyJob(w) /\ job'[w].pc = "idle" /\ job'[w].branch = 0
    BY <1>0, <1>17, FinishEffect, NoJobFacts DEF RemoveBranch
  <2>2. NoNewUse(w) /\ nextBranch' = nextBranch
    BY <1>0, <1>17, <2>1 DEF RemoveBranch, NoNewUse, net, TypeOK
  <2>3. Placed'
    BY <2>1, <2>2, QuietStep DEF Placed, ResponseSteps
  <2>. QED BY <1>17, <1>a, <1>b, <1>c, <2>3, SendHome DEF RemoveBranch, net
<1>18. CASE Expire
  <2>1. /\ job' = job /\ forwarded' = forwarded /\ final' = final /\ relayed' = relayed
        /\ nextBranch' = nextBranch
        /\ \A b \in Branch : branches'[b] \in {branches[b], NoRoute}
        /\ \A t \in Invite : inviteTx'[t] \in {inviteTx[t], NoInvite}
    BY <1>0, <1>18 DEF Expire, net, TypeOK
  <2>2. \A c \in Branch, t \in Txn : Uses(c, t)' => Uses(c, t)
    BY <2>1 DEF Uses, Branch, NoInvite
  <2>3. GivenOut' /\ OneOwner'
    BY <1>a, <2>1, <2>2 DEF GivenOut, OneOwner
  <2>4. BranchIsNew'
    <3> SUFFICES ASSUME NEW v \in Worker, Unsent(v)' PROVE OnlyUser(v)'
      BY DEF BranchIsNew
    <3>1. Unsent(v) /\ OnlyUser(v) /\ job[v].branch # 0
      BY <1>0, <1>a, <2>1 DEF BranchIsNew, Unsent, JobsShaped, Shaped, HasBranch, Branch
    <3>. QED BY <2>1, <3>1 DEF OnlyUser, NoInvite
  <2>5. RouteFollows'
    <3>1. \A b \in Branch : FollowUpRoute(b) => FollowUpRoute(b)'
      BY <2>1 DEF FollowUpRoute
    <3>2. \A f \in forwarded : f.branch \in Branch
      BY <1>0 DEF TypeOK, Forward
    <3>3. \A v \in Worker : job[v].pc \in {"remember", "send"} => job[v].branch \in Branch
      BY <1>0 DEF JobsShaped, Shaped, HasBranch
    <3>. QED BY <1>a, <2>1, <3>1, <3>2, <3>3 DEF RouteFollows
  <2>6. AnswerIsOwn'
    BY <1>a, <2>1 DEF AnswerIsOwn
  <2>. QED BY <1>a, <1>c, <2>1, <2>3, <2>4, <2>5, <2>6, SendHome DEF Owned
<1>19. CASE UNCHANGED vars
  BY <1>19, <1>a DEF vars, tables, net, Owned, GivenOut, OneOwner, Uses, BranchIsNew, Unsent,
     OnlyUser, RouteFollows, FollowUpRoute, AnswerIsOwn, FinalIsOwn, HomeOnly
<1>. QED
  BY <1>1, <1>2, <1>3, <1>4, <1>5, <1>6, <1>7, <1>8, <1>9, <1>10, <1>11, <1>12, <1>13,
     <1>14, <1>15, <1>16, <1>17, <1>18, <1>19 DEF Next, WorkerStep

\* What a step does to the traffic on the wire and to the counts of faults.
LEMMA WireGrows ==
    ASSUME [Next]_vars
    PROVE  forwarded \subseteq forwarded' /\ relayed \subseteq relayed'
BY DEF Next, WorkerStep, vars, tables, net, bounds, Receive, ConsumeLocalInviteAck, RejectRequest,
   SendRejection, LookupHit, LookupMiss, PrepareForward, InsertBranch, RememberClient, SendUpstream,
   SendUpstreamFails, ForgetClient, RememberForward, ReceiveResponse, CacheFinal, Relay,
   RemoveBranch, Expire, Restart, Send, SendTrying

\* The counters tell whether there has been a restart or an expiry.
LEMMA FaultCounts ==
    ASSUME [Next]_vars, TypeInv
    PROVE  /\ Restart \/ restarts' = restarts
           /\ Expire \/ expired' = expired
           /\ Restart => restarts' # 0
           /\ Expire => expired' # 0
<1>1. restarts \in Nat /\ expired \in Nat
  BY DEF TypeInv, TypeOK
<1>2. (Restart => restarts' # 0) /\ (Expire => expired' # 0)
  BY <1>1 DEF Restart, Expire
<1>3. (Restart \/ restarts' = restarts) /\ (Expire \/ expired' = expired)
  BY DEF Next, WorkerStep, vars, bounds, Receive, ConsumeLocalInviteAck, RejectRequest,
     SendRejection, LookupHit, LookupMiss, PrepareForward, InsertBranch, RememberClient, SendUpstream,
     SendUpstreamFails, ForgetClient, RememberForward, ReceiveResponse, CacheFinal, Relay,
     RemoveBranch, Expire, Restart
<1>. QED BY <1>2, <1>3

\* Until the first restart, branches have one owner.
LEMMA OwnedSinceStart == Spec => [](restarts = 0 => Owned)
<1>1. Init => Owned
  BY NoJobFacts DEF Init, Owned, GivenOut, OneOwner, Uses, BranchIsNew, Unsent, RouteFollows,
     AnswerIsOwn, FinalIsOwn, HomeOnly, Branch, NoInvite, ResponseSteps
<1>2. TypeInv /\ (restarts = 0 => Owned) /\ [Next]_vars => (restarts = 0 => Owned)'
  BY OwnedStep, FaultCounts
<1>. QED BY <1>1, <1>2, TypeCorrect, PTL DEF Spec

\* Whatever is duplicated, replayed, evicted, expired or relayed along a branch that
\* CANCEL and ACK share with their INVITE, and however workers overtake each other, a
\* client only gets responses to its own requests, until a restart of the process.
THEOREM ResponsesReachTheirClient == Spec => []ResponsesGoHome
<1>1. (restarts = 0 => Owned) => ResponsesGoHome
  BY DEF Owned, HomeOnly, ResponsesGoHome
<1>. QED BY <1>1, OwnedSinceStart, PTL

\* A cached final response answers the transaction it is kept under, and an INVITE's or
\* another beginning request's answers that very request, although CANCEL and ACK share
\* the INVITE's branch and a route's request may differ from the one a response answers.
THEOREM ReplaysAreOwn == Spec => []CachedFinalIsOwn
<1>1. (restarts = 0 => Owned) => CachedFinalIsOwn
  BY DEF Owned, FinalIsOwn, Answers, Begins, CachedFinalIsOwn
<1>. QED BY <1>1, OwnedSinceStart, PTL

\* A worker's job changes only by a step of its own, or with a restart.
LEMMA OwnStep ==
    ASSUME TypeInv, [Next]_vars, ~Restart, NEW v \in Worker
    PROVE  \/ job'[v] = job[v]
           \/ WorkerStep(v)
           \/ \E r \in Request : Receive(v, r)
           \/ \E f \in forwarded, isFinal \in BOOLEAN : ReceiveResponse(v, f, isFinal)
<1>0. job \in [Worker -> Job]
  BY DEF TypeInv, TypeOK
<1>1. ASSUME NEW w \in Worker, w # v, NEW pc \in {"idle"} \cup RequestSteps \cup ResponseSteps,
             Goto(w, pc) \/ Finish(w)
      PROVE  job'[v] = job[v]
  BY <1>0, <1>1, GotoEffect, FinishEffect DEF OnlyJob
<1>2. ASSUME NEW w \in Worker, w # v, WorkerStep(w) PROVE job'[v] = job[v]
  <2>1. CASE PrepareForward(w)
    BY <1>0, <1>2, <2>1 DEF PrepareForward
  <2>2. CASE ~PrepareForward(w)
    BY <1>1, <1>2, <2>2 DEF WorkerStep, RejectRequest, SendRejection, LookupHit, LookupMiss,
       InsertBranch, RememberClient, SendUpstream, SendUpstreamFails, ForgetClient, RememberForward,
       CacheFinal, Relay, RemoveBranch, RequestSteps, ResponseSteps
  <2>. QED BY <2>1, <2>2
<1>3. ASSUME NEW w \in Worker, w # v, NEW r \in Request, Receive(w, r) PROVE job'[v] = job[v]
  BY <1>0, <1>3 DEF Receive
<1>4. ASSUME NEW w \in Worker, w # v, NEW f \in forwarded, NEW isFinal \in BOOLEAN,
             ReceiveResponse(w, f, isFinal)
      PROVE  job'[v] = job[v]
  BY <1>0, <1>4 DEF ReceiveResponse
<1>5. ASSUME NEW w \in Worker, NEW r \in Request, ConsumeLocalInviteAck(w, r) PROVE job'[v] = job[v]
  BY <1>5 DEF ConsumeLocalInviteAck
<1>6. CASE Expire \/ UNCHANGED vars
  BY <1>6 DEF Expire, vars
<1>. QED BY <1>2, <1>3, <1>4, <1>5, <1>6 DEF Next

\* The worker moves on and holds what it held.
Moves(w, pc) ==
    /\ job'[w].pc = pc /\ job'[w].req = job[w].req /\ job'[w].branch = job[w].branch
    /\ job'[w].up = job[w].up /\ job'[w].answer = job[w].answer /\ job'[w].isFinal = job[w].isFinal

\* The program counters a worker goes through, and the steps that take it there.
LEMMA PcStep ==
    ASSUME TypeInv, [Next]_vars, ~Restart, NEW v \in Worker
    PROVE  \/ job'[v] = job[v]
           \/ job[v].pc = "idle" /\ job'[v].pc \in {"lookup", "cache"}
           \/ Moves(v, "reject") /\ (RejectRequest(v) \/ ForgetClient(v))
           \/ Moves(v, "prepare") /\ LookupMiss(v)
           \/ job'[v].pc = "insert" /\ job'[v].req = job[v].req /\ PrepareForward(v)
           \/ Moves(v, "remember") /\ InsertBranch(v)
           \/ Moves(v, "send") /\ RememberClient(v)
           \/ Moves(v, "record") /\ SendUpstream(v)
           \/ Moves(v, "undo") /\ SendUpstreamFails(v)
           \/ Moves(v, "relay") /\ CacheFinal(v)
           \/ Moves(v, "unroute") /\ Relay(v) /\ RemovesRoute(job[v])
           \/ job'[v] = NoJob /\ (SendRejection(v) \/ LookupHit(v) \/ RememberForward(v)
                                    \/ Relay(v) \/ RemoveBranch(v))
<1>0. job \in [Worker -> Job]
  BY DEF TypeInv, TypeOK
<1>1. \A pc \in {"idle"} \cup RequestSteps \cup ResponseSteps : Goto(v, pc) => Moves(v, pc)
  BY <1>0, GotoEffect DEF Moves
<1>2. Finish(v) => job'[v] = NoJob
  BY <1>0, FinishEffect
<1>3. PrepareForward(v) => job'[v].pc = "insert" /\ job'[v].req = job[v].req
  BY <1>0 DEF PrepareForward, Handling
<1>4. ASSUME NEW r \in Request, Receive(v, r)
      PROVE  job[v].pc = "idle" /\ job'[v].pc \in {"lookup", "cache"}
  BY <1>0, <1>4 DEF Receive, Handling
<1>5. ASSUME NEW f \in forwarded, NEW isFinal \in BOOLEAN, ReceiveResponse(v, f, isFinal)
      PROVE  job[v].pc = "idle" /\ job'[v].pc \in {"lookup", "cache"}
  BY <1>0, <1>5 DEF ReceiveResponse
<1>6. /\ RejectRequest(v) \/ ForgetClient(v) => Moves(v, "reject")
      /\ LookupMiss(v) => Moves(v, "prepare")
      /\ InsertBranch(v) => Moves(v, "remember")
      /\ RememberClient(v) => Moves(v, "send")
      /\ SendUpstream(v) => Moves(v, "record")
      /\ SendUpstreamFails(v) => Moves(v, "undo")
      /\ CacheFinal(v) => Moves(v, "relay")
  BY <1>1 DEF RejectRequest, ForgetClient, LookupMiss, InsertBranch, RememberClient, SendUpstream,
     SendUpstreamFails, CacheFinal, RequestSteps, ResponseSteps
<1>7. SendRejection(v) \/ LookupHit(v) \/ RememberForward(v) \/ RemoveBranch(v) => job'[v] = NoJob
  BY <1>2 DEF SendRejection, LookupHit, RememberForward, RemoveBranch
<1>8. Relay(v) => job'[v] = NoJob \/ (Moves(v, "unroute") /\ RemovesRoute(job[v]))
  BY <1>1, <1>2 DEF Relay, ResponseSteps
<1>. QED BY <1>3, <1>4, <1>5, <1>6, <1>7, <1>8, OwnStep DEF WorkerStep

-----------------------------------------------------------------------------
(* The way back of a final response *)

\* A request that has left, has been answered locally, or is bound to be one or the other.
Left(r) ==
    \/ \E f \in forwarded : f.req = r
    \/ \E d \in relayed : d.answer = r
    \/ \E w \in Worker : job[w].pc \in {"remember", "send", "undo", "reject"} /\ job[w].req = r
RoutesLeft == \A b \in Branch : branches[b] # NoRoute => Left(branches[b].req)
ResponsesLeft == \A w \in Worker : job[w].pc \in ResponseSteps => Left(job[w].req)

\* Who takes a route down has relayed the final response.
UnrouteIsRelayed ==
    \A w \in Worker : job[w].pc = "unroute" =>
        [to |-> job[w].req.txn, answer |-> job[w].answer, isFinal |-> TRUE] \in relayed

\* The route is there when a request is about to leave.
RouteReady ==
    expired = 0 => \A w \in Worker :
        (Unsent(w) /\ job[w].pc # "insert") => branches[job[w].branch] # NoRoute

WayBack == RoutesLeft /\ ResponsesLeft /\ UnrouteIsRelayed /\ RouteReady /\ UnfollowedHasRoute

\* A request that has left in this sense has left for good.
LEMMA LeftStays ==
    ASSUME TypeInv, [Next]_vars, ~Restart, NEW r, Left(r)
    PROVE  Left(r)'
<1>0. job \in [Worker -> Job]
  BY DEF TypeInv, TypeOK
<1>1. forwarded \subseteq forwarded' /\ relayed \subseteq relayed'
  BY WireGrows
<1>2. CASE (\E f \in forwarded : f.req = r) \/ \E d \in relayed : d.answer = r
  BY <1>1, <1>2 DEF Left
<1>3. ASSUME NEW v \in Worker, job[v].pc \in {"remember", "send", "undo", "reject"}, job[v].req = r
      PROVE  Left(r)'
  <2>1. CASE job'[v] = job[v]
    BY <1>3, <2>1 DEF Left
  <2>2. CASE SendRejection(v)
    <3>1. [to |-> r.txn, answer |-> r, isFinal |-> TRUE] \in relayed'
      BY <1>3, <2>2 DEF SendRejection, Send
    <3>. QED BY <3>1 DEF Left
  <2>3. CASE SendUpstream(v)
    <3>1. [branch |-> job[v].branch, req |-> r, up |-> job[v].up] \in forwarded'
      BY <1>3, <2>3 DEF SendUpstream
    <3>. QED BY <3>1 DEF Left
  <2>4. CASE Moves(v, "send") \/ Moves(v, "undo") \/ Moves(v, "reject")
    BY <1>3, <2>4 DEF Moves, Left
  <2>. QED BY <1>3, <2>1, <2>2, <2>3, <2>4, PcStep DEF LookupMiss, PrepareForward, InsertBranch,
              CacheFinal, Relay, LookupHit, RememberForward, RemoveBranch
<1>. QED BY <1>2, <1>3 DEF Left

\* A transaction that CANCEL or ACK has followed stays one.
LEMMA FollowedStays ==
    ASSUME TypeInv, CachedIsOut, RecordIsOut, ResponsesLeft, [Next]_vars, ~Restart,
           NEW t, Followed(t)
    PROVE  Followed(t)'
<1>1. forwarded \subseteq forwarded' /\ relayed \subseteq relayed'
  BY WireGrows
<1>2. \A r : Left(r) /\ Follows(r, t) => Followed(t)'
  <2>1. \A r : Left(r)' /\ Follows(r, t) => Followed(t)'
    BY DEF Left, Followed, Follows
  <2>. QED BY <2>1, LeftStays
<1>3. ASSUME NEW v \in Worker, Follows(job[v].req, t) PROVE Followed(t)'
  <2>1. job[v].pc # "idle"
    BY <1>3, NoJobFacts, RequestFacts DEF TypeInv, JobsShaped, Shaped, Follows
  <2>2. CASE job'[v].req = job[v].req
    BY <1>3, <2>2 DEF Followed, Follows
  <2>3. CASE job[v].pc \in {"reject", "record"} \cup ResponseSteps
             \/ (job[v].pc = "lookup" /\ job[v].req \in cached)
    <3>1. job[v].pc = "reject" => Left(job[v].req)
      BY DEF Left
    <3>2. job[v].pc = "record" => Left(job[v].req)
      BY DEF RecordIsOut, SentForward, Left
    <3>3. job[v].pc \in ResponseSteps => Left(job[v].req)
      BY DEF ResponsesLeft
    <3>4. job[v].req \in cached => Left(job[v].req)
      BY DEF CachedIsOut, Left
    <3>. QED BY <1>2, <1>3, <2>3, <3>1, <3>2, <3>3, <3>4
  <2>. QED BY <2>1, <2>2, <2>3, PcStep DEF Moves, SendRejection, LookupHit, RememberForward, Relay,
              RemoveBranch, ResponseSteps
<1>. QED BY <1>1, <1>3 DEF Followed

\* Routes are inserted by the worker that has their request in hand, and taken down
\* by one that has failed to send it, has relayed its final response, or by age.
LEMMA RouteStep ==
    ASSUME TypeInv, [Next]_vars, ~Restart, NEW b \in Branch
    PROVE  \/ branches'[b] = branches[b]
           \/ \E w \in Worker : /\ InsertBranch(w) /\ job[w].branch = b
                                /\ branches'[b] = [req |-> job[w].req, up |-> job[w].up]
           \/ \E w \in Worker : SendUpstreamFails(w) /\ job[w].branch = b /\ branches'[b] = NoRoute
           \/ \E w \in Worker : RemoveBranch(w) /\ job[w].branch = b /\ branches'[b] = NoRoute
           \/ Expire /\ branches'[b] = NoRoute
<1>0. branches \in [Branch -> Route]
  BY DEF TypeInv, TypeOK
<1>1. ASSUME NEW w \in Worker, InsertBranch(w), branches'[b] # branches[b]
      PROVE  job[w].branch = b /\ branches'[b] = [req |-> job[w].req, up |-> job[w].up]
  BY <1>0, <1>1 DEF InsertBranch
<1>2. ASSUME NEW w \in Worker, SendUpstreamFails(w), branches'[b] # branches[b]
      PROVE  job[w].branch = b /\ branches'[b] = NoRoute
  BY <1>0, <1>2 DEF SendUpstreamFails
<1>3. ASSUME NEW w \in Worker, RemoveBranch(w), branches'[b] # branches[b]
      PROVE  job[w].branch = b /\ branches'[b] = NoRoute
  BY <1>0, <1>3 DEF RemoveBranch
<1>4. ASSUME Expire, branches'[b] # branches[b] PROVE branches'[b] = NoRoute
  BY <1>0, <1>4 DEF Expire
<1>5. \/ branches' = branches
      \/ \E w \in Worker : InsertBranch(w) \/ SendUpstreamFails(w) \/ RemoveBranch(w)
      \/ Expire
  BY DEF Next, WorkerStep, vars, tables, Receive, ConsumeLocalInviteAck, RejectRequest,
     SendRejection, LookupHit, LookupMiss, PrepareForward, RememberClient, SendUpstream,
     ForgetClient, RememberForward, ReceiveResponse, CacheFinal, Relay
<1>. QED BY <1>1, <1>2, <1>3, <1>4, <1>5

\* Every step but a restart keeps the way back of a final response.
LEMMA WayBackStep ==
    ASSUME TypeInv, CachedIsOut, RecordIsOut, Owned, WayBack, [Next]_vars, ~Restart
    PROVE  WayBack'
<1>0. TypeOK /\ JobsShaped /\ job \in [Worker -> Job]
  BY DEF TypeInv, TypeOK
<1>a. RoutesLeft /\ ResponsesLeft /\ UnrouteIsRelayed /\ RouteReady /\ UnfollowedHasRoute
  BY DEF WayBack
<1>b. OneOwner /\ BranchIsNew /\ AnswerIsOwn
  BY DEF Owned
<1>c. forwarded \subseteq forwarded' /\ relayed \subseteq relayed'
  BY WireGrows
<1>d. \A r : Left(r) => Left(r)'
  BY LeftStays
<1>1. RoutesLeft'
  <2> SUFFICES ASSUME NEW b \in Branch, branches'[b] # NoRoute PROVE Left(branches[b].req)'
    BY DEF RoutesLeft
  <2>1. CASE branches'[b] = branches[b]
    BY <1>a, <1>d, <2>1 DEF RoutesLeft, Left
  <2>2. ASSUME NEW w \in Worker, InsertBranch(w), branches'[b] = [req |-> job[w].req, up |-> job[w].up]
        PROVE  Left(branches[b].req)'
    <3>1. job'[w].pc = "remember" /\ job'[w].req = job[w].req
      BY <1>0, <2>2, GotoEffect DEF InsertBranch, RequestSteps
    <3>. QED BY <2>2, <3>1 DEF Left
  <2>. QED BY <2>1, <2>2, RouteStep
<1>2. ResponsesLeft'
  <2> SUFFICES ASSUME NEW v \in Worker, job'[v].pc \in ResponseSteps PROVE Left(job[v].req)'
    BY DEF ResponsesLeft
  <2>1. CASE job'[v].req = job[v].req /\ job[v].pc \in ResponseSteps
    BY <1>a, <1>d, <2>1 DEF ResponsesLeft, Left
  <2>2. ASSUME NEW f \in forwarded, NEW isFinal \in BOOLEAN, ReceiveResponse(v, f, isFinal)
        PROVE  Left(job[v].req)'
    <3>1. f.branch \in Branch /\ branches[f.branch] # NoRoute /\ job'[v].req = branches[f.branch].req
      BY <1>0, <2>2 DEF ReceiveResponse, TypeOK, Forward
    <3>. QED BY <1>a, <1>d, <3>1 DEF RoutesLeft, Left
  <2>3. CASE job[v].pc = "idle" /\ job'[v] # job[v]
    <3>1. ~WorkerStep(v)
      BY <2>3 DEF WorkerStep, RejectRequest, SendRejection, LookupHit, LookupMiss, PrepareForward,
         InsertBranch, RememberClient, SendUpstream, SendUpstreamFails, ForgetClient,
         RememberForward, CacheFinal, Relay, RemoveBranch
    <3>2. \A r \in Request : Receive(v, r) => job'[v].pc = "lookup"
      BY <1>0 DEF Receive, Handling
    <3>. QED BY <2>2, <2>3, <3>1, <3>2, OwnStep DEF ResponseSteps
  <2>. QED BY <2>1, <2>3, PcStep, NoJobFacts DEF Moves, CacheFinal, Relay, ResponseSteps
<1>3. UnrouteIsRelayed'
  <2> SUFFICES ASSUME NEW v \in Worker, job'[v].pc = "unroute"
               PROVE  [to |-> job'[v].req.txn, answer |-> job'[v].answer, isFinal |-> TRUE] \in relayed'
    BY DEF UnrouteIsRelayed
  <2>1. CASE job'[v] = job[v]
    BY <1>a, <1>c, <2>1 DEF UnrouteIsRelayed
  <2>2. CASE Moves(v, "unroute") /\ Relay(v) /\ RemovesRoute(job[v])
    <3>1. job[v].isFinal = TRUE
      BY <1>0, <2>2 DEF RemovesRoute, Job
    <3>. QED BY <2>2, <3>1 DEF Moves, Relay, Send
  <2>. QED BY <2>1, <2>2, PcStep, NoJobFacts DEF Moves
<1>4. RouteReady'
  <2> SUFFICES ASSUME expired' = 0, NEW v \in Worker, Unsent(v)', job'[v].pc # "insert"
               PROVE  branches'[job'[v].branch] # NoRoute
    BY DEF RouteReady
  <2>1. expired = 0 /\ ~Expire
    BY FaultCounts
  <2>2. CASE Moves(v, "remember") /\ InsertBranch(v)
    <3>1. job[v].req \in Request /\ job[v].branch \in Branch
      BY <1>0, <2>2 DEF InsertBranch, JobsShaped, Shaped, HasBranch
    <3>2. branches'[job[v].branch] = [req |-> job[v].req, up |-> job[v].up]
      BY <1>0, <2>2, <3>1 DEF InsertBranch, TypeOK
    <3>. QED BY <2>2, <3>1, <3>2, RequestFacts DEF Moves, NoRoute
  <2>3. CASE job'[v] = job[v] \/ (Moves(v, "send") /\ RememberClient(v))
    <3> DEFINE b == job[v].branch
    <3>1. Unsent(v) /\ job[v].pc # "insert" /\ job'[v].branch = b
      BY <2>3 DEF Moves, RememberClient, Unsent
    <3>2. b \in Branch /\ OnlyUser(v) /\ branches[b] # NoRoute
      BY <1>0, <1>a, <1>b, <2>1, <3>1
         DEF Unsent, JobsShaped, Shaped, HasBranch, BranchIsNew, RouteReady
    <3>3. ASSUME NEW w \in Worker, job[w].branch = b PROVE w = v
      BY <3>2, <3>3 DEF OnlyUser
    <3>4. ~SendUpstreamFails(v) /\ ~RemoveBranch(v)
      BY <1>0, <2>3, <3>1, PcStep, GotoEffect, FinishEffect, NoJobFacts
         DEF SendUpstreamFails, RemoveBranch, Unsent, Moves, RememberClient, RequestSteps
    <3>5. branches'[b] # NoRoute
      BY <2>1, <3>1, <3>2, <3>3, <3>4, RouteStep DEF InsertBranch
    <3>. QED BY <3>1, <3>5
  <2>. QED BY <2>2, <2>3, PcStep, NoJobFacts DEF Moves, Unsent
<1>5. UnfollowedHasRoute'
  <2> SUFFICES ASSUME NEW f \in forwarded', ~Followed(f.req.txn)', expired' = 0, restarts' = 0,
                      UpstreamMayAnswer(f, TRUE)
               PROVE  \/ branches'[f.branch] # NoRoute
                      \/ [to |-> f.req.txn, answer |-> f.req, isFinal |-> TRUE] \in relayed'
                      \/ \E v \in Worker : HandlesFinal(v, f)'
    BY DEF UnfollowedHasRoute, HasWayBack, UpstreamMayAnswer
  <2> DEFINE b == f.branch
             t == f.req.txn
             delivered == [to |-> t, answer |-> f.req, isFinal |-> TRUE]
  <2>1. expired = 0 /\ restarts = 0 /\ ~Expire
    BY FaultCounts
  <2>2. \A v \in Worker : job[v].req.txn = t => Begins(job[v].req)
    <3>1. ~Followed(t)
      BY <1>a, FollowedStays
    <3>. QED BY <3>1 DEF Followed, Follows, Begins
  <2>3. Begins(f.req)
    BY DEF Followed, Follows, Begins
  <2>4. CASE f \notin forwarded
    <3>1. PICK w \in Worker : SendUpstream(w)
      BY <2>4 DEF Next, WorkerStep, vars, net, Receive, ConsumeLocalInviteAck, RejectRequest,
         SendRejection, LookupHit, LookupMiss, PrepareForward, InsertBranch, RememberClient,
         SendUpstreamFails, ForgetClient, RememberForward, ReceiveResponse, CacheFinal, Relay,
         RemoveBranch, Expire
    <3>2. f.req = job[w].req /\ b = job[w].branch /\ job[w].pc = "send" /\ branches' = branches
      BY <2>4, <3>1 DEF SendUpstream, tables
    <3>3. branches[job[w].branch] # NoRoute
      BY <1>a, <2>1, <2>3, <3>2 DEF RouteReady, Unsent
    <3>. QED BY <3>2, <3>3
  <2>5. CASE f \in forwarded
    <3>1. b \in Branch /\ f.req \in Request /\ t \in Txn /\ Uses(b, t)
      BY <1>0, <2>5, RequestFacts DEF TypeOK, Forward, Uses
    <3>2. ASSUME NEW w \in Worker, job[w].branch = b, job[w].pc # "idle"
          PROVE  job[w].req = f.req
      <4>1. job[w].req \in Request /\ job[w].req.txn \in Txn /\ Uses(b, job[w].req.txn)
        BY <1>0, <3>2, RequestFacts DEF JobsShaped, Shaped, Uses
      <4>2. job[w].req.txn = t
        BY <1>b, <3>1, <4>1 DEF OneOwner
      <4>. QED BY <2>2, <2>3, <3>1, <4>1, <4>2, RequestFacts DEF Begins
    <3>3. \/ branches[b] # NoRoute
          \/ delivered \in relayed
          \/ \E v \in Worker : HandlesFinal(v, f)
      BY <1>a, <2>1, <2>5, FollowedStays DEF UnfollowedHasRoute, HasWayBack
    <3>4. CASE delivered \in relayed
      BY <1>c, <3>4
    <3>5. ASSUME NEW v \in Worker, HandlesFinal(v, f)
          PROVE  delivered \in relayed' \/ HandlesFinal(v, f)'
      <4>1. job[v].req = f.req /\ job[v].answer = f.req
        BY <3>2, <3>5 DEF HandlesFinal, ResponseSteps
      <4>2. CASE job[v].pc = "unroute"
        BY <1>a, <1>c, <4>1, <4>2 DEF UnrouteIsRelayed
      <4>3. CASE Relay(v)
        <5>1. job[v].isFinal = TRUE
          BY <1>0, <3>5 DEF HandlesFinal, Job
        <5>. QED BY <4>1, <4>3, <5>1 DEF Relay, Send
      <4>4. CASE job'[v] = job[v] \/ Moves(v, "relay")
        BY <3>5, <4>4 DEF HandlesFinal, Moves, ResponseSteps
      <4>. QED BY <3>5, <4>2, <4>3, <4>4, PcStep DEF HandlesFinal, ResponseSteps, RejectRequest, ForgetClient,
                  LookupMiss, PrepareForward, InsertBranch, RememberClient, SendUpstream,
                  SendUpstreamFails, SendRejection, LookupHit, RememberForward, RemoveBranch
    <3>6. CASE branches[b] # NoRoute
      <4>1. ASSUME NEW w \in Worker, InsertBranch(w), branches'[b] = [req |-> job[w].req, up |-> job[w].up]
            PROVE  branches'[b] # NoRoute
        <5>1. job[w].req \in Request
          BY <1>0, <4>1 DEF InsertBranch, JobsShaped, Shaped
        <5>. QED BY <4>1, <5>1, RequestFacts DEF NoRoute
      <4>2. ASSUME NEW w \in Worker, SendUpstreamFails(w), job[w].branch = b PROVE FALSE
        <5>1. job[w].pc = "send" /\ job[w].req = f.req
          BY <3>2, <4>2 DEF SendUpstreamFails
        <5>2. OnlyUser(w)
          BY <1>b, <2>3, <5>1 DEF BranchIsNew, Unsent
        <5>. QED BY <2>5, <4>2, <5>2 DEF OnlyUser
      <4>3. ASSUME NEW w \in Worker, RemoveBranch(w), job[w].branch = b PROVE delivered \in relayed'
        <5>1. job[w].pc = "unroute" /\ job[w].req = f.req
          BY <3>2, <4>3 DEF RemoveBranch
        <5>2. job[w].answer = f.req
          BY <1>b, <2>3, <5>1 DEF AnswerIsOwn, Answers, ResponseSteps
        <5>. QED BY <1>a, <1>c, <5>1, <5>2 DEF UnrouteIsRelayed
      <4>. QED BY <2>1, <3>1, <3>6, <4>1, <4>2, <4>3, RouteStep
    <3>. QED BY <3>3, <3>4, <3>5, <3>6
  <2>. QED BY <2>4, <2>5
<1>. QED BY <1>1, <1>2, <1>3, <1>4, <1>5 DEF WayBack

\* Until the first restart, final responses have a way back.
LEMMA WayBackSinceStart == Spec => [](restarts = 0 => WayBack)
<1>1. Init => WayBack
  BY NoJobFacts DEF Init, WayBack, RoutesLeft, ResponsesLeft, UnrouteIsRelayed, RouteReady, Unsent,
     UnfollowedHasRoute, ResponseSteps
<1>2. /\ TypeInv /\ CachedIsOut /\ RecordIsOut /\ (restarts = 0 => Owned)
      /\ (restarts = 0 => WayBack) /\ [Next]_vars
      => (restarts = 0 => WayBack)'
  BY WayBackStep, FaultCounts
<1>. QED BY <1>1, <1>2, TypeCorrect, SentIsOut, OwnedSinceStart, PTL DEF Spec

\* While no route is lost to its TTL or a restart, the final response to a request that
\* nothing has followed finds a route until one has been relayed, through evictions,
\* copies of the request with other workers and failing sends of those.
THEOREM FinalFindsItsWay == Spec => []UnfollowedHasRoute
<1>1. (restarts = 0 => WayBack) => UnfollowedHasRoute
  BY DEF WayBack, UnfollowedHasRoute, HasWayBack
<1>. QED BY <1>1, WayBackSinceStart, PTL

-----------------------------------------------------------------------------
(* CANCEL and ACK follow their INVITE *)

\* What is recorded for an INVITE is a forward of it, and every forwarded INVITE is
\* recorded or about to be.
InviteTxIsOut ==
    \A t \in Invite : inviteTx[t] # NoInvite =>
        [branch |-> inviteTx[t].branch, req |-> InviteOf(t), up |-> inviteTx[t].up] \in forwarded
OutIsRecorded ==
    expired = 0 => \A t \in Invite : InviteForwards(t) # {} =>
        \/ inviteTx[t] # NoInvite
        \/ \E w \in Worker : job[w].pc = "record" /\ job[w].req = InviteOf(t)


\* The steps that change the record of an INVITE.
LEMMA RecordStep ==
    ASSUME TypeInv, [Next]_vars, ~Restart, NEW t \in Invite
    PROVE  \/ inviteTx'[t] = inviteTx[t]
           \/ Expire /\ inviteTx'[t] = NoInvite
           \/ \E w \in Worker : /\ RememberForward(w) /\ job[w].req = InviteOf(t)
                                /\ inviteTx'[t] = [branch |-> job[w].branch, up |-> job[w].up]
<1>0. inviteTx \in [Invite -> [branch : Branch, up : Upstream] \cup {NoInvite}] /\ JobsShaped
  BY DEF TypeInv, TypeOK
<1>1. ASSUME NEW w \in Worker, RememberForward(w), inviteTx'[t] # inviteTx[t]
      PROVE  job[w].req = InviteOf(t) /\ inviteTx'[t] = [branch |-> job[w].branch, up |-> job[w].up]
  <2>1. job[w].req \in Request
    BY <1>0, <1>1 DEF RememberForward, JobsShaped, Shaped
  <2>2. job[w].req.method = "INVITE" /\ job[w].req.txn = t
    BY <1>0, <1>1 DEF RememberForward
  <2>3. job[w].req = InviteOf(t)
    BY <2>1, <2>2, UdpAssumption DEF Request, InviteOf
  <2>. QED BY <1>0, <1>1, <2>2, <2>3 DEF RememberForward
<1>2. ASSUME Expire, inviteTx'[t] # inviteTx[t] PROVE inviteTx'[t] = NoInvite
  BY <1>0, <1>2 DEF Expire
<1>3. \/ inviteTx' = inviteTx \/ Expire
      \/ \E w \in Worker : RememberForward(w)
  BY DEF Next, WorkerStep, vars, tables, Receive, ConsumeLocalInviteAck, RejectRequest,
     SendRejection, LookupHit, LookupMiss, PrepareForward, InsertBranch, RememberClient, SendUpstream,
     SendUpstreamFails, ForgetClient, ReceiveResponse, CacheFinal, Relay, RemoveBranch
<1>. QED BY <1>1, <1>2, <1>3

\* A record is only ever made of a request that has left.
LEMMA InviteTxStep ==
    ASSUME TypeInv, RecordIsOut, InviteTxIsOut, [Next]_vars
    PROVE  InviteTxIsOut'
<1>0. forwarded \subseteq forwarded'
  BY WireGrows
<1>1. CASE Restart
  BY <1>1 DEF Restart, InviteTxIsOut
<1>2. ASSUME ~Restart, NEW t \in Invite, inviteTx'[t] # NoInvite
      PROVE  [branch |-> inviteTx'[t].branch, req |-> InviteOf(t), up |-> inviteTx'[t].up] \in forwarded'
  <2>1. CASE inviteTx'[t] = inviteTx[t]
    BY <1>0, <1>2, <2>1 DEF InviteTxIsOut
  <2>2. ASSUME NEW w \in Worker, RememberForward(w), job[w].req = InviteOf(t),
               inviteTx'[t] = [branch |-> job[w].branch, up |-> job[w].up]
        PROVE  [branch |-> inviteTx'[t].branch, req |-> InviteOf(t), up |-> inviteTx'[t].up] \in forwarded'
    <3>1. SentForward(w) \in forwarded
      BY <2>2 DEF RememberForward, RecordIsOut
    <3>. QED BY <1>0, <2>2, <3>1 DEF SentForward
  <2>. QED BY <1>2, <2>1, <2>2, RecordStep
<1>. QED BY <1>1, <1>2 DEF InviteTxIsOut, InviteOf

\* What is recorded for an INVITE is one of its forwards, whatever happens.
LEMMA RecordsAreForwards == Spec => []InviteTxIsOut
<1>1. Init => InviteTxIsOut
  BY DEF Init, InviteTxIsOut
<1>2. TypeInv /\ RecordIsOut /\ InviteTxIsOut /\ [Next]_vars => InviteTxIsOut'
  BY InviteTxStep
<1>. QED BY <1>1, <1>2, TypeCorrect, SentIsOut, PTL DEF Spec

\* An INVITE that leaves is recorded by the worker that sent it.
LEMMA OutIsRecordedStep ==
    ASSUME TypeInv, OutIsRecorded, [Next]_vars, ~Restart
    PROVE  OutIsRecorded'
<1>. SUFFICES ASSUME expired' = 0, NEW t \in Invite, NEW g \in forwarded', g.req = InviteOf(t)
              PROVE  \/ inviteTx'[t] # NoInvite
                     \/ \E w \in Worker : job'[w].pc = "record" /\ job'[w].req = InviteOf(t)
  BY DEF OutIsRecorded, InviteForwards, InviteOf
<1>0. expired = 0 /\ ~Expire
  BY FaultCounts
<1>1. CASE g \notin forwarded
  <2>1. PICK w \in Worker : SendUpstream(w)
    BY <1>1 DEF Next, WorkerStep, vars, net, Receive, ConsumeLocalInviteAck, RejectRequest,
       SendRejection, LookupHit, LookupMiss, PrepareForward, InsertBranch, RememberClient,
       SendUpstreamFails, ForgetClient, RememberForward, ReceiveResponse, CacheFinal, Relay,
       RemoveBranch, Expire, Restart
  <2>2. g = SentForward(w)
    BY <1>1, <2>1 DEF SendUpstream, SentForward
  <2>3. job'[w].pc = "record" /\ job'[w].req = job[w].req
    BY <2>1, GotoEffect DEF SendUpstream, TypeInv, TypeOK, RequestSteps
  <2>. QED BY <2>2, <2>3 DEF SentForward
<1>2. CASE g \in forwarded
  <2>1. \/ inviteTx[t] # NoInvite
        \/ \E w \in Worker : job[w].pc = "record" /\ job[w].req = InviteOf(t)
    BY <1>0, <1>2 DEF OutIsRecorded, InviteForwards
  <2>2. ASSUME NEW w \in Worker, RememberForward(w), job[w].req = InviteOf(t)
        PROVE  inviteTx'[t] # NoInvite
    <3>1. inviteTx \in [Invite -> [branch : Branch, up : Upstream] \cup {NoInvite}]
      BY DEF TypeInv, TypeOK
    <3>2. inviteTx'[t] = [branch |-> job[w].branch, up |-> job[w].up] /\ job[w].pc = "record"
      BY <2>2, <3>1 DEF RememberForward, InviteOf
    <3>3. job[w].branch \in Branch
      BY <3>2 DEF TypeInv, JobsShaped, Shaped, HasBranch
    <3>. QED BY <3>2, <3>3, UdpAssumption DEF NoInvite, Branch
  <2>3. CASE inviteTx[t] # NoInvite
    BY <1>0, <2>2, <2>3, RecordStep
  <2>4. ASSUME NEW w \in Worker, job[w].pc = "record", job[w].req = InviteOf(t)
        PROVE  (job'[w].pc = "record" /\ job'[w].req = InviteOf(t)) \/ RememberForward(w)
    BY <2>4, PcStep DEF RejectRequest, ForgetClient, LookupMiss, PrepareForward, InsertBranch,
       RememberClient, SendUpstream, SendUpstreamFails, CacheFinal, Relay, SendRejection, LookupHit,
       RemoveBranch
  <2>. QED BY <2>1, <2>2, <2>3, <2>4
<1>. QED BY <1>1, <1>2

\* A CANCEL or ACK taken up after its INVITE has settled goes where a copy of the INVITE
\* went, under that copy's branch, while nothing has expired and nothing was restarted.
THEOREM FollowUpsFollow == Spec => SameUpstream
<1>1. Init => OutIsRecorded
  BY DEF Init, OutIsRecorded, InviteForwards
<1>2. TypeInv /\ (restarts = 0 => OutIsRecorded) /\ [Next]_vars => (restarts = 0 => OutIsRecorded)'
  BY OutIsRecordedStep, FaultCounts
<1>3. Spec => [](restarts = 0 => OutIsRecorded)
  BY <1>1, <1>2, TypeCorrect, PTL DEF Spec
<1>4. ASSUME TypeInv, InviteTxIsOut, restarts = 0 => OutIsRecorded, [Next]_vars,
             NEW w \in Worker, job[w].pc = "prepare", job'[w].pc = "insert",
             job[w].req.method \in FollowUp, InviteSettled(job[w].req.txn), expired = 0, restarts = 0
      PROVE  \E g \in InviteForwards(job[w].req.txn) :
                g.up = job'[w].up /\ g.branch = job'[w].branch
  <2>0. job \in [Worker -> Job] /\ job[w].req \in Request
    BY <1>4 DEF TypeInv, TypeOK, JobsShaped, Shaped
  <2>1. ~Restart
    BY <1>4, NoJobFacts DEF Restart
  <2>2. PrepareForward(w)
    BY <1>4, <2>1, PcStep, NoJobFacts DEF Moves
  <2>. DEFINE t == job[w].req.txn
  <2>3. t \in Invite
    BY <1>4, <2>0, RequestFacts
  <2>4. inviteTx[t] # NoInvite
    BY <1>4, <2>3 DEF OutIsRecorded, InviteSettled, HandlesRequest, RequestSteps
  <2>5. FollowsInvite(job[w].req)
    BY <1>4, <2>4, UdpAssumption DEF FollowsInvite
  <2>6. job'[w].branch = inviteTx[t].branch /\ job'[w].up = inviteTx[t].up
    BY <2>0, <2>2, <2>5 DEF PrepareForward, Handling
  <2>7. [branch |-> inviteTx[t].branch, req |-> InviteOf(t), up |-> inviteTx[t].up] \in InviteForwards(t)
    BY <1>4, <2>3, <2>4 DEF InviteTxIsOut, InviteForwards
  <2>. QED BY <2>6, <2>7
<1>5. /\ TypeInv /\ InviteTxIsOut /\ (restarts = 0 => OutIsRecorded) /\ [Next]_vars
      => [\A w \in Worker :
            (/\ job[w].pc = "prepare" /\ job'[w].pc = "insert"
             /\ job[w].req.method \in FollowUp /\ InviteSettled(job[w].req.txn)
             /\ expired = 0 /\ restarts = 0)
                => \E g \in InviteForwards(job[w].req.txn) :
                      g.up = job'[w].up /\ g.branch = job'[w].branch]_vars
  BY <1>4
<1>. QED BY <1>3, <1>5, TypeCorrect, RecordsAreForwards, PTL DEF Spec, SameUpstream
=============================================================================
