------------------------ MODULE ActiveStandbyProofs ------------------------
(***************************************************************************)
(* Proofs about the role protocol, for every pair of nodes and every value *)
(* of the timing constants and bounds.                                     *)
(***************************************************************************)
EXTENDS ActiveStandby, TLAPS

\* A heartbeat belongs to a life of the peer that has begun, and while that
\* life lasts the peer's epoch is at least the one it reported.
Fresh(n) ==
    /\ proc[n] # "down" => life[n] >= 1
    /\ reply[n].role # "None" => reply[n].life >= 1
    /\ reply[n].life <= life[Peer[n]]
    /\ reply[n].life = life[Peer[n]] => reply[n].epoch <= epoch[Peer[n]]
ReplyFresh == \A n \in Node : Fresh(n)

\* A node runs its on_step_down hook for a heartbeat that beats its own epoch,
\* which it cannot change meanwhile.
Justified(n) ==
    mon[n] = "stepDown" =>
        /\ role[n] = "Leader"
        /\ reply[n].role = "Leader"
        /\ PeerShouldWin(n, reply[n].epoch)
        /\ age[n] = 0
StepDownJustified == \A n \in Node : Justified(n)

\* The epoch that the heartbeat of a fetch under way reports, or will report.
ReportedEpoch(n) == IF mon[n] = "roleRead" THEN epoch[Peer[n]] ELSE reply[n].epoch

\* An active whose fetch says that the peer is active, when it no longer is,
\* has the stronger epoch: it is the peer that yielded, and rightly so.
StaleLoses(n) ==
    (/\ life[n] = 1 /\ life[Peer[n]] = 1
     /\ mon[n] \in {"roleRead", "answered", "stepDown"}
     /\ reply[n].role = "Leader"
     /\ role[n] = "Leader"
     /\ role[Peer[n]] = "Follower")
        => ~PeerShouldWin(n, ReportedEpoch(n))
StaleActiveLoses == \A n \in Node : StaleLoses(n)

\* A standby whose clock has run out, with hooks faster than the timeout, got
\* no heartbeat in this round.
Silent(n) ==
    /\ mon[n] = "failover" => reply[n] = NoReply
    /\ (mon[n] = "check" /\ role[n] = "Follower" /\ age[n] >= FailoverTicks)
         => reply[n] = NoReply
SilentWhenExpired == MaxHookTicks < FailoverTicks => \A n \in Node : Silent(n)

IInv ==
    /\ TypeOK
    /\ ReplyFresh
    /\ StepDownJustified
    /\ StaleActiveLoses
    /\ SilentWhenExpired

-----------------------------------------------------------------------------
(* Type correctness *)

USE NodeAssumption, PeerAssumption, TicksAssumption, BoundAssumption

\* A node's peer is a node, of which it is the peer.
LEMMA PeerInNode ==
    ASSUME NEW n \in Node
    PROVE  Peer[n] \in Node /\ Peer[Peer[n]] = n /\ Peer[n] # n
OBVIOUS

\* Waiting keeps a clock in its range.
LEMMA LaterType ==
    ASSUME TypeOK, NEW n \in Node, NEW d \in Nat
    PROVE  Later(n, d) \in 0..FailoverTicks
BY DEF TypeOK, Later

\* What the types say of one node's numbers.
LEMMA NumberTypes ==
    ASSUME TypeOK, NEW n \in Node
    PROVE  /\ life[n] \in Nat
           /\ epoch[n] \in Nat /\ epoch[n] >= 1
           /\ reply[n].life \in Nat
           /\ reply[n].epoch \in Nat
           /\ age[n] \in Nat
<1>1. life[n] \in 0..MaxLife
  BY DEF TypeOK
<1>2. epoch[n] \in 1..MaxEpoch
  BY DEF TypeOK
<1>3. reply[n].life \in 0..MaxLife
  BY DEF TypeOK, Reply
<1>4. reply[n].epoch \in 0..MaxEpoch
  BY DEF TypeOK, Reply
<1>5. age[n] \in 0..FailoverTicks
  BY DEF TypeOK
<1> QED
  BY <1>1, <1>2, <1>3, <1>4, <1>5

\* Every step keeps the types.
LEMMA TypeStep == TypeOK /\ [Next]_vars => TypeOK'
<1> SUFFICES ASSUME TypeOK, [Next]_vars PROVE TypeOK'
  OBVIOUS
<1>0. CASE UNCHANGED vars
  BY <1>0 DEF TypeOK, vars
<1>1. ASSUME NEW n \in Node, Start(n) PROVE TypeOK'
  BY <1>1 DEF TypeOK, Start, Role, Reply, NoReply, Phase
<1>2. ASSUME NEW n \in Node, StartHookOk(n) PROVE TypeOK'
  BY <1>2 DEF TypeOK, StartHookOk
<1>3. ASSUME NEW n \in Node, Tick(n) PROVE TypeOK'
  BY LaterType, <1>3 DEF TypeOK, Tick, Reply, NoReply, Phase, Fetching
<1>4. ASSUME NEW n \in Node, ServeRole(n) PROVE TypeOK'
  <2>1. role[Peer[n]] \in Role
    BY PeerInNode DEF TypeOK
  <2>2. life[Peer[n]] \in 0..MaxLife
    BY PeerInNode DEF TypeOK
  <2>3. [role |-> role[Peer[n]], epoch |-> 0, life |-> life[Peer[n]]] \in Reply
    BY <2>1, <2>2 DEF Reply
  <2> QED
    BY <1>4, <2>3 DEF TypeOK, ServeRole, Phase, Fetching
<1>5. ASSUME NEW n \in Node, ServeEpoch(n) PROVE TypeOK'
  <2>1. reply[n].role \in Role \cup {"None"}
    BY DEF TypeOK, Reply
  <2>2. reply[n].life \in 0..MaxLife
    BY DEF TypeOK, Reply
  <2>3. epoch[Peer[n]] \in 1..MaxEpoch
    BY PeerInNode DEF TypeOK
  <2>4. [role |-> reply[n].role, epoch |-> epoch[Peer[n]], life |-> reply[n].life] \in Reply
    BY <2>1, <2>2, <2>3 DEF Reply
  <2> QED
    BY <1>5, <2>4 DEF TypeOK, ServeEpoch, Phase, Fetching
<1>6. ASSUME NEW n \in Node, PeerUnreachable(n) PROVE TypeOK'
  BY LaterType, <1>6 DEF TypeOK, PeerUnreachable, FetchFails, Reply, NoReply, Phase
<1>7. ASSUME NEW n \in Node, Reconcile(n) PROVE TypeOK'
  BY <1>7 DEF TypeOK, Reconcile, Phase, Hooking
<1>8. ASSUME NEW n \in Node, SilenceCheck(n) PROVE TypeOK'
  BY <1>8 DEF TypeOK, SilenceCheck, Phase, Hooking
<1>9. ASSUME NEW n \in Node, Promote(n) PROVE TypeOK'
  BY LaterType, <1>9 DEF TypeOK, Promote, Role, Phase
<1>10. ASSUME NEW n \in Node, Demote(n) PROVE TypeOK'
  BY LaterType, <1>10 DEF TypeOK, Demote, Role, Phase
<1>11. ASSUME NEW n \in Node, Stop(n) PROVE TypeOK'
  BY <1>11 DEF TypeOK, Stop
<1>12. ASSUME NEW n \in Node, StartHookFail(n) PROVE TypeOK'
  BY <1>12 DEF TypeOK, StartHookFail
<1>13. ASSUME NEW n \in Node, HeartbeatLost(n) PROVE TypeOK'
  BY LaterType, <1>13 DEF TypeOK, HeartbeatLost, FetchFails, Reply, NoReply, Phase
<1>14. ASSUME NEW n \in Node, HookFail(n) PROVE TypeOK'
  BY <1>14 DEF TypeOK, HookFail, Phase
<1> QED
  BY <1>0, <1>1, <1>2, <1>3, <1>4, <1>5, <1>6, <1>7, <1>8, <1>9, <1>10, <1>11, <1>12, <1>13, <1>14
     DEF Next, Progress, Fault

-----------------------------------------------------------------------------
(* The inductive invariant *)

\* Every step keeps heartbeats consistent with the life and epoch they report.
LEMMA ReplyFreshStep == TypeOK /\ ReplyFresh /\ [Next]_vars => ReplyFresh'
<1> SUFFICES ASSUME TypeOK, ReplyFresh, [Next]_vars, NEW m \in Node
             PROVE  Fresh(m)'
  BY DEF ReplyFresh
<1> DEFINE p == Peer[m]
<1>0. /\ p \in Node /\ Peer[p] = m /\ p # m
      /\ life[m] \in Nat /\ life[p] \in Nat
      /\ epoch[p] \in Nat /\ epoch[p] >= 1
      /\ reply[m].life \in Nat /\ reply[m].epoch \in Nat
  BY PeerInNode, NumberTypes
<1> HIDE DEF p
<1>1. /\ proc[m] # "down" => life[m] >= 1
      /\ proc[p] # "down" => life[p] >= 1
      /\ reply[m].role # "None" => reply[m].life >= 1
      /\ reply[m].life <= life[p]
      /\ reply[m].life = life[p] => reply[m].epoch <= epoch[p]
  BY <1>0 DEF ReplyFresh, Fresh, p
<1>2. CASE UNCHANGED <<proc, life, epoch, reply>>
  BY <1>1, <1>2 DEF Fresh, p
<1>3. ASSUME NEW n \in Node, Start(n) PROVE Fresh(m)'
  BY <1>0, <1>1, <1>3 DEF TypeOK, Fresh, p, Start, NoReply
<1>4. ASSUME NEW n \in Node, StartHookOk(n) PROVE Fresh(m)'
  BY <1>0, <1>1, <1>4 DEF TypeOK, Fresh, p, StartHookOk
<1>5. ASSUME NEW n \in Node, Tick(n) PROVE Fresh(m)'
  BY <1>0, <1>1, <1>5 DEF TypeOK, Fresh, p, Tick, NoReply
<1>6. ASSUME NEW n \in Node, ServeRole(n) PROVE Fresh(m)'
  BY <1>0, <1>1, <1>6 DEF TypeOK, Fresh, p, ServeRole, Reachable
<1>7. ASSUME NEW n \in Node, ServeEpoch(n) PROVE Fresh(m)'
  BY <1>0, <1>1, <1>7 DEF TypeOK, Fresh, p, ServeEpoch, Reachable
<1>8. ASSUME NEW n \in Node, PeerUnreachable(n) PROVE Fresh(m)'
  BY <1>0, <1>1, <1>8 DEF TypeOK, Fresh, p, PeerUnreachable, FetchFails, NoReply
<1>9. ASSUME NEW n \in Node, Reconcile(n) PROVE Fresh(m)'
  BY <1>0, <1>1, <1>9 DEF TypeOK, Fresh, p, Reconcile
<1>10. ASSUME NEW n \in Node, SilenceCheck(n) PROVE Fresh(m)'
  BY <1>0, <1>1, <1>10 DEF TypeOK, Fresh, p, SilenceCheck
<1>11. ASSUME NEW n \in Node, Promote(n) PROVE Fresh(m)'
  BY <1>0, <1>1, <1>11 DEF TypeOK, Fresh, p, Promote
<1>12. ASSUME NEW n \in Node, Demote(n) PROVE Fresh(m)'
  BY <1>0, <1>1, <1>12 DEF TypeOK, Fresh, p, Demote
<1>13. ASSUME NEW n \in Node, Stop(n) PROVE Fresh(m)'
  BY <1>0, <1>1, <1>13 DEF TypeOK, Fresh, p, Stop
<1>14. ASSUME NEW n \in Node, StartHookFail(n) PROVE Fresh(m)'
  BY <1>0, <1>1, <1>14 DEF TypeOK, Fresh, p, StartHookFail
<1>15. ASSUME NEW n \in Node, HeartbeatLost(n) PROVE Fresh(m)'
  BY <1>0, <1>1, <1>15 DEF TypeOK, Fresh, p, HeartbeatLost, FetchFails, NoReply
<1>16. ASSUME NEW n \in Node, HookFail(n) PROVE Fresh(m)'
  BY <1>0, <1>1, <1>16 DEF TypeOK, Fresh, p, HookFail
<1> QED
  BY <1>2, <1>3, <1>4, <1>5, <1>6, <1>7, <1>8, <1>9, <1>10, <1>11, <1>12, <1>13, <1>14, <1>15, <1>16
     DEF Next, Progress, Fault, vars

\* A hook that steps down keeps the reason it was started for.
LEMMA StepDownJustifiedStep ==
    TypeOK /\ StepDownJustified /\ [Next]_vars => StepDownJustified'
<1> SUFFICES ASSUME TypeOK, StepDownJustified, [Next]_vars, NEW m \in Node
             PROVE  Justified(m)'
  BY DEF StepDownJustified
<1>1. Justified(m)
  BY DEF StepDownJustified
<1>2. CASE UNCHANGED <<role, epoch, mon, reply, age>>
  BY <1>1, <1>2 DEF Justified, PeerShouldWin
<1>3. ASSUME NEW n \in Node, Start(n) PROVE Justified(m)'
  BY <1>1, <1>3 DEF TypeOK, Justified, PeerShouldWin, Start, NoReply
<1>4. ASSUME NEW n \in Node, StartHookOk(n) PROVE Justified(m)'
  BY <1>1, <1>4 DEF TypeOK, Justified, PeerShouldWin, StartHookOk
<1>5. ASSUME NEW n \in Node, Tick(n) PROVE Justified(m)'
  BY <1>1, <1>5 DEF TypeOK, Justified, PeerShouldWin, Tick, NoReply
<1>6. ASSUME NEW n \in Node, ServeRole(n) PROVE Justified(m)'
  BY <1>1, <1>6 DEF TypeOK, Justified, PeerShouldWin, ServeRole, Reachable
<1>7. ASSUME NEW n \in Node, ServeEpoch(n) PROVE Justified(m)'
  BY <1>1, <1>7 DEF TypeOK, Justified, PeerShouldWin, ServeEpoch, Reachable
<1>8. ASSUME NEW n \in Node, PeerUnreachable(n) PROVE Justified(m)'
  BY <1>1, <1>8 DEF TypeOK, Justified, PeerShouldWin, PeerUnreachable, FetchFails, NoReply
<1>9. ASSUME NEW n \in Node, Reconcile(n) PROVE Justified(m)'
  BY <1>1, <1>9 DEF TypeOK, Justified, PeerShouldWin, Reconcile, YieldsToPeer, ElectsItself
<1>10. ASSUME NEW n \in Node, SilenceCheck(n) PROVE Justified(m)'
  BY <1>1, <1>10 DEF TypeOK, Justified, PeerShouldWin, SilenceCheck
<1>11. ASSUME NEW n \in Node, Promote(n) PROVE Justified(m)'
  BY <1>1, <1>11 DEF TypeOK, Justified, PeerShouldWin, Promote
<1>12. ASSUME NEW n \in Node, Demote(n) PROVE Justified(m)'
  BY <1>1, <1>12 DEF TypeOK, Justified, PeerShouldWin, Demote
<1>13. ASSUME NEW n \in Node, Stop(n) PROVE Justified(m)'
  BY <1>1, <1>13 DEF TypeOK, Justified, PeerShouldWin, Stop
<1>14. ASSUME NEW n \in Node, StartHookFail(n) PROVE Justified(m)'
  BY <1>1, <1>14 DEF TypeOK, Justified, PeerShouldWin, StartHookFail
<1>15. ASSUME NEW n \in Node, HeartbeatLost(n) PROVE Justified(m)'
  BY <1>1, <1>15 DEF TypeOK, Justified, PeerShouldWin, HeartbeatLost, FetchFails, NoReply
<1>16. ASSUME NEW n \in Node, HookFail(n) PROVE Justified(m)'
  BY <1>1, <1>16 DEF TypeOK, Justified, PeerShouldWin, HookFail
<1> QED
  BY <1>2, <1>3, <1>4, <1>5, <1>6, <1>7, <1>8, <1>9, <1>10, <1>11, <1>12, <1>13, <1>14, <1>15, <1>16
     DEF Next, Progress, Fault, vars

\* With hooks faster than the timeout, only silence lets a standby's clock expire.
LEMMA SilentWhenExpiredStep ==
    TypeOK /\ StepDownJustified /\ SilentWhenExpired /\ [Next]_vars => SilentWhenExpired'
<1> SUFFICES ASSUME TypeOK, StepDownJustified, SilentWhenExpired, [Next]_vars,
                    MaxHookTicks < FailoverTicks, NEW m \in Node
             PROVE  Silent(m)'
  BY DEF SilentWhenExpired
<1>1. Silent(m) /\ (mon[m] = "stepDown" => age[m] = 0) /\ age[m] \in Nat
  BY NumberTypes DEF SilentWhenExpired, StepDownJustified, Justified
<1>2. CASE UNCHANGED <<role, mon, reply, age>>
  BY <1>1, <1>2 DEF Silent
<1>3. ASSUME NEW n \in Node, Start(n) PROVE Silent(m)'
  BY <1>1, <1>3 DEF TypeOK, Silent, Start, NoReply
<1>4. ASSUME NEW n \in Node, StartHookOk(n) PROVE Silent(m)'
  BY <1>1, <1>4 DEF TypeOK, Silent, StartHookOk
<1>5. ASSUME NEW n \in Node, Tick(n) PROVE Silent(m)'
  BY <1>1, <1>5 DEF TypeOK, Silent, Tick, NoReply
<1>6. ASSUME NEW n \in Node, ServeRole(n) PROVE Silent(m)'
  BY <1>1, <1>6 DEF TypeOK, Silent, ServeRole, Reachable
<1>7. ASSUME NEW n \in Node, ServeEpoch(n) PROVE Silent(m)'
  BY <1>1, <1>7 DEF TypeOK, Silent, ServeEpoch, Reachable
<1>8. ASSUME NEW n \in Node, PeerUnreachable(n) PROVE Silent(m)'
  BY <1>1, <1>8 DEF TypeOK, Silent, PeerUnreachable, FetchFails, NoReply
<1>9. ASSUME NEW n \in Node, Reconcile(n) PROVE Silent(m)'
  BY <1>1, <1>9 DEF TypeOK, Silent, Reconcile, YieldsToPeer, ElectsItself
<1>10. ASSUME NEW n \in Node, SilenceCheck(n) PROVE Silent(m)'
  BY <1>1, <1>10 DEF TypeOK, Silent, SilenceCheck
<1>11. ASSUME NEW n \in Node, Promote(n) PROVE Silent(m)'
  BY <1>1, <1>11 DEF TypeOK, Silent, Promote
<1>12. ASSUME NEW n \in Node, Demote(n) PROVE Silent(m)'
  BY <1>1, <1>12 DEF TypeOK, Silent, Demote, Later
<1>13. ASSUME NEW n \in Node, Stop(n) PROVE Silent(m)'
  BY <1>1, <1>13 DEF TypeOK, Silent, Stop
<1>14. ASSUME NEW n \in Node, StartHookFail(n) PROVE Silent(m)'
  BY <1>1, <1>14 DEF TypeOK, Silent, StartHookFail
<1>15. ASSUME NEW n \in Node, HeartbeatLost(n) PROVE Silent(m)'
  BY <1>1, <1>15 DEF TypeOK, Silent, HeartbeatLost, FetchFails, NoReply
<1>16. ASSUME NEW n \in Node, HookFail(n) PROVE Silent(m)'
  BY <1>1, <1>16 DEF TypeOK, Silent, HookFail
<1> QED
  BY <1>2, <1>3, <1>4, <1>5, <1>6, <1>7, <1>8, <1>9, <1>10, <1>11, <1>12, <1>13, <1>14, <1>15, <1>16
     DEF Next, Progress, Fault, vars

\* Before any restart, an active that has been told of an active peer which has
\* stepped down since is the one that the peer stepped down for.
LEMMA StaleActiveLosesStep ==
    /\ TypeOK /\ ReplyFresh /\ StepDownJustified
    /\ StaleActiveLoses
    /\ [Next]_vars
    => StaleActiveLoses'
<1> SUFFICES ASSUME TypeOK, ReplyFresh, StepDownJustified, StaleActiveLoses,
                    [Next]_vars, NEW m \in Node
             PROVE  StaleLoses(m)'
  BY DEF StaleActiveLoses
<1> DEFINE p == Peer[m]
<1>0. /\ p \in Node /\ Peer[p] = m /\ p # m
      /\ m \in Nat /\ p \in Nat
      /\ epoch[p] \in Nat /\ epoch[m] \in Nat
      /\ reply[m].epoch \in Nat /\ reply[p].epoch \in Nat
      /\ reply[m].life \in Nat /\ reply[p].life \in Nat
      /\ life[m] \in Nat /\ life[p] \in Nat
      /\ role[m] \in Role /\ role[p] \in Role
  <2>1. p \in Node /\ Peer[p] = m /\ p # m
    BY PeerInNode
  <2>2. role[m] \in Role /\ role[p] \in Role
    BY <2>1 DEF TypeOK
  <2> QED
    BY <2>1, <2>2, NumberTypes
<1> HIDE DEF p
<1>1. Fresh(m) /\ Fresh(p) /\ Justified(m) /\ Justified(p) /\ StaleLoses(m)
  BY <1>0 DEF ReplyFresh, StepDownJustified, StaleActiveLoses
<1>2. CASE UNCHANGED <<life, role, epoch, mon, reply>>
  BY <1>1, <1>2 DEF StaleLoses, ReportedEpoch, PeerShouldWin
<1>3. ASSUME NEW n \in Node, Start(n) PROVE StaleLoses(m)'
  BY <1>0, <1>1, <1>3
     DEF TypeOK, StaleLoses, ReportedEpoch, PeerShouldWin, Fresh, Justified, Role, p, Start, NoReply
<1>4. ASSUME NEW n \in Node, StartHookOk(n) PROVE StaleLoses(m)'
  BY <1>0, <1>1, <1>4
     DEF TypeOK, StaleLoses, ReportedEpoch, PeerShouldWin, Fresh, Justified, Role, p, StartHookOk
<1>5. ASSUME NEW n \in Node, Tick(n) PROVE StaleLoses(m)'
  BY <1>0, <1>1, <1>5
     DEF TypeOK, StaleLoses, ReportedEpoch, PeerShouldWin, Fresh, Justified, Role, p, Tick, NoReply
<1>6. ASSUME NEW n \in Node, ServeRole(n) PROVE StaleLoses(m)'
  BY <1>0, <1>1, <1>6
     DEF TypeOK, StaleLoses, ReportedEpoch, PeerShouldWin, Fresh, Justified, Role, p, ServeRole, Reachable
<1>7. ASSUME NEW n \in Node, ServeEpoch(n) PROVE StaleLoses(m)'
  BY <1>0, <1>1, <1>7
     DEF TypeOK, StaleLoses, ReportedEpoch, PeerShouldWin, Fresh, Justified, Role, p, ServeEpoch, Reachable
<1>8. ASSUME NEW n \in Node, PeerUnreachable(n) PROVE StaleLoses(m)'
  BY <1>0, <1>1, <1>8
     DEF TypeOK, StaleLoses, ReportedEpoch, PeerShouldWin, Fresh, Justified, Role, p, PeerUnreachable, FetchFails, NoReply
<1>9. ASSUME NEW n \in Node, Reconcile(n) PROVE StaleLoses(m)'
  BY <1>0, <1>1, <1>9
     DEF TypeOK, StaleLoses, ReportedEpoch, PeerShouldWin, Fresh, Justified, Role, p, Reconcile, YieldsToPeer, ElectsItself
<1>10. ASSUME NEW n \in Node, SilenceCheck(n) PROVE StaleLoses(m)'
  BY <1>0, <1>1, <1>10
     DEF TypeOK, StaleLoses, ReportedEpoch, PeerShouldWin, Fresh, Justified, Role, p, SilenceCheck
<1>11. ASSUME NEW n \in Node, Promote(n) PROVE StaleLoses(m)'
  BY <1>0, <1>1, <1>11
     DEF TypeOK, StaleLoses, ReportedEpoch, PeerShouldWin, Fresh, Justified, Role, p, Promote
<1>12. ASSUME NEW n \in Node, Demote(n) PROVE StaleLoses(m)'
  BY <1>0, <1>1, <1>12
     DEF TypeOK, StaleLoses, ReportedEpoch, PeerShouldWin, Fresh, Justified, Role, p, Demote
<1>13. ASSUME NEW n \in Node, Stop(n) PROVE StaleLoses(m)'
  BY <1>0, <1>1, <1>13
     DEF TypeOK, StaleLoses, ReportedEpoch, PeerShouldWin, Fresh, Justified, Role, p, Stop
<1>14. ASSUME NEW n \in Node, StartHookFail(n) PROVE StaleLoses(m)'
  BY <1>0, <1>1, <1>14
     DEF TypeOK, StaleLoses, ReportedEpoch, PeerShouldWin, Fresh, Justified, Role, p, StartHookFail
<1>15. ASSUME NEW n \in Node, HeartbeatLost(n) PROVE StaleLoses(m)'
  BY <1>0, <1>1, <1>15
     DEF TypeOK, StaleLoses, ReportedEpoch, PeerShouldWin, Fresh, Justified, Role, p, HeartbeatLost, FetchFails, NoReply
<1>16. ASSUME NEW n \in Node, HookFail(n) PROVE StaleLoses(m)'
  BY <1>0, <1>1, <1>16
     DEF TypeOK, StaleLoses, ReportedEpoch, PeerShouldWin, Fresh, Justified, Role, p, HookFail
<1> QED
  BY <1>2, <1>3, <1>4, <1>5, <1>6, <1>7, <1>8, <1>9, <1>10, <1>11, <1>12, <1>13, <1>14, <1>15, <1>16
     DEF Next, Progress, Fault, vars

\* The initial states satisfy the invariant.
LEMMA InitIInv == Init => IInv
<1> SUFFICES ASSUME Init PROVE IInv
  OBVIOUS
<1>1. TypeOK
  BY DEF Init, TypeOK, Role, Phase, Reply, NoReply
<1>2. ReplyFresh
  BY PeerInNode DEF Init, ReplyFresh, Fresh, NoReply
<1>3. StepDownJustified /\ StaleActiveLoses /\ SilentWhenExpired
  BY DEF Init, StepDownJustified, Justified, StaleActiveLoses, StaleLoses,
         SilentWhenExpired, Silent
<1> QED
  BY <1>1, <1>2, <1>3 DEF IInv

\* The invariant is inductive.
LEMMA NextIInv == IInv /\ [Next]_vars => IInv'
BY TypeStep, ReplyFreshStep, StepDownJustifiedStep, SilentWhenExpiredStep,
   StaleActiveLosesStep DEF IInv

\* The invariant holds in every reachable state.
LEMMA AlwaysIInv == Spec => []IInv
BY InitIInv, NextIInv, PTL DEF Spec

-----------------------------------------------------------------------------
(* Theorems *)

\* Roles, epochs, monitor phases and heartbeats keep their types.
THEOREM TypeCorrect == Spec => []TypeOK
<1>1. IInv => TypeOK
  BY DEF IInv
<1> QED
  BY <1>1, AlwaysIInv, PTL

\* The two monitors of a pair (run_active_standby_monitor) never both run their
\* on_step_down hook, unless one acted on the heartbeat of a process that has
\* been restarted since: peer_should_win picks the same winner on both sides,
\* however stale the heartbeats.
THEOREM NeverBothStepDown == Spec => []NoMutualStepDown
<1>1. IInv => NoMutualStepDown
  <2> SUFFICES ASSUME IInv, NEW n \in Node,
                      mon[n] = "stepDown", mon[Peer[n]] = "stepDown",
                      reply[n].life = life[Peer[n]], reply[Peer[n]].life = life[n]
               PROVE  FALSE
    BY DEF NoMutualStepDown
  <2> DEFINE p == Peer[n]
  <2>1. p \in Node /\ Peer[p] = n /\ p # n /\ n \in Nat /\ p \in Nat
    BY PeerInNode
  <2>2. /\ epoch[n] \in Nat /\ epoch[p] \in Nat
        /\ reply[n].epoch \in Nat /\ reply[p].epoch \in Nat
    BY <2>1, NumberTypes DEF IInv
  <2>3. PeerShouldWin(n, reply[n].epoch) /\ PeerShouldWin(p, reply[p].epoch)
    BY <2>1 DEF IInv, StepDownJustified, Justified
  <2>4. reply[n].epoch <= epoch[p] /\ reply[p].epoch <= epoch[n]
    BY <2>1 DEF IInv, ReplyFresh, Fresh
  <2> QED
    BY <2>1, <2>2, <2>3, <2>4 DEF PeerShouldWin
<1> QED
  BY <1>1, AlwaysIInv, PTL

\* A promotion by timeout follows a round in which the peer did not answer.
THEOREM FailoverOnlyOnSilence == Spec => []FailoverMeansSilence
<1>1. IInv => FailoverMeansSilence
  BY DEF IInv, SilentWhenExpired, Silent, FailoverMeansSilence
<1> QED
  BY <1>1, AlwaysIInv, PTL

\* A node that demotes itself (demote_active_standby) leaves an active behind, as
\* long as neither process has been restarted: the peer is active or down.
THEOREM DemotionKeepsAnActive == Spec => DemotionLeavesActive
<1>1. ASSUME IInv, [Next]_vars, NEW m \in Node PROVE LeavesActive(m)
  <2> USE <1>1
  <2>1. CASE role' = role
    BY <2>1 DEF LeavesActive
  <2>2. ASSUME NEW n \in Node, Start(n) PROVE LeavesActive(m)
    BY <2>2 DEF Start, LeavesActive, IInv, TypeOK
  <2>3. ASSUME NEW n \in Node, Promote(n) PROVE LeavesActive(m)
    BY <2>3 DEF Promote, LeavesActive, IInv, TypeOK
  <2>4. ASSUME NEW n \in Node, Demote(n) PROVE LeavesActive(m)
    <3>1. CASE m # n
      BY <2>4, <3>1 DEF Demote, LeavesActive, IInv, TypeOK
    <3>2. CASE m = n
      <4>1. Justified(m) /\ StaleLoses(m)
        BY DEF IInv, StepDownJustified, StaleActiveLoses
      <4>2. Peer[m] \in Node /\ role[Peer[m]] \in Role
        BY PeerInNode DEF IInv, TypeOK
      <4> QED
        BY <2>4, <3>2, <4>1, <4>2
           DEF Demote, Justified, StaleLoses, ReportedEpoch, LeavesActive, Active, Role
    <3> QED
      BY <3>1, <3>2
  <2> QED
    BY <2>1, <2>2, <2>3, <2>4
       DEF Next, Progress, Fault, vars, StartHookOk, StartHookFail, Stop, Tick,
           ServeRole, ServeEpoch, PeerUnreachable, HeartbeatLost, FetchFails,
           Reconcile, SilenceCheck, HookFail
<1>2. IInv /\ [Next]_vars => [\A n \in Node : LeavesActive(n)]_vars
  BY <1>1
<1> QED
  BY <1>2, AlwaysIInv, PTL DEF Spec, DemotionLeavesActive
=============================================================================
