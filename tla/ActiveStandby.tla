--------------------------- MODULE ActiveStandby ---------------------------
(***************************************************************************)
(* The active/standby role protocol of ha/mod.rs: two processes that poll  *)
(* each other's GET /ha/heartbeat, demote one of two actives, promote one  *)
(* of two standbys, and promote a standby whose peer has been silent for   *)
(* failover_timeout.  Role changes wait for an external fencing hook.      *)
(*                                                                         *)
(* Time is local to a node and counted in heartbeat intervals: `age' is    *)
(* the time since last_seen rounded up, capped at FailoverTicks.  A tick   *)
(* is one interval after the one before, a failed fetch (two timeouts of   *)
(* one interval each, one to connect and one to decode) takes 0..2 more,   *)
(* and a hook takes 0..MaxHookTicks.                                       *)
(***************************************************************************)
EXTENDS Integers, FiniteSets

CONSTANTS
    Node,           \* the ids of the two nodes of a pair (NodeConfig.id)
    Peer,           \* Peer[n] is the node behind n's peer_heartbeat_addr
    FailoverTicks,  \* failover_timeout_ms in heartbeat intervals, rounded up
    MaxHookTicks,   \* longest successful hook, in heartbeat intervals
    MaxEpoch,       \* bound: highest epoch a promotion may reach
    MaxLife,        \* bound: how often a process may be started
    MaxLost,        \* bound: heartbeats lost though the peer is serving
    MaxHookFailures \* bound: hooks that fail or time out

ASSUME NodeAssumption == Node \subseteq Nat
ASSUME PeerAssumption ==
    /\ Peer \in [Node -> Node]
    /\ \A n \in Node : Peer[n] # n /\ Peer[Peer[n]] = n
\* validate_ha: failover_timeout_ms > heartbeat_interval_ms
ASSUME TicksAssumption ==
    /\ FailoverTicks \in Nat /\ FailoverTicks >= 2
    /\ MaxHookTicks \in Nat
ASSUME BoundAssumption ==
    /\ MaxEpoch \in Nat /\ MaxEpoch >= 1
    /\ MaxLife \in Nat /\ MaxLife >= 1
    /\ MaxLost \in Nat
    /\ MaxHookFailures \in Nat

VARIABLES
    initial,    \* ha.initial_role of each node's configuration; never changes
    proc,       \* "down", "starting" (initial hook runs, nothing served), "up"
    life,       \* how often the process has been started (no code counterpart)
    role,       \* ActiveStandbyRuntime.role
    epoch,      \* ActiveStandbyRuntime.epoch; in memory only
    mon,        \* what the monitor task is doing, see Phase
    reply,      \* the heartbeat being fetched or last fetched by the monitor
    age,        \* time since last_seen
    lost,       \* heartbeats lost so far
    hookFails   \* hooks that failed so far

vars == <<initial, proc, life, role, epoch, mon, reply, age, lost, hookFails>>

Role == {"Leader", "Follower"}

\* idle: waiting for a tick.  asked, roleRead, answered: a heartbeat request
\* is out, half served, answered.  promote, stepDown, failover: a hook runs,
\* called by reconcile (the first two) or by the silence check.  check: about
\* to check for silence.  dead: the task returned an error.
Fetching == {"asked", "roleRead", "answered"}
Hooking  == {"promote", "stepDown", "failover"}
Phase    == {"idle", "check", "dead"} \cup Fetching \cup Hooking

NoReply == [role |-> "None", epoch |-> 0, life |-> 0]
Reply   == [role : Role \cup {"None"}, epoch : 0..MaxEpoch, life : 0..MaxLife]

TypeOK ==
    /\ initial \in [Node -> Role]
    /\ proc \in [Node -> {"down", "starting", "up"}]
    /\ life \in [Node -> 0..MaxLife]
    /\ role \in [Node -> Role]
    /\ epoch \in [Node -> 1..MaxEpoch]
    /\ mon \in [Node -> Phase]
    /\ reply \in [Node -> Reply]
    /\ age \in [Node -> 0..FailoverTicks]
    /\ lost \in 0..MaxLost
    /\ hookFails \in 0..MaxHookFailures

Init ==
    /\ initial \in [Node -> Role]
    /\ proc = [n \in Node |-> "down"]
    /\ life = [n \in Node |-> 0]
    /\ role = initial
    /\ epoch = [n \in Node |-> 1]
    /\ mon = [n \in Node |-> "idle"]
    /\ reply = [n \in Node |-> NoReply]
    /\ age = [n \in Node |-> 0]
    /\ lost = 0
    /\ hookFails = 0

-----------------------------------------------------------------------------
(* Helpers *)

Later(n, d) == IF age[n] + d >= FailoverTicks THEN FailoverTicks ELSE age[n] + d

\* Variants of peer_should_win: a tie that both sides lose, a tie that nobody loses.
PeerWinsTies(n, e)   == e >= epoch[n]
NobodyWinsTies(n, e) == e > epoch[n]

\* peer_should_win, on the epochs of node n and of the peer's heartbeat
PeerShouldWin(n, e) == e > epoch[n] \/ (e = epoch[n] /\ Peer[n] < n)

\* Variant: the role in the peer's heartbeat is not looked at.
YieldsToAnyPeer(n) == role[n] = "Leader" /\ PeerShouldWin(n, reply[n].epoch)

\* The two cases of reconcile_active_standby that change a role: two actives, of
\* which n is the weaker, and two standbys, of which n has the lower id.
YieldsToPeer(n) ==
    role[n] = "Leader" /\ reply[n].role = "Leader" /\ PeerShouldWin(n, reply[n].epoch)
ElectsItself(n) ==
    role[n] # "Leader" /\ reply[n].role # "Leader" /\ n < Peer[n]

\* The process that n's heartbeat request was accepted by still serves it.
Reachable(n) ==
    /\ proc[Peer[n]] = "up"
    /\ mon[n] = "asked" \/ reply[n].life = life[Peer[n]]

\* A node that accepts writes.  A process that is still running its initial
\* hook already has the role: the SIP server starts beside it.
Active(n) == proc[n] # "down" /\ role[n] = "Leader"

-----------------------------------------------------------------------------
(* The process *)

Start(n) ==
    /\ proc[n] = "down"
    /\ life[n] < MaxLife
    /\ proc' = [proc EXCEPT ![n] = IF initial[n] = "Leader" THEN "starting" ELSE "up"]
    /\ life' = [life EXCEPT ![n] = @ + 1]
    /\ role' = [role EXCEPT ![n] = initial[n]]
    /\ epoch' = [epoch EXCEPT ![n] = 1]
    /\ mon' = [mon EXCEPT ![n] = "idle"]
    /\ reply' = [reply EXCEPT ![n] = NoReply]
    /\ age' = [age EXCEPT ![n] = 0]
    /\ UNCHANGED <<initial, lost, hookFails>>

\* The initial on_become_leader hook: the monitor and the HTTP server start
\* after it (last_seen is set then), or its failure shuts the process down.
StartHookOk(n) ==
    /\ proc[n] = "starting"
    /\ proc' = [proc EXCEPT ![n] = "up"]
    /\ UNCHANGED <<initial, life, role, epoch, mon, reply, age, lost, hookFails>>

StartHookFail(n) ==
    /\ proc[n] = "starting"
    /\ hookFails < MaxHookFailures
    /\ hookFails' = hookFails + 1
    /\ proc' = [proc EXCEPT ![n] = "down"]
    /\ UNCHANGED <<initial, life, role, epoch, mon, reply, age, lost>>

\* A crash, or a shutdown signal: no hook runs on the way out.
Stop(n) ==
    /\ proc[n] # "down"
    /\ proc' = [proc EXCEPT ![n] = "down"]
    /\ UNCHANGED <<initial, life, role, epoch, mon, reply, age, lost, hookFails>>

-----------------------------------------------------------------------------
(* The monitor of node n *)

Tick(n) ==
    /\ proc[n] = "up" /\ mon[n] = "idle"
    /\ mon' = [mon EXCEPT ![n] = "asked"]
    /\ reply' = [reply EXCEPT ![n] = NoReply]
    /\ age' = [age EXCEPT ![n] = Later(n, 1)]
    /\ UNCHANGED <<initial, proc, life, role, epoch, lost, hookFails>>

\* The peer's handler: heartbeat() reads the role under its lock and loads the
\* epoch after releasing it, so a role change may fall between the two.
ServeRole(n) ==
    /\ proc[n] = "up" /\ mon[n] = "asked"
    /\ Reachable(n)
    /\ mon' = [mon EXCEPT ![n] = "roleRead"]
    /\ reply' = [reply EXCEPT ![n] =
                   [role |-> role[Peer[n]], epoch |-> 0, life |-> life[Peer[n]]]]
    /\ UNCHANGED <<initial, proc, life, role, epoch, age, lost, hookFails>>

ServeEpoch(n) ==
    /\ proc[n] = "up" /\ mon[n] = "roleRead"
    /\ Reachable(n)
    /\ mon' = [mon EXCEPT ![n] = "answered"]
    /\ reply' = [reply EXCEPT ![n] =
                   [role |-> @.role, epoch |-> epoch[Peer[n]], life |-> @.life]]
    /\ UNCHANGED <<initial, proc, life, role, epoch, age, lost, hookFails>>

\* A fetch that fails in any way (connect, timeout, status, decoding) only
\* logs and goes on to the silence check.
FetchFails(n) ==
    /\ proc[n] = "up" /\ mon[n] \in Fetching
    /\ mon' = [mon EXCEPT ![n] = "check"]
    /\ reply' = [reply EXCEPT ![n] = NoReply]
    /\ \E d \in 0..2 : age' = [age EXCEPT ![n] = Later(n, d)]
    /\ UNCHANGED <<initial, proc, life, role, epoch, hookFails>>

PeerUnreachable(n) ==
    /\ ~Reachable(n)
    /\ FetchFails(n)
    /\ UNCHANGED lost

HeartbeatLost(n) ==
    /\ Reachable(n)
    /\ lost < MaxLost
    /\ lost' = lost + 1
    /\ FetchFails(n)

\* Variant: the answered heartbeat does not renew last_seen.
ReconcileWithoutLastSeen(n) ==
    /\ proc[n] = "up" /\ mon[n] = "answered"
    /\ mon' = [mon EXCEPT ![n] = IF YieldsToPeer(n)      THEN "stepDown"
                                ELSE IF ElectsItself(n) THEN "promote"
                                ELSE "check"]
    /\ UNCHANGED <<initial, proc, life, role, epoch, reply, age, lost, hookFails>>

\* last_seen = now, then reconcile_active_standby up to the hook it starts.
Reconcile(n) ==
    /\ proc[n] = "up" /\ mon[n] = "answered"
    /\ age' = [age EXCEPT ![n] = 0]
    /\ mon' = [mon EXCEPT ![n] = IF YieldsToPeer(n)      THEN "stepDown"
                                ELSE IF ElectsItself(n) THEN "promote"
                                ELSE "check"]
    /\ UNCHANGED <<initial, proc, life, role, epoch, reply, lost, hookFails>>

\* The end of a tick: a standby that has not heard from its peer for
\* failover_timeout promotes itself.
SilenceCheck(n) ==
    /\ proc[n] = "up" /\ mon[n] = "check"
    /\ mon' = [mon EXCEPT ![n] =
                 IF role[n] = "Follower" /\ age[n] >= FailoverTicks
                   THEN "failover" ELSE "idle"]
    /\ UNCHANGED <<initial, proc, life, role, epoch, reply, age, lost, hookFails>>

\* on_become_leader succeeded: ActiveStandbyRuntime::promote.  A promotion
\* out of reconcile goes on to the silence check of the same tick.
Promote(n) ==
    /\ proc[n] = "up" /\ mon[n] \in {"promote", "failover"}
    /\ epoch[n] < MaxEpoch
    /\ epoch' = [epoch EXCEPT ![n] = @ + 1]
    /\ role' = [role EXCEPT ![n] = "Leader"]
    /\ mon' = [mon EXCEPT ![n] = IF @ = "promote" THEN "check" ELSE "idle"]
    /\ \E d \in 0..MaxHookTicks : age' = [age EXCEPT ![n] = Later(n, d)]
    /\ UNCHANGED <<initial, proc, life, reply, lost, hookFails>>

\* Variant: a demotion takes an epoch back.
DemoteTakesEpochBack(n) ==
    /\ proc[n] = "up" /\ mon[n] = "stepDown"
    /\ role' = [role EXCEPT ![n] = "Follower"]
    /\ epoch' = [epoch EXCEPT ![n] = @ - 1]
    /\ mon' = [mon EXCEPT ![n] = "check"]
    /\ UNCHANGED <<initial, proc, life, reply, age, lost, hookFails>>

\* on_step_down succeeded: ActiveStandbyRuntime::demote.
Demote(n) ==
    /\ proc[n] = "up" /\ mon[n] = "stepDown"
    /\ role' = [role EXCEPT ![n] = "Follower"]
    /\ mon' = [mon EXCEPT ![n] = "check"]
    /\ \E d \in 0..MaxHookTicks : age' = [age EXCEPT ![n] = Later(n, d)]
    /\ UNCHANGED <<initial, proc, life, epoch, reply, lost, hookFails>>

\* A hook that fails or times out: `?' ends the monitor task with its error.
\* run_active_standby is still awaiting the HTTP server and does not see it.
HookFail(n) ==
    /\ proc[n] = "up" /\ mon[n] \in Hooking
    /\ hookFails < MaxHookFailures
    /\ hookFails' = hookFails + 1
    /\ mon' = [mon EXCEPT ![n] = "dead"]
    /\ UNCHANGED <<initial, proc, life, role, epoch, reply, age, lost>>

-----------------------------------------------------------------------------

\* What the monitor task and the peer's handler do when nothing goes wrong.
Progress(n) ==
    \/ StartHookOk(n)
    \/ Tick(n)
    \/ ServeRole(n)
    \/ ServeEpoch(n)
    \/ PeerUnreachable(n)
    \/ Reconcile(n)
    \/ SilenceCheck(n)
    \/ Promote(n)
    \/ Demote(n)

Fault(n) ==
    \/ Stop(n)
    \/ StartHookFail(n)
    \/ HeartbeatLost(n)
    \/ HookFail(n)

Next == \E n \in Node : Start(n) \/ Progress(n) \/ Fault(n)

\* The runtime keeps polling a ready task, every wait of the monitor has a
\* timeout, and the handlers of a live process answer.  Starting and stopping
\* a process is up to its operator.
Fairness == \A n \in Node : WF_vars(Progress(n))

Spec     == Init /\ [][Next]_vars
FairSpec == Spec /\ Fairness

-----------------------------------------------------------------------------
(* Properties *)

\* Two actives that see each other never both give up: when both monitors run
\* the on_step_down hook at once, one of them acted on the heartbeat of a
\* process that has been restarted since (a restart sets the epoch back to 1).
NoMutualStepDown ==
    \A n \in Node :
        (mon[n] = "stepDown" /\ mon[Peer[n]] = "stepDown" /\ proc[n] = "up" /\ proc[Peer[n]] = "up")
            => \/ reply[n].life # life[Peer[n]]
               \/ reply[Peer[n]].life # life[n]

\* Until a process is restarted, demoting a node never leaves the pair without
\* an active: the peer it yields to is still active, unless it is down, however
\* old the heartbeat it acted on and whatever happened while its hook ran.
LeavesActive(n) ==
    (/\ proc[n] = "up" /\ role[n] = "Leader" /\ role'[n] = "Follower"
     /\ life[n] = 1 /\ life[Peer[n]] = 1)
        => Active(Peer[n]) \/ proc[Peer[n]] = "down"
DemotionLeavesActive == [][\A n \in Node : LeavesActive(n)]_vars

\* "active-standby peer timed out; promoting local node" is said only of a peer
\* that did not answer in this round, provided a hook is faster than
\* failover_timeout: a slower on_step_down hook would undo its own demotion.
FailoverMeansSilence ==
    MaxHookTicks < FailoverTicks =>
        \A n \in Node : mon[n] = "failover" => reply[n] = NoReply

Actives == {n \in Node : Active(n)}

\* Once faults cease and some process keeps running, the pair settles on exactly
\* one active: a split brain is resolved, two standbys elect one, and a standby
\* takes over from a peer that is gone.  Not so when a failed hook has ended a
\* monitor, whose process then lives on in its role.
EventuallyOneActive ==
    (<>[](\E n \in Node : proc[n] = "up") /\ [](\A n \in Node : mon[n] # "dead"))
        => <>[](Cardinality(Actives) = 1)
=============================================================================
