--------------------------- MODULE UpstreamHealth ---------------------------
(***************************************************************************)
(* Upstream groups in proxy/server.rs: the rounds of active probes of each *)
(* group, the passive results that forwarding tasks report at any time,    *)
(* the counters and the flag both of them update one atomic operation at a *)
(* time, and the round-robin selection that reads the flags meanwhile.     *)
(*                                                                         *)
(* A member of a group is <<group, index>>.  Counters are only compared    *)
(* with their threshold and so are kept up to it.                          *)
(***************************************************************************)
EXTENDS Integers, Sequences, FiniteSets

CONSTANTS
    Layouts,            \* configurations: group -> [servers, enabled, transport]
    Task,               \* forwarding tasks
    FailureThreshold, SuccessThreshold

ASSUME HealthAssumption ==
    /\ {FailureThreshold, SuccessThreshold} \subseteq Nat \ {0}
    /\ \A l \in Layouts : "none" \notin DOMAIN l
    /\ \A l \in Layouts : \A g \in DOMAIN l :
         Len(l[g].servers) \in Nat \ {0} /\ DOMAIN l[g].servers = 1..Len(l[g].servers)

VARIABLES
    groups,         \* the configuration in use, one of Layouts
    server,         \* how each server really is, see Condition
    active,         \* the node's role accepts writes
    health, successes, failures,    \* of each member
    next,           \* of each group: the round-robin counter, modulo its servers
    probing,        \* of each group: members whose probe is not yet recorded
    socket,         \* of each member: the socket of its probes, see Socket
    recorder,       \* what a group's health task and a forwarding task record
    selecting       \* selections under way

counters == <<health, successes, failures>>
healthVars == <<groups, server, active, counters, next, probing, socket, recorder, selecting>>

Members(layout) == UNION {{<<g, i>> : i \in DOMAIN layout[g].servers} : g \in DOMAIN layout}
Member == Members(groups)
GroupName == DOMAIN groups
Enabled == {g \in GroupName : groups[g].enabled}
AddrOf(m)  == groups[m[1]].servers[m[2]]
Address    == {AddrOf(m) : m \in Member}
MembersOf(g) == {m \in Member : m[1] = g}
Size(g) == Len(groups[g].servers)

\* A server that is up answers probes in time, one that is down not at all, and a
\* slow one after the time limit.  How calls fare with it is another matter, see
\* PassiveResult.
Condition == {"up", "down", "slow"}

\* Probes of a member share a socket.  It may hold the answer to an earlier probe,
\* or (TCP) be a connection the server has forgotten.
Socket == {"idle", "late", "stale"}
OverTcp(m) == groups[m[1]].transport = "tcp"

\* servers_by_addr: of a group that lists an address twice, the first entry.
ServersByAddr(a) ==
    {m \in Member : AddrOf(m) = a /\ \A n \in Member :
                       (n[1] = m[1] /\ AddrOf(n) = a) => m[2] <= n[2]}

\* A recorder is in the middle of record_health_result for a member, and has
\* further members to do.
NoRecord == [pc |-> "idle", ok |-> FALSE, todo |-> {}]
\* alone (a ghost): nobody else has moved the group's counter since.
Selecting(g, tries, seen, alone) == [group |-> g, tries |-> tries, seen |-> seen, alone |-> alone]
NoSelect == Selecting("none", 0, {}, FALSE)

HealthTypeOK ==
    /\ groups \in Layouts /\ server \in [Address -> Condition] /\ active \in BOOLEAN
    /\ health \in [Member -> BOOLEAN]
    /\ successes \in [Member -> 0..SuccessThreshold]
    /\ failures \in [Member -> 0..FailureThreshold]
    /\ \A g \in GroupName : next[g] \in 0..Size(g) - 1
    /\ \A g \in GroupName : probing[g] \subseteq MembersOf(g)
    /\ socket \in [Member -> Socket]
    /\ \A x \in GroupName \cup Task : recorder[x].pc \in {"idle", "reset", "count", "mark"}
    /\ \A x \in GroupName \cup Task : recorder[x].todo \subseteq Member
    /\ \A t \in Task : selecting[t] = NoSelect \/ selecting[t].tries \in 0..Size(selecting[t].group)

HealthInit ==
    /\ groups \in Layouts
    /\ server = [a \in Address |-> "up"] /\ active \in BOOLEAN
    /\ health = [m \in Member |-> TRUE]
    /\ successes = [m \in Member |-> 0] /\ failures = [m \in Member |-> 0]
    /\ next = [g \in GroupName |-> 0] /\ probing = [g \in GroupName |-> {}]
    /\ socket = [m \in Member |-> "idle"]
    /\ recorder = [x \in GroupName \cup Task |-> NoRecord]
    /\ selecting = [t \in Task |-> NoSelect]

-----------------------------------------------------------------------------
(* record_health_result, one atomic operation at a time *)

Current(x) == CHOOSE m \in recorder[x].todo : TRUE
AtMost(n, limit) == IF n < limit THEN n ELSE limit

ResetOther(x) ==
    LET m == Current(x) IN
    /\ recorder[x].pc = "reset"
    /\ IF recorder[x].ok THEN failures' = [failures EXCEPT ![m] = 0] /\ UNCHANGED successes
                         ELSE successes' = [successes EXCEPT ![m] = 0] /\ UNCHANGED failures
    /\ recorder' = [recorder EXCEPT ![x].pc = "count"]
    /\ UNCHANGED <<groups, server, active, health, next, probing, socket, selecting>>

\* The threshold is compared with what fetch_add returned.
Decides(x) ==
    LET m == Current(x) IN
    IF recorder[x].ok THEN successes[m] + 1 >= SuccessThreshold
                      ELSE failures[m] + 1 >= FailureThreshold
Done(x) == [recorder[x] EXCEPT !.todo = @ \ {Current(x)},
                               !.pc = IF recorder[x].todo = {Current(x)} THEN "idle" ELSE "reset"]

Count(x) ==
    LET m == Current(x) IN
    /\ recorder[x].pc = "count"
    /\ IF recorder[x].ok
         THEN successes' = [successes EXCEPT ![m] = AtMost(@ + 1, SuccessThreshold)] /\ UNCHANGED failures
         ELSE failures' = [failures EXCEPT ![m] = AtMost(@ + 1, FailureThreshold)] /\ UNCHANGED successes
    /\ recorder' = [recorder EXCEPT ![x] = IF Decides(x) THEN [@ EXCEPT !.pc = "mark"] ELSE Done(x)]
    /\ UNCHANGED <<groups, server, active, health, next, probing, socket, selecting>>

Mark(x) ==
    /\ recorder[x].pc = "mark"
    /\ health' = [health EXCEPT ![Current(x)] = recorder[x].ok]
    /\ recorder' = [recorder EXCEPT ![x] = Done(x)]
    /\ UNCHANGED <<groups, server, active, successes, failures, next, probing, socket, selecting>>

RecordStep(x) == ResetOther(x) \/ Count(x) \/ Mark(x)

-----------------------------------------------------------------------------
(* Active probes and passive results *)

\* A forwarding task does one thing at a time.
Free(t) == recorder[t].pc = "idle" /\ selecting[t] = NoSelect
Quiet(g) == probing[g] = {} /\ recorder[g].pc = "idle"

\* run_health_checks: a node that is not active skips the round.
StartRound(g) ==
    /\ g \in Enabled /\ active /\ Quiet(g)
    /\ probing' = [probing EXCEPT ![g] = MembersOf(g)]
    /\ UNCHANGED <<groups, server, active, counters, next, socket, recorder, selecting>>

\* Variant: the branch of an answer is not looked at.
ProbeSucceedsByAny(m) == socket[m] # "stale" /\ (server[AddrOf(m)] = "up" \/ socket[m] = "late")
\* probe_sip_options: an answer counts if it comes in time and has the branch of this
\* probe; others are read and skipped.
ProbeSucceeds(m) == socket[m] # "stale" /\ server[AddrOf(m)] = "up"

\* Variant: a failed connection is used again.
SocketAfterKept(m) ==
    IF socket[m] = "stale" THEN "stale" ELSE IF server[AddrOf(m)] = "slow" THEN "late" ELSE "idle"
\* A timeout leaves the connection as it is; an error empties its slot, and the next
\* probe connects.
SocketAfter(m) ==
    LET c == server[AddrOf(m)] IN
    IF socket[m] = "stale" THEN IF c = "down" THEN "stale" ELSE "idle"
    ELSE IF c = "slow" THEN "late" ELSE "idle"

\* run_health_check_round: the probes of a round run side by side; each ends with
\* an answer or a timeout, and join_next records one result after the other.
ProbeEnds(g) ==
    /\ recorder[g].pc = "idle"
    /\ \E m \in probing[g] :
         /\ probing' = [probing EXCEPT ![g] = @ \ {m}]
         /\ socket' = [socket EXCEPT ![m] = SocketAfter(m)]
         /\ recorder' = [recorder EXCEPT ![g] =
                           [pc |-> "reset", ok |-> ProbeSucceeds(m), todo |-> {m}]]
    /\ UNCHANGED <<groups, server, active, counters, next, selecting>>

\* UpstreamGroups::record_passive_result, for a response (below 500 a success) or a
\* failed send or wait; groups whose checks are disabled ignore it.  The result does
\* not follow from the server's condition: a wait for the answer to an ACK, or on a
\* channel that a CANCEL has replaced, fails with a server that is up, and an answer
\* to a call counts however late it comes.
PassiveResult(t, a, ok) ==
    LET todo == {m \in ServersByAddr(a) : m[1] \in Enabled} IN
    /\ Free(t) /\ todo # {}
    /\ recorder' = [recorder EXCEPT ![t] = [pc |-> "reset", ok |-> ok, todo |-> todo]]
    /\ UNCHANGED <<groups, server, active, counters, next, probing, socket, selecting>>

-----------------------------------------------------------------------------
(* UpstreamGroupRuntime::select, one fetch_add and load at a time *)

StartSelect(t, g) ==
    /\ Free(t)
    /\ selecting' = [selecting EXCEPT ![t] = Selecting(g, 0, {}, TRUE)]
    /\ UNCHANGED <<groups, server, active, counters, next, probing, socket, recorder>>

\* Variant: the loop stops one server short.
TriesOneLess(g) == Size(g) - 1
Tries(g) == Size(g)
\* fetch_add on `next`, which other selections in the group notice.
Advance(g) == next' = [next EXCEPT ![g] = (@ + 1) % Size(g)]
Disturbed(g) == [t \in Task |-> IF selecting[t].group = g THEN [selecting[t] EXCEPT !.alone = FALSE]
                                                          ELSE selecting[t]]

SelectStep(t) ==
    LET s == selecting[t]
        m == <<s.group, next[s.group] + 1>> IN
    /\ s # NoSelect /\ s.tries < Tries(s.group)
    /\ Advance(s.group)
    /\ selecting' = [Disturbed(s.group) EXCEPT ![t] =
         IF health[m] THEN NoSelect ELSE Selecting(s.group, s.tries + 1, s.seen \cup {m}, s.alone)]
    /\ UNCHANGED <<groups, server, active, counters, probing, socket, recorder>>

\* With every server seen unhealthy, any of them is taken.
SelectFallback(t) ==
    LET s == selecting[t] IN
    /\ s # NoSelect /\ s.tries = Tries(s.group)
    /\ Advance(s.group)
    /\ selecting' = [Disturbed(s.group) EXCEPT ![t] = NoSelect]
    /\ UNCHANGED <<groups, server, active, counters, probing, socket, recorder>>

\* A step of a selection by a task beyond Task.
OtherSelects(g) ==
    /\ Advance(g)
    /\ selecting' = Disturbed(g)
    /\ UNCHANGED <<groups, server, active, counters, probing, socket, recorder>>

-----------------------------------------------------------------------------

\* A server that went down may come back without its connections.
ServerChanges ==
    /\ \E a \in Address, c \in Condition :
         /\ server' = [server EXCEPT ![a] = c]
         /\ \/ UNCHANGED socket
            \/ /\ server[a] = "down" /\ c # "down"
               /\ socket' = [m \in Member |-> IF AddrOf(m) = a /\ OverTcp(m) THEN "stale" ELSE socket[m]]
    /\ UNCHANGED <<groups, active, counters, next, probing, recorder, selecting>>

RoleChanges ==
    /\ active' = ~active
    /\ UNCHANGED <<groups, server, counters, next, probing, socket, recorder, selecting>>

ProbeStep(g) == StartRound(g) \/ ProbeEnds(g)

HealthNext ==
    \/ \E x \in GroupName \cup Task : RecordStep(x)
    \/ \E g \in GroupName : ProbeStep(g) \/ OtherSelects(g)
    \/ \E t \in Task, a \in Address, ok \in BOOLEAN : PassiveResult(t, a, ok)
    \/ \E t \in Task, g \in GroupName : StartSelect(t, g)
    \/ \E t \in Task : SelectStep(t) \/ SelectFallback(t)
    \/ ServerChanges \/ RoleChanges

HealthSpec == HealthInit /\ [][HealthNext]_healthVars

\* Tasks that record or probe get on; rounds follow each other.
HealthFairSpec ==
    /\ HealthSpec
    /\ \A x \in UNION {DOMAIN l : l \in Layouts} \cup Task : WF_healthVars(x \in GroupName \cup Task /\ RecordStep(x))
    /\ \A g \in UNION {DOMAIN l : l \in Layouts} : WF_healthVars(g \in GroupName /\ ProbeStep(g))

-----------------------------------------------------------------------------
(* Properties *)

\* A forwarding task begins to record a passive result of this kind for a member.
Reports(m, ok) ==
    \E t \in Task : /\ recorder[t].pc = "idle" /\ recorder'[t].pc # "idle"
                    /\ recorder'[t].ok = ok /\ m \in recorder'[t].todo
NoMore(m, ok) == <>[][~Reports(m, ok)]_healthVars

\* A server that stays up, and of which calls report no more failures, is healthy for
\* good in every group that checks it, as long as the node stays active: whatever was
\* reported before, no interleaving of probes and passive results under way leaves it
\* marked down, and no connection that died keeps its probes failing.  (With failures
\* of calls that go on the flag may go up and down for ever, as README says.)
Checked(m) == m[1] \in Enabled
RecoversFor(m) ==
    (/\ <>[](m \in Member /\ Checked(m) /\ active /\ server[AddrOf(m)] = "up")
     /\ NoMore(m, FALSE))
        => <>[](m \in Member /\ health[m])
AllMembers == UNION {Members(l) : l \in Layouts}
UpServerRecovers == \A m \in AllMembers : RecoversFor(m)

\* A server that stays down or never answers probes in time, and of which calls report
\* no more successes, is marked down for good, whatever results of earlier calls are
\* still being recorded and whichever late answers the socket of its probes holds.
LeavesFor(m) ==
    (/\ <>[](m \in Member /\ Checked(m) /\ active /\ server[AddrOf(m)] \in {"down", "slow"})
     /\ NoMore(m, TRUE))
        => <>[](m \in Member /\ ~health[m])
DownServerLeaves == \A m \in AllMembers : LeavesFor(m)

\* A selection takes a server it has not found healthy only when it has found
\* every server of the group unhealthy, wherever the counter stands and whatever
\* flags change meanwhile.  Overlapping selections of a group share its counter and
\* may pass a healthy server by: the property is about those that had the counter to
\* themselves.
FallbackMeansAllDown ==
    \A t \in Task : (selecting[t] # NoSelect /\ selecting[t].alone /\ selecting[t].tries = Tries(selecting[t].group))
        => selecting[t].seen = MembersOf(selecting[t].group)
=============================================================================
