------------------------------ MODULE Security ------------------------------
(***************************************************************************)
(* SecurityRuntime in proxy/server.rs with the dynamic part of             *)
(* proxy/xdp.rs: token buckets, bans per listener and source address, and  *)
(* their mirror in the kernel's blocked_ips map, kept by a control plane   *)
(* that remembers when an entry has to go.                                 *)
(*                                                                         *)
(* Handler tasks hold a lock only for one lookup or update; every such     *)
(* step is an action.  What a packet holds, and so which check it fails,   *)
(* may be anything.  Time is in ticks.                                     *)
(***************************************************************************)
EXTENDS Integers, FiniteSets

CONSTANTS
    Listener,       \* listeners; all of them share one port, as two binds may
    Ip,             \* source addresses
    Upstream,       \* those of upstream servers
    Trusted,        \* listener and address: in the listener's trusted_cidrs
    Denied,         \* listener and address: in its deny_cidrs, or not in its allow_cidrs
    Listed,         \* listener and address: dropped by a geo or threat list
    Prefiltered,    \* listeners that drop what has no SIP start line
    SipLimited,     \* methods that sip_rate_limit limits per address-of-record
    Policed,        \* listeners that ask of an INVITE that its source is registered
    Task,           \* handler tasks
    Rate,           \* tokens per tick of the packet bucket
    Burst,          \* its capacity
    IdleTtl,        \* SECURITY_BUCKET_IDLE_TTL
    BanTicks,       \* lengths of bans that the limits install
    MaxTime,        \* bound: ticks in which packets arrive and bans begin
    MaxBans,        \* bound: calls of block_for
    MaxFaults       \* bound: failing updates of the kernel's map, and restarts

ASSUME SecurityAssumption ==
    /\ Upstream \subseteq Ip /\ {Trusted, Denied, Listed} \subseteq SUBSET (Listener \X Ip)
    /\ {Prefiltered, Policed} \subseteq SUBSET Listener /\ SipLimited \subseteq {"REGISTER", "INVITE"}
    /\ {Rate, Burst} \subseteq Nat \ {0} /\ IdleTtl \in Nat /\ BanTicks \subseteq Nat \ {0}
    /\ {MaxTime, MaxBans, MaxFaults} \subseteq Nat

VARIABLES
    now,
    bucket,     \* the packet bucket of each key, full if there is none: tokens
                \* and time of update
    passed,     \* per key: packets let through by the bucket, less the tokens it
                \* was given beyond its rate, see SetBack and Forgiven
    blocks,     \* per key: when its ban ends, 0 if there is none
    control,    \* XdpControlPlane.blocks, 0 for no entry
    kernel,     \* addresses in blocked_ips
    stuck,      \* addresses a failed removal has left in blocked_ips
    task,       \* what each handler task is doing
    todo,       \* keys the prune loop still has to remove from the kernel
    bans,       \* block_for calls so far
    faults

tables == <<bucket, passed, blocks>>
xdp    == <<control, kernel, stuck, todo>>
vars   == <<now, tables, xdp, task, bans, faults>>

Key       == Listener \X Ip
NewBucket(at) == [tokens |-> Burst, updated |-> at]
\* A job's time is the clock it has read, or the end of the ban it installs.
Idle      == [pc |-> "idle", key |-> <<>>, from |-> "ban", time |-> 0]
Job       == [pc : {"blocked", "bucket", "ban", "parseban", "control", "kernel"},
              key : Key, from : {"ban", "parseban"}, time : Nat]
ListenerOf(k) == k[1]
IpOf(k)       == k[2]

TypeOK ==
    /\ now \in Nat /\ blocks \in [Key -> Nat] /\ control \in [Key -> Nat]
    /\ passed \in [Key -> Int]
    /\ bucket \in [Key -> [tokens : 0..Burst, updated : Nat]]
    /\ kernel \subseteq Ip /\ stuck \subseteq Ip /\ todo \subseteq Key
    /\ task \in [Task -> {Idle} \cup Job]
    /\ bans \in 0..MaxBans /\ faults \in 0..MaxFaults

Init ==
    /\ now = 0 /\ bucket = [k \in Key |-> NewBucket(0)]
    /\ passed = [k \in Key |-> 0] /\ blocks = [k \in Key |-> 0]
    /\ control = [k \in Key |-> 0] /\ kernel = {} /\ stuck = {} /\ todo = {}
    /\ task = [t \in Task |-> Idle] /\ bans = 0 /\ faults = 0

Goto(t, pc) == task' = [task EXCEPT ![t] = [@ EXCEPT !.pc = pc, !.from = "ban", !.time = 0]]
Done(t)     == task' = [task EXCEPT ![t] = Idle]
Then(t, pc) == IF pc = "idle" THEN Done(t) ELSE Goto(t, pc)

-----------------------------------------------------------------------------
(* check_packet *)

\* The packet is done with, or its source is to be banned.
Outcome(t, pcs) == \E pc \in pcs : (pc = "idle" \/ bans < MaxBans) /\ Then(t, pc)

\* Upstream servers are added to the trusted_cidrs of every listener.
IsUpstream(k) == IpOf(k) \in Upstream
IsTrusted(k) == k \in Trusted \/ IsUpstream(k)

\* Verdicts, by content and by the state of an identity, and so any of these.
Prefilter(k) == IF ListenerOf(k) \in Prefiltered THEN {"pass", "invalid-start-line"} ELSE {"pass"}

\* Only REGISTER and INVITE are limited, if they are; the bucket and the ban of
\* their identity stay in user space.
Method == {"REGISTER", "INVITE", "ACK", "CANCEL", "OTHER"}
CheckSipRequest(method) ==
    CASE method \notin SipLimited -> {"pass"}
      [] method = "REGISTER" -> {"pass", "sip-blocked", "sip-register-rate-limit"}
      [] OTHER -> {"pass", "sip-blocked", "sip-invite-rate-limit"}

\* An INVITE has to come from where the user of its From is registered.
CheckSipPolicy(k, method) ==
    IF method # "INVITE" \/ IsUpstream(k) \/ ListenerOf(k) \notin Policed THEN {"pass"}
    ELSE {"pass", "sip-invalid-from", "sip-unregistered-invite", "sip-unregistered-invite-source"}

\* The policy is asked when the limits let the request through.
SipVerdicts(k, method) ==
    IF IsUpstream(k) THEN {"pass"}
    ELSE (CheckSipRequest(method) \ {"pass"}) \cup CheckSipPolicy(k, method)

DynamicOffenseForReason(reason) ==
    CASE reason = "pass" -> "none"
      [] reason = "invalid-start-line" -> "invalid-packet"
      [] reason = "parse-error" -> "parse-error"
      [] OTHER -> "sip-rate-violation"

\* record_dynamic_offense: trusted peers answer only for SIP violations.
Counts(k, reason) ==
    LET kind == DynamicOffenseForReason(reason) IN
    kind # "none" /\ (IsTrusted(k) => kind = "sip-rate-violation")
Offense(k, reasons) == {"idle"} \cup {pc \in {"ban"} : \E r \in reasons : Counts(k, r)}

\* What follows a packet that is let through.  One that does not parse is an
\* offense, and record_parse_error may ban first, also a trusted peer.  A request
\* goes on to check_sip_request and check_sip_policy.
Handled(k) ==
    {"parseban"} \cup Offense(k, {"parse-error"})
    \cup Offense(k, UNION {SipVerdicts(k, m) : m \in Method})

\* A packet from an upstream server is not checked.
Arrive(t, k) ==
    /\ task[t] = Idle /\ now < MaxTime
    /\ \E pc \in IF IsUpstream(k) THEN Handled(k) \ {"idle"} ELSE {"blocked"} :
         task' = [task EXCEPT ![t] = [pc |-> pc, key |-> k, from |-> "ban", time |-> 0]]
    /\ UNCHANGED <<now, tables, xdp, bans, faults>>

\* is_denied and is_allowed of the listener.
Refused(k) == k \in Denied

\* is_blocked also takes an expired ban away.  Trusted peers skip lists and limits.
\* allow_bucket then reads the clock before it waits for the bucket's lock.
CheckBlocked(t) ==
    LET k == task[t].key IN
    /\ task[t].pc = "blocked"
    /\ blocks' = IF Refused(k) THEN blocks ELSE [blocks EXCEPT ![k] = IF @ > now THEN @ ELSE 0]
    /\ IF Refused(k) \/ blocks[k] > now THEN Done(t)
       ELSE IF IsTrusted(k) THEN Outcome(t, Handled(k))
       ELSE IF k \in Listed THEN Done(t)
       ELSE task' = [task EXCEPT ![t] = [@ EXCEPT !.pc = "bucket", !.time = now]]
    /\ UNCHANGED <<now, bucket, passed, xdp, bans, faults>>

Least(a, b) == IF a < b THEN a ELSE b

\* Variant: the time of the last update is not kept.
TokensFromStart(b, at) == Least(Burst, b.tokens + at * Rate)
\* The refill of TokenBucket::allow; a clock that was read earlier than the last
\* update's gives none.
Elapsed(b, at) == IF at > b.updated THEN at - b.updated ELSE 0
Tokens(b, at) == Least(Burst, b.tokens + Elapsed(b, at) * Rate)

\* allow sets the time of the update back to such an earlier clock: the interval
\* between the two will be refilled twice.
SetBack(b, at) == IF at < b.updated THEN (b.updated - at) * Rate ELSE 0

\* The limit on packets (flood and ip_rate_limit have a bucket each and differ in
\* their numbers only), then the prefilter.  block_seconds may be 0.
AllowPacket(t) ==
    LET k  == task[t].key
        at == task[t].time
        n  == Tokens(bucket[k], at) IN
    /\ task[t].pc = "bucket"
    /\ IF n >= 1
       THEN /\ bucket' = [bucket EXCEPT ![k] = [tokens |-> n - 1, updated |-> at]]
            /\ passed' = [passed EXCEPT ![k] = @ + 1 - SetBack(bucket[k], at)]
            /\ Outcome(t, Offense(k, Prefilter(k)) \cup Handled(k))
       ELSE /\ bucket' = [bucket EXCEPT ![k] = [tokens |-> n, updated |-> at]]
            /\ passed' = [passed EXCEPT ![k] = @ - SetBack(bucket[k], at)]
            /\ Outcome(t, {"idle", "ban"})
    /\ UNCHANGED <<now, blocks, xdp, bans, faults>>

-----------------------------------------------------------------------------
(* block_for *)

\* Variant: the latest ban counts, not the longest.
BlockedUntilLatest(old, until) == until
BlockedUntil(old, until) == IF old > now /\ old >= until THEN old ELSE until

\* After a ban for parse errors the offense is still counted.
Banned(pc, k) == IF pc = "parseban" THEN Offense(k, {"parse-error"}) ELSE {"idle"}

\* Installed or Extended goes on to the kernel, Retained does not.
Ban(t) ==
    LET k == task[t].key IN
    /\ task[t].pc \in {"ban", "parseban"} /\ bans < MaxBans /\ now <= MaxTime
    /\ bans' = bans + 1
    /\ \E d \in BanTicks :
         /\ blocks' = [blocks EXCEPT ![k] = BlockedUntil(@, now + d)]
         /\ IF blocks[k] > now /\ blocks[k] >= now + d THEN Outcome(t, Banned(task[t].pc, k))
            ELSE task' = [task EXCEPT ![t] = [pc |-> "control", key |-> k, from |-> task[t].pc,
                                              time |-> now + d]]
    /\ UNCHANGED <<now, bucket, passed, xdp, faults>>

SyncControl(t) ==
    /\ task[t].pc = "control"
    /\ control' = [control EXCEPT ![task[t].key] = task[t].time]
    /\ task' = [task EXCEPT ![t].pc = "kernel"]
    /\ UNCHANGED <<now, tables, kernel, stuck, todo, bans, faults>>

SyncKernel(t) ==
    /\ task[t].pc = "kernel"
    /\ kernel' = kernel \cup {IpOf(task[t].key)} /\ stuck' = stuck \ {IpOf(task[t].key)}
    /\ Outcome(t, Banned(task[t].from, task[t].key))
    /\ UNCHANGED <<now, tables, control, todo, bans, faults>>

\* The map is full or gone: a warning.
SyncKernelFails(t) ==
    /\ task[t].pc = "kernel" /\ faults < MaxFaults
    /\ faults' = faults + 1
    /\ Outcome(t, Banned(task[t].from, task[t].key))
    /\ UNCHANGED <<now, tables, xdp, bans>>

-----------------------------------------------------------------------------
(* run_prune_loop, restarts and time *)

\* Variant: only what ends at this very tick.
ExpiredExactly == {k \in Key : control[k] # 0 /\ control[k] = now}
Expired == {k \in Key : control[k] # 0 /\ control[k] <= now}

IdleBuckets == {k \in Key : bucket[k].tokens < Burst /\ now - bucket[k].updated > IdleTtl}

\* What the next bucket will have and this one has not been refilled with by now.
Forgiven(b) == IF b.tokens + (now - b.updated) * Rate < Burst
                 THEN Burst - (b.tokens + (now - b.updated) * Rate) ELSE 0

PruneTables ==
    /\ blocks' = [k \in Key |-> IF blocks[k] > now THEN blocks[k] ELSE 0]
    /\ bucket' = [k \in Key |-> IF k \in IdleBuckets THEN NewBucket(now) ELSE bucket[k]]
    /\ passed' = [k \in Key |-> IF k \in IdleBuckets THEN passed[k] - Forgiven(bucket[k]) ELSE passed[k]]
    /\ <<blocks, bucket>>' # <<blocks, bucket>>
    /\ UNCHANGED <<now, xdp, task, bans, faults>>

\* XdpRuntime::prune_expired: first the control plane, under its lock, ...
PruneControl ==
    /\ todo = {} /\ Expired # {}
    /\ control' = [k \in Key |-> IF k \in Expired THEN 0 ELSE control[k]]
    /\ todo' = Expired
    /\ UNCHANGED <<now, tables, kernel, stuck, task, bans, faults>>

\* ... then the kernel's entries one by one.  An error is a warning.
RemoveFromKernel(k) ==
    /\ k \in todo
    /\ todo' = todo \ {k} /\ kernel' = kernel \ {IpOf(k)}
    /\ stuck' = stuck \ {IpOf(k)}
    /\ UNCHANGED <<now, tables, control, task, bans, faults>>

RemoveFails(k) ==
    /\ k \in todo /\ faults < MaxFaults
    /\ todo' = todo \ {k} /\ faults' = faults + 1
    /\ stuck' = stuck \cup ({IpOf(k)} \cap kernel)
    /\ UNCHANGED <<now, tables, control, kernel, task, bans>>

\* Variant: the new process does not clear the pinned map.
AttachAsItIs == kernel
\* blocked_ips is pinned; attach empties it (clear_dynamic_blocklist).
Attach == {}
Restart ==
    /\ faults < MaxFaults /\ faults' = faults + 1
    /\ bucket' = [k \in Key |-> NewBucket(now)]
    /\ passed' = [k \in Key |-> 0] /\ blocks' = [k \in Key |-> 0]
    /\ control' = [k \in Key |-> 0] /\ kernel' = Attach /\ stuck' = stuck \cap Attach
    /\ todo' = {} /\ task' = [t \in Task |-> Idle] /\ UNCHANGED <<now, bans>>

\* The two steps of sync_ip_block take less than a tick: no time passes in them.
Tick ==
    /\ now < MaxTime \/ \E k \in Key : control[k] > now
    /\ \A t \in Task : task[t].pc \notin {"control", "kernel"}
    /\ now' = now + 1
    /\ UNCHANGED <<tables, xdp, task, bans, faults>>

-----------------------------------------------------------------------------

TaskStep(t) ==
    \/ CheckBlocked(t) \/ AllowPacket(t) \/ Ban(t) \/ SyncControl(t) \/ SyncKernel(t)

PruneXdp == PruneControl \/ \E k \in Key : RemoveFromKernel(k) \/ RemoveFails(k)

Next ==
    \/ \E t \in Task, k \in Key : Arrive(t, k)
    \/ \E t \in Task : TaskStep(t) \/ SyncKernelFails(t)
    \/ PruneTables \/ PruneXdp
    \/ Restart \/ Tick

Spec == Init /\ [][Next]_vars

\* Tasks and the prune loop are scheduled, and time passes.
FairSpec ==
    /\ Spec
    /\ \A t \in Task : WF_vars(TaskStep(t))
    /\ WF_vars(PruneXdp)
    /\ WF_vars(Tick)

-----------------------------------------------------------------------------
(* Properties *)

\* A source never gets more packets past the limit than its burst and the refill since
\* the start, but for two things the code gives beyond them, which are taken off what
\* has passed: the tokens a bucket lacks when it is dropped for being idle (none if
\* IdleTtl refills a bucket), and the time between two clocks when the task that read
\* the earlier one gets the lock later (none for a key that one task serves).
RateHonoured == \A k \in Key : passed[k] <= Burst + Rate * now

\* A ban in force is neither lifted nor shortened, whatever shorter ban, lookup
\* or pruning comes between, until a restart.
BansOnlyGrow ==
    [][Restart \/ \A k \in Key : blocks[k] > now => blocks'[k] >= blocks[k]]_vars

\* An address in the kernel's map has an entry of the control plane that will end
\* it, or the prune loop is about to: bans do not outlive their end in the kernel.
KernelBlockHasKeeper ==
    \A ip \in kernel \ stuck : \E k \in Key : IpOf(k) = ip /\ (control[k] # 0 \/ k \in todo)

\* Every kernel ban ends, unless its removal failed.
KernelBlockEnds ==
    \A ip \in Ip : (ip \in kernel) ~> (ip \notin kernel \/ ip \in stuck)
=============================================================================
