# A TLA+ model of sigproxy

This directory is a verification project for the SIP proxy in this repository:
TLA+ modules that model its protocols, TLC configurations that model-check them
on small instances, and TLAPS proofs. `PROJECT.json` holds the machine-readable
side: components, runs, mutants, the map from definitions to source lines,
findings, hazards and theorems.

## 1. The system and its parts

| Part | Source | State it keeps | Operations | Talks to | Modules |
|---|---|---|---|---|---|
| Active/standby role protocol | `src/ha/mod.rs` | role, epoch, `last_seen` | heartbeat poll, reconciliation, silence check, promotion, demotion, hooks | the peer over HTTP; the fencing hook | `ActiveStandby`, `ActiveStandbyProofs` |
| State replication, persistence, cluster state | `src/ha/mod.rs`, `src/persistence.rs`, `src/cluster/mod.rs` | contacts in memory, tables, `ha_events`, checkpoint, background queue | commit, batches, cleanup, `/ha/events`, `/ha/snapshot`, pull loop, restore | REGISTER handling, affinity, the peer | `HaReplication`, `HaReplicationProofs` |
| UDP forwarding | `src/proxy/server.rs` | branch routes, client transaction cache, INVITE transactions, local rejections, branch counter | receive, look up, forward, relay, absorb, prune | clients and upstreams, several workers per socket | `UdpForward`, `UdpForwardProofs` |
| TCP forwarding, handler queues | `src/proxy/server.rs` | connection pool, branch maps, response channels, bounded queues | connect, write, read, wait, evict | UDP workers, TCP clients, upstreams | `TcpUpstream`, which implements `SipRelay`; `TcpUpstreamProofs` |
| Upstream groups, health | `src/proxy/server.rs` | counters and flag per server, probe sockets, round-robin counter | probes, passive results, selection | forwarding | `UpstreamHealth`; proofs in `CallRoutingProofs` |
| Registration, affinity table | `src/proxy/server.rs`, `registry.rs`, `affinity.rs`, `src/cluster/mod.rs` | pending REGISTERs, contacts, sharded bindings and their count | apply an answer, look up, expire | forwarding, replication | `Registration`, `RegistrationProofs` |
| Routing of a call | `src/proxy/server.rs`, `routing.rs`, `affinity.rs` | registrations, affinity keys, INVITE transactions, advertised addresses | `prepare_forward`, Record-Route, 2xx restoration | phones and servers | `CallRouting`, `CallRoutingProofs` |
| Security runtime, blocked addresses | `src/proxy/server.rs`, `src/proxy/xdp.rs` | token buckets, bans, kernel map and its control plane | admit, ban, prune, synchronise | every handler, the kernel | `Security`, `SecurityProofs` |
| Geo and threat lists, policy maps | `src/proxy/geo.rs`, `threat.rs`, `xdp.rs`, `bpf/sigproxy_xdp.c` | list in use, cache file, pinned maps | fetch, build, cache, swap, copy, look up | security, the kernel | `IpLists`, `ListRefresh`, `ListRefreshProofs` |
| Supervision | `src/app.rs` | task set, shutdown signal | start-up order, shutdown | all of the above | parts of `ActiveStandby`, `HaReplication` |
| Configuration, metrics, command line | `src/config.rs`, ... | none that another part depends on | parsing, formatting, counting | | none |

What is hard here, and what makes a part correct:

- **Roles.** Two processes decide on heartbeats that are old when they are acted on;
  the two fields of a heartbeat are read in two steps; the epoch is lost in a restart;
  hooks take time and fail. Correct means: a split brain is resolved, by one side
  giving up and not both; a standby takes over from a silent peer only; the pair ends
  with one active.
- **Replication.** Memory, tables and log are changed in several steps by several
  tasks; events are purged; requests get lost; processes restart, and their endpoints
  serve before their memory is restored. Correct means: the checkpoint never claims
  what the standby does not have, and the standby catches up.
- **UDP forwarding.** Every map is locked for one access at a time and several workers
  interleave between the accesses; packets are duplicated and reordered; entries are
  evicted and expire. Correct means: responses reach the client they are for,
  retransmissions are absorbed but never swallowed for nothing, CANCEL and ACK follow
  their INVITE.
- **TCP forwarding.** Workers wait inside their packet's handler; connections are
  opened twice, replaced, closed and half written. Correct means: every task comes
  back, an answer finds the task that waits for it, a client gets answers to its own
  requests.
- **Health.** Three atomics per server are updated one by one by two kinds of tasks;
  probe answers come late and probe connections die unnoticed. Correct means: the flag
  ends up as the server is, once calls report nothing to the contrary.
- **Registration.** Answers are applied by several tasks, two keys at a time, while
  lookups take expired contacts away. Correct means: what the last answer said is what
  lookups find, and calls go to the registrar that has the device.
- **Calls.** Registrations, health, NAT, STUN and addresses of two sides decide where
  each request of a call goes. Correct means: the requests of a call stay with its two
  ends.
- **Security.** Bans are extended, pruned and mirrored in the kernel in separate steps.
  Correct means: no ban in force is lost or shortened, none stays in the kernel, and no
  source exceeds its rate.
- **Lists.** A list goes through a file, a swap and a pinned kernel map, each of which
  can fail or survive a restart. Correct means: lookups are true to the sources, and
  kernel and user space agree.

`PROJECT.json` lists these as hazards, each at its line, with the properties that
would catch it.

## 2. Plan

Modelled and checked, in the order of importance: `ActiveStandby`, `HaReplication`,
`UdpForward`, `TcpUpstream` with its abstract specification `SipRelay`, `UpstreamHealth`,
`Registration`, `Security`, `IpLists` with `ListRefresh`, and `CallRouting`. Each of
them has proofs, and every safety property that a passing run checks is a theorem. What is
left:

1. The disconnect of a TCP client, and requests that a TCP upstream sends.
2. `install_snapshot`, `upsert_snapshot_bindings` and `remove_key` of the affinity
   table beside `remember_key`.

## 3. What is modelled

Every module keeps the control of the code it models (each lock, await and early
return where another task can come between is a step) and abstracts the data to what
the properties tell apart. Operators commented as *variants* are plausible mistakes in
the definition that follows them; no specification uses them, and `PROJECT.json` pairs
each with a property that fails when the variant takes the definition's place.

### ActiveStandby

Two nodes, each a process (`proc`), a role, an epoch and a monitor task (`mon`).
`Tick`, `ServeRole`, `ServeEpoch`, `Reconcile`, `SilenceCheck`, `Promote`, `Demote`
are the steps of `run_active_standby_monitor` and of the functions it calls, split at
the HTTP request, between the role and the epoch of a heartbeat, and at the hook.
`FetchFails` is every way a request can fail, `HookFail` a hook that fails or times
out; `Start`, `StartHookOk`, `StartHookFail` and `Stop` are the life of a process. Time
is counted in heartbeat intervals since `last_seen`. `life` numbers the starts of a
process; the properties use it to speak of restarts. The roles `Candidate` and
`Standalone` do not occur in this mode.

### HaReplication

The active: `amem`, `adb`, `alog` with `purged`, the background `queue`, and tasks that
write in two steps, memory or commit first according to `persistence.required`. The
standby: `smem`, `sdb`, `applied`, and the pull loop as a program counter over the steps
of `run_snapshot_pull`, `apply_ha_event`, `snapshot_state` and `install_state_snapshot`.
`loading` is `restore_persistent_state` of a restarted standby, beside the pull loop.
Cleanup, failed transactions, lost requests, restarts of both nodes and a promotion are
actions. A binding is the number of its write; contacts and affinity are one map;
bindings do not expire during a behaviour.

### UdpForward

Workers (`job`) take requests and responses off an unreliable network and go through
`handle_udp_packet`, `forward_udp`, `prepare_forward` and `handle_udp_response` in the
steps between their locks. A request is a transaction and a method. What a client or an
upstream may send (`ClientMaySend`, `UpstreamMayAnswer`) is external. Eviction may take
any entry but the new one, as the hash decides which entries share a shard.
`RejectRequest` stands for all the early answers of `handle_udp_packet`.

### TcpUpstream and SipRelay

UDP handler workers with bounded queues and one task per TCP client send requests to one
TCP upstream: `GetConnection`, `Connect`, `PoolInsert`, `CheckAlive`, `InsertRoute`,
`Write`, `Evict` are the steps of `TcpUpstreamPool::send_request` and of its second attempt;
`Record`, `RelayResponse`, `ChannelClosed` and `ResponseTimesOut` those of the waiting
loops. A connection's reader (`Dispatch`, `ReaderEnds`) hands responses to the branch's
channel. Faults: connects, writes that fail or time out halfway (`garbled`), closed
connections, a reader that gives up on a message with the socket open (`ReaderFails`),
pruned channels and rejections.

`SipRelay` is what this promises a client: each response answers a request of the
client's own transaction that was sent, and a request that nothing has followed gets at
most as many final responses as it was sent times. `TcpUpstream` implements it under
the mapping `sent <- sends, delivered <- relayed` (property `RelaysAnswers`).

### UpstreamHealth

Members are `<<group, index>>`, as an address may be in several groups or twice in one.
`RecordStep` is `record_health_result` one atomic operation at a time, for the group's
probe task and for forwarding tasks that report passive results. Servers are up, down
or slow (probes are answered after the limit); what calls report is any result at any
time, as it does not follow from that. The socket of
a member's probes may hold a late answer, or be a connection that has died. The
selections of `Task` are followed one try at a time (`SelectStep`), and `OtherSelects` is a
try of anybody else: every try moves the group's shared counter. The ghost `alone` says
that nobody else has moved it since a selection began. `RoleChanges` is the gate that
stops probes on a standby. The specification is `HealthSpec` (`HealthInit`, `HealthNext`),
so that one module can extend this one and `CallRouting`, whose groups it selects from.

### Registration

Devices of one address-of-record register through registrars. `TakePending` and the steps
after it are `apply_register_response`: pending entry, affinity entry, contact, for each
of the two keys, then the answer to the client. `SubmitFails` is a command that `submit`
refuses (a required commit that fails, or a node that is no longer active), after which
the task goes on; `lost` has the keys it happened to, until a later command succeeds.
Readers look contacts up in the two steps of `SharedState::lookup`. The affinity table is sharded, expires a whole shard at
a time and keeps a counter. Registrars list other devices' contacts in a 2xx or not.

### Security

Packets go through the listener's prefixes, bans, trusted and listed addresses, the
bucket and the prefilter; what follows a packet that does not parse or a request that
offends is any outcome the code allows, by listener, method and source. A task reads the
clock in `CheckBlocked` and takes the bucket's lock in `AllowPacket`, maybe later. `Ban`, `SyncControl` and `SyncKernel` are `block_for` and `sync_ip_block`;
`PruneTables`, `PruneControl` and `RemoveFromKernel` are the prune loop. Kernel updates
fail, and processes restart with a pinned map.

### IpLists and ListRefresh

`IpLists` has the algorithms: blocks to ranges, sorting and merging, bisection, and the
cut of ranges into prefixes, over a `Bits`-wide address. `Sorted` is the sequence that the
code's sort ends with; the loops of merging, bisection and cutting (`Merged`, `Bisect`,
`RangePrefixes`) are recursive functions, which proofs can reason about.

`ListRefresh` takes a list through fetch, build, cache file and swap, and the copy into
the kernel: insert new, delete old, remember keys. A source answers, fails, or has a line
that does not parse; of a country the ranges before that line are kept when partial lists
are allowed, of a feed nothing is (`ReadBefore`, `Outcomes`). While the process is down a
list may be built by hand (`Rebuild`). `KernelPolicy` is what `cidr_filter`, `geo_filter`
and `threat_intel` leave of the policy for the kernel, and configured prefixes may have
host bits, which the trie does not look at (`InTrie`). Insertions and deletions may stop
at any entry (`InsertFails`, `DeleteFails`); `failed` says that the last sync did.
`CheckPacket` is user space's verdict on an address and `EvaluatePacket` the kernel's.
Maps have the capacity chosen at attachment.

### CallRouting

One call between a phone and a server with all its requests. `Candidates` is the order
in which `prepare_forward` looks for a target: INVITE transaction, registration,
Request-URI, affinity, route table and group; `ForwardTo` is the rest of it for one
target and one pair of addresses. Own routes are taken off, Record-Route put
on and restored in a 2xx, which may have lost any part of it (`Echoes`). The address of
each side is configured, `external_addr`, taken from STUN (whose answers may differ,
`Moved`) or probed on the servers' side or towards the default probe (`Resolution`), and
cached per next hop and, for the test of its Route, per sender (`Asked`). A Contact may
have a host name or a transport of its own (`TargetOf`). During the call registrations,
health and STUN's answer change, affinity and INVITE transactions expire
(`AffinityExpires`, `InviteExpires`), and a request may overtake the remembering of an
earlier one.

## 4. Runs

| Run | Result | Properties | What it shows |
|---|---|---|---|
| `as` | pass | `TypeOK`, `NoMutualStepDown`, `FailoverMeansSilence`, `DemotionLeavesActive`, `EventuallyOneActive` | any initial roles, restarts, a lost heartbeat, a failing hook: no mutual step-down, failover follows silence, and the pair settles on one active |
| `ha` | pass | `HonestWhileUp`, `MemoryHonest`, `CheckpointBounded`, `MemoryLeadsLog`, `RequiredIsDurable`, `Converges` | two writers, both persistence modes, purges, faults, restarts and a promotion: the checkpoint is honest and the standby catches up |
| `udp` | pass | `ResponsesGoHome`, `CachedFinalIsOwn`, `NoBlackHole`, `UnfollowedHasRoute`, `SameUpstream` | two workers, duplicates, eviction, expiry, a failing send |
| `tcp` | pass | `UnfollowedWaiterHasRoute`, `WorkingConnectionStays`, `EveryTaskReturns`, `RelaysAnswers` | pool, waits and queues under faults; refinement of `SipRelay` |
| `health` | pass | `FallbackMeansAllDown`, `UpServerRecovers`, `DownServerLeaves` | once calls report nothing to the contrary the flag ends as the server is, whatever results mix |
| `register` | pass | `AnsweredIsStored`, `ContactAndAffinityAgree`, `LenIsSize` | answers in any order, readers, expiry |
| `security` | pass | `RateHonoured`, `KernelBlockHasKeeper`, `BansOnlyGrow`, `KernelBlockEnds` | bans, pruning and the kernel's map under faults and restarts |
| `lists` | pass | `LookupIsTrue`, `InUseIsCached`, `KernelAgrees`, `KernelCovers` | lists through file, swap and kernel, sources read in part, every filter switched off in turn |
| `calls` | pass | `OwnRoutesPopped`, `EachSideHasItsRoute`, `CancelFollowsInvite`, `OutgoingCallKeepsItsServer`, `PhoneIsReached`, `TripsBounded` | calls in both directions under six configurations |
| `ha_empty_log` | violation | `CatchesUp` | an emptied event log leaves a standby behind |
| `udp_cancel` | violation | `FinalHasRoute` | the final response to a CANCEL removes the route of its INVITE |
| `calls_server` | violation | `CallKeepsItsServer` | the phone's BYE in a call from a server goes to any server |

Each module has a type invariant `TypeOK` (`HealthTypeOK` in `UpstreamHealth`); the run `as` checks the one that a theorem
states, and adding `INVARIANT TypeOK` to any other configuration checks that module's.
Deadlock is not checked where bounded counters make the instance stop; `health` has no
such counter and is checked for deadlock.

**Bounds.**

- `as`: `FailoverTicks` = 2 is the smallest the configuration allows and lets one failed
  fetch reach the timeout; two lives give one restart of either node in any order;
  `MaxEpoch` = 4 leaves room for the promotions of a life, so that the bound does not end
  them.
- `ha`: two writes by two writers give both orders of one key and a batch cut by a purge;
  one contact and one affinity key give both write orders, and no property relates two
  keys; one fault and one restart of each node.
- `udp`: an INVITE with one of CANCEL and ACK, or with another request, and a cache of
  one entry, so that every second entry evicts. One upstream is enough: a branch is
  given out together with its upstream, so a wrong upstream is a wrong branch.
- `tcp`: one UDP worker with a queue of one packet, one TCP client with INVITE and ACK;
  two connections give the second attempt and the replaced connection.
- `health`: a group that lists its server twice, or two groups that share one, the second
  without checks; thresholds 2 and 1 let results mix below and at a threshold. One
  selection is followed, and any number of others disturbs it.
- `register`: two devices, registrars and tasks, two REGISTERs, one tick of validity, so
  that both orders of the answers and an expiry between two steps occur.
- `security`: one address and two listeners that share the kernel's port, one of which
  trusts it; bans of two lengths, two tasks, one fault. A burst of two that one idle tick
  does not refill, so that buckets are dropped early and clocks are set back.
- `lists`: two-bit addresses have all alignments and both ends of the address space; two
  sources, five feeds that touch, overlap, nest or cover everything, with and without host
  bits; maps of two and four entries, which the feeds exceed or fill. Five configurations:
  threat lists with both filters on, without `cidr_filter` and without `threat_intel`, geo
  lists with and without `cidr_filter`; trusted addresses that a list has, deny prefixes
  with host bits, and both rules for unknown countries.
- `calls`: two phones of one user, one behind a NAT, two servers, with a default group of
  both or of one; six configurations, with addresses configured, from STUN, from STUN
  that moves, a host name as `external_addr`, and none with the default probe, and with
  every strategy, both transports, Contacts with and without a transport, and a host name
  in one; three requests, two changes (of a registration, health or STUN's answer, or an
  expiry), one failing query.

Workers, devices and registrars are symmetric where a configuration says so; no run with
symmetry checks liveness.

**Fairness.** Weak fairness of what a task does by itself: a monitor's steps and the
peer's handler, the background writer, the pull loop and `restore_persistent_state`, a
forwarding task's steps (every wait of which has a timeout), the end of a reader that has
left its loop, a group's probe rounds, the prune loop, and the clock. The runtime
polls ready tasks and timers fire. Nothing is assumed about clients, upstream servers,
operators, faults or cleanup.

## 5. What is proved

`ActiveStandbyProofs` proves for any set of node ids paired by `Peer`, any
`FailoverTicks` >= 2 and any bounds:

- `TypeCorrect`: `Spec => []TypeOK`;
- `NeverBothStepDown`: `Spec => []NoMutualStepDown`;
- `FailoverOnlyOnSilence`: `Spec => []FailoverMeansSilence`;
- `DemotionKeepsAnActive`: `Spec => DemotionLeavesActive`.

The assumptions are those of `ActiveStandby`: ids are naturals, so they are totally
ordered and break ties (`NodeAssumption`); each node's peer is another node whose
peer it is (`PeerAssumption`); the timeout exceeds the interval, as `validate_ha`
demands (`TicksAssumption`); and the bounds are naturals (`BoundAssumption`).

None of the properties is inductive: they speak of hooks that run, and a step-down
hook was started on a heartbeat read some steps before. The invariant `IInv` adds to
`TypeOK` what a heartbeat in hand still says:

- `ReplyFresh`: it comes from a life of the peer that has begun, and while that life
  lasts the peer's epoch is at least the one it reports;
- `StepDownJustified`: a node in its step-down hook is active, holds a heartbeat of an
  active peer that beats its epoch, and has just renewed `last_seen`;
- `StaleActiveLoses`: before any restart, an active whose heartbeat says that the peer
  is active when it no longer is cannot be beaten by that heartbeat;
- `SilentWhenExpired`: with hooks faster than the timeout, a standby whose clock has
  run out got no answer in this round.

Epochs only grow within a life and ids are totally ordered, so of two nodes that hold
heartbeats of each other's present life only one can lose: that is
`NoMutualStepDown`. `StaleActiveLoses` is what keeps `DemotionLeavesActive` when the
peer changed its role after the heartbeat was read, between its two halves included.

`SecurityProofs` proves for any listeners, addresses and tasks, any rate, burst and
lengths of bans, and any bounds:

- `TypeCorrect`: `Spec => []TypeOK`;
- `RateIsHonoured`: `Spec => []RateHonoured`;
- `KernelBlocksAreKept`: `Spec => []KernelBlockHasKeeper`;
- `BansNeverShrink`: `Spec => BansOnlyGrow`.

`RateHonoured` is not inductive, as a bucket could owe the source more than it is due.
`Accounted` says what is due: what has passed and the tokens left are together within
the burst and the refill until the bucket's last update, for which `passed` leaves out
what the code gives beyond that: `SetBack`, the time between two clocks when the earlier
one gets the lock later, and `Forgiven`, what an idle bucket lacks when it is dropped.
`ClocksRead` says that no task and no bucket has a clock of the future. `KernelBlockHasKeeper`
needs `SyncsInTime`: a task between its two updates, of the control plane and of the
kernel, has an end that is still to come, so the prune loop cannot have taken the entry
in between; the model's `Tick` waits for such tasks.

`HaReplicationProofs` proves for any contacts, affinity keys and writers, both
persistence modes and any bounds:

- `TypeCorrect`: `Spec => []TypeInv` (`TypeOK`, and an event to apply while events are
  being applied);
- `CheckpointInLog`: `Spec => []CheckpointBounded`;
- `RequiredSurvives`: `Spec => []RequiredIsDurable`;
- `MemoryLeads`: `Spec => []MemoryLeadsLog`;
- `CheckpointIsHonest`: `Spec => []HonestWhileUp`;
- `MemoryIsHonest`: `Spec => []MemoryHonest`.

The log is only ever appended to (a purge moves the first row that can be read), so what
the pull loop holds stays what the log has: `PullInv` says that a batch in hand is the
run of events right after the checkpoint and that a snapshot's position is within the
log. `Durable` follows a required contact through its writer: nothing is queued, and a
contact is in the log before its writer goes on, before the tables and before memory
have it. For the default mode `FromHistory` ties every event under way or committed to
one write of the history, `TablesFollow` says the tables have the last event on each key,
and `MemoryInv` that a key in memory has the newest write on it, or what the tables had
at the restart, with nothing under way. `Covers` speaks of the last event on a key only,
and is not kept by a step that appends to the log or moves the checkpoint by one event;
`Honest` therefore says it of every event up to the checkpoint (`HasAll`), for the
tables, for a snapshot in flight (for its own position and for the checkpoint it
replaces), and for the standby's memory, which is one event ahead between `apply` and
`commit`.

`UdpForwardProofs` proves for any transactions, upstreams and workers, any size of the
cache and any bounds:

- `TypeCorrect`: `Spec => []TypeInv` (`TypeOK`, and what a worker holds at each step);
- `AbsorbedHasLeft`: `Spec => []NoBlackHole`;
- `ResponsesReachTheirClient`: `Spec => []ResponsesGoHome`;
- `ReplaysAreOwn`: `Spec => []CachedFinalIsOwn`;
- `FinalFindsItsWay`: `Spec => []UnfollowedHasRoute`;
- `FollowUpsFollow`: `Spec => SameUpstream`.

The assumptions: INVITE transactions are not those of other requests, as their keys have
the method in them, and bounds are naturals, the cache's at least 1 (`UdpAssumption`);
what clients send in a behaviour are requests (`SessionAssumption`). `NoBlackHole` needs `CachedIsOut`: an entry without a forward is in
the hands of a worker that will send or take it back. The two properties of responses
rest on `Owned`: a branch in use (by a worker, a route, a remembered INVITE or a request
that has left) has been given out and belongs to one transaction; until a request that
begins a transaction has left, its branch is its worker's alone; once a CANCEL or ACK has
the route it keeps it. Without the last two, two workers could exchange the route of a
branch, and a response to a CANCEL be kept for the INVITE. `WayBack` adds that who takes
a route down has relayed a final response and that the route is there before the request
leaves.

`TcpUpstreamProofs` proves for any transactions of UDP and TCP clients, any finite set of
workers, any queue length, number of connections and bounds:

- `TypeCorrect`: `Spec => []TypeInv`;
- `WorkingConnectionsStay`: `Spec => WorkingConnectionStays`;
- `WaitersAreReached`: `Spec => []UnfollowedWaiterHasRoute`;
- `ImplementsSipRelay`: `Spec => RelaysAnswers`, the refinement of `SipRelay`.

`TcpAssumption` says that workers are numbered from 0, that INVITE transactions are not
those of other requests, that a TCP client's task is not a worker, and that bounds are
naturals. `RouteInv` is the inductive invariant of
`WaitersAreReached`: beside the ownership of branches (`BranchInv`), the task of a request
that nothing has followed is the only one with its branch (`Alone`), the upstream has the
request once (`OneReceived`), a connection in use has been opened (`Opened`), and the
channel is in the map of a connection that is read from before the write on
(`RouteReady`), which is what a second attempt on another connection and a reader that
clears its map at its end could break. `WorkingConnectionsStay` needs that an attempt about
to evict holds a connection that does not work (`EvictsBroken`) and that none works again.

The refinement maps the sends and the deliveries of a client. That a delivery answers a
request of its own transaction that was sent needs it of the channels and of the cached
finals (`InboxOwn`, `FinalOwn`), and those the ownership of branches. That finals are no
more than sends needs `Counted`: the finals a request has got and its copies still with a
task or in a queue are together no more than the times it was sent. Every step of the
pool then is a send, a delivery or a stutter of `SipRelay`.

`RegistrationProofs` proves for any finite set of devices, any registrars, tasks and
readers and any bounds (`RegistrationAssumption`):

- `TypeCorrect`: `Spec => []TypeOK`;
- `LenCounts`: `Spec => []LenIsSize`;
- `LastAnswerIsStored`: `Spec => []AnsweredIsStored`;
- `AffinityFollowsContact`: `Spec => []ContactAndAffinityAgree`.

`LenIsSize` is a statement about cardinalities: each write of a shard changes the size of
the set of keys by what the counter is changed by. The other two are about a device
whose last REGISTER has been answered, some steps after a task began to apply that
answer. `HeldOnce` says that a REGISTER without an answer is with a registrar or with one
task, and `OneEach` that, as long as no client has given up on an answer, it is the last
one of its device; so no task can overwrite what another has stored for a later one.
`AllStored` is `AnsweredIsStored` for the states before the answer is relayed too (a key
whose command was refused is `lost`, and stays so until a command succeeds), and
`Agreed` has the state between the two writes of a key, in which the affinity is ahead of
the contact.

`CallRoutingProofs` proves for any phones, servers, addresses of record, groups, route
tables and configurations, and any bounds:

- `TypeCorrect`: `Spec => []TypeOK`;
- `RoundTripsEnd`: `Spec => []TripsBounded`;
- `NoOwnRouteOnTop`: `Spec => []OwnRoutesPopped`;
- `CancelReachesItsInvite`: `Spec => []CancelFollowsInvite`;
- `RoutesFitTheirSides`: `Spec => []EachSideHasItsRoute`;
- `ServerReachesPhone`: `Spec => []PhoneIsReached`;
- `PhoneStaysOnServer`: `Spec => []OutgoingCallKeepsItsServer`.

`RoutingAssumption` says that phones, servers and the proxy's own addresses differ, that
`external_addr` is the address of both sides, that every group of the route table exists
and has servers, and that bounds are naturals.
The invariants, each a part of the story of a call:

- `Types`, in which the routes of a request are addresses that the proxy can have given
  out under its configuration (`Known`);
- `Budget`: Max-Forwards and the passes already made are together at most `MaxHops` + 1;
- `Advertised`: while no query has failed, what is cached for a next hop is what
  `Resolution` says or STUN's other answer, so the Route that a request comes back with is
  one the proxy knows if the configuration is `Recognizable`;
- `Ordered`: one request is under way, and nothing is remembered before the INVITE;
- `Transaction`: the table of INVITE transactions and what is still to be put into it
  lead to where the INVITE went until an entry expires, so that a CANCEL handled once all
  is remembered follows it;
- `Sides`: the Record-Route of the INVITE has the next hop's side first, before the 2xx
  and after its restoration, unless the 2xx brought back only the first of two addresses
  (`halved`);
- `Dialog`: a server's requests within the call name the call's phone;
- `Fresh` and `Bindings`: the transaction of a phone's request within the call is no
  INVITE's, and while the call is outgoing, no server's health has changed
  and no affinity has expired, all its affinity keys, present or about to be remembered, lead to the INVITE's server.

`CallRoutingProofs` has the health checks too, for any layout of groups, any tasks and any
thresholds:

- `HealthTypeCorrect`: `HealthSpec => []HealthTypeOK`;
- `FallbackFollowsAllDown`: `HealthSpec => []FallbackMeansAllDown`.

`HealthAssumption` asks for groups that have servers, as the configuration's validation
does (`config.rs:130`). `SelectionInv` says of a selection that nobody has disturbed that
the servers it has seen down are those that the counter's last moves went over
(`Behind`), modulo the size of the group; as many moves as the group has servers go over
all of them. Without `alone` the property is false: two selections that take turns
may each see one server twice and miss the healthy one. `HealthTypeOK` needs that
a recorder in the middle of its steps has a member to do (`Recorders`), whichever of the
recorders of a member's counters comes between.

`ListRefreshProofs` proves for any width of addresses, any sources and feeds, any
configurations and any bounds:

- `TypeCorrect`: `Spec => []TypeOK`;
- `LookupsAreTrue`: `Spec => []LookupIsTrue`;
- `ListsAreCached`: `Spec => []InUseIsCached`;
- `KernelDecidesAlike`: `Spec => []KernelAgrees`;
- `KernelHasEntries`: `Spec => []KernelCovers`.

`BitsAssumption` and `ListAssumption` say that addresses have some number of bits, that
sources are pairs of the letters A to Z as `encode_country` makes them (so that a country
is never the 0 that stands for none, and no two share a bit of the policy's bit sets),
that maps have room for at least one entry, and that bounds are naturals. Feeds need not
be disjoint or sorted, and neither they nor configured prefixes need be aligned; switches
are any. The first half of the module is about the algorithms, for every input:

- Numbers. `InductionOnSets` is induction for a property that is a set of numbers, from the
  library's theorem that `<` is well founded; `PowersDouble` counts the subsets of a set,
  as 2^n has no other meaning to the provers. `InBlock`, `BlockOf`, `BlockWithin` and
  `AlignedBlock` are what blocks of a power of two do to each other: they nest or are apart.
- Merging. `SortedIs`: a finite set of ranges can be sorted. `MergedSteps`: the recursion
  of `Merged` has a solution; only then may its equation be used, and the
  same holds for `BisectSteps` and `RangePrefixesSteps`. `NormalizeKeeps`: merging keeps
  which addresses have which country, and leaves the ranges of a threat list, which have
  no country, apart. A geo list whose merged ranges overlap is refused by the build.
- Bisection. `BisectFinds`: over ranges that do not overlap, the search answers with the country of
  a range that has the address, and with none when no range has it.
- Cutting. `RangePrefixesCover`: the prefixes are aligned and cover the range, no less and
  no more, including the step at the last address of the space, where the next start would
  overflow. `XdpPrefixesCover` is the same for a list.
- The kernel. `LongestMatchIs`, `DenyMatches`, `DenyOnly`, `DenyAll`, `GeoMap` and
  `CountriesAgree`: what the tries find for an address, over maps between two bounds. No
  entry but those of `Trie` (the plan's entries without their host bits) gives
  `DropsAreRight`; all of `Solid` (those that no other key shares) gives `DeniedDrops` and
  `ListedDrops`.

The invariant has four parts. `Types`. `Lists`: the list in use, the one in the file and the
one just built are each `SoundList`, whose ranges and prefixes say what was read of the
sources, and none is newer than the last refresh. `Cached`: a list that is about to be used is in
the file already, which makes `InUseIsCached` survive a crash between the rename and the
swap. `Maps`: while nothing has failed, the maps hold no entry but those of the last sync's
keys, or, between its insertions and its deletions, of the new ones and the stale ones;
the new entries are all there before an old one goes; and unless the last sync failed, the
`Solid` part of user space's keys is in the maps. Two keys that differ in host bits are one
entry, which the deletion of either takes away, so no more than that part is certain: a
key with host bits next to a threat list is left out (`Planned`, `Shared`). The first of
these gives half of `KernelAgrees`, the third the other half and `KernelCovers`.

Only model-checked: liveness (`EventuallyOneActive`, `Converges`, `EveryTaskReturns`,
`UpServerRecovers`, `DownServerLeaves`, `KernelBlockEnds`), as the prover has no ENABLED.
The properties of the runs that end in a violation are false, and have no theorem.

## 6. Findings

Three runs end in a violation of what the documentation says; `PROJECT.json` quotes the
lines.

- `ha_empty_log`: `events_after` asks for a snapshot only when a row is left in the log,
  so a standby that is behind an emptied log is told that nothing is new.
- `udp_cancel`: CANCEL and ACK replace the route of their INVITE's branch by one that
  the first final response removes; after the 200 to the CANCEL, the 487 is dropped.
- `calls_server`: in a call that a server began, the affinity keys of the dialog are
  bound to the phone, and the phone's own requests do not find their server.

What the models show besides, kept here as notes and not as runs. Each is a case that a
property above excludes in so many words, or a variant of a run in which TLC refutes the
property.

*Roles and replication*

- A failing hook ends the monitor task, not the process: nobody joins it while the HTTP
  server runs (`ha/mod.rs:320`), and failover silently stops.
- A restarted active serves its empty memory as a snapshot before it has restored it
  (`server.rs:545`), and the pull loop looks at the role before its requests and not
  after, so a promoted node may install what it had asked for (`ha/mod.rs:612`).
- With `persistence.required` the commit precedes the memory, so a snapshot taken between
  the two claims an event it lacks: `HonestWhileUp` is stated for the other mode.
- After a standby restart the pull loop may apply an event between the two halves of
  `restore_persistent_state`, which then overwrites it.
- Two writers of one contact at once: memory and log may take the two writes in opposite
  orders, and the standby keeps the other binding.

*UDP and TCP forwarding*

- Branch numbers begin at 1 after a restart and in the standby that takes over
  (`server.rs:126`): a response to an old request may match a new one.
- Two workers may both forward a copy of one request, as the cache is looked up and
  filled in two critical sections; and a CANCEL sent on the local 100 may be handled
  before `remember_invite_transaction` of its INVITE, and go to another upstream.
- The route of a CANCEL or ACK replaces that of its INVITE (`server.rs:1693`), and a
  response is cached for the route's request: a 487 that arrives then is kept as the final
  response of the CANCEL, and replayed to a retransmitted CANCEL (or ACK).
  `CachedFinalIsOwn` says of follow-ups only that what is kept is of their transaction.
- Over TCP, CANCEL and ACK share the INVITE's branch too and replace its channel: the
  INVITE's waiter loses its answer. An ACK waits for a response that never comes, and
  ends in a 503 and a passive failure of the upstream.
- After a wait that failed, the cache entry of a UDP request stays without a final
  response, and absorbs retransmissions until it expires. The writer's lock is taken
  before the timeout of a write begins. A UDP worker is blocked for up to 300 s.
- A TCP reader gives up on a message it cannot decode or that is too long, and when what
  it has buffered, pipelined messages together, exceeds `max_message_bytes`
  (`server.rs:5520`, `5540`): it clears the channels of every request on the connection,
  whose answers are lost although the upstream sends them. `UnfollowedWaiterHasRoute`
  speaks of connections whose reader is in its loop.
- A request lost between proxy and upstream is not sent again while its entry is
  pending, as a test intends; a call that rings longer than `UDP_BRANCH_TTL` loses its
  final response.

*Health*

- A server that is up gets passive failures from the proxy's own waits (the ACK above, a
  channel that was replaced, `server.rs:1126`), and one that never answers probes in time
  gets passive successes from calls it answers late (`server.rs:1534`): as long as such
  results go on the flag may change for ever. `UpServerRecovers` and `DownServerLeaves`
  have their end as a premise (`NoMore`).
- Overlapping selections share the round-robin counter and may pass a healthy server by.
- The flag may be opposite to the counters until the next result. A duplicate address
  gets passive results at its first index only. A group without checks keeps an address
  healthy.
- A probe over TCP that timed out keeps its connection, and a half-read answer puts the
  next probe's reader out of step with the stream.

*Registration and calls*

- The late answer to an older REGISTER, after the client gave up on it, restores the
  older contact.
- The greatest `expires` of all contacts in a 2xx counts, so a device that takes its
  registration back while another is listed is registered again.
- `SharedState::lookup` removes under the write lock what it found expired under the read
  lock: a registration renewed in between is lost (`cluster/mod.rs:92`).
- A command that `submit` refuses, as a required commit fails (`cluster/mod.rs:144`) or the
  node has become a standby (`ha/mod.rs:196`), only leaves a warning (`server.rs:1101`): the
  2xx is relayed, the contact is not stored (or not removed), and the affinity, rebound
  before it, names a registrar that the stored contact may not be from. `AnsweredIsStored`
  and `ContactAndAffinityAgree` leave such keys out until the next REGISTER.
- The affinity entry is not removed with the contact. `remove_key` counts after it has
  released the lock; nothing emits `RemoveAffinity` at present.
- With several devices of one user, requests within a call go to the user's latest
  binding before the Request-URI is looked at. The ACK of a 2xx to a phone behind a NAT
  is lost. A request that overtakes the remembering of an earlier one, or a change of
  health, may choose another server. The `request-uri` strategy does not keep a call
  together.
- An affinity lives for `affinity.ttl_seconds` (3600 by default) from when it was last
  written; lookups do not renew it (`affinity.rs:80`). The phone's BYE in a longer call
  goes to any server. An INVITE transaction lives for 300 s (`server.rs:5358`); a later
  CANCEL is routed anew.
- A 2xx that lost the second of two Record-Route addresses only gets it back in front of
  the first (`server.rs:5450`): the caller then sends to the proxy at the other side's
  address. `EachSideHasItsRoute` leaves that end out (`halved`).
- A binding whose Contact has a host name is reached over UDP at the address it came
  from; over TCP the request goes to the upstream group instead (`server.rs:1943`).
- A host name as `public_addr` is never known again as an own Route, and a failed STUN
  query leaves its fallback in the cache for good. STUN answers that change leave next
  hops with different addresses, of which the proxy knows only the one cached for the
  sender (`server.rs:2170`). The default probe, 8.8.8.8:53 (`config.rs:931`), gives the
  interface towards the Internet as internal address.

*Security and lists*

- `allow_bucket` reads the clock before it waits for the lock, and `TokenBucket::allow`
  takes it even when it is earlier than the last one: the interval between the two is
  refilled twice. A bucket that 600 s do not refill (a burst of more than 600 times the
  rate) is dropped and starts full: a source gains by pausing. `RateHonoured` takes
  exactly the tokens of these two off what has passed.
- A removal from the kernel that fails leaves the address banned until a later ban ends
  or a restart. Two synchronisations of one ban may arrive in the other order.
- `record_parse_error` bans trusted peers too; listeners on one port share the kernel's
  bans; the kernel looks at trusted addresses before bans, user space after.
- The kernel drops a trusted address that a threat list has, user space does not; and
  without `cidr_filter` the kernel has no trusted prefixes, and drops a trusted address
  by its country (`xdp.rs:435`). `KernelAgrees` leaves both out.
- With partial lists, a country skipped for a line that does not parse leaves the ranges
  before that line in the list (`geo.rs:394`, `geo.rs:548`): `LookupIsTrue` speaks of what
  was read, not of the countries counted as loaded.
- A threat list whose cache file does not decode fails the start, a geo list falls back.
- Pinned maps keep entries of an earlier process; a sync that fails midway leaves a
  mixture, and a list that then goes back to the one synced last is not synced again, as
  its fingerprint is the one remembered (`xdp.rs:1014`). After a deletion that failed
  midway every later sync fails on the key that is already gone (`xdp.rs:1594`). New
  entries go in before old ones go out, so a list near the capacity may fail every sync
  until a restart.
- A configured deny prefix with host bits, and the same prefix on a threat list, share
  an entry of the kernel's trie that the deletion of either takes away
  (`xdp.rs:1588`); `KernelAgrees` and `KernelCovers` leave such prefixes out (`Shared`).

## 7. What is not modelled

- `Configuration`, `Metrics`, the command line and the tools: parsing, counting and I/O
  without protocol state. What validation guarantees appears as assumptions on constants.
- The leader monitor, which only observes the role when active/standby is off.
- SIP text, STUN packets, the geo database's and the feeds' formats: the models take what
  their results mean (which requests share a key, which addresses a source covers).
- TCP framing, disconnects of TCP clients, and requests that a TCP upstream sends.
- Buckets and bans per SIP identity (their verdicts are nondeterministic), the kernel's
  own rate limit, and the loading and attachment of XDP programs.
- Snapshots and upserts of the affinity table as such; in `HaReplication` they are writes
  of one map. Expiry of replicated bindings, the checksum of a snapshot, and a node
  without persistence.
