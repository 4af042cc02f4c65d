--------------------------- MODULE HaReplication ---------------------------
(***************************************************************************)
(* Replication of the location and affinity bindings from the active node  *)
(* to the standby: the active's memory, its SQLite tables and event log    *)
(* with their background writer, and the standby's pull loop with its      *)
(* event batches and its snapshot fallback.                                *)
(*                                                                         *)
(* A binding is the number of the write that made it, 0 when there is      *)
(* none; every write has its own number.  Contacts and affinity live in    *)
(* two maps, read and installed one after the other; a key is in one of    *)
(* them and no property relates two keys, so `mem' joins them.  Expiry is  *)
(* left out: bindings carry the same absolute deadline on both nodes, and  *)
(* a behaviour of the model is one that ends before the deadlines.         *)
(***************************************************************************)
EXTENDS Integers, Sequences, FiniteSets

CONSTANTS
    Contact,            \* AORs: keys written through ClusterReplicator::submit
    Affinity,           \* affinity keys: written to memory first in any mode
    Writer,             \* tasks that may be writing on the active at once
    RequiredModes,      \* the values of persistence.required to consider
    BatchLimit,         \* events asked for in one pull
    MaxWrites,          \* bound: writes accepted by the active
    MaxFaults,          \* bound: requests lost and standby SQLite failures
    MaxActiveFaults,    \* bound: background batches lost to SQLite errors
    MaxActiveRestarts,  \* bound: restarts of the active
    MaxStandbyRestarts, \* bound: restarts of the standby
    MayPromote          \* whether the standby may be promoted

ASSUME ReplicationAssumption ==
    /\ Contact \cap Affinity = {}
    /\ RequiredModes \subseteq BOOLEAN /\ RequiredModes # {} /\ MayPromote \in BOOLEAN
    /\ BatchLimit \in Nat \ {0}
    /\ {MaxWrites, MaxFaults, MaxActiveFaults, MaxActiveRestarts, MaxStandbyRestarts}
         \subseteq Nat

VARIABLES
    required,   \* persistence.required of the active; never changes
    \* the active node
    amem,       \* SharedState.contacts and AffinityTable
    adb,        \* the tables contacts and affinity
    alog,       \* every row ever appended to ha_events; the seq is the index
    purged,     \* how many of them cleanup_expired has deleted
    queue,      \* background writes sent and not yet committed
    writer,     \* each task's half-finished write: <<event>>, or Idle
    history,    \* all writes, numbered by their first effect (no code counterpart)
    restored,   \* restore_persistent_state has run in this life of the process
    \* the standby node
    smem, sdb, applied,  \* memory, tables and meta.last_applied_seq
    srole,      \* "Follower", or "Leader" once promoted
    pull,       \* what the pull loop is doing, see PullPhase
    batch,      \* events fetched and not yet applied
    snap,       \* the snapshot being fetched
    loading,    \* "no", "read", or the tables read by restore_persistent_state
    \* fault counters
    faults, activeFaults, activeRestarts, standbyRestarts

activeVars  == <<required, amem, adb, alog, purged, queue, writer, history, restored>>
pullVars    == <<pull, batch, snap>>
standbyVars == <<smem, sdb, applied, srole, pullVars, loading>>
faultVars   == <<faults, activeFaults, activeRestarts, standbyRestarts>>
vars        == <<activeVars, standbyVars, faultVars>>

Key     == Contact \cup Affinity
WriteId == 1..MaxWrites
Table   == [Key -> 0..MaxWrites]
Empty   == [k \in Key |-> 0]
Event   == [key : Key, val : 0..MaxWrites, id : WriteId]
Idle    == <<>>
Pending == {Idle} \cup {<<e>> : e \in Event}
NoSnap  == [seq |-> 0, mem |-> Empty]
NoLoad  == [step |-> "done", tables |-> Empty]

\* idle: between ticks.  events: the event request is out.  apply: a fetched
\* event is to go to memory.  commit: it is in memory and goes to SQLite.
\* snapshot: the snapshot request is out.  snapSeq: the active has read its
\* last_seq for it.  install, store: it goes to memory, to SQLite.
PullPhase == {"idle", "events", "apply", "commit", "snapshot", "snapSeq", "install", "store"}

TypeOK ==
    /\ required \in RequiredModes
    /\ {amem, adb, smem, sdb} \subseteq Table
    /\ {alog, queue, history, batch} \subseteq Seq(Event)
    /\ purged \in 0..Len(alog)
    /\ writer \in [Writer -> Pending]
    /\ restored \in BOOLEAN
    /\ applied \in Nat
    /\ srole \in {"Follower", "Leader"}
    /\ pull \in PullPhase
    /\ snap \in [seq : Nat, mem : Table]
    /\ loading \in [step : {"read", "install", "done"}, tables : Table]
    /\ faults \in 0..MaxFaults /\ activeFaults \in 0..MaxActiveFaults
    /\ activeRestarts \in 0..MaxActiveRestarts
    /\ standbyRestarts \in 0..MaxStandbyRestarts

Init ==
    /\ required \in RequiredModes
    /\ amem = Empty /\ adb = Empty /\ alog = <<>> /\ purged = 0
    /\ queue = <<>> /\ writer = [w \in Writer |-> Idle] /\ history = <<>>
    /\ restored = TRUE
    /\ smem = Empty /\ sdb = Empty /\ applied = 0 /\ srole = "Follower"
    /\ pull = "idle" /\ batch = <<>> /\ snap = NoSnap /\ loading = NoLoad
    /\ faults = 0 /\ activeFaults = 0 /\ activeRestarts = 0 /\ standbyRestarts = 0

-----------------------------------------------------------------------------
(* Tables and event log *)

Put(table, e) == [table EXCEPT ![e.key] = e.val]

\* The last event on k among the first n of a log, if there is one.
LastOn(log, k, n) == {s \in 1..n : log[s].key = k /\ \A t \in s + 1 .. n : log[t].key # k}

\* Events put one after the other: the last one on a key stays.
PutAll(table, events) ==
    [k \in Key |-> IF LastOn(events, k, Len(events)) = {} THEN table[k]
                   ELSE events[CHOOSE i \in LastOn(events, k, Len(events)) : TRUE].val]

\* max(seq) of ha_events, 0 when it has no row
LatestEventSeq == IF purged = Len(alog) THEN 0 ELSE Len(alog)

\* events_after: what GET /ha/events?after=applied answers
SnapshotRequired == purged < Len(alog) /\ applied < purged
FirstAfter == 1 + IF applied < purged THEN purged ELSE applied
EventsAfter ==
    LET last == FirstAfter + BatchLimit - 1
    IN SubSeq(alog, FirstAfter, IF last < Len(alog) THEN last ELSE Len(alog))

\* apply_ha_events goes by the sequence numbers too: a gap is an error.
InSequence == EventsAfter = <<>> \/ FirstAfter = applied + 1

-----------------------------------------------------------------------------
(* Writes on the active *)

\* Variant: memory first in any mode.
CommitsLater(k) == FALSE

\* A contact is committed before it reaches memory when persistence is required;
\* everything else goes to memory first.
CommitsFirst(k) == required /\ k \in Contact

\* One transaction: append the events, change the tables.
Commit(events) ==
    /\ alog' = alog \o events
    /\ adb' = PutAll(adb, events)

\* The first half of a write: a REGISTER response that adds or removes a contact,
\* or a forwarded request that binds an affinity key (which is never unbound).
\* A commit that fails returns the error to submit: nothing has changed.
BeginWrite(w, k, remove) ==
    LET id == Len(history) + 1
        e  == [key |-> k, val |-> IF remove THEN 0 ELSE id, id |-> id]
    IN /\ restored /\ writer[w] = Idle
       /\ Len(history) < MaxWrites
       /\ remove => k \in Contact
       /\ writer' = [writer EXCEPT ![w] = <<e>>]
       /\ history' = Append(history, e)
       /\ IF CommitsFirst(k)
            THEN Commit(<<e>>) /\ UNCHANGED amem
            ELSE amem' = Put(amem, e) /\ UNCHANGED <<alog, adb>>
       /\ UNCHANGED <<required, purged, queue, restored, standbyVars, faultVars>>

\* The second half: memory after the commit, or the commit after memory, which is
\* left to the background writer unless persistence is required.
EndWrite(w) ==
    /\ writer[w] # Idle
    /\ writer' = [writer EXCEPT ![w] = Idle]
    /\ LET e == Head(writer[w])
       IN \/ /\ CommitsFirst(e.key)
             /\ amem' = Put(amem, e)
             /\ UNCHANGED <<adb, alog, queue>>
          \/ /\ ~CommitsFirst(e.key) /\ required
             /\ Commit(<<e>>)
             /\ UNCHANGED <<amem, queue>>
          \/ /\ ~required
             /\ queue' = Append(queue, e)
             /\ UNCHANGED <<amem, adb, alog>>
    /\ UNCHANGED <<required, purged, history, restored, standbyVars, faultVars>>

\* A required affinity commit that fails is only logged: memory keeps the binding.
AffinityCommitFails(w) ==
    /\ writer[w] # Idle /\ required /\ Head(writer[w]).key \in Affinity
    /\ activeFaults < MaxActiveFaults
    /\ activeFaults' = activeFaults + 1
    /\ writer' = [writer EXCEPT ![w] = Idle]
    /\ UNCHANGED <<required, amem, adb, alog, purged, queue, history, restored, standbyVars,
                   faults, activeRestarts, standbyRestarts>>

\* The background writer commits what it found in the queue in one transaction.
BackgroundWrite ==
    /\ \E n \in 1..Len(queue) :
         /\ Commit(SubSeq(queue, 1, n))
         /\ queue' = SubSeq(queue, n + 1, Len(queue))
    /\ UNCHANGED <<required, amem, purged, writer, history, restored, standbyVars, faultVars>>

\* A failed transaction loses the whole batch; the failure is only counted.
BackgroundWriteFails ==
    /\ activeFaults < MaxActiveFaults
    /\ activeFaults' = activeFaults + 1
    /\ \E n \in 1..Len(queue) : queue' = SubSeq(queue, n + 1, Len(queue))
    /\ UNCHANGED <<required, amem, adb, alog, purged, writer, history, restored, standbyVars,
                   faults, activeRestarts, standbyRestarts>>

\* cleanup_expired deletes the events older than event_retention_seconds: all of
\* them when nothing has been written for that long.
Cleanup ==
    /\ \E n \in purged + 1 .. Len(alog) : purged' = n
    /\ UNCHANGED <<required, amem, adb, alog, queue, writer, history, restored, standbyVars, faultVars>>

\* A crash loses memory, the queue and the writes under way, and the connection
\* of a snapshot half served.  The new process serves /ha/events and /ha/snapshot
\* before it has restored its memory.
ActiveRestart ==
    /\ activeRestarts < MaxActiveRestarts
    /\ activeRestarts' = activeRestarts + 1
    /\ amem' = Empty /\ queue' = <<>> /\ writer' = [w \in Writer |-> Idle]
    /\ restored' = FALSE
    /\ pull' = IF pull = "snapSeq" THEN "idle" ELSE pull
    /\ UNCHANGED <<required, adb, alog, purged, history, smem, sdb, applied, srole, batch, snap,
                   loading, faults, activeFaults, standbyRestarts>>

\* Variant: the restart goes on with an empty memory.
ActiveRestoreEmpty ==
    /\ ~restored
    /\ restored' = TRUE
    /\ UNCHANGED <<required, amem, adb, alog, purged, queue, writer, history, standbyVars, faultVars>>

\* restore_persistent_state; no SIP listener is open before it.
ActiveRestore ==
    /\ ~restored
    /\ restored' = TRUE
    /\ amem' = adb
    /\ UNCHANGED <<required, adb, alog, purged, queue, writer, history, standbyVars, faultVars>>

-----------------------------------------------------------------------------
(* The pull loop of the standby *)

\* A tick of run_snapshot_pull.  The role is looked at here and nowhere later.
PullTick ==
    /\ pull = "idle" /\ srole = "Follower"
    /\ pull' = "events"
    /\ UNCHANGED <<activeVars, smem, sdb, applied, srole, batch, snap, loading, faultVars>>

\* The active answers the event request: a batch to apply, nothing new, or the
\* need for a snapshot.
EventsReply ==
    LET usable == ~SnapshotRequired /\ InSequence IN
    /\ pull = "events"
    /\ batch' = IF usable THEN EventsAfter ELSE <<>>
    /\ pull' = IF ~usable THEN "snapshot" ELSE IF EventsAfter = <<>> THEN "idle" ELSE "apply"
    /\ UNCHANGED <<activeVars, smem, sdb, applied, srole, snap, loading, faultVars>>

\* Variant: an UnregisterContact event leaves the memory alone.
ApplyToMemoryUpsertsOnly ==
    /\ pull = "apply"
    /\ smem' = IF Head(batch).val = 0 THEN smem ELSE Put(smem, Head(batch))
    /\ pull' = "commit"
    /\ UNCHANGED <<activeVars, sdb, applied, srole, batch, snap, loading, faultVars>>

\* apply_ha_event, memory.
ApplyToMemory ==
    /\ pull = "apply"
    /\ smem' = Put(smem, Head(batch))
    /\ pull' = "commit"
    /\ UNCHANGED <<activeVars, sdb, applied, srole, batch, snap, loading, faultVars>>

\* Variant: the checkpoint moves by the whole batch with each of its events.
ApplyToTablesAhead ==
    /\ pull = "commit"
    /\ sdb' = Put(sdb, Head(batch))
    /\ applied' = applied + Len(batch)
    /\ batch' = Tail(batch)
    /\ pull' = IF Tail(batch) = <<>> THEN "idle" ELSE "apply"
    /\ UNCHANGED <<activeVars, smem, srole, snap, loading, faultVars>>

\* apply_ha_event, SQLite: the tables and the checkpoint in one transaction.
ApplyToTables ==
    /\ pull = "commit"
    /\ sdb' = Put(sdb, Head(batch))
    /\ applied' = applied + 1
    /\ batch' = Tail(batch)
    /\ pull' = IF Tail(batch) = <<>> THEN "idle" ELSE "apply"
    /\ UNCHANGED <<activeVars, smem, srole, snap, loading, faultVars>>

\* A lost event request, or a failed event transaction, falls back to a snapshot.
PullFails ==
    /\ pull \in {"events", "commit"}
    /\ faults < MaxFaults
    /\ faults' = faults + 1
    /\ pull' = "snapshot"
    /\ batch' = <<>>
    /\ UNCHANGED <<activeVars, smem, sdb, applied, srole, snap, loading,
                   activeFaults, activeRestarts, standbyRestarts>>

\* snapshot_state on the active: first the sequence number, then the memory.
SnapshotSeq ==
    /\ pull = "snapshot"
    /\ snap' = [seq |-> LatestEventSeq, mem |-> Empty]
    /\ pull' = "snapSeq"
    /\ UNCHANGED <<activeVars, smem, sdb, applied, srole, batch, loading, faultVars>>

\* A sequence number that cannot be read is sent as 0.
SnapshotSeqUnknown ==
    /\ pull = "snapshot"
    /\ faults < MaxFaults
    /\ faults' = faults + 1
    /\ snap' = NoSnap
    /\ pull' = "snapSeq"
    /\ UNCHANGED <<activeVars, smem, sdb, applied, srole, batch, loading,
                   activeFaults, activeRestarts, standbyRestarts>>

SnapshotMemory ==
    /\ pull = "snapSeq"
    /\ snap' = [snap EXCEPT !.mem = amem]
    /\ pull' = "install"
    /\ UNCHANGED <<activeVars, smem, sdb, applied, srole, batch, loading, faultVars>>

\* A snapshot request that is lost is left to the next tick.
SnapshotFails ==
    /\ pull \in {"snapshot", "snapSeq"}
    /\ faults < MaxFaults
    /\ faults' = faults + 1
    /\ pull' = "idle"
    /\ UNCHANGED <<activeVars, smem, sdb, applied, srole, batch, snap, loading,
                   activeFaults, activeRestarts, standbyRestarts>>

\* Variant: the snapshot is merged into the memory, what it lacks is kept.
InstallMemoryMerged ==
    /\ pull = "install"
    /\ smem' = [k \in Key |-> IF snap.mem[k] = 0 THEN smem[k] ELSE snap.mem[k]]
    /\ pull' = "store"
    /\ UNCHANGED <<activeVars, sdb, applied, srole, batch, snap, loading, faultVars>>

\* install_state_snapshot: memory, then the tables and the checkpoint in one
\* transaction, whose failure is only logged.
InstallMemory ==
    /\ pull = "install"
    /\ smem' = snap.mem
    /\ pull' = "store"
    /\ UNCHANGED <<activeVars, sdb, applied, srole, batch, snap, loading, faultVars>>

\* Variant: the checkpoint is the next sequence number, not the last.
InstallTablesNextSeq ==
    /\ pull = "store"
    /\ sdb' = snap.mem
    /\ applied' = snap.seq + 1
    /\ pull' = "idle" /\ snap' = NoSnap
    /\ UNCHANGED <<activeVars, smem, srole, batch, loading, faultVars>>

InstallTables ==
    /\ pull = "store"
    /\ sdb' = snap.mem
    /\ applied' = snap.seq
    /\ pull' = "idle" /\ snap' = NoSnap
    /\ UNCHANGED <<activeVars, smem, srole, batch, loading, faultVars>>

InstallTablesFails ==
    /\ pull = "store"
    /\ faults < MaxFaults
    /\ faults' = faults + 1
    /\ pull' = "idle" /\ snap' = NoSnap
    /\ UNCHANGED <<activeVars, smem, sdb, applied, srole, batch, loading,
                   activeFaults, activeRestarts, standbyRestarts>>

\* The standby's process restarts, as a standby; its pull loop runs beside the
\* restore, which reads the tables and then replaces the memory.
StandbyRestart ==
    /\ standbyRestarts < MaxStandbyRestarts
    /\ standbyRestarts' = standbyRestarts + 1
    /\ smem' = Empty /\ pull' = "idle" /\ batch' = <<>> /\ snap' = NoSnap
    /\ loading' = [step |-> "read", tables |-> Empty]
    /\ srole' = "Follower"
    /\ UNCHANGED <<activeVars, sdb, applied, faults, activeFaults, activeRestarts>>

StandbyLoad ==
    /\ loading.step = "read"
    /\ loading' = [step |-> "install", tables |-> sdb]
    /\ UNCHANGED <<activeVars, smem, sdb, applied, srole, pullVars, faultVars>>

StandbyInstall ==
    /\ loading.step = "install"
    /\ smem' = loading.tables
    /\ loading' = NoLoad
    /\ UNCHANGED <<activeVars, sdb, applied, srole, pullVars, faultVars>>

\* The role monitor promotes the standby, at any moment of the pull loop.
PromoteStandby ==
    /\ MayPromote /\ srole = "Follower"
    /\ srole' = "Leader"
    /\ UNCHANGED <<activeVars, smem, sdb, applied, pullVars, loading, faultVars>>

-----------------------------------------------------------------------------

WriterStep == (\E w \in Writer : EndWrite(w)) \/ BackgroundWrite \/ ActiveRestore
PullStep ==
    \/ PullTick \/ EventsReply \/ ApplyToMemory \/ ApplyToTables
    \/ SnapshotSeq \/ SnapshotMemory \/ InstallMemory \/ InstallTables
LoadStep == StandbyLoad \/ StandbyInstall

Next ==
    \/ \E w \in Writer, k \in Key, remove \in BOOLEAN : BeginWrite(w, k, remove)
    \/ WriterStep \/ PullStep \/ LoadStep
    \/ \E w \in Writer : AffinityCommitFails(w)
    \/ BackgroundWriteFails \/ Cleanup \/ ActiveRestart
    \/ PullFails \/ SnapshotSeqUnknown \/ SnapshotFails \/ InstallTablesFails
    \/ StandbyRestart \/ PromoteStandby

\* Writes that have begun finish, the background writer drains its queue, and the
\* pull loop keeps ticking with each of its requests bounded by a timeout.
Fairness == WF_vars(WriterStep) /\ WF_vars(PullStep) /\ WF_vars(LoadStep)

Spec     == Init /\ [][Next]_vars
FairSpec == Spec /\ Fairness

-----------------------------------------------------------------------------
(* Properties *)

\* A table that has, for every key, the last of the first n events of the log on it,
\* or something written after that one, in time or in the log.
Covers(table, n) ==
    \A k \in Key : \A s \in LastOn(alog, k, n) :
        \/ \E t \in s .. Len(alog) : alog[t].key = k /\ alog[t].val = table[k]
        \/ \E i \in alog[s].id + 1 .. Len(history) :
              history[i].key = k /\ history[i].val = table[k]

\* The standby's checkpoint never runs ahead of the log it points into, through
\* purges, snapshots taken of an empty log, and restarts of either process.
CheckpointBounded == applied <= Len(alog)

\* What the checkpoint says is applied is in the standby's tables: whatever order
\* commits, event batches, snapshots, purges and failures came in, every event up
\* to last_applied_seq is in SQLite or has been overwritten by a later write.
CheckpointHonest == Covers(sdb, applied)

\* So it is while the active stays up, with the default persistence mode.
HonestWhileUp == (~required /\ activeRestarts = 0) => CheckpointHonest

\* The same of the standby's memory, which is what lookups read, until a restart of
\* either node.
MemoryHonest ==
    (~required /\ activeRestarts = 0 /\ standbyRestarts = 0) => Covers(smem, applied)

\* The active's memory is never behind its own log (a snapshot pairs the memory
\* with a position of the log read before it), also after a restart that lost the
\* background queue, and with concurrent writers of one key.  A required contact
\* is the exception by design: it reaches the log first.
MemoryLeadsLog == (restored /\ ~required) => Covers(amem, Len(alog))

\* With persistence.required, a contact that lookups on the active can see has been
\* committed: no crash makes the node forget a registration it has acted on.
RequiredIsDurable ==
    required => \A k \in Contact :
        amem[k] # 0 => \E s \in 1..Len(alog) : alog[s].key = k /\ alog[s].val = amem[k]

\* Once writes stop, the standby ends up with the active's bindings, in memory and
\* in SQLite, and stays there.
CatchesUp == <>[](amem = adb /\ smem = amem /\ sdb = amem)

\* So it is, whatever requests are lost and whatever is purged of the log, as long as
\* its newest row is kept, one task writes at a time, background batches succeed and
\* neither node is restarted or promoted.
Undisturbed ==
    /\ ~required /\ activeFaults = 0
    /\ activeRestarts = 0 /\ standbyRestarts = 0 /\ srole = "Follower"
    /\ Cardinality({w \in Writer : writer[w] # Idle}) <= 1
    /\ alog # <<>> => purged < Len(alog)
Converges == []Undisturbed => CatchesUp
=============================================================================
