--------------------------- MODULE SecurityProofs ---------------------------
(***************************************************************************)
(* Proofs about rate limits and bans, for every set of listeners,          *)
(* addresses and tasks, every rate, burst and length of a ban.             *)
(***************************************************************************)
EXTENDS Security, TLAPS

\* What a bucket has let through and what it could still let through are
\* together no more than its burst and the refill until its last update.
Accounted(k) == passed[k] + bucket[k].tokens <= Burst + Rate * bucket[k].updated
BucketsAccounted == \A k \in Key : Accounted(k)

\* No clock that has been read is ahead.
ClocksRead ==
    /\ \A k \in Key : bucket[k].updated <= now
    /\ \A t \in Task : task[t].pc = "bucket" => task[t].time <= now

\* A ban on its way to the kernel has not ended, and the control plane knows it
\* before the kernel does.
InTime(t) ==
    /\ task[t].pc = "control" => task[t].time > now
    /\ task[t].pc = "kernel" => control[task[t].key] > now
SyncsInTime == \A t \in Task : InTime(t)

-----------------------------------------------------------------------------
(* Type correctness *)

USE SecurityAssumption DEF IpOf

\* The outcomes of a packet that has been let through.
LEMMA OutcomeTypes ==
    ASSUME NEW k
    PROVE  /\ \A R : Offense(k, R) \subseteq {"idle", "ban"}
           /\ Handled(k) \subseteq {"idle", "ban", "parseban"}
           /\ \A pc : Banned(pc, k) \subseteq {"idle", "ban"}
<1>1. \A R : Offense(k, R) \subseteq {"idle", "ban"}
  BY DEF Offense
<1>2. Handled(k) \subseteq {"idle", "ban", "parseban"}
  <2> DEFINE R == UNION {SipVerdicts(k, m) : m \in Method}
  <2>1. Handled(k) = {"parseban"} \cup Offense(k, {"parse-error"}) \cup Offense(k, R)
    BY Zenon DEF Handled
  <2> HIDE DEF R
  <2> QED
    BY <1>1, <2>1
<1>3. \A pc : Banned(pc, k) \subseteq {"idle", "ban"}
  BY <1>1 DEF Banned
<1> QED
  BY <1>1, <1>2, <1>3

\* Arithmetic.
LEMMA ProductIsNat ==
    ASSUME NEW a \in Nat, NEW b \in Nat PROVE a * b \in Nat
OBVIOUS

LEMMA ProductDistributes ==
    ASSUME NEW r \in Nat, NEW a \in Nat, NEW b \in Nat PROVE r * (a + b) = r * a + r * b
OBVIOUS

\* A product grows with its factor, by the difference.
LEMMA ProductGrows ==
    ASSUME NEW a \in Nat, NEW b \in Nat, NEW r \in Nat, a <= b
    PROVE  /\ r * b = r * a + (b - a) * r
           /\ r * a <= r * b /\ r * a \in Nat /\ r * b \in Nat
<1>1. r * b = r * a + (b - a) * r
  OBVIOUS
<1>2. b - a \in Nat
  OBVIOUS
<1>3. (b - a) * r \in Nat /\ r * a \in Nat /\ r * b \in Nat
  BY <1>2, ProductIsNat
<1> QED
  BY <1>1, <1>3

\* The idle task is recognised by its step.
LEMMA IdleIsIdle == Idle.pc = "idle"
BY DEF Idle

\* A task that is not idle has a key.
LEMMA TaskTypes ==
    ASSUME TypeOK, NEW t \in Task
    PROVE  /\ task[t].pc # "idle" => task[t] \in Job
           /\ task[t] \in Job => task[t].key \in Key /\ task[t].time \in Nat
                                  /\ task[t].from \in {"ban", "parseban"}
BY IdleIsIdle DEF TypeOK, Job

\* A task that goes on to a step keeps the types of the tasks.
LEMMA GotoStep ==
    ASSUME TypeOK, NEW t \in Task, task[t] \in Job,
           NEW pc \in {"ban", "parseban"}, Goto(t, pc)
    PROVE  /\ task' \in [Task -> {Idle} \cup Job]
           /\ \A u \in Task : u # t => task'[u] = task[u]
           /\ task'[t].pc = pc
<1> DEFINE j == [task[t] EXCEPT !.pc = pc, !.from = "ban", !.time = 0]
<1>1. j \in Job /\ j.pc = pc
  BY DEF Job
<1>2. task \in [Task -> {Idle} \cup Job]
  BY DEF TypeOK
<1>3. task' = [task EXCEPT ![t] = j]
  BY DEF Goto
<1> HIDE DEF j
<1> QED
  BY <1>1, <1>2, <1>3

\* So does a task that ends.
LEMMA DoneStep ==
    ASSUME TypeOK, NEW t \in Task, Done(t)
    PROVE  /\ task' \in [Task -> {Idle} \cup Job]
           /\ \A u \in Task : u # t => task'[u] = task[u]
           /\ task'[t].pc = "idle"
<1>1. task \in [Task -> {Idle} \cup Job]
  BY DEF TypeOK
<1> QED
  BY <1>1, IdleIsIdle DEF Done

\* So does one that goes on to one of several steps.
LEMMA OutcomeStep ==
    ASSUME TypeOK, NEW t \in Task, task[t] \in Job,
           NEW pcs, pcs \subseteq {"idle", "ban", "parseban"}, Outcome(t, pcs)
    PROVE  /\ task' \in [Task -> {Idle} \cup Job]
           /\ \A u \in Task : u # t => task'[u] = task[u]
           /\ task'[t].pc \in {"idle", "ban", "parseban"}
<1>1. PICK pc \in pcs : Then(t, pc)
  BY DEF Outcome
<1>2. CASE pc = "idle"
  BY <1>1, <1>2, DoneStep DEF Then
<1>3. CASE pc # "idle"
  BY <1>1, <1>3, GotoStep DEF Then
<1> QED
  BY <1>2, <1>3

\* What a step of task t does to the tasks: it leaves the others alone, and the
\* task itself does not enter the synchronisation with the kernel, and waits for a
\* bucket with the present clock.
TaskMoves(t) ==
    /\ task' \in [Task -> {Idle} \cup Job]
    /\ \A u \in Task : u # t => task'[u] = task[u]
    /\ task'[t].pc \notin {"control", "kernel"}
    /\ task'[t].pc = "bucket" => task'[t].time = now

\* The look at the bans, the bucket, and the end of a synchronisation, move the
\* task on like this.
LEMMA CheckBlockedMoves ==
    ASSUME TypeOK, NEW t \in Task, CheckBlocked(t)
    PROVE  task[t].key \in Key /\ TaskMoves(t)
<1>1. task[t] \in Job /\ task[t].key \in Key
  BY TaskTypes DEF CheckBlocked
<1> DEFINE j == [task[t] EXCEPT !.pc = "bucket", !.time = now]
<1>2. Done(t) \/ Outcome(t, Handled(task[t].key)) \/ task' = [task EXCEPT ![t] = j]
  BY DEF CheckBlocked
<1>3. j \in Job /\ j.pc = "bucket" /\ j.time = now
  BY <1>1 DEF Job, TypeOK
<1>4. task \in [Task -> {Idle} \cup Job]
  BY DEF TypeOK
<1> HIDE DEF j
<1> QED
  BY <1>1, <1>2, <1>3, <1>4, DoneStep, OutcomeStep, OutcomeTypes DEF TaskMoves

LEMMA AllowPacketMoves ==
    ASSUME TypeOK, NEW t \in Task, AllowPacket(t)
    PROVE  task[t].key \in Key /\ TaskMoves(t)
<1>1. task[t] \in Job /\ task[t].key \in Key
  BY TaskTypes DEF AllowPacket
<1> DEFINE pcs == Offense(task[t].key, Prefilter(task[t].key)) \cup Handled(task[t].key)
<1>2. Outcome(t, {"idle", "ban"}) \/ Outcome(t, pcs)
  BY DEF AllowPacket
<1>3. pcs \subseteq {"idle", "ban", "parseban"}
  BY OutcomeTypes
<1> HIDE DEF pcs
<1> QED
  BY <1>1, <1>2, <1>3, OutcomeStep DEF TaskMoves

LEMMA SyncEnds ==
    ASSUME TypeOK, NEW t \in Task, SyncKernel(t) \/ SyncKernelFails(t)
    PROVE  task[t].key \in Key /\ TaskMoves(t)
<1>1. task[t] \in Job /\ task[t].key \in Key
  BY TaskTypes DEF SyncKernel, SyncKernelFails
<1>2. Outcome(t, Banned(task[t].from, task[t].key))
  BY DEF SyncKernel, SyncKernelFails
<1>3. Banned(task[t].from, task[t].key) \subseteq {"idle", "ban", "parseban"}
  BY OutcomeTypes
<1> QED
  BY <1>1, <1>2, <1>3, OutcomeStep DEF TaskMoves

\* A job that is to bring a ban to the kernel.
Sync(j, until) == [pc |-> "control", key |-> j.key, from |-> j.pc, time |-> until]

\* A ban moves its task to the synchronisation, with an end that is still to come,
\* or on as usual.
LEMMA BanMoves ==
    ASSUME TypeOK, NEW t \in Task, Ban(t)
    PROVE  /\ task[t].key \in Key
           /\ task' \in [Task -> {Idle} \cup Job]
           /\ \A u \in Task : u # t => task'[u] = task[u]
           /\ task'[t].pc \notin {"kernel", "bucket"}
           /\ task'[t].pc = "control" => task'[t].time > now
<1>1. task[t] \in Job /\ task[t].key \in Key
  BY TaskTypes DEF Ban
<1>2. PICK d \in BanTicks :
        IF blocks[task[t].key] > now /\ blocks[task[t].key] >= now + d
        THEN Outcome(t, Banned(task[t].pc, task[t].key))
        ELSE task' = [task EXCEPT ![t] = Sync(task[t], now + d)]
  BY DEF Ban, Sync
<1>3. CASE Outcome(t, Banned(task[t].pc, task[t].key))
  <2>1. Banned(task[t].pc, task[t].key) \subseteq {"idle", "ban", "parseban"}
    BY OutcomeTypes
  <2> QED
    BY <1>1, <1>3, <2>1, OutcomeStep
<1>4. CASE task' = [task EXCEPT ![t] = Sync(task[t], now + d)]
  <2> DEFINE j == Sync(task[t], now + d)
  <2>0. d \in Nat /\ d > 0 /\ now \in Nat
    BY DEF TypeOK
  <2>1. task[t].pc \in {"ban", "parseban"}
    BY DEF Ban
  <2>2. j \in Job /\ j.pc = "control" /\ j.time = now + d
    BY <1>1, <2>0, <2>1 DEF Job, Sync
  <2>3. task \in [Task -> {Idle} \cup Job]
    BY DEF TypeOK
  <2>4. task' = [task EXCEPT ![t] = j]
    BY <1>4
  <2> HIDE DEF j
  <2> QED
    BY <1>1, <2>0, <2>2, <2>3, <2>4
<1> QED
  BY <1>2, <1>3, <1>4

\* The control plane is told of a ban before the kernel.
LEMMA SyncControlMoves ==
    ASSUME TypeOK, NEW t \in Task, SyncControl(t)
    PROVE  /\ task[t] \in Job
           /\ task' \in [Task -> {Idle} \cup Job]
           /\ \A u \in Task : u # t => task'[u] = task[u]
           /\ task'[t].pc = "kernel" /\ task'[t].key = task[t].key
<1>1. task[t] \in Job
  BY TaskTypes DEF SyncControl
<1> DEFINE j == [task[t] EXCEPT !.pc = "kernel"]
<1>2. j \in Job /\ j.pc = "kernel" /\ j.key = task[t].key
  BY <1>1 DEF Job
<1>3. task \in [Task -> {Idle} \cup Job]
  BY DEF TypeOK
<1>4. task' = [task EXCEPT ![t] = j]
  BY <1>3 DEF SyncControl
<1> HIDE DEF j
<1> QED
  BY <1>1, <1>2, <1>3, <1>4

\* A packet that arrives gives its task a key and a first step.
LEMMA ArriveMoves ==
    ASSUME TypeOK, NEW t \in Task, NEW k \in Key, Arrive(t, k)
    PROVE  TaskMoves(t)
<1>1. PICK pc \in IF IsUpstream(k) THEN Handled(k) \ {"idle"} ELSE {"blocked"} :
         task' = [task EXCEPT ![t] = [pc |-> pc, key |-> k, from |-> "ban", time |-> 0]]
  BY DEF Arrive
<1>2. pc \in {"ban", "parseban", "blocked"}
  BY OutcomeTypes
<1> DEFINE j == [pc |-> pc, key |-> k, from |-> "ban", time |-> 0]
<1>3. task' = [task EXCEPT ![t] = j]
  BY <1>1
<1>4. j \in Job /\ j.pc = pc
  BY <1>2 DEF Job
<1>5. task \in [Task -> {Idle} \cup Job]
  BY DEF TypeOK
<1> HIDE DEF j
<1> QED
  BY <1>2, <1>3, <1>4, <1>5 DEF TaskMoves

Bucket == [tokens : 0..Burst, updated : Nat]

\* A bucket's tokens are what is left and the refill, and never more than the burst.
LEMMA TokensBound ==
    ASSUME NEW b \in Bucket, NEW at \in Nat
    PROVE  /\ Tokens(b, at) \in 0..Burst /\ SetBack(b, at) \in Nat
           /\ b.updated <= at => /\ Tokens(b, at) <= b.tokens + (at - b.updated) * Rate
                                 /\ SetBack(b, at) = 0
           /\ at < b.updated => /\ Tokens(b, at) = b.tokens
                                /\ SetBack(b, at) = (b.updated - at) * Rate
<1>1. b.tokens \in 0..Burst /\ b.updated \in Nat /\ Rate \in Nat /\ Burst \in Nat
  BY DEF Bucket
<1>2. CASE b.updated <= at
  <2>1. (at - b.updated) * Rate \in Nat
    <3>1. at - b.updated \in Nat
      BY <1>1, <1>2
    <3> QED
      BY <1>1, <3>1, ProductIsNat
  <2>2. Elapsed(b, at) = at - b.updated
    BY <1>1, <1>2 DEF Elapsed
  <2> QED
    BY <1>1, <1>2, <2>1, <2>2 DEF Tokens, Least, SetBack
<1>3. CASE at < b.updated
  <2>1. (b.updated - at) * Rate \in Nat
    <3>1. b.updated - at \in Nat
      BY <1>1, <1>3
    <3> QED
      BY <1>1, <3>1, ProductIsNat
  <2>2. Elapsed(b, at) = 0 /\ 0 * Rate = 0
    BY <1>1, <1>3 DEF Elapsed
  <2> QED
    BY <1>1, <1>3, <2>1, <2>2 DEF Tokens, Least, SetBack
<1> QED
  BY <1>1, <1>2, <1>3

\* What a packet whose task has read the clock at does to its bucket.
BucketTaken(k, at) ==
    \E n \in 0..Burst :
        /\ n = Tokens(bucket[k], at)
        /\ \/ /\ n >= 1 /\ passed' = [passed EXCEPT ![k] = @ + 1 - SetBack(bucket[k], at)]
              /\ bucket' = [bucket EXCEPT ![k] = [tokens |-> n - 1, updated |-> at]]
           \/ /\ n = 0 /\ passed' = [passed EXCEPT ![k] = @ - SetBack(bucket[k], at)]
              /\ bucket' = [bucket EXCEPT ![k] = [tokens |-> 0, updated |-> at]]

\* A packet that is looked at takes from its bucket.
LEMMA AllowPacketBucket ==
    ASSUME TypeOK, NEW t \in Task, AllowPacket(t)
    PROVE  BucketTaken(task[t].key, task[t].time) /\ task[t].time \in Nat
<1>1. task[t].key \in Key /\ task[t].time \in Nat
  BY TaskTypes DEF AllowPacket
<1>2. bucket[task[t].key] \in Bucket
  BY <1>1 DEF TypeOK, Bucket
<1> DEFINE n == Tokens(bucket[task[t].key], task[t].time)
<1>3. n \in 0..Burst
  BY <1>1, <1>2, TokensBound
<1>4. Burst \in Nat
  OBVIOUS
<1>5. n >= 1 \/ n = 0
  BY <1>3, <1>4
<1>6. CASE n >= 1
  BY <1>1, <1>3, <1>6 DEF AllowPacket, BucketTaken
<1>7. CASE n = 0
  BY <1>1, <1>3, <1>7 DEF AllowPacket, BucketTaken
<1> QED
  BY <1>1, <1>5, <1>6, <1>7

\* What a dropped bucket is forgiven makes up for what it lacked.
LEMMA ForgivenBound ==
    ASSUME TypeOK, NEW k \in IdleBuckets
    PROVE  /\ k \in Key /\ now \in Nat /\ bucket[k] \in Bucket /\ bucket[k].updated <= now
           /\ Forgiven(bucket[k]) \in Nat
           /\ bucket[k].tokens + (now - bucket[k].updated) * Rate + Forgiven(bucket[k]) >= Burst
<1>1. k \in Key /\ bucket[k] \in Bucket /\ now \in Nat
  BY DEF IdleBuckets, TypeOK, Bucket
<1> DEFINE b == bucket[k]
<1>2. b.tokens \in Nat /\ b.updated \in Nat /\ b.updated <= now /\ Burst \in Nat /\ Rate \in Nat
  BY <1>1 DEF Bucket, IdleBuckets
<1>3. now - b.updated \in Nat
  BY <1>1, <1>2
<1>4. (now - b.updated) * Rate \in Nat
  BY <1>2, <1>3, ProductIsNat
<1> HIDE DEF b
<1>5. /\ Forgiven(b) \in Nat
      /\ b.tokens + (now - b.updated) * Rate + Forgiven(b) >= Burst
  BY <1>2, <1>4 DEF Forgiven
<1> QED
  BY <1>1, <1>2, <1>5 DEF b

\* Every step keeps the types.
LEMMA TypeStep == TypeOK /\ [Next]_vars => TypeOK'
<1> SUFFICES ASSUME TypeOK, [Next]_vars PROVE TypeOK'
  OBVIOUS
<1>0. CASE UNCHANGED vars
  BY <1>0 DEF TypeOK, vars, tables, xdp
<1>1. ASSUME NEW t \in Task, NEW k \in Key, Arrive(t, k) PROVE TypeOK'
  <2>1. task' \in [Task -> {Idle} \cup Job]
    BY <1>1, ArriveMoves DEF TaskMoves
  <2> QED
    BY <1>1, <2>1 DEF Arrive, TypeOK, tables, xdp
<1>2. ASSUME NEW t \in Task, CheckBlocked(t) PROVE TypeOK'
  <2>1. task' \in [Task -> {Idle} \cup Job]
    BY <1>2, CheckBlockedMoves DEF TaskMoves
  <2>2. blocks' \in [Key -> Nat]
    BY <1>2, CheckBlockedMoves DEF CheckBlocked, TypeOK
  <2> QED
    BY <1>2, <2>1, <2>2 DEF CheckBlocked, TypeOK, xdp
<1>3. ASSUME NEW t \in Task, AllowPacket(t) PROVE TypeOK'
  <2>1. task' \in [Task -> {Idle} \cup Job] /\ task[t].key \in Key
    BY <1>3, AllowPacketMoves DEF TaskMoves
  <2> DEFINE k == task[t].key
             at == task[t].time
  <2>2. BucketTaken(k, at) /\ at \in Nat
    BY <1>3, AllowPacketBucket
  <2>3. SetBack(bucket[k], at) \in Nat
    BY <2>1, <2>2, TokensBound DEF TypeOK, Bucket
  <2> HIDE DEF k, at
  <2>4. PICK n \in 0..Burst : bucket' = [bucket EXCEPT ![k] = [tokens |-> n, updated |-> at]]
    <3>1. PICK n \in 0..Burst :
            \/ n >= 1 /\ bucket' = [bucket EXCEPT ![k] = [tokens |-> n - 1, updated |-> at]]
            \/ bucket' = [bucket EXCEPT ![k] = [tokens |-> 0, updated |-> at]]
      BY <2>2 DEF BucketTaken
    <3>2. n \in Nat /\ Burst \in Nat /\ 0 \in 0..Burst /\ (n >= 1 => n - 1 \in 0..Burst)
      OBVIOUS
    <3> QED
      BY <3>1, <3>2
  <2>5. bucket' \in [Key -> [tokens : 0..Burst, updated : Nat]]
    BY <2>2, <2>4 DEF TypeOK
  <2>6. passed' \in [Key -> Int]
    <3>1. \/ passed' = [passed EXCEPT ![k] = @ + 1 - SetBack(bucket[k], at)]
          \/ passed' = [passed EXCEPT ![k] = @ - SetBack(bucket[k], at)]
      BY <2>2 DEF BucketTaken
    <3> QED
      BY <2>3, <3>1 DEF TypeOK
  <2> QED
    BY <1>3, <2>1, <2>5, <2>6 DEF AllowPacket, TypeOK, xdp
<1>4. ASSUME NEW t \in Task, Ban(t) PROVE TypeOK'
  <2>1. task' \in [Task -> {Idle} \cup Job] /\ task[t].key \in Key
    BY <1>4, BanMoves
  <2>2. blocks' \in [Key -> Nat]
    BY <1>4, <2>1 DEF Ban, BlockedUntil, TypeOK
  <2>3. bans' \in 0..MaxBans
    BY <1>4 DEF Ban, TypeOK
  <2> QED
    BY <1>4, <2>1, <2>2, <2>3 DEF Ban, TypeOK, xdp
<1>5. ASSUME NEW t \in Task, SyncControl(t) PROVE TypeOK'
  <2>1. task' \in [Task -> {Idle} \cup Job] /\ task[t] \in Job
    BY <1>5, SyncControlMoves
  <2>2. task[t].time \in Nat
    BY <2>1, TaskTypes
  <2>3. control' \in [Key -> Nat]
    BY <1>5, <2>2 DEF SyncControl, TypeOK
  <2> QED
    BY <1>5, <2>1, <2>3 DEF SyncControl, TypeOK, tables
<1>6. ASSUME NEW t \in Task, SyncKernel(t) PROVE TypeOK'
  <2>1. task' \in [Task -> {Idle} \cup Job] /\ task[t].key \in Key
    BY <1>6, SyncEnds DEF TaskMoves
  <2>2. IpOf(task[t].key) \in Ip
    BY <2>1 DEF Key
  <2> QED
    BY <1>6, <2>1, <2>2 DEF SyncKernel, TypeOK, tables
<1>7. ASSUME NEW t \in Task, SyncKernelFails(t) PROVE TypeOK'
  <2>1. task' \in [Task -> {Idle} \cup Job]
    BY <1>7, SyncEnds DEF TaskMoves
  <2> QED
    BY <1>7, <2>1 DEF SyncKernelFails, TypeOK, tables, xdp
<1>8. CASE PruneTables
  <2>1. blocks' \in [Key -> Nat]
    BY <1>8 DEF PruneTables, TypeOK
  <2>2. bucket' \in [Key -> [tokens : 0..Burst, updated : Nat]]
    BY <1>8 DEF PruneTables, NewBucket, TypeOK
  <2>3. \A k \in Key : k \in IdleBuckets => Forgiven(bucket[k]) \in Nat
    BY ForgivenBound
  <2>4. passed' \in [Key -> Int]
    BY <1>8, <2>3 DEF PruneTables, TypeOK
  <2> QED
    BY <1>8, <2>1, <2>2, <2>4 DEF PruneTables, TypeOK, xdp
<1>9. CASE PruneControl
  BY <1>9 DEF PruneControl, Expired, TypeOK, tables
<1>10. ASSUME NEW k \in Key, RemoveFromKernel(k) PROVE TypeOK'
  BY <1>10 DEF RemoveFromKernel, TypeOK, tables
<1>11. ASSUME NEW k \in Key, RemoveFails(k) PROVE TypeOK'
  BY <1>11 DEF RemoveFails, TypeOK, tables
<1>12. CASE Restart
  BY <1>12 DEF Restart, Attach, NewBucket, TypeOK
<1>13. CASE Tick
  <2>1. now' \in Nat
    BY <1>13 DEF Tick, TypeOK
  <2> QED
    BY <1>13, <2>1 DEF Tick, TypeOK, tables, xdp
<1> QED
  BY <1>0, <1>1, <1>2, <1>3, <1>4, <1>5, <1>6, <1>7, <1>8, <1>9, <1>10, <1>11, <1>12, <1>13
     DEF Next, TaskStep, PruneXdp

\* The initial state is well typed.
LEMMA TypeInit == Init => TypeOK
BY DEF Init, NewBucket, TypeOK

\* Every reachable state of the security runtime is well typed: a bucket never
\* holds more than its burst, and the bounds hold.
THEOREM TypeCorrect == Spec => []TypeOK
BY TypeInit, TypeStep, PTL DEF Spec

-----------------------------------------------------------------------------
(* The rate limit *)

\* Every step keeps the clocks that have been read in the past.
LEMMA ClocksStep ==
    ASSUME TypeOK, ClocksRead, [Next]_vars
    PROVE  ClocksRead'
<1>a. now \in Nat /\ task \in [Task -> {Idle} \cup Job]
      /\ bucket \in [Key -> [tokens : 0..Burst, updated : Nat]]
  BY DEF TypeOK
<1>0. ASSUME NEW t \in Task, bucket' = bucket, now' = now,
             \A u \in Task : u # t => task'[u] = task[u],
             task'[t].pc = "bucket" => task'[t].time = now
      PROVE  ClocksRead'
  BY <1>a, <1>0 DEF ClocksRead
<1>1. CASE \E t \in Task, k \in Key : Arrive(t, k)
  BY <1>0, <1>1, ArriveMoves DEF Arrive, tables, TaskMoves
<1>2. CASE \E t \in Task : CheckBlocked(t)
  BY <1>0, <1>2, CheckBlockedMoves DEF CheckBlocked, TaskMoves
<1>3. CASE \E t \in Task : Ban(t)
  BY <1>0, <1>3, BanMoves DEF Ban
<1>4. CASE \E t \in Task : SyncControl(t)
  BY <1>0, <1>4, SyncControlMoves DEF SyncControl, tables
<1>5. CASE \E t \in Task : SyncKernel(t) \/ SyncKernelFails(t)
  BY <1>0, <1>5, SyncEnds DEF SyncKernel, SyncKernelFails, tables, TaskMoves
<1>6. ASSUME NEW t \in Task, AllowPacket(t) PROVE ClocksRead'
  <2>1. task[t].time <= now /\ task[t].time \in Nat /\ task[t].key \in Key
    BY <1>6, AllowPacketBucket, AllowPacketMoves DEF AllowPacket, ClocksRead
  <2>2. \A k \in Key : bucket'[k].updated <= now
    <3>1. PICK n : bucket' = [bucket EXCEPT ![task[t].key] = [tokens |-> n, updated |-> task[t].time]]
      BY <1>6, AllowPacketBucket DEF BucketTaken
    <3> QED
      BY <1>a, <2>1, <3>1 DEF ClocksRead
  <2>3. now' = now /\ \A u \in Task : u # t => task'[u] = task[u]
    BY <1>6, AllowPacketMoves DEF AllowPacket, TaskMoves
  <2>4. task'[t].pc = "bucket" => task'[t].time <= now
    BY <1>6, <1>a, AllowPacketMoves DEF TaskMoves
  <2> QED
    BY <2>2, <2>3, <2>4 DEF ClocksRead
<1>7. CASE PruneTables
  BY <1>7, <1>a DEF PruneTables, NewBucket, ClocksRead
<1>8. CASE Restart
  BY <1>8, <1>a, IdleIsIdle DEF Restart, NewBucket, ClocksRead
<1>9. CASE Tick
  <2>1. now' = now + 1 /\ bucket' = bucket /\ task' = task
    BY <1>9 DEF Tick, tables
  <2>2. \A t \in Task : task[t].pc = "bucket" => task[t].time \in Nat
    BY TaskTypes
  <2>3. \A k \in Key : bucket[k].updated \in Nat
    BY <1>a
  <2> QED
    BY <1>a, <2>1, <2>2, <2>3 DEF ClocksRead
<1>10. CASE \/ UNCHANGED vars \/ PruneControl
            \/ \E k \in Key : RemoveFromKernel(k) \/ RemoveFails(k)
  BY <1>10 DEF ClocksRead, PruneControl, RemoveFromKernel, RemoveFails, vars, tables
<1> QED
  BY <1>1, <1>2, <1>3, <1>4, <1>5, <1>6, <1>7, <1>8, <1>9, <1>10 DEF Next, TaskStep, PruneXdp

\* What the types say of one bucket.
LEMMA BucketTypes ==
    ASSUME TypeOK, NEW k \in Key
    PROVE  /\ now \in Nat /\ passed[k] \in Int /\ bucket[k] \in Bucket
           /\ bucket[k].tokens \in Nat /\ bucket[k].updated \in Nat
BY DEF TypeOK, Bucket

\* What has passed and what the bucket would give at some clock are paid for, a
\* clock that is set back being taken off.
LEMMA TokensAccounted ==
    ASSUME TypeOK, NEW k \in Key, Accounted(k), NEW at \in Nat
    PROVE  passed[k] - SetBack(bucket[k], at) + Tokens(bucket[k], at) <= Burst + Rate * at
<1>0. Burst \in Nat /\ Rate \in Nat
  OBVIOUS
<1> DEFINE u == bucket[k].updated
           s == bucket[k].tokens
           n == Tokens(bucket[k], at)
           back == SetBack(bucket[k], at)
<1>1. u \in Nat /\ s \in Nat /\ passed[k] \in Int
  BY BucketTypes
<1>2. passed[k] + s <= Burst + Rate * u
  BY DEF Accounted
<1>3. /\ n \in 0..Burst /\ back \in Nat
      /\ u <= at => n <= s + (at - u) * Rate /\ back = 0
      /\ at < u => n = s /\ back = (u - at) * Rate
  BY BucketTypes, TokensBound
<1> HIDE DEF u, s, n, back
<1>4. Rate * u \in Nat /\ Rate * at \in Nat
  BY <1>0, <1>1, ProductIsNat
<1>5. CASE u <= at
  <2>1. Rate * at = Rate * u + (at - u) * Rate
    BY <1>0, <1>1, <1>5, ProductGrows
  <2>2. (at - u) * Rate \in Int
    BY <1>0, <1>1
  <2> QED
    BY <1>0, <1>1, <1>2, <1>3, <1>4, <1>5, <2>1, <2>2 DEF n, back
<1>6. CASE at < u
  <2>1. Rate * u = Rate * at + (u - at) * Rate
    BY <1>0, <1>1, <1>6, ProductGrows
  <2>2. (u - at) * Rate \in Int
    BY <1>0, <1>1
  <2> QED
    BY <1>0, <1>1, <1>2, <1>3, <1>4, <1>6, <2>1, <2>2 DEF n, back
<1> QED
  BY <1>1, <1>5, <1>6

\* Every step keeps the accounts.
LEMMA AccountStep ==
    ASSUME TypeOK, BucketsAccounted, [Next]_vars
    PROVE  BucketsAccounted'
<1> SUFFICES ASSUME NEW k \in Key PROVE Accounted(k)'
  BY DEF BucketsAccounted
<1>a. Accounted(k)
  BY DEF BucketsAccounted
<1>b. Burst \in Nat /\ Rate \in Nat
  OBVIOUS
<1>c. now \in Nat /\ passed[k] \in Int
  BY BucketTypes
<1>0. CASE UNCHANGED <<bucket, passed>>
  BY <1>a, <1>0 DEF Accounted
<1>1. ASSUME NEW t \in Task, AllowPacket(t) PROVE Accounted(k)'
  <2> DEFINE at == task[t].time
  <2>1. task[t].key \in Key /\ BucketTaken(task[t].key, at) /\ at \in Nat
    BY <1>1, AllowPacketMoves, AllowPacketBucket
  <2> HIDE DEF at
  <2>2. CASE k # task[t].key
    <3>1. bucket'[k] = bucket[k] /\ passed'[k] = passed[k]
      BY <2>1, <2>2 DEF BucketTaken, TypeOK
    <3> QED
      BY <1>a, <3>1 DEF Accounted
  <2>3. CASE k = task[t].key
    <3> DEFINE back == SetBack(bucket[k], at)
    <3>1. PICK n \in 0..Burst :
            /\ n = Tokens(bucket[k], at)
            /\ \/ n >= 1 /\ passed'[k] = passed[k] + 1 - back /\ bucket'[k] = [tokens |-> n - 1, updated |-> at]
               \/ n = 0 /\ passed'[k] = passed[k] - back /\ bucket'[k] = [tokens |-> 0, updated |-> at]
      BY <2>1, <2>3 DEF BucketTaken, TypeOK
    <3>2. passed[k] - back + n <= Burst + Rate * at
      BY <1>a, <2>1, <3>1, TokensAccounted
    <3>3. back \in Nat
      BY <2>1, BucketTypes, TokensBound
    <3>4. Rate * at \in Nat /\ n \in Nat
      BY <1>b, <2>1, ProductIsNat
    <3> HIDE DEF back
    <3>5. bucket'[k].updated = at /\ passed'[k] + bucket'[k].tokens <= Burst + Rate * at
      BY <1>b, <1>c, <3>1, <3>2, <3>3, <3>4
    <3> QED
      BY <3>5 DEF Accounted
  <2> QED
    BY <2>2, <2>3
<1>2. CASE PruneTables
  <2>1. CASE k \notin IdleBuckets
    BY <1>2, <1>a, <2>1 DEF PruneTables, Accounted
  <2>2. CASE k \in IdleBuckets
    <3> DEFINE u == bucket[k].updated
               s == bucket[k].tokens
               f == Forgiven(bucket[k])
    <3>1. /\ bucket'[k].tokens = Burst /\ bucket'[k].updated = now
          /\ passed'[k] = passed[k] - f
      BY <1>2, <2>2 DEF PruneTables, NewBucket
    <3>2. /\ u \in Nat /\ s \in Nat /\ u <= now /\ f \in Nat
          /\ s + (now - u) * Rate + f >= Burst
      BY <2>2, ForgivenBound, BucketTypes
    <3>3. passed[k] + s <= Burst + Rate * u
      BY <1>a DEF Accounted
    <3> HIDE DEF u, s, f
    <3>4. Rate * now = Rate * u + (now - u) * Rate /\ Rate * u \in Nat /\ Rate * now \in Nat
      BY <1>b, <1>c, <3>2, ProductGrows
    <3>5. (now - u) * Rate \in Int
      BY <1>b, <1>c, <3>2
    <3>6. passed[k] - f + Burst <= Burst + Rate * now
      BY <1>b, <1>c, <3>2, <3>3, <3>4, <3>5
    <3> QED
      BY <3>1, <3>6 DEF Accounted
  <2> QED
    BY <2>1, <2>2
<1>3. CASE Restart
  <2>1. bucket'[k].tokens = Burst /\ bucket'[k].updated = now /\ passed'[k] = 0
    BY <1>3 DEF Restart, NewBucket
  <2>2. Rate * now \in Nat
    BY <1>b, <1>c, ProductIsNat
  <2> QED
    BY <1>b, <2>1, <2>2 DEF Accounted
<1>4. CASE \/ \E t \in Task, j \in Key : Arrive(t, j)
           \/ \E t \in Task : CheckBlocked(t) \/ Ban(t) \/ SyncControl(t) \/ SyncKernel(t) \/ SyncKernelFails(t)
           \/ PruneControl \/ Tick
           \/ \E j \in Key : RemoveFromKernel(j) \/ RemoveFails(j)
           \/ UNCHANGED vars
  BY <1>0, <1>4 DEF Arrive, CheckBlocked, Ban, SyncControl, SyncKernel, SyncKernelFails, PruneControl, Tick,
                    RemoveFromKernel, RemoveFails, vars, tables
<1> QED
  BY <1>1, <1>2, <1>3, <1>4 DEF Next, TaskStep, PruneXdp

\* The accounts balance at the start.
LEMMA AccountInit == Init => BucketsAccounted /\ ClocksRead
<1> SUFFICES ASSUME Init PROVE BucketsAccounted /\ ClocksRead
  OBVIOUS
<1>1. /\ \A k \in Key : bucket[k].tokens = Burst /\ bucket[k].updated = 0 /\ passed[k] = 0
      /\ now = 0 /\ \A t \in Task : task[t].pc # "bucket"
  BY IdleIsIdle DEF Init, NewBucket
<1>2. Rate * 0 = 0 /\ Burst \in Nat
  OBVIOUS
<1> QED
  BY <1>1, <1>2 DEF BucketsAccounted, Accounted, ClocksRead

\* Balanced accounts honour the rate.
LEMMA AccountsHonourRate == TypeOK /\ BucketsAccounted /\ ClocksRead => RateHonoured
<1> SUFFICES ASSUME TypeOK, BucketsAccounted, ClocksRead, NEW k \in Key PROVE passed[k] <= Burst + Rate * now
  BY DEF RateHonoured
<1> DEFINE u == bucket[k].updated
           s == bucket[k].tokens
<1>1. Burst \in Nat /\ Rate \in Nat /\ now \in Nat /\ passed[k] \in Int /\ u \in Nat /\ s \in Nat
  BY BucketTypes
<1>2. passed[k] + s <= Burst + Rate * u /\ u <= now
  BY DEF BucketsAccounted, Accounted, ClocksRead
<1> HIDE DEF u, s
<1>3. Rate * u <= Rate * now /\ Rate * u \in Nat /\ Rate * now \in Nat
  BY <1>1, <1>2, ProductGrows
<1> QED
  BY <1>1, <1>2, <1>3

\* No source gets more packets past the limit than its burst and the refill since
\* the start and what the code gives beyond them: a bucket dropped before it is
\* full, and a clock that is set back by a task that waited for the lock.
THEOREM RateIsHonoured == Spec => []RateHonoured
<1> DEFINE Inv == TypeOK /\ BucketsAccounted /\ ClocksRead
<1>1. Inv /\ [Next]_vars => Inv'
  BY TypeStep, AccountStep, ClocksStep
<1>2. Init => Inv
  BY TypeInit, AccountInit
<1>3. Inv => RateHonoured
  BY AccountsHonourRate
<1> QED
  BY <1>1, <1>2, <1>3, PTL DEF Spec

-----------------------------------------------------------------------------
(* Bans *)

\* Every step keeps synchronisations in time.
LEMMA InTimeStep ==
    ASSUME TypeOK, SyncsInTime, [Next]_vars
    PROVE  SyncsInTime'
<1> SUFFICES ASSUME NEW u \in Task PROVE InTime(u)'
  BY DEF SyncsInTime
<1>a. InTime(u) /\ (task[u].pc = "kernel" => task[u].key \in Key)
  BY TaskTypes DEF SyncsInTime
<1>b. now \in Nat /\ control \in [Key -> Nat]
  BY DEF TypeOK
<1>0. ASSUME NEW t \in Task, control' = control, now' = now,
             \A v \in Task : v # t => task'[v] = task[v],
             task'[t].pc # "kernel", task'[t].pc = "control" => task'[t].time > now
      PROVE  InTime(u)'
  BY <1>a, <1>0 DEF InTime
<1>1. ASSUME NEW t \in Task, TaskMoves(t), control' = control, now' = now PROVE InTime(u)'
  BY <1>0, <1>1 DEF TaskMoves
<1>2. CASE \E t \in Task, k \in Key : Arrive(t, k)
  BY <1>1, <1>2, ArriveMoves DEF Arrive, xdp
<1>3. CASE \E t \in Task : CheckBlocked(t)
  BY <1>1, <1>3, CheckBlockedMoves DEF CheckBlocked, xdp
<1>4. CASE \E t \in Task : AllowPacket(t)
  BY <1>1, <1>4, AllowPacketMoves DEF AllowPacket, xdp
<1>5. ASSUME NEW t \in Task, Ban(t) PROVE InTime(u)'
  <2>1. control' = control /\ now' = now
    BY <1>5 DEF Ban, xdp
  <2> QED
    BY <1>0, <1>5, <2>1, BanMoves
<1>6. ASSUME NEW t \in Task, SyncControl(t) PROVE InTime(u)'
  <2>1. /\ task[t].key \in Key /\ task[t].time > now /\ now' = now
        /\ control' = [control EXCEPT ![task[t].key] = task[t].time]
    BY <1>6, SyncControlMoves, TaskTypes DEF SyncControl, SyncsInTime, InTime
  <2>2. /\ \A v \in Task : v # t => task'[v] = task[v]
        /\ task'[t].pc = "kernel" /\ task'[t].key = task[t].key
    BY <1>6, SyncControlMoves
  <2>3. \A k \in Key : control[k] > now => control'[k] > now
    BY <1>b, <2>1
  <2>4. control'[task[t].key] > now
    BY <1>b, <2>1
  <2>5. CASE u = t
    BY <2>1, <2>2, <2>4, <2>5 DEF InTime
  <2>6. CASE u # t
    BY <1>a, <2>1, <2>2, <2>3, <2>6 DEF InTime
  <2> QED
    BY <2>5, <2>6
<1>7. CASE \E t \in Task : SyncKernel(t) \/ SyncKernelFails(t)
  BY <1>1, <1>7, SyncEnds DEF SyncKernel, SyncKernelFails, xdp
<1>8. CASE PruneControl
  <2>1. \A k \in Key : control[k] > now => control'[k] = control[k]
    BY <1>8, <1>b DEF PruneControl, Expired
  <2> QED
    BY <1>8, <1>a, <2>1 DEF PruneControl, InTime
<1>9. CASE Restart
  BY <1>9, IdleIsIdle DEF Restart, InTime
<1>10. CASE Tick
  BY <1>10 DEF Tick, InTime
<1>11. CASE \/ UNCHANGED vars \/ PruneTables
            \/ \E k \in Key : RemoveFromKernel(k) \/ RemoveFails(k)
  BY <1>11, <1>a DEF InTime, PruneTables, RemoveFromKernel, RemoveFails, vars, tables, xdp
<1> QED
  BY <1>2, <1>3, <1>4, <1>5, <1>6, <1>7, <1>8, <1>9, <1>10, <1>11 DEF Next, TaskStep, PruneXdp

\* An address in the kernel's map has a keeper, see KernelBlockHasKeeper.
HasKeeper(ip) == \E k \in Key : IpOf(k) = ip /\ (control[k] # 0 \/ k \in todo)

\* Every step leaves every address in the kernel's map a keeper.
LEMMA KeeperStep ==
    ASSUME TypeOK, SyncsInTime, KernelBlockHasKeeper, [Next]_vars
    PROVE  KernelBlockHasKeeper'
<1> SUFFICES ASSUME NEW ip \in kernel' \ stuck' PROVE HasKeeper(ip)'
  BY DEF KernelBlockHasKeeper, HasKeeper
<1>a. ip \in kernel \ stuck => HasKeeper(ip)
  BY DEF KernelBlockHasKeeper, HasKeeper
<1>b. now \in Nat /\ control \in [Key -> Nat]
  BY DEF TypeOK
<1>1. ASSUME NEW t \in Task, SyncControl(t) PROVE HasKeeper(ip)'
  <2>1. task[t].key \in Key /\ task[t].time > now /\ task[t].time \in Nat
    BY <1>1, SyncControlMoves, TaskTypes DEF SyncControl, SyncsInTime, InTime
  <2>2. HasKeeper(ip) /\ todo' = todo /\ control' = [control EXCEPT ![task[t].key] = task[t].time]
    BY <1>1, <1>a DEF SyncControl
  <2>3. \A k \in Key : control[k] # 0 => control'[k] # 0
    BY <1>b, <2>1, <2>2
  <2> QED
    BY <2>2, <2>3 DEF HasKeeper
<1>2. ASSUME NEW t \in Task, SyncKernel(t) PROVE HasKeeper(ip)'
  <2>1. task[t].key \in Key /\ control[task[t].key] # 0
    BY <1>2, <1>b, SyncEnds DEF SyncKernel, SyncsInTime, InTime
  <2>2. control' = control /\ todo' = todo
    BY <1>2 DEF SyncKernel
  <2>3. CASE ip = IpOf(task[t].key)
    BY <2>1, <2>2, <2>3 DEF HasKeeper
  <2>4. CASE ip # IpOf(task[t].key)
    BY <1>2, <1>a, <2>2, <2>4 DEF HasKeeper, SyncKernel
  <2> QED
    BY <2>3, <2>4
<1>3. CASE PruneControl
  <2>1. HasKeeper(ip)
    BY <1>3, <1>a DEF PruneControl
  <2>2. \A k \in Key : control[k] # 0 => control'[k] # 0 \/ k \in todo'
    BY <1>3 DEF PruneControl
  <2>3. todo = {}
    BY <1>3 DEF PruneControl
  <2> QED
    BY <2>1, <2>2, <2>3 DEF HasKeeper
<1>4. ASSUME NEW k \in Key, RemoveFromKernel(k) PROVE HasKeeper(ip)'
  <2>1. ip # IpOf(k) /\ HasKeeper(ip) /\ control' = control /\ todo' = todo \ {k}
    BY <1>4, <1>a DEF RemoveFromKernel
  <2> QED
    BY <2>1 DEF HasKeeper
<1>5. ASSUME NEW k \in Key, RemoveFails(k) PROVE HasKeeper(ip)'
  <2>1. ip # IpOf(k) /\ HasKeeper(ip) /\ control' = control /\ todo' = todo \ {k}
    BY <1>5, <1>a DEF RemoveFails
  <2> QED
    BY <2>1 DEF HasKeeper
<1>6. CASE Restart
  BY <1>6 DEF Restart, Attach
<1>7. CASE UNCHANGED xdp
  BY <1>7, <1>a DEF xdp, HasKeeper
<1>8. CASE \/ \E t \in Task, k \in Key : Arrive(t, k)
           \/ \E t \in Task : CheckBlocked(t) \/ AllowPacket(t) \/ Ban(t) \/ SyncKernelFails(t)
           \/ PruneTables \/ Tick \/ UNCHANGED vars
  BY <1>7, <1>8 DEF Arrive, CheckBlocked, AllowPacket, Ban, SyncKernelFails, PruneTables, Tick, vars
<1> QED
  BY <1>1, <1>2, <1>3, <1>4, <1>5, <1>6, <1>8 DEF Next, TaskStep, PruneXdp

\* Every address in the kernel's blocked_ips has an entry of the control plane that
\* will end its ban, or is about to be removed, but for removals that failed:
\* whatever order tasks, the prune loop and restarts come in.
THEOREM KernelBlocksAreKept == Spec => []KernelBlockHasKeeper
<1>1. Init => SyncsInTime /\ KernelBlockHasKeeper
  BY IdleIsIdle DEF Init, SyncsInTime, InTime, KernelBlockHasKeeper
<1>2. /\ TypeOK /\ SyncsInTime /\ KernelBlockHasKeeper /\ [Next]_vars
      => TypeOK' /\ SyncsInTime' /\ KernelBlockHasKeeper'
  BY TypeStep, InTimeStep, KeeperStep
<1> QED
  BY <1>1, <1>2, TypeInit, PTL DEF Spec

\* A ban in force is neither lifted nor shortened until a restart: not by a later,
\* shorter ban, not by a lookup or the prune loop.
THEOREM BansNeverShrink == Spec => BansOnlyGrow
<1>1. ASSUME TypeOK, [Next]_vars
      PROVE  [Restart \/ \A k \in Key : blocks[k] > now => blocks'[k] >= blocks[k]]_vars
  <2> SUFFICES ASSUME ~Restart, NEW k \in Key, blocks[k] > now PROVE blocks'[k] >= blocks[k]
    OBVIOUS
  <2>a. now \in Nat /\ blocks \in [Key -> Nat]
    BY <1>1 DEF TypeOK
  <2>0. CASE UNCHANGED blocks
    BY <2>0, <2>a
  <2>1. ASSUME NEW t \in Task, CheckBlocked(t) PROVE blocks'[k] >= blocks[k]
    <3>1. \/ blocks' = blocks
          \/ blocks' = [blocks EXCEPT ![task[t].key] = IF @ > now THEN @ ELSE 0]
      BY <2>1 DEF CheckBlocked
    <3> QED
      BY <2>a, <3>1
  <2>2. ASSUME NEW t \in Task, Ban(t) PROVE blocks'[k] >= blocks[k]
    <3>1. task[t].key \in Key
      BY <1>1, <2>2, BanMoves
    <3>2. PICK d \in BanTicks : blocks' = [blocks EXCEPT ![task[t].key] = BlockedUntil(@, now + d)]
      BY <2>2 DEF Ban
    <3>3. d \in Nat
      OBVIOUS
    <3> QED
      BY <2>a, <3>1, <3>2, <3>3 DEF BlockedUntil
  <2>3. CASE PruneTables
    BY <2>3, <2>a DEF PruneTables
  <2>4. CASE \/ \E t \in Task, j \in Key : Arrive(t, j)
             \/ \E t \in Task : AllowPacket(t) \/ SyncControl(t) \/ SyncKernel(t) \/ SyncKernelFails(t)
             \/ PruneControl \/ Tick \/ UNCHANGED vars
             \/ \E j \in Key : RemoveFromKernel(j) \/ RemoveFails(j)
    BY <2>0, <2>4 DEF Arrive, AllowPacket, SyncControl, SyncKernel, SyncKernelFails, PruneControl, Tick,
                      RemoveFromKernel, RemoveFails, vars, tables
  <2> QED
    BY <1>1, <2>1, <2>2, <2>3, <2>4 DEF Next, TaskStep, PruneXdp
<1> QED
  BY <1>1, TypeCorrect, PTL DEF Spec, BansOnlyGrow
=============================================================================
