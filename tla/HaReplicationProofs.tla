------------------------- MODULE HaReplicationProofs -------------------------
(***************************************************************************)
(* Proofs about the replication, for every set of keys and writers, every  *)
(* batch limit and persistence mode, and any number of writes and faults.  *)
(***************************************************************************)
EXTENDS HaReplication, SequenceTheorems, TLAPS

USE ReplicationAssumption

-----------------------------------------------------------------------------
(* Type correctness *)

\* The bounds one by one.
LEMMA Bounds ==
    /\ MaxWrites \in Nat /\ MaxFaults \in Nat /\ MaxActiveFaults \in Nat
    /\ MaxActiveRestarts \in Nat /\ MaxStandbyRestarts \in Nat
OBVIOUS

\* While events are being applied there is one to apply.
BatchWaits == pull \in {"apply", "commit"} => batch # <<>>
TypeInv == TypeOK /\ BatchWaits

\* What the table operations give.
LEMMA PutType ==
    ASSUME NEW table \in Table, NEW e \in Event
    PROVE  Put(table, e) \in Table
BY DEF Put, Table, Event

\* The same for a whole transaction.
LEMMA PutAllType ==
    ASSUME NEW table \in Table, NEW events \in Seq(Event)
    PROVE  PutAll(table, events) \in Table
<1>1. ASSUME NEW k \in Key, LastOn(events, k, Len(events)) # {}
      PROVE  events[CHOOSE i \in LastOn(events, k, Len(events)) : TRUE].val \in 0..MaxWrites
  <2>. DEFINE i == CHOOSE i \in LastOn(events, k, Len(events)) : TRUE
  <2>1. i \in LastOn(events, k, Len(events))
    BY <1>1
  <2>2. i \in 1..Len(events)
    BY <2>1 DEF LastOn
  <2>3. events[i] \in Event
    BY <2>2
  <2>. QED BY <2>3 DEF Event
<1>. QED BY <1>1 DEF PutAll, Table

\* The values that stand for nothing.
LEMMA NothingTypes ==
    /\ Empty \in Table /\ NoSnap \in [seq : Nat, mem : Table]
    /\ NoLoad \in [step : {"read", "install", "done"}, tables : Table]
    /\ Idle \in Pending
BY DEF Empty, Table, NoSnap, NoLoad, Pending

\* A task that is writing has one event.
LEMMA PendingFacts ==
    ASSUME NEW p \in Pending, p # Idle
    PROVE  Head(p) \in Event /\ p = <<Head(p)>>
<1>1. PICK e \in Event : p = <<e>>
  BY DEF Pending
<1>. QED BY <1>1

\* Parts of a log are logs.
LEMMA SuffixType ==
    ASSUME NEW q \in Seq(Event), NEW n \in 1..Len(q)
    PROVE  /\ SubSeq(q, 1, n) \in Seq(Event) /\ Len(SubSeq(q, 1, n)) = n
           /\ \A i \in 1..n : SubSeq(q, 1, n)[i] = q[i]
           /\ SubSeq(q, n + 1, Len(q)) \in Seq(Event) /\ Len(SubSeq(q, n + 1, Len(q))) = Len(q) - n
           /\ \A i \in 1..Len(q) - n : SubSeq(q, n + 1, Len(q))[i] = q[n + i]
<1>1. n \in Int /\ 1 \in Int /\ n + 1 \in Int /\ Len(q) \in Int
  OBVIOUS
<1>2. (\A i \in 1..n : q[i] \in Event) /\ (\A i \in n + 1..Len(q) : q[i] \in Event)
  OBVIOUS
<1>3. /\ SubSeq(q, 1, n) \in Seq(Event)
      /\ Len(SubSeq(q, 1, n)) = IF 1 <= n THEN n - 1 + 1 ELSE 0
      /\ \A i \in 1..n - 1 + 1 : SubSeq(q, 1, n)[i] = q[1 + i - 1]
  BY ONLY <1>1, <1>2, SubSeqProperties
<1>4. /\ SubSeq(q, n + 1, Len(q)) \in Seq(Event)
      /\ Len(SubSeq(q, n + 1, Len(q))) = IF n + 1 <= Len(q) THEN Len(q) - (n + 1) + 1 ELSE 0
      /\ \A i \in 1..Len(q) - (n + 1) + 1 : SubSeq(q, n + 1, Len(q))[i] = q[n + 1 + i - 1]
  BY ONLY <1>1, <1>2, SubSeqProperties
<1>. DEFINE m == Len(q)
            head == SubSeq(q, 1, n)
            rest == SubSeq(q, n + 1, m)
<1>5. m \in Nat /\ n \in Nat /\ 1 <= n /\ n <= m /\ m = Len(q)
  OBVIOUS
<1>6. /\ Len(head) = IF 1 <= n THEN n - 1 + 1 ELSE 0
      /\ \A i \in 1..n - 1 + 1 : head[i] = q[1 + i - 1]
  BY ONLY <1>3
<1>7. /\ Len(rest) = IF n + 1 <= m THEN m - (n + 1) + 1 ELSE 0
      /\ \A i \in 1..m - (n + 1) + 1 : rest[i] = q[n + 1 + i - 1]
  BY ONLY <1>4
<1>. HIDE DEF m, head, rest
<1>8. Len(head) = n /\ \A i \in 1..n : head[i] = q[i]
  BY ONLY <1>5, <1>6
<1>9. Len(rest) = m - n
  BY ONLY <1>5, <1>7
<1>10. ASSUME NEW i \in 1..m - n PROVE rest[i] = q[n + i]
  <2>1. i \in 1..m - (n + 1) + 1 /\ n + 1 + i - 1 = n + i
    BY ONLY <1>5, i \in 1..m - n
  <2>. QED BY ONLY <1>7, <2>1
<1>. QED BY ONLY <1>3, <1>4, <1>8, <1>9, <1>10 DEF m, head, rest

\* The two halves of a transaction keep the types of log and tables.
LEMMA CommitType ==
    ASSUME NEW events \in Seq(Event), alog \in Seq(Event), adb \in Table, purged \in 0..Len(alog),
           Commit(events)
    PROVE  alog' \in Seq(Event) /\ adb' \in Table /\ purged \in 0..Len(alog')
<1>1. alog' \in Seq(Event) /\ Len(alog') = Len(alog) + Len(events)
  BY DEF Commit
<1>2. adb' \in Table
  BY PutAllType DEF Commit
<1>. QED BY <1>1, <1>2

\* The answer of the active is a part of its log.
LEMMA EventsAfterType ==
    ASSUME alog \in Seq(Event), purged \in 0..Len(alog), applied \in Nat
    PROVE  EventsAfter \in Seq(Event)
<1>1. FirstAfter \in Nat /\ FirstAfter >= 1
  BY DEF FirstAfter
<1>. DEFINE last == FirstAfter + BatchLimit - 1
            n == IF last < Len(alog) THEN last ELSE Len(alog)
<1>2. n \in 0..Len(alog)
  BY <1>1
<1>3. SubSeq(alog, FirstAfter, n) \in Seq(Event)
  BY <1>1, <1>2, SubSeqProperties
<1>. QED BY <1>3 DEF EventsAfter

\* Every step keeps the types.
LEMMA TypeStep ==
    ASSUME TypeInv, [Next]_vars
    PROVE  TypeInv'
<1>0. /\ required \in RequiredModes /\ restored \in BOOLEAN
      /\ amem \in Table /\ adb \in Table /\ smem \in Table /\ sdb \in Table
      /\ alog \in Seq(Event) /\ queue \in Seq(Event) /\ history \in Seq(Event) /\ batch \in Seq(Event)
      /\ purged \in 0..Len(alog) /\ writer \in [Writer -> Pending]
      /\ applied \in Nat /\ srole \in {"Follower", "Leader"} /\ pull \in PullPhase
      /\ snap \in [seq : Nat, mem : Table]
      /\ loading \in [step : {"read", "install", "done"}, tables : Table]
      /\ faults \in 0..MaxFaults /\ activeFaults \in 0..MaxActiveFaults
      /\ activeRestarts \in 0..MaxActiveRestarts /\ standbyRestarts \in 0..MaxStandbyRestarts
      /\ BatchWaits
  BY DEF TypeInv, TypeOK
<1>1. ASSUME NEW w \in Writer, NEW k \in Key, NEW remove \in BOOLEAN, BeginWrite(w, k, remove)
      PROVE  TypeInv'
  <2>. DEFINE id == Len(history) + 1
              e  == [key |-> k, val |-> IF remove THEN 0 ELSE id, id |-> id]
  <2>1. e \in Event
    BY <1>0, <1>1, SMTT(30) DEF BeginWrite, Event, WriteId
  <2>2. <<e>> \in Pending /\ <<e>> \in Seq(Event)
    BY <1>0, <2>1 DEF Pending
  <2>3. writer' = [writer EXCEPT ![w] = <<e>>] /\ history' = Append(history, e)
    BY <1>0, <1>1 DEF BeginWrite
  <2>4. \/ Commit(<<e>>) /\ amem' = amem
        \/ amem' = Put(amem, e) /\ UNCHANGED <<alog, adb>>
    BY <1>0, <1>1 DEF BeginWrite
  <2>. HIDE DEF e
  <2>5. writer' \in [Writer -> Pending] /\ history' \in Seq(Event)
    BY <1>0, <2>1, <2>2, <2>3
  <2>6. alog' \in Seq(Event) /\ adb' \in Table /\ purged \in 0..Len(alog') /\ amem' \in Table
    <3>1. CASE Commit(<<e>>) /\ amem' = amem
      BY <1>0, <2>2, <3>1, CommitType
    <3>2. CASE amem' = Put(amem, e) /\ UNCHANGED <<alog, adb>>
      BY <1>0, <2>1, <3>2, PutType
    <3>. QED BY <2>4, <3>1, <3>2
  <2>. QED BY <1>0, <1>1, <2>5, <2>6 DEF TypeInv, TypeOK, BatchWaits, BeginWrite, standbyVars, pullVars, faultVars
<1>2. ASSUME NEW w \in Writer, EndWrite(w) PROVE TypeInv'
  <2>. DEFINE e == Head(writer[w])
  <2>1. e \in Event /\ <<e>> \in Seq(Event)
    BY <1>0, <1>2, PendingFacts DEF EndWrite
  <2>2. writer' \in [Writer -> Pending]
    BY <1>0, <1>2, NothingTypes DEF EndWrite
  <2>3. \/ amem' = Put(amem, e) /\ UNCHANGED <<adb, alog, queue>>
        \/ Commit(<<e>>) /\ UNCHANGED <<amem, queue>>
        \/ queue' = Append(queue, e) /\ UNCHANGED <<amem, adb, alog>>
    BY <1>0, <1>2 DEF EndWrite
  <2>. HIDE DEF e
  <2>4. /\ alog' \in Seq(Event) /\ adb' \in Table /\ purged \in 0..Len(alog') /\ amem' \in Table
        /\ queue' \in Seq(Event)
    <3>1. CASE amem' = Put(amem, e) /\ UNCHANGED <<adb, alog, queue>>
      BY <1>0, <2>1, <3>1, PutType
    <3>2. CASE Commit(<<e>>) /\ UNCHANGED <<amem, queue>>
      BY <1>0, <2>1, <3>2, CommitType
    <3>3. CASE queue' = Append(queue, e) /\ UNCHANGED <<amem, adb, alog>>
      BY <1>0, <2>1, <3>3
    <3>. QED BY <2>3, <3>1, <3>2, <3>3
  <2>. QED BY <1>0, <1>2, <2>2, <2>4 DEF TypeInv, TypeOK, BatchWaits, EndWrite, standbyVars, pullVars, faultVars
<1>3. ASSUME NEW w \in Writer, AffinityCommitFails(w) PROVE TypeInv'
  <2>1. writer' \in [Writer -> Pending] /\ activeFaults' \in 0..MaxActiveFaults
    BY <1>0, <1>3, NothingTypes, Bounds DEF AffinityCommitFails
  <2>. QED BY <1>0, <1>3, <2>1 DEF TypeInv, TypeOK, BatchWaits, AffinityCommitFails, standbyVars, pullVars
<1>4. CASE BackgroundWrite
  <2>1. PICK n \in 1..Len(queue) : /\ Commit(SubSeq(queue, 1, n))
                                   /\ queue' = SubSeq(queue, n + 1, Len(queue))
    BY <1>0, <1>4 DEF BackgroundWrite
  <2>2. SubSeq(queue, 1, n) \in Seq(Event) /\ SubSeq(queue, n + 1, Len(queue)) \in Seq(Event)
    BY <1>0, SuffixType
  <2>3. alog' \in Seq(Event) /\ adb' \in Table /\ purged \in 0..Len(alog')
    BY <1>0, <2>1, <2>2, CommitType
  <2>. QED BY <1>0, <1>4, <2>1, <2>2, <2>3 DEF TypeInv, TypeOK, BatchWaits, BackgroundWrite, standbyVars, pullVars, faultVars
<1>5. CASE BackgroundWriteFails
  <2>1. PICK n \in 1..Len(queue) : queue' = SubSeq(queue, n + 1, Len(queue))
    BY <1>0, <1>5 DEF BackgroundWriteFails
  <2>2. SubSeq(queue, n + 1, Len(queue)) \in Seq(Event)
    BY <1>0, SuffixType
  <2>3. activeFaults' \in 0..MaxActiveFaults
    BY <1>0, <1>5, Bounds DEF BackgroundWriteFails
  <2>. QED BY <1>0, <1>5, <2>1, <2>2, <2>3 DEF TypeInv, TypeOK, BatchWaits, BackgroundWriteFails, standbyVars, pullVars
<1>6. CASE Cleanup
  BY <1>0, <1>6 DEF TypeInv, TypeOK, BatchWaits, Cleanup, standbyVars, pullVars, faultVars
<1>7. CASE ActiveRestart
  <2>1. activeRestarts' \in 0..MaxActiveRestarts /\ writer' \in [Writer -> Pending]
    BY <1>0, <1>7, NothingTypes, Bounds DEF ActiveRestart
  <2>2. pull' \in PullPhase /\ BatchWaits'
    BY <1>0, <1>7 DEF ActiveRestart, PullPhase, BatchWaits
  <2>3. amem' \in Table /\ queue' \in Seq(Event)
    BY <1>0, <1>7, NothingTypes DEF ActiveRestart
  <2>. QED BY <1>0, <1>7, <2>1, <2>2, <2>3 DEF TypeInv, TypeOK, ActiveRestart
<1>8. CASE ActiveRestore
  BY <1>0, <1>8 DEF TypeInv, TypeOK, BatchWaits, ActiveRestore, standbyVars, pullVars, faultVars
<1>9. CASE PullTick
  BY <1>0, <1>9 DEF TypeInv, TypeOK, BatchWaits, PullTick, activeVars, faultVars, PullPhase
<1>10. CASE EventsReply
  <2>1. EventsAfter \in Seq(Event)
    BY <1>0, EventsAfterType
  <2>. QED BY <1>0, <1>10, <2>1 DEF TypeInv, TypeOK, BatchWaits, EventsReply, activeVars, faultVars, PullPhase
<1>11. CASE ApplyToMemory
  <2>1. Head(batch) \in Event
    BY <1>0, <1>11 DEF ApplyToMemory, BatchWaits
  <2>2. Put(smem, Head(batch)) \in Table
    BY <1>0, <2>1, PutType
  <2>. QED BY <1>0, <1>11, <2>2 DEF TypeInv, TypeOK, BatchWaits, ApplyToMemory, activeVars, faultVars, PullPhase
<1>12. CASE ApplyToTables
  <2>1. Head(batch) \in Event /\ Tail(batch) \in Seq(Event)
    BY <1>0, <1>12, SMTT(30) DEF ApplyToTables, BatchWaits
  <2>2. Put(sdb, Head(batch)) \in Table
    BY <1>0, <2>1, PutType
  <2>3. pull' \in PullPhase /\ BatchWaits'
    BY <1>0, <1>12 DEF ApplyToTables, BatchWaits, PullPhase
  <2>4. sdb' \in Table /\ applied' \in Nat /\ batch' \in Seq(Event)
    <3>1. sdb' = Put(sdb, Head(batch)) /\ applied' = applied + 1 /\ batch' = Tail(batch)
      BY <1>12 DEF ApplyToTables
    <3>. QED BY <1>0, <2>1, <2>2, <3>1
  <2>5. UNCHANGED <<activeVars, smem, srole, snap, loading, faultVars>>
    BY <1>12 DEF ApplyToTables
  <2>. QED BY <1>0, <2>3, <2>4, <2>5 DEF TypeInv, TypeOK, activeVars, faultVars
<1>13. CASE PullFails
  BY <1>0, <1>13 DEF TypeInv, TypeOK, BatchWaits, PullFails, activeVars, PullPhase
<1>14. CASE SnapshotSeq
  BY <1>0, <1>14, NothingTypes DEF TypeInv, TypeOK, BatchWaits, SnapshotSeq, LatestEventSeq, activeVars, faultVars, PullPhase
<1>15. CASE SnapshotSeqUnknown
  BY <1>0, <1>15, NothingTypes DEF TypeInv, TypeOK, BatchWaits, SnapshotSeqUnknown, activeVars, PullPhase
<1>16. CASE SnapshotMemory
  BY <1>0, <1>16 DEF TypeInv, TypeOK, BatchWaits, SnapshotMemory, activeVars, faultVars, PullPhase
<1>17. CASE SnapshotFails
  BY <1>0, <1>17 DEF TypeInv, TypeOK, BatchWaits, SnapshotFails, activeVars, PullPhase
<1>18. CASE InstallMemory
  BY <1>0, <1>18 DEF TypeInv, TypeOK, BatchWaits, InstallMemory, activeVars, faultVars, PullPhase
<1>19. CASE InstallTables
  BY <1>0, <1>19, NothingTypes DEF TypeInv, TypeOK, BatchWaits, InstallTables, activeVars, faultVars, PullPhase
<1>20. CASE InstallTablesFails
  BY <1>0, <1>20, NothingTypes DEF TypeInv, TypeOK, BatchWaits, InstallTablesFails, activeVars, PullPhase
<1>21. CASE StandbyRestart
  BY <1>0, <1>21, NothingTypes DEF TypeInv, TypeOK, BatchWaits, StandbyRestart, activeVars, PullPhase
<1>22. CASE StandbyLoad \/ StandbyInstall
  <2>1. /\ loading' \in [step : {"read", "install", "done"}, tables : Table]
        /\ smem' \in Table
    BY <1>0, <1>22, NothingTypes DEF StandbyLoad, StandbyInstall
  <2>. QED BY <1>0, <1>22, <2>1
           DEF TypeInv, TypeOK, BatchWaits, StandbyLoad, StandbyInstall, activeVars, pullVars, faultVars
<1>23. CASE PromoteStandby
  BY <1>0, <1>23 DEF TypeInv, TypeOK, BatchWaits, PromoteStandby, activeVars, pullVars, faultVars
<1>24. CASE UNCHANGED vars
  BY <1>0, <1>24 DEF TypeInv, TypeOK, BatchWaits, vars, activeVars, standbyVars, pullVars, faultVars
<1>. QED BY <1>1, <1>2, <1>3, <1>4, <1>5, <1>6, <1>7, <1>8, <1>9, <1>10, <1>11, <1>12, <1>13, <1>14,
            <1>15, <1>16, <1>17, <1>18, <1>19, <1>20, <1>21, <1>22, <1>23, <1>24
         DEF Next, WriterStep, PullStep, LoadStep

\* Every variable keeps its type, and the pull loop never applies an event it has not got.
THEOREM TypeCorrect == Spec => []TypeInv
<1>1. Init => TypeInv
  BY NothingTypes DEF Init, TypeInv, TypeOK, BatchWaits, PullPhase
<1>2. TypeInv /\ [Next]_vars => TypeInv'
  BY TypeStep
<1>. QED BY <1>1, <1>2, PTL DEF Spec

-----------------------------------------------------------------------------
(* The checkpoint *)

\* Both the log and the history only grow.
Extends(new, old) == Len(old) <= Len(new) /\ \A s \in 1..Len(old) : new[s] = old[s]
LogGrows == Extends(alog', alog) /\ Extends(history', history)

\* A step appends to the log what it puts into the tables, or leaves both alone.
LEMMA LogStep ==
    ASSUME TypeInv, [Next]_vars
    PROVE  \/ alog' = alog /\ adb' = adb
           \/ \E w \in Writer, k \in Key, remove \in BOOLEAN :
                BeginWrite(w, k, remove) /\ CommitsFirst(k) /\ Commit(writer'[w])
           \/ \E w \in Writer : EndWrite(w) /\ required /\ Commit(<<Head(writer[w])>>)
           \/ BackgroundWrite
<1>0. writer \in [Writer -> Pending]
  BY DEF TypeInv, TypeOK
<1>1. ASSUME NEW w \in Writer, NEW k \in Key, NEW remove \in BOOLEAN, BeginWrite(w, k, remove)
      PROVE  \/ alog' = alog /\ adb' = adb
             \/ CommitsFirst(k) /\ Commit(writer'[w])
  BY <1>0, <1>1 DEF BeginWrite
<1>2. ASSUME NEW w \in Writer, EndWrite(w)
      PROVE  \/ alog' = alog /\ adb' = adb
             \/ required /\ Commit(<<Head(writer[w])>>)
  BY <1>2 DEF EndWrite
<1>3. ASSUME ~\E w \in Writer, k \in Key, remove \in BOOLEAN : BeginWrite(w, k, remove),
             ~\E w \in Writer : EndWrite(w), ~BackgroundWrite
      PROVE  alog' = alog /\ adb' = adb
  BY <1>3 DEF Next, WriterStep, PullStep, LoadStep, vars, activeVars, AffinityCommitFails,
     BackgroundWriteFails, Cleanup, ActiveRestart, ActiveRestore, PullTick, EventsReply,
     ApplyToMemory, ApplyToTables, PullFails, SnapshotSeq, SnapshotSeqUnknown, SnapshotMemory,
     SnapshotFails, InstallMemory, InstallTables, InstallTablesFails, StandbyRestart, StandbyLoad,
     StandbyInstall, PromoteStandby
<1>. QED BY <1>1, <1>2, <1>3

\* What a commit does to the log.
LEMMA CommitEffect ==
    ASSUME TypeInv, NEW events \in Seq(Event), Commit(events)
    PROVE  /\ Len(alog') = Len(alog) + Len(events) /\ Extends(alog', alog)
           /\ \A s \in Len(alog) + 1 .. Len(alog') :
                s - Len(alog) \in 1..Len(events) /\ alog'[s] = events[s - Len(alog)]
<1>1. alog \in Seq(Event) /\ alog' = alog \o events
  BY DEF TypeInv, TypeOK, Commit
<1>2. Len(alog') = Len(alog) + Len(events)
  BY <1>1
<1>3. \A s \in 1..Len(alog) + Len(events) :
        alog'[s] = IF s <= Len(alog) THEN alog[s] ELSE events[s - Len(alog)]
  BY <1>1
<1>. QED BY <1>1, <1>2, <1>3 DEF Extends

\* The history grows by the event of a write that begins.
LEMMA HistoryStep ==
    ASSUME TypeInv, [Next]_vars
    PROVE  \/ history' = history
           \/ \E w \in Writer, k \in Key, remove \in BOOLEAN : BeginWrite(w, k, remove)
BY DEF Next, WriterStep, PullStep, LoadStep, vars, activeVars, AffinityCommitFails, EndWrite,
   BackgroundWrite, BackgroundWriteFails, Cleanup, ActiveRestart, ActiveRestore, PullTick,
   EventsReply, ApplyToMemory, ApplyToTables, PullFails, SnapshotSeq, SnapshotSeqUnknown,
   SnapshotMemory, SnapshotFails, InstallMemory, InstallTables, InstallTablesFails, StandbyRestart,
   StandbyLoad, StandbyInstall, PromoteStandby

\* The event a write begins with.
NewEvent(k, remove) ==
    [key |-> k, val |-> IF remove THEN 0 ELSE Len(history) + 1, id |-> Len(history) + 1]
\* What the beginning of a write does to its task and to the history.
LEMMA BeginEffect ==
    ASSUME TypeInv, NEW w \in Writer, NEW k \in Key, NEW remove \in BOOLEAN, BeginWrite(w, k, remove)
    PROVE  /\ NewEvent(k, remove) \in Event /\ writer' = [writer EXCEPT ![w] = <<NewEvent(k, remove)>>]
           /\ writer'[w] = <<NewEvent(k, remove)>>
           /\ history' = Append(history, NewEvent(k, remove))
           /\ Len(history') = Len(history) + 1 /\ Extends(history', history)
           /\ history'[Len(history) + 1] = NewEvent(k, remove)
<1>0. history \in Seq(Event) /\ writer \in [Writer -> Pending]
  BY DEF TypeInv, TypeOK
<1>1. NewEvent(k, remove) \in Event
  BY <1>0, Bounds DEF BeginWrite, NewEvent, Event, WriteId
<1>2. /\ writer' = [writer EXCEPT ![w] = <<NewEvent(k, remove)>>]
      /\ history' = Append(history, NewEvent(k, remove))
  BY DEF BeginWrite, NewEvent
<1>. QED BY <1>0, <1>1, <1>2 DEF Extends

\* No step takes anything out of the log or the history.
LEMMA LogsGrow ==
    ASSUME TypeInv, [Next]_vars
    PROVE  LogGrows
<1>0. alog \in Seq(Event) /\ history \in Seq(Event) /\ queue \in Seq(Event) /\ writer \in [Writer -> Pending]
  BY DEF TypeInv, TypeOK
<1>1. Extends(history', history)
  <2>1. CASE history' = history
    BY <1>0, <2>1 DEF Extends
  <2>. QED BY <2>1, HistoryStep, BeginEffect
<1>2. Extends(alog', alog)
  <2>1. CASE alog' = alog
    BY <1>0, <2>1 DEF Extends
  <2>2. ASSUME NEW w \in Writer, NEW k \in Key, NEW remove \in BOOLEAN, BeginWrite(w, k, remove), Commit(writer'[w])
        PROVE  Extends(alog', alog)
    <3>1. writer'[w] \in Seq(Event)
      <4>1. NewEvent(k, remove) \in Event /\ writer'[w] = <<NewEvent(k, remove)>>
        BY <2>2, BeginEffect
      <4>. QED BY <4>1
    <3>. QED BY <2>2, <3>1, CommitEffect
  <2>3. ASSUME NEW w \in Writer, EndWrite(w), Commit(<<Head(writer[w])>>) PROVE Extends(alog', alog)
    <3>1. Head(writer[w]) \in Event
      BY <1>0, <2>3, PendingFacts DEF EndWrite
    <3>2. <<Head(writer[w])>> \in Seq(Event)
      BY <3>1
    <3>. QED BY <2>3, <3>2, CommitEffect
  <2>4. CASE BackgroundWrite
    <3>1. PICK n \in 1..Len(queue) : Commit(SubSeq(queue, 1, n))
      BY <2>4 DEF BackgroundWrite
    <3>. QED BY <1>0, <3>1, SuffixType, CommitEffect
  <2>. QED BY <2>1, <2>2, <2>3, <2>4, LogStep
<1>. QED BY <1>1, <1>2 DEF LogGrows

\* What the pull loop holds between its steps: the events right after the checkpoint, or
\* the position of a snapshot, all of them within the log.
BatchIsLog ==
    pull \in {"apply", "commit"} =>
        /\ applied + Len(batch) <= Len(alog)
        /\ \A i \in 1..Len(batch) : batch[i] = alog[applied + i]
SnapBounded == pull \in {"snapSeq", "install", "store"} => snap.seq <= Len(alog)
PullInv == CheckpointBounded /\ BatchIsLog /\ SnapBounded

\* What the active answers starts at the checkpoint, if it is applied.
LEMMA EventsAfterFacts ==
    ASSUME TypeInv, InSequence, EventsAfter # <<>>
    PROVE  /\ applied + Len(EventsAfter) <= Len(alog)
           /\ \A i \in 1..Len(EventsAfter) : EventsAfter[i] = alog[applied + i]
<1>0. alog \in Seq(Event) /\ applied \in Nat
  BY DEF TypeInv, TypeOK
<1>1. FirstAfter = applied + 1
  BY DEF InSequence
<1>. DEFINE last == FirstAfter + BatchLimit - 1
            n == IF last < Len(alog) THEN last ELSE Len(alog)
<1>2. applied + 1 \in Int /\ n \in Int /\ n <= Len(alog) /\ n \in Nat
  BY <1>0, <1>1
<1>3. EventsAfter = SubSeq(alog, applied + 1, n)
  BY <1>1 DEF EventsAfter
<1>. HIDE DEF n
<1>4. \A i \in applied + 1 .. n : alog[i] \in Event
  BY <1>0, <1>2
<1>5. /\ Len(EventsAfter) = IF applied + 1 <= n THEN n - (applied + 1) + 1 ELSE 0
      /\ \A i \in 1..n - (applied + 1) + 1 : EventsAfter[i] = alog[applied + 1 + i - 1]
  BY ONLY <1>2, <1>3, <1>4, SubSeqProperties
<1>6. n >= applied + 1
  <2>1. EventsAfter \in Seq(Event) /\ Len(EventsAfter) # 0
    BY <1>0, EventsAfterType DEF TypeInv, TypeOK
  <2>. QED BY <1>0, <1>2, <1>5, <2>1
<1>7. Len(EventsAfter) = n - applied
  BY <1>0, <1>2, <1>5, <1>6
<1>8. ASSUME NEW i \in 1..Len(EventsAfter) PROVE EventsAfter[i] = alog[applied + i]
  <2>1. i \in 1..n - (applied + 1) + 1 /\ applied + 1 + i - 1 = applied + i
    BY <1>0, <1>2, <1>7
  <2>. QED BY <1>5, <2>1
<1>. QED BY <1>0, <1>2, <1>7, <1>8

\* The steps of the pull loop, and what they make of a loop that is in order.
LEMMA PullInvStep ==
    ASSUME TypeInv, PullInv, [Next]_vars
    PROVE  PullInv'
<1>0. /\ alog \in Seq(Event) /\ batch \in Seq(Event) /\ applied \in Nat /\ snap.seq \in Nat
      /\ purged \in 0..Len(alog) /\ BatchWaits
  BY DEF TypeInv, TypeOK
<1>a. Len(alog) \in Nat /\ Len(alog') \in Nat /\ Len(alog) <= Len(alog') /\ \A s \in 1..Len(alog) : alog'[s] = alog[s]
  <2>1. alog' \in Seq(Event)
    BY TypeStep DEF TypeInv, TypeOK
  <2>. QED BY <1>0, <2>1, LogsGrow DEF LogGrows, Extends
<1>1. CASE UNCHANGED <<pullVars, applied>>
  <2>1. CheckpointBounded' /\ SnapBounded'
    BY <1>0, <1>a, <1>1 DEF PullInv, CheckpointBounded, SnapBounded, pullVars
  <2>2. ASSUME pull \in {"apply", "commit"}, NEW i \in 1..Len(batch) PROVE batch[i] = alog'[applied + i]
    <3>1. batch[i] = alog[applied + i] /\ applied + i \in 1..Len(alog)
      BY <1>0, <2>2 DEF PullInv, BatchIsLog
    <3>. QED BY <1>a, <3>1
  <2>3. BatchIsLog'
    BY <1>0, <1>a, <1>1, <2>2 DEF PullInv, BatchIsLog, pullVars
  <2>. QED BY <2>1, <2>3 DEF PullInv
<1>2. CASE PullTick \/ PullFails \/ SnapshotFails
  BY <1>0, <1>a, <1>2 DEF PullTick, PullFails, SnapshotFails, PullInv, CheckpointBounded, BatchIsLog,
     SnapBounded, activeVars
<1>3. CASE EventsReply
  <2>1. alog' = alog /\ applied' = applied /\ snap' = snap
    BY <1>3 DEF EventsReply, activeVars
  <2>2. CASE pull' = "apply"
    <3>1. InSequence /\ EventsAfter # <<>> /\ batch' = EventsAfter
      BY <1>3, <2>2 DEF EventsReply
    <3>. QED BY <2>1, <2>2, <3>1, EventsAfterFacts DEF PullInv, CheckpointBounded, BatchIsLog, SnapBounded
  <2>3. CASE pull' \in {"snapshot", "idle"}
    BY <2>1, <2>3 DEF PullInv, CheckpointBounded, BatchIsLog, SnapBounded
  <2>. QED BY <1>3, <2>2, <2>3 DEF EventsReply
<1>4. CASE ApplyToMemory
  BY <1>0, <1>4 DEF ApplyToMemory, PullInv, CheckpointBounded, BatchIsLog, SnapBounded, activeVars
<1>5. CASE ApplyToTables
  <2>1. alog' = alog /\ applied' = applied + 1 /\ batch' = Tail(batch) /\ pull' \in {"idle", "apply"}
    BY <1>5 DEF ApplyToTables, activeVars
  <2>2. batch # <<>> /\ applied + Len(batch) <= Len(alog) /\ \A i \in 1..Len(batch) : batch[i] = alog[applied + i]
    BY <1>0, <1>5 DEF ApplyToTables, BatchWaits, PullInv, BatchIsLog
  <2>3. Len(batch) >= 1 /\ Len(Tail(batch)) = Len(batch) - 1
    BY <1>0, <2>2
  <2>4. \A i \in 1..Len(batch) - 1 : Tail(batch)[i] = batch[i + 1]
    BY <1>0, <2>2
  <2>5. CheckpointBounded'
    BY <1>0, <2>1, <2>2, <2>3 DEF CheckpointBounded
  <2>6. ASSUME NEW i \in 1..Len(Tail(batch)) PROVE Tail(batch)[i] = alog[applied + 1 + i]
    <3>1. i + 1 \in 1..Len(batch) /\ i \in 1..Len(batch) - 1 /\ applied + (i + 1) = applied + 1 + i
      BY <1>0, <2>3
    <3>. QED BY <2>2, <2>4, <3>1
  <2>7. applied + 1 + Len(Tail(batch)) <= Len(alog)
    BY <1>0, <2>2, <2>3
  <2>8. BatchIsLog'
    BY <2>1, <2>6, <2>7 DEF BatchIsLog
  <2>9. SnapBounded'
    BY <2>1 DEF SnapBounded
  <2>. QED BY <2>5, <2>8, <2>9 DEF PullInv
<1>6. CASE SnapshotSeq
  BY <1>0, <1>6 DEF SnapshotSeq, LatestEventSeq, PullInv, CheckpointBounded, BatchIsLog, SnapBounded, activeVars
<1>7. CASE SnapshotSeqUnknown
  BY <1>0, <1>7 DEF SnapshotSeqUnknown, NoSnap, PullInv, CheckpointBounded, BatchIsLog, SnapBounded, activeVars
<1>8. CASE SnapshotMemory
  <2>1. alog' = alog /\ applied' = applied /\ snap'.seq = snap.seq /\ pull' = "install" /\ pull = "snapSeq"
    BY <1>8 DEF SnapshotMemory, activeVars, TypeInv, TypeOK
  <2>. QED BY <2>1 DEF PullInv, CheckpointBounded, BatchIsLog, SnapBounded
<1>9. CASE InstallMemory
  BY <1>9 DEF InstallMemory, PullInv, CheckpointBounded, BatchIsLog, SnapBounded, activeVars
<1>10. CASE InstallTables \/ InstallTablesFails
  BY <1>10 DEF InstallTables, InstallTablesFails, PullInv, CheckpointBounded, BatchIsLog, SnapBounded, activeVars
<1>11. CASE StandbyRestart
  BY <1>11 DEF StandbyRestart, PullInv, CheckpointBounded, BatchIsLog, SnapBounded, activeVars
<1>12. CASE ActiveRestart
  BY <1>12 DEF ActiveRestart, PullInv, CheckpointBounded, BatchIsLog, SnapBounded
<1>13. \/ UNCHANGED <<pullVars, applied>>
       \/ PullTick \/ PullFails \/ SnapshotFails \/ EventsReply \/ ApplyToMemory \/ ApplyToTables
       \/ SnapshotSeq \/ SnapshotSeqUnknown \/ SnapshotMemory \/ InstallMemory
       \/ InstallTables \/ InstallTablesFails \/ StandbyRestart \/ ActiveRestart
  BY DEF Next, WriterStep, PullStep, LoadStep, vars, standbyVars, pullVars, BeginWrite, EndWrite,
     AffinityCommitFails, BackgroundWrite, BackgroundWriteFails, Cleanup, ActiveRestore, StandbyLoad,
     StandbyInstall, PromoteStandby
<1>. QED BY <1>1, <1>2, <1>3, <1>4, <1>5, <1>6, <1>7, <1>8, <1>9, <1>10, <1>11, <1>12, <1>13

\* What the pull loop holds is always in the log.
LEMMA PullInOrder == Spec => []PullInv
<1>1. Init => PullInv
  BY DEF Init, PullInv, CheckpointBounded, BatchIsLog, SnapBounded
<1>2. TypeInv /\ PullInv /\ [Next]_vars => PullInv'
  BY PullInvStep
<1>. QED BY <1>1, <1>2, TypeCorrect, PTL DEF Spec

\* The standby's checkpoint never runs ahead of the log it points into, through purges,
\* snapshots of an empty log, lost requests, and restarts of either process.
THEOREM CheckpointInLog == Spec => []CheckpointBounded
<1>1. PullInv => CheckpointBounded
  BY DEF PullInv
<1>. QED BY <1>1, PullInOrder, PTL

-----------------------------------------------------------------------------
(* Required persistence *)

\* One event in a transaction is put.
LEMMA PutOne ==
    ASSUME NEW table \in Table, NEW e \in Event
    PROVE  PutAll(table, <<e>>) = Put(table, e)
<1>. DEFINE s == <<e>>
<1>0. Len(s) = 1 /\ s[1] = e /\ e.key \in Key
  BY DEF Event
<1>. HIDE DEF s
<1>1. \A k \in Key : LastOn(s, k, Len(s)) = IF k = e.key THEN {1} ELSE {}
  BY <1>0 DEF LastOn
<1>2. ASSUME NEW k \in Key
      PROVE  (IF LastOn(s, k, Len(s)) = {} THEN table[k]
              ELSE s[CHOOSE i \in LastOn(s, k, Len(s)) : TRUE].val) = IF k = e.key THEN e.val ELSE table[k]
  <2>1. CASE k = e.key
    <3>1. LastOn(s, k, Len(s)) = {1}
      BY <1>1, <2>1
    <3>2. (CHOOSE i \in LastOn(s, k, Len(s)) : TRUE) = 1
      BY <3>1
    <3>. QED BY <1>0, <2>1, <3>1, <3>2
  <2>2. CASE k # e.key
    BY <1>1, <2>2
  <2>. QED BY <2>1, <2>2
<1>3. PutAll(table, s) = [k \in Key |-> IF k = e.key THEN e.val ELSE table[k]]
  BY <1>2 DEF PutAll
<1>4. Put(table, e) = [k \in Key |-> IF k = e.key THEN e.val ELSE table[k]]
  BY <1>0 DEF Put, Table
<1>. QED BY <1>3, <1>4 DEF s

\* With required persistence nothing waits for the background writer, and a contact is in
\* the log before its writer goes on, before it is in the tables and before it is in memory.
InLog(log, k, v) == \E s \in 1..Len(log) : log[s].key = k /\ log[s].val = v
NothingQueued == required => queue = <<>>
PendingLogged ==
    required => \A w \in Writer :
        writer[w] # Idle => LET e == Head(writer[w]) IN e.key \in Contact => InLog(alog, e.key, e.val)
TablesLogged == required => \A k \in Contact : adb[k] # 0 => InLog(alog, k, adb[k])
Durable == NothingQueued /\ PendingLogged /\ TablesLogged /\ RequiredIsDurable

\* What is in the log stays there.
LEMMA InLogStays ==
    ASSUME TypeInv, [Next]_vars, NEW k, NEW v, InLog(alog, k, v)
    PROVE  InLog(alog', k, v)
<1>1. alog \in Seq(Event)
  BY DEF TypeInv, TypeOK
<1>2. alog' \in Seq(Event)
  BY TypeStep DEF TypeInv, TypeOK
<1>. QED BY <1>1, <1>2, LogsGrow DEF LogGrows, Extends, InLog

\* What is committed is in the log.
LEMMA CommitLogs ==
    ASSUME TypeInv, NEW e \in Event, Commit(<<e>>)
    PROVE  InLog(alog', e.key, e.val) /\ adb' = Put(adb, e)
<1>0. alog \in Seq(Event) /\ adb \in Table
  BY DEF TypeInv, TypeOK
<1>1. adb' = Put(adb, e)
  BY <1>0, PutOne DEF Commit
<1>2. Len(alog') = Len(alog) + 1 /\ alog'[Len(alog) + 1] = e
  BY <1>0 DEF Commit
<1>. QED BY <1>0, <1>1, <1>2 DEF InLog

\* The mode never changes.
LEMMA ModeStays ==
    ASSUME [Next]_vars
    PROVE  required' = required
BY DEF Next, WriterStep, PullStep, LoadStep, vars, activeVars, BeginWrite, EndWrite, AffinityCommitFails,
   BackgroundWrite, BackgroundWriteFails, Cleanup, ActiveRestart, ActiveRestore, PullTick,
   EventsReply, ApplyToMemory, ApplyToTables, PullFails, SnapshotSeq, SnapshotSeqUnknown,
   SnapshotMemory, SnapshotFails, InstallMemory, InstallTables, InstallTablesFails, StandbyRestart,
   StandbyLoad, StandbyInstall, PromoteStandby

\* Steps that leave the active's memory, queue and writers alone.
LEMMA ActiveStep ==
    ASSUME [Next]_vars
    PROVE  \/ UNCHANGED <<amem, queue, writer, adb, alog, history, restored>>
           \/ \E w \in Writer, k \in Key, remove \in BOOLEAN : BeginWrite(w, k, remove)
           \/ \E w \in Writer : EndWrite(w) \/ AffinityCommitFails(w)
           \/ BackgroundWrite \/ BackgroundWriteFails \/ ActiveRestart \/ ActiveRestore
BY DEF Next, WriterStep, PullStep, LoadStep, vars, activeVars, Cleanup, PullTick,
   EventsReply, ApplyToMemory, ApplyToTables, PullFails, SnapshotSeq, SnapshotSeqUnknown,
   SnapshotMemory, SnapshotFails, InstallMemory, InstallTables, InstallTablesFails, StandbyRestart,
   StandbyLoad, StandbyInstall, PromoteStandby

\* Every step keeps contacts in the log before anything else has them.
LEMMA DurableStep ==
    ASSUME TypeInv, Durable, [Next]_vars
    PROVE  Durable'
<1>. SUFFICES ASSUME required PROVE Durable'
  BY ModeStays DEF Durable, NothingQueued, PendingLogged, TablesLogged, RequiredIsDurable
<1>0. /\ amem \in Table /\ adb \in Table /\ queue = <<>> /\ writer \in [Writer -> Pending] /\ required'
      /\ amem' \in Table /\ adb' \in Table
  BY ModeStays, TypeStep DEF TypeInv, TypeOK, Durable, NothingQueued
<1>a. \A k, v : InLog(alog, k, v) => InLog(alog', k, v)
  BY InLogStays
<1>b. /\ \A w \in Writer : writer[w] # Idle /\ Head(writer[w]).key \in Contact
           => InLog(alog, Head(writer[w]).key, Head(writer[w]).val)
      /\ \A k \in Contact : adb[k] # 0 => InLog(alog, k, adb[k])
      /\ \A k \in Contact : amem[k] # 0 => InLog(alog, k, amem[k])
  BY DEF Durable, PendingLogged, TablesLogged, RequiredIsDurable, InLog
<1>c. ASSUME queue' = <<>>,
             \A w \in Writer : writer'[w] # Idle /\ Head(writer'[w]).key \in Contact
               => InLog(alog', Head(writer'[w]).key, Head(writer'[w]).val),
             \A k \in Contact : adb'[k] # 0 => InLog(alog', k, adb'[k]),
             \A k \in Contact : amem'[k] # 0 => InLog(alog', k, amem'[k])
      PROVE  Durable'
  BY <1>c DEF Durable, NothingQueued, PendingLogged, TablesLogged, RequiredIsDurable, InLog
<1>1. CASE UNCHANGED <<amem, queue, writer, adb, alog, history, restored>>
  BY <1>0, <1>1, <1>a, <1>b, <1>c
<1>2. ASSUME NEW w \in Writer, NEW k \in Key, NEW remove \in BOOLEAN, BeginWrite(w, k, remove)
      PROVE  Durable'
  <2>. DEFINE e == NewEvent(k, remove)
  <2>1. e \in Event /\ e.key = k /\ writer' = [writer EXCEPT ![w] = <<e>>]
    BY <1>2, BeginEffect DEF NewEvent
  <2>2. queue' = queue
    BY <1>2 DEF BeginWrite
  <2>3. CASE k \in Contact
    <3>1. Commit(<<e>>) /\ amem' = amem
      BY <1>2, <2>3 DEF BeginWrite, CommitsFirst, NewEvent
    <3>. HIDE DEF e
    <3>2. InLog(alog', e.key, e.val) /\ adb' = Put(adb, e)
      BY <2>1, <3>1, CommitLogs
    <3>3. \A c \in Contact : adb'[c] # 0 => InLog(alog', c, adb'[c])
      BY <1>0, <1>a, <1>b, <2>1, <3>2 DEF Put, Table, Key
    <3>4. \A v \in Writer : writer'[v] # Idle /\ Head(writer'[v]).key \in Contact
            => InLog(alog', Head(writer'[v]).key, Head(writer'[v]).val)
      BY <1>0, <1>a, <1>b, <2>1, <3>2
    <3>. QED BY <1>0, <1>a, <1>b, <1>c, <2>2, <3>1, <3>3, <3>4
  <2>4. CASE k \notin Contact
    <3>1. amem' = Put(amem, e) /\ adb' = adb
      BY <1>2, <2>4 DEF BeginWrite, CommitsFirst, NewEvent
    <3>. HIDE DEF e
    <3>2. \A c \in Contact : amem'[c] # 0 => InLog(alog', c, amem'[c])
      BY <1>0, <1>a, <1>b, <2>1, <2>4, <3>1 DEF Put, Table, Key
    <3>3. \A v \in Writer : writer'[v] # Idle /\ Head(writer'[v]).key \in Contact
            => InLog(alog', Head(writer'[v]).key, Head(writer'[v]).val)
      BY <1>0, <1>a, <1>b, <2>1, <2>4
    <3>. QED BY <1>0, <1>a, <1>b, <1>c, <2>2, <3>1, <3>2, <3>3
  <2>. QED BY <2>3, <2>4
<1>3. ASSUME NEW w \in Writer, EndWrite(w) PROVE Durable'
  <2>. DEFINE e == Head(writer[w])
  <2>1. e \in Event /\ writer[w] # Idle
    BY <1>0, <1>3, PendingFacts DEF EndWrite
  <2>2. writer' = [writer EXCEPT ![w] = Idle]
    BY <1>3 DEF EndWrite
  <2>3. \A v \in Writer : writer'[v] # Idle /\ Head(writer'[v]).key \in Contact
          => InLog(alog', Head(writer'[v]).key, Head(writer'[v]).val)
    BY <1>0, <1>a, <1>b, <2>2
  <2>4. CASE CommitsFirst(e.key)
    <3>1. amem' = Put(amem, e) /\ adb' = adb /\ queue' = queue /\ e.key \in Contact
      BY <1>3, <2>4 DEF EndWrite, CommitsFirst
    <3>2. InLog(alog', e.key, e.val)
      BY <1>a, <1>b, <2>1, <3>1
    <3>. HIDE DEF e
    <3>3. \A c \in Contact : amem'[c] # 0 => InLog(alog', c, amem'[c])
      BY <1>0, <1>a, <1>b, <2>1, <3>1, <3>2 DEF Put, Table, Key
    <3>. QED BY <1>0, <1>a, <1>b, <1>c, <2>3, <3>1, <3>3
  <2>5. CASE ~CommitsFirst(e.key)
    <3>1. Commit(<<e>>) /\ amem' = amem /\ queue' = queue
      BY <1>3, <2>5 DEF EndWrite
    <3>. HIDE DEF e
    <3>2. InLog(alog', e.key, e.val) /\ adb' = Put(adb, e)
      BY <2>1, <3>1, CommitLogs
    <3>3. \A c \in Contact : adb'[c] # 0 => InLog(alog', c, adb'[c])
      BY <1>0, <1>a, <1>b, <2>1, <3>2 DEF Put, Table, Key
    <3>. QED BY <1>0, <1>a, <1>b, <1>c, <2>3, <3>1, <3>3
  <2>. QED BY <2>4, <2>5
<1>4. ASSUME NEW w \in Writer, AffinityCommitFails(w) PROVE Durable'
  <2>1. writer' = [writer EXCEPT ![w] = Idle] /\ amem' = amem /\ adb' = adb /\ queue' = queue
    BY <1>4 DEF AffinityCommitFails
  <2>2. \A v \in Writer : writer'[v] # Idle /\ Head(writer'[v]).key \in Contact
          => InLog(alog', Head(writer'[v]).key, Head(writer'[v]).val)
    BY <1>0, <1>a, <1>b, <2>1
  <2>. QED BY <1>0, <1>a, <1>b, <1>c, <2>1, <2>2
<1>5. ~BackgroundWrite /\ ~BackgroundWriteFails
  BY <1>0 DEF BackgroundWrite, BackgroundWriteFails
<1>6. CASE ActiveRestart
  <2>1. \A k \in Contact : amem'[k] = 0
    BY <1>6 DEF ActiveRestart, Empty, Key
  <2>2. \A v \in Writer : writer'[v] = Idle
    BY <1>6 DEF ActiveRestart
  <2>3. adb' = adb /\ queue' = <<>>
    BY <1>6 DEF ActiveRestart
  <2>. QED BY <1>a, <1>b, <1>c, <2>1, <2>2, <2>3
<1>7. CASE ActiveRestore
  BY <1>0, <1>7, <1>a, <1>b, <1>c DEF ActiveRestore
<1>. QED BY <1>1, <1>2, <1>3, <1>4, <1>5, <1>6, <1>7, ActiveStep

\* A contact that lookups see with required persistence is in the log of the node: neither
\* concurrent writers nor a restart, whenever it comes, let memory run ahead of it.
THEOREM RequiredSurvives == Spec => []RequiredIsDurable
<1>1. Init => Durable
  BY DEF Init, Durable, NothingQueued, PendingLogged, TablesLogged, RequiredIsDurable, Empty, Key
<1>2. TypeInv /\ Durable /\ [Next]_vars => Durable'
  BY DurableStep
<1>3. Durable => RequiredIsDurable
  BY DEF Durable
<1>. QED BY <1>1, <1>2, <1>3, TypeCorrect, PTL DEF Spec

-----------------------------------------------------------------------------
(* The active's memory and its log *)

\* Every event under way or committed is a write of the history, under its own number.
Recorded(writes, e) == e.id \in 1..Len(writes) /\ writes[e.id] = e
FromHistory ==
    /\ \A i \in 1..Len(history) : history[i].id = i
    /\ \A s \in 1..Len(alog) : Recorded(history, alog[s])
    /\ \A n \in 1..Len(queue) : Recorded(history, queue[n])
    /\ \A w \in Writer : writer[w] # Idle => Recorded(history, Head(writer[w]))

\* Committing events that are recorded keeps the log so.
LEMMA CommitRecorded ==
    ASSUME TypeInv, NEW events \in Seq(Event), Commit(events), NEW writes,
           \A s \in 1..Len(alog) : Recorded(writes, alog[s]),
           \A n \in 1..Len(events) : Recorded(writes, events[n])
    PROVE  \A s \in 1..Len(alog') : Recorded(writes, alog'[s])
<1>. SUFFICES ASSUME NEW s \in 1..Len(alog') PROVE Recorded(writes, alog'[s])
  OBVIOUS
<1>0. alog \in Seq(Event)
  BY DEF TypeInv, TypeOK
<1>1. CASE s <= Len(alog)
  BY <1>0, <1>1, CommitEffect DEF Extends
<1>2. CASE s > Len(alog)
  <2>1. s - Len(alog) \in 1..Len(events) /\ alog'[s] = events[s - Len(alog)]
    BY <1>0, <1>2, CommitEffect
  <2>. QED BY <2>1
<1>. QED BY <1>0, <1>1, <1>2, CommitEffect

\* Every step keeps the events in the history.
LEMMA FromHistoryStep ==
    ASSUME TypeInv, FromHistory, [Next]_vars
    PROVE  FromHistory'
<1>0. /\ alog \in Seq(Event) /\ history \in Seq(Event) /\ queue \in Seq(Event)
      /\ writer \in [Writer -> Pending]
  BY DEF TypeInv, TypeOK
<1>a. history' \in Seq(Event)
  BY TypeStep DEF TypeInv, TypeOK
<1>b. \A e : Recorded(history, e) => Recorded(history', e)
  BY <1>0, <1>a, LogsGrow DEF LogGrows, Extends, Recorded
<1>c. ASSUME \A i \in 1..Len(history') : history'[i].id = i,
             \A s \in 1..Len(alog') : Recorded(history', alog'[s]),
             \A n \in 1..Len(queue') : Recorded(history', queue'[n]),
             \A w \in Writer : writer'[w] # Idle => Recorded(history', Head(writer'[w]))
      PROVE  FromHistory'
  BY <1>c DEF FromHistory, Recorded
<1>d. /\ \A i \in 1..Len(history) : history[i].id = i
      /\ \A s \in 1..Len(alog) : Recorded(history', alog[s])
      /\ \A n \in 1..Len(queue) : Recorded(history', queue[n])
      /\ \A w \in Writer : writer[w] # Idle => Recorded(history', Head(writer[w]))
  BY <1>b DEF FromHistory
<1>1. CASE UNCHANGED <<amem, queue, writer, adb, alog, history, restored>>
  BY <1>1, <1>c, <1>d
<1>2. ASSUME NEW w \in Writer, NEW k \in Key, NEW remove \in BOOLEAN, BeginWrite(w, k, remove)
      PROVE  FromHistory'
  <2>. DEFINE e == NewEvent(k, remove)
  <2>1. /\ e \in Event /\ e.id = Len(history) + 1 /\ writer' = [writer EXCEPT ![w] = <<e>>]
        /\ Len(history') = Len(history) + 1 /\ Extends(history', history) /\ history'[Len(history) + 1] = e
    BY <1>2, BeginEffect DEF NewEvent
  <2>2. queue' = queue /\ (Commit(<<e>>) \/ alog' = alog)
    BY <1>2 DEF BeginWrite, NewEvent
  <2>. HIDE DEF e
  <2>3. Recorded(history', e)
    BY <1>0, <2>1 DEF Recorded
  <2>4. ASSUME NEW i \in 1..Len(history') PROVE history'[i].id = i
    <3>1. CASE i = Len(history) + 1
      BY <2>1, <3>1
    <3>2. CASE i # Len(history) + 1
      <4>1. i \in 1..Len(history)
        BY <1>0, <2>1, <3>2
      <4>. QED BY <1>d, <2>1, <4>1 DEF Extends
    <3>. QED BY <3>1, <3>2
  <2>5. \A v \in Writer : writer'[v] # Idle => Recorded(history', Head(writer'[v]))
    BY <1>0, <1>d, <2>1, <2>3
  <2>6. \A s \in 1..Len(alog') : Recorded(history', alog'[s])
    <3>1. CASE Commit(<<e>>)
      <4>1. <<e>> \in Seq(Event) /\ \A n \in 1..Len(<<e>>) : Recorded(history', <<e>>[n])
        BY <2>1, <2>3
      <4>. QED BY <1>d, <3>1, <4>1, CommitRecorded
    <3>. QED BY <1>d, <2>2, <3>1
  <2>. QED BY <1>c, <1>d, <2>2, <2>4, <2>5, <2>6
<1>3. ASSUME NEW w \in Writer, EndWrite(w) PROVE FromHistory'
  <2>. DEFINE e == Head(writer[w])
  <2>1. e \in Event /\ Recorded(history', e)
    BY <1>0, <1>3, <1>d, PendingFacts DEF EndWrite
  <2>2. writer' = [writer EXCEPT ![w] = Idle] /\ history' = history
    BY <1>3 DEF EndWrite
  <2>3. \/ alog' = alog /\ queue' = queue
        \/ Commit(<<e>>) /\ queue' = queue
        \/ alog' = alog /\ queue' = Append(queue, e)
    BY <1>3 DEF EndWrite
  <2>4. \A v \in Writer : writer'[v] # Idle => Recorded(history', Head(writer'[v]))
    BY <1>0, <1>d, <2>2
  <2>. HIDE DEF e
  <2>5. \A s \in 1..Len(alog') : Recorded(history', alog'[s])
    <3>1. CASE Commit(<<e>>)
      <4>1. <<e>> \in Seq(Event) /\ \A n \in 1..Len(<<e>>) : Recorded(history', <<e>>[n])
        BY <2>1
      <4>. QED BY <1>d, <3>1, <4>1, CommitRecorded
    <3>. QED BY <1>d, <2>3, <3>1
  <2>6. \A n \in 1..Len(queue') : Recorded(history', queue'[n])
    <3>1. CASE queue' = Append(queue, e)
      BY <1>0, <1>d, <2>1, <3>1
    <3>. QED BY <1>d, <2>3, <3>1
  <2>. QED BY <1>c, <1>d, <2>2, <2>4, <2>5, <2>6
<1>4. ASSUME NEW w \in Writer, AffinityCommitFails(w) PROVE FromHistory'
  <2>1. /\ writer' = [writer EXCEPT ![w] = Idle] /\ history' = history /\ alog' = alog /\ queue' = queue
    BY <1>4 DEF AffinityCommitFails
  <2>2. \A v \in Writer : writer'[v] # Idle => Recorded(history', Head(writer'[v]))
    BY <1>0, <1>d, <2>1
  <2>. QED BY <1>c, <1>d, <2>1, <2>2
<1>5. CASE BackgroundWrite \/ BackgroundWriteFails
  <2>1. PICK n \in 1..Len(queue) : /\ queue' = SubSeq(queue, n + 1, Len(queue))
                                   /\ Commit(SubSeq(queue, 1, n)) \/ alog' = alog
    BY <1>5 DEF BackgroundWrite, BackgroundWriteFails
  <2>2. writer' = writer /\ history' = history
    BY <1>5 DEF BackgroundWrite, BackgroundWriteFails
  <2>. DEFINE done == SubSeq(queue, 1, n)
  <2>3. /\ done \in Seq(Event) /\ Len(done) = n /\ \A i \in 1..n : done[i] = queue[i]
        /\ Len(queue') = Len(queue) - n /\ \A i \in 1..Len(queue) - n : queue'[i] = queue[n + i]
    BY <1>0, <2>1, SuffixType
  <2>. HIDE DEF done
  <2>4. ASSUME NEW i \in 1..Len(queue') PROVE Recorded(history', queue'[i])
    <3>1. i \in 1..Len(queue) - n /\ n + i \in 1..Len(queue)
      BY <1>0, <2>3
    <3>. QED BY <1>d, <2>3, <3>1
  <2>5. ASSUME NEW i \in 1..Len(done) PROVE Recorded(history', done[i])
    <3>1. i \in 1..n /\ i \in 1..Len(queue)
      BY <1>0, <2>3
    <3>. QED BY <1>d, <2>3, <3>1
  <2>6. \A s \in 1..Len(alog') : Recorded(history', alog'[s])
    <3>1. CASE Commit(done)
      BY <1>d, <2>3, <2>5, <3>1, CommitRecorded
    <3>. QED BY <1>d, <2>1, <3>1 DEF done
  <2>. QED BY <1>c, <1>d, <2>2, <2>4, <2>6
<1>6. CASE ActiveRestart
  <2>1. \A v \in Writer : writer'[v] = Idle
    BY <1>6 DEF ActiveRestart
  <2>2. Len(queue') = 0 /\ alog' = alog /\ history' = history
    BY <1>6 DEF ActiveRestart
  <2>. QED BY <1>c, <1>d, <2>1, <2>2
<1>7. CASE ActiveRestore
  BY <1>7, <1>c, <1>d DEF ActiveRestore
<1>. QED BY <1>1, <1>2, <1>3, <1>4, <1>5, <1>6, <1>7, ActiveStep

\* Nothing is committed that was not written.
LEMMA EventsAreWrites == Spec => []FromHistory
<1>1. Init => FromHistory
  BY DEF Init, FromHistory
<1>2. TypeInv /\ FromHistory /\ [Next]_vars => FromHistory'
  BY FromHistoryStep
<1>. QED BY <1>1, <1>2, TypeCorrect, PTL DEF Spec

\* The tables have, for every key, the last event of the log on it.
TablesFollow == \A k \in Key : \A s \in LastOn(alog, k, Len(alog)) : adb[k] = alog[s].val

\* Events that are not on a key leave its entry alone; else the last of them is in it.
LEMMA PutAllFacts ==
    ASSUME NEW table \in Table, NEW events \in Seq(Event), NEW k \in Key
    PROVE  /\ (\A n \in 1..Len(events) : events[n].key # k) => PutAll(table, events)[k] = table[k]
           /\ \A n \in LastOn(events, k, Len(events)) : PutAll(table, events)[k] = events[n].val
<1>1. ASSUME \A n \in 1..Len(events) : events[n].key # k PROVE PutAll(table, events)[k] = table[k]
  <2>1. LastOn(events, k, Len(events)) = {}
    BY <1>1 DEF LastOn
  <2>. QED BY <2>1 DEF PutAll
<1>2. ASSUME NEW n \in LastOn(events, k, Len(events)) PROVE PutAll(table, events)[k] = events[n].val
  <2>. DEFINE i == CHOOSE i \in LastOn(events, k, Len(events)) : TRUE
  <2>1. i \in LastOn(events, k, Len(events))
    BY <1>2
  <2>2. ~(i < n) /\ ~(n < i)
    BY <1>2, <2>1 DEF LastOn
  <2>3. i = n
    BY <1>2, <2>1, <2>2 DEF LastOn
  <2>4. LastOn(events, k, Len(events)) # {}
    BY <1>2
  <2>5. PutAll(table, events)[k] = events[i].val
    BY <2>4 DEF PutAll
  <2>. QED BY <2>3, <2>5
<1>. QED BY <1>1, <1>2

\* A transaction keeps the tables with the log.
LEMMA CommitFollows ==
    ASSUME TypeInv, TablesFollow, NEW events \in Seq(Event), Commit(events)
    PROVE  TablesFollow'
<1>0. alog \in Seq(Event) /\ adb \in Table /\ adb' = PutAll(adb, events)
  BY DEF TypeInv, TypeOK, Commit
<1>. SUFFICES ASSUME NEW k \in Key, NEW s \in LastOn(alog', k, Len(alog')) PROVE adb'[k] = alog'[s].val
  BY DEF TablesFollow, LastOn
<1>1. /\ s \in 1..Len(alog') /\ alog'[s].key = k /\ \A t \in s + 1 .. Len(alog') : alog'[t].key # k
      /\ Len(alog') = Len(alog) + Len(events)
      /\ \A t \in 1..Len(alog) : alog'[t] = alog[t]
      /\ \A n \in 1..Len(events) : alog'[Len(alog) + n] = events[n]
  <2>1. \A n \in 1..Len(events) : alog'[Len(alog) + n] = events[n]
    BY <1>0 DEF Commit
  <2>. QED BY <2>1, CommitEffect DEF LastOn, Extends
<1>2. CASE s <= Len(alog)
  <2>1. \A n \in 1..Len(events) : events[n].key # k
    <3>1. ASSUME NEW n \in 1..Len(events) PROVE events[n].key # k
      <4>1. Len(alog) + n \in s + 1 .. Len(alog')
        BY <1>0, <1>1, <1>2
      <4>. QED BY <1>1, <4>1
    <3>. QED BY <3>1
  <2>2. adb'[k] = adb[k]
    BY <1>0, <2>1, PutAllFacts
  <2>3. s \in LastOn(alog, k, Len(alog))
    <3>1. s \in 1..Len(alog) /\ alog[s].key = k
      BY <1>0, <1>1, <1>2
    <3>2. ASSUME NEW t \in s + 1 .. Len(alog) PROVE alog[t].key # k
      <4>1. t \in s + 1 .. Len(alog') /\ t \in 1..Len(alog)
        BY <1>0, <1>1, <3>1
      <4>. QED BY <1>1, <4>1
    <3>. QED BY <3>1, <3>2 DEF LastOn
  <2>4. alog'[s] = alog[s]
    BY <1>0, <1>1, <1>2
  <2>. QED BY <2>2, <2>3, <2>4 DEF TablesFollow
<1>3. CASE s > Len(alog)
  <2>. DEFINE n == s - Len(alog)
  <2>1. n \in 1..Len(events) /\ s = Len(alog) + n
    BY <1>0, <1>1, <1>3
  <2>. HIDE DEF n
  <2>2. alog'[s] = events[n]
    BY <1>1, <2>1
  <2>3. ASSUME NEW m \in n + 1 .. Len(events) PROVE events[m].key # k
    <3>1. Len(alog) + m \in s + 1 .. Len(alog') /\ m \in 1..Len(events)
      BY <1>0, <1>1, <2>1
    <3>. QED BY <1>1, <3>1
  <2>4. n \in LastOn(events, k, Len(events))
    BY <1>1, <2>1, <2>2, <2>3 DEF LastOn
  <2>. QED BY <1>0, <2>2, <2>4, PutAllFacts
<1>. QED BY <1>0, <1>1, <1>2, <1>3

\* The tables are always those of the log, whichever way it was written.
LEMMA TablesFollowLog == Spec => []TablesFollow
<1>1. Init => TablesFollow
  BY DEF Init, TablesFollow, LastOn
<1>2. ASSUME TypeInv, TablesFollow, [Next]_vars PROVE TablesFollow'
  <2>0. queue \in Seq(Event) /\ writer \in [Writer -> Pending]
    BY <1>2 DEF TypeInv, TypeOK
  <2>1. CASE alog' = alog /\ adb' = adb
    BY <1>2, <2>1 DEF TablesFollow, LastOn
  <2>2. ASSUME NEW w \in Writer, NEW k \in Key, NEW remove \in BOOLEAN, BeginWrite(w, k, remove),
               Commit(writer'[w])
        PROVE  TablesFollow'
    <3>1. NewEvent(k, remove) \in Event /\ writer'[w] = <<NewEvent(k, remove)>>
      BY <1>2, <2>2, BeginEffect
    <3>2. writer'[w] \in Seq(Event)
      BY <3>1
    <3>. QED BY <1>2, <2>2, <3>2, CommitFollows
  <2>3. ASSUME NEW w \in Writer, EndWrite(w), Commit(<<Head(writer[w])>>) PROVE TablesFollow'
    <3>1. Head(writer[w]) \in Event
      BY <2>0, <2>3, PendingFacts DEF EndWrite
    <3>2. <<Head(writer[w])>> \in Seq(Event)
      BY <3>1
    <3>. QED BY <1>2, <2>3, <3>2, CommitFollows
  <2>4. CASE BackgroundWrite
    <3>1. PICK n \in 1..Len(queue) : Commit(SubSeq(queue, 1, n))
      BY <2>4 DEF BackgroundWrite
    <3>. QED BY <1>2, <2>0, <3>1, SuffixType, CommitFollows
  <2>. QED BY <1>2, <2>1, <2>2, <2>3, <2>4, LogStep
<1>3. TypeInv /\ TablesFollow /\ [Next]_vars => TablesFollow'
  BY <1>2
<1>. QED BY <1>1, <1>3, TypeCorrect, PTL DEF Spec

\* A key of the active's memory, with the default mode: it has the newest write on the
\* key, or what the tables had at the restart and still have, nothing being under way.
LatestWrite(k) ==
    \/ \E i \in 1..Len(history) :
         /\ history[i].key = k /\ history[i].val = amem[k]
         /\ \A j \in i + 1 .. Len(history) : history[j].key # k
    \/ \A i \in 1..Len(history) : history[i].key # k
Untouched(k) ==
    /\ amem[k] = adb[k]
    /\ \A n \in 1..Len(queue) : queue[n].key # k
    /\ \A w \in Writer : writer[w] # Idle => Head(writer[w]).key # k
NothingUnderWay == queue = <<>> /\ \A w \in Writer : writer[w] = Idle
MemoryInv ==
    ~required =>
      /\ restored => \A k \in Key : LatestWrite(k) \/ Untouched(k)
      /\ ~restored => NothingUnderWay

\* A write begins: it is the newest on its key, and the other keys have what they had.
LEMMA BeginLatest ==
    ASSUME TypeInv, ~required, NEW w \in Writer, NEW k \in Key, NEW remove \in BOOLEAN,
           BeginWrite(w, k, remove)
    PROVE  /\ LatestWrite(k)'
           /\ \A c \in Key : c # k /\ LatestWrite(c) => LatestWrite(c)'
           /\ \A c \in Key : c # k /\ Untouched(c) => Untouched(c)'
<1>. DEFINE e == NewEvent(k, remove)
            n == Len(history) + 1
<1>0. history \in Seq(Event) /\ amem \in Table /\ writer \in [Writer -> Pending]
  BY DEF TypeInv, TypeOK
<1>1. /\ e \in Event /\ e.key = k /\ writer' = [writer EXCEPT ![w] = <<e>>]
      /\ Len(history') = n /\ history'[n] = e /\ \A i \in 1..Len(history) : history'[i] = history[i]
  BY BeginEffect, SMTT(30) DEF NewEvent, Extends
<1>2. amem' = Put(amem, e) /\ queue' = queue /\ adb' = adb
  BY DEF BeginWrite, CommitsFirst, NewEvent
<1>. HIDE DEF e
<1>3. amem'[k] = e.val /\ \A c \in Key : c # k => amem'[c] = amem[c]
  BY <1>0, <1>1, <1>2 DEF Put, Table
<1>4. LatestWrite(k)'
  <2>1. n \in 1..Len(history') /\ n + 1 .. Len(history') = {}
    BY <1>0, <1>1
  <2>. QED BY <1>1, <1>3, <2>1 DEF LatestWrite
<1>5. ASSUME NEW c \in Key, c # k, LatestWrite(c) PROVE LatestWrite(c)'
  <2>1. ASSUME NEW i \in 1..Len(history), history[i].key = c, history[i].val = amem[c],
               \A j \in i + 1 .. Len(history) : history[j].key # c
        PROVE  LatestWrite(c)'
    <3>1. i \in 1..Len(history') /\ history'[i].key = c /\ history'[i].val = amem'[c]
      BY <1>0, <1>1, <1>3, <1>5, <2>1
    <3>2. ASSUME NEW j \in i + 1 .. Len(history') PROVE history'[j].key # c
      <4>1. CASE j = n
        BY <1>1, <1>5, <4>1
      <4>2. CASE j # n
        <5>1. j \in i + 1 .. Len(history) /\ j \in 1..Len(history)
          BY <1>0, <1>1, <4>2, SMTT(30)
        <5>. QED BY <1>1, <2>1, <5>1
      <4>. QED BY <4>1, <4>2
    <3>. QED BY <3>1, <3>2 DEF LatestWrite
  <2>2. ASSUME \A i \in 1..Len(history) : history[i].key # c PROVE LatestWrite(c)'
    <3>1. ASSUME NEW i \in 1..Len(history') PROVE history'[i].key # c
      <4>1. CASE i = n
        BY <1>1, <1>5, <4>1
      <4>2. CASE i # n
        <5>1. i \in 1..Len(history)
          BY <1>0, <1>1, <4>2
        <5>. QED BY <1>1, <2>2, <5>1
      <4>. QED BY <4>1, <4>2
    <3>. QED BY <3>1 DEF LatestWrite
  <2>. QED BY <1>5, <2>1, <2>2 DEF LatestWrite
<1>6. ASSUME NEW c \in Key, c # k, Untouched(c) PROVE Untouched(c)'
  <2>1. \A v \in Writer : writer'[v] # Idle => Head(writer'[v]).key # c
    BY <1>0, <1>1, <1>6 DEF Untouched
  <2>. QED BY <1>2, <1>3, <1>6, <2>1 DEF Untouched
<1>. QED BY <1>4, <1>5, <1>6

\* Every step keeps that: a restart leaves nothing under way.
LEMMA MemoryInvStep ==
    ASSUME TypeInv, MemoryInv, [Next]_vars
    PROVE  MemoryInv'
<1>. SUFFICES ASSUME ~required PROVE MemoryInv'
  BY ModeStays DEF MemoryInv
<1>0. queue \in Seq(Event) /\ writer \in [Writer -> Pending] /\ adb \in Table /\ ~required' /\ restored \in BOOLEAN
  BY ModeStays DEF TypeInv, TypeOK
<1>1. CASE UNCHANGED <<amem, queue, writer, adb, alog, history, restored>>
  BY <1>1 DEF MemoryInv, LatestWrite, Untouched, NothingUnderWay
<1>2. ASSUME NEW w \in Writer, NEW k \in Key, NEW remove \in BOOLEAN, BeginWrite(w, k, remove)
      PROVE  MemoryInv'
  <2>1. restored /\ restored'
    BY <1>2 DEF BeginWrite
  <2>2. \A c \in Key : LatestWrite(c)' \/ Untouched(c)'
    BY <1>2, <2>1, BeginLatest DEF MemoryInv
  <2>. QED BY <2>1, <2>2 DEF MemoryInv
<1>3. ASSUME NEW w \in Writer, EndWrite(w) PROVE MemoryInv'
  <2>. DEFINE e == Head(writer[w])
  <2>1. /\ writer[w] # Idle /\ writer' = [writer EXCEPT ![w] = Idle] /\ queue' = Append(queue, e)
        /\ UNCHANGED <<amem, adb, alog, history, restored>>
    BY <1>3 DEF EndWrite, CommitsFirst
  <2>2. restored /\ restored'
    BY <1>0, <2>1 DEF MemoryInv, NothingUnderWay
  <2>3. ASSUME NEW c \in Key, LatestWrite(c) PROVE LatestWrite(c)'
    BY <2>1, <2>3 DEF LatestWrite
  <2>4. ASSUME NEW c \in Key, Untouched(c) PROVE Untouched(c)'
    <3>1. \A v \in Writer : writer'[v] # Idle => Head(writer'[v]).key # c
      BY <1>0, <2>1, <2>4 DEF Untouched
    <3>2. e \in Event /\ e.key # c
      BY <1>0, <2>1, <2>4, PendingFacts DEF Untouched
    <3>3. \A n \in 1..Len(queue') : queue'[n].key # c
      BY <1>0, <2>1, <2>4, <3>2 DEF Untouched
    <3>. QED BY <2>1, <2>4, <3>1, <3>3 DEF Untouched
  <2>. QED BY <2>2, <2>3, <2>4 DEF MemoryInv
<1>4. ASSUME NEW w \in Writer, AffinityCommitFails(w) PROVE FALSE
  BY <1>4 DEF AffinityCommitFails
<1>5. CASE BackgroundWrite \/ BackgroundWriteFails
  <2>1. PICK n \in 1..Len(queue) : /\ queue' = SubSeq(queue, n + 1, Len(queue))
                                   /\ adb' = PutAll(adb, SubSeq(queue, 1, n)) \/ adb' = adb
    BY <1>5 DEF BackgroundWrite, BackgroundWriteFails, Commit
  <2>2. UNCHANGED <<amem, writer, history, restored>>
    BY <1>5 DEF BackgroundWrite, BackgroundWriteFails
  <2>3. restored /\ restored'
    BY <1>0, <2>1, <2>2 DEF MemoryInv, NothingUnderWay
  <2>4. ASSUME NEW c \in Key, LatestWrite(c) PROVE LatestWrite(c)'
    BY <2>2, <2>4 DEF LatestWrite
  <2>5. ASSUME NEW c \in Key, Untouched(c) PROVE Untouched(c)'
    <3>. DEFINE done == SubSeq(queue, 1, n)
    <3>1. /\ done \in Seq(Event) /\ Len(done) = n /\ \A i \in 1..n : done[i] = queue[i]
          /\ Len(queue') = Len(queue) - n /\ \A i \in 1..Len(queue) - n : queue'[i] = queue[n + i]
      BY <1>0, <2>1, SuffixType
    <3>2. adb' = PutAll(adb, done) \/ adb' = adb
      BY <2>1
    <3>. HIDE DEF done
    <3>3. ASSUME NEW i \in 1..Len(done) PROVE done[i].key # c
      <4>1. i \in 1..n /\ i \in 1..Len(queue)
        BY <1>0, <3>1
      <4>. QED BY <2>5, <3>1, <4>1 DEF Untouched
    <3>4. adb'[c] = adb[c]
      BY <1>0, <3>1, <3>2, <3>3, PutAllFacts
    <3>5. ASSUME NEW i \in 1..Len(queue') PROVE queue'[i].key # c
      <4>1. i \in 1..Len(queue) - n /\ n + i \in 1..Len(queue)
        BY <1>0, <3>1
      <4>. QED BY <2>5, <3>1, <4>1 DEF Untouched
    <3>. QED BY <2>2, <2>5, <3>4, <3>5 DEF Untouched
  <2>. QED BY <2>3, <2>4, <2>5 DEF MemoryInv
<1>6. CASE ActiveRestart
  BY <1>6 DEF ActiveRestart, MemoryInv, NothingUnderWay
<1>7. CASE ActiveRestore
  <2>1. NothingUnderWay /\ amem' = adb' /\ queue' = queue /\ writer' = writer /\ restored'
    BY <1>0, <1>7 DEF ActiveRestore, MemoryInv
  <2>2. \A c \in Key : Untouched(c)'
    BY <2>1 DEF Untouched, NothingUnderWay
  <2>. QED BY <2>1, <2>2 DEF MemoryInv
<1>. QED BY <1>1, <1>2, <1>3, <1>4, <1>5, <1>6, <1>7, ActiveStep

\* So it is with every key, always.
LEMMA MemoryKnown == Spec => []MemoryInv
<1>1. Init => MemoryInv
  BY DEF Init, MemoryInv, LatestWrite
<1>2. TypeInv /\ MemoryInv /\ [Next]_vars => MemoryInv'
  BY MemoryInvStep
<1>. QED BY <1>1, <1>2, TypeCorrect, PTL DEF Spec

\* A table that has event s of the log, or something later on its key, and one that has
\* the first n events: more than Covers says, which asks for the last one on a key.
Has(log, writes, table, s) ==
    LET k == log[s].key IN
    \/ \E t \in s .. Len(log) : log[t].key = k /\ log[t].val = table[k]
    \/ \E i \in log[s].id + 1 .. Len(writes) : writes[i].key = k /\ writes[i].val = table[k]
HasAll(log, writes, table, n) == \A s \in 1..n : Has(log, writes, table, s)

\* It is enough for Covers.
LEMMA HasAllCovers ==
    ASSUME NEW table, NEW n \in Nat, HasAll(alog, history, table, n)
    PROVE  Covers(table, n)
<1>. SUFFICES ASSUME NEW k \in Key, NEW s \in LastOn(alog, k, n)
              PROVE  \/ \E t \in s .. Len(alog) : alog[t].key = k /\ alog[t].val = table[k]
                     \/ \E i \in alog[s].id + 1 .. Len(history) :
                           history[i].key = k /\ history[i].val = table[k]
  BY DEF Covers
<1>1. s \in 1..n /\ alog[s].key = k
  BY DEF LastOn
<1>2. Has(alog, history, table, s)
  BY <1>1 DEF HasAll
<1>. QED BY <1>1, <1>2 DEF Has

\* What a table has it keeps while log and history grow.
LEMMA HasAllStays ==
    ASSUME TypeInv, [Next]_vars, NEW table, NEW n \in 0..Len(alog), HasAll(alog, history, table, n)
    PROVE  HasAll(alog', history', table, n)
<1>0. /\ alog \in Seq(Event) /\ history \in Seq(Event) /\ alog' \in Seq(Event) /\ history' \in Seq(Event)
  BY TypeStep DEF TypeInv, TypeOK
<1>1. /\ Len(alog) <= Len(alog') /\ \A s \in 1..Len(alog) : alog'[s] = alog[s]
      /\ Len(history) <= Len(history') /\ \A s \in 1..Len(history) : history'[s] = history[s]
  BY LogsGrow DEF LogGrows, Extends
<1>. SUFFICES ASSUME NEW s \in 1..n PROVE Has(alog', history', table, s)
  BY DEF HasAll
<1>2. Has(alog, history, table, s) /\ s \in 1..Len(alog)
  BY <1>0 DEF HasAll
<1>. DEFINE k == alog[s].key
<1>3. alog'[s] = alog[s] /\ alog[s].id \in Nat
  <2>1. alog'[s] = alog[s] /\ alog[s] \in Event
    BY <1>0, <1>1, <1>2
  <2>2. \A e \in Event : e.id \in Nat
    BY Bounds DEF Event, WriteId
  <2>. QED BY <2>1, <2>2
<1>4. ASSUME NEW t \in s .. Len(alog), alog[t].key = k, alog[t].val = table[k]
      PROVE  Has(alog', history', table, s)
  <2>1. t \in 1..Len(alog) /\ t \in s .. Len(alog')
    BY <1>0, <1>1, <1>2
  <2>2. alog'[t].key = k /\ alog'[t].val = table[k]
    BY <1>1, <1>4, <2>1
  <2>. QED BY <1>3, <2>1, <2>2 DEF Has
<1>5. ASSUME NEW i \in alog[s].id + 1 .. Len(history), history[i].key = k, history[i].val = table[k]
      PROVE  Has(alog', history', table, s)
  <2>1. i \in 1..Len(history) /\ i \in alog[s].id + 1 .. Len(history')
    BY <1>0, <1>1, <1>3, SMTT(30)
  <2>2. history'[i].key = k /\ history'[i].val = table[k]
    BY <1>1, <1>5, <2>1
  <2>. QED BY <1>3, <2>1, <2>2 DEF Has
<1>. QED BY <1>2, <1>4, <1>5 DEF Has

\* Memory that has the newest write on a key has every event on it.
LEMMA LatestHas ==
    ASSUME TypeInv, FromHistory, NEW s \in 1..Len(alog), LatestWrite(alog[s].key)
    PROVE  Has(alog, history, amem, s)
<1>. DEFINE k == alog[s].key
            d == alog[s].id
<1>0. alog \in Seq(Event) /\ history \in Seq(Event)
  BY DEF TypeInv, TypeOK
<1>1. d \in 1..Len(history) /\ history[d] = alog[s] /\ history[d].key = k
  BY DEF FromHistory, Recorded
<1>2. PICK i \in 1..Len(history) : /\ history[i].key = k /\ history[i].val = amem[k]
                                   /\ \A j \in i + 1 .. Len(history) : history[j].key # k
  BY <1>1 DEF LatestWrite
<1>3. i >= d
  BY <1>0, <1>1, <1>2
<1>4. CASE i = d
  <2>1. s \in s .. Len(alog) /\ alog[s].val = amem[k]
    BY <1>0, <1>1, <1>2, <1>4
  <2>. QED BY <2>1 DEF Has
<1>5. CASE i > d
  <2>1. i \in d + 1 .. Len(history)
    BY <1>0, <1>1, <1>5
  <2>. QED BY <1>2, <2>1 DEF Has
<1>. QED BY <1>0, <1>1, <1>3, <1>4, <1>5

\* With the default persistence mode the active's memory is never behind its log, although
\* writers of one key may commit in another order than they wrote, batches may be lost,
\* and a restart brings back the tables only.
THEOREM MemoryLeads == Spec => []MemoryLeadsLog
<1>1. ASSUME TypeInv, FromHistory, TablesFollow, MemoryInv PROVE MemoryLeadsLog
  <2>. SUFFICES ASSUME restored, ~required, NEW k \in Key, NEW s \in LastOn(alog, k, Len(alog))
                PROVE  \/ \E t \in s .. Len(alog) : alog[t].key = k /\ alog[t].val = amem[k]
                       \/ \E i \in alog[s].id + 1 .. Len(history) :
                             history[i].key = k /\ history[i].val = amem[k]
    BY DEF MemoryLeadsLog, Covers
  <2>0. alog \in Seq(Event)
    BY <1>1 DEF TypeInv, TypeOK
  <2>1. s \in 1..Len(alog) /\ alog[s].key = k
    BY DEF LastOn
  <2>2. CASE LatestWrite(k)
    <3>1. Has(alog, history, amem, s)
      BY <1>1, <2>1, <2>2, LatestHas
    <3>. QED BY <2>1, <3>1 DEF Has
  <2>3. CASE Untouched(k)
    <3>1. amem[k] = alog[s].val
      BY <1>1, <2>3 DEF Untouched, TablesFollow
    <3>2. s \in s .. Len(alog)
      BY <2>0, <2>1
    <3>. QED BY <2>1, <3>1, <3>2
  <2>. QED BY <1>1, <2>2, <2>3 DEF MemoryInv
<1>2. TypeInv /\ FromHistory /\ TablesFollow /\ MemoryInv => MemoryLeadsLog
  BY <1>1
<1>. QED BY <1>2, TypeCorrect, EventsAreWrites, TablesFollowLog, MemoryKnown, PTL

-----------------------------------------------------------------------------
(* The standby's checkpoint is honest *)

\* The counters tell whether a node has been restarted.
LEMMA RestartCounts ==
    ASSUME TypeInv, [Next]_vars
    PROVE  /\ activeRestarts' = 0 => activeRestarts = 0 /\ ~ActiveRestart
           /\ standbyRestarts' = 0 => standbyRestarts = 0 /\ ~StandbyRestart
<1>0. activeRestarts \in Nat /\ standbyRestarts \in Nat
  BY DEF TypeInv, TypeOK
<1>1. ActiveRestart => activeRestarts' # 0
  BY <1>0 DEF ActiveRestart
<1>2. StandbyRestart => standbyRestarts' # 0
  BY <1>0 DEF StandbyRestart
<1>3. /\ ActiveRestart \/ activeRestarts' = activeRestarts
      /\ StandbyRestart \/ standbyRestarts' = standbyRestarts
  BY DEF Next, WriterStep, PullStep, LoadStep, vars, faultVars, BeginWrite, EndWrite, AffinityCommitFails,
     BackgroundWrite, BackgroundWriteFails, Cleanup, ActiveRestart, ActiveRestore, PullTick,
     EventsReply, ApplyToMemory, ApplyToTables, PullFails, SnapshotSeq, SnapshotSeqUnknown,
     SnapshotMemory, SnapshotFails, InstallMemory, InstallTables, InstallTablesFails, StandbyRestart,
     StandbyLoad, StandbyInstall, PromoteStandby
<1>. QED BY <1>1, <1>2, <1>3

\* While the active stays up its memory has the newest write on every key.
Up == ~required /\ activeRestarts = 0
MemoryIsLatest == Up => restored /\ \A k \in Key : LatestWrite(k)

\* Nothing but a restart makes the memory forget a write.
LEMMA LatestSinceStart == Spec => []MemoryIsLatest
<1>1. Init => MemoryIsLatest
  BY DEF Init, MemoryIsLatest, LatestWrite
<1>2. ASSUME TypeInv, MemoryIsLatest, [Next]_vars PROVE MemoryIsLatest'
  <2>. SUFFICES ASSUME Up' PROVE restored' /\ \A k \in Key : LatestWrite(k)'
    BY DEF MemoryIsLatest
  <2>0. Up /\ ~ActiveRestart /\ ~required /\ restored /\ \A k \in Key : LatestWrite(k)
    BY <1>2, ModeStays, RestartCounts DEF Up, MemoryIsLatest
  <2>1. CASE UNCHANGED <<amem, history, restored>>
    BY <2>0, <2>1 DEF LatestWrite
  <2>2. ASSUME NEW w \in Writer, NEW k \in Key, NEW remove \in BOOLEAN, BeginWrite(w, k, remove)
        PROVE  restored' /\ \A c \in Key : LatestWrite(c)'
    <3>1. restored'
      BY <2>2 DEF BeginWrite
    <3>. QED BY <1>2, <2>0, <2>2, <3>1, BeginLatest
  <2>3. ASSUME NEW w \in Writer, EndWrite(w) PROVE UNCHANGED <<amem, history, restored>>
    BY <2>0, <2>3 DEF EndWrite, CommitsFirst
  <2>4. ASSUME NEW w \in Writer, AffinityCommitFails(w) PROVE FALSE
    BY <2>0, <2>4 DEF AffinityCommitFails
  <2>5. BackgroundWrite \/ BackgroundWriteFails => UNCHANGED <<amem, history, restored>>
    BY DEF BackgroundWrite, BackgroundWriteFails
  <2>6. ~ActiveRestore
    BY <2>0 DEF ActiveRestore
  <2>. QED BY <1>2, <2>0, <2>1, <2>2, <2>3, <2>4, <2>5, <2>6, ActiveStep
<1>3. TypeInv /\ MemoryIsLatest /\ [Next]_vars => MemoryIsLatest'
  BY <1>2
<1>. QED BY <1>1, <1>3, TypeCorrect, PTL DEF Spec

\* What the standby has, while the active stays up: its tables have what the checkpoint
\* says, a snapshot has what it stands for and what the checkpoint says, and so has the
\* memory until the standby is restarted, one event ahead of the tables for a moment.
TablesHave == HasAll(alog, history, sdb, applied)
SnapshotHas ==
    pull \in {"install", "store"} =>
        HasAll(alog, history, snap.mem, applied) /\ HasAll(alog, history, snap.mem, snap.seq)
MemoryHas ==
    standbyRestarts = 0 =>
        /\ loading.step = "done" /\ HasAll(alog, history, smem, applied)
        /\ pull = "commit" => HasAll(alog, history, smem, applied + 1)
        /\ pull = "store" => smem = snap.mem
Honest == TablesHave /\ SnapshotHas /\ MemoryHas

\* Putting the event after the checkpoint gives a table that has it too.
LEMMA PutHas ==
    ASSUME TypeInv, PullInv, pull \in {"apply", "commit"}, NEW table \in Table,
           HasAll(alog, history, table, applied)
    PROVE  HasAll(alog, history, Put(table, Head(batch)), applied + 1)
<1>. DEFINE e == Head(batch)
            n == applied + 1
<1>0. /\ alog \in Seq(Event) /\ history \in Seq(Event) /\ applied \in Nat /\ batch \in Seq(Event)
      /\ batch # <<>>
  BY DEF TypeInv, TypeOK, BatchWaits
<1>1. e = alog[n] /\ n \in 1..Len(alog) /\ e \in Event /\ e.key \in Key
  <2>1. Len(batch) >= 1 /\ Len(batch) \in Nat /\ e = batch[1] /\ e \in Event
    BY <1>0
  <2>2. applied + Len(batch) <= Len(alog) /\ batch[1] = alog[applied + 1]
    BY <2>1 DEF PullInv, BatchIsLog
  <2>3. n \in 1..Len(alog)
    BY <1>0, <2>1, <2>2
  <2>. QED BY <2>1, <2>2, <2>3 DEF Event
<1>. HIDE DEF e
<1>2. Put(table, e)[e.key] = e.val /\ \A k \in Key : k # e.key => Put(table, e)[k] = table[k]
  BY <1>1 DEF Put, Table
<1>. SUFFICES ASSUME NEW s \in 1..n PROVE Has(alog, history, Put(table, e), s)
  BY DEF HasAll, e
<1>3. s \in 1..Len(alog)
  BY <1>0, <1>1
<1>4. alog[s].key \in Key
  <2>1. alog[s] \in Event
    BY <1>0, <1>3
  <2>. QED BY <2>1 DEF Event
<1>5. CASE alog[s].key = e.key
  <2>1. n \in s .. Len(alog)
    BY <1>0, <1>1
  <2>2. alog[n].key = alog[s].key /\ alog[n].val = Put(table, e)[alog[s].key]
    BY <1>1, <1>2, <1>5
  <2>. QED BY <2>1, <2>2 DEF Has
<1>6. CASE alog[s].key # e.key
  <2>1. s \in 1..applied
    BY <1>0, <1>1, <1>6
  <2>2. Has(alog, history, table, s)
    BY <2>1 DEF HasAll
  <2>3. Put(table, e)[alog[s].key] = table[alog[s].key]
    BY <1>2, <1>4, <1>6
  <2>. QED BY <2>2, <2>3 DEF Has
<1>. QED BY <1>5, <1>6

\* A table with the first events has any fewer of them.
LEMMA HasFewer ==
    ASSUME NEW log, NEW writes, NEW table, NEW n \in Nat, NEW m \in 0..n, HasAll(log, writes, table, n)
    PROVE  HasAll(log, writes, table, m)
BY DEF HasAll

\* Every step keeps the standby honest while the active is up.
LEMMA HonestStep ==
    ASSUME TypeInv, PullInv, FromHistory, MemoryIsLatest, Up, Honest, [Next]_vars, ~ActiveRestart
    PROVE  Honest'
<1>0. /\ alog \in Seq(Event) /\ applied \in Nat /\ snap \in [seq : Nat, mem : Table] /\ smem \in Table
      /\ sdb \in Table /\ amem \in Table /\ applied <= Len(alog) /\ snap.seq \in Nat
  BY DEF TypeInv, TypeOK, PullInv, CheckpointBounded
<1>a. ASSUME NEW table, NEW n \in 0..Len(alog), HasAll(alog, history, table, n)
      PROVE  HasAll(alog', history', table, n)
  BY <1>a, HasAllStays
<1>b. /\ applied \in 0..Len(alog) /\ (pull \in {"install", "store"} => snap.seq \in 0..Len(alog))
      /\ pull = "commit" => applied + 1 \in 0..Len(alog)
  <2>1. ASSUME pull = "commit" PROVE applied + 1 \in 0..Len(alog)
    <3>1. batch \in Seq(Event) /\ batch # <<>>
      BY <2>1 DEF TypeInv, TypeOK, BatchWaits
    <3>2. Len(batch) \in Nat /\ Len(batch) >= 1
      BY <3>1
    <3>3. applied + Len(batch) <= Len(alog)
      BY <2>1 DEF PullInv, BatchIsLog
    <3>. QED BY <1>0, <3>2, <3>3
  <2>. QED BY <1>0, <2>1 DEF PullInv, SnapBounded
<1>c. /\ HasAll(alog', history', sdb, applied)
      /\ pull \in {"install", "store"} =>
           HasAll(alog', history', snap.mem, applied) /\ HasAll(alog', history', snap.mem, snap.seq)
      /\ standbyRestarts = 0 => HasAll(alog', history', smem, applied)
      /\ standbyRestarts = 0 /\ pull = "commit" => HasAll(alog', history', smem, applied + 1)
  BY <1>a, <1>b DEF Honest, TablesHave, SnapshotHas, MemoryHas
<1>d. standbyRestarts' = 0 => standbyRestarts = 0 /\ ~StandbyRestart
  BY RestartCounts
<1>e. ASSUME HasAll(alog', history', sdb', applied'),
             pull' \in {"install", "store"} =>
               /\ HasAll(alog', history', snap'.mem, applied')
               /\ HasAll(alog', history', snap'.mem, snap'.seq),
             standbyRestarts' = 0 => /\ loading'.step = "done" /\ HasAll(alog', history', smem', applied')
                                     /\ (pull' = "commit" => HasAll(alog', history', smem', applied' + 1))
                                     /\ (pull' = "store" => smem' = snap'.mem)
      PROVE  Honest'
  BY <1>e DEF Honest, TablesHave, SnapshotHas, MemoryHas, HasAll, Has
<1>1. CASE UNCHANGED <<smem, sdb, applied, pullVars, loading>>
  BY <1>1, <1>c, <1>d, <1>e DEF pullVars, Honest, MemoryHas
<1>2. CASE PullTick \/ PullFails \/ SnapshotFails \/ EventsReply \/ SnapshotSeq \/ SnapshotSeqUnknown
  <2>1. UNCHANGED <<smem, sdb, applied, loading>> /\ pull' \notin {"install", "store", "commit"}
    BY <1>2 DEF PullTick, PullFails, SnapshotFails, EventsReply, SnapshotSeq, SnapshotSeqUnknown
  <2>. QED BY <1>c, <1>d, <1>e, <2>1 DEF Honest, MemoryHas
<1>3. CASE ApplyToMemory
  <2>1. /\ pull = "apply" /\ smem' = Put(smem, Head(batch)) /\ UNCHANGED <<alog, history, sdb, applied, loading>>
        /\ pull' = "commit"
    BY <1>3 DEF ApplyToMemory, activeVars
  <2>2. standbyRestarts = 0 => HasAll(alog', history', smem', applied') /\ HasAll(alog', history', smem', applied' + 1)
    <3>1. ASSUME standbyRestarts = 0
          PROVE  /\ HasAll(alog, history, Put(smem, Head(batch)), applied)
                 /\ HasAll(alog, history, Put(smem, Head(batch)), applied + 1)
      <4>1. HasAll(alog, history, Put(smem, Head(batch)), applied + 1)
        BY <1>0, <2>1, <3>1, PutHas DEF Honest, MemoryHas
      <4>. QED BY <1>0, <4>1, HasFewer
    <3>. QED BY <2>1, <3>1
  <2>. QED BY <1>c, <1>d, <1>e, <2>1, <2>2 DEF Honest, MemoryHas
<1>4. CASE ApplyToTables
  <2>1. /\ pull = "commit" /\ sdb' = Put(sdb, Head(batch)) /\ applied' = applied + 1
        /\ UNCHANGED <<alog, history, smem, loading>> /\ pull' \in {"idle", "apply"}
    BY <1>4 DEF ApplyToTables, activeVars
  <2>2. HasAll(alog', history', sdb', applied')
    BY <1>0, <2>1, PutHas DEF Honest, TablesHave
  <2>. QED BY <1>c, <1>d, <1>e, <2>1, <2>2 DEF Honest, MemoryHas
<1>5. CASE SnapshotMemory
  <2>1. /\ pull = "snapSeq" /\ pull' = "install" /\ snap' = [snap EXCEPT !.mem = amem]
        /\ UNCHANGED <<alog, history, smem, sdb, applied, loading>>
    BY <1>5 DEF SnapshotMemory, activeVars
  <2>2. snap'.mem = amem /\ snap'.seq = snap.seq
    BY <1>0, <2>1
  <2>3. HasAll(alog, history, amem, Len(alog))
    <3>1. ASSUME NEW s \in 1..Len(alog) PROVE Has(alog, history, amem, s)
      <4>1. alog[s] \in Event
        BY <1>0
      <4>2. LatestWrite(alog[s].key)
        BY <4>1 DEF MemoryIsLatest, Event
      <4>. QED BY <4>2, LatestHas
    <3>. QED BY <3>1 DEF HasAll
  <2>4. snap.seq \in 0..Len(alog) /\ Len(alog) \in Nat
    BY <1>0, <2>1 DEF PullInv, SnapBounded
  <2>5. HasAll(alog, history, amem, applied) /\ HasAll(alog, history, amem, snap.seq)
    BY <1>b, <2>3, <2>4, HasFewer
  <2>. QED BY <1>c, <1>d, <1>e, <2>1, <2>2, <2>5 DEF Honest, MemoryHas
<1>6. CASE InstallMemory
  <2>1. /\ pull = "install" /\ pull' = "store" /\ smem' = snap.mem
        /\ UNCHANGED <<alog, history, sdb, applied, snap, loading>>
    BY <1>6 DEF InstallMemory, activeVars
  <2>. QED BY <1>c, <1>d, <1>e, <2>1 DEF Honest, MemoryHas
<1>7. CASE InstallTables
  <2>1. /\ pull = "store" /\ pull' = "idle" /\ sdb' = snap.mem /\ applied' = snap.seq
        /\ UNCHANGED <<alog, history, smem, loading>>
    BY <1>7 DEF InstallTables, activeVars
  <2>. QED BY <1>c, <1>d, <1>e, <2>1 DEF Honest, MemoryHas
<1>8. CASE InstallTablesFails
  <2>1. pull' = "idle" /\ UNCHANGED <<alog, history, smem, sdb, applied, loading>>
    BY <1>8 DEF InstallTablesFails, activeVars
  <2>. QED BY <1>c, <1>d, <1>e, <2>1 DEF Honest, MemoryHas
<1>9. CASE StandbyRestart
  <2>1. pull' = "idle" /\ UNCHANGED <<alog, history, sdb, applied>>
    BY <1>9 DEF StandbyRestart, activeVars
  <2>. QED BY <1>9, <1>c, <1>d, <1>e, <2>1
<1>10. CASE StandbyLoad \/ StandbyInstall
  <2>1. UNCHANGED <<alog, history, sdb, applied, pull, snap>> /\ loading.step # "done"
    BY <1>10 DEF StandbyLoad, StandbyInstall, activeVars, pullVars
  <2>. QED BY <1>c, <1>d, <1>e, <2>1 DEF Honest, MemoryHas
<1>11. \/ UNCHANGED <<smem, sdb, applied, pullVars, loading>>
       \/ PullTick \/ PullFails \/ SnapshotFails \/ EventsReply \/ ApplyToMemory \/ ApplyToTables
       \/ SnapshotSeq \/ SnapshotSeqUnknown \/ SnapshotMemory \/ InstallMemory
       \/ InstallTables \/ InstallTablesFails \/ StandbyRestart \/ StandbyLoad \/ StandbyInstall
  BY DEF Next, WriterStep, PullStep, LoadStep, vars, standbyVars, pullVars, BeginWrite, EndWrite,
     AffinityCommitFails, BackgroundWrite, BackgroundWriteFails, Cleanup, ActiveRestore, PromoteStandby
<1>. QED BY <1>1, <1>2, <1>3, <1>4, <1>5, <1>6, <1>7, <1>8, <1>9, <1>10, <1>11

\* While the active stays up the standby has what its checkpoint says.
LEMMA HonestSinceStart == Spec => [](Up => Honest)
<1>1. Init => Honest
  BY DEF Init, Honest, TablesHave, SnapshotHas, MemoryHas, HasAll, NoLoad
<1>2. TypeInv /\ PullInv /\ FromHistory /\ MemoryIsLatest /\ (Up => Honest) /\ [Next]_vars
      => (Up => Honest)'
  BY HonestStep, RestartCounts, ModeStays DEF Up
<1>. QED BY <1>1, <1>2, TypeCorrect, PullInOrder, EventsAreWrites, LatestSinceStart, PTL DEF Spec

\* While the active stays up, every event that the standby's checkpoint says is applied is
\* in its tables, or something later on the key: through event batches, snapshots that
\* pair memory with an older position, purges, lost requests, failed transactions, lost
\* background batches, writers that overtake each other and restarts of the standby.
THEOREM CheckpointIsHonest == Spec => []HonestWhileUp
<1>1. TypeInv /\ (Up => Honest) => HonestWhileUp
  BY HasAllCovers DEF Up, Honest, TablesHave, HonestWhileUp, CheckpointHonest, TypeInv, TypeOK
<1>. QED BY <1>1, TypeCorrect, HonestSinceStart, PTL

\* The same of the standby's memory, until one of the nodes is restarted.
THEOREM MemoryIsHonest == Spec => []MemoryHonest
<1>1. TypeInv /\ (Up => Honest) => MemoryHonest
  BY HasAllCovers DEF Up, Honest, MemoryHas, MemoryHonest, TypeInv, TypeOK
<1>. QED BY <1>1, TypeCorrect, HonestSinceStart, PTL
=============================================================================
