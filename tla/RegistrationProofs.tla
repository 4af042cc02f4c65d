------------------------- MODULE RegistrationProofs -------------------------
(***************************************************************************)
(* Proofs about Registration: for any devices, registrars, tasks and       *)
(* readers, the counter of the affinity table is its size; while no client *)
(* gives up, what the last answer said is what lookups find; and a         *)
(* device's affinity names the registrar that accepted its contact.        *)
(***************************************************************************)
EXTENDS Registration, FiniteSetTheorems, WellFoundedInduction, TLAPS

-----------------------------------------------------------------------------
(* Types *)

\* The types, variable by variable; the counter's follows from LenIsSize.
Request == [dev : Device, expires : {0, Grant}, up : Upstream]
Reply == [code : {"none", "2xx", "other"}, granted : 0..Grant, others : BOOLEAN]
Job == [pc : {"idle", "take", "affinity", "contact", "relay"}, num : 0..MaxRegister, key : 0..2]
Types ==
    /\ now \in 0..MaxTime /\ last \in [Device -> 0..MaxRegister] /\ waiting \subseteq Device
    /\ sent \in Seq(Request) /\ Len(sent) <= MaxRegister
    /\ atRegistrar \subseteq Number /\ registered \in [Device -> 0..MaxTime + Grant]
    /\ accepted \in [Number -> Reply] /\ pending \subseteq Number /\ task \in [Task -> Job]
    /\ contacts \in [Key -> Entry] /\ affinity \in [Key -> Entry]
    /\ reader \in [Reader -> Key \cup {NoKey}] /\ lost \subseteq Key /\ giveUps \in 0..MaxGiveUps

\* A REGISTER that has been sent and not answered is with a registrar or with one task,
\* and has its pending entry until the task takes it; a task works on a binding only when
\* a registrar has accepted it.
Works(t) == task[t].pc # "idle"
HeldOnce ==
    /\ \A n \in atRegistrar : n \in 1..Len(sent) /\ n \in pending
    /\ \A t \in Task : Works(t) => /\ task[t].num \in 1..Len(sent) /\ task[t].num \notin atRegistrar
                                   /\ task[t].key \in 1..2
    /\ \A t, u \in Task : Works(t) /\ Works(u) /\ task[t].num = task[u].num => t = u
    /\ \A t \in Task : task[t].pc = "take" => task[t].num \in pending /\ task[t].key = 1
    /\ \A t \in Task : task[t].pc \in {"affinity", "contact"} => accepted[task[t].num].code = "2xx"
    /\ \A t \in Task : task[t].pc = "affinity" => accepted[task[t].num].granted # 0

\* What has been answered: nothing that is still with a registrar or yet to be sent, and
\* with what was asked for when the registrar had no other contact to list.
Answered ==
    /\ \A n \in Number : n > Len(sent) \/ n \in atRegistrar => accepted[n] = NotAnswered
    /\ \A n \in 1..Len(sent) : accepted[n].code = "2xx" /\ ~accepted[n].others =>
           accepted[n].granted = sent[n].expires
    /\ \A d \in Device : last[d] # 0 => last[d] \in 1..Len(sent) /\ sent[last[d]].dev = d
    /\ \A d \in Device : registered[d] <= now + Grant
    /\ \A k \in Key : contacts[k] = NoEntry \/ contacts[k].num \in 1..Len(sent)

\* While every client waits for its answer, what is on its way is its last REGISTER.
InWait(n) == last[sent[n].dev] = n /\ sent[n].dev \in waiting
OneEach == giveUps = 0 => /\ \A n \in atRegistrar : InWait(n)
                          /\ \A t \in Task : Works(t) => InWait(task[t].num)

\* A task has still to store the contact of the device itself.
Yet(d) == \E t \in Task : /\ task[t].pc \in {"take", "affinity", "contact"} /\ task[t].key = 1
                          /\ sent[task[t].num].dev = d
Done(d) == /\ last[d] # 0 /\ last[d] \notin atRegistrar /\ ~Yet(d)
           /\ accepted[last[d]].code = "2xx" /\ ~accepted[last[d]].others
Stored(d) ==
    d \notin lost =>
        IF sent[last[d]].expires = 0 THEN contacts[d] = NoEntry
        ELSE registered[d] > now => contacts[d].num = last[d] /\ contacts[d].expires >= registered[d]
AllStored == giveUps = 0 => \A d \in Device : Done(d) => Stored(d)

\* Between its two writes for a device a task has set the affinity and not the contact.
Halfway(t, d) == /\ task[t].pc = "contact" /\ task[t].key = 1 /\ sent[task[t].num].dev = d
                 /\ accepted[task[t].num].granted # 0
AffinityIs(d, n) == affinity[d] = NoEntry \/ affinity[d].up = sent[n].up
Agreed ==
    giveUps = 0 => \A d \in Device :
        /\ \A t \in Task : Halfway(t, d) => AffinityIs(d, task[t].num)
        /\ (\A t \in Task : ~Halfway(t, d)) /\ d \notin lost /\ contacts[d] # NoEntry
              => AffinityIs(d, contacts[d].num)

\* The bounds as numbers.
LEMMA Bounds == /\ Grant \in Nat /\ Grant > 0 /\ MaxRegister \in Nat /\ MaxRegister > 0
                /\ MaxTime \in Nat /\ MaxGiveUps \in Nat
BY RegistrationAssumption

\* A nonempty set of numbers up to g has a greatest one.
LEMMA HasGreatest ==
  ASSUME NEW g \in Nat, NEW S, S \subseteq 0..g, S # {}
  PROVE  \E x \in S : \A y \in S : y <= x
<1>. DEFINE T == {n \in Nat : \E x \in S : n = g - x}
<1>1. \A x \in S : x \in Nat /\ x <= g
  OBVIOUS
<1>2. T \subseteq Nat /\ T # {}
  <2>1. PICK x \in S : TRUE
    OBVIOUS
  <2>2. g - x \in T
    BY <1>1
  <2>. QED BY <2>2
<1>3. PICK m \in T : \A n \in T : ~(<<n, m>> \in OpToRel(<, Nat))
  BY <1>2, WFMin, NatLessThanWellFounded
<1>4. \A n \in T : ~(n < m)
  BY <1>2, <1>3 DEF OpToRel
<1>5. PICK x \in S : m = g - x
  OBVIOUS
<1>6. ASSUME NEW y \in S PROVE y <= x
  <2>1. g - y \in T
    BY <1>1
  <2>2. ~(g - y < m)
    BY <1>4, <2>1
  <2>. QED BY <1>1, <1>5, <2>2
<1>. QED BY <1>6

\* The longest of the listed contacts is a validity the registrar may grant, and the
\* device's own when no other contact is listed.
LEMMA LongestIs ==
  ASSUME now \in 0..MaxTime, registered \in [Device -> 0..MaxTime + Grant],
         \A e \in Device : registered[e] <= now + Grant,
         NEW d \in Device, NEW own \in {0, Grant}
  PROVE  /\ GrantedExpires(d, own) \in 0..Grant
         /\ ~Others(d) => GrantedExpires(d, own) = own
<1>. DEFINE all == {own} \cup {Left(e, registered[e]) : e \in Device \ {d}}
<1>1. \A e \in Device : Left(e, registered[e]) \in 0..Grant
  BY Bounds DEF Left
<1>2. all \subseteq 0..Grant /\ own \in all
  BY <1>1, Bounds
<1>. DEFINE top == CHOOSE x \in all : \A y \in all : y <= x
<1>3. \E x \in all : \A y \in all : y <= x
  BY <1>2, HasGreatest, Bounds
<1>4. top \in all /\ \A y \in all : y <= top
  BY <1>3
<1>5. GrantedExpires(d, own) = top
  BY DEF GrantedExpires, Longest
<1>6. ASSUME ~Others(d) PROVE top = own
  <2>1. \A e \in Device \ {d} : Left(e, registered[e]) = 0
    BY <1>6, Bounds DEF Others, Left
  <2>2. \A x \in all : x = own \/ x = 0
    BY <2>1
  <2>3. top = own \/ top = 0
    BY <1>4, <2>2
  <2>4. own <= top
    BY <1>2, <1>4
  <2>. QED BY <2>3, <2>4, Bounds
<1>. QED BY <1>2, <1>4, <1>5, <1>6

\* A task's record from its parts.
LEMMA DoingFacts ==
  ASSUME NEW pc \in {"idle", "take", "affinity", "contact", "relay"}, NEW n \in 0..MaxRegister, NEW i \in 0..2
  PROVE  /\ Doing(pc, n, i) \in Job
         /\ Doing(pc, n, i).pc = pc /\ Doing(pc, n, i).num = n /\ Doing(pc, n, i).key = i
BY DEF Doing, Job

\* An entry from its parts.
LEMMA EntryFacts ==
  ASSUME NEW n \in 0..MaxRegister, NEW u \in Upstream \cup {"none"}, NEW e \in Nat
  PROVE  LET x == [num |-> n, up |-> u, expires |-> e] IN
         x \in Entry /\ x.num = n /\ x.up = u /\ x.expires = e
BY DEF Entry

\* There is an entry for nothing.
LEMMA NothingTypes == NoEntry \in Entry /\ NoTask \in Job /\ NotAnswered \in Reply /\ NoTask.pc = "idle"
<1>1. NoEntry \in Entry
  BY EntryFacts, Bounds DEF NoEntry
<1>2. NotAnswered \in Reply
  BY Bounds DEF NotAnswered, Reply
<1>. QED BY <1>1, <1>2, DoingFacts, Bounds DEF NoTask

\* The key a working task is about.
LEMMA KeyOfIs ==
  ASSUME Types, HeldOnce, NEW t \in Task, Works(t)
  PROVE  /\ sent[task[t].num] \in Request /\ task[t].num \in Number
         /\ KeyOf(t) = IF task[t].key = 1 THEN sent[task[t].num].dev ELSE AorKey
         /\ KeyOf(t) \in Key
<1>1. task[t].num \in 1..Len(sent) /\ task[t].key \in 1..2
  BY DEF HeldOnce
<1>2. sent \in Seq(Request) /\ Len(sent) <= MaxRegister /\ Len(sent) \in Nat
  BY DEF Types
<1>3. sent[task[t].num] \in Request /\ task[t].num \in Number
  BY <1>1, <1>2, Bounds DEF Number
<1>. QED BY <1>1, <1>3 DEF KeyOf, KeysOf, Key, Request

\* Pruning leaves an entry or takes it away.
LEMMA PrunedFacts ==
  ASSUME NEW f \in [Key -> Entry]
  PROVE  /\ Pruned(f) \in [Key -> Entry]
         /\ \A k \in Key : Pruned(f)[k] = f[k] \/ Pruned(f)[k] = NoEntry
         /\ \A k \in Key : Live(f[k]) => Pruned(f)[k] = f[k]
BY NothingTypes DEF Pruned

\* The types hold through every step.
LEMMA TypesStep == Types /\ HeldOnce /\ Answered /\ [Next]_vars => Types'
<1>. SUFFICES ASSUME Types, HeldOnce, Answered, [Next]_vars PROVE Types'
  OBVIOUS
<1>0. /\ now \in 0..MaxTime /\ last \in [Device -> 0..MaxRegister] /\ waiting \subseteq Device
      /\ sent \in Seq(Request) /\ Len(sent) \in Nat /\ Len(sent) <= MaxRegister
      /\ atRegistrar \subseteq Number /\ registered \in [Device -> 0..MaxTime + Grant]
      /\ accepted \in [Number -> Reply] /\ pending \subseteq Number /\ task \in [Task -> Job]
      /\ contacts \in [Key -> Entry] /\ affinity \in [Key -> Entry]
      /\ reader \in [Reader -> Key \cup {NoKey}] /\ lost \subseteq Key /\ giveUps \in 0..MaxGiveUps
  BY DEF Types
<1>1. ASSUME NEW d \in Device, Register(d) PROVE Types'
  <2>1. PICK e \in {0, Grant}, u \in Upstream : sent' = Append(sent, [dev |-> d, expires |-> e, up |-> u])
    BY <1>1 DEF Register
  <2>2. [dev |-> d, expires |-> e, up |-> u] \in Request
    BY DEF Request
  <2>3. sent' \in Seq(Request) /\ Len(sent') = Len(sent) + 1 /\ Len(sent) < MaxRegister
    BY <1>0, <1>1, <2>1, <2>2 DEF Register
  <2>4. Len(sent') \in Number /\ Len(sent') \in 0..MaxRegister
    BY <1>0, <2>3, Bounds DEF Number
  <2>5. /\ last' \in [Device -> 0..MaxRegister] /\ waiting' \subseteq Device
        /\ pending' \subseteq Number /\ atRegistrar' \subseteq Number
    BY <1>0, <1>1, <2>4 DEF Register
  <2>6. UNCHANGED <<now, registered, accepted, task, contacts, reader, affinity, lost, giveUps>>
    BY <1>1 DEF Register
  <2>7. Len(sent') <= MaxRegister
    BY <1>0, <2>3, Bounds
  <2>. QED BY <1>0, <2>3, <2>5, <2>6, <2>7 DEF Types
<1>2. ASSUME NEW d \in Device, GiveUp(d) PROVE Types'
  <2>1. giveUps' \in 0..MaxGiveUps
    BY <1>0, <1>2, Bounds DEF GiveUp
  <2>. QED BY <1>0, <1>2, <2>1 DEF GiveUp, Types, registrar
<1>3. ASSUME NEW t \in Task, NEW n \in Number, Answer(t, n) PROVE Types'
  <2>1. n \in 1..Len(sent)
    BY <1>3 DEF Answer, HeldOnce
  <2>2. PICK q \in Request : q = sent[n]
    BY <1>0, <2>1
  <2>3. q.dev \in Device /\ q.expires \in {0, Grant}
    BY <2>2 DEF Request
  <2>4. GrantedExpires(q.dev, q.expires) \in 0..Grant
    BY <1>0, <2>3, LongestIs DEF Answered
  <2>5. Doing("take", n, 1) \in Job
    BY DoingFacts, Bounds DEF Number
  <2>6. task' \in [Task -> Job] /\ atRegistrar' \subseteq Number
    BY <1>0, <1>3, <2>5 DEF Answer
  <2>7. UNCHANGED <<now, clients, pending, contacts, reader, affinity, lost>>
    BY <1>3 DEF Answer
  <2>8. now + q.expires \in 0..MaxTime + Grant
    BY <1>0, <2>3, Bounds
  <2>. DEFINE yes == [code |-> "2xx", granted |-> GrantedExpires(q.dev, q.expires), others |-> Others(q.dev)]
              no == [code |-> "other", granted |-> q.expires, others |-> FALSE]
  <2>9. yes \in Reply /\ no \in Reply
    <3>1. Others(q.dev) \in BOOLEAN
      BY DEF Others
    <3>2. q.expires \in 0..Grant
      BY <2>3, Bounds
    <3>. QED BY <2>4, <3>1, <3>2 DEF Reply
  <2>10. \/ registered' = [registered EXCEPT ![q.dev] = now + q.expires] /\ accepted' = [accepted EXCEPT ![n] = yes]
         \/ registered' = registered /\ accepted' = [accepted EXCEPT ![n] = no]
    BY <1>3, <2>2 DEF Answer
  <2>. HIDE DEF yes, no
  <2>11. registered' \in [Device -> 0..MaxTime + Grant] /\ accepted' \in [Number -> Reply]
    BY <1>0, <2>3, <2>8, <2>9, <2>10
  <2>. QED BY <1>0, <2>6, <2>7, <2>11 DEF Types, clients
<1>4. ASSUME NEW t \in Task, TaskStep(t) PROVE Types'
  <2>0. Works(t)
    BY <1>4 DEF TaskStep, TakePending, RememberAffinity, SubmitContact, SubmitFails, RelayAnswer, Works
  <2>1. /\ task[t].num \in Number /\ task[t].num \in 0..MaxRegister /\ task[t].key \in 0..2
        /\ KeyOf(t) \in Key /\ sent[task[t].num] \in Request
    BY <1>0, <2>0, KeyOfIs DEF Job
  <2>2. PICK n \in Number : n = task[t].num
    BY <2>1
  <2>3. accepted[n] \in Reply /\ sent[n] \in Request
    BY <1>0, <2>1, <2>2
  <2>4. accepted[n].granted \in 0..Grant /\ sent[n].up \in Upstream
    BY <2>3 DEF Reply, Request
  <2>5. now + accepted[n].granted \in Nat
    BY <1>0, <2>4, Bounds
  <2>6. FirstStep(n) \in {"idle", "take", "affinity", "contact", "relay"}
    BY DEF FirstStep
  <2>7. CASE TakePending(t)
    <3>1. PICK pc \in {"idle", "take", "affinity", "contact", "relay"} : task' = [task EXCEPT ![t] = Doing(pc, n, task[t].key)]
      BY <2>2, <2>6, <2>7 DEF TakePending
    <3>2. task' \in [Task -> Job]
      BY <1>0, <2>1, <2>2, <3>1, DoingFacts
    <3>. QED BY <1>0, <2>7, <3>2 DEF TakePending, Types, clients, registrar
  <2>8. CASE RememberAffinity(t)
    <3>1. task' \in [Task -> Job]
      BY <1>0, <2>1, <2>8, DoingFacts DEF RememberAffinity
    <3>2. affinity' = [affinity EXCEPT ![KeyOf(t)] = [num |-> 0, up |-> sent[n].up, expires |-> now + accepted[n].granted]]
      BY <2>2, <2>8 DEF RememberAffinity, RememberKey
    <3>3. [num |-> 0, up |-> sent[n].up, expires |-> now + accepted[n].granted] \in Entry
      BY <2>4, <2>5, EntryFacts, Bounds
    <3>4. affinity' \in [Key -> Entry]
      BY <1>0, <2>1, <3>2, <3>3
    <3>. QED BY <1>0, <2>8, <3>1, <3>4 DEF RememberAffinity, Types, clients, registrar
  <2>9. CASE SubmitContact(t)
    <3>1. PICK pc \in {"idle", "take", "affinity", "contact", "relay"} : task' = [task EXCEPT ![t] = Doing(pc, n, 2)]
      BY <2>2, <2>6, <2>9 DEF SubmitContact, NextBinding
    <3>2. task' \in [Task -> Job]
      BY <1>0, <2>1, <2>2, <3>1, DoingFacts
    <3>3. [num |-> n, up |-> "none", expires |-> now + accepted[n].granted] \in Entry
      BY <2>1, <2>2, <2>5, EntryFacts
    <3>4. EntryOf(n, KeyOf(t)) \in Entry
      BY <3>3, NothingTypes DEF EntryOf
    <3>5. contacts' \in [Key -> Entry]
      BY <1>0, <2>1, <2>2, <2>9, <3>4 DEF SubmitContact
    <3>. QED BY <1>0, <2>9, <3>2, <3>5 DEF SubmitContact, Types, clients, registrar
  <2>10. CASE SubmitFails(t)
    <3>1. PICK pc \in {"idle", "take", "affinity", "contact", "relay"} : task' = [task EXCEPT ![t] = Doing(pc, n, 2)]
      BY <2>2, <2>6, <2>10 DEF SubmitFails, NextBinding
    <3>2. task' \in [Task -> Job]
      BY <1>0, <2>1, <2>2, <3>1, DoingFacts
    <3>. QED BY <1>0, <2>1, <2>10, <3>2 DEF SubmitFails, Types, clients, registrar
  <2>11. CASE RelayAnswer(t)
    BY <1>0, <2>11, NothingTypes DEF RelayAnswer, Finish, Types, registrar
  <2>. QED BY <1>4, <2>7, <2>8, <2>9, <2>10, <2>11 DEF TaskStep
<1>5. ASSUME NEW k \in Key, LookupAffinity(k) PROVE Types'
  <2>1. PICK shard \in SUBSET Key : affinity' = [j \in Key |-> IF j \in shard THEN Pruned(affinity)[j] ELSE affinity[j]]
    BY <1>5 DEF LookupAffinity, ShardsOf
  <2>2. affinity' \in [Key -> Entry]
    BY <1>0, <2>1, PrunedFacts
  <2>. QED BY <1>0, <1>5, <2>2 DEF LookupAffinity, Types, clients, registrar
<1>6. ASSUME NEW r \in Reader, NEW k \in Key, LookupExpired(r, k) PROVE Types'
  BY <1>0, <1>6 DEF LookupExpired, Types, clients, registrar
<1>7. ASSUME NEW r \in Reader, ClearExpired(r) PROVE Types'
  <2>1. reader[r] \in Key
    BY <1>0, <1>7 DEF ClearExpired
  <2>. QED BY <1>0, <1>7, <2>1, NothingTypes DEF ClearExpired, Types, clients, registrar
<1>8. CASE PruneContacts
  BY <1>0, <1>8, PrunedFacts DEF PruneContacts, Types, clients, registrar
<1>9. CASE Tick
  <2>1. now' \in 0..MaxTime
    BY <1>0, <1>9, Bounds DEF Tick
  <2>. QED BY <1>0, <1>9, <2>1 DEF Tick, Types, clients, registrar
<1>10. CASE UNCHANGED vars
  BY <1>0, <1>10 DEF vars, clients, registrar, Types
<1>. QED BY <1>1, <1>2, <1>3, <1>4, <1>5, <1>6, <1>7, <1>8, <1>9, <1>10 DEF Next

-----------------------------------------------------------------------------
(* What each step does *)

\* Lookups, pruning and time leave the clients, the registrars and the tasks alone.
Quiet == UNCHANGED <<clients, registrar, pending, task>>
Lookups == \/ \E k \in Key : LookupAffinity(k)
           \/ \E r \in Reader, k \in Key : LookupExpired(r, k)
           \/ \E r \in Reader : ClearExpired(r)
           \/ PruneContacts \/ Tick \/ UNCHANGED vars

\* The steps are a REGISTER, a client that gives up, an answer, a task's step, or quiet.
LEMMA StepCases ==
  ASSUME [Next]_vars
  PROVE  \/ \E d \in Device : Register(d)
         \/ \E d \in Device : GiveUp(d)
         \/ \E t \in Task, n \in Number : Answer(t, n)
         \/ \E t \in Task : TaskStep(t)
         \/ Lookups /\ Quiet
<1>1. Lookups => Quiet
  BY DEF Lookups, Quiet, LookupAffinity, LookupExpired, ClearExpired, PruneContacts, Tick, vars
<1>. QED BY <1>1 DEF Next, Lookups

\* A REGISTER gets the next number and waits at a registrar.
LEMMA RegisterDoes ==
  ASSUME Types, NEW d \in Device, Register(d)
  PROVE  LET n == Len(sent) + 1 IN
         /\ d \notin waiting /\ n \in Number /\ Len(sent') = n /\ sent'[n].dev = d
         /\ \A i \in 1..Len(sent) : sent'[i] = sent[i]
         /\ atRegistrar' = atRegistrar \cup {n} /\ pending' = pending \cup {n}
         /\ waiting' = waiting \cup {d} /\ last'[d] = n /\ \A e \in Device \ {d} : last'[e] = last[e]
         /\ UNCHANGED <<now, registered, accepted, task, contacts, reader, affinity, len, lost, giveUps>>
<1>0. /\ sent \in Seq(Request) /\ Len(sent) \in Nat /\ Len(sent) <= MaxRegister
      /\ last \in [Device -> 0..MaxRegister]
  BY DEF Types
<1>1. PICK e \in {0, Grant}, u \in Upstream : sent' = Append(sent, [dev |-> d, expires |-> e, up |-> u])
  BY DEF Register
<1>2. PICK q : q = [dev |-> d, expires |-> e, up |-> u]
  OBVIOUS
<1>3. q \in Request /\ q.dev = d
  BY <1>2 DEF Request
<1>4. sent' = Append(sent, q)
  BY <1>1, <1>2
<1>5. /\ Len(sent') = Len(sent) + 1 /\ sent'[Len(sent) + 1] = q
      /\ \A i \in 1..Len(sent) : sent'[i] = sent[i]
  BY <1>0, <1>3, <1>4
<1>6. Len(sent) + 1 \in Number
  BY <1>0, Bounds DEF Register, Number
<1>. QED BY <1>0, <1>3, <1>5, <1>6 DEF Register

\* An answer goes from the registrar to an idle task.
LEMMA AnswerDoes ==
  ASSUME Types, HeldOnce, Answered, NEW t \in Task, NEW n \in Number, Answer(t, n)
  PROVE  /\ task[t].pc = "idle" /\ n \in atRegistrar /\ n \in 1..Len(sent) /\ sent[n] \in Request
         /\ atRegistrar' = atRegistrar \ {n}
         /\ task'[t].pc = "take" /\ task'[t].num = n /\ task'[t].key = 1
         /\ \A u \in Task \ {t} : task'[u] = task[u]
         /\ \A m \in Number \ {n} : accepted'[m] = accepted[m]
         /\ accepted'[n].code = "2xx" /\ ~accepted'[n].others => accepted'[n].granted = sent[n].expires
         /\ accepted'[n].code = "2xx" => registered' = [registered EXCEPT ![sent[n].dev] = now + sent[n].expires]
         /\ accepted'[n].code # "2xx" => registered' = registered
         /\ UNCHANGED <<now, clients, pending, contacts, reader, affinity, len, lost>>
<1>0. /\ now \in 0..MaxTime /\ sent \in Seq(Request) /\ registered \in [Device -> 0..MaxTime + Grant]
      /\ accepted \in [Number -> Reply] /\ task \in [Task -> Job]
  BY DEF Types
<1>1. n \in 1..Len(sent) /\ n \in atRegistrar /\ task[t].pc = "idle" /\ atRegistrar' = atRegistrar \ {n}
  BY DEF Answer, HeldOnce
<1>2. PICK q \in Request : q = sent[n]
  BY <1>0, <1>1
<1>3. q.dev \in Device /\ q.expires \in {0, Grant}
  BY <1>2 DEF Request
<1>4. ~Others(q.dev) => GrantedExpires(q.dev, q.expires) = q.expires
  BY <1>0, <1>3, LongestIs DEF Answered
<1>. DEFINE yes == [code |-> "2xx", granted |-> GrantedExpires(q.dev, q.expires), others |-> Others(q.dev)]
            no == [code |-> "other", granted |-> q.expires, others |-> FALSE]
<1>5. /\ yes.code = "2xx" /\ (~yes.others => yes.granted = q.expires)
      /\ no.code = "other"
  BY <1>4
<1>6. \/ registered' = [registered EXCEPT ![q.dev] = now + q.expires] /\ accepted' = [accepted EXCEPT ![n] = yes]
      \/ registered' = registered /\ accepted' = [accepted EXCEPT ![n] = no]
  BY <1>2 DEF Answer
<1>. HIDE DEF yes, no
<1>7. \/ registered' = [registered EXCEPT ![q.dev] = now + q.expires] /\ accepted'[n] = yes
      \/ registered' = registered /\ accepted'[n] = no
  BY <1>0, <1>6
<1>8. /\ accepted'[n].code = "2xx" /\ ~accepted'[n].others => accepted'[n].granted = sent[n].expires
      /\ accepted'[n].code = "2xx" => registered' = [registered EXCEPT ![sent[n].dev] = now + sent[n].expires]
      /\ accepted'[n].code # "2xx" => registered' = registered
  BY <1>2, <1>5, <1>7
<1>9. \A m \in Number \ {n} : accepted'[m] = accepted[m]
  BY <1>0, <1>6
<1>10. PICK j : j = Doing("take", n, 1) /\ j.pc = "take" /\ j.num = n /\ j.key = 1
  BY DoingFacts, Bounds DEF Number
<1>11. task' = [task EXCEPT ![t] = j]
  BY <1>10 DEF Answer
<1>12. task'[t] = j /\ \A u \in Task \ {t} : task'[u] = task[u]
  BY <1>0, <1>11
<1>13. UNCHANGED <<now, clients, pending, contacts, reader, affinity, len, lost>>
  BY DEF Answer
<1>. QED BY <1>1, <1>2, <1>8, <1>9, <1>10, <1>12, <1>13

\* A task's step moves that task only, on with its answer or to rest.
LEMMA TaskDoes ==
  ASSUME Types, HeldOnce, NEW t \in Task, TaskStep(t)
  PROVE  /\ Works(t) /\ \A u \in Task \ {t} : task'[u] = task[u]
         /\ UNCHANGED <<now, last, sent, giveUps, registrar, reader>>
         /\ ~RelayAnswer(t) => /\ Works(t)' /\ task'[t].num = task[t].num /\ waiting' = waiting
                               /\ task'[t].pc # "take"
         /\ TakePending(t) => /\ task[t].pc = "take" /\ task'[t].key = 1 /\ pending' = pending \ {task[t].num}
                              /\ task'[t].pc = (IF Applies(task[t].num) THEN FirstStep(task[t].num) ELSE "relay")
                              /\ UNCHANGED <<contacts, affinity, len, lost>>
         /\ RememberAffinity(t) => /\ task[t].pc = "affinity" /\ task'[t].key = task[t].key /\ task'[t].pc = "contact"
                                   /\ UNCHANGED <<pending, contacts, lost>>
         /\ SubmitContact(t) \/ SubmitFails(t) =>
                /\ task[t].pc = "contact" /\ task'[t].key = 2 /\ UNCHANGED <<pending, affinity, len>>
                /\ task'[t].pc = (IF task[t].key = 2 THEN "relay" ELSE FirstStep(task[t].num))
         /\ SubmitFails(t) => UNCHANGED contacts
         /\ RelayAnswer(t) => /\ task[t].pc = "relay" /\ task'[t].pc = "idle"
                              /\ waiting' = (IF last[sent[task[t].num].dev] = task[t].num
                                               THEN waiting \ {sent[task[t].num].dev} ELSE waiting)
                              /\ UNCHANGED <<pending, contacts, affinity, len, lost>>
<1>0. Works(t) /\ task \in [Task -> Job] /\ task[t].num \in 0..MaxRegister /\ task[t].key \in 1..2
      /\ (task[t].pc = "take" => task[t].key = 1)
  <2>1. Works(t) /\ task \in [Task -> Job]
    BY DEF TaskStep, TakePending, RememberAffinity, SubmitContact, SubmitFails, RelayAnswer, Works, Types
  <2>. QED BY <2>1 DEF HeldOnce, Job
<1>1. PICK n \in 0..MaxRegister : n = task[t].num
  BY <1>0
<1>2. PICK i \in 0..2 : i = task[t].key
  BY <1>0
<1>3. FirstStep(n) \in {"affinity", "contact"}
  BY DEF FirstStep
<1>4. ASSUME NEW pc \in {"idle", "take", "affinity", "contact", "relay"}, NEW k \in 0..2,
             task' = [task EXCEPT ![t] = Doing(pc, n, k)]
      PROVE  /\ task'[t].pc = pc /\ task'[t].num = n /\ task'[t].key = k
             /\ \A u \in Task \ {t} : task'[u] = task[u]
  <2>1. task'[t] = Doing(pc, n, k) /\ \A u \in Task \ {t} : task'[u] = task[u]
    BY <1>0, <1>4
  <2>. QED BY <2>1, DoingFacts
<1>5. CASE TakePending(t)
  <2>1. PICK pc \in {"affinity", "contact", "relay"} : pc = IF Applies(n) THEN FirstStep(n) ELSE "relay"
    BY <1>3
  <2>2. task' = [task EXCEPT ![t] = Doing(pc, n, i)]
    BY <1>1, <1>2, <1>5, <2>1 DEF TakePending
  <2>3. /\ task'[t].pc = pc /\ task'[t].num = n /\ task'[t].key = i
        /\ \A u \in Task \ {t} : task'[u] = task[u]
    BY <1>4, <2>2
  <2>. QED BY <1>0, <1>1, <1>2, <1>5, <2>1, <2>3 DEF TakePending, RememberAffinity, SubmitContact, SubmitFails, RelayAnswer, Works, clients
<1>6. CASE RememberAffinity(t)
  <2>1. task' = [task EXCEPT ![t] = Doing("contact", n, i)]
    BY <1>1, <1>2, <1>6 DEF RememberAffinity
  <2>2. /\ task'[t].pc = "contact" /\ task'[t].num = n /\ task'[t].key = i
        /\ \A u \in Task \ {t} : task'[u] = task[u]
    BY <1>4, <2>1
  <2>. QED BY <1>0, <1>1, <1>2, <1>6, <2>2 DEF TakePending, RememberAffinity, SubmitContact, SubmitFails, RelayAnswer, Works, clients
<1>7. CASE SubmitContact(t) \/ SubmitFails(t)
  <2>1. PICK pc \in {"affinity", "contact", "relay"} : pc = IF task[t].key = 2 THEN "relay" ELSE FirstStep(n)
    BY <1>3
  <2>2. task' = [task EXCEPT ![t] = Doing(pc, n, 2)]
    BY <1>1, <1>7, <2>1 DEF SubmitContact, SubmitFails, NextBinding
  <2>. PICK k \in 0..2 : k = 2
    OBVIOUS
  <2>3. /\ task'[t].pc = pc /\ task'[t].num = n /\ task'[t].key = 2
        /\ \A u \in Task \ {t} : task'[u] = task[u]
    <3>1. task' = [task EXCEPT ![t] = Doing(pc, n, k)]
      BY <2>2
    <3>. QED BY <1>4, <3>1
  <2>4. UNCHANGED <<now, last, sent, giveUps, registrar, reader, waiting, pending, affinity, len>>
        /\ task[t].pc = "contact" /\ (SubmitFails(t) => UNCHANGED contacts)
    BY <1>7 DEF SubmitContact, SubmitFails, clients
  <2>5. ~TakePending(t) /\ ~RememberAffinity(t) /\ ~RelayAnswer(t)
    BY <2>4 DEF TakePending, RememberAffinity, RelayAnswer
  <2>. QED BY <1>0, <1>1, <1>7, <2>1, <2>3, <2>4, <2>5 DEF Works
<1>8. CASE RelayAnswer(t)
  <2>1. task'[t] = NoTask /\ \A u \in Task \ {t} : task'[u] = task[u]
    BY <1>0, <1>8 DEF RelayAnswer, Finish
  <2>2. task[t].pc = "relay" /\ task'[t].pc = "idle"
    BY <1>8, <2>1, NothingTypes DEF RelayAnswer
  <2>3. ~TakePending(t) /\ ~RememberAffinity(t) /\ ~SubmitContact(t) /\ ~SubmitFails(t)
    BY <2>2 DEF TakePending, RememberAffinity, SubmitContact, SubmitFails
  <2>. QED BY <1>0, <1>8, <2>1, <2>2, <2>3 DEF RelayAnswer
<1>. QED BY <1>5, <1>6, <1>7, <1>8 DEF TaskStep

-----------------------------------------------------------------------------
(* Who has an answer in hand *)

\* HeldOnce holds through every step.
LEMMA HeldOnceStep == Types /\ HeldOnce /\ Answered /\ [Next]_vars => HeldOnce'
<1>. SUFFICES ASSUME Types, HeldOnce, Answered, [Next]_vars PROVE HeldOnce'
  OBVIOUS
<1>0. /\ Len(sent) \in Nat /\ atRegistrar \subseteq Number /\ task \in [Task -> Job]
      /\ \A t \in Task : task[t].num \in 0..MaxRegister
  BY DEF Types, Job
<1>1. ASSUME NEW d \in Device, Register(d) PROVE HeldOnce'
  <2>1. PICK n : n = Len(sent) + 1
    OBVIOUS
  <2>2. /\ Len(sent') = n /\ task' = task /\ accepted' = accepted
        /\ atRegistrar' = atRegistrar \cup {n} /\ pending' = pending \cup {n}
    BY <1>1, <2>1, RegisterDoes
  <2>3. 1..Len(sent) \subseteq 1..Len(sent') /\ n \in 1..Len(sent') /\ n \notin 1..Len(sent)
    BY <1>0, <2>1, <2>2
  <2>. QED BY <2>2, <2>3 DEF HeldOnce, Works
<1>2. ASSUME NEW d \in Device, GiveUp(d) PROVE HeldOnce'
  BY <1>2 DEF GiveUp, HeldOnce, Works, registrar
<1>3. ASSUME NEW t \in Task, NEW n \in Number, Answer(t, n) PROVE HeldOnce'
  <2>1. /\ task[t].pc = "idle" /\ n \in atRegistrar /\ n \in 1..Len(sent)
        /\ atRegistrar' = atRegistrar \ {n} /\ UNCHANGED <<sent, pending>>
        /\ task'[t].pc = "take" /\ task'[t].num = n /\ task'[t].key = 1
        /\ \A u \in Task \ {t} : task'[u] = task[u]
        /\ \A m \in Number \ {n} : accepted'[m] = accepted[m]
    BY <1>3, AnswerDoes DEF clients
  <2>2. \A u \in Task : Works(u) => task[u].num \in Number \ {n}
    BY <2>1, <1>0, Bounds DEF HeldOnce, Types, Number
  <2>3. \A u \in Task \ {t} : Works(u)' => /\ Works(u) /\ task'[u] = task[u] /\ task[u].num # n
                                           /\ accepted'[task[u].num] = accepted[task[u].num]
    BY <2>1, <2>2 DEF Works
  <2>4. ~Works(t) /\ Works(t)'
    BY <2>1 DEF Works
  <2>5. \A m \in atRegistrar' : (m \in 1..Len(sent) /\ m \in pending)'
    BY <2>1 DEF HeldOnce
  <2>6. \A u \in Task : Works(u)' => (task[u].num \in 1..Len(sent) /\ task[u].num \notin atRegistrar /\ task[u].key \in 1..2)'
    BY <2>1, <2>3 DEF HeldOnce
  <2>7. \A u, v \in Task : Works(u)' /\ Works(v)' /\ task'[u].num = task'[v].num => u = v
    BY <2>1, <2>3 DEF HeldOnce
  <2>8. \A u \in Task : task'[u].pc = "take" => (task[u].num \in pending /\ task[u].key = 1)'
    BY <2>1, <2>3 DEF HeldOnce
  <2>9. \A u \in Task : task'[u].pc \in {"affinity", "contact"} => (accepted[task[u].num].code = "2xx")'
    BY <2>1, <2>3 DEF HeldOnce, Works
  <2>10. \A u \in Task : task'[u].pc = "affinity" => (accepted[task[u].num].granted # 0)'
    BY <2>1, <2>3 DEF HeldOnce, Works
  <2>. QED BY <2>5, <2>6, <2>7, <2>8, <2>9, <2>10 DEF HeldOnce, Works
<1>4. ASSUME NEW t \in Task, TaskStep(t) PROVE HeldOnce'
  <2>1. Works(t) /\ (\A u \in Task \ {t} : task'[u] = task[u]) /\ UNCHANGED <<sent, atRegistrar, accepted>>
    BY <1>4, TaskDoes DEF registrar
  <2>2. /\ \A u \in Task \ {t} : Works(u)' = Works(u) /\ (Works(u) => task[u].num # task[t].num)
    BY <2>1 DEF HeldOnce, Works
  <2>3. Works(t)' => task'[t].num = task[t].num /\ task'[t].key \in 1..2 /\ task'[t].pc # "take"
    BY <1>4, TaskDoes DEF TaskStep, Works, HeldOnce
  <2>4. pending' = pending \/ pending' = pending \ {task[t].num}
    BY <1>4, TaskDoes DEF TaskStep
  <2>5. \A m \in atRegistrar' : (m \in 1..Len(sent) /\ m \in pending)'
    BY <2>1, <2>4 DEF HeldOnce
  <2>6. \A u \in Task : Works(u)' => (task[u].num \in 1..Len(sent) /\ task[u].num \notin atRegistrar /\ task[u].key \in 1..2)'
    BY <2>1, <2>2, <2>3 DEF HeldOnce
  <2>7. \A u, v \in Task : Works(u)' /\ Works(v)' /\ task'[u].num = task'[v].num => u = v
    BY <2>1, <2>2, <2>3 DEF HeldOnce
  <2>8. \A u \in Task : task'[u].pc = "take" => (task[u].num \in pending /\ task[u].key = 1)'
    BY <2>1, <2>2, <2>3, <2>4 DEF HeldOnce, Works
  <2>9. task'[t].pc \in {"affinity", "contact"} => accepted[task[t].num].code = "2xx"
    BY <1>4, TaskDoes DEF TaskStep, HeldOnce, Applies
  <2>10. task'[t].pc = "affinity" => accepted[task[t].num].granted # 0
    BY <1>4, TaskDoes DEF TaskStep, HeldOnce, FirstStep
  <2>11. \A u \in Task : task'[u].pc \in {"affinity", "contact"} => (accepted[task[u].num].code = "2xx")'
    BY <2>1, <2>3, <2>9 DEF HeldOnce, Works
  <2>12. \A u \in Task : task'[u].pc = "affinity" => (accepted[task[u].num].granted # 0)'
    BY <2>1, <2>3, <2>10 DEF HeldOnce, Works
  <2>. QED BY <2>5, <2>6, <2>7, <2>8, <2>11, <2>12 DEF HeldOnce, Works
<1>5. CASE Quiet
  BY <1>5 DEF Quiet, HeldOnce, Works, clients, registrar
<1>. QED BY <1>1, <1>2, <1>3, <1>4, <1>5, StepCases

\* Answered holds through every step.
LEMMA AnsweredStep == Types /\ HeldOnce /\ Answered /\ [Next]_vars => Answered'
<1>. SUFFICES ASSUME Types, HeldOnce, Answered, [Next]_vars PROVE Answered'
  OBVIOUS
<1>0. /\ Len(sent) \in Nat /\ Len(sent) <= MaxRegister /\ now \in 0..MaxTime /\ contacts \in [Key -> Entry]
      /\ registered \in [Device -> 0..MaxTime + Grant] /\ last \in [Device -> 0..MaxRegister]
  BY DEF Types
<1>1. ASSUME NEW d \in Device, Register(d) PROVE Answered'
  <2>1. PICK n : n = Len(sent) + 1
    OBVIOUS
  <2>2. /\ Len(sent') = n /\ sent'[n].dev = d /\ n \in Number /\ atRegistrar' = atRegistrar \cup {n}
        /\ \A i \in 1..Len(sent) : sent'[i] = sent[i]
        /\ last'[d] = n /\ \A e \in Device \ {d} : last'[e] = last[e]
        /\ UNCHANGED <<now, registered, accepted, contacts>>
    BY <1>1, <2>1, RegisterDoes
  <2>3. 1..Len(sent') = 1..Len(sent) \cup {n} /\ n \notin 1..Len(sent) /\ n > Len(sent)
    BY <1>0, <2>1, <2>2
  <2>4. accepted[n] = NotAnswered /\ accepted[n].code # "2xx"
    BY <2>2, <2>3 DEF Answered, NotAnswered
  <2>5. \A i \in Number : i > Len(sent') \/ i \in atRegistrar' => accepted'[i] = NotAnswered
    BY <1>0, <2>1, <2>2, <2>4, Bounds DEF Answered, Number
  <2>6. \A i \in 1..Len(sent') : accepted'[i].code = "2xx" /\ ~accepted'[i].others => accepted'[i].granted = sent'[i].expires
    BY <2>2, <2>3, <2>4 DEF Answered
  <2>7. \A e \in Device : last'[e] # 0 => last'[e] \in 1..Len(sent') /\ sent'[last'[e]].dev = e
    BY <2>2, <2>3 DEF Answered
  <2>. QED BY <2>2, <2>3, <2>5, <2>6, <2>7 DEF Answered
<1>2. ASSUME NEW d \in Device, GiveUp(d) PROVE Answered'
  BY <1>2 DEF GiveUp, Answered, registrar
<1>3. ASSUME NEW t \in Task, NEW n \in Number, Answer(t, n) PROVE Answered'
  <2>1. /\ n \in atRegistrar /\ n \in 1..Len(sent) /\ sent[n] \in Request
        /\ atRegistrar' = atRegistrar \ {n} /\ UNCHANGED <<now, last, sent, contacts>>
        /\ \A m \in Number \ {n} : accepted'[m] = accepted[m]
        /\ accepted'[n].code = "2xx" /\ ~accepted'[n].others => accepted'[n].granted = sent[n].expires
        /\ \/ registered' = [registered EXCEPT ![sent[n].dev] = now + sent[n].expires]
           \/ registered' = registered
    BY <1>3, AnswerDoes DEF clients
  <2>2. 1..Len(sent) \subseteq Number
    BY <1>0, Bounds DEF Number
  <2>3. \A d \in Device : registered'[d] <= now' + Grant
    <3>1. sent[n].dev \in Device /\ sent[n].expires \in {0, Grant}
      BY <2>1 DEF Request
    <3>2. PICK d \in Device : d = sent[n].dev
      BY <3>1
    <3>3. PICK e \in 0..Grant : e = sent[n].expires
      BY <3>1, Bounds
    <3>4. registered' = [registered EXCEPT ![d] = now + e] \/ registered' = registered
      BY <2>1, <3>2, <3>3
    <3>5. now + e <= now + Grant /\ now' = now
      BY <1>0, <2>1, Bounds
    <3>. QED BY <1>0, <3>4, <3>5 DEF Answered
  <2>4. \A i \in Number : i > Len(sent') \/ i \in atRegistrar' => accepted'[i] = NotAnswered
    BY <1>0, <2>1 DEF Answered
  <2>5. \A i \in 1..Len(sent') : accepted'[i].code = "2xx" /\ ~accepted'[i].others => accepted'[i].granted = sent'[i].expires
    BY <2>1, <2>2 DEF Answered
  <2>. QED BY <2>1, <2>3, <2>4, <2>5 DEF Answered
<1>4. ASSUME NEW t \in Task, TaskStep(t) PROVE Answered'
  <2>1. UNCHANGED <<now, last, sent, registrar>>
    BY <1>4, TaskDoes
  <2>2. \A k \in Key : contacts'[k] = NoEntry \/ contacts'[k].num \in 1..Len(sent)
    <3>1. CASE SubmitContact(t)
      <4>1. Works(t) /\ task[t].num \in 1..Len(sent)
        BY <1>4, TaskDoes DEF HeldOnce
      <4>2. PICK n \in 1..Len(sent) : n = task[t].num
        BY <4>1
      <4>3. KeyOf(t) \in Key
        BY <4>1, KeyOfIs
      <4>4. EntryOf(n, KeyOf(t)) = NoEntry \/ EntryOf(n, KeyOf(t)).num = n
        BY DEF EntryOf
      <4>5. contacts' = [contacts EXCEPT ![KeyOf(t)] = EntryOf(n, KeyOf(t))]
        BY <3>1, <4>2 DEF SubmitContact
      <4>. QED BY <1>0, <4>3, <4>4, <4>5 DEF Answered
    <3>2. CASE ~SubmitContact(t)
      BY <1>4, <3>2, TaskDoes DEF TaskStep, Answered
    <3>. QED BY <3>1, <3>2
  <2>. QED BY <2>1, <2>2 DEF Answered, registrar
<1>5. ASSUME Lookups, Quiet PROVE Answered'
  <2>1. UNCHANGED <<last, sent, atRegistrar, registered, accepted>>
    BY <1>5 DEF Quiet, clients, registrar
  <2>2. now' \in Nat /\ now' >= now
    <3>1. now' = now \/ now' = now + 1
      BY <1>5 DEF Lookups, LookupAffinity, LookupExpired, ClearExpired, PruneContacts, Tick, vars
    <3>. QED BY <1>0, <3>1, Bounds
  <2>3. \A k \in Key : contacts'[k] = contacts[k] \/ contacts'[k] = NoEntry
    BY <1>0, <1>5, PrunedFacts DEF Lookups, LookupAffinity, LookupExpired, ClearExpired, PruneContacts, Tick, vars
  <2>4. \A d \in Device : registered'[d] <= now' + Grant
    BY <1>0, <2>1, <2>2, Bounds DEF Answered
  <2>. QED BY <2>1, <2>3, <2>4 DEF Answered
<1>. QED BY <1>1, <1>2, <1>3, <1>4, <1>5, StepCases

\* A device counts as having given up from then on.
LEMMA GiveUpsGrow ==
  ASSUME Types, [Next]_vars, giveUps' = 0
  PROVE  giveUps = 0 /\ \A d \in Device : ~GiveUp(d)
<1>1. giveUps \in Nat /\ giveUps + 1 # 0
  BY Bounds DEF Types
<1>2. \A d \in Device : ~GiveUp(d)
  BY <1>1 DEF GiveUp
<1>3. giveUps' = giveUps
  BY <1>2, StepCases, RegisterDoes, TaskDoes DEF Answer, TaskStep, TakePending, RememberAffinity,
     SubmitContact, SubmitFails, RelayAnswer, Quiet, clients
<1>. QED BY <1>2, <1>3

\* What the lookups, the pruning and the clock may take away.
LEMMA LookupsDo ==
  ASSUME Types, Lookups
  PROVE  /\ now' \in Nat /\ now' >= now /\ lost \subseteq lost'
         /\ \A k \in Key : \/ contacts'[k] = contacts[k]
                           \/ contacts'[k] = NoEntry /\ (k \in lost' \/ ~Live(contacts[k]))
         /\ \A k \in Key : affinity'[k] = affinity[k] \/ affinity'[k] = NoEntry
<1>0. /\ now \in 0..MaxTime /\ contacts \in [Key -> Entry] /\ affinity \in [Key -> Entry]
      /\ reader \in [Reader -> Key \cup {NoKey}]
  BY DEF Types
<1>1. now' = now \/ now' = now + 1
  BY DEF Lookups, LookupAffinity, LookupExpired, ClearExpired, PruneContacts, Tick, vars
<1>2. lost \subseteq lost'
  BY DEF Lookups, LookupAffinity, LookupExpired, ClearExpired, PruneContacts, Tick, vars
<1>3. \A k \in Key : \/ contacts'[k] = contacts[k]
                     \/ contacts'[k] = NoEntry /\ (k \in lost' \/ ~Live(contacts[k]))
  <2>1. ASSUME NEW r \in Reader, ClearExpired(r), NEW k \in Key
        PROVE  \/ contacts'[k] = contacts[k]
               \/ contacts'[k] = NoEntry /\ (k \in lost' \/ ~Live(contacts[k]))
    BY <1>0, <2>1 DEF ClearExpired
  <2>2. ASSUME PruneContacts, NEW k \in Key
        PROVE  \/ contacts'[k] = contacts[k]
               \/ contacts'[k] = NoEntry /\ (k \in lost' \/ ~Live(contacts[k]))
    BY <1>0, <2>2, PrunedFacts DEF PruneContacts
  <2>3. \/ \E r \in Reader : ClearExpired(r)
        \/ PruneContacts
        \/ contacts' = contacts
    BY DEF Lookups, LookupAffinity, LookupExpired, Tick, vars
  <2>. QED BY <2>1, <2>2, <2>3
<1>4. \A k \in Key : affinity'[k] = affinity[k] \/ affinity'[k] = NoEntry
  <2>1. ASSUME NEW k \in Key, LookupAffinity(k), NEW j \in Key
        PROVE  affinity'[j] = affinity[j] \/ affinity'[j] = NoEntry
    <3>1. PICK shard \in SUBSET Key : affinity' = [i \in Key |-> IF i \in shard THEN Pruned(affinity)[i] ELSE affinity[i]]
      BY <2>1 DEF LookupAffinity, ShardsOf
    <3>. QED BY <1>0, <3>1, PrunedFacts
  <2>2. (\E k \in Key : LookupAffinity(k)) \/ affinity' = affinity
    BY DEF Lookups, LookupExpired, ClearExpired, PruneContacts, Tick, vars
  <2>. QED BY <2>1, <2>2
<1>5. now' \in Nat /\ now' >= now
  BY <1>0, <1>1, Bounds
<1>. QED BY <1>2, <1>3, <1>4, <1>5

\* OneEach holds through every step.
LEMMA OneEachStep == Types /\ HeldOnce /\ Answered /\ OneEach /\ [Next]_vars => OneEach'
<1>. SUFFICES ASSUME Types, HeldOnce, Answered, OneEach, [Next]_vars, giveUps' = 0
              PROVE  /\ \A m \in atRegistrar' : InWait(m)'
                     /\ \A u \in Task : Works(u)' => InWait(task[u].num)'
  BY DEF OneEach
<1>0. /\ \A m \in atRegistrar : InWait(m) /\ m \in 1..Len(sent) /\ sent[m].dev \in Device
      /\ \A u \in Task : Works(u) => /\ InWait(task[u].num) /\ task[u].num \in 1..Len(sent)
                                     /\ sent[task[u].num].dev \in Device
  <2>1. giveUps = 0
    BY GiveUpsGrow
  <2>2. \A m \in 1..Len(sent) : sent[m].dev \in Device
    <3>1. sent \in Seq(Request)
      BY DEF Types
    <3>2. \A m \in 1..Len(sent) : sent[m] \in Request
      BY <3>1
    <3>3. \A q \in Request : q.dev \in Device
      BY DEF Request
    <3>. QED BY <3>2, <3>3
  <2>. QED BY <2>1, <2>2 DEF OneEach, HeldOnce
<1>1. ASSUME NEW d \in Device, Register(d)
      PROVE  /\ \A m \in atRegistrar' : InWait(m)'
             /\ \A u \in Task : Works(u)' => InWait(task[u].num)'
  <2>1. PICK n : n = Len(sent) + 1
    OBVIOUS
  <2>2. /\ d \notin waiting /\ sent'[n].dev = d /\ \A i \in 1..Len(sent) : sent'[i] = sent[i]
        /\ atRegistrar' = atRegistrar \cup {n} /\ waiting' = waiting \cup {d}
        /\ last'[d] = n /\ \A e \in Device \ {d} : last'[e] = last[e]
        /\ task' = task
    BY <1>1, <2>1, RegisterDoes
  <2>3. \A m \in 1..Len(sent) : sent[m].dev \in Device /\ InWait(m) => InWait(m)'
    BY <2>2 DEF InWait
  <2>4. InWait(n)'
    BY <2>2 DEF InWait
  <2>. QED BY <1>0, <2>2, <2>3, <2>4 DEF Works
<1>2. ASSUME NEW t \in Task, NEW n \in Number, Answer(t, n)
      PROVE  /\ \A m \in atRegistrar' : InWait(m)'
             /\ \A u \in Task : Works(u)' => InWait(task[u].num)'
  <2>1. /\ n \in atRegistrar /\ atRegistrar' = atRegistrar \ {n} /\ UNCHANGED <<sent, last, waiting>>
        /\ task'[t].num = n /\ \A u \in Task \ {t} : task'[u] = task[u]
    BY <1>2, AnswerDoes DEF clients
  <2>2. \A m : InWait(m) => InWait(m)'
    BY <2>1 DEF InWait
  <2>. QED BY <1>0, <2>1, <2>2 DEF Works
<1>3. ASSUME NEW t \in Task, TaskStep(t)
      PROVE  /\ \A m \in atRegistrar' : InWait(m)'
             /\ \A u \in Task : Works(u)' => InWait(task[u].num)'
  <2>1. Works(t) /\ (\A u \in Task \ {t} : task'[u] = task[u]) /\ UNCHANGED <<sent, last, atRegistrar>>
    BY <1>3, TaskDoes DEF registrar
  <2>2. CASE RelayAnswer(t)
    <3>1. task'[t].pc = "idle" /\ (waiting' = waiting \/ waiting' = waiting \ {sent[task[t].num].dev})
      BY <1>3, <2>2, TaskDoes
    <3>2. \A m : InWait(m) /\ m # task[t].num => InWait(m)'
      BY <1>0, <2>1, <3>1 DEF InWait
    <3>3. task[t].num \notin atRegistrar /\ \A u \in Task \ {t} : Works(u) => task[u].num # task[t].num
      BY <2>1 DEF HeldOnce
    <3>. QED BY <1>0, <2>1, <3>1, <3>2, <3>3 DEF Works
  <2>3. CASE ~RelayAnswer(t)
    <3>1. task'[t].num = task[t].num /\ waiting' = waiting
      BY <1>3, <2>3, TaskDoes
    <3>2. \A m : InWait(m) => InWait(m)'
      BY <2>1, <3>1 DEF InWait
    <3>. QED BY <1>0, <2>1, <3>1, <3>2 DEF Works
  <2>. QED BY <2>2, <2>3
<1>4. CASE Quiet
  BY <1>0, <1>4 DEF Quiet, InWait, Works, clients, registrar
<1>. QED BY <1>1, <1>2, <1>3, <1>4, StepCases, GiveUpsGrow

\* The three of them, and the types.
Known == Types /\ HeldOnce /\ Answered /\ OneEach

\* They hold always.
LEMMA KnownAlways == Spec => []Known
<1>1. Init => Known
  <2>. SUFFICES ASSUME Init PROVE Known
    OBVIOUS
  <2>1. Types
    <3>1. now \in 0..MaxTime /\ giveUps \in 0..MaxGiveUps /\ 0 \in 0..MaxRegister /\ 0 \in 0..MaxTime + Grant
      BY Bounds DEF Init
    <3>2. sent \in Seq(Request) /\ Len(sent) <= MaxRegister
      BY Bounds DEF Init
    <3>. QED BY <3>1, <3>2, NothingTypes DEF Init, Types
  <2>2. HeldOnce /\ OneEach
    BY NothingTypes DEF Init, HeldOnce, OneEach, Works
  <2>3. Answered
    BY Bounds DEF Init, Answered
  <2>. QED BY <2>1, <2>2, <2>3 DEF Known
<1>2. Known /\ [Next]_vars => Known'
  BY TypesStep, HeldOnceStep, AnsweredStep, OneEachStep DEF Known
<1>. QED BY <1>1, <1>2, PTL DEF Spec

-----------------------------------------------------------------------------
(* The counter of the affinity table *)

\* There are finitely many keys, so the size of a table is a number.
LEMMA SizeFacts ==
  ASSUME NEW f
  PROVE  IsFiniteSet({k \in Key : f[k] # NoEntry}) /\ Size(f) \in Nat
<1>1. IsFiniteSet(Device)
  BY RegistrationAssumption
<1>2. IsFiniteSet(Key)
  BY <1>1, FS_AddElement DEF Key
<1>3. IsFiniteSet({k \in Key : f[k] # NoEntry})
  BY <1>2, FS_Subset
<1>. QED BY <1>3, FS_CardinalityType DEF Size

\* An entry that names a registrar adds one to the size, or replaces another.
LEMMA SizeGrows ==
  ASSUME NEW f \in [Key -> Entry], NEW k \in Key, NEW x \in Entry, x # NoEntry
  PROVE  Size([f EXCEPT ![k] = x]) = IF f[k] = NoEntry THEN Size(f) + 1 ELSE Size(f)
<1>. DEFINE g == [f EXCEPT ![k] = x]
            S == {j \in Key : f[j] # NoEntry}
            T == {j \in Key : g[j] # NoEntry}
<1>1. T = S \cup {k}
  OBVIOUS
<1>2. k \in S <=> f[k] # NoEntry
  OBVIOUS
<1>3. IsFiniteSet(S) /\ Size(f) = Cardinality(S) /\ Size(g) = Cardinality(T)
  BY SizeFacts DEF Size
<1>. HIDE DEF S, T, g
<1>4. Cardinality(S \cup {k}) = IF k \in S THEN Cardinality(S) ELSE Cardinality(S) + 1
  BY <1>3, FS_AddElement
<1>5. Size(g) = IF f[k] = NoEntry THEN Size(f) + 1 ELSE Size(f)
  BY <1>1, <1>2, <1>3, <1>4
<1>. QED BY <1>5 DEF g

\* The counter of the affinity table is the number of its entries: an insertion counts
\* when the key is new, whatever other tasks insert, and pruning a shard takes away what
\* it removes.
THEOREM LenCounts == Spec => []LenIsSize
<1>1. Init => LenIsSize
  <2>. SUFFICES ASSUME Init PROVE LenIsSize
    OBVIOUS
  <2>1. {k \in Key : affinity[k] # NoEntry} = {}
    BY DEF Init
  <2>2. Size(affinity) = 0
    BY <2>1, FS_EmptySet DEF Size
  <2>. QED BY <2>2 DEF Init, LenIsSize
<1>2. Known /\ LenIsSize /\ [Next]_vars => LenIsSize'
  <2>. SUFFICES ASSUME Known, LenIsSize, [Next]_vars PROVE LenIsSize'
    OBVIOUS
  <2>0. affinity \in [Key -> Entry] /\ now \in 0..MaxTime
    BY DEF Known, Types
  <2>1. ASSUME NEW t \in Task, RememberAffinity(t) PROVE LenIsSize'
    <3>1. Works(t)
      BY <2>1 DEF RememberAffinity, Works
    <3>2. KeyOf(t) \in Key /\ sent[task[t].num] \in Request /\ task[t].num \in Number
      BY <3>1, KeyOfIs DEF Known
    <3>3. PICK k \in Key, q \in Request, n \in Number : k = KeyOf(t) /\ n = task[t].num /\ q = sent[n]
      BY <3>2
    <3>4. accepted[n] \in Reply
      BY DEF Known, Types
    <3>5. PICK u \in Upstream : u = q.up
      BY DEF Request
    <3>6. PICK e \in Nat : e = now + accepted[n].granted
      <4>1. accepted[n].granted \in 0..Grant
        BY <3>4 DEF Reply
      <4>. QED BY <2>0, <4>1, Bounds
    <3>. DEFINE x == [num |-> 0, up |-> u, expires |-> e]
    <3>7. x \in Entry /\ x.up = u
      <4>1. 0 \in 0..MaxRegister
        BY Bounds
      <4>. QED BY <4>1 DEF Entry
    <3>8. x # NoEntry
      BY <3>7, RegistrationAssumption DEF NoEntry
    <3>9. /\ affinity' = [affinity EXCEPT ![k] = x]
          /\ len' = IF affinity[k] = NoEntry THEN len + 1 ELSE len
      BY <2>1, <3>3, <3>5, <3>6 DEF RememberAffinity, RememberKey
    <3>. HIDE DEF x
    <3>. QED BY <2>0, <3>7, <3>8, <3>9, SizeGrows DEF LenIsSize
  <2>2. ASSUME NEW k \in Key, LookupAffinity(k) PROVE LenIsSize'
    <3>1. len' = len - (Size(affinity) - Size(affinity'))
      BY <2>2 DEF LookupAffinity
    <3>2. Size(affinity) \in Nat /\ Size(affinity') \in Nat
      BY SizeFacts
    <3>3. len' = Size(affinity')
      BY <3>1, <3>2 DEF LenIsSize
    <3>. QED BY <3>3 DEF LenIsSize
  <2>3. CASE UNCHANGED <<affinity, len>>
    BY <2>3 DEF LenIsSize, Size
  <2>4. \/ \E t \in Task : RememberAffinity(t)
        \/ \E k \in Key : LookupAffinity(k)
        \/ UNCHANGED <<affinity, len>>
    BY DEF Next, TaskStep, Register, GiveUp, Answer, TakePending, SubmitContact, SubmitFails, RelayAnswer, LookupExpired,
       ClearExpired, PruneContacts, Tick, vars
  <2>. QED BY <2>1, <2>2, <2>3, <2>4
<1>. QED BY <1>1, <1>2, KnownAlways, PTL DEF Spec

\* Every reachable state is well typed; the counter is within the number of keys because
\* it is the size of the table.
THEOREM TypeCorrect == Spec => []TypeOK
<1>1. Known /\ LenIsSize => TypeOK
  <2>. SUFFICES ASSUME Known, LenIsSize PROVE TypeOK
    OBVIOUS
  <2>1. IsFiniteSet(Key)
    BY RegistrationAssumption, FS_AddElement DEF Key
  <2>2. Size(affinity) <= Cardinality(Key) /\ Cardinality(Key) \in Nat
    <3>1. {k \in Key : affinity[k] # NoEntry} \subseteq Key
      OBVIOUS
    <3>. QED BY <2>1, <3>1, FS_Subset, FS_CardinalityType DEF Size
  <2>3. len \in 0..Cardinality(Key)
    <3>1. PICK n \in Nat : n = Size(affinity)
      BY SizeFacts
    <3>2. PICK m \in Nat : m = Cardinality(Key)
      BY <2>2
    <3>. QED BY <2>2, <3>1, <3>2 DEF LenIsSize
  <2>. QED BY <2>3 DEF Known, Types, TypeOK, Request, Reply, Job
<1>. QED BY <1>1, KnownAlways, LenCounts, PTL

-----------------------------------------------------------------------------
(* What the last answer said *)

\* The steps of a task that matter to a device: it stores the device's contact with the
\* step for the first key, and the steps for the second key concern the AOR alone.
LEMMA TaskAndDevice ==
  ASSUME Known, NEW t \in Task, TaskStep(t), NEW d \in Device, NEW n, n = task[t].num
  PROVE  /\ n \in Number /\ n \in 1..Len(sent) /\ sent[n].dev \in Device
         /\ (task[t].key # 1 \/ sent[n].dev # d \/ ~SubmitContact(t)) =>
                contacts'[d] = contacts[d] /\ (d \in lost => d \in lost')
         /\ (task[t].key # 1 \/ sent[n].dev # d \/ ~RememberAffinity(t)) => affinity'[d] = affinity[d]
         /\ (task[t].key = 1 /\ sent[n].dev = d /\ SubmitContact(t)) => contacts'[d] = EntryOf(n, d)
         /\ (task[t].key = 1 /\ sent[n].dev = d /\ SubmitFails(t)) => d \in lost'
         /\ (task[t].key = 1 /\ sent[n].dev = d /\ RememberAffinity(t)) => affinity'[d].up = sent[n].up
<1>0. /\ Types /\ HeldOnce /\ contacts \in [Key -> Entry] /\ affinity \in [Key -> Entry]
      /\ Works(t) /\ d \in Key /\ d # AorKey
  <2>1. Types /\ HeldOnce /\ d \in Key /\ d # AorKey
    BY RegistrationAssumption DEF Known, Key
  <2>. QED BY <2>1, TaskDoes DEF Types
<1>1. n = task[t].num
  OBVIOUS
<1>2. /\ n \in Number /\ n \in 1..Len(sent) /\ sent[n] \in Request /\ task[t].key \in 1..2
      /\ KeyOf(t) = (IF task[t].key = 1 THEN sent[n].dev ELSE AorKey) /\ KeyOf(t) \in Key
  BY <1>0, <1>1, KeyOfIs DEF HeldOnce
<1>3. sent[n].dev \in Device
  BY <1>2 DEF Request
<1>4. KeyOf(t) = d <=> task[t].key = 1 /\ sent[n].dev = d
  BY <1>0, <1>2
<1>5. CASE SubmitContact(t)
  <2>1. contacts' = [contacts EXCEPT ![KeyOf(t)] = EntryOf(n, KeyOf(t))] /\ lost' = lost \ {KeyOf(t)}
    BY <1>1, <1>5 DEF SubmitContact
  <2>2. KeyOf(t) # d => contacts'[d] = contacts[d] /\ (d \in lost => d \in lost')
    BY <1>0, <2>1
  <2>3. KeyOf(t) = d => contacts'[d] = EntryOf(n, d)
    BY <1>0, <1>2, <2>1
  <2>4. affinity' = affinity /\ ~RememberAffinity(t) /\ ~SubmitFails(t)
    <3>1. affinity' = affinity /\ ~RememberAffinity(t)
      BY <1>5 DEF SubmitContact, RememberAffinity
    <3>2. KeyOf(t) \notin lost'
      BY <2>1
    <3>. QED BY <3>1, <3>2 DEF SubmitFails
  <2>5. (task[t].key # 1 \/ sent[n].dev # d) => contacts'[d] = contacts[d] /\ (d \in lost => d \in lost')
    BY <1>4, <2>2
  <2>6. (task[t].key = 1 /\ sent[n].dev = d) => contacts'[d] = EntryOf(n, d)
    BY <1>4, <2>3
  <2>. QED BY ONLY <1>2, <1>3, <1>5, <2>4, <2>5, <2>6
<1>6. CASE RememberAffinity(t)
  <2>1. affinity' = [affinity EXCEPT ![KeyOf(t)] = [num |-> 0, up |-> sent[n].up, expires |-> now + accepted[n].granted]]
    BY <1>1, <1>6 DEF RememberAffinity, RememberKey
  <2>2. KeyOf(t) # d => affinity'[d] = affinity[d]
    BY <1>0, <2>1
  <2>3. KeyOf(t) = d => affinity'[d] = [num |-> 0, up |-> sent[n].up, expires |-> now + accepted[n].granted]
    BY <1>0, <1>2, <2>1
  <2>4. KeyOf(t) = d => affinity'[d].up = sent[n].up
    BY <2>3
  <2>5. UNCHANGED <<contacts, lost>> /\ ~SubmitContact(t) /\ ~SubmitFails(t)
    BY <1>6 DEF SubmitContact, SubmitFails, RememberAffinity
  <2>6. (task[t].key # 1 \/ sent[n].dev # d) => affinity'[d] = affinity[d]
    BY <1>4, <2>2
  <2>7. (task[t].key = 1 /\ sent[n].dev = d) => affinity'[d].up = sent[n].up
    BY <1>4, <2>4
  <2>. QED BY ONLY <1>2, <1>3, <1>6, <2>5, <2>6, <2>7
<1>7. CASE SubmitFails(t)
  <2>1. UNCHANGED <<contacts, affinity>> /\ lost' = lost \cup {KeyOf(t)}
    BY <1>7 DEF SubmitFails
  <2>2. ~SubmitContact(t) /\ ~RememberAffinity(t)
    <3>1. KeyOf(t) \in lost'
      BY <2>1
    <3>. QED BY <1>7, <3>1 DEF SubmitFails, SubmitContact, RememberAffinity
  <2>. QED BY <1>1, <1>2, <1>3, <1>4, <2>1, <2>2
<1>8. CASE ~SubmitContact(t) /\ ~SubmitFails(t) /\ ~RememberAffinity(t)
  <2>1. UNCHANGED <<contacts, lost, affinity>>
    BY <1>8 DEF TaskStep, TakePending, RelayAnswer
  <2>. QED BY <1>1, <1>2, <1>3, <1>8, <2>1
<1>. QED BY <1>5, <1>6, <1>7, <1>8

\* AllStored holds through every step.
LEMMA AllStoredStep == Known /\ AllStored /\ [Next]_vars => AllStored'
<1>. SUFFICES ASSUME Known, AllStored, [Next]_vars, giveUps' = 0, NEW d \in Device, Done(d)'
              PROVE  Stored(d)'
  BY DEF AllStored
<1>0. Types /\ HeldOnce /\ Answered /\ OneEach
  BY DEF Known
<1>1. giveUps = 0 /\ \A e \in Device : ~GiveUp(e)
  BY <1>0, GiveUpsGrow
<1>2. Done(d) => Stored(d)
  BY <1>1 DEF AllStored
<1>3. \A u \in Task : Works(u) => /\ task[u].num \in 1..Len(sent) /\ task[u].num \notin atRegistrar
                                  /\ last[sent[task[u].num].dev] = task[u].num
  BY <1>0, <1>1 DEF HeldOnce, OneEach, InWait
<1>4. last[d] # 0 => last[d] \in 1..Len(sent) /\ sent[last[d]].dev = d
  BY <1>0 DEF Answered
<1>5. ASSUME NEW e \in Device, Register(e) PROVE Stored(d)'
  <2>1. PICK n : n = Len(sent) + 1
    OBVIOUS
  <2>2. /\ \A i \in 1..Len(sent) : sent'[i] = sent[i]
        /\ atRegistrar' = atRegistrar \cup {n} /\ last'[e] = n /\ \A x \in Device \ {e} : last'[x] = last[x]
        /\ UNCHANGED <<now, registered, accepted, task, contacts, lost>>
    BY <1>0, <1>5, <2>1, RegisterDoes
  <2>3. d # e
    BY <2>2 DEF Done
  <2>4. last'[d] = last[d] /\ last[d] # 0 /\ sent'[last[d]] = sent[last[d]]
    BY <1>4, <2>2, <2>3 DEF Done
  <2>5. Yet(d) => Yet(d)'
    BY <1>3, <2>2 DEF Yet, Works
  <2>6. Done(d)
    BY <2>2, <2>4, <2>5 DEF Done
  <2>. QED BY <1>2, <2>2, <2>4, <2>6 DEF Stored
<1>6. ASSUME NEW t \in Task, NEW n \in Number, Answer(t, n) PROVE Stored(d)'
  <2>1. /\ task[t].pc = "idle" /\ n \in 1..Len(sent) /\ sent[n] \in Request /\ n \in atRegistrar
        /\ atRegistrar' = atRegistrar \ {n}
        /\ task'[t].pc = "take" /\ task'[t].num = n /\ task'[t].key = 1
        /\ \A u \in Task \ {t} : task'[u] = task[u]
        /\ \A m \in Number \ {n} : accepted'[m] = accepted[m]
        /\ \/ registered' = [registered EXCEPT ![sent[n].dev] = now + sent[n].expires]
           \/ registered' = registered
        /\ UNCHANGED <<now, last, sent, contacts, lost>>
    BY <1>0, <1>6, AnswerDoes DEF clients
  <2>2. sent[n].dev # d
    BY <2>1 DEF Done, Yet
  <2>3. last[d] # n /\ last[d] # 0 /\ last[d] \in Number /\ last[d] \notin atRegistrar
    <3>1. last[d] # 0 /\ last[d] \notin atRegistrar'
      BY <2>1 DEF Done
    <3>2. last[d] \in 1..Len(sent) /\ sent[last[d]].dev = d
      BY <1>4, <3>1
    <3>3. 1..Len(sent) \subseteq Number
      BY <1>0, Bounds DEF Types, Number
    <3>. QED BY <2>1, <2>2, <3>1, <3>2, <3>3
  <2>4. accepted'[last[d]] = accepted[last[d]] /\ registered'[d] = registered[d]
    <3>1. registered \in [Device -> 0..MaxTime + Grant]
      BY <1>0 DEF Types
    <3>. QED BY <2>1, <2>2, <2>3, <3>1
  <2>5. Yet(d) => Yet(d)'
    BY <2>1 DEF Yet
  <2>6. Done(d)
    BY <2>1, <2>3, <2>4, <2>5 DEF Done
  <2>. QED BY <1>2, <2>1, <2>4, <2>6 DEF Stored
<1>7. ASSUME NEW t \in Task, TaskStep(t) PROVE Stored(d)'
  <2>1. PICK n \in Number : n = task[t].num /\ n \in 1..Len(sent) /\ sent[n].dev \in Device
    BY <1>7, TaskAndDevice
  <2>2. /\ Works(t) /\ \A u \in Task \ {t} : task'[u] = task[u]
        /\ UNCHANGED <<now, last, sent, atRegistrar, registered, accepted>>
    BY <1>0, <1>7, TaskDoes DEF registrar
  <2>3. last[sent[n].dev] = n
    BY <1>3, <2>1, <2>2
  <2>4. CASE task[t].key = 1 /\ sent[n].dev = d /\ SubmitContact(t)
    <3>1. contacts'[d] = EntryOf(n, d) /\ n = last[d] /\ n # 0
      BY <1>7, <2>1, <2>3, <2>4, TaskAndDevice
    <3>2. accepted[n].granted = sent[n].expires
      BY <1>0, <2>1, <2>2, <3>1 DEF Done, Answered
    <3>3. CASE sent[n].expires = 0
      BY <2>2, <3>1, <3>2, <3>3 DEF Stored, EntryOf
    <3>4. CASE sent[n].expires # 0
      <4>1. sent[n].expires = Grant
        <5>1. sent \in Seq(Request)
          BY <1>0 DEF Types
        <5>2. sent[n] \in Request
          BY <2>1, <5>1
        <5>. QED BY <3>4, <5>2 DEF Request
      <4>2. contacts'[d] = [num |-> n, up |-> "none", expires |-> now + Grant]
        BY <3>1, <3>2, <3>4, <4>1 DEF EntryOf
      <4>3. contacts'[d].num = n /\ contacts'[d].expires = now + Grant
        BY <4>2
      <4>4. contacts'[d].expires >= registered[d]
        <5>1. registered[d] <= now + Grant /\ registered[d] \in Nat /\ now + Grant \in Nat
          BY <1>0, Bounds DEF Answered, Types
        <5>. QED BY <4>3, <5>1
      <4>. QED BY <2>2, <3>1, <3>4, <4>3, <4>4 DEF Stored
    <3>. QED BY <3>3, <3>4
  <2>5. CASE task[t].key = 1 /\ sent[n].dev = d /\ SubmitFails(t)
    BY <1>7, <2>1, <2>5, TaskAndDevice DEF Stored
  <2>6. CASE ~(task[t].key = 1 /\ sent[n].dev = d /\ (SubmitContact(t) \/ SubmitFails(t)))
    <3>1. contacts'[d] = contacts[d] /\ (d \in lost => d \in lost')
      BY <1>7, <2>1, <2>6, TaskAndDevice
    <3>2. ~Yet(d)
      <4>. SUFFICES ASSUME Yet(d) PROVE FALSE
        OBVIOUS
      <4>1. ~Yet(d)'
        BY DEF Done
      <4>2. PICK u \in Task : task[u].pc \in {"take", "affinity", "contact"} /\ task[u].key = 1
                              /\ sent[task[u].num].dev = d
        BY DEF Yet
      <4>3. u = t
        BY <2>2, <4>1, <4>2 DEF Yet
      <4>4. task[t].pc # "relay" /\ ~SubmitContact(t) /\ ~SubmitFails(t)
        BY <2>1, <2>6, <4>2, <4>3
      <4>5. TakePending(t) \/ RememberAffinity(t)
        BY <1>7, <4>4 DEF TaskStep, RelayAnswer
      <4>6. task'[t].num = n /\ task'[t].key = 1
        BY <1>0, <1>7, <2>1, <4>2, <4>3, <4>4, <4>5, TaskDoes DEF RelayAnswer
      <4>7. task'[t].pc \in {"affinity", "contact"}
        <5>1. CASE RememberAffinity(t)
          BY <1>0, <1>7, <5>1, TaskDoes
        <5>2. CASE TakePending(t)
          <6>1. n = last[d] /\ accepted[n].code = "2xx"
            BY <2>1, <2>2, <2>3, <4>2, <4>3 DEF Done
          <6>2. n \in pending
            BY <1>0, <2>1, <5>2 DEF HeldOnce, TakePending
          <6>3. Applies(n)
            BY <6>1, <6>2 DEF Applies
          <6>4. task'[t].pc = FirstStep(n)
            BY <1>0, <1>7, <2>1, <5>2, <6>3, TaskDoes
          <6>. QED BY <6>4 DEF FirstStep
        <5>. QED BY <4>5, <5>1, <5>2
      <4>. QED BY <2>1, <2>2, <4>1, <4>2, <4>3, <4>6, <4>7 DEF Yet
    <3>3. Done(d)
      BY <2>2, <3>2 DEF Done
    <3>. QED BY <1>2, <2>2, <3>1, <3>3 DEF Stored
  <2>. QED BY <2>4, <2>5, <2>6
<1>8. ASSUME Lookups, Quiet PROVE Stored(d)'
  <2>1. UNCHANGED <<last, sent, atRegistrar, registered, accepted, task>>
    BY <1>8 DEF Quiet, clients, registrar
  <2>2. Done(d)
    BY <2>1 DEF Done, Yet
  <2>3. /\ now' \in Nat /\ now' >= now /\ lost \subseteq lost'
        /\ \/ contacts'[d] = contacts[d]
           \/ contacts'[d] = NoEntry /\ (d \in lost' \/ ~Live(contacts[d]))
    BY <1>0, <1>8, LookupsDo DEF Key
  <2>4. CASE d \in lost \/ sent[last[d]].expires = 0
    BY <1>2, <2>1, <2>2, <2>3, <2>4 DEF Stored
  <2>5. CASE sent[last[d]].expires # 0 /\ ~(registered[d] > now')
    BY <2>1, <2>5 DEF Stored
  <2>6. CASE d \notin lost /\ sent[last[d]].expires # 0 /\ registered[d] > now'
    <3>1. registered[d] > now
      <4>1. registered[d] \in Nat /\ now \in Nat
        BY <1>0, Bounds DEF Types
      <4>. QED BY <2>3, <2>6, <4>1
    <3>2. contacts[d].num = last[d] /\ contacts[d].expires >= registered[d]
      BY <1>2, <2>2, <2>6, <3>1 DEF Stored
    <3>3. contacts[d] # NoEntry
      BY <2>2, <3>2 DEF Done, NoEntry
    <3>4. contacts[d].expires > now
      <4>1. contacts[d] \in Entry /\ registered[d] \in Nat /\ now \in Nat
        BY <1>0, Bounds DEF Types, Key
      <4>2. contacts[d].expires \in Nat
        BY <4>1 DEF Entry
      <4>. QED BY <3>1, <3>2, <4>1, <4>2
    <3>5. contacts'[d] = contacts[d] \/ d \in lost'
      BY <2>3, <3>3, <3>4 DEF Live
    <3>. QED BY <2>1, <2>6, <3>2, <3>5 DEF Stored
  <2>. QED BY <2>4, <2>5, <2>6
<1>. QED BY <1>1, <1>5, <1>6, <1>7, <1>8, StepCases

\* While no client gives up, a device that has the answer to its last REGISTER finds just
\* that in the proxy, however tasks and readers interleave.
THEOREM LastAnswerIsStored == Spec => []AnsweredIsStored
<1>1. Init => AllStored
  BY DEF Init, AllStored, Done
<1>2. ASSUME Known, AllStored PROVE AnsweredIsStored
  <2>. SUFFICES ASSUME NEW d \in Device, Settled(d), d \notin lost, Done(d) => Stored(d)
                PROVE  IF sent[last[d]].expires = 0 THEN contacts[d] = NoEntry
                       ELSE registered[d] > now => contacts[d].num = last[d]
    BY <1>2 DEF AnsweredIsStored, AllStored, Settled
  <2>1. giveUps = 0 /\ d \notin waiting /\ last[d] # 0
    BY DEF Settled
  <2>2. last[d] \in 1..Len(sent) /\ sent[last[d]].dev = d
    BY <1>2, <2>1 DEF Known, Answered
  <2>3. last[d] \notin atRegistrar
    BY <1>2, <2>1, <2>2 DEF Known, OneEach, InWait
  <2>4. ~Yet(d)
    BY <1>2, <2>1 DEF Known, OneEach, InWait, Yet, Works
  <2>5. Done(d)
    BY <2>1, <2>3, <2>4 DEF Done, Settled
  <2>. QED BY <2>5 DEF Stored
<1>. QED BY <1>1, <1>2, AllStoredStep, KnownAlways, PTL DEF Spec

-----------------------------------------------------------------------------
(* Contact and affinity *)

\* Agreed holds through every step.
LEMMA AgreedStep == Known /\ Agreed /\ [Next]_vars => Agreed'
<1>. DEFINE Goal(d) == /\ \A t \in Task : Halfway(t, d) => AffinityIs(d, task[t].num)
                       /\ (\A t \in Task : ~Halfway(t, d)) /\ d \notin lost /\ contacts[d] # NoEntry
                             => AffinityIs(d, contacts[d].num)
<1>. SUFFICES ASSUME Known, Agreed, [Next]_vars, giveUps' = 0, NEW d \in Device PROVE Goal(d)'
  BY DEF Agreed
<1>0. Types /\ HeldOnce /\ Answered /\ OneEach /\ d \in Key
  BY DEF Known, Key
<1>1. giveUps = 0 /\ \A e \in Device : ~GiveUp(e)
  BY <1>0, GiveUpsGrow
<1>2. Goal(d)
  BY <1>1 DEF Agreed
<1>3. \A u \in Task : Works(u) => /\ task[u].num \in 1..Len(sent) /\ task[u].num \notin atRegistrar
                                  /\ last[sent[task[u].num].dev] = task[u].num
  BY <1>0, <1>1 DEF HeldOnce, OneEach, InWait
<1>4. contacts[d] # NoEntry => contacts[d].num \in 1..Len(sent)
  BY <1>0 DEF Answered
<1>5. \A u \in Task : Halfway(u, d) => Works(u)
  BY DEF Halfway, Works
<1>6. 1..Len(sent) \subseteq Number
  BY <1>0, Bounds DEF Types, Number
<1>7. ASSUME NEW e \in Device, Register(e) PROVE Goal(d)'
  <2>1. /\ \A i \in 1..Len(sent) : sent'[i] = sent[i]
        /\ UNCHANGED <<accepted, task, contacts, affinity, lost>>
    BY <1>0, <1>7, RegisterDoes
  <2>2. \A n \in 1..Len(sent) : AffinityIs(d, n) => AffinityIs(d, n)'
    BY <2>1 DEF AffinityIs
  <2>3. \A u \in Task : Halfway(u, d)' <=> Halfway(u, d)
    <3>1. ASSUME NEW u \in Task PROVE Halfway(u, d)' <=> Halfway(u, d)
      <4>1. CASE Works(u)
        BY <1>3, <2>1, <4>1 DEF Halfway
      <4>2. CASE ~Works(u)
        BY <2>1, <4>2 DEF Halfway, Works
      <4>. QED BY <4>1, <4>2
    <3>. QED BY <3>1
  <2>. QED BY <1>2, <1>3, <1>4, <1>5, <2>1, <2>2, <2>3
<1>8. ASSUME NEW t \in Task, NEW n \in Number, Answer(t, n) PROVE Goal(d)'
  <2>1. /\ task[t].pc = "idle" /\ task'[t].pc = "take" /\ n \in atRegistrar
        /\ \A u \in Task \ {t} : task'[u] = task[u]
        /\ \A m \in Number \ {n} : accepted'[m] = accepted[m]
        /\ UNCHANGED <<sent, contacts, affinity, lost>>
    BY <1>0, <1>8, AnswerDoes DEF clients
  <2>2. ~Halfway(t, d) /\ ~Halfway(t, d)'
    BY <2>1 DEF Halfway
  <2>3. ASSUME NEW u \in Task \ {t} PROVE Halfway(u, d)' <=> Halfway(u, d)
    <3>1. CASE Works(u)
      <4>1. task[u].num \in Number \ {n}
        BY <1>3, <1>6, <2>1, <3>1
      <4>. QED BY <2>1, <4>1 DEF Halfway
    <3>2. CASE ~Works(u)
      BY <2>1, <3>2 DEF Halfway, Works
    <3>. QED BY <3>1, <3>2
  <2>4. \A m : AffinityIs(d, m)' <=> AffinityIs(d, m)
    BY <2>1 DEF AffinityIs
  <2>. QED BY <1>2, <2>1, <2>2, <2>3, <2>4
<1>9. ASSUME NEW t \in Task, TaskStep(t) PROVE Goal(d)'
  <2>1. PICK n \in Number : n = task[t].num /\ n \in 1..Len(sent) /\ sent[n].dev \in Device
    BY <1>9, TaskAndDevice
  <2>2. /\ Works(t) /\ (\A u \in Task \ {t} : task'[u] = task[u]) /\ UNCHANGED <<sent, accepted>>
        /\ ~RelayAnswer(t) => task'[t].num = n
    BY <1>0, <1>9, <2>1, TaskDoes DEF registrar
  <2>3. \A u \in Task \ {t} : Halfway(u, d)' <=> Halfway(u, d)
    BY <2>2 DEF Halfway
  <2>4. CASE task[t].key = 1 /\ sent[n].dev = d /\ RememberAffinity(t)
    <3>1. task'[t].pc = "contact" /\ task'[t].key = 1 /\ task'[t].num = n /\ accepted[n].granted # 0
      BY <1>0, <1>9, <2>1, <2>2, <2>4, TaskDoes DEF RememberAffinity, RelayAnswer, HeldOnce
    <3>2. Halfway(t, d)' /\ AffinityIs(d, n)'
      BY <1>9, <2>1, <2>2, <2>4, <3>1, TaskAndDevice DEF Halfway, AffinityIs
    <3>3. ASSUME NEW u \in Task, Halfway(u, d)' PROVE u = t
      <4>1. CASE u # t
        <5>1. Works(u) /\ task[u].num = last[d]
          BY <1>3, <1>5, <2>3, <3>3, <4>1 DEF Halfway
        <5>2. n = last[d]
          BY <1>3, <2>1, <2>2, <2>4
        <5>. QED BY <1>0, <2>1, <2>2, <5>1, <5>2 DEF HeldOnce
      <4>. QED BY <4>1
    <3>. QED BY <3>1, <3>2, <3>3
  <2>5. CASE task[t].key = 1 /\ sent[n].dev = d /\ SubmitContact(t)
    <3>0. contacts'[d] = EntryOf(n, d)
      BY <1>9, <2>1, <2>5, TaskAndDevice
    <3>1. contacts'[d] = EntryOf(n, d) /\ affinity'[d] = affinity[d] /\ task[t].pc = "contact" /\ task'[t].key = 2
      BY <1>0, <1>9, <2>5, <3>0, TaskDoes
    <3>2. ~Halfway(t, d)'
      BY <3>1 DEF Halfway
    <3>3. \A m : AffinityIs(d, m)' <=> AffinityIs(d, m)
      BY <2>2, <3>1 DEF AffinityIs
    <3>4. contacts'[d] # NoEntry => Halfway(t, d) /\ contacts'[d].num = n
      BY <2>1, <2>5, <3>1 DEF EntryOf, Halfway
    <3>. QED BY <1>2, <2>1, <2>2, <2>3, <3>2, <3>3, <3>4
  <2>6. CASE task[t].key = 1 /\ sent[n].dev = d /\ SubmitFails(t)
    <3>1. affinity'[d] = affinity[d] /\ d \in lost' /\ task'[t].key = 2
      <4>1. d \in lost'
        BY <1>9, <2>1, <2>6, TaskAndDevice
      <4>. QED BY <1>0, <1>9, <2>6, <4>1, TaskDoes
    <3>2. ~Halfway(t, d)'
      BY <3>1 DEF Halfway
    <3>3. \A m : AffinityIs(d, m)' <=> AffinityIs(d, m)
      BY <2>2, <3>1 DEF AffinityIs
    <3>. QED BY <1>2, <2>2, <2>3, <3>1, <3>2, <3>3
  <2>7. CASE task[t].key # 1 \/ sent[n].dev # d \/ (~RememberAffinity(t) /\ ~SubmitContact(t) /\ ~SubmitFails(t))
    <3>1. contacts'[d] = contacts[d] /\ affinity'[d] = affinity[d] /\ (d \in lost => d \in lost')
      BY <1>9, <2>1, <2>7, TaskAndDevice
    <3>2. \A m : AffinityIs(d, m)' <=> AffinityIs(d, m)
      BY <2>2, <3>1 DEF AffinityIs
    <3>3. ~Halfway(t, d)'
      <4>1. CASE TakePending(t)
        <5>1. task'[t].num = n /\ task'[t].pc \in {"relay", FirstStep(n)}
          BY <1>0, <1>9, <2>1, <2>2, <4>1, TaskDoes DEF TakePending, RelayAnswer
        <5>. QED BY <2>2, <5>1 DEF Halfway, FirstStep
      <4>2. CASE RelayAnswer(t)
        BY <1>0, <1>9, <4>2, TaskDoes DEF Halfway
      <4>3. CASE SubmitContact(t) \/ SubmitFails(t)
        BY <1>0, <1>9, <4>3, TaskDoes DEF Halfway
      <4>4. CASE RememberAffinity(t)
        <5>1. task'[t].num = n /\ task'[t].key = task[t].key
          BY <1>0, <1>9, <2>1, <2>2, <4>4, TaskDoes DEF RememberAffinity, RelayAnswer
        <5>2. task[t].key # 1 \/ sent[n].dev # d
          BY <2>7, <4>4
        <5>. QED BY <2>2, <5>1, <5>2 DEF Halfway
      <4>. QED BY <1>9, <4>1, <4>2, <4>3, <4>4 DEF TaskStep
    <3>4. ~Halfway(t, d)
      BY <1>9, <2>1, <2>7 DEF Halfway, TaskStep, TakePending, RememberAffinity, SubmitContact, SubmitFails, RelayAnswer
    <3>. QED BY <1>2, <2>2, <2>3, <3>1, <3>2, <3>3, <3>4
  <2>. QED BY <2>4, <2>5, <2>6, <2>7
<1>10. ASSUME Lookups, Quiet PROVE Goal(d)'
  <2>1. UNCHANGED <<sent, accepted, task>>
    BY <1>10 DEF Quiet, clients, registrar
  <2>2. /\ contacts'[d] = contacts[d] \/ contacts'[d] = NoEntry
        /\ affinity'[d] = affinity[d] \/ affinity'[d] = NoEntry
        /\ d \in lost => d \in lost'
    BY <1>0, <1>10, LookupsDo
  <2>3. \A u \in Task : Halfway(u, d)' <=> Halfway(u, d)
    BY <2>1 DEF Halfway
  <2>4. \A m : AffinityIs(d, m) => AffinityIs(d, m)'
    BY <2>1, <2>2 DEF AffinityIs
  <2>. QED BY <1>2, <2>1, <2>2, <2>3, <2>4
<1>. QED BY <1>1, <1>7, <1>8, <1>9, <1>10, StepCases

\* While no client gives up, the affinity of a device at rest names the registrar that
\* accepted the contact the proxy has for it.
THEOREM AffinityFollowsContact == Spec => []ContactAndAffinityAgree
<1>1. Init => Agreed
  <2>. SUFFICES ASSUME Init, NEW d \in Device PROVE contacts[d] = NoEntry /\ \A t \in Task : task[t].pc = "idle"
    BY DEF Agreed, Halfway
  <2>. QED BY NothingTypes DEF Init, Key
<1>2. ASSUME Agreed PROVE ContactAndAffinityAgree
  <2>. SUFFICES ASSUME NEW d \in Device, giveUps = 0, ~Busy(d), d \notin lost, Live(contacts[d]), affinity[d] # NoEntry
                PROVE  affinity[d].up = sent[contacts[d].num].up
    BY DEF ContactAndAffinityAgree
  <2>1. \A t \in Task : ~Halfway(t, d)
    BY DEF Busy, Halfway
  <2>2. contacts[d] # NoEntry
    BY DEF Live
  <2>. QED BY <1>2, <2>1, <2>2 DEF Agreed, AffinityIs
<1>. QED BY <1>1, <1>2, AgreedStep, KnownAlways, PTL DEF Spec
=============================================================================
