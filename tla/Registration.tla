---------------------------- MODULE Registration ----------------------------
(***************************************************************************)
(* REGISTER in proxy/server.rs, proxy/affinity.rs and cluster/mod.rs: the  *)
(* pending REGISTER a forwarded request leaves under its branch, the       *)
(* registrar's answers applied by handler tasks one binding at a time, the *)
(* contacts that lookups read (and clear of expired ones in a second       *)
(* step), and the affinity table with its entry counter.                   *)
(*                                                                         *)
(* The devices of one address-of-record (AOR) register.  A REGISTER has    *)
(* two keys: the route of its contact, named by the device, and the AOR.   *)
(* A REGISTER's number stands for its branch.  Time is in ticks.           *)
(***************************************************************************)
EXTENDS Integers, Sequences, FiniteSets

CONSTANTS
    Device,         \* devices registered under the AOR
    Upstream,       \* registrars a REGISTER may be forwarded to
    Task,           \* handler tasks that take the answers
    Reader,         \* tasks that look a contact up
    Grant,          \* ticks a registration lasts
    MaxTime,        \* bound: ticks
    MaxRegister,    \* bound: REGISTERs sent
    MaxGiveUps      \* bound: clients that do not wait for their answer

AorKey == "aor"
NoKey  == "none"
ASSUME RegistrationAssumption ==
    /\ IsFiniteSet(Device) /\ Device \cap {AorKey, NoKey} = {} /\ "none" \notin Upstream
    /\ {Grant, MaxRegister} \subseteq Nat \ {0} /\ {MaxTime, MaxGiveUps} \subseteq Nat

VARIABLES
    now,
    last,           \* per device: the number of its last REGISTER, or 0
    waiting,        \* devices that wait for an answer
    sent,           \* REGISTERs sent, by number: device, expires, upstream
    atRegistrar,    \* numbers of the REGISTERs a registrar has not answered
    registered,     \* per device: until when a registrar has it
    accepted,       \* by number: what a registrar answered, see NotAnswered
    pending,        \* numbers in pending_registers
    task,           \* what each handler task is doing
    contacts,       \* SharedState: key -> number and expiry, or NoEntry
    reader,         \* the key each reader is about to clear, or NoKey
    affinity,       \* registration-upstream entries: key -> upstream and expiry
    len,            \* the affinity table's counter
    lost,           \* keys whose contact is not what the last answer to them said:
                    \* a late reader has cleared it, or its command was refused
    giveUps

clients == <<last, waiting, sent, giveUps>>
registrar == <<atRegistrar, registered, accepted>>
vars == <<now, clients, registrar, pending, task, contacts, reader, affinity, len, lost>>

Number == 1..MaxRegister
Key    == Device \cup {AorKey}
KeysOf(d) == <<d, AorKey>>

Entry == [num : 0..MaxRegister, up : Upstream \cup {"none"}, expires : Nat]
NoEntry == [num |-> 0, up |-> "none", expires |-> 0]
Live(e) == e # NoEntry /\ e.expires > now
NotAnswered == [code |-> "none", granted |-> 0, others |-> FALSE]
Doing(pc, n, i) == [pc |-> pc, num |-> n, key |-> i]
NoTask == Doing("idle", 0, 0)

TypeOK ==
    /\ now \in 0..MaxTime /\ last \in [Device -> 0..MaxRegister] /\ waiting \subseteq Device
    /\ sent \in Seq([dev : Device, expires : {0, Grant}, up : Upstream]) /\ Len(sent) <= MaxRegister
    /\ atRegistrar \subseteq Number /\ registered \in [Device -> 0..MaxTime + Grant]
    /\ accepted \in [Number -> [code : {"none", "2xx", "other"}, granted : 0..Grant, others : BOOLEAN]]
    /\ pending \subseteq Number
    /\ task \in [Task -> [pc : {"idle", "take", "affinity", "contact", "relay"},
                          num : 0..MaxRegister, key : 0..2]]
    /\ contacts \in [Key -> Entry] /\ affinity \in [Key -> Entry]
    /\ reader \in [Reader -> Key \cup {NoKey}] /\ len \in 0..Cardinality(Key)
    /\ lost \subseteq Key /\ giveUps \in 0..MaxGiveUps

Init ==
    /\ now = 0 /\ last = [d \in Device |-> 0] /\ waiting = {} /\ sent = <<>>
    /\ atRegistrar = {} /\ registered = [d \in Device |-> 0]
    /\ accepted = [n \in Number |-> NotAnswered] /\ pending = {}
    /\ task = [t \in Task |-> NoTask]
    /\ contacts = [k \in Key |-> NoEntry] /\ reader = [r \in Reader |-> NoKey]
    /\ affinity = [k \in Key |-> NoEntry] /\ len = 0 /\ lost = {} /\ giveUps = 0

-----------------------------------------------------------------------------
(* Clients and registrars *)

\* A device registers or takes its registration back once its last REGISTER is
\* answered.  prepare_forward keeps a PendingRegister under the new branch.
Register(d) ==
    /\ d \notin waiting /\ Len(sent) < MaxRegister
    /\ \E e \in {0, Grant}, u \in Upstream : sent' = Append(sent, [dev |-> d, expires |-> e, up |-> u])
    /\ last' = [last EXCEPT ![d] = Len(sent')] /\ waiting' = waiting \cup {d}
    /\ pending' = pending \cup {Len(sent')} /\ atRegistrar' = atRegistrar \cup {Len(sent')}
    /\ UNCHANGED <<now, registered, accepted, task, contacts, reader, affinity, len, lost, giveUps>>

\* A client gives up (timer F); the answer may still come.
GiveUp(d) ==
    /\ d \in waiting /\ giveUps < MaxGiveUps
    /\ waiting' = waiting \ {d} /\ giveUps' = giveUps + 1
    /\ UNCHANGED <<now, last, sent, registrar, pending, task, contacts, reader, affinity, len, lost>>

\* A registrar's 2xx lists every contact of the AOR with what is left of it, and
\* extract_response_contact_expires takes the longest; none listed, the request's.
Left(d, until) == IF until > now THEN until - now ELSE 0
Longest(d, own) ==
    LET all == {own} \cup {Left(e, registered[e]) : e \in Device \ {d}} IN
    CHOOSE x \in all : \A y \in all : y <= x
Others(d) == \E e \in Device \ {d} : registered[e] > now
GrantedExpires(d, own) == Longest(d, own)

Answer(t, n) ==
    LET q == sent[n] IN
    /\ task[t].pc = "idle" /\ n \in atRegistrar
    /\ atRegistrar' = atRegistrar \ {n}
    /\ \/ /\ registered' = [registered EXCEPT ![q.dev] = now + q.expires]
          /\ accepted' = [accepted EXCEPT ![n] =
               [code |-> "2xx", granted |-> GrantedExpires(q.dev, q.expires), others |-> Others(q.dev)]]
       \/ /\ accepted' = [accepted EXCEPT ![n] =
               [code |-> "other", granted |-> q.expires, others |-> FALSE]]
          /\ UNCHANGED registered
    /\ task' = [task EXCEPT ![t] = Doing("take", n, 1)]
    /\ UNCHANGED <<now, clients, pending, contacts, reader, affinity, len, lost>>

-----------------------------------------------------------------------------
(* The affinity table: every operation under the lock of its shard *)

Size(table) == Cardinality({k \in Key : table[k] # NoEntry})
Pruned(table) == [k \in Key |-> IF Live(table[k]) THEN table[k] ELSE NoEntry]

\* Any other key may share the shard of a key.
ShardsOf(k) == {S \in SUBSET Key : k \in S}

\* lookup_key prunes the shard of its key; snapshot and active_len prune one shard
\* after the other.
LookupAffinity(k) ==
    \E shard \in ShardsOf(k) :
        LET kept == [j \in Key |-> IF j \in shard THEN Pruned(affinity)[j] ELSE affinity[j]] IN
        /\ kept # affinity
        /\ affinity' = kept
        /\ len' = len - (Size(affinity) - Size(kept))
        /\ UNCHANGED <<now, clients, registrar, pending, task, contacts, reader, lost>>

\* Variant: the counter grows with every insertion.
RememberKeyAlwaysCounts(k, u, ttl) ==
    /\ affinity' = [affinity EXCEPT ![k] = [num |-> 0, up |-> u, expires |-> now + ttl]]
    /\ len' = len + 1
\* Variant: an entry that is there is only renewed.
RememberKeyKeepsUpstream(k, u, ttl) ==
    /\ affinity' = [affinity EXCEPT ![k] =
         [num |-> 0, up |-> IF @ = NoEntry THEN u ELSE @.up, expires |-> now + ttl]]
    /\ len' = IF affinity[k] = NoEntry THEN len + 1 ELSE len
RememberKey(k, u, ttl) ==
    /\ affinity' = [affinity EXCEPT ![k] = [num |-> 0, up |-> u, expires |-> now + ttl]]
    /\ len' = IF affinity[k] = NoEntry THEN len + 1 ELSE len

-----------------------------------------------------------------------------
(* apply_register_response *)

Finish(t) == task' = [task EXCEPT ![t] = NoTask]

Applies(n) == n \in pending /\ accepted[n].code = "2xx"

\* A binding is remembered with its affinity, then as a contact; one that ends, as a
\* contact only.
FirstStep(n) == IF accepted[n].granted = 0 THEN "contact" ELSE "affinity"

\* The pending REGISTER is taken out; only a 2xx goes on to the bindings.
TakePending(t) ==
    LET n == task[t].num IN
    /\ task[t].pc = "take"
    /\ pending' = pending \ {n}
    /\ task' = [task EXCEPT ![t] = Doing(IF Applies(n) THEN FirstStep(n) ELSE "relay", n, task[t].key)]
    /\ UNCHANGED <<now, clients, registrar, contacts, reader, affinity, len, lost>>

KeyOf(t) == KeysOf(sent[task[t].num].dev)[task[t].key]
RememberAffinity(t) ==
    LET n == task[t].num IN
    /\ task[t].pc = "affinity"
    /\ RememberKey(KeyOf(t), sent[n].up, accepted[n].granted)
    /\ task' = [task EXCEPT ![t] = Doing("contact", n, task[t].key)]
    /\ UNCHANGED <<now, clients, registrar, pending, contacts, reader, lost>>

\* Variant: a REGISTER that ends a registration changes nothing.
EntryKept(n, k) == IF accepted[n].granted = 0 THEN contacts[k]
                   ELSE [num |-> n, up |-> "none", expires |-> now + accepted[n].granted]
EntryOf(n, k) == IF accepted[n].granted = 0 THEN NoEntry
                 ELSE [num |-> n, up |-> "none", expires |-> now + accepted[n].granted]

\* After a binding comes that of the next key, or the answer to the client.
NextBinding(t) ==
    LET n == task[t].num IN
    task' = [task EXCEPT ![t] = Doing(IF task[t].key = 2 THEN "relay" ELSE FirstStep(n), n, 2)]

\* RegisterContact or UnregisterContact for the key.
SubmitContact(t) ==
    /\ task[t].pc = "contact"
    /\ contacts' = [contacts EXCEPT ![KeyOf(t)] = EntryOf(task[t].num, KeyOf(t))]
    /\ lost' = lost \ {KeyOf(t)}
    /\ NextBinding(t)
    /\ UNCHANGED <<now, clients, registrar, pending, reader, affinity, len>>

\* submit returns an error before it applies the command: persistence is required and
\* the commit fails, or the node has become a standby.  submit_cluster_command warns,
\* and the task goes on as if nothing had happened.
SubmitFails(t) ==
    /\ task[t].pc = "contact"
    /\ lost' = lost \cup {KeyOf(t)}
    /\ NextBinding(t)
    /\ UNCHANGED <<now, clients, registrar, pending, contacts, reader, affinity, len>>

\* Then the answer goes to the client.
RelayAnswer(t) ==
    LET n == task[t].num IN
    /\ task[t].pc = "relay"
    /\ waiting' = IF last[sent[n].dev] = n THEN waiting \ {sent[n].dev} ELSE waiting
    /\ Finish(t)
    /\ UNCHANGED <<now, last, sent, giveUps, registrar, pending, contacts, reader, affinity, len, lost>>

-----------------------------------------------------------------------------
(* Lookups and time *)

\* SharedState::lookup: an expired contact is cleared after the read lock is gone,
\* whatever the key holds by then.
LookupExpired(r, k) ==
    /\ reader[r] = NoKey /\ contacts[k] # NoEntry /\ ~Live(contacts[k])
    /\ reader' = [reader EXCEPT ![r] = k]
    /\ UNCHANGED <<now, clients, registrar, pending, task, contacts, affinity, len, lost>>

ClearExpired(r) ==
    LET k == reader[r] IN
    /\ k # NoKey
    /\ contacts' = [contacts EXCEPT ![k] = NoEntry]
    /\ lost' = IF Live(contacts[k]) THEN lost \cup {k} ELSE lost
    /\ reader' = [reader EXCEPT ![r] = NoKey]
    /\ UNCHANGED <<now, clients, registrar, pending, task, affinity, len>>

\* contact_count and snapshot drop what has expired.
PruneContacts ==
    /\ \E k \in Key : contacts[k] # NoEntry /\ ~Live(contacts[k])
    /\ contacts' = Pruned(contacts)
    /\ UNCHANGED <<now, clients, registrar, pending, task, reader, affinity, len, lost>>

Tick ==
    /\ now < MaxTime
    /\ now' = now + 1
    /\ UNCHANGED <<clients, registrar, pending, task, contacts, reader, affinity, len, lost>>

-----------------------------------------------------------------------------

TaskStep(t) ==
    TakePending(t) \/ RememberAffinity(t) \/ SubmitContact(t) \/ SubmitFails(t) \/ RelayAnswer(t)

Next ==
    \/ \E d \in Device : Register(d) \/ GiveUp(d)
    \/ \E t \in Task, n \in Number : Answer(t, n)
    \/ \E t \in Task : TaskStep(t)
    \/ \E k \in Key : LookupAffinity(k)
    \/ \E r \in Reader, k \in Key : LookupExpired(r, k)
    \/ \E r \in Reader : ClearExpired(r)
    \/ PruneContacts \/ Tick

Spec == Init /\ [][Next]_vars

-----------------------------------------------------------------------------
(* Properties *)

\* A device that has the answer to its last REGISTER finds just that in the
\* proxy: its contact while the registration lasts, none after it has taken it
\* back.  (Not while the 2xx listed another device's contact, not for clients
\* that gave up on an earlier answer, and not for a contact that a late reader
\* cleared or whose command was refused: the answer is relayed all the same.)
Settled(d) ==
    /\ d \notin waiting /\ last[d] # 0 /\ giveUps = 0
    /\ accepted[last[d]].code = "2xx" /\ ~accepted[last[d]].others
AnsweredIsStored ==
    \A d \in Device : Settled(d) /\ d \notin lost =>
        IF sent[last[d]].expires = 0 THEN contacts[d] = NoEntry
        ELSE registered[d] > now => contacts[d].num = last[d]

\* A device's calls are sent where its contact is registered: the affinity entry
\* of its route names the registrar that accepted the contact the proxy has, unless
\* the command for the contact was refused after the affinity had been rebound.
Busy(d) == \E t \in Task : task[t].pc # "idle" /\ sent[task[t].num].dev = d
ContactAndAffinityAgree ==
    \A d \in Device :
        (giveUps = 0 /\ ~Busy(d) /\ d \notin lost /\ Live(contacts[d]) /\ affinity[d] # NoEntry)
            => affinity[d].up = sent[contacts[d].num].up

\* The table's counter is the number of its entries, through overwriting, pruning
\* of whole shards and concurrent insertions.
LenIsSize == len = Size(affinity)
=============================================================================
