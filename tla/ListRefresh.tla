---------------------------- MODULE ListRefresh -----------------------------
(***************************************************************************)
(* A geo or threat list at run time: GeoRuntime and ThreatRuntime load the *)
(* cache file, a task refreshes it from the providers (fetch, build, write *)
(* a temporary file, rename, swap the snapshot), and the prune loop of     *)
(* proxy/server.rs copies the snapshot into the kernel's maps              *)
(* (sync_static_policy of proxy/xdp.rs).  The maps are pinned: they and    *)
(* the file outlive the process.                                           *)
(*                                                                         *)
(* A list is numbered by the refresh that built it, 0 for the embedded one.*)
(***************************************************************************)
EXTENDS IpLists

CONSTANTS
    Source,         \* encoded countries, or feeds
    Feed,           \* what a source may serve: sets of address and prefix
    Configs,        \* configurations, see ConfigType
    DefaultEntries, \* capacity of the object's maps
    MaxEntries,     \* max_deny_cidrs_entries, max_geo_cidrs_entries
    MaxRefresh,     \* bound: refreshes begun
    MaxFaults       \* bound: crashes and failing map updates

\* encode_country: two letters, A (65) to Z.
EncodeCountry(first, second) == first * 2^8 + second

Prefix == [addr : Address, prefix : 0..Bits]
\* Policy, and the kernel's switches of a listener (xdp.cidr_filter, xdp.geo_filter,
\* xdp.threat_intel).  Configured prefixes may have bits below their length.
ConfigType == [threat : BOOLEAN, partial : BOOLEAN, failOpen : BOOLEAN, autoSize : BOOLEAN,
               trusted : SUBSET Prefix, allowed : SUBSET Prefix, denied : SUBSET Prefix,
               allow : SUBSET Source, deny : SUBSET Source, unknownAllows : BOOLEAN,
               cidrFilter : BOOLEAN, geoFilter : BOOLEAN, threatIntel : BOOLEAN]

ASSUME ListAssumption ==
    /\ Source \subseteq {EncodeCountry(first, second) : first, second \in 65..90}
    /\ \A f \in Feed : f \subseteq Prefix
    /\ Configs \subseteq ConfigType
    /\ {MaxRefresh, MaxFaults} \subseteq Nat
    /\ {DefaultEntries, MaxEntries} \subseteq Nat \ {0} /\ DefaultEntries <= MaxEntries

VARIABLES
    conf,           \* the configuration: a geo or a threat list, and the policy
    up,             \* the process runs
    filter,         \* the kernel filter: "off", "attaching" or "on"
    snapshot,       \* the list lookups use
    file,           \* the cache file: a list, or Damaged
    pc,             \* of the refresh task
    fetched,        \* per source: what the refresh has got so far
    built,          \* the list it has built
    refreshes,
    keys,           \* XdpStaticState.keys
    fingerprint,    \* XdpStaticState.fingerprint is that of keys
    plan,           \* entries of the sync in progress
    syncPc,
    kernel,         \* entries of the pinned maps
    capacity,       \* of each pinned map
    dirty,          \* a sync has failed midway, or the maps were not empty at the start
    failed,         \* the last sync has failed midway
    faults

listVars   == <<snapshot, file, pc, fetched, built, refreshes>>
kernelVars == <<filter, keys, fingerprint, plan, syncPc, kernel, capacity, dirty, failed>>
vars       == <<conf, up, listVars, kernelVars, faults>>

ThreatList   == conf.threat
AllowPartial == conf.partial

Embedded == [num |-> 0, ranges |-> <<>>, prefixes |-> {}, truth |-> [s \in Source |-> {}]]
Damaged  == [Embedded EXCEPT !.num = -1]

\* What a refresh has of a source.
Got(state, feed) == [state |-> state, feed |-> feed]
NotYet == Got("todo", {})

\* truth is what was read of the sources for a list, by source.
Covered(feed) == UNION {LET r == RangeOf(p.addr, p.prefix, 1) IN r.start..r.end : p \in feed}
CountryOf(s) == IF ThreatList THEN 1 ELSE s

\* The two maps of prefixes that lists are copied to.
Map == {"deny", "geo"}

Init ==
    /\ conf \in Configs
    /\ up = FALSE /\ filter = "off" /\ snapshot = Embedded /\ file \in {Embedded, Damaged}
    /\ pc = "idle" /\ fetched = [s \in Source |-> NotYet] /\ built = Embedded /\ refreshes = 0
    /\ keys = {} /\ fingerprint = FALSE /\ plan = {} /\ syncPc = "idle" /\ kernel = {}
    /\ capacity = [m \in Map |-> 0] /\ dirty = FALSE /\ failed = FALSE /\ faults = 0

-----------------------------------------------------------------------------
(* What goes into the kernel's maps *)

\* XdpListenerPolicySpec::from_security: what the switches leave of the policy.
IfCidrs(prefixes) == IF conf.cidrFilter THEN prefixes ELSE {}
ListSwitch == IF ThreatList THEN conf.threatIntel ELSE conf.geoFilter
\* set_country_bit and country_bit_is_set, of the code that EncodeCountry makes.
CountryBit(c) == ((c \div 2^8) - 65) * 26 + ((c % 2^8) - 65)
KernelPolicy ==
    [denied |-> IfCidrs(conf.denied), allowed |-> IfCidrs(conf.allowed), trusted |-> IfCidrs(conf.trusted),
     geo |-> ~ThreatList /\ ListSwitch, threat |-> ThreatList /\ ListSwitch,
     unknownAllow |-> conf.unknownAllows, hasAllow |-> conf.allow # {},
     allowBits |-> {CountryBit(c) : c \in conf.allow}, denyBits |-> {CountryBit(c) : c \in conf.deny}]

\* make_lpm_key copies the address as it is.
Entry(map, p, country) == [map |-> map, addr |-> p.addr, prefix |-> p.prefix, country |-> country]

\* xdp_prefixes: a geo list cuts its ranges, a threat list has kept its prefixes.
ListEntries(l) ==
    {e \in {Entry("deny", p, 1) : p \in l.prefixes} : KernelPolicy.threat}
        \cup {e \in {Entry("geo", p, p.country) : p \in XdpPrefixes(l.ranges)} : KernelPolicy.geo}

\* build_xdp_static_keys, of the maps whose content a list shares: denied prefixes
\* of the configuration and of a threat list are in one map.
DeniedEntries == {Entry("deny", p, 1) : p \in KernelPolicy.denied}
Entries(l) == DeniedEntries \cup ListEntries(l)

\* desired_xdp_map_entries
Required(l, m) == Cardinality({e \in Entries(l) : e.map = m})
Limit == IF conf.autoSize THEN MaxEntries ELSE DefaultEntries
PowerOfTwoFrom(n) == CHOOSE k \in {2^i : i \in 0..n} : k >= n /\ 2 * n > k
DesiredEntries(l, m) ==
    LET n == Required(l, m) IN
    IF n <= DefaultEntries THEN DefaultEntries
    ELSE LET roomy == PowerOfTwoFrom(2 * n) IN IF roomy < MaxEntries THEN roomy ELSE MaxEntries

-----------------------------------------------------------------------------
(* Start-up: the cache file, then AyaXdpBackend::attach *)

\* A geo list replaces a file that does not decode by the embedded one; with a
\* threat list the process does not start.
Decodes(l) == l # Damaged
Loads(l) == Decodes(l) \/ ~ThreatList
LoadCache == IF Decodes(file) THEN file ELSE Embedded

\* compute_xdp_map_capacities succeeds.
CapacityFound(l) == \A m \in Map : Required(l, m) <= Limit
\* prepare_pinned_map_capacity: a pinned map that is too small is made anew.
Undersized(l) == {m \in Map : capacity[m] < DesiredEntries(l, m)}

\* Without the filter the process runs only if that is allowed.
NoFilter == filter' = "off" /\ up' = conf.failOpen /\ syncPc' = "idle"

Start ==
    /\ ~up /\ Loads(file)
    /\ snapshot' = LoadCache
    /\ keys' = {} /\ fingerprint' = FALSE /\ failed' = FALSE
    /\ IF CapacityFound(LoadCache)
       THEN /\ kernel' = {e \in kernel : e.map \notin Undersized(LoadCache)}
            /\ capacity' = [m \in Map |-> IF m \in Undersized(LoadCache) THEN DesiredEntries(LoadCache, m)
                                                                         ELSE capacity[m]]
            /\ dirty' = (kernel' # {})
            /\ filter' = "attaching" /\ up' = TRUE /\ UNCHANGED syncPc
       ELSE NoFilter /\ UNCHANGED <<kernel, capacity, dirty>>
    /\ UNCHANGED <<conf, file, pc, fetched, built, refreshes, plan, faults>>

-----------------------------------------------------------------------------
(* refresh_once *)

\* The refresh task runs once the filter is attached, at start-up and at intervals.
RefreshDue == up /\ filter # "attaching" /\ pc = "idle"
BeginRefresh ==
    /\ RefreshDue /\ refreshes < MaxRefresh
    /\ pc' = "fetch" /\ refreshes' = refreshes + 1
    /\ fetched' = [s \in Source |-> NotYet]
    /\ UNCHANGED <<conf, up, snapshot, file, built, kernelVars, faults>>

GiveUp == pc' = "idle" /\ fetched' = [s \in Source |-> NotYet] /\ UNCHANGED built

\* A source answers, fails after its retries, or has a line that does not parse: then a
\* country has left the ranges before that line (append_country_ranges), a feed nothing.
ReadBefore == {{}} \cup UNION {SUBSET f : f \in {g \in Feed : ~ThreatList}}
Outcomes == {Got("ok", f) : f \in Feed} \cup {Got("failed", f) : f \in ReadBefore}

FetchEnds(s) ==
    /\ pc = "fetch" /\ fetched[s] = NotYet
    /\ \E got \in Outcomes :
         IF got.state = "ok" \/ AllowPartial
         THEN fetched' = [fetched EXCEPT ![s] = got] /\ UNCHANGED <<pc, built>>
         ELSE GiveUp
    /\ UNCHANGED <<conf, up, snapshot, file, refreshes, kernelVars, faults>>

Ranges(got) == UNION {{RangeOf(p.addr, p.prefix, CountryOf(s)) : p \in got[s].feed} : s \in Source}
Blocks(got) == UNION {{[addr |-> BlockStart(p.addr, p.prefix), prefix |-> p.prefix] :
                       p \in got[s].feed} : s \in Source}
ListOf(got, n) == [num |-> n, ranges |-> Normalize(Ranges(got)), prefixes |-> Blocks(got),
                   truth |-> [s \in Source |-> Covered(got[s].feed)]]

\* fetch_geo_snapshot, fetch_threat_snapshot after the last source: some source has been
\* loaded whole, and countries do not overlap.
Accepts(got, l) ==
    /\ \E s \in Source : got[s].state = "ok"
    /\ ThreatList \/ ~Overlapping(l.ranges)
Build ==
    /\ pc = "fetch" /\ \A s \in Source : fetched[s] # NotYet
    /\ LET l == ListOf(fetched, refreshes) IN
       IF Accepts(fetched, l) THEN built' = l /\ pc' = "write" /\ UNCHANGED fetched ELSE GiveUp
    /\ UNCHANGED <<conf, up, snapshot, file, refreshes, kernelVars, faults>>

\* The same by hand while the process is down (sigproxy geo-cache build, threat-cache
\* build).
Rebuild ==
    /\ ~up /\ refreshes < MaxRefresh /\ refreshes' = refreshes + 1
    /\ \E got \in [Source -> Outcomes] :
         Accepts(got, ListOf(got, refreshes + 1)) /\ file' = ListOf(got, refreshes + 1)
    /\ UNCHANGED <<conf, up, snapshot, pc, fetched, built, kernelVars, faults>>

\* The temporary file is written and synced, or the refresh fails.
WriteTemporary ==
    /\ pc = "write"
    /\ (pc' = "rename" /\ UNCHANGED <<fetched, built>>) \/ GiveUp
    /\ UNCHANGED <<conf, up, snapshot, file, refreshes, kernelVars, faults>>

\* Variant: the new list is used before it is in the cache.
RenameLater ==
    /\ pc = "rename"
    /\ snapshot' = built /\ pc' = "store"
    /\ UNCHANGED <<conf, up, file, fetched, built, refreshes, kernelVars, faults>>
Rename ==
    /\ pc = "rename"
    /\ file' = built /\ pc' = "store"
    /\ UNCHANGED <<conf, up, snapshot, fetched, built, refreshes, kernelVars, faults>>

Store ==
    /\ pc = "store"
    /\ snapshot' = built /\ GiveUp
    /\ UNCHANGED <<conf, up, file, refreshes, kernelVars, faults>>

-----------------------------------------------------------------------------
(* sync_static_policy_prefixes *)

\* A sync is skipped when the last full one was given the same.
BeginSync ==
    /\ up /\ filter # "off" /\ syncPc = "idle"
    /\ ~(fingerprint /\ keys = Entries(snapshot))
    /\ syncPc' = "insert" /\ plan' = Entries(snapshot)
    /\ UNCHANGED <<conf, up, listVars, filter, keys, fingerprint, kernel, capacity, dirty, failed, faults>>

\* An entry is found by address and prefix; its value is replaced.  The kernel's trie
\* does not look at bits below the prefix.
SameKey(e, f) == e.map = f.map /\ e.addr = f.addr /\ e.prefix = f.prefix
InTrie(e) == [e EXCEPT !.addr = BlockStart(e.addr, e.prefix)]
Without(map, gone) == {e \in map : \A f \in gone : ~SameKey(e, InTrie(f))}
\* Variant: an entry that is already in the map keeps its value.
PutNew(map, entries) == map \cup {InTrie(f) : f \in {g \in entries : \A e \in map : ~SameKey(e, InTrie(g))}}
Put(map, entries) == Without(map, entries) \cup {InTrie(f) : f \in entries}

\* New entries go in before old ones go.
HasRoom(map) == \A m \in Map : Cardinality({e \in map : e.map = m}) <= capacity[m]
InsertEntries ==
    /\ syncPc = "insert" /\ HasRoom(Put(kernel, plan))
    /\ kernel' = Put(kernel, plan) /\ syncPc' = "delete"
    /\ UNCHANGED <<conf, up, listVars, filter, keys, fingerprint, plan, capacity, dirty, failed, faults>>

\* A map is full, or an update fails: some entries are in, static_state is left as it
\* was.  During start-up this is the end of the filter.
InsertFails ==
    /\ syncPc = "insert"
    /\ \/ ~HasRoom(Put(kernel, plan)) /\ UNCHANGED faults
       \/ faults < MaxFaults /\ faults' = faults + 1
    /\ \E some \in SUBSET plan : HasRoom(Put(kernel, some)) /\ kernel' = Put(kernel, some)
    /\ dirty' = TRUE /\ failed' = TRUE
    /\ IF filter = "attaching" THEN NoFilter ELSE syncPc' = "idle" /\ UNCHANGED <<up, filter>>
    /\ UNCHANGED <<conf, listVars, keys, fingerprint, plan, capacity>>

\* Variant: entries of the previous list are kept.
StaleKept(old, new) == {}
Stale(old, new) == {e \in old : \A f \in new : ~SameKey(e, f)}

\* delete_stale_static_keys.  The deletion of a key that is not in the map is an error.
Present(e) == \E f \in kernel : SameKey(f, InTrie(e))
DeleteStale ==
    /\ syncPc = "delete" /\ \A e \in Stale(keys, plan) : Present(e)
    /\ kernel' = Without(kernel, Stale(keys, plan))
    /\ keys' = plan /\ fingerprint' = TRUE /\ syncPc' = "idle" /\ filter' = "on" /\ failed' = FALSE
    /\ UNCHANGED <<conf, up, listVars, plan, capacity, dirty, faults>>

\* A key is gone since a deletion that failed, or this one fails: some of the stale
\* entries are out, static_state is left as it was.
DeleteFails ==
    /\ syncPc = "delete"
    /\ \/ (\E e \in Stale(keys, plan) : ~Present(e)) /\ UNCHANGED faults
       \/ faults < MaxFaults /\ faults' = faults + 1
    /\ \E some \in SUBSET Stale(keys, plan) :
          some # Stale(keys, plan) /\ kernel' = Without(kernel, some)
    /\ dirty' = TRUE /\ failed' = TRUE /\ syncPc' = "idle"
    /\ UNCHANGED <<conf, up, listVars, filter, keys, fingerprint, plan, capacity>>

-----------------------------------------------------------------------------

\* The process ends; file and maps stay.
Crash ==
    /\ up /\ faults < MaxFaults
    /\ up' = FALSE /\ filter' = "off" /\ GiveUp /\ syncPc' = "idle" /\ faults' = faults + 1
    /\ UNCHANGED <<conf, snapshot, file, refreshes, keys, fingerprint, plan, kernel, capacity, dirty, failed>>

Next ==
    \/ Start \/ Rebuild \/ BeginRefresh \/ Build \/ WriteTemporary \/ Rename \/ Store
    \/ \E s \in Source : FetchEnds(s)
    \/ BeginSync \/ InsertEntries \/ InsertFails \/ DeleteStale \/ DeleteFails
    \/ Crash

Spec == Init /\ [][Next]_vars

-----------------------------------------------------------------------------
(* Verdicts: check_packet and evaluate_packet, as far as lists decide them *)

\* Cidr::contains of one of several
InCidrs(a, prefixes) == \E p \in prefixes : BlockStart(a, p.prefix) = BlockStart(p.addr, p.prefix)

EvaluateThreatPolicy(a) == IF Bisect(snapshot.ranges, a) = NoCountry THEN "pass" ELSE "drop"
EvaluateGeoPolicy(a) ==
    LET country == Bisect(snapshot.ranges, a) IN
    IF country = NoCountry THEN IF conf.unknownAllows THEN "pass" ELSE "drop"
    ELSE IF country \in conf.deny \/ (conf.allow # {} /\ country \notin conf.allow) THEN "drop" ELSE "pass"
NotAllowed(a) == conf.allowed # {} /\ ~InCidrs(a, conf.allowed)
ListDrops(a) ==
    /\ ~InCidrs(a, conf.trusted)
    /\ (IF ThreatList THEN EvaluateThreatPolicy(a) ELSE EvaluateGeoPolicy(a)) = "drop"
CheckPacket(a) == IF InCidrs(a, conf.denied) \/ NotAllowed(a) \/ ListDrops(a) THEN "drop" ELSE "pass"

\* evaluate_packet of sigproxy_xdp.c
EvaluatePacket(a) ==
    LET policy  == KernelPolicy
        in(m)   == {e \in kernel : e.map = m}
        country == LongestMatch(in("geo"), a)
        bit     == CountryBit(country) IN
    IF LongestMatch(in("deny"), a) # NoCountry THEN "drop"
    ELSE IF policy.allowed # {} /\ ~InCidrs(a, policy.allowed) THEN "drop"
    ELSE IF InCidrs(a, policy.trusted) \/ ~policy.geo THEN "pass"
    ELSE IF country = NoCountry THEN IF policy.unknownAllow THEN "pass" ELSE "drop"
    ELSE IF bit \in policy.denyBits \/ (policy.hasAllow /\ bit \notin policy.allowBits) THEN "drop" ELSE "pass"

-----------------------------------------------------------------------------
(* Properties *)

TypeOK ==
    /\ conf \in Configs /\ up \in BOOLEAN /\ filter \in {"off", "attaching", "on"}
    /\ refreshes \in 0..MaxRefresh /\ faults \in 0..MaxFaults /\ {dirty, failed, fingerprint} \subseteq BOOLEAN
    /\ pc \in {"idle", "fetch", "write", "rename", "store"} /\ syncPc \in {"idle", "insert", "delete"}
    /\ \A l \in {snapshot, file, built} :
         /\ l.num \in -1..refreshes
         /\ \A i \in 1..Len(l.ranges) : l.ranges[i].start \in Address /\ l.ranges[i].end \in Address
    /\ \A e \in kernel : Aligned(e.addr, e.prefix)
    /\ \A e \in kernel \cup keys : e.country # NoCountry
    /\ \A m \in Map : capacity[m] \in 0..MaxEntries

\* What a lookup finds is what was read of the sources, a source skipped for a bad line
\* included: an address has a country that had it, and none if nobody did, through
\* sorting, merging and bisection.
LookupIsTrue ==
    \A a \in Address :
        LET hits == {CountryOf(s) : s \in {t \in Source : a \in snapshot.truth[t]}} IN
        IF hits = {} THEN Bisect(snapshot.ranges, a) = NoCountry ELSE Bisect(snapshot.ranges, a) \in hits

\* A list in use is in the cache file, or the file has a newer one: a restart does
\* not go back to an older list.
InUseIsCached == up /\ file # Damaged => file.num >= snapshot.num

\* After a full sync, by prefixes, countries and feeds: if no sync has failed midway and
\* the maps were empty at the start, the kernel drops nothing that user space would let
\* through, but for trusted addresses on a threat list or, with cidr_filter off, of a
\* country.  And it drops whatever user space drops by a filter it has been given: by
\* prefixes and threat lists whatever has failed before that sync, by countries if
\* nothing has.  (A configured prefix with host bits may share its entry with one of a
\* threat list, whose deletion takes it away.)
Quiet == up /\ filter = "on" /\ syncPc = "idle" /\ fingerprint /\ keys = Entries(snapshot)
Shared(p) == KernelPolicy.threat /\ ~Aligned(p.addr, p.prefix)
KernelAgrees ==
    Quiet => \A a \in Address :
        /\ ~dirty /\ EvaluatePacket(a) = "drop" =>
              CheckPacket(a) = "drop" \/ (InCidrs(a, conf.trusted) /\ (ThreatList \/ ~conf.cidrFilter))
        /\ ~failed /\ conf.cidrFilter /\ InCidrs(a, {p \in conf.denied : ~Shared(p)}) => EvaluatePacket(a) = "drop"
        /\ conf.cidrFilter /\ NotAllowed(a) => EvaluatePacket(a) = "drop"
        /\ ~failed /\ (ThreatList \/ ~dirty) /\ ListSwitch /\ ListDrops(a) => EvaluatePacket(a) = "drop"

\* Whatever has failed before it, after a full sync the kernel has every entry of the
\* list and of the configuration, but for those a threat list may share, within the
\* capacity of its maps.  (Not when the list went back to the one of the last full sync
\* after a sync that failed: that looks as if nothing had changed.)
KernelCovers ==
    Quiet /\ ~failed => (\A e \in Entries(snapshot) : Shared(e) \/ InTrie(e) \in kernel) /\ HasRoom(kernel)
=============================================================================
