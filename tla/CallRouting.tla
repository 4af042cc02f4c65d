---------------------------- MODULE CallRouting -----------------------------
(***************************************************************************)
(* Where prepare_forward of proxy/server.rs sends the requests of a call,  *)
(* and which addresses it leaves behind: transaction route, registration,  *)
(* Request-URI, affinity and route table in turn; own Route headers taken  *)
(* off, Record-Route put on, and put back into a 2xx that has lost it.     *)
(*                                                                         *)
(* One call between a phone and a server of an upstream group.  An address *)
(* is a phone, a server, or one of the proxy's own: "pub", "int", "name"   *)
(* (a configured host name) and "moved" (what STUN says at another time).  *)
(* "lost" is an address nobody has.                                        *)
(***************************************************************************)
EXTENDS Integers, Sequences, SequencesExt

CONSTANTS
    Phone, Server,
    Aor,            \* addresses of record
    AorOf,          \* Phone -> Aor; several devices may share one
    Natted,         \* phones whose Contact is not the address they send from
    Group,          \* group -> servers
    Routes,         \* proxy.routes: sequence of [listener, domain, prefix, group]
    Concrete,       \* listener key -> keys of the listeners it stands for
    Configs,        \* configurations, see ConfigType
    MaxHops,        \* the Max-Forwards a request starts with (70)
    MaxSent,        \* bound: requests of the call
    MaxChanges,     \* bound: changes of registrations, health and STUN's answer, and expiries
    MaxFaults       \* bound: STUN queries and probes that fail

None == "none"
Every  == "any"
Own  == {"pub", "int", "name", "moved"}
Side == {"public", "internal"}

\* The proxy's configuration, and how the phones write their Contact: named are those
\* with a host name in it, param is its transport parameter.  The public address is
\* configured, or asked of STUN ("moving" if its answers differ); the internal one is
\* configured, or the interface towards a probe on the servers' side or towards the
\* default probe, or both are external_addr.
ConfigType == [public : {"addr", "name", "stun", "moving", "none"},
               internal : {"addr", "probe", "default", "external"},
               named : SUBSET Phone, param : {"udp", "tcp", None},
               local : SUBSET {"pub", "int"}, transport : {"udp", "tcp"}, rewrite : BOOLEAN,
               strategy : {"dialog-id", "call-id", "request-uri"}, recordRoute : BOOLEAN,
               listener : STRING, group : DOMAIN Group]

ASSUME RoutingAssumption ==
    /\ Phone \cap Server = {} /\ (Phone \cup Server) \cap ({None, "lost"} \cup Own) = {}
    /\ AorOf \in [Phone -> Aor] /\ None \notin Aor /\ Configs \subseteq ConfigType
    /\ \A c \in Configs : c.internal = "external" => c.public \in {"addr", "name"}
    /\ \A g \in DOMAIN Group : Group[g] \subseteq Server /\ Group[g] # {}
    /\ Len(Routes) \in Nat /\ \A i \in 1..Len(Routes) : Routes[i].group \in DOMAIN Group
    /\ Natted \subseteq Phone /\ {MaxHops, MaxSent, MaxChanges, MaxFaults} \subseteq Nat

VARIABLES
    conf,           \* the configuration
    location,       \* SharedState: address of record -> device
    devices,        \* SharedState: devices with a binding, which a rewritten Contact leads to
    registrar,      \* registration-upstream affinity: address of record -> server
    healthy,        \* servers
    affinity,       \* AffinityTable: key -> address
    invites,        \* invite_transactions: key -> address
    advertised,     \* advertised_addrs: next hop -> side -> own address
    call,           \* the call, see NoCall
    wire,           \* requests on their way to the proxy
    forwarded,      \* requests sent on and not yet remembered
    last,           \* a request sent on just now, with what was bound then
    sent, changes, faults

tables == <<location, devices, registrar, affinity, invites, advertised>>
bounds == <<sent, changes, faults>>
vars   == <<conf, healthy, tables, call, wire, forwarded, last, bounds>>

\* at is the proxy's address in a Contact it has rewritten.
Uri(kind, of) == [kind |-> kind, of |-> of, at |-> None]
NoUri     == Uri(None, None)
NoRequest == [from |-> None, method |-> None, tagged |-> FALSE, uri |-> NoUri, to |-> None,
              routes |-> <<>>, hops |-> 0, key |-> 0, trips |-> 0]
NoLast    == [req |-> NoRequest, at |-> None, routes |-> <<>>, bound |-> None, caughtUp |-> FALSE]
\* offer is the INVITE's target and Record-Route.  Ghosts: outgoing until a server's
\* request has been remembered, steady until health has changed, an affinity expired or
\* a request overtaken the remembering of an earlier one, inTime until an INVITE
\* transaction has expired, halved if the 2xx lost the second of two addresses only.
NoCall    == [state |-> "idle", phone |-> None, server |-> None, byPhone |-> FALSE,
              invite |-> NoRequest, offeredTo |-> None, offer |-> <<>>, phoneRoutes |-> <<>>, serverRoutes |-> <<>>,
              outgoing |-> TRUE, steady |-> TRUE, inTime |-> TRUE, halved |-> FALSE]
Absent == -1        \* a request without Max-Forwards

Init ==
    /\ conf \in Configs
    /\ location = [a \in Aor |-> None] /\ devices = {} /\ registrar = [a \in Aor |-> None]
    /\ healthy = Server
    /\ affinity = <<>> /\ invites = <<>>
    /\ advertised = <<>>
    /\ call = NoCall /\ wire = {} /\ forwarded = {} /\ last = NoLast
    /\ sent = 0 /\ changes = 0 /\ faults = 0

-----------------------------------------------------------------------------
(* Addresses *)

\* is_advertised_or_listener_addr; a host name is no socket address.
IsOwn(a) ==
    \/ a = "pub" /\ conf.public = "addr"
    \/ a = "int" /\ conf.internal = "addr"
    \/ a \in conf.local

\* parse_contact_target, also of a Request-URI: an address, not a host name.
ContactAddr(p) == IF p \in conf.named THEN None ELSE IF p \in Natted THEN "lost" ELSE p
UriAddr(u) ==
    CASE u.kind = "contact" -> ContactAddr(u.of)
      [] u.kind = "server"  -> u.of
      [] u.kind = "token" /\ u.at # "name" -> u.at
      [] OTHER              -> None

\* outbound_local_addr: the proxy's interface towards a next hop.
LocalTo(a) == IF a \notin Server /\ "pub" \in conf.local THEN "pub" ELSE "int"

\* resolve_advertised_sip_addr: what is configured (configured_addr_for_side), or what
\* STUN or the probe says.
InternalAddr ==
    CASE conf.internal = "external" -> IF conf.public = "name" THEN "name" ELSE "pub"
      [] conf.internal = "default" /\ "pub" \in conf.local -> "pub"
      [] OTHER -> "int"
Resolution(side, a) ==
    IF side = "internal" THEN {InternalAddr}
    ELSE CASE conf.public = "name"   -> {"name"}
           [] conf.public = "none"   -> {LocalTo(a)}
           [] conf.public = "moving" -> {"pub"} \cup {r \in {"moved"} : changes < MaxChanges}
           [] OTHER                  -> {"pub"}
NeedsQuery(side) ==
    IF side = "public" THEN conf.public \in {"stun", "moving"} ELSE conf.internal \in {"probe", "default"}

\* advertised_sip_addr: the first answer is kept, a fallback too.  What is kept for
\* next hop a once both sides have been asked for.
Resolved(a) ==
    LET fallback(side) == IF NeedsQuery(side) /\ faults < MaxFaults THEN {LocalTo(a)} ELSE {}
        answers(side) == IF a \in DOMAIN advertised THEN {advertised[a][side]}
                         ELSE Resolution(side, a) \cup fallback(side) IN
    {adv \in [Side -> Own] : \A side \in Side : adv[side] \in answers(side)}
Moved(a, adv)    == a \notin DOMAIN advertised /\ adv["public"] = "moved"
FellBack(a, adv) == a \notin DOMAIN advertised /\ \E side \in Side : adv[side] \notin Resolution(side, a)

\* route_targets_this_proxy, for the addresses advertised to the next hop.
RouteIsOwn(route, adv) ==
    /\ route # "name"
    /\ IsOwn(route) \/ \E side \in Side : adv[side] = route

\* Variant: only the top Route is looked at.
PopOneOwnRoute(routes, adv) == IF routes # <<>> /\ RouteIsOwn(routes[1], adv) THEN Tail(routes) ELSE routes
\* pop_own_route_headers
PopOwnRoutes(routes, adv) ==
    LET foreign == {i \in 1..Len(routes) : ~RouteIsOwn(routes[i], adv)} IN
    IF foreign = {} THEN <<>> ELSE SubSeq(routes, Min(foreign), Len(routes))

\* Variant: the addresses in the other order.
RecordRouteAddrsSwapped(from, to, adv) ==
    LET pub == adv["public"]  int == adv["internal"] IN
    IF (from \in Server) = (to \in Server) THEN <<IF to \in Server THEN int ELSE pub>>
    ELSE IF to \in Server THEN <<pub, int>> ELSE <<int, pub>>
\* record_route_addrs: two when the request crosses sides, the next hop's first.
RecordRouteAddrs(from, to, adv) ==
    LET pub == adv["public"]  int == adv["internal"] IN
    IF (from \in Server) = (to \in Server) THEN <<IF to \in Server THEN int ELSE pub>>
    ELSE IF to \in Server THEN <<int, pub>> ELSE <<pub, int>>

\* ensure_dialog_record_routes: what a 2xx lacks of its one or two addresses is put
\* back on top.
Lacking(rr, addrs, i) ==
    IF i > Len(addrs) \/ \E j \in 1..Len(rr) : rr[j] = addrs[i] THEN <<>> ELSE <<addrs[i]>>
EnsureRecordRoutes(rr, addrs) == Lacking(rr, addrs, 1) \o Lacking(rr, addrs, 2) \o rr

-----------------------------------------------------------------------------
(* The route table: RouteTable::select, and select_upstream *)

Host(u) == IF u.kind = "aor" THEN "domain" ELSE "address"
RouteMatches(r, u) ==
    /\ r.listener = Every \/ conf.listener \in Concrete[r.listener]
    /\ r.domain = Every \/ r.domain = Host(u)
    /\ r.prefix = Every \/ r.prefix = u.kind
Given(field) == IF field = Every THEN 0 ELSE 1
Specificity(r) == Given(r.listener) + Given(r.domain) + Given(r.prefix)

\* max_by_key keeps the last of equals.
GroupFor(u) ==
    LET hits == {i \in 1..Len(Routes) : RouteMatches(Routes[i], u)}
        best == {i \in hits : \A j \in hits : Specificity(Routes[j]) <= Specificity(Routes[i])} IN
    IF hits = {} THEN conf.group ELSE Routes[CHOOSE i \in best : \A j \in best : j <= i].group

\* Any server the round robin of UpstreamHealth may give.
Selected(u) ==
    LET up == Group[GroupFor(u)] \cap healthy IN IF up = {} THEN Group[GroupFor(u)] ELSE up

-----------------------------------------------------------------------------
(* The candidates of prepare_forward, each a set of targets, empty if there is none *)

Only(a) == IF a = None THEN {} ELSE {a}
Hit(table, key) == IF key \in DOMAIN table THEN {table[key]} ELSE {}

FromUpstream(m) == m.from \in Server

\* direct_request_uri_target
Direct(m) == {a \in Only(UriAddr(m.uri)) : FromUpstream(m) /\ a \notin Server /\ ~IsOwn(a)}

TransactionRoute(m) ==
    IF m.method = "CANCEL" \/ (m.method = "ACK" /\ Direct(m) = {}) THEN Hit(invites, m.key) ELSE {}

\* Variant: always the Contact.
TargetOfContact(p) == ContactAddr(p)
\* target_for_registration_binding: over UDP the address the REGISTER came from.  The
\* transport is that of the Contact, if it parses and has one.
TransportOf(p) == IF ContactAddr(p) # None /\ conf.param # None THEN conf.param ELSE conf.transport
TargetOf(p) == IF TransportOf(p) = "udp" THEN p ELSE ContactAddr(p)

\* lookup_delivery_registration_binding: by Request-URI, then by the To header.
Bound(m) ==
    IF m.uri.kind = "token" /\ m.uri.of \in devices THEN m.uri.of
    ELSE IF m.uri.kind = "aor" /\ location[m.uri.of] # None THEN location[m.uri.of]
    ELSE IF m.to \in Aor THEN location[m.to] ELSE None
\* A Contact without an address is as good as none: select_upstream.
Location(m) ==
    IF ~FromUpstream(m) \/ Bound(m) = None THEN {}
    ELSE IF TargetOf(Bound(m)) = None THEN Selected(m.uri) ELSE {TargetOf(Bound(m))}

\* lookup_registered_upstream_target: an initial INVITE for a registered address.
RegisteredUpstream(m) ==
    IF m.method = "INVITE" /\ ~m.tagged /\ m.to \in Aor /\ ~FromUpstream(m)
    THEN Only(registrar[m.to]) \cap healthy ELSE {}

\* Variant: within a dialog the Call-ID is not asked.
AffinityKeysDialogOnly(m) ==
    CASE conf.strategy = "request-uri" -> <<<<"uri", m.uri>>>>
      [] conf.strategy = "dialog-id" /\ m.tagged -> <<<<"dialog">>>>
      [] OTHER -> <<<<"call">>>>
\* affinity_keys; the first key that is bound decides.
AffinityKeys(m) ==
    CASE conf.strategy = "request-uri" -> <<<<"uri", m.uri>>>>
      [] conf.strategy = "dialog-id" /\ m.tagged -> <<<<"dialog">>, <<"call">>>>
      [] OTHER -> <<<<"call">>>>
Affinity(m) ==
    LET keys == AffinityKeys(m)
        bound == {i \in 1..Len(keys) : keys[i] \in DOMAIN affinity} IN
    IF bound = {} THEN {} ELSE {affinity[keys[Min(bound)]]} \cap healthy

\* Variant: the location is looked up before the transaction.
CandidatesByLocation(m) == <<Location(m), TransactionRoute(m), Direct(m), RegisteredUpstream(m), Affinity(m)>>
Candidates(m) ==
    IF m.method = "ACK" /\ Direct(m) # {} THEN <<Direct(m)>>
    ELSE <<TransactionRoute(m), Location(m), Direct(m), RegisteredUpstream(m), Affinity(m)>>

Targets(m) ==
    LET tried == Candidates(m)
        found == {i \in 1..Len(tried) : tried[i] # {}}
        first == IF found = {} THEN Selected(m.uri) ELSE tried[Min(found)] IN
    IF \E a \in first : a \notin Server /\ IsOwn(a) THEN Selected(m.uri) ELSE first

-----------------------------------------------------------------------------
(* Forwarding *)

\* Variant: the count is only checked.
HopsLeftKept(hops) == IF hops = Absent THEN MaxHops ELSE hops
\* decrement_max_forwards
HopsLeft(hops) == IF hops = Absent THEN MaxHops ELSE hops - 1

\* A table with a new value under some keys.
Put(table, keys, value) == [k \in DOMAIN table \cup keys |-> IF k \in keys THEN value ELSE table[k]]

\* The Record-Route a request gets, and whether it opens the call.
RecordRoute(m, a, adv) ==
    IF conf.recordRoute /\ m.method = "INVITE" THEN RecordRouteAddrs(m.from, a, adv) ELSE <<>>
Opens(m) == m.method = "INVITE" /\ ~m.tagged /\ m.trips = 0

\* top_route_targets_this_proxy: a server's foreign Route is compared with the addresses
\* advertised to that server, which are then kept.
Asked(m) == {a \in {m.from} : FromUpstream(m) /\ m.routes # <<>> /\ m.routes[1] # "name" /\ ~IsOwn(m.routes[1])}

\* prepare_forward and the send, for one target, the addresses advertised to it, and to
\* the sender.
ForwardTo(m, a, adv, back) ==
    /\ advertised' = Put(Put(advertised, Asked(m), back), {a}, adv)
    /\ faults' = IF FellBack(a, adv) \/ \E b \in Asked(m) : FellBack(b, back) THEN faults + 1 ELSE faults
    /\ changes' = IF Moved(a, adv) \/ \E b \in Asked(m) : Moved(b, back) THEN changes + 1 ELSE changes
    /\ wire' = wire \ {m}
    /\ forwarded' = forwarded \cup {[keys |-> AffinityKeys(m), to |-> a, req |-> m]}
    /\ last' = [req |-> [m EXCEPT !.hops = HopsLeft(@), !.trips = @ + 1], at |-> a,
                routes |-> PopOwnRoutes(m.routes, adv), bound |-> Bound(m), caughtUp |-> forwarded = {}]
    /\ call' = IF Opens(m)
               THEN [call EXCEPT !.invite = m, !.offeredTo = a, !.offer = RecordRoute(m, a, adv)]
               ELSE [call EXCEPT !.steady = @ /\ forwarded = {}]
    /\ UNCHANGED <<conf, healthy, location, devices, registrar, affinity, invites, sent>>
Forward(m) ==
    /\ m.hops # 0
    /\ \E a \in Targets(m) : \E adv \in Resolved(a) :
         \E back \in IF m.from \in Asked(m) \ {a} THEN Resolved(m.from) ELSE {adv} : ForwardTo(m, a, adv, back)

\* 483: no hops are left.
TooManyHops(m) ==
    /\ m.hops = 0
    /\ wire' = wire \ {m}
    /\ UNCHANGED <<conf, healthy, tables, call, forwarded, last, bounds>>

\* remember_successful_forward, after the send.
Remember(f) ==
    /\ forwarded' = forwarded \ {f}
    /\ affinity' = IF f.req.method = "OPTIONS" THEN affinity
                   ELSE Put(affinity, {f.keys[i] : i \in 1..Len(f.keys)}, f.to)
    /\ invites' = IF f.req.method = "INVITE" THEN Put(invites, {f.req.key}, f.to) ELSE invites
    /\ call' = [call EXCEPT !.outgoing = @ /\ (f.req.method = "OPTIONS" \/ ~FromUpstream(f.req))]
    /\ UNCHANGED <<conf, healthy, location, devices, registrar, advertised, wire, last, bounds>>

-----------------------------------------------------------------------------
(* Around the proxy: registrations (see Registration), health (UpstreamHealth), *)
(* phones and servers.                                                          *)

Changes == changes < MaxChanges /\ changes' = changes + 1

\* The REGISTER tells its server the proxy's internal address.
Register(p, s) ==
    /\ s \in Selected(Uri("aor", AorOf[p])) /\ Changes
    /\ \E adv \in Resolved(s) : /\ advertised' = Put(advertised, {s}, adv)
                                /\ faults' = IF FellBack(s, adv) THEN faults + 1 ELSE faults
    /\ location' = [location EXCEPT ![AorOf[p]] = p]
    /\ devices' = devices \cup {p}
    /\ registrar' = [registrar EXCEPT ![AorOf[p]] = s] /\ last' = NoLast
    /\ UNCHANGED <<conf, healthy, affinity, invites, call, wire, forwarded, sent>>

Expire(p) ==
    /\ p \in devices /\ Changes
    /\ devices' = devices \ {p}
    /\ location' = [location EXCEPT ![AorOf[p]] = IF @ = p THEN None ELSE @]
    /\ last' = NoLast
    /\ UNCHANGED <<conf, healthy, registrar, affinity, invites, advertised, call, wire, forwarded, sent, faults>>

HealthChanges(s) ==
    /\ Changes
    /\ healthy' = IF s \in healthy THEN healthy \ {s} ELSE healthy \cup {s}
    /\ call' = [call EXCEPT !.steady = FALSE] /\ last' = NoLast
    /\ UNCHANGED <<conf, tables, wire, forwarded, sent, faults>>

\* Entries that ttl_seconds and INVITE_TRANSACTION_TTL have ended; a lookup does not
\* renew them.
Without(table, key) == [k \in DOMAIN table \ {key} |-> table[k]]
AffinityExpires(key) ==
    /\ Changes
    /\ affinity' = Without(affinity, key)
    /\ call' = [call EXCEPT !.steady = FALSE] /\ last' = NoLast
    /\ UNCHANGED <<conf, healthy, location, devices, registrar, invites, advertised, wire, forwarded, sent, faults>>
InviteExpires(key) ==
    /\ Changes
    /\ invites' = Without(invites, key)
    /\ call' = [call EXCEPT !.inTime = FALSE] /\ last' = NoLast
    /\ UNCHANGED <<conf, healthy, location, devices, registrar, affinity, advertised, wire, forwarded, sent, faults>>

\* Bound: one request at a time is on its way to the proxy.
Send(m) ==
    /\ wire = {} /\ sent < MaxSent /\ sent' = sent + 1
    /\ wire' = {m} /\ last' = NoLast
    /\ UNCHANGED <<conf, healthy, tables, forwarded, changes, faults>>

Request(from, method, tagged, uri, to, routes, hops) ==
    [from |-> from, method |-> method, tagged |-> tagged, uri |-> uri, to |-> to, routes |-> routes,
     hops |-> hops, key |-> sent + 1, trips |-> 0]

PhoneCalls(p) ==
    /\ call.state = "idle"
    /\ \E a \in Aor : Send(Request(p, "INVITE", FALSE, Uri("aor", a), a, <<>>, MaxHops))
    /\ call' = [call EXCEPT !.state = "inviting", !.phone = p, !.byPhone = TRUE]

\* By the rewritten Contact, or by the Contact with the Path as Route; either has the
\* address that the proxy told the registrar, and servers tell each other.
DeviceUri(p, at) == IF conf.rewrite THEN [Uri("token", p) EXCEPT !.at = at] ELSE Uri("contact", p)
Path(at) == IF conf.rewrite THEN <<>> ELSE <<at>>
ServerCalls(s, p) ==
    /\ call.state = "idle" /\ p \in devices
    /\ \E hops \in {Absent, MaxHops}, registered \in Server \cap DOMAIN advertised :
         LET at == advertised[registered]["internal"] IN
         Send(Request(s, "INVITE", FALSE, DeviceUri(p, at), AorOf[p], Path(at), hops))
    /\ call' = [call EXCEPT !.state = "inviting", !.phone = p, !.server = s]

\* The CANCEL is the INVITE but for its method.
Cancel ==
    /\ call.state = "inviting" /\ call.offeredTo # None
    /\ Send([call.invite EXCEPT !.method = "CANCEL"])
    /\ UNCHANGED call

\* The 2xx: its sender keeps the Record-Route it got, the caller that of the 2xx, which
\* may have lost any part of it.
Echoes(offer) == {<<>>, offer} \cup {<<offer[i]>> : i \in 1..Len(offer)}
Answer ==
    /\ call.state = "inviting"
    /\ call.offeredTo \in IF call.byPhone THEN Server ELSE Phone
    /\ \E echoed \in Echoes(call.offer) :
         LET mine == call.offer
             theirs == Reverse(EnsureRecordRoutes(echoed, call.offer))
             halved == Len(call.offer) = 2 /\ echoed = <<call.offer[1]>> IN
         call' = IF call.byPhone
                 THEN [call EXCEPT !.state = "up", !.invite = NoRequest, !.server = call.offeredTo,
                                   !.phoneRoutes = theirs, !.serverRoutes = mine, !.halved = halved]
                 ELSE [call EXCEPT !.state = "up", !.invite = NoRequest, !.phone = call.offeredTo,
                                   !.phoneRoutes = mine, !.serverRoutes = theirs, !.halved = halved]
    /\ last' = NoLast
    /\ UNCHANGED <<conf, healthy, tables, wire, forwarded, bounds>>

PhoneRequests(method) ==
    /\ call.state = "up"
    /\ Send(Request(call.phone, method, TRUE, Uri("server", call.server), None, call.phoneRoutes, MaxHops))
    /\ UNCHANGED call

\* Without a Record-Route the server does not send through the proxy.
ServerRequests(method) ==
    /\ call.state = "up" /\ call.serverRoutes # <<>>
    /\ Send(Request(call.server, method, TRUE, Uri("contact", call.phone), AorOf[call.phone],
                    call.serverRoutes, MaxHops))
    /\ UNCHANGED call

\* A server that gets a request for a device sends it to the device's proxy, under a
\* branch of its own (key 0).
Bounce ==
    /\ last.at \in Server /\ FromUpstream(last.req)
    /\ wire' = wire \cup {[last.req EXCEPT !.from = last.at, !.routes = last.routes, !.key = 0]}
    /\ last' = NoLast
    /\ UNCHANGED <<conf, healthy, tables, call, forwarded, bounds>>

\* Methods within a call; a re-INVITE takes the way of any other.
Method == {"ACK", "OPTIONS", "OTHER"}
Next ==
    \/ \E m \in wire : Forward(m) \/ TooManyHops(m)
    \/ \E f \in forwarded : Remember(f)
    \/ \E p \in Phone : PhoneCalls(p) \/ Expire(p)
    \/ \E p \in Phone, s \in Server : Register(p, s) \/ ServerCalls(s, p)
    \/ \E s \in Server : HealthChanges(s)
    \/ \E key \in DOMAIN affinity : AffinityExpires(key)
    \/ \E key \in DOMAIN invites : InviteExpires(key)
    \/ \E method \in Method : PhoneRequests(method) \/ ServerRequests(method)
    \/ Cancel \/ Answer \/ Bounce

Spec == Init /\ [][Next]_vars

-----------------------------------------------------------------------------
(* Properties *)

TypeOK ==
    /\ conf \in Configs
    /\ \A a \in Aor : location[a] \in Phone \cup {None} /\ registrar[a] \in Server \cup {None}
    /\ devices \subseteq Phone /\ healthy \subseteq Server
    /\ \A k \in DOMAIN affinity : affinity[k] \in Phone \cup Server \cup {"lost"} \cup Own
    /\ \A a \in DOMAIN advertised : advertised[a] \in [Side -> Own]
    /\ call.state \in {"idle", "inviting", "up"}
    /\ \A m \in wire : m.hops \in Absent..MaxHops /\ m.key \in 0..MaxSent
    /\ last.at \in Phone \cup Server \cup {"lost", None} \cup Own

\* A request is passed on without the proxy's own Route on top, so that the next
\* hop does not send it back, as long as the public address is not a host name,
\* every query has been answered, STUN's always alike, and a listener whose internal
\* address comes from the default probe is bound to both interfaces if to the public one.
Recognizable ==
    /\ conf.public \notin {"name", "moving"} /\ faults = 0
    /\ conf.internal = "default" /\ "pub" \in conf.local => "int" \in conf.local
OwnRoutesPopped == Recognizable /\ last.routes # <<>> => last.routes[1] \notin Own

\* Each end of an answered call reaches the proxy at the address of its own side,
\* whoever called and if the 2xx brought back all, nothing or the caller's half of the
\* Record-Route.  With only the other half, the side that answered still does.
EachSideHasItsRoute ==
    call.state = "up" /\ conf.recordRoute /\ conf.public # "none" /\ faults = 0
        => /\ call.phoneRoutes[1] \in {"pub", "name", "moved"} \/ (call.byPhone /\ call.halved)
           /\ call.serverRoutes[1] = InternalAddr \/ (~call.byPhone /\ call.halved)

\* A CANCEL follows its INVITE although the device has registered elsewhere or
\* health has changed since, unless the INVITE's transaction has expired.
CancelFollowsInvite ==
    last.req.method = "CANCEL" /\ last.req.trips = 1 /\ last.caughtUp /\ call.inTime
        => last.at = call.offeredTo

\* A phone's requests within a call stay with the call's server as long as no
\* request of a server has been remembered for the call, no server has failed and no
\* affinity has expired.
InDialogFromPhone == last.req.from \in Phone /\ last.req.tagged /\ last.caughtUp
StaysOnServer == last.at = call.server
OutgoingCallKeepsItsServer ==
    InDialogFromPhone /\ conf.strategy # "request-uri" /\ call.steady /\ call.outgoing => StaysOnServer

\* A server's requests within a call reach the call's phone, if its address of
\* record leads to it or to nobody: at its Contact, or behind a NAT at the address
\* it registered from (over UDP, and but for the ACK of a 2xx).
ReachableAtContact == ContactAddr(call.phone) = call.phone
ReachableAtSource  == last.bound = call.phone /\ TransportOf(call.phone) = "udp" /\ last.req.method # "ACK"
PhoneIsReached ==
    /\ last.req.from = call.server /\ last.req.tagged
    /\ last.bound \in {call.phone, None}
    /\ ReachableAtContact \/ ReachableAtSource
    => last.at = call.phone

\* A request that goes round between proxy and servers ends.
TripsBounded == last.req.trips <= MaxHops + 1

\* A phone's requests within a call stay with the call's server, whoever called.
CallKeepsItsServer ==
    InDialogFromPhone /\ conf.strategy # "request-uri" /\ call.steady => StaysOnServer
=============================================================================
