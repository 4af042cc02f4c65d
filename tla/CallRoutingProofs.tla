------------------------- MODULE CallRoutingProofs --------------------------
(***************************************************************************)
(* Proofs about CallRouting, for any phones, servers, configurations,      *)
(* routes and bounds: where the requests of a call go and which addresses  *)
(* of the proxy they carry.  At the end, about UpstreamHealth, for any     *)
(* layouts of groups, tasks and thresholds: which server of a group a      *)
(* request is routed to.                                                   *)
(***************************************************************************)
EXTENDS CallRouting, UpstreamHealth, SequenceTheorems, WellFoundedInduction, TLAPS

-----------------------------------------------------------------------------
(* Types *)

\* Addresses of its own that the proxy can have given out: a host name only if one is
\* configured, another answer of STUN's only if it is asked, the internal one only if both
\* are not external_addr, and the public one, if none is configured, only if it is an
\* interface.
Known == {r \in Own : /\ r = "name" => conf.public = "name"
                      /\ r = "moved" => conf.public = "moving"
                      /\ r = "int" => conf.internal # "external"
                      /\ r = "pub" /\ conf.public = "none" => "pub" \in conf.local}

\* Where a request may be sent.
Target == Phone \cup Server \cup {"lost"} \cup Own
UriType == {NoUri} \cup [kind : {"aor"}, of : Aor, at : {None}] \cup [kind : {"contact"}, of : Phone, at : {None}]
                   \cup [kind : {"token"}, of : Phone, at : Own] \cup [kind : {"server"}, of : Server, at : {None}]
RequestType ==
    [from : Phone \cup Server \cup {None}, method : {None, "INVITE", "CANCEL"} \cup Method, tagged : BOOLEAN,
     uri : UriType, to : Aor \cup {None}, routes : Seq(Known), hops : -1..MaxHops, key : Nat, trips : Nat]
\* A request carries none, one or two addresses in its Record-Route.
Offers(S) == {<<>>} \cup {<<r>> : r \in S} \cup {<<r, s>> : r, s \in S}
CallType ==
    [state : {"idle", "inviting", "up"}, phone : Phone \cup {None}, server : Server \cup {None},
     byPhone : BOOLEAN, invite : RequestType, offeredTo : Target \cup {None}, offer : Offers(Known),
     phoneRoutes : Seq(Known), serverRoutes : Seq(Known), outgoing : BOOLEAN, steady : BOOLEAN,
     inTime : BOOLEAN, halved : BOOLEAN]
LastType == [req : RequestType, at : Target \cup {None}, routes : Seq(Known), bound : Phone \cup {None},
             caughtUp : BOOLEAN]
Types ==
    /\ conf \in Configs /\ location \in [Aor -> Phone \cup {None}] /\ devices \subseteq Phone
    /\ registrar \in [Aor -> Server \cup {None}] /\ healthy \subseteq Server
    /\ \A k \in DOMAIN affinity : affinity[k] \in Target
    /\ \A k \in DOMAIN invites : invites[k] \in Target
    /\ \A a \in DOMAIN advertised : advertised[a] \in [Side -> Known]
    /\ call \in CallType /\ wire \subseteq RequestType /\ last \in LastType
    /\ \A f \in forwarded : f.to \in Target /\ f.req \in RequestType /\ f.keys = AffinityKeys(f.req)
    /\ sent \in 0..MaxSent /\ faults \in Nat
    /\ call.state # "idle" => call.phone \in Phone
    /\ call.state # "idle" /\ (call.state = "up" \/ ~call.byPhone) => call.server \in Server

\* Max-Forwards and the times the proxy has passed a request on.
InBudget(m) == IF m.hops = Absent THEN m.trips = 0 ELSE m.hops + m.trips <= MaxHops + 1
Budget ==
    /\ \A m \in wire : InBudget(m)
    /\ InBudget(call.invite) /\ call.invite.trips = 0
    /\ InBudget(last.req) /\ last.req.hops # Absent

\* One request is on its way, or one has just been passed on; which one depends on how
\* far the call is.
Initial(m)  == m.method = "INVITE" /\ ~m.tagged /\ m.trips = 0 /\ m.key # 0 /\ m.from \in Phone \cup Server
Cancels(m)  == m.method = "CANCEL" /\ ~m.tagged /\ m.trips = 0 /\ m.key # 0 /\ m.from \in Phone \cup Server
InDialog(m) == m.method \in Method /\ m.tagged
Returned(m) == m.trips # 0 /\ m.key = 0 /\ m.from \in Server
OneAtATime ==
    /\ \A m, n \in wire : m = n
    /\ last.at # None => wire = {} /\ last.req.trips # 0
    /\ \A m \in wire : Initial(m) \/ Cancels(m) \/ InDialog(m) \/ Returned(m)
    /\ \A m \in wire : m.method = "INVITE" => ~m.tagged
    /\ last.req.method = "INVITE" => ~last.req.tagged
\* The call: nothing has happened before its INVITE is passed on, and no second INVITE
\* opens it.
Progress ==
    /\ call.state = "idle" => call.offeredTo = None /\ wire = {} /\ ~call.byPhone
    /\ call.state = "up" => call.offeredTo # None
    /\ call.state = "up" /\ call.byPhone => call.server = call.offeredTo
    /\ call.offeredTo = None => /\ forwarded = {} /\ DOMAIN affinity = {} /\ DOMAIN invites = {}
                                /\ last.at = None /\ \A m \in wire : Initial(m)
    /\ call.offeredTo # None => /\ \A m \in wire : ~Initial(m)
                                /\ call.offeredTo \in Server \/ ~IsOwn(call.offeredTo)
    /\ \A m \in wire : Initial(m) => IF call.byPhone THEN m.from \in Phone ELSE m.from \in Server
    /\ call.state = "inviting" /\ call.offeredTo # None => Initial(call.invite)
Ordered == OneAtATime /\ Progress

\* The INVITE of the call and its transaction: the table of transactions, and what is
\* still to be put into it, lead to where the INVITE went, until it expires.
Invited(k) == (\E f \in forwarded : f.req.method = "INVITE" /\ f.req.key = k) \/ k \in DOMAIN invites
Transaction ==
    /\ \A f \in forwarded : f.req.method = "INVITE" /\ f.req.key # 0 => f.to = call.offeredTo
    /\ \A k \in DOMAIN invites : k # 0 => invites[k] = call.offeredTo
    /\ call.inTime /\ call.state = "inviting" /\ call.offeredTo # None => Invited(call.invite.key)
    /\ call.inTime => \A m \in wire : Cancels(m) => Invited(m.key)

-----------------------------------------------------------------------------
(* The constants, and the first of several *)

\* What the assumption says, in the form the proofs use it.
LEMMA Constants ==
    /\ \A a \in Phone \cup Server : a # None /\ a # "lost" /\ a # "pub" /\ a # "int" /\ a # "name" /\ a # "moved"
    /\ \A p \in Phone : p \notin Server
    /\ AorOf \in [Phone -> Aor] /\ None \notin Aor
    /\ \A g \in DOMAIN Group : Group[g] \subseteq Server /\ Group[g] # {}
    /\ Len(Routes) \in Nat /\ \A i \in 1..Len(Routes) : Routes[i].group \in DOMAIN Group
    /\ MaxHops \in Nat /\ MaxSent \in Nat /\ MaxFaults \in Nat
BY RoutingAssumption DEF Own

\* A configuration has the fields of ConfigType.
LEMMA ConfFacts ==
    ASSUME conf \in Configs
    PROVE  /\ conf.public \in {"addr", "name", "stun", "moving", "none"}
           /\ conf.internal \in {"addr", "probe", "default", "external"}
           /\ conf.internal = "external" => conf.public \in {"addr", "name"}
           /\ conf.local \subseteq {"pub", "int"} /\ conf.group \in DOMAIN Group
           /\ conf.strategy \in {"dialog-id", "call-id", "request-uri"} /\ conf.recordRoute \in BOOLEAN
<1>1. conf \in ConfigType
  BY RoutingAssumption
<1>2. conf.internal = "external" => conf.public \in {"addr", "name"}
  BY RoutingAssumption
<1> QED  BY <1>1, <1>2 DEF ConfigType

\* A nonempty set of numbers has a least one.
LEMMA HasLeast ==
    ASSUME NEW S, S \subseteq Nat, S # {}
    PROVE  \E x \in S : \A y \in S : x <= y
<1>1. PICK x \in S : \A y \in S : ~(<<y, x>> \in OpToRel(<, Nat))
  BY WFMin, NatLessThanWellFounded
<1>2. \A y \in S : ~(y < x)
  BY <1>1 DEF OpToRel
<1> QED  BY <1>2

\* The least of a set.
LEMMA LeastIs ==
    ASSUME NEW S, S \subseteq Nat, S # {}
    PROVE  Min(S) \in S /\ \A y \in S : Min(S) <= y
BY HasLeast DEF Min

\* A nonempty set of numbers up to n has a greatest one.
LEMMA HasGreatest ==
    ASSUME NEW n \in Nat, NEW S, S \subseteq 0..n, S # {}
    PROVE  \E x \in S : \A y \in S : y <= x
<1> DEFINE Above == {k \in Nat : \A y \in S : y <= k}
<1>1. n \in Above
  OBVIOUS
<1>2. PICK x \in Above : \A k \in Above : x <= k
  <2>1. Above \subseteq Nat /\ Above # {}
    BY <1>1
  <2> QED  BY <2>1, HasLeast
<1>3. x \in S
  <2> SUFFICES ASSUME x \notin S  PROVE FALSE
    OBVIOUS
  <2>1. \A y \in S : y <= x - 1
    BY <1>2
  <2>2. x - 1 \in Nat
    <3>1. PICK y : y \in S
      OBVIOUS
    <3>2. y \in Nat
      BY <3>1
    <3> QED  BY <2>1, <3>1, <3>2, <1>2
  <2>3. x - 1 \in Above
    BY <2>1, <2>2
  <2> QED  BY <1>2, <2>3
<1> QED  BY <1>2, <1>3

-----------------------------------------------------------------------------
(* Routes, groups and targets *)

\* The route table names a group that exists.
LEMMA GroupExists ==
    ASSUME conf \in Configs, NEW u
    PROVE  GroupFor(u) \in DOMAIN Group
<1> DEFINE hits == {i \in 1..Len(Routes) : RouteMatches(Routes[i], u)}
           best == {i \in hits : \A j \in hits : Specificity(Routes[j]) <= Specificity(Routes[i])}
           ranks == {Specificity(Routes[i]) : i \in hits}
<1>1. CASE hits = {}
  BY <1>1, ConfFacts DEF GroupFor
<1>2. CASE hits # {}
  <2>1. \A i \in hits : Specificity(Routes[i]) \in 0..3
    BY DEF Specificity, Given
  <2>2. ranks \subseteq 0..3 /\ ranks # {}
    BY <1>2, <2>1
  <2>3. \E x \in ranks : \A y \in ranks : y <= x
    BY <2>2, HasGreatest
  <2>4. best # {}
    <3>1. PICK x \in ranks : \A y \in ranks : y <= x
      BY <2>3
    <3>2. PICK i \in hits : x = Specificity(Routes[i])
      OBVIOUS
    <3>3. \A j \in hits : Specificity(Routes[j]) \in ranks
      OBVIOUS
    <3>4. \A j \in hits : Specificity(Routes[j]) <= Specificity(Routes[i])
      <4> HIDE DEF ranks, hits
      <4> QED  BY <3>1, <3>2, <3>3
    <3> QED  BY <3>4
  <2>5. best \subseteq 0..Len(Routes) /\ Len(Routes) \in Nat
    BY Constants
  <2>6. \E i \in best : \A j \in best : j <= i
    BY <2>4, <2>5, HasGreatest
  <2>7. (CHOOSE i \in best : \A j \in best : j <= i) \in best
    BY <2>6
  <2>8. GroupFor(u) = Routes[CHOOSE i \in best : \A j \in best : j <= i].group
    BY <1>2 DEF GroupFor
  <2>9. PICK i \in 1..Len(Routes) : GroupFor(u) = Routes[i].group
    BY <2>7, <2>8
  <2> QED  BY <2>9, Constants
<1> QED  BY <1>1, <1>2

\* A group gives servers.
LEMMA SelectedServers ==
    ASSUME conf \in Configs, NEW u
    PROVE  Selected(u) \subseteq Server /\ Selected(u) # {}
BY GroupExists, Constants DEF Selected

\* The candidate that decides.
LEMMA FirstDecides ==
    ASSUME NEW m, NEW k \in 1..Len(Candidates(m)), Len(Candidates(m)) \in Nat,
           Candidates(m)[k] # {}, \A j \in 1..(k - 1) : Candidates(m)[j] = {},
           \A a \in Candidates(m)[k] : a \in Server \/ ~IsOwn(a)
    PROVE  Targets(m) = Candidates(m)[k]
<1> DEFINE found == {i \in 1..Len(Candidates(m)) : Candidates(m)[i] # {}}
<1>1. found \subseteq Nat /\ k \in found
  OBVIOUS
<1>2. Min(found) \in found /\ Min(found) <= k
  BY <1>1, LeastIs
<1>3. Min(found) = k
  <2>1. PICK i \in 1..Len(Candidates(m)) : i = Min(found) /\ Candidates(m)[i] # {}
    BY <1>2
  <2>2. i \notin 1..(k - 1)
    BY <2>1
  <2> QED  BY <1>2, <2>1, <2>2
<1> QED  BY <1>1, <1>3 DEF Targets

\* In particular the first, second or third.
LEMMA FirstOfMany ==
    ASSUME NEW m, Len(Candidates(m)) \in Nat, NEW b, b \in Server \/ ~IsOwn(b),
           \/ Len(Candidates(m)) >= 1 /\ Candidates(m)[1] = {b}
           \/ Len(Candidates(m)) >= 2 /\ Candidates(m)[1] = {} /\ Candidates(m)[2] = {b}
           \/ /\ Len(Candidates(m)) >= 3 /\ Candidates(m)[1] = {} /\ Candidates(m)[2] = {}
              /\ Candidates(m)[3] = {b}
    PROVE  Targets(m) = {b}
<1>1. ASSUME NEW k \in {1, 2, 3}, k <= Len(Candidates(m)), Candidates(m)[k] = {b},
             \A j \in 1..(k - 1) : Candidates(m)[j] = {}
      PROVE  Targets(m) = {b}
  <2>1. k \in 1..Len(Candidates(m))
    BY <1>1
  <2> QED  BY <1>1, <2>1, FirstDecides
<1>2. CASE Len(Candidates(m)) >= 1 /\ Candidates(m)[1] = {b}
  <2>1. PICK k \in {1, 2, 3} : k = 1
    OBVIOUS
  <2>2. k <= Len(Candidates(m)) /\ Candidates(m)[k] = {b} /\ \A j \in 1..(k - 1) : Candidates(m)[j] = {}
    BY <1>2, <2>1
  <2> QED  BY <2>2, <1>1
<1>3. CASE Len(Candidates(m)) >= 2 /\ Candidates(m)[1] = {} /\ Candidates(m)[2] = {b}
  <2>1. PICK k \in {1, 2, 3} : k = 2
    OBVIOUS
  <2>2. k <= Len(Candidates(m)) /\ Candidates(m)[k] = {b} /\ \A j \in 1..(k - 1) : Candidates(m)[j] = {}
    BY <1>3, <2>1
  <2> QED  BY <2>2, <1>1
<1>4. CASE Len(Candidates(m)) >= 3 /\ Candidates(m)[1] = {} /\ Candidates(m)[2] = {} /\ Candidates(m)[3] = {b}
  <2>1. PICK k \in {1, 2, 3} : k = 3
    OBVIOUS
  <2>2. k <= Len(Candidates(m)) /\ Candidates(m)[k] = {b} /\ \A j \in 1..(k - 1) : Candidates(m)[j] = {}
    BY <1>4, <2>1
  <2> QED  BY <2>2, <1>1
<1> QED  BY <1>2, <1>3, <1>4

\* The candidates are addresses, and the affinity's a server.
LEMMA CandidatesTyped ==
    ASSUME Types, NEW m \in RequestType
    PROVE  /\ TransactionRoute(m) \subseteq Target /\ Location(m) \subseteq Phone \cup Server \cup {"lost"}
           /\ Direct(m) \subseteq Phone \cup {"lost"} \cup Own
           /\ RegisteredUpstream(m) \subseteq Server /\ Affinity(m) \subseteq Server
           /\ Bound(m) \in Phone \cup {None}
<1>1. TransactionRoute(m) \subseteq Target
  BY DEF TransactionRoute, Hit, Types
<1>2. Bound(m) \in Phone \cup {None}
  <2>1. m.uri \in UriType /\ m.to \in Aor \cup {None}
    BY DEF RequestType
  <2>2. m.uri.kind = "aor" => m.uri.of \in Aor
    BY <2>1 DEF UriType, NoUri, Uri, None
  <2> QED  BY <2>1, <2>2 DEF Bound, Types
<1>3. Location(m) \subseteq Phone \cup Server \cup {"lost"}
  <2>1. Selected(m.uri) \subseteq Server
    BY SelectedServers DEF Types
  <2>2. Bound(m) \in Phone => TargetOf(Bound(m)) \in Phone \cup {"lost", None}
    BY DEF TargetOf, ContactAddr
  <2> QED  BY <1>2, <2>1, <2>2 DEF Location
<1>4. Direct(m) \subseteq Phone \cup {"lost"} \cup Own
  <2>1. m.uri \in UriType
    BY DEF RequestType
  <2>2. UriAddr(m.uri) \in Phone \cup Server \cup {"lost", None} \cup Own
    BY <2>1 DEF UriType, NoUri, Uri, None, UriAddr, ContactAddr, Own
  <2> QED  BY <2>2 DEF Direct, Only
<1>5. RegisteredUpstream(m) \subseteq Server
  BY DEF RegisteredUpstream, Types
<1>6. Affinity(m) \subseteq Server
  BY DEF Affinity, Types
<1> QED  BY <1>1, <1>2, <1>3, <1>4, <1>5, <1>6

\* The five candidates, or the one of an ACK with an address of its own.
LEMMA CandidatesAre ==
    ASSUME NEW m
    PROVE  /\ m.method = "ACK" /\ Direct(m) # {} => Len(Candidates(m)) = 1 /\ Candidates(m)[1] = Direct(m)
           /\ ~(m.method = "ACK" /\ Direct(m) # {}) =>
                /\ Len(Candidates(m)) = 5
                /\ Candidates(m)[1] = TransactionRoute(m) /\ Candidates(m)[2] = Location(m)
                /\ Candidates(m)[3] = Direct(m) /\ Candidates(m)[4] = RegisteredUpstream(m)
                /\ Candidates(m)[5] = Affinity(m)
BY DEF Candidates

\* What is chosen is an address, and none of the proxy's own.
LEMMA TargetsTyped ==
    ASSUME Types, NEW m \in RequestType, NEW a \in Targets(m)
    PROVE  a \in Target /\ (a \in Server \/ ~IsOwn(a))
<1> DEFINE found == {i \in 1..Len(Candidates(m)) : Candidates(m)[i] # {}}
           first == IF found = {} THEN Selected(m.uri) ELSE Candidates(m)[Min(found)]
<1>1. Selected(m.uri) \subseteq Server
  BY SelectedServers DEF Types
<1>2. \A i \in 1..Len(Candidates(m)) : Candidates(m)[i] \subseteq Target
  BY CandidatesTyped, CandidatesAre DEF Target
<1>3. found \subseteq Nat
  OBVIOUS
<1>4. first \subseteq Target
  <2>1. CASE found = {}
    BY <1>1, <2>1 DEF Target
  <2>2. CASE found # {}
    <3>1. Min(found) \in found
      BY <1>3, <2>2, LeastIs
    <3> QED  BY <1>2, <2>2, <3>1
  <2> QED  BY <2>1, <2>2
<1>5. a \in IF \E b \in first : b \notin Server /\ IsOwn(b) THEN Selected(m.uri) ELSE first
  BY DEF Targets
<1> HIDE DEF first
<1> QED  BY <1>1, <1>4, <1>5 DEF Target

-----------------------------------------------------------------------------
(* The proxy's own addresses *)

\* What a side resolves to, or falls back on, is an address the proxy knows.
LEMMA ResolutionKnown ==
    ASSUME conf \in Configs, NEW a, NEW side \in Side
    PROVE  Resolution(side, a) \subseteq Known /\ (NeedsQuery(side) => LocalTo(a) \in Known)
<1>1. InternalAddr \in Known
  BY ConfFacts DEF InternalAddr, Known, Own
<1>2. conf.public = "none" => LocalTo(a) \in Known
  BY ConfFacts DEF LocalTo, Known, Own
<1>3. NeedsQuery(side) => LocalTo(a) \in Known
  BY ConfFacts DEF NeedsQuery, LocalTo, Known, Own, Side
<1>4. Resolution(side, a) \subseteq Known
  <2>1. CASE side = "internal"
    BY <1>1, <2>1 DEF Resolution
  <2>2. CASE side # "internal" /\ conf.public = "none"
    BY <1>2, <2>2 DEF Resolution
  <2>3. CASE side # "internal" /\ conf.public # "none"
    BY <2>3, ConfFacts DEF Resolution, Known, Own
  <2> QED  BY <2>1, <2>2, <2>3
<1> QED  BY <1>3, <1>4

\* An address in the cache stays, and another is resolved or fallen back on.
LEMMA ResolvedFacts ==
    ASSUME NEW a, NEW adv \in Resolved(a)
    PROVE  /\ adv \in [Side -> Own]
           /\ a \in DOMAIN advertised => \A side \in Side : adv[side] = advertised[a][side]
           /\ a \notin DOMAIN advertised =>
                 \A side \in Side : adv[side] \in Resolution(side, a) \/ (NeedsQuery(side) /\ adv[side] = LocalTo(a))
BY DEF Resolved

\* The addresses advertised to a next hop are known ones.
LEMMA ResolvedKnown ==
    ASSUME Types, NEW a, NEW adv \in Resolved(a)
    PROVE  adv \in [Side -> Known] /\ adv["public"] \in Known /\ adv["internal"] \in Known
<1>1. \A side \in Side : adv[side] \in Known
  <2> SUFFICES ASSUME NEW side \in Side  PROVE adv[side] \in Known
    OBVIOUS
  <2>1. CASE a \in DOMAIN advertised
    BY <2>1, ResolvedFacts DEF Types
  <2>2. CASE a \notin DOMAIN advertised
    BY <2>2, ResolvedFacts, ResolutionKnown DEF Types
  <2> QED  BY <2>1, <2>2
<1>2. adv \in [Side -> Own]
  BY ResolvedFacts
<1> QED  BY <1>1, <1>2 DEF Side

\* The addresses kept for the sender of a request that is passed on to a.
Backs(m, a, adv) == IF m.from \in Asked(m) \ {a} THEN Resolved(m.from) ELSE {adv}

\* They are known, too.
LEMMA BackKnown ==
    ASSUME Types, NEW m, NEW a, NEW adv \in Resolved(a), NEW back \in Backs(m, a, adv)
    PROVE  back \in [Side -> Known]
BY ResolvedKnown DEF Backs

\* What is left of the Route headers is a part of them that begins with a foreign one.
LEMMA PoppedFacts ==
    ASSUME NEW S, NEW routes \in Seq(S), NEW adv
    PROVE  /\ PopOwnRoutes(routes, adv) \in Seq(S)
           /\ PopOwnRoutes(routes, adv) # <<>> =>
                 /\ PopOwnRoutes(routes, adv)[1] \in S
                 /\ ~RouteIsOwn(PopOwnRoutes(routes, adv)[1], adv)
<1> DEFINE foreign == {i \in 1..Len(routes) : ~RouteIsOwn(routes[i], adv)}
<1>1. CASE foreign = {}
  BY <1>1 DEF PopOwnRoutes
<1>2. CASE foreign # {}
  <2>1. foreign \subseteq Nat
    OBVIOUS
  <2>2. PICK k \in 1..Len(routes) : k = Min(foreign) /\ ~RouteIsOwn(routes[k], adv)
    BY <1>2, <2>1, LeastIs
  <2>3. PopOwnRoutes(routes, adv) = SubSeq(routes, k, Len(routes))
    BY <1>2, <2>2 DEF PopOwnRoutes
  <2>4. SubSeq(routes, k, Len(routes)) \in Seq(S) /\ SubSeq(routes, k, Len(routes))[1] = routes[k]
    OBVIOUS
  <2>5. routes[k] \in S
    OBVIOUS
  <2> QED  BY <2>2, <2>3, <2>4, <2>5
<1> QED  BY <1>1, <1>2

\* The addresses of a Record-Route are a sequence.
LEMMA OfferIsSeq ==
    ASSUME NEW S, NEW offer \in Offers(S)
    PROVE  offer \in Seq(S) /\ Len(offer) \in 0..2
<1>2. <<>> \in Seq(S) /\ Len(<<>>) = 0
  OBVIOUS
<1>3. \/ offer = <<>> \/ (\E r \in S : offer = <<r>>) \/ \E r, s \in S : offer = <<r, s>>
  BY DEF Offers
<1>4. ASSUME NEW r \in S, offer = <<r>>  PROVE offer \in Seq(S) /\ Len(offer) \in 0..2
  BY <1>4
<1>5. ASSUME NEW r \in S, NEW s \in S, offer = <<r, s>>  PROVE offer \in Seq(S) /\ Len(offer) \in 0..2
  BY <1>5
<1>6. CASE offer = <<>>
  BY <1>2, <1>6
<1> QED  BY <1>3, <1>4, <1>5, <1>6

\* What record_route_addrs puts on.
LEMMA RecordRouteFacts ==
    ASSUME NEW S, NEW adv, adv["public"] \in S, adv["internal"] \in S, NEW from, NEW to
    PROVE  /\ RecordRouteAddrs(from, to, adv) \in Offers(S)
           /\ from \notin Server /\ to \in Server =>
                 RecordRouteAddrs(from, to, adv) = <<adv["internal"], adv["public"]>>
           /\ from \in Server /\ to \notin Server =>
                 RecordRouteAddrs(from, to, adv) = <<adv["public"], adv["internal"]>>
<1> DEFINE pub == adv["public"]
           int == adv["internal"]
<1>1. <<pub>> \in Offers(S) /\ <<int>> \in Offers(S) /\ <<pub, int>> \in Offers(S) /\ <<int, pub>> \in Offers(S)
  BY DEF Offers
<1> QED  BY <1>1 DEF RecordRouteAddrs

\* What a 2xx has left of the Record-Route is a sequence of the same addresses.
LEMMA EchoIsSeq ==
    ASSUME NEW S, NEW offer \in Offers(S), NEW echoed \in Echoes(offer)
    PROVE  echoed \in Seq(S)
<1>1. offer \in Seq(S) /\ <<>> \in Seq(S)
  BY OfferIsSeq
<1>2. ASSUME NEW i \in 1..Len(offer)  PROVE <<offer[i]>> \in Seq(S)
  BY <1>1
<1> QED  BY <1>1, <1>2 DEF Echoes

\* What is put back is one address or none.
LEMMA LackingIsSeq ==
    ASSUME NEW S, NEW offer \in Offers(S), NEW rr, NEW i \in {1, 2}
    PROVE  Lacking(rr, offer, i) \in Seq(S)
<1>1. offer \in Seq(S)
  BY OfferIsSeq
<1>2. CASE i \in 1..Len(offer)
  <2>1. <<offer[i]>> \in Seq(S)
    BY <1>1, <1>2
  <2> QED  BY <2>1 DEF Lacking
<1>3. CASE i \notin 1..Len(offer)
  BY <1>1, <1>3 DEF Lacking
<1> QED  BY <1>2, <1>3

\* Two addresses one after the other.
LEMMA TwoAddresses ==
    ASSUME NEW S, NEW r \in S, NEW s \in S
    PROVE  <<r>> \o <<s>> = <<r, s>>
<1> DEFINE x == <<r>>
           y == <<s>>
           offer == <<r, s>>
<1>1. x \in Seq(S) /\ y \in Seq(S) /\ Len(x) = 1 /\ Len(y) = 1 /\ x[1] = r /\ y[1] = s
  OBVIOUS
<1>2. offer[1] = r /\ offer[2] = s /\ Len(offer) = 2 /\ offer \in Seq(S)
  OBVIOUS
<1> HIDE DEF x, y, offer
<1>3. /\ x \o y \in Seq(S) /\ Len(x \o y) = Len(x) + Len(y)
      /\ \A i \in 1..(Len(x) + Len(y)) : (x \o y)[i] = IF i <= Len(x) THEN x[i] ELSE y[i - Len(x)]
  BY <1>1, ConcatProperties
<1>4. Len(x \o y) = 2 /\ (x \o y)[1] = r /\ (x \o y)[2] = s
  BY <1>1, <1>3
<1>5. \A i \in 1..2 : (x \o y)[i] = offer[i]
  BY <1>2, <1>4
<1>6. x \o y = offer
  BY <1>2, <1>3, <1>4, <1>5, SeqEqual
<1> QED  BY <1>6 DEF x, y, offer

\* A 2xx comes back with the whole Record-Route, unless it has only lost the second of
\* two addresses.
LEMMA RestoredIsOffer ==
    ASSUME NEW S, NEW offer \in Offers(S), NEW echoed \in Echoes(offer)
    PROVE  /\ EnsureRecordRoutes(echoed, offer) \in Seq(S)
           /\ ~(Len(offer) = 2 /\ echoed = <<offer[1]>>) => EnsureRecordRoutes(echoed, offer) = offer
<1>0. offer \in Seq(S) /\ Len(offer) \in 0..2 /\ echoed \in Seq(S)
  BY OfferIsSeq, EchoIsSeq
<1>1. Lacking(echoed, offer, 1) \in Seq(S) /\ Lacking(echoed, offer, 2) \in Seq(S)
  BY LackingIsSeq
<1>2. EnsureRecordRoutes(echoed, offer) \in Seq(S)
  BY <1>0, <1>1, ConcatProperties DEF EnsureRecordRoutes
<1>3. CASE echoed = offer
  <2>1. \A i \in 1..Len(offer) : Lacking(echoed, offer, i) = <<>>
    BY <1>0, <1>3 DEF Lacking
  <2>2. \A i \in 1..2 : i > Len(offer) => Lacking(echoed, offer, i) = <<>>
    BY DEF Lacking
  <2>3. Lacking(echoed, offer, 1) = <<>> /\ Lacking(echoed, offer, 2) = <<>>
    BY <1>0, <2>1, <2>2
  <2> QED  BY <1>0, <1>2, <1>3, <2>3 DEF EnsureRecordRoutes
<1>4. CASE offer = <<>>
  <2>1. echoed = offer
    BY <1>4 DEF Echoes
  <2> QED  BY <1>3, <2>1
<1>5. ASSUME NEW r \in S, offer = <<r>>  PROVE EnsureRecordRoutes(echoed, offer) = offer
  <2>1. CASE echoed = <<>>
    <3>1. Lacking(echoed, offer, 1) = offer /\ Lacking(echoed, offer, 2) = <<>>
      BY <2>1, <1>5 DEF Lacking
    <3> QED  BY <1>0, <2>1, <3>1, ConcatEmptySeq DEF EnsureRecordRoutes
  <2>2. CASE echoed # <<>>
    <3>1. Len(offer) = 1 /\ offer[1] = r
      BY <1>5
    <3>2. echoed = offer \/ \E i \in 1..Len(offer) : echoed = <<offer[i]>>
      BY <2>2 DEF Echoes
    <3>3. echoed = offer \/ echoed = <<offer[1]>>
      BY <3>1, <3>2
    <3>4. echoed = offer
      BY <1>5, <3>1, <3>3
    <3> QED  BY <1>3, <3>1, <3>4
  <2> QED  BY <2>1, <2>2
<1>6. ASSUME NEW r \in S, NEW s \in S, offer = <<r, s>>, echoed # <<offer[1]>>
      PROVE  EnsureRecordRoutes(echoed, offer) = offer
  <2>1. offer[1] = r /\ offer[2] = s /\ Len(offer) = 2
    BY <1>6
  <2>2. CASE echoed = <<>>
    <3>1. Lacking(echoed, offer, 1) = <<r>> /\ Lacking(echoed, offer, 2) = <<s>>
      BY <2>1, <2>2 DEF Lacking
    <3>2. <<r>> \o <<s>> = offer
      BY <1>6, TwoAddresses
    <3> QED  BY <1>0, <2>2, <3>1, <3>2, ConcatEmptySeq DEF EnsureRecordRoutes
  <2>3. CASE echoed = <<s>>
    <3>1. r # s
      BY <1>6, <2>1, <2>3
    <3>2. Len(echoed) = 1 /\ echoed[1] = s
      BY <2>3
    <3>3. Lacking(echoed, offer, 1) = <<r>> /\ Lacking(echoed, offer, 2) = <<>>
      BY <2>1, <3>1, <3>2 DEF Lacking
    <3>4. <<r>> \o <<s>> = offer
      BY <1>6, TwoAddresses
    <3>5. <<r>> \in Seq(S)
      OBVIOUS
    <3> QED  BY <2>3, <3>3, <3>4, <3>5, ConcatEmptySeq DEF EnsureRecordRoutes
  <2>4. echoed = <<>> \/ echoed = <<s>> \/ echoed = offer
    <3>1. echoed = <<>> \/ echoed = offer \/ \E i \in 1..2 : echoed = <<offer[i]>>
      BY <2>1 DEF Echoes
    <3> QED  BY <1>6, <2>1, <3>1
  <2> QED  BY <1>3, <2>2, <2>3, <2>4
<1>7. \/ offer = <<>> \/ (\E r \in S : offer = <<r>>) \/ \E r, s \in S : offer = <<r, s>>
  BY DEF Offers
<1>8. ASSUME NEW r \in S, NEW s \in S, offer = <<r, s>>  PROVE Len(offer) = 2
  BY <1>8
<1> QED  BY <1>2, <1>4, <1>5, <1>6, <1>7, <1>8

\* The caller has it in the other order.
LEMMA ReversedOffer ==
    ASSUME NEW S, NEW offer \in Offers(S)
    PROVE  \A r, s \in S : offer = <<r, s>> => Reverse(offer)[1] = s
<1>1. offer \in Seq(S)
  BY OfferIsSeq
<1>2. ASSUME NEW r \in S, NEW s \in S, offer = <<r, s>>  PROVE Reverse(offer)[1] = s
  <2>1. Len(offer) = 2 /\ offer[2] = s
    BY <1>2
  <2> QED  BY <1>1, <2>1 DEF Reverse
<1> QED  BY <1>2

\* It is a sequence of the same addresses.
LEMMA ReversedIsSeq ==
    ASSUME NEW S, NEW rr \in Seq(S)
    PROVE  Reverse(rr) \in Seq(S)
BY DEF Reverse

-----------------------------------------------------------------------------
(* What a step leaves alone, and the requests it makes *)

\* The configuration does not change, so neither do the types.
LEMMA Rigid ==
    ASSUME UNCHANGED conf
    PROVE  /\ Known' = Known /\ RequestType' = RequestType /\ CallType' = CallType /\ LastType' = LastType
           /\ \A m : AffinityKeys(m)' = AffinityKeys(m)
           /\ \A a : IsOwn(a)' = IsOwn(a)
<1>1. Known' = Known
  BY DEF Known
<1>2. RequestType' = RequestType
  BY <1>1 DEF RequestType
<1>3. CallType' = CallType /\ LastType' = LastType
  BY <1>1, <1>2 DEF CallType, LastType
<1>4. \A m : AffinityKeys(m)' = AffinityKeys(m)
  BY DEF AffinityKeys
<1>5. \A a : IsOwn(a)' = IsOwn(a)
  BY DEF IsOwn
<1> QED  BY <1>1, <1>2, <1>3, <1>4, <1>5

\* The fields of requests, calls and what was sent last.
LEMMA RequestFields ==
    ASSUME NEW m \in RequestType
    PROVE  /\ m.from \in Phone \cup Server \cup {None} /\ m.method \in {None, "INVITE", "CANCEL"} \cup Method
           /\ m.tagged \in BOOLEAN /\ m.uri \in UriType /\ m.to \in Aor \cup {None} /\ m.routes \in Seq(Known)
           /\ m.hops \in -1..MaxHops /\ m.key \in Nat /\ m.trips \in Nat
BY DEF RequestType

\* The call's.
LEMMA CallFields ==
    ASSUME Types
    PROVE  /\ call.state \in {"idle", "inviting", "up"} /\ call.phone \in Phone \cup {None}
           /\ call.server \in Server \cup {None} /\ call.byPhone \in BOOLEAN /\ call.invite \in RequestType
           /\ call.offeredTo \in Target \cup {None} /\ call.offer \in Offers(Known)
           /\ call.phoneRoutes \in Seq(Known) /\ call.serverRoutes \in Seq(Known)
           /\ call.outgoing \in BOOLEAN /\ call.steady \in BOOLEAN
           /\ call.inTime \in BOOLEAN /\ call.halved \in BOOLEAN
BY DEF Types, CallType

\* Those of the request sent on last.
LEMMA LastFields ==
    ASSUME Types
    PROVE  /\ last.req \in RequestType /\ last.at \in Target \cup {None} /\ last.routes \in Seq(Known)
           /\ last.bound \in Phone \cup {None} /\ last.caughtUp \in BOOLEAN
BY DEF Types, LastType

\* No request, no call, nothing sent.
LEMMA NothingTyped ==
    /\ NoRequest \in RequestType /\ NoRequest.from = None /\ NoRequest.method = None /\ NoRequest.tagged = FALSE
    /\ NoRequest.hops = 0 /\ NoRequest.key = 0 /\ NoRequest.trips = 0
    /\ NoLast \in LastType /\ NoLast.req = NoRequest /\ NoLast.at = None /\ NoLast.routes = <<>>
    /\ NoLast.caughtUp = FALSE /\ NoLast.bound = None
<1>1. <<>> \in Seq(Known) /\ NoUri \in UriType
  BY DEF UriType
<1>2. NoRequest \in RequestType
  BY <1>1, Constants DEF NoRequest, RequestType
<1>3. NoLast \in LastType
  BY <1>1, <1>2 DEF NoLast, LastType
<1> QED  BY <1>2, <1>3 DEF NoRequest, NoLast

\* The CANCEL of an INVITE.
LEMMA CancelOf ==
    ASSUME NEW i \in RequestType, NEW m, m = [i EXCEPT !.method = "CANCEL"]
    PROVE  /\ m \in RequestType /\ m.method = "CANCEL" /\ m.tagged = i.tagged /\ m.trips = i.trips
           /\ m.key = i.key /\ m.hops = i.hops /\ m.from = i.from
BY DEF RequestType

\* A request that comes back.
LEMMA BouncedRequest ==
    ASSUME Types, last.at \in Server,
           NEW m, m = [last.req EXCEPT !.from = last.at, !.routes = last.routes, !.key = 0]
    PROVE  /\ m \in RequestType /\ m.from = last.at /\ m.key = 0 /\ m.method = last.req.method
           /\ m.tagged = last.req.tagged /\ m.trips = last.req.trips /\ m.hops = last.req.hops
           /\ m.uri = last.req.uri /\ m.to = last.req.to
BY LastFields DEF RequestType

-----------------------------------------------------------------------------
(* The types *)

\* What a step has to show for the types to stay.
LEMMA TypesAgain ==
    ASSUME Types, UNCHANGED conf,
           location' \in [Aor -> Phone \cup {None}], devices' \subseteq Phone,
           registrar' \in [Aor -> Server \cup {None}], healthy' \subseteq Server,
           \A k \in DOMAIN affinity' : affinity'[k] \in Target,
           \A k \in DOMAIN invites' : invites'[k] \in Target,
           \A a \in DOMAIN advertised' : advertised'[a] \in [Side -> Known],
           call' \in CallType, wire' \subseteq RequestType, last' \in LastType,
           \A f \in forwarded' : f.to \in Target /\ f.req \in RequestType /\ f.keys = AffinityKeys(f.req),
           sent' \in 0..MaxSent, faults' \in Nat,
           call'.state # "idle" => call'.phone \in Phone,
           call'.state # "idle" /\ (call'.state = "up" \/ ~call'.byPhone) => call'.server \in Server
    PROVE  Types'
<1>1. /\ Known' = Known /\ RequestType' = RequestType /\ CallType' = CallType /\ LastType' = LastType
      /\ \A m : AffinityKeys(m)' = AffinityKeys(m)
  BY Rigid
<1>2. conf' \in Configs
  BY DEF Types
<1> QED  BY <1>1, <1>2 DEF Types

\* The call and the request after one is passed on.
LEMMA ForwardedCall ==
    ASSUME Types, NEW m \in wire, m.hops # 0, NEW a \in Targets(m), NEW adv \in Resolved(a),
           NEW back \in Backs(m, a, adv), ForwardTo(m, a, adv, back)
    PROVE  /\ m \in RequestType /\ a \in Target /\ RecordRoute(m, a, adv) \in Offers(Known)
           /\ call' \in CallType /\ call'.state = call.state /\ call'.phone = call.phone /\ call'.server = call.server
           /\ call'.byPhone = call.byPhone /\ call'.outgoing = call.outgoing
           /\ call'.inTime = call.inTime /\ call'.halved = call.halved
           /\ call'.phoneRoutes = call.phoneRoutes /\ call'.serverRoutes = call.serverRoutes
           /\ Opens(m) => /\ call'.invite = m /\ call'.offeredTo = a /\ call'.offer = RecordRoute(m, a, adv)
                          /\ call'.steady = call.steady
           /\ ~Opens(m) => /\ call'.invite = call.invite /\ call'.offeredTo = call.offeredTo
                           /\ call'.offer = call.offer /\ call'.steady = (call.steady /\ forwarded = {})
<1>1. m \in RequestType
  BY DEF Types
<1>2. a \in Target
  BY <1>1, TargetsTyped
<1>3. RecordRoute(m, a, adv) \in Offers(Known)
  <2>1. <<>> \in Offers(Known)
    BY DEF Offers
  <2>2. adv["public"] \in Known /\ adv["internal"] \in Known
    BY ResolvedKnown
  <2> QED  BY <2>1, <2>2, RecordRouteFacts DEF RecordRoute
<1>4. call \in CallType
  BY DEF Types
<1>5. CASE Opens(m)
  <2>1. call' = [call EXCEPT !.invite = m, !.offeredTo = a, !.offer = RecordRoute(m, a, adv)]
    BY <1>5 DEF ForwardTo
  <2> QED  BY <1>1, <1>2, <1>3, <1>4, <1>5, <2>1 DEF CallType
<1>6. CASE ~Opens(m)
  <2>1. call' = [call EXCEPT !.steady = call.steady /\ forwarded = {}]
    BY <1>6 DEF ForwardTo
  <2>2. (call.steady /\ forwarded = {}) \in BOOLEAN
    OBVIOUS
  <2> QED  BY <1>1, <1>2, <1>3, <1>4, <1>6, <2>1, <2>2 DEF CallType
<1> QED  BY <1>5, <1>6

\* What was sent last.
LEMMA ForwardedLast ==
    ASSUME Types, NEW m \in wire, m.hops # 0, NEW a \in Targets(m), NEW adv \in Resolved(a),
           NEW back \in Backs(m, a, adv), ForwardTo(m, a, adv, back)
    PROVE  /\ last' \in LastType /\ last'.at = a /\ last'.routes = PopOwnRoutes(m.routes, adv)
           /\ last'.bound = Bound(m) /\ last'.caughtUp = (forwarded = {})
           /\ last'.req.hops = HopsLeft(m.hops) /\ last'.req.trips = m.trips + 1
           /\ last'.req.from = m.from /\ last'.req.method = m.method /\ last'.req.tagged = m.tagged
           /\ last'.req.uri = m.uri /\ last'.req.to = m.to /\ last'.req.key = m.key /\ last'.req.routes = m.routes
<1>1. m \in RequestType /\ a \in Target
  BY ForwardedCall
<1>2. PICK r : r = [m EXCEPT !.hops = HopsLeft(m.hops), !.trips = m.trips + 1]
  OBVIOUS
<1>3. HopsLeft(m.hops) \in -1..MaxHops /\ m.trips + 1 \in Nat
  BY <1>1, Constants, RequestFields DEF HopsLeft, Absent
<1>4. /\ r \in RequestType /\ r.hops = HopsLeft(m.hops) /\ r.trips = m.trips + 1
      /\ r.from = m.from /\ r.method = m.method /\ r.tagged = m.tagged
      /\ r.uri = m.uri /\ r.to = m.to /\ r.key = m.key /\ r.routes = m.routes
  BY <1>1, <1>2, <1>3 DEF RequestType
<1>5. PICK routes : routes = PopOwnRoutes(m.routes, adv)
  OBVIOUS
<1>6. routes \in Seq(Known) /\ Bound(m) \in Phone \cup {None}
  BY <1>1, <1>5, RequestFields, PoppedFacts, CandidatesTyped
<1>7. PICK late : late = (forwarded = {}) /\ late \in BOOLEAN
  OBVIOUS
<1>8. last' = [req |-> r, at |-> a, routes |-> routes, bound |-> Bound(m), caughtUp |-> late]
  BY <1>2, <1>5, <1>7 DEF ForwardTo
<1> QED  BY <1>1, <1>4, <1>5, <1>6, <1>7, <1>8 DEF LastType

\* A request is passed on.
LEMMA ForwardTypes ==
    ASSUME Types, NEW m \in wire, m.hops # 0, NEW a \in Targets(m), NEW adv \in Resolved(a),
           NEW back \in Backs(m, a, adv), ForwardTo(m, a, adv, back)
    PROVE  Types'
<1>1. /\ UNCHANGED <<conf, healthy, location, devices, registrar, affinity, invites, sent>>
      /\ wire' \subseteq wire
  BY DEF ForwardTo
<1>2. \A b \in DOMAIN advertised' : advertised'[b] \in [Side -> Known]
  <2>1. adv \in [Side -> Known] /\ back \in [Side -> Known]
    BY ResolvedKnown, BackKnown
  <2> QED  BY <2>1 DEF ForwardTo, Put, Types
<1>3. PICK n : n = [keys |-> AffinityKeys(m), to |-> a, req |-> m]
  OBVIOUS
<1>4. n.to \in Target /\ n.req \in RequestType /\ n.keys = AffinityKeys(n.req)
  BY <1>3, ForwardedCall
<1>5. \A f \in forwarded' : f.to \in Target /\ f.req \in RequestType /\ f.keys = AffinityKeys(f.req)
  BY <1>3, <1>4 DEF ForwardTo, Types
<1>6. faults' \in Nat
  BY DEF ForwardTo, Types
<1>7. call' \in CallType /\ call'.state = call.state /\ call'.phone = call.phone /\ call'.server = call.server
      /\ call'.byPhone = call.byPhone /\ last' \in LastType
  BY ForwardedCall, ForwardedLast
<1> QED  BY <1>1, <1>2, <1>5, <1>6, <1>7, TypesAgain DEF Types

\* A request is remembered.
LEMMA RememberTypes ==
    ASSUME Types, NEW f \in forwarded, Remember(f)
    PROVE  /\ Types'
           /\ call'.state = call.state /\ call'.phone = call.phone /\ call'.server = call.server
           /\ call'.byPhone = call.byPhone /\ call'.invite = call.invite /\ call'.offeredTo = call.offeredTo
           /\ call'.offer = call.offer /\ call'.phoneRoutes = call.phoneRoutes
           /\ call'.serverRoutes = call.serverRoutes /\ call'.steady = call.steady
           /\ call'.inTime = call.inTime /\ call'.halved = call.halved
           /\ call'.outgoing = (call.outgoing /\ (f.req.method = "OPTIONS" \/ ~FromUpstream(f.req)))
<1>1. /\ UNCHANGED <<conf, healthy, location, devices, registrar, advertised, wire, last, bounds>>
      /\ forwarded' \subseteq forwarded /\ sent' = sent /\ faults' = faults
  BY DEF Remember, bounds
<1>2. \A k \in DOMAIN affinity' : affinity'[k] \in Target
  BY DEF Remember, Put, Types
<1>3. \A k \in DOMAIN invites' : invites'[k] \in Target
  BY DEF Remember, Put, Types
<1>4. PICK o : o = (call.outgoing /\ (f.req.method = "OPTIONS" \/ ~FromUpstream(f.req))) /\ o \in BOOLEAN
  OBVIOUS
<1>5. call' = [call EXCEPT !.outgoing = o] /\ call \in CallType
  BY <1>4 DEF Remember, Types
<1>6. /\ call' \in CallType /\ call'.state = call.state /\ call'.phone = call.phone /\ call'.server = call.server
      /\ call'.byPhone = call.byPhone /\ call'.invite = call.invite /\ call'.offeredTo = call.offeredTo
      /\ call'.offer = call.offer /\ call'.phoneRoutes = call.phoneRoutes
      /\ call'.serverRoutes = call.serverRoutes /\ call'.steady = call.steady /\ call'.outgoing = o
      /\ call'.inTime = call.inTime /\ call'.halved = call.halved
  BY <1>4, <1>5 DEF CallType
<1>7. Types'
  BY <1>1, <1>2, <1>3, <1>6, TypesAgain DEF Types
<1> QED  BY <1>4, <1>6, <1>7

\* A request is sent.
LEMMA SendTypes ==
    ASSUME Types, NEW m \in RequestType, Send(m), call' \in CallType,
           call'.state # "idle" => call'.phone \in Phone,
           call'.state # "idle" /\ (call'.state = "up" \/ ~call'.byPhone) => call'.server \in Server
    PROVE  Types'
<1>1. /\ UNCHANGED <<conf, healthy, location, devices, registrar, affinity, invites, advertised, forwarded, faults>>
      /\ sent' = sent + 1 /\ wire' = {m} /\ last' = NoLast
  BY DEF Send, tables
<1>2. wire' \subseteq RequestType /\ last' \in LastType /\ sent' \in 0..MaxSent
  BY <1>1, NothingTyped, Constants DEF Types, Send
<1> QED  BY <1>1, <1>2, TypesAgain DEF Types

\* The call is opened by a phone,
LEMMA PhoneCallsTypes ==
    ASSUME Types, NEW p \in Phone, PhoneCalls(p)
    PROVE  /\ Types' /\ call.state = "idle"
           /\ \E m \in RequestType : /\ Send(m) /\ m.from = p /\ m.method = "INVITE" /\ m.tagged = FALSE /\ m.trips = 0
                                     /\ m.key = sent + 1 /\ m.hops = MaxHops
           /\ call'.state = "inviting" /\ call'.phone = p /\ call'.server = call.server /\ call'.byPhone = TRUE
           /\ call'.invite = call.invite /\ call'.offeredTo = call.offeredTo /\ call'.offer = call.offer
           /\ call'.phoneRoutes = call.phoneRoutes /\ call'.serverRoutes = call.serverRoutes
           /\ call'.outgoing = call.outgoing /\ call'.steady = call.steady /\ call'.inTime = call.inTime
<1>1. PICK a \in Aor : Send(Request(p, "INVITE", FALSE, Uri("aor", a), a, <<>>, MaxHops))
  BY DEF PhoneCalls
<1>2. PICK m : m = Request(p, "INVITE", FALSE, Uri("aor", a), a, <<>>, MaxHops)
  OBVIOUS
<1>3. /\ m \in RequestType /\ m.from = p /\ m.method = "INVITE" /\ m.tagged = FALSE /\ m.trips = 0
      /\ m.key = sent + 1 /\ m.hops = MaxHops /\ Send(m)
  <2>1. Send(m)
    BY <1>1, <1>2
  <2>2. Uri("aor", a) \in UriType /\ <<>> \in Seq(Known)
    BY DEF Uri, UriType
  <2>3. MaxHops \in -1..MaxHops /\ sent + 1 \in Nat
    BY Constants DEF Types
  <2> QED  BY <1>2, <2>1, <2>2, <2>3 DEF Request, RequestType
<1>4. /\ call' = [call EXCEPT !.state = "inviting", !.phone = p, !.byPhone = TRUE] /\ call \in CallType
      /\ call.state = "idle"
  BY DEF PhoneCalls, Types
<1>5. /\ call' \in CallType
      /\ call'.state = "inviting" /\ call'.phone = p /\ call'.server = call.server /\ call'.byPhone = TRUE
      /\ call'.invite = call.invite /\ call'.offeredTo = call.offeredTo /\ call'.offer = call.offer
      /\ call'.phoneRoutes = call.phoneRoutes /\ call'.serverRoutes = call.serverRoutes
      /\ call'.outgoing = call.outgoing /\ call'.steady = call.steady /\ call'.inTime = call.inTime
  BY <1>4 DEF CallType
<1>6. Types'
  BY <1>3, <1>5, SendTypes
<1> QED  BY <1>3, <1>4, <1>5, <1>6

\* or by a server.
LEMMA ServerCallsTypes ==
    ASSUME Types, NEW p \in Phone, NEW s \in Server, ServerCalls(s, p)
    PROVE  /\ Types' /\ call.state = "idle"
           /\ \E m \in RequestType : /\ Send(m) /\ m.from = s /\ m.method = "INVITE" /\ m.tagged = FALSE /\ m.trips = 0
                                     /\ m.key = sent + 1 /\ m.hops \in {Absent, MaxHops}
           /\ call'.state = "inviting" /\ call'.phone = p /\ call'.server = s /\ call'.byPhone = call.byPhone
           /\ call'.invite = call.invite /\ call'.offeredTo = call.offeredTo /\ call'.offer = call.offer
           /\ call'.phoneRoutes = call.phoneRoutes /\ call'.serverRoutes = call.serverRoutes
           /\ call'.outgoing = call.outgoing /\ call'.steady = call.steady /\ call'.inTime = call.inTime
<1>1. PICK hops \in {Absent, MaxHops}, b \in DOMAIN advertised :
        Send(Request(s, "INVITE", FALSE, DeviceUri(p, advertised[b]["internal"]), AorOf[p],
                     Path(advertised[b]["internal"]), hops))
  BY DEF ServerCalls
<1>a. PICK at : at = advertised[b]["internal"]
  OBVIOUS
<1>b. at \in Known /\ at \in Own
  BY <1>1, <1>a DEF Types, Side, Known
<1>2. PICK m : m = Request(s, "INVITE", FALSE, DeviceUri(p, at), AorOf[p], Path(at), hops)
  OBVIOUS
<1>3. /\ m \in RequestType /\ m.from = s /\ m.method = "INVITE" /\ m.tagged = FALSE /\ m.trips = 0
      /\ m.key = sent + 1 /\ m.hops = hops /\ Send(m)
  <2>1. Send(m)
    BY <1>1, <1>a, <1>2
  <2>2. DeviceUri(p, at) \in UriType
    BY <1>b DEF Uri, UriType, DeviceUri
  <2>3. Path(at) \in Seq(Known)
    BY <1>b DEF Path
  <2>4. AorOf[p] \in Aor /\ hops \in -1..MaxHops /\ sent + 1 \in Nat
    BY Constants DEF Absent, Types
  <2> QED  BY <1>2, <2>1, <2>2, <2>3, <2>4 DEF Request, RequestType
<1>4. /\ call' = [call EXCEPT !.state = "inviting", !.phone = p, !.server = s] /\ call \in CallType
      /\ call.state = "idle"
  BY DEF ServerCalls, Types
<1>5. /\ call' \in CallType
      /\ call'.state = "inviting" /\ call'.phone = p /\ call'.server = s /\ call'.byPhone = call.byPhone
      /\ call'.invite = call.invite /\ call'.offeredTo = call.offeredTo /\ call'.offer = call.offer
      /\ call'.phoneRoutes = call.phoneRoutes /\ call'.serverRoutes = call.serverRoutes
      /\ call'.outgoing = call.outgoing /\ call'.steady = call.steady /\ call'.inTime = call.inTime
  BY <1>4 DEF CallType
<1>6. Types'
  BY <1>3, <1>5, SendTypes
<1> QED  BY <1>3, <1>4, <1>5, <1>6

\* It is cancelled,
LEMMA CancelTypes ==
    ASSUME Types, Cancel
    PROVE  /\ Types' /\ UNCHANGED call /\ call.state = "inviting" /\ call.offeredTo # None
           /\ \E m \in RequestType : /\ Send(m) /\ m.method = "CANCEL" /\ m.tagged = call.invite.tagged
                                     /\ m.trips = call.invite.trips /\ m.key = call.invite.key
                                     /\ m.hops = call.invite.hops /\ m.from = call.invite.from
<1>0. PICK i : i = call.invite
  OBVIOUS
<1>1. PICK m : m = [i EXCEPT !.method = "CANCEL"]
  OBVIOUS
<1>2. i \in RequestType /\ Send(m)
  BY <1>0, <1>1, CallFields DEF Cancel
<1>3. /\ m \in RequestType /\ m.method = "CANCEL" /\ m.tagged = i.tagged /\ m.trips = i.trips
      /\ m.key = i.key /\ m.hops = i.hops /\ m.from = i.from
  BY <1>1, <1>2, CancelOf
<1>4. UNCHANGED call /\ call.state = "inviting" /\ call.offeredTo # None
  BY DEF Cancel
<1>5. /\ call' \in CallType /\ (call'.state # "idle" => call'.phone \in Phone)
      /\ call'.state # "idle" /\ (call'.state = "up" \/ ~call'.byPhone) => call'.server \in Server
  BY <1>4 DEF Types
<1>6. Types'
  BY <1>2, <1>3, <1>5, SendTypes
<1> QED  BY <1>0, <1>2, <1>3, <1>4, <1>6

\* answered,
LEMMA AnswerTypes ==
    ASSUME Types, Answer
    PROVE  /\ Types' /\ call.state = "inviting" /\ call.offeredTo \in (IF call.byPhone THEN Server ELSE Phone)
           /\ UNCHANGED <<conf, healthy, location, devices, registrar, affinity, invites, advertised, wire,
                          forwarded, sent, faults>>
           /\ last' = NoLast
           /\ call'.state = "up" /\ call'.byPhone = call.byPhone /\ call'.invite = NoRequest
           /\ call'.offeredTo = call.offeredTo /\ call'.offer = call.offer
           /\ call'.outgoing = call.outgoing /\ call'.steady = call.steady /\ call'.inTime = call.inTime
           /\ call.byPhone => /\ call'.phone = call.phone /\ call'.server = call.offeredTo
                              /\ call'.halved \/ call'.phoneRoutes = Reverse(call.offer)
                              /\ call'.serverRoutes = call.offer
           /\ ~call.byPhone => /\ call'.phone = call.offeredTo /\ call'.server = call.server
                               /\ call'.phoneRoutes = call.offer
                               /\ call'.halved \/ call'.serverRoutes = Reverse(call.offer)
<1>1. PICK echoed \in Echoes(call.offer) :
         call' = IF call.byPhone
                 THEN [call EXCEPT !.state = "up", !.invite = NoRequest, !.server = call.offeredTo,
                                   !.phoneRoutes = Reverse(EnsureRecordRoutes(echoed, call.offer)),
                                   !.serverRoutes = call.offer,
                                   !.halved = (Len(call.offer) = 2 /\ echoed = <<call.offer[1]>>)]
                 ELSE [call EXCEPT !.state = "up", !.invite = NoRequest, !.phone = call.offeredTo,
                                   !.phoneRoutes = call.offer,
                                   !.serverRoutes = Reverse(EnsureRecordRoutes(echoed, call.offer)),
                                   !.halved = (Len(call.offer) = 2 /\ echoed = <<call.offer[1]>>)]
  BY DEF Answer
<1>2. PICK offer : offer = call.offer
  OBVIOUS
<1>3. PICK halved \in BOOLEAN : halved = (Len(offer) = 2 /\ echoed = <<offer[1]>>)
  OBVIOUS
<1>4. PICK theirs : theirs = Reverse(EnsureRecordRoutes(echoed, offer))
  OBVIOUS
<1>5. offer \in Offers(Known) /\ offer \in Seq(Known) /\ theirs \in Seq(Known)
      /\ (halved \/ theirs = Reverse(offer))
  <2>1. offer \in Offers(Known) /\ echoed \in Echoes(offer)
    BY <1>2, CallFields
  <2>2. EnsureRecordRoutes(echoed, offer) \in Seq(Known)
    BY <2>1, RestoredIsOffer
  <2>3. halved \/ EnsureRecordRoutes(echoed, offer) = offer
    BY <1>3, <2>1, RestoredIsOffer
  <2> QED  BY <2>1, <2>2, <2>3, <1>4, OfferIsSeq, ReversedIsSeq
<1>6. /\ UNCHANGED <<conf, healthy, location, devices, registrar, affinity, invites, advertised, wire, forwarded,
                     sent, faults>>
      /\ last' = NoLast /\ call.state = "inviting" /\ call.offeredTo \in (IF call.byPhone THEN Server ELSE Phone)
  BY DEF Answer, tables, bounds
<1>7. call \in CallType /\ NoRequest \in RequestType /\ last' \in LastType
      /\ call.phone \in Phone /\ (~call.byPhone => call.server \in Server)
  BY <1>6, NothingTyped DEF Types
<1>8. CASE call.byPhone
  <2>1. call' = [call EXCEPT !.state = "up", !.invite = NoRequest, !.server = call.offeredTo,
                             !.phoneRoutes = theirs, !.serverRoutes = offer, !.halved = halved]
    BY <1>1, <1>2, <1>3, <1>4, <1>8
  <2>2. call.offeredTo \in Server
    BY <1>6, <1>8
  <2>3. /\ call' \in CallType /\ call'.state = "up" /\ call'.byPhone = call.byPhone /\ call'.invite = NoRequest
        /\ call'.offeredTo = call.offeredTo /\ call'.offer = call.offer
        /\ call'.outgoing = call.outgoing /\ call'.steady = call.steady /\ call'.inTime = call.inTime
        /\ call'.phone = call.phone /\ call'.server = call.offeredTo
        /\ call'.phoneRoutes = theirs /\ call'.serverRoutes = offer /\ call'.halved = halved
    BY <2>1, <2>2, <1>3, <1>5, <1>7 DEF CallType
  <2>4. Types'
    BY <1>6, <1>7, <2>2, <2>3, TypesAgain DEF Types
  <2> QED  BY <1>2, <1>5, <1>6, <1>8, <2>3, <2>4
<1>9. CASE ~call.byPhone
  <2>1. call' = [call EXCEPT !.state = "up", !.invite = NoRequest, !.phone = call.offeredTo,
                             !.phoneRoutes = offer, !.serverRoutes = theirs, !.halved = halved]
    BY <1>1, <1>2, <1>3, <1>4, <1>9
  <2>2. call.offeredTo \in Phone
    BY <1>6, <1>9
  <2>3. /\ call' \in CallType /\ call'.state = "up" /\ call'.byPhone = call.byPhone /\ call'.invite = NoRequest
        /\ call'.offeredTo = call.offeredTo /\ call'.offer = call.offer
        /\ call'.outgoing = call.outgoing /\ call'.steady = call.steady /\ call'.inTime = call.inTime
        /\ call'.phone = call.offeredTo /\ call'.server = call.server
        /\ call'.phoneRoutes = offer /\ call'.serverRoutes = theirs /\ call'.halved = halved
    BY <2>1, <2>2, <1>3, <1>5, <1>7 DEF CallType
  <2>4. Types'
    BY <1>6, <1>7, <1>9, <2>2, <2>3, TypesAgain DEF Types
  <2> QED  BY <1>2, <1>5, <1>6, <1>9, <2>3, <2>4
<1> QED  BY <1>8, <1>9, CallFields

\* and used: a phone's request within the call,
LEMMA PhoneRequestsTypes ==
    ASSUME Types, NEW method \in Method, PhoneRequests(method)
    PROVE  /\ Types' /\ UNCHANGED call /\ call.state = "up"
           /\ \E m \in RequestType : /\ Send(m) /\ m.from = call.phone /\ m.method = method /\ m.tagged = TRUE
                                     /\ m.trips = 0 /\ m.key = sent + 1 /\ m.hops = MaxHops
<1>1. /\ Send(Request(call.phone, method, TRUE, Uri("server", call.server), None, call.phoneRoutes, MaxHops))
      /\ UNCHANGED call /\ call.state = "up"
  BY DEF PhoneRequests
<1>2. call.phone \in Phone /\ call.server \in Server
  BY <1>1 DEF Types
<1>3. PICK m : m = Request(call.phone, method, TRUE, Uri("server", call.server), None, call.phoneRoutes, MaxHops)
  OBVIOUS
<1>4. /\ m \in RequestType /\ m.from = call.phone /\ m.method = method /\ m.tagged = TRUE
      /\ m.trips = 0 /\ m.key = sent + 1 /\ m.hops = MaxHops
  <2>1. Uri("server", call.server) \in UriType /\ call.phoneRoutes \in Seq(Known)
    BY <1>2, CallFields DEF Uri, UriType
  <2>2. MaxHops \in -1..MaxHops /\ sent + 1 \in Nat
    BY Constants DEF Types
  <2> QED  BY <1>2, <1>3, <2>1, <2>2 DEF Request, RequestType
<1>5. Send(m)
  BY <1>1, <1>3
<1>6. /\ call' \in CallType /\ (call'.state # "idle" => call'.phone \in Phone)
      /\ call'.state # "idle" /\ (call'.state = "up" \/ ~call'.byPhone) => call'.server \in Server
  BY <1>1 DEF Types
<1>7. Types'
  BY <1>4, <1>5, <1>6, SendTypes
<1> QED  BY <1>1, <1>4, <1>5, <1>7

\* a server's,
LEMMA ServerRequestsTypes ==
    ASSUME Types, NEW method \in Method, ServerRequests(method)
    PROVE  /\ Types' /\ UNCHANGED call /\ call.state = "up"
           /\ \E m \in RequestType : /\ Send(m) /\ m.from = call.server /\ m.method = method /\ m.tagged = TRUE
                                     /\ m.trips = 0 /\ m.key = sent + 1 /\ m.hops = MaxHops
                                     /\ m.uri = Uri("contact", call.phone) /\ m.to = AorOf[call.phone]
<1>1. /\ Send(Request(call.server, method, TRUE, Uri("contact", call.phone), AorOf[call.phone],
                      call.serverRoutes, MaxHops))
      /\ UNCHANGED call /\ call.state = "up"
  BY DEF ServerRequests
<1>2. call.phone \in Phone /\ call.server \in Server
  BY <1>1 DEF Types
<1>3. PICK m : m = Request(call.server, method, TRUE, Uri("contact", call.phone), AorOf[call.phone],
                           call.serverRoutes, MaxHops)
  OBVIOUS
<1>4. /\ m \in RequestType /\ m.from = call.server /\ m.method = method /\ m.tagged = TRUE
      /\ m.trips = 0 /\ m.key = sent + 1 /\ m.hops = MaxHops
      /\ m.uri = Uri("contact", call.phone) /\ m.to = AorOf[call.phone]
  <2>1. Uri("contact", call.phone) \in UriType /\ AorOf[call.phone] \in Aor /\ call.serverRoutes \in Seq(Known)
    BY <1>2, CallFields, Constants DEF Uri, UriType
  <2>2. MaxHops \in -1..MaxHops /\ sent + 1 \in Nat
    BY Constants DEF Types
  <2> QED  BY <1>2, <1>3, <2>1, <2>2 DEF Request, RequestType
<1>5. Send(m)
  BY <1>1, <1>3
<1>6. /\ call' \in CallType /\ (call'.state # "idle" => call'.phone \in Phone)
      /\ call'.state # "idle" /\ (call'.state = "up" \/ ~call'.byPhone) => call'.server \in Server
  BY <1>1 DEF Types
<1>7. Types'
  BY <1>4, <1>5, <1>6, SendTypes
<1> QED  BY <1>1, <1>4, <1>5, <1>7

\* one that comes back.
LEMMA BounceTypes ==
    ASSUME Types, Bounce
    PROVE  /\ Types' /\ UNCHANGED <<conf, healthy, location, devices, registrar, affinity, invites, advertised, call,
                                    forwarded, sent, faults>>
           /\ last' = NoLast /\ last.at \in Server /\ last.req.from \in Server
           /\ \E m \in RequestType : /\ wire' = wire \cup {m} /\ m.from = last.at /\ m.key = 0
                                     /\ m.method = last.req.method /\ m.tagged = last.req.tagged
                                     /\ m.trips = last.req.trips /\ m.hops = last.req.hops
                                     /\ m.uri = last.req.uri /\ m.to = last.req.to
<1>1. /\ UNCHANGED <<conf, healthy, location, devices, registrar, affinity, invites, advertised, call, forwarded,
                     sent, faults>>
      /\ last' = NoLast /\ last.at \in Server /\ last.req.from \in Server
  BY DEF Bounce, tables, bounds, FromUpstream
<1>2. PICK m : m = [last.req EXCEPT !.from = last.at, !.routes = last.routes, !.key = 0]
  OBVIOUS
<1>3. wire' = wire \cup {m}
  BY <1>2 DEF Bounce
<1>4. /\ m \in RequestType /\ m.from = last.at /\ m.key = 0 /\ m.method = last.req.method
      /\ m.tagged = last.req.tagged /\ m.trips = last.req.trips /\ m.hops = last.req.hops
      /\ m.uri = last.req.uri /\ m.to = last.req.to
  BY <1>1, <1>2, BouncedRequest
<1>5. wire' \subseteq RequestType /\ last' \in LastType
  BY <1>1, <1>3, <1>4, NothingTyped DEF Types
<1>6. Types'
  BY <1>1, <1>5, TypesAgain DEF Types
<1> QED  BY <1>1, <1>3, <1>4, <1>6

\* A request without hops is refused.
LEMMA TooManyHopsTypes ==
    ASSUME Types, NEW m \in wire, TooManyHops(m)
    PROVE  /\ Types' /\ wire' \subseteq wire
           /\ UNCHANGED <<conf, healthy, location, devices, registrar, affinity, invites, advertised, call, last,
                          forwarded, sent, faults>>
<1>1. /\ wire' \subseteq wire
      /\ UNCHANGED <<conf, healthy, location, devices, registrar, affinity, invites, advertised, call, last,
                     forwarded, sent, faults>>
  BY DEF TooManyHops, tables, bounds
<1> QED  BY <1>1, TypesAgain DEF Types

\* A step of the registrations leaves the call alone; a REGISTER may ask for the addresses
\* advertised to its server.
Tells(s, adv) ==
    /\ advertised' = Put(advertised, {s}, adv)
    /\ faults' = IF FellBack(s, adv) THEN faults + 1 ELSE faults
Elsewhere ==
    /\ UNCHANGED <<conf, healthy, affinity, invites, call, wire, forwarded, sent>>
    /\ UNCHANGED <<advertised, faults>> \/ \E s \in Server : \E adv \in Resolved(s) : Tells(s, adv)
    /\ last' = NoLast

\* They come and go.
LEMMA ElsewhereTypes ==
    ASSUME Types, NEW p \in Phone, Expire(p) \/ \E s \in Server : Register(p, s)
    PROVE  Types' /\ Elsewhere
<1>1. /\ UNCHANGED <<conf, healthy, affinity, invites, call, wire, forwarded, sent>>
      /\ last' = NoLast /\ last' \in LastType
  BY NothingTyped DEF Expire, Register
<1>2. UNCHANGED <<advertised, faults>> \/ \E s \in Server : \E adv \in Resolved(s) : Tells(s, adv)
  BY DEF Expire, Register, Tells
<1>3. (\A a \in DOMAIN advertised' : advertised'[a] \in [Side -> Known]) /\ faults' \in Nat
  <2>1. CASE UNCHANGED <<advertised, faults>>
    BY <2>1 DEF Types
  <2>2. ASSUME NEW s \in Server, NEW adv \in Resolved(s), Tells(s, adv)
        PROVE  (\A a \in DOMAIN advertised' : advertised'[a] \in [Side -> Known]) /\ faults' \in Nat
    <3>1. adv \in [Side -> Known]
      BY ResolvedKnown
    <3> QED  BY <2>2, <3>1 DEF Tells, Put, Types
  <2> QED  BY <1>2, <2>1, <2>2
<1>4. AorOf[p] \in Aor
  BY Constants
<1>5. /\ location' \in [Aor -> Phone \cup {None}] /\ registrar' \in [Aor -> Server \cup {None}]
      /\ devices' \subseteq Phone
  BY <1>4 DEF Expire, Register, Types
<1> QED  BY <1>1, <1>2, <1>3, <1>5, TypesAgain DEF Types, Elsewhere

\* A table some of whose entries have gone.
PartOf(part, table) == DOMAIN part \subseteq DOMAIN table /\ \A k \in DOMAIN part : part[k] = table[k]

\* Health changes, or time has passed.
Aging ==
    \/ \E s \in Server : HealthChanges(s)
    \/ \E key \in DOMAIN affinity : AffinityExpires(key)
    \/ \E key \in DOMAIN invites : InviteExpires(key)

\* The call itself stays as it is.
LEMMA AgingTypes ==
    ASSUME Types, Aging
    PROVE  /\ Types' /\ last' = NoLast
           /\ UNCHANGED <<conf, location, devices, registrar, advertised, wire, forwarded, sent, faults>>
           /\ PartOf(affinity', affinity) /\ PartOf(invites', invites)
           /\ call'.state = call.state /\ call'.phone = call.phone /\ call'.server = call.server
           /\ call'.byPhone = call.byPhone /\ call'.invite = call.invite /\ call'.offeredTo = call.offeredTo
           /\ call'.offer = call.offer /\ call'.phoneRoutes = call.phoneRoutes
           /\ call'.serverRoutes = call.serverRoutes /\ call'.outgoing = call.outgoing
           /\ call'.halved = call.halved
           /\ call'.steady => call.steady /\ UNCHANGED <<healthy, affinity>>
           /\ call'.inTime => call.inTime /\ UNCHANGED invites
<1>1. /\ UNCHANGED <<conf, location, devices, registrar, advertised, wire, forwarded, sent, faults>>
      /\ last' = NoLast /\ last' \in LastType /\ healthy' \subseteq Server
  BY NothingTyped DEF Aging, HealthChanges, AffinityExpires, InviteExpires, tables, Types
<1>2. PartOf(affinity', affinity) /\ PartOf(invites', invites)
  BY DEF Aging, HealthChanges, AffinityExpires, InviteExpires, tables, Without, PartOf
<1>3. \/ call' = [call EXCEPT !.steady = FALSE] /\ UNCHANGED invites
      \/ call' = [call EXCEPT !.inTime = FALSE] /\ UNCHANGED <<healthy, affinity>>
  BY DEF Aging, HealthChanges, AffinityExpires, InviteExpires, tables
<1>4. /\ call' \in CallType
      /\ call'.state = call.state /\ call'.phone = call.phone /\ call'.server = call.server
      /\ call'.byPhone = call.byPhone /\ call'.invite = call.invite /\ call'.offeredTo = call.offeredTo
      /\ call'.offer = call.offer /\ call'.phoneRoutes = call.phoneRoutes
      /\ call'.serverRoutes = call.serverRoutes /\ call'.outgoing = call.outgoing
      /\ call'.halved = call.halved
      /\ call'.steady => call.steady /\ UNCHANGED <<healthy, affinity>>
      /\ call'.inTime => call.inTime /\ UNCHANGED invites
  BY <1>3 DEF Types, CallType
<1>5. Types'
  BY <1>1, <1>2, <1>4, TypesAgain DEF Types, PartOf
<1> QED  BY <1>1, <1>2, <1>4, <1>5

\* The actions.
LEMMA Actions ==
    ASSUME Next
    PROVE  \/ \E m \in wire : \E a \in Targets(m) : \E adv \in Resolved(a) : \E back \in Backs(m, a, adv) :
                 m.hops # 0 /\ ForwardTo(m, a, adv, back)
           \/ \E m \in wire : TooManyHops(m)
           \/ \E f \in forwarded : Remember(f)
           \/ \E p \in Phone : PhoneCalls(p)
           \/ \E p \in Phone : Expire(p) \/ \E s \in Server : Register(p, s)
           \/ \E p \in Phone, s \in Server : ServerCalls(s, p)
           \/ Aging
           \/ \E method \in Method : PhoneRequests(method)
           \/ \E method \in Method : ServerRequests(method)
           \/ Cancel \/ Answer \/ Bounce
BY Zenon DEF Next, Forward, Backs, Aging

\* The types hold at the start,
LEMMA InitTypes == Init => Types
<1> SUFFICES ASSUME Init  PROVE Types
  OBVIOUS
<1>1. <<>> \in Offers(Known) /\ <<>> \in Seq(Known) /\ NoRequest \in RequestType /\ NoLast \in LastType
  BY NothingTyped DEF Offers
<1>2. call \in CallType /\ call.state = "idle"
  BY <1>1 DEF Init, NoCall, CallType
<1> QED  BY <1>1, <1>2, Constants DEF Init, Types

\* and every step keeps them.
LEMMA TypesStep == Types /\ [Next]_vars => Types'
<1> SUFFICES ASSUME Types, [Next]_vars  PROVE Types'
  OBVIOUS
<1>1. CASE Next
  BY <1>1, Actions, ForwardTypes, TooManyHopsTypes, RememberTypes, PhoneCallsTypes, ElsewhereTypes, ServerCallsTypes,
     AgingTypes, PhoneRequestsTypes, ServerRequestsTypes, CancelTypes, AnswerTypes, BounceTypes
<1>2. CASE UNCHANGED vars
  BY <1>2, TypesAgain DEF vars, tables, bounds, Types
<1> QED  BY <1>1, <1>2

-----------------------------------------------------------------------------
(* A request that goes round ends *)

\* A request that a step puts on the wire within its budget keeps it.
LEMMA BudgetSent ==
    ASSUME Types, Budget, NEW m \in RequestType, Send(m), InBudget(m), call'.invite = call.invite
    PROVE  Budget'
<1>1. wire' = {m} /\ last' = NoLast
  BY DEF Send
<1>2. InBudget(NoRequest) /\ NoLast.req.hops # Absent /\ NoLast.req = NoRequest
  BY NothingTyped, Constants DEF InBudget, Absent
<1> QED  BY <1>1, <1>2 DEF Budget, InBudget

\* Every step spends from it what it adds to the trips.
LEMMA BudgetStep == Types /\ Budget /\ [Next]_vars => Budget'
<1> SUFFICES ASSUME Types, Budget, [Next]_vars  PROVE Budget'
  OBVIOUS
<1>0. InBudget(NoRequest) /\ NoLast.req.hops # Absent /\ NoLast.req = NoRequest /\ NoRequest.trips = 0
  BY NothingTyped, Constants DEF InBudget, Absent
<1>1. ASSUME NEW m \in wire, NEW a \in Targets(m), NEW adv \in Resolved(a), NEW back \in Backs(m, a, adv),
             m.hops # 0, ForwardTo(m, a, adv, back)
      PROVE  Budget'
  <2>1. wire' \subseteq wire
    BY <1>1 DEF ForwardTo
  <2>2. m.hops \in -1..MaxHops /\ m.trips \in Nat /\ InBudget(m) /\ m \in RequestType
    BY RequestFields DEF Types, Budget
  <2>3. last'.req.hops = HopsLeft(m.hops) /\ last'.req.trips = m.trips + 1
    BY <1>1, ForwardedLast
  <2>4. InBudget(last'.req) /\ last'.req.hops # Absent
    BY <1>1, <2>2, <2>3, Constants DEF InBudget, HopsLeft, Absent
  <2>5. call'.invite \in {m, call.invite} /\ (call'.invite = m => m.trips = 0 \/ m = call.invite)
    BY <1>1, ForwardedCall DEF Opens
  <2> QED  BY <2>1, <2>2, <2>4, <2>5 DEF Budget, InBudget
<1>2. ASSUME NEW m \in wire, TooManyHops(m)  PROVE Budget'
  BY <1>2, TooManyHopsTypes DEF Budget, InBudget
<1>3. ASSUME NEW f \in forwarded, Remember(f)  PROVE Budget'
  <2>1. UNCHANGED <<wire, last>> /\ call'.invite = call.invite
    BY <1>3, RememberTypes DEF Remember
  <2> QED  BY <2>1 DEF Budget, InBudget
<1>4. ASSUME NEW p \in Phone, PhoneCalls(p)  PROVE Budget'
  <2>1. PICK m \in RequestType : Send(m) /\ m.trips = 0 /\ m.hops = MaxHops
    BY <1>4, PhoneCallsTypes
  <2>2. InBudget(m)
    BY <2>1, Constants DEF InBudget, Absent
  <2>3. call'.invite = call.invite
    BY <1>4, PhoneCallsTypes
  <2> QED  BY <2>1, <2>2, <2>3, BudgetSent
<1>5. ASSUME NEW p \in Phone, Expire(p) \/ \E s \in Server : Register(p, s)  PROVE Budget'
  <2>1. UNCHANGED <<wire, call>> /\ last' = NoLast
    BY <1>5, ElsewhereTypes DEF Elsewhere
  <2> QED  BY <2>1, <1>0 DEF Budget, InBudget
<1>6. ASSUME NEW p \in Phone, NEW s \in Server, ServerCalls(s, p)  PROVE Budget'
  <2>1. PICK m \in RequestType : Send(m) /\ m.trips = 0 /\ m.hops \in {Absent, MaxHops}
    BY <1>6, ServerCallsTypes
  <2>2. InBudget(m)
    BY <2>1, Constants DEF InBudget, Absent
  <2>3. call'.invite = call.invite
    BY <1>6, ServerCallsTypes
  <2> QED  BY <2>1, <2>2, <2>3, BudgetSent
<1>7. CASE Aging
  <2>1. UNCHANGED wire /\ last' = NoLast /\ call'.invite = call.invite
    BY <1>7, AgingTypes
  <2> QED  BY <2>1, <1>0 DEF Budget, InBudget
<1>8. ASSUME NEW method \in Method, PhoneRequests(method) \/ ServerRequests(method)  PROVE Budget'
  <2>1. PICK m \in RequestType : Send(m) /\ m.trips = 0 /\ m.hops = MaxHops
    BY <1>8, PhoneRequestsTypes, ServerRequestsTypes
  <2>2. InBudget(m)
    BY <2>1, Constants DEF InBudget, Absent
  <2>3. call'.invite = call.invite
    BY <1>8, PhoneRequestsTypes, ServerRequestsTypes
  <2> QED  BY <2>1, <2>2, <2>3, BudgetSent
<1>9. CASE Cancel
  <2>1. PICK m \in RequestType : Send(m) /\ m.trips = call.invite.trips /\ m.hops = call.invite.hops
    BY <1>9, CancelTypes
  <2>2. InBudget(m)
    BY <2>1 DEF InBudget, Budget
  <2>3. call'.invite = call.invite
    BY <1>9, CancelTypes
  <2> QED  BY <2>1, <2>2, <2>3, BudgetSent
<1>10. CASE Answer
  <2>1. UNCHANGED wire /\ last' = NoLast /\ call'.invite = NoRequest
    BY <1>10, AnswerTypes
  <2> QED  BY <2>1, <1>0 DEF Budget, InBudget
<1>11. CASE Bounce
  <2>1. PICK m \in RequestType : wire' = wire \cup {m} /\ m.trips = last.req.trips /\ m.hops = last.req.hops
    BY <1>11, BounceTypes
  <2>2. InBudget(m)
    BY <2>1 DEF InBudget, Budget
  <2>3. UNCHANGED call /\ last' = NoLast
    BY <1>11, BounceTypes
  <2> QED  BY <2>1, <2>2, <2>3, <1>0 DEF Budget, InBudget
<1>12. CASE UNCHANGED vars
  BY <1>12 DEF Budget, InBudget, vars
<1> QED  BY <1>1, <1>2, <1>3, <1>4, <1>5, <1>6, <1>7, <1>8, <1>9, <1>10, <1>11, <1>12, Actions

\* Nothing has been spent at the start.
LEMMA InitBudget == Init => Budget
BY NothingTyped, Constants DEF Init, Budget, InBudget, NoCall, Absent

\* A request that goes round between proxy and servers, because a server sends back
\* what prepare_forward gave it, is passed on at most MaxHops + 1 times: Max-Forwards
\* pays for every trip, and a request without one gets one.
THEOREM RoundTripsEnd == Spec => []TripsBounded
<1>1. Init => Types /\ Budget
  BY InitTypes, InitBudget
<1>2. Types /\ Budget /\ [Next]_vars => (Types /\ Budget)'
  BY TypesStep, BudgetStep
<1>3. Types /\ Budget => TripsBounded
  <2> SUFFICES ASSUME Types, Budget  PROVE TripsBounded
    OBVIOUS
  <2>1. last.req.hops \in -1..MaxHops /\ last.req.trips \in Nat
    BY LastFields, RequestFields
  <2> QED  BY <2>1, Constants DEF Budget, InBudget, TripsBounded, Absent
<1> QED  BY <1>1, <1>2, <1>3, PTL DEF Spec

-----------------------------------------------------------------------------
(* No Route of its own is left on top *)

\* What a next hop may be told as long as no query has failed.
Told(side, a) ==
    IF side = "internal" THEN {InternalAddr}
    ELSE CASE conf.public = "name"   -> {"name"}
           [] conf.public = "none"   -> {LocalTo(a)}
           [] conf.public = "moving" -> {"pub", "moved"}
           [] OTHER                  -> {"pub"}
Advertised ==
    faults = 0 => \A a \in DOMAIN advertised : \A side \in Side : advertised[a][side] \in Told(side, a)

\* Other steps leave the addresses, but for what a registrar is told, the way of the
\* INVITE and, but for forgetting it, the request sent last alone.
NothingForwarded ==
    /\ UNCHANGED conf /\ (last' = last \/ last' = NoLast)
    /\ UNCHANGED <<advertised, faults>> \/ \E s \in Server : \E adv \in Resolved(s) : Tells(s, adv)
    /\ call'.offeredTo = call.offeredTo /\ call'.offer = call.offer
    /\ (call'.steady => call.steady) /\ (call'.outgoing => call.outgoing) /\ (call'.inTime => call.inTime)

\* No query has failed before.
LEMMA NoFaultBefore ==
    ASSUME Types, NothingForwarded, faults' = 0
    PROVE  faults = 0
<1>1. CASE UNCHANGED <<advertised, faults>>
  BY <1>1
<1>2. ASSUME NEW s \in Server, NEW adv \in Resolved(s), Tells(s, adv)  PROVE faults = 0
  <2>1. faults \in Nat
    BY DEF Types
  <2> QED  BY <1>2, <2>1 DEF Tells
<1> QED  BY <1>1, <1>2 DEF NothingForwarded

\* Only ForwardTo does more.
LEMMA QuietUnlessForwarded ==
    ASSUME Types, [Next]_vars
    PROVE  \/ NothingForwarded
           \/ \E m \in wire : \E a \in Targets(m) : \E adv \in Resolved(a) : \E back \in Backs(m, a, adv) :
                 m.hops # 0 /\ ForwardTo(m, a, adv, back)
<1>1. CASE Next
  <2>1. ASSUME NEW m \in RequestType, Send(m), call'.offeredTo = call.offeredTo, call'.offer = call.offer,
               call'.steady = call.steady, call'.outgoing = call.outgoing, call'.inTime = call.inTime
        PROVE  NothingForwarded
    BY <2>1 DEF Send, NothingForwarded, tables
  <2>2. ASSUME NEW m \in wire, TooManyHops(m)  PROVE NothingForwarded
    BY <2>2, TooManyHopsTypes DEF NothingForwarded
  <2>3. ASSUME NEW f \in forwarded, Remember(f)  PROVE NothingForwarded
    <3>1. UNCHANGED <<conf, advertised, faults, last>>
      BY <2>3 DEF Remember, bounds
    <3> QED  BY <2>3, <3>1, RememberTypes DEF NothingForwarded
  <2>4. ASSUME NEW p \in Phone, Expire(p) \/ \E s \in Server : Register(p, s)  PROVE NothingForwarded
    BY <2>4, ElsewhereTypes DEF NothingForwarded, Elsewhere
  <2>5. ASSUME Aging  PROVE NothingForwarded
    BY <2>5, AgingTypes DEF NothingForwarded
  <2>6. ASSUME Answer \/ Bounce  PROVE NothingForwarded
    BY <2>6, AnswerTypes, BounceTypes DEF NothingForwarded
  <2> QED  BY <1>1, <2>1, <2>2, <2>3, <2>4, <2>5, <2>6, Actions, PhoneCallsTypes, ServerCallsTypes, CancelTypes,
              PhoneRequestsTypes, ServerRequestsTypes
<1>2. CASE UNCHANGED vars
  BY <1>2 DEF vars, NothingForwarded, tables, bounds
<1> QED  BY <1>1, <1>2

\* What is advertised to a next hop if no query has failed.
LEMMA ToldIs ==
    ASSUME Advertised, faults = 0, NEW a, NEW adv \in Resolved(a), ~FellBack(a, adv)
    PROVE  \A side \in Side : adv[side] \in Told(side, a)
<1>1. CASE a \in DOMAIN advertised
  BY <1>1, ResolvedFacts DEF Advertised
<1>2. CASE a \notin DOMAIN advertised
  <2>1. \A side \in Side : adv[side] \in Resolution(side, a)
    BY <1>2 DEF FellBack
  <2>2. \A side \in Side : Resolution(side, a) \subseteq Told(side, a)
    BY DEF Resolution, Told, Side
  <2> QED  BY <2>1, <2>2
<1> QED  BY <1>1, <1>2

\* Once a request has been passed on.
LEMMA AdvertisedIs ==
    ASSUME Types, Advertised, NEW m \in wire, NEW a \in Targets(m), NEW adv \in Resolved(a),
           NEW back \in Backs(m, a, adv), ForwardTo(m, a, adv, back), faults' = 0
    PROVE  /\ faults = 0 /\ \A side \in Side : adv[side] \in Told(side, a)
           /\ \A b \in Asked(m) : \A side \in Side : back[side] \in Told(side, b)
<1>1. faults = 0 /\ ~FellBack(a, adv) /\ \A b \in Asked(m) : ~FellBack(b, back)
  BY DEF ForwardTo, Types
<1>2. \A side \in Side : adv[side] \in Told(side, a)
  BY <1>1, ToldIs
<1>3. ASSUME NEW b \in Asked(m)  PROVE \A side \in Side : back[side] \in Told(side, b)
  <2>1. b = m.from
    BY DEF Asked
  <2>2. CASE b = a
    BY <1>2, <2>1, <2>2 DEF Backs
  <2>3. CASE b # a
    <3>1. back \in Resolved(b)
      BY <2>1, <2>3 DEF Backs
    <3> QED  BY <1>1, <3>1, ToldIs
  <2> QED  BY <2>2, <2>3
<1> QED  BY <1>1, <1>2, <1>3

\* Passing on keeps to it.
LEMMA AdvertisedStep == Types /\ Advertised /\ [Next]_vars => Advertised'
<1> SUFFICES ASSUME Types, Advertised, [Next]_vars, faults' = 0, NEW b \in DOMAIN advertised', NEW side \in Side
             PROVE  advertised'[b][side] \in Told(side, b)'
  BY DEF Advertised
<1>0. UNCHANGED conf => Told(side, b)' = Told(side, b)
  BY DEF Told, LocalTo, InternalAddr
<1>1. ASSUME NEW m \in wire, NEW a \in Targets(m), NEW adv \in Resolved(a), NEW back \in Backs(m, a, adv),
             m.hops # 0, ForwardTo(m, a, adv, back)
      PROVE  advertised'[b][side] \in Told(side, b)'
  <2>1. /\ faults = 0 /\ \A z \in Side : adv[z] \in Told(z, a)
        /\ \A c \in Asked(m) : \A z \in Side : back[z] \in Told(z, c)
    BY <1>1, AdvertisedIs
  <2>2. UNCHANGED conf /\ advertised' = Put(Put(advertised, Asked(m), back), {a}, adv)
    BY <1>1 DEF ForwardTo
  <2>3. \/ b = a /\ advertised'[b] = adv
        \/ b \in Asked(m) /\ advertised'[b] = back
        \/ b \in DOMAIN advertised /\ advertised'[b] = advertised[b]
    BY <2>2 DEF Put
  <2> QED  BY <1>0, <2>1, <2>2, <2>3 DEF Advertised
<1>2. CASE NothingForwarded
  <2>1. faults = 0 /\ UNCHANGED conf
    BY <1>2, NoFaultBefore DEF NothingForwarded
  <2>2. CASE UNCHANGED <<advertised, faults>>
    BY <1>0, <2>1, <2>2 DEF Advertised
  <2>3. ASSUME NEW s \in Server, NEW adv \in Resolved(s), Tells(s, adv)
        PROVE  advertised'[b][side] \in Told(side, b)'
    <3>1. ~FellBack(s, adv) /\ advertised' = Put(advertised, {s}, adv)
      BY <2>1, <2>3 DEF Tells
    <3>2. \A z \in Side : adv[z] \in Told(z, s)
      BY <2>1, <3>1, ToldIs
    <3>3. (b = s /\ advertised'[b] = adv) \/ (b \in DOMAIN advertised /\ advertised'[b] = advertised[b])
      BY <3>1 DEF Put
    <3> QED  BY <1>0, <2>1, <3>2, <3>3 DEF Advertised
  <2> QED  BY <1>2, <2>2, <2>3 DEF NothingForwarded
<1> QED  BY <1>1, <1>2, QuietUnlessForwarded

\* An address that the proxy has given out is found to be its own.
LEMMA KnownIsOwn ==
    ASSUME conf \in Configs, Recognizable, NEW r \in Known, NEW a, NEW adv,
           \A side \in Side : adv[side] \in Told(side, a)
    PROVE  RouteIsOwn(r, adv)
<1>1. r # "name" /\ r \in {"pub", "int"} /\ (r = "int" => conf.internal # "external")
  BY DEF Known, Own, Recognizable
<1>2. adv["internal"] = InternalAddr
  BY DEF Told, Side
<1>3. CASE r = "int" /\ InternalAddr = "int"
  BY <1>1, <1>2, <1>3 DEF RouteIsOwn, Side
<1>4. CASE r = "int" /\ InternalAddr # "int"
  <2>1. "int" \in conf.local
    BY <1>1, <1>4 DEF InternalAddr, Recognizable
  <2> QED  BY <1>4, <2>1 DEF RouteIsOwn, IsOwn
<1>5. CASE r = "pub" /\ conf.public \in {"addr", "none"}
  BY <1>1, <1>5 DEF RouteIsOwn, IsOwn, Known
<1>6. CASE r = "pub" /\ conf.public = "stun"
  <2>1. adv["public"] = "pub"
    BY <1>6 DEF Told, Side
  <2> QED  BY <1>1, <1>6, <2>1 DEF RouteIsOwn, Side
<1>7. conf.public \in {"addr", "none", "stun"}
  BY ConfFacts DEF Recognizable
<1> QED  BY <1>1, <1>3, <1>4, <1>5, <1>6, <1>7

\* prepare_forward passes a request on without the proxy's own Route on top, whatever
\* the call has come through, as long as its addresses are Recognizable: no host name,
\* every query answered and STUN's always alike, and both interfaces the listener's own.
THEOREM NoOwnRouteOnTop == Spec => []OwnRoutesPopped
<1> DEFINE Inv == Types /\ Advertised /\ OwnRoutesPopped
<1>1. Init => Inv
  BY InitTypes, NothingTyped DEF Init, Advertised, OwnRoutesPopped
<1>2. Inv /\ [Next]_vars => Inv'
  <2> SUFFICES ASSUME Types, Advertised, OwnRoutesPopped, [Next]_vars  PROVE OwnRoutesPopped'
    BY TypesStep, AdvertisedStep
  <2>1. ASSUME NEW m \in wire, NEW a \in Targets(m), NEW adv \in Resolved(a), NEW back \in Backs(m, a, adv),
             m.hops # 0, ForwardTo(m, a, adv, back)
        PROVE  OwnRoutesPopped'
    <3> SUFFICES ASSUME Recognizable', last'.routes # <<>>  PROVE FALSE
      BY DEF OwnRoutesPopped
    <3>1. Recognizable /\ \A side \in Side : adv[side] \in Told(side, a)
      <4>1. UNCHANGED conf /\ faults' = 0
        BY <2>1 DEF ForwardTo, Recognizable
      <4> QED  BY <2>1, <4>1, AdvertisedIs DEF Recognizable
    <3>2. last'.routes = PopOwnRoutes(m.routes, adv) /\ m.routes \in Seq(Known)
      BY <2>1, ForwardedLast, ForwardedCall, RequestFields
    <3>3. PICK r \in Known : ~RouteIsOwn(r, adv)
      BY <3>2, PoppedFacts
    <3>4. conf \in Configs
      BY DEF Types
    <3> QED  BY <3>1, <3>3, <3>4, KnownIsOwn
  <2>2. CASE NothingForwarded
    <3>1. Recognizable' => Recognizable
      BY <2>2, NoFaultBefore DEF NothingForwarded, Recognizable
    <3> QED  BY <2>2, <3>1, NothingTyped DEF NothingForwarded, OwnRoutesPopped
  <2> QED  BY <2>1, <2>2, QuietUnlessForwarded
<1> QED  BY <1>1, <1>2, PTL DEF Spec

-----------------------------------------------------------------------------
(* The order of events *)

\* A request is sent: the kind of it, and what the call allows.
LEMMA OrderedSent ==
    ASSUME Types, Ordered, NEW m \in RequestType, Send(m),
           Initial(m) \/ Cancels(m) \/ InDialog(m),
           call'.offeredTo = call.offeredTo, call'.byPhone \in BOOLEAN,
           call'.state # "idle",
           call'.state = "up" => call'.offeredTo # None /\ (call'.byPhone => call'.server = call'.offeredTo),
           call'.offeredTo = None => Initial(m) /\ (IF call'.byPhone THEN m.from \in Phone ELSE m.from \in Server),
           call'.offeredTo # None => ~Initial(m) /\ call'.invite = call.invite /\ call'.state = call.state
    PROVE  Ordered'
<1>1. /\ UNCHANGED <<conf, affinity, invites, forwarded>> /\ wire' = {m} /\ last' = NoLast /\ wire = {}
  BY DEF Send, tables
<1>2. NoLast.at = None /\ NoLast.req.method # "INVITE"
  BY NothingTyped DEF None
<1>3. m.method = "INVITE" => ~m.tagged
  BY DEF Initial, Cancels, InDialog, Method
<1>4. OneAtATime'
  BY <1>1, <1>2, <1>3 DEF OneAtATime, Initial, Cancels, InDialog, Returned
<1>5. \A a : IsOwn(a)' = IsOwn(a)
  BY <1>1, Rigid
<1>6. Progress'
  BY <1>1, <1>2, <1>5 DEF Ordered, Progress, Initial
<1> QED  BY <1>4, <1>6 DEF Ordered

\* A request is passed on.
LEMMA OrderedForward ==
    ASSUME Types, Ordered, NEW m \in wire, m.hops # 0, NEW a \in Targets(m), NEW adv \in Resolved(a),
           NEW back \in Backs(m, a, adv), ForwardTo(m, a, adv, back)
    PROVE  /\ Ordered' /\ wire' = {} /\ call'.offeredTo # None
           /\ (Opens(m) <=> Initial(m)) /\ (Opens(m) <=> call.offeredTo = None)
<1>1. wire' = {} /\ UNCHANGED <<conf, affinity, invites>>
  BY DEF ForwardTo, Ordered, OneAtATime
<1>2. m \in RequestType /\ m.trips \in Nat /\ a \in Target /\ (a \in Server \/ ~IsOwn(a)) /\ a # None
  BY ForwardedCall, TargetsTyped, RequestFields, Constants DEF Target, None, Own
<1>3. last'.at = a /\ last'.req.trips = m.trips + 1 /\ last'.req.method = m.method /\ last'.req.tagged = m.tagged
  BY ForwardedLast
<1>4. Opens(m) <=> Initial(m)
  BY DEF Opens, Initial, Ordered, OneAtATime, Cancels, InDialog, Returned, Method
<1>5. Opens(m) <=> call.offeredTo = None
  BY <1>4 DEF Ordered, Progress
<1>6. OneAtATime'
  BY <1>1, <1>2, <1>3 DEF Ordered, OneAtATime
<1>7. /\ call'.state = call.state /\ call'.server = call.server /\ call'.byPhone = call.byPhone
      /\ Opens(m) => call'.offeredTo = a /\ call'.invite = m
      /\ ~Opens(m) => call'.offeredTo = call.offeredTo /\ call'.invite = call.invite
  BY ForwardedCall
<1>8. call'.offeredTo # None
  BY <1>2, <1>5, <1>7
<1>9. Progress'
  <2>1. call.state # "idle"
    BY DEF Ordered, Progress
  <2>2. call'.offeredTo \in Server \/ ~IsOwn(call.offeredTo)'
    <3>1. PICK b : b = call'.offeredTo
      OBVIOUS
    <3>2. b \in Server \/ ~IsOwn(b)
      BY <3>1, <1>2, <1>5, <1>7 DEF Ordered, Progress
    <3> QED  BY <3>1, <3>2, <1>1 DEF IsOwn
  <2>3. call'.state = "up" => call.offeredTo # None
    BY <1>7 DEF Ordered, Progress
  <2>4. call'.state = "inviting" => Initial(call'.invite)
    BY <1>4, <1>5, <1>7 DEF Ordered, Progress
  <2> QED  BY <1>1, <1>5, <1>7, <1>8, <2>1, <2>2, <2>3, <2>4 DEF Ordered, Progress, Initial
<1> QED  BY <1>1, <1>4, <1>5, <1>6, <1>8, <1>9 DEF Ordered

\* A request comes back.
LEMMA OrderedBounce ==
    ASSUME Types, Ordered, Bounce
    PROVE  Ordered' /\ call.offeredTo # None
<1>1. /\ UNCHANGED <<conf, affinity, invites, call, forwarded>> /\ last' = NoLast /\ last.at \in Server
  BY BounceTypes
<1>2. last.at # None
  BY <1>1, Constants
<1>3. wire = {} /\ last.req.trips # 0 /\ call.offeredTo # None
  BY <1>2 DEF Ordered, OneAtATime, Progress
<1>4. PICK m \in RequestType : /\ wire' = wire \cup {m} /\ m.from = last.at /\ m.key = 0
                               /\ m.method = last.req.method /\ m.tagged = last.req.tagged
                               /\ m.trips = last.req.trips
  BY BounceTypes
<1>5. NoLast.at = None /\ NoLast.req.method # "INVITE"
  BY NothingTyped DEF None
<1>6. OneAtATime'
  BY <1>1, <1>3, <1>4, <1>5 DEF Ordered, OneAtATime, Returned
<1>7. \A b : IsOwn(b)' = IsOwn(b)
  BY <1>1, Rigid
<1>8. Progress'
  BY <1>1, <1>3, <1>4, <1>5, <1>7 DEF Ordered, Progress, Initial
<1> QED  BY <1>3, <1>6, <1>8 DEF Ordered

\* Every step keeps the order.
LEMMA OrderedStep == Types /\ Ordered /\ [Next]_vars => Ordered'
<1> SUFFICES ASSUME Types, Ordered, [Next]_vars  PROVE Ordered'
  OBVIOUS
<1>0. NoLast.at = None /\ NoLast.req.method # "INVITE"
  BY NothingTyped DEF None
<1>c. UNCHANGED conf => \A b : IsOwn(b)' = IsOwn(b)
  BY Rigid
<1>1. ASSUME NEW m \in wire, NEW a \in Targets(m), NEW adv \in Resolved(a), NEW back \in Backs(m, a, adv),
             m.hops # 0, ForwardTo(m, a, adv, back)
      PROVE  Ordered'
  BY <1>1, OrderedForward
<1>2. ASSUME NEW m \in wire, TooManyHops(m)  PROVE Ordered'
  <2>1. wire' \subseteq wire /\ UNCHANGED <<conf, affinity, invites, call, last, forwarded>>
    BY <1>2, TooManyHopsTypes
  <2>2. OneAtATime'
    BY <2>1 DEF Ordered, OneAtATime
  <2>3. Progress'
    BY <2>1, <1>c DEF Ordered, Progress
  <2> QED  BY <2>2, <2>3 DEF Ordered
<1>3. ASSUME NEW f \in forwarded, Remember(f)  PROVE Ordered'
  <2>1. UNCHANGED <<conf, wire, last>> /\ forwarded # {}
    BY <1>3 DEF Remember
  <2>2. OneAtATime'
    BY <2>1 DEF Ordered, OneAtATime
  <2>3. /\ call'.state = call.state /\ call'.server = call.server /\ call'.byPhone = call.byPhone
        /\ call'.invite = call.invite /\ call'.offeredTo = call.offeredTo
    BY <1>3, RememberTypes
  <2>4. Progress'
    BY <2>1, <2>3, <1>c DEF Ordered, Progress, Initial
  <2> QED  BY <2>2, <2>4 DEF Ordered
<1>4. ASSUME NEW p \in Phone, PhoneCalls(p)  PROVE Ordered'
  <2>1. PICK m \in RequestType : /\ Send(m) /\ m.from = p /\ m.method = "INVITE" /\ m.tagged = FALSE /\ m.trips = 0
                                 /\ m.key = sent + 1
    BY <1>4, PhoneCallsTypes
  <2>2. Initial(m)
    BY <2>1 DEF Initial, Types
  <2>3. call.state = "idle" /\ call'.state = "inviting" /\ call'.byPhone = TRUE /\ call'.offeredTo = call.offeredTo
    BY <1>4, PhoneCallsTypes
  <2>4. call.offeredTo = None
    BY <2>3 DEF Ordered, Progress
  <2> QED  BY <2>1, <2>2, <2>3, <2>4, OrderedSent
<1>5. ASSUME NEW p \in Phone, Expire(p) \/ \E s \in Server : Register(p, s)  PROVE Ordered'
  <2>1. UNCHANGED <<conf, affinity, invites, call, wire, forwarded>> /\ last' = NoLast
    BY <1>5, ElsewhereTypes DEF Elsewhere
  <2>2. OneAtATime'
    BY <2>1, <1>0 DEF Ordered, OneAtATime
  <2>3. Progress'
    BY <2>1, <1>0, <1>c DEF Ordered, Progress
  <2> QED  BY <2>2, <2>3 DEF Ordered
<1>6. ASSUME NEW p \in Phone, NEW s \in Server, ServerCalls(s, p)  PROVE Ordered'
  <2>1. PICK m \in RequestType : /\ Send(m) /\ m.from = s /\ m.method = "INVITE" /\ m.tagged = FALSE /\ m.trips = 0
                                 /\ m.key = sent + 1
    BY <1>6, ServerCallsTypes
  <2>2. Initial(m)
    BY <2>1 DEF Initial, Types
  <2>3. call.state = "idle" /\ call'.state = "inviting" /\ call'.byPhone = call.byPhone /\ call'.offeredTo = call.offeredTo
    BY <1>6, ServerCallsTypes
  <2>4. call.offeredTo = None /\ call'.byPhone = FALSE
    BY <2>3, CallFields DEF Ordered, Progress
  <2> QED  BY <2>1, <2>2, <2>3, <2>4, OrderedSent
<1>7. CASE Aging
  <2>1. /\ UNCHANGED <<conf, wire, forwarded>> /\ last' = NoLast
        /\ DOMAIN affinity' \subseteq DOMAIN affinity /\ DOMAIN invites' \subseteq DOMAIN invites
    BY <1>7, AgingTypes DEF PartOf
  <2>2. OneAtATime'
    BY <2>1, <1>0 DEF Ordered, OneAtATime
  <2>3. /\ call'.state = call.state /\ call'.server = call.server /\ call'.byPhone = call.byPhone
        /\ call'.invite = call.invite /\ call'.offeredTo = call.offeredTo
    BY <1>7, AgingTypes
  <2>4. Progress'
    BY <2>1, <2>3, <1>0, <1>c DEF Ordered, Progress, Initial
  <2> QED  BY <2>2, <2>4 DEF Ordered
<1>8. ASSUME NEW method \in Method, PhoneRequests(method) \/ ServerRequests(method)  PROVE Ordered'
  <2>1. PICK m \in RequestType : Send(m) /\ m.method = method /\ m.tagged = TRUE
    BY <1>8, PhoneRequestsTypes, ServerRequestsTypes
  <2>2. InDialog(m) /\ ~Initial(m)
    BY <2>1 DEF InDialog, Initial
  <2>3. UNCHANGED call /\ call.state = "up" /\ call.byPhone \in BOOLEAN
    BY <1>8, PhoneRequestsTypes, ServerRequestsTypes, CallFields
  <2>4. call.offeredTo # None /\ (call.byPhone => call.server = call.offeredTo)
    BY <2>3 DEF Ordered, Progress
  <2> QED  BY <2>1, <2>2, <2>3, <2>4, OrderedSent
<1>9. CASE Cancel
  <2>1. PICK m \in RequestType : /\ Send(m) /\ m.method = "CANCEL" /\ m.tagged = call.invite.tagged
                                 /\ m.trips = call.invite.trips /\ m.key = call.invite.key
                                 /\ m.from = call.invite.from
    BY <1>9, CancelTypes
  <2>2. UNCHANGED call /\ call.state = "inviting" /\ call.offeredTo # None /\ call.byPhone \in BOOLEAN
    BY <1>9, CancelTypes, CallFields
  <2>3. Cancels(m) /\ ~Initial(m)
    BY <2>1, <2>2 DEF Cancels, Initial, Ordered, Progress
  <2> QED  BY <2>1, <2>2, <2>3, OrderedSent
<1>10. CASE Answer
  <2>1. UNCHANGED <<conf, affinity, invites, wire, forwarded>> /\ last' = NoLast
    BY <1>10, AnswerTypes
  <2>2. OneAtATime'
    BY <2>1, <1>0 DEF Ordered, OneAtATime
  <2>3. /\ call.state = "inviting" /\ call'.state = "up" /\ call'.byPhone = call.byPhone
        /\ call'.offeredTo = call.offeredTo /\ (call'.byPhone => call'.server = call'.offeredTo)
        /\ call.offeredTo \in (IF call.byPhone THEN Server ELSE Phone)
    BY <1>10, AnswerTypes
  <2>4. call.offeredTo # None
    BY <2>3, Constants
  <2>5. Progress'
    BY <2>1, <2>3, <2>4, <1>0, <1>c DEF Ordered, Progress, Initial
  <2> QED  BY <2>2, <2>5 DEF Ordered
<1>11. CASE Bounce
  BY <1>11, OrderedBounce
<1>12. CASE UNCHANGED vars
  BY <1>12, <1>c DEF Ordered, OneAtATime, Progress, vars, tables
<1> QED  BY <1>1, <1>2, <1>3, <1>4, <1>5, <1>6, <1>7, <1>8, <1>9, <1>10, <1>11, <1>12, Actions

\* At the start nothing has happened.
LEMMA InitOrdered == Init => Ordered
BY NothingTyped, Constants DEF Init, Ordered, OneAtATime, Progress, NoCall, None

-----------------------------------------------------------------------------
(* A CANCEL follows its INVITE *)

\* A step that passes nothing on and remembers nothing.
LEMMA TransactionKept ==
    ASSUME Transaction, UNCHANGED <<forwarded, invites>>, call'.offeredTo = call.offeredTo,
           call'.inTime => call.inTime,
           \A m \in wire' : m \in wire \/ (call.inTime /\ Cancels(m) => Invited(m.key)),
           call'.state = "inviting" /\ call.offeredTo # None => call.state = "inviting" /\ call'.invite = call.invite
    PROVE  Transaction'
<1>1. \A k : Invited(k)' = Invited(k)
  BY DEF Invited
<1> QED  BY <1>1 DEF Transaction, Cancels, Invited

\* A request that is no CANCEL is sent.
LEMMA TransactionSent ==
    ASSUME Types, Ordered, Transaction, NEW m \in RequestType, Send(m), m.method # "CANCEL",
           call'.offeredTo = call.offeredTo, call'.inTime = call.inTime, UNCHANGED call \/ call.state = "idle"
    PROVE  Transaction'
<1>1. UNCHANGED <<forwarded, invites>> /\ wire' = {m}
  BY DEF Send, tables
<1>2. \A n \in wire' : ~Cancels(n)
  BY <1>1 DEF Cancels
<1>3. call'.state = "inviting" /\ call.offeredTo # None => call.state = "inviting" /\ call'.invite = call.invite
  BY DEF Ordered, Progress
<1> QED  BY <1>1, <1>2, <1>3, TransactionKept

\* A request is passed on.
LEMMA TransactionForward ==
    ASSUME Types, Ordered, Transaction, NEW m \in wire, m.hops # 0, NEW a \in Targets(m), NEW adv \in Resolved(a),
           NEW back \in Backs(m, a, adv), ForwardTo(m, a, adv, back)
    PROVE  Transaction' /\ CancelFollowsInvite'
<1>1. wire' = {} /\ (Opens(m) <=> Initial(m)) /\ (Opens(m) <=> call.offeredTo = None)
  BY OrderedForward
<1>2. /\ call'.state = call.state /\ call'.inTime = call.inTime
      /\ Opens(m) => call'.offeredTo = a /\ call'.invite = m
      /\ ~Opens(m) => call'.offeredTo = call.offeredTo /\ call'.invite = call.invite
  BY ForwardedCall
<1>3. PICK n : n = [keys |-> AffinityKeys(m), to |-> a, req |-> m]
  OBVIOUS
<1>4. n.to = a /\ n.req = m /\ forwarded' = forwarded \cup {n} /\ invites' = invites
  BY <1>3 DEF ForwardTo
<1>5. Initial(m) \/ Cancels(m) \/ InDialog(m) \/ Returned(m)
  BY DEF Ordered, OneAtATime
<1>6. m.method = "INVITE" /\ m.key # 0 => Opens(m)
  BY <1>1, <1>5 DEF Cancels, InDialog, Returned, Method
<1>7. Opens(m) => forwarded = {} /\ DOMAIN invites = {} /\ m.method = "INVITE"
  BY <1>1 DEF Ordered, Progress, Opens
<1>8. Transaction'
  <2>1. \A f \in forwarded' : f.req.method = "INVITE" /\ f.req.key # 0 => f.to = call'.offeredTo
    BY <1>2, <1>4, <1>6, <1>7 DEF Transaction
  <2>2. \A k \in DOMAIN invites' : k # 0 => invites'[k] = call'.offeredTo
    BY <1>2, <1>4, <1>7 DEF Transaction
  <2>3. call'.inTime /\ call'.state = "inviting" => Invited(call.invite.key)'
    BY <1>1, <1>2, <1>4, <1>7 DEF Transaction, Invited
  <2> QED  BY <1>1, <2>1, <2>2, <2>3 DEF Transaction
<1>9. CancelFollowsInvite'
  <2> SUFFICES ASSUME last'.req.method = "CANCEL", last'.req.trips = 1, last'.caughtUp, call'.inTime
               PROVE  last'.at = call'.offeredTo
    BY DEF CancelFollowsInvite
  <2>1. m.method = "CANCEL" /\ m.trips + 1 = 1 /\ forwarded = {} /\ last'.at = a
    BY ForwardedLast
  <2>2. Cancels(m) /\ m \in RequestType /\ ~Opens(m)
    <3>1. m \in RequestType /\ m.trips = 0
      BY <2>1, RequestFields DEF Types
    <3> QED  BY <1>5, <2>1, <3>1 DEF Initial, InDialog, Returned, Method, Opens
  <2>3. m.key \in DOMAIN invites /\ m.key # 0
    BY <1>2, <2>1, <2>2 DEF Transaction, Invited, Cancels
  <2>4. TransactionRoute(m) = {call.offeredTo}
    BY <2>1, <2>3 DEF TransactionRoute, Hit, Transaction
  <2>5. Candidates(m)[1] = {call.offeredTo} /\ Len(Candidates(m)) = 5
    BY <2>1, <2>4, CandidatesAre
  <2>6. call.offeredTo \in Server \/ ~IsOwn(call.offeredTo)
    BY <1>1, <2>2 DEF Ordered, Progress
  <2>7. PICK b : b = call.offeredTo
    OBVIOUS
  <2>8. Targets(m) = {b}
    BY <2>5, <2>6, <2>7, FirstOfMany
  <2> QED  BY <1>2, <2>1, <2>2, <2>7, <2>8
<1> QED  BY <1>8, <1>9

\* Every step keeps to the transaction.
LEMMA TransactionStep == Types /\ Ordered /\ Transaction /\ [Next]_vars => Transaction'
<1> SUFFICES ASSUME Types, Ordered, Transaction, [Next]_vars  PROVE Transaction'
  OBVIOUS
<1>1. ASSUME NEW m \in wire, NEW a \in Targets(m), NEW adv \in Resolved(a), NEW back \in Backs(m, a, adv),
             m.hops # 0, ForwardTo(m, a, adv, back)
      PROVE  Transaction'
  BY <1>1, TransactionForward
<1>2. ASSUME NEW m \in wire, TooManyHops(m)  PROVE Transaction'
  BY <1>2, TooManyHopsTypes, TransactionKept
<1>3. ASSUME NEW f \in forwarded, Remember(f)  PROVE Transaction'
  <2>1. /\ forwarded' = forwarded \ {f} /\ wire' = wire
        /\ invites' = IF f.req.method = "INVITE" THEN Put(invites, {f.req.key}, f.to) ELSE invites
    BY <1>3 DEF Remember
  <2>2. /\ call'.state = call.state /\ call'.invite = call.invite /\ call'.offeredTo = call.offeredTo
        /\ call'.inTime = call.inTime
    BY <1>3, RememberTypes
  <2>3. \A k \in DOMAIN invites' : \/ k \in DOMAIN invites /\ invites'[k] = invites[k]
                                   \/ f.req.method = "INVITE" /\ k = f.req.key /\ invites'[k] = f.to
    <3>1. CASE f.req.method = "INVITE"
      BY <2>1, <3>1 DEF Put
    <3>2. CASE f.req.method # "INVITE"
      BY <2>1, <3>2
    <3> QED  BY <3>1, <3>2
  <2>4. DOMAIN invites \subseteq DOMAIN invites' /\ (f.req.method = "INVITE" => f.req.key \in DOMAIN invites')
    BY <2>1 DEF Put
  <2>5. \A k : Invited(k) => Invited(k)'
    BY <2>1, <2>4 DEF Invited
  <2>6. \A k \in DOMAIN invites' : k # 0 => invites'[k] = call.offeredTo
    BY <2>3 DEF Transaction
  <2>7. call.inTime /\ call.state = "inviting" /\ call.offeredTo # None => Invited(call.invite.key)'
    <3>1. PICK k : k = call.invite.key
      OBVIOUS
    <3>2. call.inTime /\ call.state = "inviting" /\ call.offeredTo # None => Invited(k)'
      BY <2>5, <3>1 DEF Transaction
    <3> QED  BY <2>2, <3>1, <3>2 DEF Invited
  <2> QED  BY <2>1, <2>2, <2>5, <2>6, <2>7 DEF Transaction, Cancels
<1>4. ASSUME NEW p \in Phone, PhoneCalls(p)  PROVE Transaction'
  BY <1>4, PhoneCallsTypes, TransactionSent
<1>5. ASSUME NEW p \in Phone, Expire(p) \/ \E s \in Server : Register(p, s)  PROVE Transaction'
  BY <1>5, ElsewhereTypes, TransactionKept DEF Elsewhere
<1>6. ASSUME NEW p \in Phone, NEW s \in Server, ServerCalls(s, p)  PROVE Transaction'
  BY <1>6, ServerCallsTypes, TransactionSent
<1>7. CASE Aging
  <2>1. /\ UNCHANGED <<forwarded, wire>> /\ PartOf(invites', invites)
        /\ call'.state = call.state /\ call'.invite = call.invite /\ call'.offeredTo = call.offeredTo
        /\ call'.inTime => call.inTime /\ UNCHANGED invites
    BY <1>7, AgingTypes
  <2>2. CASE call'.inTime
    BY <2>1, <2>2, TransactionKept
  <2>3. CASE ~call'.inTime
    BY <2>1, <2>3 DEF Transaction, PartOf
  <2> QED  BY <2>2, <2>3
<1>8. ASSUME NEW method \in Method, PhoneRequests(method) \/ ServerRequests(method)  PROVE Transaction'
  <2>1. PICK m \in RequestType : Send(m) /\ m.method = method
    BY <1>8, PhoneRequestsTypes, ServerRequestsTypes
  <2>2. UNCHANGED call /\ m.method # "CANCEL"
    BY <1>8, <2>1, PhoneRequestsTypes, ServerRequestsTypes DEF Method
  <2> QED  BY <2>1, <2>2, TransactionSent
<1>9. CASE Cancel
  <2>1. PICK m \in RequestType : Send(m) /\ m.key = call.invite.key
    BY <1>9, CancelTypes
  <2>2. UNCHANGED call /\ call.state = "inviting" /\ call.offeredTo # None
    BY <1>9, CancelTypes
  <2>3. UNCHANGED <<forwarded, invites>> /\ wire' = {m}
    BY <2>1 DEF Send, tables
  <2>4. call.inTime => Invited(m.key)
    BY <2>1, <2>2 DEF Transaction
  <2> QED  BY <2>2, <2>3, <2>4, TransactionKept
<1>10. CASE Answer
  BY <1>10, AnswerTypes, TransactionKept
<1>11. CASE Bounce
  <2>1. PICK m \in RequestType : wire' = wire \cup {m} /\ m.key = 0
    BY <1>11, BounceTypes
  <2>2. UNCHANGED <<forwarded, invites, call>> /\ ~Cancels(m)
    BY <1>11, <2>1, BounceTypes DEF Cancels
  <2> QED  BY <2>1, <2>2, TransactionKept
<1>12. CASE UNCHANGED vars
  BY <1>12, TransactionKept DEF vars, tables
<1> QED  BY <1>1, <1>2, <1>3, <1>4, <1>5, <1>6, <1>7, <1>8, <1>9, <1>10, <1>11, <1>12, Actions

\* A CANCEL goes where its INVITE went, although the device has registered elsewhere or
\* the health of servers has changed since: prepare_forward looks at
\* invite_transactions first, as long as the INVITE's entry has not expired.
THEOREM CancelReachesItsInvite == Spec => []CancelFollowsInvite
<1> DEFINE Inv == Types /\ Ordered /\ Transaction /\ CancelFollowsInvite
<1>1. Init => Inv
  <2>1. Init => Transaction /\ CancelFollowsInvite
    BY NothingTyped DEF Init, Transaction, CancelFollowsInvite, NoCall
  <2> QED  BY <2>1, InitTypes, InitOrdered
<1>2. Inv /\ [Next]_vars => Inv'
  <2> SUFFICES ASSUME Types, Ordered, Transaction, CancelFollowsInvite, [Next]_vars  PROVE CancelFollowsInvite'
    BY TypesStep, OrderedStep, TransactionStep
  <2>1. CASE NothingForwarded
    BY <2>1, NothingTyped DEF NothingForwarded, CancelFollowsInvite
  <2> QED  BY <2>1, QuietUnlessForwarded, TransactionForward
<1> QED  BY <1>1, <1>2, PTL DEF Spec

-----------------------------------------------------------------------------
(* Each side has its Route *)

\* What a call is, once it is up.
Ends == <<call.state, call.phone, call.server, call.byPhone, call.phoneRoutes, call.serverRoutes, call.halved>>

\* It is only opened and answered.
LEMMA CallSteps ==
    ASSUME Types, [Next]_vars
    PROVE  \/ \E m \in wire : \E a \in Targets(m) : \E adv \in Resolved(a) : \E back \in Backs(m, a, adv) :
                 m.hops # 0 /\ ForwardTo(m, a, adv, back)
           \/ Answer
           \/ NothingForwarded /\ call.state = "idle" /\ call'.state = "inviting"
           \/ NothingForwarded /\ Ends' = Ends
<1> DEFINE Goal == (call.state = "idle" /\ call'.state = "inviting") \/ Answer \/ Ends' = Ends
                   \/ \E m \in wire : \E a \in Targets(m) : \E adv \in Resolved(a) : \E back \in Backs(m, a, adv) :
                 m.hops # 0 /\ ForwardTo(m, a, adv, back)
<1>1. CASE Next
  <2>1. ASSUME NEW f \in forwarded, Remember(f)  PROVE Ends' = Ends
    BY <2>1, RememberTypes DEF Ends
  <2>2. ASSUME Aging  PROVE Ends' = Ends
    BY <2>2, AgingTypes DEF Ends
  <2>3. UNCHANGED call => Ends' = Ends
    BY DEF Ends
  <2>4. ASSUME NEW p \in Phone, PhoneCalls(p) \/ \E s \in Server : ServerCalls(s, p)
        PROVE  call.state = "idle" /\ call'.state = "inviting"
    BY <2>4, PhoneCallsTypes, ServerCallsTypes
  <2>5. ASSUME NEW p \in Phone, Expire(p) \/ \E s \in Server : Register(p, s)  PROVE UNCHANGED call
    BY <2>5, ElsewhereTypes DEF Elsewhere
  <2>6. Goal
    BY <1>1, <2>1, <2>2, <2>3, <2>4, <2>5, Actions, TooManyHopsTypes, PhoneRequestsTypes, ServerRequestsTypes,
       CancelTypes, BounceTypes
  <2> QED  BY <2>6, QuietUnlessForwarded
<1>2. CASE UNCHANGED vars
  <2>1. Ends' = Ends
    BY <1>2 DEF vars, Ends
  <2> QED  BY <2>1, QuietUnlessForwarded
<1> QED  BY <1>1, <1>2

\* The Record-Route of a request that leads from a phone to a server, and the other
\* way: the next hop's side first.
Outside == {"pub", "name", "moved"}
ToServer(offer) == \E r \in Outside : offer = <<InternalAddr, r>>
ToPhone(offer)  == \E r \in Outside : offer = <<r, InternalAddr>>
RoutesOf(c) ==
    /\ c.phoneRoutes[1] \in Outside \/ (c.byPhone /\ c.halved)
    /\ c.serverRoutes[1] = InternalAddr \/ (~c.byPhone /\ c.halved)
SidesOf(c) ==
    /\ c.byPhone /\ c.offeredTo \in Server => ToServer(c.offer)
    /\ ~c.byPhone /\ c.offeredTo \in Phone => ToPhone(c.offer)
    /\ c.state = "up" => RoutesOf(c)
Sides == conf.recordRoute /\ conf.public # "none" /\ faults = 0 => SidesOf(call)

\* The internal address is one of the proxy's own, and the configuration's.
LEMMA InternalIsOwn == InternalAddr \in Own /\ (UNCHANGED conf => InternalAddr' = InternalAddr)
BY DEF InternalAddr, Own

\* What holds of a call does so after a step that leaves the configuration alone.
LEMMA SidesRigid ==
    ASSUME UNCHANGED conf, NEW c, NEW d, SidesOf(c), d = call',
           d.byPhone = c.byPhone, d.offeredTo = c.offeredTo, d.offer = c.offer, d.state = c.state,
           d.phoneRoutes = c.phoneRoutes, d.serverRoutes = c.serverRoutes, d.halved = c.halved
    PROVE  SidesOf(call)'
<1>1. InternalAddr' = InternalAddr
  BY InternalIsOwn
<1> QED  BY <1>1 DEF SidesOf, RoutesOf, ToServer, ToPhone

\* The ends of such a Record-Route.
LEMMA SideEnds ==
    ASSUME NEW offer
    PROVE  /\ ToServer(offer) => offer[1] = InternalAddr /\ Reverse(offer)[1] \in Outside
           /\ ToPhone(offer) => offer[1] \in Outside /\ Reverse(offer)[1] = InternalAddr
<1>1. ASSUME NEW r \in Own, NEW s \in Own, offer = <<r, s>>
      PROVE  offer[1] = r /\ Reverse(offer)[1] = s
  <2>1. offer \in Offers(Own)
    BY <1>1 DEF Offers
  <2>2. offer[1] = r
    BY <1>1
  <2> QED  BY <1>1, <2>1, <2>2, ReversedOffer
<1>2. InternalAddr \in Own /\ Outside \subseteq Own
  BY InternalIsOwn DEF Outside, Own
<1> QED  BY <1>1, <1>2 DEF ToServer, ToPhone

\* The INVITE is passed on.
LEMMA SidesForward ==
    ASSUME Types, Ordered, Advertised, Sides, NEW m \in wire, m.hops # 0, NEW a \in Targets(m),
           NEW adv \in Resolved(a), NEW back \in Backs(m, a, adv), ForwardTo(m, a, adv, back)
    PROVE  Sides'
<1>0. UNCHANGED conf /\ InternalAddr' = InternalAddr
  BY InternalIsOwn DEF ForwardTo
<1> SUFFICES ASSUME conf.recordRoute, conf.public # "none", faults' = 0  PROVE SidesOf(call)'
  BY <1>0 DEF Sides
<1>1. faults = 0 /\ \A side \in Side : adv[side] \in Told(side, a)
  BY AdvertisedIs
<1>2. adv["internal"] = InternalAddr /\ adv["public"] \in Outside
  BY <1>1 DEF Told, Side, Outside
<1>3. (Opens(m) <=> Initial(m)) /\ (Opens(m) <=> call.offeredTo = None)
  BY OrderedForward
<1>4. CASE Opens(m)
  <2>1. call'.offeredTo = a /\ call'.offer = RecordRoute(m, a, adv) /\ call'.byPhone = call.byPhone
        /\ call'.state = call.state
    BY <1>4, ForwardedCall
  <2>2. call.state # "up" /\ (IF call.byPhone THEN m.from \in Phone ELSE m.from \in Server)
    BY <1>3, <1>4 DEF Ordered, Progress
  <2>3. RecordRoute(m, a, adv) = RecordRouteAddrs(m.from, a, adv)
    BY <1>4 DEF RecordRoute, Opens
  <2>4. /\ m.from \notin Server /\ a \in Server =>
              RecordRouteAddrs(m.from, a, adv) = <<adv["internal"], adv["public"]>>
        /\ m.from \in Server /\ a \notin Server =>
              RecordRouteAddrs(m.from, a, adv) = <<adv["public"], adv["internal"]>>
    BY DEF RecordRouteAddrs
  <2>5. call.byPhone /\ a \in Server => ToServer(call'.offer)
    <3>1. call.byPhone /\ a \in Server => call'.offer = <<InternalAddr, adv["public"]>>
      BY <1>2, <2>1, <2>2, <2>3, <2>4, Constants
    <3> QED  BY <1>2, <3>1 DEF ToServer
  <2>6. ~call.byPhone /\ a \in Phone => ToPhone(call'.offer)
    <3>1. ~call.byPhone /\ a \in Phone => call'.offer = <<adv["public"], InternalAddr>>
      BY <1>2, <2>1, <2>2, <2>3, <2>4, Constants
    <3> QED  BY <1>2, <3>1 DEF ToPhone
  <2> QED  BY <1>0, <2>1, <2>2, <2>5, <2>6 DEF SidesOf, ToServer, ToPhone
<1>5. CASE ~Opens(m)
  <2>1. /\ call'.offeredTo = call.offeredTo /\ call'.offer = call.offer /\ call'.byPhone = call.byPhone
        /\ call'.state = call.state /\ call'.phoneRoutes = call.phoneRoutes
        /\ call'.serverRoutes = call.serverRoutes /\ call'.halved = call.halved
    BY <1>5, ForwardedCall
  <2>2. SidesOf(call)
    BY <1>1 DEF Sides
  <2> QED  BY <1>0, <2>1, <2>2, SidesRigid
<1> QED  BY <1>4, <1>5

\* Every step.
LEMMA SidesStep == Types /\ Ordered /\ Advertised /\ Sides /\ [Next]_vars => Sides'
<1> SUFFICES ASSUME Types, Ordered, Advertised, Sides, [Next]_vars  PROVE Sides'
  OBVIOUS
<1>1. CASE Answer
  <2>1. /\ call.state = "inviting" /\ call.offeredTo \in (IF call.byPhone THEN Server ELSE Phone)
        /\ UNCHANGED <<conf, faults>> /\ call'.byPhone = call.byPhone
        /\ call'.offeredTo = call.offeredTo /\ call'.offer = call.offer
        /\ call.byPhone => /\ call'.halved \/ call'.phoneRoutes = Reverse(call.offer)
                           /\ call'.serverRoutes = call.offer
        /\ ~call.byPhone => /\ call'.phoneRoutes = call.offer
                            /\ call'.halved \/ call'.serverRoutes = Reverse(call.offer)
    BY <1>1, AnswerTypes
  <2>2. InternalAddr' = InternalAddr
    BY <2>1, InternalIsOwn
  <2> SUFFICES ASSUME conf.recordRoute, conf.public # "none", faults = 0  PROVE SidesOf(call)'
    BY <2>1 DEF Sides
  <2>3. (call.byPhone /\ ToServer(call.offer)) \/ (~call.byPhone /\ ToPhone(call.offer))
    BY <2>1 DEF Sides, SidesOf
  <2>4. PICK offer : offer = call.offer
    OBVIOUS
  <2>5. RoutesOf(call)'
    BY <2>1, <2>2, <2>3, <2>4, SideEnds DEF RoutesOf
  <2> QED  BY <2>1, <2>2, <2>3, <2>5 DEF SidesOf, ToServer, ToPhone
<1>2. CASE NothingForwarded /\ call.state = "idle" /\ call'.state = "inviting"
  <2>1. call'.offeredTo = None
    BY <1>2 DEF NothingForwarded, Ordered, Progress
  <2> QED  BY <1>2, <2>1, Constants DEF Sides, SidesOf
<1>3. CASE NothingForwarded /\ Ends' = Ends
  <2> SUFFICES ASSUME conf'.recordRoute, conf'.public # "none", faults' = 0  PROVE SidesOf(call)'
    BY DEF Sides
  <2>1. faults = 0 /\ UNCHANGED conf
    BY <1>3, NoFaultBefore DEF NothingForwarded
  <2>2. SidesOf(call)
    BY <2>1 DEF Sides
  <2>3. /\ call'.offeredTo = call.offeredTo /\ call'.offer = call.offer /\ call'.byPhone = call.byPhone
        /\ call'.state = call.state /\ call'.phoneRoutes = call.phoneRoutes
        /\ call'.serverRoutes = call.serverRoutes /\ call'.halved = call.halved
    BY <1>3 DEF NothingForwarded, Ends
  <2> QED  BY <2>1, <2>2, <2>3, SidesRigid
<1> QED  BY <1>1, <1>2, <1>3, CallSteps, SidesForward

\* Each end of an answered call has the proxy's address of its own side as its Route,
\* whoever called and if the 2xx brought back all, nothing or the caller's half of the
\* Record-Route: record_route_addrs puts the next hop's side first, and
\* ensure_dialog_record_routes puts what is missing on top.  If only the second of two
\* addresses is missing it comes before the first, and the caller has the wrong one.
THEOREM RoutesFitTheirSides == Spec => []EachSideHasItsRoute
<1> DEFINE Inv == Types /\ Ordered /\ Advertised /\ Sides
<1>1. Init => Inv
  <2>1. Init => Advertised /\ Sides
    BY Constants DEF Init, Advertised, Sides, SidesOf, NoCall
  <2> QED  BY <2>1, InitTypes, InitOrdered
<1>2. Inv /\ [Next]_vars => Inv'
  BY TypesStep, OrderedStep, AdvertisedStep, SidesStep
<1>3. Inv => EachSideHasItsRoute
  BY DEF Sides, SidesOf, RoutesOf, Outside, EachSideHasItsRoute
<1> QED  BY <1>1, <1>2, <1>3, PTL DEF Spec

-----------------------------------------------------------------------------
(* A server's requests reach the phone *)

\* A request within the call, and the ones of servers name the call's phone.
Fits(m) ==
    m.tagged => /\ call.state = "up" /\ m.method \in Method /\ m.from \in Phone \cup Server
                /\ m.from \in Server => m.uri = Uri("contact", call.phone) /\ m.to = AorOf[call.phone]
Dialog == Fits(last.req) /\ \A m \in wire : Fits(m)

\* A request is sent.
LEMMA DialogSent ==
    ASSUME NEW m, Send(m), Fits(m)'
    PROVE  Dialog'
<1>1. wire' = {m} /\ last' = NoLast
  BY DEF Send
<1> QED  BY <1>1, NothingTyped DEF Dialog, Fits

\* Every step.
LEMMA DialogStep == Types /\ Ordered /\ Dialog /\ [Next]_vars => Dialog'
<1> SUFFICES ASSUME Types, Ordered, Dialog, [Next]_vars  PROVE Dialog'
  OBVIOUS
<1>1. ASSUME NEW m \in wire, NEW a \in Targets(m), NEW adv \in Resolved(a), NEW back \in Backs(m, a, adv),
             m.hops # 0, ForwardTo(m, a, adv, back)
      PROVE  Dialog'
  <2>1. wire' = {} /\ call'.state = call.state /\ call'.phone = call.phone
    BY <1>1, OrderedForward, ForwardedCall
  <2>2. /\ last'.req.from = m.from /\ last'.req.method = m.method /\ last'.req.tagged = m.tagged
        /\ last'.req.uri = m.uri /\ last'.req.to = m.to
    BY <1>1, ForwardedLast
  <2> QED  BY <2>1, <2>2 DEF Dialog, Fits
<1>2. ASSUME NEW m \in wire, TooManyHops(m)  PROVE Dialog'
  BY <1>2, TooManyHopsTypes DEF Dialog, Fits
<1>3. ASSUME NEW f \in forwarded, Remember(f)  PROVE Dialog'
  <2>1. UNCHANGED <<wire, last>> /\ call'.state = call.state /\ call'.phone = call.phone
    BY <1>3, RememberTypes DEF Remember
  <2> QED  BY <2>1 DEF Dialog, Fits
<1>4. ASSUME NEW p \in Phone, PhoneCalls(p) \/ \E s \in Server : ServerCalls(s, p)  PROVE Dialog'
  <2>1. PICK m \in RequestType : Send(m) /\ m.tagged = FALSE
    BY <1>4, PhoneCallsTypes, ServerCallsTypes
  <2> QED  BY <2>1, DialogSent DEF Fits
<1>5. ASSUME NEW p \in Phone, Expire(p) \/ \E s \in Server : Register(p, s)  PROVE Dialog'
  <2>1. UNCHANGED <<call, wire>> /\ last' = NoLast
    BY <1>5, ElsewhereTypes DEF Elsewhere
  <2> QED  BY <2>1, NothingTyped DEF Dialog, Fits
<1>6. CASE Aging
  <2>1. UNCHANGED wire /\ last' = NoLast /\ call'.state = call.state /\ call'.phone = call.phone
    BY <1>6, AgingTypes
  <2> QED  BY <2>1, NothingTyped DEF Dialog, Fits
<1>7. ASSUME NEW method \in Method, PhoneRequests(method)  PROVE Dialog'
  <2>1. PICK m \in RequestType : Send(m) /\ m.from = call.phone /\ m.method = method
    BY <1>7, PhoneRequestsTypes
  <2>2. UNCHANGED call /\ call.state = "up"
    BY <1>7, PhoneRequestsTypes
  <2>3. m.from \in Phone /\ m.from \notin Server
    BY <2>1, <2>2, Constants DEF Types
  <2> QED  BY <2>1, <2>2, <2>3, DialogSent DEF Fits
<1>8. ASSUME NEW method \in Method, ServerRequests(method)  PROVE Dialog'
  <2>1. PICK m \in RequestType : /\ Send(m) /\ m.method = method /\ m.from = call.server
                                 /\ m.uri = Uri("contact", call.phone) /\ m.to = AorOf[call.phone]
    BY <1>8, ServerRequestsTypes
  <2>2. UNCHANGED call /\ call.state = "up" /\ call.server \in Server
    BY <1>8, ServerRequestsTypes DEF Types
  <2> QED  BY <2>1, <2>2, DialogSent DEF Fits
<1>9. CASE Cancel
  <2>1. PICK m \in RequestType : Send(m) /\ m.tagged = call.invite.tagged
    BY <1>9, CancelTypes
  <2>2. ~m.tagged
    BY <1>9, <2>1, CancelTypes DEF Ordered, Progress, Initial
  <2> QED  BY <2>1, <2>2, DialogSent DEF Fits
<1>10. CASE Answer
  <2>1. UNCHANGED wire /\ last' = NoLast /\ call.state = "inviting"
    BY <1>10, AnswerTypes
  <2> QED  BY <2>1, NothingTyped DEF Dialog, Fits
<1>11. CASE Bounce
  <2>1. PICK m \in RequestType : /\ wire' = wire \cup {m} /\ m.from = last.at /\ m.method = last.req.method
                                 /\ m.tagged = last.req.tagged /\ m.uri = last.req.uri /\ m.to = last.req.to
    BY <1>11, BounceTypes
  <2>2. UNCHANGED call /\ last' = NoLast /\ last.req.from \in Server /\ last.at \in Server
    BY <1>11, BounceTypes
  <2> QED  BY <2>1, <2>2, NothingTyped DEF Dialog, Fits
<1>12. CASE UNCHANGED vars
  BY <1>12 DEF Dialog, Fits, vars
<1> QED  BY <1>1, <1>2, <1>3, <1>4, <1>5, <1>6, <1>7, <1>8, <1>9, <1>10, <1>11, <1>12, Actions

\* A server's request within the call is passed on.
LEMMA ReachedForward ==
    ASSUME Types, Ordered, Dialog, NEW m \in wire, m.hops # 0, NEW a \in Targets(m), NEW adv \in Resolved(a),
           NEW back \in Backs(m, a, adv), ForwardTo(m, a, adv, back)
    PROVE  PhoneIsReached'
<1>1. /\ last'.at = a /\ last'.bound = Bound(m) /\ last'.req.from = m.from /\ last'.req.method = m.method
      /\ last'.req.tagged = m.tagged
  BY ForwardedLast
<1>2. call'.phone = call.phone /\ call'.server = call.server /\ UNCHANGED conf
  BY ForwardedCall DEF ForwardTo
<1> SUFFICES ASSUME m.from = call.server, m.tagged, Bound(m) \in {call.phone, None},
                    \/ ContactAddr(call.phone) = call.phone
                    \/ Bound(m) = call.phone /\ TransportOf(call.phone) = "udp" /\ m.method # "ACK"
             PROVE  a = call.phone
  BY <1>1, <1>2 DEF PhoneIsReached, ReachableAtContact, ReachableAtSource, ContactAddr, TransportOf
<1>3. PICK p : p = call.phone
  OBVIOUS
<1>4. /\ call.state = "up" /\ m.method \in Method /\ p \in Phone /\ m.from \in Server
      /\ m.uri = Uri("contact", p) /\ m.to = AorOf[p]
  BY <1>3 DEF Dialog, Fits, Types
<1>5. ~IsOwn(p) /\ p \notin Server /\ p # None
  <2>1. conf.local \subseteq {"pub", "int"}
    BY ConfFacts DEF Types
  <2> QED  BY <1>4, <2>1, Constants DEF IsOwn
<1>6. ContactAddr(p) = p => Direct(m) = {p}
  <2>1. ContactAddr(p) = p => UriAddr(m.uri) = p
    BY <1>4 DEF UriAddr, Uri
  <2> QED  BY <1>4, <1>5, <2>1 DEF Direct, Only, FromUpstream
<1>7. Bound(m) = p /\ (ContactAddr(p) = p \/ TransportOf(p) = "udp") => Location(m) = {p}
  BY <1>4, <1>5 DEF Location, TargetOf, FromUpstream
<1>8. Bound(m) = None => Location(m) = {}
  BY DEF Location
<1>9. ~(m.method = "ACK" /\ Direct(m) = {}) => TransactionRoute(m) = {}
  BY <1>4 DEF TransactionRoute, Method
<1>10. CASE m.method = "ACK"
  <2>1. Direct(m) = {p}
    BY <1>3, <1>6, <1>10
  <2>2. Len(Candidates(m)) = 1 /\ Candidates(m)[1] = {p}
    BY <1>10, <2>1, CandidatesAre
  <2>3. Targets(m) = {p}
    BY <1>5, <2>2, FirstOfMany
  <2> QED  BY <1>3, <2>3
<1>11. CASE m.method # "ACK"
  <2>1. /\ Len(Candidates(m)) = 5 /\ Candidates(m)[1] = {} /\ Candidates(m)[2] = Location(m)
        /\ Candidates(m)[3] = Direct(m)
    BY <1>9, <1>11, CandidatesAre
  <2>2. CASE Bound(m) = p
    <3>1. Location(m) = {p}
      BY <1>3, <1>7, <2>2
    <3>2. Targets(m) = {p}
      BY <1>5, <2>1, <3>1, FirstOfMany
    <3> QED  BY <1>3, <3>2
  <2>3. CASE Bound(m) = None
    <3>1. Location(m) = {} /\ Direct(m) = {p}
      BY <1>3, <1>5, <1>6, <1>8, <2>3
    <3>2. Targets(m) = {p}
      BY <1>5, <2>1, <3>1, FirstOfMany
    <3> QED  BY <1>3, <3>2
  <2> QED  BY <1>3, <2>2, <2>3
<1> QED  BY <1>10, <1>11

\* A server's requests within a call reach the call's phone if its address of record
\* leads to it or to nobody, wherever the request has been before: at its Contact, or
\* behind a NAT at the address it registered from.
THEOREM ServerReachesPhone == Spec => []PhoneIsReached
<1> DEFINE Inv == Types /\ Ordered /\ Dialog /\ PhoneIsReached
<1>1. Init => Inv
  <2>1. Init => Dialog /\ PhoneIsReached
    BY NothingTyped DEF Init, Dialog, Fits, PhoneIsReached
  <2> QED  BY <2>1, InitTypes, InitOrdered
<1>2. Inv /\ [Next]_vars => Inv'
  <2> SUFFICES ASSUME Types, Ordered, Dialog, PhoneIsReached, [Next]_vars  PROVE PhoneIsReached'
    BY TypesStep, OrderedStep, DialogStep
  <2>1. CASE Answer
    <3>1. last' = NoLast
      BY <2>1, AnswerTypes
    <3> QED  BY <3>1, NothingTyped DEF PhoneIsReached
  <2>2. CASE NothingForwarded /\ call.state = "idle" /\ call'.state = "inviting"
    <3>1. last'.req.tagged = FALSE \/ ~last'.req.tagged
      BY <2>2, NothingTyped DEF NothingForwarded, Dialog, Fits
    <3> QED  BY <3>1 DEF PhoneIsReached
  <2>3. CASE NothingForwarded /\ Ends' = Ends
    <3>1. call'.phone = call.phone /\ call'.server = call.server /\ UNCHANGED conf
          /\ (last' = last \/ last' = NoLast)
      BY <2>3 DEF NothingForwarded, Ends
    <3> QED  BY <3>1, NothingTyped DEF PhoneIsReached, ReachableAtContact, ReachableAtSource, ContactAddr, TransportOf
  <2> QED  BY <2>1, <2>2, <2>3, CallSteps, ReachedForward
<1> QED  BY <1>1, <1>2, PTL DEF Spec

-----------------------------------------------------------------------------
(* A phone's requests stay with the server of its call *)

\* The transaction of a phone's request within the call is no INVITE's.
Fresh ==
    /\ \A k \in DOMAIN invites : k \in Nat /\ k <= sent
    /\ \A f \in forwarded : f.req.key <= sent
    /\ \A m \in wire : m.key <= sent
    /\ call.invite.key <= sent
    /\ \A m \in wire : m.tagged /\ m.from \in Phone => ~Invited(m.key)

\* A request is sent under a new key, or the INVITE's.
LEMMA FreshSent ==
    ASSUME Types, Fresh, NEW m \in RequestType, Send(m), m.key = sent + 1 \/ (m.key = call.invite.key /\ ~m.tagged),
           call'.invite = call.invite
    PROVE  Fresh'
<1>1. UNCHANGED <<forwarded, invites>> /\ wire' = {m} /\ sent' = sent + 1
  BY DEF Send, tables
<1>2. sent \in Nat /\ m.key \in Nat /\ call.invite.key \in Nat
  BY RequestFields, CallFields DEF Types
<1>3. \A f \in forwarded : f.req.key \in Nat
  BY RequestFields DEF Types
<1>4. m.key = sent + 1 => ~Invited(m.key)
  BY <1>2, <1>3 DEF Invited, Fresh
<1>5. m.tagged => ~Invited(m.key)'
  BY <1>1, <1>4 DEF Invited
<1> QED  BY <1>1, <1>2, <1>3, <1>5 DEF Fresh

\* Every step.
LEMMA FreshStep == Types /\ Ordered /\ Fresh /\ [Next]_vars => Fresh'
<1> SUFFICES ASSUME Types, Ordered, Fresh, [Next]_vars  PROVE Fresh'
  OBVIOUS
<1>0. sent \in Nat
  BY DEF Types
<1>1. ASSUME NEW m \in wire, NEW a \in Targets(m), NEW adv \in Resolved(a), NEW back \in Backs(m, a, adv),
             m.hops # 0, ForwardTo(m, a, adv, back)
      PROVE  Fresh'
  <2>1. wire' = {} /\ sent' = sent /\ invites' = invites
    BY <1>1, OrderedForward DEF ForwardTo
  <2>2. PICK n : n = [keys |-> AffinityKeys(m), to |-> a, req |-> m]
    OBVIOUS
  <2>3. n.req = m /\ forwarded' = forwarded \cup {n}
    BY <1>1, <2>2 DEF ForwardTo
  <2>4. call'.invite = m \/ call'.invite = call.invite
    BY <1>1, ForwardedCall
  <2> QED  BY <2>1, <2>3, <2>4 DEF Fresh
<1>2. ASSUME NEW m \in wire, TooManyHops(m)  PROVE Fresh'
  <2>1. wire' \subseteq wire /\ UNCHANGED <<invites, forwarded, sent, call>>
    BY <1>2, TooManyHopsTypes
  <2> QED  BY <2>1 DEF Fresh, Invited
<1>3. ASSUME NEW f \in forwarded, Remember(f)  PROVE Fresh'
  <2>1. /\ forwarded' = forwarded \ {f} /\ wire' = wire /\ sent' = sent
        /\ invites' = IF f.req.method = "INVITE" THEN Put(invites, {f.req.key}, f.to) ELSE invites
    BY <1>3 DEF Remember, bounds
  <2>2. call'.invite = call.invite /\ f.req.key \in Nat
    BY <1>3, RememberTypes, RequestFields DEF Types
  <2>3. \A k \in DOMAIN invites' : k \in DOMAIN invites \/ (f.req.method = "INVITE" /\ k = f.req.key)
    BY <2>1 DEF Put
  <2>4. \A k : Invited(k)' => Invited(k)
    BY <2>1, <2>3 DEF Invited
  <2> QED  BY <2>1, <2>2, <2>3, <2>4 DEF Fresh
<1>4. ASSUME NEW p \in Phone, PhoneCalls(p)  PROVE Fresh'
  BY <1>4, PhoneCallsTypes, FreshSent
<1>5. ASSUME NEW p \in Phone, Expire(p) \/ \E s \in Server : Register(p, s)  PROVE Fresh'
  <2>1. UNCHANGED <<invites, forwarded, sent, call, wire>>
    BY <1>5, ElsewhereTypes DEF Elsewhere
  <2> QED  BY <2>1 DEF Fresh, Invited
<1>6. ASSUME NEW p \in Phone, NEW s \in Server, ServerCalls(s, p)  PROVE Fresh'
  BY <1>6, ServerCallsTypes, FreshSent
<1>7. CASE Aging
  <2>1. /\ UNCHANGED <<forwarded, sent, wire>> /\ call'.invite = call.invite
        /\ DOMAIN invites' \subseteq DOMAIN invites
    BY <1>7, AgingTypes DEF PartOf
  <2> QED  BY <2>1 DEF Fresh, Invited
<1>8. ASSUME NEW method \in Method, PhoneRequests(method)  PROVE Fresh'
  BY <1>8, PhoneRequestsTypes, FreshSent
<1>9. ASSUME NEW method \in Method, ServerRequests(method)  PROVE Fresh'
  BY <1>9, ServerRequestsTypes, FreshSent
<1>10. CASE Cancel
  <2>1. PICK m \in RequestType : Send(m) /\ m.tagged = call.invite.tagged /\ m.key = call.invite.key
    BY <1>10, CancelTypes
  <2>2. ~m.tagged /\ UNCHANGED call
    BY <1>10, <2>1, CancelTypes DEF Ordered, Progress, Initial
  <2> QED  BY <2>1, <2>2, FreshSent
<1>11. CASE Answer
  <2>1. UNCHANGED <<invites, forwarded, sent, wire>> /\ call'.invite = NoRequest
    BY <1>11, AnswerTypes
  <2> QED  BY <2>1, <1>0, NothingTyped DEF Fresh, Invited
<1>12. CASE Bounce
  <2>1. PICK m \in RequestType : wire' = wire \cup {m} /\ m.from = last.at /\ m.key = 0
    BY <1>12, BounceTypes
  <2>2. UNCHANGED <<invites, forwarded, sent, call>> /\ m.from \notin Phone
    BY <1>12, <2>1, BounceTypes, Constants
  <2> QED  BY <2>1, <2>2, <1>0 DEF Fresh, Invited
<1>13. CASE UNCHANGED vars
  BY <1>13 DEF Fresh, Invited, vars, tables, bounds
<1> QED  BY <1>1, <1>2, <1>3, <1>4, <1>5, <1>6, <1>7, <1>8, <1>9, <1>10, <1>11, <1>12, <1>13, Actions

\* The state keeps the shape TypeOK gives it: what the tables lead to is a phone, a
\* server or an address nobody has, and the counters of requests stay within their
\* bounds.
THEOREM TypeCorrect == Spec => []TypeOK
<1> DEFINE Inv == Types /\ Ordered /\ Fresh
<1>1. Init => Inv
  <2>1. Init => Fresh
    BY NothingTyped DEF Init, Fresh, NoCall
  <2> QED  BY <2>1, InitTypes, InitOrdered
<1>2. Inv /\ [Next]_vars => Inv'
  BY TypesStep, OrderedStep, FreshStep
<1>3. Inv => TypeOK
  <2> SUFFICES ASSUME Types, Fresh  PROVE TypeOK
    OBVIOUS
  <2>1. \A a \in DOMAIN advertised : advertised[a] \in [Side -> Own]
    BY DEF Types, Known
  <2>2. \A m \in wire : m.hops \in Absent..MaxHops /\ m.key \in 0..MaxSent
    <3> SUFFICES ASSUME NEW m \in wire  PROVE m.hops \in Absent..MaxHops /\ m.key \in 0..MaxSent
      OBVIOUS
    <3>1. m.hops \in -1..MaxHops /\ m.key \in Nat /\ m.key <= sent /\ sent \in 0..MaxSent
      BY RequestFields DEF Types, Fresh
    <3> QED  BY <3>1, Constants DEF Absent
  <2>3. last.at \in Phone \cup Server \cup {"lost", None} \cup Own /\ call.state \in {"idle", "inviting", "up"}
    BY LastFields, CallFields DEF Target
  <2> QED  BY <2>1, <2>2, <2>3 DEF TypeOK, Types, Target
<1> QED  BY <1>1, <1>2, <1>3, PTL DEF Spec

\* As long as the call is outgoing and steady, its keys lead to the server its INVITE
\* went to, now or as soon as what has been passed on is remembered.
Leads ==
    /\ call.offeredTo # None /\ call.byPhone => call.offeredTo \in Server
    /\ \A k \in DOMAIN affinity : affinity[k] = call.offeredTo
    /\ \A f \in forwarded : f.req.method # "OPTIONS" /\ ~FromUpstream(f.req) => f.to = call.offeredTo
    /\ call.offeredTo # None => <<"call">> \in DOMAIN affinity \/ \E f \in forwarded : Opens(f.req)
    /\ call.offeredTo # None /\ ~call.byPhone => \E f \in forwarded : Opens(f.req) /\ FromUpstream(f.req)
Bindings ==
    /\ call.steady => healthy = Server
    /\ conf.strategy # "request-uri" /\ call.steady /\ call.outgoing => Leads

\* Every step but these two leaves the bindings alone.
LEMMA BindingsKept ==
    ASSUME Types, Ordered, Bindings, [Next]_vars
    PROVE  \/ \E m \in wire : \E a \in Targets(m) : \E adv \in Resolved(a) : \E back \in Backs(m, a, adv) :
                 m.hops # 0 /\ ForwardTo(m, a, adv, back)
           \/ \E f \in forwarded : Remember(f)
           \/ Bindings'
<1>1. ASSUME UNCHANGED <<conf, healthy, forwarded, affinity>>, call'.offeredTo = call.offeredTo,
             call.offeredTo # None => call'.byPhone = call.byPhone,
             call'.steady = call.steady, call'.outgoing = call.outgoing
      PROVE  Bindings'
  BY <1>1 DEF Bindings, Leads, Opens, FromUpstream
<1>2. ASSUME NEW m \in RequestType, Send(m)  PROVE UNCHANGED <<conf, healthy, forwarded, affinity>>
  BY <1>2 DEF Send, tables
<1>3. ASSUME NEW m \in wire, TooManyHops(m)  PROVE Bindings'
  BY <1>1, <1>3, TooManyHopsTypes
<1>4. call.state = "idle" => call.offeredTo = None
  BY DEF Ordered, Progress
<1>5. ASSUME NEW p \in Phone, PhoneCalls(p)  PROVE Bindings'
  BY <1>1, <1>2, <1>4, <1>5, PhoneCallsTypes
<1>6. ASSUME NEW p \in Phone, Expire(p) \/ \E s \in Server : Register(p, s)  PROVE Bindings'
  BY <1>1, <1>6, ElsewhereTypes DEF Elsewhere
<1>7. ASSUME NEW p \in Phone, NEW s \in Server, ServerCalls(s, p)  PROVE Bindings'
  BY <1>1, <1>2, <1>4, <1>7, ServerCallsTypes
<1>8. ASSUME Aging  PROVE Bindings'
  <2>1. CASE ~call'.steady
    BY <2>1 DEF Bindings
  <2>2. CASE call'.steady
    <3>1. /\ UNCHANGED <<conf, healthy, forwarded, affinity>> /\ call'.offeredTo = call.offeredTo
          /\ call'.byPhone = call.byPhone /\ call'.outgoing = call.outgoing /\ call.steady
      BY <1>8, <2>2, AgingTypes
    <3>2. call'.steady = call.steady
      BY <2>2, <3>1, CallFields, AgingTypes, <1>8 DEF Types, CallType
    <3> QED  BY <1>1, <3>1, <3>2
  <2> QED  BY <2>1, <2>2
<1>9. ASSUME NEW method \in Method, PhoneRequests(method) \/ ServerRequests(method)  PROVE Bindings'
  BY <1>1, <1>2, <1>9, PhoneRequestsTypes, ServerRequestsTypes
<1>10. ASSUME Cancel  PROVE Bindings'
  BY <1>1, <1>2, <1>10, CancelTypes
<1>11. ASSUME Answer \/ Bounce  PROVE Bindings'
  BY <1>1, <1>11, AnswerTypes, BounceTypes
<1>12. ASSUME UNCHANGED vars  PROVE Bindings'
  BY <1>1, <1>12 DEF vars, tables
<1> QED  BY <1>3, <1>5, <1>6, <1>7, <1>8, <1>9, <1>10, <1>11, <1>12, Actions

\* The keys of a request.
LEMMA KeysAre ==
    ASSUME conf.strategy # "request-uri", NEW m, NEW keys, keys = AffinityKeys(m)
    PROVE  \/ keys = <<<<"call">>>>
           \/ m.tagged /\ keys = <<<<"dialog">>, <<"call">>>>
BY DEF AffinityKeys

\* A request is remembered.
LEMMA BindingsRemember ==
    ASSUME Types, Ordered, Bindings, NEW f \in forwarded, Remember(f)
    PROVE  Bindings'
<1>1. /\ UNCHANGED <<conf, healthy>> /\ forwarded' = forwarded \ {f}
      /\ affinity' = IF f.req.method = "OPTIONS" THEN affinity
                     ELSE Put(affinity, {f.keys[i] : i \in 1..Len(f.keys)}, f.to)
  BY DEF Remember
<1>2. /\ call'.offeredTo = call.offeredTo /\ call'.byPhone = call.byPhone /\ call'.steady = call.steady
      /\ call'.outgoing = (call.outgoing /\ (f.req.method = "OPTIONS" \/ ~FromUpstream(f.req)))
  BY RememberTypes
<1> SUFFICES ASSUME conf.strategy # "request-uri", call.steady, call.outgoing,
                    f.req.method = "OPTIONS" \/ ~FromUpstream(f.req)
             PROVE  Leads'
  BY <1>1, <1>2 DEF Bindings
<1>3. Leads
  BY DEF Bindings
<1>4. \A g \in forwarded' : g.req.method # "OPTIONS" /\ ~FromUpstream(g.req)' => g.to = call.offeredTo
  BY <1>1, <1>3 DEF Leads, FromUpstream
<1>5. call.offeredTo # None /\ ~call.byPhone => \E g \in forwarded' : Opens(g.req) /\ FromUpstream(g.req)
  BY <1>1, <1>3 DEF Leads, Opens
<1>6. CASE f.req.method = "OPTIONS"
  <2>1. affinity' = affinity
    BY <1>1, <1>6
  <2>2. (\E g \in forwarded : Opens(g.req)) => \E g \in forwarded' : Opens(g.req)
    BY <1>1, <1>6 DEF Opens
  <2> QED  BY <1>2, <1>3, <1>4, <1>5, <2>1, <2>2 DEF Leads, Opens, FromUpstream
<1>7. CASE f.req.method # "OPTIONS"
  <2> DEFINE keys == {f.keys[i] : i \in 1..Len(f.keys)}
  <2>1. affinity' = Put(affinity, keys, f.to) /\ f.to = call.offeredTo
    BY <1>1, <1>3, <1>7 DEF Leads
  <2>2. <<"call">> \in keys
    <3>1. PICK ks : ks = f.keys
      OBVIOUS
    <3>2. ks = AffinityKeys(f.req)
      BY <3>1 DEF Types
    <3>3. ks = <<<<"call">>>> \/ ks = <<<<"dialog">>, <<"call">>>>
      BY <3>2, KeysAre
    <3>4. (1 \in 1..Len(ks) /\ ks[1] = <<"call">>) \/ (2 \in 1..Len(ks) /\ ks[2] = <<"call">>)
      BY <3>3
    <3> QED  BY <3>1, <3>4
  <2> HIDE DEF keys
  <2>3. \A k \in DOMAIN affinity' : affinity'[k] = call.offeredTo
    BY <1>3, <2>1 DEF Leads, Put
  <2>4. <<"call">> \in DOMAIN affinity'
    BY <2>1, <2>2 DEF Put
  <2>5. call.offeredTo # None /\ call.byPhone => call.offeredTo \in Server
    BY <1>3 DEF Leads
  <2> QED  BY <1>2, <1>4, <1>5, <2>3, <2>4, <2>5 DEF Leads, Opens, FromUpstream
<1> QED  BY <1>6, <1>7

\* Where a phone's INVITE goes.
LEMMA PhoneInviteGoes ==
    ASSUME Types, NEW m \in RequestType, NEW a \in Targets(m), m.from \in Phone, m.method = "INVITE"
    PROVE  a \in Server
<1>1. ~FromUpstream(m)
  BY Constants DEF FromUpstream
<1>2. Direct(m) = {} /\ Location(m) = {} /\ TransactionRoute(m) = {}
  BY <1>1 DEF Direct, Location, TransactionRoute
<1>3. RegisteredUpstream(m) \subseteq Server /\ Affinity(m) \subseteq Server /\ Selected(m.uri) \subseteq Server
  BY CandidatesTyped, SelectedServers DEF Types
<1>4. \A i \in 1..Len(Candidates(m)) : Candidates(m)[i] \subseteq Server
  BY <1>2, <1>3, CandidatesAre
<1> DEFINE found == {i \in 1..Len(Candidates(m)) : Candidates(m)[i] # {}}
           first == IF found = {} THEN Selected(m.uri) ELSE Candidates(m)[Min(found)]
<1>5. first \subseteq Server
  <2>1. CASE found = {}
    BY <1>3, <2>1
  <2>2. CASE found # {}
    <3>1. found \subseteq Nat
      OBVIOUS
    <3>2. Min(found) \in found
      BY <2>2, <3>1, LeastIs
    <3> QED  BY <1>4, <2>2, <3>2
  <2> QED  BY <2>1, <2>2
<1>6. a \in IF \E b \in first : b \notin Server /\ IsOwn(b) THEN Selected(m.uri) ELSE first
  BY DEF Targets
<1> HIDE DEF first
<1> QED  BY <1>3, <1>5, <1>6

\* Where its request within the call goes, and its CANCEL.
LEMMA PhoneRequestGoes ==
    ASSUME Types, Ordered, Transaction, Dialog, Fresh, Bindings, NEW m \in wire, forwarded = {},
           m.tagged \/ Cancels(m), m.from \in Phone, conf.strategy # "request-uri", call.steady, call.outgoing
    PROVE  Targets(m) = {call.offeredTo} /\ (m.tagged => call.server = call.offeredTo)
<1>1. /\ m.tagged => call.state = "up" /\ m.method \in Method
      /\ m.method \in Method \cup {"CANCEL"} /\ m \in RequestType
  BY DEF Dialog, Fits, Types, Cancels
<1>2. Leads /\ healthy = Server /\ call.offeredTo # None
  <2>1. ~Initial(m)
    BY <1>1 DEF Initial, Method
  <2> QED  BY <2>1 DEF Bindings, Ordered, Progress
<1>3. call.byPhone /\ call.offeredTo \in Server
  BY <1>2 DEF Leads
<1>4. m.tagged => call.server = call.offeredTo
  BY <1>1, <1>3 DEF Ordered, Progress
<1>5. <<"call">> \in DOMAIN affinity
  BY <1>2 DEF Leads
<1>6. ~FromUpstream(m)
  BY Constants DEF FromUpstream
<1>7. Direct(m) = {} /\ Location(m) = {} /\ RegisteredUpstream(m) = {}
  BY <1>1, <1>6 DEF Direct, Location, RegisteredUpstream, Method
<1>8. TransactionRoute(m) = {} \/ TransactionRoute(m) = {call.offeredTo}
  <2>1. CASE m.tagged
    BY <1>1, <2>1 DEF TransactionRoute, Hit, Fresh, Invited, Method
  <2>2. CASE Cancels(m)
    BY <2>2 DEF TransactionRoute, Hit, Transaction, Cancels
  <2> QED  BY <2>1, <2>2
<1>9. Affinity(m) = {call.offeredTo}
  <2>1. PICK keys : keys = AffinityKeys(m)
    OBVIOUS
  <2>2. keys = <<<<"call">>>> \/ keys = <<<<"dialog">>, <<"call">>>>
    BY <2>1, KeysAre
  <2>3. (1 \in 1..Len(keys) /\ keys[1] = <<"call">>) \/ (2 \in 1..Len(keys) /\ keys[2] = <<"call">>)
    BY <2>2
  <2> DEFINE bound == {i \in 1..Len(keys) : keys[i] \in DOMAIN affinity}
  <2>4. bound # {} /\ bound \subseteq Nat
    BY <1>5, <2>3
  <2>5. Min(bound) \in bound
    BY <2>4, LeastIs
  <2>6. affinity[keys[Min(bound)]] = call.offeredTo
    BY <1>2, <2>5 DEF Leads
  <2>7. Affinity(m) = {affinity[keys[Min(bound)]]} \cap healthy
    BY <2>1, <2>4 DEF Affinity
  <2> QED  BY <1>2, <1>3, <2>6, <2>7
<1>10. /\ Len(Candidates(m)) = 5 /\ Candidates(m)[1] = TransactionRoute(m)
       /\ Candidates(m)[2] = {} /\ Candidates(m)[3] = {}
       /\ Candidates(m)[4] = {} /\ Candidates(m)[5] = {call.offeredTo}
  BY <1>7, <1>9, CandidatesAre
<1>11. CASE TransactionRoute(m) = {call.offeredTo}
  <2>1. PICK b : b = call.offeredTo
    OBVIOUS
  <2> QED  BY <1>3, <1>4, <1>10, <1>11, <2>1, FirstOfMany
<1>12. CASE TransactionRoute(m) = {}
  <2>1. PICK k : k = 5
    OBVIOUS
  <2>2. /\ k \in 1..Len(Candidates(m)) /\ Len(Candidates(m)) \in Nat /\ Candidates(m)[k] # {}
        /\ Candidates(m)[k] = {call.offeredTo}
    BY <1>10, <2>1
  <2>3. \A j \in 1..(k - 1) : Candidates(m)[j] = {}
    BY <1>10, <1>12, <2>1
  <2>4. Targets(m) = Candidates(m)[k]
    BY <1>3, <2>2, <2>3, FirstDecides
  <2> QED  BY <1>4, <2>2, <2>4
<1> QED  BY <1>8, <1>11, <1>12

\* A request is passed on.
LEMMA BindingsForward ==
    ASSUME Types, Ordered, Transaction, Dialog, Fresh, Bindings, NEW m \in wire, m.hops # 0, NEW a \in Targets(m),
           NEW adv \in Resolved(a),
           NEW back \in Backs(m, a, adv), ForwardTo(m, a, adv, back)
    PROVE  Bindings' /\ OutgoingCallKeepsItsServer'
<1>1. UNCHANGED <<conf, healthy, affinity>>
  BY DEF ForwardTo
<1>2. (Opens(m) <=> Initial(m)) /\ (Opens(m) <=> call.offeredTo = None)
  BY OrderedForward
<1>3. PICK n : n = [keys |-> AffinityKeys(m), to |-> a, req |-> m]
  OBVIOUS
<1>4. n.to = a /\ n.req = m /\ forwarded' = forwarded \cup {n}
  BY <1>3 DEF ForwardTo
<1>5. /\ call'.outgoing = call.outgoing /\ call'.byPhone = call.byPhone /\ call'.server = call.server
      /\ Opens(m) => call'.offeredTo = a /\ call'.steady = call.steady
      /\ ~Opens(m) => call'.offeredTo = call.offeredTo /\ call'.steady = (call.steady /\ forwarded = {})
  BY ForwardedCall
<1>6. /\ last'.at = a /\ last'.req.from = m.from /\ last'.req.tagged = m.tagged /\ last'.req.method = m.method
      /\ last'.req.trips = m.trips + 1 /\ last'.caughtUp = (forwarded = {})
  BY ForwardedLast
<1>7. m \in RequestType /\ m.trips \in Nat /\ m.tagged \in BOOLEAN
  BY RequestFields DEF Types
<1>8. Initial(m) \/ Cancels(m) \/ InDialog(m) \/ Returned(m)
  BY DEF Ordered, OneAtATime
<1>9. ASSUME conf.strategy # "request-uri", call'.steady, call.outgoing, forwarded = {}, ~Opens(m), ~FromUpstream(m)
      PROVE  a = call.offeredTo
  <2>1. call.steady
    BY <1>5, <1>9
  <2>2. CASE Cancels(m)
    <3>1. m.from \in Phone
      BY <1>9, <2>2 DEF FromUpstream, Cancels
    <3> QED  BY <1>9, <2>1, <2>2, <3>1, PhoneRequestGoes
  <2>3. CASE InDialog(m)
    <3>1. m.tagged /\ m.from \in Phone
      BY <1>9, <2>3 DEF InDialog, FromUpstream, Dialog, Fits
    <3> QED  BY <1>9, <2>1, <3>1, PhoneRequestGoes
  <2> QED  BY <1>2, <1>8, <1>9, <2>2, <2>3 DEF Returned, FromUpstream
<1>10. Bindings'
  <2>1. call'.steady => healthy' = Server
    BY <1>1, <1>5 DEF Bindings
  <2>2. ASSUME conf.strategy # "request-uri", call'.steady, call'.outgoing  PROVE Leads'
    <3>1. Leads /\ call.outgoing
      BY <1>5, <2>2 DEF Bindings
    <3>2. CASE Opens(m)
      <4>1. forwarded = {} /\ DOMAIN affinity = {} /\ call'.offeredTo = a /\ call'.byPhone = call.byPhone
        BY <1>2, <1>5, <3>2 DEF Ordered, Progress
      <4>2. ~call.byPhone => FromUpstream(m)
        BY <1>2, <3>2 DEF Ordered, Progress, FromUpstream
      <4>3. forwarded' = {n} /\ n.to = a /\ n.req = m
        BY <1>4, <4>1
      <4>4. call.byPhone => a \in Server
        BY <1>2, <1>7, <3>2, PhoneInviteGoes DEF Ordered, Progress, Opens
      <4> QED  BY <1>1, <3>2, <4>1, <4>2, <4>3, <4>4 DEF Leads, Opens, FromUpstream
    <3>3. CASE ~Opens(m)
      <4>1. forwarded = {} /\ call'.offeredTo = call.offeredTo /\ call'.byPhone = call.byPhone
        BY <1>5, <2>2, <3>3
      <4>2. ~FromUpstream(m) => a = call.offeredTo
        BY <1>9, <2>2, <3>1, <3>3, <4>1
      <4>3. forwarded' = {n} /\ n.to = a /\ n.req = m
        BY <1>4, <4>1
      <4> QED  BY <1>1, <3>1, <4>1, <4>2, <4>3 DEF Leads, Opens, FromUpstream
    <3> QED  BY <3>2, <3>3
  <2> QED  BY <1>1, <2>1, <2>2 DEF Bindings
<1>11. OutgoingCallKeepsItsServer'
  <2> SUFFICES ASSUME m.from \in Phone, m.tagged, forwarded = {}, conf.strategy # "request-uri", call'.steady,
                      call.outgoing
               PROVE  a = call.server
    BY <1>1, <1>5, <1>6 DEF OutgoingCallKeepsItsServer, InDialogFromPhone, StaysOnServer
  <2>1. call.steady
    BY <1>5
  <2> QED  BY <2>1, PhoneRequestGoes
<1> QED  BY <1>10, <1>11

\* The requests of a phone within a call stay with the call's server as long as no
\* request of a server has been remembered for the call, no server has failed and no
\* affinity has expired:
\* remember_successful_forward binds the Call-ID to the server that got the INVITE, and
\* nothing that is asked before the affinity table answers for the phone.
THEOREM PhoneStaysOnServer == Spec => []OutgoingCallKeepsItsServer
<1> DEFINE Inv == Types /\ Ordered /\ Transaction /\ Dialog /\ Fresh /\ Bindings /\ OutgoingCallKeepsItsServer
<1>1. Init => Inv
  <2> SUFFICES ASSUME Init  PROVE Inv
    OBVIOUS
  <2>1. Transaction /\ Dialog /\ Fresh
    BY NothingTyped DEF Init, Transaction, Dialog, Fits, Fresh, NoCall
  <2>2. Bindings
    BY DEF Init, Bindings, Leads, NoCall
  <2>3. OutgoingCallKeepsItsServer
    BY NothingTyped DEF Init, OutgoingCallKeepsItsServer, InDialogFromPhone
  <2> QED  BY <2>1, <2>2, <2>3, InitTypes, InitOrdered
<1>2. Inv /\ [Next]_vars => Inv'
  <2> SUFFICES ASSUME Types, Ordered, Transaction, Dialog, Fresh, Bindings, OutgoingCallKeepsItsServer, [Next]_vars
               PROVE  Bindings' /\ OutgoingCallKeepsItsServer'
    BY TypesStep, OrderedStep, TransactionStep, DialogStep, FreshStep
  <2>1. ASSUME NEW m \in wire, NEW a \in Targets(m), NEW adv \in Resolved(a), NEW back \in Backs(m, a, adv),
             m.hops # 0, ForwardTo(m, a, adv, back)
        PROVE  Bindings' /\ OutgoingCallKeepsItsServer'
    BY <2>1, BindingsForward
  <2>2. Bindings' \/ \E m \in wire : \E a \in Targets(m) : \E adv \in Resolved(a) : \E back \in Backs(m, a, adv) :
                 m.hops # 0 /\ ForwardTo(m, a, adv, back)
    BY BindingsKept, BindingsRemember
  <2>3. CASE Answer
    <3>1. last' = NoLast
      BY <2>3, AnswerTypes
    <3>2. OutgoingCallKeepsItsServer'
      BY <3>1, NothingTyped DEF OutgoingCallKeepsItsServer, InDialogFromPhone
    <3> QED  BY <2>1, <2>2, <3>2
  <2>4. CASE NothingForwarded /\ call.state = "idle" /\ call'.state = "inviting"
    <3>1. last'.req.tagged = FALSE \/ ~last'.req.tagged
      BY <2>4, NothingTyped DEF NothingForwarded, Dialog, Fits
    <3>2. OutgoingCallKeepsItsServer'
      BY <3>1 DEF OutgoingCallKeepsItsServer, InDialogFromPhone
    <3> QED  BY <2>1, <2>2, <3>2
  <2>5. CASE NothingForwarded /\ Ends' = Ends
    <3>1. /\ call'.server = call.server /\ UNCHANGED conf /\ (last' = last \/ last' = NoLast)
          /\ (call'.steady => call.steady) /\ (call'.outgoing => call.outgoing)
      BY <2>5 DEF NothingForwarded, Ends
    <3>2. OutgoingCallKeepsItsServer'
      BY <3>1, NothingTyped DEF OutgoingCallKeepsItsServer, InDialogFromPhone, StaysOnServer
    <3> QED  BY <2>1, <2>2, <3>2
  <2> QED  BY <2>1, <2>2, <2>3, <2>4, <2>5, CallSteps
<1> QED  BY <1>1, <1>2, PTL DEF Spec

-----------------------------------------------------------------------------
(* The counter of a group and the servers a selection has just passed *)

\* Of n servers, those that the last k moves of the counter went over to reach c.
Behind(c, k, n) == {i \in 1..n : i \in (c - k + 1)..c \/ i \in (c - k + 1 + n)..(c + n)}

\* The counter goes round.
LEMMA CounterGoesRound ==
    ASSUME NEW n \in Nat \ {0}, NEW c \in 0..(n - 1)
    PROVE  (c + 1) % n = IF c + 1 = n THEN 0 ELSE c + 1
<1>1. CASE c + 1 = n
  BY <1>1, Z3
<1>2. CASE c + 1 < n
  BY <1>2, Z3
<1> QED  BY <1>1, <1>2

\* A move of the counter goes over one server more.
LEMMA MoveAddsOne ==
    ASSUME NEW n \in Nat \ {0}, NEW c \in 0..(n - 1), NEW k \in 0..(n - 1)
    PROVE  Behind((c + 1) % n, k + 1, n) = Behind(c, k, n) \cup {c + 1}
<1>1. CASE c + 1 = n
  <2>1. (c + 1) % n = 0  BY <1>1, CounterGoesRound
  <2> QED  BY <1>1, <2>1 DEF Behind
<1>2. CASE c + 1 < n
  <2>1. (c + 1) % n = c + 1  BY <1>2, CounterGoesRound
  <2> QED  BY <1>2, <2>1 DEF Behind
<1> QED  BY <1>1, <1>2

\* As many moves as there are servers go over all of them.
LEMMA AllMovesAreAll ==
    ASSUME NEW n \in Nat \ {0}, NEW c \in 0..(n - 1)
    PROVE  Behind(c, n, n) = 1..n
BY DEF Behind

-----------------------------------------------------------------------------
(* Selections *)

\* What a selection under way knows: it has made as many tries as it may or fewer, and
\* if nobody else has moved the counter, it has seen what the counter went over.
SoFar(s, c, n) ==
    /\ s.tries \in 0..n /\ s.alone \in BOOLEAN
    /\ s = Selecting(s.group, s.tries, s.seen, s.alone)
    /\ s.alone => s.seen = {<<s.group, i>> : i \in Behind(c, s.tries, n)}
GoesOn(s) == s.group \in GroupName /\ SoFar(s, next[s.group], Size(s.group))
SelectionInv ==
    /\ groups \in Layouts
    /\ next \in [GroupName -> Int] /\ \A g \in GroupName : next[g] \in 0..(Size(g) - 1)
    /\ selecting = [t \in Task |-> selecting[t]]
    /\ \A t \in Task : selecting[t] = NoSelect \/ GoesOn(selecting[t])

\* Every group has servers and is not the one that stands for no selection.
LEMMA GroupsHaveServers ==
    ASSUME groups \in Layouts, NEW g \in GroupName
    PROVE  /\ g # "none" /\ Size(g) \in Nat \ {0}
           /\ DOMAIN groups[g].servers = 1..Size(g)
BY HealthAssumption DEF GroupName, Size

\* The members of a group are its servers by number.
LEMMA MembersByNumber ==
    ASSUME groups \in Layouts, NEW g \in GroupName
    PROVE  MembersOf(g) = {<<g, i>> : i \in 1..Size(g)}
<1>1. DOMAIN groups[g].servers = 1..Size(g)
  BY GroupsHaveServers
<1>2. ASSUME NEW m \in MembersOf(g)  PROVE \E i \in 1..Size(g) : m = <<g, i>>
  <2>1. PICK h \in DOMAIN groups : \E i \in DOMAIN groups[h].servers : m = <<h, i>>
    BY DEF MembersOf, Member, Members
  <2>2. PICK i \in DOMAIN groups[h].servers : m = <<h, i>>
    BY <2>1
  <2>3. h = g
    BY <2>2 DEF MembersOf
  <2> QED  BY <2>2, <2>3, <1>1
<1>3. ASSUME NEW i \in 1..Size(g)  PROVE <<g, i>> \in MembersOf(g)
  <2>1. i \in DOMAIN groups[g].servers /\ g \in DOMAIN groups
    BY <1>1 DEF GroupName
  <2>2. <<g, i>> \in {<<g, j>> : j \in DOMAIN groups[g].servers}
    BY <2>1
  <2>3. <<g, i>> \in Member
    BY <2>1, <2>2, Zenon DEF Member, Members
  <2> QED  BY <2>3 DEF MembersOf
<1> QED  BY <1>2, <1>3

\* It holds at the start.
LEMMA SelectionInit == HealthInit => SelectionInv
BY GroupsHaveServers, SMTT(30) DEF HealthInit, SelectionInv, GroupName

\* A step that moves no counter and no selection keeps it.
LEMMA SelectionUnchanged ==
    SelectionInv /\ UNCHANGED <<groups, next, selecting>> => SelectionInv'
BY DEF SelectionInv, GoesOn, GroupName, Size, NoSelect

\* The counter stays in its range, and the other groups' do not move.
LEMMA CounterStays ==
    ASSUME SelectionInv, NEW g \in GroupName, Advance(g), UNCHANGED groups
    PROVE  /\ next' \in [GroupName -> Int] /\ \A h \in GroupName : next'[h] \in 0..(Size(h) - 1)
           /\ next'[g] = (next[g] + 1) % Size(g)
           /\ \A h \in GroupName : h # g => next'[h] = next[h]
<1>1. Size(g) \in Nat \ {0} /\ next[g] \in 0..(Size(g) - 1)
  BY GroupsHaveServers DEF SelectionInv
<1>2. (next[g] + 1) % Size(g) \in 0..(Size(g) - 1)
  BY <1>1, CounterGoesRound
<1>3. next' = [next EXCEPT ![g] = (next[g] + 1) % Size(g)]
  BY DEF Advance
<1>4. next \in [GroupName -> Int] /\ \A h \in GroupName : next[h] \in 0..(Size(h) - 1)
  BY DEF SelectionInv
<1> QED  BY <1>2, <1>3, <1>4

\* What a move of the counter leaves true of the selections it disturbs or does not
\* concern.
LEMMA OthersGoOn ==
    ASSUME SelectionInv, NEW g \in GroupName, Advance(g), UNCHANGED groups,
           NEW t \in Task, selecting'[t] = Disturbed(g)[t]
    PROVE  selecting'[t] = NoSelect \/ GoesOn(selecting[t])'
<1>1. selecting[t] = NoSelect \/ GoesOn(selecting[t])
  BY DEF SelectionInv
<1>2. g # "none"  BY GroupsHaveServers DEF SelectionInv
<1>3. CASE selecting[t] = NoSelect
  BY <1>2, <1>3 DEF Disturbed, NoSelect, Selecting
<1>4. CASE GoesOn(selecting[t]) /\ selecting[t].group = g
  BY <1>4, CounterStays DEF Disturbed, GoesOn, SoFar, Selecting, GroupName, Size
<1>5. CASE GoesOn(selecting[t]) /\ selecting[t].group # g
  <2>1. selecting'[t] = selecting[t]  BY <1>5 DEF Disturbed
  <2>2. next'[selecting[t].group] = next[selecting[t].group]  BY <1>5, CounterStays DEF GoesOn
  <2> QED  BY <1>5, <2>1, <2>2 DEF GoesOn, GroupName, Size
<1> QED  BY <1>1, <1>3, <1>4, <1>5

\* A selection that begins has seen nothing.
LEMMA StartKeeps ==
    ASSUME SelectionInv, NEW t \in Task, NEW g \in GroupName, StartSelect(t, g)
    PROVE  SelectionInv'
<1>1. UNCHANGED <<groups, next>> /\ selecting' = [selecting EXCEPT ![t] = Selecting(g, 0, {}, TRUE)]
  BY DEF StartSelect
<1>2. Size(g) \in Nat \ {0} /\ next[g] \in 0..(Size(g) - 1)
  BY GroupsHaveServers DEF SelectionInv
<1>3. Behind(next[g], 0, Size(g)) = {}
  BY <1>2 DEF Behind
<1>4. selecting'[t] = Selecting(g, 0, {}, TRUE) /\ \A u \in Task : u # t => selecting'[u] = selecting[u]
  BY <1>1 DEF SelectionInv
<1>5. GoesOn(selecting[t])'
  <2> DEFINE s == Selecting(g, 0, {}, TRUE)
  <2>1. s.group = g /\ s.tries = 0 /\ s.seen = {} /\ s.alone = TRUE
    BY DEF Selecting
  <2>2. GoesOn(s)
    BY <1>2, <1>3, <2>1, SMTT(30) DEF GoesOn, SoFar, Selecting
  <2> QED  BY <1>1, <1>4, <2>2 DEF GoesOn, GroupName, Size
<1>6. \A u \in Task : u # t => selecting'[u] = NoSelect \/ GoesOn(selecting[u])'
  BY <1>1, <1>4 DEF SelectionInv, GoesOn, GroupName, Size
<1>7. selecting' = [u \in Task |-> selecting'[u]]
  BY <1>1 DEF SelectionInv
<1> QED  BY <1>1, <1>5, <1>6, <1>7 DEF SelectionInv, GroupName, Size

\* A selection that goes on has seen one server more: the one the counter left.
LEMMA StepKeeps ==
    ASSUME SelectionInv, NEW t \in Task, SelectStep(t)
    PROVE  SelectionInv'
<1> DEFINE s == selecting[t]
           g == s.group
           m == <<g, next[g] + 1>>
           n == Size(g)
           s2 == Selecting(g, s.tries + 1, s.seen \cup {m}, s.alone)
<1>1. /\ s # NoSelect /\ s.tries < Tries(g) /\ Advance(g) /\ UNCHANGED groups
      /\ selecting' = [Disturbed(g) EXCEPT ![t] = IF health[m] THEN NoSelect ELSE s2]
  BY DEF SelectStep
<1>2. GoesOn(s)
  BY <1>1 DEF SelectionInv
<1>3. g \in GroupName /\ n \in Nat \ {0} /\ next[g] \in 0..(n - 1) /\ s.tries \in 0..(n - 1)
  BY <1>1, <1>2, GroupsHaveServers DEF SelectionInv, GoesOn, SoFar, Tries
<1>4. selecting'[t] = IF health[m] THEN NoSelect ELSE s2
  BY <1>1 DEF Disturbed
<1>5. \A u \in Task : u # t => selecting'[u] = Disturbed(g)[u]
  BY <1>1 DEF Disturbed
<1>6. \A u \in Task : u # t => selecting'[u] = NoSelect \/ GoesOn(selecting[u])'
  BY <1>1, <1>3, <1>5, OthersGoOn
<1>7. ASSUME selecting'[t] = s2  PROVE GoesOn(selecting[t])'
  <2>1. s2.group = g /\ s2.tries = s.tries + 1 /\ s2.seen = s.seen \cup {m} /\ s2.alone = s.alone
    BY DEF Selecting
  <2>2. Behind(next'[g], s.tries + 1, n) = Behind(next[g], s.tries, n) \cup {next[g] + 1}
    <3>1. next'[g] = (next[g] + 1) % n
      BY <1>1, <1>3, CounterStays
    <3>2. Behind((next[g] + 1) % n, s.tries + 1, n) = Behind(next[g], s.tries, n) \cup {next[g] + 1}
      <4> HIDE DEF n, g, s
      <4> QED  BY <1>3, MoveAddsOne
    <3> QED  BY <3>1, <3>2
  <2>3. s.alone => s.seen \cup {m} = {<<g, i>> : i \in Behind(next'[g], s.tries + 1, n)}
    <3> HIDE DEF n
    <3> SUFFICES ASSUME s.alone
                 PROVE  s.seen \cup {m} = {<<g, i>> : i \in Behind(next[g], s.tries, n) \cup {next[g] + 1}}
      BY <2>2
    <3>1. s.seen = {<<g, i>> : i \in Behind(next[g], s.tries, n)}
      BY <1>2 DEF GoesOn, SoFar, n
    <3> QED  BY <3>1
  <2>4. s.tries + 1 \in 0..n /\ s.alone \in BOOLEAN
    BY <1>2, <1>3 DEF GoesOn, SoFar
  <2>5. s2 = Selecting(s2.group, s2.tries, s2.seen, s2.alone)
    BY <2>1
  <2>6. SoFar(s2, next'[g], n)
    <3> HIDE DEF s2, n
    <3> QED  BY <2>1, <2>3, <2>4, <2>5 DEF SoFar
  <2>7. groups' = groups
    BY <1>1
  <2> QED  BY <1>3, <1>7, <2>1, <2>6, <2>7 DEF GoesOn, GroupName, Size
<1>8. selecting' = [u \in Task |-> selecting'[u]]
  BY <1>1 DEF Disturbed
<1>9. \A u \in Task : selecting'[u] = NoSelect \/ GoesOn(selecting[u])'
  BY <1>4, <1>6, <1>7
<1>10. groups' \in Layouts /\ next' \in [GroupName' -> Int] /\ \A h \in GroupName' : next'[h] \in 0..(Size(h)' - 1)
  BY <1>1, <1>3, CounterStays DEF SelectionInv, GroupName, Size
<1> QED  BY <1>8, <1>9, <1>10 DEF SelectionInv

\* A selection that ends leaves the others as a move of the counter does.
LEMMA FallbackKeeps ==
    ASSUME SelectionInv, NEW t \in Task, SelectFallback(t)
    PROVE  SelectionInv'
<1> DEFINE g == selecting[t].group
<1>1. /\ selecting[t] # NoSelect /\ Advance(g) /\ UNCHANGED groups
      /\ selecting' = [Disturbed(g) EXCEPT ![t] = NoSelect]
  BY DEF SelectFallback
<1>2. g \in GroupName
  BY <1>1 DEF SelectionInv, GoesOn
<1>3. selecting'[t] = NoSelect /\ \A u \in Task : u # t => selecting'[u] = Disturbed(g)[u]
  BY <1>1 DEF Disturbed
<1>4. \A u \in Task : selecting'[u] = NoSelect \/ GoesOn(selecting[u])'
  BY <1>1, <1>2, <1>3, OthersGoOn
<1>5. selecting' = [u \in Task |-> selecting'[u]]
  BY <1>1 DEF Disturbed
<1> QED  BY <1>1, <1>2, <1>4, <1>5, CounterStays DEF SelectionInv, GroupName, Size

\* So do the steps of tasks beyond Task.
LEMMA OtherKeeps ==
    ASSUME SelectionInv, NEW g \in GroupName, OtherSelects(g)
    PROVE  SelectionInv'
<1>1. Advance(g) /\ UNCHANGED groups /\ selecting' = Disturbed(g)
  BY DEF OtherSelects
<1>2. \A u \in Task : selecting'[u] = NoSelect \/ GoesOn(selecting[u])'
  BY <1>1, OthersGoOn
<1>3. selecting' = [u \in Task |-> selecting'[u]]
  BY <1>1 DEF Disturbed
<1> QED  BY <1>1, <1>2, <1>3, CounterStays DEF SelectionInv, GroupName, Size

\* Every step keeps it.
LEMMA SelectionStep == SelectionInv /\ [HealthNext]_healthVars => SelectionInv'
<1> SUFFICES ASSUME SelectionInv, [HealthNext]_healthVars  PROVE SelectionInv'
  OBVIOUS
<1>1. CASE UNCHANGED healthVars
  BY <1>1, SelectionUnchanged DEF healthVars
<1>2. CASE \E x \in GroupName \cup Task : RecordStep(x)
  BY <1>2, SelectionUnchanged DEF RecordStep, ResetOther, Count, Mark
<1>3. CASE \E g \in GroupName : ProbeStep(g)
  BY <1>3, SelectionUnchanged DEF ProbeStep, StartRound, ProbeEnds
<1>4. CASE \E t \in Task, a \in Address, ok \in BOOLEAN : PassiveResult(t, a, ok)
  BY <1>4, SelectionUnchanged DEF PassiveResult
<1>5. CASE ServerChanges \/ RoleChanges
  BY <1>5, SelectionUnchanged DEF ServerChanges, RoleChanges
<1> QED  BY <1>1, <1>2, <1>3, <1>4, <1>5, StartKeeps, StepKeeps, FallbackKeeps, OtherKeeps DEF HealthNext

\* A selection that nobody has disturbed falls back on any server only when it has
\* found every server of the group unhealthy (UpstreamGroupRuntime::select), for any
\* number of groups, servers and tasks.
THEOREM FallbackFollowsAllDown == HealthSpec => []FallbackMeansAllDown
<1>1. SelectionInv => FallbackMeansAllDown
  <2> SUFFICES ASSUME SelectionInv, NEW t \in Task, selecting[t] # NoSelect, selecting[t].alone,
                      selecting[t].tries = Tries(selecting[t].group)
               PROVE  selecting[t].seen = MembersOf(selecting[t].group)
    BY DEF FallbackMeansAllDown
  <2> DEFINE g == selecting[t].group
  <2>1. GoesOn(selecting[t]) /\ groups \in Layouts
    BY DEF SelectionInv
  <2>2. g \in GroupName /\ Size(g) \in Nat \ {0} /\ next[g] \in 0..(Size(g) - 1)
    BY <2>1, GroupsHaveServers DEF GoesOn, SelectionInv
  <2>3. selecting[t].seen = {<<g, i>> : i \in Behind(next[g], Size(g), Size(g))}
    BY <2>1 DEF GoesOn, SoFar, Tries
  <2> QED  BY <2>1, <2>2, <2>3, AllMovesAreAll, MembersByNumber
<1> QED  BY <1>1, SelectionInit, SelectionStep, PTL DEF HealthSpec

-----------------------------------------------------------------------------
(* Types of the health checks *)

\* A recorder that is not idle has a member to do: the one whose counters it changes.
Recorder == [pc : {"idle", "reset", "count", "mark"}, ok : BOOLEAN, todo : SUBSET Member]
Counters ==
    /\ health \in [Member -> BOOLEAN]
    /\ successes \in [Member -> 0..SuccessThreshold]
    /\ failures \in [Member -> 0..FailureThreshold]
Recorders ==
    /\ recorder \in [GroupName \cup Task -> Recorder]
    /\ \A x \in GroupName \cup Task : recorder[x].pc # "idle" => recorder[x].todo # {}
Probes ==
    /\ server \in [Address -> Condition] /\ active \in BOOLEAN /\ socket \in [Member -> Socket]
    /\ probing \in [GroupName -> SUBSET Member]
    /\ \A g \in GroupName : probing[g] \subseteq MembersOf(g)
Checks == Counters /\ Recorders /\ Probes

\* They hold at the start.
LEMMA ChecksInit == HealthInit => Checks
<1> SUFFICES ASSUME HealthInit  PROVE Checks
  OBVIOUS
<1>1. Counters
  BY HealthAssumption DEF HealthInit, Counters
<1>2. Recorders
  BY DEF HealthInit, Recorders, Recorder, NoRecord
<1>3. Probes
  <2>1. server \in [Address -> Condition] /\ socket \in [Member -> Socket]
    BY DEF HealthInit, Condition, Socket
  <2>2. active \in BOOLEAN
    BY DEF HealthInit
  <2>3. probing = [g \in GroupName |-> {}]
    BY DEF HealthInit
  <2> QED  BY <2>1, <2>2, <2>3 DEF Probes
<1> QED  BY <1>1, <1>2, <1>3 DEF Checks

\* A step that leaves the configuration alone leaves the groups and their members alone.
LEMMA MembersStay ==
    ASSUME UNCHANGED groups
    PROVE  /\ Member' = Member /\ GroupName' = GroupName /\ Address' = Address /\ Recorder' = Recorder
           /\ \A g : MembersOf(g)' = MembersOf(g)
BY DEF Member, GroupName, Address, AddrOf, Recorder, MembersOf

\* What a step does not touch stays.
LEMMA ChecksStay ==
    ASSUME UNCHANGED groups
    PROVE  /\ Counters /\ UNCHANGED counters => Counters'
           /\ Recorders /\ UNCHANGED recorder => Recorders'
           /\ Probes /\ UNCHANGED <<server, active, socket, probing>> => Probes'
<1>1. Counters /\ UNCHANGED counters => Counters'
  BY MembersStay DEF Counters, counters
<1>2. Recorders /\ UNCHANGED recorder => Recorders'
  BY MembersStay DEF Recorders
<1>3. Probes /\ UNCHANGED <<server, active, socket, probing>> => Probes'
  BY MembersStay DEF Probes
<1> QED  BY <1>1, <1>2, <1>3

\* A recorder goes on with a member, and then with the next.
LEMMA CurrentIsMember ==
    ASSUME Recorders, NEW x \in GroupName \cup Task, recorder[x].pc # "idle"
    PROVE  /\ Current(x) \in Member
           /\ Done(x) \in Recorder /\ (Done(x).pc # "idle" => Done(x).todo # {})
<1>1. recorder[x] \in Recorder /\ recorder[x].todo # {}
  BY DEF Recorders
<1>2. Current(x) \in recorder[x].todo
  BY <1>1 DEF Current
<1>3. recorder[x].todo \subseteq Member
  BY <1>1 DEF Recorder
<1>4. /\ Done(x) \in Recorder
      /\ Done(x).todo = recorder[x].todo \ {Current(x)}
      /\ Done(x).pc # "idle" => recorder[x].todo # {Current(x)}
  BY <1>1 DEF Done, Recorder
<1> QED  BY <1>2, <1>3, <1>4

\* A recorder's new state is one.
LEMMA RecorderStep ==
    ASSUME Recorders, UNCHANGED groups, NEW x \in GroupName \cup Task, NEW r \in Recorder,
           r.pc # "idle" => r.todo # {}, recorder' = [recorder EXCEPT ![x] = r]
    PROVE  Recorders'
BY MembersStay DEF Recorders

\* record_health_result keeps them.
LEMMA RecordKeeps ==
    ASSUME Checks, NEW x \in GroupName \cup Task, RecordStep(x)
    PROVE  Checks'
<1>1. UNCHANGED <<groups, server, active, socket, probing>> /\ recorder[x].pc # "idle"
  BY DEF RecordStep, ResetOther, Count, Mark
<1>2. Counters /\ Recorders /\ Probes /\ recorder[x] \in Recorder /\ recorder[x].todo # {}
  BY <1>1 DEF Checks, Recorders
<1>3. Probes'
  BY <1>1, <1>2, ChecksStay
<1>4. /\ Current(x) \in Member
      /\ Done(x) \in Recorder /\ (Done(x).pc # "idle" => Done(x).todo # {})
  BY <1>1, <1>2, CurrentIsMember
<1>5. CASE ResetOther(x)
  <2>0. 0 \in 0..SuccessThreshold /\ 0 \in 0..FailureThreshold
    BY HealthAssumption
  <2>1. Counters'
    <3>1. successes \in [Member -> 0..SuccessThreshold] /\ failures \in [Member -> 0..FailureThreshold]
      BY <1>2 DEF Counters
    <3>2. /\ successes' \in [Member -> 0..SuccessThreshold]
          /\ failures' \in [Member -> 0..FailureThreshold]
      BY <1>4, <1>5, <2>0, <3>1 DEF ResetOther
    <3>3. health' = health
      BY <1>5 DEF ResetOther
    <3> QED  BY <1>1, <1>2, <3>2, <3>3, MembersStay DEF Counters
  <2>2. [recorder[x] EXCEPT !.pc = "count"] \in Recorder
    BY <1>2 DEF Recorder
  <2>3. recorder' = [recorder EXCEPT ![x] = [recorder[x] EXCEPT !.pc = "count"]]
    BY <1>2, <1>5 DEF ResetOther, Recorders
  <2>4. [recorder[x] EXCEPT !.pc = "count"].todo # {}
    BY <1>2 DEF Recorder
  <2> QED  BY <1>1, <1>2, <1>3, <2>1, <2>2, <2>3, <2>4, RecorderStep DEF Checks
<1>6. CASE Count(x)
  <2>1. ASSUME NEW n \in Nat, NEW limit \in Nat  PROVE AtMost(n, limit) \in 0..limit
    BY DEF AtMost
  <2>2. successes \in [Member -> 0..SuccessThreshold] /\ failures \in [Member -> 0..FailureThreshold]
    BY <1>2 DEF Counters
  <2>3. /\ AtMost(successes[Current(x)] + 1, SuccessThreshold) \in 0..SuccessThreshold
        /\ AtMost(failures[Current(x)] + 1, FailureThreshold) \in 0..FailureThreshold
    <3>1. SuccessThreshold \in Nat /\ FailureThreshold \in Nat
      BY HealthAssumption
    <3>2. successes[Current(x)] \in 0..SuccessThreshold /\ failures[Current(x)] \in 0..FailureThreshold
      BY <1>4, <2>2
    <3>3. successes[Current(x)] + 1 \in Nat /\ failures[Current(x)] + 1 \in Nat
      BY <3>1, <3>2
    <3> QED  BY <2>1, <3>1, <3>3
  <2>4. /\ successes' \in [Member -> 0..SuccessThreshold]
        /\ failures' \in [Member -> 0..FailureThreshold]
    BY <1>4, <1>6, <2>2, <2>3 DEF Count
  <2>5. health' = health
    BY <1>6 DEF Count
  <2>6. Counters'
    BY <1>1, <1>2, <2>4, <2>5, MembersStay DEF Counters
  <2>7. PICK r : recorder' = [recorder EXCEPT ![x] = r] /\ r = IF Decides(x) THEN [recorder[x] EXCEPT !.pc = "mark"] ELSE Done(x)
    BY <1>6 DEF Count
  <2>8. [recorder[x] EXCEPT !.pc = "mark"] \in Recorder /\ [recorder[x] EXCEPT !.pc = "mark"].todo # {}
    BY <1>2 DEF Recorder
  <2>9. r \in Recorder /\ (r.pc # "idle" => r.todo # {})
    BY <1>4, <2>7, <2>8
  <2> QED  BY <1>1, <1>2, <1>3, <2>6, <2>7, <2>9, RecorderStep DEF Checks
<1>7. CASE Mark(x)
  <2>1. recorder[x].ok \in BOOLEAN
    BY <1>2 DEF Recorder
  <2>2. health' \in [Member -> BOOLEAN]
    BY <1>2, <1>4, <1>7, <2>1 DEF Counters, Mark
  <2>3. successes' = successes /\ failures' = failures
    BY <1>7 DEF Mark
  <2>4. Counters'
    BY <1>1, <1>2, <2>2, <2>3, MembersStay DEF Counters
  <2>5. recorder' = [recorder EXCEPT ![x] = Done(x)]
    BY <1>7 DEF Mark
  <2> QED  BY <1>1, <1>2, <1>3, <1>4, <2>4, <2>5, RecorderStep DEF Checks
<1> QED  BY <1>5, <1>6, <1>7 DEF RecordStep

\* The rounds of probes and the passive results keep them.
LEMMA ProbeKeeps ==
    ASSUME Checks, NEW g \in GroupName, ProbeStep(g)
    PROVE  Checks'
<1>1. UNCHANGED <<groups, server, active, counters>>
  BY DEF ProbeStep, StartRound, ProbeEnds
<1>2. Counters /\ Recorders /\ Probes
  BY DEF Checks
<1>3. Counters'
  BY <1>1, <1>2, ChecksStay
<1>4. MembersOf(g) \subseteq Member
  BY DEF MembersOf
<1>5. CASE StartRound(g)
  <2>1. probing' = [probing EXCEPT ![g] = MembersOf(g)] /\ UNCHANGED <<socket, recorder>>
    BY <1>5 DEF StartRound
  <2>2. Recorders'
    BY <1>1, <1>2, <2>1, ChecksStay
  <2>3. probing' \in [GroupName -> SUBSET Member] /\ \A h \in GroupName : probing'[h] \subseteq MembersOf(h)
    BY <1>2, <1>4, <2>1 DEF Probes
  <2>4. Probes'
    BY <1>1, <1>2, <2>1, <2>3, MembersStay DEF Probes
  <2> QED  BY <1>3, <2>2, <2>4 DEF Checks
<1>6. CASE ProbeEnds(g)
  <2>1. PICK m \in probing[g] :
          /\ probing' = [probing EXCEPT ![g] = @ \ {m}]
          /\ socket' = [socket EXCEPT ![m] = SocketAfter(m)]
          /\ recorder' = [recorder EXCEPT ![g] = [pc |-> "reset", ok |-> ProbeSucceeds(m), todo |-> {m}]]
    BY <1>6 DEF ProbeEnds
  <2>2. m \in Member
    BY <1>2 DEF Probes
  <2>3. ProbeSucceeds(m) \in BOOLEAN
    BY DEF ProbeSucceeds
  <2>4. [pc |-> "reset", ok |-> ProbeSucceeds(m), todo |-> {m}] \in Recorder
    BY <2>2, <2>3 DEF Recorder
  <2>5. Recorders'
    BY <1>1, <1>2, <2>1, <2>4, RecorderStep
  <2>6. probing' \in [GroupName -> SUBSET Member] /\ \A h \in GroupName : probing'[h] \subseteq MembersOf(h)
    BY <1>2, <2>1 DEF Probes
  <2>7. SocketAfter(m) \in Socket
    BY DEF SocketAfter, Socket
  <2>8. socket' \in [Member -> Socket]
    BY <1>2, <2>1, <2>7 DEF Probes
  <2>9. Probes'
    BY <1>1, <1>2, <2>6, <2>8, MembersStay DEF Probes
  <2> QED  BY <1>3, <2>5, <2>9 DEF Checks
<1> QED  BY <1>5, <1>6 DEF ProbeStep

LEMMA PassiveKeeps ==
    ASSUME Checks, NEW t \in Task, NEW a \in Address, NEW ok \in BOOLEAN, PassiveResult(t, a, ok)
    PROVE  Checks'
<1> DEFINE todo == {m \in ServersByAddr(a) : m[1] \in Enabled}
           r == [pc |-> "reset", ok |-> ok, todo |-> todo]
<1>1. UNCHANGED <<groups, server, active, counters, probing, socket>> /\ todo # {}
  BY DEF PassiveResult
<1>2. recorder' = [recorder EXCEPT ![t] = r]
  BY DEF PassiveResult
<1>3. todo \subseteq Member
  BY DEF ServersByAddr
<1>4. r \in Recorder /\ r.todo # {}
  BY <1>1, <1>3 DEF Recorder
<1> HIDE DEF r
<1> QED  BY <1>1, <1>2, <1>4, RecorderStep, ChecksStay DEF Checks

\* Servers go and come back, and the role changes.
LEMMA SurroundingsKeep ==
    ASSUME Checks, ServerChanges \/ RoleChanges
    PROVE  Checks'
<1>1. UNCHANGED <<groups, counters, probing, recorder>>
  BY DEF ServerChanges, RoleChanges
<1>2. Counters' /\ Recorders' /\ Probes
  BY <1>1, ChecksStay DEF Checks
<1>3. CASE ServerChanges
  <2>1. PICK a \in Address, c \in Condition :
          /\ server' = [server EXCEPT ![a] = c]
          /\ \/ UNCHANGED socket
             \/ socket' = [m \in Member |-> IF AddrOf(m) = a /\ OverTcp(m) THEN "stale" ELSE socket[m]]
    BY <1>3 DEF ServerChanges
  <2>2. server' \in [Address -> Condition] /\ active' = active
    BY <1>2, <1>3, <2>1 DEF Probes, ServerChanges
  <2>3. socket' \in [Member -> Socket]
    BY <1>2, <2>1 DEF Probes, Socket
  <2>4. Probes'
    BY <1>1, <1>2, <2>2, <2>3, MembersStay DEF Probes
  <2> QED  BY <1>2, <2>4 DEF Checks
<1>4. CASE RoleChanges
  <2>1. active' \in BOOLEAN /\ UNCHANGED <<server, socket>>
    BY <1>4 DEF RoleChanges
  <2>2. Probes'
    BY <1>1, <1>2, <2>1, MembersStay DEF Probes
  <2> QED  BY <1>2, <2>2 DEF Checks
<1> QED  BY <1>3, <1>4

\* Every step keeps them.
LEMMA ChecksStep == Checks /\ [HealthNext]_healthVars => Checks'
<1> SUFFICES ASSUME Checks, [HealthNext]_healthVars  PROVE Checks'
  OBVIOUS
<1>1. ASSUME UNCHANGED <<groups, counters, recorder, server, active, socket, probing>>  PROVE Checks'
  BY <1>1, ChecksStay DEF Checks
<1>2. CASE UNCHANGED healthVars
  BY <1>1, <1>2 DEF healthVars
<1>3. CASE \E t \in Task, g \in GroupName : StartSelect(t, g)
  BY <1>1, <1>3 DEF StartSelect
<1>4. CASE \E t \in Task : SelectStep(t) \/ SelectFallback(t)
  BY <1>1, <1>4 DEF SelectStep, SelectFallback
<1>5. CASE \E g \in GroupName : OtherSelects(g)
  BY <1>1, <1>5 DEF OtherSelects
<1> QED  BY <1>2, <1>3, <1>4, <1>5, RecordKeeps, ProbeKeeps, PassiveKeeps, SurroundingsKeep DEF HealthNext

\* The health checks' state has its type: counters up to their thresholds, the shared
\* round-robin counter within its group, results to record for members that there are.
THEOREM HealthTypeCorrect == HealthSpec => []HealthTypeOK
<1>1. SelectionInv /\ Checks => HealthTypeOK
  <2> SUFFICES ASSUME SelectionInv, Checks  PROVE HealthTypeOK
    OBVIOUS
  <2>1. \A x \in GroupName \cup Task : recorder[x].pc \in {"idle", "reset", "count", "mark"} /\ recorder[x].todo \subseteq Member
    BY DEF Checks, Recorders, Recorder
  <2>2. \A t \in Task : selecting[t] = NoSelect \/ selecting[t].tries \in 0..Size(selecting[t].group)
    BY DEF SelectionInv, GoesOn, SoFar
  <2>3. groups \in Layouts /\ \A g \in GroupName : next[g] \in 0..(Size(g) - 1)
    BY DEF SelectionInv
  <2> QED  BY <2>1, <2>2, <2>3 DEF HealthTypeOK, Checks, Counters, Probes
<1> QED  BY <1>1, SelectionInit, SelectionStep, ChecksInit, ChecksStep, PTL DEF HealthSpec
=============================================================================
