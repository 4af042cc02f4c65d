--------------------------- MODULE MCCallRouting ----------------------------
(* Small instances of a call for TLC: two devices of one user, one of them    *)
(* behind a NAT, and two servers, one of them also in a group of its own.      *)
EXTENDS CallRouting

Users   == [p \in Phone |-> "user"]
Groups  == [main |-> Server, alone |-> {"s1"}]
SomeRoutes == <<[listener |-> "both", domain |-> "domain", prefix |-> Every, group |-> "alone"],
                [listener |-> Every, domain |-> Every, prefix |-> "server", group |-> "main"]>>
Keys    == [both |-> {"udp", "tcp"}, udp |-> {"udp"}]

C(public, internal, local, transport, named, param, rewrite, strategy, recordRoute, group) ==
    [public |-> public, internal |-> internal, local |-> local, transport |-> transport,
     named |-> named, param |-> param,
     rewrite |-> rewrite, strategy |-> strategy, recordRoute |-> recordRoute,
     listener |-> transport, group |-> group]
SomeConfigs ==
    {C("addr", "addr", {"int"}, "udp", {}, None, TRUE, "dialog-id", TRUE, "main"),
     C("stun", "probe", {"int"}, "udp", {}, "tcp", FALSE, "call-id", TRUE, "main"),
     C("moving", "addr", {"int"}, "tcp", {"p1"}, None, TRUE, "call-id", TRUE, "alone"),
     C("name", "external", {"int"}, "tcp", {"p1"}, "udp", TRUE, "request-uri", TRUE, "alone"),
     C("none", "default", {"int", "pub"}, "tcp", {}, None, FALSE, "dialog-id", TRUE, "alone"),
     C("addr", "addr", {"int"}, "udp", {}, None, TRUE, "call-id", FALSE, "main")}
=============================================================================
