--------------------------- MODULE MCListRefresh ----------------------------
(* Small instances of the list refresh for TLC: two sources that serve        *)
(* nothing, neighbouring blocks, or everything.                                *)
EXTENDS ListRefresh

Countries == {EncodeCountry(65, 66), EncodeCountry(66, 65)}
P(addr, prefix) == [addr |-> addr, prefix |-> prefix]
SomeFeeds == {{}, {P(0, 1)}, {P(1, 2), P(2, 1)}, {P(3, 2), P(2, 2)}, {P(0, 0), P(1, 2)}}

C(threat, partial, failOpen, autoSize, trusted, allowed, denied, allow, deny, unknownAllows, cidrs, list) ==
    [threat |-> threat, partial |-> partial, failOpen |-> failOpen, autoSize |-> autoSize,
     trusted |-> trusted, allowed |-> allowed, denied |-> denied,
     allow |-> allow, deny |-> deny, unknownAllows |-> unknownAllows,
     cidrFilter |-> cidrs, geoFilter |-> list, threatIntel |-> list]
SomeConfigs ==
    {C(TRUE, TRUE, TRUE, TRUE, {P(3, 2)}, {}, {P(1, 1)}, {}, {}, TRUE, TRUE, TRUE),
     C(TRUE, FALSE, FALSE, FALSE, {P(0, 2)}, {P(1, 1), P(2, 2)}, {P(3, 2)}, {}, {}, TRUE, FALSE, TRUE),
     C(TRUE, FALSE, TRUE, TRUE, {}, {P(1, 1), P(2, 2)}, {P(3, 2)}, {}, {}, TRUE, TRUE, FALSE),
     C(FALSE, TRUE, TRUE, TRUE, {P(1, 2)}, {}, {P(3, 1)}, {EncodeCountry(65, 66)}, {}, FALSE, TRUE, TRUE),
     C(FALSE, FALSE, FALSE, FALSE, {P(3, 2)}, {}, {P(2, 2)}, {}, {EncodeCountry(66, 65)}, TRUE, FALSE, TRUE)}
=============================================================================
