---------------------------- MODULE MCUdpForward ----------------------------
(* Small instances of the UDP path for TLC. *)
EXTENDS UdpForward, TLC

\* Workers are interchangeable.
AnyWorker == Permutations(Worker)

\* A call beside another request, one that is cancelled, one that is acknowledged.
R(t, method) == [txn |-> t, method |-> method]
SomeSessions ==
    {{R(t, "INVITE"), r} : t \in Invite, r \in Request \ {R(u, "INVITE") : u \in Invite}}
=============================================================================
