-------------------------- MODULE MCUpstreamHealth --------------------------
(* Small instances of the upstream groups for TLC. *)
EXTENDS UpstreamHealth

\* A group that lists its server twice, or two groups that share a server, the
\* second without health checks.
TwiceOrShared ==
    { [g \in {"g1"} |-> [servers |-> <<"a", "a">>, enabled |-> TRUE, transport |-> "udp"]],
      [g \in {"g1", "g2"} |-> [servers |-> <<"a">>, enabled |-> g = "g1", transport |-> "tcp"]] }
=============================================================================
