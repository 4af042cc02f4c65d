---------------------------- MODULE MCTcpUpstream ----------------------------
(* Small instances of the TCP path for TLC. *)
EXTENDS TcpUpstream

TwoWorkers == 0..1
OneWorker  == {0}
=============================================================================
