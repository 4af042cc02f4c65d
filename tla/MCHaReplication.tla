-------------------------- MODULE MCHaReplication --------------------------
(* Small instances of the replication for TLC. *)
EXTENDS HaReplication

\* persistence.required on and off
EitherMode == BOOLEAN
OnlyBackground == {FALSE}
=============================================================================
