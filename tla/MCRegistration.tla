--------------------------- MODULE MCRegistration ---------------------------
(* Small instances of registration for TLC. *)
EXTENDS Registration, TLC

AnyName == Permutations(Task) \cup Permutations(Device) \cup Permutations(Upstream)
=============================================================================
