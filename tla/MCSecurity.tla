----------------------------- MODULE MCSecurity -----------------------------
(* Small instances of the security runtime for TLC: one source address that   *)
(* the second of two listeners trusts.                                         *)
EXTENDS Security, TLC

TrustedOnSecond == {<<"l2", "a">>}
=============================================================================
