---------------------------- MODULE MCVerifier ----------------------------
(* An instance of TargetVerifier for TLC: two collectors of one target,     *)
(* credentials that rotate from the right account to a wrong one or back.   *)
EXTENDS TargetVerifier, TLC

\* The first and the last credentials are those of another account.
OnlySecond == [i \in 1..MaxCreds |-> i = 2]
=============================================================================
