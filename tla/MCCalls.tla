------------------------------ MODULE MCCalls ------------------------------
(* An instance of AwsCalls for TLC: a collector that makes two calls, and   *)
(* one that makes one call under a deadline.                                *)
EXTENDS AwsCalls, TLC

CONSTANTS t1, t2

Both == {t1, t2}
Calls == (t1 :> 2) @@ (t2 :> 1)
=============================================================================
