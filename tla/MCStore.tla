------------------------------ MODULE MCStore ------------------------------
(* An instance of SnapshotStore for TLC: the account-cost and Organizations *)
(* collectors of one target, and a forecast collector of another.           *)
EXTENDS SnapshotStore, TLC

CONSTANTS accounts1, org1, forecast2, t1, t2, r1

MCCollectors == {accounts1, org1, forecast2}
MCTargets == {t1, t2}
MCTargetOf == (accounts1 :> t1) @@ (org1 :> t1) @@ (forecast2 :> t2)

Item(t, k, key, v) == [target |-> t, kind |-> k, key |-> key, value |-> v]
CostA == Item(t1, "accountCost", "a", 1)
CostADup == Item(t1, "accountCost", "a", 2)
CostB == Item(t1, "accountCost", "b", 1)
MetaA == Item(t1, "metadata", "a", 1)
MetaB == Item(t1, "metadata", "b", 1)
Forecast == Item(t2, "forecast", "f", 1)
\* A forecast of the other target in a partial of t1: target contamination.
Foreign == Item(t2, "forecast", "f", 2)

MCItems == {CostA, CostADup, CostB, MetaA, MetaB, Forecast, Foreign}
MCPartials ==
    (accounts1 :> {{CostA}, {CostA, CostB}, {CostA, CostADup}, {CostA, Foreign}})
    @@ (org1 :> {{MetaA, MetaB}})
    @@ (forecast2 :> {{}, {Forecast}})

MCPolicyTargets == {t1}
MCAllowlist == t1 :> {}
=============================================================================
