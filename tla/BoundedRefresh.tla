--------------------------- MODULE BoundedRefresh ---------------------------
(***************************************************************************)
(* What the scheduler promises to AWS and to its targets: whatever the     *)
(* timers, retries and cancellations do, collectors run at most            *)
(* MaxConcurrency at a time and one at a time per target.                  *)
(***************************************************************************)
EXTENDS Naturals, FiniteSets

CONSTANTS Jobs, TargetOf, MaxConcurrency

VARIABLE active   \* the jobs whose Collect call is in progress

Init == active = {}

Begin(j) ==
    /\ j \notin active
    /\ Cardinality(active) < MaxConcurrency
    /\ \A k \in active : TargetOf[k] # TargetOf[j]
    /\ active' = active \cup {j}

End(j) ==
    /\ j \in active
    /\ active' = active \ {j}

Next == \E j \in Jobs : Begin(j) \/ End(j)

Spec == Init /\ [][Next]_active
=============================================================================
