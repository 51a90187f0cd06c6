---------------------------- MODULE MCScheduler ----------------------------
(* Instances of Scheduler for TLC: model values for jobs and targets. *)
EXTENDS Scheduler, TLC

CONSTANTS j1, j2, j3, t1, t2

\* Two collectors of one target and one of another: both kinds of contention.
ThreeJobs == {j1, j2, j3}
TwoTargets == {t1, t2}
Shared == (j1 :> t1) @@ (j2 :> t1) @@ (j3 :> t2)
SomeStartup == [j \in ThreeJobs |-> j # j3]
\* The two collectors of t1 are interchangeable.
SameTargetSymmetry == Permutations({j1, j2})

\* Two jobs, of one target or of two.
TwoJobs == {j1, j2}
Together == [j \in TwoJobs |-> t1]
Apart == (j1 :> t1) @@ (j2 :> t2)
OneStartup == [j \in TwoJobs |-> j = j1]
=============================================================================
