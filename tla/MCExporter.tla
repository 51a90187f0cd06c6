---------------------------- MODULE MCExporter ----------------------------
(* Instances of Exporter for TLC: one required and one optional collector. *)
EXTENDS Exporter, TLC

CONSTANTS total, budgets, t1, p1

TwoJobs == {total, budgets}
OneTarget == {t1}
Together == [j \in TwoJobs |-> t1]
Startup == [j \in TwoJobs |-> TRUE]

\* The required collector alone.
OneJob == {total}
Alone == [j \in OneJob |-> t1]
AloneStartup == [j \in OneJob |-> TRUE]
=============================================================================
