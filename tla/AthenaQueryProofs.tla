------------------------- MODULE AthenaQueryProofs -------------------------
(***************************************************************************)
(* Proofs about AthenaQuery for any number of queries.                     *)
(***************************************************************************)
EXTENDS AthenaQuery, TLAPS

\* The program points at which the reader holds the identifier of a query that
\* nobody has asked to stop.
Holding == {"check", "get", "switch", "sleep", "stop", "results"}

\* What the reader knows at each program point: a terminal status is still what
\* Athena has, so that the branch taken for it remains justified.
PointInv ==
    /\ pc = "start" => ~id /\ ~stopAsked /\ execution = "none"
    /\ pc \in Holding => id /\ ~stopAsked /\ execution # "none"
    /\ pc # "idle" => result = "none"
    /\ pc = "switch" /\ status \in Terminal => execution = status

IInv == TypeOK /\ PointInv /\ NeverAbandoned /\ RowsOnlyFromSuccess

-----------------------------------------------------------------------------
\* The initial state satisfies the inductive invariant.
LEMMA InitIInv == Init => IInv
<1> SUFFICES ASSUME Init PROVE IInv
  OBVIOUS
<1>1. TypeOK
  <2>1. queries \in 0..MaxQueries
    BY AthenaAssumption DEF Init
  <2>2. QED
    BY <2>1 DEF Init, TypeOK, States, Executions
<1>2. PointInv /\ NeverAbandoned /\ RowsOnlyFromSuccess
  BY DEF Init, PointInv, Holding, NeverAbandoned, RowsOnlyFromSuccess, Active
<1>3. QED
  BY <1>1, <1>2 DEF IInv

USE DEF IInv, TypeOK, PointInv, Holding, NeverAbandoned, RowsOnlyFromSuccess,
        States, Executions, Active, Terminal, Goto, Return

\* Every step preserves it.
LEMMA NextIInv == IInv /\ [Next]_vars => IInv'
<1> SUFFICES ASSUME IInv, [Next]_vars PROVE IInv'
  OBVIOUS
<1>1. CASE Begin
  <2>1. queries' \in 0..MaxQueries
    BY <1>1, AthenaAssumption DEF Begin
  <2>2. QED
    BY <1>1, <2>1 DEF Begin
<1>2. CASE Started
  BY <1>2 DEF Started
<1>3. CASE StartFails
  BY <1>3 DEF StartFails
<1>4. CASE CheckDone
  BY <1>4 DEF CheckDone
<1>5. CASE GotStatus
  BY <1>5 DEF GotStatus
<1>6. CASE GetFails
  BY <1>6 DEF GetFails
<1>7. CASE Switch
  BY <1>7 DEF Switch
<1>8. CASE PollTimer
  BY <1>8 DEF PollTimer
<1>9. CASE SleepDone
  BY <1>9 DEF SleepDone
<1>10. CASE StopPendingQuery
  BY <1>10 DEF StopPendingQuery
<1>11. CASE ReadResults
  BY <1>11 DEF ReadResults
<1>12. CASE ContextDone
  BY <1>12 DEF ContextDone
<1>13. CASE Progress
  BY <1>13 DEF Progress
<1>14. CASE UNCHANGED vars
  BY <1>14 DEF vars
<1>15. QED
  BY <1>1, <1>2, <1>3, <1>4, <1>5, <1>6, <1>7, <1>8, <1>9, <1>10, <1>11, <1>12, <1>13, <1>14
     DEF Next, Query, Quiet

\* The inductive invariant holds in every reachable state of the reader.
THEOREM AthenaInductive == Spec => []IInv
BY InitIInv, NextIInv, PTL DEF Spec

\* Every variable keeps its type: the reader handles only the six states of
\* execution.go.
THEOREM AthenaTypeCorrect == Spec => []TypeOK
BY AthenaInductive, PTL DEF IInv

\* A query whose identifier is known has ended or was asked to stop when query
\* returns, for any number of queries (reader.go, stopPendingQuery).
THEOREM QueryNeverAbandoned == Spec => []NeverAbandoned
BY AthenaInductive, PTL DEF IInv

\* Rows come only from a query that succeeded and was not asked to stop
\* (reader.go, the switch of query).
THEOREM RowsFromSuccess == Spec => []RowsOnlyFromSuccess
BY AthenaInductive, PTL DEF IInv
=============================================================================
