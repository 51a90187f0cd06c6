---------------------------- MODULE AthenaQuery ----------------------------
(***************************************************************************)
(* One CUR query of the Athena reader: query and stopPendingQuery of       *)
(* internal/aws/athena/reader.go with the states of execution.go, run      *)
(* against the query execution inside Athena.  One deadline covers         *)
(* submission, polling and the results, and the worker's context may be    *)
(* cancelled at any moment; the stop request has its own, uncancelled,     *)
(* context.  The pages of the results are module Pagination's concern.     *)
(***************************************************************************)
EXTENDS Naturals

CONSTANT MaxQueries   \* bound on the queries of one reader

ASSUME AthenaAssumption == MaxQueries \in Nat \ {0}

VARIABLES
    pc,        \* where query is
    done,      \* queryCtx is done: cancelled or past its deadline
    execution, \* what Athena does with the query ("none": no query)
    id,        \* the reader knows the QueryExecutionId
    status,    \* the answer of GetQueryExecution being handled
    stopAsked, \* StopQueryExecution was called
    result,    \* what query returned
    queries    \* how many queries have been run

vars == <<pc, done, execution, id, status, stopAsked, result, queries>>

Active == {"queued", "running"}
Terminal == {"succeeded", "failed", "cancelled"}
Executions == {"none"} \cup Active \cup Terminal

\* mapQueryState: every other state maps to "unknown".
States == Active \cup Terminal \cup {"unknown"}

Init ==
    /\ pc = "idle" /\ done = FALSE /\ execution = "none" /\ id = FALSE
    /\ status = "unknown" /\ stopAsked = FALSE /\ result = "none" /\ queries = 0

Goto(from, to) == pc = from /\ pc' = to

\* A new call of QueryCosts or QueryTagCosts; earlier queries are history.
Begin ==
    /\ queries < MaxQueries
    /\ Goto("idle", "start")
    /\ queries' = queries + 1
    /\ done' = FALSE /\ execution' = "none" /\ id' = FALSE
    /\ stopAsked' = FALSE /\ result' = "none"
    /\ UNCHANGED status

Return(from, answer) ==
    /\ Goto(from, "idle")
    /\ result' = answer
    /\ UNCHANGED <<done, status, queries>>

\* StartQueryExecution succeeds.
Started ==
    /\ Goto("start", "check")
    /\ execution' = "queued" /\ id' = TRUE
    /\ UNCHANGED <<done, status, stopAsked, result, queries>>

\* StartQueryExecution fails, or names no execution: Athena may or may not have
\* accepted the query.
StartFails ==
    /\ execution' \in {"none", "queued"}
    /\ Return("start", "error")
    /\ UNCHANGED <<id, stopAsked>>

\* The top of the loop: a done context ends the query.
CheckDone ==
    /\ pc = "check"
    /\ pc' = IF done THEN "stop" ELSE "get"
    /\ UNCHANGED <<done, execution, id, status, stopAsked, result, queries>>

\* GetQueryExecution answers with the state of the moment, or one unknown to us.
GotStatus ==
    /\ Goto("get", "switch")
    /\ status' \in {execution, "unknown"}
    /\ UNCHANGED <<done, execution, id, stopAsked, result, queries>>

\* Mutant of GetFails: the query is left to itself.
GetFailsSilently ==
    /\ Return("get", "error")
    /\ UNCHANGED <<execution, id, stopAsked>>

\* GetQueryExecution fails or answers without a status.
GetFails ==
    /\ Goto("get", "stop")
    /\ UNCHANGED <<done, execution, id, status, stopAsked, result, queries>>

\* Mutant of Switch: a query that is still queued has its results read.
SwitchEager ==
    /\ pc = "switch"
    /\ \/ status \in {"queued", "succeeded"} /\ pc' = "results" /\ UNCHANGED result
       \/ status \in {"failed", "cancelled"} /\ pc' = "idle" /\ result' = "error"
       \/ status = "unknown" /\ pc' = "stop" /\ UNCHANGED result
       \/ status = "running" /\ pc' = "sleep" /\ UNCHANGED result
    /\ UNCHANGED <<done, execution, id, status, stopAsked, queries>>

\* The switch on the state.
Switch ==
    /\ pc = "switch"
    /\ \/ status = "succeeded" /\ pc' = "results" /\ UNCHANGED result
       \/ status \in {"failed", "cancelled"} /\ pc' = "idle" /\ result' = "error"
       \/ status = "unknown" /\ pc' = "stop" /\ UNCHANGED result
       \/ status \in Active /\ pc' = "sleep" /\ UNCHANGED result
    /\ UNCHANGED <<done, execution, id, status, stopAsked, queries>>

\* The select of the poll timer.
PollTimer ==
    /\ Goto("sleep", "check")
    /\ UNCHANGED <<done, execution, id, status, stopAsked, result, queries>>

SleepDone ==
    /\ done
    /\ Goto("sleep", "stop")
    /\ UNCHANGED <<done, execution, id, status, stopAsked, result, queries>>

\* stopPendingQuery: best effort, then the cause is returned.
StopPendingQuery ==
    /\ Return("stop", "error")
    /\ stopAsked' = TRUE
    /\ execution' \in {execution, IF execution \in Active THEN "cancelled" ELSE execution}
    /\ UNCHANGED id

\* results: all the rows, or an error.
ReadResults ==
    /\ \/ Return("results", "error")
       \/ Return("results", "rows")
    /\ UNCHANGED <<execution, id, stopAsked>>

\* Mutant of ContextDone: the query has no deadline of its own.
ContextDoneNever == FALSE /\ UNCHANGED vars

\* The deadline passes or the worker's context is cancelled.
ContextDone ==
    /\ pc # "idle" /\ ~done
    /\ done' = TRUE
    /\ UNCHANGED <<pc, execution, id, status, stopAsked, result, queries>>

\* Athena works on the query.
Progress ==
    /\ execution \in Active
    /\ execution' \in (IF execution = "queued" THEN {"running"} ELSE {}) \cup Terminal
    /\ UNCHANGED <<pc, done, id, status, stopAsked, result, queries>>

Query ==
    \/ Started \/ StartFails \/ CheckDone \/ GotStatus \/ GetFails \/ Switch
    \/ PollTimer \/ SleepDone \/ StopPendingQuery \/ ReadResults

Quiet == pc = "idle" /\ queries = MaxQueries /\ execution \notin Active /\ UNCHANGED vars

Next == Begin \/ Query \/ ContextDone \/ Progress \/ Quiet

Spec == Init /\ [][Next]_vars

\* Requests return, timers fire and the deadline passes; Athena need not make
\* any progress.
FairSpec == Spec /\ WF_vars(Query) /\ WF_vars(ContextDone)

-----------------------------------------------------------------------------
(* Properties. *)

\* Every variable has its type; what the reader handles is one of the six
\* states of execution.go.
TypeOK ==
    /\ pc \in {"idle", "start", "check", "get", "switch", "sleep", "stop", "results"}
    /\ done \in BOOLEAN /\ execution \in Executions /\ id \in BOOLEAN
    /\ status \in States /\ stopAsked \in BOOLEAN
    /\ result \in {"none", "rows", "error"} /\ queries \in 0..MaxQueries

\* A query whose identifier the reader learnt is never abandoned: when query
\* returns, it has ended inside Athena or was asked to stop, whichever call
\* failed and whenever the context was cancelled (reader.go, stopPendingQuery).
NeverAbandoned == pc = "idle" /\ id /\ execution \in Active => stopAsked

\* Rows come only from a query that succeeded and was not asked to stop
\* (reader.go, the switch of query).
RowsOnlyFromSuccess ==
    result = "rows" \/ pc = "results" => execution = "succeeded" /\ ~stopAsked

\* query returns, even if Athena never finishes the query (reader.go, queryCtx).
QueryReturns == pc # "idle" ~> pc = "idle"
=============================================================================
