----------------------------- MODULE Pagination -----------------------------
(***************************************************************************)
(* The all-or-nothing paginated reads of the AWS adapters: Cost Explorer   *)
(* usage (costexplorer/pagination.go), Organizations accounts, Budgets,    *)
(* anomalies, Savings Plans coverage, Reserved Instance totals and Athena  *)
(* results.  The loops are written differently: some count pages from one  *)
(* and check at the top, some from zero and check at the bottom; some      *)
(* reject a repeated token, some do not; some filter, some have a limit.   *)
(*                                                                         *)
(* A service answers a token with some records and the next token; token 0 *)
(* asks for the first page and, as an answer, means the empty token.  What *)
(* is read is a bag of records: the sort before a result is returned, and  *)
(* the values of records, are abstracted.                                  *)
(***************************************************************************)
EXTENDS Naturals, FiniteSets

CONSTANTS
    Items,       \* what records can be: rows, account or budget names
    LastToken,   \* tokens are 1..LastToken
    MaxPages,    \* the reader's page budget
    Limit        \* Policy.SeriesLimit of Organizations, maxRows of Athena

Tokens == 0..LastToken

ASSUME PaginationAssumption ==
    /\ IsFiniteSet(Items)
    /\ LastToken \in Nat /\ MaxPages \in Nat \ {0} /\ Limit \in Nat \ {0}

Readers == {"usage", "accounts", "budgets", "anomalies", "coverage", "reservations",
            "reservationCoverage", "results"}

VARIABLES
    reader,      \* which of the loops runs
    service,     \* what the service answers
    allowlist,   \* Organizations: {} selects all accounts; Budgets: the names wanted
    page,        \* loop variable, counted from one
    token,       \* the token of the next request
    seen,        \* seenTokens
    seenItems,   \* Organizations: seenAccounts
    values,      \* how often each record has been read
    requests,    \* how many billable requests were made
    faulted,     \* a request failed, a page was malformed, or ctx was done
    result

inputs == <<reader, service, allowlist>>
vars == <<reader, service, allowlist, page, token, seen, seenItems, values, requests, faulted, result>>

Init ==
    /\ reader \in Readers
    /\ service \in [items : [Tokens -> SUBSET Items], next : [Tokens -> Tokens]]
    /\ allowlist \in SUBSET Items
    /\ reader \notin {"accounts", "budgets"} => allowlist = {}
    /\ reader = "budgets" => allowlist # {}
    /\ reader = "accounts" => Cardinality(allowlist) <= Limit   \* organizations.New
    /\ page = 1 /\ token = 0 /\ seen = {} /\ seenItems = {}
    /\ values = [i \in Items |-> 0]
    /\ requests = 0 /\ faulted = FALSE /\ result = "none"

-----------------------------------------------------------------------------
Answer == service.items[token]
NextToken == service.next[token]

Plus(items) == [i \in Items |-> IF i \in items THEN values[i] + 1 ELSE values[i]]

\* The number of records in a bag: each of its copies counts.
Size(bag) == Cardinality(UNION {{i} \X (1..bag[i]) : i \in Items})

\* Mutant of Request: the page budget is off by one.
RequestBeyond(r) ==
    /\ reader = r /\ result = "none" /\ page <= MaxPages + 1
    /\ requests' = requests + 1

\* The loop of r is entered, and asks for one page.
Request(r) ==
    /\ reader = r /\ result = "none" /\ page <= MaxPages
    /\ requests' = requests + 1

Ends(answer) ==
    /\ result' = answer
    /\ UNCHANGED <<page, token, seen>>

\* The bottom of the loop: the next token is followed.
Follow ==
    /\ page' = page + 1
    /\ token' = NextToken
    /\ seen' = seen \cup {NextToken}
    /\ UNCHANGED result

\* The same, if it has not been followed before.
FollowNew ==
    \/ NextToken \in seen /\ Ends("error")
    \/ NextToken \notin seen /\ Follow

\* A request fails, its page is malformed, or ctx is done.
Fail ==
    /\ result = "none" /\ page <= MaxPages
    /\ faulted' = TRUE
    /\ requests' = requests + 1
    /\ Ends("error")
    /\ UNCHANGED <<inputs, seenItems, values>>

\* Mutant of PageLimit: the pages read so far are returned.
PageLimitTruncating ==
    /\ result = "none" /\ page > MaxPages
    /\ Ends("ok")
    /\ UNCHANGED <<inputs, seenItems, values, requests, faulted>>

\* The page budget is used up.  The anomaly and coverage loops detect this at
\* the bottom of the last page.
PageLimit ==
    /\ result = "none" /\ page > MaxPages
    /\ Ends("error")
    /\ UNCHANGED <<inputs, seenItems, values, requests, faulted>>

-----------------------------------------------------------------------------
(* One iteration of each loop. *)

\* UsagePaginator.Read.
UsagePage ==
    /\ Request("usage")
    /\ values' = Plus(Answer)
    /\ IF NextToken = 0 THEN Ends("ok") ELSE FollowNew
    /\ UNCHANGED <<inputs, seenItems, faulted>>

Selected == {i \in Answer : allowlist = {} \/ i \in allowlist}

\* A repeated account or one selected account too many.
AccountsRefused == Answer \cap seenItems # {} \/ Size(Plus(Selected)) > Limit

\* Organizations ReadAccounts.
AccountsPage ==
    /\ Request("accounts")
    /\ \/ /\ AccountsRefused
          /\ Ends("error")
          /\ UNCHANGED <<seenItems, values>>
       \/ /\ ~AccountsRefused
          /\ seenItems' = seenItems \cup Answer
          /\ values' = Plus(Selected)
          /\ IF NextToken = 0 THEN Ends("ok") ELSE FollowNew
    /\ UNCHANGED <<inputs, faulted>>

\* ReadBudgets: an allowlisted name may neither be repeated nor be missing.
BudgetsPage ==
    /\ Request("budgets")
    /\ \/ /\ \E i \in Answer \cap allowlist : values[i] > 0
          /\ Ends("error")
          /\ UNCHANGED values
       \/ /\ \A i \in Answer \cap allowlist : values[i] = 0
          /\ values' = Plus(Answer \cap allowlist)
          /\ IF NextToken = 0
             THEN Ends(IF \A i \in allowlist : values'[i] > 0 THEN "ok" ELSE "error")
             ELSE FollowNew
    /\ UNCHANGED <<inputs, seenItems, faulted>>

\* Mutant of LastPageRefused: the last page of the budget is refused even if it
\* is the last of the result.
LastPageRefusedAlways == page = MaxPages

LastPageRefused == NextToken # 0 /\ page = MaxPages

\* ReadAnomalySummary and readSavingsCoverage: the budget is checked at the
\* bottom, and a repeated token is followed.
SummaryPage(r) ==
    /\ Request(r)
    /\ values' = Plus(Answer)
    /\ IF LastPageRefused THEN Ends("error")
       ELSE IF NextToken = 0 THEN Ends("ok") ELSE Follow
    /\ UNCHANGED <<inputs, seenItems, faulted>>

AnomaliesPage == SummaryPage("anomalies")
CoveragePage == SummaryPage("coverage")

\* readReservations and readReservationCoverage: only the total on the first
\* page is used; the other pages are read all the same.
TotalPage(r) ==
    /\ Request(r)
    /\ values' = IF page = 1 THEN Plus(Answer) ELSE values
    /\ IF NextToken = 0 THEN Ends("ok") ELSE Follow
    /\ UNCHANGED <<inputs, seenItems, faulted>>

ReservationsPage == TotalPage("reservations")
ReservationCoveragePage == TotalPage("reservationCoverage")

\* results of the Athena reader.
ResultsPage ==
    /\ Request("results")
    /\ values' = Plus(Answer)
    /\ IF Size(values') > Limit THEN Ends("error")
       ELSE IF NextToken = 0 THEN Ends("ok") ELSE FollowNew
    /\ UNCHANGED <<inputs, seenItems, faulted>>

Done == result # "none" /\ UNCHANGED vars

Next ==
    \/ UsagePage \/ AccountsPage \/ BudgetsPage \/ AnomaliesPage \/ CoveragePage
    \/ ReservationsPage \/ ReservationCoveragePage \/ ResultsPage
    \/ Fail \/ PageLimit \/ Done

Spec == Init /\ [][Next]_vars

-----------------------------------------------------------------------------
(* The reference: what the service holds, whatever the order of requests. *)

\* A set of tokens that holds the first one and, with a token, the next one.
Closed(S) == 0 \in S /\ \A t \in S : service.next[t] \in S

\* The tokens that lead to a page of the result: the least such set.
Reach == {t \in Tokens : \A S \in SUBSET Tokens : Closed(S) => t \in S}

\* Some page is the last one: the tokens do not go round in a circle.
Finite == \E t \in Reach : service.next[t] = 0

Count(i) == Cardinality({t \in Reach : i \in service.items[t]})

Wanted(i) == reader \notin {"accounts", "budgets"} \/ i \in allowlist \/ (reader = "accounts" /\ allowlist = {})

Expected ==
    [i \in Items |-> IF reader \in {"reservations", "reservationCoverage"}
                     THEN IF i \in service.items[0] THEN 1 ELSE 0
                     ELSE IF Wanted(i) THEN Count(i) ELSE 0]

\* All or nothing: a read that succeeds returns exactly what the service holds,
\* no page missing and none counted twice, in spite of tokens that go round in
\* circles, the page budget and the limits (all eight loops).
AllOrNothing == result = "ok" => Finite /\ values = Expected

\* No read makes more billable requests than its page budget (all loops).
PageBudget == requests <= MaxPages

\* What a result must be like to be returned: finite, within the page budget,
\* repeating and missing nothing it may not, and within the limit.
WithinBounds ==
    /\ Finite /\ Cardinality(Reach) <= MaxPages
    /\ reader = "accounts" => Size(Expected) <= Limit /\ \A i \in Items : Count(i) <= 1
    /\ reader = "budgets" => \A i \in allowlist : Count(i) = 1
    /\ reader = "results" => Size(Expected) <= Limit

\* The limits are exact: unless a request fails, a read succeeds if and only if
\* the result is within bounds (the boundary of every check of the loops).
AcceptedIffWithinBounds == result # "none" /\ ~faulted => (result = "ok" <=> WithinBounds)
=============================================================================
