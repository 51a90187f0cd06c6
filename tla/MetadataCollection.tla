------------------------- MODULE MetadataCollection -------------------------
(***************************************************************************)
(* One Collect of the collectors that export a summary instead of costs:   *)
(* the forecast, AWS Budgets, Organizations metadata, commitments and      *)
(* anomalies (collector/forecast, budget, organizationmeta, commitment,    *)
(* anomaly, with the mapping of their readers), how many series their      *)
(* partials are said to have (snapshot.go, SeriesCount) and the samples    *)
(* that a scrape makes of them (metrics/cost.go, Collect), once the store  *)
(* has selected the accounts (cache/memory/store.go, mergeParts).          *)
(*                                                                         *)
(* The variables are those of CostCollection.  A figure that AWS may leave *)
(* out is a set of at most one value.                                      *)
(***************************************************************************)
EXTENDS CostCollection

CONSTANT MonthEnd       \* the day after the month's last

\* An organization has finitely many accounts.
ASSUME MetadataAssumption == \A s \in Services["organizations"] : IsFiniteSet(s.accounts)

Metadata == {"forecast", "budgets", "organizations", "commitments", "anomalies"}

\* The partial is complete.
Finish(items) ==
    /\ collected' = items /\ result' = "ok"
    /\ UNCHANGED <<inputs, next, step, values>>

\* A request fails, is cancelled or is answered with a malformed page.
MetadataFails ==
    /\ collector \in Metadata /\ result = "none"
    /\ Return("failed")

-----------------------------------------------------------------------------
(* What the partials count and expose. *)

ItemSeries(i) ==
    CASE i.kind = "forecast" -> 3
      [] i.kind = "account" -> 1
      [] i.kind = "budget" -> 1 + Cardinality(i.actual) + Cardinality(i.forecasted)
      [] i.kind = "commitment" -> Cardinality(i.figures)
      [] i.kind = "anomaly" -> 2 + Cardinality(i.impact) + Cardinality(i.lastDetected)

SeriesCount(items) == SumFunction([i \in items |-> ItemSeries(i)])

\* The samples of a scrape: the name of the metric and its labels.
Samples(i) ==
    CASE i.kind = "forecast" -> {<<bound, i.basis, i.currency>> : bound \in {"mean", "lower", "upper"}}
      [] i.kind = "account" -> {<<"info", i.id, i.name, i.status>>}
      [] i.kind = "budget" ->
            {<<"limit", i.name, i.limit>>} \cup {<<"actual", i.name, c>> : c \in i.actual}
                                           \cup {<<"forecasted", i.name, c>> : c \in i.forecasted}
      [] i.kind = "commitment" -> {<<f, i.type>> : f \in i.figures}
      [] i.kind = "anomaly" ->
            {<<"active">>, <<"count">>} \cup {<<"impact", x>> : x \in i.impact}
                                        \cup {<<"last_detected">> : d \in i.lastDetected}

\* mergeParts: the store keeps of the accounts those that are listed or, without
\* a list, those that the costs of the target name.
Published(observed) ==
    LET allowed == IF config.target.ids = <<>> THEN observed ELSE Range(config.target.ids)
    IN  {i \in collected : i.kind = "account" => i.id \in allowed}

Accounts(items) == {i \in items : i.kind = "account"}

publishedSeries(observed) ==
    SeriesCount(collected) - Cardinality(Accounts(collected)) + Cardinality(Accounts(Published(observed)))

Exposed(observed) == UNION {Samples(i) : i \in Published(observed)}

-----------------------------------------------------------------------------
(* The forecast of the rest of the month, in the first basis. *)

\* AWS may move the start of the bucket to the first day of the month.
MapForecast(results) ==
    /\ Len(results) = 1
    /\ results[1].start \in {Today, 1} /\ results[1].end = MonthEnd
    /\ results[1].lower <= results[1].mean /\ results[1].mean <= results[1].upper

ReadForecast ==
    /\ collector = "forecast" /\ result = "none"
    /\ IF MapForecast(service.results)
       THEN Finish({[kind |-> "forecast", basis |-> Bases[1], currency |-> service.currency]})
       ELSE Return("malformed")

-----------------------------------------------------------------------------
(* Budgets: those with a configured name, all of them. *)

\* Figures of one budget are in one unit, and it is a budget of costs.
mapBudget(b) == b.type = "COST" /\ b.actual \cup b.forecasted \subseteq {b.limit}

ReadBudgets ==
    /\ collector = "budgets" /\ result = "none"
    /\ LET found == {b \in service.budgets : b.name \in Range(config.target.names)}
       IN  IF /\ \A b \in found : mapBudget(b)
              /\ \A b, c \in found : b.name = c.name => b = c
              /\ {b.name : b \in found} = Range(config.target.names)
           THEN Finish({[kind |-> "budget", name |-> b.name, limit |-> b.limit,
                         actual |-> b.actual, forecasted |-> b.forecasted] : b \in found})
           ELSE Return("malformed")

-----------------------------------------------------------------------------
(* Organizations metadata: the listed accounts, or all of them when the     *)
(* store is to choose those with costs.                                     *)

States == {"PENDING_ACTIVATION", "ACTIVE", "SUSPENDED", "PENDING_CLOSURE", "CLOSED"}
Statuses == {"ACTIVE", "SUSPENDED", "PENDING_CLOSURE"}

accountStatus(a) ==
    IF a.state \in States THEN a.state ELSE IF a.status \in Statuses THEN a.status ELSE "UNKNOWN"

ReadAccounts ==
    /\ collector = "organizations" /\ result = "none"
    /\ LET ids == Range(config.target.ids)
           selected == {a \in service.accounts : ids # {} => a.id \in ids}
           malformed == \E a \in service.accounts :
                           \/ a.name = Blank \/ a.id \notin AccountIDs
                           \/ \E b \in service.accounts : a.id = b.id /\ a # b
           excess == Cardinality({a.id : a \in selected}) > config.limit.organizations
       IN  \/ malformed /\ Return("malformed")
           \/ excess /\ Return("series")
           \/ /\ ~malformed /\ ~excess
              /\ Finish({[kind |-> "account", id |-> a.id, name |-> a.name,
                          status |-> accountStatus(a)] : a \in selected})

-----------------------------------------------------------------------------
(* Commitments: four requests, merged two by two. *)

Reads == <<[type |-> "savings_plan", part |-> "utilization"], [type |-> "savings_plan", part |-> "coverage"],
           [type |-> "reservation", part |-> "utilization"],  [type |-> "reservation", part |-> "coverage"]>>

\* The figures that one request may fill in.
Figures(read) ==
    CASE read.part = "utilization" /\ read.type = "savings_plan" -> {"utilization_ratio", "net_savings"}
      [] read.part = "utilization" /\ read.type = "reservation" -> {"utilization_ratio", "unused_hours", "net_savings"}
      [] read.part = "coverage" /\ read.type = "savings_plan" -> {"coverage_ratio", "covered_spend", "on_demand_cost"}
      [] OTHER -> {"coverage_ratio", "on_demand_cost"}

\* The spend of Savings Plans is always a sum; only the ratio needs a total.
Filled(read) ==
    (service.figures[read] \cap Figures(read))
        \cup IF read = Reads[2] THEN {"covered_spend", "on_demand_cost"} ELSE {}

ReadCommitments ==
    /\ collector = "commitments" /\ result = "none" /\ next <= Len(Reads)
    /\ values' = values \cup {[type |-> Reads[next].type, part |-> Reads[next].part, figures |-> Filled(Reads[next])]}
    /\ next' = next + 1
    /\ UNCHANGED <<inputs, step, collected, result>>

\* Mutant of mergeSummaries: the net savings are left behind.
mergeSummariesWithoutSavings(type) ==
    [kind |-> "commitment", type |-> type,
     figures |-> UNION {s.figures : s \in {x \in values : x.type = type}} \ {"net_savings"}]

mergeSummaries(type) ==
    [kind |-> "commitment", type |-> type,
     figures |-> UNION {s.figures : s \in {x \in values : x.type = type}}]

FinishCommitments ==
    /\ collector = "commitments" /\ result = "none" /\ next > Len(Reads)
    /\ LET items == {mergeSummaries(type) : type \in {"savings_plan", "reservation"}}
       IN  IF SeriesCount(items) > config.limit.commitments THEN Return("series") ELSE Finish(items)

-----------------------------------------------------------------------------
(* Anomalies: their number, whether one is active, their impact and the last *)
(* day of one.                                                               *)

\* An anomaly without an end, or with one that is no date, goes on.
anomalyEndIsActive(a) == \A day \in a.end : day >= Today

ReadAnomalySummary ==
    /\ collector = "anomalies" /\ result = "none"
    /\ LET ends == UNION {a.end : a \in service.anomalies}
           item == [kind |-> "anomaly", count |-> Cardinality(service.anomalies),
                    active |-> \E a \in service.anomalies : anomalyEndIsActive(a),
                    impact |-> IF \E a \in service.anomalies : a.impact # {} THEN {"USD"} ELSE {},
                    lastDetected |-> IF ends = {} THEN {} ELSE {Max(ends)}]
       IN  IF SeriesCount({item}) > config.limit.anomalies THEN Return("series") ELSE Finish({item})

CollectMetadata ==
    \/ MetadataFails \/ ReadForecast \/ ReadBudgets \/ ReadAccounts
    \/ ReadCommitments \/ FinishCommitments \/ ReadAnomalySummary

-----------------------------------------------------------------------------
(* Properties. *)

\* What AWS reports, of what the configuration selects; without a list of accounts,
\* of those observed.
ReportedSamples(observed) ==
    CASE collector = "forecast" -> {<<b, Bases[1], service.currency>> : b \in {"mean", "lower", "upper"}}
      [] collector = "budgets" ->
            UNION {{<<"limit", b.name, b.limit>>} \cup {<<"actual", b.name, c>> : c \in b.actual}
                       \cup {<<"forecasted", b.name, c>> : c \in b.forecasted} :
                   b \in {x \in service.budgets : x.name \in Range(config.target.names)}}
      [] collector = "organizations" ->
            {<<"info", a.id, a.name, accountStatus(a)>> :
                a \in {x \in service.accounts :
                          IF config.target.ids = <<>> THEN x.id \in observed ELSE x.id \in Range(config.target.ids)}}
      [] collector = "commitments" -> UNION {{<<f, r.type>> : f \in Filled(r)} : r \in Range(Reads)}
      [] OTHER ->
            {<<"active">>, <<"count">>}
                \cup {<<"impact", "USD">> : a \in {x \in service.anomalies : x.impact # {}}}
                \cup {<<"last_detected">> : a \in {x \in service.anomalies : x.end # {}}}

\* Whatever accounts the costs of the target name by the time the store publishes
\* the partial, a scrape exposes every figure that AWS reported for what is
\* selected, once, and no other; the series counter of the collector says how
\* many; and the store does not refuse for its number of accounts what the reader
\* let through.  The partial, its count, the selection, the correction of the
\* count and the samples are computed in five places (commitment/collector.go,
\* mergeSummaries; snapshot.go, SeriesCount; store.go, mergeParts and
\* publishedSeries; metrics/cost.go, Collect).
MetadataExposed ==
    collector \in Metadata /\ result = "ok" =>
        \A observed \in SUBSET AccountIDs :
            /\ Exposed(observed) = ReportedSamples(observed)
            /\ publishedSeries(observed) = Cardinality(Exposed(observed))
            /\ collector = "organizations" =>
                  Cardinality(Accounts(Published(observed))) <= config.limit.organizations
=============================================================================
