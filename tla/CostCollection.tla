--------------------------- MODULE CostCollection ---------------------------
(***************************************************************************)
(* One Collect of a cost collector, from what AWS holds to the series of   *)
(* the partial: the grouped collectors and the total (collector/grouped.go,*)
(* cardinality.go, total), Cost Explorer tags (collector/tag) and CUR      *)
(* (collector/cur), with the mapping of responses (costexplorer/mapping.go,*)
(* tag_mapping.go; athena/reader.go), the loop over cost bases of          *)
(* filteredReader (bootstrap.go) and the series budgets that validation    *)
(* accepts (config/validation.go).                                         *)
(*                                                                         *)
(* Amounts are integers.  A label is a string, compared through Order.     *)
(* Cost Explorer answers a query with entries [day, key, currency,         *)
(* amount], no two of them equal; the CUR table holds lines [day,          *)
(* currency, amounts, tags] with an amount in every basis.  Pages are      *)
(* module Pagination's concern.                                            *)
(***************************************************************************)
EXTENDS Integers, Sequences, FiniteSets, FiniteSetsExt, Functions

CONSTANTS
    Bases,          \* collection.cost_explorer.cost_bases, a sequence
    TagKeys,        \* the tag keys that may be configured
    MaxValues,      \* max_values of each key
    MaxCurrencies,  \* collection.cur.max_currencies
    Order,          \* the order of labels
    AccountIDs,     \* the labels that are account IDs
    Today,          \* the billing day; the month is 1..Today
    Services        \* what AWS may hold, for each collector

Grouped == {"service", "region", "account"}
Collectors == Grouped \cup {"total", "tags", "cur"}
Windows == {"daily", "mtd"}
Blank == ""
Untagged == "__untagged__"
Other == "__other__"     \* dimensions.overflow_label
NoKey == "-"             \* the tag key of a series that is no tag cost
NoCollector == "-"

ASSUME CollectionAssumption ==
    /\ Bases \in Seq(STRING) /\ Bases # <<>> /\ IsInjective(Bases)
    /\ NoKey \notin TagKeys
    /\ MaxValues \in [TagKeys -> Nat \ {0}]
    /\ MaxCurrencies \in Nat \ {0} /\ Today \in Nat \ {0}
    /\ IsInjective(Order)

VARIABLES
    collector,   \* the collector that runs, or NoCollector
    config,      \* its target, and the series limits: [target, limit]
    service,     \* what AWS holds
    next,        \* the number of the next query
    step,        \* what Collect does next
    values,      \* what was read in the current window
    collected,   \* the series of the partial so far
    result       \* "none", "ok", or why Collect returned an error

inputs == <<collector, config, service>>
vars == <<collector, config, service, next, step, values, collected, result>>

-----------------------------------------------------------------------------
(* Validation of the series budgets. *)

Enabled(t, integration) == integration \in t.integrations

\* Mutant of tagSeriesBudget: the two windows are forgotten.
tagSeriesBudgetOneWindow(t, currencyCount) ==
    SumFunctionOnSet(MaxValues, Range(t.keys)) * Len(Bases) * currencyCount

tagSeriesBudget(t, currencyCount) ==
    SumFunctionOnSet(MaxValues, Range(t.keys)) * 2 * Len(Bases) * currencyCount

\* With CUR the columns of the table match the keys exactly.
validateTags(t, limit) ==
    Enabled(t, "tags") =>
        /\ Enabled(t, "cur") \/ Enabled(t, "cost_explorer")
        /\ t.keys # <<>> /\ Range(t.keys) \subseteq TagKeys /\ IsInjective(t.keys)
        /\ Enabled(t, "cur") => Range(t.columns) = Range(t.keys)
        /\ tagSeriesBudget(t, IF Enabled(t, "cur") THEN MaxCurrencies ELSE 1) <= limit.tags

validateCURSeriesBudget(t, limit) ==
    Enabled(t, "cur") =>
        2 * Len(Bases) * MaxCurrencies
            + (IF Enabled(t, "tags") THEN tagSeriesBudget(t, MaxCurrencies) ELSE 0) <= limit.cur

\* Before any Collect, and the start of one.
Idle ==
    /\ collector = NoCollector /\ config = <<>> /\ service = <<>>
    /\ next = 1 /\ step = "read" /\ values = {} /\ collected = {} /\ result = "none"

Begin(c, cfg) ==
    /\ collector' = c /\ config' = cfg /\ service' \in Services[c]
    /\ UNCHANGED <<next, step, values, collected, result>>

-----------------------------------------------------------------------------
(* Queries and the mapping of their answers. *)

Queries == [basis : Range(Bases), window : Windows, tagKey : TagKeys \cup {NoKey}]

\* What AWS answers: finitely many entries and lines, of the days asked for.
Entries == [day : 1..Today, key : STRING, currency : STRING, amount : Int]
Lines == [day : 1..Today, currency : STRING, amounts : [Range(Bases) -> Int], tags : [TagKeys -> STRING]]

ASSUME ServicesAssumption ==
    /\ \A c \in Collectors \ {"cur"} : \A s \in Services[c], q \in Queries :
          IsFiniteSet(s.usage[q]) /\ s.usage[q] \subseteq Entries
    /\ \A s \in Services["cur"] : \A table \in {s.table, s.tagTable} :
          IsFiniteSet(table) /\ table \subseteq Lines

\* The order of the queries: for each window every basis, or for each basis
\* and tag key both windows.
Plan ==
    LET n == Len(Bases)
        m == Len(config.target.keys)
    IN  IF collector = "tags"
        THEN [i \in 1..(2 * m * n) |->
                [basis  |-> Bases[(((i - 1) \div 2) \div m) + 1],
                 window |-> IF i % 2 = 1 THEN "daily" ELSE "mtd",
                 tagKey |-> config.target.keys[(((i - 1) \div 2) % m) + 1]]]
        ELSE [i \in 1..(2 * n) |->
                [basis  |-> Bases[((i - 1) % n) + 1],
                 window |-> IF i <= n THEN "daily" ELSE "mtd",
                 tagKey |-> NoKey]]

\* One exported series.  source tells apart series with the same labels.
Series(q, value, currency, amount, source) ==
    [basis |-> q.basis, window |-> q.window, tagKey |-> q.tagKey, value |-> value,
     currency |-> currency, amount |-> amount, source |-> source]

Label(s) == <<s.basis, s.window, s.tagKey, s.value, s.currency>>

\* Money.Add over a set: the callers keep currencies apart.
SumOf(set) == SumFunction([x \in set |-> x.amount])

\* NewDimension names the empty region (a key stands for its trimmed form); it refuses a service or an account
\* without a name.
NewDimension(key) == IF collector = "region" /\ key = Blank THEN "global" ELSE key

Wellformed(entries) ==
    collector \in {"service", "account"} => \A e \in entries : e.key # Blank

mapCost(q, e, value) == Series(q, value, e.currency, e.amount, <<e.day, e.key>>)

\* Mutant of aggregateMonthToDate: the currency is not part of the key.
aggregateMonthToDateAnyCurrency(q, rows) ==
    {Series(q, v, (CHOOSE r \in rows : r.value = v).currency,
            SumOf({r \in rows : r.value = v}), <<0, "sum">>) : v \in {r.value : r \in rows}}

\* The days of a month, added up by value and currency.
aggregateMonthToDate(q, rows) ==
    {Series(q, vc[1], vc[2], SumOf({r \in rows : r.value = vc[1] /\ r.currency = vc[2]}), <<0, "sum">>) :
        vc \in {<<r.value, r.currency>> : r \in rows}}

MapUsage(q, entries) ==
    LET rows == {mapCost(q, e, NewDimension(e.key)) : e \in entries}
    IN  IF q.window = "daily" THEN rows ELSE aggregateMonthToDate(q, rows)

\* The same for tags, where the empty value is named.
mapTagUsage(q, entries) ==
    LET rows == {mapCost(q, e, IF e.key = Blank THEN Untagged ELSE e.key) : e \in entries}
    IN  IF q.window = "daily" THEN rows ELSE aggregateMonthToDate(q, rows)

-----------------------------------------------------------------------------
(* LimitDimensions and LimitValues. *)

\* Mutant of Before: the smallest values come first.
BeforeAscending(r, s) == r.amount < s.amount \/ (r.amount = s.amount /\ Order[r.value] < Order[s.value])

Before(r, s) == r.amount > s.amount \/ (r.amount = s.amount /\ Order[r.value] < Order[s.value])

\* The first n of the ranked series.  The sort is stable: series equal in amount
\* and value, of two currencies or days, keep the order of the answer.
Top(series, n) ==
    {kept \in kSubset(n, series) : \A r \in kept, s \in series \ kept : ~Before(s, r)}

OneCurrency(series) == \A r, s \in series : r.currency = s.currency

\* Mutant of Keep: one series more than the limit.
KeepLimit(limit) == limit

\* How many series are exported by themselves when there are too many.
Keep(limit) == limit - 1

\* The rest, folded into the overflow label.
Folded(rest) ==
    LET r == CHOOSE x \in rest : TRUE
    IN  Series(r, Other, r.currency, SumOf(rest), <<0, "fold">>)

\* What limitDimensionGroup and LimitValues may return, and whether they may refuse.
limitDimensionGroup(series, limit) ==
    IF Cardinality(series) <= limit THEN {series}
    ELSE {kept \cup {Folded(series \ kept)} :
             kept \in {k \in Top(series, Keep(limit)) : OneCurrency(series \ k)}}

\* The same algorithm for the values of one tag key.
LimitValues(series, limit) == limitDimensionGroup(series, limit)

Mixed(series, limit) ==
    /\ Cardinality(series) > limit
    /\ \E kept \in Top(series, Keep(limit)) : ~OneCurrency(series \ kept)

Unions(xs, ys) == {x \cup y : x \in xs, y \in ys}

\* Every group bounded by itself.
LimitedEach(groups, limits) ==
    MapThenFoldSet(Unions, {{}},
                   LAMBDA g : limitDimensionGroup(g, limits[g]),
                   LAMBDA s : CHOOSE g \in s : TRUE, groups)

\* LimitDimensions keeps the bases apart.
ByBasis == {{s \in values : s.basis = b} : b \in Range(Bases)}

LimitDimensions == LimitedEach(ByBasis, [g \in ByBasis |-> config.limit.dimensions])

\* Mutant of Reserved: the overflow label is not looked for.
ReservedNever == FALSE

Reserved == \E s \in values : s.value = Other

-----------------------------------------------------------------------------
(* Collect. *)

Return(why) ==
    /\ result' = why
    /\ UNCHANGED <<inputs, next, step, values, collected>>

\* A request fails, its answer is malformed, or ctx is done: in the reader of
\* costs, of tags or of CUR.
ReadCostsFails ==
    /\ collector \in Grouped \cup {"total"} /\ result = "none" /\ step = "read"
    /\ Return("failed")

ReadTagCostsFails ==
    /\ collector = "tags" /\ result = "none" /\ next <= Len(Plan)
    /\ Return("failed")

QueryFails ==
    /\ collector = "cur" /\ result = "none" /\ step \in {"read", "tags"}
    /\ Return("failed")

Query == Plan[next]

\* filteredReader.ReadCosts: one basis of the current window.
ReadCosts ==
    /\ collector \in Grouped \cup {"total"} /\ result = "none" /\ step = "read"
    /\ IF Wellformed(service.usage[Query])
       THEN /\ values' = values \cup MapUsage(Query, service.usage[Query])
            /\ next' = next + 1
            /\ step' = IF Query.basis = Bases[Len(Bases)] THEN "limit" ELSE "read"
            /\ UNCHANGED <<inputs, collected, result>>
       ELSE Return("malformed")

\* The series of one window are complete.
EndWindow(series) ==
    /\ collected' = collected \cup series
    /\ values' = {} /\ step' = "read"
    /\ result' = IF next > Len(Plan) THEN "ok" ELSE "none"
    /\ UNCHANGED <<inputs, next>>

\* The total collector has nothing to bound.
AppendTotals ==
    /\ collector = "total" /\ result = "none" /\ step = "limit"
    /\ EndWindow(values)

ValidAccounts == collector = "account" => \A s \in values : s.value \in AccountIDs

\* CollectGrouped: validate, then LimitDimensions.
AppendLimited ==
    /\ collector \in Grouped /\ result = "none" /\ step = "limit"
    /\ ValidAccounts /\ ~Reserved
    /\ \E bounded \in LimitDimensions : EndWindow(bounded)

RefuseGrouped ==
    /\ collector \in Grouped /\ result = "none" /\ step = "limit"
    /\ \/ ~ValidAccounts /\ Return("malformed")
       \/ ValidAccounts /\ Reserved /\ Return("reserved")
       \/ /\ ValidAccounts /\ ~Reserved
          /\ \E g \in ByBasis : Mixed(g, config.limit.dimensions)
          /\ Return("mixed")

\* The tag collector: one query, bounded by itself.
ReadTagCosts ==
    /\ collector = "tags" /\ result = "none" /\ next <= Len(Plan)
    /\ LET rows == mapTagUsage(Query, service.usage[Query])
       IN  \/ /\ \E bounded \in LimitValues(rows, MaxValues[Query.tagKey]) : collected' = collected \cup bounded
              /\ next' = next + 1
              /\ UNCHANGED <<inputs, step, values, result>>
           \/ Mixed(rows, MaxValues[Query.tagKey]) /\ Return("mixed")

FinishTags ==
    /\ collector = "tags" /\ result = "none" /\ next > Len(Plan)
    /\ Return(IF Cardinality(collected) > config.limit.tags THEN "series" ELSE "ok")

-----------------------------------------------------------------------------
(* CUR: two queries of the table, as buildQuery writes them.  The table holds *)
(* the lines of the month up to Today.                                        *)

InWindow(line, window) == window = "mtd" \/ line.day = Today

\* basisExpression chooses the columns that are the amount of a line.
basisExpression(line, basis) ==
    [day |-> line.day, currency |-> line.currency, tags |-> line.tags, amounts |-> line.amounts,
     amount |-> line.amounts[basis]]

\* The lines of a window, in one basis.
Billed(table, q) == {basisExpression(l, q.basis) : l \in {x \in table : InWindow(x, q.window)}}

\* buildQuery: the rows of SELECT ... GROUP BY window, currency, cost_basis,
\* and, if asked for tags, tag_key, tag_value with the empty value named.
TagValue(line, key) ==
    CASE key = NoKey -> Blank
      [] key # NoKey /\ line.tags[key] = Blank -> Untagged
      [] OTHER -> line.tags[key]

buildQuery(table, tags) ==
    UNION {LET lines == Billed(table, q)
           IN  {[query |-> q, currency |-> cv[1], value |-> cv[2],
                 amount |-> SumOf({l \in lines : l.currency = cv[1] /\ TagValue(l, q.tagKey) = cv[2]})] :
                   cv \in {<<l.currency, TagValue(l, q.tagKey)>> : l \in lines}} :
             q \in {x \in Queries : x.tagKey \in IF tags THEN Range(config.target.columns) ELSE {NoKey}}}

mapCosts(rows) == {Series(r.query, Blank, r.currency, r.amount, <<0, "sum">>) : r \in rows}
mapTagCosts(rows) == {Series(r.query, r.value, r.currency, r.amount, <<0, "sum">>) : r \in rows}

CostRows(table) == mapCosts(buildQuery(table, FALSE))
TagRows(table) == mapTagCosts(buildQuery(table, TRUE))

Currencies(series) == {s.currency : s \in series}

\* QueryCosts and the first test of max_currencies.
QueryCosts ==
    /\ collector = "cur" /\ result = "none" /\ step = "read"
    /\ IF Cardinality(Currencies(CostRows(service.table))) > MaxCurrencies
       THEN Return("currencies")
       ELSE /\ collected' = CostRows(service.table)
            /\ step' = IF Enabled(config.target, "tags") THEN "tags" ELSE "finish"
            /\ UNCHANGED <<inputs, next, values, result>>

\* limitTags groups by everything but the value.
TagGroups(rows) ==
    {{r \in rows : r.basis = s.basis /\ r.window = s.window /\ r.tagKey = s.tagKey
                   /\ r.currency = s.currency} : s \in rows}

\* The limit of a group: max_values of its tag key.
GroupLimit(group) == MaxValues[(CHOOSE s \in group : TRUE).tagKey]

\* QueryTagCosts and limitTags, with the test of the tag series limit.  A group
\* has one currency, so that LimitValues cannot refuse it, and a key that the
\* configuration lists, since buildQuery asked for the columns of those.
QueryTagCosts ==
    /\ collector = "cur" /\ result = "none" /\ step = "tags"
    /\ LET groups == TagGroups(TagRows(service.tagTable))
       IN  \E tags \in LimitedEach(groups, [g \in groups |-> GroupLimit(g)]) :
              IF Cardinality(tags) > config.limit.tags
              THEN Return("series")
              ELSE /\ collected' = collected \cup tags
                   /\ step' = "finish"
                   /\ UNCHANGED <<inputs, next, values, result>>

\* The last tests: the union of the currencies, and all series.
FinishCUR ==
    /\ collector = "cur" /\ result = "none" /\ step = "finish"
    /\ Return(IF Cardinality(Currencies(collected)) > MaxCurrencies THEN "currencies"
              ELSE IF Cardinality(collected) > config.limit.cur THEN "series" ELSE "ok")

CollectCosts ==
    \/ ReadCostsFails \/ ReadTagCostsFails \/ QueryFails
    \/ ReadCosts \/ AppendTotals \/ AppendLimited \/ RefuseGrouped
    \/ ReadTagCosts \/ FinishTags
    \/ QueryCosts \/ QueryTagCosts \/ FinishCUR

-----------------------------------------------------------------------------
(* Properties. *)

\* The queries of this Collect, and the series they ask for before any limit.
Asked ==
    {q \in Queries :
        \/ q.tagKey = NoKey /\ collector # "tags"
        \/ /\ q.tagKey \in Range(config.target.keys)
           /\ collector = "tags" \/ (collector = "cur" /\ Enabled(config.target, "tags"))}

Unlimited(q) ==
    CASE collector = "tags" -> mapTagUsage(q, service.usage[q])
      [] collector # "tags" /\ collector # "cur" -> MapUsage(q, service.usage[q])
      [] OTHER -> {s \in IF q.tagKey = NoKey THEN CostRows(service.table) ELSE TagRows(service.tagTable) :
                      s.basis = q.basis /\ s.window = q.window /\ s.tagKey = q.tagKey}

Exported(q) == {s \in collected : s.basis = q.basis /\ s.window = q.window /\ s.tagKey = q.tagKey}

\* What AWS holds for a query, and its sum in one currency.
Held(q) ==
    IF collector # "cur" THEN service.usage[q]
    ELSE Billed(IF q.tagKey = NoKey THEN service.table ELSE service.tagTable, q)

Reported(q, c) == SumOf({x \in Held(q) : x.currency = c})

LimitOf(q) == IF q.tagKey = NoKey THEN config.limit.dimensions ELSE MaxValues[q.tagKey]

\* A cost collector has returned its partial.
Collected == collector \in Collectors /\ result = "ok"

\* Money is conserved: of every basis, window, currency and tag key the exported
\* series add up to what AWS reported, through normalisation, the sum over the
\* days and the folding of small values (mapping.go, tag_mapping.go,
\* cardinality.go, tag/collector.go, cur/collector.go).
TotalsConserved ==
    Collected =>
        \A q \in Asked : \A c \in Currencies(Held(q) \cup Exported(q)) :
            SumOf({s \in Exported(q) : s.currency = c}) = Reported(q, c)

\* No query exports more series than its limit, and CUR no more per currency
\* (cardinality.go, limitDimensionGroup; tag/collector.go, LimitValues).
SeriesBounded ==
    Collected /\ collector # "total" =>
        \A q \in Asked :
            IF collector # "cur" THEN Cardinality(Exported(q)) <= LimitOf(q)
            ELSE q.tagKey # NoKey =>
                    \A c \in Currencies(Exported(q)) :
                        Cardinality({s \in Exported(q) : s.currency = c}) <= LimitOf(q)

\* What is folded is never larger than what keeps a series of its own
\* (the ranking of limitDimensionGroup and LimitValues).
LargestKept ==
    Collected =>
        \A q \in Asked : \A r \in Exported(q), s \in Unlimited(q) :
            (r.value # Other /\ s \notin collected /\ (collector = "cur" => r.currency = s.currency))
                => r.amount >= s.amount

\* The name that the mapping gives to an entry without a key.
BlankName == CASE collector = "region" -> "global" [] collector = "tags" -> Untagged [] OTHER -> Blank

\* Entry e of an answer gets the labels of series r.
Labelled(e, r) == e.currency = r.currency /\ (e.key = r.value \/ (e.key = Blank /\ r.value = BlankName))

\* A tag that the query asks for has the overflow label as its value.
OverflowTag(q) ==
    IF collector = "tags" THEN \E e \in service.usage[q] : e.key = Other
    ELSE \E l \in service.tagTable : InWindow(l, q.window) /\ l.tags[q.tagKey] = Other

\* Two series of a partial with the same labels, which the store refuses with the
\* whole partial, have one of two causes in what AWS answered.  In a daily query,
\* which is not aggregated, two entries got one name: AWS has the key twice, or it
\* has both no key and the name that stands for no key (dimension.go, "global";
\* tag_mapping.go, "__untagged__").  Or a tag has the overflow label as its value,
\* which LimitValues does not look for (cardinality.go does, ErrReservedDimension).
\* Neither the sums of a month, nor CUR, nor folding, nor one query and another
\* make two series with the same labels.
DuplicatesHaveCause ==
    Collected =>
        \A r, s \in collected : r # s /\ Label(r) = Label(s) =>
            \E q \in Asked :
                /\ r \in Exported(q)
                /\ \/ /\ q.window = "daily" /\ collector # "cur"
                      /\ \E d, e \in service.usage[q] : d # e /\ Labelled(d, r) /\ Labelled(e, r)
                   \/ q.tagKey # NoKey /\ r.value = Other /\ OverflowTag(q)

\* A configuration that validation accepts leaves room for every answer: the
\* series limits of tags and CUR refuse a partial only together with too many
\* currencies, and a grouped query is refused as mixed only if it has both too
\* many values and more than one currency (validation.go, validateTags and
\* validateCURSeriesBudget; tag/collector.go and cur/collector.go, Collect).
RefusedForCause ==
    /\ collector \in Collectors /\ result = "series" =>
          collector = "cur" /\ Cardinality({l.currency : l \in service.tagTable}) > MaxCurrencies
    /\ result = "mixed" =>
          \E q \in Asked : Cardinality(Unlimited(q)) > LimitOf(q) /\ ~OneCurrency(Unlimited(q))
=============================================================================
