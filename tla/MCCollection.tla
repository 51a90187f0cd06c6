---------------------------- MODULE MCCollection ----------------------------
(* An instance of Startup for TLC.  Of the services of a cost collector, all *)
(* but one of the queries are answered in the usual way, and one with every  *)
(* combination of up to three entries; the CUR table has the usual lines and *)
(* up to two more.  Configurations differ from one that is valid in up to    *)
(* two settings.                                                             *)
EXTENDS Startup, TLC

MCBases == <<"unblended", "amortized">>
MCTagKeys == {"team", "env"}
MCMaxValues == ("team" :> 2) @@ ("env" :> 1)
Labels == <<"", "__other__", "__untagged__", "a", "b", "global">>
MCOrder == [v \in Range(Labels) |-> CHOOSE i \in DOMAIN Labels : Labels[i] = v]

Entry(d, k, m) == [day |-> d, key |-> k, currency |-> m[1], amount |-> m[2]]
Monies == {<<"usd", 2>>, <<"usd", -1>>, <<"eur", 2>>}

Keys ==
    [c \in Collectors |->
        CASE c = "total" -> {""}
          [] c = "region" -> {"a", "b", "", "global", "__other__"}
          [] c = "tags" -> {"a", "b", "", "__untagged__", "__other__"}
          [] OTHER -> {"a", "b", "", "__other__"}]

\* The usual answer: two values of one currency today.
Usual(c) == {Entry(Today, k, <<"usd", 1>>) : k \in IF c = "total" THEN {""} ELSE {"a", "b"}}

\* Up to three entries in the days of the window, a key at most once a day.
MonthKeys(c) == IF c = "tags" THEN {"a", "", "__untagged__"} ELSE {"a", "b", "__other__"}
Cells(c, w) == IF w = "daily" THEN {Today} \X Keys[c] ELSE (1..Today) \X (Keys[c] \cap MonthKeys(c))
Answers(c, w) ==
    UNION {{{Entry(x[1], x[2], f[x]) : x \in s} : f \in [s -> Monies]} :
              s \in UNION {kSubset(n, Cells(c, w)) : n \in 0..3}}

Line(d, c, v, m) ==
    [day |-> d, currency |-> c, tags |-> [k \in MCTagKeys |-> v],
     amounts |-> [b \in Range(MCBases) |-> IF b = "amortized" THEN 2 * m ELSE m]]
UsualLines == {Line(Today, c, v, 1) : c \in {"usd", "eur"}, v \in {"a", "b"}}
OtherLines == {Line(d, c, v, m) : d \in 1..Today, c \in {"usd", "gbp"},
                                  v \in {"a", "", "__untagged__", "__other__"}, m \in {-1, 2}}

NoUsage == [q \in Queries |-> {}]

\* The queries whose answers vary: those of the last basis.
Varied(c) == {q \in Queries : q.basis = "amortized" /\ (c = "tags") = (q.tagKey # NoKey)}

CostServices(c) ==
    IF c = "cur"
    THEN {[usage |-> NoUsage, table |-> UsualLines \cup s, tagTable |-> UsualLines \cup s \cup t] :
             s \in {{}} \cup {{x, y} : x \in OtherLines, y \in OtherLines},
             t \in {{}, {Line(Today, "gbp", "a", 1)}}}
    ELSE {[usage |-> [r \in Queries |-> IF r = x[1] THEN x[2] ELSE Usual(c)], table |-> {}, tagTable |-> {}] :
             x \in UNION {{q} \X Answers(c, q.window) : q \in Varied(c)}}

Bound(d, e, m) == [start |-> d, end |-> e, lower |-> m[1], mean |-> m[2], upper |-> m[3]]
Budget(n, y, l, a, f) == [name |-> n, type |-> y, limit |-> l, actual |-> a, forecasted |-> f]
Figure == {{}, {"usd"}, {"eur"}}
Account(i, n, s) == [id |-> i, name |-> n, state |-> s, status |-> "SUSPENDED"]
Anomaly(i, e, m) == [id |-> i, end |-> e, impact |-> m]

MetadataServices(c) ==
    CASE c = "forecast" ->
           {[currency |-> "usd", results |-> r] :
               r \in {<<>>, <<Bound(1, 4, <<1, 1, 1>>), Bound(1, 4, <<1, 1, 1>>)>>}
                     \cup {<<Bound(d, e, m)>> : d \in 1..3, e \in 3..4, m \in (1..2) \X (1..2) \X (1..2)}}
      [] c = "budgets" ->
           {[budgets |-> {Budget("n", y, "usd", a, f), Budget("o", "COST", "eur", {}, {})} \cup s] :
               y \in {"COST", "USAGE"}, a \in Figure, f \in Figure,
               s \in {{}, {Budget("n", "COST", "eur", {}, {})}} \cup {{Budget("m", "COST", "eur", x, x)} : x \in Figure}}
      [] c = "organizations" ->
           {[accounts |-> {Account(i, m[1], m[2]) : i \in s}] :
               s \in SUBSET {"a", "b", "c"}, m \in {"", "name"} \X {"ACTIVE", "NEW"}}
             \cup {[accounts |-> {Account("a", "name", "ACTIVE"), x}] :
                      x \in {Account("a", "other", "ACTIVE"), Account("u", "name", "ACTIVE")}}
      [] c = "commitments" ->
           {[figures |-> f] : f \in {g \in [Range(Reads) -> SUBSET {"utilization_ratio", "coverage_ratio",
                                                                    "net_savings", "on_demand_cost"}] :
                                        \A r \in Range(Reads) : g[r] \subseteq Figures(r)}}
      [] OTHER ->
           {[anomalies |-> s] : s \in SUBSET {Anomaly(1, {}, {}), Anomaly(2, {1}, {3}), Anomaly(3, {2}, {})}}

MCServices ==
    [c \in Collectors \cup Metadata |-> IF c \in Metadata THEN MetadataServices(c) ELSE CostServices(c)]

Ranged == {"server", "log", "rates", "overflow_label", "max_rows", "max_currencies",
           "max_concurrency", "jitter_ratio", "failure_backoff"}

Target(n, a, r, on) ==
    [name |-> n, account |-> a, source |-> "s", role |-> r, required |-> r = NoRole, integrations |-> on,
     ids |-> <<>>, names |-> <<"n">>, keys |-> <<"team", "env">>, columns |-> <<"env", "team">>,
     linked |-> <<>>, queryTimeout |-> 2, pollInterval |-> 1]

\* A valid configuration of two targets with the given integrations.
TwoTargets(first, second) ==
    [targets |-> <<Target("p", "a", NoRole, first),
                   Target("q", "b", [arn |-> "r", account |-> "b", external |-> "x"], second)>>,
     sources |-> {"s"}, invalid |-> {}, collectors |-> Range(CostNames), predictionInterval |-> 80,
     requestTimeout |-> 1, freshnessTTL |-> 3, staleAfter |-> 3,
     interval |-> [k \in Integrations |-> 3], pages |-> [k \in Integrations |-> 1],
     limit |-> [dimensions |-> 2, organizations |-> 2, budgets |-> 3, commitments |-> 12,
                anomalies |-> 4, tags |-> 24, cur |-> 32]]

Usually == TwoTargets({"cost_explorer", "organizations", "commitments"}, {"budgets", "anomalies", "tags", "cur"})

\* Other settings: of a target, of the whole, and of one integration or limit.
Targeted ==
    [name |-> {"", "p"}, account |-> {"", "b"}, source |-> {"u"}, required |-> BOOLEAN,
     role |-> {NoRole} \cup {[arn |-> r, account |-> a, external |-> x] :
                               r \in {"r", "t"}, a \in {"a", "b"}, x \in {"", "x"}},
     linked |-> {<<"a">>, <<"">>, <<"a", "a">>},
     integrations |-> {{}} \cup {{n} : n \in Integrations}
                         \cup {Integrations \ {n} : n \in {"cost_explorer", "organizations", "cur"}},
     ids |-> {<<"a">>, <<"a", "a">>, <<"a", "b", "c">>, <<"u">>},
     names |-> {<<>>, <<"">>, <<"n", "n">>, <<"n", "m">>},
     keys |-> {<<>>, <<"">>, <<"team", "team">>, <<"team">>}, columns |-> {<<>>, <<"env", "env">>},
     queryTimeout |-> {0, 1, 3}, pollInterval |-> {0, 2}]

Overall ==
    [sources |-> {{}}, invalid |-> {{s} : s \in Ranged},
     collectors |-> {{}} \cup {{n} : n \in Range(CostNames)},
     requestTimeout |-> {0}, predictionInterval |-> {0}, freshnessTTL |-> {0, 2}, staleAfter |-> {2}]

Keyed ==
    [pages |-> Integrations \X {0}, interval |-> Integrations \X {0, 1},
     limit |-> (DOMAIN Usually.limit) \X {0, 1, 6}]

Changes ==
    LET Of(where, settings) == UNION {{<<where, f, x>> : x \in settings[f]} : f \in DOMAIN settings}
    IN  Of("first", Targeted) \cup Of("second", Targeted) \cup Of("all", Overall) \cup Of("keyed", Keyed)

Changed(v, c) ==
    CASE c[1] = "first" -> [v EXCEPT !.targets[1][c[2]] = c[3]]
      [] c[1] = "second" -> [v EXCEPT !.targets[2][c[2]] = c[3]]
      [] c[1] = "all" -> [v EXCEPT ![c[2]] = c[3]]
      [] c[1] = "keyed" -> [v EXCEPT ![c[2]][c[3][1]] = c[3][2]]

\* One target, with the given settings, and the refresh that they matter for.
Try(on, limits, list, names, c) ==
    LET v == TwoTargets(on, {"anomalies"})
    IN  <<[v EXCEPT !.targets = <<[v.targets[1] EXCEPT !.ids = list, !.names = names]>>,
                    !.limit = limits @@ v.limit], c>>

MCTries ==
    {Try({"cost_explorer", "tags"}, "tags" :> 12, <<>>, <<>>, c) : c \in Range(CostNames) \cup {"tags"}}
        \cup {Try({"cost_explorer", "tags"}, "tags" :> 6, <<>>, <<>>, "tags")}
        \cup {Try({"cost_explorer", "cur"}, "cur" :> 8, <<>>, <<>>, "cur")}
        \cup {Try({"cost_explorer", "cur", "tags"}, ("tags" :> n) @@ ("cur" :> m), <<>>, <<>>, "cur") :
                  n \in {12, 24}, m \in {16, 32}}
        \cup {Try({"cost_explorer", "organizations"}, "organizations" :> n, list, <<>>, "organizations") :
                  n \in 1..2, list \in {<<>>, <<"b">>, <<"c", "a">>, <<"a", "b", "c">>}}
        \cup {Try({"cost_explorer", "budgets"}, "budgets" :> n, <<>>, names, "budgets") :
                  n \in {3, 6}, names \in {<<"n">>, <<"n", "m">>}}
        \cup {Try({"cost_explorer", "commitments"}, "commitments" :> n, <<>>, <<>>, "commitments") : n \in {5, 12}}
        \cup {Try({"cost_explorer", "anomalies"}, "anomalies" :> n, <<>>, <<>>, "anomalies") : n \in {3, 4}}

MCValues == {t[1] : t \in MCTries} \cup {Changed(Changed(Usually, c), d) : c \in Changes, d \in Changes}
=============================================================================
