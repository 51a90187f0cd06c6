--------------------------- MODULE StartupProofs ---------------------------
(***************************************************************************)
(* Proofs about the start and about the refreshes that follow it, for      *)
(* every configuration and every answer of AWS.                            *)
(*                                                                         *)
(* The start: what Validate accepts is constructed without an error        *)
(* (AcceptedStarts), the scheduler, the metrics and readiness agree on the *)
(* collectors (JobsMatch), and what the configuration selects fits its     *)
(* limits (SelectionAlwaysFits).                                           *)
(*                                                                         *)
(* Collect: a partial has the amounts that AWS reported, within its        *)
(* limits and the largest first, labels occur twice only for two causes,   *)
(* an accepted configuration is not refused for its own budget             *)
(* (CostInductive and the theorems after it), and the figures of the       *)
(* metadata collectors that the store selects are exposed once each        *)
(* (MetadataAlwaysExposed).                                                *)
(*                                                                         *)
(* Lists are compared with sets: Lists(s, A) says that s has the members   *)
(* of A, each once.  The recursion inside FlattenSeq, SumFunctionOnSet and *)
(* LimitedEach is unfolded by hand: a least argument without a value would *)
(* have one (FlattenUnfolds, SumUnfolds, LimitedUnfolds).                  *)
(***************************************************************************)
EXTENDS Startup, FiniteSetTheorems, WellFoundedInduction, TLAPS

\* A set of numbers has a least one.
LEMMA MinNat ==
    ASSUME NEW T \in SUBSET Nat, T # {}
    PROVE  \E n \in T : \A m \in T : n <= m
<1>1. \E x \in T : \A y \in T : ~ (<<y, x>> \in OpToRel(<, Nat))
    BY NatLessThanWellFounded, WFMin
<1>2. \A x, y \in Nat : <<y, x>> \in OpToRel(<, Nat) <=> y < x
    BY DEF OpToRel
<1>3. \E x \in T : \A y \in T : ~ (y < x)
    BY <1>1, <1>2, Zenon
<1> QED BY <1>3

\* What FlattenSeq computes, step by step: the recursive function that defines
\* it exists, as the least length without one would show.
LEMMA FlattenUnfolds ==
    ASSUME NEW n \in Nat \ {0}, NEW ss, Len(ss) = n
    PROVE  \E F : /\ F = [i \in 1..n |-> IF i = 1 THEN ss[i] ELSE F[i - 1] \o ss[i]]
                  /\ FlattenSeq(ss) = F[n]
<1> DEFINE Is(F, m) == F = [i \in 1..m |-> IF i = 1 THEN ss[i] ELSE F[i - 1] \o ss[i]]
           T == {m \in Nat \ {0} : ~ \E F : Is(F, m)}
<1>1. SUFFICES \E F : Is(F, n)
    BY DEF FlattenSeq
<1>2. SUFFICES ASSUME T # {} PROVE FALSE
    <2> HIDE DEF Is
    <2> QED OBVIOUS
<1>3. PICK m \in T : \A k \in T : m <= k
    <2> HIDE DEF Is
    <2>1. T \in SUBSET Nat OBVIOUS
    <2> HIDE DEF T
    <2> QED BY <1>2, <2>1, MinNat
<1>4. m # 1
    <2>1. Is([i \in 1..1 |-> ss[i]], 1)
        OBVIOUS
    <2> QED BY <2>1
<1>5. PICK F : Is(F, m - 1)
    <2> HIDE DEF Is
    <2> QED BY <1>3, <1>4
<1> DEFINE G == [i \in 1..m |-> IF i = m THEN F[m - 1] \o ss[m] ELSE F[i]]
<1>6. \A i \in 1..(m - 1) : F[i] = IF i = 1 THEN ss[i] ELSE F[i - 1] \o ss[i]
    BY <1>5
<1>7. \A i \in 1..m : G[i] = IF i = 1 THEN ss[i] ELSE G[i - 1] \o ss[i]
    <2> SUFFICES ASSUME NEW i \in 1..m PROVE G[i] = IF i = 1 THEN ss[i] ELSE G[i - 1] \o ss[i]
        OBVIOUS
    <2>1. CASE i = m
        <3>1. G[i] = F[m - 1] \o ss[m] BY <2>1
        <3>2. G[m - 1] = F[m - 1] BY <1>4
        <3> QED BY <3>1, <3>2, <2>1, <1>4
    <2>2. CASE i # m
        <3>1. i \in 1..(m - 1) /\ G[i] = F[i] BY <2>2
        <3>2. i # 1 => G[i - 1] = F[i - 1] BY <2>2
        <3> HIDE DEF G
        <3> QED BY <3>1, <3>2, <1>6
    <2> QED BY <2>1, <2>2
<1>8. Is(G, m)
    <2>1. G = [i \in 1..m |-> G[i]] OBVIOUS
    <2> HIDE DEF G
    <2> QED BY <2>1, <1>7
<1> QED
    <2> HIDE DEF Is, G
    <2> QED BY <1>8

\* The range of a concatenation, and when it repeats nothing.
LEMMA ConcatFacts ==
    ASSUME NEW S, NEW s \in Seq(S), NEW t \in Seq(S)
    PROVE  /\ s \o t \in Seq(S)
           /\ Range(s \o t) = Range(s) \cup Range(t)
           /\ IsInjective(s) /\ IsInjective(t) /\ Range(s) \cap Range(t) = {} => IsInjective(s \o t)
<1> DEFINE u == s \o t
<1>1. /\ u \in Seq(S) /\ DOMAIN u = 1..(Len(s) + Len(t))
      /\ \A i \in 1..Len(s) : u[i] = s[i]
      /\ \A i \in 1..Len(t) : u[Len(s) + i] = t[i]
    OBVIOUS
<1>2. DOMAIN s = 1..Len(s) /\ DOMAIN t = 1..Len(t) /\ Len(s) \in Nat /\ Len(t) \in Nat
    OBVIOUS
<1>3. \A i \in DOMAIN u : i \in 1..Len(s) \/ (i - Len(s) \in 1..Len(t) /\ u[i] = t[i - Len(s)])
    <2> SUFFICES ASSUME NEW i \in DOMAIN u, i \notin 1..Len(s)
                 PROVE  i - Len(s) \in 1..Len(t) /\ u[i] = t[i - Len(s)]
        OBVIOUS
    <2> DEFINE k == i - Len(s)
    <2>1. k \in 1..Len(t) /\ i = Len(s) + k
        BY <1>1, <1>2
    <2> HIDE DEF u, k
    <2>2. u[i] = t[k]
        BY <1>1, <2>1
    <2> QED BY <2>1, <2>2 DEF k
<1> HIDE DEF u
<1>4. Range(u) = Range(s) \cup Range(t)
    <2>1. ASSUME NEW x \in Range(u) PROVE x \in Range(s) \cup Range(t)
        <3>1. PICK i \in DOMAIN u : u[i] = x BY DEF Range
        <3> QED BY <3>1, <1>1, <1>2, <1>3 DEF Range
    <2>2. ASSUME NEW x \in Range(s) PROVE x \in Range(u)
        <3>1. PICK i \in DOMAIN s : s[i] = x BY DEF Range
        <3>2. i \in DOMAIN u /\ u[i] = x BY <3>1, <1>1, <1>2
        <3> QED BY <3>2 DEF Range
    <2>3. ASSUME NEW x \in Range(t) PROVE x \in Range(u)
        <3>1. PICK i \in DOMAIN t : t[i] = x BY DEF Range
        <3>2. Len(s) + i \in DOMAIN u /\ u[Len(s) + i] = x BY <3>1, <1>1, <1>2
        <3> QED BY <3>2 DEF Range
    <2> QED BY <2>1, <2>2, <2>3
<1>5. ASSUME IsInjective(s), IsInjective(t), Range(s) \cap Range(t) = {}
      PROVE  IsInjective(u)
    <2> SUFFICES ASSUME NEW a \in DOMAIN u, NEW b \in DOMAIN u, u[a] = u[b]
                 PROVE  a = b
        BY DEF IsInjective
    <2>1. CASE a \in 1..Len(s) /\ b \in 1..Len(s)
        BY <2>1, <1>1, <1>2, <1>5 DEF IsInjective
    <2>2. CASE a \notin 1..Len(s) /\ b \notin 1..Len(s)
        <3>1. t[a - Len(s)] = t[b - Len(s)] /\ a - Len(s) \in DOMAIN t /\ b - Len(s) \in DOMAIN t
            BY <2>2, <1>2, <1>3
        <3>2. a - Len(s) = b - Len(s)
            BY <3>1, <1>5 DEF IsInjective
        <3> QED BY <3>2, <1>1, <1>2
    <2>3. CASE a \in 1..Len(s) /\ b \notin 1..Len(s)
        <3>1. u[a] \in Range(s) BY <2>3, <1>1, <1>2 DEF Range
        <3>2. u[b] \in Range(t) BY <2>3, <1>2, <1>3 DEF Range
        <3> QED BY <3>1, <3>2, <1>5
    <2>4. CASE a \notin 1..Len(s) /\ b \in 1..Len(s)
        <3>1. u[b] \in Range(s) BY <2>4, <1>1, <1>2 DEF Range
        <3>2. u[a] \in Range(t) BY <2>4, <1>2, <1>3 DEF Range
        <3> QED BY <3>1, <3>2, <1>5
    <2> QED BY <2>1, <2>2, <2>3, <2>4
<1> QED BY <1>1, <1>4, <1>5 DEF u

\* Sequences that repeat nothing and have nothing in common are flattened into
\* one that repeats nothing and has what they have.
LEMMA FlattenFacts ==
    ASSUME NEW n \in Nat \ {0}, NEW S, NEW ss, Len(ss) = n,
           \A i \in 1..n : ss[i] \in Seq(S) /\ IsInjective(ss[i]),
           \A i, j \in 1..n : i # j => Range(ss[i]) \cap Range(ss[j]) = {}
    PROVE  /\ FlattenSeq(ss) \in Seq(S) /\ IsInjective(FlattenSeq(ss))
           /\ Range(FlattenSeq(ss)) = UNION {Range(ss[i]) : i \in 1..n}
<1>1. PICK F : /\ F = [i \in 1..n |-> IF i = 1 THEN ss[i] ELSE F[i - 1] \o ss[i]]
               /\ FlattenSeq(ss) = F[n]
    BY FlattenUnfolds
<1>2. F[1] = ss[1] /\ \A i \in 2..n : F[i] = F[i - 1] \o ss[i]
    <2>1. \A i \in 1..n : F[i] = IF i = 1 THEN ss[i] ELSE F[i - 1] \o ss[i] BY <1>1
    <2>2. 1 \in 1..n OBVIOUS
    <2>3. \A i \in 2..n : i \in 1..n /\ i # 1 OBVIOUS
    <2> QED BY <2>1, <2>2, <2>3
<1> DEFINE U(i) == UNION {Range(ss[j]) : j \in 1..i}
           P(i) == F[i] \in Seq(S) /\ IsInjective(F[i]) /\ Range(F[i]) = U(i)
           T == {i \in 1..n : ~ P(i)}
<1>3. SUFFICES ASSUME T # {} PROVE FALSE
    <2>1. SUFFICES P(n) BY <1>1
    <2> HIDE DEF P
    <2> QED OBVIOUS
<1>4. PICK i \in T : \A k \in T : i <= k
    <2> HIDE DEF P
    <2>1. T \in SUBSET Nat OBVIOUS
    <2> HIDE DEF T
    <2> QED BY <1>3, <2>1, MinNat
<1>5. i # 1
    <2>1. U(1) = Range(ss[1]) OBVIOUS
    <2> HIDE DEF U
    <2> QED BY <1>2, <2>1
<1>6. P(i - 1)
    <2> HIDE DEF P
    <2> QED BY <1>4, <1>5
<1>7. Range(F[i - 1]) \cap Range(ss[i]) = {}
    BY <1>6
<1>8. U(i) = U(i - 1) \cup Range(ss[i])
    <2>1. 1..i = (1..(i - 1)) \cup {i} BY <1>5
    <2> QED BY <2>1
<1> DEFINE f == F[i - 1]
           g == ss[i]
<1>9. F[i] = f \o g /\ f \in Seq(S) /\ g \in Seq(S) /\ IsInjective(f) /\ IsInjective(g)
    <2>1. i \in 2..n /\ i \in 1..n BY <1>5
    <2>2. F[i] = F[i - 1] \o ss[i] BY <1>2, <2>1
    <2> QED BY <2>1, <2>2, <1>6
<1>10. Range(f) = U(i - 1) /\ Range(f) \cap Range(g) = {} /\ U(i) = U(i - 1) \cup Range(g)
    BY <1>6, <1>7, <1>8
<1> HIDE DEF f, g, U
<1>11. f \o g \in Seq(S) /\ Range(f \o g) = Range(f) \cup Range(g) /\ IsInjective(f \o g)
    BY <1>9, <1>10, ConcatFacts
<1>12. P(i)
    BY <1>9, <1>10, <1>11
<1> QED BY <1>12

-----------------------------------------------------------------------------
(* The collectors of a target, as sets. *)

Optional == {"organizations", "budgets", "commitments", "anomalies", "cur"}

CostsOf(v, t) == IF "cost_explorer" \in t.integrations THEN v.collectors ELSE {}
TagsOf(t) == IF "cost_explorer" \in t.integrations THEN {"tags"} \cap t.integrations ELSE {}
NamesOf(v, t) == CostsOf(v, t) \cup TagsOf(t) \cup (Optional \cap t.integrations)

\* A list of the members of a set, each once.
Lists(s, set) == s \in Seq(set) /\ IsInjective(s) /\ Range(s) = set

\* A concatenation lists what its parts list.
LEMMA ListsConcat ==
    ASSUME NEW s, NEW t, NEW A, NEW B, Lists(s, A), Lists(t, B), A \cap B = {}
    PROVE  Lists(s \o t, A \cup B)
<1>1. s \in Seq(A \cup B) /\ t \in Seq(A \cup B) /\ Range(s) \cap Range(t) = {}
    BY DEF Lists
<1>2. s \o t \in Seq(A \cup B) /\ Range(s \o t) = Range(s) \cup Range(t) /\ IsInjective(s \o t)
    BY <1>1, ConcatFacts DEF Lists
<1> QED BY <1>2, Zenon DEF Lists

\* One collector, if it is switched on.
LEMMA OnLists ==
    ASSUME NEW n, NEW set
    PROVE  Lists(On(n, set), {n} \cap set)
<1>1. CASE n \in set
    <2>1. On(n, set) = <<n>> /\ {n} \cap set = {n} BY <1>1 DEF On
    <2>2. <<n>> \in Seq({n}) /\ DOMAIN <<n>> = {1} /\ <<n>>[1] = n OBVIOUS
    <2>3. IsInjective(<<n>>) BY <2>2 DEF IsInjective
    <2>4. Range(<<n>>) = {n} BY <2>2 DEF Range
    <2>5. Lists(<<n>>, {n}) BY <2>2, <2>3, <2>4, Zenon DEF Lists
    <2> QED BY <2>1, <2>5
<1>2. CASE n \notin set
    <2>1. On(n, set) = <<>> /\ {n} \cap set = {} BY <1>2 DEF On
    <2>2. Lists(<<>>, {}) BY DEF Lists, IsInjective, Range
    <2> QED BY <2>1, <2>2
<1> QED BY <1>1, <1>2

\* One more collector, of another name.
LEMMA OneMore ==
    ASSUME NEW s, NEW A, NEW n, NEW set, Lists(s, A), n \notin A
    PROVE  Lists(s \o On(n, set), A \cup ({n} \cap set))
<1>1. Lists(On(n, set), {n} \cap set) BY OnLists
<1>2. A \cap ({n} \cap set) = {} OBVIOUS
<1> QED BY <1>1, <1>2, ListsConcat, Zenon

\* The cost collectors are the ones that are switched on, once each.
LEMMA CostsFacts ==
    ASSUME value.collectors \in SUBSET Range(CostNames)
    PROVE  Lists(Costs, value.collectors)
<1> DEFINE C == value.collectors
           s1 == On("total", C)
           A1 == {"total"} \cap C
           s2 == s1 \o On("service", C)
           A2 == A1 \cup ({"service"} \cap C)
           s3 == s2 \o On("region", C)
           A3 == A2 \cup ({"region"} \cap C)
           s4 == s3 \o On("account", C)
           A4 == A3 \cup ({"account"} \cap C)
           s5 == s4 \o On("forecast", C)
           A5 == A4 \cup ({"forecast"} \cap C)
<1>1. C \subseteq {"total", "service", "region", "account", "forecast"}
    BY DEF CostNames, Range
<1>2. Costs = s5 BY DEF Costs
<1>3. A5 = C BY <1>1
<1>4. Lists(s1, A1) BY OnLists, Zenon
<1>5. "service" \notin A1 OBVIOUS
<1>6. Lists(s2, A2)
    <2> HIDE DEF s1, A1
    <2> QED BY <1>4, <1>5, OneMore, Zenon
<1>7. "region" \notin A2 OBVIOUS
<1>8. Lists(s3, A3)
    <2> HIDE DEF s2, A2
    <2> QED BY <1>6, <1>7, OneMore, Zenon
<1>9. "account" \notin A3 OBVIOUS
<1>10. Lists(s4, A4)
    <2> HIDE DEF s3, A3
    <2> QED BY <1>8, <1>9, OneMore, Zenon
<1>11. "forecast" \notin A4 OBVIOUS
<1>12. Lists(s5, A5)
    <2> HIDE DEF s4, A4
    <2> QED BY <1>10, <1>11, OneMore, Zenon
<1> HIDE DEF s5, A5
<1> QED BY <1>2, <1>3, <1>12 DEF C

\* buildCostCollectors builds the collectors that configuredCollectorIDs lists.
LEMMA SameCosts == buildCostCollectors = Costs
    BY Zenon DEF buildCostCollectors, Costs

\* The collectors of one target have different names.
LEMMA NamesFacts ==
    ASSUME value.collectors \in SUBSET Range(CostNames), NEW t
    PROVE  Lists(configuredCollectorIDs(t), NamesOf(value, t))
<1> DEFINE I == t.integrations
           s0 == IF "cost_explorer" \in I THEN Costs \o On("tags", I) ELSE <<>>
           A0 == CostsOf(value, t) \cup TagsOf(t)
           s1 == s0 \o On("organizations", I)
           A1 == A0 \cup ({"organizations"} \cap I)
           s2 == s1 \o On("budgets", I)
           A2 == A1 \cup ({"budgets"} \cap I)
           s3 == s2 \o On("commitments", I)
           A3 == A2 \cup ({"commitments"} \cap I)
           s4 == s3 \o On("anomalies", I)
           A4 == A3 \cup ({"anomalies"} \cap I)
           s5 == s4 \o On("cur", I)
           A5 == A4 \cup ({"cur"} \cap I)
<1>1. value.collectors \subseteq {"total", "service", "region", "account", "forecast"}
    BY DEF CostNames, Range
<1>2. configuredCollectorIDs(t) = s5
    BY DEF configuredCollectorIDs, Enabled
<1>3. NamesOf(value, t) = A5
    BY DEF NamesOf, Optional
<1>4. Lists(s0, A0)
    <2>1. CASE "cost_explorer" \in I
        <3>1. "tags" \notin value.collectors BY <1>1
        <3>2. Lists(Costs \o On("tags", I), value.collectors \cup ({"tags"} \cap I))
            BY <3>1, CostsFacts, OneMore, Zenon
        <3>3. s0 = Costs \o On("tags", I) /\ A0 = value.collectors \cup ({"tags"} \cap I)
            BY <2>1, Zenon DEF CostsOf, TagsOf
        <3> HIDE DEF s0, A0
        <3> QED BY <3>2, <3>3, Zenon
    <2>2. CASE "cost_explorer" \notin I
        <3>1. s0 = <<>> /\ A0 = {} BY <2>2 DEF CostsOf, TagsOf
        <3>2. Lists(<<>>, {}) BY DEF Lists, IsInjective, Range
        <3> HIDE DEF s0, A0
        <3> QED BY <3>1, <3>2
    <2> QED BY <2>1, <2>2
<1>5. A0 \subseteq {"total", "service", "region", "account", "forecast", "tags"}
    BY <1>1 DEF CostsOf, TagsOf
<1> HIDE DEF I, s0, A0
<1>6. "organizations" \notin A0 BY <1>5
<1>7. Lists(s1, A1)
    <2> HIDE DEF s0, A0
    <2> QED BY <1>4, <1>6, OneMore, Zenon
<1>8. "budgets" \notin A1 BY <1>5
<1>9. Lists(s2, A2)
    <2> HIDE DEF s1, A1
    <2> QED BY <1>7, <1>8, OneMore, Zenon
<1>10. "commitments" \notin A2 BY <1>5
<1>11. Lists(s3, A3)
    <2> HIDE DEF s2, A2
    <2> QED BY <1>9, <1>10, OneMore, Zenon
<1>12. "anomalies" \notin A3 BY <1>5
<1>13. Lists(s4, A4)
    <2> HIDE DEF s3, A3
    <2> QED BY <1>11, <1>12, OneMore, Zenon
<1>14. "cur" \notin A4 BY <1>5
<1>15. Lists(s5, A5)
    <2> HIDE DEF s4, A4
    <2> QED BY <1>13, <1>14, OneMore, Zenon
<1> HIDE DEF s5, A5
<1> QED BY <1>2, <1>3, <1>15

-----------------------------------------------------------------------------
(* The same with the target: identifiers, and jobs with them. *)

Named(t, names) == {Id(t, n) : n \in names}
IdSeq(t, names) == [j \in DOMAIN names |-> Id(t, names[j])]
JobIds(js) == [j \in DOMAIN js |-> js[j].id]
JobOf(ids) == [id : ids, interval : Nat \ {0}]

\* Jobs with a positive interval, one for every identifier of a set.
JobLists(js, ids) == js \in Seq(JobOf(ids)) /\ Lists(JobIds(js), ids)

\* Different names give different identifiers.
LEMMA NamedFacts ==
    ASSUME NEW t, NEW A, NEW B
    PROVE  /\ Named(t, A \cup B) = Named(t, A) \cup Named(t, B)
           /\ A \cap B = {} => Named(t, A) \cap Named(t, B) = {}
    BY DEF Named, Id

\* Identifiers made of a list of names are a list.
LEMMA IdSeqLists ==
    ASSUME NEW t, NEW s, NEW A, Lists(s, A)
    PROVE  Lists(IdSeq(t, s), Named(t, A))
<1> DEFINE u == IdSeq(t, s)
<1>1. s \in Seq(A) /\ DOMAIN s = 1..Len(s) /\ Len(s) \in Nat BY DEF Lists
<1>2. DOMAIN u = 1..Len(s) /\ \A j \in 1..Len(s) : u[j] = Id(t, s[j]) /\ s[j] \in A
    BY <1>1 DEF IdSeq
<1>3. u \in Seq(Named(t, A))
    <2>1. u \in [1..Len(s) -> Named(t, A)] BY <1>1, <1>2 DEF IdSeq, Named
    <2> QED BY <2>1, <1>1
<1>4. IsInjective(u)
    <2>1. \A x, y : Id(t, x) = Id(t, y) => x = y BY DEF Id
    <2> QED BY <2>1, <1>1, <1>2 DEF Lists, IsInjective
<1>5. Range(u) = Named(t, A)
    <2>1. A = {s[j] : j \in 1..Len(s)} BY <1>1 DEF Lists, Range
    <2> QED BY <2>1, <1>2 DEF Range, Named
<1> QED BY <1>3, <1>4, <1>5 DEF Lists

\* Jobs of different identifiers, one list after the other.
LEMMA JobListsConcat ==
    ASSUME NEW a, NEW b, NEW D, NEW E, JobLists(a, D), JobLists(b, E), D \cap E = {}
    PROVE  JobLists(a \o b, D \cup E)
<1> DEFINE F == D \cup E
           J == JobOf(F)
           u == a \o b
<1>1. a \in Seq(J) /\ b \in Seq(J)
    <2>1. JobOf(D) \subseteq J /\ JobOf(E) \subseteq J BY DEF JobOf
    <2>2. a \in Seq(JobOf(D)) /\ b \in Seq(JobOf(E)) BY DEF JobLists
    <2> HIDE DEF J
    <2> QED BY <2>1, <2>2
<1> HIDE DEF J
<1>2. /\ u \in Seq(J) /\ DOMAIN u = 1..(Len(a) + Len(b)) /\ Len(a) \in Nat /\ Len(b) \in Nat
      /\ DOMAIN a = 1..Len(a) /\ DOMAIN b = 1..Len(b)
      /\ \A i \in 1..(Len(a) + Len(b)) : u[i] = IF i <= Len(a) THEN a[i] ELSE b[i - Len(a)]
    BY <1>1
<1> HIDE DEF u
<1> DEFINE x == JobIds(a)
           y == JobIds(b)
<1>3. Lists(x, D) /\ Lists(y, E) BY DEF JobLists
<1>4. /\ x \in Seq(F) /\ y \in Seq(F) /\ DOMAIN x = 1..Len(a) /\ DOMAIN y = 1..Len(b)
      /\ \A i \in 1..Len(a) : x[i] = a[i].id
      /\ \A i \in 1..Len(b) : y[i] = b[i].id
    BY <1>3, <1>2 DEF Lists, JobIds
<1>5. Len(x) = Len(a) /\ Len(y) = Len(b)
    <2> HIDE DEF x, y
    <2> QED BY <1>4, <1>2
<1>6. x \o y = [i \in 1..(Len(a) + Len(b)) |-> IF i <= Len(a) THEN x[i] ELSE y[i - Len(a)]]
    <2> HIDE DEF x, y
    <2> DEFINE z == x \o y
    <2>1. /\ z \in Seq(F) /\ DOMAIN z = 1..(Len(x) + Len(y))
          /\ \A i \in 1..(Len(x) + Len(y)) : z[i] = IF i <= Len(x) THEN x[i] ELSE y[i - Len(x)]
        BY <1>4
    <2> HIDE DEF z
    <2>2. z = [i \in DOMAIN z |-> z[i]] BY <2>1
    <2>3. z = [i \in 1..(Len(x) + Len(y)) |-> IF i <= Len(x) THEN x[i] ELSE y[i - Len(x)]]
        BY <2>1, <2>2
    <2> QED BY <2>3, <1>5 DEF z
<1>7. JobIds(u) = x \o y
    <2>1. JobIds(u) = [i \in 1..(Len(a) + Len(b)) |-> u[i].id] BY <1>2 DEF JobIds
    <2>2. \A i \in 1..(Len(a) + Len(b)) : u[i].id = IF i <= Len(a) THEN x[i] ELSE y[i - Len(a)]
        <3> HIDE DEF x, y
        <3> QED BY <1>2, <1>4
    <2> HIDE DEF x, y
    <2> QED BY <2>1, <2>2, <1>6
<1>8. Lists(x \o y, F)
    <2> HIDE DEF x, y
    <2> QED BY <1>3, ListsConcat, Zenon
<1> QED BY <1>2, <1>7, <1>8, Zenon DEF JobLists, J, F, u

\* The job of an integration, if it is enabled.
LEMMA OptionalJobLists ==
    ASSUME NEW t, NEW n, value.interval[n] \in Nat \ {0}
    PROVE  JobLists(OptionalJob(t, n), Named(t, {n} \cap t.integrations))
<1> DEFINE D == Named(t, {n} \cap t.integrations)
           j == Job(t, n, n)
<1>1. CASE n \in t.integrations
    <2>1. OptionalJob(t, n) = <<j>> /\ D = {Id(t, n)} BY <1>1, Zenon DEF OptionalJob, Enabled, Named
    <2>2. j \in JobOf({Id(t, n)}) /\ j.id = Id(t, n) BY DEF Job, JobOf
    <2> HIDE DEF j
    <2>3. <<j>> \in Seq(JobOf({Id(t, n)})) BY <2>2
    <2>4. JobIds(<<j>>) = <<Id(t, n)>> BY <2>2 DEF JobIds
    <2>5. Lists(<<Id(t, n)>>, {Id(t, n)})
        <3> DEFINE x == Id(t, n)
        <3> HIDE DEF x
        <3>1. Lists(On(x, {x}), {x} \cap {x}) BY OnLists, Zenon
        <3>2. On(x, {x}) = <<x>> /\ {x} \cap {x} = {x} BY DEF On
        <3>3. Lists(<<x>>, {x}) BY <3>1, <3>2
        <3> QED BY <3>3 DEF x
    <2> HIDE DEF D
    <2>6. JobLists(<<j>>, {Id(t, n)}) BY <2>3, <2>4, <2>5, Zenon DEF JobLists
    <2>7. JobLists(OptionalJob(t, n), D) BY <2>1, <2>6, Zenon
    <2> QED BY <2>7, Zenon DEF D
<1>2. CASE n \notin t.integrations
    <2>1. OptionalJob(t, n) = <<>> /\ D = {} BY <1>2 DEF OptionalJob, Enabled, Named
    <2>2. JobLists(<<>>, {})
        BY DEF JobLists, JobIds, Lists, IsInjective, Range
    <2> HIDE DEF D
    <2>3. JobLists(OptionalJob(t, n), D) BY <2>1, <2>2, Zenon
    <2> QED BY <2>3, Zenon DEF D
<1> QED BY <1>1, <1>2

\* The jobs of the cost collectors.
LEMMA CostJobLists ==
    ASSUME NEW t, value.interval["cost_explorer"] \in Nat \ {0},
           value.collectors \in SUBSET Range(CostNames)
    PROVE  JobLists(CostJobs(t), Named(t, value.collectors))
<1> DEFINE C == value.collectors
           js == CostJobs(t)
<1>1. Lists(Costs, C) BY CostsFacts
<1>2. Costs \in Seq(C) /\ DOMAIN Costs = 1..Len(Costs) /\ Len(Costs) \in Nat BY <1>1 DEF Lists
<1>3. js = [i \in 1..Len(Costs) |-> Job(t, Costs[i], "cost_explorer")]
    BY <1>2, SameCosts, Zenon DEF CostJobs
<1>4. JobIds(js) = IdSeq(t, Costs)
    <2>1. DOMAIN js = DOMAIN Costs /\ \A i \in DOMAIN Costs : js[i] = Job(t, Costs[i], "cost_explorer")
        BY <1>2, <1>3
    <2>2. \A i \in DOMAIN Costs : js[i].id = Id(t, Costs[i])
        BY <2>1 DEF Job
    <2> HIDE DEF js
    <2> QED BY <2>1, <2>2 DEF JobIds, IdSeq
<1>5. Lists(IdSeq(t, Costs), Named(t, C)) BY <1>1, IdSeqLists, Zenon
<1>6. js \in Seq(JobOf(Named(t, C)))
    <2>1. \A n \in C : Job(t, n, "cost_explorer") \in JobOf(Named(t, C)) BY DEF Job, JobOf, Named
    <2>2. \A i \in 1..Len(Costs) : Costs[i] \in C BY <1>2
    <2>3. js \in [1..Len(Costs) -> JobOf(Named(t, C))] BY <1>3, <2>1, <2>2
    <2> HIDE DEF js
    <2> QED BY <2>3, <1>2
<1> HIDE DEF js
<1> QED BY <1>4, <1>5, <1>6 DEF JobLists, js

\* One more job.
LEMMA OneMoreJob ==
    ASSUME NEW t, NEW js, NEW A, NEW n, JobLists(js, Named(t, A)), n \notin A,
           value.interval[n] \in Nat \ {0}
    PROVE  JobLists(js \o OptionalJob(t, n), Named(t, A \cup ({n} \cap t.integrations)))
<1> DEFINE B == {n} \cap t.integrations
<1>1. JobLists(OptionalJob(t, n), Named(t, B)) BY OptionalJobLists, Zenon
<1>2. A \cap B = {} OBVIOUS
<1> HIDE DEF B
<1>3. Named(t, A) \cap Named(t, B) = {} /\ Named(t, A \cup B) = Named(t, A) \cup Named(t, B)
    BY <1>2, NamedFacts
<1>4. JobLists(js \o OptionalJob(t, n), Named(t, A) \cup Named(t, B))
    BY <1>1, <1>3, JobListsConcat, Zenon
<1> QED BY <1>3, <1>4, Zenon DEF B

-----------------------------------------------------------------------------
(* What validation establishes, of a configuration and of one of its targets. *)

TargetFacts(v, t) ==
    /\ t \in TargetConfig /\ t.name # Blank /\ t.account \in AccountIDs /\ t.source \in v.sources
    /\ t.required => "cost_explorer" \in t.integrations
    /\ Range(t.linked) \subseteq AccountIDs
    /\ "tags" \in t.integrations => t.keys # <<>>
    /\ "organizations" \in t.integrations =>
          IF t.ids = <<>> THEN v.limit.organizations >= v.limit.dimensions
          ELSE Len(t.ids) <= v.limit.organizations /\ IsInjective(t.ids) /\ Range(t.ids) \subseteq AccountIDs
    /\ "budgets" \in t.integrations => t.names # <<>> /\ Len(t.names) * 3 <= v.limit.budgets /\ Unique(t.names)
    /\ "cur" \in t.integrations => t.queryTimeout > 0 /\ t.pollInterval > 0 /\ t.pollInterval < t.queryTimeout
    /\ validateTags(t, v.limit) /\ validateCURSeriesBudget(t, v.limit)

Facts(v) ==
    /\ v \in Config /\ v.invalid = {} /\ v.collectors # {}
    /\ \A k \in Integrations : v.interval[k] \in Nat \ {0} /\ v.pages[k] > 0
    /\ \A k \in (Integrations \ {"cost_explorer"}) \cup {"dimensions"} : v.limit[k] \in Nat \ {0}
    /\ "forecast" \in v.collectors => v.predictionInterval \in 80..99
    /\ v.freshnessTTL > 0 /\ v.staleAfter >= v.freshnessTTL
    /\ \A i \in 1..Len(v.targets) : TargetFacts(v, v.targets[i])
    /\ \A i, j \in 1..Len(v.targets) : v.targets[i].name = v.targets[j].name => i = j
    /\ \E i \in 1..Len(v.targets) : v.targets[i].required

\* The types of the settings.
LEMMA ConfigTypes ==
    ASSUME NEW v \in Config
    PROVE  /\ v.targets \in Seq(TargetConfig) /\ v.collectors \in SUBSET Range(CostNames)
           /\ v.requestTimeout \in Nat /\ v.freshnessTTL \in Nat /\ v.staleAfter \in Nat
           /\ v.interval \in [Integrations -> Nat] /\ v.pages \in [Integrations -> Nat]
           /\ v.limit \in [(Integrations \ {"cost_explorer"}) \cup {"dimensions"} -> Nat]
    BY DEF Config

\* Validate accepts only configurations with those facts.
LEMMA AcceptedFacts ==
    ASSUME value \in Config, validateBase, validateTargets
    PROVE  Facts(value)
<1> DEFINE L == Len(value.targets)
           T == value.targets
<1>1. T \in Seq(TargetConfig) /\ L \in Nat /\ DOMAIN T = 1..L
    BY ConfigTypes
<1>2. Range(T) = {T[i] : i \in 1..L}
    BY <1>1 DEF Range
<1>3. value.invalid = {} /\ value.collectors # {}
    BY DEF validateBase
<1>4. \A k \in Integrations : value.interval[k] \in Nat \ {0} /\ value.pages[k] > 0
    BY ConfigTypes DEF validateBase
<1>5. \A k \in (Integrations \ {"cost_explorer"}) \cup {"dimensions"} : value.limit[k] \in Nat \ {0}
    BY ConfigTypes DEF validateBase
<1>6. "forecast" \in value.collectors => value.predictionInterval \in 80..99
    BY DEF validateBase
<1>7. value.freshnessTTL > 0 /\ value.staleAfter >= value.freshnessTTL
    <2>1. "cost_explorer" \in Integrations BY DEF Integrations
    <2>2. value.interval["cost_explorer"] \in Nat \ {0} BY <2>1, <1>4
    <2>3. value.freshnessTTL >= value.interval["cost_explorer"] /\ value.staleAfter >= value.freshnessTTL
        BY DEF validateBase
    <2> QED BY <2>2, <2>3, ConfigTypes
<1>8. Unique([i \in DOMAIN T |-> T[i]["name"]])
    BY DEF validateTargets, validateDistinct
<1>9. \A i, j \in 1..L : T[i].name = T[j].name => i = j
    BY <1>8, <1>1 DEF Unique, IsInjective
<1>10. \A i \in 1..L : T[i].name # Blank
    BY <1>8, <1>1 DEF Unique, Range
<1>11. ASSUME NEW i \in 1..L PROVE TargetFacts(value, T[i])
    <2> DEFINE t == T[i]
    <2>1. t \in TargetConfig /\ t.name # Blank BY <1>1, <1>10
    <2>2. /\ t.account \in AccountIDs /\ t.source \in value.sources
          /\ t.required => Enabled(t, "cost_explorer")
          /\ validateFilters(t) /\ validateOrganizations(t) /\ validateBudgets(t) /\ validateCUR(t)
          /\ validateTags(t, value.limit) /\ validateCURSeriesBudget(t, value.limit)
        BY <1>2 DEF validateTargets
    <2>3. t.queryTimeout \in Nat /\ t.pollInterval \in Nat BY <2>1 DEF TargetConfig
    <2> HIDE DEF t
    <2>4. Range(t.linked) \subseteq AccountIDs BY <2>2 DEF validateFilters
    <2>5. "tags" \in t.integrations => t.keys # <<>> BY <2>2 DEF validateTags, Enabled
    <2>6. "organizations" \in t.integrations =>
              IF t.ids = <<>> THEN value.limit.organizations >= value.limit.dimensions
              ELSE /\ Len(t.ids) <= value.limit.organizations
                   /\ IsInjective(t.ids) /\ Range(t.ids) \subseteq AccountIDs
        BY <2>2 DEF validateOrganizations, Enabled, Unique
    <2>7. "budgets" \in t.integrations =>
              t.names # <<>> /\ Len(t.names) * 3 <= value.limit.budgets /\ Unique(t.names)
        BY <2>2 DEF validateBudgets, Enabled
    <2>8. "cur" \in t.integrations =>
              t.queryTimeout > 0 /\ t.pollInterval > 0 /\ t.pollInterval < t.queryTimeout
        BY <2>2, <2>3 DEF validateCUR, Enabled
    <2>9. t.account \in AccountIDs /\ t.source \in value.sources
          /\ (t.required => "cost_explorer" \in t.integrations)
        BY <2>2 DEF Enabled
    <2>10. TargetFacts(value, t)
        BY <2>1, <2>2, <2>4, <2>5, <2>6, <2>7, <2>8, <2>9, Zenon DEF TargetFacts
    <2> QED BY <2>10, Zenon DEF t
<1>12. \E i \in 1..L : T[i].required
    BY <1>2 DEF validateTargets
<1> HIDE DEF L, T
<1> QED BY <1>3, <1>4, <1>5, <1>6, <1>7, <1>9, <1>11, <1>12, Zenon DEF Facts, L, T

\* The jobs of one target.
LEMMA TargetJobLists ==
    ASSUME Facts(value), NEW t
    PROVE  JobLists(TargetJobs(t), Named(t, NamesOf(value, t)))
<1> DEFINE I == t.integrations
           j0 == IF Enabled(t, "cost_explorer") THEN CostJobs(t) \o OptionalJob(t, "tags") ELSE <<>>
           A0 == CostsOf(value, t) \cup TagsOf(t)
           j1 == j0 \o OptionalJob(t, "organizations")
           A1 == A0 \cup ({"organizations"} \cap I)
           j2 == j1 \o OptionalJob(t, "budgets")
           A2 == A1 \cup ({"budgets"} \cap I)
           j3 == j2 \o OptionalJob(t, "commitments")
           A3 == A2 \cup ({"commitments"} \cap I)
           j4 == j3 \o OptionalJob(t, "anomalies")
           A4 == A3 \cup ({"anomalies"} \cap I)
           j5 == j4 \o OptionalJob(t, "cur")
           A5 == A4 \cup ({"cur"} \cap I)
<1>1. value \in Config BY DEF Facts
<1>2. value.collectors \in SUBSET Range(CostNames) BY <1>1, ConfigTypes
<1>3. value.collectors \subseteq {"total", "service", "region", "account", "forecast"}
    BY <1>2 DEF CostNames, Range
<1>4. \A n \in Integrations : value.interval[n] \in Nat \ {0}
    BY DEF Facts
<1>5. TargetJobs(t) = j5
    BY Zenon DEF TargetJobs
<1>6. NamesOf(value, t) = A5
    BY DEF NamesOf, Optional
<1>7. JobLists(j0, Named(t, A0))
    <2>1. CASE "cost_explorer" \in I
        <3>1. "tags" \notin value.collectors BY <1>3
        <3>2. value.interval["tags"] \in Nat \ {0} /\ value.interval["cost_explorer"] \in Nat \ {0}
            BY <1>4 DEF Integrations
        <3>3. JobLists(CostJobs(t), Named(t, value.collectors))
            BY <1>2, <3>2, CostJobLists, Zenon
        <3>4. JobLists(CostJobs(t) \o OptionalJob(t, "tags"), Named(t, value.collectors \cup ({"tags"} \cap I)))
            BY <3>1, <3>2, <3>3, OneMoreJob, Zenon
        <3>5. j0 = CostJobs(t) \o OptionalJob(t, "tags") /\ A0 = value.collectors \cup ({"tags"} \cap I)
            BY <2>1, Zenon DEF CostsOf, TagsOf, Enabled
        <3> HIDE DEF j0, A0
        <3> QED BY <3>4, <3>5, Zenon
    <2>2. CASE "cost_explorer" \notin I
        <3>1. j0 = <<>> /\ A0 = {} BY <2>2 DEF CostsOf, TagsOf, Enabled
        <3>2. JobLists(<<>>, {}) BY DEF JobLists, JobIds, Lists, IsInjective, Range
        <3>3. Named(t, {}) = {} BY DEF Named
        <3> HIDE DEF j0, A0
        <3> QED BY <3>1, <3>2, <3>3, Zenon
    <2> QED BY <2>1, <2>2
<1>8. A0 \subseteq {"total", "service", "region", "account", "forecast", "tags"}
    BY <1>3 DEF CostsOf, TagsOf
<1> HIDE DEF I, j0, A0
<1>9. "organizations" \notin A0 /\ value.interval["organizations"] \in Nat \ {0} BY <1>4, <1>8 DEF Integrations
<1>10. JobLists(j1, Named(t, A1))
    <2> HIDE DEF j0, A0
    <2> QED BY <1>7, <1>9, OneMoreJob, Zenon DEF I
<1>11. "budgets" \notin A1 /\ value.interval["budgets"] \in Nat \ {0} BY <1>4, <1>8 DEF Integrations
<1>12. JobLists(j2, Named(t, A2))
    <2> HIDE DEF j1, A1
    <2> QED BY <1>10, <1>11, OneMoreJob, Zenon DEF I
<1>13. "commitments" \notin A2 /\ value.interval["commitments"] \in Nat \ {0} BY <1>4, <1>8 DEF Integrations
<1>14. JobLists(j3, Named(t, A3))
    <2> HIDE DEF j2, A2
    <2> QED BY <1>12, <1>13, OneMoreJob, Zenon DEF I
<1>15. "anomalies" \notin A3 /\ value.interval["anomalies"] \in Nat \ {0} BY <1>4, <1>8 DEF Integrations
<1>16. JobLists(j4, Named(t, A4))
    <2> HIDE DEF j3, A3
    <2> QED BY <1>14, <1>15, OneMoreJob, Zenon DEF I
<1>17. "cur" \notin A4 /\ value.interval["cur"] \in Nat \ {0} BY <1>4, <1>8 DEF Integrations
<1>18. JobLists(j5, Named(t, A5))
    <2> HIDE DEF j4, A4
    <2> QED BY <1>16, <1>17, OneMoreJob, Zenon DEF I
<1> HIDE DEF j5, A5
<1> QED BY <1>5, <1>6, <1>18, Zenon

-----------------------------------------------------------------------------
(* The collectors of the first targets of the configuration. *)

RequiredOf(v, t) == IF t.required THEN CostsOf(v, t) ELSE {}

IdsUpTo(v, k) == UNION {Named(v.targets[i], NamesOf(v, v.targets[i])) : i \in 1..k}
RequiredUpTo(v, k) == UNION {Named(v.targets[i], RequiredOf(v, v.targets[i])) : i \in 1..k}

\* One target more.
LEMMA UpToStep ==
    ASSUME NEW v, NEW k \in Nat
    PROVE  /\ IdsUpTo(v, 0) = {} /\ RequiredUpTo(v, 0) = {}
           /\ IdsUpTo(v, k + 1) = IdsUpTo(v, k) \cup Named(v.targets[k + 1], NamesOf(v, v.targets[k + 1]))
           /\ RequiredUpTo(v, k + 1) = RequiredUpTo(v, k) \cup Named(v.targets[k + 1], RequiredOf(v, v.targets[k + 1]))
<1>1. 1..0 = {} /\ 1..(k + 1) = (1..k) \cup {k + 1} OBVIOUS
<1>2. IdsUpTo(v, 0) = {} /\ RequiredUpTo(v, 0) = {} BY <1>1, Zenon DEF IdsUpTo, RequiredUpTo
<1> DEFINE N(i) == Named(v.targets[i], NamesOf(v, v.targets[i]))
           R(i) == Named(v.targets[i], RequiredOf(v, v.targets[i]))
<1> HIDE DEF N, R
<1>3. UNION {N(i) : i \in 1..(k + 1)} = (UNION {N(i) : i \in 1..k}) \cup N(k + 1) BY <1>1
<1>4. UNION {R(i) : i \in 1..(k + 1)} = (UNION {R(i) : i \in 1..k}) \cup R(k + 1) BY <1>1
<1> QED BY <1>2, <1>3, <1>4, Zenon DEF IdsUpTo, RequiredUpTo, N, R

\* Targets have different names, so that a new target brings new identifiers.
LEMMA NewIds ==
    ASSUME NEW v, Facts(v), NEW k \in Nat, k + 1 \in 1..Len(v.targets)
    PROVE  /\ IdsUpTo(v, k) \cap Named(v.targets[k + 1], NamesOf(v, v.targets[k + 1])) = {}
           /\ RequiredUpTo(v, k) \cap Named(v.targets[k + 1], RequiredOf(v, v.targets[k + 1])) = {}
<1>1. \A t, A : \A id \in Named(t, A) : id.target = t.name
    BY DEF Named, Id
<1>2. \A i \in 1..k : v.targets[i].name # v.targets[k + 1].name
    <2>1. Len(v.targets) \in Nat BY ConfigTypes DEF Facts
    <2> QED BY <2>1 DEF Facts
<1>3. \A id \in IdsUpTo(v, k) : \E i \in 1..k : id.target = v.targets[i].name
    BY <1>1 DEF IdsUpTo
<1>4. \A id \in RequiredUpTo(v, k) : \E i \in 1..k : id.target = v.targets[i].name
    BY <1>1 DEF RequiredUpTo
<1> QED BY <1>1, <1>2, <1>3, <1>4

\* The identifiers that the metrics are given are those of all targets, once each.
LEMMA AllIdsLists ==
    ASSUME Facts(value)
    PROVE  Lists(AllIds, IdsUpTo(value, Len(value.targets)))
<1> DEFINE T == value.targets
           n == Len(T)
           N(i) == Named(T[i], NamesOf(value, T[i]))
           S == UNION {N(i) : i \in 1..n}
           ss == [i \in 1..n |-> TargetIds(T[i])]
<1>1. value \in Config /\ \E i \in 1..n : T[i].required BY DEF Facts
<1>2. T \in Seq(TargetConfig) /\ n \in Nat \ {0} /\ DOMAIN T = 1..n BY <1>1, ConfigTypes
<1>3. \A i \in 1..n : Lists(TargetIds(T[i]), N(i))
    <2> SUFFICES ASSUME NEW i \in 1..n PROVE Lists(TargetIds(T[i]), N(i)) OBVIOUS
    <2>1. Lists(configuredCollectorIDs(T[i]), NamesOf(value, T[i])) BY <1>1, ConfigTypes, NamesFacts, Zenon
    <2>2. Lists(IdSeq(T[i], configuredCollectorIDs(T[i])), N(i)) BY <2>1, IdSeqLists, Zenon
    <2> QED BY <2>2, Zenon DEF TargetIds, IdSeq
<1>4. AllIds = FlattenSeq(ss) BY <1>2, Zenon DEF AllIds
<1>5. \A i, j \in 1..n : i # j => N(i) \cap N(j) = {}
    <2>1. \A t, A : \A id \in Named(t, A) : id.target = t.name BY DEF Named, Id
    <2>2. \A i, j \in 1..n : i # j => T[i].name # T[j].name BY DEF Facts
    <2> QED BY <2>1, <2>2
<1>6. S = IdsUpTo(value, n) BY Zenon DEF IdsUpTo
<1>7. Len(ss) = n /\ \A i \in 1..n : ss[i] = TargetIds(T[i])
    BY <1>2
<1> HIDE DEF n, N, ss
<1>8. \A i \in 1..n : ss[i] \in Seq(S) /\ IsInjective(ss[i]) /\ Range(ss[i]) = N(i)
    <2> SUFFICES ASSUME NEW i \in 1..n
                 PROVE  ss[i] \in Seq(S) /\ IsInjective(ss[i]) /\ Range(ss[i]) = N(i)
        OBVIOUS
    <2>1. ss[i] \in Seq(N(i)) /\ IsInjective(ss[i]) /\ Range(ss[i]) = N(i) BY <1>3, <1>7, Zenon DEF Lists
    <2>2. N(i) \subseteq S OBVIOUS
    <2> HIDE DEF S
    <2>3. ss[i] \in Seq(S) BY <2>1, <2>2
    <2> QED BY <2>1, <2>3
<1>9. \A i, j \in 1..n : i # j => Range(ss[i]) \cap Range(ss[j]) = {}
    BY <1>5, <1>8
<1>10. UNION {Range(ss[i]) : i \in 1..n} = S
    BY <1>8
<1> HIDE DEF S
<1>11. /\ FlattenSeq(ss) \in Seq(S) /\ IsInjective(FlattenSeq(ss))
       /\ Range(FlattenSeq(ss)) = UNION {Range(ss[i]) : i \in 1..n}
    BY <1>2, <1>7, <1>8, <1>9, FlattenFacts, Zenon DEF n
<1>12. Lists(FlattenSeq(ss), S) BY <1>10, <1>11, Zenon DEF Lists
<1> QED BY <1>4, <1>6, <1>12, Zenon DEF n

\* What readiness waits for, of one target.
LEMMA RequiredLists ==
    ASSUME Facts(value), NEW t
    PROVE  Lists(TargetRequired(t), Named(t, RequiredOf(value, t)))
<1>1. Lists(Costs, value.collectors) BY ConfigTypes, CostsFacts DEF Facts
<1>2. CASE t.required /\ "cost_explorer" \in t.integrations
    <2>1. TargetRequired(t) = IdSeq(t, Costs) /\ RequiredOf(value, t) = value.collectors
        BY <1>2, SameCosts, Zenon DEF TargetRequired, IdSeq, RequiredOf, CostsOf, Enabled
    <2> QED BY <1>1, <2>1, IdSeqLists, Zenon
<1>3. CASE ~ (t.required /\ "cost_explorer" \in t.integrations)
    <2>1. TargetRequired(t) = <<>> /\ RequiredOf(value, t) = {}
        BY <1>3, Zenon DEF TargetRequired, RequiredOf, CostsOf, Enabled
    <2>2. Lists(<<>>, {}) /\ Named(t, {}) = {} BY DEF Lists, IsInjective, Range, Named
    <2> QED BY <2>1, <2>2, Zenon
<1> QED BY <1>2, <1>3

-----------------------------------------------------------------------------
(* The inductive invariant of the start. *)

Building == {"loaded", "rejected", "validated", "store", "metrics"}
Built == {"scheduled", "listen", "running", "refused"}
Target(i) == value.targets[i]
Targets == Len(value.targets)

BootInv ==
    /\ value \in Config
    /\ stage \in Building \cup {"build"} \cup Built
    /\ stage \notin {"loaded", "rejected"} => Facts(value)
    /\ at \in 1..(Targets + 1)
    /\ stage \in Building => at = 1
    /\ stage \in Built => at = Targets + 1
    /\ JobLists(jobs, IdsUpTo(value, at - 1))
    /\ Lists(required, RequiredUpTo(value, at - 1))
    /\ stage \in {"metrics", "build"} \cup Built => Lists(known, IdsUpTo(value, Targets))

\* A target of a validated configuration.
LEMMA TargetsTyped ==
    ASSUME Facts(value)
    PROVE  /\ Targets \in Nat /\ Targets >= 1 /\ DOMAIN value.targets = 1..Targets
           /\ Range(value.targets) = {Target(i) : i \in 1..Targets}
           /\ \A i \in 1..Targets : TargetFacts(value, Target(i))
<1>1. value \in Config /\ (\E i \in 1..Targets : Target(i).required)
      /\ \A i \in 1..Targets : TargetFacts(value, Target(i))
    BY DEF Facts, Targets, Target
<1>2. value.targets \in Seq(TargetConfig) BY <1>1, ConfigTypes
<1>3. Targets \in Nat /\ DOMAIN value.targets = 1..Targets BY <1>2 DEF Targets
<1>4. Targets >= 1 BY <1>1, <1>3
<1>5. Range(value.targets) = {Target(i) : i \in 1..Targets} BY <1>3 DEF Range, Target
<1> QED BY <1>1, <1>3, <1>4, <1>5

\* The constructors for a target accept what validation accepted.
LEMMA TargetBuilt ==
    ASSUME Facts(value), NEW t, TargetFacts(value, t)
    PROVE  /\ t.name # Blank /\ t.source \in value.sources
           /\ Enabled(t, "cost_explorer") => CostCollectorsBuilt(t)
           /\ OptionalCollectorsBuilt(t)
<1>1. /\ \A k \in Integrations : value.interval[k] \in Nat \ {0} /\ value.pages[k] > 0
      /\ \A k \in (Integrations \ {"cost_explorer"}) \cup {"dimensions"} : value.limit[k] \in Nat \ {0}
    BY DEF Facts
<1>2. /\ value.pages.cost_explorer > 0 /\ value.pages.tags > 0 /\ value.pages.organizations > 0
      /\ value.pages.budgets > 0 /\ value.pages.commitments > 0 /\ value.pages.anomalies > 0 /\ value.pages.cur > 0
    BY <1>1 DEF Integrations
<1>3. /\ value.limit.dimensions > 0 /\ value.limit.tags > 0 /\ value.limit.organizations \in Nat \ {0}
      /\ value.limit.commitments > 0 /\ value.limit.anomalies > 0 /\ value.limit.cur > 0
    BY <1>1 DEF Integrations
<1>4. \A s : Valid(s) BY DEF Valid, Facts
<1>5. Range(Costs) = value.collectors
    BY CostsFacts, ConfigTypes DEF Facts, Lists
<1>6. CostCollectorsBuilt(t)
    <2>1. \A n \in Range(buildCostCollectors) :
              /\ n \in Grouped => value.limit.dimensions > 0 /\ Valid({"overflow_label"})
              /\ n = "account" => Range(t.linked) \subseteq AccountIDs
              /\ n = "forecast" => value.predictionInterval \in 80..99
        BY <1>3, <1>4, <1>5, SameCosts, Zenon DEF TargetFacts, Facts
    <2>2. Enabled(t, "tags") => t.keys # <<>> BY Zenon DEF Enabled, TargetFacts
    <2> QED BY <1>2, <1>3, <2>1, <2>2, Zenon DEF CostCollectorsBuilt
<1>7. OptionalCollectorsBuilt(t)
    <2>1. Enabled(t, "organizations") =>
              Len(t.ids) <= value.limit.organizations /\ Range(t.ids) \subseteq AccountIDs /\ IsInjective(t.ids)
        <3>1. CASE t.ids = <<>>
            <4>1. Len(<<>>) = 0 /\ Range(<<>>) = {} /\ IsInjective(<<>>) BY DEF Range, IsInjective
            <4> QED BY <3>1, <4>1, <1>3
        <3>2. CASE t.ids # <<>>
            BY <3>2, Zenon DEF Enabled, TargetFacts
        <3> QED BY <3>1, <3>2
    <2>2. Enabled(t, "budgets") => t.account \in AccountIDs /\ t.names # <<>> /\ Unique(t.names)
        BY Zenon DEF Enabled, TargetFacts
    <2>3. Enabled(t, "cur") => t.queryTimeout > 0 /\ t.pollInterval > 0 /\ t.pollInterval < t.queryTimeout
        BY Zenon DEF Enabled, TargetFacts
    <2>4. value.limit.organizations > 0 BY <1>3
    <2> QED BY <1>2, <1>3, <1>4, <2>1, <2>2, <2>3, <2>4, Zenon DEF OptionalCollectorsBuilt
<1> QED BY <1>6, <1>7, Zenon DEF TargetFacts

\* Readiness waits for something, once the required target is built.
LEMMA SomethingRequired ==
    ASSUME Facts(value)
    PROVE  RequiredUpTo(value, Targets) # {} /\ IdsUpTo(value, Targets) # {}
<1>1. PICK i \in 1..Targets : Target(i).required BY DEF Facts, Targets, Target
<1>2. PICK n \in value.collectors : TRUE BY DEF Facts
<1>3. "cost_explorer" \in Target(i).integrations BY <1>1, TargetsTyped DEF TargetFacts
<1>4. n \in RequiredOf(value, Target(i)) /\ n \in NamesOf(value, Target(i))
    BY <1>1, <1>2, <1>3 DEF RequiredOf, NamesOf, CostsOf
<1>5. /\ Id(Target(i), n) \in Named(Target(i), RequiredOf(value, Target(i)))
      /\ Id(Target(i), n) \in Named(Target(i), NamesOf(value, Target(i)))
    BY <1>4, Zenon DEF Named
<1> QED BY <1>5, Zenon DEF RequiredUpTo, IdsUpTo, Target

\* Identifiers of the configuration have a target.
LEMMA IdsValid ==
    ASSUME Facts(value), NEW s
    PROVE  /\ Lists(s, IdsUpTo(value, Targets)) => s # <<>> /\ ValidIds(s)
           /\ Lists(s, RequiredUpTo(value, Targets)) => s # <<>> /\ ValidIds(s)
<1>1. \A t, A : \A id \in Named(t, A) : id.target = t.name
    BY DEF Named, Id
<1>2. \A i \in 1..Targets : Target(i).name # Blank
    BY TargetsTyped DEF TargetFacts
<1>3. \A id \in IdsUpTo(value, Targets) : id.target # Blank
    BY <1>1, <1>2 DEF IdsUpTo, Target
<1>4. \A id \in RequiredUpTo(value, Targets) : id.target # Blank
    BY <1>1, <1>2 DEF RequiredUpTo, Target
<1>5. \A A : Lists(s, A) /\ A # {} => s # <<>>
    BY DEF Lists, Range
<1> QED BY <1>3, <1>4, <1>5, SomethingRequired, Zenon DEF Lists, ValidIds

\* Nothing is built at first.
LEMMA BootInit == Init => BootInv
<1> SUFFICES ASSUME Init PROVE BootInv OBVIOUS
<1>1. value \in Config /\ stage = "loaded" /\ at = 1 /\ jobs = <<>> /\ required = <<>>
    BY StartupAssumption DEF Init
<1>2. value.targets \in Seq(TargetConfig) /\ Targets \in Nat BY <1>1, ConfigTypes DEF Targets
<1>3. IdsUpTo(value, 0) = {} /\ RequiredUpTo(value, 0) = {} BY UpToStep
<1>4. Lists(<<>>, {}) BY DEF Lists, IsInjective, Range
<1>5. JobLists(<<>>, {}) BY DEF JobLists, JobIds, Lists, IsInjective, Range
<1>6. at \in 1..(Targets + 1) /\ at - 1 = 0 BY <1>1, <1>2
<1>7. stage \in Building /\ stage \notin Built /\ stage \notin {"metrics", "build"} BY <1>1 DEF Building, Built
<1> QED BY <1>1, <1>3, <1>4, <1>5, <1>6, <1>7 DEF BootInv

\* A step that only moves the stage, from one to another of the same kind.
LEMMA StageMoves ==
    ASSUME BootInv, UNCHANGED <<value, at, jobs, required>>,
           stage' \in Building \cup {"build"} \cup Built,
           stage' \notin {"loaded", "rejected"} => Facts(value),
           stage' \in Building => at = 1,
           stage' \in Built => at = Targets + 1,
           stage' \in {"metrics", "build"} \cup Built => Lists(known', IdsUpTo(value, Targets))
    PROVE  BootInv'
<1>1. value' = value /\ at' = at /\ jobs' = jobs /\ required' = required OBVIOUS
<1>2. Targets' = Targets BY <1>1, Zenon DEF Targets
<1> QED BY <1>1, <1>2, Zenon DEF BootInv

\* Every constructor, and every round of buildJobs, preserves BootInv.
LEMMA BootStep == BootInv /\ [Next]_system => BootInv'
<1> SUFFICES ASSUME BootInv, [Next]_system PROVE BootInv' OBVIOUS
<1> USE DEF Building, Built
<1>1. CASE Validate
    <2>1. /\ stage = "loaded" /\ UNCHANGED <<value, at, jobs, required, known>>
          /\ stage' = IF validateBase /\ value.sources # {} /\ validateTargets THEN "validated" ELSE "rejected"
        BY <1>1, Zenon DEF Validate
    <2>2. at = 1 BY <2>1 DEF BootInv
    <2>3. stage' # "rejected" => Facts(value)
        BY <2>1, AcceptedFacts, Zenon DEF BootInv
    <2>4. stage' \in {"validated", "rejected"} BY <2>1
    <2> QED BY <2>1, <2>2, <2>3, <2>4, StageMoves
<1>2. CASE NewStore
    <2>1. stage = "validated" /\ UNCHANGED <<value, at, jobs, required, known>>
        BY <1>2, Zenon DEF NewStore, Construct
    <2>2. Facts(value) /\ at = 1 BY <2>1 DEF BootInv
    <2>3. AllIds # <<>> BY <2>2, AllIdsLists, IdsValid DEF Targets
    <2>4. value.freshnessTTL > 0 /\ value.staleAfter >= value.freshnessTTL BY <2>2 DEF Facts
    <2>5. \A t \in Range(value.targets) : t.name # Blank
        BY <2>2, TargetsTyped DEF TargetFacts
    <2>6. value.limit.organizations > 0
        BY <2>2 DEF Facts, Integrations
    <2>7. stage' = "store"
        BY <1>2, <2>3, <2>4, <2>5, <2>6, Zenon DEF NewStore, Construct
    <2> QED BY <2>1, <2>2, <2>7, StageMoves
<1>3. CASE NewExporter
    <2>1. stage = "store" /\ UNCHANGED <<value, at, jobs, required>> /\ known' = AllIds
        BY <1>3, Zenon DEF NewExporter, Construct
    <2>2. Facts(value) /\ at = 1 BY <2>1 DEF BootInv
    <2>3. Lists(AllIds, IdsUpTo(value, Targets)) BY <2>2, AllIdsLists DEF Targets
    <2>4. AllIds # <<>> /\ ValidIds(AllIds) BY <2>2, <2>3, IdsValid
    <2>5. stage' = "metrics" BY <1>3, <2>4, Zenon DEF NewExporter, Construct
    <2>6. Lists(known', IdsUpTo(value, Targets)) BY <2>1, <2>3, Zenon
    <2> QED BY <2>1, <2>2, <2>5, <2>6, StageMoves
<1>4. CASE NewFactory
    <2>1. /\ stage = "metrics" /\ stage' = "build" /\ UNCHANGED <<value, at, jobs, required, known>>
        BY <1>4, Zenon DEF NewFactory, Construct
    <2>2. Facts(value) /\ Lists(known, IdsUpTo(value, Targets)) BY <2>1 DEF BootInv
    <2>3. Lists(known', IdsUpTo(value, Targets)) BY <2>1, <2>2, Zenon
    <2> QED BY <2>1, <2>2, <2>3, StageMoves
<1>5. CASE BuildTarget
    <2> DEFINE t == Target(at)
               k == at - 1
    <2>1. /\ at <= Targets /\ stage = "build" /\ at' = at + 1 /\ UNCHANGED <<value, known>>
          /\ jobs' = jobs \o TargetJobs(t) /\ required' = required \o TargetRequired(t)
        BY <1>5, Zenon DEF BuildTarget, Construct, Target, Targets
    <2>2. Facts(value) /\ at \in 1..(Targets + 1) BY <2>1 DEF BootInv
    <2>3. /\ Targets \in Nat /\ at \in 1..Targets /\ k \in Nat /\ k + 1 = at /\ at' - 1 = k + 1
          /\ at' \in 1..(Targets + 1)
        BY <2>1, <2>2, TargetsTyped
    <2>4. TargetFacts(value, t) BY <2>2, <2>3, TargetsTyped
    <2>5. stage' = "build"
        BY <1>5, <2>2, <2>4, TargetBuilt, Zenon DEF BuildTarget, Construct, Target
    <2>6. JobLists(jobs, IdsUpTo(value, k)) /\ Lists(required, RequiredUpTo(value, k))
        BY DEF BootInv
    <2>7. JobLists(TargetJobs(t), Named(t, NamesOf(value, t))) BY <2>2, TargetJobLists, Zenon
    <2>8. Lists(TargetRequired(t), Named(t, RequiredOf(value, t))) BY <2>2, RequiredLists, Zenon
    <2>9. t = value.targets[k + 1] /\ k + 1 \in 1..Len(value.targets) BY <2>3 DEF Target, Targets
    <2> HIDE DEF t, k
    <2>10. /\ IdsUpTo(value, k) \cap Named(t, NamesOf(value, t)) = {}
           /\ RequiredUpTo(value, k) \cap Named(t, RequiredOf(value, t)) = {}
        BY <2>2, <2>3, <2>9, NewIds, Zenon
    <2>11. /\ IdsUpTo(value, k + 1) = IdsUpTo(value, k) \cup Named(t, NamesOf(value, t))
           /\ RequiredUpTo(value, k + 1) = RequiredUpTo(value, k) \cup Named(t, RequiredOf(value, t))
        BY <2>3, <2>9, UpToStep, Zenon
    <2>12. JobLists(jobs \o TargetJobs(t), IdsUpTo(value, k + 1))
        <3>1. JobLists(jobs \o TargetJobs(t), IdsUpTo(value, k) \cup Named(t, NamesOf(value, t)))
            BY <2>6, <2>7, <2>10, JobListsConcat, Zenon
        <3> QED BY <3>1, <2>11
    <2>13. Lists(required \o TargetRequired(t), RequiredUpTo(value, k + 1))
        <3>1. Lists(required \o TargetRequired(t), RequiredUpTo(value, k) \cup Named(t, RequiredOf(value, t)))
            BY <2>6, <2>8, <2>10, ListsConcat, Zenon
        <3> QED BY <3>1, <2>11
    <2>14. JobLists(jobs, IdsUpTo(value, at - 1))' /\ Lists(required, RequiredUpTo(value, at - 1))'
        <3>1. value' = value BY <2>1
        <3> QED BY <3>1, <2>1, <2>3, <2>12, <2>13, Zenon
    <2>15. Targets' = Targets /\ value' = value BY <2>1, Zenon DEF Targets
    <2>16. Lists(known, IdsUpTo(value, Targets)) BY <2>1 DEF BootInv
    <2>17. Lists(known, IdsUpTo(value, Targets))' BY <2>1, <2>15, <2>16, Zenon
    <2>18. at' \in 1..(Targets' + 1) BY <2>3, <2>15
    <2>19. Facts(value)' /\ (value \in Config)' BY <2>2, <2>15, Zenon DEF Facts
    <2> QED BY <2>5, <2>14, <2>17, <2>18, <2>19 DEF BootInv
<1>6. CASE NewJobs
    <2>1. at > Targets /\ stage = "build" /\ UNCHANGED <<value, at, jobs, required, known>>
        BY <1>6, Zenon DEF NewJobs, Construct, Targets
    <2>2. Facts(value) /\ Lists(known, IdsUpTo(value, Targets)) /\ at \in 1..(Targets + 1) BY <2>1 DEF BootInv
    <2>3. at = Targets + 1 /\ at - 1 = Targets BY <2>1, <2>2, TargetsTyped
    <2>4. JobLists(jobs, IdsUpTo(value, Targets)) BY <2>3 DEF BootInv
    <2>5. JobIds(jobs) # <<>> /\ ValidIds(JobIds(jobs)) BY <2>2, <2>4, IdsValid DEF JobLists
    <2>6. jobs # <<>> BY <2>5 DEF JobIds
    <2>7. \A j \in Range(jobs) : j.interval > 0
        <3>1. jobs \in Seq(JobOf(IdsUpTo(value, Targets))) BY <2>4 DEF JobLists
        <3>2. \A j \in JobOf(IdsUpTo(value, Targets)) : j.interval > 0 BY DEF JobOf
        <3>3. Range(jobs) \subseteq JobOf(IdsUpTo(value, Targets)) BY <3>1 DEF Range
        <3> QED BY <3>2, <3>3
    <2>8. \A s : Valid(s) BY <2>2 DEF Valid, Facts
    <2>9. stage' = "scheduled"
        BY <1>6, <2>5, <2>6, <2>7, <2>8, Zenon DEF NewJobs, Construct, JobIds
    <2>10. Lists(known', IdsUpTo(value, Targets)) BY <2>1, <2>2, Zenon
    <2> QED BY <2>1, <2>2, <2>3, <2>9, <2>10, StageMoves
<1>7. CASE NewServer
    <2>1. stage = "scheduled" /\ UNCHANGED <<value, at, jobs, required, known>>
        BY <1>7, Zenon DEF NewServer, Construct
    <2>2. Facts(value) /\ Lists(known, IdsUpTo(value, Targets)) /\ at = Targets + 1 BY <2>1 DEF BootInv
    <2>3. at - 1 = Targets BY <2>2, TargetsTyped
    <2>4. Lists(required, RequiredUpTo(value, Targets)) BY <2>3 DEF BootInv
    <2>5. required # <<>> /\ ValidIds(required) BY <2>2, <2>4, IdsValid
    <2>6. \A s : Valid(s) BY <2>2 DEF Valid, Facts
    <2>7. stage' = "listen" BY <1>7, <2>5, <2>6, Zenon DEF NewServer, Construct
    <2>8. Lists(known', IdsUpTo(value, Targets)) BY <2>1, <2>2, Zenon
    <2> QED BY <2>1, <2>2, <2>7, <2>8, StageMoves
<1>8. CASE Listen
    <2>1. stage = "listen" /\ stage' \in {"running", "refused"} /\ UNCHANGED <<value, at, jobs, required, known>>
        BY <1>8, Zenon DEF Listen
    <2>2. Facts(value) /\ Lists(known, IdsUpTo(value, Targets)) /\ at = Targets + 1 BY <2>1 DEF BootInv
    <2>3. Lists(known', IdsUpTo(value, Targets)) BY <2>1, <2>2, Zenon
    <2> QED BY <2>1, <2>2, <2>3, StageMoves
<1>9. CASE UNCHANGED boot
    <2>1. UNCHANGED <<value, stage, known, at, jobs, required>> BY <1>9, Zenon DEF boot
    <2>2. Targets' = Targets BY <2>1, Zenon DEF Targets
    <2> QED BY <2>1, <2>2, Zenon DEF BootInv
<1> QED
    BY <1>1, <1>2, <1>3, <1>4, <1>5, <1>6, <1>7, <1>8, <1>9, Zenon
    DEF Next, Refresh, Collect, Done, system

-----------------------------------------------------------------------------
(* Sums. *)

Pick(s) == CHOOSE x \in s : TRUE
Subsets(S, n) == {s \in SUBSET S : Cardinality(s) <= n}
Term(f, g, s) == IF s = {} THEN 0 ELSE f[Pick(s)] + g[s \ {Pick(s)}]

\* What SumFunctionOnSet computes: the recursive function that defines it exists,
\* as the least size of sets without one would show.
LEMMA SumUnfolds ==
    ASSUME NEW f, NEW S, IsFiniteSet(S)
    PROVE  \E g : /\ \A s \in SUBSET S : g[s] = Term(f, g, s)
                  /\ SumFunctionOnSet(f, S) = g[S]
<1> DEFINE Is(g, n) == g = [s \in Subsets(S, n) |-> Term(f, g, s)]
           T == {n \in Nat : ~ \E g : Is(g, n)}
<1>1. \A s \in SUBSET S : IsFiniteSet(s) /\ Cardinality(s) \in Nat /\ Cardinality(s) <= Cardinality(S)
    BY FS_Subset, FS_CardinalityType
<1>2. Cardinality(S) \in Nat BY FS_CardinalityType
<1>3. Subsets(S, Cardinality(S)) = SUBSET S BY <1>1 DEF Subsets
<1>4. SUFFICES \E g : Is(g, Cardinality(S))
    <2>1. SUFFICES ASSUME \E g : g = [s \in SUBSET S |-> Term(f, g, s)]
                   PROVE  \E g : /\ g = [s \in SUBSET S |-> Term(f, g, s)]
                                 /\ SumFunctionOnSet(f, S) = g[S]
        BY <1>3, <1>4
    <2> QED BY <2>1 DEF SumFunctionOnSet, FoldFunctionOnSet, MapThenFoldSet, Term, Pick
<1>5. SUFFICES ASSUME T # {} PROVE FALSE
    <2> HIDE DEF Is
    <2> QED BY <1>2
<1>6. PICK n \in T : \A k \in T : n <= k
    <2> HIDE DEF Is
    <2>1. T \in SUBSET Nat OBVIOUS
    <2> HIDE DEF T
    <2> QED BY <1>5, <2>1, MinNat
<1>7. n # 0
    <2>1. \A s \in Subsets(S, 0) : s = {}
        <3> SUFFICES ASSUME NEW s \in SUBSET S, Cardinality(s) <= 0 PROVE s = {} BY DEF Subsets
        <3>1. IsFiniteSet(s) /\ Cardinality(s) = 0 BY <1>1
        <3> QED BY <3>1, FS_EmptySet
    <2>2. Is([s \in Subsets(S, 0) |-> 0], 0) BY <2>1 DEF Term
    <2> HIDE DEF Is
    <2> QED BY <2>2
<1>8. PICK g : Is(g, n - 1)
    <2> HIDE DEF Is
    <2> QED BY <1>6, <1>7
<1> DEFINE h == [s \in Subsets(S, n) |-> Term(f, g, s)]
<1>9. \A s \in Subsets(S, n - 1) : s \in Subsets(S, n) /\ h[s] = g[s]
    <2>1. \A s \in Subsets(S, n - 1) : s \in Subsets(S, n) BY <1>1, <1>6 DEF Subsets
    <2>2. \A s \in Subsets(S, n - 1) : g[s] = Term(f, g, s) BY <1>8
    <2>3. \A s \in Subsets(S, n) : h[s] = Term(f, g, s) OBVIOUS
    <2> HIDE DEF h
    <2> QED BY <2>1, <2>2, <2>3
<1>10. \A s \in Subsets(S, n) : s # {} => s \ {Pick(s)} \in Subsets(S, n - 1)
    <2> SUFFICES ASSUME NEW s \in SUBSET S, Cardinality(s) <= n, s # {}
                 PROVE  s \ {Pick(s)} \in SUBSET S /\ Cardinality(s \ {Pick(s)}) <= n - 1
        BY DEF Subsets
    <2>1. Pick(s) \in s BY DEF Pick
    <2>2. IsFiniteSet(s) /\ Cardinality(s) \in Nat BY <1>1
    <2>3. Cardinality(s \ {Pick(s)}) = Cardinality(s) - 1 BY <2>1, <2>2, FS_RemoveElement
    <2> QED BY <2>2, <2>3, <1>6
<1>11. \A s \in Subsets(S, n) : Term(f, h, s) = Term(f, g, s)
    <2> HIDE DEF h
    <2> QED BY <1>9, <1>10 DEF Term
<1>12. Is(h, n)
    <2>1. h = [s \in Subsets(S, n) |-> Term(f, g, s)] OBVIOUS
    <2> HIDE DEF h
    <2> QED BY <2>1, <1>11
<1> QED
    <2> HIDE DEF Is, h
    <2> QED BY <1>12

\* A sum of bounded terms is bounded by their number.
LEMMA SumBounded ==
    ASSUME NEW f, NEW S, IsFiniteSet(S), NEW b \in Nat,
           \A x \in S : f[x] \in Nat /\ f[x] <= b
    PROVE  SumFunctionOnSet(f, S) \in Nat /\ SumFunctionOnSet(f, S) <= b * Cardinality(S)
<1>1. PICK g : (\A s \in SUBSET S : g[s] = Term(f, g, s)) /\ SumFunctionOnSet(f, S) = g[S]
    BY SumUnfolds
<1> DEFINE P(s) == g[s] \in Nat /\ g[s] <= b * Cardinality(s)
           T == {n \in Nat : \E s \in SUBSET S : Cardinality(s) = n /\ ~ P(s)}
<1>2. \A s \in SUBSET S : IsFiniteSet(s) /\ Cardinality(s) \in Nat
    BY FS_Subset, FS_CardinalityType
<1>3. SUFFICES ASSUME T # {} PROVE FALSE
    <2>1. SUFFICES P(S) BY <1>1
    <2> HIDE DEF P
    <2> QED BY <1>2
<1>4. PICK n \in T : \A k \in T : n <= k
    <2> HIDE DEF P
    <2>1. T \in SUBSET Nat OBVIOUS
    <2> HIDE DEF T
    <2> QED BY <1>3, <2>1, MinNat
<1>5. PICK s \in SUBSET S : Cardinality(s) = n /\ ~ P(s)
    <2> HIDE DEF P
    <2> QED BY <1>4
<1>6. s # {}
    <2>1. g[{}] = 0 /\ Cardinality({}) = 0 BY <1>1, FS_EmptySet DEF Term
    <2>2. b * 0 = 0 OBVIOUS
    <2>3. P({}) BY <2>1, <2>2
    <2> HIDE DEF P
    <2> QED BY <2>3, <1>5
<1> DEFINE r == s \ {Pick(s)}
           a == f[Pick(s)]
<1>7. Pick(s) \in s BY <1>6 DEF Pick
<1>8. Cardinality(r) = n - 1 /\ r \in SUBSET S /\ n \in Nat BY <1>2, <1>5, <1>7, FS_RemoveElement
<1>9. P(r)
    <2>1. n - 1 \in Nat BY <1>2, <1>8
    <2> HIDE DEF P, r
    <2> QED BY <1>4, <1>8, <2>1
<1>10. g[s] = a + g[r] /\ a \in Nat /\ a <= b BY <1>1, <1>6, <1>7 DEF Term
<1>11. b * (n - 1) = b * n - b BY <1>8
<1>12. P(s)
    <2> HIDE DEF r, a
    <2>1. g[r] \in Nat /\ g[r] <= b * (n - 1) BY <1>8, <1>9
    <2>2. b * n \in Nat BY <1>8
    <2>3. g[s] \in Nat /\ g[s] <= b * n BY <2>1, <2>2, <1>10, <1>11
    <2> QED BY <2>3, <1>5
<1> QED BY <1>5, <1>12

\* A list has as many elements as members.
LEMMA ListLength ==
    ASSUME NEW s, NEW A, Lists(s, A)
    PROVE  IsFiniteSet(A) /\ Cardinality(A) = Len(s)
<1>1. s \in Seq(A) /\ Len(s) \in Nat /\ DOMAIN s = 1..Len(s) /\ IsInjective(s) /\ Range(s) = A
    BY DEF Lists
<1>2. s \in Bijection(1..Len(s), A)
    <2>1. s \in [1..Len(s) -> A] BY <1>1
    <2>2. \A x \in A : \E i \in 1..Len(s) : s[i] = x BY <1>1 DEF Range
    <2> QED BY <1>1, <2>1, <2>2 DEF Bijection, Injection, Surjection
<1>3. IsFiniteSet(1..Len(s)) /\ Cardinality(1..Len(s)) = Len(s) BY <1>1, FS_Interval
<1>4. ExistsBijection(1..Len(s), A) BY <1>2 DEF ExistsBijection
<1> QED BY <1>3, <1>4, FS_Bijection

-----------------------------------------------------------------------------
(* The theorems about the start. *)

\* BootInv holds of every state: after each constructor the process has the
\* jobs, the identifiers and the readiness list of exactly the targets that
\* have been built (bootstrap.go, Run and buildJobs).
THEOREM BootInductive == Spec => []BootInv
    BY BootInit, BootStep, PTL DEF Spec

\* No constructor refuses a configuration that Validate accepted, for any
\* number of targets, any integrations and any limits (bootstrap.go, Run).
THEOREM AcceptedStarts == Spec => []AcceptedConfigStarts
<1>1. BootInv => AcceptedConfigStarts
    BY DEF BootInv, AcceptedConfigStarts, Building, Built
<1> QED BY <1>1, BootInductive, PTL

\* The scheduler, the metrics and readiness agree on the collectors, whatever
\* the targets and integrations (bootstrap.go, configuredCollectorIDs, buildJobs).
THEOREM JobsMatch == Spec => []JobsMatchConfiguration
<1>1. ASSUME BootInv, stage = "running" PROVE JobsMatchConfiguration
    <2> DEFINE D == IdsUpTo(value, Targets)
               R == RequiredUpTo(value, Targets)
    <2>1. Facts(value) /\ at = Targets + 1 /\ Lists(known, D) BY <1>1 DEF BootInv, Built
    <2>2. at - 1 = Targets BY <2>1, TargetsTyped
    <2>3. JobLists(jobs, D) /\ Lists(required, R) BY <2>2, <1>1 DEF BootInv
    <2>4. /\ jobs \in Seq(JobOf(D)) /\ Lists(JobIds(jobs), D)
          /\ Range(JobIds(jobs)) = D /\ Range(known) = D /\ Range(required) = R
        BY <2>1, <2>3, Zenon DEF JobLists, Lists
    <2>5. {j.id : j \in Range(jobs)} = Range(JobIds(jobs))
        <3>1. DOMAIN JobIds(jobs) = DOMAIN jobs /\ \A i \in DOMAIN jobs : JobIds(jobs)[i] = jobs[i].id
            BY DEF JobIds
        <3> QED BY <3>1 DEF Range
    <2>6. Len(jobs) = Len(known)
        <3>1. Cardinality(D) = Len(JobIds(jobs)) /\ Cardinality(D) = Len(known)
            BY <2>1, <2>4, ListLength, Zenon
        <3>2. Len(JobIds(jobs)) = Len(jobs)
            <4> HIDE DEF D
            <4>1. Len(jobs) \in Nat /\ DOMAIN jobs = 1..Len(jobs) BY <2>4
            <4> QED BY <4>1 DEF JobIds
        <3> QED BY <3>1, <3>2
    <2>7. required # <<>> BY <2>1, <2>3, IdsValid
    <2>8. ASSUME NEW id \in R
          PROVE  /\ id \in D /\ id.name \in Range(CostNames)
                 /\ \E t \in Range(value.targets) : t.name = id.target /\ t.required
        <3>1. PICK i \in 1..Targets : id \in Named(Target(i), RequiredOf(value, Target(i)))
            BY DEF RequiredUpTo, Target
        <3>2. PICK n \in RequiredOf(value, Target(i)) : id = Id(Target(i), n)
            BY <3>1 DEF Named
        <3>3. Target(i).required /\ n \in value.collectors /\ n \in NamesOf(value, Target(i))
            BY <3>2 DEF RequiredOf, CostsOf, NamesOf
        <3>4. id \in Named(Target(i), NamesOf(value, Target(i)))
            BY <3>2, <3>3 DEF Named
        <3>5. id \in D BY <3>4, Zenon DEF IdsUpTo, Target
        <3>6. value.collectors \subseteq Range(CostNames) BY <2>1, ConfigTypes DEF Facts
        <3>7. id.name = n /\ id.target = Target(i).name BY <3>2 DEF Id
        <3>8. Target(i) \in Range(value.targets) BY <2>1, TargetsTyped
        <3> QED BY <3>3, <3>5, <3>6, <3>7, <3>8
    <2> HIDE DEF D, R
    <2> QED BY <2>4, <2>5, <2>6, <2>7, <2>8, Zenon DEF JobsMatchConfiguration
<1>2. BootInv => JobsMatchConfiguration
    BY <1>1 DEF JobsMatchConfiguration
<1> QED BY <1>2, BootInductive, PTL

-----------------------------------------------------------------------------
(* A refresh has the settings of the target whose collector it is. *)

Settings(i) == [target |-> Target(i), limit |-> value.limit]

RefreshInv ==
    collector # NoCollector =>
        /\ stage = "running" /\ service \in Services[collector]
        /\ \E i \in 1..Targets : config = Settings(i) /\ collector \in NamesOf(value, Target(i))

FitInv == BootInv /\ RefreshInv /\ SelectionFits

\* The steps of Collect leave the inputs alone.
LEMMA CollectFrame ==
    /\ CollectCosts => UNCHANGED inputs /\ collector \in Collectors
    /\ CollectMetadata => UNCHANGED inputs
<1>1. CollectCosts => UNCHANGED inputs
    BY Zenon DEF CollectCosts, ReadCostsFails, ReadTagCostsFails, QueryFails, ReadCosts, AppendTotals, AppendLimited,
           RefuseGrouped, ReadTagCosts, FinishTags, QueryCosts, QueryTagCosts, FinishCUR, Return, EndWindow
<1>2. CollectCosts => collector \in Collectors
    BY Zenon DEF CollectCosts, ReadCostsFails, ReadTagCostsFails, QueryFails, ReadCosts, AppendTotals, AppendLimited,
           RefuseGrouped, ReadTagCosts, FinishTags, QueryCosts, QueryTagCosts, FinishCUR, Collectors
<1>3. CollectMetadata => UNCHANGED inputs
    BY Zenon DEF CollectMetadata, MetadataFails, ReadForecast, ReadBudgets, ReadAccounts, ReadCommitments,
           FinishCommitments, ReadAnomalySummary, Return, Finish
<1> QED BY <1>1, <1>2, <1>3

\* The figures of a budget are at most three.
LEMMA BudgetSeries ==
    ASSUME NEW names, NEW found, IsInjective(names), NEW S, names \in Seq(S),
           \A b \in found : mapBudget(b) /\ b.name \in Range(names),
           \A b, c \in found : b.name = c.name => b = c
    PROVE  SeriesCount({[kind |-> "budget", name |-> b.name, limit |-> b.limit,
                         actual |-> b.actual, forecasted |-> b.forecasted] : b \in found}) \in 0..(3 * Len(names))
<1> DEFINE Item(b) == [kind |-> "budget", name |-> b.name, limit |-> b.limit,
                       actual |-> b.actual, forecasted |-> b.forecasted]
           items == {Item(b) : b \in found}
           N == Range(names)
           h == [i \in items |-> i.name]
           w == [i \in items |-> ItemSeries(i)]
<1>1. IsFiniteSet(N) /\ Cardinality(N) = Len(names) /\ Len(names) \in Nat
    <2>1. names \in Seq(N) /\ Len(names) \in Nat BY DEF Range
    <2>2. Lists(names, N) BY <2>1 DEF Lists
    <2> QED BY <2>1, <2>2, ListLength
<1>2. h \in Injection(items, N)
    <2>1. \A i \in items : \E b \in found : i = Item(b) /\ i.name = b.name OBVIOUS
    <2>2. h \in [items -> N] BY <2>1
    <2>3. IsInjective(h) BY <2>1 DEF IsInjective
    <2> QED BY <2>2, <2>3 DEF Injection
<1>3. IsFiniteSet(items) /\ Cardinality(items) <= Len(names) /\ Cardinality(items) \in Nat
    <2> HIDE DEF items, N, h
    <2> QED BY <1>1, <1>2, FS_Injection, FS_CardinalityType
<1>4. ASSUME NEW i \in items PROVE w[i] \in Nat /\ w[i] <= 3
    <2>1. PICK b \in found : i = Item(b) OBVIOUS
    <2>2. i.kind = "budget" /\ i.actual \subseteq {b.limit} /\ i.forecasted \subseteq {b.limit}
        BY <2>1 DEF mapBudget
    <2>3. ASSUME NEW x, NEW y, y \subseteq {x} PROVE Cardinality(y) \in Nat /\ Cardinality(y) <= 1
        <3>1. IsFiniteSet({x}) /\ Cardinality({x}) = 1 BY FS_Singleton
        <3> QED BY <2>3, <3>1, FS_Subset, FS_CardinalityType
    <2>4. /\ Cardinality(i.actual) \in Nat /\ Cardinality(i.actual) <= 1
          /\ Cardinality(i.forecasted) \in Nat /\ Cardinality(i.forecasted) <= 1
        BY <2>2, <2>3
    <2>5. w[i] = 1 + Cardinality(i.actual) + Cardinality(i.forecasted)
        <3>1. w[i] = ItemSeries(i) OBVIOUS
        <3> HIDE DEF w, items, Item
        <3> QED BY <3>1, <2>2 DEF ItemSeries
    <2> QED BY <2>4, <2>5
<1>5. SeriesCount(items) = SumFunctionOnSet(w, items)
    BY Zenon DEF SeriesCount, SumFunction
<1>6. SumFunctionOnSet(w, items) \in Nat /\ SumFunctionOnSet(w, items) <= 3 * Cardinality(items)
    <2> HIDE DEF items, w
    <2> QED BY <1>3, <1>4, SumBounded
<1> HIDE DEF items, w
<1>7. SeriesCount(items) \in 0..(3 * Len(names)) BY <1>1, <1>3, <1>5, <1>6
<1> QED BY <1>7, Zenon DEF items

\* The job that is refreshed is one of the target whose settings it gets.
LEMMA RefreshStep ==
    ASSUME BootInv, RefreshInv, SelectionFits, Refresh
    PROVE  RefreshInv' /\ SelectionFits'
<1>1. stage = "running" /\ collector = NoCollector /\ result = "none" /\ UNCHANGED boot
    BY Zenon DEF Refresh
<1>2. /\ value' = value /\ stage' = stage /\ Targets' = Targets
      /\ \A i : Target(i)' = Target(i) /\ Settings(i)' = Settings(i)
    <2>1. value' = value /\ stage' = stage BY <1>1, Zenon DEF boot
    <2>2. \A i : Target(i)' = Target(i) BY <2>1, Zenon DEF Target
    <2> QED BY <2>1, <2>2, Zenon DEF Targets, Settings
<1>3. PICK j \in Range(jobs), t \in Range(value.targets) :
          /\ j.id.target = t.name
          /\ IF t.source \in broken THEN Return("unverified")
             ELSE Begin(j.id.name, [target |-> t, limit |-> value.limit])
    BY Zenon DEF Refresh
<1>4. CASE t.source \in broken
    <2>1. collector' = NoCollector BY <1>1, <1>3, <1>4, Zenon DEF Return, inputs
    <2> QED BY <2>1 DEF RefreshInv, SelectionFits, NoCollector
<1>5. CASE t.source \notin broken
    <2>1. /\ collector' = j.id.name /\ config' = [target |-> t, limit |-> value.limit]
          /\ service' \in Services[j.id.name] /\ result' = "none"
        BY <1>1, <1>3, <1>5, Zenon DEF Begin
    <2>2. Facts(value) /\ at = Targets + 1 BY <1>1 DEF BootInv, Built
    <2>3. at - 1 = Targets BY <2>2, TargetsTyped
    <2>4. JobLists(jobs, IdsUpTo(value, Targets)) BY <2>3 DEF BootInv
    <2>5. j.id \in IdsUpTo(value, Targets)
        <3>1. jobs \in Seq(JobOf(IdsUpTo(value, Targets))) BY <2>4 DEF JobLists
        <3>2. j \in JobOf(IdsUpTo(value, Targets)) BY <3>1 DEF Range
        <3> QED BY <3>2 DEF JobOf
    <2>6. PICK k \in 1..Targets : j.id \in Named(Target(k), NamesOf(value, Target(k)))
        BY <2>5 DEF IdsUpTo, Target
    <2>7. j.id.target = Target(k).name /\ j.id.name \in NamesOf(value, Target(k))
        BY <2>6 DEF Named, Id
    <2>8. PICK i \in 1..Targets : t = Target(i) BY <2>2, TargetsTyped
    <2>9. i = k BY <1>3, <2>2, <2>7, <2>8 DEF Facts, Targets, Target
    <2>10. config' = Settings(i) /\ j.id.name \in NamesOf(value, Target(i))
        BY <2>1, <2>7, <2>8, <2>9 DEF Settings
    <2>11. RefreshInv'
        <3>1. stage' = "running" /\ service' \in Services[collector'] BY <1>1, <1>2, <2>1
        <3>2. i \in 1..Targets' /\ config' = Settings(i)' /\ collector' \in NamesOf(value', Target(i)')
            BY <1>2, <2>1, <2>10
        <3> QED BY <3>1, <3>2, Zenon DEF RefreshInv
    <2>12. SelectionFits' BY <2>1 DEF SelectionFits
    <2> QED BY <2>11, <2>12
<1> QED BY <1>4, <1>5

\* The names of the metadata collectors are no names of cost collectors.
LEMMA MetadataEnabled ==
    ASSUME Facts(value), NEW t, NEW n \in Optional, n \in NamesOf(value, t)
    PROVE  n \in t.integrations
<1>1. value.collectors \subseteq Range(CostNames) BY ConfigTypes DEF Facts
<1>2. value.collectors \subseteq {"total", "service", "region", "account", "forecast"}
    BY <1>1 DEF CostNames, Range
<1> QED BY <1>2 DEF NamesOf, CostsOf, TagsOf, Optional

\* Within a refresh, both halves of SelectionFits.
LEMMA CollectStep ==
    ASSUME BootInv, RefreshInv, SelectionFits, Collect
    PROVE  RefreshInv' /\ SelectionFits'
<1>1. UNCHANGED boot /\ UNCHANGED inputs
    BY CollectFrame, Zenon DEF Collect
<1>2. /\ value' = value /\ stage' = stage /\ collector' = collector /\ config' = config /\ service' = service
    BY <1>1, Zenon DEF boot, inputs
<1>3. RefreshInv'
    <2>1. Targets' = Targets /\ \A i : Target(i)' = Target(i) BY <1>2, Zenon DEF Targets, Target
    <2>2. \A i : Settings(i)' = Settings(i) BY <1>2, <2>1, Zenon DEF Settings
    <2> QED BY <1>2, <2>1, <2>2, Zenon DEF RefreshInv
<1>4. CASE collector \notin {"budgets", "organizations"}
    BY <1>2, <1>3, <1>4 DEF SelectionFits
<1>5. CASE collector \in {"budgets", "organizations"}
    <2>1. collector # NoCollector /\ collector \in Optional /\ collector \notin Collectors
        BY <1>5 DEF NoCollector, Optional, Collectors, Grouped
    <2>2. stage = "running" /\ service \in Services[collector] BY <2>1 DEF RefreshInv
    <2>3. PICK i \in 1..Targets : config = Settings(i) /\ collector \in NamesOf(value, Target(i))
        BY <2>1 DEF RefreshInv
    <2>4. Facts(value) BY <2>2 DEF BootInv
    <2> DEFINE t == Target(i)
    <2>5. TargetFacts(value, t) BY <2>4, TargetsTyped
    <2>6. config.target = t /\ config.limit = value.limit BY <2>3 DEF Settings
    <2> HIDE DEF t
    <2>7. collector \in t.integrations BY <2>1, <2>3, <2>4, MetadataEnabled DEF t
    <2>8. /\ \A k \in (Integrations \ {"cost_explorer"}) \cup {"dimensions"} : value.limit[k] \in Nat \ {0}
          /\ t \in TargetConfig
        BY <2>4, <2>5 DEF Facts, TargetFacts
    <2>9. value.limit.budgets \in Nat /\ value.limit.organizations \in Nat /\ value.limit.dimensions \in Nat
        BY <2>8 DEF Integrations
    <2>10. t.names \in Seq(STRING) /\ t.ids \in Seq(STRING) BY <2>8 DEF TargetConfig
    <2>11. MetadataFails \/ ReadBudgets \/ ReadAccounts
        BY <2>1, <1>5, CollectFrame DEF Collect, CollectMetadata, ReadForecast, ReadCommitments, FinishCommitments,
            ReadAnomalySummary
    <2>12. CASE MetadataFails
        <3>1. result' = "failed" BY <2>12, Zenon DEF MetadataFails, Return
        <3> QED BY <3>1, <1>3 DEF SelectionFits
    <2>13. CASE ReadBudgets
        <3> DEFINE names == t.names
                   found == {b \in service.budgets : b.name \in Range(names)}
                   items == {[kind |-> "budget", name |-> b.name, limit |-> b.limit,
                              actual |-> b.actual, forecasted |-> b.forecasted] : b \in found}
        <3>1. /\ collector = "budgets"
              /\ IF /\ \A b \in found : mapBudget(b)
                    /\ \A b, c \in found : b.name = c.name => b = c
                    /\ {b.name : b \in found} = Range(names)
                 THEN Finish(items) ELSE Return("malformed")
            BY <2>13, <2>6, Zenon DEF ReadBudgets
        <3>2. IsInjective(names) /\ Len(names) * 3 <= value.limit.budgets /\ Len(names) \in Nat
            BY <2>5, <2>7, <2>10, <3>1 DEF TargetFacts, Unique
        <3>3. CASE result' # "ok"
            BY <3>1, <3>3, <1>2, <1>3 DEF SelectionFits
        <3>4. CASE result' = "ok"
            <4>1. ~ Return("malformed") BY <3>4 DEF Return
            <4>2. (\A b \in found : mapBudget(b)) /\ (\A b, c \in found : b.name = c.name => b = c) /\ Finish(items)
                BY <3>1, <4>1, Zenon
            <4>3. \A b \in found : b.name \in Range(names) OBVIOUS
            <4>4. collected' = items BY <4>2, Zenon DEF Finish
            <4>5. names \in Seq(STRING) BY <2>10
            <4> HIDE DEF found, names
            <4>6. SeriesCount(items) \in 0..(3 * Len(names))
                BY <3>2, <4>2, <4>3, <4>5, BudgetSeries, Zenon
            <4> HIDE DEF items
            <4>7. SeriesCount(items) <= value.limit.budgets
                BY <2>9, <3>2, <4>6
            <4> QED BY <1>2, <1>3, <2>6, <3>1, <4>4, <4>7 DEF SelectionFits
        <3> QED BY <3>3, <3>4
    <2>14. CASE ReadAccounts
        <3> DEFINE ids == Range(t.ids)
                   accounts == service.accounts
                   selected == {a \in accounts : ids # {} => a.id \in ids}
                   seen == {a.id : a \in selected}
                   items == {[kind |-> "account", id |-> a.id, name |-> a.name,
                              status |-> accountStatus(a)] : a \in selected}
        <3>1. /\ collector = "organizations"
              /\ \/ Return("malformed")
                 \/ Cardinality(seen) > value.limit.organizations /\ Return("series")
                 \/ Finish(items)
            BY <2>14, <2>6, Zenon DEF ReadAccounts
        <3>2. CASE result' # "series"
            BY <3>1, <3>2, <1>2, <1>3 DEF SelectionFits
        <3>3. CASE result' = "series"
            <4>1. Cardinality(seen) > value.limit.organizations
                BY <3>1, <3>3 DEF Return, Finish
            <4>2. t.ids = <<>> /\ value.limit.organizations >= value.limit.dimensions
                <5>1. SUFFICES ASSUME t.ids # <<>> PROVE FALSE
                    BY <2>5, <2>7, <3>1 DEF TargetFacts
                <5>2. /\ Len(t.ids) <= value.limit.organizations /\ IsInjective(t.ids)
                      /\ Len(t.ids) \in Nat /\ ids # {} /\ t.ids \in Seq(ids)
                    <6>1. Len(t.ids) <= value.limit.organizations /\ IsInjective(t.ids)
                        BY <2>5, <2>7, <3>1, <5>1 DEF TargetFacts
                    <6>2. Len(t.ids) \in Nat /\ DOMAIN t.ids = 1..Len(t.ids) BY <2>10
                    <6>3. 1 \in DOMAIN t.ids BY <2>10, <5>1
                    <6>4. ids # {} BY <6>3 DEF Range
                    <6>5. t.ids \in [1..Len(t.ids) -> ids] BY <2>10, <6>2 DEF Range
                    <6>6. t.ids \in Seq(ids)
                        <7> HIDE DEF ids
                        <7> QED BY <6>2, <6>5
                    <6> QED BY <6>1, <6>2, <6>4, <6>6
                <5>3. seen \subseteq ids BY <5>2
                <5> HIDE DEF seen
                <5>4. Lists(t.ids, ids) BY <5>2 DEF Lists
                <5>5. IsFiniteSet(ids) /\ Cardinality(ids) = Len(t.ids) BY <5>4, ListLength
                <5>6. Cardinality(seen) \in Nat /\ Cardinality(seen) <= Cardinality(ids)
                    BY <5>3, <5>5, FS_Subset, FS_CardinalityType
                <5> QED BY <2>9, <4>1, <5>2, <5>5, <5>6
            <4>3. Cardinality(accounts) > value.limit.dimensions
                <5>1. IsFiniteSet(accounts) BY <2>2, <3>1, MetadataAssumption
                <5>2. ids = {} BY <4>2 DEF Range
                <5>3. selected = accounts BY <5>2
                <5> DEFINE h == [a \in accounts |-> a.id]
                <5>4. h \in Surjection(accounts, seen) BY <5>3 DEF Surjection
                <5> HIDE DEF seen, h, accounts
                <5>5. /\ Cardinality(seen) \in Nat /\ Cardinality(accounts) \in Nat
                      /\ Cardinality(seen) <= Cardinality(accounts)
                    BY <5>1, <5>4, FS_Surjection, FS_CardinalityType
                <5> QED BY <2>9, <4>1, <4>2, <5>5
            <4> QED BY <1>2, <1>3, <2>6, <3>1, <4>2, <4>3 DEF SelectionFits
        <3> QED BY <3>2, <3>3
    <2> QED BY <2>11, <2>12, <2>13, <2>14
<1> QED BY <1>4, <1>5

\* FitInv is inductive: SelectionFits with what connects a running refresh to
\* the configuration that was validated.
THEOREM FitInductive == Spec => []FitInv
<1>1. Init => FitInv
    <2> SUFFICES ASSUME Init PROVE FitInv OBVIOUS
    <2>1. collector = NoCollector BY DEF Init, Idle
    <2> QED BY <2>1, BootInit DEF FitInv, RefreshInv, SelectionFits, NoCollector
<1>2. FitInv /\ [Next]_system => FitInv'
    <2> SUFFICES ASSUME FitInv, [Next]_system PROVE FitInv' OBVIOUS
    <2>1. BootInv /\ RefreshInv /\ SelectionFits BY DEF FitInv
    <2>2. BootInv' BY <2>1, BootStep
    <2>3. ASSUME stage # "running", UNCHANGED vars PROVE RefreshInv' /\ SelectionFits'
        <3>1. collector' = NoCollector BY <2>1, <2>3 DEF RefreshInv, vars
        <3> QED BY <3>1 DEF RefreshInv, SelectionFits, NoCollector
    <2>4. CASE Validate \/ NewStore \/ NewExporter \/ NewFactory \/ BuildTarget \/ NewJobs \/ NewServer \/ Listen
        <3>1. stage # "running"
            BY <2>4 DEF Validate, NewStore, NewExporter, NewFactory, BuildTarget, NewJobs, NewServer, Listen, Construct
        <3>2. UNCHANGED vars
            BY <2>4, Zenon DEF Validate, NewStore, NewExporter, NewFactory, BuildTarget, NewJobs, NewServer, Listen
        <3> QED BY <2>2, <2>3, <3>1, <3>2 DEF FitInv
    <2>5. CASE Refresh
        BY <2>1, <2>2, <2>5, RefreshStep DEF FitInv
    <2>6. CASE Collect
        BY <2>1, <2>2, <2>6, CollectStep DEF FitInv
    <2>7. CASE UNCHANGED system
        <3>1. /\ value' = value /\ stage' = stage /\ collector' = collector /\ config' = config
              /\ service' = service /\ collected' = collected /\ result' = result
            BY <2>7, Zenon DEF system, boot, vars
        <3>2. Targets' = Targets /\ \A i : Target(i)' = Target(i) BY <3>1, Zenon DEF Targets, Target
        <3>3. \A i : Settings(i)' = Settings(i) BY <3>1, <3>2, Zenon DEF Settings
        <3>4. RefreshInv' BY <2>1, <3>1, <3>2, <3>3, Zenon DEF RefreshInv
        <3>5. SelectionFits' BY <2>1, <3>1, Zenon DEF SelectionFits
        <3> QED BY <2>2, <3>4, <3>5 DEF FitInv
    <2> QED BY <2>4, <2>5, <2>6, <2>7, Zenon DEF Next, Done
<1> QED BY <1>1, <1>2, PTL DEF Spec

\* What validation accepts leaves room for what it selects: no answer of AWS
\* makes budgets exceed their limit or listed accounts too many (validation.go,
\* validateBudgets and validateOrganizations).
THEOREM SelectionAlwaysFits == Spec => []SelectionFits
<1>1. FitInv => SelectionFits BY DEF FitInv
<1> QED BY <1>1, FitInductive, PTL

-----------------------------------------------------------------------------
(* Sums over finite sets. *)

\* Induction over the subsets of a finite set, for a set of subsets instead of
\* an operator: a least set outside G would have all its parts inside.
LEMMA SubsetInduction ==
    ASSUME NEW S, IsFiniteSet(S), NEW G,
           \A s \in SUBSET S : (\A t \in SUBSET s : t # s => t \in G) => s \in G
    PROVE  \A s \in SUBSET S : s \in G
<1> DEFINE T == {n \in Nat : \E s \in SUBSET S : Cardinality(s) = n /\ s \notin G}
<1>1. \A s \in SUBSET S : IsFiniteSet(s) /\ Cardinality(s) \in Nat
    BY FS_Subset, FS_CardinalityType
<1>2. SUFFICES ASSUME T # {} PROVE FALSE
    BY <1>1
<1>3. PICK n \in T : \A k \in T : n <= k
    <2>1. T \in SUBSET Nat OBVIOUS
    <2> HIDE DEF T
    <2> QED BY <1>2, <2>1, MinNat
<1>4. PICK s \in SUBSET S : Cardinality(s) = n /\ s \notin G
    BY <1>3
<1>5. ASSUME NEW t \in SUBSET s, t # s PROVE t \in G
    <2>1. IsFiniteSet(s) /\ Cardinality(t) \in Nat /\ t \in SUBSET S BY <1>1
    <2>2. Cardinality(t) < Cardinality(s) BY <2>1, <1>5, FS_Subset, <1>1
    <2> QED BY <1>3, <1>4, <2>1, <2>2
<1> QED BY <1>4, <1>5

\* The sum takes the elements of a set in the order of Pick.
LEMMA SumPick ==
    ASSUME NEW f, NEW S, IsFiniteSet(S)
    PROVE  /\ SumFunctionOnSet(f, {}) = 0
           /\ S # {} => SumFunctionOnSet(f, S) = f[Pick(S)] + SumFunctionOnSet(f, S \ {Pick(S)})
<1>1. PICK g : (\A s \in SUBSET S : g[s] = Term(f, g, s)) /\ SumFunctionOnSet(f, S) = g[S]
    BY SumUnfolds
<1>2. ASSUME NEW R \in SUBSET S PROVE SumFunctionOnSet(f, R) = g[R]
    <2>0. IsFiniteSet(R) BY FS_Subset
    <2>1. PICK h : (\A s \in SUBSET R : h[s] = Term(f, h, s)) /\ SumFunctionOnSet(f, R) = h[R]
        BY <2>0, SumUnfolds
    <2> DEFINE G == {s \in SUBSET R : h[s] = g[s]}
    <2>2. ASSUME NEW s \in SUBSET R, \A t \in SUBSET s : t # s => t \in G PROVE s \in G
        <3>1. h[s] = Term(f, h, s) /\ g[s] = Term(f, g, s) BY <1>1, <2>1
        <3>2. CASE s = {} BY <3>1, <3>2 DEF Term
        <3>3. CASE s # {}
            <4>1. Pick(s) \in s BY <3>3 DEF Pick
            <4>2. s \ {Pick(s)} \in G BY <2>2, <4>1
            <4>3. h[s \ {Pick(s)}] = g[s \ {Pick(s)}] BY <4>2
            <4>4. h[s] = g[s] BY <3>1, <3>3, <4>3 DEF Term
            <4> QED BY <4>4
        <3> QED BY <3>2, <3>3
    <2>3. \A s \in SUBSET R : s \in G
        <3> HIDE DEF G
        <3> QED BY <2>0, <2>2, SubsetInduction
    <2> QED BY <2>1, <2>3
<1>3. SumFunctionOnSet(f, {}) = 0
    <2>1. {} \in SUBSET S OBVIOUS
    <2>2. g[{}] = 0 BY <1>1, <2>1 DEF Term
    <2> QED BY <1>2, <2>1, <2>2
<1>4. ASSUME S # {} PROVE SumFunctionOnSet(f, S) = f[Pick(S)] + SumFunctionOnSet(f, S \ {Pick(S)})
    <2>1. g[S] = f[Pick(S)] + g[S \ {Pick(S)}] BY <1>1, <1>4 DEF Term
    <2>2. S \ {Pick(S)} \in SUBSET S OBVIOUS
    <2> QED BY <1>1, <1>2, <2>1, <2>2
<1> QED BY <1>3, <1>4

\* The order does not matter.
LEMMA SumRemove ==
    ASSUME NEW f, NEW S, IsFiniteSet(S), \A x \in S : f[x] \in Int
    PROVE  /\ SumFunctionOnSet(f, S) \in Int
           /\ \A x \in S : SumFunctionOnSet(f, S) = f[x] + SumFunctionOnSet(f, S \ {x})
<1> DEFINE Z(s) == SumFunctionOnSet(f, s)
           G == {s \in SUBSET S : Z(s) \in Int /\ \A x \in s : Z(s) = f[x] + Z(s \ {x})}
<1>1. ASSUME NEW s \in SUBSET S, \A t \in SUBSET s : t # s => t \in G PROVE s \in G
    <2>1. IsFiniteSet(s) BY FS_Subset
    <2>2. Z({}) = 0 /\ (s # {} => Z(s) = f[Pick(s)] + Z(s \ {Pick(s)})) BY <2>1, SumPick
    <2> HIDE DEF Z
    <2>3. CASE s = {} BY <2>2, <2>3
    <2>4. CASE s # {}
        <3> DEFINE p == Pick(s)
        <3>1. p \in s BY <2>4 DEF Pick
        <3>2. Z(s) = f[p] + Z(s \ {p}) BY <2>2, <2>4
        <3> HIDE DEF p
        <3>3. s \ {p} \in G BY <1>1, <3>1
        <3>4. Z(s \ {p}) \in Int /\ f[p] \in Int BY <3>1, <3>3
        <3>5. Z(s) \in Int BY <3>2, <3>4
        <3>6. ASSUME NEW x \in s PROVE Z(s) = f[x] + Z(s \ {x})
            <4>1. CASE x = p BY <3>2, <4>1
            <4>2. CASE x # p
                <5>1. s \ {x} \in G /\ p \in s \ {x} /\ x \in s \ {p} BY <1>1, <3>1, <4>2
                <5>2. Z(s \ {x}) = f[p] + Z((s \ {x}) \ {p}) BY <5>1
                <5>3. Z(s \ {p}) = f[x] + Z((s \ {p}) \ {x}) BY <3>3, <5>1
                <5>4. (s \ {x}) \ {p} = (s \ {p}) \ {x} OBVIOUS
                <5>5. (s \ {x}) \ {p} \in G BY <1>1, <5>1
                <5>6. Z((s \ {x}) \ {p}) \in Int /\ f[x] \in Int BY <5>5
                <5>7. Z(s \ {p}) = f[x] + Z((s \ {x}) \ {p}) BY <5>3, <5>4, Zenon
                <5>8. \A u, v, w \in Int : u + (v + w) = v + (u + w) OBVIOUS
                <5>9. f[p] + (f[x] + Z((s \ {x}) \ {p})) = f[x] + (f[p] + Z((s \ {x}) \ {p}))
                    BY <3>4, <5>6, <5>8, Zenon
                <5> QED BY <3>2, <5>2, <5>7, <5>9, Zenon
            <4> QED BY <4>1, <4>2
        <3> QED BY <3>5, <3>6
    <2> QED BY <2>3, <2>4
<1>2. S \in G
    <2> HIDE DEF G
    <2> QED BY <1>1, SubsetInduction
<1> QED BY <1>2

\* Only the values on the set matter.
LEMMA SumSame ==
    ASSUME NEW f, NEW h, NEW S, IsFiniteSet(S), \A x \in S : f[x] \in Int /\ f[x] = h[x]
    PROVE  SumFunctionOnSet(f, S) = SumFunctionOnSet(h, S)
<1> DEFINE Z(s) == SumFunctionOnSet(f, s)
           Y(s) == SumFunctionOnSet(h, s)
           G == {s \in SUBSET S : Z(s) = Y(s)}
<1>1. ASSUME NEW s \in SUBSET S, \A t \in SUBSET s : t # s => t \in G PROVE s \in G
    <2>1. IsFiniteSet(s) BY FS_Subset
    <2>2. Z({}) = 0 /\ (s # {} => Z(s) = f[Pick(s)] + Z(s \ {Pick(s)})) BY <2>1, SumPick
    <2>3. Y({}) = 0 /\ (s # {} => Y(s) = h[Pick(s)] + Y(s \ {Pick(s)})) BY <2>1, SumPick
    <2> HIDE DEF Z, Y
    <2>4. CASE s = {} BY <2>2, <2>3, <2>4
    <2>5. CASE s # {}
        <3>1. Pick(s) \in s BY <2>5 DEF Pick
        <3>2. s \ {Pick(s)} \in G BY <1>1, <3>1
        <3>3. f[Pick(s)] = h[Pick(s)] BY <3>1
        <3> QED BY <2>2, <2>3, <2>5, <3>2, <3>3
    <2> QED BY <2>4, <2>5
<1>2. S \in G
    <2> HIDE DEF G
    <2> QED BY <1>1, SubsetInduction
<1> QED BY <1>2

-----------------------------------------------------------------------------
(* Sums of amounts. *)

Amounts(set) == IsFiniteSet(set) /\ \A x \in set : x.amount \in Int

\* A part of a set of amounts.
LEMMA AmountsPart ==
    ASSUME NEW A, Amounts(A), NEW B \in SUBSET A
    PROVE  Amounts(B)
BY FS_Subset DEF Amounts

\* One amount more.
LEMMA SumOfAdd ==
    ASSUME NEW A, Amounts(A)
    PROVE  /\ SumOf(A) \in Int /\ SumOf({}) = 0
           /\ \A x \in A : SumOf(A) = x.amount + SumOf(A \ {x})
<1> DEFINE f == [x \in A |-> x.amount]
<1>1. ASSUME NEW B \in SUBSET A PROVE SumOf(B) = SumFunctionOnSet(f, B)
    <2> DEFINE h == [x \in B |-> x.amount]
    <2>1. IsFiniteSet(B) BY FS_Subset DEF Amounts
    <2>2. \A x \in B : h[x] \in Int /\ h[x] = f[x] BY DEF Amounts
    <2>3. SumOf(B) = SumFunctionOnSet(h, B) BY Zenon DEF SumOf, SumFunction
    <2> HIDE DEF f, h
    <2> QED BY <2>1, <2>2, <2>3, SumSame
<1>2. \A x \in A : f[x] = x.amount /\ f[x] \in Int BY DEF Amounts
<1>3. SumFunctionOnSet(f, {}) = 0
    BY SumPick DEF Amounts
<1>4. /\ SumFunctionOnSet(f, A) \in Int
      /\ \A x \in A : SumFunctionOnSet(f, A) = f[x] + SumFunctionOnSet(f, A \ {x})
    <2> HIDE DEF f
    <2> QED BY <1>2, SumRemove DEF Amounts
<1>5. SumOf(A) = SumFunctionOnSet(f, A) /\ SumOf({}) = 0 BY <1>1, <1>3
<1>6. \A x \in A : SumOf(A \ {x}) = SumFunctionOnSet(f, A \ {x}) BY <1>1
<1> HIDE DEF f
<1> QED BY <1>2, <1>4, <1>5, <1>6

\* The sum of one amount.
LEMMA SumOfOne ==
    ASSUME NEW x, x.amount \in Int
    PROVE  SumOf({x}) = x.amount
<1>1. Amounts({x}) BY FS_Singleton DEF Amounts
<1>2. SumOf({x}) = x.amount + SumOf({x} \ {x}) /\ SumOf({}) = 0 BY <1>1, SumOfAdd
<1>3. {x} \ {x} = {} OBVIOUS
<1> QED BY <1>2, <1>3

\* Sums of disjoint sets.
LEMMA SumOfUnion ==
    ASSUME NEW A, NEW B, Amounts(A), Amounts(B), A \cap B = {}
    PROVE  Amounts(A \cup B) /\ SumOf(A \cup B) = SumOf(A) + SumOf(B)
<1> DEFINE G == {s \in SUBSET A : SumOf(s \cup B) = SumOf(s) + SumOf(B)}
<1>1. \A s \in SUBSET A : Amounts(s) /\ Amounts(s \cup B)
    BY FS_Subset, FS_Union DEF Amounts
<1>2. ASSUME NEW s \in SUBSET A, \A t \in SUBSET s : t # s => t \in G PROVE s \in G
    <2>1. CASE s = {}
        <3>1. SumOf(B) \in Int /\ SumOf({}) = 0 BY SumOfAdd
        <3>2. s \cup B = B BY <2>1
        <3> QED BY <2>1, <3>1, <3>2
    <2>2. CASE s # {}
        <3>1. PICK x \in s : TRUE BY <2>2
        <3> DEFINE r == s \ {x}
        <3>2. r \in G BY <1>2, <3>1
        <3>3. SumOf(s) = x.amount + SumOf(r) BY <1>1, SumOfAdd
        <3>4. (s \cup B) \ {x} = r \cup B BY <3>1
        <3>5. SumOf(s \cup B) = x.amount + SumOf(r \cup B)
            <4>1. x \in s \cup B BY <3>1
            <4>2. SumOf(s \cup B) = x.amount + SumOf((s \cup B) \ {x}) BY <1>1, <4>1, SumOfAdd
            <4> QED BY <3>4, <4>2
        <3>6. SumOf(r) \in Int /\ SumOf(B) \in Int /\ x.amount \in Int
            BY <1>1, SumOfAdd DEF Amounts
        <3> QED BY <3>2, <3>3, <3>5, <3>6
    <2> QED BY <2>1, <2>2
<1>3. A \in G
    <2>1. IsFiniteSet(A) BY DEF Amounts
    <2> HIDE DEF G
    <2> QED BY <1>2, <2>1, SubsetInduction
<1> QED BY <1>1, <1>3

\* Amounts gathered along h: each member of B has the sum of those sent to it.
LEMMA SumOfFibres ==
    ASSUME NEW A, NEW B, Amounts(A), IsFiniteSet(B), NEW h \in [A -> B],
           \A b \in B : b.amount = SumOf({x \in A : h[x] = b})
    PROVE  Amounts(B) /\ SumOf(B) = SumOf(A)
<1> DEFINE Over(C) == {x \in A : h[x] \in C}
           G == {C \in SUBSET B : SumOf(C) = SumOf(Over(C))}
<1>1. Amounts(B)
    <2>1. ASSUME NEW b \in B PROVE b.amount \in Int
        <3>1. Amounts({x \in A : h[x] = b}) BY AmountsPart
        <3> QED BY <3>1, SumOfAdd
    <2> QED BY <2>1 DEF Amounts
<1>2. ASSUME NEW C \in SUBSET B, \A t \in SUBSET C : t # C => t \in G PROVE C \in G
    <2>1. CASE C = {}
        <3>1. Over(C) = {} BY <2>1
        <3> QED BY <2>1, <3>1
    <2>2. CASE C # {}
        <3>1. PICK b \in C : TRUE BY <2>2
        <3> DEFINE D == C \ {b}
                   F == {x \in A : h[x] = b}
        <3>2. D \in G BY <1>2, <3>1
        <3>3. Over(C) = F \cup Over(D) /\ F \cap Over(D) = {} BY <3>1
        <3>4. Amounts(F) /\ Amounts(Over(D)) /\ Amounts(C) BY <1>1, AmountsPart
        <3>5. SumOf(D) = SumOf(Over(D)) BY <3>2
        <3>6. SumOf(C) = b.amount + SumOf(D) BY <3>1, <3>4, SumOfAdd
        <3>7. b.amount = SumOf(F) BY <3>1
        <3> HIDE DEF D, F, Over
        <3>8. SumOf(F \cup Over(D)) = SumOf(F) + SumOf(Over(D)) BY <3>3, <3>4, SumOfUnion
        <3>9. SumOf(C) = SumOf(Over(C)) BY <3>3, <3>5, <3>6, <3>7, <3>8
        <3> QED BY <3>9
    <2> QED BY <2>1, <2>2
<1>3. B \in G
    <2> HIDE DEF G
    <2> QED BY <1>2, SubsetInduction
<1>4. Over(B) = A OBVIOUS
<1> QED BY <1>1, <1>3, <1>4

-----------------------------------------------------------------------------
(* What limitDimensionGroup returns. *)

\* Series of one query as they come from AWS, none of them folded.
Mapped(q, set) ==
    /\ Amounts(set)
    /\ \A s \in set : s = Series(q, s.value, s.currency, s.amount, s.source) /\ s.source # <<0, "fold">>

OfCurrency(set, c) == {s \in set : s.currency = c}

Fold(q, c, rest) == Series(q, Other, c, SumOf(rest), <<0, "fold">>)

\* The fields of a series.
LEMMA SeriesFields ==
    ASSUME NEW q, NEW v, NEW c, NEW a, NEW src
    PROVE  LET s == Series(q, v, c, a, src)
           IN  /\ s.basis = q.basis /\ s.window = q.window /\ s.tagKey = q.tagKey
               /\ s.value = v /\ s.currency = c /\ s.amount = a /\ s.source = src
BY DEF Series

\* The folded series has the labels of the query and the currency of the rest.
LEMMA FoldedIs ==
    ASSUME NEW q, NEW rest, rest # {}, OneCurrency(rest),
           \A s \in rest : s = Series(q, s.value, s.currency, s.amount, s.source)
    PROVE  \E c : /\ Folded(rest) = Fold(q, c, rest)
                  /\ \A s \in rest : s.currency = c
<1> DEFINE r == CHOOSE x \in rest : TRUE
           sum == SumOf(rest)
<1>1. r \in rest OBVIOUS
<1>2. Folded(rest) = Series(r, Other, r.currency, sum, <<0, "fold">>)
    BY DEF Folded
<1> HIDE DEF r, sum
<1>3. r.basis = q.basis /\ r.window = q.window /\ r.tagKey = q.tagKey
    BY <1>1, SeriesFields
<1>4. Folded(rest) = Series(q, Other, r.currency, sum, <<0, "fold">>)
    BY <1>2, <1>3 DEF Series
<1>5. \A s \in rest : s.currency = r.currency BY <1>1 DEF OneCurrency
<1> QED BY <1>4, <1>5 DEF sum, Fold

\* b has the series kept and one for the rest, which is of currency c.
SplitOf(q, series, limit, b, kept, c) ==
    /\ kept \in SUBSET series
    /\ b = kept \cup {Fold(q, c, series \ kept)} /\ Fold(q, c, series \ kept) \notin kept
    /\ Cardinality(kept) = limit - 1 /\ series \ kept # {}
    /\ \A s \in series \ kept : s.currency = c
    /\ \A r \in kept, s \in series \ kept : r.amount >= s.amount

\* The split of a group that is too large.
LEMMA LimitSplit ==
    ASSUME NEW q, NEW series, Mapped(q, series), NEW limit \in Nat \ {0},
           NEW b \in limitDimensionGroup(series, limit)
    PROVE  \/ b = series /\ Cardinality(series) <= limit
           \/ \E kept, c : SplitOf(q, series, limit, b, kept, c)
<1>1. CASE Cardinality(series) <= limit
    BY <1>1 DEF limitDimensionGroup
<1>2. CASE ~(Cardinality(series) <= limit)
    <2>1. PICK kept \in Top(series, Keep(limit)) :
              OneCurrency(series \ kept) /\ b = kept \cup {Folded(series \ kept)}
        BY <1>2 DEF limitDimensionGroup
    <2> DEFINE rest == series \ kept
    <2>2. /\ kept \in SUBSET series /\ Cardinality(kept) = limit - 1
          /\ \A r \in kept, s \in rest : ~Before(s, r)
        BY <2>1 DEF Top, kSubset, Keep
    <2>3. IsFiniteSet(series) /\ \A x \in series : x.amount \in Int BY DEF Mapped, Amounts
    <2>4. rest # {}
        <3> SUFFICES ASSUME rest = {} PROVE FALSE OBVIOUS
        <3>1. kept = series BY <2>2
        <3> QED BY <1>2, <2>2, <3>1
    <2>5. \A r \in kept, s \in rest : r.amount >= s.amount
        BY <2>2, <2>3 DEF Before
    <2>6. PICK c : /\ Folded(rest) = Fold(q, c, rest)
                   /\ \A s \in rest : s.currency = c
        <3>1. \A s \in rest : s = Series(q, s.value, s.currency, s.amount, s.source) BY DEF Mapped
        <3>2. OneCurrency(rest) BY <2>1
        <3> HIDE DEF rest
        <3> QED BY <2>4, <3>1, <3>2, FoldedIs
    <2> DEFINE fold == Fold(q, c, rest)
    <2>7. fold \notin kept
        <3>1. fold.source = <<0, "fold">> BY SeriesFields DEF Fold
        <3>2. \A s \in kept : s.source # <<0, "fold">> BY <2>2 DEF Mapped
        <3> HIDE DEF fold
        <3> QED BY <3>1, <3>2
    <2>8. b = kept \cup {fold} BY <2>1, <2>6
    <2> HIDE DEF fold
    <2>9. /\ b = kept \cup {fold} /\ fold \notin kept
          /\ Cardinality(kept) = limit - 1 /\ rest # {}
          /\ \A s \in rest : s.currency = c
          /\ \A r \in kept, s \in rest : r.amount >= s.amount
        BY <2>2, <2>4, <2>5, <2>6, <2>7, <2>8
    <2>10. SplitOf(q, series, limit, b, kept, c) BY <2>2, <2>9, Zenon DEF fold, SplitOf
    <2> QED BY <2>10
<1> QED BY <1>1, <1>2

\* A bounded group has at most as many series as its limit, of the same query.
LEMMA LimitBounds ==
    ASSUME NEW q, NEW series, Mapped(q, series), NEW limit \in Nat \ {0},
           NEW b \in limitDimensionGroup(series, limit)
    PROVE  /\ Amounts(b) /\ Cardinality(b) \in Nat /\ Cardinality(b) <= limit
           /\ \A s \in b : s.basis = q.basis /\ s.window = q.window /\ s.tagKey = q.tagKey
           /\ Currencies(b) \subseteq Currencies(series)
<1>1. CASE b = series /\ Cardinality(series) <= limit
    <2>1. \A s \in series : s.basis = q.basis /\ s.window = q.window /\ s.tagKey = q.tagKey
        BY SeriesFields DEF Mapped
    <2>2. Amounts(series) /\ Cardinality(series) \in Nat BY FS_CardinalityType DEF Mapped, Amounts
    <2> QED BY <1>1, <2>1, <2>2
<1>2. CASE ~(b = series /\ Cardinality(series) <= limit)
    <2>a. PICK kept, c : SplitOf(q, series, limit, b, kept, c) BY <1>2, LimitSplit, Zenon
    <2>0. /\ kept \in SUBSET series
          /\ b = kept \cup {Fold(q, c, series \ kept)} /\ Fold(q, c, series \ kept) \notin kept
          /\ Cardinality(kept) = limit - 1 /\ series \ kept # {}
          /\ \A s \in series \ kept : s.currency = c
          /\ \A r \in kept, s \in series \ kept : r.amount >= s.amount
        BY <2>a DEF SplitOf
    <2> DEFINE rest == series \ kept
               fold == Fold(q, c, rest)
    <2>1. Amounts(series) BY DEF Mapped
    <2>2. Amounts(kept) /\ Amounts(rest) BY <2>0, <2>1, AmountsPart
    <2>3. SumOf(rest) \in Int BY <2>2, SumOfAdd
    <2>4. /\ fold.basis = q.basis /\ fold.window = q.window /\ fold.tagKey = q.tagKey
          /\ fold.currency = c /\ fold.amount = SumOf(rest)
        BY SeriesFields DEF Fold
    <2>5. b = kept \cup {fold} /\ fold \notin kept BY <2>0
    <2> HIDE DEF fold
    <2>6. IsFiniteSet(b) /\ Cardinality(b) = limit
        <3>1. IsFiniteSet(kept) BY <2>2 DEF Amounts
        <3>2. IsFiniteSet(kept \cup {fold}) /\ Cardinality(kept \cup {fold}) = Cardinality(kept) + 1
            BY <2>5, <3>1, FS_AddElement
        <3>3. Cardinality(kept) = limit - 1 BY <2>0
        <3>4. IsFiniteSet(b) /\ Cardinality(b) = Cardinality(kept) + 1 BY <2>5, <3>2, Zenon
        <3> QED BY <3>3, <3>4
    <2>7. \A s \in kept : s.basis = q.basis /\ s.window = q.window /\ s.tagKey = q.tagKey
        BY <2>0, SeriesFields DEF Mapped
    <2>8. Amounts(b) BY <2>2, <2>3, <2>4, <2>5, <2>6 DEF Amounts
    <2>9. c \in Currencies(series) BY <2>0 DEF Currencies
    <2>10. Currencies(b) \subseteq Currencies(series) BY <2>0, <2>4, <2>5, <2>9 DEF Currencies
    <2> QED BY <2>4, <2>5, <2>6, <2>7, <2>8, <2>10
<1> QED BY <1>1, <1>2

\* What keeps a series of its own is from AWS and no smaller than what is folded.
LEMMA LimitRanks ==
    ASSUME NEW q, NEW series, Mapped(q, series), NEW limit \in Nat \ {0},
           NEW b \in limitDimensionGroup(series, limit)
    PROVE  /\ \A r \in b : r \notin series => r.value = Other
           /\ \A r, s \in b : r \notin series /\ s \notin series => r = s
           /\ \A r \in b, s \in series : r.value # Other /\ s \notin b => r.amount >= s.amount
<1>1. CASE b = series
    BY <1>1
<1>2. CASE ~(b = series /\ Cardinality(series) <= limit)
    <2>a. PICK kept, c : SplitOf(q, series, limit, b, kept, c) BY <1>2, LimitSplit, Zenon
    <2>0. /\ kept \in SUBSET series
          /\ b = kept \cup {Fold(q, c, series \ kept)} /\ Fold(q, c, series \ kept) \notin kept
          /\ Cardinality(kept) = limit - 1 /\ series \ kept # {}
          /\ \A s \in series \ kept : s.currency = c
          /\ \A r \in kept, s \in series \ kept : r.amount >= s.amount
        BY <2>a DEF SplitOf
    <2> DEFINE fold == Fold(q, c, series \ kept)
    <2>1. fold.value = Other BY SeriesFields DEF Fold
    <2>2. b = kept \cup {fold} BY <2>0
    <2> HIDE DEF fold
    <2> QED BY <2>0, <2>1, <2>2
<1> QED BY <1>1, <1>2

\* Folding moves amounts but loses none, in any currency.
LEMMA LimitConserves ==
    ASSUME NEW q, NEW series, Mapped(q, series), NEW limit \in Nat \ {0},
           NEW b \in limitDimensionGroup(series, limit), NEW c
    PROVE  SumOf(OfCurrency(b, c)) = SumOf(OfCurrency(series, c))
<1>1. CASE b = series
    BY <1>1
<1>2. CASE ~(b = series /\ Cardinality(series) <= limit)
    <2>a. PICK kept, d : SplitOf(q, series, limit, b, kept, d) BY <1>2, LimitSplit, Zenon
    <2>0. /\ kept \in SUBSET series
          /\ b = kept \cup {Fold(q, d, series \ kept)} /\ Fold(q, d, series \ kept) \notin kept
          /\ Cardinality(kept) = limit - 1 /\ series \ kept # {}
          /\ \A s \in series \ kept : s.currency = d
          /\ \A r \in kept, s \in series \ kept : r.amount >= s.amount
        BY <2>a DEF SplitOf
    <2> DEFINE rest == series \ kept
               fold == Fold(q, d, rest)
               K == OfCurrency(kept, c)
    <2>1. fold.currency = d /\ fold.amount = SumOf(rest) BY SeriesFields DEF Fold
    <2>2. Amounts(series) BY DEF Mapped
    <2>3. Amounts(rest) /\ Amounts(K) BY <2>0, <2>2, AmountsPart DEF OfCurrency
    <2>4. b = kept \cup {fold} /\ fold \notin kept BY <2>0
    <2>5. SumOf(rest) \in Int BY <2>3, SumOfAdd
    <2> HIDE DEF fold
    <2>6. CASE c # d
        <3>1. OfCurrency(b, c) = K BY <2>1, <2>4, <2>6 DEF OfCurrency
        <3>2. OfCurrency(series, c) = K BY <2>0, <2>6 DEF OfCurrency
        <3> QED BY <3>1, <3>2
    <2>7. CASE c = d
        <3>1. OfCurrency(b, c) = K \cup {fold} BY <2>1, <2>4, <2>7 DEF OfCurrency
        <3>2. OfCurrency(series, c) = K \cup rest BY <2>0, <2>7 DEF OfCurrency
        <3>3. K \cap {fold} = {} /\ K \cap rest = {} BY <2>4 DEF OfCurrency
        <3>4. Amounts({fold}) BY <2>1, <2>5, FS_Singleton DEF Amounts
        <3>5. SumOf({fold}) = SumOf(rest) BY <2>1, <2>5, SumOfOne
        <3> HIDE DEF K, rest
        <3>6. SumOf(K \cup {fold}) = SumOf(K) + SumOf({fold}) BY <2>3, <3>3, <3>4, SumOfUnion
        <3>7. SumOf(K \cup rest) = SumOf(K) + SumOf(rest) BY <2>3, <3>3, SumOfUnion
        <3> QED BY <3>1, <3>2, <3>5, <3>6, <3>7
    <2> QED BY <2>6, <2>7
<1> QED BY <1>1, <1>2

-----------------------------------------------------------------------------
(* Groups bounded one by one. *)

Join(limits, g, s) ==
    IF s = {} THEN {{}} ELSE Unions(limitDimensionGroup(Pick(s), limits[Pick(s)]), g[s \ {Pick(s)}])

\* What LimitedEach computes, as SumUnfolds has it for sums.
LEMMA LimitedUnfolds ==
    ASSUME NEW S, IsFiniteSet(S), NEW limits
    PROVE  \E g : /\ \A s \in SUBSET S : g[s] = Join(limits, g, s)
                  /\ LimitedEach(S, limits) = g[S]
<1> DEFINE Is(g, n) == g = [s \in Subsets(S, n) |-> Join(limits, g, s)]
           T == {n \in Nat : ~ \E g : Is(g, n)}
<1>1. \A s \in SUBSET S : IsFiniteSet(s) /\ Cardinality(s) \in Nat /\ Cardinality(s) <= Cardinality(S)
    BY FS_Subset, FS_CardinalityType
<1>2. Cardinality(S) \in Nat BY FS_CardinalityType
<1>3. Subsets(S, Cardinality(S)) = SUBSET S BY <1>1 DEF Subsets
<1>4. SUFFICES \E g : Is(g, Cardinality(S))
    <2>1. SUFFICES ASSUME \E g : g = [s \in SUBSET S |-> Join(limits, g, s)]
                   PROVE  \E g : /\ g = [s \in SUBSET S |-> Join(limits, g, s)]
                                 /\ LimitedEach(S, limits) = g[S]
        BY <1>3, <1>4
    <2>2. LimitedEach(S, limits) = (CHOOSE g : g = [s \in SUBSET S |-> Join(limits, g, s)])[S]
        BY DEF LimitedEach, MapThenFoldSet, Join, Pick
    <2> QED BY <2>1, <2>2, Zenon
<1>5. SUFFICES ASSUME T # {} PROVE FALSE
    <2> HIDE DEF Is
    <2> QED BY <1>2
<1>6. PICK n \in T : \A k \in T : n <= k
    <2> HIDE DEF Is
    <2>1. T \in SUBSET Nat OBVIOUS
    <2> HIDE DEF T
    <2> QED BY <1>5, <2>1, MinNat
<1>7. n # 0
    <2>1. \A s \in Subsets(S, 0) : s = {}
        <3> SUFFICES ASSUME NEW s \in SUBSET S, Cardinality(s) <= 0 PROVE s = {} BY DEF Subsets
        <3>1. IsFiniteSet(s) /\ Cardinality(s) = 0 BY <1>1
        <3> QED BY <3>1, FS_EmptySet
    <2> DEFINE e == [s \in Subsets(S, 0) |-> {{}}]
    <2>2. \A s \in Subsets(S, 0) : Join(limits, e, s) = {{}} BY <2>1 DEF Join
    <2>3. Is(e, 0)
        <3>1. e = [s \in Subsets(S, 0) |-> {{}}] OBVIOUS
        <3> HIDE DEF e
        <3> QED BY <2>2, <3>1
    <2> HIDE DEF Is, e
    <2> QED BY <2>3
<1>8. PICK g : Is(g, n - 1)
    <2> HIDE DEF Is
    <2> QED BY <1>6, <1>7
<1> DEFINE h == [s \in Subsets(S, n) |-> Join(limits, g, s)]
<1>9. \A s \in Subsets(S, n - 1) : s \in Subsets(S, n) /\ h[s] = g[s]
    <2>1. \A s \in Subsets(S, n - 1) : s \in Subsets(S, n) BY <1>1, <1>6 DEF Subsets
    <2>2. \A s \in Subsets(S, n - 1) : g[s] = Join(limits, g, s) BY <1>8
    <2>3. \A s \in Subsets(S, n) : h[s] = Join(limits, g, s) OBVIOUS
    <2> HIDE DEF h
    <2> QED BY <2>1, <2>2, <2>3
<1>10. \A s \in Subsets(S, n) : s # {} => s \ {Pick(s)} \in Subsets(S, n - 1)
    <2> SUFFICES ASSUME NEW s \in SUBSET S, Cardinality(s) <= n, s # {}
                 PROVE  s \ {Pick(s)} \in SUBSET S /\ Cardinality(s \ {Pick(s)}) <= n - 1
        BY DEF Subsets
    <2>1. Pick(s) \in s BY DEF Pick
    <2>2. IsFiniteSet(s) /\ Cardinality(s) \in Nat BY <1>1
    <2>3. Cardinality(s \ {Pick(s)}) = Cardinality(s) - 1 BY <2>1, <2>2, FS_RemoveElement
    <2> QED BY <2>2, <2>3, <1>6
<1>11. \A s \in Subsets(S, n) : Join(limits, h, s) = Join(limits, g, s)
    <2> SUFFICES ASSUME NEW s \in Subsets(S, n), s # {} PROVE Join(limits, h, s) = Join(limits, g, s)
        BY DEF Join
    <2>1. h[s \ {Pick(s)}] = g[s \ {Pick(s)}] BY <1>9, <1>10, Zenon
    <2> HIDE DEF h
    <2> QED BY <2>1 DEF Join
<1>12. Is(h, n)
    <2>1. h = [s \in Subsets(S, n) |-> Join(limits, g, s)] OBVIOUS
    <2> HIDE DEF h
    <2> QED BY <2>1, <1>11
<1> QED
    <2> HIDE DEF Is, h
    <2> QED BY <1>12

\* h is one way to bound every group of s.
Choice(s, limits, h) == \A x \in s : h[x] \in limitDimensionGroup(x, limits[x])

\* The result is the union of one bounded form of every group.
LEMMA LimitedIs ==
    ASSUME NEW S, IsFiniteSet(S), NEW limits, NEW b \in LimitedEach(S, limits)
    PROVE  \E h : Choice(S, limits, h) /\ b = UNION {h[x] : x \in S}
<1>1. PICK g : (\A s \in SUBSET S : g[s] = Join(limits, g, s)) /\ LimitedEach(S, limits) = g[S]
    BY LimitedUnfolds
<1> DEFINE Is(s, a) == \E h : Choice(s, limits, h) /\ a = UNION {h[x] : x \in s}
           G == {s \in SUBSET S : \A a \in g[s] : Is(s, a)}
<1>2. ASSUME NEW s \in SUBSET S, \A t \in SUBSET s : t # s => t \in G PROVE s \in G
    <2> SUFFICES ASSUME NEW a \in g[s] PROVE Is(s, a) BY Zenon
    <2>1. a \in Join(limits, g, s) BY <1>1
    <2>2. CASE s = {}
        <3>1. a = {} BY <2>1, <2>2 DEF Join
        <3> DEFINE h == <<>>
        <3>2. Choice(s, limits, h) BY <2>2 DEF Choice
        <3>3. UNION {h[x] : x \in s} = {} BY <2>2
        <3> HIDE DEF h
        <3> QED BY <3>1, <3>2, <3>3
    <2>3. CASE s # {}
        <3> DEFINE p == Pick(s)
                   r == s \ {p}
        <3>1. p \in s BY <2>3 DEF Pick
        <3>2. PICK x \in limitDimensionGroup(p, limits[p]), y \in g[r] : a = x \cup y
            <4>1. a \in Unions(limitDimensionGroup(p, limits[p]), g[r]) BY <2>1, <2>3 DEF Join
            <4> HIDE DEF p, r
            <4> QED BY <4>1 DEF Unions
        <3>3. r \in G BY <1>2, <3>1
        <3>4. Is(r, y) BY <3>3, Zenon
        <3>5. PICK k : Choice(r, limits, k) /\ y = UNION {k[z] : z \in r} BY <3>4
        <3> HIDE DEF p
        <3> DEFINE h == [z \in s |-> IF z = p THEN x ELSE k[z]]
        <3>6. h[p] = x /\ \A z \in r : h[z] = k[z] /\ z # p BY <3>1
        <3>7. \A z \in s : z = p \/ z \in r OBVIOUS
        <3> HIDE DEF h, r
        <3>8. Choice(s, limits, h) BY <3>2, <3>5, <3>6, <3>7, Zenon DEF Choice
        <3>9. a = UNION {h[z] : z \in s}
            <4>1. \A z \in r : z \in s BY DEF r
            <4>2. ASSUME NEW e \in a PROVE \E z \in s : e \in h[z]
                <5>1. CASE e \in x BY <3>1, <3>6, <5>1
                <5>2. CASE e \in y BY <3>5, <3>6, <4>1, <5>2
                <5> QED BY <3>2, <4>2, <5>1, <5>2
            <4>3. ASSUME NEW z \in s, NEW e \in h[z] PROVE e \in a
                <5>1. CASE z = p BY <3>2, <3>6, <4>3, <5>1
                <5>2. CASE z \in r BY <3>2, <3>5, <3>6, <4>3, <5>2
                <5> QED BY <3>7, <5>1, <5>2
            <4> QED BY <4>2, <4>3
        <3> QED BY <3>8, <3>9
    <2> QED BY <2>2, <2>3
<1>3. S \in G
    <2> HIDE DEF G
    <2>1. \A s \in SUBSET S : (\A t \in SUBSET s : t # s => t \in G) => s \in G BY <1>2
    <2>2. \A s \in SUBSET S : s \in G BY <2>1, SubsetInduction, Zenon
    <2> QED BY <2>2
<1>4. b \in g[S] BY <1>1
<1>5. Is(S, b) BY <1>3, <1>4, Zenon
<1> QED BY <1>5

\* What a finite set is mapped to is no larger.
LEMMA ImageFinite ==
    ASSUME NEW S, IsFiniteSet(S), NEW T, NEW f, \A y \in T : \E x \in S : y = f[x]
    PROVE  IsFiniteSet(T) /\ Cardinality(T) \in Nat /\ Cardinality(T) <= Cardinality(S)
<1> DEFINE I == {x \in S : f[x] \in T}
           h == [x \in I |-> f[x]]
<1>1. IsFiniteSet(I) /\ Cardinality(I) \in Nat /\ Cardinality(I) <= Cardinality(S) /\ Cardinality(S) \in Nat
    BY FS_Subset, FS_CardinalityType
<1>2. h \in Surjection(I, T) BY DEF Surjection
<1> HIDE DEF h, I
<1>3. IsFiniteSet(T) /\ Cardinality(T) <= Cardinality(I) BY <1>1, <1>2, FS_Surjection
<1> QED BY <1>1, <1>3, FS_CardinalityType

-----------------------------------------------------------------------------
(* The mapping of answers: it neither loses nor invents amounts. *)

\* S has the amounts of A in every currency, as series of q.
Carries(q, A, S) ==
    /\ Mapped(q, S)
    /\ \A c : SumOf(OfCurrency(S, c)) = SumOf(OfCurrency(A, c))
    /\ Currencies(S) = Currencies(A)

Gather(q, A, val, l) ==
    Series(q, val[l], l.currency, SumOf({m \in A : val[m] = val[l] /\ m.currency = l.currency}), <<0, "sum">>)

\* Amounts added up by value and currency.
LEMMA GatherCarries ==
    ASSUME NEW q, NEW A, Amounts(A), NEW val
    PROVE  Carries(q, A, {Gather(q, A, val, l) : l \in A})
<1> DEFINE S == {Gather(q, A, val, l) : l \in A}
           Fibre(l) == {m \in A : val[m] = val[l] /\ m.currency = l.currency}
<1>1. ASSUME NEW l \in A
      PROVE  LET s == Gather(q, A, val, l)
             IN  /\ s.value = val[l] /\ s.currency = l.currency /\ s.amount = SumOf(Fibre(l))
                 /\ s.source = <<0, "sum">> /\ s = Series(q, s.value, s.currency, s.amount, s.source)
    BY SeriesFields DEF Gather
<1>2. \A l \in A : SumOf(Fibre(l)) \in Int
    <2> SUFFICES ASSUME NEW l \in A PROVE SumOf(Fibre(l)) \in Int OBVIOUS
    <2>1. Fibre(l) \in SUBSET A OBVIOUS
    <2> HIDE DEF Fibre
    <2> QED BY <2>1, AmountsPart, SumOfAdd
<1>3. \A l, m \in A : Gather(q, A, val, l) = Gather(q, A, val, m) <=> m \in Fibre(l)
    <2> SUFFICES ASSUME NEW l \in A, NEW m \in A
                 PROVE  Gather(q, A, val, l) = Gather(q, A, val, m) <=> m \in Fibre(l)
        OBVIOUS
    <2>1. ASSUME Gather(q, A, val, l) = Gather(q, A, val, m) PROVE m \in Fibre(l)
        <3>1. val[l] = val[m] /\ l.currency = m.currency BY <1>1, <2>1, Zenon
        <3> QED BY <3>1
    <2>2. ASSUME m \in Fibre(l) PROVE Gather(q, A, val, l) = Gather(q, A, val, m)
        <3>1. val[l] = val[m] /\ l.currency = m.currency BY <2>2
        <3> QED BY <3>1 DEF Gather
    <2> QED BY <2>1, <2>2
<1>4. IsFiniteSet(S)
    <2>1. IsFiniteSet(A) BY DEF Amounts
    <2> DEFINE f == [l \in A |-> Gather(q, A, val, l)]
    <2>2. \A y \in S : \E l \in A : y = f[l] OBVIOUS
    <2> HIDE DEF S, f
    <2> QED BY <2>1, <2>2, ImageFinite
<1> HIDE DEF Fibre
<1>5. Mapped(q, S)
    <2>1. \A s \in S : \E l \in A : s = Gather(q, A, val, l) OBVIOUS
    <2> HIDE DEF S
    <2>2. Amounts(S) BY <1>1, <1>2, <1>4, <2>1 DEF Amounts
    <2>3. <<0, "sum">> # <<0, "fold">> OBVIOUS
    <2>4. \A s \in S : s = Series(q, s.value, s.currency, s.amount, s.source) /\ s.source # <<0, "fold">>
        BY <1>1, <2>1, <2>3
    <2> QED BY <2>2, <2>4 DEF Mapped
<1>6. Currencies(S) = Currencies(A)
    <2>1. \A s \in S : \E l \in A : s.currency = l.currency BY <1>1
    <2>2. \A l \in A : \E s \in S : s.currency = l.currency BY <1>1
    <2> HIDE DEF S
    <2> QED BY <2>1, <2>2 DEF Currencies
<1>7. ASSUME NEW c PROVE SumOf(OfCurrency(S, c)) = SumOf(OfCurrency(A, c))
    <2> DEFINE B == OfCurrency(S, c)
               D == OfCurrency(A, c)
               h == [l \in D |-> Gather(q, A, val, l)]
    <2>1. IsFiniteSet(B) BY <1>4, FS_Subset DEF OfCurrency
    <2>2. Amounts(D) BY AmountsPart DEF OfCurrency
    <2>3. h \in [D -> B]
        <3> SUFFICES ASSUME NEW l \in D PROVE Gather(q, A, val, l) \in B OBVIOUS
        <3>1. l \in A /\ l.currency = c BY DEF OfCurrency
        <3>2. Gather(q, A, val, l) \in S BY <3>1
        <3>3. Gather(q, A, val, l).currency = c BY <1>1, <3>1
        <3> QED BY <3>2, <3>3 DEF OfCurrency
    <2>4. ASSUME NEW b \in B PROVE b.amount = SumOf({x \in D : h[x] = b})
        <3>1. b \in S /\ b.currency = c BY DEF OfCurrency
        <3>2. PICK l \in A : b = Gather(q, A, val, l) BY <3>1
        <3>3. b.amount = SumOf(Fibre(l)) /\ l.currency = c BY <1>1, <3>1, <3>2
        <3>4. \A x \in D : x \in A /\ x.currency = c /\ h[x] = Gather(q, A, val, x) BY DEF OfCurrency
        <3>5. \A x \in Fibre(l) : x \in A /\ x.currency = c BY <3>3 DEF Fibre
        <3>6. \A x \in Fibre(l) : x \in D BY <3>5 DEF OfCurrency
        <3> HIDE DEF h, D
        <3>7. \A x \in D : h[x] = b <=> x \in Fibre(l) BY <1>3, <3>2, <3>4
        <3>8. {x \in D : h[x] = b} = Fibre(l) BY <3>6, <3>7
        <3> QED BY <3>3, <3>8
    <2> HIDE DEF B, D, h
    <2>5. SumOf(B) = SumOf(D) BY <2>1, <2>2, <2>3, <2>4, SumOfFibres
    <2> QED BY <2>5 DEF B, D
<1> HIDE DEF S
<1>8. Carries(q, A, S) BY <1>5, <1>6, <1>7 DEF Carries
<1> QED BY <1>8 DEF S

\* aggregateMonthToDate adds up the rows of a query.
LEMMA AggregateCarries ==
    ASSUME NEW q, NEW A, NEW R, Carries(q, A, R)
    PROVE  Carries(q, A, aggregateMonthToDate(q, R))
<1> DEFINE val == [r \in R |-> r.value]
           S == {Gather(q, R, val, l) : l \in R}
<1>1. Amounts(R) BY DEF Carries, Mapped
<1>2. ASSUME NEW l \in R
      PROVE  Gather(q, R, val, l) =
                Series(q, l.value, l.currency,
                       SumOf({r \in R : r.value = l.value /\ r.currency = l.currency}), <<0, "sum">>)
    <2>1. {m \in R : val[m] = val[l] /\ m.currency = l.currency} =
              {r \in R : r.value = l.value /\ r.currency = l.currency}
        OBVIOUS
    <2>2. val[l] = l.value OBVIOUS
    <2> HIDE DEF val
    <2> QED BY <2>1, <2>2 DEF Gather
<1>3. aggregateMonthToDate(q, R) = S
    <2> HIDE DEF val
    <2>1. ASSUME NEW s \in S PROVE s \in aggregateMonthToDate(q, R)
        <3>1. PICK l \in R : s = Gather(q, R, val, l) OBVIOUS
        <3> DEFINE vc == <<l.value, l.currency>>
        <3>2. vc \in {<<r.value, r.currency>> : r \in R} /\ vc[1] = l.value /\ vc[2] = l.currency OBVIOUS
        <3>3. s = Series(q, vc[1], vc[2],
                         SumOf({r \in R : r.value = vc[1] /\ r.currency = vc[2]}), <<0, "sum">>)
            BY <1>2, <3>1
        <3> HIDE DEF vc
        <3> QED BY <3>2, <3>3 DEF aggregateMonthToDate
    <2>2. ASSUME NEW s \in aggregateMonthToDate(q, R) PROVE s \in S
        <3>1. PICK vc \in {<<r.value, r.currency>> : r \in R} :
                  s = Series(q, vc[1], vc[2],
                             SumOf({r \in R : r.value = vc[1] /\ r.currency = vc[2]}), <<0, "sum">>)
            BY DEF aggregateMonthToDate
        <3>2. PICK l \in R : vc = <<l.value, l.currency>> OBVIOUS
        <3>3. vc[1] = l.value /\ vc[2] = l.currency BY <3>2
        <3>4. s = Gather(q, R, val, l) BY <1>2, <3>1, <3>3
        <3> QED BY <3>4
    <2> QED BY <2>1, <2>2
<1> HIDE DEF val
<1>4. Carries(q, R, S) BY <1>1, GatherCarries
<1> HIDE DEF S
<1> QED BY <1>3, <1>4 DEF Carries

\* An entry becomes one row, whatever its key is called.
LEMMA EntriesCarry ==
    ASSUME NEW q, NEW E \in SUBSET Entries, IsFiniteSet(E), NEW name
    PROVE  Carries(q, E, {mapCost(q, e, name[e]) : e \in E})
<1> DEFINE Row(e) == mapCost(q, e, name[e])
           S == {Row(e) : e \in E}
<1>1. Amounts(E) BY DEF Amounts, Entries
<1>2. ASSUME NEW e \in E
      PROVE  /\ Row(e).currency = e.currency /\ Row(e).amount = e.amount /\ Row(e).source = <<e.day, e.key>>
             /\ Row(e) = Series(q, Row(e).value, Row(e).currency, Row(e).amount, Row(e).source)
    BY SeriesFields DEF mapCost
<1> HIDE DEF Row
<1>3. \A e \in E : e.amount \in Int /\ e.day # 0 BY CollectionAssumption DEF Entries
<1>4. \A e, f \in E : Row(e) = Row(f) => e = f
    <2> SUFFICES ASSUME NEW e \in E, NEW f \in E, Row(e) = Row(f) PROVE e = f OBVIOUS
    <2>1. e.currency = f.currency /\ e.amount = f.amount /\ <<e.day, e.key>> = <<f.day, f.key>>
        BY <1>2, Zenon
    <2>2. e.day = f.day /\ e.key = f.key BY <2>1
    <2> QED BY <2>1, <2>2 DEF Entries
<1>5. IsFiniteSet(S)
    <2> DEFINE f == [e \in E |-> Row(e)]
    <2>1. \A y \in S : \E e \in E : y = f[e] OBVIOUS
    <2> HIDE DEF S, f
    <2> QED BY <2>1, ImageFinite
<1>6. Mapped(q, S)
    <2>1. \A s \in S : \E e \in E : s = Row(e) OBVIOUS
    <2> HIDE DEF S
    <2>2. Amounts(S) BY <1>2, <1>3, <1>5, <2>1 DEF Amounts
    <2>3. \A e \in E : Row(e).source # <<0, "fold">> BY <1>2, <1>3
    <2> QED BY <1>2, <2>1, <2>2, <2>3 DEF Mapped
<1>7. Currencies(S) = Currencies(E)
    <2>1. \A s \in S : \E l \in E : s.currency = l.currency BY <1>2
    <2>2. \A l \in E : \E s \in S : s.currency = l.currency BY <1>2
    <2> HIDE DEF S
    <2> QED BY <2>1, <2>2 DEF Currencies
<1>8. ASSUME NEW c PROVE SumOf(OfCurrency(S, c)) = SumOf(OfCurrency(E, c))
    <2> DEFINE B == OfCurrency(S, c)
               D == OfCurrency(E, c)
               h == [e \in D |-> Row(e)]
    <2>1. IsFiniteSet(B) BY <1>5, FS_Subset DEF OfCurrency
    <2>2. Amounts(D) BY <1>1, AmountsPart DEF OfCurrency
    <2>3. h \in [D -> B]
        <3> SUFFICES ASSUME NEW e \in D PROVE Row(e) \in B OBVIOUS
        <3>1. e \in E /\ e.currency = c BY DEF OfCurrency
        <3>2. Row(e) \in S /\ Row(e).currency = c BY <1>2, <3>1
        <3> QED BY <3>2 DEF OfCurrency
    <2>4. ASSUME NEW b \in B PROVE b.amount = SumOf({x \in D : h[x] = b})
        <3>1. b \in S /\ b.currency = c BY DEF OfCurrency
        <3>2. PICK e \in E : b = Row(e) BY <3>1
        <3>3. b.amount = e.amount /\ e.currency = c /\ e.amount \in Int BY <1>2, <1>3, <3>1, <3>2
        <3>4. e \in D BY <3>3 DEF OfCurrency
        <3>5. \A x \in D : x \in E /\ h[x] = Row(x) BY DEF OfCurrency
        <3> HIDE DEF h, D
        <3>6. {x \in D : h[x] = b} = {e} BY <1>4, <3>2, <3>4, <3>5
        <3>7. SumOf({e}) = e.amount BY <3>3, SumOfOne
        <3> QED BY <3>3, <3>6, <3>7
    <2> HIDE DEF B, D, h
    <2>5. SumOf(B) = SumOf(D) BY <2>1, <2>2, <2>3, <2>4, SumOfFibres
    <2> QED BY <2>5 DEF B, D
<1>9. Carries(q, E, S)
    <2> HIDE DEF S
    <2> QED BY <1>6, <1>7, <1>8 DEF Carries
<1> QED BY <1>9 DEF S, Row

-----------------------------------------------------------------------------
(* What a Collect asks for, and what it is told. *)

\* A Collect of a cost collector, with settings that were validated.
Context ==
    /\ collector \in Collectors /\ service \in Services[collector]
    /\ config.target \in TargetConfig
    /\ \A k \in {"dimensions", "tags", "cur"} : config.limit[k] \in Nat \ {0}
    /\ validateTags(config.target, config.limit) /\ validateCURSeriesBudget(config.target, config.limit)
    /\ collector \in {"tags", "cur"} => collector \in config.target.integrations

\* What a query names the lines that it is about, and the row of one of them.
ValueOf(table, q) == [l \in Billed(table, q) |-> TagValue(l, q.tagKey)]
CurRow(table, q, l) == Gather(q, Billed(table, q), ValueOf(table, q), l)

\* basisExpression prices a line, and keeps what else it says.
LEMMA BilledFacts ==
    ASSUME NEW table \in SUBSET Lines, IsFiniteSet(table), NEW q \in Queries
    PROVE  /\ Amounts(Billed(table, q))
           /\ \A l \in Billed(table, q) :
                 \E x \in table : /\ InWindow(x, q.window)
                                 /\ l.currency = x.currency /\ l.tags = x.tags
<1> DEFINE f == [x \in table |-> basisExpression(x, q.basis)]
<1>1. \A l \in Billed(table, q) : \E x \in table : InWindow(x, q.window) /\ l = basisExpression(x, q.basis)
    BY DEF Billed
<1>2. \A l \in Billed(table, q) : \E x \in table : l = f[x] BY <1>1
<1>3. IsFiniteSet(Billed(table, q))
    <2> HIDE DEF f
    <2> QED BY <1>2, ImageFinite
<1>4. q.basis \in Range(Bases) BY DEF Queries
<1>5. \A x \in table : basisExpression(x, q.basis).amount \in Int BY <1>4 DEF basisExpression, Lines
<1>6. \A x : basisExpression(x, q.basis).currency = x.currency /\ basisExpression(x, q.basis).tags = x.tags
    BY DEF basisExpression
<1>7. Amounts(Billed(table, q)) BY <1>1, <1>3, <1>5 DEF Amounts
<1> QED BY <1>1, <1>6, <1>7

\* Queries are told apart by their labels.
LEMMA QueryFields ==
    ASSUME NEW p \in Queries, NEW q \in Queries,
           p.basis = q.basis, p.window = q.window, p.tagKey = q.tagKey
    PROVE  p = q
BY DEF Queries

\* r is the row of buildQuery for the lines that q groups with l.
RowOf(table, tags, r, q, l) ==
    /\ q.tagKey \in IF tags THEN Range(config.target.columns) ELSE {NoKey}
    /\ l \in Billed(table, q)
    /\ r.query = q /\ r.currency = l.currency /\ r.value = TagValue(l, q.tagKey)
    /\ r.amount = CurRow(table, q, l).amount

\* The rows of buildQuery.
LEMMA BuildRows ==
    ASSUME NEW table, NEW tags, NEW r \in buildQuery(table, tags)
    PROVE  \E q \in Queries : \E l \in Billed(table, q) : RowOf(table, tags, r, q, l)
<1> DEFINE Q == {x \in Queries : x.tagKey \in IF tags THEN Range(config.target.columns) ELSE {NoKey}}
           Sum(lines, q, cv) == SumOf({l \in lines : l.currency = cv[1] /\ TagValue(l, q.tagKey) = cv[2]})
<1>1. PICK q \in Q : r \in {[query |-> q, currency |-> cv[1], value |-> cv[2], amount |-> Sum(Billed(table, q), q, cv)] :
                               cv \in {<<l.currency, TagValue(l, q.tagKey)>> : l \in Billed(table, q)}}
    BY DEF buildQuery
<1>2. PICK l \in Billed(table, q) :
          r = [query |-> q, currency |-> l.currency, value |-> TagValue(l, q.tagKey),
               amount |-> Sum(Billed(table, q), q, <<l.currency, TagValue(l, q.tagKey)>>)]
    <2> HIDE DEF Sum
    <2> QED BY <1>1
<1>3. Sum(Billed(table, q), q, <<l.currency, TagValue(l, q.tagKey)>>) = CurRow(table, q, l).amount
    <2> DEFINE A == Billed(table, q)
               val == ValueOf(table, q)
    <2>1. \A m \in A : val[m] = TagValue(m, q.tagKey) BY DEF ValueOf
    <2>2. l \in A OBVIOUS
    <2> HIDE DEF A, val
    <2>3. {m \in A : m.currency = l.currency /\ TagValue(m, q.tagKey) = TagValue(l, q.tagKey)} =
              {m \in A : val[m] = val[l] /\ m.currency = l.currency}
        BY <2>1, <2>2
    <2>4. Gather(q, A, val, l).amount = SumOf({m \in A : val[m] = val[l] /\ m.currency = l.currency})
        BY SeriesFields DEF Gather
    <2>5. Sum(A, q, <<l.currency, TagValue(l, q.tagKey)>>) =
              SumOf({m \in A : m.currency = l.currency /\ TagValue(m, q.tagKey) = TagValue(l, q.tagKey)})
        OBVIOUS
    <2>6. Sum(A, q, <<l.currency, TagValue(l, q.tagKey)>>) = Gather(q, A, val, l).amount
        BY <2>3, <2>4, <2>5
    <2> HIDE DEF Sum
    <2> QED BY <2>6 DEF A, val, CurRow
<1> HIDE DEF Sum
<1>4. RowOf(table, tags, r, q, l) BY <1>1, <1>2, <1>3 DEF RowOf
<1> QED BY <1>1, <1>2, <1>4

\* And all of them.
LEMMA RowsBuilt ==
    ASSUME NEW table, NEW tags, NEW q \in Queries, NEW l \in Billed(table, q),
           q.tagKey \in IF tags THEN Range(config.target.columns) ELSE {NoKey}
    PROVE  \E r \in buildQuery(table, tags) :
              /\ r.query = q /\ r.currency = l.currency /\ r.value = TagValue(l, q.tagKey)
              /\ r.amount = CurRow(table, q, l).amount
<1> DEFINE Q == {x \in Queries : x.tagKey \in IF tags THEN Range(config.target.columns) ELSE {NoKey}}
           Sum(lines, x, cv) == SumOf({m \in lines : m.currency = cv[1] /\ TagValue(m, x.tagKey) = cv[2]})
           Rows(x) == {[query |-> x, currency |-> cv[1], value |-> cv[2], amount |-> Sum(Billed(table, x), x, cv)] :
                          cv \in {<<m.currency, TagValue(m, x.tagKey)>> : m \in Billed(table, x)}}
           cl == <<l.currency, TagValue(l, q.tagKey)>>
           r == [query |-> q, currency |-> cl[1], value |-> cl[2], amount |-> Sum(Billed(table, q), q, cl)]
<1>1. buildQuery(table, tags) = UNION {Rows(x) : x \in Q}
    BY DEF buildQuery
<1>2. q \in Q OBVIOUS
<1>3. cl \in {<<m.currency, TagValue(m, q.tagKey)>> : m \in Billed(table, q)} OBVIOUS
<1>4. r \in Rows(q)
    <2> HIDE DEF Sum, cl
    <2> QED BY <1>3
<1>5. r \in buildQuery(table, tags)
    <2> HIDE DEF Rows, Q, r
    <2> QED BY <1>1, <1>2, <1>4
<1>6. Sum(Billed(table, q), q, cl) = CurRow(table, q, l).amount
    <2> DEFINE A == Billed(table, q)
               val == ValueOf(table, q)
    <2>1. \A m \in A : val[m] = TagValue(m, q.tagKey) BY DEF ValueOf
    <2>2. l \in A OBVIOUS
    <2> HIDE DEF A, val
    <2>3. {m \in A : m.currency = cl[1] /\ TagValue(m, q.tagKey) = cl[2]} =
              {m \in A : val[m] = val[l] /\ m.currency = l.currency}
        BY <2>1, <2>2
    <2>4. Gather(q, A, val, l).amount = SumOf({m \in A : val[m] = val[l] /\ m.currency = l.currency})
        BY SeriesFields DEF Gather
    <2>6. Sum(A, q, cl) = Gather(q, A, val, l).amount BY <2>3, <2>4
    <2> HIDE DEF Sum
    <2> QED BY <2>6 DEF A, val, CurRow
<1>7. r.query = q /\ r.currency = l.currency /\ r.value = TagValue(l, q.tagKey) /\ r.amount = CurRow(table, q, l).amount
    <2>1. cl[1] = l.currency /\ cl[2] = TagValue(l, q.tagKey) OBVIOUS
    <2> HIDE DEF Sum, cl
    <2> QED BY <1>6, <2>1
<1> HIDE DEF r
<1> QED BY <1>5, <1>7

\* The fields of a row.
LEMMA CurRowFields ==
    ASSUME NEW table, NEW q, NEW l \in Billed(table, q)
    PROVE  LET s == CurRow(table, q, l)
           IN  /\ s.basis = q.basis /\ s.window = q.window /\ s.tagKey = q.tagKey
               /\ s.value = TagValue(l, q.tagKey) /\ s.currency = l.currency /\ s.source = <<0, "sum">>
               /\ s = Series(q, TagValue(l, q.tagKey), l.currency, s.amount, <<0, "sum">>)
<1>1. ValueOf(table, q)[l] = TagValue(l, q.tagKey) BY DEF ValueOf
<1> QED BY <1>1, SeriesFields DEF CurRow, Gather

\* mapCosts: a cost has no value.
LEMMA CostRowsAre ==
    ASSUME NEW table, NEW s
    PROVE  s \in CostRows(table) <=>
              \E q \in Queries : q.tagKey = NoKey /\ \E l \in Billed(table, q) : s = CurRow(table, q, l)
<1> DEFINE rows == buildQuery(table, FALSE)
<1>1. s \in CostRows(table) <=> \E r \in rows : s = Series(r.query, Blank, r.currency, r.amount, <<0, "sum">>)
    BY Zenon DEF CostRows, mapCosts
<1>2. ASSUME NEW r \in rows, s = Series(r.query, Blank, r.currency, r.amount, <<0, "sum">>)
      PROVE  \E q \in Queries : q.tagKey = NoKey /\ \E l \in Billed(table, q) : s = CurRow(table, q, l)
    <2>0. PICK q \in Queries : \E l \in Billed(table, q) : RowOf(table, FALSE, r, q, l)
        BY BuildRows, Zenon
    <2>5. PICK l \in Billed(table, q) : RowOf(table, FALSE, r, q, l) BY <2>0
    <2>1. /\ q.tagKey = NoKey /\ l \in Billed(table, q)
          /\ r.query = q /\ r.currency = l.currency
          /\ r.amount = CurRow(table, q, l).amount
        BY <2>5 DEF RowOf
    <2>2. TagValue(l, NoKey) = Blank BY DEF TagValue
    <2>3. CurRow(table, q, l) = Series(q, Blank, l.currency, CurRow(table, q, l).amount, <<0, "sum">>)
        BY <2>1, <2>2, CurRowFields
    <2>4. s = CurRow(table, q, l) BY <1>2, <2>1, <2>3, Zenon
    <2> QED BY <2>1, <2>4
<1>3. ASSUME NEW q \in Queries, q.tagKey = NoKey, NEW l \in Billed(table, q), s = CurRow(table, q, l)
      PROVE  \E r \in rows : s = Series(r.query, Blank, r.currency, r.amount, <<0, "sum">>)
    <2>1. PICK r \in rows : /\ r.query = q /\ r.currency = l.currency
                            /\ r.amount = CurRow(table, q, l).amount
        BY <1>3, RowsBuilt
    <2>2. TagValue(l, NoKey) = Blank BY DEF TagValue
    <2>3. CurRow(table, q, l) = Series(q, Blank, l.currency, CurRow(table, q, l).amount, <<0, "sum">>)
        BY <1>3, <2>2, CurRowFields
    <2>4. s = Series(r.query, Blank, r.currency, r.amount, <<0, "sum">>) BY <1>3, <2>1, <2>3, Zenon
    <2> QED BY <2>4
<1> HIDE DEF rows
<1> QED BY <1>1, <1>2, <1>3

\* mapTagCosts.
LEMMA TagRowsAre ==
    ASSUME NEW table, NEW s
    PROVE  s \in TagRows(table) <=>
              \E q \in Queries : /\ q.tagKey \in Range(config.target.columns)
                                 /\ \E l \in Billed(table, q) : s = CurRow(table, q, l)
<1> DEFINE rows == buildQuery(table, TRUE)
<1>1. s \in TagRows(table) <=> \E r \in rows : s = Series(r.query, r.value, r.currency, r.amount, <<0, "sum">>)
    BY Zenon DEF TagRows, mapTagCosts
<1>2. ASSUME NEW r \in rows, s = Series(r.query, r.value, r.currency, r.amount, <<0, "sum">>)
      PROVE  \E q \in Queries : /\ q.tagKey \in Range(config.target.columns)
                                /\ \E l \in Billed(table, q) : s = CurRow(table, q, l)
    <2>0. PICK q \in Queries : \E l \in Billed(table, q) : RowOf(table, TRUE, r, q, l)
        BY BuildRows, Zenon
    <2>5. PICK l \in Billed(table, q) : RowOf(table, TRUE, r, q, l) BY <2>0
    <2>1. /\ q.tagKey \in Range(config.target.columns) /\ l \in Billed(table, q)
          /\ r.query = q /\ r.currency = l.currency /\ r.value = TagValue(l, q.tagKey)
          /\ r.amount = CurRow(table, q, l).amount
        BY <2>5 DEF RowOf
    <2>3. CurRow(table, q, l) =
              Series(q, TagValue(l, q.tagKey), l.currency, CurRow(table, q, l).amount, <<0, "sum">>)
        BY <2>1, CurRowFields
    <2>4. s = CurRow(table, q, l) BY <1>2, <2>1, <2>3, Zenon
    <2> QED BY <2>1, <2>4
<1>3. ASSUME NEW q \in Queries, q.tagKey \in Range(config.target.columns), NEW l \in Billed(table, q),
             s = CurRow(table, q, l)
      PROVE  \E r \in rows : s = Series(r.query, r.value, r.currency, r.amount, <<0, "sum">>)
    <2>1. PICK r \in rows : /\ r.query = q /\ r.currency = l.currency /\ r.value = TagValue(l, q.tagKey)
                            /\ r.amount = CurRow(table, q, l).amount
        BY <1>3, RowsBuilt
    <2>3. CurRow(table, q, l) =
              Series(q, TagValue(l, q.tagKey), l.currency, CurRow(table, q, l).amount, <<0, "sum">>)
        BY <1>3, CurRowFields
    <2>4. s = Series(r.query, r.value, r.currency, r.amount, <<0, "sum">>) BY <1>3, <2>1, <2>3, Zenon
    <2> QED BY <2>4
<1> HIDE DEF rows
<1> QED BY <1>1, <1>2, <1>3

\* What the mapping calls an entry, and the rows of an answer.
NameOf(e) == IF collector = "tags" THEN (IF e.key = Blank THEN Untagged ELSE e.key) ELSE NewDimension(e.key)
RowsOf(q) == {mapCost(q, e, NameOf(e)) : e \in service.usage[q]}

\* What a query of Cost Explorer asks for before any limit.
LEMMA UsageUnlimited ==
    ASSUME collector # "cur", NEW q
    PROVE  Unlimited(q) = IF q.window = "daily" THEN RowsOf(q) ELSE aggregateMonthToDate(q, RowsOf(q))
<1> DEFINE E == service.usage[q]
<1>1. CASE collector = "tags"
    <2>1. Unlimited(q) = mapTagUsage(q, E) BY <1>1 DEF Unlimited
    <2>2. {mapCost(q, e, IF e.key = Blank THEN Untagged ELSE e.key) : e \in E} = RowsOf(q) BY <1>1 DEF RowsOf, NameOf
    <2> QED BY <2>1, <2>2 DEF mapTagUsage
<1>2. CASE collector # "tags"
    <2>1. Unlimited(q) = MapUsage(q, E) BY <1>2 DEF Unlimited
    <2>2. {mapCost(q, e, NewDimension(e.key)) : e \in E} = RowsOf(q) BY <1>2 DEF RowsOf, NameOf
    <2> QED BY <2>1, <2>2 DEF MapUsage
<1> QED BY <1>1, <1>2

\* And one of CUR.
TableOf(q) == IF q.tagKey = NoKey THEN service.table ELSE service.tagTable

LEMMA CurUnlimited ==
    ASSUME Context, collector = "cur", NEW q \in Asked
    PROVE  Unlimited(q) = {CurRow(TableOf(q), q, l) : l \in Billed(TableOf(q), q)}
<1> DEFINE table == TableOf(q)
           S == {CurRow(table, q, l) : l \in Billed(table, q)}
           All == IF q.tagKey = NoKey THEN CostRows(table) ELSE TagRows(table)
<1>1. q \in Queries BY DEF Asked
<1>2. Unlimited(q) = {s \in All : s.basis = q.basis /\ s.window = q.window /\ s.tagKey = q.tagKey}
    BY Zenon DEF Unlimited, TableOf
<1>3. q.tagKey # NoKey => q.tagKey \in Range(config.target.columns)
    <2> SUFFICES ASSUME q.tagKey # NoKey PROVE q.tagKey \in Range(config.target.columns) OBVIOUS
    <2>1. q.tagKey \in Range(config.target.keys) /\ Enabled(config.target, "tags") BY DEF Asked
    <2>2. Enabled(config.target, "cur") BY DEF Context, Enabled
    <2> QED BY <2>1, <2>2 DEF Context, validateTags
<1> HIDE DEF table
<1>4. \A s : s \in All <=> \E p \in Queries : /\ IF q.tagKey = NoKey THEN p.tagKey = NoKey
                                                 ELSE p.tagKey \in Range(config.target.columns)
                                              /\ \E l \in Billed(table, p) : s = CurRow(table, p, l)
    <2>1. CASE q.tagKey = NoKey BY <2>1, CostRowsAre
    <2>2. CASE q.tagKey # NoKey BY <2>2, TagRowsAre
    <2> QED BY <2>1, <2>2
<1> HIDE DEF All
<1>5. ASSUME NEW s \in Unlimited(q) PROVE s \in S
    <2>1. s \in All /\ s.basis = q.basis /\ s.window = q.window /\ s.tagKey = q.tagKey BY <1>2
    <2>2. PICK p \in Queries : \E l \in Billed(table, p) : s = CurRow(table, p, l) BY <1>4, <2>1
    <2>3. PICK l \in Billed(table, p) : s = CurRow(table, p, l) BY <2>2
    <2>4. s.basis = p.basis /\ s.window = p.window /\ s.tagKey = p.tagKey BY <2>3, CurRowFields
    <2>5. p = q BY <1>1, <2>1, <2>4, QueryFields
    <2> QED BY <2>3, <2>5
<1>6. ASSUME NEW s \in S PROVE s \in Unlimited(q)
    <2>1. PICK l \in Billed(table, q) : s = CurRow(table, q, l) OBVIOUS
    <2>2. s.basis = q.basis /\ s.window = q.window /\ s.tagKey = q.tagKey BY <2>1, CurRowFields
    <2>3. s \in All BY <1>1, <1>3, <1>4, <2>1
    <2> QED BY <1>2, <2>2, <2>3
<1>7. Unlimited(q) = S BY <1>5, <1>6
<1> QED BY <1>7 DEF table

\* Before any limit, a query asks for everything that AWS holds for it.
LEMMA UnlimitedCarries ==
    ASSUME Context, NEW q \in Asked
    PROVE  Carries(q, Held(q), Unlimited(q)) /\ \A c : Reported(q, c) = SumOf(OfCurrency(Held(q), c))
<1>1. q \in Queries BY DEF Asked
<1>2. \A c : Reported(q, c) = SumOf(OfCurrency(Held(q), c)) BY DEF Reported, OfCurrency
<1>3. CASE collector # "cur"
    <2> DEFINE E == service.usage[q]
               name == [e \in E |-> NameOf(e)]
               R == {mapCost(q, e, name[e]) : e \in E}
    <2>1. Held(q) = E BY <1>3 DEF Held
    <2>2. E \in SUBSET Entries /\ IsFiniteSet(E)
        <3>1. collector \in Collectors \ {"cur"} /\ service \in Services[collector] BY <1>3 DEF Context
        <3> QED BY <1>1, <3>1, ServicesAssumption, Zenon
    <2>3. R = RowsOf(q) BY DEF RowsOf
    <2> HIDE DEF E, name
    <2>4. Carries(q, E, R) BY <2>2, EntriesCarry
    <2> HIDE DEF R
    <2>5. Carries(q, E, aggregateMonthToDate(q, R)) BY <2>4, AggregateCarries
    <2> QED BY <1>2, <1>3, <2>1, <2>3, <2>4, <2>5, UsageUnlimited
<1>4. CASE collector = "cur"
    <2> DEFINE table == TableOf(q)
               A == Billed(table, q)
               val == ValueOf(table, q)
               S == {Gather(q, A, val, l) : l \in A}
    <2>1. Held(q) = A BY <1>4 DEF Held, TableOf
    <2>2. Amounts(A)
        <3>1. service \in Services["cur"] BY <1>4 DEF Context
        <3>2. table \in {service.table, service.tagTable} BY DEF TableOf
        <3>3. IsFiniteSet(table) /\ table \subseteq Lines BY <3>1, <3>2, ServicesAssumption, Zenon
        <3> HIDE DEF table
        <3> QED BY <1>1, <3>3, BilledFacts
    <2>3. Unlimited(q) = S BY <1>4, CurUnlimited DEF CurRow
    <2> HIDE DEF A, val
    <2>4. Carries(q, A, S) BY <2>2, GatherCarries
    <2> HIDE DEF S
    <2> QED BY <1>2, <2>1, <2>3, <2>4, Zenon
<1> QED BY <1>3, <1>4

\* The sums of a month and the rows of CUR: one for each value and currency.
LEMMA UnlimitedUnique ==
    ASSUME Context, NEW q \in Asked, collector = "cur" \/ q.window # "daily",
           NEW r \in Unlimited(q), NEW s \in Unlimited(q), r.value = s.value, r.currency = s.currency
    PROVE  r = s
<1>1. CASE collector # "cur"
    <2> DEFINE R == RowsOf(q)
               Sum(v, c) == SumOf({x \in R : x.value = v /\ x.currency = c})
    <2>1. Unlimited(q) = aggregateMonthToDate(q, R) BY <1>1, UsageUnlimited
    <2>2. ASSUME NEW x \in Unlimited(q) PROVE x = Series(q, x.value, x.currency, Sum(x.value, x.currency), <<0, "sum">>)
        <3>1. PICK vc \in {<<y.value, y.currency>> : y \in R} : x = Series(q, vc[1], vc[2], Sum(vc[1], vc[2]), <<0, "sum">>)
            BY <2>1 DEF aggregateMonthToDate
        <3> HIDE DEF Sum
        <3>2. x.value = vc[1] /\ x.currency = vc[2] BY <3>1, SeriesFields
        <3> QED BY <3>1, <3>2
    <2> HIDE DEF Sum
    <2> QED BY <2>2, Zenon
<1>2. CASE collector = "cur"
    <2> DEFINE T == TableOf(q)
    <2>1. PICK l \in Billed(T, q) : r = CurRow(T, q, l) BY <1>2, CurUnlimited
    <2>2. PICK m \in Billed(T, q) : s = CurRow(T, q, m) BY <1>2, CurUnlimited
    <2> HIDE DEF T
    <2>3. l.currency = m.currency /\ TagValue(l, q.tagKey) = TagValue(m, q.tagKey)
        <3>1. /\ r = Series(q, TagValue(l, q.tagKey), l.currency, r.amount, <<0, "sum">>)
              /\ s = Series(q, TagValue(m, q.tagKey), m.currency, s.amount, <<0, "sum">>)
            BY <2>1, <2>2, CurRowFields
        <3> HIDE DEF T
        <3> QED BY <3>1, SeriesFields
    <2>4. ValueOf(T, q)[l] = ValueOf(T, q)[m] BY <2>1, <2>2, <2>3 DEF ValueOf
    <2> QED BY <2>1, <2>2, <2>3, <2>4, Zenon DEF CurRow, Gather
<1> QED BY <1>1, <1>2

\* A row of an answer has the name and the currency of its entry.
LEMMA RowFields ==
    ASSUME NEW q, NEW e
    PROVE  LET r == mapCost(q, e, NameOf(e)) IN r.value = NameOf(e) /\ r.currency = e.currency
BY SeriesFields DEF mapCost

\* Two series of a day with the same labels come from two entries.
LEMMA DailyDuplicates ==
    ASSUME collector # "cur", NEW q, q.window = "daily",
           NEW r \in Unlimited(q), NEW s \in Unlimited(q), r # s, r.value = s.value, r.currency = s.currency
    PROVE  \E d, e \in service.usage[q] : d # e /\ Labelled(d, r) /\ Labelled(e, r)
<1>1. Unlimited(q) = RowsOf(q) BY UsageUnlimited
<1>2. PICK d \in service.usage[q] : r = mapCost(q, d, NameOf(d)) BY <1>1 DEF RowsOf
<1>3. PICK e \in service.usage[q] : s = mapCost(q, e, NameOf(e)) BY <1>1 DEF RowsOf
<1>4. d # e BY <1>2, <1>3
<1>5. \A x : NameOf(x) = x.key \/ (x.key = Blank /\ NameOf(x) = BlankName) BY DEF NameOf, NewDimension, BlankName
<1>6. Labelled(d, r) BY <1>2, <1>5, RowFields DEF Labelled
<1>7. Labelled(e, r) BY <1>3, <1>5, RowFields DEF Labelled
<1> QED BY <1>4, <1>6, <1>7

\* Only a tag with that value gives a tag series the overflow label before any limit.
LEMMA OverflowIsTag ==
    ASSUME Context, NEW q \in Asked, q.tagKey # NoKey, NEW r \in Unlimited(q), r.value = Other
    PROVE  OverflowTag(q)
<1>1. Untagged # Other /\ Blank # Other BY DEF Untagged, Other, Blank
<1>2. CASE collector = "tags"
    <2>1. \E x \in RowsOf(q) : x.value = Other
        <3>1. CASE q.window = "daily" BY <1>2, <3>1, UsageUnlimited
        <3>2. CASE q.window # "daily"
            <4>1. r \in aggregateMonthToDate(q, RowsOf(q)) BY <1>2, <3>2, UsageUnlimited
            <4>2. PICK vc \in {<<y.value, y.currency>> : y \in RowsOf(q)} :
                      \E sum : r = Series(q, vc[1], vc[2], sum, <<0, "sum">>)
                BY <4>1 DEF aggregateMonthToDate
            <4>3. PICK y \in RowsOf(q) : vc = <<y.value, y.currency>> BY <4>2
            <4>4. r.value = vc[1] BY <4>2, SeriesFields
            <4> QED BY <4>3, <4>4
        <3> QED BY <3>1, <3>2
    <2>2. PICK e \in service.usage[q] : NameOf(e) = Other BY <2>1, RowFields DEF RowsOf
    <2>3. e.key = Other BY <1>1, <1>2, <2>2 DEF NameOf
    <2> QED BY <1>2, <2>3 DEF OverflowTag
<1>3. CASE collector = "cur"
    <2>1. TableOf(q) = service.tagTable BY DEF TableOf
    <2>2. PICK l \in Billed(service.tagTable, q) : r = CurRow(service.tagTable, q, l) BY <1>3, <2>1, CurUnlimited
    <2>3. TagValue(l, q.tagKey) = Other
        <3>1. r = Series(q, TagValue(l, q.tagKey), l.currency, r.amount, <<0, "sum">>) BY <2>2, CurRowFields
        <3> QED BY <3>1, SeriesFields
    <2>4. l.tags[q.tagKey] = Other BY <1>1, <2>3 DEF TagValue
    <2>5. PICK x \in service.tagTable : InWindow(x, q.window) /\ l = basisExpression(x, q.basis) BY <2>2 DEF Billed
    <2>6. l.tags = x.tags BY <2>5 DEF basisExpression
    <2> QED BY <1>3, <2>4, <2>5, <2>6 DEF OverflowTag
<1> QED BY <1>2, <1>3 DEF Asked

-----------------------------------------------------------------------------
(* The invariant of Collect. *)

N == Len(Bases)
CostQuery(j, w) == [basis |-> Bases[j], window |-> w, tagKey |-> NoKey]

\* What Collect may make of one query.
Finished(q, series) ==
    /\ collector = "total" \/ (collector = "cur" /\ q.tagKey = NoKey) => series = Unlimited(q)
    /\ collector \in Grouped \cup {"tags"} => series \in limitDimensionGroup(Unlimited(q), LimitOf(q))
    /\ collector \in Grouped => \A s \in Unlimited(q) : s.value # Other
    /\ collector = "cur" /\ q.tagKey # NoKey =>
          \A c \in Currencies(Unlimited(q) \cup series) :
              OfCurrency(series, c) \in limitDimensionGroup(OfCurrency(Unlimited(q), c), LimitOf(q))

\* The partial has the series of the queries in done, and no others.
Standing(done) ==
    /\ \A q \in Asked : IF q \in done THEN Finished(q, Exported(q)) ELSE Exported(q) = {}
    /\ \A s \in collected : \E q \in Asked : s \in Exported(q)

\* The grouped collectors and the total have read k bases of window w.
WindowAt(w, k) ==
    /\ next = (IF w = "daily" THEN k ELSE N + k) + 1
    /\ step = IF k = N THEN "limit" ELSE "read"
    /\ values = UNION {Unlimited(CostQuery(j, w)) : j \in 1..k}
    /\ Standing({q \in Asked : w = "mtd" /\ q.window = "daily"})

TagsAt == next \in 1..(Len(Plan) + 1) /\ Standing({Plan[i] : i \in 1..(next - 1)})

CurAt ==
    /\ step \in {"read", "tags", "finish"}
    /\ Standing({q \in Asked : step = "finish" \/ (step = "tags" /\ q.tagKey = NoKey)})
    /\ step = "tags" => Enabled(config.target, "tags")
    /\ step # "read" => Cardinality(Currencies(CostRows(service.table))) <= MaxCurrencies

CostInv ==
    /\ collector = NoCollector /\ result = "none" => next = 1 /\ step = "read" /\ values = {} /\ collected = {}
    /\ result = "none" =>
          /\ collector \in Grouped \cup {"total"} => \E w \in Windows, k \in 0..N : WindowAt(w, k)
          /\ collector = "tags" => TagsAt
          /\ collector = "cur" => CurAt
    /\ Collected => Standing(Asked)
    /\ RefusedForCause

\* A part of the series of a query.
LEMMA MappedPart ==
    ASSUME NEW q, NEW A, Mapped(q, A), NEW B \in SUBSET A
    PROVE  Mapped(q, B)
<1>1. Amounts(B) BY AmountsPart DEF Mapped
<1> QED BY <1>1 DEF Mapped

\* Every query has a limit.
LEMMA LimitTyped ==
    ASSUME Context, NEW q \in Queries
    PROVE  LimitOf(q) \in Nat \ {0}
<1>1. config.limit["dimensions"] \in Nat \ {0} BY DEF Context
<1>2. q.tagKey \in TagKeys \cup {NoKey} BY DEF Queries
<1> QED BY <1>1, <1>2, CollectionAssumption DEF LimitOf

\* What is exported of a query that was limited, in one currency or in all.
Limited(q, all, some) ==
    /\ Mapped(q, all) /\ some \in limitDimensionGroup(all, LimitOf(q))

\* The four kinds of a finished query.
LEMMA FinishedCases ==
    ASSUME Context, NEW q \in Asked, Finished(q, Exported(q))
    PROVE  /\ Mapped(q, Unlimited(q)) /\ LimitOf(q) \in Nat \ {0}
           /\ \/ Exported(q) = Unlimited(q) /\ (collector = "total" \/ (collector = "cur" /\ q.tagKey = NoKey))
              \/ /\ collector \in Grouped \cup {"tags"}
                 /\ Limited(q, Unlimited(q), Exported(q))
              \/ /\ collector = "cur" /\ q.tagKey # NoKey
                 /\ \A c \in Currencies(Unlimited(q) \cup Exported(q)) :
                       Limited(q, OfCurrency(Unlimited(q), c), OfCurrency(Exported(q), c))
<1>1. Mapped(q, Unlimited(q)) BY UnlimitedCarries DEF Carries
<1>2. LimitOf(q) \in Nat \ {0} BY LimitTyped DEF Asked
<1>3. \A c : Mapped(q, OfCurrency(Unlimited(q), c)) BY <1>1, MappedPart DEF OfCurrency
<1>4. collector \in Grouped \cup {"total", "tags", "cur"} BY DEF Context, Collectors
<1>5. CASE collector = "total" \/ (collector = "cur" /\ q.tagKey = NoKey)
    BY <1>1, <1>2, <1>5, Zenon DEF Finished
<1>6. CASE collector \in Grouped \cup {"tags"}
    BY <1>1, <1>2, <1>6, Zenon DEF Finished, Limited
<1>7. CASE collector = "cur" /\ q.tagKey # NoKey
    BY <1>1, <1>2, <1>3, <1>7, Zenon DEF Finished, Limited
<1> QED BY <1>4, <1>5, <1>6, <1>7

\* A partial of finished queries conserves what AWS holds.
LEMMA StandingConserves ==
    ASSUME Context, Standing(Asked), NEW q \in Asked, NEW c \in Currencies(Held(q) \cup Exported(q))
    PROVE  SumOf(OfCurrency(Exported(q), c)) = Reported(q, c)
<1>0. c \in Currencies(Unlimited(q) \cup Exported(q))
    <2>1. Currencies(Unlimited(q)) = Currencies(Held(q)) BY UnlimitedCarries DEF Carries
    <2> QED BY <2>1 DEF Currencies
<1>1. Finished(q, Exported(q)) BY DEF Standing
<1>2. Reported(q, c) = SumOf(OfCurrency(Unlimited(q), c)) BY UnlimitedCarries DEF Carries
<1>3. CASE Exported(q) = Unlimited(q) BY <1>2, <1>3
<1>4. LimitOf(q) \in Nat \ {0} BY <1>1, FinishedCases
<1>5. CASE Limited(q, Unlimited(q), Exported(q))
    BY <1>2, <1>4, <1>5, LimitConserves DEF Limited
<1>6. CASE Limited(q, OfCurrency(Unlimited(q), c), OfCurrency(Exported(q), c))
    <2>1. SumOf(OfCurrency(OfCurrency(Exported(q), c), c)) = SumOf(OfCurrency(OfCurrency(Unlimited(q), c), c))
        BY <1>4, <1>6, LimitConserves DEF Limited
    <2>2. \A S : OfCurrency(OfCurrency(S, c), c) = OfCurrency(S, c) BY DEF OfCurrency
    <2> QED BY <1>2, <2>1, <2>2
<1> QED BY <1>0, <1>1, <1>3, <1>5, <1>6, FinishedCases

\* It stays within the limits.
LEMMA StandingBounded ==
    ASSUME Context, Standing(Asked), collector # "total", NEW q \in Asked
    PROVE  IF collector # "cur" THEN Cardinality(Exported(q)) <= LimitOf(q)
           ELSE q.tagKey # NoKey =>
                   \A c \in Currencies(Exported(q)) :
                       Cardinality({s \in Exported(q) : s.currency = c}) <= LimitOf(q)
<1>1. Finished(q, Exported(q)) BY DEF Standing
<1>2. LimitOf(q) \in Nat \ {0} BY <1>1, FinishedCases
<1>3. CASE collector = "cur" /\ q.tagKey = NoKey BY <1>3
<1>4. CASE collector \in Grouped \cup {"tags"} /\ Limited(q, Unlimited(q), Exported(q))
    <2>1. Cardinality(Exported(q)) <= LimitOf(q) BY <1>2, <1>4, LimitBounds DEF Limited
    <2> QED BY <1>4, <2>1 DEF Grouped
<1>5. CASE /\ collector = "cur"
           /\ \A c \in Currencies(Unlimited(q) \cup Exported(q)) :
                 Limited(q, OfCurrency(Unlimited(q), c), OfCurrency(Exported(q), c))
    <2> SUFFICES ASSUME NEW c \in Currencies(Exported(q))
                 PROVE  Cardinality({s \in Exported(q) : s.currency = c}) <= LimitOf(q)
        BY <1>5
    <2>1. c \in Currencies(Unlimited(q) \cup Exported(q)) BY DEF Currencies
    <2>2. Cardinality(OfCurrency(Exported(q), c)) <= LimitOf(q) BY <1>2, <1>5, <2>1, LimitBounds DEF Limited
    <2> QED BY <2>2 DEF OfCurrency
<1> QED BY <1>1, <1>3, <1>4, <1>5, FinishedCases

\* It keeps the largest.
LEMMA StandingRanked ==
    ASSUME Context, Standing(Asked), NEW q \in Asked, NEW r \in Exported(q), NEW s \in Unlimited(q),
           r.value # Other, s \notin collected, collector = "cur" => r.currency = s.currency
    PROVE  r.amount >= s.amount
<1>1. Finished(q, Exported(q)) BY DEF Standing
<1>2. LimitOf(q) \in Nat \ {0} BY <1>1, FinishedCases
<1>3. s \notin Exported(q) BY DEF Exported
<1>4. CASE Limited(q, Unlimited(q), Exported(q))
    BY <1>2, <1>3, <1>4, LimitRanks DEF Limited
<1>5. CASE /\ collector = "cur"
           /\ \A c \in Currencies(Unlimited(q) \cup Exported(q)) :
                 Limited(q, OfCurrency(Unlimited(q), c), OfCurrency(Exported(q), c))
    <2> DEFINE c == r.currency
    <2>1. c \in Currencies(Unlimited(q) \cup Exported(q)) BY DEF Currencies
    <2>2. Limited(q, OfCurrency(Unlimited(q), c), OfCurrency(Exported(q), c)) BY <1>5, <2>1
    <2>3. r \in OfCurrency(Exported(q), c) /\ s \in OfCurrency(Unlimited(q), c) BY <1>5 DEF OfCurrency
    <2>4. s \notin OfCurrency(Exported(q), c) BY <1>3 DEF OfCurrency
    <2> HIDE DEF c
    <2> QED BY <1>2, <2>2, <2>3, <2>4, LimitRanks DEF Limited
<1> QED BY <1>1, <1>3, <1>4, <1>5, FinishedCases

\* Two of its series with the same labels have a cause.
LEMMA StandingDuplicates ==
    ASSUME Context, Standing(Asked), NEW r \in collected, NEW s \in collected, r # s, Label(r) = Label(s)
    PROVE  \E q \in Asked :
              /\ r \in Exported(q)
              /\ \/ /\ q.window = "daily" /\ collector # "cur"
                    /\ \E d, e \in service.usage[q] : d # e /\ Labelled(d, r) /\ Labelled(e, r)
                 \/ q.tagKey # NoKey /\ r.value = Other /\ OverflowTag(q)
<1>1. PICK q \in Asked : r \in Exported(q) BY DEF Standing
<1> DEFINE Daily == /\ q.window = "daily" /\ collector # "cur"
                    /\ \E d, e \in service.usage[q] : d # e /\ Labelled(d, r) /\ Labelled(e, r)
           Tag == q.tagKey # NoKey /\ r.value = Other /\ OverflowTag(q)
<1>2. PICK p \in Asked : s \in Exported(p) BY DEF Standing
<1>3. /\ r.basis = s.basis /\ r.window = s.window /\ r.tagKey = s.tagKey
      /\ r.value = s.value /\ r.currency = s.currency
    BY DEF Label
<1>4. p = q BY <1>1, <1>2, <1>3, QueryFields DEF Exported, Asked
<1>5. s \in Exported(q) BY <1>2, <1>4
<1>6. Finished(q, Exported(q)) BY DEF Standing
<1>7. LimitOf(q) \in Nat \ {0} BY <1>6, FinishedCases
<1>8. r \in Unlimited(q) /\ s \in Unlimited(q) => Daily
    <2> SUFFICES ASSUME r \in Unlimited(q), s \in Unlimited(q) PROVE Daily OBVIOUS
    <2>1. q.window = "daily" /\ collector # "cur" BY <1>3, UnlimitedUnique
    <2> QED BY <1>3, <2>1, DailyDuplicates
<1>9. ASSUME NEW all \in SUBSET Unlimited(q), NEW some, Limited(q, all, some), r \in some, s \in some,
             collector \in Grouped \/ q.tagKey # NoKey
      PROVE  Daily \/ Tag
    <2>1. /\ \A x \in some : x \notin all => x.value = Other
          /\ \A x, y \in some : x \notin all /\ y \notin all => x = y
        BY <1>7, <1>9, LimitRanks DEF Limited
    <2>2. CASE r \in all /\ s \in all BY <1>8, <2>2
    <2>3. CASE ~(r \in all /\ s \in all)
        <3>1. PICK x \in all : x.value = Other /\ r.value = Other BY <1>3, <1>9, <2>1, <2>3
        <3>2. x \in Unlimited(q) OBVIOUS
        <3>3. collector \notin Grouped BY <1>6, <3>1, <3>2 DEF Finished
        <3>4. q.tagKey # NoKey BY <1>9, <3>3
        <3> QED BY <3>1, <3>2, <3>4, OverflowIsTag
    <2> QED BY <2>2, <2>3
<1> SUFFICES Daily \/ Tag BY <1>1
<1> HIDE DEF Daily, Tag
<1>10. CASE Exported(q) = Unlimited(q) BY <1>1, <1>5, <1>8, <1>10
<1>11. CASE collector \in Grouped \cup {"tags"} /\ Limited(q, Unlimited(q), Exported(q))
    <2>1. collector = "tags" => q.tagKey # NoKey
        BY CollectionAssumption DEF Context, Asked, validateTags, Enabled
    <2> QED BY <1>1, <1>5, <1>9, <1>11, <2>1
<1>12. CASE /\ collector = "cur" /\ q.tagKey # NoKey
            /\ \A c \in Currencies(Unlimited(q) \cup Exported(q)) :
                 Limited(q, OfCurrency(Unlimited(q), c), OfCurrency(Exported(q), c))
    <2> DEFINE c == r.currency
    <2>1. c \in Currencies(Unlimited(q) \cup Exported(q)) BY <1>1 DEF Currencies
    <2>2. Limited(q, OfCurrency(Unlimited(q), c), OfCurrency(Exported(q), c)) BY <1>12, <2>1
    <2>3. r \in OfCurrency(Exported(q), c) /\ s \in OfCurrency(Exported(q), c) BY <1>1, <1>3, <1>5 DEF OfCurrency
    <2>4. OfCurrency(Unlimited(q), c) \subseteq Unlimited(q) BY DEF OfCurrency
    <2> HIDE DEF c
    <2> QED BY <1>9, <1>12, <2>2, <2>3, <2>4
<1> QED BY <1>6, <1>10, <1>11, <1>12, FinishedCases

\* A refresh of a cost collector has what validation established.
LEMMA ContextHolds ==
    ASSUME BootInv, RefreshInv, collector \in Collectors
    PROVE  Context
<1>1. collector # NoCollector BY DEF NoCollector, Collectors, Grouped
<1>2. stage = "running" /\ service \in Services[collector] BY <1>1 DEF RefreshInv
<1>3. PICK i \in 1..Targets : config = Settings(i) /\ collector \in NamesOf(value, Target(i))
    BY <1>1 DEF RefreshInv
<1>4. Facts(value) BY <1>2 DEF BootInv
<1> DEFINE t == Target(i)
<1>5. TargetFacts(value, t) BY <1>4, TargetsTyped
<1>6. config.target = t /\ config.limit = value.limit BY <1>3 DEF Settings
<1> HIDE DEF t
<1>7. t \in TargetConfig /\ validateTags(t, value.limit) /\ validateCURSeriesBudget(t, value.limit)
    BY <1>5, Zenon DEF TargetFacts
<1>8. \A k \in {"dimensions", "tags", "cur"} : value.limit[k] \in Nat \ {0}
    BY <1>4 DEF Facts, Integrations
<1>9. collector \in {"tags", "cur"} => collector \in t.integrations
    <2>1. value.collectors \subseteq {"total", "service", "region", "account", "forecast"}
        BY <1>4, ConfigTypes DEF Facts, CostNames, Range
    <2>2. collector \in NamesOf(value, t) BY <1>3 DEF t
    <2> QED BY <2>1, <2>2 DEF NamesOf, CostsOf, TagsOf, Optional
<1> QED BY <1>2, <1>6, <1>7, <1>8, <1>9, Zenon DEF Context

\* What the inputs determine.
LEMMA InputsFrame ==
    ASSUME UNCHANGED inputs
    PROVE  /\ collector' = collector /\ config' = config /\ service' = service
           /\ \A q : Unlimited(q)' = Unlimited(q) /\ LimitOf(q)' = LimitOf(q)
           /\ Asked' = Asked /\ Plan' = Plan
           /\ \A t : CostRows(t)' = CostRows(t) /\ TagRows(t)' = TagRows(t)
           /\ Context' <=> Context
<1>1. collector' = collector /\ config' = config /\ service' = service BY Zenon DEF inputs
<1>2. \A k : NewDimension(k)' = NewDimension(k) BY <1>1 DEF NewDimension
<1>3. \A q, E : MapUsage(q, E)' = MapUsage(q, E)
    BY <1>2 DEF MapUsage
<1>4. \A t, b : buildQuery(t, b)' = buildQuery(t, b) BY <1>1 DEF buildQuery
<1>5. \A t : CostRows(t)' = CostRows(t) /\ TagRows(t)' = TagRows(t)
    BY <1>4 DEF CostRows, TagRows
<1>6. \A q : Unlimited(q)' = Unlimited(q)
    BY <1>1, <1>3, <1>5 DEF Unlimited
<1>7. \A q : LimitOf(q)' = LimitOf(q) BY <1>1 DEF LimitOf
<1>8. Asked' = Asked BY <1>1 DEF Asked
<1>9. Plan' = Plan BY <1>1 DEF Plan
<1>10. Context' <=> Context BY <1>1, Zenon DEF Context
<1> QED BY <1>1, <1>5, <1>6, <1>7, <1>8, <1>9, <1>10

\* The series of one query in a set.
Of(set, q) == {s \in set : s.basis = q.basis /\ s.window = q.window /\ s.tagKey = q.tagKey}

\* Queries that finish together leave the others alone.
LEMMA StandingGrows ==
    ASSUME UNCHANGED inputs, NEW done, Standing(done), NEW new, collected' = collected \cup new,
           NEW more \in SUBSET Asked, more \cap done = {},
           \A s \in new : \E q \in more : s \in Of(new, q),
           \A q \in more : Finished(q, Of(new, q))
    PROVE  Standing(done \cup more)'
<1>1. Asked' = Asked BY InputsFrame
<1>2. \A q, S : Finished(q, S)' <=> Finished(q, S)
    <2>1. collector' = collector /\ \A q : Unlimited(q)' = Unlimited(q) /\ LimitOf(q)' = LimitOf(q) BY InputsFrame
    <2> QED BY <2>1, Zenon DEF Finished
<1>3. \A q : Exported(q)' = Exported(q) \cup Of(new, q) BY DEF Exported, Of
<1>4. ASSUME NEW q \in Asked, q \notin more PROVE Of(new, q) = {}
    <2> SUFFICES ASSUME NEW s \in Of(new, q) PROVE FALSE OBVIOUS
    <2>1. s \in new BY DEF Of
    <2>2. PICK p \in more : s \in Of(new, p) BY <2>1
    <2>3. p = q BY <2>2, QueryFields DEF Of, Asked
    <2> QED BY <1>4, <2>3
<1>5. ASSUME NEW q \in Asked
      PROVE  IF q \in done \cup more THEN Finished(q, Exported(q)') ELSE Exported(q)' = {}
    <2>1. CASE q \in more
        <3>1. Exported(q) = {} BY <2>1 DEF Standing
        <3>2. Exported(q)' = Of(new, q) BY <1>3, <3>1
        <3> QED BY <2>1, <3>2
    <2>2. CASE q \notin more
        <3>1. Exported(q)' = Exported(q) BY <1>3, <1>4, <2>2
        <3>2. IF q \in done THEN Finished(q, Exported(q)) ELSE Exported(q) = {} BY DEF Standing
        <3> QED BY <2>2, <3>1, <3>2
    <2> QED BY <2>1, <2>2
<1>6. ASSUME NEW s \in collected' PROVE \E q \in Asked : s \in Exported(q)'
    <2>1. CASE s \in collected
        <3>1. PICK q \in Asked : s \in Exported(q) BY <2>1 DEF Standing
        <3> QED BY <1>3, <3>1
    <2>2. CASE s \in new
        <3>1. PICK q \in more : s \in Of(new, q) BY <2>2
        <3> QED BY <1>3, <3>1
    <2> QED BY <2>1, <2>2
<1>7. ASSUME NEW q \in Asked
      PROVE  IF q \in done \cup more THEN Finished(q, Exported(q))' ELSE Exported(q)' = {}
    <2>1. Finished(q, Exported(q))' <=> Finished(q, Exported(q)') BY InputsFrame, Zenon DEF Finished
    <2> QED BY <1>5, <2>1
<1> QED BY <1>1, <1>6, <1>7, Zenon DEF Standing

-----------------------------------------------------------------------------
(* The queries, in the order in which Collect asks them. *)

\* The bases of the configuration differ, and there is one.
LEMMA BasesFacts ==
    /\ N \in Nat \ {0} /\ DOMAIN Bases = 1..N
    /\ \A i, j \in 1..N : Bases[i] = Bases[j] => i = j
    /\ Range(Bases) = {Bases[i] : i \in 1..N}
<1>1. Bases \in Seq(STRING) /\ Bases # <<>> /\ IsInjective(Bases) BY CollectionAssumption
<1>2. Len(Bases) \in Nat /\ DOMAIN Bases = 1..Len(Bases) /\ Len(Bases) # 0 BY <1>1
<1> QED BY <1>1, <1>2 DEF N, IsInjective, Range

\* The remainders that the order of the bases needs.
LEMMA Remainders ==
    ASSUME NEW n \in Nat \ {0}, NEW k \in 0..(n - 1)
    PROVE  k % n = k /\ (n + k) % n = k
OBVIOUS

\* The queries of the grouped collectors and the total: every basis of a day, then of the month.
LEMMA CostPlan ==
    ASSUME collector \in Grouped \cup {"total"}
    PROVE  /\ Len(Plan) = 2 * N
           /\ \A k \in 0..(N - 1) : Plan[k + 1] = CostQuery(k + 1, "daily") /\ Plan[N + k + 1] = CostQuery(k + 1, "mtd")
<1> DEFINE F == [i \in 1..(2 * N) |-> [basis  |-> Bases[((i - 1) % N) + 1],
                                       window |-> IF i <= N THEN "daily" ELSE "mtd",
                                       tagKey |-> NoKey]]
<1>1. collector # "tags" BY DEF Grouped
<1>2. Plan = F BY <1>1, Zenon DEF Plan, N
<1>3. 2 * N \in Nat BY BasesFacts
<1>4. Len(F) = 2 * N BY <1>3
<1>5. ASSUME NEW k \in 0..(N - 1)
      PROVE  F[k + 1] = CostQuery(k + 1, "daily") /\ F[N + k + 1] = CostQuery(k + 1, "mtd")
    <2>1. N \in Nat \ {0} BY BasesFacts
    <2>2. k % N = k /\ (N + k) % N = k BY <2>1, Remainders
    <2>3. k + 1 \in 1..(2 * N) /\ N + k + 1 \in 1..(2 * N) /\ (k + 1) - 1 = k /\ (N + k + 1) - 1 = N + k
          /\ k + 1 <= N /\ ~(N + k + 1 <= N)
        BY <2>1
    <2> QED BY <2>2, <2>3 DEF CostQuery
<1> HIDE DEF F
<1> QED BY <1>2, <1>4, <1>5

\* Those are the queries asked: every basis in both windows.
LEMMA CostAsked ==
    ASSUME collector \in Grouped \cup {"total"}
    PROVE  /\ \A j \in 1..N, w \in Windows : CostQuery(j, w) \in Asked
           /\ \A q \in Asked : \E j \in 1..N : q = CostQuery(j, q.window) /\ q.window \in Windows
<1>1. collector \notin {"tags", "cur"} BY DEF Grouped
<1>2. ASSUME NEW j \in 1..N, NEW w \in Windows PROVE CostQuery(j, w) \in Asked
    <2>1. CostQuery(j, w) \in Queries /\ CostQuery(j, w).tagKey = NoKey BY BasesFacts DEF Queries, CostQuery
    <2> QED BY <1>1, <2>1 DEF Asked
<1>3. ASSUME NEW q \in Asked PROVE \E j \in 1..N : q = CostQuery(j, q.window) /\ q.window \in Windows
    <2>1. q \in Queries /\ q.tagKey = NoKey BY <1>1 DEF Asked
    <2>2. q.basis \in Range(Bases) /\ q.window \in Windows BY <2>1 DEF Queries
    <2>3. PICK j \in 1..N : q.basis = Bases[j] BY <2>2, BasesFacts
    <2>4. q = CostQuery(j, q.window) BY <2>1, <2>3 DEF Queries, CostQuery
    <2> QED BY <2>2, <2>4
<1> QED BY <1>2, <1>3

\* The series of a query are labelled with it.
LEMMA UnlimitedLabels ==
    ASSUME Context, NEW q \in Asked
    PROVE  /\ Mapped(q, Unlimited(q))
           /\ \A s \in Unlimited(q) : s.basis = q.basis /\ s.window = q.window /\ s.tagKey = q.tagKey
<1>1. Mapped(q, Unlimited(q)) BY UnlimitedCarries DEF Carries
<1>2. \A s \in Unlimited(q) : s = Series(q, s.value, s.currency, s.amount, s.source) BY <1>1 DEF Mapped
<1> QED BY <1>1, <1>2, SeriesFields

\* Once all bases of a window were read, values has each query's series apart.
LEMMA WindowParts ==
    ASSUME Context, collector \in Grouped \cup {"total"}, NEW w \in Windows,
           values = UNION {Unlimited(CostQuery(j, w)) : j \in 1..N}
    PROVE  /\ \A i \in 1..N : {s \in values : s.basis = Bases[i]} = Unlimited(CostQuery(i, w))
           /\ \A i \in 1..N : Of(values, CostQuery(i, w)) = Unlimited(CostQuery(i, w))
<1> DEFINE U(i) == Unlimited(CostQuery(i, w))
<1>1. ASSUME NEW i \in 1..N, NEW s \in U(i)
      PROVE  s.basis = Bases[i] /\ s.window = w /\ s.tagKey = NoKey
    <2>1. CostQuery(i, w) \in Asked BY CostAsked
    <2>2. /\ s.basis = CostQuery(i, w).basis /\ s.window = CostQuery(i, w).window
          /\ s.tagKey = CostQuery(i, w).tagKey
        BY <2>1, <1>1, UnlimitedLabels
    <2> QED BY <2>2 DEF CostQuery
<1>2. \A s : s \in values <=> \E j \in 1..N : s \in U(j) OBVIOUS
<1> HIDE DEF U
<1>3. \A i, j \in 1..N : Bases[i] = Bases[j] => i = j BY BasesFacts
<1>4. ASSUME NEW i \in 1..N PROVE {s \in values : s.basis = Bases[i]} = U(i)
    BY <1>1, <1>2, <1>3
<1>5. ASSUME NEW i \in 1..N PROVE Of(values, CostQuery(i, w)) = U(i)
    <2>1. Of(values, CostQuery(i, w)) = {s \in values : s.basis = Bases[i] /\ s.window = w /\ s.tagKey = NoKey}
        BY DEF Of, CostQuery
    <2> QED BY <2>1, <1>1, <1>4
<1> QED BY <1>4, <1>5 DEF U

-----------------------------------------------------------------------------
(* The grouped collectors and the total. *)

\* A partial that stays keeps its finished queries.
LEMMA StandingKept ==
    ASSUME UNCHANGED inputs, NEW done, Standing(done), collected' = collected
    PROVE  Standing(done)'
<1>1. PICK none : none = {} OBVIOUS
<1>2. /\ collected' = collected \cup none /\ none \in SUBSET Asked /\ none \cap done = {}
      /\ \A s \in none : \E q \in none : s \in Of(none, q)
      /\ \A q \in none : Finished(q, Of(none, q))
    BY <1>1
<1>3. Standing(done \cup none)' BY <1>2, StandingGrows
<1>4. done \cup none = done BY <1>1
<1> QED BY <1>3, <1>4

\* The queries of a day, once the month is read.
Earlier(w) == {q \in Asked : w = "mtd" /\ q.window = "daily"}

\* WindowAt with the set of finished queries named.
LEMMA WindowFacts ==
    ASSUME NEW w, NEW k
    PROVE  WindowAt(w, k) <=>
              /\ next = (IF w = "daily" THEN k ELSE N + k) + 1
              /\ step = IF k = N THEN "limit" ELSE "read"
              /\ values = UNION {Unlimited(CostQuery(j, w)) : j \in 1..k}
              /\ \E done : done = Earlier(w) /\ Standing(done)
BY Zenon DEF WindowAt, Earlier

\* The same of the next state.
LEMMA WindowFactsNext ==
    ASSUME NEW w, NEW k
    PROVE  WindowAt(w, k)' <=>
              /\ next' = (IF w = "daily" THEN k ELSE N + k) + 1
              /\ step' = IF k = N THEN "limit" ELSE "read"
              /\ values' = UNION {Unlimited(CostQuery(j, w))' : j \in 1..k}
              /\ \E done : done = Earlier(w)' /\ Standing(done)'
BY Zenon DEF WindowAt, Earlier

\* ReadCosts reads one basis more.
LEMMA ReadStep ==
    ASSUME Context, NEW w \in Windows, NEW k \in 0..N, WindowAt(w, k), ReadCosts
    PROVE  /\ UNCHANGED inputs
           /\ result' \in {"none", "malformed"}
           /\ result' = "none" => \E j \in 0..N : WindowAt(w, j)'
<1>1. collector \in Grouped \cup {"total"} /\ result = "none" /\ step = "read" BY DEF ReadCosts
<1>2. /\ next = (IF w = "daily" THEN k ELSE N + k) + 1
      /\ step = IF k = N THEN "limit" ELSE "read"
      /\ values = UNION {Unlimited(CostQuery(j, w)) : j \in 1..k}
      /\ \E done : done = Earlier(w) /\ Standing(done)
    BY WindowFacts
<1>3. k \in 0..(N - 1) /\ N \in Nat \ {0} BY <1>1, <1>2, BasesFacts
<1> DEFINE q == CostQuery(k + 1, w)
<1>4. Query = q
    <2>1. Plan[k + 1] = CostQuery(k + 1, "daily") /\ Plan[N + k + 1] = CostQuery(k + 1, "mtd")
        BY <1>1, <1>3, CostPlan
    <2>2. w = "daily" \/ w = "mtd" BY DEF Windows
    <2> QED BY <1>2, <2>1, <2>2 DEF Query
<1>5. q.basis = Bases[k + 1] BY DEF CostQuery
<1>6. Unlimited(q) = MapUsage(q, service.usage[q]) BY <1>1 DEF Unlimited, Grouped
<1> HIDE DEF q
<1>7. CASE ~Wellformed(service.usage[q])
    <2>1. Return("malformed") BY <1>4, <1>7, Zenon DEF ReadCosts
    <2> QED BY <2>1 DEF Return
<1>8. CASE Wellformed(service.usage[q])
    <2>1. /\ values' = values \cup MapUsage(q, service.usage[q])
          /\ next' = next + 1
          /\ step' = IF q.basis = Bases[Len(Bases)] THEN "limit" ELSE "read"
          /\ UNCHANGED inputs /\ collected' = collected /\ result' = result
        BY <1>4, <1>8, Zenon DEF ReadCosts
    <2>2. next' = (IF w = "daily" THEN k + 1 ELSE N + (k + 1)) + 1 BY <1>2, <1>3, <2>1
    <2>3. step' = IF k + 1 = N THEN "limit" ELSE "read"
        <3>1. k + 1 \in 1..N /\ N \in 1..N BY <1>3
        <3>2. Bases[k + 1] = Bases[N] <=> k + 1 = N BY <3>1, BasesFacts
        <3> QED BY <1>5, <2>1, <3>2 DEF N
    <2>4. values' = UNION {Unlimited(CostQuery(j, w))' : j \in 1..(k + 1)}
        <3>1. \A j : Unlimited(CostQuery(j, w))' = Unlimited(CostQuery(j, w)) BY <2>1, InputsFrame
        <3>2. values' = values \cup Unlimited(CostQuery(k + 1, w)) BY <1>6, <2>1 DEF q
        <3>3. 1..(k + 1) = (1..k) \cup {k + 1} BY <1>3
        <3> QED BY <1>2, <3>1, <3>2, <3>3
    <2>5. \E done : done = Earlier(w)' /\ Standing(done)'
        <3>1. PICK done : done = Earlier(w) /\ Standing(done) BY <1>2
        <3>2. Standing(done)' BY <2>1, <3>1, StandingKept
        <3>3. Earlier(w)' = Earlier(w) BY <2>1, InputsFrame, Zenon DEF Earlier
        <3> QED BY <3>1, <3>2, <3>3
    <2>6. WindowAt(w, k + 1)' BY <2>2, <2>3, <2>4, <2>5, WindowFactsNext
    <2>7. k + 1 \in 0..N BY <1>3
    <2> QED BY <1>1, <2>1, <2>6, <2>7
<1> QED BY <1>7, <1>8

\* EndWindow finishes the queries of its window.
LEMMA EndStep ==
    ASSUME Context, collector \in Grouped \cup {"total"}, NEW w \in Windows, WindowAt(w, N),
           NEW series, EndWindow(series),
           \A s \in series : \E i \in 1..N : s \in Of(series, CostQuery(i, w)),
           \A i \in 1..N : Finished(CostQuery(i, w), Of(series, CostQuery(i, w)))
    PROVE  /\ UNCHANGED inputs /\ result' \in {"none", "ok"}
           /\ result' = "none" => \E v \in Windows, j \in 0..N : WindowAt(v, j)'
           /\ result' = "ok" => Standing(Asked)'
<1>1. /\ next = (IF w = "daily" THEN N ELSE N + N) + 1
      /\ \E done : done = Earlier(w) /\ Standing(done)
    BY WindowFacts
<1>2. /\ collected' = collected \cup series
      /\ values' = {} /\ step' = "read" /\ next' = next
      /\ result' = IF next > Len(Plan) THEN "ok" ELSE "none"
      /\ UNCHANGED inputs
    BY Zenon DEF EndWindow
<1>3. PICK done : done = Earlier(w) /\ Standing(done) BY <1>1
<1>4. PICK more : more = {CostQuery(i, w) : i \in 1..N} OBVIOUS
<1>5. more \in SUBSET Asked /\ \A q \in more : q.window = w BY <1>4, CostAsked DEF CostQuery
<1>6. more \cap done = {} BY <1>3, <1>5 DEF Earlier
<1>7. Standing(done \cup more)'
    <2>1. \A s \in series : \E q \in more : s \in Of(series, q) BY <1>4
    <2>2. \A q \in more : Finished(q, Of(series, q)) BY <1>4
    <2> QED BY <1>2, <1>3, <1>5, <1>6, <2>1, <2>2, StandingGrows
<1>8. \A q \in Asked : q.window = w <=> q \in more
    <2>1. \A q \in Asked : q.window = w => q \in more BY <1>4, CostAsked
    <2> QED BY <1>5, <2>1
<1>9. N \in Nat \ {0} /\ Len(Plan) = 2 * N BY BasesFacts, CostPlan
<1>10. Asked' = Asked BY <1>2, InputsFrame
<1>11. CASE w = "daily"
    <2>1. result' = "none" BY <1>1, <1>2, <1>9, <1>11
    <2>2. done \cup more = Earlier("mtd")
        BY <1>3, <1>5, <1>8, <1>11 DEF Earlier
    <2>3. Earlier("mtd")' = Earlier("mtd") BY <1>10, Zenon DEF Earlier
    <2>4. \E d : d = Earlier("mtd")' /\ Standing(d)' BY <1>7, <2>2, <2>3
    <2>5. next' = (IF "mtd" = "daily" THEN 0 ELSE N + 0) + 1 /\ step' = IF 0 = N THEN "limit" ELSE "read"
        BY <1>1, <1>2, <1>9, <1>11
    <2>6. values' = UNION {Unlimited(CostQuery(j, "mtd"))' : j \in 1..0} BY <1>2
    <2>7. WindowAt("mtd", 0)' BY <2>4, <2>5, <2>6, WindowFactsNext
    <2>8. "mtd" \in Windows /\ 0 \in 0..N BY <1>9 DEF Windows
    <2> QED BY <1>2, <2>1, <2>7, <2>8
<1>12. CASE w = "mtd"
    <2>1. result' = "ok" BY <1>1, <1>2, <1>9, <1>12
    <2>2. \A q \in Asked : q.window \in {"daily", "mtd"} BY DEF Asked, Queries, Windows
    <2>3. done \cup more = Asked
        BY <1>3, <1>5, <1>8, <1>12, <2>2 DEF Earlier
    <2>4. Standing(Asked)'
        <3>1. done \cup more = Asked' BY <1>10, <2>3
        <3> QED BY <1>7, <3>1
    <2> QED BY <1>2, <2>1, <2>4
<1> QED BY <1>11, <1>12 DEF Windows

\* An error without a condition on it needs nothing more.
LEMMA Closed ==
    ASSUME UNCHANGED inputs, collector \in Collectors, result' \notin {"none", "ok", "series", "mixed"}
    PROVE  CostInv'
<1>1. collector' = collector BY Zenon DEF inputs
<1>2. collector' # NoCollector BY <1>1 DEF NoCollector, Collectors, Grouped
<1>3. RefusedForCause' BY DEF RefusedForCause
<1>4. ~Collected' BY DEF Collected
<1> QED BY <1>2, <1>3, <1>4 DEF CostInv

\* The grouped collectors and the total, going on or finished.
LEMMA CostGoesOn ==
    ASSUME UNCHANGED inputs, collector \in Grouped \cup {"total"}, result' \in {"none", "ok"},
           result' = "none" => \E w \in Windows, j \in 0..N : WindowAt(w, j)',
           result' = "ok" => Standing(Asked)'
    PROVE  CostInv'
<1>1. collector' = collector BY Zenon DEF inputs
<1>2. collector' \notin {NoCollector, "tags", "cur"} BY <1>1 DEF NoCollector, Collectors, Grouped
<1>3. RefusedForCause' BY DEF RefusedForCause
<1>4. Collected' => Standing(Asked)' BY DEF Collected
<1> QED BY <1>2, <1>3, <1>4 DEF CostInv

\* The bounded form of a window has the bounded form of every query.
LEMMA DimensionsLimited ==
    ASSUME Context, collector \in Grouped, NEW w \in Windows,
           values = UNION {Unlimited(CostQuery(j, w)) : j \in 1..N}, ~Reserved,
           NEW bounded \in LimitDimensions
    PROVE  /\ \A s \in bounded : \E i \in 1..N : s \in Of(bounded, CostQuery(i, w))
           /\ \A i \in 1..N : Finished(CostQuery(i, w), Of(bounded, CostQuery(i, w)))
<1> DEFINE Q(i) == CostQuery(i, w)
           U(i) == Unlimited(Q(i))
           limits == [g \in ByBasis |-> config.limit.dimensions]
<1>1. /\ \A i \in 1..N : {s \in values : s.basis = Bases[i]} = U(i) BY WindowParts
<1>2. \A g : g \in ByBasis <=> \E i \in 1..N : g = U(i)
    <2> DEFINE G(b) == {s \in values : s.basis = b}
    <2>1. \A g : g \in ByBasis <=> \E b \in Range(Bases) : g = G(b) BY DEF ByBasis
    <2>2. \A i \in 1..N : G(Bases[i]) = U(i) BY <1>1
    <2> HIDE DEF G, U
    <2>3. \A b : b \in Range(Bases) <=> \E i \in 1..N : b = Bases[i] BY BasesFacts
    <2> QED BY <2>1, <2>2, <2>3
<1>3. IsFiniteSet(ByBasis)
    <2>1. IsFiniteSet(1..N) BY BasesFacts, FS_Interval
    <2> DEFINE f == [i \in 1..N |-> U(i)]
    <2>2. \A g \in ByBasis : \E i \in 1..N : g = f[i] BY <1>2
    <2> HIDE DEF f
    <2> QED BY <2>1, <2>2, ImageFinite
<1>4. bounded \in LimitedEach(ByBasis, limits) BY Zenon DEF LimitDimensions
<1>5. \A i \in 1..N : limits[U(i)] = config.limit.dimensions BY <1>2
<1> HIDE DEF limits
<1>6. PICK h : Choice(ByBasis, limits, h) /\ bounded = UNION {h[g] : g \in ByBasis}
    BY <1>3, <1>4, LimitedIs
<1>7. ASSUME NEW i \in 1..N
      PROVE  /\ Q(i) \in Asked /\ Q(i).tagKey = NoKey /\ LimitOf(Q(i)) = config.limit.dimensions
             /\ h[U(i)] \in limitDimensionGroup(U(i), LimitOf(Q(i)))
             /\ \A s \in h[U(i)] : s.basis = Q(i).basis /\ s.window = Q(i).window /\ s.tagKey = Q(i).tagKey
    <2>1. Q(i) \in Asked BY CostAsked
    <2>2. Q(i).tagKey = NoKey BY DEF CostQuery
    <2>3. LimitOf(Q(i)) = config.limit.dimensions BY <2>2 DEF LimitOf
    <2>4. U(i) \in ByBasis BY <1>2
    <2>5. h[U(i)] \in limitDimensionGroup(U(i), limits[U(i)]) BY <1>6, <2>4 DEF Choice
    <2>6. limits[U(i)] = LimitOf(Q(i)) BY <1>5, <2>3
    <2> HIDE DEF Q
    <2>7. Mapped(Q(i), U(i)) BY <2>1, UnlimitedLabels
    <2>8. LimitOf(Q(i)) \in Nat \ {0} BY <2>1, LimitTyped DEF Asked
    <2> HIDE DEF U
    <2>9. h[U(i)] \in limitDimensionGroup(U(i), LimitOf(Q(i))) BY <2>5, <2>6
    <2>10. \A s \in h[U(i)] : s.basis = Q(i).basis /\ s.window = Q(i).window /\ s.tagKey = Q(i).tagKey
        BY <2>7, <2>8, <2>9, LimitBounds
    <2> QED BY <2>1, <2>2, <2>3, <2>9, <2>10
<1>8. \A i \in 1..N : Q(i).basis = Bases[i] BY DEF CostQuery
<1>9. \A s : s \in bounded <=> \E i \in 1..N : s \in h[U(i)] BY <1>2, <1>6
<1>10. \A i \in 1..N : \A s \in U(i) : s.value # Other BY <1>1 DEF Reserved
<1> HIDE DEF U, Q
<1>11. ASSUME NEW i \in 1..N PROVE Of(bounded, Q(i)) = h[U(i)]
    <2>1. ASSUME NEW s \in Of(bounded, Q(i)) PROVE s \in h[U(i)]
        <3>1. s \in bounded /\ s.basis = Q(i).basis BY DEF Of
        <3>2. PICK j \in 1..N : s \in h[U(j)] BY <1>9, <3>1
        <3>3. Bases[i] = Bases[j] BY <1>7, <1>8, <3>1, <3>2
        <3>4. i = j BY <3>3, BasesFacts
        <3> QED BY <3>2, <3>4
    <2>2. ASSUME NEW s \in h[U(i)] PROVE s \in Of(bounded, Q(i)) BY <1>7, <1>9, <2>2 DEF Of
    <2> QED BY <2>1, <2>2
<1>12. ASSUME NEW i \in 1..N PROVE Finished(Q(i), Of(bounded, Q(i)))
    <2>1. Of(bounded, Q(i)) \in limitDimensionGroup(U(i), LimitOf(Q(i))) BY <1>7, <1>11
    <2>2. \A s \in U(i) : s.value # Other BY <1>10
    <2>3. collector \notin {"total", "cur"} BY DEF Grouped
    <2> QED BY <2>1, <2>2, <2>3, Zenon DEF Finished, U
<1>13. \A s \in bounded : \E i \in 1..N : s \in Of(bounded, Q(i)) BY <1>9, <1>11
<1> QED BY <1>12, <1>13 DEF Q

\* Every step of the grouped collectors and the total keeps the invariant
\* (total/collector.go and grouped.go, Collect).
LEMMA GroupedStep ==
    ASSUME Context, CostInv, collector \in Grouped \cup {"total"}, CollectCosts
    PROVE  CostInv'
<1>1. collector \notin {"tags", "cur"} BY DEF Grouped
<1>2. ReadCostsFails \/ ReadCosts \/ AppendTotals \/ AppendLimited \/ RefuseGrouped
    BY <1>1 DEF CollectCosts, ReadTagCostsFails, QueryFails, ReadTagCosts, FinishTags, QueryCosts, QueryTagCosts, FinishCUR
<1>3. result = "none"
    BY <1>2 DEF ReadCostsFails, ReadCosts, AppendTotals, AppendLimited, RefuseGrouped
<1>4. PICK w \in Windows, k \in 0..N : WindowAt(w, k) BY <1>3 DEF CostInv
<1>5. /\ step = IF k = N THEN "limit" ELSE "read"
      /\ values = UNION {Unlimited(CostQuery(j, w)) : j \in 1..k}
    BY <1>4, WindowFacts
<1>6. collector \in Collectors BY DEF Context
<1>7. CASE ReadCostsFails
    <2>1. UNCHANGED inputs /\ result' = "failed" BY <1>7, Zenon DEF ReadCostsFails, Return
    <2> QED BY <1>6, <2>1, Closed
<1>8. CASE ReadCosts
    <2>1. /\ UNCHANGED inputs /\ result' \in {"none", "malformed"}
          /\ result' = "none" => \E j \in 0..N : WindowAt(w, j)'
        BY <1>4, <1>8, ReadStep
    <2>2. CASE result' = "malformed" BY <1>6, <2>1, <2>2, Closed
    <2>3. CASE result' = "none" BY <2>1, <2>3, CostGoesOn
    <2> QED BY <2>1, <2>2, <2>3
<1>9. CASE AppendTotals
    <2>1. collector = "total" /\ step = "limit" /\ EndWindow(values) BY <1>9, Zenon DEF AppendTotals
    <2>2. k = N BY <1>5, <2>1
    <2>3. PICK series : series = values OBVIOUS
    <2>4. \A i \in 1..N : Of(series, CostQuery(i, w)) = Unlimited(CostQuery(i, w)) BY <1>5, <2>2, <2>3, WindowParts
    <2>5. \A s \in series : \E i \in 1..N : s \in Of(series, CostQuery(i, w)) BY <1>5, <2>2, <2>3, <2>4
    <2>6. \A i \in 1..N : Finished(CostQuery(i, w), Of(series, CostQuery(i, w)))
        BY <2>1, <2>4 DEF Finished, Grouped
    <2>7. EndWindow(series) BY <2>1, <2>3
    <2>8. /\ UNCHANGED inputs /\ result' \in {"none", "ok"}
          /\ result' = "none" => \E v \in Windows, j \in 0..N : WindowAt(v, j)'
          /\ result' = "ok" => Standing(Asked)'
        BY <1>4, <2>2, <2>5, <2>6, <2>7, EndStep
    <2> QED BY <2>8, CostGoesOn
<1>10. CASE AppendLimited
    <2>1. collector \in Grouped /\ step = "limit" /\ ~Reserved BY <1>10, Zenon DEF AppendLimited
    <2>2. PICK bounded \in LimitDimensions : EndWindow(bounded) BY <1>10, Zenon DEF AppendLimited
    <2>3. k = N BY <1>5, <2>1
    <2>4. /\ \A s \in bounded : \E i \in 1..N : s \in Of(bounded, CostQuery(i, w))
          /\ \A i \in 1..N : Finished(CostQuery(i, w), Of(bounded, CostQuery(i, w)))
        BY <1>5, <2>1, <2>3, DimensionsLimited
    <2>5. /\ UNCHANGED inputs /\ result' \in {"none", "ok"}
          /\ result' = "none" => \E v \in Windows, j \in 0..N : WindowAt(v, j)'
          /\ result' = "ok" => Standing(Asked)'
        BY <1>4, <2>2, <2>3, <2>4, EndStep
    <2> QED BY <2>5, CostGoesOn
<1>11. CASE RefuseGrouped
    <2>1. collector \in Grouped /\ step = "limit" /\ UNCHANGED inputs
        BY <1>11, Zenon DEF RefuseGrouped, Return
    <2>2. \/ result' \in {"malformed", "reserved"}
          \/ result' = "mixed" /\ \E g \in ByBasis : Mixed(g, config.limit.dimensions)
        BY <1>11 DEF RefuseGrouped, Return
    <2>3. k = N BY <1>5, <2>1
    <2>4. CASE result' \in {"malformed", "reserved"} BY <1>6, <2>1, <2>4, Closed
    <2>5. CASE result' = "mixed" /\ \E g \in ByBasis : Mixed(g, config.limit.dimensions)
        <3>1. PICK g \in ByBasis : Mixed(g, config.limit.dimensions) BY <2>5
        <3>2. PICK i \in 1..N : g = {s \in values : s.basis = Bases[i]} BY BasesFacts DEF ByBasis
        <3> DEFINE q == CostQuery(i, w)
        <3>3. g = Unlimited(q) BY <1>5, <2>3, <3>2, WindowParts
        <3>4. q \in Asked BY CostAsked
        <3>5. LimitOf(q) = config.limit.dimensions BY DEF LimitOf, CostQuery
        <3> HIDE DEF q
        <3>6. Cardinality(Unlimited(q)) > LimitOf(q) /\ ~OneCurrency(Unlimited(q))
            BY <3>1, <3>3, <3>5 DEF Mixed, OneCurrency
        <3>7. q \in Asked' /\ Cardinality(Unlimited(q)') > LimitOf(q)' /\ ~OneCurrency(Unlimited(q)')
            BY <2>1, <3>4, <3>6, InputsFrame
        <3>8. RefusedForCause' BY <2>5, <3>7 DEF RefusedForCause
        <3>9. collector' # NoCollector /\ ~Collected'
            BY <1>6, <2>1, <2>5 DEF inputs, NoCollector, Collectors, Grouped, Collected
        <3> QED BY <2>5, <3>8, <3>9 DEF CostInv
    <2> QED BY <2>2, <2>4, <2>5
<1> QED BY <1>2, <1>7, <1>8, <1>9, <1>10, <1>11

-----------------------------------------------------------------------------
(* The tag collector: its plan. *)

\* A product grows with its factor.
LEMMA Times ==
    ASSUME NEW m \in Nat, NEW x \in Nat, NEW y \in Nat, x <= y
    PROVE  m * x <= m * y /\ m * x \in Nat /\ m * y \in Nat
<1>1. m * (y - x) \in Nat /\ m * y = m * x + m * (y - x) /\ m * x \in Nat OBVIOUS
<1> QED BY <1>1

\* Division with remainder.
LEMMA Division ==
    ASSUME NEW a \in Nat, NEW m \in Nat \ {0}
    PROVE  a \div m \in Nat /\ a % m \in 0..(m - 1) /\ a = m * (a \div m) + (a % m)
OBVIOUS

\* There is one quotient and one remainder.
LEMMA DivisionUnique ==
    ASSUME NEW m \in Nat \ {0}, NEW x \in Nat, NEW y \in 0..(m - 1), NEW u \in Nat, NEW v \in 0..(m - 1),
           m * x + y = m * u + v
    PROVE  x = u /\ y = v
<1>1. m * x \in Nat /\ m * u \in Nat /\ m * (x + 1) = m * x + m /\ m * (u + 1) = m * u + m OBVIOUS
<1>2. CASE x < u
    <2>1. m * (x + 1) <= m * u BY <1>2, Times
    <2> QED BY <1>1, <2>1
<1>3. CASE u < x
    <2>1. m * (u + 1) <= m * x BY <1>3, Times
    <2> QED BY <1>1, <2>1
<1>4. CASE x = u BY <1>1, <1>4
<1> QED BY <1>2, <1>3, <1>4

\* Numbers below m * n are pairs of a quotient below n and a remainder below m.
LEMMA DivisionBelow ==
    ASSUME NEW m \in Nat \ {0}, NEW n \in Nat \ {0}
    PROVE  /\ m * n \in Nat
           /\ \A a \in 0..(m * n - 1) : a \div m \in 0..(n - 1) /\ a % m \in 0..(m - 1)
           /\ \A x \in 0..(n - 1), y \in 0..(m - 1) :
                 /\ m * x + y \in 0..(m * n - 1)
                 /\ (m * x + y) \div m = x /\ (m * x + y) % m = y
<1>1. m * n \in Nat OBVIOUS
<1>2. ASSUME NEW a \in 0..(m * n - 1) PROVE a \div m \in 0..(n - 1) /\ a % m \in 0..(m - 1)
    <2> DEFINE x == a \div m
    <2>1. a \in Nat /\ a < m * n BY <1>1
    <2>2. x \in Nat /\ a % m \in 0..(m - 1) /\ a = m * x + (a % m) BY <2>1, Division
    <2> HIDE DEF x
    <2>3. CASE n <= x
        <3>1. m * n <= m * x /\ m * x \in Nat BY <2>2, <2>3, Times
        <3> QED BY <1>1, <2>1, <2>2, <3>1
    <2>4. CASE x < n BY <2>2, <2>4 DEF x
    <2> QED BY <2>2, <2>3, <2>4
<1>3. ASSUME NEW x \in 0..(n - 1), NEW y \in 0..(m - 1)
      PROVE  m * x + y \in 0..(m * n - 1) /\ (m * x + y) \div m = x /\ (m * x + y) % m = y
    <2> DEFINE a == m * x + y
    <2>1. x \in Nat /\ x + 1 \in Nat /\ x + 1 <= n /\ m * x \in Nat /\ m * (x + 1) = m * x + m OBVIOUS
    <2>2. m * (x + 1) <= m * n BY <2>1, Times
    <2>3. a \in 0..(m * n - 1) /\ a \in Nat BY <1>1, <2>1, <2>2
    <2>4. a \div m \in Nat /\ a % m \in 0..(m - 1) /\ a = m * (a \div m) + (a % m) BY <2>3, Division
    <2>5. a \div m = x /\ a % m = y
        <3> DEFINE u == a \div m
                   v == a % m
        <3>1. m * x + y = m * u + v /\ u \in Nat /\ v \in 0..(m - 1) BY <2>4
        <3> HIDE DEF u, v
        <3>2. x = u /\ y = v BY <2>1, <3>1, DivisionUnique
        <3> QED BY <3>2 DEF u, v
    <2> QED BY <2>3, <2>5
<1> QED BY <1>1, <1>2, <1>3

\* What validation says of the tag keys.
LEMMA KeysFacts ==
    ASSUME Context, "tags" \in config.target.integrations
    PROVE  LET keys == config.target.keys
           IN  /\ Len(keys) \in Nat \ {0} /\ DOMAIN keys = 1..Len(keys)
               /\ \A i, j \in 1..Len(keys) : keys[i] = keys[j] => i = j
               /\ Range(keys) = {keys[i] : i \in 1..Len(keys)}
               /\ Range(keys) \subseteq TagKeys
<1> DEFINE keys == config.target.keys
<1>1. keys \in Seq(STRING) BY DEF Context, TargetConfig
<1>2. keys # <<>> /\ Range(keys) \subseteq TagKeys /\ IsInjective(keys)
    BY DEF Context, validateTags, Enabled
<1>3. Len(keys) \in Nat /\ DOMAIN keys = 1..Len(keys) /\ Len(keys) # 0 BY <1>1, <1>2
<1> HIDE DEF keys
<1>4. Range(keys) = {keys[i] : i \in 1..Len(keys)} BY <1>3 DEF Range
<1>5. \A i, j \in 1..Len(keys) : keys[i] = keys[j] => i = j BY <1>2, <1>3 DEF IsInjective
<1> QED BY <1>2, <1>3, <1>4, <1>5 DEF keys

\* A query for tags by its basis, its key and its window.
TagQuery(x, y, w) == [basis |-> Bases[x + 1], window |-> w, tagKey |-> config.target.keys[y + 1]]

\* The plan of the tag collector asks every query, and each once.
LEMMA TagPlan ==
    ASSUME Context, collector = "tags"
    PROVE  /\ Len(Plan) \in Nat
           /\ \A i \in 1..Len(Plan) : Plan[i] \in Asked
           /\ \A i, j \in 1..Len(Plan) : Plan[i] = Plan[j] => i = j
           /\ \A q \in Asked : \E i \in 1..Len(Plan) : q = Plan[i]
<1> DEFINE keys == config.target.keys
           m == Len(keys)
           F == [i \in 1..(2 * m * N) |->
                   [basis  |-> Bases[(((i - 1) \div 2) \div m) + 1],
                    window |-> IF i % 2 = 1 THEN "daily" ELSE "mtd",
                    tagKey |-> keys[(((i - 1) \div 2) % m) + 1]]]
           P == m * N
           Half(i) == (i - 1) \div 2
<1>1. Plan = F BY Zenon DEF Plan, N
<1>2. "tags" \in config.target.integrations BY DEF Context
<1>3. /\ m \in Nat \ {0} /\ DOMAIN keys = 1..m
      /\ \A i, j \in 1..m : keys[i] = keys[j] => i = j
      /\ Range(keys) = {keys[i] : i \in 1..m} /\ Range(keys) \subseteq TagKeys
    BY <1>2, KeysFacts
<1>4. N \in Nat \ {0} BY BasesFacts
<1> HIDE DEF m
<1>5. P \in Nat /\ 2 * m * N = 2 * P BY <1>3, <1>4
<1>6. /\ \A a \in 0..(P - 1) : a \div m \in 0..(N - 1) /\ a % m \in 0..(m - 1)
      /\ \A x \in 0..(N - 1), y \in 0..(m - 1) :
            /\ m * x + y \in 0..(P - 1)
            /\ (m * x + y) \div m = x /\ (m * x + y) % m = y
    BY <1>3, <1>4, DivisionBelow
<1>7. \A a \in 0..(P - 1) : a = m * (a \div m) + (a % m)
    <2> SUFFICES ASSUME NEW a \in 0..(P - 1) PROVE a = m * (a \div m) + (a % m) OBVIOUS
    <2>1. a \in Nat BY <1>5
    <2> QED BY <1>3, <2>1, Division
<1> HIDE DEF P
<1>8. Len(F) = 2 * P /\ 2 * P \in Nat
    <2>1. 2 * m * N \in Nat BY <1>5
    <2> QED BY <1>5, <2>1
<1>9. ASSUME NEW i \in 1..(2 * P)
      PROVE  /\ Half(i) \in 0..(P - 1)
             /\ F[i] = TagQuery(Half(i) \div m, Half(i) % m, IF i % 2 = 1 THEN "daily" ELSE "mtd")
    <2>1. Half(i) \in 0..(P - 1) BY <1>5
    <2>2. i \in 1..(2 * m * N) BY <1>5
    <2> QED BY <2>1, <2>2 DEF TagQuery
<1>10. \A a \in 0..(P - 1) : /\ 2 * a + 1 \in 1..(2 * P) /\ 2 * a + 2 \in 1..(2 * P)
                             /\ Half(2 * a + 1) = a /\ Half(2 * a + 2) = a
                             /\ (2 * a + 1) % 2 = 1 /\ (2 * a + 2) % 2 # 1
    BY <1>5
<1>11. \A i, j \in 1..(2 * P) : Half(i) = Half(j) /\ (i % 2 = 1 <=> j % 2 = 1) => i = j
    BY <1>5
<1> HIDE DEF F, Half
<1>12. ASSUME NEW i \in 1..(2 * P) PROVE F[i] \in Asked
    <2> DEFINE x == Half(i) \div m
               y == Half(i) % m
               w == IF i % 2 = 1 THEN "daily" ELSE "mtd"
    <2>1. x \in 0..(N - 1) /\ y \in 0..(m - 1) BY <1>6, <1>9
    <2>2. w \in Windows BY DEF Windows
    <2>3. F[i] = TagQuery(x, y, w) BY <1>9
    <2> HIDE DEF x, y, w
    <2>4. x + 1 \in 1..N /\ y + 1 \in 1..m BY <1>3, <1>4, <2>1
    <2>5. Bases[x + 1] \in Range(Bases) BY <2>4, BasesFacts
    <2>6. keys[y + 1] \in Range(keys) /\ keys[y + 1] \in TagKeys BY <1>3, <2>4
    <2>7. TagQuery(x, y, w) \in Queries BY <2>2, <2>5, <2>6 DEF TagQuery, Queries
    <2>8. TagQuery(x, y, w).tagKey \in Range(config.target.keys) BY <2>6 DEF TagQuery
    <2> QED BY <2>3, <2>7, <2>8 DEF Asked
<1>13. ASSUME NEW i \in 1..(2 * P), NEW j \in 1..(2 * P), F[i] = F[j] PROVE i = j
    <2> DEFINE a == Half(i)
               b == Half(j)
               x == a \div m
               y == a % m
               u == b \div m
               v == b % m
               w == IF i % 2 = 1 THEN "daily" ELSE "mtd"
               z == IF j % 2 = 1 THEN "daily" ELSE "mtd"
    <2>1. a \in 0..(P - 1) /\ b \in 0..(P - 1) BY <1>9
    <2>2. x \in 0..(N - 1) /\ y \in 0..(m - 1) /\ u \in 0..(N - 1) /\ v \in 0..(m - 1) BY <1>6, <2>1
    <2>3. a = m * x + y /\ b = m * u + v BY <1>7, <2>1
    <2>4. TagQuery(x, y, w) = TagQuery(u, v, z) BY <1>9, <1>13
    <2>5. w = z <=> (i % 2 = 1 <=> j % 2 = 1) OBVIOUS
    <2> HIDE DEF a, b, x, y, u, v, w, z
    <2>6. Bases[x + 1] = Bases[u + 1] /\ keys[y + 1] = keys[v + 1] /\ w = z BY <2>4 DEF TagQuery
    <2>7. x + 1 \in 1..N /\ u + 1 \in 1..N /\ y + 1 \in 1..m /\ v + 1 \in 1..m BY <1>3, <1>4, <2>2
    <2>8. x + 1 = u + 1 BY <2>6, <2>7, BasesFacts
    <2>9. y + 1 = v + 1 BY <1>3, <2>6, <2>7
    <2>10. x = u /\ y = v BY <2>2, <2>8, <2>9
    <2>11. a = b BY <2>3, <2>10
    <2> QED BY <1>11, <2>5, <2>6, <2>11 DEF a, b
<1>14. ASSUME NEW q \in Asked PROVE \E i \in 1..(2 * P) : q = F[i]
    <2>1. q \in Queries /\ q.tagKey \in Range(keys) BY DEF Asked
    <2>2. q.basis \in Range(Bases) /\ q.window \in Windows BY <2>1 DEF Queries
    <2>3. PICK k \in 1..N : q.basis = Bases[k] BY <2>2, BasesFacts
    <2>4. PICK l \in 1..m : q.tagKey = keys[l] BY <1>3, <2>1
    <2> DEFINE x == k - 1
               y == l - 1
               a == m * x + y
               i == IF q.window = "daily" THEN 2 * a + 1 ELSE 2 * a + 2
    <2>5. x \in 0..(N - 1) /\ y \in 0..(m - 1) /\ x + 1 = k /\ y + 1 = l BY <1>3, <1>4
    <2>6. a \in 0..(P - 1) /\ a \div m = x /\ a % m = y BY <1>6, <2>5
    <2>7. q = TagQuery(x, y, q.window) BY <2>1, <2>3, <2>4, <2>5 DEF Queries, TagQuery
    <2> HIDE DEF x, y, a
    <2>8. i \in 1..(2 * P) /\ Half(i) = a /\ (i % 2 = 1 <=> q.window = "daily") BY <1>10, <2>6
    <2> HIDE DEF i
    <2>9. F[i] = TagQuery(x, y, IF i % 2 = 1 THEN "daily" ELSE "mtd") BY <1>9, <2>6, <2>8
    <2>10. q.window = IF i % 2 = 1 THEN "daily" ELSE "mtd" BY <2>2, <2>8 DEF Windows
    <2> QED BY <2>7, <2>8, <2>9, <2>10
<1> QED BY <1>1, <1>8, <1>12, <1>13, <1>14

-----------------------------------------------------------------------------
(* How many series there are. *)

\* Sums of natural numbers.
LEMMA SumNat ==
    ASSUME NEW f, NEW K, IsFiniteSet(K), \A k \in K : f[k] \in Nat
    PROVE  SumFunctionOnSet(f, K) \in Nat
<1> DEFINE G == {L \in SUBSET K : SumFunctionOnSet(f, L) \in Nat}
<1>1. ASSUME NEW s \in SUBSET K, \A t \in SUBSET s : t # s => t \in G PROVE s \in G
    <2>1. IsFiniteSet(s) /\ \A k \in s : f[k] \in Int BY FS_Subset
    <2>2. CASE s = {}
        <3>1. SumFunctionOnSet(f, {}) = 0 BY SumPick
        <3>2. 0 \in Nat OBVIOUS
        <3> QED BY <2>2, <3>1, <3>2, Zenon
    <2>3. CASE s # {}
        <3>1. PICK k \in s : TRUE BY <2>3
        <3>2. SumFunctionOnSet(f, s) = f[k] + SumFunctionOnSet(f, s \ {k}) BY <2>1, SumRemove
        <3>3. s \ {k} \in G BY <1>1, <3>1
        <3> QED BY <3>2, <3>3
    <2> QED BY <2>2, <2>3
<1>2. K \in G
    <2> HIDE DEF G
    <2>1. \A s \in SUBSET K : (\A t \in SUBSET s : t # s => t \in G) => s \in G BY <1>1
    <2>2. \A s \in SUBSET K : s \in G BY <2>1, SubsetInduction, Zenon
    <2> QED BY <2>2
<1> QED BY <1>2

\* A set in parts: its size is at most the sum of what bounds them.
LEMMA PartsSum ==
    ASSUME NEW C, IsFiniteSet(C), NEW K, IsFiniteSet(K), NEW lab, \A s \in C : lab[s] \in K,
           NEW f, NEW d \in Nat,
           \A k \in K : f[k] \in Nat, \A k \in K : Cardinality({s \in C : lab[s] = k}) <= f[k] * d
    PROVE  SumFunctionOnSet(f, K) \in Nat /\ Cardinality(C) <= SumFunctionOnSet(f, K) * d
<1> DEFINE Over(L) == {s \in C : lab[s] \in L}
           Z(L) == SumFunctionOnSet(f, L)
           G == {L \in SUBSET K : Cardinality(Over(L)) <= Z(L) * d}
<1>a. \A k \in K : f[k] \in Int OBVIOUS
<1>0. \A D \in SUBSET C : IsFiniteSet(D) /\ Cardinality(D) \in Nat BY FS_Subset, FS_CardinalityType
<1>1. \A L \in SUBSET K : IsFiniteSet(L) /\ Z(L) \in Nat
    <2> SUFFICES ASSUME NEW L \in SUBSET K PROVE IsFiniteSet(L) /\ Z(L) \in Nat OBVIOUS
    <2>1. IsFiniteSet(L) /\ \A k \in L : f[k] \in Nat BY FS_Subset
    <2> QED BY <2>1, SumNat
<1>2. ASSUME NEW L \in SUBSET K, \A t \in SUBSET L : t # L => t \in G PROVE L \in G
    <2>1. CASE L = {}
        <3>1. Over(L) = {} BY <2>1
        <3>2. Z(L) = 0 BY <2>1, <1>1, SumPick
        <3>3. Cardinality(Over(L)) = 0 BY <3>1, FS_EmptySet
        <3>4. 0 * d = 0 OBVIOUS
        <3> HIDE DEF Over, Z
        <3> QED BY <3>2, <3>3, <3>4
    <2>2. CASE L # {}
        <3>1. PICK k \in L : TRUE BY <2>2
        <3> DEFINE R == L \ {k}
                   A == {s \in C : lab[s] = k}
        <3>2. R \in G BY <1>2, <3>1
        <3>3. Over(L) = A \cup Over(R) /\ A \cap Over(R) = {}
            <4>1. \A s \in C : lab[s] \in L <=> lab[s] = k \/ lab[s] \in R BY <3>1
            <4>2. k \notin R OBVIOUS
            <4> HIDE DEF R
            <4> QED BY <4>1, <4>2
        <3>4. Z(L) = f[k] + Z(R)
            <4>1. IsFiniteSet(L) BY <1>1
            <4>2. \A x \in L : f[x] \in Int
                <5> HIDE DEF G, Over, Z, R, A
                <5> QED BY <1>a
            <4> QED BY <4>1, <4>2, <3>1, SumRemove
        <3>5. A \in SUBSET C /\ Over(R) \in SUBSET C /\ R \in SUBSET K OBVIOUS
        <3>6. Cardinality(Over(R)) <= Z(R) * d BY <3>2
        <3>7. f[k] \in Nat /\ Cardinality(A) <= f[k] * d BY <3>1
        <3> HIDE DEF R, A, Over, Z
        <3>8. /\ IsFiniteSet(A) /\ IsFiniteSet(Over(R)) /\ Cardinality(A) \in Nat /\ Cardinality(Over(R)) \in Nat
              /\ Z(R) \in Nat
            BY <1>0, <1>1, <3>5
        <3>9. Cardinality(Over(L)) = Cardinality(A) + Cardinality(Over(R))
            <4>1. Cardinality(A \cup Over(R)) = Cardinality(A) + Cardinality(Over(R)) - Cardinality({})
                BY <3>3, <3>8, FS_Union
            <4>2. Cardinality({}) = 0 BY FS_EmptySet
            <4> QED BY <3>3, <3>8, <4>1, <4>2
        <3>10. (f[k] + Z(R)) * d = f[k] * d + Z(R) * d /\ f[k] * d \in Nat /\ Z(R) * d \in Nat BY <3>7, <3>8
        <3>11. Cardinality(Over(L)) <= Z(L) * d BY <3>4, <3>6, <3>7, <3>8, <3>9, <3>10
        <3> QED BY <3>11
    <2> QED BY <2>1, <2>2
<1>3. K \in G
    <2> HIDE DEF G
    <2>1. \A s \in SUBSET K : (\A t \in SUBSET s : t # s => t \in G) => s \in G BY <1>2
    <2>2. \A s \in SUBSET K : s \in G BY <2>1, SubsetInduction, Zenon
    <2> QED BY <2>2
<1>4. Over(K) = C OBVIOUS
<1> QED BY <1>1, <1>3, <1>4

\* Parts of the same bound.
LEMMA PartsCount ==
    ASSUME NEW C, IsFiniteSet(C), NEW K, IsFiniteSet(K), NEW lab, \A s \in C : lab[s] \in K, NEW d \in Nat,
           \A k \in K : Cardinality({s \in C : lab[s] = k}) <= d
    PROVE  Cardinality(C) \in Nat /\ Cardinality(C) <= Cardinality(K) * d
<1> DEFINE f == [k \in K |-> 1]
           Z == SumFunctionOnSet(f, K)
<1>1. \A k \in K : f[k] = 1 OBVIOUS
<1> HIDE DEF f
<1>2. Cardinality(K) \in Nat /\ Cardinality(C) \in Nat BY FS_CardinalityType
<1>3. Z \in Nat /\ Z <= 1 * Cardinality(K) BY <1>1, SumBounded
<1>4. /\ \A k \in K : f[k] \in Nat
      /\ \A k \in K : Cardinality({s \in C : lab[s] = k}) <= f[k] * d
    BY <1>1
<1>5. Cardinality(C) <= Z * d BY <1>4, PartsSum
<1> HIDE DEF Z
<1>6. d * Z <= d * Cardinality(K) /\ d * Z = Z * d /\ d * Cardinality(K) = Cardinality(K) * d
      /\ Z * d \in Nat /\ Cardinality(K) * d \in Nat
    BY <1>2, <1>3, Times
<1> QED BY <1>2, <1>5, <1>6

\* Both windows of all bases.
LEMMA WindowsCount ==
    /\ IsFiniteSet(Range(Bases) \X Windows)
    /\ Cardinality(Range(Bases) \X Windows) = N * 2
<1>1. Lists(Bases, Range(Bases))
    <2>1. Bases \in Seq(Range(Bases)) /\ IsInjective(Bases) BY CollectionAssumption DEF Range
    <2> QED BY <2>1 DEF Lists
<1>2. IsFiniteSet(Range(Bases)) /\ Cardinality(Range(Bases)) = N BY <1>1, ListLength DEF N
<1>3. IsFiniteSet(Windows) /\ Cardinality(Windows) = 2
    <2>1. IsFiniteSet({"daily"}) /\ Cardinality({"daily"}) = 1 BY FS_Singleton
    <2>2. IsFiniteSet({"daily"} \cup {"mtd"}) /\ Cardinality({"daily"} \cup {"mtd"}) = 1 + 1
        BY <2>1, FS_AddElement
    <2>3. Windows = {"daily"} \cup {"mtd"} BY DEF Windows
    <2> QED BY <2>2, <2>3
<1> HIDE DEF N
<1> QED BY <1>2, <1>3, FS_Product

\* The series of one tag key, or of none: so many of each query.
LEMMA QueriesCount ==
    ASSUME NEW C, IsFiniteSet(C), NEW d \in Nat,
           \A s \in C : s.basis \in Range(Bases) /\ s.window \in Windows,
           \A b \in Range(Bases), w \in Windows : Cardinality({s \in C : s.basis = b /\ s.window = w}) <= d
    PROVE  Cardinality(C) \in Nat /\ Cardinality(C) <= (N * 2) * d
<1> DEFINE lab == [s \in C |-> <<s.basis, s.window>>]
           K == Range(Bases) \X Windows
<1>1. \A s \in C : lab[s] \in K OBVIOUS
<1>2. ASSUME NEW k \in K PROVE Cardinality({s \in C : lab[s] = k}) <= d
    <2>1. k[1] \in Range(Bases) /\ k[2] \in Windows /\ k = <<k[1], k[2]>> OBVIOUS
    <2>2. {s \in C : lab[s] = k} = {s \in C : s.basis = k[1] /\ s.window = k[2]} BY <2>1
    <2> HIDE DEF lab, K
    <2> QED BY <2>1, <2>2
<1>3. IsFiniteSet(K) /\ Cardinality(K) = N * 2 BY WindowsCount
<1> HIDE DEF lab, K
<1>4. Cardinality(C) \in Nat /\ Cardinality(C) <= Cardinality(K) * d BY <1>1, <1>2, <1>3, PartsCount
<1> QED BY <1>3, <1>4

\* The budget of validation holds that many series of each key.
LEMMA TagBudget ==
    ASSUME Context, "tags" \in config.target.integrations, NEW C, IsFiniteSet(C), NEW c \in Nat,
           \A s \in C : s.basis \in Range(Bases) /\ s.window \in Windows /\ s.tagKey \in Range(config.target.keys),
           \A k \in Range(config.target.keys), b \in Range(Bases), w \in Windows :
               Cardinality({s \in C : s.basis = b /\ s.window = w /\ s.tagKey = k}) <= MaxValues[k] * c
    PROVE  Cardinality(C) \in Nat /\ Cardinality(C) <= tagSeriesBudget(config.target, c)
<1> DEFINE K == Range(config.target.keys)
           lab == [s \in C |-> s.tagKey]
           d == (N * 2) * c
           Z == SumFunctionOnSet(MaxValues, K)
<1>1. IsFiniteSet(K) /\ K \subseteq TagKeys
    <2>1. /\ Len(config.target.keys) \in Nat /\ K \subseteq TagKeys
          /\ K = {config.target.keys[i] : i \in 1..Len(config.target.keys)}
        BY KeysFacts
    <2>2. IsFiniteSet(1..Len(config.target.keys)) BY <2>1, FS_Interval
    <2> DEFINE f == [i \in 1..Len(config.target.keys) |-> config.target.keys[i]]
    <2>3. \A k \in K : \E i \in 1..Len(config.target.keys) : k = f[i] BY <2>1
    <2> HIDE DEF f, K
    <2>4. IsFiniteSet(K) BY <2>2, <2>3, ImageFinite
    <2> QED BY <2>1, <2>4
<1>2. \A s \in C : lab[s] \in K /\ lab[s] = s.tagKey OBVIOUS
<1>3. N \in Nat /\ d \in Nat BY BasesFacts
<1> HIDE DEF K, lab
<1>4. ASSUME NEW k \in K PROVE MaxValues[k] \in Nat /\ Cardinality({s \in C : lab[s] = k}) <= MaxValues[k] * d
    <2> DEFINE D == {s \in C : lab[s] = k}
               e == MaxValues[k] * c
    <2>1. MaxValues[k] \in Nat BY <1>1, CollectionAssumption
    <2>2. e \in Nat BY <2>1
    <2>3. IsFiniteSet(D) BY FS_Subset
    <2>4. \A s \in D : s.basis \in Range(Bases) /\ s.window \in Windows OBVIOUS
    <2>5. ASSUME NEW b \in Range(Bases), NEW w \in Windows
          PROVE  Cardinality({s \in D : s.basis = b /\ s.window = w}) <= e
        <3>1. {s \in D : s.basis = b /\ s.window = w} = {s \in C : s.basis = b /\ s.window = w /\ s.tagKey = k}
            BY <1>2
        <3>2. k \in Range(config.target.keys) BY DEF K
        <3> QED BY <3>1, <3>2
    <2> HIDE DEF D, e
    <2>6. Cardinality(D) <= (N * 2) * e BY <2>2, <2>3, <2>4, <2>5, QueriesCount
    <2>7. (N * 2) * e = MaxValues[k] * d BY <1>3, <2>1 DEF e
    <2> QED BY <2>1, <2>6, <2>7 DEF D
<1> HIDE DEF d
<1>5. Z \in Nat /\ Cardinality(C) <= Z * d BY <1>1, <1>2, <1>3, <1>4, PartsSum
<1>6. Cardinality(C) \in Nat BY FS_CardinalityType
<1>7. tagSeriesBudget(config.target, c) = Z * 2 * N * c BY DEF tagSeriesBudget, K, N
<1> HIDE DEF Z
<1>8. Z * 2 * N * c = Z * d BY <1>3, <1>5 DEF d
<1> QED BY <1>5, <1>6, <1>7, <1>8

-----------------------------------------------------------------------------
(* The tag collector and CUR: how many series they return. *)

\* Without tags a query of CUR has one series of every currency.
LEMMA RowsUnique ==
    ASSUME Context, collector = "cur", NEW q \in Asked, q.tagKey = NoKey,
           NEW r \in Unlimited(q), NEW s \in Unlimited(q), r.currency = s.currency
    PROVE  r = s
<1>1. ASSUME NEW x \in Unlimited(q) PROVE x.value = Blank
    <2>1. PICK l \in Billed(TableOf(q), q) : x = CurRow(TableOf(q), q, l) BY CurUnlimited
    <2>2. x = Series(q, TagValue(l, q.tagKey), l.currency, x.amount, <<0, "sum">>) BY <2>1, CurRowFields
    <2> QED BY <2>2, SeriesFields DEF TagValue
<1> QED BY <1>1, UnlimitedUnique

\* The currencies of a query are finitely many.
LEMMA CurrenciesFinite ==
    ASSUME NEW S, IsFiniteSet(S)
    PROVE  IsFiniteSet(Currencies(S)) /\ Cardinality(Currencies(S)) \in Nat
<1> DEFINE f == [s \in S |-> s.currency]
<1>1. \A y \in Currencies(S) : \E x \in S : y = f[x] BY DEF Currencies
<1> HIDE DEF f
<1> QED BY <1>1, ImageFinite

\* How many series one query of CUR exports for each currency.
Share(q) == IF q.tagKey = NoKey THEN 1 ELSE LimitOf(q)

\* A finished query of tags or CUR has no more series than its limit, for every
\* currency that AWS reports.
LEMMA FinishedCount ==
    ASSUME Context, collector \in {"tags", "cur"}, NEW q \in Asked, NEW S, Finished(q, S)
    PROVE  /\ IsFiniteSet(S) /\ Currencies(S) \subseteq Currencies(Unlimited(q))
           /\ IsFiniteSet(Currencies(Unlimited(q))) /\ Cardinality(Currencies(Unlimited(q))) \in Nat
           /\ collector = "tags" => Cardinality(S) <= LimitOf(q)
           /\ collector = "cur" => Cardinality(S) <= Cardinality(Currencies(Unlimited(q))) * Share(q)
<1> DEFINE U == Unlimited(q)
           K == Currencies(U)
<1>1. Mapped(q, U) BY UnlimitedLabels
<1>2. IsFiniteSet(U) BY <1>1 DEF Mapped, Amounts
<1>3. IsFiniteSet(K) /\ Cardinality(K) \in Nat BY <1>2, CurrenciesFinite
<1>4. LimitOf(q) \in Nat \ {0} BY LimitTyped DEF Asked
<1>5. CASE collector = "tags"
    <2>1. S \in limitDimensionGroup(U, LimitOf(q)) BY <1>5 DEF Finished
    <2> HIDE DEF U
    <2>2. Amounts(S) /\ Cardinality(S) <= LimitOf(q) /\ Currencies(S) \subseteq K
        BY <1>1, <1>4, <2>1, LimitBounds
    <2> QED BY <1>3, <1>5, <2>2 DEF Amounts, U
<1>6. CASE collector = "cur"
    <2> DEFINE lab == [s \in S |-> s.currency]
    <2>1. IsFiniteSet(S) /\ Currencies(S) \subseteq K /\ \A c \in K : Cardinality(OfCurrency(S, c)) <= Share(q)
        <3>1. CASE q.tagKey = NoKey
            <4>1. S = U BY <1>6, <3>1 DEF Finished
            <4>2. ASSUME NEW c \in K PROVE Cardinality(OfCurrency(S, c)) <= 1
                <5>1. PICK x \in U : x.currency = c BY DEF Currencies
                <5>2. \A y \in U : y.currency = c => y = x BY <1>6, <3>1, <5>1, RowsUnique
                <5>3. OfCurrency(S, c) = {x} BY <4>1, <5>1, <5>2 DEF OfCurrency
                <5> QED BY <5>3, FS_Singleton
            <4>3. Share(q) = 1 BY <3>1 DEF Share
            <4> HIDE DEF U
            <4> QED BY <1>2, <4>1, <4>2, <4>3
        <3>2. CASE q.tagKey # NoKey
            <4>1. \A c \in Currencies(U \cup S) :
                     OfCurrency(S, c) \in limitDimensionGroup(OfCurrency(U, c), LimitOf(q))
                BY <1>6, <3>2, Zenon DEF Finished
            <4>2. Share(q) = LimitOf(q) BY <3>2 DEF Share
            <4> HIDE DEF U
            <4>3. ASSUME NEW c \in Currencies(U \cup S)
                  PROVE  /\ IsFiniteSet(OfCurrency(S, c)) /\ Cardinality(OfCurrency(S, c)) <= LimitOf(q)
                         /\ Currencies(OfCurrency(S, c)) \subseteq Currencies(OfCurrency(U, c))
                <5>1. Mapped(q, OfCurrency(U, c)) BY <1>1, MappedPart DEF OfCurrency
                <5>2. OfCurrency(S, c) \in limitDimensionGroup(OfCurrency(U, c), LimitOf(q)) BY <4>1
                <5> QED BY <1>4, <5>1, <5>2, LimitBounds DEF Amounts
            <4>4. Currencies(S) \subseteq K
                <5> SUFFICES ASSUME NEW s \in S PROVE s.currency \in K BY DEF Currencies
                <5> DEFINE c == s.currency
                <5>1. c \in Currencies(U \cup S) BY DEF Currencies
                <5>2. c \in Currencies(OfCurrency(S, c)) BY DEF Currencies, OfCurrency
                <5>3. c \in Currencies(OfCurrency(U, c)) BY <4>3, <5>1, <5>2
                <5> QED BY <5>3 DEF Currencies, OfCurrency
            <4>5. \A c \in K : c \in Currencies(U \cup S) BY DEF Currencies
            <4>6. IsFiniteSet(S)
                <5> DEFINE g == [c \in K |-> OfCurrency(S, c)]
                           H == {g[c] : c \in K}
                <5>1. \A c \in K : g[c] = OfCurrency(S, c) OBVIOUS
                <5>2. \A h \in H : \E c \in K : h = g[c] OBVIOUS
                <5>3. IsFiniteSet(H)
                    <6> HIDE DEF g, H, K
                    <6> QED BY <1>3, <5>2, ImageFinite
                <5>4. \A h \in H : IsFiniteSet(h) BY <4>3, <4>5, <5>1
                <5>5. S = UNION H
                    <6>1. \A s \in S : s.currency \in K /\ s \in OfCurrency(S, s.currency)
                        BY <4>4 DEF Currencies, OfCurrency
                    <6>2. \A c : OfCurrency(S, c) \subseteq S BY DEF OfCurrency
                    <6> HIDE DEF K
                    <6> QED BY <5>1, <6>1, <6>2
                <5> HIDE DEF H
                <5> QED BY <5>3, <5>4, <5>5, FS_UNION
            <4> HIDE DEF K
            <4> QED BY <4>2, <4>3, <4>4, <4>5, <4>6
        <3> QED BY <3>1, <3>2
    <2>2. \A s \in S : lab[s] \in K /\ lab[s] = s.currency BY <2>1 DEF Currencies
    <2>3. \A c \in K : Cardinality({s \in S : lab[s] = c}) <= Share(q)
        <3>1. \A c \in K : {s \in S : lab[s] = c} = OfCurrency(S, c) BY <2>2 DEF OfCurrency
        <3> HIDE DEF lab
        <3> QED BY <2>1, <3>1
    <2>4. Share(q) \in Nat BY <1>4 DEF Share
    <2> HIDE DEF lab, K
    <2>5. Cardinality(S) <= Cardinality(K) * Share(q) BY <1>3, <2>1, <2>2, <2>3, <2>4, PartsCount
    <2> QED BY <1>3, <1>6, <2>1, <2>5 DEF K
<1> QED BY <1>5, <1>6

\* Finitely many queries are asked.
LEMMA AskedFinite ==
    ASSUME Context
    PROVE  IsFiniteSet(Asked)
<1> DEFINE keys == config.target.keys
           K == Range(keys) \cup {NoKey}
           P == (Range(Bases) \X Windows) \X K
           f == [x \in P |-> [basis |-> x[1][1], window |-> x[1][2], tagKey |-> x[2]]]
<1>1. IsFiniteSet(Range(keys))
    <2>1. keys \in Seq(STRING) BY DEF Context, TargetConfig
    <2>2. Len(keys) \in Nat /\ DOMAIN keys = 1..Len(keys) BY <2>1
    <2>3. IsFiniteSet(1..Len(keys)) BY <2>2, FS_Interval
    <2> HIDE DEF keys
    <2>4. \A y \in Range(keys) : \E i \in 1..Len(keys) : y = keys[i] BY <2>2 DEF Range
    <2> QED BY <2>3, <2>4, ImageFinite
<1>2. IsFiniteSet(K) BY <1>1, FS_AddElement
<1>3. IsFiniteSet(P) BY <1>2, WindowsCount, FS_Product
<1>4. ASSUME NEW q \in Asked PROVE \E x \in P : q = f[x]
    <2>1. q \in Queries /\ q.tagKey \in K BY DEF Asked
    <2>2. /\ q.basis \in Range(Bases) /\ q.window \in Windows
          /\ q = [basis |-> q.basis, window |-> q.window, tagKey |-> q.tagKey]
        BY <2>1 DEF Queries
    <2> DEFINE x == <<<<q.basis, q.window>>, q.tagKey>>
    <2>3. x \in P BY <2>1, <2>2
    <2>4. f[x] = [basis |-> q.basis, window |-> q.window, tagKey |-> q.tagKey] BY <2>3
    <2> QED BY <2>2, <2>3, <2>4
<1> HIDE DEF f, P
<1> QED BY <1>3, <1>4, ImageFinite

\* The partial of tags and of CUR is finite.
LEMMA CollectedFinite ==
    ASSUME Context, collector \in {"tags", "cur"}, NEW done, Standing(done)
    PROVE  IsFiniteSet(collected)
<1> DEFINE f == [q \in Asked |-> Exported(q)]
           H == {f[q] : q \in Asked}
<1>1. \A q \in Asked : f[q] = Exported(q) OBVIOUS
<1>2. \A h \in H : \E q \in Asked : h = f[q] OBVIOUS
<1>3. IsFiniteSet(H)
    <2> HIDE DEF f, H
    <2> QED BY <1>2, AskedFinite, ImageFinite
<1>4. ASSUME NEW q \in Asked PROVE IsFiniteSet(Exported(q))
    <2>1. CASE q \in done
        <3>1. Finished(q, Exported(q)) BY <2>1 DEF Standing
        <3> QED BY <3>1, FinishedCount
    <2>2. CASE q \notin done
        <3>1. Exported(q) = {} BY <2>2 DEF Standing
        <3> QED BY <3>1, FS_EmptySet
    <2> QED BY <2>1, <2>2
<1>5. \A h \in H : IsFiniteSet(h) BY <1>1, <1>4
<1>6. collected = UNION H
    <2>1. \A s \in collected : \E q \in Asked : s \in Exported(q) BY DEF Standing
    <2>2. \A q : Exported(q) \subseteq collected BY DEF Exported
    <2> QED BY <1>1, <2>1, <2>2
<1> HIDE DEF H
<1> QED BY <1>3, <1>5, <1>6, FS_UNION

\* A query for a tag has the limit of its key.
LEMMA TagAsked ==
    ASSUME Context, NEW q \in Asked, q.tagKey # NoKey
    PROVE  /\ "tags" \in config.target.integrations /\ q.tagKey \in Range(config.target.keys)
           /\ LimitOf(q) = MaxValues[q.tagKey]
BY DEF Context, Asked, Enabled, LimitOf

\* The tag collector asks for a key in every query.
LEMMA TagsAskKeys ==
    ASSUME Context, collector = "tags", NEW q \in Asked
    PROVE  q.tagKey # NoKey
<1>1. "tags" \in config.target.integrations BY DEF Context
<1>2. q.tagKey \in Range(config.target.keys) BY DEF Asked
<1> QED BY <1>1, <1>2, KeysFacts, CollectionAssumption

\* The queries that share a basis, a window and a tag key.
LEMMA AskedOf ==
    ASSUME NEW b \in Range(Bases), NEW w \in Windows, NEW k \in Range(config.target.keys), k \in TagKeys,
           collector = "tags" \/ (collector = "cur" /\ Enabled(config.target, "tags"))
    PROVE  [basis |-> b, window |-> w, tagKey |-> k] \in Asked
<1> DEFINE q == [basis |-> b, window |-> w, tagKey |-> k]
<1>1. q \in Queries /\ q.tagKey = k BY DEF Queries
<1> HIDE DEF q
<1>2. q \in Asked BY <1>1 DEF Asked
<1> QED BY <1>2 DEF q

\* A budget is a number.
LEMMA BudgetTyped ==
    ASSUME Context, "tags" \in config.target.integrations, NEW c \in Nat
    PROVE  tagSeriesBudget(config.target, c) \in Nat
<1> DEFINE K == Range(config.target.keys)
           Z == SumFunctionOnSet(MaxValues, K)
<1>1. /\ Len(config.target.keys) \in Nat /\ K \subseteq TagKeys
      /\ K = {config.target.keys[i] : i \in 1..Len(config.target.keys)}
    BY KeysFacts
<1>2. IsFiniteSet(1..Len(config.target.keys)) BY <1>1, FS_Interval
<1>3. \A k \in K : \E i \in 1..Len(config.target.keys) : k = config.target.keys[i] BY <1>1
<1>4. \A k \in K : MaxValues[k] \in Nat BY <1>1, CollectionAssumption
<1>5. N \in Nat BY BasesFacts
<1> HIDE DEF K
<1>6. IsFiniteSet(K) BY <1>2, <1>3, ImageFinite
<1>7. Z \in Nat BY <1>4, <1>6, SumNat
<1>8. tagSeriesBudget(config.target, c) = Z * 2 * N * c BY DEF tagSeriesBudget, N, K
<1> HIDE DEF Z
<1> QED BY <1>5, <1>7, <1>8

\* The tag collector never exceeds the limit that validation compared its budget with.
LEMMA TagsFit ==
    ASSUME Context, collector = "tags", Standing(Asked)
    PROVE  Cardinality(collected) \in Nat /\ Cardinality(collected) <= config.limit.tags
<1> DEFINE c == IF Enabled(config.target, "cur") THEN MaxCurrencies ELSE 1
<1>1. c \in Nat \ {0} BY CollectionAssumption
<1>2. "tags" \in config.target.integrations BY DEF Context
<1>3. tagSeriesBudget(config.target, c) <= config.limit.tags BY <1>2 DEF Context, validateTags, Enabled
<1>4. IsFiniteSet(collected) BY CollectedFinite
<1>5. ASSUME NEW s \in collected
      PROVE  s.basis \in Range(Bases) /\ s.window \in Windows /\ s.tagKey \in Range(config.target.keys)
    <2>1. PICK q \in Asked : s \in Exported(q) BY DEF Standing
    <2>2. q \in Queries /\ q.tagKey \in Range(config.target.keys) BY DEF Asked
    <2>3. s.basis = q.basis /\ s.window = q.window /\ s.tagKey = q.tagKey BY <2>1 DEF Exported
    <2> QED BY <2>2, <2>3 DEF Queries
<1> HIDE DEF c
<1>6. ASSUME NEW k \in Range(config.target.keys), NEW b \in Range(Bases), NEW w \in Windows
      PROVE  Cardinality({s \in collected : s.basis = b /\ s.window = w /\ s.tagKey = k}) <= MaxValues[k] * c
    <2> DEFINE q == [basis |-> b, window |-> w, tagKey |-> k]
    <2>1. k \in TagKeys BY <1>2, KeysFacts
    <2>2. q \in Asked BY <2>1, AskedOf
    <2>3. q.basis = b /\ q.window = w /\ q.tagKey = k OBVIOUS
    <2> HIDE DEF q
    <2>4. {s \in collected : s.basis = b /\ s.window = w /\ s.tagKey = k} = Exported(q) BY <2>3 DEF Exported
    <2>5. Finished(q, Exported(q)) BY <2>2 DEF Standing
    <2>6. IsFiniteSet(Exported(q)) /\ Cardinality(Exported(q)) <= LimitOf(q) BY <2>2, <2>5, FinishedCount
    <2>7. LimitOf(q) = MaxValues[k] BY <2>2, <2>3, TagsAskKeys, TagAsked
    <2>8. MaxValues[k] \in Nat BY <2>1, CollectionAssumption
    <2>9. MaxValues[k] * 1 <= MaxValues[k] * c /\ MaxValues[k] * c \in Nat BY <1>1, <2>8, Times
    <2>10. Cardinality(Exported(q)) \in Nat BY <2>6, FS_CardinalityType
    <2>11. Cardinality(Exported(q)) <= MaxValues[k] * c BY <2>6, <2>7, <2>8, <2>9, <2>10
    <2> QED BY <2>4, <2>11
<1>7. Cardinality(collected) \in Nat /\ Cardinality(collected) <= tagSeriesBudget(config.target, c)
    BY <1>1, <1>2, <1>4, <1>5, <1>6, TagBudget
<1>8. tagSeriesBudget(config.target, c) \in Nat BY <1>1, <1>2, BudgetTyped
<1>9. config.limit.tags \in Nat
    <2>1. config.limit["tags"] \in Nat \ {0} BY DEF Context
    <2> QED BY <2>1
<1> QED BY <1>3, <1>7, <1>8, <1>9

\* TagsAt with the set of finished queries named.
LEMMA TagsFacts ==
    TagsAt <=> /\ next \in 1..(Len(Plan) + 1)
               /\ \E done : done = {Plan[i] : i \in 1..(next - 1)} /\ Standing(done)
BY Zenon DEF TagsAt

\* The same of the next state.
LEMMA TagsFactsNext ==
    TagsAt' <=> /\ next' \in 1..(Len(Plan') + 1)
                /\ \E done : done = {Plan'[i] : i \in 1..(next' - 1)} /\ Standing(done)'
BY Zenon DEF TagsAt

\* A refusal as mixed, with the query that has it.
LEMMA MixedCause ==
    ASSUME UNCHANGED inputs, collector \in Collectors, result' = "mixed", NEW q \in Asked,
           Mixed(Unlimited(q), LimitOf(q))
    PROVE  CostInv'
<1>1. Cardinality(Unlimited(q)) > LimitOf(q) /\ ~OneCurrency(Unlimited(q)) BY DEF Mixed, OneCurrency
<1>2. q \in Asked' /\ Cardinality(Unlimited(q)') > LimitOf(q)' /\ ~OneCurrency(Unlimited(q)')
    BY <1>1, InputsFrame
<1>3. RefusedForCause' BY <1>2 DEF RefusedForCause
<1>4. collector' # NoCollector /\ ~Collected'
    BY DEF inputs, NoCollector, Collectors, Grouped, Collected
<1> QED BY <1>3, <1>4 DEF CostInv

\* Every step of the tag collector keeps the invariant (tag/collector.go, Collect).
LEMMA TagsStep ==
    ASSUME Context, CostInv, collector = "tags", CollectCosts
    PROVE  CostInv'
<1>1. collector \in Collectors /\ collector \notin Grouped /\ collector # "total" /\ collector # "cur"
      /\ collector # NoCollector
    BY DEF Collectors, Grouped, NoCollector
<1>2. ReadTagCostsFails \/ ReadTagCosts \/ FinishTags
    BY <1>1 DEF CollectCosts, ReadCostsFails, QueryFails, ReadCosts, AppendTotals, AppendLimited, RefuseGrouped,
                QueryCosts, QueryTagCosts, FinishCUR
<1>3. result = "none" BY <1>2 DEF ReadTagCostsFails, ReadTagCosts, FinishTags
<1>4. TagsAt BY <1>3 DEF CostInv
<1>5. PICK done : done = {Plan[i] : i \in 1..(next - 1)} /\ Standing(done) BY <1>4, TagsFacts
<1>6. next \in 1..(Len(Plan) + 1) BY <1>4, TagsFacts
<1>7. /\ Len(Plan) \in Nat
      /\ \A i \in 1..Len(Plan) : Plan[i] \in Asked
      /\ \A i, j \in 1..Len(Plan) : Plan[i] = Plan[j] => i = j
      /\ \A q \in Asked : \E i \in 1..Len(Plan) : q = Plan[i]
    BY TagPlan
<1>8. CASE ReadTagCostsFails
    <2>1. UNCHANGED inputs /\ result' = "failed" BY <1>8, Zenon DEF ReadTagCostsFails, Return
    <2> QED BY <1>1, <2>1, Closed
<1>9. CASE ReadTagCosts
    <2> DEFINE q == Plan[next]
    <2>1. next \in 1..Len(Plan)
        <3>1. next <= Len(Plan) BY <1>9 DEF ReadTagCosts
        <3> QED BY <1>6, <1>7, <3>1
    <2>2. q \in Asked /\ q \notin done
        <3>1. q \in Asked BY <1>7, <2>1
        <3>2. \A i \in 1..(next - 1) : i \in 1..Len(Plan) /\ i # next BY <1>7, <2>1
        <3>3. \A i \in 1..(next - 1) : Plan[i] # q BY <1>7, <2>1, <3>2
        <3> QED BY <1>5, <3>1, <3>3
    <2>3. Query = q BY DEF Query
    <2> HIDE DEF q
    <2>4. mapTagUsage(q, service.usage[q]) = Unlimited(q) BY DEF Unlimited
    <2>5. q.tagKey # NoKey /\ LimitOf(q) = MaxValues[q.tagKey] BY <2>2, TagsAskKeys, TagAsked
    <2>6. \/ \E bounded \in limitDimensionGroup(Unlimited(q), LimitOf(q)) :
                /\ collected' = collected \cup bounded
                /\ next' = next + 1 /\ UNCHANGED inputs /\ result' = result
          \/ Mixed(Unlimited(q), LimitOf(q)) /\ Return("mixed")
        BY <1>9, <2>3, <2>4, <2>5, Zenon DEF ReadTagCosts, LimitValues
    <2>7. CASE \E bounded \in limitDimensionGroup(Unlimited(q), LimitOf(q)) :
                /\ collected' = collected \cup bounded
                /\ next' = next + 1 /\ UNCHANGED inputs /\ result' = result
        <3>1. PICK bounded \in limitDimensionGroup(Unlimited(q), LimitOf(q)) :
                /\ collected' = collected \cup bounded
                /\ next' = next + 1 /\ UNCHANGED inputs /\ result' = result
            BY <2>7
        <3>2. Mapped(q, Unlimited(q)) BY <2>2, UnlimitedLabels
        <3>3. LimitOf(q) \in Nat \ {0} BY <2>2, LimitTyped DEF Asked
        <3>4. \A s \in bounded : s.basis = q.basis /\ s.window = q.window /\ s.tagKey = q.tagKey
            BY <3>1, <3>2, <3>3, LimitBounds
        <3>5. Of(bounded, q) = bounded BY <3>4 DEF Of
        <3>6. Finished(q, bounded) BY <1>1, <3>1 DEF Finished
        <3>7. PICK more : more = {q} OBVIOUS
        <3>8. more \in SUBSET Asked /\ more \cap done = {} BY <2>2, <3>7
        <3>9. /\ \A s \in bounded : \E p \in more : s \in Of(bounded, p)
              /\ \A p \in more : Finished(p, Of(bounded, p))
            BY <3>5, <3>6, <3>7
        <3>10. Standing(done \cup more)' BY <1>5, <3>1, <3>8, <3>9, StandingGrows
        <3>11. Plan' = Plan /\ collector' = collector BY <3>1, InputsFrame
        <3>12. done \cup more = {Plan[i] : i \in 1..next}
            <4>1. 1..next = (1..(next - 1)) \cup {next} BY <1>7, <2>1
            <4> QED BY <1>5, <3>7, <4>1 DEF q
        <3>13. done \cup more = {Plan'[i] : i \in 1..(next' - 1)}
            <4>1. next' - 1 = next BY <1>7, <2>1, <3>1
            <4> QED BY <3>11, <3>12, <4>1
        <3>14. next' \in 1..(Len(Plan') + 1) BY <1>7, <2>1, <3>1, <3>11
        <3>15. TagsAt' BY <3>10, <3>13, <3>14, TagsFactsNext
        <3>16. result' = "none" BY <1>3, <3>1
        <3>17. RefusedForCause' BY <3>16 DEF RefusedForCause
        <3>18. ~Collected' BY <3>16 DEF Collected
        <3>19. collector' = "tags" /\ collector' \notin Grouped \cup {"total"} /\ collector' # "cur"
               /\ collector' # NoCollector
            BY <1>1, <3>11
        <3> QED BY <3>15, <3>17, <3>18, <3>19 DEF CostInv
    <2>8. CASE Mixed(Unlimited(q), LimitOf(q)) /\ Return("mixed")
        <3>1. UNCHANGED inputs /\ result' = "mixed" BY <2>8, Zenon DEF Return
        <3> QED BY <1>1, <2>2, <2>8, <3>1, MixedCause
    <2> QED BY <2>6, <2>7, <2>8
<1>10. CASE FinishTags
    <2>1. /\ UNCHANGED inputs /\ collected' = collected /\ next > Len(Plan)
          /\ result' = IF Cardinality(collected) > config.limit.tags THEN "series" ELSE "ok"
        BY <1>10, Zenon DEF FinishTags, Return
    <2>2. next = Len(Plan) + 1 BY <1>6, <1>7, <2>1
    <2>3. done = Asked
        <3>1. 1..(next - 1) = 1..Len(Plan) BY <1>7, <2>2
        <3>2. done = {Plan[i] : i \in 1..Len(Plan)} BY <1>5, <3>1
        <3> QED BY <1>7, <3>2
    <2>4. Standing(Asked) BY <1>5, <2>3
    <2>5. ~(Cardinality(collected) > config.limit.tags)
        <3>1. Cardinality(collected) \in Nat /\ Cardinality(collected) <= config.limit.tags BY <2>4, TagsFit
        <3>2. config.limit["tags"] \in Nat \ {0} BY DEF Context
        <3> QED BY <3>1, <3>2
    <2>6. result' = "ok" BY <2>1, <2>5
    <2>7. Standing(Asked)'
        <3>1. Standing(done)' BY <1>5, <2>1, StandingKept
        <3>2. Asked' = done BY <2>1, <2>3, InputsFrame
        <3> QED BY <3>1, <3>2
    <2>8. RefusedForCause' BY <2>6 DEF RefusedForCause
    <2>9. collector' # NoCollector BY <1>1, <2>1 DEF inputs
    <2> QED BY <2>6, <2>7, <2>8, <2>9 DEF CostInv
<1> QED BY <1>2, <1>8, <1>9, <1>10

-----------------------------------------------------------------------------
(* CUR: its budget. *)

\* The currencies of the lines that CUR holds for tags.
TagCurrencies == {l.currency : l \in service.tagTable}

\* The tables of CUR are finite, and so are their currencies.
LEMMA TablesFinite ==
    ASSUME Context, collector = "cur"
    PROVE  /\ IsFiniteSet(service.table) /\ IsFiniteSet(service.tagTable)
           /\ IsFiniteSet(TagCurrencies) /\ Cardinality(TagCurrencies) \in Nat
<1>1. service \in Services["cur"] BY DEF Context
<1>2. \A table \in {service.table, service.tagTable} : IsFiniteSet(table) BY <1>1, ServicesAssumption
<1>3. IsFiniteSet(service.table) /\ IsFiniteSet(service.tagTable) BY <1>2
<1>4. TagCurrencies = Currencies(service.tagTable) BY DEF TagCurrencies, Currencies
<1> QED BY <1>3, <1>4, CurrenciesFinite

\* A query for a tag has the currencies of that table; one for none those of the cost rows.
LEMMA CurrenciesOf ==
    ASSUME Context, collector = "cur", NEW q \in Asked
    PROVE  /\ q.tagKey # NoKey => Currencies(Unlimited(q)) \subseteq TagCurrencies
           /\ q.tagKey = NoKey => Currencies(Unlimited(q)) \subseteq Currencies(CostRows(service.table))
<1>1. CASE q.tagKey # NoKey
    <2>1. Currencies(Unlimited(q)) = Currencies(Held(q)) BY UnlimitedCarries DEF Carries
    <2>2. \A l \in Held(q) : \E x \in service.tagTable : l = basisExpression(x, q.basis) BY <1>1 DEF Held, Billed
    <2>3. \A x : basisExpression(x, q.basis).currency = x.currency BY DEF basisExpression
    <2> QED BY <1>1, <2>1, <2>2, <2>3 DEF Currencies, TagCurrencies
<1>2. CASE q.tagKey = NoKey
    <2>1. Unlimited(q) \subseteq CostRows(service.table) BY <1>2 DEF Unlimited
    <2> QED BY <1>2, <2>1 DEF Currencies
<1> QED BY <1>1, <1>2

\* With so many currencies a query has so many series.
LEMMA CurCount ==
    ASSUME Context, collector = "cur", NEW q \in Asked, NEW S, Finished(q, S), NEW K, IsFiniteSet(K),
           Currencies(Unlimited(q)) \subseteq K, Cardinality(K) <= MaxCurrencies
    PROVE  /\ IsFiniteSet(S) /\ Cardinality(S) \in Nat
           /\ Cardinality(S) <= MaxCurrencies * Share(q) /\ MaxCurrencies * Share(q) \in Nat
           /\ Share(q) \in Nat
<1> DEFINE C == Currencies(Unlimited(q))
<1>1. /\ IsFiniteSet(S) /\ IsFiniteSet(C) /\ Cardinality(C) \in Nat
      /\ Cardinality(S) <= Cardinality(C) * Share(q)
    BY FinishedCount
<1> HIDE DEF C
<1>2. Cardinality(S) \in Nat /\ Cardinality(K) \in Nat BY <1>1, FS_CardinalityType
<1>3. Cardinality(C) <= Cardinality(K) BY FS_Subset DEF C
<1>4. MaxCurrencies \in Nat BY CollectionAssumption
<1>5. Share(q) \in Nat
    <2>1. LimitOf(q) \in Nat BY LimitTyped DEF Asked
    <2> QED BY <2>1 DEF Share
<1>6. Cardinality(C) <= MaxCurrencies BY <1>1, <1>2, <1>3, <1>4
<1>7. Share(q) * Cardinality(C) <= Share(q) * MaxCurrencies
    BY <1>1, <1>4, <1>5, <1>6, Times
<1>8. /\ Share(q) * Cardinality(C) = Cardinality(C) * Share(q) /\ Share(q) * MaxCurrencies = MaxCurrencies * Share(q)
      /\ Cardinality(C) * Share(q) \in Nat /\ MaxCurrencies * Share(q) \in Nat
    BY <1>1, <1>4, <1>5
<1> QED BY <1>1, <1>2, <1>5, <1>7, <1>8

\* A finite set of series: each query's part is.
LEMMA PartsFinite ==
    ASSUME Context, NEW C, \A s \in C : \E q \in Asked : s \in Of(C, q), \A q \in Asked : IsFiniteSet(Of(C, q))
    PROVE  IsFiniteSet(C)
<1> DEFINE f == [q \in Asked |-> Of(C, q)]
           H == {f[q] : q \in Asked}
<1>1. \A q \in Asked : f[q] = Of(C, q) OBVIOUS
<1>2. \A h \in H : \E q \in Asked : h = f[q] OBVIOUS
<1>3. IsFiniteSet(H)
    <2> HIDE DEF f, H
    <2> QED BY <1>2, AskedFinite, ImageFinite
<1>4. \A h \in H : IsFiniteSet(h) BY <1>1
<1>5. C = UNION H
    <2>1. \A q : Of(C, q) \subseteq C BY DEF Of
    <2> QED BY <1>1, <2>1
<1> HIDE DEF H
<1> QED BY <1>3, <1>4, <1>5, FS_UNION

\* The tag series of CUR stay within the budget, unless there are too many currencies.
LEMMA TagSeriesFit ==
    ASSUME Context, collector = "cur", "tags" \in config.target.integrations, NEW C,
           \A s \in C : \E q \in Asked : q.tagKey # NoKey /\ s \in Of(C, q),
           \A q \in Asked : q.tagKey # NoKey => Finished(q, Of(C, q)),
           Cardinality(TagCurrencies) <= MaxCurrencies
    PROVE  /\ IsFiniteSet(C) /\ Cardinality(C) \in Nat
           /\ Cardinality(C) <= tagSeriesBudget(config.target, MaxCurrencies)
<1>1. MaxCurrencies \in Nat BY CollectionAssumption
<1>2. IsFiniteSet(TagCurrencies) BY TablesFinite
<1>3. ASSUME NEW q \in Asked, q.tagKey # NoKey
      PROVE  /\ IsFiniteSet(Of(C, q)) /\ Cardinality(Of(C, q)) \in Nat
             /\ Cardinality(Of(C, q)) <= MaxCurrencies * LimitOf(q)
    <2>1. Finished(q, Of(C, q)) BY <1>3
    <2>2. Currencies(Unlimited(q)) \subseteq TagCurrencies BY <1>3, CurrenciesOf
    <2>3. Share(q) = LimitOf(q) BY <1>3 DEF Share
    <2> QED BY <1>2, <2>1, <2>2, <2>3, CurCount
<1>4. ASSUME NEW q \in Asked PROVE IsFiniteSet(Of(C, q))
    <2>1. CASE q.tagKey # NoKey BY <1>3, <2>1
    <2>2. CASE q.tagKey = NoKey
        <3>1. Of(C, q) = {}
            <4> SUFFICES ASSUME NEW s \in Of(C, q) PROVE FALSE OBVIOUS
            <4>1. s \in C /\ s.tagKey = NoKey BY <2>2 DEF Of
            <4>2. PICK p \in Asked : p.tagKey # NoKey /\ s \in Of(C, p) BY <4>1
            <4> QED BY <4>1, <4>2 DEF Of
        <3> QED BY <3>1, FS_EmptySet
    <2> QED BY <2>1, <2>2
<1>5. IsFiniteSet(C) BY <1>4, PartsFinite
<1>6. ASSUME NEW s \in C
      PROVE  s.basis \in Range(Bases) /\ s.window \in Windows /\ s.tagKey \in Range(config.target.keys)
    <2>1. PICK q \in Asked : q.tagKey # NoKey /\ s \in Of(C, q) OBVIOUS
    <2>2. q \in Queries /\ q.tagKey \in Range(config.target.keys) BY <2>1 DEF Asked
    <2>3. s.basis = q.basis /\ s.window = q.window /\ s.tagKey = q.tagKey BY <2>1 DEF Of
    <2> QED BY <2>2, <2>3 DEF Queries
<1>7. ASSUME NEW k \in Range(config.target.keys), NEW b \in Range(Bases), NEW w \in Windows
      PROVE  Cardinality({s \in C : s.basis = b /\ s.window = w /\ s.tagKey = k}) <= MaxValues[k] * MaxCurrencies
    <2> DEFINE q == [basis |-> b, window |-> w, tagKey |-> k]
    <2>1. k \in TagKeys /\ k # NoKey BY KeysFacts, CollectionAssumption
    <2>2. q \in Asked BY <2>1, AskedOf DEF Enabled
    <2>3. q.basis = b /\ q.window = w /\ q.tagKey = k OBVIOUS
    <2> HIDE DEF q
    <2>4. {s \in C : s.basis = b /\ s.window = w /\ s.tagKey = k} = Of(C, q) BY <2>3 DEF Of
    <2>5. Cardinality(Of(C, q)) <= MaxCurrencies * LimitOf(q) BY <1>3, <2>1, <2>2, <2>3
    <2>6. LimitOf(q) = MaxValues[k] BY <2>1, <2>2, <2>3, TagAsked
    <2>7. MaxValues[k] \in Nat BY <2>1, CollectionAssumption
    <2>8. MaxCurrencies * MaxValues[k] = MaxValues[k] * MaxCurrencies BY <1>1, <2>7
    <2> QED BY <2>4, <2>5, <2>6, <2>8
<1> QED BY <1>1, <1>5, <1>6, <1>7, TagBudget

\* Without tags CUR has a series of every basis, window and currency.
LEMMA CostSeriesFit ==
    ASSUME Context, collector = "cur", Standing(Asked), NEW C, C = {s \in collected : s.tagKey = NoKey},
           Cardinality(Currencies(CostRows(service.table))) <= MaxCurrencies,
           IsFiniteSet(Currencies(CostRows(service.table)))
    PROVE  /\ IsFiniteSet(C) /\ Cardinality(C) \in Nat
           /\ Cardinality(C) <= (N * 2) * MaxCurrencies
<1>1. MaxCurrencies \in Nat BY CollectionAssumption
<1>2. IsFiniteSet(C)
    <2>1. IsFiniteSet(collected) BY CollectedFinite
    <2> QED BY <2>1, FS_Subset
<1>3. ASSUME NEW s \in C PROVE s.basis \in Range(Bases) /\ s.window \in Windows
    <2>1. PICK q \in Asked : s \in Exported(q) BY DEF Standing
    <2>2. q \in Queries BY DEF Asked
    <2>3. s.basis = q.basis /\ s.window = q.window BY <2>1 DEF Exported
    <2> QED BY <2>2, <2>3 DEF Queries
<1>4. ASSUME NEW b \in Range(Bases), NEW w \in Windows
      PROVE  Cardinality({s \in C : s.basis = b /\ s.window = w}) <= MaxCurrencies
    <2> DEFINE q == [basis |-> b, window |-> w, tagKey |-> NoKey]
    <2>1. q \in Queries /\ q.basis = b /\ q.window = w /\ q.tagKey = NoKey BY DEF Queries
    <2> HIDE DEF q
    <2>2. q \in Asked BY <2>1 DEF Asked
    <2>3. {s \in C : s.basis = b /\ s.window = w} = Exported(q) BY <2>1 DEF Exported
    <2>4. Finished(q, Exported(q)) BY <2>2 DEF Standing
    <2>5. Currencies(Unlimited(q)) \subseteq Currencies(CostRows(service.table)) BY <2>1, <2>2, CurrenciesOf
    <2>6. Share(q) = 1 BY <2>1 DEF Share
    <2>7. Cardinality(Exported(q)) <= MaxCurrencies * Share(q) BY <2>2, <2>4, <2>5, CurCount
    <2> QED BY <1>1, <2>3, <2>6, <2>7
<1> QED BY <1>1, <1>2, <1>3, <1>4, QueriesCount

\* The rows of costs are finitely many.
LEMMA CostRowsFinite ==
    ASSUME Context, collector = "cur"
    PROVE  IsFiniteSet(CostRows(service.table)) /\ \A s \in CostRows(service.table) :
              \E q \in Asked : q.tagKey = NoKey /\ s \in Of(CostRows(service.table), q)
<1> DEFINE C == CostRows(service.table)
<1>1. ASSUME NEW s \in C PROVE \E q \in Asked : q.tagKey = NoKey /\ s \in Of(C, q)
    <2>1. PICK q \in Queries : q.tagKey = NoKey /\ \E l \in Billed(service.table, q) : s = CurRow(service.table, q, l)
        BY CostRowsAre
    <2>2. s.basis = q.basis /\ s.window = q.window /\ s.tagKey = q.tagKey BY <2>1, CurRowFields
    <2>3. q \in Asked BY <2>1 DEF Asked
    <2> QED BY <2>1, <2>2, <2>3 DEF Of
<1>2. ASSUME NEW q \in Asked PROVE IsFiniteSet(Of(C, q))
    <2>1. CASE q.tagKey = NoKey
        <3>1. Of(C, q) = Unlimited(q) BY <2>1 DEF Of, Unlimited
        <3> QED BY <3>1, UnlimitedLabels DEF Mapped, Amounts
    <2>2. CASE q.tagKey # NoKey
        <3>1. Of(C, q) = {}
            <4> SUFFICES ASSUME NEW s \in Of(C, q) PROVE FALSE OBVIOUS
            <4>1. s \in C /\ s.tagKey # NoKey BY <2>2 DEF Of
            <4>2. PICK p \in Asked : p.tagKey = NoKey /\ s \in Of(C, p) BY <1>1, <4>1
            <4> QED BY <4>1, <4>2 DEF Of
        <3> QED BY <3>1, FS_EmptySet
    <2> QED BY <2>1, <2>2
<1> HIDE DEF C
<1>3. IsFiniteSet(C) BY <1>1, <1>2, PartsFinite
<1> QED BY <1>1, <1>3 DEF C

\* The partial of CUR stays within its budget, unless the tag table has too many currencies.
LEMMA CurFits ==
    ASSUME Context, collector = "cur", Standing(Asked),
           Cardinality(Currencies(CostRows(service.table))) <= MaxCurrencies,
           Cardinality(TagCurrencies) <= MaxCurrencies
    PROVE  Cardinality(collected) \in Nat /\ Cardinality(collected) <= config.limit.cur
<1> DEFINE A == {s \in collected : s.tagKey = NoKey}
           B == {s \in collected : s.tagKey # NoKey}
           budget == IF Enabled(config.target, "tags") THEN tagSeriesBudget(config.target, MaxCurrencies) ELSE 0
<1>1. N \in Nat /\ MaxCurrencies \in Nat BY BasesFacts, CollectionAssumption
<1>2. IsFiniteSet(A) /\ Cardinality(A) \in Nat /\ Cardinality(A) <= (N * 2) * MaxCurrencies
    <2>1. IsFiniteSet(Currencies(CostRows(service.table))) BY CostRowsFinite, CurrenciesFinite
    <2> QED BY <2>1, CostSeriesFit
<1>3. IsFiniteSet(B) /\ Cardinality(B) \in Nat /\ Cardinality(B) <= budget /\ budget \in Nat
    <2>1. \A s \in B : \E q \in Asked : q.tagKey # NoKey /\ s \in Of(B, q)
        <3> SUFFICES ASSUME NEW s \in B PROVE \E q \in Asked : q.tagKey # NoKey /\ s \in Of(B, q) OBVIOUS
        <3>1. PICK q \in Asked : s \in Exported(q) BY DEF Standing
        <3> QED BY <3>1 DEF Exported, Of
    <2>2. CASE "tags" \in config.target.integrations
        <3>1. ASSUME NEW q \in Asked, q.tagKey # NoKey PROVE Finished(q, Of(B, q))
            <4>1. Of(B, q) = Exported(q) BY <3>1 DEF Of, Exported
            <4> QED BY <4>1 DEF Standing
        <3> HIDE DEF B
        <3>2. /\ IsFiniteSet(B) /\ Cardinality(B) \in Nat
              /\ Cardinality(B) <= tagSeriesBudget(config.target, MaxCurrencies)
            BY <2>1, <2>2, <3>1, TagSeriesFit
        <3>3. tagSeriesBudget(config.target, MaxCurrencies) \in Nat BY <1>1, <2>2, BudgetTyped
        <3> QED BY <2>2, <3>2, <3>3 DEF Enabled
    <2>3. CASE "tags" \notin config.target.integrations
        <3>1. B = {}
            <4> SUFFICES ASSUME NEW s \in B PROVE FALSE OBVIOUS
            <4>1. PICK q \in Asked : q.tagKey # NoKey BY <2>1
            <4> QED BY <2>3, <4>1, TagAsked
        <3>2. budget = 0 BY <2>3 DEF Enabled
        <3> HIDE DEF B, budget
        <3>3. IsFiniteSet(B) /\ Cardinality(B) = 0 BY <3>1, FS_EmptySet
        <3>4. 0 \in Nat /\ 0 <= 0 OBVIOUS
        <3> QED BY <3>2, <3>3, <3>4, Zenon
    <2> QED BY <2>2, <2>3
<1>4. 2 * N * MaxCurrencies + budget <= config.limit.cur BY DEF Context, validateCURSeriesBudget, N, Enabled
<1>5. A \cup B = collected /\ A \cap B = {} OBVIOUS
<1> HIDE DEF A, B, budget
<1>6. Cardinality(collected) = Cardinality(A) + Cardinality(B)
    <2>1. Cardinality(A \cup B) = Cardinality(A) + Cardinality(B) - Cardinality({}) BY <1>2, <1>3, <1>5, FS_Union
    <2>2. Cardinality({}) = 0 BY FS_EmptySet
    <2>3. Cardinality(A \cup B) = Cardinality(A) + Cardinality(B) - 0 BY <2>1, <2>2, Zenon
    <2>4. Cardinality(A) \in Nat /\ Cardinality(B) \in Nat BY <1>2, <1>3
    <2>5. Cardinality(A) + Cardinality(B) - 0 = Cardinality(A) + Cardinality(B) BY <2>4
    <2>6. Cardinality(A \cup B) = Cardinality(collected) BY <1>5
    <2> QED BY <2>3, <2>5, <2>6, Zenon
<1>7. (N * 2) * MaxCurrencies = 2 * N * MaxCurrencies /\ (N * 2) * MaxCurrencies \in Nat
    <2>1. N * 2 = 2 * N /\ N * 2 \in Nat BY <1>1
    <2> HIDE DEF N
    <2> QED BY <1>1, <2>1
<1>8. config.limit.cur \in Nat
    <2>1. config.limit["cur"] \in Nat \ {0} BY DEF Context
    <2> QED BY <2>1
<1> QED BY <1>2, <1>3, <1>4, <1>6, <1>7, <1>8

-----------------------------------------------------------------------------
(* CUR: its steps. *)

\* The rows of tags are those of the queries for tags.
LEMMA TagRowsOf ==
    ASSUME Context, collector = "cur", Enabled(config.target, "tags")
    PROVE  /\ \A q \in Asked : q.tagKey # NoKey => Of(TagRows(service.tagTable), q) = Unlimited(q)
           /\ \A s \in TagRows(service.tagTable) :
                 \E q \in Asked : q.tagKey # NoKey /\ s \in Of(TagRows(service.tagTable), q)
           /\ IsFiniteSet(TagRows(service.tagTable))
<1> DEFINE T == service.tagTable
           R == TagRows(T)
<1>1. Range(config.target.columns) = Range(config.target.keys) BY DEF Context, validateTags, Enabled
<1>2. \A k \in Range(config.target.keys) : k # NoKey BY KeysFacts, CollectionAssumption DEF Enabled
<1>3. ASSUME NEW s \in R PROVE \E q \in Asked : q.tagKey # NoKey /\ s \in Of(R, q)
    <2>1. PICK q \in Queries : /\ q.tagKey \in Range(config.target.columns)
                               /\ \E l \in Billed(T, q) : s = CurRow(T, q, l)
        BY TagRowsAre
    <2>2. s.basis = q.basis /\ s.window = q.window /\ s.tagKey = q.tagKey BY <2>1, CurRowFields
    <2>3. q \in Asked /\ q.tagKey # NoKey BY <1>1, <1>2, <2>1 DEF Asked
    <2> QED BY <2>2, <2>3 DEF Of
<1>4. ASSUME NEW q \in Asked, q.tagKey # NoKey PROVE Of(R, q) = Unlimited(q)
    BY <1>4 DEF Of, Unlimited
<1> HIDE DEF R
<1>5. ASSUME NEW q \in Asked PROVE IsFiniteSet(Of(R, q))
    <2>1. CASE q.tagKey # NoKey
        <3>1. Of(R, q) = Unlimited(q) BY <1>4, <2>1
        <3> QED BY <3>1, UnlimitedLabels DEF Mapped, Amounts
    <2>2. CASE q.tagKey = NoKey
        <3>1. Of(R, q) = {}
            <4> SUFFICES ASSUME NEW s \in Of(R, q) PROVE FALSE OBVIOUS
            <4>1. s \in R /\ s.tagKey = NoKey BY <2>2 DEF Of
            <4>2. PICK p \in Asked : p.tagKey # NoKey /\ s \in Of(R, p) BY <1>3, <4>1
            <4> QED BY <4>1, <4>2 DEF Of
        <3> QED BY <3>1, FS_EmptySet
    <2> QED BY <2>1, <2>2
<1>6. IsFiniteSet(R)
    <2>1. \A s \in R : \E q \in Asked : s \in Of(R, q) BY <1>3
    <2> QED BY <1>5, <2>1, PartsFinite
<1> QED BY <1>3, <1>4, <1>6 DEF R

\* limitTags groups the rows by query and currency.
LEMMA GroupsAre ==
    ASSUME Context, collector = "cur", Enabled(config.target, "tags"), NEW g
    PROVE  g \in TagGroups(TagRows(service.tagTable)) <=>
              \E q \in Asked : q.tagKey # NoKey /\ \E c \in Currencies(Unlimited(q)) : g = OfCurrency(Unlimited(q), c)
<1> DEFINE R == TagRows(service.tagTable)
           Group(s) == {r \in R : r.basis = s.basis /\ r.window = s.window /\ r.tagKey = s.tagKey
                                  /\ r.currency = s.currency}
<1>1. /\ \A q \in Asked : q.tagKey # NoKey => Of(R, q) = Unlimited(q)
      /\ \A s \in R : \E q \in Asked : q.tagKey # NoKey /\ s \in Of(R, q)
    BY TagRowsOf
<1>2. g \in TagGroups(R) <=> \E s \in R : g = Group(s) BY DEF TagGroups
<1> HIDE DEF R
<1>3. ASSUME NEW q, NEW s \in Of(R, q) PROVE Group(s) = OfCurrency(Of(R, q), s.currency) BY DEF Of, OfCurrency
<1> HIDE DEF Group
<1>4. ASSUME NEW s \in R, g = Group(s)
      PROVE  \E q \in Asked : q.tagKey # NoKey /\ \E c \in Currencies(Unlimited(q)) : g = OfCurrency(Unlimited(q), c)
    <2>1. PICK q \in Asked : q.tagKey # NoKey /\ s \in Of(R, q) BY <1>1
    <2>2. s.currency \in Currencies(Unlimited(q)) BY <1>1, <2>1 DEF Currencies
    <2>3. g = OfCurrency(Unlimited(q), s.currency) BY <1>1, <1>3, <1>4, <2>1
    <2> QED BY <2>1, <2>2, <2>3
<1>5. ASSUME NEW q \in Asked, q.tagKey # NoKey, NEW c \in Currencies(Unlimited(q)), g = OfCurrency(Unlimited(q), c)
      PROVE  \E s \in R : g = Group(s)
    <2>1. PICK s \in Unlimited(q) : c = s.currency BY DEF Currencies
    <2>2. s \in Of(R, q) BY <1>1, <1>5
    <2>3. s \in R BY <2>2 DEF Of
    <2>4. g = Group(s) BY <1>1, <1>3, <1>5, <2>1, <2>2
    <2> QED BY <2>3, <2>4
<1> QED BY <1>2, <1>4, <1>5 DEF R

\* What limitTags returns has the bounded form of every query.
LEMMA TagsLimited ==
    ASSUME Context, collector = "cur", Enabled(config.target, "tags"), NEW groups,
           groups = TagGroups(TagRows(service.tagTable)),
           NEW tags \in LimitedEach(groups, [g \in groups |-> GroupLimit(g)])
    PROVE  /\ \A s \in tags : \E q \in Asked : q.tagKey # NoKey /\ s \in Of(tags, q)
           /\ \A q \in Asked : q.tagKey # NoKey => Finished(q, Of(tags, q))
<1> DEFINE limits == [g \in groups |-> GroupLimit(g)]
           U(q, c) == OfCurrency(Unlimited(q), c)
<1>1. IsFiniteSet(groups)
    <2> DEFINE R == TagRows(service.tagTable)
               f == [s \in R |-> {r \in R : r.basis = s.basis /\ r.window = s.window /\ r.tagKey = s.tagKey
                                           /\ r.currency = s.currency}]
    <2>1. \A g \in groups : \E s \in R : g = f[s] BY DEF TagGroups
    <2>2. IsFiniteSet(R) BY TagRowsOf
    <2> HIDE DEF f, R
    <2> QED BY <2>1, <2>2, ImageFinite
<1>2. \A g : g \in groups <=>
         \E q \in Asked : q.tagKey # NoKey /\ \E c \in Currencies(Unlimited(q)) : g = U(q, c)
    BY GroupsAre
<1>3. \A g \in groups : limits[g] = GroupLimit(g) OBVIOUS
<1>4. tags \in LimitedEach(groups, limits) OBVIOUS
<1> HIDE DEF limits
<1>5. PICK h : Choice(groups, limits, h) /\ tags = UNION {h[g] : g \in groups} BY <1>1, <1>4, LimitedIs
<1>6. ASSUME NEW q \in Asked, q.tagKey # NoKey, NEW c \in Currencies(Unlimited(q))
      PROVE  /\ U(q, c) \in groups
             /\ h[U(q, c)] \in limitDimensionGroup(U(q, c), LimitOf(q))
             /\ \A s \in h[U(q, c)] : /\ s.basis = q.basis /\ s.window = q.window /\ s.tagKey = q.tagKey
                                      /\ s.currency = c
    <2>1. U(q, c) \in groups BY <1>2, <1>6
    <2>2. /\ Mapped(q, Unlimited(q))
          /\ \A s \in Unlimited(q) : s.basis = q.basis /\ s.window = q.window /\ s.tagKey = q.tagKey
        BY UnlimitedLabels
    <2>3. U(q, c) # {} /\ \A s \in U(q, c) : s.tagKey = q.tagKey /\ s.currency = c
        BY <2>2 DEF Currencies, OfCurrency
    <2>4. Mapped(q, U(q, c)) BY <2>2, MappedPart DEF OfCurrency
    <2> HIDE DEF U
    <2>5. GroupLimit(U(q, c)) = MaxValues[q.tagKey]
        <3>1. (CHOOSE s \in U(q, c) : TRUE) \in U(q, c) BY <2>3
        <3>2. (CHOOSE s \in U(q, c) : TRUE).tagKey = q.tagKey BY <2>3, <3>1
        <3> QED BY <3>2 DEF GroupLimit
    <2>6. limits[U(q, c)] = LimitOf(q) BY <1>3, <1>6, <2>1, <2>5, TagAsked
    <2>7. h[U(q, c)] \in limitDimensionGroup(U(q, c), LimitOf(q)) BY <1>5, <2>1, <2>6 DEF Choice
    <2>8. LimitOf(q) \in Nat \ {0} BY LimitTyped DEF Asked
    <2>9. /\ \A s \in h[U(q, c)] : s.basis = q.basis /\ s.window = q.window /\ s.tagKey = q.tagKey
          /\ Currencies(h[U(q, c)]) \subseteq Currencies(U(q, c))
        BY <2>4, <2>7, <2>8, LimitBounds
    <2>10. \A s \in h[U(q, c)] : s.currency = c BY <2>3, <2>9 DEF Currencies
    <2> QED BY <2>1, <2>7, <2>9, <2>10
<1>7. ASSUME NEW s \in tags
      PROVE  \E q \in Asked : q.tagKey # NoKey /\ \E c \in Currencies(Unlimited(q)) : s \in h[U(q, c)]
    <2>1. PICK g \in groups : s \in h[g] BY <1>5
    <2> HIDE DEF U
    <2> QED BY <1>2, <2>1
<1> HIDE DEF U
<1>8. ASSUME NEW s \in tags PROVE \E q \in Asked : q.tagKey # NoKey /\ s \in Of(tags, q)
    <2>1. PICK q \in Asked : q.tagKey # NoKey /\ \E c \in Currencies(Unlimited(q)) : s \in h[U(q, c)] BY <1>7
    <2>2. s.basis = q.basis /\ s.window = q.window /\ s.tagKey = q.tagKey BY <1>6, <2>1
    <2> QED BY <2>1, <2>2 DEF Of
<1>9. ASSUME NEW q \in Asked, q.tagKey # NoKey, NEW s \in Of(tags, q)
      PROVE  s.currency \in Currencies(Unlimited(q)) /\ s \in h[U(q, s.currency)]
    <2>1. s \in tags /\ s.basis = q.basis /\ s.window = q.window /\ s.tagKey = q.tagKey BY DEF Of
    <2>2. PICK p \in Asked : p.tagKey # NoKey /\ \E c \in Currencies(Unlimited(p)) : s \in h[U(p, c)]
        BY <1>7, <2>1
    <2>3. PICK c \in Currencies(Unlimited(p)) : s \in h[U(p, c)] BY <2>2
    <2>4. s.basis = p.basis /\ s.window = p.window /\ s.tagKey = p.tagKey /\ s.currency = c BY <1>6, <2>2, <2>3
    <2>5. p = q BY <2>1, <2>4, QueryFields DEF Asked
    <2> QED BY <2>3, <2>4, <2>5
<1>10. ASSUME NEW q \in Asked, q.tagKey # NoKey PROVE Finished(q, Of(tags, q))
    <2> DEFINE S == Of(tags, q)
    <2>1. ASSUME NEW c \in Currencies(Unlimited(q) \cup S) PROVE c \in Currencies(Unlimited(q))
        <3>1. PICK s \in Unlimited(q) \cup S : c = s.currency BY DEF Currencies
        <3>2. CASE s \in Unlimited(q) BY <3>1, <3>2 DEF Currencies
        <3>3. CASE s \in S BY <1>9, <1>10, <3>1, <3>3
        <3> QED BY <3>1, <3>2, <3>3
    <2>2. ASSUME NEW c \in Currencies(Unlimited(q)) PROVE OfCurrency(S, c) = h[U(q, c)]
        <3>1. \A s \in OfCurrency(S, c) : s \in h[U(q, c)] BY <1>9, <1>10 DEF OfCurrency
        <3>2. ASSUME NEW s \in h[U(q, c)] PROVE s \in OfCurrency(S, c)
            <4>1. s \in tags BY <1>5, <1>6, <1>10, <3>2
            <4> QED BY <1>6, <1>10, <3>2, <4>1 DEF OfCurrency, Of
        <3> QED BY <3>1, <3>2
    <2> HIDE DEF S
    <2>3. ASSUME NEW c \in Currencies(Unlimited(q) \cup S)
          PROVE  OfCurrency(S, c) \in limitDimensionGroup(OfCurrency(Unlimited(q), c), LimitOf(q))
        <3>1. c \in Currencies(Unlimited(q)) BY <2>1
        <3>2. OfCurrency(S, c) = h[U(q, c)] BY <2>2, <3>1
        <3>3. h[U(q, c)] \in limitDimensionGroup(U(q, c), LimitOf(q)) BY <1>6, <1>10, <3>1
        <3> QED BY <3>2, <3>3 DEF U
    <2>4. collector \notin Grouped \cup {"tags"} /\ collector # "total" BY DEF Grouped
    <2>5. Finished(q, S) BY <1>10, <2>3, <2>4, Zenon DEF Finished
    <2> QED BY <2>5 DEF S
<1> QED BY <1>8, <1>10

\* The queries of CUR that are finished at a step.
ReadyAt(at_step) == {q \in Asked : at_step = "finish" \/ (at_step = "tags" /\ q.tagKey = NoKey)}

\* CurAt with the set of finished queries named.
LEMMA CurFacts ==
    CurAt <=> /\ step \in {"read", "tags", "finish"}
              /\ \E done : done = ReadyAt(step) /\ Standing(done)
              /\ step = "tags" => Enabled(config.target, "tags")
              /\ step # "read" => Cardinality(Currencies(CostRows(service.table))) <= MaxCurrencies
BY Zenon DEF CurAt, ReadyAt

\* The same of the next state, when the inputs stay.
LEMMA CurFactsNext ==
    ASSUME UNCHANGED inputs, step' \in {"read", "tags", "finish"},
           NEW done, done = ReadyAt(step'), Standing(done)',
           step' = "tags" => Enabled(config.target, "tags"),
           step' # "read" => Cardinality(Currencies(CostRows(service.table))) <= MaxCurrencies
    PROVE  CurAt'
<1>1. collector' = collector /\ config' = config /\ service' = service BY Zenon DEF inputs
<1>2. Asked' = Asked BY InputsFrame
<1>3. CostRows(service.table)' = CostRows(service.table)
    <2>1. buildQuery(service.table, FALSE)' = buildQuery(service.table, FALSE) BY <1>1 DEF buildQuery
    <2> QED BY <2>1 DEF CostRows, mapCosts
<1>4. done = {q \in Asked' : step' = "finish" \/ (step' = "tags" /\ q.tagKey = NoKey)} BY <1>2, Zenon DEF ReadyAt
<1>5. Standing({q \in Asked : step = "finish" \/ (step = "tags" /\ q.tagKey = NoKey)})' BY <1>4, Zenon DEF Standing
<1>6. (step = "tags" => Enabled(config.target, "tags"))' BY <1>1 DEF Enabled
<1>7. (step # "read" => Cardinality(Currencies(CostRows(service.table))) <= MaxCurrencies)'
    BY <1>3, Zenon DEF Currencies
<1> QED BY <1>5, <1>6, <1>7, Zenon DEF CurAt

\* An error of the series limit, with too many currencies as its cause.
LEMMA SeriesCause ==
    ASSUME UNCHANGED inputs, collector = "cur", result' = "series", Cardinality(TagCurrencies) > MaxCurrencies
    PROVE  CostInv'
<1>1. collector' = "cur" /\ service' = service BY Zenon DEF inputs
<1>2. RefusedForCause' BY <1>1 DEF RefusedForCause, TagCurrencies
<1>3. collector' # NoCollector /\ ~Collected' BY <1>1 DEF NoCollector, Collected
<1> QED BY <1>2, <1>3 DEF CostInv

\* CUR goes on with its next query.
LEMMA CurGoesOn ==
    ASSUME UNCHANGED inputs, collector = "cur", result' = "none", CurAt'
    PROVE  CostInv'
<1>1. collector' = "cur" BY Zenon DEF inputs
<1>2. RefusedForCause' /\ ~Collected' BY DEF RefusedForCause, Collected
<1>3. collector' \notin Grouped \cup {"total", "tags", NoCollector} BY <1>1 DEF Grouped, NoCollector
<1> QED BY <1>2, <1>3 DEF CostInv

\* QueryCosts finishes the queries without a tag key.
LEMMA QueryCostsStep ==
    ASSUME Context, CurAt, QueryCosts
    PROVE  CostInv'
<1>1. collector = "cur" /\ result = "none" /\ step = "read" BY DEF QueryCosts
<1>2. collector \in Collectors BY DEF Context
<1> DEFINE C == CostRows(service.table)
<1>3. CASE Cardinality(Currencies(C)) > MaxCurrencies
    <2>1. UNCHANGED inputs /\ result' = "currencies" BY <1>3, Zenon DEF QueryCosts, Return
    <2> QED BY <1>2, <2>1, Closed
<1>4. CASE ~(Cardinality(Currencies(C)) > MaxCurrencies)
    <2>1. /\ collected' = C /\ UNCHANGED inputs /\ result' = result
          /\ step' = IF Enabled(config.target, "tags") THEN "tags" ELSE "finish"
        BY <1>4, Zenon DEF QueryCosts
    <2>2. IsFiniteSet(C) /\ \A s \in C : \E q \in Asked : q.tagKey = NoKey /\ s \in Of(C, q)
        BY <1>1, CostRowsFinite
    <2>3. ASSUME NEW q \in Asked, q.tagKey = NoKey PROVE Finished(q, Of(C, q))
        <3>1. Of(C, q) = Unlimited(q) BY <1>1, <2>3 DEF Of, Unlimited
        <3> QED BY <1>1, <2>3, <3>1 DEF Finished, Grouped
    <2>4. Cardinality(Currencies(C)) <= MaxCurrencies
        <3>1. Cardinality(Currencies(C)) \in Nat BY <2>2, CurrenciesFinite
        <3> QED BY <1>4, <3>1, CollectionAssumption
    <2> HIDE DEF C
    <2>5. PICK done : done = ReadyAt(step) /\ Standing(done) BY CurFacts
    <2>6. done = {} BY <1>1, <2>5 DEF ReadyAt
    <2>7. collected = {} BY <2>5, <2>6 DEF Standing
    <2>8. PICK new : new = C OBVIOUS
    <2>9. PICK more : more = {q \in Asked : q.tagKey = NoKey} OBVIOUS
    <2>10. /\ collected' = collected \cup new /\ more \in SUBSET Asked /\ more \cap done = {}
           /\ \A s \in new : \E q \in more : s \in Of(new, q)
           /\ \A q \in more : Finished(q, Of(new, q))
        BY <2>1, <2>2, <2>3, <2>6, <2>7, <2>8, <2>9
    <2>11. Standing(done \cup more)' BY <2>1, <2>5, <2>10, StandingGrows
    <2>12. Standing(more)'
        <3>1. done \cup more = more BY <2>6
        <3> QED BY <2>11, <3>1
    <2>13. more = ReadyAt(step')
        <3>1. CASE Enabled(config.target, "tags") BY <2>1, <2>9, <3>1 DEF ReadyAt
        <3>2. CASE ~Enabled(config.target, "tags")
            <4>1. \A q \in Asked : q.tagKey = NoKey BY <3>2, TagAsked DEF Enabled
            <4> QED BY <2>1, <2>9, <3>2, <4>1 DEF ReadyAt
        <3> QED BY <3>1, <3>2
    <2>14. step' \in {"read", "tags", "finish"} /\ (step' = "tags" => Enabled(config.target, "tags")) BY <2>1
    <2>15. CurAt' BY <2>1, <2>4, <2>12, <2>13, <2>14, CurFactsNext DEF C
    <2> QED BY <1>1, <2>1, <2>15, CurGoesOn
<1> QED BY <1>3, <1>4

\* QueryTagCosts finishes the others.
LEMMA QueryTagsStep ==
    ASSUME Context, CurAt, QueryTagCosts
    PROVE  CostInv'
<1>1. collector = "cur" /\ result = "none" /\ step = "tags" BY DEF QueryTagCosts
<1>2. Enabled(config.target, "tags") /\ Cardinality(Currencies(CostRows(service.table))) <= MaxCurrencies
    BY <1>1, CurFacts
<1>3. PICK groups : groups = TagGroups(TagRows(service.tagTable)) OBVIOUS
<1>4. PICK tags \in LimitedEach(groups, [g \in groups |-> GroupLimit(g)]) :
          IF Cardinality(tags) > config.limit.tags
          THEN Return("series")
          ELSE /\ collected' = collected \cup tags
               /\ step' = "finish"
               /\ UNCHANGED <<inputs, next, values, result>>
    BY <1>3, Zenon DEF QueryTagCosts
<1>5. /\ \A s \in tags : \E q \in Asked : q.tagKey # NoKey /\ s \in Of(tags, q)
      /\ \A q \in Asked : q.tagKey # NoKey => Finished(q, Of(tags, q))
    BY <1>1, <1>2, <1>3, TagsLimited
<1>6. CASE Cardinality(tags) > config.limit.tags
    <2>1. UNCHANGED inputs /\ result' = "series" BY <1>4, <1>6, Zenon DEF Return
    <2>2. Cardinality(TagCurrencies) > MaxCurrencies
        <3> SUFFICES ASSUME ~(Cardinality(TagCurrencies) > MaxCurrencies) PROVE FALSE OBVIOUS
        <3>1. Cardinality(TagCurrencies) \in Nat BY <1>1, TablesFinite
        <3>2. MaxCurrencies \in Nat BY CollectionAssumption
        <3>3. Cardinality(TagCurrencies) <= MaxCurrencies BY <3>1, <3>2
        <3>4. "tags" \in config.target.integrations /\ "cur" \in config.target.integrations
            BY <1>1, <1>2 DEF Enabled, Context
        <3>5. Cardinality(tags) \in Nat /\ Cardinality(tags) <= tagSeriesBudget(config.target, MaxCurrencies)
            BY <1>1, <1>5, <3>3, <3>4, TagSeriesFit
        <3>6. tagSeriesBudget(config.target, MaxCurrencies) <= config.limit.tags
            BY <3>4 DEF Context, validateTags, Enabled
        <3>7. tagSeriesBudget(config.target, MaxCurrencies) \in Nat BY <3>2, <3>4, BudgetTyped
        <3>8. config.limit["tags"] \in Nat \ {0} BY DEF Context
        <3> QED BY <1>6, <3>5, <3>6, <3>7, <3>8
    <2> QED BY <1>1, <2>1, <2>2, SeriesCause
<1>7. CASE ~(Cardinality(tags) > config.limit.tags)
    <2>1. collected' = collected \cup tags /\ step' = "finish" /\ UNCHANGED inputs /\ result' = result
        BY <1>4, <1>7, Zenon
    <2>2. PICK done : done = ReadyAt(step) /\ Standing(done) BY CurFacts
    <2>3. done = {q \in Asked : q.tagKey = NoKey} BY <1>1, <2>2 DEF ReadyAt
    <2>4. PICK more : more = {q \in Asked : q.tagKey # NoKey} OBVIOUS
    <2>5. /\ more \in SUBSET Asked /\ more \cap done = {}
          /\ \A s \in tags : \E q \in more : s \in Of(tags, q)
          /\ \A q \in more : Finished(q, Of(tags, q))
        BY <1>5, <2>3, <2>4
    <2>6. Standing(done \cup more)' BY <2>1, <2>2, <2>5, StandingGrows
    <2>7. PICK all : all = done \cup more OBVIOUS
    <2>8. Standing(all)' BY <2>6, <2>7
    <2>9. all = ReadyAt(step') BY <2>1, <2>3, <2>4, <2>7 DEF ReadyAt
    <2>10. CurAt' BY <1>2, <2>1, <2>8, <2>9, CurFactsNext
    <2> QED BY <1>1, <2>1, <2>10, CurGoesOn
<1> QED BY <1>6, <1>7

\* FinishCUR returns the partial of all queries.
LEMMA FinishStep ==
    ASSUME Context, CurAt, FinishCUR
    PROVE  CostInv'
<1>1. /\ collector = "cur" /\ result = "none" /\ step = "finish" /\ UNCHANGED inputs /\ collected' = collected
      /\ result' = IF Cardinality(Currencies(collected)) > MaxCurrencies THEN "currencies"
                   ELSE IF Cardinality(collected) > config.limit.cur THEN "series" ELSE "ok"
    BY Zenon DEF FinishCUR, Return
<1>2. collector \in Collectors BY DEF Context
<1>3. PICK done : done = ReadyAt(step) /\ Standing(done) BY CurFacts
<1>4. done = Asked BY <1>1, <1>3 DEF ReadyAt
<1>5. Standing(Asked) BY <1>3, <1>4
<1>6. Cardinality(Currencies(CostRows(service.table))) <= MaxCurrencies BY <1>1, CurFacts
<1>7. CASE result' = "currencies" BY <1>1, <1>2, <1>7, Closed
<1>8. CASE result' = "series"
    <2>1. Cardinality(TagCurrencies) > MaxCurrencies
        <3> SUFFICES ASSUME ~(Cardinality(TagCurrencies) > MaxCurrencies) PROVE FALSE OBVIOUS
        <3>1. Cardinality(TagCurrencies) \in Nat BY <1>1, TablesFinite
        <3>2. MaxCurrencies \in Nat BY CollectionAssumption
        <3>3. Cardinality(TagCurrencies) <= MaxCurrencies BY <3>1, <3>2
        <3>4. Cardinality(collected) \in Nat /\ Cardinality(collected) <= config.limit.cur
            BY <1>1, <1>5, <1>6, <3>3, CurFits
        <3>5. config.limit["cur"] \in Nat \ {0} BY DEF Context
        <3>6. Cardinality(collected) > config.limit.cur BY <1>1, <1>8
        <3> QED BY <3>4, <3>5, <3>6
    <2> QED BY <1>1, <1>8, <2>1, SeriesCause
<1>9. CASE result' = "ok"
    <2>1. Standing(done)' BY <1>1, <1>3, StandingKept
    <2>2. Asked' = done BY <1>1, <1>4, InputsFrame
    <2>3. Standing(Asked)' BY <2>1, <2>2
    <2>4. RefusedForCause' BY <1>9 DEF RefusedForCause
    <2>5. collector' # NoCollector BY <1>1 DEF inputs, NoCollector
    <2> QED BY <1>9, <2>3, <2>4, <2>5 DEF CostInv
<1> QED BY <1>1, <1>7, <1>8, <1>9

\* Every step of the CUR collector keeps the invariant (cur/collector.go, Collect).
LEMMA CurStep ==
    ASSUME Context, CostInv, collector = "cur", CollectCosts
    PROVE  CostInv'
<1>1. collector \in Collectors /\ collector \notin Grouped \cup {"total", "tags"} BY DEF Collectors, Grouped
<1>2. QueryFails \/ QueryCosts \/ QueryTagCosts \/ FinishCUR
    BY <1>1 DEF CollectCosts, ReadCostsFails, ReadTagCostsFails, ReadCosts, AppendTotals, AppendLimited,
                RefuseGrouped, ReadTagCosts, FinishTags
<1>3. result = "none" BY <1>2 DEF QueryFails, QueryCosts, QueryTagCosts, FinishCUR
<1>4. CurAt BY <1>3 DEF CostInv
<1>5. CASE QueryFails
    <2>1. UNCHANGED inputs /\ result' = "failed" BY <1>5, Zenon DEF QueryFails, Return
    <2> QED BY <1>1, <2>1, Closed
<1> QED BY <1>2, <1>4, <1>5, QueryCostsStep, QueryTagsStep, FinishStep

-----------------------------------------------------------------------------
(* The theorems about Collect. *)

\* What stays when nothing of Collect changes.
LEMMA CostFrame ==
    ASSUME CostInv, UNCHANGED vars
    PROVE  CostInv'
<1>1. /\ UNCHANGED inputs /\ collector' = collector /\ config' = config /\ service' = service
      /\ next' = next /\ step' = step /\ values' = values /\ collected' = collected /\ result' = result
    BY Zenon DEF vars, inputs
<1>2. /\ \A q : Unlimited(q)' = Unlimited(q) /\ LimitOf(q)' = LimitOf(q)
      /\ Asked' = Asked /\ Plan' = Plan
    BY <1>1, InputsFrame
<1>3. ASSUME NEW w \in Windows, NEW k \in 0..N, WindowAt(w, k) PROVE WindowAt(w, k)'
    <2>1. /\ next = (IF w = "daily" THEN k ELSE N + k) + 1
          /\ step = IF k = N THEN "limit" ELSE "read"
          /\ values = UNION {Unlimited(CostQuery(j, w)) : j \in 1..k}
          /\ \E done : done = Earlier(w) /\ Standing(done)
        BY <1>3, WindowFacts
    <2>2. PICK done : done = Earlier(w) /\ Standing(done) BY <2>1
    <2>3. Standing(done)' BY <1>1, <2>2, StandingKept
    <2>4. Earlier(w)' = Earlier(w) BY <1>2, Zenon DEF Earlier
    <2>5. \A j : Unlimited(CostQuery(j, w))' = Unlimited(CostQuery(j, w)) BY <1>2
    <2>6. values' = UNION {Unlimited(CostQuery(j, w))' : j \in 1..k} BY <1>1, <2>1, <2>5
    <2>7. \E d : d = Earlier(w)' /\ Standing(d)' BY <2>2, <2>3, <2>4
    <2> QED BY <1>1, <2>1, <2>6, <2>7, WindowFactsNext
<1>4. ASSUME TagsAt PROVE TagsAt'
    <2>1. PICK done : done = {Plan[i] : i \in 1..(next - 1)} /\ Standing(done) BY <1>4, TagsFacts
    <2>2. Standing(done)' BY <1>1, <2>1, StandingKept
    <2>3. next' \in 1..(Len(Plan') + 1) BY <1>1, <1>2, <1>4, TagsFacts
    <2>4. done = {Plan'[i] : i \in 1..(next' - 1)} BY <1>1, <1>2, <2>1
    <2> QED BY <2>2, <2>3, <2>4, TagsFactsNext
<1>5. ASSUME CurAt PROVE CurAt'
    <2>1. PICK done : done = ReadyAt(step) /\ Standing(done) BY <1>5, CurFacts
    <2>2. Standing(done)' BY <1>1, <2>1, StandingKept
    <2>3. /\ step' \in {"read", "tags", "finish"} /\ done = ReadyAt(step')
          /\ step' = "tags" => Enabled(config.target, "tags")
          /\ step' # "read" => Cardinality(Currencies(CostRows(service.table))) <= MaxCurrencies
        BY <1>1, <1>5, <2>1, CurFacts
    <2> QED BY <1>1, <2>2, <2>3, CurFactsNext
<1>6. ASSUME Collected PROVE Standing(Asked)'
    <2>1. PICK done : done = Asked /\ Standing(done) BY <1>6 DEF CostInv
    <2>2. Standing(done)' BY <1>1, <2>1, StandingKept
    <2>3. done = Asked' BY <1>2, <2>1
    <2> QED BY <2>2, <2>3
<1>7. Collected' <=> Collected BY <1>1 DEF Collected
<1>8. RefusedForCause'
    <2>1. RefusedForCause BY DEF CostInv
    <2>2. collector \in Collectors /\ result = "series" =>
             collector = "cur" /\ Cardinality({l.currency : l \in service.tagTable}) > MaxCurrencies
        BY <2>1 DEF RefusedForCause
    <2>3. ASSUME result' = "mixed"
          PROVE  \E q \in Asked' : Cardinality(Unlimited(q)') > LimitOf(q)' /\ ~OneCurrency(Unlimited(q)')
        <3>1. PICK q \in Asked : Cardinality(Unlimited(q)) > LimitOf(q) /\ ~OneCurrency(Unlimited(q))
            BY <1>1, <2>1, <2>3 DEF RefusedForCause
        <3> QED BY <1>2, <3>1
    <2>4. collector' \in Collectors /\ result' = "series" =>
             collector' = "cur" /\ Cardinality({l.currency : l \in service'.tagTable}) > MaxCurrencies
        BY <1>1, <2>2
    <2> QED BY <2>3, <2>4, Zenon DEF RefusedForCause
<1> QED BY <1>1, <1>3, <1>4, <1>5, <1>6, <1>7, <1>8, Zenon DEF CostInv

\* A refresh begins with nothing read.
LEMMA CostBegins ==
    ASSUME CostInv, collector = NoCollector, result = "none", NEW c, NEW cfg, cfg.target.keys \in Seq(STRING),
           Begin(c, cfg)
    PROVE  CostInv'
<1>1. next = 1 /\ step = "read" /\ values = {} /\ collected = {} BY DEF CostInv
<1>2. /\ config' = cfg
      /\ next' = 1 /\ step' = "read" /\ values' = {} /\ collected' = {} /\ result' = "none"
    BY <1>1, Zenon DEF Begin
<1>3. PICK none : none = {} OBVIOUS
<1>4. Standing(none)'
    <2>1. \A q : Exported(q)' = {} BY <1>2 DEF Exported
    <2> QED BY <1>2, <1>3, <2>1 DEF Standing
<1>5. N \in Nat \ {0} BY BasesFacts
<1>6. WindowAt("daily", 0)'
    <2>1. Earlier("daily")' = none BY <1>3 DEF Earlier
    <2>2. \E d : d = Earlier("daily")' /\ Standing(d)' BY <1>4, <2>1
    <2>3. values' = UNION {Unlimited(CostQuery(j, "daily"))' : j \in 1..0} BY <1>2
    <2>4. next' = (IF "daily" = "daily" THEN 0 ELSE N + 0) + 1 /\ step' = IF 0 = N THEN "limit" ELSE "read"
        BY <1>2, <1>5
    <2> QED BY <2>2, <2>3, <2>4, WindowFactsNext
<1>7. ASSUME collector' = "tags" PROVE TagsAt'
    <2> DEFINE m == Len(cfg.target.keys)
               F == [i \in 1..(2 * m * N) |->
                       [basis  |-> Bases[(((i - 1) \div 2) \div m) + 1],
                        window |-> IF i % 2 = 1 THEN "daily" ELSE "mtd",
                        tagKey |-> cfg.target.keys[(((i - 1) \div 2) % m) + 1]]]
    <2>1. m \in Nat OBVIOUS
    <2>2. Plan' = F BY <1>2, <1>7 DEF Plan, N
    <2> HIDE DEF m
    <2>3. 2 * m * N \in Nat BY <1>5, <2>1
    <2>4. Len(F) = 2 * m * N BY <2>3
    <2>5. next' \in 1..(Len(Plan') + 1) BY <1>2, <2>2, <2>3, <2>4
    <2>6. none = {Plan'[i] : i \in 1..(next' - 1)} BY <1>2, <1>3
    <2> QED BY <1>4, <2>5, <2>6, TagsFactsNext
<1>8. CurAt'
    <2>1. none = {q \in Asked : step = "finish" \/ (step = "tags" /\ q.tagKey = NoKey)}' BY <1>2, <1>3
    <2>2. Standing({q \in Asked : step = "finish" \/ (step = "tags" /\ q.tagKey = NoKey)})'
        BY <1>4, <2>1, Zenon DEF Standing
    <2> QED BY <1>2, <2>2 DEF CurAt
<1>9. RefusedForCause' /\ ~Collected' BY <1>2 DEF RefusedForCause, Collected
<1>10. "daily" \in Windows /\ 0 \in 0..N BY <1>5 DEF Windows
<1> QED BY <1>2, <1>6, <1>7, <1>8, <1>9, <1>10, Zenon DEF CostInv

\* What the metadata collectors return.
LEMMA MetadataResults ==
    ASSUME CollectMetadata
    PROVE  /\ collector \in Metadata /\ collector \notin Collectors /\ collector # NoCollector
           /\ result = "none" /\ result' # "mixed"
<1>1. collector \in Metadata /\ result = "none"
    BY DEF CollectMetadata, MetadataFails, ReadForecast, ReadBudgets, ReadAccounts, ReadCommitments,
           FinishCommitments, ReadAnomalySummary, Metadata
<1>2. result' \in {"failed", "malformed", "series", "ok", "none"}
    <2>1. CASE MetadataFails BY <2>1, Zenon DEF MetadataFails, Return
    <2>2. CASE ReadForecast BY <2>2, Zenon DEF ReadForecast, Return, Finish
    <2>3. CASE ReadBudgets BY <2>3, Zenon DEF ReadBudgets, Return, Finish
    <2>4. CASE ReadAccounts BY <2>4, Zenon DEF ReadAccounts, Return, Finish
    <2>5. CASE ReadCommitments BY <1>1, <2>5, Zenon DEF ReadCommitments
    <2>6. CASE FinishCommitments BY <2>6, Zenon DEF FinishCommitments, Return, Finish
    <2>7. CASE ReadAnomalySummary BY <2>7, Zenon DEF ReadAnomalySummary, Return, Finish
    <2> QED BY <2>1, <2>2, <2>3, <2>4, <2>5, <2>6, <2>7 DEF CollectMetadata
<1> QED BY <1>1, <1>2 DEF Metadata, Collectors, Grouped, NoCollector

\* Each step of a refresh.
LEMMA CostStep ==
    ASSUME BootInv, RefreshInv, CostInv, Refresh \/ Collect
    PROVE  CostInv'
<1>1. CASE Refresh
    <2>1. stage = "running" /\ collector = NoCollector /\ result = "none" BY <1>1, Zenon DEF Refresh
    <2>2. PICK j \in Range(jobs), t \in Range(value.targets) :
              IF t.source \in broken THEN Return("unverified")
              ELSE Begin(j.id.name, [target |-> t, limit |-> value.limit])
        BY <1>1, Zenon DEF Refresh
    <2>3. CASE t.source \in broken
        <3>1. collector' = NoCollector /\ result' = "unverified" BY <2>1, <2>2, <2>3, Zenon DEF Return, inputs
        <3>2. RefusedForCause' /\ ~Collected' BY <3>1 DEF RefusedForCause, Collected
        <3> QED BY <3>1, <3>2 DEF CostInv
    <2>4. CASE t.source \notin broken
        <3>1. Facts(value) BY <2>1 DEF BootInv
        <3>2. PICK i \in 1..Targets : t = Target(i) BY <3>1, TargetsTyped
        <3>3. t \in TargetConfig BY <3>1, <3>2, TargetsTyped DEF TargetFacts
        <3>4. PICK cfg : cfg = [target |-> t, limit |-> value.limit] OBVIOUS
        <3>5. cfg.target.keys \in Seq(STRING) BY <3>3, <3>4 DEF TargetConfig
        <3>6. Begin(j.id.name, cfg) BY <2>2, <2>4, <3>4
        <3> QED BY <2>1, <3>5, <3>6, CostBegins
    <2> QED BY <2>3, <2>4
<1>2. CASE Collect /\ CollectCosts
    <2>1. collector \in Collectors BY <1>2, CollectFrame
    <2>2. Context BY <2>1, ContextHolds
    <2>3. CASE collector \in Grouped \cup {"total"} BY <1>2, <2>2, <2>3, GroupedStep
    <2>4. CASE collector = "tags" BY <1>2, <2>2, <2>4, TagsStep
    <2>5. CASE collector = "cur" BY <1>2, <2>2, <2>5, CurStep
    <2> QED BY <2>1, <2>3, <2>4, <2>5 DEF Collectors
<1>3. CASE Collect /\ CollectMetadata
    <2>1. collector \notin Collectors /\ collector # NoCollector /\ result' # "mixed" BY <1>3, MetadataResults
    <2>2. collector' = collector BY <1>3, CollectFrame DEF inputs
    <2>3. RefusedForCause' /\ ~Collected' BY <2>1, <2>2 DEF RefusedForCause, Collected
    <2> QED BY <2>1, <2>2, <2>3 DEF CostInv, Collectors
<1> QED BY <1>1, <1>2, <1>3 DEF Collect

\* The invariant of Collect holds of every refresh, with those of the start and of
\* the refresh: when a Collect has come so far, its partial has the bounded series
\* of exactly the queries it finished, and an error has its cause.
THEOREM CostInductive == Spec => [](FitInv /\ CostInv)
<1>1. Init => CostInv
    <2> SUFFICES ASSUME Init PROVE CostInv OBVIOUS
    <2>1. collector = NoCollector /\ next = 1 /\ step = "read" /\ values = {} /\ collected = {} /\ result = "none"
        BY DEF Init, Idle
    <2>2. collector \notin Collectors BY <2>1 DEF Collectors, Grouped, NoCollector
    <2> QED BY <2>1, <2>2 DEF CostInv, Collected, RefusedForCause, Collectors
<1>2. FitInv /\ CostInv /\ [Next]_system => CostInv'
    <2> SUFFICES ASSUME FitInv, CostInv, [Next]_system PROVE CostInv' OBVIOUS
    <2>1. BootInv /\ RefreshInv BY DEF FitInv
    <2>2. CASE Refresh \/ Collect BY <2>1, <2>2, CostStep
    <2>3. CASE Validate \/ NewStore \/ NewExporter \/ NewFactory \/ BuildTarget \/ NewJobs \/ NewServer \/ Listen
        <3>1. UNCHANGED vars
            BY <2>3, Zenon DEF Validate, NewStore, NewExporter, NewFactory, BuildTarget, NewJobs, NewServer, Listen
        <3> QED BY <3>1, CostFrame
    <2>4. CASE UNCHANGED system
        <3>1. UNCHANGED vars BY <2>4, Zenon DEF system
        <3> QED BY <3>1, CostFrame
    <2> QED BY <2>2, <2>3, <2>4, Zenon DEF Next, Done
<1> QED BY <1>1, <1>2, FitInductive, PTL DEF Spec

\* The context of a partial that was returned.
LEMMA CollectedContext ==
    ASSUME FitInv, CostInv, Collected
    PROVE  Context /\ Standing(Asked)
<1>1. collector \in Collectors BY DEF Collected
<1> QED BY <1>1, ContextHolds DEF FitInv, CostInv

\* Whatever AWS answers and however ties are broken, a partial has, for every query
\* and every currency, the amount that AWS reported: neither the sums of a month
\* nor the folding into "Other" lose or invent money (mapping.go, tag_mapping.go,
\* cardinality.go, tag/collector.go, cur/collector.go).
THEOREM TotalsAlwaysConserved == Spec => []TotalsConserved
<1>1. FitInv /\ CostInv => TotalsConserved
    <2> SUFFICES ASSUME FitInv, CostInv, Collected, NEW q \in Asked, NEW c \in Currencies(Held(q) \cup Exported(q))
                 PROVE  SumOf({s \in Exported(q) : s.currency = c}) = Reported(q, c)
        BY Zenon DEF TotalsConserved
    <2>1. SumOf(OfCurrency(Exported(q), c)) = Reported(q, c) BY CollectedContext, StandingConserves
    <2> QED BY <2>1 DEF OfCurrency
<1> QED BY <1>1, CostInductive, PTL

\* No query exports more series than the limit of its dimension or tag key, and CUR
\* no more per currency, whatever the number of values AWS has (cardinality.go,
\* limitDimensionGroup; tag/collector.go, LimitValues).
THEOREM SeriesAlwaysBounded == Spec => []SeriesBounded
<1>1. FitInv /\ CostInv => SeriesBounded
    <2> SUFFICES ASSUME FitInv, CostInv, Collected, collector # "total", NEW q \in Asked
                 PROVE  IF collector # "cur" THEN Cardinality(Exported(q)) <= LimitOf(q)
                        ELSE q.tagKey # NoKey =>
                                \A c \in Currencies(Exported(q)) :
                                    Cardinality({s \in Exported(q) : s.currency = c}) <= LimitOf(q)
        BY Zenon DEF SeriesBounded
    <2> QED BY CollectedContext, StandingBounded
<1> QED BY <1>1, CostInductive, PTL

\* What a partial leaves to "Other" is never larger than what it names
\* (the ranking of limitDimensionGroup and
\* LimitValues).
THEOREM LargestAlwaysKept == Spec => []LargestKept
<1>1. FitInv /\ CostInv => LargestKept
    <2> SUFFICES ASSUME FitInv, CostInv, Collected, NEW q \in Asked, NEW r \in Exported(q), NEW s \in Unlimited(q),
                        r.value # Other, s \notin collected, collector = "cur" => r.currency = s.currency
                 PROVE  r.amount >= s.amount
        BY Zenon DEF LargestKept
    <2> QED BY CollectedContext, StandingRanked
<1> QED BY <1>1, CostInductive, PTL

\* Two series of one partial have the same labels, so that the store refuses it,
\* only if two entries of one day have the same name, AWS having named them alike or
\* one of them having no name, or if a tag has the overflow label as its value;
\* sums, CUR, folding and the other queries of the partial add no duplicate
\* (mapping.go, tag_mapping.go, dimension.go; cardinality.go, ErrReservedDimension).
THEOREM DuplicatesAlwaysHaveCause == Spec => []DuplicatesHaveCause
<1>1. FitInv /\ CostInv => DuplicatesHaveCause
    <2> SUFFICES ASSUME FitInv, CostInv, Collected, NEW r \in collected, NEW s \in collected, r # s, Label(r) = Label(s)
                 PROVE  \E q \in Asked :
                           /\ r \in Exported(q)
                           /\ \/ /\ q.window = "daily" /\ collector # "cur"
                                 /\ \E d, e \in service.usage[q] : d # e /\ Labelled(d, r) /\ Labelled(e, r)
                              \/ q.tagKey # NoKey /\ r.value = Other /\ OverflowTag(q)
        BY Zenon DEF DuplicatesHaveCause
    <2> QED BY CollectedContext, StandingDuplicates
<1> QED BY <1>1, CostInductive, PTL

\* A configuration that validation accepts leaves room for every answer: tags and CUR
\* refuse a partial for its number of series only when the tag table has too many
\* currencies, and a query is refused as mixed only with too many values in more
\* than one currency (validation.go, validateTags and validateCURSeriesBudget;
\* tag/collector.go and cur/collector.go, Collect).
THEOREM RefusalsHaveCauses == Spec => []RefusedForCause
<1>1. CostInv => RefusedForCause BY DEF CostInv
<1> QED BY <1>1, CostInductive, PTL

-----------------------------------------------------------------------------
(* The samples of the metadata collectors. *)

\* Sets that are each other's image have the same size.
LEMMA SameSize ==
    ASSUME NEW S, IsFiniteSet(S), NEW T, NEW f, NEW g,
           \A y \in T : \E x \in S : y = f[x], \A x \in S : \E y \in T : x = g[y]
    PROVE  IsFiniteSet(T) /\ Cardinality(T) = Cardinality(S) /\ Cardinality(T) \in Nat
<1>1. IsFiniteSet(T) /\ Cardinality(T) \in Nat /\ Cardinality(T) <= Cardinality(S) BY ImageFinite
<1>2. Cardinality(S) \in Nat /\ Cardinality(S) <= Cardinality(T) BY <1>1, ImageFinite
<1> QED BY <1>1, <1>2

\* The size of a union of disjoint sets.
LEMMA DisjointSize ==
    ASSUME NEW A, NEW B, IsFiniteSet(A), IsFiniteSet(B), A \cap B = {}
    PROVE  /\ IsFiniteSet(A \cup B) /\ Cardinality(A \cup B) = Cardinality(A) + Cardinality(B)
           /\ Cardinality(A) \in Nat /\ Cardinality(B) \in Nat
<1>1. Cardinality(A) \in Nat /\ Cardinality(B) \in Nat BY FS_CardinalityType
<1>2. /\ IsFiniteSet(A \cup B)
      /\ Cardinality(A \cup B) = Cardinality(A) + Cardinality(B) - Cardinality(A \cap B)
    BY FS_Union
<1>3. Cardinality(A \cap B) = 0 BY FS_EmptySet
<1>4. Cardinality(A) + Cardinality(B) - 0 = Cardinality(A) + Cardinality(B) BY <1>1
<1>5. Cardinality(A \cup B) = Cardinality(A) + Cardinality(B) - 0 BY <1>2, <1>3, Zenon
<1> QED BY <1>1, <1>2, <1>4, <1>5, Zenon

\* A scrape makes as many samples of an item as the series counter says.
Counted(i) == IsFiniteSet(Samples(i)) /\ Cardinality(Samples(i)) = ItemSeries(i)

\* When no two items share a sample, SeriesCount says how many samples they have.
LEMMA ExposedCount ==
    ASSUME NEW items, IsFiniteSet(items), \A i \in items : Counted(i),
           \A i, j \in items : i # j => Samples(i) \cap Samples(j) = {}
    PROVE  /\ SeriesCount(items) = Cardinality(UNION {Samples(i) : i \in items})
           /\ SeriesCount(items) \in Nat
<1> DEFINE w == [i \in items |-> ItemSeries(i)]
           E(s) == UNION {Samples(i) : i \in s}
           Z(s) == SumFunctionOnSet(w, s)
           G == {s \in SUBSET items : IsFiniteSet(E(s)) /\ Cardinality(E(s)) = Z(s)}
<1>1. \A i \in items : w[i] = ItemSeries(i) /\ IsFiniteSet(Samples(i)) /\ Cardinality(Samples(i)) = w[i] /\ w[i] \in Int
    <2> SUFFICES ASSUME NEW i \in items
                 PROVE  w[i] = ItemSeries(i) /\ IsFiniteSet(Samples(i)) /\ Cardinality(Samples(i)) = w[i] /\ w[i] \in Int
        OBVIOUS
    <2>1. Counted(i) /\ w[i] = ItemSeries(i) OBVIOUS
    <2>2. IsFiniteSet(Samples(i)) /\ Cardinality(Samples(i)) = ItemSeries(i) BY <2>1 DEF Counted
    <2>3. Cardinality(Samples(i)) \in Nat BY <2>2, FS_CardinalityType
    <2> HIDE DEF w
    <2> QED BY <2>1, <2>2, <2>3
<1>2. SeriesCount(items) = Z(items) BY Zenon DEF SeriesCount, SumFunction
<1> HIDE DEF w
<1>3. ASSUME NEW s \in SUBSET items, \A t \in SUBSET s : t # s => t \in G PROVE s \in G
    <2>1. IsFiniteSet(s) /\ \A i \in s : w[i] \in Int
        <3>1. IsFiniteSet(s) BY FS_Subset
        <3> HIDE DEF G, E, Z
        <3> QED BY <1>1, <3>1
    <2>2. CASE s = {}
        <3>1. E(s) = {} BY <2>2
        <3>2. Z(s) = 0 BY <2>1, <2>2, SumPick
        <3>3. IsFiniteSet(E(s)) /\ Cardinality(E(s)) = 0 BY <3>1, FS_EmptySet
        <3> HIDE DEF E, Z
        <3> QED BY <3>2, <3>3
    <2>3. CASE s # {}
        <3>1. PICK i \in s : TRUE BY <2>3
        <3> DEFINE r == s \ {i}
        <3>2. r \in G BY <1>3, <3>1
        <3>3. Z(s) = w[i] + Z(r) BY <2>1, <3>1, SumRemove
        <3>4. E(s) = Samples(i) \cup E(r) BY <3>1
        <3>5. Samples(i) \cap E(r) = {} BY <3>1
        <3>6. IsFiniteSet(E(r)) /\ Cardinality(E(r)) = Z(r) BY <3>2
        <3>7. IsFiniteSet(Samples(i)) /\ Cardinality(Samples(i)) = w[i] BY <1>1, <3>1
        <3> HIDE DEF E, Z, r
        <3>8. IsFiniteSet(E(s)) /\ Cardinality(E(s)) = Cardinality(Samples(i)) + Cardinality(E(r))
            <4>1. PICK A, B : A = Samples(i) /\ B = E(r) OBVIOUS
            <4>2. IsFiniteSet(A) /\ IsFiniteSet(B) /\ A \cap B = {} BY <3>5, <3>6, <3>7, <4>1, Zenon
            <4>3. IsFiniteSet(A \cup B) /\ Cardinality(A \cup B) = Cardinality(A) + Cardinality(B)
                BY <4>2, DisjointSize, Zenon
            <4> QED BY <3>4, <4>1, <4>3, Zenon
        <3>9. IsFiniteSet(E(s)) /\ Cardinality(E(s)) = Z(s) BY <3>3, <3>6, <3>7, <3>8, Zenon
        <3> QED BY <3>9
    <2> QED BY <2>2, <2>3
<1>4. items \in G
    <2> HIDE DEF G
    <2>1. \A s \in SUBSET items : (\A t \in SUBSET s : t # s => t \in G) => s \in G BY <1>3
    <2>2. \A s \in SUBSET items : s \in G BY <2>1, SubsetInduction, Zenon
    <2> QED BY <2>2
<1>5. Cardinality(E(items)) \in Nat
    <2> HIDE DEF E, Z
    <2> QED BY <1>4, FS_CardinalityType
<1> QED BY <1>2, <1>4, <1>5

\* What a partial of one item exposes.
LEMMA OneExposed ==
    ASSUME NEW i, Counted(i)
    PROVE  /\ UNION {Samples(j) : j \in {i}} = Samples(i)
           /\ SeriesCount({i}) = Cardinality(UNION {Samples(j) : j \in {i}})
           /\ SeriesCount({i}) \in Nat
<1>1. IsFiniteSet({i}) BY FS_Singleton
<1>2. \A j \in {i} : Counted(j) OBVIOUS
<1>3. \A j, k \in {i} : j # k => Samples(j) \cap Samples(k) = {} OBVIOUS
<1>4. UNION {Samples(j) : j \in {i}} = Samples(i) OBVIOUS
<1> QED BY <1>1, <1>2, <1>3, <1>4, ExposedCount

\* A forecast has its three bounds.
LEMMA ForecastCounted ==
    ASSUME NEW i, i.kind = "forecast"
    PROVE  Counted(i) /\ Samples(i) = {<<b, i.basis, i.currency>> : b \in {"mean", "lower", "upper"}}
<1> DEFINE B == {"mean", "lower", "upper"}
           T == {<<b, i.basis, i.currency>> : b \in B}
           f == [b \in B |-> <<b, i.basis, i.currency>>]
           g == [y \in T |-> y[1]]
<1>1. Samples(i) = T BY DEF Samples
<1>2. ItemSeries(i) = 3 BY DEF ItemSeries
<1>3. IsFiniteSet(B) /\ Cardinality(B) = 3
    <2>1. IsFiniteSet({"mean"}) /\ Cardinality({"mean"}) = 1 BY FS_Singleton
    <2>2. IsFiniteSet({"mean"} \cup {"lower"}) /\ Cardinality({"mean"} \cup {"lower"}) = 1 + 1
        BY <2>1, FS_AddElement
    <2> DEFINE D == {"mean"} \cup {"lower"}
    <2>3. "upper" \notin D OBVIOUS
    <2>4. B = D \cup {"upper"} OBVIOUS
    <2>5. IsFiniteSet(D) /\ Cardinality(D) = 2 BY <2>2
    <2> HIDE DEF B, D
    <2>6. IsFiniteSet(D \cup {"upper"}) /\ Cardinality(D \cup {"upper"}) = 2 + 1 BY <2>3, <2>5, FS_AddElement
    <2> QED BY <2>4, <2>6
<1>4. \A y \in T : \E b \in B : y = f[b] OBVIOUS
<1>5. \A b \in B : \E y \in T : b = g[y]
    <2> SUFFICES ASSUME NEW b \in B PROVE \E y \in T : b = g[y] OBVIOUS
    <2>1. <<b, i.basis, i.currency>> \in T /\ <<b, i.basis, i.currency>>[1] = b OBVIOUS
    <2> QED BY <2>1
<1> HIDE DEF B, T, f, g
<1>6. IsFiniteSet(T) /\ Cardinality(T) = Cardinality(B) BY <1>3, <1>4, <1>5, SameSize
<1> QED BY <1>1, <1>2, <1>3, <1>6 DEF Counted, T, B

\* An account has one sample of information.
LEMMA AccountCounted ==
    ASSUME NEW i, i.kind = "account"
    PROVE  Counted(i) /\ Samples(i) = {<<"info", i.id, i.name, i.status>>}
<1>1. Samples(i) = {<<"info", i.id, i.name, i.status>>} BY DEF Samples
<1>2. ItemSeries(i) = 1 BY DEF ItemSeries
<1>3. /\ IsFiniteSet({<<"info", i.id, i.name, i.status>>})
      /\ Cardinality({<<"info", i.id, i.name, i.status>>}) = 1
    BY FS_Singleton
<1> QED BY <1>1, <1>2, <1>3 DEF Counted

\* A commitment has a sample of every figure.
LEMMA CommitmentCounted ==
    ASSUME NEW i, i.kind = "commitment", IsFiniteSet(i.figures)
    PROVE  Counted(i) /\ Samples(i) = {<<f, i.type>> : f \in i.figures}
<1> DEFINE F == i.figures
           T == {<<x, i.type>> : x \in F}
           f == [x \in F |-> <<x, i.type>>]
           g == [y \in T |-> y[1]]
<1>1. Samples(i) = T BY DEF Samples
<1>2. ItemSeries(i) = Cardinality(F) BY DEF ItemSeries
<1>3. \A y \in T : \E b \in F : y = f[b] OBVIOUS
<1>4. \A b \in F : \E y \in T : b = g[y]
    <2> SUFFICES ASSUME NEW b \in F PROVE \E y \in T : b = g[y] OBVIOUS
    <2>1. <<b, i.type>> \in T /\ <<b, i.type>>[1] = b OBVIOUS
    <2> QED BY <2>1
<1> HIDE DEF T, f, g
<1>5. IsFiniteSet(T) /\ Cardinality(T) = Cardinality(F) BY <1>3, <1>4, SameSize
<1> QED BY <1>1, <1>2, <1>5 DEF Counted, T, F

\* A budget has its limit, and its actual and forecasted spend where AWS has them.
LEMMA BudgetCounted ==
    ASSUME NEW i, i.kind = "budget", IsFiniteSet(i.actual), IsFiniteSet(i.forecasted)
    PROVE  /\ Counted(i)
           /\ Samples(i) = {<<"limit", i.name, i.limit>>} \cup {<<"actual", i.name, c>> : c \in i.actual}
                              \cup {<<"forecasted", i.name, c>> : c \in i.forecasted}
<1> DEFINE L == {<<"limit", i.name, i.limit>>}
           A == {<<"actual", i.name, c>> : c \in i.actual}
           F == {<<"forecasted", i.name, c>> : c \in i.forecasted}
<1>1. Samples(i) = (L \cup A) \cup F BY DEF Samples
<1>2. ItemSeries(i) = 1 + Cardinality(i.actual) + Cardinality(i.forecasted) BY DEF ItemSeries
<1>3. ASSUME NEW S, IsFiniteSet(S), NEW tag
      PROVE  /\ IsFiniteSet({<<tag, i.name, c>> : c \in S})
             /\ Cardinality({<<tag, i.name, c>> : c \in S}) = Cardinality(S)
    <2> DEFINE T == {<<tag, i.name, c>> : c \in S}
               f == [x \in S |-> <<tag, i.name, x>>]
               g == [y \in T |-> y[3]]
    <2>1. \A y \in T : \E b \in S : y = f[b] OBVIOUS
    <2>2. \A b \in S : \E y \in T : b = g[y]
        <3> SUFFICES ASSUME NEW b \in S PROVE \E y \in T : b = g[y] OBVIOUS
        <3>1. <<tag, i.name, b>> \in T /\ <<tag, i.name, b>>[3] = b OBVIOUS
        <3> QED BY <3>1
    <2> HIDE DEF T, f, g
    <2>3. IsFiniteSet(T) /\ Cardinality(T) = Cardinality(S) BY <1>3, <2>1, <2>2, SameSize
    <2> QED BY <2>3 DEF T
<1>4. IsFiniteSet(A) /\ Cardinality(A) = Cardinality(i.actual) BY <1>3
<1>5. IsFiniteSet(F) /\ Cardinality(F) = Cardinality(i.forecasted) BY <1>3
<1>6. IsFiniteSet(L) /\ Cardinality(L) = 1 BY FS_Singleton
<1>7. L \cap A = {} /\ (L \cup A) \cap F = {} OBVIOUS
<1> HIDE DEF L, A, F
<1>8. IsFiniteSet(L \cup A) /\ Cardinality(L \cup A) = Cardinality(L) + Cardinality(A)
    BY <1>4, <1>6, <1>7, DisjointSize
<1>9. IsFiniteSet((L \cup A) \cup F) /\ Cardinality((L \cup A) \cup F) = Cardinality(L \cup A) + Cardinality(F)
    BY <1>5, <1>7, <1>8, DisjointSize
<1>10. Cardinality(Samples(i)) = ItemSeries(i) /\ IsFiniteSet(Samples(i))
    BY <1>1, <1>2, <1>4, <1>5, <1>6, <1>8, <1>9
<1> QED BY <1>1, <1>10 DEF Counted, L, A, F

\* The anomalies have two samples, and their impact and last day where there is one.
LEMMA AnomalyCounted ==
    ASSUME NEW i, i.kind = "anomaly", NEW x, i.impact \in {{}, {x}}, NEW d, i.lastDetected \in {{}, {d}}
    PROVE  /\ Counted(i)
           /\ Samples(i) = {<<"active">>, <<"count">>} \cup {<<"impact", y>> : y \in i.impact}
                              \cup {<<"last_detected">> : y \in i.lastDetected}
<1> DEFINE B == {<<"active">>, <<"count">>}
           I == {<<"impact", y>> : y \in i.impact}
           D == {<<"last_detected">> : y \in i.lastDetected}
<1>1. Samples(i) = (B \cup I) \cup D BY DEF Samples
<1>2. ItemSeries(i) = 2 + Cardinality(i.impact) + Cardinality(i.lastDetected) BY DEF ItemSeries
<1>3. IsFiniteSet(B) /\ Cardinality(B) = 2
    <2>1. IsFiniteSet({<<"active">>}) /\ Cardinality({<<"active">>}) = 1 BY FS_Singleton
    <2>2. <<"count">> \notin {<<"active">>} OBVIOUS
    <2>3. /\ IsFiniteSet({<<"active">>} \cup {<<"count">>})
          /\ Cardinality({<<"active">>} \cup {<<"count">>}) = 1 + 1
        BY <2>1, <2>2, FS_AddElement
    <2>4. B = {<<"active">>} \cup {<<"count">>} OBVIOUS
    <2> QED BY <2>3, <2>4
<1>4. \A y : /\ IsFiniteSet({y}) /\ Cardinality({y}) = 1
             /\ IsFiniteSet({}) /\ Cardinality({}) = 0
    BY FS_Singleton, FS_EmptySet
<1>5. IsFiniteSet(I) /\ Cardinality(I) = Cardinality(i.impact)
    <2>1. CASE i.impact = {}
        <3>1. I = {} BY <2>1
        <3> QED BY <1>4, <2>1, <3>1
    <2>2. CASE i.impact = {x}
        <3>1. I = {<<"impact", x>>} BY <2>2
        <3> HIDE DEF I
        <3> QED BY <1>4, <2>2, <3>1
    <2> QED BY <2>1, <2>2
<1>6. IsFiniteSet(D) /\ Cardinality(D) = Cardinality(i.lastDetected)
    <2>1. CASE i.lastDetected = {}
        <3>1. D = {} BY <2>1
        <3> QED BY <1>4, <2>1, <3>1
    <2>2. CASE i.lastDetected = {d}
        <3>1. D = {<<"last_detected">>} BY <2>2
        <3> HIDE DEF D
        <3> QED BY <1>4, <2>2, <3>1
    <2> QED BY <2>1, <2>2
<1>7. B \cap I = {} /\ (B \cup I) \cap D = {} OBVIOUS
<1> HIDE DEF B, I, D
<1>8. IsFiniteSet(B \cup I) /\ Cardinality(B \cup I) = Cardinality(B) + Cardinality(I)
    BY <1>3, <1>5, <1>7, DisjointSize
<1>9. IsFiniteSet((B \cup I) \cup D) /\ Cardinality((B \cup I) \cup D) = Cardinality(B \cup I) + Cardinality(D)
    BY <1>6, <1>7, <1>8, DisjointSize
<1>10. Cardinality(Samples(i)) = ItemSeries(i) /\ IsFiniteSet(Samples(i))
    BY <1>1, <1>2, <1>3, <1>5, <1>6, <1>8, <1>9
<1> QED BY <1>1, <1>10 DEF Counted, B, I, D

-----------------------------------------------------------------------------
(* The invariant of the metadata collectors. *)

\* The commitments have been read one by one.
CommitRead(i) == [type |-> Reads[i].type, part |-> Reads[i].part, figures |-> Filled(Reads[i])]

CommitAt ==
    collector = "commitments" /\ result = "none" =>
        next \in 1..5 /\ values = {CommitRead(i) : i \in 1..(next - 1)}

MetaInv == CommitAt /\ MetadataExposed

\* What the metadata collectors have to expose depends on the inputs.
LEMMA ReportedFrame ==
    ASSUME UNCHANGED inputs
    PROVE  (\A o : ReportedSamples(o)' = ReportedSamples(o)) /\ \A i : CommitRead(i)' = CommitRead(i)
<1>1. collector' = collector /\ config' = config /\ service' = service BY Zenon DEF inputs
<1>2. \A r : Filled(r)' = Filled(r) BY <1>1, Zenon DEF Filled
<1>3. \A i : CommitRead(i)' = CommitRead(i) BY <1>2, Zenon DEF CommitRead
<1>4. \A o : ReportedSamples(o)' = ReportedSamples(o) BY <1>1, <1>2 DEF ReportedSamples
<1> QED BY <1>3, <1>4

\* A refresh of a metadata collector.
LEMMA MetadataContext ==
    ASSUME BootInv, RefreshInv, collector # NoCollector
    PROVE  /\ config.target \in TargetConfig /\ service \in Services[collector]
           /\ config.limit.organizations \in Nat
<1>1. stage = "running" /\ service \in Services[collector] BY DEF RefreshInv
<1>2. PICK i \in 1..Targets : config = Settings(i) BY DEF RefreshInv
<1>3. Facts(value) BY <1>1 DEF BootInv
<1>4. Target(i) \in TargetConfig BY <1>3, TargetsTyped DEF TargetFacts
<1>5. config.target = Target(i) /\ config.limit = value.limit BY <1>2 DEF Settings
<1>6. value.limit.organizations \in Nat BY <1>3 DEF Facts, Integrations
<1> QED BY <1>1, <1>4, <1>5, <1>6

\* A partial without accounts that exposes what was reported: the store changes nothing.
LEMMA ExposesAll ==
    ASSUME UNCHANGED inputs, NEW items, collected' = items, result' # "none",
           collector # "organizations", \A i \in items : i.kind # "account",
           \A o : UNION {Samples(i) : i \in items} = ReportedSamples(o),
           SeriesCount(items) = Cardinality(UNION {Samples(i) : i \in items}), SeriesCount(items) \in Nat
    PROVE  MetaInv'
<1>1. collector' # "organizations" BY Zenon DEF inputs
<1>2. \A o : Published(o)' = items BY DEF Published
<1>3. \A o : Exposed(o)' = UNION {Samples(i) : i \in items} BY <1>2 DEF Exposed
<1>4. \A o : Exposed(o)' = ReportedSamples(o)' BY <1>3, ReportedFrame
<1>5. Accounts(items) = {} BY DEF Accounts
<1>6. Cardinality(Accounts(items)) = 0 BY <1>5, FS_EmptySet
<1>7. \A o : publishedSeries(o)' = SeriesCount(items) - Cardinality(Accounts(items)) + Cardinality(Accounts(items))
    BY <1>2 DEF publishedSeries
<1>8. SeriesCount(items) - 0 + 0 = SeriesCount(items) OBVIOUS
<1>9. \A o : publishedSeries(o)' = Cardinality(Exposed(o)') BY <1>3, <1>6, <1>7, <1>8, Zenon
<1>10. MetadataExposed' BY <1>1, <1>4, <1>9, Zenon DEF MetadataExposed
<1> QED BY <1>10 DEF MetaInv, CommitAt

\* An error leaves nothing to expose.
LEMMA MetaClosed ==
    ASSUME result' \notin {"none", "ok"}
    PROVE  MetaInv'
BY DEF MetaInv, CommitAt, MetadataExposed

\* The forecast exposes what AWS reported (forecast/collector.go, Collect).
LEMMA ForecastExposed ==
    ASSUME ReadForecast
    PROVE  MetaInv'
<1>1. collector = "forecast" BY DEF ReadForecast
<1> DEFINE i == [kind |-> "forecast", basis |-> Bases[1], currency |-> service.currency]
<1>2. CASE ~MapForecast(service.results)
    <2>1. Return("malformed") BY <1>2, Zenon DEF ReadForecast
    <2> QED BY <2>1, MetaClosed DEF Return
<1>3. CASE MapForecast(service.results)
    <2>1. Finish({i}) BY <1>3, Zenon DEF ReadForecast
    <2>2. UNCHANGED inputs /\ collected' = {i} /\ result' = "ok" BY <2>1, Zenon DEF Finish
    <2>3. \A o : ReportedSamples(o) = {<<b, i.basis, i.currency>> : b \in {"mean", "lower", "upper"}}
        BY <1>1 DEF ReportedSamples
    <2>4. i.kind = "forecast" OBVIOUS
    <2> HIDE DEF i
    <2>5. Counted(i) /\ \A o : Samples(i) = ReportedSamples(o) BY <2>3, <2>4, ForecastCounted, Zenon
    <2>6. PICK items : items = {i} OBVIOUS
    <2>7. /\ \A o : UNION {Samples(j) : j \in items} = ReportedSamples(o)
          /\ SeriesCount(items) = Cardinality(UNION {Samples(j) : j \in items}) /\ SeriesCount(items) \in Nat
        BY <2>5, <2>6, OneExposed, Zenon
    <2>8. /\ collected' = items /\ result' # "none" /\ collector # "organizations"
          /\ \A j \in items : j.kind # "account"
        BY <1>1, <2>2, <2>4, <2>6
    <2> QED BY <2>2, <2>7, <2>8, ExposesAll
<1> QED BY <1>2, <1>3

\* Every budget with a configured name is exposed (budget/collector.go, Collect).
LEMMA BudgetsExposed ==
    ASSUME config.target \in TargetConfig, ReadBudgets
    PROVE  MetaInv'
<1> DEFINE names == config.target.names
           found == {b \in service.budgets : b.name \in Range(names)}
           Item(b) == [kind |-> "budget", name |-> b.name, limit |-> b.limit,
                       actual |-> b.actual, forecasted |-> b.forecasted]
           Shown(b) == {<<"limit", b.name, b.limit>>} \cup {<<"actual", b.name, c>> : c \in b.actual}
                          \cup {<<"forecasted", b.name, c>> : c \in b.forecasted}
<1>1. /\ collector = "budgets"
      /\ IF /\ \A b \in found : mapBudget(b)
            /\ \A b, c \in found : b.name = c.name => b = c
            /\ {b.name : b \in found} = Range(names)
         THEN Finish({Item(b) : b \in found}) ELSE Return("malformed")
    BY Zenon DEF ReadBudgets
<1>2. \A o : ReportedSamples(o) = UNION {Shown(b) : b \in found} BY <1>1 DEF ReportedSamples
<1>3. IsFiniteSet(Range(names))
    <2>1. names \in Seq(STRING) BY DEF TargetConfig
    <2>2. Len(names) \in Nat /\ DOMAIN names = 1..Len(names) BY <2>1
    <2>3. IsFiniteSet(1..Len(names)) BY <2>2, FS_Interval
    <2> HIDE DEF names
    <2>4. \A y \in Range(names) : \E k \in 1..Len(names) : y = names[k] BY <2>2 DEF Range
    <2> QED BY <2>3, <2>4, ImageFinite
<1>4. \A b \in found : b.name \in Range(names) OBVIOUS
<1> HIDE DEF found, Shown
<1>5. CASE result' # "ok"
    <2>1. result' = "malformed" BY <1>1, <1>5, Zenon DEF Finish, Return
    <2> QED BY <2>1, MetaClosed
<1>6. CASE result' = "ok"
    <2>1. ~Return("malformed") BY <1>6 DEF Return
    <2>2. /\ \A b \in found : mapBudget(b)
          /\ \A b, c \in found : b.name = c.name => b = c
          /\ Finish({Item(b) : b \in found})
        BY <1>1, <2>1, Zenon
    <2>3. PICK items : items = {Item(b) : b \in found} OBVIOUS
    <2>4. UNCHANGED inputs /\ collected' = items /\ result' # "none" BY <2>2, <2>3, Zenon DEF Finish
    <2>5. ASSUME NEW b \in found
          PROVE  /\ Counted(Item(b)) /\ Samples(Item(b)) = Shown(b)
                 /\ Item(b).name = b.name /\ Item(b).kind = "budget"
        <3>1. b.actual \subseteq {b.limit} /\ b.forecasted \subseteq {b.limit} BY <2>2 DEF mapBudget
        <3>2. IsFiniteSet({b.limit}) BY FS_Singleton
        <3>3. IsFiniteSet(b.actual) /\ IsFiniteSet(b.forecasted) BY <3>1, <3>2, FS_Subset
        <3>4. /\ Item(b).kind = "budget" /\ Item(b).name = b.name /\ Item(b).limit = b.limit
              /\ Item(b).actual = b.actual /\ Item(b).forecasted = b.forecasted
            OBVIOUS
        <3> HIDE DEF Item
        <3>5. /\ Counted(Item(b))
              /\ Samples(Item(b)) = {<<"limit", Item(b).name, Item(b).limit>>}
                                       \cup {<<"actual", Item(b).name, c>> : c \in Item(b).actual}
                                       \cup {<<"forecasted", Item(b).name, c>> : c \in Item(b).forecasted}
            BY <3>3, <3>4, BudgetCounted
        <3>6. Samples(Item(b)) = Shown(b) BY <3>4, <3>5 DEF Shown
        <3> QED BY <3>4, <3>5, <3>6
    <2> HIDE DEF Item
    <2>6. \A i \in items : \E b \in found : i = Item(b) BY <2>3
    <2>7. IsFiniteSet(items)
        <3> DEFINE h == [n \in Range(names) |-> CHOOSE i \in items : i.name = n]
        <3>1. ASSUME NEW i \in items PROVE \E n \in Range(names) : i = h[n]
            <4>1. PICK b \in found : i = Item(b) BY <2>6
            <4>2. i.name = b.name /\ b.name \in Range(names) BY <1>4, <2>5, <4>1
            <4>3. \A j \in items : j.name = b.name => j = i
                <5> SUFFICES ASSUME NEW j \in items, j.name = b.name PROVE j = i OBVIOUS
                <5>1. PICK c \in found : j = Item(c) BY <2>6
                <5>2. c.name = b.name BY <2>5, <5>1
                <5>3. c = b BY <2>2, <5>2
                <5> QED BY <4>1, <5>1, <5>3
            <4>4. (CHOOSE k \in items : k.name = b.name) = i BY <4>2, <4>3
            <4>5. h[b.name] = i BY <4>2, <4>4
            <4> QED BY <4>2, <4>5
        <3> HIDE DEF h
        <3> QED BY <1>3, <3>1, ImageFinite
    <2>8. \A i \in items : Counted(i) BY <2>5, <2>6
    <2>9. ASSUME NEW i \in items, NEW j \in items, i # j PROVE Samples(i) \cap Samples(j) = {}
        <3>1. PICK b \in found : i = Item(b) BY <2>6
        <3>2. PICK c \in found : j = Item(c) BY <2>6
        <3>3. b.name # c.name BY <2>2, <2>9, <3>1, <3>2
        <3>4. \A z \in Shown(b) : z[2] = b.name BY DEF Shown
        <3>5. \A z \in Shown(c) : z[2] = c.name BY DEF Shown
        <3>6. Samples(i) = Shown(b) /\ Samples(j) = Shown(c) BY <2>5, <3>1, <3>2
        <3> QED BY <3>3, <3>4, <3>5, <3>6
    <2>10. SeriesCount(items) = Cardinality(UNION {Samples(i) : i \in items}) /\ SeriesCount(items) \in Nat
        BY <2>7, <2>8, <2>9, ExposedCount
    <2>11. \A o : UNION {Samples(i) : i \in items} = ReportedSamples(o)
        <3> TAKE o
        <3>1. \A z : z \in UNION {Samples(i) : i \in items} <=> \E i \in items : z \in Samples(i) OBVIOUS
        <3>2. \A z : z \in ReportedSamples(o) <=> \E b \in found : z \in Shown(b) BY <1>2
        <3>3. \A b \in found : Item(b) \in items /\ Samples(Item(b)) = Shown(b) BY <2>3, <2>5
        <3>4. \A z : (\E i \in items : z \in Samples(i)) <=> \E b \in found : z \in Shown(b)
            BY <2>6, <3>3, Zenon
        <3> QED BY <3>1, <3>2, <3>4
    <2>12. collector # "organizations" /\ \A i \in items : i.kind # "account" BY <1>1, <2>5, <2>6
    <2> QED BY <2>4, <2>10, <2>11, <2>12, ExposesAll
<1> QED BY <1>5, <1>6

\* Accounts are counted and exposed one by one.
LEMMA AccountsCount ==
    ASSUME NEW items, IsFiniteSet(items), \A i \in items : i.kind = "account",
           \A i, j \in items : i.id = j.id => i = j
    PROVE  /\ Accounts(items) = items
           /\ SeriesCount(items) = Cardinality(items) /\ Cardinality(items) \in Nat
           /\ Cardinality(UNION {Samples(i) : i \in items}) = Cardinality(items)
<1> DEFINE Info(i) == <<"info", i.id, i.name, i.status>>
           U == UNION {Samples(i) : i \in items}
           f == [i \in items |-> Info(i)]
           g == [y \in U |-> CHOOSE i \in items : i.id = y[2]]
<1>1. Accounts(items) = items BY DEF Accounts
<1>2. \A i \in items : Counted(i) /\ Samples(i) = {Info(i)} BY AccountCounted
<1>3. \A i : Info(i)[2] = i.id OBVIOUS
<1> HIDE DEF Info
<1>4. \A i, j \in items : i # j => Samples(i) \cap Samples(j) = {} BY <1>2, <1>3
<1>5. \A y \in U : \E i \in items : y = f[i] BY <1>2
<1>6. ASSUME NEW i \in items PROVE \E y \in U : i = g[y]
    <2>1. Info(i) \in U BY <1>2
    <2>2. (CHOOSE k \in items : k.id = i.id) = i OBVIOUS
    <2> HIDE DEF U
    <2>3. g[Info(i)] = i BY <1>3, <2>1, <2>2
    <2> QED BY <2>1, <2>3
<1> HIDE DEF f, g
<1>7. SeriesCount(items) = Cardinality(U) BY <1>2, <1>4, ExposedCount
<1> HIDE DEF U
<1>8. Cardinality(U) = Cardinality(items) /\ Cardinality(U) \in Nat BY <1>5, <1>6, SameSize
<1> QED BY <1>1, <1>7, <1>8 DEF U

\* An empty list has no elements.
LEMMA EmptyRange ==
    ASSUME NEW s \in Seq(STRING)
    PROVE  Range(s) = {} <=> s = <<>>
<1>1. Len(s) \in Nat /\ DOMAIN s = 1..Len(s) OBVIOUS
<1>2. s = <<>> <=> Len(s) = 0 OBVIOUS
<1>3. Range(s) = {} <=> DOMAIN s = {} BY DEF Range
<1>4. Len(s) = 0 => 1..Len(s) = {} BY <1>1
<1>5. Len(s) # 0 => 1 \in 1..Len(s) BY <1>1
<1> QED BY <1>1, <1>2, <1>3, <1>4, <1>5

\* Every account that is listed or, without a list, observed is exposed
\* (organizationmeta/collector.go, Collect; store.go, mergeParts and publishedSeries).
LEMMA AccountsExposed ==
    ASSUME config.target \in TargetConfig, service \in Services[collector],
           config.limit.organizations \in Nat, ReadAccounts
    PROVE  MetaInv'
<1> DEFINE limit == config.limit.organizations
           list == config.target.ids
           ids == Range(list)
           selected == {a \in service.accounts : ids # {} => a.id \in ids}
           Same == \A a, b \in service.accounts : a.id = b.id => a = b
           Few == ~(Cardinality({a.id : a \in selected}) > limit)
           Item(a) == [kind |-> "account", id |-> a.id, name |-> a.name, status |-> accountStatus(a)]
           Info(a) == <<"info", a.id, a.name, accountStatus(a)>>
<1>1. /\ collector = "organizations"
      /\ \/ Return("malformed") \/ Return("series")
         \/ Same /\ Few /\ Finish({Item(a) : a \in selected})
    BY Zenon DEF ReadAccounts
<1>2. CASE Return("malformed") \/ Return("series")
    <2>1. result' \notin {"none", "ok"} BY <1>2 DEF Return
    <2> QED BY <2>1, MetaClosed
<1>3. CASE Same /\ Few /\ Finish({Item(a) : a \in selected})
    <2>1. PICK items : items = {Item(a) : a \in selected} OBVIOUS
    <2>2. UNCHANGED inputs /\ collected' = items /\ result' # "none" BY <1>3, <2>1, Zenon DEF Finish
    <2>3. config' = config /\ collector' = collector BY <2>2, Zenon DEF inputs
    <2>4. list \in Seq(STRING) BY DEF TargetConfig
    <2>5. ids = {} <=> list = <<>> BY <2>4, EmptyRange
    <2>6. IsFiniteSet(selected) /\ \A a, b \in selected : a.id = b.id => a = b
        <3>1. IsFiniteSet(service.accounts) BY <1>1, MetadataAssumption
        <3>2. selected \subseteq service.accounts OBVIOUS
        <3> HIDE DEF selected
        <3> QED BY <1>3, <3>1, <3>2, FS_Subset
    <2>7. \A o : ReportedSamples(o) = {Info(a) : a \in {x \in service.accounts :
                                          IF list = <<>> THEN x.id \in o ELSE x.id \in ids}}
        BY <1>1 DEF ReportedSamples
    <2> DEFINE allowed(o) == IF list = <<>> THEN o ELSE ids
    <2>8. \A o : ReportedSamples(o) = {Info(a) : a \in {x \in selected : x.id \in allowed(o)}} BY <2>5, <2>7
    <2>9. \A o : Published(o)' = {i \in items : i.kind = "account" => i.id \in allowed(o)}
        BY <2>2, <2>3 DEF Published
    <2> DEFINE A == {a.id : a \in selected}
    <2>10. ~(Cardinality(A) > limit) BY <1>3
    <2>11. \A a \in selected : a.id \in A OBVIOUS
    <2>12. IsFiniteSet(A)
        <3> DEFINE f == [a \in selected |-> a.id]
        <3>1. \A y \in A : \E a \in selected : y = f[a] OBVIOUS
        <3> HIDE DEF f, A, selected
        <3> QED BY <2>6, <3>1, ImageFinite
    <2>13. limit \in Nat OBVIOUS
    <2> HIDE DEF selected, A, allowed, limit, list, ids
    <2>14. ASSUME NEW a \in selected
           PROVE  /\ Samples(Item(a)) = {Info(a)} /\ Item(a) \in items
                  /\ Item(a).id = a.id /\ Item(a).kind = "account"
        <3>1. /\ Item(a).kind = "account" /\ Item(a).id = a.id /\ Item(a).name = a.name
              /\ Item(a).status = accountStatus(a)
            OBVIOUS
        <3>2. Item(a) \in items BY <2>1
        <3> HIDE DEF Item
        <3>3. Samples(Item(a)) = {<<"info", Item(a).id, Item(a).name, Item(a).status>>} BY <3>1, AccountCounted
        <3> QED BY <3>1, <3>2, <3>3
    <2> HIDE DEF Item, Info
    <2>15. \A i \in items : \E a \in selected : i = Item(a) BY <2>1
    <2>16. (\A i \in items : i.kind = "account") /\ \A i, j \in items : i.id = j.id => i = j
        BY <2>6, <2>14, <2>15
    <2>17. IsFiniteSet(items) /\ Cardinality(items) \in Nat /\ Cardinality(items) <= limit
        <3> DEFINE h == [n \in A |-> CHOOSE i \in items : i.id = n]
        <3>1. ASSUME NEW i \in items PROVE \E n \in A : i = h[n]
            <4>1. PICK a \in selected : i = Item(a) BY <2>15
            <4>2. i.id \in A BY <2>11, <2>14, <4>1
            <4>3. (CHOOSE k \in items : k.id = i.id) = i BY <2>16
            <4>4. h[i.id] = i BY <4>2, <4>3
            <4> QED BY <4>2, <4>4
        <3> HIDE DEF h
        <3>2. IsFiniteSet(items) /\ Cardinality(items) \in Nat /\ Cardinality(items) <= Cardinality(A)
            BY <2>12, <3>1, ImageFinite
        <3>3. Cardinality(A) \in Nat BY <2>12, FS_CardinalityType
        <3>4. Cardinality(A) <= limit BY <2>10, <2>13, <3>3
        <3> QED BY <2>13, <3>2, <3>3, <3>4
    <2>18. Accounts(items) = items /\ SeriesCount(items) = Cardinality(items)
        BY <2>16, <2>17, AccountsCount
    <2>19. ASSUME NEW o
           PROVE  /\ Exposed(o)' = ReportedSamples(o)'
                  /\ publishedSeries(o)' = Cardinality(Exposed(o)')
                  /\ Cardinality(Accounts(Published(o)')) <= limit
        <3>1. PICK P : P = {i \in items : i.id \in allowed(o)} OBVIOUS
        <3>2. Published(o)' = P BY <2>9, <2>16, <3>1
        <3>3. IsFiniteSet(P) /\ Cardinality(P) <= Cardinality(items) BY <2>17, <3>1, FS_Subset
        <3>4. (\A i \in P : i.kind = "account") /\ \A i, j \in P : i.id = j.id => i = j BY <2>16, <3>1
        <3>5. /\ Accounts(P) = P /\ Cardinality(P) \in Nat
              /\ Cardinality(UNION {Samples(i) : i \in P}) = Cardinality(P)
            BY <3>3, <3>4, AccountsCount
        <3>6. Exposed(o)' = UNION {Samples(i) : i \in P} BY <3>2 DEF Exposed
        <3>7. publishedSeries(o)' = SeriesCount(items) - Cardinality(Accounts(items)) + Cardinality(Accounts(P))
            BY <2>2, <3>2 DEF publishedSeries
        <3>8. SeriesCount(items) - Cardinality(Accounts(items)) + Cardinality(Accounts(P)) = Cardinality(P)
            <4>1. \A m, n \in Nat : m - m + n = n OBVIOUS
            <4>2. Cardinality(items) - Cardinality(items) + Cardinality(P) = Cardinality(P) BY <2>17, <3>5, <4>1
            <4> QED BY <2>18, <3>5, <4>2, Zenon
        <3>9. UNION {Samples(i) : i \in P} = ReportedSamples(o)
            <4>1. \A z : z \in UNION {Samples(i) : i \in P} <=> \E i \in P : z \in Samples(i) OBVIOUS
            <4>2. \A z : z \in ReportedSamples(o) <=> \E a \in selected : a.id \in allowed(o) /\ z = Info(a) BY <2>8
            <4>3. \A i : i \in P <=> \E a \in selected : i = Item(a) /\ a.id \in allowed(o) BY <2>14, <2>15, <3>1
            <4>4. \A a \in selected : \A z : z \in Samples(Item(a)) <=> z = Info(a) BY <2>14
            <4> QED BY <4>1, <4>2, <4>3, <4>4
        <3>10. ReportedSamples(o)' = ReportedSamples(o) BY <2>2, ReportedFrame
        <3>11. Cardinality(P) <= limit BY <2>13, <2>17, <3>3, <3>5
        <3> QED BY <3>2, <3>5, <3>6, <3>7, <3>8, <3>9, <3>10, <3>11, Zenon
    <2>20. limit = config'.limit.organizations BY <2>3 DEF limit
    <2>21. MetadataExposed' BY <2>19, <2>20, Zenon DEF MetadataExposed, Accounts
    <2> QED BY <2>2, <2>21 DEF MetaInv, CommitAt
<1> QED BY <1>1, <1>2, <1>3

\* The four requests.
LEMMA ReadsFacts ==
    /\ Len(Reads) = 4 /\ Range(Reads) = {Reads[i] : i \in 1..4}
    /\ \A i \in 1..4 : Reads[i].type \in {"savings_plan", "reservation"}
<1>1. Len(Reads) = 4 /\ DOMAIN Reads = 1..4 BY DEF Reads
<1>2. \A i \in 1..4 : Reads[i].type \in {"savings_plan", "reservation"} BY DEF Reads
<1> QED BY <1>1, <1>2 DEF Range

\* A request fills in some of six figures.
LEMMA FilledFinite ==
    \E all : IsFiniteSet(all) /\ \A r : Filled(r) \subseteq all
<1> DEFINE f == <<"utilization_ratio", "net_savings", "unused_hours", "coverage_ratio", "covered_spend", "on_demand_cost">>
           all == {"utilization_ratio", "net_savings", "unused_hours", "coverage_ratio", "covered_spend", "on_demand_cost"}
<1>1. \A r : Filled(r) \subseteq all
    <2> TAKE r
    <2>1. Figures(r) \subseteq all
        <3>1. CASE r.part = "utilization" /\ r.type = "savings_plan" BY <3>1 DEF Figures
        <3>2. CASE r.part = "utilization" /\ r.type = "reservation" BY <3>2 DEF Figures
        <3>3. CASE r.part = "coverage" /\ r.type = "savings_plan" BY <3>3 DEF Figures
        <3>4. CASE /\ ~(r.part = "utilization" /\ r.type = "savings_plan")
                   /\ ~(r.part = "utilization" /\ r.type = "reservation")
                   /\ ~(r.part = "coverage" /\ r.type = "savings_plan")
            BY <3>4 DEF Figures
        <3> QED BY <3>1, <3>2, <3>3, <3>4
    <2>2. {"covered_spend", "on_demand_cost"} \subseteq all OBVIOUS
    <2> HIDE DEF all
    <2>3. CASE r = Reads[2] BY <2>1, <2>2, <2>3 DEF Filled
    <2>4. CASE r # Reads[2] BY <2>1, <2>4 DEF Filled
    <2> QED BY <2>3, <2>4
<1>2. /\ f[1] = "utilization_ratio" /\ f[2] = "net_savings" /\ f[3] = "unused_hours"
      /\ f[4] = "coverage_ratio" /\ f[5] = "covered_spend" /\ f[6] = "on_demand_cost"
    OBVIOUS
<1> HIDE DEF f
<1>3. \A y \in all : \E k \in 1..6 : y = f[k] BY <1>2
<1>4. IsFiniteSet(1..6)
    <2>1. 1 \in Int /\ 6 \in Int OBVIOUS
    <2> QED BY <2>1, FS_Interval, Zenon
<1> HIDE DEF all
<1>5. IsFiniteSet(all) BY <1>3, <1>4, ImageFinite
<1> QED BY <1>1, <1>5

\* The summaries merged by type lose no figure of the four requests
\* (commitment/collector.go, mergeSummaries).
LEMMA CommitmentsExposed ==
    ASSUME MetaInv, FinishCommitments
    PROVE  MetaInv'
<1> DEFINE types == {"savings_plan", "reservation"}
           V(i) == CommitRead(i)
<1>1. /\ collector = "commitments" /\ result = "none" /\ next > Len(Reads)
      /\ Return("series") \/ Finish({mergeSummaries(t) : t \in types})
    BY Zenon DEF FinishCommitments
<1>2. next \in 1..5 /\ values = {CommitRead(i) : i \in 1..(next - 1)} BY <1>1 DEF MetaInv, CommitAt
<1>3. next - 1 = 4 BY <1>1, <1>2, ReadsFacts
<1>4. values = {V(i) : i \in 1..4} BY <1>2, <1>3
<1>5. CASE Return("series")
    <2>1. result' \notin {"none", "ok"} BY <1>5 DEF Return
    <2> QED BY <2>1, MetaClosed
<1>6. CASE Finish({mergeSummaries(t) : t \in types})
    <2>1. PICK items : items = {mergeSummaries(t) : t \in types} OBVIOUS
    <2>2. UNCHANGED inputs /\ collected' = items /\ result' # "none" BY <1>6, <2>1, Zenon DEF Finish
    <2>3. PICK all : IsFiniteSet(all) /\ \A r : Filled(r) \subseteq all BY FilledFinite
    <2>4. \A i \in 1..4 : V(i).type = Reads[i].type /\ V(i).figures = Filled(Reads[i]) BY DEF CommitRead
    <2> HIDE DEF V
    <2>5. ASSUME NEW t \in types
          PROVE  /\ mergeSummaries(t).kind = "commitment" /\ mergeSummaries(t).type = t
                 /\ \A x : x \in mergeSummaries(t).figures <=>
                       \E i \in 1..4 : Reads[i].type = t /\ x \in Filled(Reads[i])
        <3>1. /\ mergeSummaries(t).kind = "commitment" /\ mergeSummaries(t).type = t
              /\ mergeSummaries(t).figures = UNION {s.figures : s \in {x \in values : x.type = t}}
            BY DEF mergeSummaries
        <3>2. \A x : x \in mergeSummaries(t).figures <=> \E s \in values : s.type = t /\ x \in s.figures BY <3>1
        <3>3. \A x : (\E s \in values : s.type = t /\ x \in s.figures)
                       <=> \E i \in 1..4 : V(i).type = t /\ x \in V(i).figures
            BY <1>4
        <3> QED BY <2>4, <3>1, <3>2, <3>3
    <2>6. ASSUME NEW t \in types
          PROVE  /\ Counted(mergeSummaries(t))
                 /\ Samples(mergeSummaries(t)) = {<<x, t>> : x \in mergeSummaries(t).figures}
        <3>1. mergeSummaries(t).figures \subseteq all BY <2>3, <2>5
        <3>2. IsFiniteSet(mergeSummaries(t).figures) BY <2>3, <3>1, FS_Subset
        <3>3. /\ Counted(mergeSummaries(t))
              /\ Samples(mergeSummaries(t)) = {<<x, mergeSummaries(t).type>> : x \in mergeSummaries(t).figures}
            BY <2>5, <3>2, CommitmentCounted
        <3> QED BY <2>5, <3>3
    <2>7. \A j \in items : \E t \in types : j = mergeSummaries(t) BY <2>1
    <2>8. IsFiniteSet(items)
        <3> DEFINE f == <<mergeSummaries("savings_plan"), mergeSummaries("reservation")>>
        <3>1. f[1] = mergeSummaries("savings_plan") /\ f[2] = mergeSummaries("reservation") OBVIOUS
        <3> HIDE DEF f
        <3>2. \A j \in items : \E k \in 1..2 : j = f[k] BY <2>7, <3>1
        <3>3. IsFiniteSet(1..2)
            <4>1. 1 \in Int /\ 2 \in Int OBVIOUS
            <4> QED BY <4>1, FS_Interval, Zenon
        <3> QED BY <3>2, <3>3, ImageFinite
    <2>9. \A j \in items : Counted(j) BY <2>6, <2>7
    <2>10. ASSUME NEW j \in items, NEW k \in items, j # k PROVE Samples(j) \cap Samples(k) = {}
        <3>1. PICK t \in types : j = mergeSummaries(t) BY <2>7
        <3>2. PICK u \in types : k = mergeSummaries(u) BY <2>7
        <3>3. t # u BY <2>10, <3>1, <3>2
        <3>4. (\A z \in Samples(j) : z[2] = t) /\ \A z \in Samples(k) : z[2] = u BY <2>6, <3>1, <3>2
        <3> QED BY <3>3, <3>4
    <2>11. SeriesCount(items) = Cardinality(UNION {Samples(i) : i \in items}) /\ SeriesCount(items) \in Nat
        BY <2>8, <2>9, <2>10, ExposedCount
    <2>12. \A o : UNION {Samples(i) : i \in items} = ReportedSamples(o)
        <3> TAKE o
        <3>1. ReportedSamples(o) = UNION {{<<f, r.type>> : f \in Filled(r)} : r \in Range(Reads)}
            BY <1>1 DEF ReportedSamples
        <3>2. \A z : z \in ReportedSamples(o) <=>
                 \E i \in 1..4 : \E x \in Filled(Reads[i]) : z = <<x, Reads[i].type>>
            <4> DEFINE P(r) == {<<f, r.type>> : f \in Filled(r)}
            <4>1. \A z : z \in ReportedSamples(o) <=> \E r \in Range(Reads) : z \in P(r) BY <3>1
            <4>2. \A z, r : z \in P(r) <=> \E x \in Filled(r) : z = <<x, r.type>> OBVIOUS
            <4> HIDE DEF P
            <4>3. \A r : r \in Range(Reads) <=> \E i \in 1..4 : r = Reads[i] BY ReadsFacts
            <4> QED BY <4>1, <4>2, <4>3
        <3>3. \A z : z \in UNION {Samples(i) : i \in items} <=>
                 \E t \in types : \E x \in mergeSummaries(t).figures : z = <<x, t>>
            <4>1. \A z : z \in UNION {Samples(i) : i \in items} <=> \E i \in items : z \in Samples(i) OBVIOUS
            <4>2. \A t \in types : mergeSummaries(t) \in items BY <2>1
            <4>3. \A t \in types : \A z : z \in Samples(mergeSummaries(t)) <=>
                     \E x \in mergeSummaries(t).figures : z = <<x, t>>
                BY <2>6
            <4> HIDE DEF types
            <4> QED BY <2>7, <4>1, <4>2, <4>3
        <3>4. \A z : (\E t \in types : \E x \in mergeSummaries(t).figures : z = <<x, t>>) <=>
                 \E i \in 1..4 : \E x \in Filled(Reads[i]) : z = <<x, Reads[i].type>>
            <4>1. \A i \in 1..4 : Reads[i].type \in types BY ReadsFacts
            <4> HIDE DEF types
            <4> QED BY <2>5, <4>1
        <3> QED BY <3>2, <3>3, <3>4
    <2>13. collector # "organizations" /\ \A i \in items : i.kind # "account" BY <1>1, <2>5, <2>7
    <2> QED BY <2>2, <2>11, <2>12, <2>13, ExposesAll
<1> QED BY <1>1, <1>5, <1>6

\* The summary of the anomalies has an impact and a last day exactly when one of
\* them does (anomaly/collector.go, Collect).
LEMMA AnomaliesExposed ==
    ASSUME ReadAnomalySummary
    PROVE  MetaInv'
<1> DEFINE As == service.anomalies
           ends == UNION {a.end : a \in As}
           i == [kind |-> "anomaly", count |-> Cardinality(As),
                 active |-> \E a \in As : anomalyEndIsActive(a),
                 impact |-> IF \E a \in As : a.impact # {} THEN {"USD"} ELSE {},
                 lastDetected |-> IF ends = {} THEN {} ELSE {Max(ends)}]
<1>1. collector = "anomalies" /\ (Return("series") \/ Finish({i})) BY Zenon DEF ReadAnomalySummary
<1>2. CASE Return("series")
    <2>1. result' \notin {"none", "ok"} BY <1>2 DEF Return
    <2> QED BY <2>1, MetaClosed
<1>3. CASE Finish({i})
    <2>1. PICK items : items = {i} OBVIOUS
    <2>2. UNCHANGED inputs /\ collected' = items /\ result' # "none" BY <1>3, <2>1, Zenon DEF Finish
    <2>3. /\ i.kind = "anomaly"
          /\ i.impact = IF \E a \in As : a.impact # {} THEN {"USD"} ELSE {}
          /\ i.lastDetected = IF ends = {} THEN {} ELSE {Max(ends)}
        OBVIOUS
    <2>4. ends = {} <=> ~ \E a \in As : a.end # {} OBVIOUS
    <2> HIDE DEF i, ends
    <2>5. PICK d : d = Max(ends) OBVIOUS
    <2>6. i.impact \in {{}, {"USD"}} /\ i.lastDetected \in {{}, {d}} BY <2>3, <2>5
    <2>7. /\ Counted(i)
          /\ Samples(i) = {<<"active">>, <<"count">>} \cup {<<"impact", y>> : y \in i.impact}
                              \cup {<<"last_detected">> : y \in i.lastDetected}
        BY <2>3, <2>6, AnomalyCounted
    <2>8. \A o : ReportedSamples(o) = {<<"active">>, <<"count">>}
                                         \cup {<<"impact", "USD">> : a \in {x \in As : x.impact # {}}}
                                         \cup {<<"last_detected">> : a \in {x \in As : x.end # {}}}
        BY <1>1 DEF ReportedSamples
    <2>9. {<<"impact", y>> : y \in i.impact} = {<<"impact", "USD">> : a \in {x \in As : x.impact # {}}}
        <3>1. CASE \E a \in As : a.impact # {} BY <2>3, <3>1
        <3>2. CASE ~ \E a \in As : a.impact # {} BY <2>3, <3>2
        <3> QED BY <3>1, <3>2
    <2>10. {<<"last_detected">> : y \in i.lastDetected} = {<<"last_detected">> : a \in {x \in As : x.end # {}}}
        <3>1. CASE \E a \in As : a.end # {} BY <2>3, <2>4, <3>1
        <3>2. CASE ~ \E a \in As : a.end # {} BY <2>3, <2>4, <3>2
        <3> QED BY <3>1, <3>2
    <2>11. \A o : Samples(i) = ReportedSamples(o) BY <2>7, <2>8, <2>9, <2>10, Zenon
    <2>12. /\ \A o : UNION {Samples(j) : j \in items} = ReportedSamples(o)
           /\ SeriesCount(items) = Cardinality(UNION {Samples(j) : j \in items}) /\ SeriesCount(items) \in Nat
        BY <2>1, <2>7, <2>11, OneExposed, Zenon
    <2>13. collector # "organizations" /\ \A j \in items : j.kind # "account" BY <1>1, <2>1, <2>3
    <2> QED BY <2>2, <2>12, <2>13, ExposesAll
<1> QED BY <1>1, <1>2, <1>3

\* A commitment more is read.
LEMMA CommitmentStep ==
    ASSUME MetaInv, ReadCommitments
    PROVE  MetaInv'
<1>1. /\ collector = "commitments" /\ result = "none" /\ next <= Len(Reads)
      /\ values' = values \cup {CommitRead(next)} /\ next' = next + 1 /\ UNCHANGED inputs /\ result' = result
    BY Zenon DEF ReadCommitments, CommitRead
<1>2. next \in 1..5 /\ values = {CommitRead(i) : i \in 1..(next - 1)} BY <1>1 DEF MetaInv, CommitAt
<1>3. next' \in 1..5 /\ next' - 1 = next /\ 1..next = (1..(next - 1)) \cup {next} BY <1>1, <1>2, ReadsFacts
<1>4. values' = {CommitRead(i) : i \in 1..next} BY <1>1, <1>2, <1>3
<1>5. \A i : CommitRead(i)' = CommitRead(i) BY <1>1, ReportedFrame
<1>6. values' = {CommitRead(i)' : i \in 1..(next' - 1)} BY <1>3, <1>4, <1>5
<1>7. CommitAt' BY <1>3, <1>6, Zenon DEF CommitAt
<1>8. MetadataExposed' BY <1>1 DEF MetadataExposed
<1> QED BY <1>7, <1>8 DEF MetaInv

\* What stays when nothing of Collect changes.
LEMMA MetaFrame ==
    ASSUME MetaInv, UNCHANGED vars
    PROVE  MetaInv'
<1>1. /\ UNCHANGED inputs /\ collector' = collector /\ next' = next /\ values' = values
      /\ collected' = collected /\ result' = result
    BY Zenon DEF vars, inputs
<1>2. (\A o : ReportedSamples(o)' = ReportedSamples(o)) /\ \A i : CommitRead(i)' = CommitRead(i) BY <1>1, ReportedFrame
<1>3. CommitAt' BY <1>1, <1>2 DEF MetaInv, CommitAt
<1>4. config' = config BY Zenon DEF vars
<1>5. \A o : Published(o)' = Published(o) BY <1>1, <1>4 DEF Published
<1>6. \A o : Exposed(o)' = Exposed(o) /\ publishedSeries(o)' = publishedSeries(o)
    BY <1>1, <1>5 DEF Exposed, publishedSeries
<1>7. MetadataExposed'
    <2> SUFFICES ASSUME collector' \in Metadata, result' = "ok", NEW o \in SUBSET AccountIDs
                 PROVE  /\ Exposed(o)' = ReportedSamples(o)'
                        /\ publishedSeries(o)' = Cardinality(Exposed(o)')
                        /\ collector' = "organizations" =>
                              Cardinality(Accounts(Published(o)')) <= config'.limit.organizations
        BY Zenon DEF MetadataExposed, Accounts
    <2>1. /\ Exposed(o) = ReportedSamples(o)
          /\ publishedSeries(o) = Cardinality(Exposed(o))
          /\ collector = "organizations" => Cardinality(Accounts(Published(o))) <= config.limit.organizations
        BY <1>1, Zenon DEF MetaInv, MetadataExposed
    <2> QED BY <1>1, <1>2, <1>4, <1>5, <1>6, <2>1, Zenon
<1> QED BY <1>3, <1>7 DEF MetaInv

\* Each step of a refresh keeps what the metadata collectors expose.
LEMMA MetaStep ==
    ASSUME BootInv, RefreshInv, CostInv, MetaInv, Refresh \/ Collect
    PROVE  MetaInv'
<1>1. CASE Refresh
    <2>1. collector = NoCollector /\ result = "none" BY <1>1, Zenon DEF Refresh
    <2>2. next = 1 /\ values = {} BY <2>1 DEF CostInv
    <2>3. PICK j \in Range(jobs), t \in Range(value.targets) :
              IF t.source \in broken THEN Return("unverified")
              ELSE Begin(j.id.name, [target |-> t, limit |-> value.limit])
        BY <1>1, Zenon DEF Refresh
    <2>4. CASE t.source \in broken
        <3>1. result' = "unverified" BY <2>3, <2>4, Zenon DEF Return
        <3> QED BY <3>1, MetaClosed
    <2>5. CASE t.source \notin broken
        <3>1. next' = 1 /\ values' = {} /\ result' = "none" BY <2>1, <2>2, <2>3, <2>5, Zenon DEF Begin
        <3>2. values' = {CommitRead(i)' : i \in 1..(next' - 1)} BY <3>1
        <3>3. next' \in 1..5 BY <3>1
        <3>4. CommitAt' BY <3>2, <3>3, Zenon DEF CommitAt
        <3>5. MetadataExposed' BY <3>1 DEF MetadataExposed
        <3> QED BY <3>4, <3>5 DEF MetaInv
    <2> QED BY <2>4, <2>5
<1>2. CASE Collect /\ CollectCosts
    <2>1. collector \in Collectors /\ UNCHANGED inputs BY <1>2, CollectFrame
    <2>2. collector' \in Collectors BY <2>1 DEF inputs
    <2>3. collector' # "commitments" /\ collector' \notin Metadata BY <2>2 DEF Collectors, Grouped, Metadata
    <2> QED BY <2>3 DEF MetaInv, CommitAt, MetadataExposed
<1>3. CASE Collect /\ CollectMetadata
    <2>1. collector # NoCollector BY <1>3, MetadataResults
    <2>2. /\ config.target \in TargetConfig /\ service \in Services[collector]
          /\ config.limit.organizations \in Nat
        BY <2>1, MetadataContext
    <2>3. CASE MetadataFails
        <3>1. result' = "failed" BY <2>3, Zenon DEF MetadataFails, Return
        <3> QED BY <3>1, MetaClosed
    <2>4. CASE ReadForecast BY <2>4, ForecastExposed
    <2>5. CASE ReadBudgets BY <2>2, <2>5, BudgetsExposed
    <2>6. CASE ReadAccounts BY <2>2, <2>6, AccountsExposed
    <2>7. CASE ReadCommitments BY <2>7, CommitmentStep
    <2>8. CASE FinishCommitments BY <2>8, CommitmentsExposed
    <2>9. CASE ReadAnomalySummary BY <2>9, AnomaliesExposed
    <2> QED BY <1>3, <2>3, <2>4, <2>5, <2>6, <2>7, <2>8, <2>9 DEF CollectMetadata
<1> QED BY <1>1, <1>2, <1>3 DEF Collect

\* Whatever AWS answers to the metadata collectors, and whatever accounts the store
\* has seen in the costs of the target when it publishes the partial, a scrape exposes
\* every figure that AWS reported for what is selected, once, and no other, the
\* series counter says how many, and the accounts are within their limit
\* (commitment/collector.go, mergeSummaries; snapshot.go, SeriesCount; store.go,
\* mergeParts and publishedSeries; metrics/cost.go, Collect).
THEOREM MetadataAlwaysExposed == Spec => []MetadataExposed
<1>1. Init => MetaInv
    <2> SUFFICES ASSUME Init PROVE MetaInv OBVIOUS
    <2>1. collector = NoCollector /\ result = "none" BY DEF Init, Idle
    <2> QED BY <2>1 DEF MetaInv, CommitAt, MetadataExposed, NoCollector
<1>2. FitInv /\ CostInv /\ MetaInv /\ [Next]_system => MetaInv'
    <2> SUFFICES ASSUME FitInv, CostInv, MetaInv, [Next]_system PROVE MetaInv' OBVIOUS
    <2>1. BootInv /\ RefreshInv BY DEF FitInv
    <2>2. CASE Refresh \/ Collect BY <2>1, <2>2, MetaStep
    <2>3. CASE Validate \/ NewStore \/ NewExporter \/ NewFactory \/ BuildTarget \/ NewJobs \/ NewServer \/ Listen
        <3>1. UNCHANGED vars
            BY <2>3, Zenon DEF Validate, NewStore, NewExporter, NewFactory, BuildTarget, NewJobs, NewServer, Listen
        <3> QED BY <3>1, MetaFrame
    <2>4. CASE UNCHANGED system
        <3>1. UNCHANGED vars BY <2>4, Zenon DEF system
        <3> QED BY <3>1, MetaFrame
    <2> QED BY <2>2, <2>3, <2>4, Zenon DEF Next, Done
<1>3. MetaInv => MetadataExposed BY DEF MetaInv
<1> QED BY <1>1, <1>2, <1>3, CostInductive, PTL DEF Spec
=============================================================================
