------------------------------ MODULE Startup ------------------------------
(***************************************************************************)
(* From a configuration to the first refresh: Validate                     *)
(* (config/validation.go), the construction of the process by Run and      *)
(* buildJobs (app/bootstrap.go) through the constructors of the store, the *)
(* metrics, the AWS clients, the collectors, the scheduler and the HTTP    *)
(* server, and then one Collect of one of the jobs, as CostCollection and  *)
(* MetadataCollection have it.                                             *)
(*                                                                         *)
(* A setting that is only compared with a range of its own is a member of  *)
(* value.invalid when it is outside, so that validation and a constructor  *)
(* that both insist on it name the same setting.  Durations are integers.  *)
(***************************************************************************)
EXTENDS MetadataCollection, SequencesExt

CONSTANTS
    Values,      \* the configurations
    Tries        \* bound: <<configuration, collector>> whose refreshes are explored

CostNames == <<"total", "service", "region", "account", "forecast">>
Integrations == {"cost_explorer", "organizations", "budgets", "commitments", "anomalies", "tags", "cur"}

\* A target of the configuration: integrations are those enabled, ids, names,
\* keys, columns and linked the lists of Organizations, Budgets, tags, CUR and
\* the filters; no role stands for credentials that are used directly.
TargetConfig ==
    [name : STRING, account : STRING, source : STRING, required : BOOLEAN,
     role : [arn : STRING, account : STRING, external : STRING],
     integrations : SUBSET Integrations,
     ids : Seq(STRING), names : Seq(STRING), keys : Seq(STRING), columns : Seq(STRING), linked : Seq(STRING),
     queryTimeout : Nat, pollInterval : Nat]

\* The whole: sources are the credential sources that pass validation.
Config ==
    [targets : Seq(TargetConfig), sources : SUBSET STRING, invalid : SUBSET STRING,
     collectors : SUBSET Range(CostNames), predictionInterval : Nat, requestTimeout : Nat,
     freshnessTTL : Nat, staleAfter : Nat,
     interval : [Integrations -> Nat], pages : [Integrations -> Nat],
     limit : [(Integrations \ {"cost_explorer"}) \cup {"dimensions"} -> Nat]]

ASSUME StartupAssumption == \A v \in Values : v \in Config

VARIABLES
    value,       \* the configuration
    stage,       \* how far Run has come
    known,       \* the collectors known to the metrics
    broken,      \* credential sources that could not be loaded
    at,          \* the next target of buildJobs
    jobs, required    \* what buildJobs has collected

boot == <<value, stage, known, broken, at, jobs, required>>
system == <<boot, vars>>

NoRole == [arn |-> Blank, account |-> Blank, external |-> Blank]

Init ==
    /\ value \in Values /\ stage = "loaded"
    /\ known = <<>> /\ broken = {} /\ at = 1 /\ jobs = <<>> /\ required = <<>>
    /\ Idle

-----------------------------------------------------------------------------
(* Validate. *)

Unique(seq) == IsInjective(seq) /\ Blank \notin Range(seq)

validateBase ==
    /\ value.invalid = {} /\ value.targets # <<>> /\ value.requestTimeout > 0
    /\ \A k \in DOMAIN value.interval : value.interval[k] > value.requestTimeout
    /\ \A k \in DOMAIN value.limit : value.limit[k] > 0
    /\ \A k \in DOMAIN value.pages : value.pages[k] > 0
    /\ value.collectors # {}
    /\ "forecast" \in value.collectors => value.predictionInterval \in 80..99
    /\ value.freshnessTTL >= value.interval.cost_explorer
    /\ value.staleAfter >= value.freshnessTTL

\* The role is of the target's account, and the external ID is set.
validateAssumeRole(t) ==
    t.role # NoRole => t.role.account = t.account /\ t.role.external # Blank

validateFilters(t) == Unique(t.linked) /\ Range(t.linked) \subseteq AccountIDs

\* Mutant of validateOrganizations: the list is not measured.
validateOrganizationsAnyLength(t) ==
    Enabled(t, "organizations") => Unique(t.ids) /\ Range(t.ids) \subseteq AccountIDs

validateOrganizations(t) ==
    Enabled(t, "organizations") =>
        IF t.ids = <<>>
        THEN /\ Enabled(t, "cost_explorer") /\ "account" \in value.collectors
             /\ value.limit.organizations >= value.limit.dimensions
        ELSE /\ Len(t.ids) <= value.limit.organizations
             /\ Unique(t.ids) /\ Range(t.ids) \subseteq AccountIDs

\* Mutant of validateBudgets: a budget is taken for one series.
validateBudgetsOneSeries(t) ==
    Enabled(t, "budgets") => t.names # <<>> /\ Len(t.names) <= value.limit.budgets /\ Unique(t.names)

validateBudgets(t) ==
    Enabled(t, "budgets") => t.names # <<>> /\ Len(t.names) * 3 <= value.limit.budgets /\ Unique(t.names)

validateCUR(t) ==
    Enabled(t, "cur") =>
        /\ t.queryTimeout > value.requestTimeout /\ t.queryTimeout < value.interval.cur
        /\ t.pollInterval > 0 /\ t.pollInterval < t.queryTimeout
        /\ Unique(t.columns)

\* All targets together: names, accounts, roles, and sources used directly.
validateDistinct ==
    LET direct == SelectSeq(value.targets, LAMBDA t : t.role = NoRole)
        assumed == SelectSeq(value.targets, LAMBDA t : t.role # NoRole)
        Fields(seq, f) == [i \in DOMAIN seq |-> seq[i][f]]
    IN  /\ Unique(Fields(value.targets, "name")) /\ Unique(Fields(value.targets, "account"))
        /\ Unique(Fields(direct, "source")) /\ IsInjective(Fields(assumed, "role"))

validateTargets ==
    /\ validateDistinct
    /\ \A t \in Range(value.targets) :
          /\ t.account \in AccountIDs /\ t.source \in value.sources /\ t.integrations # {}
          /\ t.required => Enabled(t, "cost_explorer")
          /\ validateAssumeRole(t) /\ validateFilters(t)
          /\ validateOrganizations(t) /\ validateBudgets(t) /\ validateCUR(t)
          /\ validateTags(t, value.limit) /\ validateCURSeriesBudget(t, value.limit)
    /\ \E t \in Range(value.targets) : t.required

Validate ==
    /\ stage = "loaded"
    /\ stage' = IF validateBase /\ value.sources # {} /\ validateTargets THEN "validated" ELSE "rejected"
    /\ UNCHANGED <<value, known, broken, at, jobs, required, vars>>

-----------------------------------------------------------------------------
(* Run. *)

\* A constructor's conditions hold, or Run returns its error.
Construct(from, ok, to) ==
    /\ stage = from
    /\ stage' = IF ok THEN to ELSE "failed"

Valid(settings) == settings \cap value.invalid = {}

\* A collector that is switched on.
On(name, enabled) == IF name \in enabled THEN <<name>> ELSE <<>>

\* The cost collectors that configuredCollectorIDs lists.
Costs ==
    On("total", value.collectors) \o On("service", value.collectors) \o On("region", value.collectors)
        \o On("account", value.collectors) \o On("forecast", value.collectors)

Id(t, name) == [target |-> t.name, name |-> name]
ValidIds(seq) == IsInjective(seq) /\ \A id \in Range(seq) : id.target # Blank

\* Mutant of configuredCollectorIDs: tags are expected from CUR as well.
configuredCollectorIDsTagged(t) ==
    (IF Enabled(t, "cost_explorer") THEN Costs ELSE <<>>)
        \o On("tags", t.integrations) \o On("organizations", t.integrations) \o On("budgets", t.integrations)
        \o On("commitments", t.integrations) \o On("anomalies", t.integrations) \o On("cur", t.integrations)

\* The collectors of one target.
configuredCollectorIDs(t) ==
    (IF Enabled(t, "cost_explorer") THEN Costs \o On("tags", t.integrations) ELSE <<>>)
        \o On("organizations", t.integrations) \o On("budgets", t.integrations)
        \o On("commitments", t.integrations) \o On("anomalies", t.integrations) \o On("cur", t.integrations)

TargetIds(t) ==
    LET names == configuredCollectorIDs(t)
    IN  [j \in DOMAIN names |-> Id(t, names[j])]

AllIds == FlattenSeq([i \in DOMAIN value.targets |-> TargetIds(value.targets[i])])

\* organizationPolicies: one for each target with Organizations metadata.
NewStore ==
    /\ Construct("validated",
                 /\ AllIds # <<>> /\ value.freshnessTTL > 0 /\ value.staleAfter >= value.freshnessTTL
                 /\ \A t \in Range(value.targets) :
                       Enabled(t, "organizations") => t.name # Blank /\ value.limit.organizations > 0,
                 "store")
    /\ UNCHANGED <<value, known, broken, at, jobs, required, vars>>

NewExporter ==
    /\ Construct("store", AllIds # <<>> /\ ValidIds(AllIds), "metrics")
    /\ known' = AllIds
    /\ UNCHANGED <<value, broken, at, jobs, required, vars>>

\* clientfactory.New: a source that cannot be loaded is remembered.
NewFactory ==
    /\ Construct("metrics", TRUE, "build")
    /\ broken' \in SUBSET value.sources
    /\ UNCHANGED <<value, known, at, jobs, required, vars>>

\* buildCostCollectors: the names, and whether their constructors accept.
buildCostCollectors ==
    On("total", value.collectors) \o On("service", value.collectors) \o On("region", value.collectors)
        \o On("account", value.collectors) \o On("forecast", value.collectors)

CostCollectorsBuilt(t) ==
    /\ value.pages.cost_explorer > 0
    /\ \A n \in Range(buildCostCollectors) :
          /\ n \in Grouped => value.limit.dimensions > 0 /\ Valid({"overflow_label"})
          /\ n = "account" => Range(t.linked) \subseteq AccountIDs
          /\ n = "forecast" => value.predictionInterval \in 80..99
    /\ Enabled(t, "tags") => value.pages.tags > 0 /\ t.keys # <<>> /\ value.limit.tags > 0

OptionalCollectorsBuilt(t) ==
    /\ Enabled(t, "organizations") =>
          /\ value.pages.organizations > 0 /\ value.limit.organizations > 0
          /\ Len(t.ids) <= value.limit.organizations
          /\ Range(t.ids) \subseteq AccountIDs /\ IsInjective(t.ids)
    /\ Enabled(t, "budgets") =>
          value.pages.budgets > 0 /\ t.account \in AccountIDs /\ t.names # <<>> /\ Unique(t.names)
    /\ Enabled(t, "commitments") => value.pages.commitments > 0 /\ value.limit.commitments > 0
    /\ Enabled(t, "anomalies") => value.pages.anomalies > 0 /\ value.limit.anomalies > 0
    /\ Enabled(t, "cur") =>
          /\ value.pages.cur > 0 /\ Valid({"max_rows", "max_currencies"})
          /\ t.queryTimeout > 0 /\ t.pollInterval > 0 /\ t.pollInterval < t.queryTimeout
          /\ value.limit.cur > 0 /\ value.limit.tags > 0

Job(t, name, interval) == [id |-> Id(t, name), interval |-> value.interval[interval]]

CostJobs(t) ==
    LET names == buildCostCollectors
    IN  [i \in DOMAIN names |-> Job(t, names[i], "cost_explorer")]

OptionalJob(t, name) == IF Enabled(t, name) THEN <<Job(t, name, name)>> ELSE <<>>

\* The jobs of one target: cost collectors first, of which a required target
\* makes readiness depend, then one for every other integration.
TargetJobs(t) ==
    (IF Enabled(t, "cost_explorer") THEN CostJobs(t) \o OptionalJob(t, "tags") ELSE <<>>)
        \o OptionalJob(t, "organizations") \o OptionalJob(t, "budgets") \o OptionalJob(t, "commitments")
        \o OptionalJob(t, "anomalies") \o OptionalJob(t, "cur")

TargetRequired(t) ==
    LET names == buildCostCollectors
    IN  IF t.required /\ Enabled(t, "cost_explorer") THEN [i \in DOMAIN names |-> Id(t, names[i])] ELSE <<>>

\* One round of the loop of buildJobs.
BuildTarget ==
    /\ at <= Len(value.targets)
    /\ LET t == value.targets[at]
       IN  /\ Construct("build",
                        /\ t.name # Blank /\ t.source \in value.sources
                        /\ Enabled(t, "cost_explorer") => CostCollectorsBuilt(t)
                        /\ OptionalCollectorsBuilt(t),
                        "build")
           /\ jobs' = jobs \o TargetJobs(t) /\ required' = required \o TargetRequired(t)
    /\ at' = at + 1
    /\ UNCHANGED <<value, known, broken, vars>>

NewJobs ==
    /\ at > Len(value.targets)
    /\ LET jobIds == [i \in DOMAIN jobs |-> jobs[i].id]
       IN  Construct("build",
                     /\ jobs # <<>> /\ ValidIds(jobIds) /\ \A j \in Range(jobs) : j.interval > 0
                     /\ Valid({"max_concurrency", "jitter_ratio", "failure_backoff"}),
                     "scheduled")
    /\ UNCHANGED <<value, known, broken, at, jobs, required, vars>>

NewServer ==
    /\ Construct("scheduled", required # <<>> /\ ValidIds(required) /\ Valid({"server"}), "listen")
    /\ UNCHANGED <<value, known, broken, at, jobs, required, vars>>

\* net.Listen, the one step that depends on the host.
Listen ==
    /\ stage = "listen"
    /\ stage' \in {"running", "refused"}
    /\ UNCHANGED <<value, known, broken, at, jobs, required, vars>>

-----------------------------------------------------------------------------
(* A refresh: verifiedCollector, then the collector itself.  Verify is      *)
(* module TargetVerifier's; of a source that was not loaded it fails.       *)

Refresh ==
    /\ stage = "running" /\ collector = NoCollector /\ result = "none"
    /\ \E j \in Range(jobs), t \in Range(value.targets) :
          /\ j.id.target = t.name /\ <<value, j.id.name>> \in Tries
          /\ IF t.source \in broken THEN Return("unverified")
             ELSE Begin(j.id.name, [target |-> t, limit |-> value.limit])
    /\ UNCHANGED boot

Collect == (CollectCosts \/ CollectMetadata) /\ UNCHANGED boot

Done ==
    /\ \/ stage \in {"rejected", "failed", "refused"} \/ result # "none"
       \/ stage = "running" /\ collector = NoCollector
    /\ UNCHANGED system

Next ==
    \/ Validate \/ NewStore \/ NewExporter \/ NewFactory
    \/ BuildTarget \/ NewJobs \/ NewServer \/ Listen
    \/ Refresh \/ Collect
    \/ Done

Spec == Init /\ [][Next]_system

-----------------------------------------------------------------------------
(* Properties. *)

\* A configuration that validation accepts is one that starts: no constructor
\* refuses what Validate let through, whatever integrations are combined
\* (validation.go, Validate; bootstrap.go, Run and buildJobs).
AcceptedConfigStarts == stage # "failed"

\* The jobs, the collectors that the metrics know, and those that readiness
\* waits for are derived from the configuration in different places: they are
\* the same collectors, and readiness waits for at least one, and only for cost
\* collectors of required targets (bootstrap.go, configuredCollectorIDs and
\* buildJobs).
JobsMatchConfiguration ==
    stage = "running" =>
        /\ {j.id : j \in Range(jobs)} = Range(known) /\ Len(jobs) = Len(known)
        /\ required # <<>>
        /\ \A id \in Range(required) :
              /\ id \in Range(known) /\ id.name \in Range(CostNames)
              /\ \E t \in Range(value.targets) : t.name = id.target /\ t.required

\* A configuration that validation accepts leaves room for what it selects: the
\* budgets stay within their limit, which nothing tests at run time, and listed
\* accounts are never too many; without a list it takes more accounts in the
\* organization than the limit (validation.go, validateBudgets and
\* validateOrganizations; organizations/reader.go, ReadAccounts).
SelectionFits ==
    /\ collector = "budgets" /\ result = "ok" => SeriesCount(collected) <= config.limit.budgets
    /\ collector = "organizations" /\ result = "series" =>
          config.target.ids = <<>> /\ Cardinality(service.accounts) > config.limit.dimensions
=============================================================================
