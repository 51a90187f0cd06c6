# A TLA+ verification of aws-cost-exporter

The exporter polls AWS billing services on a schedule, keeps the last good
answer of every collector in memory and serves it to Prometheus. Its hard parts
are concurrent: two goroutines per collector, shared slots and locks, timers,
cancellation, shared verification of credentials, retries inside retries behind
shared rate limits, remote queries that must not be left running, and readers
without locks; and a configuration that a dozen constructors check again. This directory models those parts,
checks them with TLC on small instances and proves the central ones with TLAPS
for every value of the constants. All paths below are relative to `src/`.

## The system and its parts

| Part | State | Operations | Talks to |
|---|---|---|---|
| Scheduler, `internal/scheduler` | `running`, one queue per job, semaphore, target slots | `Run`, `schedule`, `dispatch`, `worker`, `collect` | calls collectors and the store; cancelled by the lifecycle |
| Snapshot store, `internal/cache/memory`, `internal/domain/snapshot` | the atomic pointer, `writeMu` | `Publish`, `RecordFailure`, `Snapshot`, `Load` | written by workers, read by scrapes and `/ready` |
| Service lifecycle, `internal/app` | signal context, run context, `serverDone`, `schedulerDone` | `RunServices`, `waitForScheduler` | starts and stops scheduler and HTTP server |
| HTTP server, `internal/httpserver` | `draining` | `Serve`, `BeginShutdown`, `Shutdown`, `/ready`, `/metrics` | reads the store |
| Target verifier, `internal/aws/clientfactory` | cached outcome, `inFlight` channel | `Verify` | called by every AWS reader before its request |
| Athena reader, `internal/aws/athena` | a query execution inside Athena | `QueryCosts`, `QueryTagCosts` | called by the CUR collectors |
| Paginated readers, `internal/aws/*` | token, seen tokens, accumulated values | eight loops | called by the collectors |
| Collectors, `internal/collector` | none between calls | `Collect` | reader -> partial snapshot |
| Cost Explorer mapping, `internal/aws/costexplorer` | none | `MapUsage`, `MapForecast`, month-to-date sums | inside a reader call |
| AWS calls, `internal/aws/common`, `clientfactory` | two token buckets per target, one of them shared; retry tokens | `DualLimiter.Wait`, `GetAttemptToken`, `GetRetryToken`, `ClassifyError`, `ObserveCall` | under every reader; its error classes steer the scheduler's retries |
| Configuration and start, `internal/config`, `internal/app` | the jobs collected so far | `Validate`, `Run`, `buildJobs`, the constructors | decides the constants of everything above |
| Metrics, `internal/metrics` | self-metrics | `Collect` | two reads of the store per scrape |

What is hard, and what must hold:

* **Scheduler**: a slow or failing refresh must not pile up behind itself,
  block its timer loop, leak a slot on a cancelled path, starve another job, or
  keep `Run` from returning. A cancellation must not look like a failure of AWS.
* **Store**: writers that load, merge and swap must not lose one another's
  parts; a refused partial must change nothing; one target must not be able to
  make another's publication fail; counters must add up; readers without a lock
  must not see negative ages or half of a publication.
* **Lifecycle**: the exit must be complete or be reported, in whichever order a
  signal, a Serve error, requests and collectors end; readiness must follow the
  required data only.
* **Verifier**: credentials rotate between the fingerprint, the request and the
  answer; nothing may be vouched for but the configured account, at most one
  request may fly, and no waiter may be forgotten.
* **Athena**: whichever call fails and whenever the context ends, a query that
  is known may not be left running unasked, and `query` must return.
* **Cost collectors**: what AWS reports must reach the metrics undistorted
  through normalisation, month-to-date sums and the folding of small values;
  limits and budgets must agree at their boundaries, or an accepted
  configuration fails at every refresh.
* **Metadata collectors** (forecast, budgets, Organizations, commitments,
  anomalies): a summary is complete or absent, what a partial claims to count is
  what a scrape exposes, and optional figures are neither lost nor invented.
* **AWS calls**: the rate holds for attempts and not only for calls, throttling
  must be visible whichever layer gives up, an error that will not go away must
  not be repeated by either layer, and every refresh must end.
* **Start**: what validation accepts must be accepted by every constructor;
  the collectors the metrics know, the jobs the scheduler runs and the ones
  readiness waits for are derived separately and must agree.
* **Pagination**: eight loops, written in five different ways, must each return
  everything or nothing, within their budgets, with exact limits.

`PROJECT.json` lists these hazards at the lines where they bite.

## Modules

| Module | Models | Notes |
|---|---|---|
| `Scheduler` | `scheduler/runner.go` | an action is one channel operation, one critical section of `runningMu` or one call |
| `BoundedRefresh` | the promise of the scheduler | a set of active jobs, at most `MaxConcurrency`, one per target |
| `SnapshotStore` | `cache/memory/store.go`, `domain/snapshot/snapshot.go`, the two reads of one scrape | an action is one step between lock, pointer and clock |
| `AtomicStore` | the promise of the store | one collector's part or up flag is replaced indivisibly |
| `Exporter` | `app/bootstrap.go` (`RunServices`), `httpserver/server.go` | `INSTANCE Scheduler`, step for step, inside the process |
| `TargetVerifier` | `aws/clientfactory/factory.go` | credentials are numbers, a fingerprint identifies them |
| `AthenaQuery` | `aws/athena/reader.go`, `execution.go` | the reader against the execution inside Athena |
| `Pagination` | the loops of `costexplorer`, `organizations`, `budgets`, `athena` | every reader, every service of the bounded size |
| `CostCollection` | `collector/cardinality.go`, `grouped.go`, `total`, `service`, `region`, `account`, `tag`, `cur`; `costexplorer/mapping.go`, `tag_mapping.go`; what the SQL of `athena/reader.go` computes | one `Collect` from what AWS holds to the series of the partial; a query is an action |
| `MetadataCollection` | `collector/forecast`, `budget`, `organizationmeta`, `commitment`, `anomaly`; the selection and the checks of their readers; `SeriesCount`; the store's selection of accounts; the samples of `metrics/cost.go` | extends `CostCollection`, whose variables it shares |
| `Startup` | `config/validation.go`, `Run` and `buildJobs` of `app/bootstrap.go`, the conditions of the constructors they call | extends `MetadataCollection`: a configuration is validated, the process is built target by target, then one of its jobs is refreshed |
| `AwsCalls` | `aws/common` (limiters, retry tokens, observation), `aws/errors.go`, the retryers of `clientfactory/factory.go`, the retry rule of `scheduler/runner.go` | every target runs one `Collect`: calls made of attempts made of two waits and a request |
| `MC*` | - | constants for TLC and symmetry |
| `SchedulerProofs`, `SnapshotStoreProofs`, `TargetVerifierProofs`, `AthenaQueryProofs`, `AwsCallsProofs`, `ExporterProofs`, `PaginationProofs`, `StartupProofs` | - | the theorems |

Compositions: `Exporter` runs the scheduler inside the process; `Startup` runs
configuration, construction and collection in sequence, so that the limits the
collectors meet are the ones validation let through; `AwsCalls` puts the SDK's
retries inside the runner's.

`PROJECT.json` maps every definition to its lines. What is abstracted:

* time, jitter and backoff delays: a timer fires at any moment. In `AwsCalls`
  time is a tick that adds one token to every limiter;
* the store's clock never goes back. `Now().UTC()` drops the monotonic reading, so
  that a wall clock set back could make an age negative, which
  `metrics/exporter.go:98` clamps to zero, or move a last success back: neither
  `AgeNonNegative` nor `LastSuccessMonotone` speaks of that;
* an amount, a label or a message: a model value. A record of a partial is
  `[target, kind, key, value]`; `key` stands for all labels but the target;
* in `CostCollection` amounts are integers, so sums are exact (floating point is
  not modelled), and labels are strings with an order; a CUR line has an amount of
  its own in every basis, but not the columns that `basisExpression` computes it
  from; pages are read whole, which is what `Pagination` shows;
* in `Startup` a setting that is only compared with a range of its own is in
  range or not (`value.invalid`); settings that are compared with one another,
  counted or multiplied keep their values. Durations are integers there;
* in `AwsCalls` an error is one of the kinds the code tells apart. `rate.Limiter`
  and the SDK's retry loop are external, modelled by how the code uses them: an
  attempt token before every attempt, a retry token before every retry;
* the reference time in the queue: no guard of the runner reads it;
* sums are written so that they can be reasoned about: `CountedSeries` and
  `Pagination!Size` are the cardinality of a set with one element for each unit,
  and what a paginated service holds (`Reach`) is the least set of tokens that
  contains the first and is closed under `next`. Elsewhere a sum is a fold
  (`SumFunction`), as in `SeriesCount` over the `ItemSeries` of each record;
* a Go `select` with several ready cases is one disjunct per case. A context
  that becomes done is visible to its children in a later step, as in package
  `context`.

Definitions named `X...` right before `X` and commented "Mutant of X" are
plausible bugs; replacing `X` by them must break the property `PROJECT.json`
pairs them with, which shows that the property depends on the code.

## Runs

| Run | Instance and bounds | Shows |
|---|---|---|
| `MCScheduler` | three jobs, two sharing a target, one token, two attempts | slots and tokens are exactly accounted for, single flight, dispatch never blocks before cancellation, no cancelled attempt is recorded as failed, refinement of `BoundedRefresh` |
| `SchedulerLive` | two jobs of two targets, one token, two attempts | no job starves over the token; `Run` returns |
| `SchedulerHang` | the same without `PromptHandover` | violation: `Run` may hang, see Findings |
| `MCStore` | three collectors, two targets, one scrape, four writes, one tick | merge, no lost update, isolation of targets, ages, series counters, monotone success, refinement of `AtomicStore` |
| `MCExporter` | a required and an optional collector, one prober | a clean exit is complete, a Serve error is reported, readiness follows data |
| `ExporterLive` | one required collector | the process exits |
| `ShutdownOrder` | the same | violation: cancelled before `/ready` says so |
| `MCVerifier` | two callers, three credentials (wrong, right, wrong), four calls | only the account is vouched for, one flight, every call returns |
| `MCAthena` | two queries | never abandoned, rows only from success, `query` returns |
| `MCPagination` | every service of four pages and two records, page budget three, limit one | all or nothing, page budget, exact limits |
| `MCCollection` | two bases, two tag keys (limits two and one), series limit two; one query answered in every way with up to three entries; CUR tables of four to six lines that may gain a currency between two queries; metadata answers with every figure present or missing; every configuration that differs from a valid one of two targets in at most two settings | amounts conserved per basis, window, currency and key; limits hold; the largest survive; two series have the same labels only for a known cause; what the store selects is exposed and counted, whatever accounts it has observed; validated budgets suffice (`SelectionFits`, `RefusedForCause`); accepted configurations start, with the jobs they ask for |
| `MCCalls` | two targets, one of two calls, one of one call under a deadline; global burst one, target burst two, two attempts, two tries | the rate holds for attempts, throttling is visible, permanent errors end a refresh, every refresh ends |

The bounds reach the interesting cases. Three jobs are the fewest that contend
for both a target slot and the semaphore; one token makes every pair compete.
Three are too many for liveness in the time of a run, so `SchedulerLive` has two
jobs that compete for the token; with `TargetOf <- Together` the same
configuration has them compete for the slot of their target, and passes as well.
Two attempts have a first and a last. One tick tells a write before it from one
after; four writes let a writer work on a state that two others changed and then
fail. Two credentials changes allow a rotation
away from and back to a wrong account around one request. Four pages with a page
budget of three exceed the budget by one, and all chains of tokens include
cycles of every length. Three entries exceed a limit of two by one, and a
limit of one by two (everything is folded); amounts 2 and -1 in two currencies
give ties, credits and mixed folds. The answers to the other queries are fixed:
a group of one basis, window and key is bounded by itself, and what the queries
share (`values`, the totals of the series limits) is reached with one of them
varied. A configuration is wrong in one
setting or in the relation of two, which is why two changes at a time suffice to
reach every rule of `validation.go` and every pair of integrations; `Tries`
names the configurations, at and next to each limit, whose refreshes are explored
as well. In `MCCalls` the global burst of one makes the targets compete, the
larger target burst makes the global limiter the one that is short, and three
failures (throttled, denied, of no known class) cover the SDK's three answers:
it retries, does not, or may. Between them the passing runs fire every
action. `MCScheduler` and
`SchedulerHang` do not check deadlock:
the hang described below is a state in which the runner stops.

### Fairness

* `Scheduler`: weak fairness of every goroutine (Go schedules runnable
  goroutines, timers fire, collectors return within their own deadlines).
  Strong fairness for the acquisition of slots, because Go serves senders
  blocked on a channel first in, first out; and for the `ctx.Done` cases,
  because `select` chooses uniformly among ready cases. `SchedulerLive` also
  assumes `PromptHandover`: no timer fires while its job's previous reference is
  still in the queue. Intervals are minutes and the hand-over microseconds, but
  `NewJobs` does not enforce it; `SchedulerHang` is the run without it.
* `Exporter`: only `RunServices` is assumed to make progress, so `ProcessExits`
  holds although collectors and requests may hang: its timeouts elapse.
* `TargetVerifier`: requests and credential retrievals return.
* `AwsCalls`: time passes, and Go runs every goroutine; a request returns
  because the HTTP client has a timeout. Strong fairness for the global wait:
  `rate.Limiter` reserves tokens in the order callers come, so that nobody is
  passed over for ever. A target's own limiter needs none, because one collector
  of a target runs at a time.
* `AthenaQuery`: requests return and the deadline passes; Athena itself need
  not make progress.

## Proofs

`SchedulerProofs` (assuming only `SchedulerAssumption`: finitely many jobs, a
positive capacity and number of attempts) proves `TypeOK`, `SlotAccounting`,
`SingleFlight`, `DispatchNeverBlocks`, `CancelNeverMarksDown` and the refinement
of `BoundedRefresh`, for any number of jobs and targets. The inductive invariant
is `TypeOK /\ PointInv /\ SingleFlight /\ TargetInv /\ SemaphoreInv`.
`SlotAccounting` is not inductive by itself in a form provers can use: the
equality of the semaphore with the cardinality of its holders is kept by one
lemma on adding and one on removing an element of a finite set, and the slot of
a target by `TargetInv`, which names its holder. `PointInv` ties local variables
to program points: the outcome at `record`, and that retries stop at
`MaxAttempts`, without which the type of `attempt` is not preserved.
`DispatchNeverBlocks` needs `SingleFlight`: a claimed flag excludes a queued
reference.

`SnapshotStoreProofs` (assuming `StoreAssumption`) proves `TypeOK`,
`SnapshotIsMerge`, `NoLostUpdate`, `CrossTargetIsolation`, `AgeNonNegative`,
`LastSuccessMonotone` and the refinement of `AtomicStore`, for any collectors,
partials, policies and readers. The strengthening is `LockInv` (a writer between
load and store holds `writeMu`, and its base is still the current state: the
fact every other conjunct rests on), `PartInv` (every kept or offered part
belongs to its collector's target, which gives isolation) and `ReadInv` (a view
in a reader's hands is no newer than the clock).

`TargetVerifierProofs` (assuming `VerifierAssumption`: finitely many callers)
proves `TypeOK`, `VouchesForAccount` and `OneFlight` for any callers, rotations
and calls and any assignment of credentials to accounts. `PointInv` carries the
argument for the second fingerprint: credentials never return to an earlier
value, so an answer obtained with some credentials between the fingerprint and a
current value equal to it was obtained with those. Without the comparison in
`verify` that step fails, which is also the mutant of the run. `CallInv` counts:
flights made, plus calls that have made none yet, are at most the calls, which
is what makes "one request a call" inductive although a waiter starts over any
number of times.

`AthenaQueryProofs` proves `TypeOK`, `NeverAbandoned` and `RowsOnlyFromSuccess`
for any number of queries. `PointInv` says at which program points the reader
holds an identifier that nobody has asked to stop, and that a terminal status in
the reader's hands is still Athena's, since terminal states are final; that is
what justifies leaving without a stop.

`AwsCallsProofs` (assuming `CallsAssumption`) proves `TypeOK` (attempts and
tries within their limits), `BurstBounded`, `ThrottleVisible` and
`PermanentEndsRefresh` for any targets, bursts, calls, attempts and tries.
`BurstInv` is an account of tokens: those in the global limiter, those held by
targets between their two waits, and the attempts sent. `HiddenInv` and
`PermanentInv` say that a throttling not yet visible, or an error that lasts, is
the error of the call that is ending, and two lemmas go through the error
classes: nothing in `Permanent` is retried by either layer.

`SeriesAccounted` in `SnapshotStoreProofs` says that the series counters of all
collectors add up to the series of the snapshot. It is not inductive: a
publication by one collector can change which account metadata of another is
selected, and `Publish` rewrites that collector's counter too. `SeriesInv` says
that every counter equals `publishedSeries` of the current part; each collector's
`Share` of the snapshot is then counted, and the shares partition the snapshot.
The partition needs that only one collector of a target publishes account
metadata, which `StoreAssumption` states: in the code that is
`organizationmeta`, of which `buildJobs` makes one for each target.

`ExporterProofs` (assuming `ExporterAssumption`, which includes what `Scheduler`
assumes of the same constants) first shows that the process implements the
scheduler: `RunsScheduler` is `Spec => Runner!Spec`, so the theorems of
`SchedulerProofs` hold inside the process. `ShutdownInv` then relates the
program point of `RunServices` to the server, the requests and the scheduler: a
scheduler that was waited for without a timeout has returned, and has no step
that would start it again. `CleanExitIsComplete` combines this with the
scheduler's own `SlotAccounting`; `ServeErrorReported` and the action property
`ReadinessFollowsData` follow for any collectors and probes.

`PaginationProofs` (assuming `PaginationAssumption`: finitely many records) proves
`AllOrNothing`, `PageBudget` and `AcceptedIffWithinBounds` for all eight loops,
any service, any chain of tokens and any limits. While a loop reads, its path is
either `Straight` (all pages visited are distinct, the page number is their
count, and the values are what they hold) or, in the loops that do not remember
tokens, `Circular` (the pages visited are closed under `next`, so the chain has
no end and the page budget must refuse it). The argument at the limits is on
cardinalities: a straight path that reached its end is all of `Reach`, and one
longer than the budget, or a circle, means that the result is out of bounds.

`StartupProofs` (assuming the types of the configuration, `StartupAssumption`;
and that an organization has finitely many accounts, `MetadataAssumption`)
proves, for any number of targets, any
combination of integrations and any limits, that no constructor refuses what
`Validate` accepted, that scheduler, metrics and readiness agree on the
collectors, and that selected budgets and accounts fit their limits. `BootInv`
says what has been built when `buildJobs` is about to build target `at`: jobs,
identifiers and readiness list are those of the targets before it, without
duplicates. `RefreshInv` ties a refresh in progress to a configuration that was
accepted, and `FitInv` adds `SelectionFits`. `FlattenSeq` and `SumFunction` are
recursive; the lemmas `FlattenUnfolds` and `SumUnfolds` derive their recursion
equations from the recursive functions of the library, and what is needed of
them (`FlattenFacts`, `SumBounded`, and for collections the sums below) is proved by a least counterexample instead
of the library's induction theorems, which take an operator.

The second half of `StartupProofs` is about the refreshes that follow a start,
for any configuration `Validate` accepts and any answer of AWS. It assumes
`CollectionAssumption` (the bases are distinct strings, as `validation.go`
demands; limits are positive; `NoKey` is not a tag key but the mark of a series
without one) and `ServicesAssumption`: an answer has finitely many entries, and
a CUR table finitely many lines, of the days up to today, with integer amounts.
A response of Cost Explorer or Athena is a finite list of the queried period.
Nothing is assumed of the values, their number, the currencies, the signs of
amounts or whether AWS repeats a value.

* `TotalsAlwaysConserved`, `SeriesAlwaysBounded`, `LargestAlwaysKept` and
  `DuplicatesAlwaysHaveCause` say what a returned partial is; `RefusalsHaveCauses`
  says when one is refused.
* `DuplicatesAlwaysHaveCause` reads the cause of equal labels in the answer of AWS,
  before any mapping. The sums of a month and the rows of CUR are one for each value
  and currency (`UnlimitedUnique`); two rows of a day come from two entries that the
  mapping named alike (`DailyDuplicates`); a folded series meets another only if a
  tag has its label (`OverflowIsTag`), because the grouped collectors refuse it.
* None of them is inductive: a Collect that is under way has read some queries
  and not others. `CostInv` says how far it is. `Standing(done)` is its core: the
  partial has the series of the queries in `done`, each in a form that
  `limitDimensionGroup` may return (`Finished`), no series of another query, and
  nothing else. `WindowAt` (grouped collectors and the total), `TagsAt` and
  `CurAt` say which queries are in `done` at each point of the three loops.
* The lemmas come in four groups. *Sums*: the order of a sum does not matter
  (`SumRemove`), sums of disjoint sets add (`SumOfUnion`) and gathering amounts
  by a key keeps their sum (`SumOfFibres`); induction over subsets is again by a
  least counterexample (`SubsetInduction`). *One group*: `LimitSplit` and its
  consequences say what the sort, the cut and the fold of `limitDimensionGroup`
  return; `LimitedIs` lifts this to all groups. *Mapping*: `UnlimitedCarries`
  says that normalisation, sums over days and the SQL lose and invent nothing.
  *Counting*: `TagPlan` says that the tag collector asks each query once, and
  `TagsFit`, `TagSeriesFit` and `CurFits` that what the loops return stays within
  the budget that `validation.go` computes by multiplication. This is where
  `RefusalsHaveCauses` needs the accepted configuration, through `RefreshInv`.
* `MetadataAlwaysExposed`: `MetaInv` adds to the property that after `next - 1`
  requests for commitments `values` holds exactly their summaries. Each
  collector's items are shown to have disjoint samples, as many as `ItemSeries`
  says (`Counted`), so that `SeriesCount`, a sum, is the size of a union
  (`ExposedCount`). The store leaves partials without accounts alone
  (`ExposesAll`); of accounts it keeps a part, which `publishedSeries` corrects for
  (`AccountsCount`, `AccountsExposed`). The accounts that the costs name are any set
  of account IDs, since another collector publishes them at any time.

Only model-checked: all liveness properties and everything that depends on
`ENABLED`, which are out of the prover's reach. Every safety invariant and every
action property that a passing run checks is stated by a theorem. Where a model
is finite by a bound (the number of writes, rotations or calls), the theorems
hold for every value of it.

`SingleFlight` is stated while a worker serves its queue. Once cancellation has
made the worker leave, a late dispatch can set the flag with nobody to clear it;
nothing reads it then but that same goroutine.

## Findings

1. `ShutdownOrder`: collectors run under a child of the signal context, so the
   signal cancels them itself, before `BeginShutdown`; the wiki and the comment
   of `BeginShutdown` promise the opposite order. The Serve-error branch never
   drains.
2. `SchedulerHang`: the send in `dispatch` has no `ctx.Done` case. A worker that
   leaves with a reference in its queue lets the next dispatch block for ever.
   `RunServices` bounds the effect by its timeout.

Differences and facts without a run of their own:

* One scrape loads the store twice, in `metrics/cost.go:121` and
  `metrics/exporter.go:87`; `docs/wiki/Architecture.md:46` says a scrape "reads
  one atomic pointer". Each read is consistent by itself.
* A submission that fails after Athena accepted it has no identifier to stop,
  although the wiki promises a stop for any abnormal exit; `NeverAbandoned` is
  stated from the moment the identifier is known.
* Different answers of AWS can be given the same labels, and the store refuses the
  partial as a whole (`ValidateUnique`), so that the collector fails while
  the answer stays. A region without a name becomes "global"
  (`domain/cost/dimension.go:43`) and a tag without a value "__untagged__"
  (`costexplorer/tag_mapping.go:39`); the daily window is not aggregated
  (`costexplorer/mapping.go:62`, `tag_mapping.go:45`), so an answer with both the
  empty key and that name on one day makes two daily series with equal labels,
  while the month to date, and CUR, add them up. Likewise a tag value equal to the
  overflow label meets the folded values, which `LimitValues` does not look for.
  `DuplicatesHaveCause` states that these, and a key that AWS itself repeats, are
  the only causes; `MCCollection` reaches the mapped and the reserved names.
* `DualLimiter.Wait` takes the global token before it waits for the target's.
  Attempts can therefore exceed the global burst by one for each target, which
  is the bound `BurstBounded` states and TLC shows to be tight enough to break
  with a retry that skips the limiters; and the global token is lost when the
  target's wait fails.
* The limiter's "would exceed context deadline" is no context error, so
  `ClassifyError` gives it no class and the runner does not retry it.
* Without a configured list of accounts the Organizations reader counts every
  account of the organization against its limit (`organizations/reader.go:120`),
  although the store exposes only those observed in the costs
  (`cache/memory/store.go:184`).

## Not modelled

The command line, logging and version, formatting of metrics (help texts, the
exporter's own counters and histograms), SQL text, the parsing of rows, amounts
and percentages, patterns of names, loading of files and environment variables
and the construction of SDK clients are I/O, formatting or string matching. The
domain values are immutable records. `collector/registry.go` is used by tests
only. Floating point is outside TLC. `PageBudget` counts list requests: the
single `DescribeOrganization` before them is not one. Durations are not
modelled, so "within 30 seconds" is not a statement made here; "eventually" is.
Nothing is persisted: there is no crash recovery to model.

## What could follow

* A model of one scrape across both of its collectors, with a property that
  tells which mixtures of two publications Prometheus can see.
* Floating-point amounts: `TotalsConserved` is exact here, while the code adds
  `float64` values; a bound on the error would need the order of additions.
* Liveness by proof: `RefreshRecurs` and `RunReturns` for any number of jobs need
  a prover with `ENABLED`.
