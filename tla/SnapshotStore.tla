--------------------------- MODULE SnapshotStore ---------------------------
(***************************************************************************)
(* The in-memory cache of internal/cache/memory/store.go together with the *)
(* aggregate of internal/domain/snapshot/snapshot.go.  Collector workers   *)
(* call Publish and RecordFailure, serialised by writeMu; each writer      *)
(* copies the current state, rebuilds the aggregate and swaps one atomic   *)
(* pointer.  Scrapes and probes read that pointer without the lock.        *)
(*                                                                         *)
(* A record of a partial is [target, kind, key, value]: kind and key stand *)
(* for all labels but the target.  Kind "accountCost" is a cost with the   *)
(* account dimension (key is the account), "metadata" an Organizations     *)
(* account, "forecast" a forecast (three series), "cost" everything that   *)
(* counts as one series.  A record with an invalid provider or basis is    *)
(* represented, like one of another target, by a foreign target.           *)
(* An absent part behaves exactly like an empty one and is represented by  *)
(* it; a zero time is 0.                                                   *)
(***************************************************************************)
EXTENDS Naturals, FiniteSets

CONSTANTS
    Collectors,     \* identity.CollectorID values; the scheduler runs one refresh of each at a time
    Targets,        \* identity.TargetID values
    TargetOf,       \* CollectorID.Target
    Items,          \* the records a partial can hold
    Partials,       \* the partials each collector may try to publish
    PolicyTargets,  \* targets with an OrganizationPolicy
    Allowlist,      \* policy.AccountIDs per policy target; {} means "observed accounts"
    SeriesLimit,    \* policy.SeriesLimit
    Readers,        \* concurrent scrapes
    MaxTime,        \* bound on the clock
    MaxWrites,      \* bound on the calls of Publish and RecordFailure
    None            \* no holder, nothing read

ASSUME StoreAssumption ==
    /\ IsFiniteSet(Collectors)
    /\ TargetOf \in [Collectors -> Targets]
    /\ \A x \in Items : x.target \in Targets \cup {"foreign"}
    /\ Partials \in [Collectors -> SUBSET SUBSET Items]
    /\ \A c \in Collectors : \A p \in Partials[c] : IsFiniteSet(p)
    \* only the Organizations collector of a target reads account metadata
    /\ \A c, d \in Collectors : \A p \in Partials[c], q \in Partials[d] :
          (\E x \in p, y \in q : /\ x.kind = "metadata" /\ y.kind = "metadata"
                                 /\ TargetOf[c] = TargetOf[d]) => c = d
    /\ PolicyTargets \subseteq Targets
    /\ SeriesLimit \in Nat \ {0}
    /\ MaxTime \in Nat /\ MaxWrites \in Nat
    /\ None \notin Collectors

VARIABLES
    current,   \* the state behind the atomic pointer
    writeMu,   \* the collector whose worker holds writeMu, or None
    writer,    \* where each collector's worker is in the store
    op,        \* the operation it has called
    base,      \* the state it loaded under the lock
    acked,     \* history: what the store last acknowledged for each collector
    writes,    \* how many operations have been called
    scrape,    \* what each scrape has read so far
    now        \* the clock

writeVars == <<current, writeMu, writer, op, base, acked, writes>>
vars == <<current, writeMu, writer, op, base, acked, writes, scrape, now>>

-----------------------------------------------------------------------------
(* The aggregate (snapshot.go) and mergeParts (store.go). *)

Label(x) == <<x.target, x.kind, x.key>>

\* SeriesCount: a forecast is exported as mean, lower and upper bound.
SeriesCount(items) == Cardinality(items) + 2 * Cardinality({x \in items : x.kind = "forecast"})

\* Mutant of ValidatePartial: records of other targets pass.
ValidatePartialAnyTarget(c, p) == TRUE

ValidatePartial(c, p) == \A x \in p : x.target = TargetOf[c]

Merge(parts) == UNION {parts[c] : c \in Collectors}

\* No two records of the merged parts carry the same labels.
ValidateUnique(parts) ==
    \A c, d \in Collectors : \A x \in parts[c], y \in parts[d] :
        Label(x) = Label(y) => c = d /\ x = y

Observed(items, t) == {x.key : x \in {y \in items : y.kind = "accountCost" /\ y.target = t}}

Allowed(items, t) == IF Allowlist[t] = {} THEN Observed(items, t) ELSE Allowlist[t]

\* Account metadata is published for accounts its target's policy allows.
Select(items) ==
    IF PolicyTargets = {} THEN items
    ELSE {x \in items : x.kind = "metadata" =>
                            x.target \in PolicyTargets /\ x.key \in Allowed(items, x.target)}

Metadata(items, t) == {x \in items : x.kind = "metadata" /\ x.target = t}

Mergeable(parts) ==
    /\ ValidateUnique(parts)
    /\ \A t \in PolicyTargets : Cardinality(Metadata(Select(Merge(parts)), t)) <= SeriesLimit

\* What one collector contributes to the published aggregate.
PublishedSeries(c, part, merged) ==
    LET raw == {x \in part : x.kind = "metadata"}
    IN  IF raw = {} THEN SeriesCount(part)
        ELSE (SeriesCount(part) - Cardinality(raw)) + Cardinality(Metadata(merged, TargetOf[c]))

-----------------------------------------------------------------------------
Status == [lastAttempt : Nat, lastSuccess : Nat, up : BOOLEAN, series : Nat]

NoOp == [kind |-> "none", part |-> {}]

EmptyState ==
    [snapshot |-> {},
     parts    |-> [c \in Collectors |-> {}],
     statuses |-> [c \in Collectors |->
                     [lastAttempt |-> 0, lastSuccess |-> 0, up |-> FALSE, series |-> 0]]]

NoScrape == [costs |-> None, view |-> None, at |-> 0]

Init ==
    /\ current = EmptyState
    /\ writeMu = None
    /\ writer = [c \in Collectors |-> "idle"]
    /\ op = [c \in Collectors |-> NoOp]
    /\ base = [c \in Collectors |-> EmptyState]
    /\ acked = [c \in Collectors |-> [part |-> {}, up |-> FALSE]]
    /\ writes = 0
    /\ scrape = [r \in Readers |-> NoScrape]
    /\ now = 1

\* A worker enters the store.
Called(c) ==
    /\ writer[c] = "idle" /\ writes < MaxWrites
    /\ writes' = writes + 1
    /\ writer' = [writer EXCEPT ![c] = "lock"]
    /\ UNCHANGED <<current, writeMu, base, acked, scrape, now>>

\* Publish is called; an invalid partial is refused before the lock is taken.
CallPublish(c) ==
    /\ \E p \in Partials[c] :
          /\ ValidatePartial(c, p)
          /\ op' = [op EXCEPT ![c] = [kind |-> "publish", part |-> p]]
    /\ Called(c)

CallRecordFailure(c) ==
    /\ op' = [op EXCEPT ![c] = [kind |-> "failure", part |-> {}]]
    /\ Called(c)

\* Mutant of Lock: writeMu is not taken.
LockFree(c) ==
    /\ writer[c] = "lock"
    /\ base' = [base EXCEPT ![c] = current]
    /\ writer' = [writer EXCEPT ![c] = "locked"]
    /\ UNCHANGED <<current, writeMu, op, acked, writes, scrape, now>>

\* writeMu is taken and the current state loaded.
Lock(c) ==
    /\ writer[c] = "lock" /\ writeMu = None
    /\ writeMu' = c
    /\ base' = [base EXCEPT ![c] = current]
    /\ writer' = [writer EXCEPT ![c] = "locked"]
    /\ UNCHANGED <<current, op, acked, writes, scrape, now>>

\* The deferred unlock, as the operation returns.
Return(c) ==
    /\ writeMu' = None
    /\ writer' = [writer EXCEPT ![c] = "idle"]
    /\ op' = [op EXCEPT ![c] = NoOp]
    /\ base' = [base EXCEPT ![c] = EmptyState]
    /\ UNCHANGED <<writes, scrape, now>>

NewParts(c) == [base[c].parts EXCEPT ![c] = op[c].part]

\* The status of d after c's publication.
StatusAfter(c, d, merged) ==
    [lastAttempt |-> IF d = c THEN now ELSE base[c].statuses[d].lastAttempt,
     lastSuccess |-> IF d = c THEN now ELSE base[c].statuses[d].lastSuccess,
     up          |-> IF d = c THEN TRUE ELSE base[c].statuses[d].up,
     series      |-> PublishedSeries(d, NewParts(c)[d], merged)]

\* Mutant of Published: only the publisher's series are recounted.
PublishedOwnSeries(c) ==
    LET merged == Select(Merge(NewParts(c)))
    IN  [snapshot |-> merged,
         parts    |-> NewParts(c),
         statuses |-> [base[c].statuses EXCEPT ![c] = StatusAfter(c, c, merged)]]

\* The state Publish builds from the one it loaded.
Published(c) ==
    LET merged == Select(Merge(NewParts(c)))
    IN  [snapshot |-> merged,
         parts    |-> NewParts(c),
         statuses |-> [d \in Collectors |-> StatusAfter(c, d, merged)]]

\* Publish succeeds: one pointer store replaces the whole state.
CommitPublish(c) ==
    /\ writer[c] = "locked" /\ op[c].kind = "publish"
    /\ Mergeable(NewParts(c))
    /\ current' = Published(c)
    /\ acked' = [acked EXCEPT ![c] = [part |-> op[c].part, up |-> TRUE]]
    /\ Return(c)

\* mergeParts fails: Publish returns the error and nothing changes.
RefusePublish(c) ==
    /\ writer[c] = "locked" /\ op[c].kind = "publish"
    /\ ~Mergeable(NewParts(c))
    /\ UNCHANGED <<current, acked>>
    /\ Return(c)

FailedStatus(s) ==
    [lastAttempt |-> now, lastSuccess |-> s.lastSuccess, up |-> FALSE, series |-> s.series]

\* Mutant of Failed: the last success is forgotten.
FailedResettingSuccess(c) ==
    [snapshot |-> base[c].snapshot,
     parts    |-> base[c].parts,
     statuses |-> [base[c].statuses EXCEPT ![c] = [FailedStatus(@) EXCEPT !.lastSuccess = 0]]]

\* Mutant of Failed: the failed collector's part is dropped, the snapshot kept.
FailedDroppingPart(c) ==
    [snapshot |-> base[c].snapshot,
     parts    |-> [base[c].parts EXCEPT ![c] = {}],
     statuses |-> [base[c].statuses EXCEPT ![c] = FailedStatus(@)]]

\* The state RecordFailure builds from the one it loaded.
Failed(c) ==
    [snapshot |-> base[c].snapshot,
     parts    |-> base[c].parts,
     statuses |-> [base[c].statuses EXCEPT ![c] = FailedStatus(@)]]

\* RecordFailure keeps every part, the snapshot and the last success.
CommitFailure(c) ==
    /\ writer[c] = "locked" /\ op[c].kind = "failure"
    /\ current' = Failed(c)
    /\ acked' = [acked EXCEPT ![c].up = FALSE]
    /\ Return(c)

-----------------------------------------------------------------------------
(* One scrape: Prometheus gathers the two registered collectors in any     *)
(* order, and each takes its own reading of the pointer.                   *)

\* ports.SnapshotView: the snapshot, and of each status the last success, from
\* which Load computes the freshness and the scrape the age.
View(s) == [snapshot |-> s.snapshot, success |-> [c \in Collectors |-> s.statuses[c].lastSuccess]]

\* CostCollector.Collect: store.Snapshot().
ScrapeCosts(r) ==
    /\ scrape[r].costs = None
    /\ scrape' = [scrape EXCEPT ![r].costs = current.snapshot]
    /\ UNCHANGED <<writeVars, now>>

\* Mutant of ScrapeView: the clock is read before the pointer.
ScrapeViewClockFirst(r) ==
    /\ scrape[r].view = None
    /\ scrape' = [scrape EXCEPT ![r].view = View(current), ![r].at = IF now = 1 THEN 1 ELSE now - 1]
    /\ UNCHANGED <<writeVars, now>>

\* Exporter.Collect: store.Load() loads the pointer ...
ScrapeView(r) ==
    /\ scrape[r].view = None
    /\ scrape' = [scrape EXCEPT ![r].view = View(current)]
    /\ UNCHANGED <<writeVars, now>>

\* ... and then reads the clock the freshness of the statuses is computed from.
ScrapeClock(r) ==
    /\ scrape[r].view # None /\ scrape[r].at = 0
    /\ scrape' = [scrape EXCEPT ![r].at = now]
    /\ UNCHANGED <<writeVars, now>>

\* The response is written and the connection serves the next scrape.
ScrapeDone(r) ==
    /\ scrape[r].costs # None /\ scrape[r].at # 0
    /\ scrape' = [scrape EXCEPT ![r] = NoScrape]
    /\ UNCHANGED <<writeVars, now>>

Tick ==
    /\ now < MaxTime
    /\ now' = now + 1
    /\ UNCHANGED <<writeVars, scrape>>

Write(c) ==
    \/ CallPublish(c) \/ CallRecordFailure(c) \/ Lock(c)
    \/ CommitPublish(c) \/ RefusePublish(c) \/ CommitFailure(c)

Scrape(r) == ScrapeCosts(r) \/ ScrapeView(r) \/ ScrapeClock(r) \/ ScrapeDone(r)

Next ==
    \/ \E c \in Collectors : Write(c)
    \/ \E r \in Readers : Scrape(r)
    \/ Tick

Spec == Init /\ [][Next]_vars

-----------------------------------------------------------------------------
(* Properties. *)

States == [snapshot : SUBSET Items, parts : [Collectors -> SUBSET Items],
           statuses : [Collectors -> Status]]

Views == [snapshot : SUBSET Items, success : [Collectors -> Nat]]

\* Every variable has its type; in particular the series counters, which
\* publishedSeries computes with a subtraction, are never negative.
TypeOK ==
    /\ current \in States
    /\ writeMu \in Collectors \cup {None}
    /\ writer \in [Collectors -> {"idle", "lock", "locked"}]
    /\ op \in [Collectors -> [kind : {"none", "publish", "failure"}, part : SUBSET Items]]
    /\ base \in [Collectors -> States]
    /\ acked \in [Collectors -> [part : SUBSET Items, up : BOOLEAN]]
    /\ writes \in Nat /\ now \in Nat \ {0}
    /\ scrape \in [Readers -> [costs : {None} \cup SUBSET Items, view : {None} \cup Views, at : Nat]]

\* The published snapshot is the policy's selection from the merge of exactly
\* the parts kept beside it, and those parts merge without a conflict: no
\* failure, refusal or concurrent writer leaves the two out of step
\* (store.go, Publish, RecordFailure and mergeParts).
SnapshotIsMerge ==
    /\ current.snapshot = Select(Merge(current.parts))
    /\ Mergeable(current.parts)

\* Whatever the store acknowledged to a collector's worker is still there: no
\* writer overwrites another's part or up flag (store.go, writeMu).
NoLostUpdate ==
    \A c \in Collectors :
        /\ current.parts[c] = acked[c].part
        /\ current.statuses[c].up = acked[c].up

\* A partial is refused only for what its own target holds: whether a merge
\* succeeds does not depend on the parts of other targets (store.go,
\* mergeParts; snapshot.go, ValidatePartial and ValidateUnique).
CrossTargetIsolation ==
    \A c \in Collectors :
        writer[c] = "locked" /\ op[c].kind = "publish" =>
            LET own == [d \in Collectors |->
                          IF TargetOf[d] = TargetOf[c] THEN NewParts(c)[d] ELSE {}]
            IN  Mergeable(own) => Mergeable(NewParts(c))

\* A collector never looks more recent than its attempts, nor than the clock of
\* the reader: ages computed by Load are never negative although the pointer
\* and the clock are read without a lock (store.go, Load and freshness).
AgeNonNegative ==
    /\ \A c \in Collectors :
          LET s == current.statuses[c]
          IN  s.lastSuccess <= s.lastAttempt /\ s.lastAttempt <= now
    /\ \A r \in Readers : scrape[r].at # 0 =>
          \A c \in Collectors : scrape[r].view.success[c] <= scrape[r].at

\* The sum of the series counters of the statuses, unit by unit.
CountedSeries == Cardinality(UNION {{c} \X (1..current.statuses[c].series) : c \in Collectors})

\* The series counters of the statuses add up to the series actually served:
\* publishing one collector recounts the others whose metadata it selects
\* (store.go, Publish and publishedSeries; snapshot.go, SeriesCount).
SeriesAccounting == CountedSeries = SeriesCount(current.snapshot)

\* The time of a collector's last success never goes back or disappears, so
\* stale data stays served with its true age (store.go, RecordFailure).
LastSuccessMonotone ==
    [][\A c \in Collectors :
         current'.statuses[c].lastSuccess >= current.statuses[c].lastSuccess]_vars

\* The store implements AtomicStore: writers that load, merge and swap act like
\* one indivisible replacement of one collector's part (store.go, Publish).
Atomic == INSTANCE AtomicStore WITH
            parts <- current.parts,
            up <- [c \in Collectors |-> current.statuses[c].up]
AtomicSpec == Atomic!Spec
=============================================================================
