------------------------- MODULE SnapshotStoreProofs -------------------------
(***************************************************************************)
(* Proofs about SnapshotStore for any finite set of collectors, any        *)
(* partials, policies and readers, and any number of writes.               *)
(***************************************************************************)
EXTENDS SnapshotStore, TLAPS, FiniteSetTheorems, FunctionTheorems

\* writeMu works: its holder's copy is the current state until it returns.
LockInv ==
    \A c \in Collectors :
        /\ writer[c] = "locked" <=> writeMu = c
        /\ writer[c] = "locked" => base[c] = current

\* Only validated partials reach the lock and the parts.
PartInv ==
    \A c \in Collectors :
        /\ ValidatePartial(c, current.parts[c]) /\ IsFiniteSet(current.parts[c])
        /\ ValidatePartial(c, op[c].part) /\ IsFiniteSet(op[c].part)

\* A reading is never ahead of the clock, and precedes the reading of the clock.
ReadInv ==
    \A r \in Readers :
        /\ scrape[r].view # None => \A c \in Collectors : scrape[r].view.success[c] <= now
        /\ scrape[r].at # 0 => scrape[r].view # None

IInv ==
    /\ TypeOK /\ LockInv /\ PartInv
    /\ SnapshotIsMerge /\ NoLostUpdate
    /\ AgeNonNegative /\ ReadInv

-----------------------------------------------------------------------------
(* Lemmas about the aggregate. *)

\* A collection of parts in which every record belongs to its collector's target.
OwnTargets(parts) == \A c \in Collectors : ValidatePartial(c, parts[c])

\* The account metadata selected for a target depends on that target's parts only.
LEMMA MetadataLocal ==
  ASSUME NEW P, NEW Q, OwnTargets(P), OwnTargets(Q), NEW t \in PolicyTargets,
         \A c \in Collectors : TargetOf[c] = t => P[c] = Q[c]
  PROVE  Metadata(Select(Merge(P)), t) = Metadata(Select(Merge(Q)), t)
<1>1. \A x : x.target = t => (x \in Merge(P) <=> x \in Merge(Q))
  BY DEF Merge, OwnTargets, ValidatePartial
<1>2. Observed(Merge(P), t) = Observed(Merge(Q), t)
  BY <1>1 DEF Observed
<1>3. Allowed(Merge(P), t) = Allowed(Merge(Q), t)
  BY <1>2 DEF Allowed
<1>4. QED
  BY <1>1, <1>3 DEF Metadata, Select

\* A merge fails only because of one target's own parts.
LEMMA MergeLocal ==
  ASSUME NEW P, NEW Q, NEW own, NEW t0, OwnTargets(P), OwnTargets(Q), OwnTargets(own),
         \A c \in Collectors : own[c] = IF TargetOf[c] = t0 THEN Q[c] ELSE {},
         \A c \in Collectors : TargetOf[c] # t0 => P[c] = Q[c],
         Mergeable(P), Mergeable(own)
  PROVE  Mergeable(Q)
<1>1. ValidateUnique(Q)
  <2> SUFFICES ASSUME NEW c \in Collectors, NEW d \in Collectors,
                      NEW x \in Q[c], NEW y \in Q[d], Label(x) = Label(y)
               PROVE  c = d /\ x = y
    BY DEF ValidateUnique
  <2>1. TargetOf[c] = TargetOf[d]
    BY DEF Label, OwnTargets, ValidatePartial
  <2>2. CASE TargetOf[c] = t0
    <3>1. x \in own[c] /\ y \in own[d]
      BY <2>1, <2>2
    <3>2. QED
      BY <3>1 DEF Mergeable, ValidateUnique
  <2>3. CASE TargetOf[c] # t0
    <3>1. x \in P[c] /\ y \in P[d]
      BY <2>1, <2>3
    <3>2. QED
      BY <3>1 DEF Mergeable, ValidateUnique
  <2>4. QED
    BY <2>2, <2>3
<1>2. ASSUME NEW t \in PolicyTargets
      PROVE  Cardinality(Metadata(Select(Merge(Q)), t)) <= SeriesLimit
  <2>1. CASE t = t0
    <3>1. Metadata(Select(Merge(Q)), t) = Metadata(Select(Merge(own)), t)
      BY <2>1, MetadataLocal
    <3>2. QED
      BY <3>1 DEF Mergeable
  <2>2. CASE t # t0
    <3>1. Metadata(Select(Merge(Q)), t) = Metadata(Select(Merge(P)), t)
      BY <2>2, MetadataLocal
    <3>2. QED
      BY <3>1 DEF Mergeable
  <2>3. QED
    BY <2>1, <2>2
<1>3. QED
  BY <1>1, <1>2 DEF Mergeable

\* The empty store merges.
LEMMA EmptyMerges ==
  ASSUME NEW P, \A c \in Collectors : P[c] = {}
  PROVE  Mergeable(P) /\ Select(Merge(P)) = {}
<1>1. Merge(P) = {}
  BY DEF Merge
<1>2. Select(Merge(P)) = {}
  BY <1>1 DEF Select
<1>3. ValidateUnique(P)
  BY DEF ValidateUnique
<1>4. \A t \in PolicyTargets : Metadata(Select(Merge(P)), t) = {}
  BY <1>2 DEF Metadata
<1>5. ASSUME NEW t \in PolicyTargets
      PROVE  Cardinality(Metadata(Select(Merge(P)), t)) <= SeriesLimit
  <2>1. Cardinality(Metadata(Select(Merge(P)), t)) = 0
    BY <1>4, FS_EmptySet
  <2>2. SeriesLimit \in Nat
    BY StoreAssumption
  <2>3. QED
    BY <2>1, <2>2
<1>6. QED
  BY <1>2, <1>3, <1>5 DEF Mergeable

\* Series counters are naturals, in spite of the subtraction.
LEMMA SeriesNat ==
  ASSUME NEW d \in Collectors, NEW p, NEW merged, IsFiniteSet(p), IsFiniteSet(merged)
  PROVE  PublishedSeries(d, p, merged) \in Nat
<1> DEFINE raw == {x \in p : x.kind = "metadata"}
           forecasts == {x \in p : x.kind = "forecast"}
           meta == Metadata(merged, TargetOf[d])
<1>1. IsFiniteSet(raw) /\ Cardinality(raw) <= Cardinality(p)
  BY FS_Subset
<1>2. IsFiniteSet(forecasts) /\ IsFiniteSet(meta)
  BY FS_Subset DEF Metadata
<1>3. /\ Cardinality(p) \in Nat /\ Cardinality(raw) \in Nat
      /\ Cardinality(forecasts) \in Nat /\ Cardinality(meta) \in Nat
  BY <1>1, <1>2, FS_CardinalityType
<1> HIDE DEF raw, forecasts, meta
<1>4. SeriesCount(p) = Cardinality(p) + 2 * Cardinality(forecasts)
  BY DEF SeriesCount, forecasts
<1>5. PublishedSeries(d, p, merged) =
        IF raw = {} THEN SeriesCount(p) ELSE (SeriesCount(p) - Cardinality(raw)) + Cardinality(meta)
  BY DEF PublishedSeries, raw, meta
<1>6. QED
  BY <1>1, <1>3, <1>4, <1>5

\* The merge of finitely many finite parts is finite, and stays within Items.
LEMMA MergedFinite ==
  ASSUME NEW P, \A c \in Collectors : IsFiniteSet(P[c]) /\ P[c] \subseteq Items
  PROVE  IsFiniteSet(Select(Merge(P))) /\ Select(Merge(P)) \subseteq Items
<1>1. IsFiniteSet({P[c] : c \in Collectors})
  <2> DEFINE image == {P[c] : c \in Collectors}
             f == [c \in Collectors |-> P[c]]
  <2>1. f \in Surjection(Collectors, image)
    BY DEF Surjection
  <2>2. IsFiniteSet(Collectors)
    BY StoreAssumption
  <2> HIDE DEF image, f
  <2>3. IsFiniteSet(image)
    BY <2>1, <2>2, FS_Surjection
  <2>4. QED
    BY <2>3 DEF image
<1>2. IsFiniteSet(Merge(P))
  BY <1>1, FS_UNION DEF Merge
<1>3. Select(Merge(P)) \subseteq Merge(P)
  BY DEF Select
<1>4. QED
  BY <1>2, <1>3, FS_Subset DEF Merge

-----------------------------------------------------------------------------
\* The initial state satisfies the invariant.
LEMMA InitIInv == Init => IInv
<1> SUFFICES ASSUME Init PROVE IInv
  OBVIOUS
<1>1. EmptyState \in States
  BY DEF EmptyState, States, Status
<1>2. TypeOK
  BY <1>1 DEF Init, TypeOK, NoOp, NoScrape
<1>3. LockInv
  BY StoreAssumption DEF Init, LockInv
<1>4. PartInv
  BY FS_EmptySet DEF Init, PartInv, ValidatePartial, EmptyState, NoOp
<1>5. SnapshotIsMerge
  BY EmptyMerges DEF Init, SnapshotIsMerge, EmptyState
<1>6. NoLostUpdate
  BY DEF Init, NoLostUpdate, EmptyState
<1>7. \A r \in Readers : scrape[r].view = None /\ scrape[r].at = 0
  BY DEF Init, NoScrape
<1>8. AgeNonNegative
  BY <1>7 DEF Init, AgeNonNegative, EmptyState
<1>9. ReadInv
  BY <1>7 DEF ReadInv
<1>10. QED
  BY <1>2, <1>3, <1>4, <1>5, <1>6, <1>8, <1>9 DEF IInv

\* What the holder of writeMu starts from.
LEMMA HolderFacts ==
  ASSUME IInv, NEW c \in Collectors, writer[c] = "locked"
  PROVE  /\ base[c] = current /\ writeMu = c
         /\ NewParts(c) = [current.parts EXCEPT ![c] = op[c].part]
         /\ NewParts(c) \in [Collectors -> SUBSET Items]
         /\ OwnTargets(NewParts(c))
         /\ \A d \in Collectors : IsFiniteSet(NewParts(c)[d])
<1>1. base[c] = current /\ writeMu = c
  BY DEF IInv, LockInv
<1>2. /\ NewParts(c) = [current.parts EXCEPT ![c] = op[c].part]
      /\ NewParts(c) \in [Collectors -> SUBSET Items]
  BY <1>1 DEF IInv, TypeOK, States, NewParts
<1>3. \A d \in Collectors : NewParts(c)[d] = IF d = c THEN op[c].part ELSE current.parts[d]
  BY <1>2 DEF IInv, TypeOK, States
<1>4. QED
  BY <1>1, <1>2, <1>3 DEF IInv, PartInv, OwnTargets

\* The state a successful Publish stores, field by field.
LEMMA PublishedFacts ==
  ASSUME IInv, NEW c \in Collectors, writer[c] = "locked"
  PROVE  /\ Published(c) \in States
         /\ Published(c).parts = NewParts(c)
         /\ Published(c).snapshot = Select(Merge(NewParts(c)))
         /\ \A d \in Collectors :
               /\ Published(c).statuses[d].lastAttempt =
                     IF d = c THEN now ELSE current.statuses[d].lastAttempt
               /\ Published(c).statuses[d].lastSuccess =
                     IF d = c THEN now ELSE current.statuses[d].lastSuccess
               /\ Published(c).statuses[d].up = IF d = c THEN TRUE ELSE current.statuses[d].up
<1> DEFINE merged == Select(Merge(NewParts(c)))
<1>1. IsFiniteSet(merged) /\ merged \subseteq Items
  BY HolderFacts, MergedFinite
<1> HIDE DEF merged
<1>2. \A d \in Collectors : PublishedSeries(d, NewParts(c)[d], merged) \in Nat
  BY <1>1, HolderFacts, SeriesNat
<1>3. Published(c) = [snapshot |-> merged, parts |-> NewParts(c),
                      statuses |-> [d \in Collectors |-> StatusAfter(c, d, merged)]]
  BY DEF Published, merged
<1>4. base[c] = current /\ NewParts(c) \in [Collectors -> SUBSET Items]
  BY HolderFacts
<1>5. \A d \in Collectors : StatusAfter(c, d, merged) \in Status
  BY <1>2, <1>4 DEF StatusAfter, Status, IInv, TypeOK, States
<1>6. Published(c) \in States
  BY <1>1, <1>3, <1>4, <1>5 DEF States
<1>7. Published(c).parts = NewParts(c) /\ Published(c).snapshot = Select(Merge(NewParts(c)))
  BY <1>3 DEF merged
<1>8. ASSUME NEW d \in Collectors
      PROVE  /\ Published(c).statuses[d].lastAttempt =
                   IF d = c THEN now ELSE current.statuses[d].lastAttempt
             /\ Published(c).statuses[d].lastSuccess =
                   IF d = c THEN now ELSE current.statuses[d].lastSuccess
             /\ Published(c).statuses[d].up = IF d = c THEN TRUE ELSE current.statuses[d].up
  <2>1. Published(c).statuses[d] = StatusAfter(c, d, merged)
    BY <1>3
  <2>2. /\ StatusAfter(c, d, merged).lastAttempt =
              IF d = c THEN now ELSE current.statuses[d].lastAttempt
        /\ StatusAfter(c, d, merged).lastSuccess =
              IF d = c THEN now ELSE current.statuses[d].lastSuccess
    BY <1>4 DEF StatusAfter
  <2>3. StatusAfter(c, d, merged).up = IF d = c THEN TRUE ELSE current.statuses[d].up
    BY <1>4, Zenon DEF StatusAfter
  <2>4. QED
    BY <2>1, <2>2, <2>3, Zenon
<1>9. QED
  BY <1>6, <1>7, <1>8

\* The state RecordFailure stores, field by field.
LEMMA FailedFacts ==
  ASSUME IInv, NEW c \in Collectors, writer[c] = "locked"
  PROVE  /\ Failed(c) \in States
         /\ Failed(c).parts = current.parts
         /\ Failed(c).snapshot = current.snapshot
         /\ \A d \in Collectors :
               /\ Failed(c).statuses[d].lastAttempt =
                     IF d = c THEN now ELSE current.statuses[d].lastAttempt
               /\ Failed(c).statuses[d].lastSuccess = current.statuses[d].lastSuccess
               /\ Failed(c).statuses[d].up = IF d = c THEN FALSE ELSE current.statuses[d].up
<1>1. base[c] = current /\ current \in States /\ now \in Nat
  BY HolderFacts DEF IInv, TypeOK
<1>2. FailedStatus(current.statuses[c]) \in Status
  BY <1>1 DEF FailedStatus, States, Status
<1>3. /\ Failed(c).parts = current.parts
      /\ Failed(c).snapshot = current.snapshot
      /\ Failed(c).statuses = [current.statuses EXCEPT ![c] = FailedStatus(current.statuses[c])]
  BY <1>1 DEF Failed
<1>4. Failed(c) \in States
  BY <1>1, <1>2 DEF Failed, States
<1>5. \A d \in Collectors : Failed(c).statuses[d] =
        IF d = c THEN FailedStatus(current.statuses[c]) ELSE current.statuses[d]
  BY <1>1, <1>3 DEF States
<1>6. ASSUME NEW d \in Collectors
      PROVE  /\ Failed(c).statuses[d].lastAttempt =
                   IF d = c THEN now ELSE current.statuses[d].lastAttempt
             /\ Failed(c).statuses[d].lastSuccess = current.statuses[d].lastSuccess
             /\ Failed(c).statuses[d].up = IF d = c THEN FALSE ELSE current.statuses[d].up
  <2>1. CASE d = c
    <3>1. Failed(c).statuses[d] = FailedStatus(current.statuses[d])
      BY <2>1, <1>5
    <3>2. /\ FailedStatus(current.statuses[d]).lastAttempt = now
          /\ FailedStatus(current.statuses[d]).lastSuccess = current.statuses[d].lastSuccess
          /\ FailedStatus(current.statuses[d]).up = FALSE
      BY DEF FailedStatus
    <3>3. QED
      BY <2>1, <3>1, <3>2, Zenon
  <2>2. CASE d # c
    BY <2>2, <1>5, Zenon
  <2>3. QED
    BY <2>1, <2>2
<1>7. QED
  BY <1>3, <1>4, <1>6

-----------------------------------------------------------------------------
(* Every step preserves the invariant. *)

\* Facts about the constants and the empty values the steps store.
LEMMA Defaults ==
  /\ EmptyState \in States
  /\ NoOp \in [kind : {"none", "publish", "failure"}, part : SUBSET Items]
  /\ NoOp.part = {} /\ IsFiniteSet({})
  /\ None \notin Collectors
<1>1. EmptyState \in States
  BY DEF EmptyState, States, Status
<1>2. NoOp \in [kind : {"none", "publish", "failure"}, part : SUBSET Items] /\ NoOp.part = {}
  BY DEF NoOp
<1>3. QED
  BY <1>1, <1>2, FS_EmptySet, StoreAssumption

\* A step that leaves current, acked, now and the scrapes alone keeps what the
\* invariant says of them.
LEMMA CurrentUnchanged ==
  ASSUME IInv, UNCHANGED <<current, acked, scrape, now>>
  PROVE  SnapshotIsMerge' /\ NoLostUpdate' /\ AgeNonNegative' /\ ReadInv'
<1>1. SnapshotIsMerge'
  BY DEF IInv, SnapshotIsMerge
<1>2. NoLostUpdate'
  BY DEF IInv, NoLostUpdate
<1>3. AgeNonNegative'
  BY DEF IInv, AgeNonNegative
<1>4. ReadInv'
  BY DEF IInv, ReadInv
<1>5. QED
  BY <1>1, <1>2, <1>3, <1>4

\* A call of Publish or RecordFailure.
LEMMA CallStep ==
  ASSUME IInv, NEW c \in Collectors, CallPublish(c) \/ CallRecordFailure(c)
  PROVE  IInv'
<1>1. PICK o \in [kind : {"none", "publish", "failure"}, part : SUBSET Items] :
        /\ op' = [op EXCEPT ![c] = o]
        /\ ValidatePartial(c, o.part) /\ IsFiniteSet(o.part)
  <2>1. CASE CallPublish(c)
    <3>1. PICK p \in Partials[c] :
            /\ ValidatePartial(c, p)
            /\ op' = [op EXCEPT ![c] = [kind |-> "publish", part |-> p]]
      BY <2>1 DEF CallPublish
    <3>2. p \in SUBSET Items /\ IsFiniteSet(p)
      BY StoreAssumption
    <3> DEFINE o == [kind |-> "publish", part |-> p]
    <3>3. o \in [kind : {"none", "publish", "failure"}, part : SUBSET Items] /\ o.part = p
      BY <3>2
    <3>4. op' = [op EXCEPT ![c] = o]
      BY <3>1
    <3> HIDE DEF o
    <3>5. QED
      BY <3>1, <3>2, <3>3, <3>4
  <2>2. CASE CallRecordFailure(c)
    <3> DEFINE o == [kind |-> "failure", part |-> {}]
    <3>1. o \in [kind : {"none", "publish", "failure"}, part : SUBSET Items] /\ o.part = {}
      OBVIOUS
    <3>2. op' = [op EXCEPT ![c] = o]
      BY <2>2 DEF CallRecordFailure
    <3> HIDE DEF o
    <3>3. QED
      BY <3>1, <3>2, FS_EmptySet DEF ValidatePartial
  <2>3. QED
    BY <2>1, <2>2
<1>2. Called(c)
  BY DEF CallPublish, CallRecordFailure
<1>3. TypeOK'
  BY <1>1, <1>2 DEF IInv, TypeOK, Called
<1>4. LockInv'
  BY <1>2 DEF IInv, TypeOK, LockInv, Called
<1>5. PartInv'
  BY <1>1, <1>2 DEF IInv, TypeOK, PartInv, Called
<1>6. QED
  BY <1>2, <1>3, <1>4, <1>5, CurrentUnchanged DEF Called, IInv

\* Taking writeMu and loading the current state.
LEMMA LockStep ==
  ASSUME IInv, NEW c \in Collectors, Lock(c)
  PROVE  IInv'
<1>1. TypeOK'
  BY DEF IInv, TypeOK, Lock
<1>2. LockInv'
  BY Defaults DEF IInv, TypeOK, LockInv, Lock
<1>3. PartInv'
  BY DEF IInv, PartInv, Lock
<1>4. QED
  BY <1>1, <1>2, <1>3, CurrentUnchanged DEF Lock, IInv

\* Whatever an operation stores, its return keeps the lock and the partials in
\* order, if the stored state is typed and its parts are valid.
LEMMA ReturnStep ==
  ASSUME IInv, NEW c \in Collectors, writer[c] = "locked", Return(c),
         current' \in States, acked' \in [Collectors -> [part : SUBSET Items, up : BOOLEAN]],
         \A d \in Collectors : ValidatePartial(d, current'.parts[d]) /\ IsFiniteSet(current'.parts[d])
  PROVE  TypeOK' /\ LockInv' /\ PartInv'
<1>1. TypeOK'
  BY Defaults DEF IInv, TypeOK, Return
<1>2. LockInv'
  BY Defaults, HolderFacts DEF IInv, TypeOK, LockInv, Return
<1>3. PartInv'
  BY Defaults DEF IInv, TypeOK, PartInv, Return, ValidatePartial
<1>4. QED
  BY <1>1, <1>2, <1>3

\* A refused Publish.
LEMMA RefuseStep ==
  ASSUME IInv, NEW c \in Collectors, RefusePublish(c)
  PROVE  IInv'
<1>1. TypeOK' /\ LockInv' /\ PartInv'
  BY ReturnStep DEF RefusePublish, IInv, TypeOK, PartInv
<1>2. QED
  BY <1>1, CurrentUnchanged DEF RefusePublish, Return, IInv

\* A successful Publish.
LEMMA PublishStep ==
  ASSUME IInv, NEW c \in Collectors, CommitPublish(c)
  PROVE  IInv'
<1>1. /\ writer[c] = "locked" /\ Return(c) /\ Mergeable(NewParts(c))
      /\ current' = Published(c)
      /\ acked' = [acked EXCEPT ![c] = [part |-> op[c].part, up |-> TRUE]]
      /\ UNCHANGED <<scrape, now>>
  BY DEF CommitPublish, Return
<1>2. /\ current' \in States
      /\ current'.parts = NewParts(c)
      /\ current'.snapshot = Select(Merge(NewParts(c)))
  BY <1>1, PublishedFacts
<1>3. \A d \in Collectors :
         /\ current'.statuses[d].lastAttempt = IF d = c THEN now ELSE current.statuses[d].lastAttempt
         /\ current'.statuses[d].lastSuccess = IF d = c THEN now ELSE current.statuses[d].lastSuccess
         /\ current'.statuses[d].up = IF d = c THEN TRUE ELSE current.statuses[d].up
  BY <1>1, PublishedFacts, Zenon
<1>4. \A d \in Collectors : NewParts(c)[d] = IF d = c THEN op[c].part ELSE current.parts[d]
  BY <1>1, HolderFacts DEF IInv, TypeOK, States
<1>5. TypeOK' /\ LockInv' /\ PartInv'
  <2>1. acked' \in [Collectors -> [part : SUBSET Items, up : BOOLEAN]]
    BY <1>1 DEF IInv, TypeOK
  <2>2. \A d \in Collectors : ValidatePartial(d, current'.parts[d]) /\ IsFiniteSet(current'.parts[d])
    BY <1>1, <1>2, HolderFacts DEF OwnTargets
  <2>3. QED
    BY <1>1, <1>2, <2>1, <2>2, ReturnStep
<1>6. SnapshotIsMerge'
  BY <1>1, <1>2 DEF SnapshotIsMerge
<1>7. NoLostUpdate'
  <2>1. ASSUME NEW d \in Collectors
        PROVE  current'.parts[d] = acked'[d].part /\ current'.statuses[d].up = acked'[d].up
    <3>1. CASE d = c
      <4>1. acked'[d] = [part |-> op[c].part, up |-> TRUE]
        BY <3>1, <1>1 DEF IInv, TypeOK
      <4>2. acked'[d].part = op[c].part /\ acked'[d].up = TRUE
        BY <4>1
      <4>3. QED
        BY <3>1, <1>2, <1>3, <1>4, <4>2, Zenon
    <3>2. CASE d # c
      <4>1. acked'[d] = acked[d]
        BY <3>2, <1>1 DEF IInv, TypeOK
      <4>2. current.parts[d] = acked[d].part /\ current.statuses[d].up = acked[d].up
        BY DEF IInv, NoLostUpdate
      <4>3. QED
        BY <3>2, <1>2, <1>3, <1>4, <4>1, <4>2, Zenon
    <3>3. QED
      BY <3>1, <3>2
  <2>2. QED
    BY <2>1, Zenon DEF NoLostUpdate
<1>8. AgeNonNegative'
  <2>1. ASSUME NEW d \in Collectors
        PROVE  /\ current'.statuses[d].lastSuccess <= current'.statuses[d].lastAttempt
               /\ current'.statuses[d].lastAttempt <= now'
    <3>1. /\ current.statuses[d].lastSuccess <= current.statuses[d].lastAttempt
          /\ current.statuses[d].lastAttempt <= now
      BY DEF IInv, AgeNonNegative
    <3>2. /\ current.statuses[d].lastSuccess \in Nat
          /\ current.statuses[d].lastAttempt \in Nat /\ now \in Nat
      BY DEF IInv, TypeOK, States, Status
    <3>3. /\ current'.statuses[d].lastAttempt = IF d = c THEN now ELSE current.statuses[d].lastAttempt
          /\ current'.statuses[d].lastSuccess = IF d = c THEN now ELSE current.statuses[d].lastSuccess
      BY <1>3, Zenon
    <3>4. QED
      BY <3>1, <3>2, <3>3, <1>1
  <2>2. QED
    BY <2>1, <1>1 DEF IInv, AgeNonNegative
<1>9. ReadInv'
  BY <1>1 DEF IInv, ReadInv
<1>10. QED
  BY <1>5, <1>6, <1>7, <1>8, <1>9 DEF IInv

\* A recorded failure.
LEMMA FailureStep ==
  ASSUME IInv, NEW c \in Collectors, CommitFailure(c)
  PROVE  IInv'
<1>1. /\ writer[c] = "locked" /\ Return(c)
      /\ current' = Failed(c)
      /\ acked' = [acked EXCEPT ![c].up = FALSE]
      /\ UNCHANGED <<scrape, now>>
  BY DEF CommitFailure, Return
<1>2. /\ current' \in States
      /\ current'.parts = current.parts
      /\ current'.snapshot = current.snapshot
  BY <1>1, FailedFacts
<1>3. \A d \in Collectors :
         /\ current'.statuses[d].lastAttempt = IF d = c THEN now ELSE current.statuses[d].lastAttempt
         /\ current'.statuses[d].lastSuccess = current.statuses[d].lastSuccess
         /\ current'.statuses[d].up = IF d = c THEN FALSE ELSE current.statuses[d].up
  BY <1>1, FailedFacts, Zenon
<1>4. TypeOK' /\ LockInv' /\ PartInv'
  <2>1. acked' \in [Collectors -> [part : SUBSET Items, up : BOOLEAN]]
    BY <1>1 DEF IInv, TypeOK
  <2>2. \A d \in Collectors : ValidatePartial(d, current'.parts[d]) /\ IsFiniteSet(current'.parts[d])
    BY <1>2 DEF IInv, PartInv
  <2>3. QED
    BY <1>1, <1>2, <2>1, <2>2, ReturnStep
<1>5. SnapshotIsMerge'
  BY <1>2 DEF IInv, SnapshotIsMerge
<1>6. NoLostUpdate'
  <2>1. ASSUME NEW d \in Collectors
        PROVE  current'.parts[d] = acked'[d].part /\ current'.statuses[d].up = acked'[d].up
    <3>1. current.parts[d] = acked[d].part /\ current.statuses[d].up = acked[d].up
      BY DEF IInv, NoLostUpdate
    <3>2. CASE d = c
      <4>1. acked'[d].part = acked[d].part /\ acked'[d].up = FALSE
        BY <3>2, <1>1 DEF IInv, TypeOK
      <4>2. QED
        BY <3>1, <3>2, <1>2, <1>3, <4>1, Zenon
    <3>3. CASE d # c
      <4>1. acked'[d] = acked[d]
        BY <3>3, <1>1 DEF IInv, TypeOK
      <4>2. QED
        BY <3>1, <3>3, <1>2, <1>3, <4>1, Zenon
    <3>4. QED
      BY <3>2, <3>3
  <2>2. QED
    BY <2>1, Zenon DEF NoLostUpdate
<1>7. AgeNonNegative'
  <2>1. ASSUME NEW d \in Collectors
        PROVE  /\ current'.statuses[d].lastSuccess <= current'.statuses[d].lastAttempt
               /\ current'.statuses[d].lastAttempt <= now'
    <3>1. /\ current.statuses[d].lastSuccess <= current.statuses[d].lastAttempt
          /\ current.statuses[d].lastAttempt <= now
      BY DEF IInv, AgeNonNegative
    <3>2. /\ current.statuses[d].lastSuccess \in Nat
          /\ current.statuses[d].lastAttempt \in Nat /\ now \in Nat
      BY DEF IInv, TypeOK, States, Status
    <3>3. /\ current'.statuses[d].lastAttempt = IF d = c THEN now ELSE current.statuses[d].lastAttempt
          /\ current'.statuses[d].lastSuccess = current.statuses[d].lastSuccess
      BY <1>3, Zenon
    <3>4. QED
      BY <3>1, <3>2, <3>3, <1>1
  <2>2. QED
    BY <2>1, <1>1 DEF IInv, AgeNonNegative
<1>8. ReadInv'
  BY <1>1 DEF IInv, ReadInv
<1>9. QED
  BY <1>4, <1>5, <1>6, <1>7, <1>8 DEF IInv

\* The steps of a scrape.
LEMMA ScrapeStep ==
  ASSUME IInv, NEW r \in Readers, Scrape(r)
  PROVE  IInv'
<1>1. UNCHANGED <<writeVars, now>>
  BY DEF Scrape, ScrapeCosts, ScrapeView, ScrapeClock, ScrapeDone
<1>2. LockInv' /\ PartInv' /\ SnapshotIsMerge' /\ NoLostUpdate'
  BY <1>1 DEF IInv, writeVars, LockInv, PartInv, SnapshotIsMerge, NoLostUpdate, NewParts
<1>3. \A c \in Collectors :
         /\ current.statuses[c].lastSuccess <= now
         /\ current.statuses[c].lastSuccess \in Nat
  <2> SUFFICES ASSUME NEW c \in Collectors
               PROVE  current.statuses[c].lastSuccess <= now /\ current.statuses[c].lastSuccess \in Nat
    OBVIOUS
  <2>1. /\ current.statuses[c].lastSuccess \in Nat
        /\ current.statuses[c].lastAttempt \in Nat /\ now \in Nat
    BY DEF IInv, TypeOK, States, Status
  <2>2. QED
    BY <2>1 DEF IInv, AgeNonNegative
<1>4. /\ scrape \in [Readers -> [costs : {None} \cup SUBSET Items, view : {None} \cup Views, at : Nat]]
      /\ current.snapshot \in SUBSET Items /\ now \in Nat \ {0}
  BY DEF IInv, TypeOK, States
<1>5. scrape' \in [Readers -> [costs : {None} \cup SUBSET Items, view : {None} \cup Views, at : Nat]]
  <2>1. CASE ScrapeCosts(r)
    BY <1>4, <2>1 DEF ScrapeCosts
  <2>2. CASE ScrapeView(r)
    <3>1. View(current) \in Views
      BY <1>3, <1>4 DEF View, Views
    <3>2. QED
      BY <1>4, <2>2, <3>1 DEF ScrapeView
  <2>3. CASE ScrapeClock(r)
    BY <1>4, <2>3 DEF ScrapeClock
  <2>4. CASE ScrapeDone(r)
    BY <1>4, <2>4 DEF ScrapeDone, NoScrape
  <2>5. QED
    BY <2>1, <2>2, <2>3, <2>4 DEF Scrape
<1>6. TypeOK'
  BY <1>1, <1>5 DEF IInv, TypeOK, writeVars
<1>7. ASSUME NEW q \in Readers, scrape'[q].view # None, NEW c \in Collectors
      PROVE  scrape'[q].view.success[c] <= now
  <2>1. CASE q = r /\ ScrapeView(r)
    <3>1. scrape'[q].view = View(current)
      BY <1>4, <2>1 DEF ScrapeView
    <3>2. scrape'[q].view.success[c] = current.statuses[c].lastSuccess
      BY <3>1 DEF View
    <3>3. QED
      BY <1>3, <3>2
  <2>2. CASE q # r \/ ~ScrapeView(r)
    <3>1. scrape'[q].view = scrape[q].view
      BY <1>4, <1>7, <2>2 DEF Scrape, ScrapeCosts, ScrapeView, ScrapeClock, ScrapeDone, NoScrape
    <3>2. QED
      BY <1>7, <3>1 DEF IInv, ReadInv
  <2>3. QED
    BY <2>1, <2>2
<1>8. ReadInv'
  <2>1. ASSUME NEW q \in Readers, scrape'[q].at # 0
        PROVE  scrape'[q].view # None
    BY <1>4, <2>1 DEF Scrape, ScrapeCosts, ScrapeView, ScrapeClock, ScrapeDone, NoScrape, IInv, ReadInv
  <2>2. QED
    BY <1>1, <1>7, <2>1 DEF ReadInv
<1>9. ASSUME NEW q \in Readers, scrape'[q].at # 0, NEW c \in Collectors
      PROVE  scrape'[q].view.success[c] <= scrape'[q].at
  <2>1. CASE q = r /\ ScrapeClock(r)
    <3>1. scrape'[q].view = scrape[q].view /\ scrape[q].view # None /\ scrape'[q].at = now
      BY <1>4, <2>1 DEF ScrapeClock
    <3>2. QED
      BY <3>1 DEF IInv, ReadInv
  <2>2. CASE q # r \/ ~ScrapeClock(r)
    <3>1. scrape[q].at # 0 => scrape'[q].view = scrape[q].view /\ scrape'[q].at = scrape[q].at
      <4>1. CASE ScrapeView(r)
        \* a reader that has read the clock has a view and does not take another
        BY <1>4, <2>2, <4>1 DEF ScrapeView, IInv, ReadInv
      <4>2. CASE ~ScrapeView(r)
        BY <1>4, <1>9, <2>2, <4>2 DEF Scrape, ScrapeCosts, ScrapeClock, ScrapeDone, NoScrape
      <4>3. QED
        BY <4>1, <4>2
    <3>2. scrape[q].at # 0
      BY <1>4, <1>9, <2>2 DEF Scrape, ScrapeCosts, ScrapeView, ScrapeClock, ScrapeDone, NoScrape
    <3>3. QED
      BY <3>1, <3>2 DEF IInv, AgeNonNegative
  <2>3. QED
    BY <2>1, <2>2
<1>10. AgeNonNegative'
  BY <1>1, <1>9 DEF IInv, AgeNonNegative, writeVars
<1>11. QED
  BY <1>2, <1>6, <1>8, <1>10 DEF IInv

\* The clock moves on.
LEMMA TickStep ==
  ASSUME IInv, Tick
  PROVE  IInv'
<1>1. UNCHANGED <<current, writeMu, writer, op, base, acked, writes, scrape>> /\ now' = now + 1
  BY DEF Tick, writeVars
<1>2. now \in Nat /\ now' \in Nat \ {0}
  BY <1>1 DEF IInv, TypeOK
<1>3. TypeOK' /\ LockInv' /\ PartInv' /\ SnapshotIsMerge' /\ NoLostUpdate'
  BY <1>1, <1>2 DEF IInv, TypeOK, LockInv, PartInv, SnapshotIsMerge, NoLostUpdate
<1>4. AgeNonNegative'
  <2>1. ASSUME NEW c \in Collectors
        PROVE  /\ current'.statuses[c].lastSuccess <= current'.statuses[c].lastAttempt
               /\ current'.statuses[c].lastAttempt <= now'
    <3>1. current.statuses[c].lastAttempt \in Nat
      BY DEF IInv, TypeOK, States, Status
    <3>2. QED
      BY <1>1, <1>2, <3>1 DEF IInv, AgeNonNegative
  <2>2. QED
    BY <1>1, <2>1 DEF IInv, AgeNonNegative
<1>5. ReadInv'
  <2>1. ASSUME NEW r \in Readers, scrape[r].view # None, NEW c \in Collectors
        PROVE  scrape[r].view.success[c] <= now'
    <3>1. scrape[r].view.success[c] \in Nat
      BY <2>1 DEF IInv, TypeOK, Views
    <3>2. QED
      BY <1>1, <1>2, <2>1, <3>1 DEF IInv, ReadInv
  <2>2. QED
    BY <1>1, <2>1 DEF IInv, ReadInv
<1>6. QED
  BY <1>3, <1>4, <1>5 DEF IInv

\* IInv is inductive: lock, partials and clock together imply the rest.
THEOREM StoreInductive == Spec => []IInv
<1>1. IInv /\ [Next]_vars => IInv'
  <2> SUFFICES ASSUME IInv, [Next]_vars PROVE IInv'
    OBVIOUS
  <2>1. ASSUME NEW c \in Collectors, Write(c) PROVE IInv'
    BY <2>1, CallStep, LockStep, PublishStep, RefuseStep, FailureStep DEF Write
  <2>2. ASSUME NEW r \in Readers, Scrape(r) PROVE IInv'
    BY <2>2, ScrapeStep
  <2>3. CASE Tick
    BY <2>3, TickStep
  <2>4. CASE UNCHANGED vars
    <3>1. UNCHANGED <<current, acked, scrape, now>>
      BY <2>4 DEF vars
    <3>2. TypeOK' /\ LockInv' /\ PartInv'
      BY <2>4 DEF vars, IInv, TypeOK, LockInv, PartInv
    <3>3. QED
      BY <3>1, <3>2, CurrentUnchanged DEF IInv
  <2>5. QED
    BY <2>1, <2>2, <2>3, <2>4 DEF Next
<1>2. QED
  BY InitIInv, <1>1, PTL DEF Spec

\* Type correctness; in particular no series counter is ever negative.
THEOREM StoreTypeCorrect == Spec => []TypeOK
<1>1. IInv => TypeOK
  BY DEF IInv
<1>2. QED
  BY <1>1, StoreInductive, PTL

\* The snapshot is always the selection from the merge of the parts kept beside it.
THEOREM SnapshotMerged == Spec => []SnapshotIsMerge
<1>1. IInv => SnapshotIsMerge
  BY DEF IInv
<1>2. QED
  BY <1>1, StoreInductive, PTL

\* No acknowledged publication or failure is overwritten by another writer.
THEOREM NothingLost == Spec => []NoLostUpdate
<1>1. IInv => NoLostUpdate
  BY DEF IInv
<1>2. QED
  BY <1>1, StoreInductive, PTL

\* Ages are never negative, whatever the interleaving of writers, readers and clock.
THEOREM AgesNonNegative == Spec => []AgeNonNegative
<1>1. IInv => AgeNonNegative
  BY DEF IInv
<1>2. QED
  BY <1>1, StoreInductive, PTL

\* One target's data never makes the store refuse another target's partial.
THEOREM TargetsIsolated == Spec => []CrossTargetIsolation
<1>1. IInv => CrossTargetIsolation
  <2> SUFFICES ASSUME IInv, NEW c \in Collectors, writer[c] = "locked", op[c].kind = "publish"
               PROVE  LET own == [d \in Collectors |->
                                    IF TargetOf[d] = TargetOf[c] THEN NewParts(c)[d] ELSE {}]
                      IN  Mergeable(own) => Mergeable(NewParts(c))
    BY DEF CrossTargetIsolation
  <2> DEFINE own == [d \in Collectors |->
                       IF TargetOf[d] = TargetOf[c] THEN NewParts(c)[d] ELSE {}]
  <2>1. \A d \in Collectors : own[d] = IF TargetOf[d] = TargetOf[c] THEN NewParts(c)[d] ELSE {}
    OBVIOUS
  <2> HIDE DEF own
  <2>2. OwnTargets(NewParts(c)) /\ NewParts(c) = [current.parts EXCEPT ![c] = op[c].part]
    BY HolderFacts
  <2>3. OwnTargets(own)
    BY <2>1, <2>2 DEF OwnTargets, ValidatePartial
  <2>4. OwnTargets(current.parts) /\ Mergeable(current.parts)
    BY DEF IInv, PartInv, SnapshotIsMerge, OwnTargets
  <2>5. \A d \in Collectors : TargetOf[d] # TargetOf[c] => current.parts[d] = NewParts(c)[d]
    BY <2>2 DEF IInv, TypeOK, States
  <2>6. ASSUME Mergeable(own)
        PROVE  Mergeable(NewParts(c))
    <3> DEFINE P == current.parts
               Q == NewParts(c)
               t0 == TargetOf[c]
    <3>1. /\ OwnTargets(P) /\ OwnTargets(Q) /\ OwnTargets(own) /\ Mergeable(P) /\ Mergeable(own)
          /\ \A d \in Collectors : own[d] = IF TargetOf[d] = t0 THEN Q[d] ELSE {}
          /\ \A d \in Collectors : TargetOf[d] # t0 => P[d] = Q[d]
      BY <2>1, <2>2, <2>3, <2>4, <2>5, <2>6
    <3> HIDE DEF P, Q, t0
    <3>2. Mergeable(Q)
      BY <3>1, MergeLocal, Zenon
    <3>3. QED
      BY <3>2 DEF Q
  <2>7. QED
    BY <2>6 DEF own
<1>2. QED
  BY <1>1, StoreInductive, PTL

\* A last-success time never goes back.
THEOREM SuccessMonotone == Spec => LastSuccessMonotone
<1>1. IInv /\ [Next]_vars =>
        [\A c \in Collectors :
           current'.statuses[c].lastSuccess >= current.statuses[c].lastSuccess]_vars
  <2> SUFFICES ASSUME IInv, Next, NEW d \in Collectors
               PROVE  current'.statuses[d].lastSuccess >= current.statuses[d].lastSuccess
    OBVIOUS
  <2>1. /\ current.statuses[d].lastSuccess \in Nat /\ current.statuses[d].lastAttempt \in Nat
        /\ now \in Nat
    BY DEF IInv, TypeOK, States, Status
  <2>2. current.statuses[d].lastSuccess <= now
    <3>1. /\ current.statuses[d].lastSuccess <= current.statuses[d].lastAttempt
          /\ current.statuses[d].lastAttempt <= now
      BY DEF IInv, AgeNonNegative
    <3>2. QED
      BY <2>1, <3>1
  <2>3. ASSUME NEW c \in Collectors, CommitPublish(c)
        PROVE  current'.statuses[d].lastSuccess >= current.statuses[d].lastSuccess
    <3>1. current'.statuses[d].lastSuccess = IF d = c THEN now ELSE current.statuses[d].lastSuccess
      BY <2>3, PublishedFacts, Zenon DEF CommitPublish
    <3>2. QED
      BY <2>1, <2>2, <3>1
  <2>4. ASSUME NEW c \in Collectors, CommitFailure(c)
        PROVE  current'.statuses[d].lastSuccess >= current.statuses[d].lastSuccess
    <3>1. current'.statuses[d].lastSuccess = current.statuses[d].lastSuccess
      BY <2>4, FailedFacts, Zenon DEF CommitFailure
    <3>2. QED
      BY <2>1, <3>1
  <2>5. CASE UNCHANGED current
    BY <2>1, <2>5
  <2>6. QED
    BY <2>3, <2>4, <2>5
       DEF Next, Write, CallPublish, CallRecordFailure, Called, Lock, RefusePublish,
           Scrape, ScrapeCosts, ScrapeView, ScrapeClock, ScrapeDone, Tick, writeVars
<1>2. QED
  BY <1>1, StoreInductive, PTL DEF Spec, LastSuccessMonotone

\* The lock-copy-swap store implements the abstract, atomic one.
THEOREM RefinesAtomic == Spec => AtomicSpec
<1> DEFINE ups == [c \in Collectors |-> current.statuses[c].up]
<1>1. Init => Atomic!Init
  <2> SUFFICES ASSUME Init PROVE Atomic!Init
    OBVIOUS
  <2>1. current.parts = [c \in Collectors |-> {}]
    BY DEF Init, EmptyState
  <2>2. \A c \in Collectors : current.statuses[c].up = FALSE
    BY DEF Init, EmptyState
  <2>3. QED
    BY <2>1, <2>2, Zenon DEF Atomic!Init
<1>2. IInv /\ [Next]_vars => [Atomic!Next]_<<current.parts, ups>>
  <2> SUFFICES ASSUME IInv, [Next]_vars
               PROVE  Atomic!Next \/ UNCHANGED <<current.parts, ups>>
    OBVIOUS
  <2>1. ASSUME NEW c \in Collectors, CommitPublish(c)
        PROVE  Atomic!Next
    <3>1. /\ writer[c] = "locked" /\ current' = Published(c)
      BY <2>1 DEF CommitPublish
    <3>2. current'.parts = [current.parts EXCEPT ![c] = op[c].part]
      BY <3>1, PublishedFacts, HolderFacts
    <3>3. \A d \in Collectors :
             current'.statuses[d].up = IF d = c THEN TRUE ELSE current.statuses[d].up
      BY <3>1, PublishedFacts, Zenon
    <3>4. ups' = [ups EXCEPT ![c] = TRUE]
      BY <3>3, Zenon
    <3>5. op[c].part \in SUBSET Items
      BY DEF IInv, TypeOK
    <3>6. \E p \in SUBSET Items : Atomic!Publish(c, p)
      BY <3>2, <3>4, <3>5, Zenon DEF Atomic!Publish
    <3>7. QED
      BY <3>6, Zenon DEF Atomic!Next
  <2>2. ASSUME NEW c \in Collectors, CommitFailure(c)
        PROVE  Atomic!Next
    <3>1. /\ writer[c] = "locked" /\ current' = Failed(c)
      BY <2>2 DEF CommitFailure
    <3>2. current'.parts = current.parts
      BY <3>1, FailedFacts
    <3>3. \A d \in Collectors :
             current'.statuses[d].up = IF d = c THEN FALSE ELSE current.statuses[d].up
      BY <3>1, FailedFacts, Zenon
    <3>4. ups' = [ups EXCEPT ![c] = FALSE]
      BY <3>3, Zenon
    <3>5. Atomic!RecordFailure(c)
      BY <3>2, <3>4, Zenon DEF Atomic!RecordFailure
    <3>6. QED
      BY <3>5, Zenon DEF Atomic!Next
  <2>3. CASE UNCHANGED current
    BY <2>3
  <2>4. QED
    BY <2>1, <2>2, <2>3
       DEF Next, vars, Write, CallPublish, CallRecordFailure, Called, Lock, RefusePublish,
           Scrape, ScrapeCosts, ScrapeView, ScrapeClock, ScrapeDone, Tick, writeVars
<1>3. QED
  BY <1>1, <1>2, StoreInductive, PTL DEF Spec, AtomicSpec, Atomic!Spec

-----------------------------------------------------------------------------
(* The series counters. *)

\* The units of the counters n, and the union of the sets A, of the members of C.
Units(C, n) == UNION {{c} \X (1..n[c]) : c \in C}
Joined(C, A) == UNION {A[c] : c \in C}

\* Counters that count the elements of disjoint finite sets add up to the size
\* of their union.
LEMMA DisjointSum ==
  ASSUME NEW C, IsFiniteSet(C), NEW A, NEW n,
         \A c \in C : IsFiniteSet(A[c]) /\ n[c] = Cardinality(A[c]),
         \A c, d \in C : c # d => A[c] \cap A[d] = {}
  PROVE  Cardinality(Units(C, n)) = Cardinality(Joined(C, A))
<1> DEFINE U == UNION {A[c] : c \in C}
           units == UNION {{c} \X (1..n[c]) : c \in C}
           b == [c \in C |-> CHOOSE f : f \in Bijection(1..n[c], A[c])]
           h == [p \in units |-> b[p[1]][p[2]]]
<1>1. IsFiniteSet(U)
  <2> DEFINE image == {A[c] : c \in C}
             f == [c \in C |-> A[c]]
  <2>1. f \in Surjection(C, image)
    BY DEF Surjection
  <2> HIDE DEF image, f
  <2>2. IsFiniteSet(image)
    BY <2>1, FS_Surjection
  <2>3. \A T \in image : IsFiniteSet(T)
    BY DEF image
  <2>4. IsFiniteSet(UNION image)
    BY <2>2, <2>3, FS_UNION
  <2>5. QED
    BY <2>4 DEF image
<1>2. ASSUME NEW c \in C
      PROVE  b[c] \in Bijection(1..n[c], A[c])
  <2>1. ExistsBijection(1..n[c], A[c])
    BY FS_CardinalityType
  <2>2. \E f : f \in Bijection(1..n[c], A[c])
    BY <2>1 DEF ExistsBijection
  <2>3. QED
    BY <2>2
<1> HIDE DEF b
<1>3. ASSUME NEW c \in C
      PROVE  /\ \A k \in 1..n[c] : b[c][k] \in A[c]
             /\ \A k, l \in 1..n[c] : b[c][k] = b[c][l] => k = l
             /\ \A x \in A[c] : \E k \in 1..n[c] : b[c][k] = x
  <2> DEFINE D == 1..n[c]
             F == b[c]
             T == A[c]
  <2>1. F \in Bijection(D, T)
    BY <1>2
  <2> HIDE DEF D, F, T
  <2>2. F \in [D -> T] /\ \A k, l \in D : F[k] = F[l] => k = l
    BY <2>1, Fun_BijectionProperties
  <2>3. \A x \in T : \E k \in D : F[k] = x
    BY <2>1, Fun_BijectionProperties
  <2>4. \A k \in D : F[k] \in T
    BY <2>2
  <2>5. QED
    BY <2>2, <2>3, <2>4 DEF D, F, T
<1>4. ASSUME NEW p \in units
      PROVE  p[1] \in C /\ p[2] \in 1..n[p[1]] /\ p = <<p[1], p[2]>>
  <2>1. PICK c \in C : p \in {c} \X (1..n[c])
    OBVIOUS
  <2>2. p[1] = c /\ p[2] \in 1..n[c] /\ p = <<p[1], p[2]>>
    BY <2>1
  <2>3. QED
    BY <2>2
<1>5. \A c \in C : \A k \in 1..n[c] : <<c, k>> \in units
  OBVIOUS
<1>6. \A p \in units : h[p] \in A[p[1]]
  BY <1>3, <1>4
<1>7. ASSUME NEW p \in units, NEW q \in units, h[p] = h[q]
      PROVE  p = q
  <2>1. p[1] = q[1]
    BY <1>4, <1>6, <1>7
  <2>2. p[2] = q[2]
    BY <1>3, <1>4, <1>7, <2>1
  <2>3. QED
    BY <1>4, <2>1, <2>2
<1>8. ASSUME NEW x \in U
      PROVE  \E p \in units : h[p] = x
  <2>1. PICK c \in C : x \in A[c]
    BY <1>8
  <2>2. PICK k \in 1..n[c] : b[c][k] = x
    BY <1>3, <2>1
  <2>3. h[<<c, k>>] = x
    BY <1>5, <2>2
  <2>4. QED
    BY <1>5, <2>3
<1>9. ASSUME NEW p \in units
      PROVE  h[p] \in U
  <2>1. p[1] \in C /\ h[p] \in A[p[1]]
    BY <1>4, <1>6
  <2> HIDE DEF h
  <2>2. QED
    BY <2>1
<1>10. h \in Bijection(units, U)
  <2>1. h \in [units -> U]
    BY <1>9
  <2> HIDE DEF h, units, U
  <2>2. QED
    BY <1>7, <1>8, <2>1, Fun_IsBij
<1> HIDE DEF h, units, U
<1>11. ExistsBijection(U, units)
  BY <1>10, Fun_ExistsBijSymmetric DEF ExistsBijection
<1>12. Cardinality(units) = Cardinality(U)
  BY <1>1, <1>11, FS_Bijection
<1>13. QED
  BY <1>12 DEF units, U, Units, Joined

\* The series exported for a set of records, three for a forecast.
Forecasts(items) == {x \in items : x.kind = "forecast"}
Series(items) == (items \X {1}) \cup (Forecasts(items) \X {2, 3})

\* Snapshot.SeriesCount counts the pairs of a record and the number of its series.
LEMMA SeriesSize ==
  ASSUME NEW items, IsFiniteSet(items)
  PROVE  IsFiniteSet(Series(items)) /\ Cardinality(Series(items)) = SeriesCount(items)
<1> DEFINE f == Forecasts(items)
           P == items \X {1}
           Q == f \X {2, 3}
<1>1. IsFiniteSet(f)
  BY FS_Subset DEF Forecasts
<1>2. IsFiniteSet({1}) /\ Cardinality({1}) = 1
  BY FS_Singleton
<1>3. IsFiniteSet({2, 3}) /\ Cardinality({2, 3}) = 2
  <2>1. IsFiniteSet({2}) /\ Cardinality({2}) = 1
    BY FS_Singleton
  <2>2. {2, 3} = {2} \cup {3} /\ 3 \notin {2}
    OBVIOUS
  <2>3. IsFiniteSet({2} \cup {3}) /\ Cardinality({2} \cup {3}) = 2
    BY <2>1, <2>2, FS_AddElement
  <2>4. QED
    BY <2>2, <2>3
<1>4. Cardinality(items) \in Nat /\ Cardinality(f) \in Nat
  BY <1>1, FS_CardinalityType
<1> HIDE DEF f
<1>5. IsFiniteSet(P) /\ Cardinality(P) = Cardinality(items)
  <2>1. IsFiniteSet(P) /\ Cardinality(P) = Cardinality(items) * Cardinality({1})
    BY <1>2, FS_Product
  <2>2. QED
    BY <1>2, <1>4, <2>1
<1>6. IsFiniteSet(Q) /\ Cardinality(Q) = 2 * Cardinality(f)
  <2>1. IsFiniteSet(Q) /\ Cardinality(Q) = Cardinality(f) * Cardinality({2, 3})
    BY <1>1, <1>3, FS_Product
  <2>2. QED
    BY <1>3, <1>4, <2>1
<1>7. P \cap Q = {}
  OBVIOUS
<1> HIDE DEF P, Q
<1>8. IsFiniteSet(P \cup Q) /\ Cardinality(P \cup Q) = Cardinality(items) + 2 * Cardinality(f)
  <2>1. /\ IsFiniteSet(P \cup Q)
        /\ Cardinality(P \cup Q) = Cardinality(P) + Cardinality(Q) - Cardinality(P \cap Q)
    BY <1>5, <1>6, FS_Union
  <2>2. Cardinality(P \cap Q) = 0
    BY <1>7, FS_EmptySet
  <2>3. QED
    BY <1>4, <1>5, <1>6, <2>1, <2>2
<1>9. QED
  BY <1>8 DEF Series, SeriesCount, P, Q, f, Forecasts

\* The records of the snapshot a collector's counter stands for: its own, and
\* for the Organizations collector the metadata selected for its target.
Share(c) ==
    LET own == {x \in current.parts[c] : x.kind # "metadata"}
    IN  IF \E x \in current.parts[c] : x.kind = "metadata"
        THEN own \cup Metadata(current.snapshot, TargetOf[c]) ELSE own

\* The counters are up to date, and the parts are ones the collectors publish.
SeriesInv ==
    \A c \in Collectors :
        /\ current.statuses[c].series = PublishedSeries(c, current.parts[c], current.snapshot)
        /\ current.parts[c] \in Partials[c] \cup {{}}
        /\ op[c].part \in Partials[c] \cup {{}}

\* publishedSeries counts the collector's share.
LEMMA ShareCounted ==
  ASSUME NEW c \in Collectors, IsFiniteSet(current.parts[c]), IsFiniteSet(current.snapshot)
  PROVE  /\ IsFiniteSet(Share(c))
         /\ SeriesCount(Share(c)) = PublishedSeries(c, current.parts[c], current.snapshot)
<1> DEFINE part == current.parts[c]
           raw == {x \in part : x.kind = "metadata"}
           own == {x \in part : x.kind # "metadata"}
           meta == Metadata(current.snapshot, TargetOf[c])
<1>1. /\ IsFiniteSet(raw) /\ IsFiniteSet(own) /\ IsFiniteSet(meta)
  BY FS_Subset DEF Metadata
<1>2. CASE raw = {}
  <2>1. Share(c) = part
    BY <1>2 DEF Share
  <2>2. PublishedSeries(c, part, current.snapshot) = SeriesCount(part)
    BY <1>2 DEF PublishedSeries
  <2>3. QED
    BY <2>1, <2>2
<1>3. CASE raw # {}
  <2>1. Share(c) = own \cup meta
    BY <1>3 DEF Share
  <2>2. own \cap meta = {} /\ part = own \cup raw /\ own \cap raw = {}
    BY DEF Metadata
  <2>3. Forecasts(own \cup meta) = Forecasts(part)
    BY DEF Forecasts, Metadata
  <2>4. PublishedSeries(c, part, current.snapshot) =
          (SeriesCount(part) - Cardinality(raw)) + Cardinality(meta)
    BY <1>3 DEF PublishedSeries
  <2>5. IsFiniteSet(Forecasts(part))
    BY FS_Subset DEF Forecasts
  <2>6. /\ Cardinality(own) \in Nat /\ Cardinality(raw) \in Nat /\ Cardinality(meta) \in Nat
        /\ Cardinality(Forecasts(part)) \in Nat
    BY <1>1, <2>5, FS_CardinalityType
  <2>7. /\ SeriesCount(part) = Cardinality(part) + 2 * Cardinality(Forecasts(part))
        /\ SeriesCount(own \cup meta) =
              Cardinality(own \cup meta) + 2 * Cardinality(Forecasts(own \cup meta))
    BY DEF SeriesCount, Forecasts
  <2> HIDE DEF part, raw, own, meta
  <2>8. /\ IsFiniteSet(own \cup meta)
        /\ Cardinality(own \cup meta) = Cardinality(own) + Cardinality(meta)
    <3>1. Cardinality(own \cap meta) = 0
      BY <2>2, FS_EmptySet
    <3>2. /\ IsFiniteSet(own \cup meta)
          /\ Cardinality(own \cup meta) =
                Cardinality(own) + Cardinality(meta) - Cardinality(own \cap meta)
      BY <1>1, FS_Union
    <3>3. QED
      BY <2>6, <3>1, <3>2
  <2>9. Cardinality(part) = Cardinality(own) + Cardinality(raw)
    <3>1. Cardinality(own \cap raw) = 0
      BY <2>2, FS_EmptySet
    <3>2. Cardinality(own \cup raw) = Cardinality(own) + Cardinality(raw) - Cardinality(own \cap raw)
      BY <1>1, FS_Union
    <3>3. QED
      BY <2>2, <2>6, <3>1, <3>2
  <2>10. SeriesCount(own \cup meta) = PublishedSeries(c, part, current.snapshot)
    BY <2>3, <2>4, <2>6, <2>7, <2>8, <2>9
  <2>11. QED
    BY <2>1, <2>8, <2>10 DEF part
<1>4. QED
  BY <1>2, <1>3

\* The shares are disjoint and make up the snapshot.
LEMMA SharesPartition ==
  ASSUME IInv, SeriesInv
  PROVE  /\ \A c, d \in Collectors : c # d => Share(c) \cap Share(d) = {}
         /\ UNION {Share(c) : c \in Collectors} = current.snapshot
<1>1. /\ current.snapshot = Select(Merge(current.parts)) /\ ValidateUnique(current.parts)
      /\ \A c \in Collectors : \A x \in current.parts[c] : x.target = TargetOf[c]
  BY DEF IInv, SnapshotIsMerge, Mergeable, PartInv, ValidatePartial
<1>2. ASSUME NEW c \in Collectors, NEW d \in Collectors, NEW x, x \in Share(c), x \in Share(d)
      PROVE  c = d
  <2>1. CASE x.kind # "metadata"
    <3>1. x \in current.parts[c] /\ x \in current.parts[d]
      BY <1>2, <2>1 DEF Share, Metadata
    <3>2. QED
      BY <1>1, <3>1 DEF ValidateUnique
  <2>2. CASE x.kind = "metadata"
    <3>1. /\ x.target = TargetOf[c] /\ \E y \in current.parts[c] : y.kind = "metadata"
          /\ x.target = TargetOf[d] /\ \E y \in current.parts[d] : y.kind = "metadata"
      BY <1>2, <2>2 DEF Share, Metadata
    <3>2. current.parts[c] \in Partials[c] /\ current.parts[d] \in Partials[d]
      BY <3>1 DEF SeriesInv
    <3>3. PICK y \in current.parts[c] : y.kind = "metadata"
      BY <3>1
    <3>4. PICK z \in current.parts[d] : z.kind = "metadata"
      BY <3>1
    <3>5. \A p \in Partials[c], q \in Partials[d] :
             (\E u \in p, v \in q : /\ u.kind = "metadata" /\ v.kind = "metadata"
                                    /\ TargetOf[c] = TargetOf[d]) => c = d
      BY StoreAssumption
    <3>6. QED
      BY <3>1, <3>2, <3>3, <3>4, <3>5
  <2>3. QED
    BY <2>1, <2>2
<1>3. ASSUME NEW c \in Collectors PROVE Share(c) \subseteq current.snapshot
  <2>1. Metadata(current.snapshot, TargetOf[c]) \subseteq current.snapshot
    BY DEF Metadata
  <2>2. {x \in current.parts[c] : x.kind # "metadata"} \subseteq current.snapshot
    BY <1>1 DEF Select, Merge
  <2>3. QED
    BY <2>1, <2>2 DEF Share
<1>4. ASSUME NEW x \in current.snapshot PROVE \E c \in Collectors : x \in Share(c)
  <2>1. PICK c \in Collectors : x \in current.parts[c]
    BY <1>1 DEF Select, Merge
  <2>2. x.target = TargetOf[c]
    BY <1>1, <2>1
  <2>3. x \in Share(c)
    BY <2>1, <2>2 DEF Share, Metadata
  <2>4. QED
    BY <2>3
<1>5. QED
  BY <1>2, <1>3, <1>4

\* The counters are right in every reachable state: Publish recounts all of
\* them, RecordFailure changes neither the counters nor what they count.
LEMMA SeriesStep ==
  ASSUME IInv, SeriesInv, [Next]_vars
  PROVE  SeriesInv'
<1>1. ASSUME UNCHANGED current, \A c \in Collectors : op'[c].part \in Partials[c] \cup {{}}
      PROVE  SeriesInv'
  BY <1>1 DEF SeriesInv
<1>2. op \in [Collectors -> [kind : {"none", "publish", "failure"}, part : SUBSET Items]]
  BY DEF IInv, TypeOK
<1>3. ASSUME NEW c \in Collectors, Return(c)
      PROVE  \A d \in Collectors : op'[d].part \in Partials[d] \cup {{}}
  BY <1>2, <1>3 DEF Return, SeriesInv, NoOp
<1>4. ASSUME NEW c \in Collectors, CallPublish(c) \/ CallRecordFailure(c)
      PROVE  SeriesInv'
  <2>1. \A d \in Collectors : op'[d].part \in Partials[d] \cup {{}}
    BY <1>2, <1>4 DEF CallPublish, CallRecordFailure, SeriesInv
  <2>2. UNCHANGED current
    BY <1>4 DEF CallPublish, CallRecordFailure, Called
  <2>3. QED
    BY <1>1, <2>1, <2>2
<1>5. ASSUME NEW c \in Collectors, RefusePublish(c)
      PROVE  SeriesInv'
  BY <1>1, <1>3, <1>5 DEF RefusePublish
<1>6. ASSUME NEW c \in Collectors, CommitFailure(c)
      PROVE  SeriesInv'
  <2>1. writer[c] = "locked" /\ Return(c) /\ current' = Failed(c)
    BY <1>6 DEF CommitFailure
  <2>2. base[c] = current /\ current \in States
    BY <2>1, HolderFacts DEF IInv, TypeOK
  <2>3. current'.parts = current.parts /\ current'.snapshot = current.snapshot
    BY <2>1, FailedFacts
  <2>4. ASSUME NEW d \in Collectors PROVE current'.statuses[d].series = current.statuses[d].series
    <3>1. current'.statuses = [current.statuses EXCEPT ![c] = FailedStatus(current.statuses[c])]
      BY <2>1, <2>2 DEF Failed
    <3>2. current'.statuses[d] =
            IF d = c THEN FailedStatus(current.statuses[d]) ELSE current.statuses[d]
      BY <2>2, <3>1 DEF States
    <3>3. FailedStatus(current.statuses[d]).series = current.statuses[d].series
      BY DEF FailedStatus
    <3>4. QED
      BY <3>2, <3>3
  <2>5. QED
    BY <1>3, <2>1, <2>3, <2>4 DEF SeriesInv
<1>7. ASSUME NEW c \in Collectors, CommitPublish(c)
      PROVE  SeriesInv'
  <2>1. writer[c] = "locked" /\ Return(c) /\ current' = Published(c)
    BY <1>7 DEF CommitPublish
  <2>2. current'.parts = NewParts(c) /\ current'.snapshot = Select(Merge(NewParts(c)))
    BY <2>1, PublishedFacts
  <2>3. ASSUME NEW d \in Collectors
        PROVE  current'.statuses[d].series =
                 PublishedSeries(d, current'.parts[d], current'.snapshot)
    <3> DEFINE merged == Select(Merge(NewParts(c)))
    <3>1. Published(c).statuses[d] = StatusAfter(c, d, merged)
      BY DEF Published
    <3> HIDE DEF merged
    <3>2. StatusAfter(c, d, merged).series = PublishedSeries(d, NewParts(c)[d], merged)
      BY DEF StatusAfter
    <3>3. QED
      BY <2>1, <2>2, <3>1, <3>2 DEF merged
  <2>4. ASSUME NEW d \in Collectors PROVE current'.parts[d] \in Partials[d] \cup {{}}
    <3>1. NewParts(c)[d] = IF d = c THEN op[c].part ELSE current.parts[d]
      BY <2>1, HolderFacts DEF IInv, TypeOK, States
    <3>2. QED
      BY <2>2, <3>1 DEF SeriesInv
  <2>5. QED
    BY <1>3, <2>1, <2>3, <2>4 DEF SeriesInv
<1>8. CASE UNCHANGED <<current, op>>
  BY <1>8 DEF SeriesInv
<1>9. QED
  BY <1>4, <1>5, <1>6, <1>7, <1>8
     DEF Next, vars, Write, Lock, Scrape, ScrapeCosts, ScrapeView, ScrapeClock, ScrapeDone, Tick,
         writeVars

\* The counters of the initial state are zero.
LEMMA InitSeries == Init => SeriesInv
<1> SUFFICES ASSUME Init, NEW c \in Collectors
             PROVE  /\ current.statuses[c].series =
                          PublishedSeries(c, current.parts[c], current.snapshot)
                    /\ current.parts[c] \in Partials[c] \cup {{}}
                    /\ op[c].part \in Partials[c] \cup {{}}
  BY DEF SeriesInv
<1>1. current.parts[c] = {} /\ current.statuses[c].series = 0 /\ op[c].part = {}
  BY DEF Init, EmptyState, NoOp
<1>2. SeriesCount({}) = 0
  BY FS_EmptySet DEF SeriesCount
<1>3. PublishedSeries(c, {}, current.snapshot) = 0
  BY <1>2 DEF PublishedSeries
<1>4. QED
  BY <1>1, <1>3

\* The counters of all collectors together are the series served.
THEOREM SeriesAccounted == Spec => []SeriesAccounting
<1>1. IInv /\ SeriesInv => SeriesAccounting
  <2> SUFFICES ASSUME IInv, SeriesInv PROVE SeriesAccounting
    OBVIOUS
  <2> DEFINE A == [c \in Collectors |-> Series(Share(c))]
             n == [c \in Collectors |-> current.statuses[c].series]
  <2>1. IsFiniteSet(current.snapshot) /\ \A c \in Collectors : IsFiniteSet(current.parts[c])
    <3> DEFINE P == current.parts
    <3>1. \A c \in Collectors : IsFiniteSet(P[c]) /\ P[c] \subseteq Items
      BY DEF IInv, PartInv, TypeOK, States
    <3>2. current.snapshot = Select(Merge(P))
      BY DEF IInv, SnapshotIsMerge
    <3> HIDE DEF P
    <3>3. IsFiniteSet(current.snapshot)
      BY <3>1, <3>2, MergedFinite
    <3>4. QED
      BY <3>1, <3>3 DEF P
  <2>2. ASSUME NEW c \in Collectors PROVE IsFiniteSet(A[c]) /\ n[c] = Cardinality(A[c])
    <3>1. IsFiniteSet(Share(c)) /\ SeriesCount(Share(c)) = current.statuses[c].series
      BY <2>1, ShareCounted DEF SeriesInv
    <3>2. IsFiniteSet(Series(Share(c))) /\ Cardinality(Series(Share(c))) = SeriesCount(Share(c))
      BY <3>1, SeriesSize
    <3>3. QED
      BY <3>1, <3>2
  <2>3. ASSUME NEW c \in Collectors, NEW d \in Collectors, c # d PROVE A[c] \cap A[d] = {}
    <3>1. Share(c) \cap Share(d) = {}
      BY <2>3, SharesPartition
    <3>2. Series(Share(c)) \cap Series(Share(d)) = {}
      BY <3>1 DEF Series, Forecasts
    <3>3. QED
      BY <3>2
  <2>4. Joined(Collectors, A) = Series(current.snapshot)
    <3>1. UNION {Share(c) : c \in Collectors} = current.snapshot
      BY SharesPartition
    <3>2. UNION {Series(Share(c)) : c \in Collectors} = Series(UNION {Share(c) : c \in Collectors})
      BY DEF Series, Forecasts
    <3>3. QED
      BY <3>1, <3>2 DEF Joined
  <2>5. Units(Collectors, n) = UNION {{c} \X (1..current.statuses[c].series) : c \in Collectors}
    BY DEF Units
  <2> HIDE DEF A, n
  <2>6. IsFiniteSet(Collectors)
    BY StoreAssumption
  <2>7. Cardinality(Units(Collectors, n)) = Cardinality(Joined(Collectors, A))
    <3>1. \A c \in Collectors : IsFiniteSet(A[c]) /\ n[c] = Cardinality(A[c])
      BY <2>2
    <3>2. \A c, d \in Collectors : c # d => A[c] \cap A[d] = {}
      BY <2>3
    <3>3. QED
      BY <3>1, <3>2, <2>6, DisjointSum
  <2>8. CountedSeries = Cardinality(Series(current.snapshot))
    BY <2>4, <2>5, <2>7 DEF CountedSeries
  <2>9. QED
    BY <2>1, <2>8, SeriesSize DEF SeriesAccounting
<1>2. Spec => []SeriesInv
  <2>1. IInv /\ SeriesInv /\ [Next]_vars => SeriesInv'
    BY SeriesStep
  <2>2. QED
    BY InitSeries, <2>1, StoreInductive, PTL DEF Spec
<1>3. QED
  BY <1>1, <1>2, StoreInductive, PTL
=============================================================================
