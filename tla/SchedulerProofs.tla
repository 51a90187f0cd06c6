--------------------------- MODULE SchedulerProofs ---------------------------
(***************************************************************************)
(* Proofs about Scheduler for any set of jobs, any assignment of jobs to   *)
(* targets, any MaxConcurrency and MaxAttempts, with or without the        *)
(* PromptHandover assumption.                                              *)
(***************************************************************************)
EXTENDS Scheduler, TLAPS, FiniteSetTheorems

\* What holds at each program point of collect: the attempt is not the last
\* one during backoff, and the outcome is one the branch was taken for.
PointInv ==
    \A j \in Jobs :
        /\ worker[j] = "backoff" => attempt[j] < MaxAttempts
        /\ worker[j] \in {"releaseSemaphore", "releaseTarget"} => outcome[j] # "none"
        /\ worker[j] = "check" => outcome[j] \notin {"none", "ok"}
        /\ worker[j] = "record" => outcome[j] \in {"retryable", "permanent"}
        /\ outcome[j] = "canceled" => cancelled
        /\ worker[j] \in {"exiting", "done"} => cancelled

\* The jobs that hold a semaphore token.
Holders == {j \in Jobs : HoldsSemaphore(j)}

\* SlotAccounting, with TypeOK what the channel operations preserve.
TargetInv ==
    /\ \A j, k \in Jobs :
          HoldsTarget(j) /\ HoldsTarget(k) /\ TargetOf[j] = TargetOf[k] => j = k
    /\ \A t \in Targets :
          slot[t] = 1 <=> \E j \in Jobs : TargetOf[j] = t /\ HoldsTarget(j)
SemaphoreInv == semaphore = Cardinality(Holders)

IInv == TypeOK /\ PointInv /\ SingleFlight /\ TargetInv /\ SemaphoreInv

-----------------------------------------------------------------------------
\* What the proofs use of the constants.
LEMMA Bounds ==
  /\ MaxAttempts \in Nat /\ 1 <= MaxAttempts
  /\ MaxConcurrency \in Nat /\ 1 <= MaxConcurrency
  /\ TargetOf \in [Jobs -> Targets]
  /\ 0 \in 0..MaxAttempts /\ 1 \in 0..MaxAttempts /\ 0 \in 0..MaxConcurrency
BY SchedulerAssumption

\* The initial state satisfies the inductive invariant.
LEMMA InitIInv == Init => IInv
<1> SUFFICES ASSUME Init PROVE IInv
  OBVIOUS
<1>1. TypeOK
  BY Bounds DEF Init, TypeOK, SchedPC, WorkerPC, Outcomes
<1>2. PointInv /\ SingleFlight /\ TargetInv
  BY DEF Init, PointInv, SingleFlight, TargetInv, HoldsTarget
<1>3. SemaphoreInv
  <2>1. Holders = {}
    BY DEF Init, Holders, HoldsSemaphore
  <2>2. QED
    BY <2>1, FS_EmptySet DEF Init, SemaphoreInv
<1>4. QED
  BY <1>1, <1>2, <1>3 DEF IInv

\* Only configured jobs hold tokens, so the holders are finitely many.
LEMMA HoldersFinite == IsFiniteSet(Holders)
BY SchedulerAssumption, FS_Subset DEF Holders

\* Every step keeps the types; the two that count, ReleaseSemaphore and
\* BackoffFires, stay in range because of SemaphoreInv and PointInv.
LEMMA TypeStep == IInv /\ [Next]_vars => TypeOK'
<1> SUFFICES ASSUME IInv, [Next]_vars PROVE TypeOK'
  OBVIOUS
<1> USE DEF TypeOK, SchedPC, WorkerPC, Outcomes, SchedGoto, WorkerGoto
<1>1. ASSUME NEW j \in Jobs, Schedule(j) PROVE TypeOK'
  BY <1>1 DEF IInv, Schedule, Start, DispatchSkip, DispatchClaim, Enqueue, Wake, ScheduleExit,
      workerVars, slotVars
<1>2. ASSUME NEW j \in Jobs, TakeReference(j) \/ ClearRunning(j) \/ WorkerStop(j) \/ WorkerExit(j)
      PROVE TypeOK'
  <2>1. CASE TakeReference(j)
    BY <2>1, Bounds DEF IInv, TakeReference, slotVars
  <2>2. CASE ClearRunning(j)
    BY <2>2, Bounds DEF IInv, ClearRunning, slotVars
  <2>3. CASE WorkerStop(j) \/ WorkerExit(j)
    BY <2>3 DEF IInv, WorkerStop, WorkerExit, slotVars
  <2>4. QED
    BY <1>2, <2>1, <2>2, <2>3
<1>3. ASSUME NEW j \in Jobs, AcquireTarget(j) \/ ReleaseTarget(j) \/ AbandonTarget(j)
      PROVE TypeOK'
  BY <1>3, Bounds DEF IInv, AcquireTarget, ReleaseTarget, AbandonTarget
<1>4. ASSUME NEW j \in Jobs, AcquireSemaphore(j) PROVE TypeOK'
  BY <1>4, Bounds DEF IInv, AcquireSemaphore
<1>5. ASSUME NEW j \in Jobs, ReleaseSemaphore(j) PROVE TypeOK'
  <2>1. j \in Holders
    BY <1>5 DEF ReleaseSemaphore, Holders, HoldsSemaphore
  <2>2. semaphore \in 0..MaxConcurrency /\ semaphore # 0
    BY <2>1, HoldersFinite, FS_EmptySet DEF IInv, SemaphoreInv
  <2>3. semaphore - 1 \in 0..MaxConcurrency
    BY <2>2, Bounds
  <2>4. QED
    BY <1>5, <2>3 DEF IInv, ReleaseSemaphore
<1>6. ASSUME NEW j \in Jobs, CollectReturns(j) \/ PublishAccepted(j) \/ PublishRefused(j)
                             \/ CheckContext(j) \/ RecordFailure(j) \/ GiveUp(j)
      PROVE TypeOK'
  BY <1>6 DEF IInv, CollectReturns, PublishAccepted, PublishRefused, CheckContext, RecordFailure,
      GiveUp, slotVars
<1>7. ASSUME NEW j \in Jobs, BackoffFires(j) PROVE TypeOK'
  <2>1. attempt[j] + 1 \in 0..MaxAttempts
    BY <1>7, Bounds DEF IInv, PointInv, BackoffFires
  <2>2. QED
    BY <1>7, <2>1 DEF IInv, BackoffFires, slotVars
<1>8. CASE Cancel
  BY <1>8 DEF IInv, Cancel, workerVars, slotVars
<1>9. CASE UNCHANGED vars
  BY <1>9 DEF IInv, vars
<1>10. QED
  BY <1>1, <1>2, <1>3, <1>4, <1>5, <1>6, <1>7, <1>8, <1>9
     DEF Next, RunnerNext, Worker, Collect, Finished

\* Local facts at the program points of collect are preserved.
LEMMA PointStep == IInv /\ [Next]_vars => PointInv'
<1> SUFFICES ASSUME IInv, [Next]_vars PROVE PointInv'
  OBVIOUS
<1> USE DEF TypeOK, PointInv, SchedGoto, WorkerGoto
<1>1. ASSUME NEW j \in Jobs, Schedule(j) PROVE PointInv'
  BY <1>1 DEF IInv, Schedule, Start, DispatchSkip, DispatchClaim, Enqueue, Wake, ScheduleExit,
      workerVars
<1>2. ASSUME NEW j \in Jobs, TakeReference(j) \/ ClearRunning(j) \/ WorkerStop(j) \/ WorkerExit(j)
      PROVE PointInv'
  BY <1>2 DEF IInv, TakeReference, ClearRunning, WorkerStop, WorkerExit
<1>3. ASSUME NEW j \in Jobs, \/ AcquireTarget(j) \/ ReleaseTarget(j) \/ AbandonTarget(j)
                             \/ AcquireSemaphore(j) \/ ReleaseSemaphore(j)
      PROVE PointInv'
  BY <1>3 DEF IInv, AcquireTarget, ReleaseTarget, AbandonTarget, AcquireSemaphore, ReleaseSemaphore
<1>4. ASSUME NEW j \in Jobs, CollectReturns(j) PROVE PointInv'
  BY <1>4 DEF IInv, CollectReturns, Outcomes
<1>5. ASSUME NEW j \in Jobs, PublishAccepted(j) \/ PublishRefused(j) \/ GiveUp(j)
      PROVE PointInv'
  BY <1>5 DEF IInv, PublishAccepted, PublishRefused, GiveUp
<1>6. ASSUME NEW j \in Jobs, CheckContext(j) PROVE PointInv'
  BY <1>6 DEF IInv, CheckContext, Outcomes
<1>7. ASSUME NEW j \in Jobs, RecordFailure(j) PROVE PointInv'
  <2>1. CanRetry(j) => attempt[j] < MaxAttempts
    BY Bounds DEF IInv, CanRetry
  <2>2. QED
    BY <1>7, <2>1 DEF IInv, RecordFailure
<1>8. ASSUME NEW j \in Jobs, BackoffFires(j) PROVE PointInv'
  BY <1>8 DEF IInv, BackoffFires
<1>9. CASE Cancel
  BY <1>9 DEF IInv, Cancel, workerVars
<1>10. CASE UNCHANGED vars
  BY <1>10 DEF IInv, vars
<1>11. QED
  BY <1>1, <1>2, <1>3, <1>4, <1>5, <1>6, <1>7, <1>8, <1>9, <1>10
     DEF Next, RunnerNext, Worker, Collect, Finished

\* The hand-over between a job's two goroutines is preserved.
LEMMA FlightStep == IInv /\ [Next]_vars => SingleFlight'
<1> SUFFICES ASSUME IInv, [Next]_vars PROVE SingleFlight'
  OBVIOUS
<1> USE DEF TypeOK, SingleFlight, SchedGoto, WorkerGoto
<1>1. ASSUME NEW j \in Jobs, Start(j) \/ DispatchSkip(j) \/ Wake(j) \/ ScheduleExit(j)
      PROVE SingleFlight'
  BY <1>1 DEF IInv, Start, DispatchSkip, Wake, ScheduleExit, workerVars
<1>2. ASSUME NEW j \in Jobs, DispatchClaim(j) PROVE SingleFlight'
  BY <1>2 DEF IInv, DispatchClaim, workerVars
<1>3. ASSUME NEW j \in Jobs, Enqueue(j) PROVE SingleFlight'
  BY <1>3 DEF IInv, Enqueue, workerVars
<1>4. ASSUME NEW j \in Jobs, TakeReference(j) PROVE SingleFlight'
  BY <1>4 DEF IInv, TakeReference
<1>5. ASSUME NEW j \in Jobs, ClearRunning(j) PROVE SingleFlight'
  BY <1>5 DEF IInv, ClearRunning
<1>6. ASSUME NEW j \in Jobs, WorkerStop(j) \/ WorkerExit(j) PROVE SingleFlight'
  BY <1>6 DEF IInv, WorkerStop, WorkerExit
<1>7. ASSUME NEW j \in Jobs, Collect(j) PROVE SingleFlight'
  <2>1. PICK w \in WorkerPC \ {"idle", "exiting", "done"} :
          /\ worker[j] \notin {"idle", "exiting", "done"}
          /\ worker' = [worker EXCEPT ![j] = w]
    BY <1>7 DEF Collect, AcquireTarget, AcquireSemaphore, CollectReturns, ReleaseSemaphore,
        ReleaseTarget, PublishAccepted, PublishRefused, CheckContext, RecordFailure, BackoffFires,
        GiveUp, AbandonTarget, WorkerPC
  <2>2. UNCHANGED <<sched, running, queue>>
    BY <1>7 DEF Collect, AcquireTarget, AcquireSemaphore, CollectReturns, ReleaseSemaphore,
        ReleaseTarget, PublishAccepted, PublishRefused, CheckContext, RecordFailure, BackoffFires,
        GiveUp, AbandonTarget
  <2>3. QED
    BY <2>1, <2>2 DEF IInv
<1>8. CASE Cancel
  BY <1>8 DEF IInv, Cancel, workerVars
<1>9. CASE UNCHANGED vars
  BY <1>9 DEF IInv, vars
<1>10. QED
  BY <1>1, <1>2, <1>3, <1>4, <1>5, <1>6, <1>7, <1>8, <1>9
     DEF Next, RunnerNext, Schedule, Worker, Finished

\* A step that neither moves a worker into or out of a target's critical
\* section nor touches the slots preserves the accounting of target slots.
LEMMA TargetFrame ==
  ASSUME IInv, UNCHANGED slot, \A k \in Jobs : HoldsTarget(k)' <=> HoldsTarget(k)
  PROVE  TargetInv'
BY DEF IInv, TargetInv

\* Target slots stay in step with the workers inside their sections.
LEMMA TargetStep == IInv /\ [Next]_vars => TargetInv'
<1> SUFFICES ASSUME IInv, [Next]_vars PROVE TargetInv'
  OBVIOUS
<1> USE DEF TypeOK, WorkerGoto
<1>1. ASSUME NEW j \in Jobs, Schedule(j) PROVE TargetInv'
  <2>1. UNCHANGED <<worker, slot>>
    BY <1>1 DEF Schedule, Start, DispatchSkip, DispatchClaim, Enqueue, Wake, ScheduleExit,
        workerVars, slotVars
  <2>2. QED
    BY <2>1, TargetFrame DEF HoldsTarget
<1>2. ASSUME NEW j \in Jobs, TakeReference(j) \/ ClearRunning(j) \/ WorkerStop(j) \/ WorkerExit(j)
      PROVE TargetInv'
  <2>1. UNCHANGED slot /\ \A k \in Jobs : HoldsTarget(k)' <=> HoldsTarget(k)
    BY <1>2 DEF IInv, TakeReference, ClearRunning, WorkerStop, WorkerExit, slotVars, HoldsTarget
  <2>2. QED
    BY <2>1, TargetFrame
<1>3. ASSUME NEW j \in Jobs, \/ AcquireSemaphore(j) \/ CollectReturns(j) \/ ReleaseSemaphore(j)
                             \/ PublishAccepted(j) \/ PublishRefused(j) \/ CheckContext(j)
                             \/ RecordFailure(j) \/ BackoffFires(j) \/ GiveUp(j)
      PROVE TargetInv'
  <2>1. UNCHANGED slot /\ \A k \in Jobs : HoldsTarget(k)' <=> HoldsTarget(k)
    BY <1>3 DEF IInv, AcquireSemaphore, CollectReturns, ReleaseSemaphore, PublishAccepted,
        PublishRefused, CheckContext, RecordFailure, BackoffFires, GiveUp, slotVars, HoldsTarget
  <2>2. QED
    BY <2>1, TargetFrame
<1>4. ASSUME NEW j \in Jobs, AcquireTarget(j) PROVE TargetInv'
  <2>1. \A k \in Jobs : TargetOf[k] = TargetOf[j] => ~HoldsTarget(k)
    <3>1. TargetOf[j] \in Targets /\ slot[TargetOf[j]] # 1
      BY <1>4, Bounds DEF AcquireTarget
    <3>2. QED
      BY <3>1 DEF IInv, TargetInv
  <2>2. \A k \in Jobs : HoldsTarget(k)' <=> HoldsTarget(k) \/ k = j
    BY <1>4 DEF IInv, AcquireTarget, HoldsTarget
  <2>3. \A t \in Targets : slot'[t] = IF t = TargetOf[j] THEN 1 ELSE slot[t]
    BY <1>4, Bounds DEF IInv, AcquireTarget
  <2>4. \A k, l \in Jobs : (HoldsTarget(k) /\ HoldsTarget(l))' /\ TargetOf[k] = TargetOf[l] => k = l
    BY <2>1, <2>2 DEF IInv, TargetInv
  <2>5. ASSUME NEW t \in Targets
        PROVE  slot'[t] = 1 <=> \E k \in Jobs : TargetOf[k] = t /\ HoldsTarget(k)'
    BY <2>1, <2>2, <2>3 DEF IInv, TargetInv
  <2>6. QED
    BY <2>4, <2>5 DEF TargetInv
<1>5. ASSUME NEW j \in Jobs, ReleaseTarget(j) \/ AbandonTarget(j) PROVE TargetInv'
  <2>1. HoldsTarget(j)
    BY <1>5 DEF ReleaseTarget, AbandonTarget, HoldsTarget
  <2>2. \A k \in Jobs : HoldsTarget(k)' <=> HoldsTarget(k) /\ k # j
    BY <1>5 DEF IInv, ReleaseTarget, AbandonTarget, HoldsTarget
  <2>3. \A t \in Targets : slot'[t] = IF t = TargetOf[j] THEN 0 ELSE slot[t]
    BY <1>5, Bounds DEF IInv, ReleaseTarget, AbandonTarget
  <2>4. \A k, l \in Jobs : (HoldsTarget(k) /\ HoldsTarget(l))' /\ TargetOf[k] = TargetOf[l] => k = l
    BY <2>1, <2>2 DEF IInv, TargetInv
  <2>5. ASSUME NEW t \in Targets
        PROVE  slot'[t] = 1 <=> \E k \in Jobs : TargetOf[k] = t /\ HoldsTarget(k)'
    BY <2>1, <2>2, <2>3 DEF IInv, TargetInv
  <2>6. QED
    BY <2>4, <2>5 DEF TargetInv
<1>6. CASE Cancel \/ UNCHANGED vars
  <2>1. UNCHANGED <<worker, slot>>
    BY <1>6 DEF Cancel, vars, workerVars, slotVars
  <2>2. QED
    BY <2>1, TargetFrame DEF HoldsTarget
<1>7. QED
  BY <1>1, <1>2, <1>3, <1>4, <1>5, <1>6 DEF Next, RunnerNext, Worker, Collect, Finished

\* The semaphore counts the workers between its acquisition and its release.
LEMMA SemaphoreStep == IInv /\ [Next]_vars => SemaphoreInv'
<1> SUFFICES ASSUME IInv, [Next]_vars PROVE SemaphoreInv'
  OBVIOUS
<1> USE DEF TypeOK, WorkerGoto
<1>1. ASSUME UNCHANGED semaphore, Holders' = Holders PROVE SemaphoreInv'
  BY <1>1 DEF IInv, SemaphoreInv
<1>2. ASSUME NEW j \in Jobs, Schedule(j) PROVE SemaphoreInv'
  <2>1. UNCHANGED <<worker, semaphore>>
    BY <1>2 DEF Schedule, Start, DispatchSkip, DispatchClaim, Enqueue, Wake, ScheduleExit,
        workerVars, slotVars
  <2>2. QED
    BY <2>1, <1>1 DEF Holders, HoldsSemaphore
<1>3. ASSUME NEW j \in Jobs, TakeReference(j) \/ ClearRunning(j) \/ WorkerStop(j) \/ WorkerExit(j)
      PROVE SemaphoreInv'
  <2>1. UNCHANGED semaphore /\ Holders' = Holders
    BY <1>3 DEF IInv, TakeReference, ClearRunning, WorkerStop, WorkerExit, slotVars, Holders,
        HoldsSemaphore
  <2>2. QED
    BY <2>1, <1>1
<1>4. ASSUME NEW j \in Jobs, \/ AcquireTarget(j) \/ ReleaseTarget(j) \/ AbandonTarget(j)
                             \/ CollectReturns(j) \/ PublishAccepted(j) \/ PublishRefused(j)
                             \/ CheckContext(j) \/ RecordFailure(j) \/ BackoffFires(j) \/ GiveUp(j)
      PROVE SemaphoreInv'
  <2>1. UNCHANGED semaphore /\ Holders' = Holders
    BY <1>4 DEF IInv, AcquireTarget, ReleaseTarget, AbandonTarget, CollectReturns, PublishAccepted,
        PublishRefused, CheckContext, RecordFailure, BackoffFires, GiveUp, slotVars, Holders,
        HoldsSemaphore
  <2>2. QED
    BY <2>1, <1>1
<1>5. ASSUME NEW j \in Jobs, AcquireSemaphore(j) PROVE SemaphoreInv'
  <2>1. Holders' = Holders \cup {j} /\ j \notin Holders
    BY <1>5 DEF IInv, AcquireSemaphore, Holders, HoldsSemaphore
  <2>2. Cardinality(Holders') = Cardinality(Holders) + 1
    BY <2>1, HoldersFinite, FS_AddElement
  <2>3. QED
    BY <1>5, <2>2 DEF IInv, SemaphoreInv, AcquireSemaphore
<1>6. ASSUME NEW j \in Jobs, ReleaseSemaphore(j) PROVE SemaphoreInv'
  <2>1. Holders' = Holders \ {j} /\ j \in Holders
    BY <1>6 DEF IInv, ReleaseSemaphore, Holders, HoldsSemaphore
  <2>2. Cardinality(Holders') = Cardinality(Holders) - 1
    BY <2>1, HoldersFinite, FS_RemoveElement
  <2>3. QED
    BY <1>6, <2>2 DEF IInv, SemaphoreInv, ReleaseSemaphore
<1>7. CASE Cancel \/ UNCHANGED vars
  <2>1. UNCHANGED <<worker, semaphore>>
    BY <1>7 DEF Cancel, vars, workerVars, slotVars
  <2>2. QED
    BY <2>1, <1>1 DEF Holders, HoldsSemaphore
<1>8. QED
  BY <1>2, <1>3, <1>4, <1>5, <1>6, <1>7 DEF Next, RunnerNext, Worker, Collect, Finished

-----------------------------------------------------------------------------
\* The inductive invariant holds in every reachable state.
THEOREM Inductive == Spec => []IInv
<1>1. IInv /\ [Next]_vars => IInv'
  BY TypeStep, PointStep, FlightStep, TargetStep, SemaphoreStep DEF IInv
<1>2. QED
  BY InitIInv, <1>1, PTL DEF Spec

\* Types are preserved; in particular attempts never exceed MaxAttempts.
THEOREM TypeCorrect == Spec => []TypeOK
BY Inductive, PTL DEF IInv

\* Semaphore tokens and target slots are exactly those held by workers inside
\* collect's critical sections, on every path, cancelled ones included.
THEOREM SlotsAccounted == Spec => []SlotAccounting
<1>1. IInv => SlotAccounting
  BY DEF IInv, TargetInv, SemaphoreInv, Holders, SlotAccounting
<1>2. QED
  BY Inductive, <1>1, PTL

\* The running flag stands for exactly one refresh of a served job.
THEOREM SingleFlightHolds == Spec => []SingleFlight
BY Inductive, PTL DEF IInv

\* dispatch never blocks on its queue before cancellation.
THEOREM DispatchFree == Spec => []DispatchNeverBlocks
<1>1. IInv => DispatchNeverBlocks
  BY DEF IInv, TypeOK, PointInv, SingleFlight, DispatchNeverBlocks
<1>2. QED
  BY Inductive, <1>1, PTL

\* No cancelled attempt reaches RecordFailure.
THEOREM CancelNotRecorded == Spec => []CancelNeverMarksDown
<1>1. IInv => CancelNeverMarksDown
  BY DEF IInv, PointInv, CancelNeverMarksDown
<1>2. QED
  BY Inductive, <1>1, PTL

-----------------------------------------------------------------------------
\* The jobs inside Collect, the refinement mapping of BoundedRefresh.
Active == {j \in Jobs : worker[j] = "collect"}

\* The abstract module's instance of Cardinality is Cardinality.
LEMMA BoundedCardinality == \A S : Bounded!Cardinality(S) = Cardinality(S)
BY DEF Bounded!Cardinality, Cardinality, Bounded!IsFiniteSet, IsFiniteSet

\* Every step of the runner begins one admissible Collect, ends one, or leaves
\* the set of running collectors alone.
LEMMA BoundedStep == IInv /\ [Next]_vars => [Bounded!Next]_Active
<1> SUFFICES ASSUME IInv, [Next]_vars PROVE [Bounded!Next]_Active
  OBVIOUS
<1> USE DEF TypeOK, WorkerGoto, Active
<1>1. ASSUME NEW j \in Jobs, AcquireSemaphore(j) PROVE Bounded!Begin(j)
  <2>1. Active' = Active \cup {j} /\ j \notin Active
    BY <1>1 DEF IInv, AcquireSemaphore
  <2>2. Active \subseteq Holders
    BY DEF Holders, HoldsSemaphore
  <2>3. Cardinality(Active) <= Cardinality(Holders) /\ Cardinality(Active) \in Nat
    BY <2>2, HoldersFinite, FS_Subset, FS_CardinalityType
  <2>4. Cardinality(Active) < MaxConcurrency
    BY <1>1, <2>3, Bounds DEF IInv, SemaphoreInv, AcquireSemaphore
  <2>5. ASSUME NEW k \in Active PROVE TargetOf[k] # TargetOf[j]
    <3>1. HoldsTarget(k) /\ HoldsTarget(j) /\ k # j
      BY <1>1 DEF HoldsTarget, AcquireSemaphore
    <3>2. QED
      BY <3>1 DEF IInv, TargetInv
  <2>6. QED
    BY <2>1, <2>4, <2>5, BoundedCardinality DEF Bounded!Begin
<1>2. ASSUME NEW j \in Jobs, CollectReturns(j) PROVE Bounded!End(j)
  BY <1>2 DEF IInv, CollectReturns, Bounded!End
<1>3. ASSUME NEW j \in Jobs, Schedule(j) PROVE UNCHANGED Active
  BY <1>3 DEF Schedule, Start, DispatchSkip, DispatchClaim, Enqueue, Wake, ScheduleExit, workerVars
<1>4. ASSUME NEW j \in Jobs, TakeReference(j) \/ ClearRunning(j) \/ WorkerStop(j) \/ WorkerExit(j)
      PROVE UNCHANGED Active
  BY <1>4 DEF IInv, TakeReference, ClearRunning, WorkerStop, WorkerExit
<1>5. ASSUME NEW j \in Jobs, \/ AcquireTarget(j) \/ ReleaseSemaphore(j) \/ ReleaseTarget(j)
                             \/ PublishAccepted(j) \/ PublishRefused(j) \/ CheckContext(j)
                             \/ RecordFailure(j) \/ BackoffFires(j) \/ GiveUp(j) \/ AbandonTarget(j)
      PROVE UNCHANGED Active
  BY <1>5 DEF IInv, AcquireTarget, ReleaseSemaphore, ReleaseTarget, PublishAccepted, PublishRefused,
      CheckContext, RecordFailure, BackoffFires, GiveUp, AbandonTarget
<1>6. CASE Cancel \/ UNCHANGED vars
  BY <1>6 DEF Cancel, vars, workerVars
<1>7. QED
  BY <1>1, <1>2, <1>3, <1>4, <1>5, <1>6
     DEF Next, RunnerNext, Worker, Collect, Finished, Bounded!Next

\* The scheduler implements BoundedRefresh: at most MaxConcurrency collectors
\* run at a time, and one per target, whatever the interleaving.
THEOREM RefinesBounded == Spec => BoundedSpec
<1>1. Init => Bounded!Init
  BY DEF Init, Bounded!Init
<1>2. IInv /\ [Next]_vars => [Bounded!Next]_{j \in Jobs : worker[j] = "collect"}
  BY BoundedStep DEF Active
<1>3. QED
  BY <1>1, <1>2, Inductive, PTL DEF Spec, BoundedSpec, Bounded!Spec
=============================================================================
