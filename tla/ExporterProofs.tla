--------------------------- MODULE ExporterProofs ---------------------------
(***************************************************************************)
(* Proofs about Exporter for any set of jobs and targets, any non-empty    *)
(* set of required collectors and any number of concurrent /ready          *)
(* requests.  The process is first shown to run the scheduler of module    *)
(* Scheduler, step for step, so that the theorems of SchedulerProofs hold  *)
(* of it; the order in which RunServices shuts down does the rest.         *)
(***************************************************************************)
EXTENDS Exporter, TLAPS

\* The scheduler's theorems, about the variables of the process.
Sched == INSTANCE SchedulerProofs

ServeStates == {"serving", "failed", "closed"}
Freshness == {"missing", "fresh", "aging", "stale"}
ProbeStates == {"idle", "load", "ready", "not_ready"}

\* The types of the process's own variables.
AppTypes ==
    /\ main \in MainPC
    /\ serve \in ServeStates
    /\ draining \in BOOLEAN /\ timedOut \in BOOLEAN /\ shutdownErr \in BOOLEAN
    /\ result \in {"none", "ok", "error"}
    /\ fresh \in [Required -> Freshness]
    /\ probe \in [Probes -> ProbeStates]

\* RunServices is on its way to a nil result, or has returned one.
Draining == main \in {"cancel", "shutdown", "drain", "wait", "join"} \/ result = "ok"
ServerShut == main \in {"wait", "join"} \/ result = "ok"
SchedulerJoined == main = "join" \/ result = "ok"

\* What each step of the shutdown has established, and nothing undoes.
ShutdownInv ==
    /\ main # "returned" => result = "none"
    /\ Draining => draining
    /\ main \in {"drain", "wait", "join", "returned"} /\ serve = "serving" => result = "error"
    /\ ServerShut => shutdownErr \/ \A p \in Probes : probe[p] = "idle"
    /\ SchedulerJoined => timedOut \/ Runner!Returned
    /\ result = "ok" => ~shutdownErr /\ serve = "closed"
    /\ main = "returned" => result # "none"
    /\ main = "returned" /\ serve = "failed" => result = "error"

IInv == AppTypes /\ ShutdownInv

-----------------------------------------------------------------------------
(* The process runs the scheduler. *)

\* The assumptions of Scheduler hold of the constants of the process.
LEMMA RunnerAssumption == Sched!SchedulerAssumption
<1>1. Sched!IsFiniteSet(Jobs)
  BY ExporterAssumption DEF Sched!IsFiniteSet, IsFiniteSet
<1>2. QED
  BY <1>1, ExporterAssumption DEF Sched!SchedulerAssumption

\* The two instances of Scheduler, the one the process takes its steps from and
\* the one the theorems speak of, are the same specification.
LEMMA SameSchedule == ASSUME NEW j PROVE Sched!Schedule(j) <=> Runner!Schedule(j)
BY DEF Sched!Schedule, Sched!Start, Sched!DispatchSkip, Sched!DispatchClaim, Sched!Enqueue,
       Sched!Wake, Sched!ScheduleExit, Sched!SchedGoto, Sched!workerVars, Sched!slotVars,
       Runner!Schedule, Runner!Start, Runner!DispatchSkip, Runner!DispatchClaim, Runner!Enqueue,
       Runner!Wake, Runner!ScheduleExit, Runner!SchedGoto, Runner!workerVars, Runner!slotVars

\* The steps of collect are the same through both instances of Scheduler.
LEMMA SameCollect == ASSUME NEW j PROVE Sched!Collect(j) <=> Runner!Collect(j)
<1> USE DEF Sched!WorkerGoto, Runner!WorkerGoto, Sched!slotVars, Runner!slotVars
<1>1. /\ Sched!AcquireTarget(j) <=> Runner!AcquireTarget(j)
      /\ Sched!AcquireSemaphore(j) <=> Runner!AcquireSemaphore(j)
      /\ Sched!ReleaseSemaphore(j) <=> Runner!ReleaseSemaphore(j)
      /\ Sched!ReleaseTarget(j) <=> Runner!ReleaseTarget(j)
      /\ Sched!AbandonTarget(j) <=> Runner!AbandonTarget(j)
  BY DEF Sched!AcquireTarget, Sched!AcquireSemaphore, Sched!ReleaseSemaphore, Sched!ReleaseTarget,
         Sched!AbandonTarget, Runner!AcquireTarget, Runner!AcquireSemaphore,
         Runner!ReleaseSemaphore, Runner!ReleaseTarget, Runner!AbandonTarget
<1>2. Sched!CollectReturns(j) <=> Runner!CollectReturns(j)
  BY DEF Sched!CollectReturns, Runner!CollectReturns, Sched!Outcomes, Runner!Outcomes
<1>3. /\ Sched!PublishAccepted(j) <=> Runner!PublishAccepted(j)
      /\ Sched!PublishRefused(j) <=> Runner!PublishRefused(j)
      /\ Sched!CheckContext(j) <=> Runner!CheckContext(j)
      /\ Sched!RecordFailure(j) <=> Runner!RecordFailure(j)
      /\ Sched!BackoffFires(j) <=> Runner!BackoffFires(j)
      /\ Sched!GiveUp(j) <=> Runner!GiveUp(j)
  BY DEF Sched!PublishAccepted, Sched!PublishRefused, Sched!CheckContext, Sched!RecordFailure,
         Sched!CanRetry, Sched!BackoffFires, Sched!GiveUp, Runner!PublishAccepted,
         Runner!PublishRefused, Runner!CheckContext, Runner!RecordFailure, Runner!CanRetry,
         Runner!BackoffFires, Runner!GiveUp
<1>4. QED
  BY <1>1, <1>2, <1>3 DEF Sched!Collect, Runner!Collect

\* The steps of a worker are the same through both instances.
LEMMA SameWorker == ASSUME NEW j PROVE Sched!Worker(j) <=> Runner!Worker(j)
<1>1. /\ Sched!TakeReference(j) <=> Runner!TakeReference(j)
      /\ Sched!ClearRunning(j) <=> Runner!ClearRunning(j)
      /\ Sched!WorkerStop(j) <=> Runner!WorkerStop(j)
      /\ Sched!WorkerExit(j) <=> Runner!WorkerExit(j)
  BY DEF Sched!TakeReference, Sched!ClearRunning, Sched!WorkerStop, Sched!WorkerExit,
         Sched!WorkerGoto, Sched!slotVars, Runner!TakeReference, Runner!ClearRunning,
         Runner!WorkerStop, Runner!WorkerExit, Runner!WorkerGoto, Runner!slotVars
<1>2. QED
  BY <1>1, SameCollect DEF Sched!Worker, Runner!Worker

\* So is every step, the stutters included.
LEMMA SameNext == [Runner!Next]_runnerVars <=> [Sched!Next]_(Sched!vars)
<1>1. Runner!RunnerNext <=> Sched!RunnerNext
  BY SameSchedule, SameWorker DEF Runner!RunnerNext, Sched!RunnerNext
<1>2. Runner!Cancel <=> Sched!Cancel
  BY DEF Runner!Cancel, Sched!Cancel, Runner!workerVars, Runner!slotVars, Sched!workerVars,
         Sched!slotVars
<1>3. Runner!Finished <=> Sched!Finished
  BY DEF Runner!Finished, Sched!Finished, Runner!Returned, Sched!Returned, Runner!vars, Sched!vars
<1>4. QED
  BY <1>1, <1>2, <1>3 DEF Runner!Next, Sched!Next, runnerVars, Sched!vars

\* Whatever RunServices, the server and the probes do, the variables of the
\* scheduler take a step of the scheduler or stand still.
LEMMA RunnerStepOrStutter == [Next]_vars => [Runner!Next]_runnerVars
<1> SUFFICES ASSUME [Next]_vars PROVE [Runner!Next]_runnerVars
  OBVIOUS
<1>1. CASE Collection
  <2>1. ASSUME NEW j \in Jobs, Publish(j) \/ RunnerStep(j) PROVE Runner!Next
    BY <2>1 DEF Publish, RunnerStep, Runner!Next, Runner!RunnerNext, Runner!Worker, Runner!Collect
  <2>2. ASSUME NEW j \in Required, Age(j) PROVE UNCHANGED runnerVars
    BY <2>2 DEF Age
  <2>3. QED
    BY <1>1, <2>1, <2>2 DEF Collection
<1>2. CASE Propagate \/ CancelRun
  BY <1>2 DEF Propagate, CancelRun, Runner!Next
<1>3. CASE Signal \/ ServeFails \/ SelectServe \/ SelectSignal \/ BeginShutdown \/ CloseListener
           \/ ShutdownReturns \/ WaitForScheduler \/ Join
  BY <1>3 DEF Signal, ServeFails, SelectServe, SelectSignal, BeginShutdown, CloseListener,
      ShutdownReturns, WaitForScheduler, Join
<1>4. ASSUME NEW p \in Probes, Probe(p) PROVE UNCHANGED runnerVars
  BY <1>4 DEF Probe, ProbeStart, ProbeLoad, ProbeRespond
<1>5. CASE Exit \/ UNCHANGED vars
  BY <1>5 DEF Exit, vars
<1>6. QED
  BY <1>1, <1>2, <1>3, <1>4, <1>5 DEF Next, RunServices

\* The process implements the scheduler's specification: signals, shutdown and
\* requests never make the runner do what runner.go alone would not.
THEOREM RunsScheduler == Spec => Runner!Spec
<1>1. Init => Runner!Init
  BY DEF Init
<1>2. [Next]_vars => [Runner!Next]_(Runner!vars)
  BY RunnerStepOrStutter DEF runnerVars, Runner!vars
<1>3. QED
  BY <1>1, <1>2, PTL DEF Spec, Runner!Spec

\* The process runs the scheduler whose theorems SchedulerProofs states.
LEMMA SchedulerRuns == Spec => Sched!Spec
<1>1. Init => Sched!Init
  BY DEF Init, Runner!Init, Sched!Init
<1>2. [Next]_vars => [Sched!Next]_(Sched!vars)
  BY RunnerStepOrStutter, SameNext
<1>3. QED
  BY <1>1, <1>2, PTL DEF Spec, Sched!Spec

\* What the scheduler's theorems say of the process.
LEMMA RunnerFacts == Spec => [](Sched!TypeOK /\ Sched!SlotAccounting)
<1>1. Sched!Spec => []Sched!TypeOK
  BY Sched!TypeCorrect, RunnerAssumption, PTL
<1>2. Sched!Spec => []Sched!SlotAccounting
  BY Sched!SlotsAccounted, RunnerAssumption, PTL
<1>3. QED
  BY <1>1, <1>2, SchedulerRuns, PTL

-----------------------------------------------------------------------------
(* The order of the shutdown. *)

\* Once Run has returned, no goroutine of the scheduler runs again.
LEMMA ReturnedStable ==
  ASSUME Runner!Returned, [Next]_vars PROVE Runner!Returned'
<1>1. ASSUME NEW j \in Jobs PROVE ~Runner!Schedule(j)
  BY DEF Runner!Returned, Runner!Schedule, Runner!Start, Runner!DispatchSkip, Runner!DispatchClaim,
      Runner!Enqueue, Runner!Wake, Runner!ScheduleExit, Runner!SchedGoto
<1>2. ASSUME NEW j \in Jobs PROVE ~Runner!Worker(j)
  BY DEF Runner!Returned, Runner!Worker, Runner!TakeReference, Runner!ClearRunning,
      Runner!WorkerStop, Runner!WorkerExit, Runner!Collect, Runner!AcquireTarget,
      Runner!AcquireSemaphore, Runner!CollectReturns, Runner!ReleaseSemaphore,
      Runner!ReleaseTarget, Runner!PublishAccepted, Runner!PublishRefused, Runner!CheckContext,
      Runner!RecordFailure, Runner!BackoffFires, Runner!GiveUp, Runner!AbandonTarget,
      Runner!WorkerGoto
<1>3. ~Runner!Cancel
  BY DEF Runner!Returned, Runner!Cancel
<1>4. UNCHANGED runnerVars
  BY <1>1, <1>2, <1>3, RunnerStepOrStutter
     DEF Runner!Next, Runner!RunnerNext, Runner!Finished, Runner!vars, runnerVars
<1>5. QED
  BY <1>4 DEF runnerVars, Runner!Returned

\* The initial state satisfies the inductive invariant.
LEMMA InitIInv == Init => IInv
BY DEF Init, IInv, AppTypes, ShutdownInv, Draining, ServerShut, SchedulerJoined, MainPC,
       ServeStates, Freshness, ProbeStates

\* Every step keeps the types.
LEMMA TypesStep == IInv /\ [Next]_vars => AppTypes'
<1> SUFFICES ASSUME AppTypes, [Next]_vars PROVE AppTypes'
  BY DEF IInv
<1> USE DEF AppTypes, MainPC, ServeStates, Freshness, ProbeStates, appVars, MainGoto
<1>1. CASE Collection
  BY <1>1, ExporterAssumption DEF Collection, Publish, RunnerStep, Age
<1>2. CASE Signal \/ Propagate \/ ServeFails
  BY <1>2 DEF Signal, Propagate, ServeFails
<1>3. CASE RunServices
  BY <1>3 DEF RunServices, SelectServe, SelectSignal, BeginShutdown, CancelRun, CloseListener,
      ShutdownReturns, WaitForScheduler, Join
<1>4. ASSUME NEW p \in Probes, Probe(p) PROVE AppTypes'
  BY <1>4 DEF Probe, ProbeStart, ProbeLoad, ProbeRespond
<1>5. CASE Exit \/ UNCHANGED vars
  BY <1>5 DEF Exit, vars
<1>6. QED
  BY <1>1, <1>2, <1>3, <1>4, <1>5 DEF Next

\* Every step keeps what the shutdown has established.
LEMMA ShutdownStep == IInv /\ [Next]_vars => ShutdownInv'
<1> SUFFICES ASSUME IInv, [Next]_vars PROVE ShutdownInv'
  OBVIOUS
<1>0. AppTypes /\ ShutdownInv
  BY DEF IInv
<1>r. Runner!Returned => Runner!Returned'
  BY ReturnedStable
<1> USE DEF ShutdownInv, Draining, ServerShut, SchedulerJoined, appVars, MainGoto
<1>1. CASE Collection
  BY <1>0, <1>r, <1>1 DEF Collection
<1>2. CASE Signal \/ Propagate
  BY <1>0, <1>r, <1>2 DEF Signal, Propagate
<1>3. CASE ServeFails
  BY <1>0, <1>r, <1>3 DEF ServeFails
<1>4. CASE SelectServe \/ SelectSignal \/ BeginShutdown
  BY <1>0, <1>r, <1>4 DEF SelectServe, SelectSignal, BeginShutdown
<1>5. CASE CancelRun
  BY <1>0, <1>r, <1>5 DEF CancelRun
<1>6. CASE CloseListener
  BY <1>0, <1>r, <1>6 DEF CloseListener, AppTypes, ServeStates
<1>7. CASE ShutdownReturns
  BY <1>0, <1>r, <1>7 DEF ShutdownReturns, AppTypes
<1>8. CASE WaitForScheduler
  BY <1>0, <1>r, <1>8 DEF WaitForScheduler
<1>9. CASE Join
  BY <1>0, <1>r, <1>9 DEF Join, AppTypes, ServeStates
<1>10. ASSUME NEW p \in Probes, Probe(p) PROVE ShutdownInv'
  BY <1>0, <1>r, <1>10 DEF Probe, ProbeStart, ProbeLoad, ProbeRespond, AppTypes
<1>11. CASE Exit \/ UNCHANGED vars
  BY <1>0, <1>r, <1>11 DEF Exit, vars
<1>12. QED
  BY <1>1, <1>2, <1>3, <1>4, <1>5, <1>6, <1>7, <1>8, <1>9, <1>10, <1>11 DEF Next, RunServices

\* The inductive invariant holds in every reachable state.
THEOREM Inductive == Spec => []IInv
<1>1. IInv /\ [Next]_vars => IInv'
  BY TypesStep, ShutdownStep DEF IInv
<1>2. QED
  BY InitIInv, <1>1, PTL DEF Spec

-----------------------------------------------------------------------------
\* When every worker has exited, no semaphore token and no target slot is held.
LEMMA NothingHeld ==
  ASSUME Sched!TypeOK, Sched!SlotAccounting, Runner!Returned
  PROVE  semaphore = 0 /\ \A t \in Targets : slot[t] = 0
<1>1. \A j \in Jobs : ~Sched!HoldsSemaphore(j) /\ ~Sched!HoldsTarget(j)
  BY DEF Runner!Returned, Sched!HoldsSemaphore, Sched!HoldsTarget
<1>2. semaphore = 0
  <2>1. {j \in Jobs : Sched!HoldsSemaphore(j)} = {}
    BY <1>1
  <2>2. semaphore = Sched!Cardinality({})
    BY <2>1 DEF Sched!SlotAccounting
  <2>3. Sched!Cardinality({}) = 0
    BY Sched!FS_EmptySet, RunnerAssumption
  <2>4. QED
    BY <2>2, <2>3
<1>3. \A t \in Targets : slot[t] = 0
  BY <1>1 DEF Sched!SlotAccounting, Sched!TypeOK
<1>4. QED
  BY <1>2, <1>3

\* A nil result of RunServices without a scheduler timeout means that every
\* request was answered, the server stopped, every goroutine of the scheduler
\* exited and every slot was handed back.
THEOREM CleanExit == Spec => []CleanExitIsComplete
<1>1. IInv /\ Sched!TypeOK /\ Sched!SlotAccounting => CleanExitIsComplete
  <2> SUFFICES ASSUME IInv, Sched!TypeOK, Sched!SlotAccounting, main = "returned", result = "ok"
               PROVE  /\ draining /\ serve = "closed"
                      /\ \A p \in Probes : probe[p] = "idle"
                      /\ ~timedOut => /\ semaphore = 0 /\ \A t \in Targets : slot[t] = 0
                                      /\ \A j \in Jobs : worker[j] = "done" /\ sched[j] = "done"
    BY DEF CleanExitIsComplete
  <2>1. draining /\ serve = "closed" /\ \A p \in Probes : probe[p] = "idle"
    BY DEF IInv, ShutdownInv, Draining, ServerShut
  <2>2. ~timedOut => Runner!Returned
    BY DEF IInv, ShutdownInv, SchedulerJoined
  <2>3. ASSUME ~timedOut PROVE semaphore = 0 /\ \A t \in Targets : slot[t] = 0
    BY <2>2, <2>3, NothingHeld
  <2>4. ASSUME ~timedOut PROVE \A j \in Jobs : worker[j] = "done" /\ sched[j] = "done"
    BY <2>2, <2>4 DEF Runner!Returned
  <2>5. QED
    BY <2>1, <2>3, <2>4
<1>2. QED
  BY <1>1, Inductive, RunnerFacts, PTL

\* A failed Serve always makes RunServices return an error, whichever branch of
\* its select was taken.
THEOREM ServeErrorKept == Spec => []ServeErrorReported
<1>1. IInv => ServeErrorReported
  BY DEF IInv, ShutdownInv, ServeErrorReported
<1>2. QED
  BY <1>1, Inductive, PTL

\* Only a publication of a required collector gains readiness, only age loses it.
LEMMA ReadinessStep ==
  ASSUME AppTypes, Sched!TypeOK, [Next]_vars
  PROVE  /\ Readiness' /\ ~Readiness =>
                \E j \in Required : worker[j] = "publish" /\ worker'[j] = "clear"
         /\ Readiness /\ ~Readiness' => UNCHANGED worker
<1>1. ASSUME UNCHANGED fresh PROVE Readiness' <=> Readiness
  BY <1>1 DEF Readiness
<1>2. ASSUME NEW j \in Jobs, Publish(j), j \notin Required PROVE UNCHANGED fresh
  BY <1>2 DEF Publish
<1>3. ASSUME NEW j \in Required, Publish(j)
      PROVE  /\ worker[j] = "publish" /\ worker'[j] = "clear"
             /\ Readiness => Readiness'
  <2>1. worker[j] = "publish" /\ worker'[j] = "clear"
    BY <1>3, ExporterAssumption
       DEF Publish, Runner!PublishAccepted, Runner!WorkerGoto, Sched!TypeOK
  <2>2. Readiness => Readiness'
    BY <1>3 DEF Publish, Readiness, AppTypes
  <2>3. QED
    BY <2>1, <2>2
<1>4. ASSUME NEW j \in Required, Age(j)
      PROVE  UNCHANGED worker /\ (Readiness' => Readiness)
  BY <1>4 DEF Age, Readiness, AppTypes, Freshness, runnerVars
<1>5. CASE \E j \in Jobs : Publish(j)
  BY <1>1, <1>2, <1>3, <1>5
<1>6. CASE \E j \in Required : Age(j)
  BY <1>4, <1>6
<1>7. CASE UNCHANGED fresh
  BY <1>1, <1>7
<1>8. QED
  BY <1>5, <1>6, <1>7
     DEF Next, Collection, RunnerStep, Signal, Propagate, ServeFails, RunServices, SelectServe,
         SelectSignal, BeginShutdown, CancelRun, CloseListener, ShutdownReturns, WaitForScheduler,
         Join, Probe, ProbeStart, ProbeLoad, ProbeRespond, Exit, vars

\* Readiness follows the required data and nothing else.
THEOREM ReadinessHolds == Spec => ReadinessFollowsData
<1>1. AppTypes /\ Sched!TypeOK /\ [Next]_vars =>
        [/\ Readiness' /\ ~Readiness =>
                \E j \in Required : worker[j] = "publish" /\ worker'[j] = "clear"
         /\ Readiness /\ ~Readiness' => UNCHANGED worker]_vars
  BY ReadinessStep
<1>2. IInv => AppTypes
  BY DEF IInv
<1>3. QED
  BY <1>1, <1>2, Inductive, RunnerFacts, PTL DEF Spec, ReadinessFollowsData
=============================================================================
