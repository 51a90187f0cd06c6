------------------------------ MODULE Scheduler ------------------------------
(***************************************************************************)
(* The collection scheduler of internal/scheduler/runner.go.  Every job    *)
(* (one collector of one target) has two goroutines: `schedule' dispatches *)
(* a refresh at start-up and whenever its timer fires, `worker' takes the  *)
(* dispatched reference and runs `collect', which retries under backoff.   *)
(* Jobs share the counting semaphore and one slot per target; a job's two  *)
(* goroutines share the capacity-one queue and the `running' flag.         *)
(*                                                                         *)
(* A step is one channel operation, one critical section of runningMu, or  *)
(* one call into the store or the collector.  A Go select with several     *)
(* ready cases is one disjunct per case.  The reference time carried by    *)
(* the queue is abstracted to a token: no guard of the runner reads it.    *)
(***************************************************************************)
EXTENDS Naturals, FiniteSets

CONSTANTS
    Jobs,             \* the configured jobs: identity.CollectorID values
    Targets,          \* identity.TargetID values
    TargetOf,         \* the target a job belongs to
    StartupRefresh,   \* Job.StartupRefresh
    MaxConcurrency,   \* capacity of the semaphore channel
    MaxAttempts,      \* Backoff.MaxAttempts
    PromptHandover    \* TRUE: no timer fires while its job's last reference is still queued

ASSUME SchedulerAssumption ==
    /\ IsFiniteSet(Jobs) /\ Jobs # {}
    /\ TargetOf \in [Jobs -> Targets]
    /\ StartupRefresh \in [Jobs -> BOOLEAN]
    /\ MaxConcurrency \in Nat \ {0}
    /\ MaxAttempts \in Nat \ {0}
    /\ PromptHandover \in BOOLEAN

VARIABLES
    cancelled,   \* runCtx is done
    sched,       \* where each schedule goroutine is
    running,     \* runner.running, guarded by runningMu
    queue,       \* occupancy of runner.queues[id] (capacity one)
    worker,      \* where each worker goroutine is
    attempt,     \* loop variable of collect
    outcome,     \* what the current attempt returned
    semaphore,   \* tokens in runner.semaphore
    slot         \* tokens in runner.targets[t] (capacity one)

slotVars   == <<semaphore, slot>>
workerVars == <<worker, attempt, outcome>>
vars == <<cancelled, sched, running, queue, worker, attempt, outcome, semaphore, slot>>

SchedPC  == {"start", "dispatch", "enqueue", "wait", "done"}
WorkerPC == {"idle", "target", "semaphore", "collect", "releaseSemaphore",
             "releaseTarget", "abandonTarget", "publish", "check", "record",
             "backoff", "clear", "exiting", "done"}
Outcomes == {"none", "ok", "retryable", "permanent", "canceled"}

Init ==
    /\ cancelled = FALSE
    /\ sched = [j \in Jobs |-> "start"]
    /\ running = [j \in Jobs |-> FALSE]
    /\ queue = [j \in Jobs |-> 0]
    /\ worker = [j \in Jobs |-> "idle"]
    /\ attempt = [j \in Jobs |-> 0]
    /\ outcome = [j \in Jobs |-> "none"]
    /\ semaphore = 0
    /\ slot = [t \in Targets |-> 0]

SchedGoto(j, from, to) ==
    /\ sched[j] = from
    /\ sched' = [sched EXCEPT ![j] = to]

WorkerGoto(j, from, to) ==
    /\ worker[j] = from
    /\ worker' = [worker EXCEPT ![j] = to]

-----------------------------------------------------------------------------
(* The schedule goroutine. *)

\* Enter schedule: dispatch at once, or go straight to the first timer.
Start(j) ==
    /\ IF StartupRefresh[j]
       THEN SchedGoto(j, "start", "dispatch")
       ELSE SchedGoto(j, "start", "wait")
    /\ UNCHANGED <<cancelled, running, queue, workerVars, slotVars>>

\* dispatch finds a refresh of this job under way: the tick is skipped.
DispatchSkip(j) ==
    /\ running[j]
    /\ SchedGoto(j, "dispatch", "wait")
    /\ UNCHANGED <<cancelled, running, queue, workerVars, slotVars>>

\* Mutant of DispatchClaim: the running flag is not consulted.
DispatchClaimUnchecked(j) ==
    /\ SchedGoto(j, "dispatch", "enqueue")
    /\ running' = [running EXCEPT ![j] = TRUE]
    /\ UNCHANGED <<cancelled, queue, workerVars, slotVars>>

\* dispatch claims the job; the send on the queue is a later step.
DispatchClaim(j) ==
    /\ ~running[j]
    /\ SchedGoto(j, "dispatch", "enqueue")
    /\ running' = [running EXCEPT ![j] = TRUE]
    /\ UNCHANGED <<cancelled, queue, workerVars, slotVars>>

\* The send itself: it has no ctx.Done case and blocks while the queue is full.
Enqueue(j) ==
    /\ queue[j] = 0
    /\ SchedGoto(j, "enqueue", "wait")
    /\ queue' = [queue EXCEPT ![j] = 1]
    /\ UNCHANGED <<cancelled, running, workerVars, slotVars>>

\* select takes the timer case: the interval has elapsed, at any moment unless
\* the hand-over of the previous reference is assumed to be shorter than it.
Wake(j) ==
    /\ PromptHandover => queue[j] = 0
    /\ SchedGoto(j, "wait", "dispatch")
    /\ UNCHANGED <<cancelled, running, queue, workerVars, slotVars>>

\* select takes the ctx.Done case.
ScheduleExit(j) ==
    /\ cancelled
    /\ SchedGoto(j, "wait", "done")
    /\ UNCHANGED <<cancelled, running, queue, workerVars, slotVars>>

-----------------------------------------------------------------------------
(* The worker goroutine and collect. *)

\* Mutant of TakeReference: single-flight covers the queue only.
TakeReferenceClearing(j) ==
    /\ queue[j] = 1
    /\ WorkerGoto(j, "idle", "target")
    /\ queue' = [queue EXCEPT ![j] = 0]
    /\ attempt' = [attempt EXCEPT ![j] = 1]
    /\ running' = [running EXCEPT ![j] = FALSE]
    /\ UNCHANGED <<cancelled, sched, outcome, slotVars>>

TakeReference(j) ==
    /\ queue[j] = 1
    /\ WorkerGoto(j, "idle", "target")
    /\ queue' = [queue EXCEPT ![j] = 0]
    /\ attempt' = [attempt EXCEPT ![j] = 1]
    /\ UNCHANGED <<cancelled, sched, running, outcome, slotVars>>

AcquireTarget(j) ==
    /\ slot[TargetOf[j]] = 0
    /\ WorkerGoto(j, "target", "semaphore")
    /\ slot' = [slot EXCEPT ![TargetOf[j]] = 1]
    /\ UNCHANGED <<cancelled, sched, running, queue, attempt, outcome, semaphore>>

\* Mutant of AcquireSemaphore: the channel has one place too many.
AcquireSemaphoreBeyond(j) ==
    /\ semaphore <= MaxConcurrency
    /\ WorkerGoto(j, "semaphore", "collect")
    /\ semaphore' = semaphore + 1
    /\ UNCHANGED <<cancelled, sched, running, queue, attempt, outcome, slot>>

AcquireSemaphore(j) ==
    /\ semaphore < MaxConcurrency
    /\ WorkerGoto(j, "semaphore", "collect")
    /\ semaphore' = semaphore + 1
    /\ UNCHANGED <<cancelled, sched, running, queue, attempt, outcome, slot>>

\* Collect returns.  Only a done context makes it return a cancellation error.
CollectReturns(j) ==
    /\ WorkerGoto(j, "collect", "releaseSemaphore")
    /\ \E result \in Outcomes \ {"none"} :
          /\ result = "canceled" => cancelled
          /\ outcome' = [outcome EXCEPT ![j] = result]
    /\ UNCHANGED <<cancelled, sched, running, queue, attempt, slotVars>>

ReleaseSemaphore(j) ==
    /\ WorkerGoto(j, "releaseSemaphore", "releaseTarget")
    /\ semaphore' = semaphore - 1
    /\ UNCHANGED <<cancelled, sched, running, queue, attempt, outcome, slot>>

ReleaseTarget(j) ==
    /\ WorkerGoto(j, "releaseTarget", IF outcome[j] = "ok" THEN "publish" ELSE "check")
    /\ slot' = [slot EXCEPT ![TargetOf[j]] = 0]
    /\ UNCHANGED <<cancelled, sched, running, queue, attempt, outcome, semaphore>>

\* store.Publish accepts the partial: collect returns.
PublishAccepted(j) ==
    /\ WorkerGoto(j, "publish", "clear")
    /\ UNCHANGED <<cancelled, sched, running, queue, attempt, outcome, slotVars>>

\* store.Publish refuses it: its errors do not implement Retryable.
PublishRefused(j) ==
    /\ WorkerGoto(j, "publish", "check")
    /\ outcome' = [outcome EXCEPT ![j] = "permanent"]
    /\ UNCHANGED <<cancelled, sched, running, queue, attempt, slotVars>>

\* Mutant of CheckContext: ctx.Err() is not consulted.
CheckContextIgnored(j) ==
    /\ WorkerGoto(j, "check", "record")
    /\ UNCHANGED <<cancelled, sched, running, queue, attempt, outcome, slotVars>>

\* The test of ctx.Err() after a failed attempt.
CheckContext(j) ==
    /\ WorkerGoto(j, "check", IF cancelled THEN "clear" ELSE "record")
    /\ UNCHANGED <<cancelled, sched, running, queue, attempt, outcome, slotVars>>

CanRetry(j) == outcome[j] = "retryable" /\ attempt[j] # MaxAttempts

\* store.RecordFailure, then either the backoff timer or the end of collect.
RecordFailure(j) ==
    /\ WorkerGoto(j, "record", IF CanRetry(j) THEN "backoff" ELSE "clear")
    /\ UNCHANGED <<cancelled, sched, running, queue, attempt, outcome, slotVars>>

BackoffFires(j) ==
    /\ WorkerGoto(j, "backoff", "target")
    /\ attempt' = [attempt EXCEPT ![j] = @ + 1]
    /\ UNCHANGED <<cancelled, sched, running, queue, outcome, slotVars>>

\* Mutant of GiveUp: the target slot is kept when the semaphore wait is cut short.
GiveUpKeepingTarget(j) ==
    /\ cancelled
    /\ \E from \in {"target", "semaphore", "backoff"} : WorkerGoto(j, from, "clear")
    /\ UNCHANGED <<cancelled, sched, running, queue, attempt, outcome, slotVars>>

\* The ctx.Done case of the three selects of collect.
GiveUp(j) ==
    /\ cancelled
    /\ \/ WorkerGoto(j, "target", "clear")
       \/ WorkerGoto(j, "semaphore", "abandonTarget")
       \/ WorkerGoto(j, "backoff", "clear")
    /\ UNCHANGED <<cancelled, sched, running, queue, attempt, outcome, slotVars>>

\* The target slot is handed back when the semaphore wait is cut short.
AbandonTarget(j) ==
    /\ WorkerGoto(j, "abandonTarget", "clear")
    /\ slot' = [slot EXCEPT ![TargetOf[j]] = 0]
    /\ UNCHANGED <<cancelled, sched, running, queue, attempt, outcome, semaphore>>

\* Mutant of ClearRunning: the flag is cleared by the deferred call only.
ClearRunningDeferred(j) ==
    /\ WorkerGoto(j, "clear", "idle")
    /\ attempt' = [attempt EXCEPT ![j] = 0]
    /\ outcome' = [outcome EXCEPT ![j] = "none"]
    /\ UNCHANGED <<cancelled, sched, running, queue, slotVars>>

\* collect has returned; worker clears the single-flight flag and loops.
ClearRunning(j) ==
    /\ WorkerGoto(j, "clear", "idle")
    /\ running' = [running EXCEPT ![j] = FALSE]
    /\ attempt' = [attempt EXCEPT ![j] = 0]
    /\ outcome' = [outcome EXCEPT ![j] = "none"]
    /\ UNCHANGED <<cancelled, sched, queue, slotVars>>

\* select takes the ctx.Done case, even with a reference in the queue.
WorkerStop(j) ==
    /\ cancelled
    /\ WorkerGoto(j, "idle", "exiting")
    /\ UNCHANGED <<cancelled, sched, running, queue, attempt, outcome, slotVars>>

\* Mutant of WorkerExit: workers.Done is not called.
WorkerExitWithoutDone(j) ==
    /\ WorkerGoto(j, "exiting", "exiting")
    /\ running' = [running EXCEPT ![j] = FALSE]
    /\ UNCHANGED <<cancelled, sched, queue, attempt, outcome, slotVars>>

\* The deferred clearRunning and workers.Done.
WorkerExit(j) ==
    /\ WorkerGoto(j, "exiting", "done")
    /\ running' = [running EXCEPT ![j] = FALSE]
    /\ UNCHANGED <<cancelled, sched, queue, attempt, outcome, slotVars>>

-----------------------------------------------------------------------------
Schedule(j) ==
    \/ Start(j) \/ DispatchSkip(j) \/ DispatchClaim(j) \/ Enqueue(j)
    \/ Wake(j) \/ ScheduleExit(j)

Collect(j) ==
    \/ AcquireTarget(j) \/ AcquireSemaphore(j) \/ CollectReturns(j)
    \/ ReleaseSemaphore(j) \/ ReleaseTarget(j)
    \/ PublishAccepted(j) \/ PublishRefused(j)
    \/ CheckContext(j) \/ RecordFailure(j) \/ BackoffFires(j)
    \/ GiveUp(j) \/ AbandonTarget(j)

Worker(j) ==
    \/ TakeReference(j) \/ Collect(j) \/ ClearRunning(j)
    \/ WorkerStop(j) \/ WorkerExit(j)

\* The caller cancels the context given to Run.
Cancel ==
    /\ ~cancelled
    /\ cancelled' = TRUE
    /\ UNCHANGED <<sched, running, queue, workerVars, slotVars>>

\* Run has returned: the context is done and the wait group is at zero.
Returned == cancelled /\ \A j \in Jobs : sched[j] = "done" /\ worker[j] = "done"

RunnerNext == \E j \in Jobs : Schedule(j) \/ Worker(j)

Finished == Returned /\ UNCHANGED vars

Next == RunnerNext \/ Cancel \/ Finished

Spec == Init /\ [][Next]_vars

\* Goroutines that can run do run, time passes, and every Collect returns.
\* Go serves the senders blocked on a channel in FIFO order, so a worker that
\* finds a slot free again and again gets it; and select chooses uniformly at
\* random among ready cases, so the ctx.Done case that is ready again and again
\* is taken: strong fairness for both.
Fairness ==
    \A j \in Jobs :
        /\ WF_vars(Schedule(j)) /\ WF_vars(Worker(j))
        /\ SF_vars(AcquireTarget(j) \/ AcquireSemaphore(j))
        /\ SF_vars(ScheduleExit(j)) /\ SF_vars(WorkerStop(j))

FairSpec == Spec /\ Fairness

-----------------------------------------------------------------------------
(* Properties. *)

\* Workers between the acquisition and the release of their target's slot,
\* and of a semaphore token.
HoldsTarget(j) == worker[j] \in {"semaphore", "collect", "releaseSemaphore",
                                 "releaseTarget", "abandonTarget"}
HoldsSemaphore(j) == worker[j] \in {"collect", "releaseSemaphore"}

\* Every variable has its type; in particular collect never starts an attempt
\* beyond Backoff.MaxAttempts (runner.go, loop header and the last-attempt return).
TypeOK ==
    /\ cancelled \in BOOLEAN
    /\ sched \in [Jobs -> SchedPC]
    /\ running \in [Jobs -> BOOLEAN]
    /\ queue \in [Jobs -> {0, 1}]
    /\ worker \in [Jobs -> WorkerPC]
    /\ attempt \in [Jobs -> 0..MaxAttempts]
    /\ outcome \in [Jobs -> Outcomes]
    /\ semaphore \in 0..MaxConcurrency
    /\ slot \in [Targets -> {0, 1}]

\* The tokens in the two kinds of channel are exactly the ones held by workers
\* inside their critical sections: no path out of collect, the cancelled ones
\* included, leaks or double-releases a slot, and none is held during backoff,
\* publication or idling (runner.go, collect).
SlotAccounting ==
    /\ semaphore = Cardinality({j \in Jobs : HoldsSemaphore(j)})
    /\ \A j, k \in Jobs :
          HoldsTarget(j) /\ HoldsTarget(k) /\ TargetOf[j] = TargetOf[k] => j = k
    /\ \A t \in Targets :
          slot[t] = 1 <=> \E j \in Jobs : TargetOf[j] = t /\ HoldsTarget(j)

\* As long as a worker serves its queue, the running flag stands for exactly one
\* refresh: being enqueued, waiting in the queue, or in the worker's hands
\* (runner.go, dispatch, worker and clearRunning).
SingleFlight ==
    \A j \in Jobs :
        worker[j] \notin {"exiting", "done"} =>
            /\ running[j] <=> sched[j] = "enqueue" \/ queue[j] = 1 \/ worker[j] # "idle"
            /\ sched[j] = "enqueue" => queue[j] = 0 /\ worker[j] = "idle"
            /\ queue[j] = 1 => worker[j] = "idle"

\* Before cancellation the send in dispatch never blocks, so a slow refresh
\* can never stop its job's timer loop (runner.go, dispatch).
DispatchNeverBlocks ==
    \A j \in Jobs : sched[j] = "enqueue" /\ ~cancelled => queue[j] = 0

\* An attempt that was cut short by cancellation never turns a collector's
\* status to failed (runner.go, the ctx.Err test before RecordFailure).
CancelNeverMarksDown ==
    \A j \in Jobs : worker[j] = "record" => outcome[j] \in {"retryable", "permanent"}

\* The scheduler implements BoundedRefresh: the set of jobs inside Collect only
\* changes by admitting one job within the limits or by releasing one
\* (runner.go, the two acquisitions and two releases of collect).
Bounded == INSTANCE BoundedRefresh WITH active <- {j \in Jobs : worker[j] = "collect"}
BoundedSpec == Bounded!Spec

\* No job starves: until cancellation every job is collected again and again,
\* whatever the others that wait for a token or for its target do
\* (runner.go, schedule, worker and collect).
RefreshRecurs == \A j \in Jobs : []<>(worker[j] = "collect" \/ cancelled)

\* Run returns after cancellation: no goroutine is left blocked on a queue, a
\* slot, a semaphore token or a timer (runner.go, Run).
RunReturns == cancelled ~> Returned
=============================================================================
