------------------------------ MODULE Exporter ------------------------------
(***************************************************************************)
(* The process: RunServices of internal/app/bootstrap.go, which starts the *)
(* scheduler and the HTTP server and shuts both down on a signal or when   *)
(* Serve fails; the readiness gate of internal/httpserver/server.go; and   *)
(* the freshness of the required collectors, as store.go computes it.  The *)
(* scheduler is the one of module Scheduler, step for step.                *)
(*                                                                         *)
(* runCtx is a child of the signal context: the context package closes the *)
(* parent's Done channel first and cancels the children after it, so the   *)
(* two become visible to other goroutines in separate steps.               *)
(***************************************************************************)
EXTENDS Naturals, FiniteSets

CONSTANTS
    Jobs, Targets, TargetOf, StartupRefresh, MaxConcurrency, MaxAttempts,
    PromptHandover,   \* the constants of Scheduler
    Required,         \* Cost Explorer collectors of required targets
    Probes            \* concurrent /ready requests

ASSUME ExporterAssumption ==
    /\ IsFiniteSet(Jobs) /\ Required \subseteq Jobs /\ Required # {}
    /\ TargetOf \in [Jobs -> Targets]
    /\ StartupRefresh \in [Jobs -> BOOLEAN]
    /\ MaxConcurrency \in Nat \ {0}
    /\ MaxAttempts \in Nat \ {0}
    /\ PromptHandover \in BOOLEAN

VARIABLES
    cancelled, sched, running, queue, worker, attempt, outcome, semaphore, slot,
    signalled,   \* the context given to RunServices is done
    main,        \* where RunServices is
    serve,       \* the goroutine of server.Serve: running, or what it sent on serverDone
    draining,    \* Server.draining
    timedOut,    \* waitForScheduler gave up
    shutdownErr, \* server.Shutdown returned an error
    result,      \* what RunServices returned
    fresh,       \* the freshness of each required collector's data
    probe        \* where each /ready request is, or its answer

Runner == INSTANCE Scheduler

runnerVars == <<cancelled, sched, running, queue, worker, attempt, outcome, semaphore, slot>>
appVars == <<signalled, main, serve, draining, timedOut, shutdownErr, result>>
vars == <<runnerVars, appVars, fresh, probe>>

MainPC == {"select", "begin", "cancel", "shutdown", "drain", "wait", "join",
           "cancelServe", "waitServe", "returned"}

Init ==
    /\ Runner!Init
    /\ signalled = FALSE /\ main = "select" /\ serve = "serving"
    /\ draining = FALSE /\ timedOut = FALSE /\ shutdownErr = FALSE
    /\ result = "none"
    /\ fresh = [j \in Required |-> "missing"]
    /\ probe = [p \in Probes |-> "idle"]

-----------------------------------------------------------------------------
(* The scheduler and the store. *)

\* A successful publication makes the collector's data fresh.
Publish(j) ==
    /\ Runner!PublishAccepted(j)
    /\ fresh' = IF j \in Required THEN [fresh EXCEPT ![j] = "fresh"] ELSE fresh

\* Mutant of RunnerStep: a recorded failure drops the collector's last success.
RunnerStepForgetting(j) ==
    /\ Runner!Schedule(j) \/ Runner!Worker(j)
    /\ ~Runner!PublishAccepted(j)
    /\ fresh' = IF j \in Required /\ worker[j] = "record"
                THEN [fresh EXCEPT ![j] = "missing"] ELSE fresh

\* Every other step of the scheduler, RecordFailure included, leaves it alone.
RunnerStep(j) ==
    /\ Runner!Schedule(j) \/ Runner!Worker(j)
    /\ ~Runner!PublishAccepted(j)
    /\ UNCHANGED fresh

\* freshness_ttl or stale_after passes without a successful refresh.
Age(j) ==
    /\ fresh[j] \in {"fresh", "aging"}
    /\ fresh' = [fresh EXCEPT ![j] = IF @ = "fresh" THEN "aging" ELSE "stale"]
    /\ UNCHANGED runnerVars

Collection ==
    /\ main # "returned"
    /\ \/ \E j \in Jobs : Publish(j) \/ RunnerStep(j)
       \/ \E j \in Required : Age(j)
    /\ UNCHANGED <<appVars, probe>>

-----------------------------------------------------------------------------
(* RunServices. *)

MainGoto(from, to) == main = from /\ main' = to

\* SIGINT or SIGTERM: signal.NotifyContext marks ctx done.
Signal ==
    /\ ~signalled /\ main # "returned"
    /\ signalled' = TRUE
    /\ UNCHANGED <<runnerVars, main, serve, draining, timedOut, shutdownErr, result, fresh, probe>>

\* The cancellation of ctx reaches its child runCtx.
Propagate ==
    /\ signalled /\ main # "returned"
    /\ Runner!Cancel
    /\ UNCHANGED <<appVars, fresh, probe>>

\* Accept fails: Serve returns an error on serverDone.
ServeFails ==
    /\ serve = "serving" /\ main # "returned"
    /\ serve' = "failed"
    /\ UNCHANGED <<runnerVars, signalled, main, draining, timedOut, shutdownErr, result, fresh, probe>>

\* select takes the serverDone case.
SelectServe ==
    /\ serve = "failed"
    /\ MainGoto("select", "cancelServe")
    /\ UNCHANGED <<runnerVars, signalled, serve, draining, timedOut, shutdownErr, result, fresh, probe>>

\* select takes the ctx.Done case.
SelectSignal ==
    /\ signalled
    /\ MainGoto("select", "begin")
    /\ UNCHANGED <<runnerVars, signalled, serve, draining, timedOut, shutdownErr, result, fresh, probe>>

BeginShutdown ==
    /\ MainGoto("begin", "cancel")
    /\ draining' = TRUE
    /\ UNCHANGED <<runnerVars, signalled, serve, timedOut, shutdownErr, result, fresh, probe>>

\* cancel() of runCtx, in either branch; it may be cancelled already.
CancelRun ==
    /\ MainGoto("cancel", "shutdown") \/ MainGoto("cancelServe", "waitServe")
    /\ \/ Runner!Cancel
       \/ cancelled /\ UNCHANGED runnerVars
    /\ UNCHANGED <<signalled, serve, draining, timedOut, shutdownErr, result, fresh, probe>>

\* server.Shutdown closes the listener, which makes Serve return ErrServerClosed.
CloseListener ==
    /\ MainGoto("shutdown", "drain")
    /\ serve' = IF serve = "serving" THEN "closed" ELSE serve
    /\ UNCHANGED <<runnerVars, signalled, draining, timedOut, shutdownErr, result, fresh, probe>>

\* Mutant of ShutdownReturns: active requests are not waited for.
ShutdownReturnsEarly ==
    /\ MainGoto("drain", "wait")
    /\ UNCHANGED <<runnerVars, signalled, serve, draining, timedOut, shutdownErr, result, fresh, probe>>

\* Shutdown returns once no request is active, or with an error at its deadline.
ShutdownReturns ==
    /\ MainGoto("drain", "wait")
    /\ \/ (\A p \in Probes : probe[p] = "idle") /\ UNCHANGED shutdownErr
       \/ shutdownErr' = TRUE
    /\ UNCHANGED <<runnerVars, signalled, serve, draining, timedOut, result, fresh, probe>>

\* Mutant of WaitForScheduler: the timeout is missing.
WaitForSchedulerForever ==
    /\ MainGoto("wait", "join") \/ MainGoto("waitServe", "returned")
    /\ Runner!Returned /\ UNCHANGED timedOut
    /\ result' = IF main = "waitServe" THEN "error" ELSE result
    /\ UNCHANGED <<runnerVars, signalled, serve, draining, shutdownErr, fresh, probe>>

\* waitForScheduler: schedulerDone is closed, or the (positive) timeout elapses.
\* In the serverDone branch RunServices then returns Serve's error.
WaitForScheduler ==
    /\ MainGoto("wait", "join") \/ MainGoto("waitServe", "returned")
    /\ \/ Runner!Returned /\ UNCHANGED timedOut
       \/ timedOut' = TRUE
    /\ result' = IF main = "waitServe" THEN "error" ELSE result
    /\ UNCHANGED <<runnerVars, signalled, serve, draining, shutdownErr, fresh, probe>>

\* Mutant of Join: the result of Serve is dropped.
JoinShutdownOnly ==
    /\ serve # "serving"
    /\ MainGoto("join", "returned")
    /\ result' = IF shutdownErr THEN "error" ELSE "ok"
    /\ UNCHANGED <<runnerVars, signalled, serve, draining, timedOut, shutdownErr, fresh, probe>>

\* The result of Serve is received and joined with the one of Shutdown.
Join ==
    /\ serve # "serving"
    /\ MainGoto("join", "returned")
    /\ result' = IF shutdownErr \/ serve = "failed" THEN "error" ELSE "ok"
    /\ UNCHANGED <<runnerVars, signalled, serve, draining, timedOut, shutdownErr, fresh, probe>>

RunServices ==
    \/ SelectServe \/ SelectSignal \/ BeginShutdown \/ CancelRun
    \/ CloseListener \/ ShutdownReturns \/ WaitForScheduler \/ Join

-----------------------------------------------------------------------------
(* GET /ready. *)

\* The handler starts and reads draining.  Connections accepted earlier are
\* served until Shutdown has returned, or the process is gone.
ProbeStart(p) ==
    /\ probe[p] = "idle" /\ main \notin {"wait", "join", "returned"}
    /\ probe' = [probe EXCEPT ![p] = IF draining THEN "not_ready" ELSE "load"]
    /\ UNCHANGED <<runnerVars, appVars, fresh>>

Readiness == \A j \in Required : fresh[j] \in {"fresh", "aging"}

\* It loads the view and computes the answer.
ProbeLoad(p) ==
    /\ probe[p] = "load" /\ main # "returned"
    /\ probe' = [probe EXCEPT ![p] = IF Readiness THEN "ready" ELSE "not_ready"]
    /\ UNCHANGED <<runnerVars, appVars, fresh>>

ProbeRespond(p) ==
    /\ probe[p] \in {"ready", "not_ready"} /\ main # "returned"
    /\ probe' = [probe EXCEPT ![p] = "idle"]
    /\ UNCHANGED <<runnerVars, appVars, fresh>>

Probe(p) == ProbeStart(p) \/ ProbeLoad(p) \/ ProbeRespond(p)

Exit == main = "returned" /\ UNCHANGED vars

Next ==
    \/ Collection
    \/ Signal \/ Propagate \/ ServeFails \/ RunServices
    \/ \E p \in Probes : Probe(p)
    \/ Exit

Spec == Init /\ [][Next]_vars

\* Only RunServices itself is assumed to make progress: neither the scheduler
\* nor a request in flight is, and timeouts elapse.
FairSpec == Spec /\ WF_vars(RunServices)

-----------------------------------------------------------------------------
(* Properties. *)

\* A clean exit is a complete one: when RunServices returns nil after draining
\* and without giving up on the scheduler, no collector is inside AWS, no slot
\* is held, no request is being answered and the server has stopped
\* (bootstrap.go, RunServices and waitForScheduler).
CleanExitIsComplete ==
    main = "returned" /\ result = "ok" =>
        /\ draining /\ serve = "closed"
        /\ \A p \in Probes : probe[p] = "idle"
        /\ ~timedOut => /\ semaphore = 0 /\ \A t \in Targets : slot[t] = 0
                        /\ \A j \in Jobs : worker[j] = "done" /\ sched[j] = "done"

\* A failure of Serve is never lost, even when it races with the signal and the
\* ctx.Done branch is the one taken (bootstrap.go, RunServices).
ServeErrorReported == main = "returned" /\ serve = "failed" => result = "error"

\* Readiness is gained only by a publication that completes the required data,
\* and lost only by age: failed refreshes of any collector, and anything an
\* optional collector does, leave it alone (server.go, readiness; store.go,
\* RecordFailure and freshness).
ReadinessFollowsData ==
    [][/\ Readiness' /\ ~Readiness => \E j \in Required : worker[j] = "publish" /\ worker'[j] = "clear"
       /\ Readiness /\ ~Readiness' => UNCHANGED worker]_vars

\* RunServices returns after a signal or a failure of Serve, whatever the
\* scheduler, a collector or a request does (bootstrap.go, RunServices).
ProcessExits == (signalled \/ serve = "failed") ~> (main = "returned")

\* "Shutdown marks /ready unavailable ... before canceling collectors"
\* (docs/wiki/Operations-and-Cost-Control.md; server.go, BeginShutdown).
NotReadyBeforeCancel == cancelled => draining
=============================================================================
