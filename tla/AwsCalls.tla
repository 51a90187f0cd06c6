------------------------------ MODULE AwsCalls ------------------------------
(***************************************************************************)
(* The AWS requests of a refresh: the logical calls of one Collect, each   *)
(* of them one or more attempts of the SDK, every attempt behind the       *)
(* process-wide and the target's token bucket (internal/aws/common,        *)
(* clientfactory/factory.go), the classes their errors are given, and the  *)
(* retries of the runner that depend on them (scheduler/runner.go).        *)
(*                                                                         *)
(* The scheduler runs one Collect of a target at a time (BoundedRefresh),  *)
(* so that a target stands for its running collector.  The retry loop of   *)
(* the SDK and rate.Limiter are external: an attempt token is asked for    *)
(* before every attempt and a retry token before every retry, and a wait   *)
(* that is given up takes no token.  A request goes out when the target's  *)
(* token is there.                                                         *)
(***************************************************************************)
EXTENDS Integers, FiniteSets

CONSTANTS
    Targets,         \* targets, each with the collector it runs
    Deadlined,       \* those whose collector works under a deadline (Athena)
    GlobalBurst,     \* aws.rate_limit.global_burst
    TargetBurst,     \* aws.rate_limit.target_burst
    MaxAttempts,     \* aws.retry.max_attempts
    RunnerAttempts,  \* collection.failure_backoff.max_attempts
    MaxCalls,        \* bound on the logical calls of one Collect, by target
    Failures         \* how an attempt may fail

ContextErrors == {"ctxCanceled", "ctxDeadline"}
AttemptErrors == {"throttleCode", "netTimeout", "network", "unavailable",
                  "accessDenied", "invalid", "otherCode"}
\* What else ends a Collect: the limiter foresees the deadline ("would exceed
\* context deadline", no context error), a response makes no sense, or the
\* verifier refuses the identity it was answered.
LocalErrors == {"limiter", "badResponse", "identityMismatch", "credentialsChanged"}
\* Errors that another attempt will not cure.
Permanent == {"accessDenied", "invalid", "badResponse", "identityMismatch"}
Errors == AttemptErrors \cup ContextErrors \cup LocalErrors

ASSUME CallsAssumption ==
    /\ IsFiniteSet(Targets) /\ Targets # {} /\ Deadlined \subseteq Targets
    /\ GlobalBurst \in Nat \ {0} /\ TargetBurst \in Nat \ {0}
    /\ MaxAttempts \in Nat \ {0} /\ RunnerAttempts \in Nat \ {0} /\ MaxCalls \in [Targets -> Nat \ {0}]
    /\ Failures \subseteq AttemptErrors

VARIABLES
    cancelled,   \* the run context is done
    expired,     \* the deadline of the running Collect has passed
    global, bucket,       \* tokens in the global and in each target's limiter
    pc, try, call, attempt,   \* each collector: where it is; of which try, call and attempt
    err,         \* the error of the call that ends, "none" for success
    hidden,      \* history: an attempt of this call was throttled and no metric said so
    permanent,   \* history: this refresh met an error that will not go away
    burst        \* history: attempts sent, less one for every tick since

tokens  == <<global, bucket>>
history == <<hidden, permanent, burst>>
vars == <<cancelled, expired, tokens, pc, try, call, attempt, err, history>>

Init ==
    /\ cancelled = FALSE /\ expired = [t \in Targets |-> FALSE]
    /\ global = GlobalBurst /\ bucket = [t \in Targets |-> TargetBurst]
    /\ pc = [t \in Targets |-> "idle"]
    /\ try = [t \in Targets |-> 1] /\ call = [t \in Targets |-> 1] /\ attempt = [t \in Targets |-> 1]
    /\ err = [t \in Targets |-> "none"]
    /\ hidden = [t \in Targets |-> FALSE] /\ permanent = [t \in Targets |-> FALSE]
    /\ burst = 0

Goto(t, from, to) == pc[t] = from /\ pc' = [pc EXCEPT ![t] = to]

-----------------------------------------------------------------------------
(* Classes of errors. *)

IsThrottleCode(e) == e = "throttleCode"

\* Mutant of ClassifyError: what is not known is worth another try.
ClassifyErrorHopeful(e) ==
    CASE e = "ctxCanceled" -> [kind |-> "canceled", retryable |-> FALSE]
      [] e = "invalid" -> [kind |-> "validation", retryable |-> FALSE]
      [] OTHER -> [kind |-> "unknown", retryable |-> TRUE]

ClassifyError(e) ==
    CASE e = "ctxCanceled" -> [kind |-> "canceled", retryable |-> FALSE]
      [] e \in {"ctxDeadline", "netTimeout"} -> [kind |-> "timeout", retryable |-> TRUE]
      [] e \in {"network", "unavailable"} -> [kind |-> "transient", retryable |-> TRUE]
      [] IsThrottleCode(e) -> [kind |-> "throttle", retryable |-> TRUE]
      [] e = "accessDenied" -> [kind |-> "authorization", retryable |-> FALSE]
      [] e = "invalid" -> [kind |-> "validation", retryable |-> FALSE]
      [] OTHER -> [kind |-> "unknown", retryable |-> FALSE]

\* What the runner asks an error: those of the verifier answer for themselves,
\* and those of a malformed response carry no answer.
Retryable(e) ==
    CASE e = "credentialsChanged" -> TRUE
      [] e \in {"identityMismatch", "badResponse"} -> FALSE
      [] OTHER -> ClassifyError(e).retryable

\* The label of a logical call.  The timeout of net/http's client counts as a
\* deadline exceeded.
RequestStatus(e) ==
    CASE e = "none" -> "success"
      [] e \in ContextErrors \cup {"netTimeout"} -> "canceled"
      [] IsThrottleCode(e) -> "throttle"
      [] OTHER -> "error"

\* The label of a retry.
RetryReason(e) ==
    CASE IsThrottleCode(e) -> "throttle"
      [] e = "netTimeout" -> "timeout"
      [] OTHER -> "other"

\* The SDK's standard retryer, for errors of an attempt: codes that the
\* exporter has no class for may go either way.
IsErrorRetryable(e) ==
    CASE e \in {"throttleCode", "netTimeout", "network", "unavailable"} -> {TRUE}
      [] e \in {"accessDenied", "invalid"} -> {FALSE}
      [] OTHER -> BOOLEAN

-----------------------------------------------------------------------------
(* The context and the limiters. *)

Cancel ==
    /\ ~cancelled
    /\ cancelled' = TRUE
    /\ UNCHANGED <<expired, tokens, pc, try, call, attempt, err, history>>

Expire(t) ==
    /\ t \in Deadlined /\ pc[t] \notin {"idle", "pause"} /\ ~expired[t]
    /\ expired' = [expired EXCEPT ![t] = TRUE]
    /\ UNCHANGED <<cancelled, tokens, pc, try, call, attempt, err, history>>

\* Time passes: every limiter gains a token, up to its burst.
Tick ==
    /\ global' = IF global < GlobalBurst THEN global + 1 ELSE global
    /\ bucket' = [t \in Targets |-> IF bucket[t] < TargetBurst THEN bucket[t] + 1 ELSE bucket[t]]
    /\ burst' = IF burst > 0 THEN burst - 1 ELSE 0
    /\ UNCHANGED <<cancelled, expired, pc, try, call, attempt, err, hidden, permanent>>

ContextError(t) ==
    CASE cancelled -> {"ctxCanceled"}
      [] ~cancelled /\ expired[t] -> {"ctxDeadline"}
      [] OTHER -> {}

\* Why Wait of a limiter may return an error: the context is done, or the
\* token would come after the deadline.
WaitErrors(t, available) ==
    ContextError(t) \cup IF t \in Deadlined /\ available = 0 THEN {"limiter"} ELSE {}

\* The SDK gives the call up.
Fail(t, from, e) ==
    /\ Goto(t, from, "failed")
    /\ err' = [err EXCEPT ![t] = e]
    /\ attempt' = [attempt EXCEPT ![t] = 1]

\* DualLimiter.Wait, first half.
GlobalWait(t) ==
    /\ ContextError(t) = {} /\ global > 0
    /\ Goto(t, "global", "target")
    /\ global' = global - 1
    /\ UNCHANGED <<cancelled, expired, bucket, try, call, attempt, err, history>>

GlobalWaitFails(t) ==
    /\ \E e \in WaitErrors(t, global) : Fail(t, "global", e)
    /\ UNCHANGED <<cancelled, expired, tokens, try, call, history>>

\* DualLimiter.Wait, second half; the attempt is sent.
TargetWait(t) ==
    /\ ContextError(t) = {} /\ bucket[t] > 0
    /\ Goto(t, "target", "sent")
    /\ bucket' = [bucket EXCEPT ![t] = @ - 1]
    /\ burst' = burst + 1
    /\ UNCHANGED <<cancelled, expired, global, try, call, attempt, err, hidden, permanent>>

\* The global token is spent all the same.
TargetWaitFails(t) ==
    /\ \E e \in WaitErrors(t, bucket[t]) : Fail(t, "target", e)
    /\ UNCHANGED <<cancelled, expired, tokens, try, call, history>>

-----------------------------------------------------------------------------
(* The attempts of one call. *)

\* A response that is no error.
Respond(t) ==
    /\ Goto(t, "sent", "answered")
    /\ attempt' = [attempt EXCEPT ![t] = 1]
    /\ UNCHANGED <<cancelled, expired, tokens, try, call, err, history>>

\* The attempt ends with the context: the SDK does not retry it.
Interrupt(t) ==
    /\ \E e \in ContextError(t) : Fail(t, "sent", e)
    /\ UNCHANGED <<cancelled, expired, tokens, try, call, history>>

\* Mutant of GetRetryToken: a retry is observed whether granted or not, before
\* its reason is known.
GetRetryTokenUnnamed(t, e) ==
    /\ hidden' = [hidden EXCEPT ![t] = @ \/ IsThrottleCode(e)]
    /\ (Goto(t, "sent", "backoff") /\ UNCHANGED <<attempt, err>>) \/ Fail(t, "sent", e)

\* The retry token is granted, and the retry observed, or the SDK's quota of
\* retries is used up, and the attempt's error is returned.
GetRetryToken(t, e) ==
    \/ /\ Goto(t, "sent", "backoff")
       /\ hidden' = [hidden EXCEPT ![t] = @ \/ (IsThrottleCode(e) /\ RetryReason(e) # "throttle")]
       /\ UNCHANGED <<attempt, err>>
    \/ Fail(t, "sent", e) /\ hidden' = [hidden EXCEPT ![t] = @ \/ IsThrottleCode(e)]

AttemptsLeft(t) == attempt[t] < MaxAttempts

\* The attempt fails.
AttemptFails(t) ==
    /\ \E e \in Failures : \E retryable \in IsErrorRetryable(e) :
          /\ permanent' = [permanent EXCEPT ![t] = e \in Permanent]
          /\ IF retryable /\ AttemptsLeft(t)
             THEN GetRetryToken(t, e)
             ELSE Fail(t, "sent", e) /\ hidden' = [hidden EXCEPT ![t] = @ \/ IsThrottleCode(e)]
    /\ UNCHANGED <<cancelled, expired, tokens, try, call, burst>>

\* Mutant of Retry: a retry needs no new tokens.
RetryUnlimited(t) ==
    /\ Goto(t, "backoff", "sent")
    /\ attempt' = [attempt EXCEPT ![t] = @ + 1]
    /\ burst' = burst + 1
    /\ UNCHANGED <<cancelled, expired, tokens, try, call, err, hidden, permanent>>

\* Mutant of Retry: the attempt is not counted.
RetryUncounted(t) ==
    /\ Goto(t, "backoff", "global")
    /\ UNCHANGED <<cancelled, expired, tokens, try, call, attempt, err, history>>

\* BackoffDelay has passed: the next attempt asks for its tokens.
Retry(t) ==
    /\ Goto(t, "backoff", "global")
    /\ attempt' = [attempt EXCEPT ![t] = @ + 1]
    /\ UNCHANGED <<cancelled, expired, tokens, try, call, err, history>>

BackoffInterrupted(t) ==
    /\ \E e \in ContextError(t) : Fail(t, "backoff", e)
    /\ UNCHANGED <<cancelled, expired, tokens, try, call, history>>

-----------------------------------------------------------------------------
(* Collect and the retries of the runner. *)

\* The locals of Collect are gone.
Left(t) ==
    /\ call' = [call EXCEPT ![t] = 1]
    /\ err' = [err EXCEPT ![t] = "none"]
    /\ expired' = [expired EXCEPT ![t] = FALSE]

\* The runner starts a refresh.
Refresh(t) ==
    /\ ~cancelled
    /\ Goto(t, "idle", "global")
    /\ UNCHANGED <<cancelled, expired, tokens, try, call, attempt, err, history>>

\* ObserveCall with the call's success; Collect makes its next call (the
\* identity check first, then the pages and queries of the reader) ...
NextCall(t) ==
    /\ call[t] < MaxCalls[t]
    /\ Goto(t, "answered", "global")
    /\ call' = [call EXCEPT ![t] = @ + 1]
    /\ UNCHANGED <<cancelled, expired, tokens, try, attempt, err, history>>

\* ... returns its partial, or finds the response malformed.
CollectReturns(t) ==
    /\ Goto(t, "answered", "idle")
    /\ Left(t) /\ try' = [try EXCEPT ![t] = 1]
    /\ UNCHANGED <<cancelled, tokens, attempt, history>>

\* The first call is GetCallerIdentity: verify refuses the account, or the
\* credentials changed meanwhile.
CollectRejects(t) ==
    /\ \E e \in {"badResponse"} \cup IF call[t] = 1 THEN {"identityMismatch", "credentialsChanged"} ELSE {} :
          /\ Fail(t, "answered", e)
          /\ permanent' = [permanent EXCEPT ![t] = e \in Permanent]
    /\ UNCHANGED <<cancelled, expired, tokens, try, call, hidden, burst>>

\* ObserveCall with the call's error, which ends Collect; the runner gives up,
\* or pauses before the next try.
CollectFails(t) ==
    /\ IF ~cancelled /\ Retryable(err[t]) /\ try[t] < RunnerAttempts
       THEN Goto(t, "failed", "pause") /\ UNCHANGED <<try, permanent>>
       ELSE /\ Goto(t, "failed", "idle")
            /\ try' = [try EXCEPT ![t] = 1] /\ permanent' = [permanent EXCEPT ![t] = FALSE]
    /\ hidden' = [hidden EXCEPT ![t] = @ /\ RequestStatus(err[t]) # "throttle"]
    /\ Left(t)
    /\ UNCHANGED <<cancelled, tokens, attempt, burst>>

CollectAgain(t) ==
    /\ Goto(t, "pause", "global")
    /\ try' = [try EXCEPT ![t] = @ + 1]
    /\ UNCHANGED <<cancelled, expired, tokens, call, attempt, err, history>>

PauseInterrupted(t) ==
    /\ cancelled
    /\ Goto(t, "pause", "idle")
    /\ try' = [try EXCEPT ![t] = 1]
    /\ UNCHANGED <<cancelled, expired, tokens, call, attempt, err, history>>

Limited(t) == GlobalWaitFails(t) \/ TargetWait(t) \/ TargetWaitFails(t)

Attempt(t) ==
    \/ Respond(t) \/ Interrupt(t) \/ AttemptFails(t) \/ Retry(t) \/ BackoffInterrupted(t)

Collect(t) ==
    \/ NextCall(t) \/ CollectReturns(t) \/ CollectRejects(t)
    \/ CollectFails(t) \/ CollectAgain(t) \/ PauseInterrupted(t)

Step(t) == Limited(t) \/ Attempt(t) \/ Collect(t)

Next ==
    \/ Cancel \/ Tick
    \/ \E t \in Targets : Expire(t) \/ Refresh(t) \/ GlobalWait(t) \/ Step(t)

Spec == Init /\ [][Next]_vars

\* Time passes, requests return (the HTTP client has a timeout), and Go runs
\* every goroutine.  rate.Limiter serves waiters in the order they came, so
\* that nobody is passed over for ever.
FairSpec ==
    /\ Spec
    /\ WF_vars(Tick)
    /\ \A t \in Targets : WF_vars(Step(t)) /\ SF_vars(GlobalWait(t))

-----------------------------------------------------------------------------
(* Properties. *)

\* Every variable has its type; in particular the attempts of a call and the
\* tries of a refresh stay within their limits.
TypeOK ==
    /\ cancelled \in BOOLEAN /\ expired \in [Targets -> BOOLEAN]
    /\ global \in 0..GlobalBurst /\ bucket \in [Targets -> 0..TargetBurst]
    /\ pc \in [Targets -> {"idle", "global", "target", "sent", "answered", "backoff", "failed", "pause"}]
    /\ try \in [Targets -> 1..RunnerAttempts]
    /\ call \in [Targets -> Nat \ {0}] /\ (\A t \in Targets : call[t] <= MaxCalls[t]) /\ attempt \in [Targets -> 1..MaxAttempts]
    /\ err \in [Targets -> Errors \cup {"none"}]
    /\ hidden \in [Targets -> BOOLEAN] /\ permanent \in [Targets -> BOOLEAN]
    /\ burst \in Nat

\* The process stays within its rate: in any period the attempts sent exceed the
\* tokens the global limiter gained in it by no more than its burst and one for
\* each target, which may have taken a token earlier and waited for its own
\* limiter since.  Retries count as attempts (instrumentation.go,
\* DualLimiter.Wait and GetAttemptToken).
BurstBounded == burst <= GlobalBurst + Cardinality(Targets)

\* No throttling stays hidden: when AWS throttled an attempt of a call, then
\* either a retry was observed with that reason or the call is observed with
\* that status, whether attempts or retry tokens ran out or the context ended
\* (instrumentation.go, GetRetryToken, ObserveCall, RequestStatus).
ThrottleVisible == \A t \in Targets : hidden[t] => pc[t] = "failed"

\* An error that will not go away, denied access, an invalid request or a
\* malformed response, ends the refresh: neither the SDK nor the runner tries
\* again, whichever calls and tries came before (errors.go, ClassifyError;
\* runner.go, collect).
PermanentEndsRefresh == \A t \in Targets : permanent[t] => pc[t] = "failed"

\* Every refresh ends: retries within retries are finite, nobody waits for ever
\* for tokens that others use, and a wait ends with its context
\* (instrumentation.go, DualLimiter.Wait; runner.go, collect).
RefreshEnds == \A t \in Targets : pc[t] # "idle" ~> pc[t] = "idle"
=============================================================================
