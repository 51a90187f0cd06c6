--------------------------- MODULE AwsCallsProofs ---------------------------
(***************************************************************************)
(* Proofs about AwsCalls for any number of targets, any bursts and any     *)
(* numbers of calls, attempts and tries.                                   *)
(***************************************************************************)
EXTENDS AwsCalls, FiniteSetTheorems, TLAPS

\* Targets between their two waits: they hold a token of the global limiter.
Waiting == {t \in Targets : pc[t] = "target"}

\* A retry is only waited for when there is one left.
PointInv ==
    \A t \in Targets :
       /\ pc[t] = "backoff" => attempt[t] < MaxAttempts
       /\ pc[t] = "pause" => try[t] < RunnerAttempts

\* Every token is in the limiter, in the hands of a waiting target or behind an
\* attempt; only what a tick adds while no attempt is counted exceeds the burst,
\* and then no more than the waiting targets hold.
BurstInv == burst + global + Cardinality(Waiting) <= GlobalBurst + Cardinality(Targets)

\* A throttling that no retry made visible is the error about to be observed.
HiddenInv == \A t \in Targets : hidden[t] => pc[t] = "failed" /\ IsThrottleCode(err[t])

\* A permanent error is the one about to be judged by the runner.
PermanentInv == \A t \in Targets : permanent[t] => pc[t] = "failed" /\ err[t] \in Permanent

IInv == TypeOK /\ PointInv /\ BurstInv /\ HiddenInv /\ PermanentInv

Unlimited == {"idle", "global", "sent", "answered", "backoff", "failed", "pause"}

-----------------------------------------------------------------------------
\* The waiting targets are no more than the targets.
LEMMA WaitingFinite ==
    /\ IsFiniteSet(Waiting) /\ Cardinality(Waiting) \in Nat
    /\ Cardinality(Targets) \in Nat /\ Cardinality(Waiting) <= Cardinality(Targets)
BY CallsAssumption, FS_Subset, FS_CardinalityType DEF Waiting

\* The initial state satisfies the inductive invariant.
LEMMA InitIInv == Init => IInv
<1> SUFFICES ASSUME Init PROVE IInv
  OBVIOUS
<1>1. TypeOK
  <2>1. GlobalBurst \in 0..GlobalBurst /\ TargetBurst \in 0..TargetBurst /\ 1 \in 1..RunnerAttempts
        /\ 1 \in 1..MaxAttempts /\ 1 \in Nat \ {0} /\ 0 \in Nat
    BY CallsAssumption
  <2>2. \A t \in Targets : 1 <= MaxCalls[t]
    BY CallsAssumption
  <2>3. QED
    BY <2>1, <2>2 DEF Init, TypeOK
<1>2. PointInv /\ HiddenInv /\ PermanentInv
  BY DEF Init, PointInv, HiddenInv, PermanentInv
<1>3. BurstInv
  <2>1. Waiting = {}
    BY DEF Init, Waiting
  <2>2. QED
    BY <2>1, FS_EmptySet, WaitingFinite, CallsAssumption DEF Init, BurstInv
<1>4. QED
  BY <1>1, <1>2, <1>3 DEF IInv

\* How a step of one target changes the waiting targets.
LEMMA WaitingChange ==
    ASSUME NEW t \in Targets, TypeOK, NEW to, pc' = [pc EXCEPT ![t] = to]
    PROVE  /\ to = "target" => Waiting' = Waiting \cup {t}
           /\ to # "target" => Waiting' = Waiting \ {t}
BY DEF TypeOK, Waiting

\* A step that sends nothing and takes no token keeps the account of tokens.
LEMMA BurstKept ==
    ASSUME NEW t \in Targets, TypeOK, BurstInv, NEW to, pc' = [pc EXCEPT ![t] = to], to # "target",
           UNCHANGED <<burst, global>>
    PROVE  BurstInv'
<1>1. Waiting' = Waiting \ {t}
  BY WaitingChange
<1>2. IsFiniteSet(Waiting') /\ Cardinality(Waiting') <= Cardinality(Waiting) /\ Cardinality(Waiting') \in Nat
  BY <1>1, WaitingFinite, FS_Subset, FS_CardinalityType
<1>3. QED
  BY <1>2, WaitingFinite, CallsAssumption DEF BurstInv, TypeOK

\* Every step preserves the account of tokens.
LEMMA NextBurst == ASSUME TypeOK, BurstInv, [Next]_vars PROVE BurstInv'
<1> USE DEF Goto
<1>a. burst \in Nat /\ global \in Nat /\ GlobalBurst \in Nat /\ global <= GlobalBurst
  BY CallsAssumption DEF TypeOK
<1>1. CASE UNCHANGED <<pc, burst, global>>
  <2>1. Waiting' = Waiting
    BY <1>1 DEF Waiting
  <2>2. QED
    BY <1>1, <2>1 DEF BurstInv
<1>2. CASE Tick
  <2>1. Waiting' = Waiting
    BY <1>2 DEF Tick, Waiting
  <2>2. global' \in Nat /\ global' <= global + 1 /\ global' <= GlobalBurst
    BY <1>2, <1>a DEF Tick
  <2>3. burst' = IF burst > 0 THEN burst - 1 ELSE 0
    BY <1>2 DEF Tick
  <2>4. CASE burst > 0
    BY <2>1, <2>2, <2>3, <2>4, <1>a, WaitingFinite DEF BurstInv
  <2>5. CASE ~(burst > 0)
    BY <2>1, <2>2, <2>3, <2>5, <1>a, WaitingFinite DEF BurstInv
  <2>6. QED
    BY <2>4, <2>5
<1>3. ASSUME NEW t \in Targets, GlobalWait(t) PROVE BurstInv'
  <2>1. Waiting' = Waiting \cup {t} /\ t \notin Waiting
    BY <1>3, WaitingChange DEF GlobalWait, Waiting
  <2>2. Cardinality(Waiting') = Cardinality(Waiting) + 1
    BY <2>1, WaitingFinite, FS_AddElement
  <2>3. global' = global - 1 /\ burst' = burst
    BY <1>3 DEF GlobalWait, history
  <2>4. QED
    BY <2>2, <2>3, <1>a, WaitingFinite DEF BurstInv
<1>4. ASSUME NEW t \in Targets, TargetWait(t) PROVE BurstInv'
  <2>0. pc[t] = "target" /\ pc' = [pc EXCEPT ![t] = "sent"]
    BY <1>4 DEF TargetWait
  <2>1. Waiting' = Waiting \ {t}
    <3>1. "sent" # "target"
      OBVIOUS
    <3>2. QED
      BY <2>0, <3>1, WaitingChange, Zenon
  <2>t. t \in Waiting
    BY <2>0 DEF Waiting
  <2>2. Cardinality(Waiting') = Cardinality(Waiting) - 1
    BY <2>1, <2>t, WaitingFinite, FS_RemoveElement
  <2>3. burst' = burst + 1 /\ global' = global
    BY <1>4 DEF TargetWait
  <2>4. QED
    BY <2>2, <2>3, <1>a, WaitingFinite DEF BurstInv
<1>5. ASSUME NEW t \in Targets, Refresh(t) \/ GlobalWaitFails(t) \/ TargetWaitFails(t) PROVE BurstInv'
  <2>1. UNCHANGED <<burst, global>>
    BY <1>5 DEF Refresh, GlobalWaitFails, TargetWaitFails, tokens, history
  <2>2. pc' = [pc EXCEPT ![t] = "global"] \/ pc' = [pc EXCEPT ![t] = "failed"]
    BY <1>5 DEF Refresh, GlobalWaitFails, TargetWaitFails, Fail
  <2>3. QED
    BY <2>1, <2>2, BurstKept
<1>6. ASSUME NEW t \in Targets, Attempt(t) PROVE BurstInv'
  <2>1. UNCHANGED <<burst, global>>
    BY <1>6 DEF Attempt, Respond, Interrupt, AttemptFails, Retry, BackoffInterrupted, tokens, history
  <2>2. \E to \in Unlimited : pc' = [pc EXCEPT ![t] = to]
    <3>1. CASE Respond(t)
      BY <3>1 DEF Respond, Unlimited
    <3>2. CASE Interrupt(t) \/ BackoffInterrupted(t)
      BY <3>2 DEF Interrupt, BackoffInterrupted, Fail, Unlimited
    <3>3. CASE AttemptFails(t)
      BY <3>3 DEF AttemptFails, GetRetryToken, Fail, Unlimited
    <3>4. CASE Retry(t)
      BY <3>4 DEF Retry, Unlimited
    <3>5. QED
      BY <1>6, <3>1, <3>2, <3>3, <3>4 DEF Attempt
  <2>3. QED
    BY <2>1, <2>2, BurstKept DEF Unlimited
<1>7. ASSUME NEW t \in Targets, Collect(t) PROVE BurstInv'
  <2>1. UNCHANGED <<burst, global>>
    BY <1>7 DEF Collect, NextCall, CollectReturns, CollectRejects, CollectFails, CollectAgain,
                PauseInterrupted, tokens, history
  <2>2. \E to \in Unlimited : pc' = [pc EXCEPT ![t] = to]
    <3>1. CASE CollectFails(t)
      BY <3>1 DEF CollectFails, Unlimited
    <3>2. CASE CollectRejects(t)
      BY <3>2 DEF CollectRejects, Fail, Unlimited
    <3>3. QED
      BY <1>7, <3>1, <3>2 DEF Collect, NextCall, CollectReturns, CollectAgain, PauseInterrupted, Unlimited
  <2>3. QED
    BY <2>1, <2>2, BurstKept DEF Unlimited
<1>8. QED
  BY <1>1, <1>2, <1>3, <1>4, <1>5, <1>6, <1>7
     DEF Next, Step, Limited, Cancel, Expire, vars, tokens, history

\* Every step preserves the types and the retries left.
LEMMA NextTypeOK == ASSUME TypeOK, PointInv, [Next]_vars PROVE TypeOK' /\ PointInv'
<1> DEFINE T == TypeOK' /\ PointInv'
<1> USE DEF TypeOK, PointInv, Goto, tokens, history
<1>a. GlobalBurst \in Nat \ {0} /\ TargetBurst \in Nat \ {0} /\ MaxAttempts \in Nat \ {0}
      /\ RunnerAttempts \in Nat \ {0} /\ MaxCalls \in [Targets -> Nat \ {0}]
      /\ 1 \in 1..MaxAttempts /\ 1 \in 1..RunnerAttempts /\ \A t \in Targets : 1 <= MaxCalls[t]
  BY CallsAssumption
<1>b. ASSUME NEW t \in Targets, NEW from, NEW e \in Errors, Fail(t, from, e),
             UNCHANGED <<cancelled, expired, global, bucket, try, call>>,
             hidden' \in [Targets -> BOOLEAN], permanent' \in [Targets -> BOOLEAN], burst' \in Nat
      PROVE  T
  BY <1>a, <1>b DEF Fail
<1>c. \A t \in Targets : ContextError(t) \subseteq Errors
  BY DEF ContextError, Errors, ContextErrors
<1>d. \A t \in Targets, n \in Nat : WaitErrors(t, n) \subseteq Errors
  BY <1>c DEF WaitErrors, Errors, LocalErrors
<1>e. Failures \subseteq Errors
  BY CallsAssumption DEF Errors
<1>1. CASE Cancel
  BY <1>1 DEF Cancel
<1>2. CASE Tick
  <2>1. global' \in 0..GlobalBurst
    BY <1>2, <1>a DEF Tick
  <2>2. bucket' \in [Targets -> 0..TargetBurst]
    BY <1>2, <1>a DEF Tick
  <2>3. burst' \in Nat
    BY <1>2 DEF Tick
  <2>4. QED
    BY <1>2, <2>1, <2>2, <2>3 DEF Tick
<1>3. ASSUME NEW t \in Targets, Expire(t) PROVE T
  BY <1>3 DEF Expire
<1>4. ASSUME NEW t \in Targets, Refresh(t) PROVE T
  BY <1>4 DEF Refresh
<1>5. ASSUME NEW t \in Targets, GlobalWait(t) PROVE T
  BY <1>5, <1>a DEF GlobalWait
<1>6. ASSUME NEW t \in Targets, GlobalWaitFails(t) PROVE T
  BY <1>6, <1>b, <1>d DEF GlobalWaitFails
<1>7. ASSUME NEW t \in Targets, TargetWait(t) PROVE T
  BY <1>7, <1>a DEF TargetWait
<1>8. ASSUME NEW t \in Targets, TargetWaitFails(t) PROVE T
  BY <1>8, <1>b, <1>d DEF TargetWaitFails
<1>9. ASSUME NEW t \in Targets, Respond(t) PROVE T
  BY <1>9, <1>a DEF Respond
<1>10. ASSUME NEW t \in Targets, Interrupt(t) PROVE T
  BY <1>10, <1>b, <1>c DEF Interrupt
<1>11. ASSUME NEW t \in Targets, AttemptFails(t) PROVE T
  <2>1. PICK e \in Failures : \E retryable \in IsErrorRetryable(e) :
          /\ permanent' = [permanent EXCEPT ![t] = e \in Permanent]
          /\ IF retryable /\ AttemptsLeft(t)
             THEN GetRetryToken(t, e)
             ELSE Fail(t, "sent", e) /\ hidden' = [hidden EXCEPT ![t] = @ \/ IsThrottleCode(e)]
    BY <1>11 DEF AttemptFails
  <2>2. UNCHANGED <<cancelled, expired, global, bucket, try, call, burst>>
    BY <1>11 DEF AttemptFails
  <2>3. permanent' \in [Targets -> BOOLEAN] /\ hidden' \in [Targets -> BOOLEAN]
    <3>1. (e \in Permanent) \in BOOLEAN /\ IsThrottleCode(e) \in BOOLEAN
      BY DEF IsThrottleCode
    <3>2. QED
      BY <2>1, <3>1 DEF GetRetryToken
  <2>4. CASE \E from \in {"sent"} : Fail(t, from, e)
    BY <1>b, <1>e, <2>2, <2>3, <2>4
  <2>5. CASE AttemptsLeft(t) /\ Goto(t, "sent", "backoff") /\ UNCHANGED <<attempt, err>>
    BY <2>2, <2>3, <2>5 DEF AttemptsLeft
  <2>6. QED
    BY <2>1, <2>4, <2>5 DEF GetRetryToken
<1>12. ASSUME NEW t \in Targets, Retry(t) PROVE T
  <2>1. attempt[t] + 1 \in 1..MaxAttempts
    BY <1>12, <1>a DEF Retry
  <2>2. QED
    BY <1>12, <2>1 DEF Retry
<1>13. ASSUME NEW t \in Targets, BackoffInterrupted(t) PROVE T
  BY <1>13, <1>b, <1>c DEF BackoffInterrupted
<1>14. ASSUME NEW t \in Targets, NextCall(t) PROVE T
  <2>1. call' \in [Targets -> Nat \ {0}] /\ \A s \in Targets : call'[s] <= MaxCalls[s]
    <3>1. call[t] < MaxCalls[t] /\ call' = [call EXCEPT ![t] = call[t] + 1]
      BY <1>14 DEF NextCall
    <3>2. call[t] \in Nat /\ MaxCalls[t] \in Nat
      BY <1>a
    <3>3. call[t] + 1 \in Nat \ {0} /\ call[t] + 1 <= MaxCalls[t]
      BY <3>1, <3>2
    <3>4. QED
      BY <3>1, <3>3
  <2>2. QED
    BY <1>14, <2>1 DEF NextCall
<1>15. ASSUME NEW t \in Targets, CollectReturns(t) PROVE T
  BY <1>15, <1>a DEF CollectReturns, Left
<1>16. ASSUME NEW t \in Targets, CollectRejects(t) PROVE T
  <2>1. PICK e \in {"badResponse", "identityMismatch", "credentialsChanged"} :
          Fail(t, "answered", e) /\ permanent' = [permanent EXCEPT ![t] = e \in Permanent]
    BY <1>16 DEF CollectRejects
  <2>2. e \in Errors /\ permanent' \in [Targets -> BOOLEAN]
    BY <2>1 DEF Errors, LocalErrors
  <2>3. QED
    BY <1>16, <1>b, <2>1, <2>2 DEF CollectRejects
<1>17. ASSUME NEW t \in Targets, CollectFails(t) PROVE T
  <2>1. /\ UNCHANGED <<cancelled, global, bucket, attempt, burst>>
        /\ call' = [call EXCEPT ![t] = 1] /\ err' = [err EXCEPT ![t] = "none"]
        /\ expired' = [expired EXCEPT ![t] = FALSE]
        /\ hidden' \in [Targets -> BOOLEAN]
    BY <1>17 DEF CollectFails, Left
  <2>2. CASE try[t] < RunnerAttempts /\ Goto(t, "failed", "pause") /\ UNCHANGED <<try, permanent>>
    BY <2>1, <2>2, <1>a
  <2>3. CASE Goto(t, "failed", "idle") /\ try' = [try EXCEPT ![t] = 1]
             /\ permanent' = [permanent EXCEPT ![t] = FALSE]
    BY <2>1, <2>3, <1>a
  <2>4. QED
    BY <1>17, <2>2, <2>3 DEF CollectFails
<1>18. ASSUME NEW t \in Targets, CollectAgain(t) PROVE T
  <2>1. try[t] + 1 \in 1..RunnerAttempts
    BY <1>18, <1>a DEF CollectAgain
  <2>2. QED
    BY <1>18, <2>1 DEF CollectAgain
<1>19. ASSUME NEW t \in Targets, PauseInterrupted(t) PROVE T
  BY <1>19, <1>a DEF PauseInterrupted
<1>20. CASE UNCHANGED vars
  BY <1>20 DEF vars
<1>21. QED
  BY <1>1, <1>2, <1>3, <1>4, <1>5, <1>6, <1>7, <1>8, <1>9, <1>10, <1>11, <1>12, <1>13, <1>14,
     <1>15, <1>16, <1>17, <1>18, <1>19, <1>20
     DEF Next, Step, Limited, Attempt, Collect

\* No error that lasts is retried, neither by the runner ...
LEMMA PermanentGivenUp == \A e \in Permanent : ~Retryable(e)
BY DEF Permanent, Retryable, ClassifyError, IsThrottleCode

\* ... nor by the SDK.
LEMMA PermanentNotResent == \A e \in Permanent \cap AttemptErrors : IsErrorRetryable(e) = {FALSE}
BY DEF Permanent, AttemptErrors, IsErrorRetryable

\* Every step preserves what the histories say of the error under way.
LEMMA NextHistory ==
    ASSUME TypeOK, HiddenInv, PermanentInv, [Next]_vars
    PROVE  HiddenInv' /\ PermanentInv'
<1> DEFINE H == HiddenInv' /\ PermanentInv'
<1> USE DEF TypeOK, HiddenInv, PermanentInv, Goto, tokens, history
<1>1. CASE UNCHANGED <<pc, err, hidden, permanent>>
  BY <1>1
<1>2. ASSUME NEW t \in Targets, NEW to, pc[t] # "failed", pc' = [pc EXCEPT ![t] = to],
             UNCHANGED <<hidden, permanent>>, \A s \in Targets : s # t => err'[s] = err[s]
      PROVE  H
  BY <1>2
<1>3. ASSUME NEW t \in Targets, GlobalWaitFails(t) \/ TargetWaitFails(t) \/ Interrupt(t) \/ BackoffInterrupted(t)
      PROVE  H
  <2>1. pc[t] # "failed" /\ pc' = [pc EXCEPT ![t] = "failed"] /\ UNCHANGED <<hidden, permanent>>
        /\ \A s \in Targets : s # t => err'[s] = err[s]
    BY <1>3 DEF GlobalWaitFails, TargetWaitFails, Interrupt, BackoffInterrupted, Fail
  <2>2. QED
    BY <1>2, <2>1
<1>4. ASSUME NEW t \in Targets,
             Refresh(t) \/ GlobalWait(t) \/ TargetWait(t) \/ Respond(t) \/ Retry(t) \/ NextCall(t)
                \/ CollectReturns(t) \/ CollectAgain(t) \/ PauseInterrupted(t)
      PROVE  H
  <2>1. pc[t] # "failed" /\ (\E to \in Unlimited \cup {"target"} : pc' = [pc EXCEPT ![t] = to])
        /\ UNCHANGED <<hidden, permanent>> /\ \A s \in Targets : s # t => err'[s] = err[s]
    BY <1>4 DEF Refresh, GlobalWait, TargetWait, Respond, Retry, NextCall, CollectReturns, CollectAgain,
                PauseInterrupted, Left, Unlimited
  <2>2. QED
    BY <1>2, <2>1
<1>5. ASSUME NEW t \in Targets, AttemptFails(t) PROVE H
  <2>0. PICK e \in Failures : \E retryable \in IsErrorRetryable(e) :
          /\ permanent' = [permanent EXCEPT ![t] = e \in Permanent]
          /\ IF retryable /\ AttemptsLeft(t)
             THEN GetRetryToken(t, e)
             ELSE Fail(t, "sent", e) /\ hidden' = [hidden EXCEPT ![t] = @ \/ IsThrottleCode(e)]
    BY <1>5 DEF AttemptFails
  <2>1. PICK retryable \in IsErrorRetryable(e) :
          /\ permanent' = [permanent EXCEPT ![t] = e \in Permanent]
          /\ IF retryable /\ AttemptsLeft(t)
             THEN GetRetryToken(t, e)
             ELSE Fail(t, "sent", e) /\ hidden' = [hidden EXCEPT ![t] = @ \/ IsThrottleCode(e)]
    BY <2>0
  <2>2. e \in AttemptErrors
    BY CallsAssumption
  <2>3. CASE Fail(t, "sent", e) /\ hidden' = [hidden EXCEPT ![t] = @ \/ IsThrottleCode(e)]
    <3>1. pc[t] = "sent" /\ pc' = [pc EXCEPT ![t] = "failed"] /\ err' = [err EXCEPT ![t] = e]
      BY <2>3 DEF Fail
    <3>2. ~hidden[t] /\ (hidden'[t] <=> IsThrottleCode(e))
      BY <2>3, <3>1
    <3>3. permanent'[t] <=> e \in Permanent
      BY <2>1
    <3>4. \A s \in Targets : s # t => hidden'[s] = hidden[s] /\ permanent'[s] = permanent[s]
                                    /\ pc'[s] = pc[s] /\ err'[s] = err[s]
      BY <2>1, <2>3, <3>1
    <3>5. pc'[t] = "failed" /\ err'[t] = e
      BY <3>1
    <3>6. QED
      BY <3>2, <3>3, <3>4, <3>5
  <2>4. CASE /\ retryable /\ Goto(t, "sent", "backoff") /\ UNCHANGED <<attempt, err>>
             /\ hidden' = [hidden EXCEPT ![t] = @ \/ (IsThrottleCode(e) /\ RetryReason(e) # "throttle")]
    <3>1. e \notin Permanent
      BY <2>2, <2>4, PermanentNotResent
    <3>2. ~(IsThrottleCode(e) /\ RetryReason(e) # "throttle")
      BY DEF RetryReason, IsThrottleCode
    <3>3. ~hidden[t] /\ ~hidden'[t] /\ ~permanent'[t]
      BY <2>1, <2>4, <3>1, <3>2
    <3>4. \A s \in Targets : s # t => hidden'[s] = hidden[s] /\ permanent'[s] = permanent[s]
                                    /\ pc'[s] = pc[s] /\ err'[s] = err[s]
      BY <2>1, <2>4
    <3>5. QED
      BY <3>3, <3>4
  <2>5. QED
    BY <2>1, <2>3, <2>4 DEF GetRetryToken
<1>6. ASSUME NEW t \in Targets, CollectRejects(t) PROVE H
  <2>1. PICK e \in {"badResponse", "identityMismatch", "credentialsChanged"} :
          Fail(t, "answered", e) /\ permanent' = [permanent EXCEPT ![t] = e \in Permanent]
    BY <1>6 DEF CollectRejects
  <2>2. pc[t] = "answered" /\ pc' = [pc EXCEPT ![t] = "failed"] /\ err' = [err EXCEPT ![t] = e] /\ hidden' = hidden
    BY <1>6, <2>1 DEF CollectRejects, Fail
  <2>3. permanent'[t] <=> e \in Permanent
    BY <2>1
  <2>4. QED
    BY <2>1, <2>2, <2>3
<1>7. ASSUME NEW t \in Targets, CollectFails(t) PROVE H
  <2>1. /\ pc[t] = "failed"
        /\ \A s \in Targets : s # t => hidden'[s] = hidden[s] /\ permanent'[s] = permanent[s]
                                     /\ pc'[s] = pc[s] /\ err'[s] = err[s]
    BY <1>7 DEF CollectFails, Left
  <2>2. ~hidden'[t]
    <3>1. IsThrottleCode(err[t]) => RequestStatus(err[t]) = "throttle"
      BY DEF RequestStatus, IsThrottleCode, ContextErrors
    <3>2. QED
      BY <1>7, <3>1 DEF CollectFails
  <2>3. ~permanent'[t]
    BY <1>7, PermanentGivenUp DEF CollectFails
  <2>4. QED
    BY <2>1, <2>2, <2>3
<1>8. QED
  BY <1>1, <1>3, <1>4, <1>5, <1>6, <1>7
     DEF Next, Step, Limited, Attempt, Collect, Cancel, Tick, Expire, vars

-----------------------------------------------------------------------------
\* The inductive invariant holds in every reachable state.
THEOREM CallsInductive == Spec => []IInv
<1>1. IInv /\ [Next]_vars => IInv'
  BY NextTypeOK, NextBurst, NextHistory DEF IInv
<1>2. QED
  BY InitIInv, <1>1, PTL DEF Spec

\* Every variable keeps its type: in particular a call makes at most MaxAttempts
\* attempts and a refresh at most RunnerAttempts tries.
THEOREM CallsTypeCorrect == Spec => []TypeOK
BY CallsInductive, PTL DEF IInv

\* The rate of the process holds for any number of targets, retries included
\* (instrumentation.go, DualLimiter.Wait and GetAttemptToken).
THEOREM RateHolds == Spec => []BurstBounded
<1>1. IInv => BurstBounded
  BY WaitingFinite, CallsAssumption DEF IInv, TypeOK, BurstInv, BurstBounded
<1>2. QED
  BY CallsInductive, <1>1, PTL

\* Throttling is always visible in a metric (instrumentation.go, GetRetryToken,
\* ObserveCall and RequestStatus).
THEOREM ThrottlingSeen == Spec => []ThrottleVisible
<1>1. IInv => ThrottleVisible
  BY DEF IInv, HiddenInv, ThrottleVisible
<1>2. QED
  BY CallsInductive, <1>1, PTL

\* Errors that last end the refresh (errors.go, ClassifyError; runner.go,
\* collect).
THEOREM PermanentNotRetried == Spec => []PermanentEndsRefresh
<1>1. IInv => PermanentEndsRefresh
  BY DEF IInv, PermanentInv, PermanentEndsRefresh
<1>2. QED
  BY CallsInductive, <1>1, PTL
=============================================================================
