--------------------------- MODULE TargetVerifier ---------------------------
(***************************************************************************)
(* The identity check before every collection: targetVerifier of           *)
(* internal/aws/clientfactory/factory.go.  Concurrent calls of Verify of   *)
(* one target share one GetCallerIdentity request; its outcome is cached   *)
(* for the fingerprint of the credentials it was obtained with, while the  *)
(* credentials may rotate at any moment.                                   *)
(*                                                                         *)
(* Credentials are numbered in the order they are issued and never return  *)
(* to an earlier value; a fingerprint identifies them.  The two time-to-   *)
(* live limits are positive (ForTarget); they elapse at any moment.        *)
(***************************************************************************)
EXTENDS Naturals, FiniteSets

CONSTANTS
    Callers,    \* collectors of the target, each with one call under way
    MaxCreds,   \* bound on the credentials issued
    Belongs,    \* whether credentials belong to the configured account
    MaxCalls    \* bound on the calls of Verify

ASSUME VerifierAssumption ==
    /\ IsFiniteSet(Callers)
    /\ MaxCreds \in Nat \ {0} /\ MaxCalls \in Nat
    /\ Belongs \in [1..MaxCreds -> BOOLEAN]

VARIABLES
    creds,      \* what the credentials provider returns now
    cancelled,  \* the callers' context is done
    verified, verifiedFor,   \* the cached success and its fingerprint ...
    verifiedLive,            \* ... and whether verifiedUntil is still ahead
    failedFor, failedLive,   \* the same of lastErr and retryAfter; 0: no error
    inFlight,   \* the number of the wait channel, 0 for nil
    flights,    \* how many wait channels have been made
    pc, fingerprint, wait,   \* each caller: where it is and its locals
    err,        \* what verify returned to it
    result,     \* what its last call returned
    calls       \* how many calls have been made

cacheVars  == <<verified, verifiedFor, verifiedLive, failedFor, failedLive>>
flightVars == <<inFlight, flights>>
vars == <<creds, cancelled, cacheVars, flightVars, pc, fingerprint, wait, err, result, calls>>

Init ==
    /\ creds = 1 /\ cancelled = FALSE
    /\ verified = FALSE /\ verifiedFor = 0 /\ verifiedLive = FALSE
    /\ failedFor = 0 /\ failedLive = FALSE
    /\ inFlight = 0 /\ flights = 0
    /\ pc = [c \in Callers |-> "idle"]
    /\ fingerprint = [c \in Callers |-> 0]
    /\ wait = [c \in Callers |-> 0]
    /\ err = [c \in Callers |-> FALSE]
    /\ result = [c \in Callers |-> "none"]
    /\ calls = 0

Goto(c, from, to) ==
    /\ pc[c] = from
    /\ pc' = [pc EXCEPT ![c] = to]

Return(c, from, answer) ==
    /\ Goto(c, from, "idle")
    /\ result' = [result EXCEPT ![c] = answer]
    /\ UNCHANGED <<creds, cancelled, fingerprint, wait, err, calls>>

Call(c) ==
    /\ calls < MaxCalls
    /\ Goto(c, "idle", "fingerprint")
    /\ calls' = calls + 1
    /\ result' = [result EXCEPT ![c] = "none"]
    /\ UNCHANGED <<creds, cancelled, cacheVars, flightVars, fingerprint, wait, err>>

\* credentialFingerprint, which fails when no credentials can be retrieved.
CredentialFingerprint(c) ==
    /\ Goto(c, "fingerprint", "lock")
    /\ fingerprint' = [fingerprint EXCEPT ![c] = creds]
    /\ UNCHANGED <<creds, cancelled, cacheVars, flightVars, wait, err, result, calls>>

FingerprintFails(c) ==
    /\ Return(c, "fingerprint", "error")
    /\ UNCHANGED <<cacheVars, flightVars>>

-----------------------------------------------------------------------------
(* The critical section of Verify. *)

Cached(c) == verified /\ verifiedFor = fingerprint[c] /\ verifiedLive

AnswerCached(c) ==
    /\ Cached(c)
    /\ Return(c, "lock", "ok")
    /\ UNCHANGED <<cacheVars, flightVars>>

\* A verification is under way: wait for its channel.
JoinFlight(c) ==
    /\ ~Cached(c) /\ inFlight # 0
    /\ Goto(c, "lock", "wait")
    /\ verified' = FALSE
    /\ wait' = [wait EXCEPT ![c] = inFlight]
    /\ UNCHANGED <<creds, cancelled, verifiedFor, verifiedLive, failedFor, failedLive,
                   flightVars, fingerprint, err, result, calls>>

Suppressed(c) == failedFor = fingerprint[c] /\ failedLive

\* The last failure of these credentials is recent: its error is returned.
AnswerSuppressed(c) ==
    /\ ~Cached(c) /\ inFlight = 0 /\ Suppressed(c)
    /\ Return(c, "lock", "error")
    /\ verified' = FALSE
    /\ UNCHANGED <<verifiedFor, verifiedLive, failedFor, failedLive, flightVars>>

\* Mutant of StartFlight: the wait channel of others is overwritten.
StartFlightAnyway(c) ==
    /\ ~Cached(c) /\ ~Suppressed(c)
    /\ Goto(c, "lock", "identity")
    /\ verified' = FALSE
    /\ flights' = flights + 1 /\ inFlight' = flights'
    /\ UNCHANGED <<creds, cancelled, verifiedFor, verifiedLive, failedFor, failedLive,
                   fingerprint, wait, err, result, calls>>

StartFlight(c) ==
    /\ ~Cached(c) /\ inFlight = 0 /\ ~Suppressed(c)
    /\ Goto(c, "lock", "identity")
    /\ verified' = FALSE
    /\ flights' = flights + 1 /\ inFlight' = flights'
    /\ UNCHANGED <<creds, cancelled, verifiedFor, verifiedLive, failedFor, failedLive,
                   fingerprint, wait, err, result, calls>>

\* The awaited channel is closed: start over with a new fingerprint.
Awake(c) ==
    /\ wait[c] # inFlight
    /\ Goto(c, "wait", "fingerprint")
    /\ UNCHANGED <<creds, cancelled, cacheVars, flightVars, fingerprint, wait, err, result, calls>>

StopWaiting(c) ==
    /\ cancelled
    /\ Return(c, "wait", "error")
    /\ UNCHANGED <<cacheVars, flightVars>>

-----------------------------------------------------------------------------
(* verify, outside the lock. *)

\* GetCallerIdentity fails, or answers for the credentials of this moment.
GetCallerIdentity(c) ==
    /\ \/ Goto(c, "identity", "store") /\ err' = [err EXCEPT ![c] = TRUE]
       \/ Belongs[creds] /\ Goto(c, "identity", "recheck") /\ UNCHANGED err
    /\ UNCHANGED <<creds, cancelled, cacheVars, flightVars, fingerprint, wait, result, calls>>

\* Mutant of Recheck: the credentials are not compared again.
RecheckNothing(c) ==
    /\ Goto(c, "recheck", "store")
    /\ err' = [err EXCEPT ![c] = FALSE]
    /\ UNCHANGED <<creds, cancelled, cacheVars, flightVars, fingerprint, wait, result, calls>>

\* The credentials are fingerprinted again: they changed, or cannot be
\* retrieved, and the answer is discarded; or it was obtained with them.
Recheck(c) ==
    /\ Goto(c, "recheck", "store")
    /\ \E failed \in BOOLEAN : err' = [err EXCEPT ![c] = failed \/ creds # fingerprint[c]]
    /\ UNCHANGED <<creds, cancelled, cacheVars, flightVars, fingerprint, wait, result, calls>>

\* Mutant of Store: an error leaves the wait channel open.
StoreLeavingOpen(c) ==
    /\ Return(c, "store", IF err[c] THEN "error" ELSE "ok")
    /\ IF err[c]
       THEN /\ failedFor' = fingerprint[c] /\ failedLive' = TRUE
            /\ UNCHANGED <<verified, verifiedFor, verifiedLive, inFlight>>
       ELSE /\ verified' = TRUE /\ verifiedFor' = fingerprint[c] /\ verifiedLive' = TRUE
            /\ failedFor' = 0 /\ inFlight' = 0
            /\ UNCHANGED failedLive
    /\ UNCHANGED flights

\* The second critical section caches the outcome and closes the channel.
Store(c) ==
    /\ Return(c, "store", IF err[c] THEN "error" ELSE "ok")
    /\ IF err[c]
       THEN /\ failedFor' = fingerprint[c] /\ failedLive' = TRUE
            /\ UNCHANGED <<verified, verifiedFor, verifiedLive>>
       ELSE /\ verified' = TRUE /\ verifiedFor' = fingerprint[c] /\ verifiedLive' = TRUE
            /\ failedFor' = 0
            /\ UNCHANGED failedLive
    /\ inFlight' = 0
    /\ UNCHANGED flights

-----------------------------------------------------------------------------
(* The environment. *)

Rotate ==
    /\ creds < MaxCreds
    /\ creds' = creds + 1
    /\ UNCHANGED <<cancelled, cacheVars, flightVars, pc, fingerprint, wait, err, result, calls>>

\* successTTL or failureTTL elapses.
Expire ==
    /\ \/ verifiedLive /\ verifiedLive' = FALSE /\ UNCHANGED failedLive
       \/ failedLive /\ failedLive' = FALSE /\ UNCHANGED verifiedLive
    /\ UNCHANGED <<creds, cancelled, verified, verifiedFor, failedFor, flightVars,
                   pc, fingerprint, wait, err, result, calls>>

Cancel ==
    /\ ~cancelled
    /\ cancelled' = TRUE
    /\ UNCHANGED <<creds, cacheVars, flightVars, pc, fingerprint, wait, err, result, calls>>

Step(c) ==
    \/ CredentialFingerprint(c) \/ FingerprintFails(c)
    \/ AnswerCached(c) \/ JoinFlight(c) \/ AnswerSuppressed(c) \/ StartFlight(c)
    \/ Awake(c) \/ StopWaiting(c)
    \/ GetCallerIdentity(c) \/ Recheck(c) \/ Store(c)

\* All calls made have returned, and nothing is left to happen.
Quiet ==
    /\ calls = MaxCalls /\ creds = MaxCreds /\ cancelled
    /\ \A c \in Callers : pc[c] = "idle"
    /\ ~verifiedLive /\ ~failedLive
    /\ UNCHANGED vars

Next ==
    \/ \E c \in Callers : Call(c) \/ Step(c)
    \/ Rotate \/ Expire \/ Cancel \/ Quiet

Spec == Init /\ [][Next]_vars

\* Requests and credential retrievals return: every caller keeps going.
FairSpec == Spec /\ \A c \in Callers : WF_vars(Step(c))

-----------------------------------------------------------------------------
(* Properties. *)

Fingerprints == 0..MaxCreds

Flying(c) == pc[c] \in {"identity", "recheck", "store"}

\* Every variable has its type.
TypeOK ==
    /\ creds \in 1..MaxCreds /\ cancelled \in BOOLEAN
    /\ verified \in BOOLEAN /\ verifiedFor \in Fingerprints /\ verifiedLive \in BOOLEAN
    /\ failedFor \in Fingerprints /\ failedLive \in BOOLEAN
    /\ flights \in Nat /\ inFlight \in 0..flights
    /\ pc \in [Callers -> {"idle", "fingerprint", "lock", "wait", "identity", "recheck", "store"}]
    /\ fingerprint \in [Callers -> Fingerprints]
    /\ wait \in [Callers -> 0..flights]
    /\ err \in [Callers -> BOOLEAN]
    /\ result \in [Callers -> {"none", "ok", "error"}]
    /\ calls \in 0..MaxCalls

\* Nothing is ever vouched for but credentials of the configured account: not
\* by the cache, and not to a caller, even when the credentials rotate between
\* the fingerprint, the request and its answer (factory.go, Verify and verify).
VouchesForAccount ==
    /\ verified => Belongs[verifiedFor]
    /\ \A c \in Callers : result[c] = "ok" => Belongs[fingerprint[c]]

\* At most one request is under way, while the channel is set somebody will close
\* it, and a call makes at most one request however often it starts over, also
\* when a caller with outdated credentials resets verified (factory.go, inFlight
\* and the loop of Verify).
OneFlight ==
    /\ flights <= calls
    /\ \A c, d \in Callers : Flying(c) /\ Flying(d) => c = d
    /\ inFlight # 0 <=> \E c \in Callers : Flying(c)

\* Every call returns: no waiter misses the close of its channel or goes round
\* for ever (factory.go, the loop of Verify).
VerifyReturns == \A c \in Callers : pc[c] # "idle" ~> pc[c] = "idle"
=============================================================================
