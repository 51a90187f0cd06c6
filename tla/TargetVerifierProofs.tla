------------------------ MODULE TargetVerifierProofs ------------------------
(***************************************************************************)
(* Proofs about TargetVerifier for any number of callers, credentials and  *)
(* calls, and any assignment of credentials to accounts.                   *)
(***************************************************************************)
EXTENDS TargetVerifier, FiniteSetTheorems, TLAPS

\* Callers whose call has made no request yet.
Grounded == {c \in Callers : pc[c] \in {"fingerprint", "lock", "wait"}}

\* What a caller knows at each program point.  Credentials never return to an
\* earlier value: an answer obtained between the fingerprint and a current
\* value equal to it was obtained with that fingerprint's credentials.
PointInv ==
    \A c \in Callers :
       /\ fingerprint[c] <= creds
       /\ pc[c] # "idle" => result[c] = "none"
       /\ pc[c] = "recheck" => \E x \in 1..MaxCreds : fingerprint[c] <= x /\ x <= creds /\ Belongs[x]
       /\ pc[c] = "store" /\ ~err[c] => Belongs[fingerprint[c]]

\* The flight under way belongs to exactly one caller.
FlightInv ==
    /\ \A c, d \in Callers : Flying(c) /\ Flying(d) => c = d
    /\ inFlight # 0 <=> \E c \in Callers : Flying(c)

\* Each call accounts for one flight, made or still to be made.
CallInv == flights + Cardinality(Grounded) <= calls

IInv == TypeOK /\ PointInv /\ VouchesForAccount /\ FlightInv /\ CallInv

-----------------------------------------------------------------------------
\* Callers that have made no request are finitely many.
LEMMA GroundedFinite == IsFiniteSet(Grounded) /\ Cardinality(Grounded) \in Nat
BY VerifierAssumption, FS_Subset, FS_CardinalityType DEF Grounded

\* The initial state satisfies the inductive invariant.
LEMMA InitIInv == Init => IInv
<1> SUFFICES ASSUME Init PROVE IInv
  OBVIOUS
<1>1. TypeOK
  <2>1. creds \in 1..MaxCreds /\ 0 \in 0..MaxCreds /\ 0 \in 0..flights
        /\ flights \in Nat /\ calls \in 0..MaxCalls
    BY VerifierAssumption DEF Init
  <2>2. QED
    BY <2>1 DEF Init, TypeOK, Fingerprints
<1>2. PointInv /\ VouchesForAccount /\ FlightInv
  BY DEF Init, PointInv, VouchesForAccount, FlightInv, Flying
<1>3. CallInv
  <2>1. Grounded = {}
    BY DEF Init, Grounded
  <2>2. QED
    BY <2>1, FS_EmptySet DEF Init, CallInv
<1>4. QED
  BY <1>1, <1>2, <1>3 DEF IInv

\* Every step preserves the types.
LEMMA NextTypeOK == ASSUME TypeOK, [Next]_vars PROVE TypeOK'
<1> USE VerifierAssumption DEF TypeOK, Fingerprints, Goto, Return, cacheVars, flightVars
<1>1. CASE \E c \in Callers : Call(c)
  BY <1>1 DEF Call
<1>2. ASSUME NEW c \in Callers, CredentialFingerprint(c) PROVE TypeOK'
  BY <1>2 DEF CredentialFingerprint
<1>3. ASSUME NEW c \in Callers, FingerprintFails(c) PROVE TypeOK'
  BY <1>3 DEF FingerprintFails
<1>4. ASSUME NEW c \in Callers, AnswerCached(c) PROVE TypeOK'
  BY <1>4 DEF AnswerCached
<1>5. ASSUME NEW c \in Callers, JoinFlight(c) PROVE TypeOK'
  BY <1>5 DEF JoinFlight
<1>6. ASSUME NEW c \in Callers, AnswerSuppressed(c) PROVE TypeOK'
  BY <1>6 DEF AnswerSuppressed
<1>7. ASSUME NEW c \in Callers, StartFlight(c) PROVE TypeOK'
  <2>1. flights' \in Nat /\ 0..flights \subseteq 0..flights' /\ inFlight' \in 0..flights'
    BY <1>7 DEF StartFlight
  <2>2. wait' \in [Callers -> 0..flights']
    BY <1>7, <2>1 DEF StartFlight
  <2>3. QED
    BY <1>7, <2>1, <2>2 DEF StartFlight
<1>8. ASSUME NEW c \in Callers, Awake(c) PROVE TypeOK'
  BY <1>8 DEF Awake
<1>9. ASSUME NEW c \in Callers, StopWaiting(c) PROVE TypeOK'
  BY <1>9 DEF StopWaiting
<1>10. ASSUME NEW c \in Callers, GetCallerIdentity(c) PROVE TypeOK'
  BY <1>10 DEF GetCallerIdentity
<1>11. ASSUME NEW c \in Callers, Recheck(c) PROVE TypeOK'
  BY <1>11 DEF Recheck
<1>12. ASSUME NEW c \in Callers, Store(c) PROVE TypeOK'
  <2> DEFINE answer == IF err[c] THEN "error" ELSE "ok"
  <2>1. answer \in {"none", "ok", "error"}
    OBVIOUS
  <2>2. pc' = [pc EXCEPT ![c] = "idle"] /\ result' = [result EXCEPT ![c] = answer]
        /\ UNCHANGED <<creds, cancelled, fingerprint, wait, err, calls, flights>> /\ inFlight' = 0
    BY <1>12 DEF Store
  <2> HIDE DEF answer
  <2>3. pc' \in [Callers -> {"idle", "fingerprint", "lock", "wait", "identity", "recheck", "store"}]
        /\ result' \in [Callers -> {"none", "ok", "error"}] /\ inFlight' \in 0..flights'
    BY <2>1, <2>2
  <2>4. verified' \in BOOLEAN /\ verifiedFor' \in 0..MaxCreds /\ verifiedLive' \in BOOLEAN
        /\ failedFor' \in 0..MaxCreds /\ failedLive' \in BOOLEAN
    <3>1. CASE err[c]
      BY <1>12, <3>1 DEF Store
    <3>2. CASE ~err[c]
      BY <1>12, <3>2 DEF Store
    <3>3. QED
      BY <3>1, <3>2
  <2>5. QED
    BY <2>2, <2>3, <2>4
<1>13. CASE Rotate \/ Expire \/ Cancel
  <2>1. CASE Rotate
    BY <2>1 DEF Rotate
  <2>2. CASE Expire
    <3>1. verifiedLive' \in BOOLEAN /\ failedLive' \in BOOLEAN
      BY <2>2 DEF Expire
    <3>2. QED
      BY <2>2, <3>1 DEF Expire
  <2>3. CASE Cancel
    BY <2>3 DEF Cancel
  <2>4. QED
    BY <1>13, <2>1, <2>2, <2>3
<1>14. CASE UNCHANGED vars
  BY <1>14 DEF vars
<1>15. QED
  BY <1>1, <1>2, <1>3, <1>4, <1>5, <1>6, <1>7, <1>8, <1>9, <1>10, <1>11, <1>12, <1>13, <1>14
     DEF Next, Step, Quiet

\* How a step of one caller changes the callers that have made no request.
LEMMA GroundedChange ==
    ASSUME NEW c \in Callers, TypeOK, NEW to, pc' = [pc EXCEPT ![c] = to]
    PROVE  /\ to \in {"fingerprint", "lock", "wait"} => Grounded' = Grounded \cup {c}
           /\ to \notin {"fingerprint", "lock", "wait"} => Grounded' = Grounded \ {c}
BY DEF TypeOK, Grounded

\* Every step preserves the accounting of calls and flights.
LEMMA NextCallInv == ASSUME TypeOK, CallInv, [Next]_vars PROVE CallInv'
<1> DEFINE Before == {"fingerprint", "lock", "wait"}
<1>a. flights \in Nat /\ calls \in Nat
  BY VerifierAssumption DEF TypeOK
<1>b. IsFiniteSet(Grounded) /\ Cardinality(Grounded) \in Nat
  BY GroundedFinite
<1>c. Grounded' = Grounded /\ UNCHANGED <<flights, calls>> => CallInv'
  BY DEF CallInv
<1>d. ASSUME NEW c \in Callers, NEW to, pc' = [pc EXCEPT ![c] = to], pc[c] \in Before, to \in Before,
             UNCHANGED <<flights, calls>>
      PROVE  CallInv'
  <2>1. Grounded' = Grounded
    BY <1>d, GroundedChange DEF Grounded
  <2>2. QED
    BY <1>c, <1>d, <2>1
<1>e. ASSUME NEW c \in Callers, NEW to, pc' = [pc EXCEPT ![c] = to], to \notin Before,
             UNCHANGED <<flights, calls>>
      PROVE  CallInv'
  <2>1. Grounded' = Grounded \ {c}
    BY <1>e, GroundedChange
  <2>2. Cardinality(Grounded') <= Cardinality(Grounded) /\ Cardinality(Grounded') \in Nat
    <3>1. IsFiniteSet(Grounded')
      BY <2>1, <1>b, FS_Subset
    <3>2. QED
      BY <2>1, <1>b, <3>1, FS_Subset, FS_CardinalityType
  <2>3. QED
    BY <1>a, <1>b, <1>e, <2>2 DEF CallInv
<1>f. ASSUME NEW c \in Callers, pc[c] \in Before
      PROVE  Cardinality(Grounded \ {c}) = Cardinality(Grounded) - 1
  <2>1. c \in Grounded
    BY <1>f DEF Grounded
  <2>2. QED
    BY <2>1, <1>b, FS_RemoveElement
<1> USE DEF Goto, Return
<1>1. ASSUME NEW c \in Callers, Call(c) PROVE CallInv'
  <2>1. Grounded' = Grounded \cup {c} /\ c \notin Grounded
    BY <1>1, GroundedChange DEF Call, Grounded
  <2>2. Cardinality(Grounded') = Cardinality(Grounded) + 1
    BY <2>1, <1>b, FS_AddElement
  <2>3. QED
    BY <1>1, <1>a, <1>b, <2>2 DEF Call, CallInv, flightVars
<1>2. ASSUME NEW c \in Callers, CredentialFingerprint(c) \/ JoinFlight(c) \/ Awake(c) PROVE CallInv'
  BY <1>2, <1>d DEF CredentialFingerprint, JoinFlight, Awake, flightVars
<1>3. ASSUME NEW c \in Callers, StartFlight(c) PROVE CallInv'
  <2>1. pc[c] = "lock" /\ pc' = [pc EXCEPT ![c] = "identity"] /\ flights' = flights + 1 /\ calls' = calls
    BY <1>3 DEF StartFlight
  <2>2. Grounded' = Grounded \ {c}
    BY <2>1, GroundedChange
  <2>3. Cardinality(Grounded') = Cardinality(Grounded) - 1
    BY <2>1, <2>2, <1>f
  <2>4. QED
    BY <2>1, <2>3, <1>a, <1>b DEF CallInv
<1>4. ASSUME NEW c \in Callers,
             FingerprintFails(c) \/ AnswerCached(c) \/ AnswerSuppressed(c) \/ StopWaiting(c) \/ Store(c)
      PROVE  CallInv'
  <2>1. pc' = [pc EXCEPT ![c] = "idle"] /\ UNCHANGED <<flights, calls>>
    BY <1>4 DEF FingerprintFails, AnswerCached, AnswerSuppressed, StopWaiting, Store, flightVars
  <2>2. QED
    BY <2>1, <1>e
<1>5. ASSUME NEW c \in Callers, GetCallerIdentity(c) \/ Recheck(c) PROVE CallInv'
  BY <1>5, <1>e DEF GetCallerIdentity, Recheck, flightVars
<1>6. CASE Rotate \/ Expire \/ Cancel \/ UNCHANGED vars
  <2>1. UNCHANGED <<pc, flights, calls>>
    BY <1>6 DEF Rotate, Expire, Cancel, vars, flightVars
  <2>2. QED
    BY <2>1, <1>c DEF Grounded
<1>7. QED
  BY <1>1, <1>2, <1>3, <1>4, <1>5, <1>6 DEF Next, Step, Quiet

\* Every step preserves that one caller has the flight.
LEMMA NextFlightInv == ASSUME TypeOK, FlightInv, [Next]_vars PROVE FlightInv'
<1> USE DEF TypeOK, FlightInv, Flying, Goto, Return, flightVars
<1>1. ASSUME NEW c \in Callers, Call(c) PROVE FlightInv'
  BY <1>1 DEF Call
<1>2. ASSUME NEW c \in Callers, CredentialFingerprint(c) \/ FingerprintFails(c) PROVE FlightInv'
  BY <1>2 DEF CredentialFingerprint, FingerprintFails
<1>3. ASSUME NEW c \in Callers, AnswerCached(c) \/ AnswerSuppressed(c) PROVE FlightInv'
  BY <1>3 DEF AnswerCached, AnswerSuppressed
<1>4. ASSUME NEW c \in Callers, JoinFlight(c) PROVE FlightInv'
  BY <1>4 DEF JoinFlight
<1>5. ASSUME NEW c \in Callers, StartFlight(c) PROVE FlightInv'
  BY <1>5 DEF StartFlight
<1>6. ASSUME NEW c \in Callers, Awake(c) \/ StopWaiting(c) PROVE FlightInv'
  BY <1>6 DEF Awake, StopWaiting
<1>7. ASSUME NEW c \in Callers, GetCallerIdentity(c) \/ Recheck(c) PROVE FlightInv'
  BY <1>7 DEF GetCallerIdentity, Recheck
<1>8. ASSUME NEW c \in Callers, Store(c) PROVE FlightInv'
  <2>1. pc[c] = "store" /\ pc' = [pc EXCEPT ![c] = "idle"] /\ inFlight' = 0
    BY <1>8 DEF Store
  <2>2. QED
    BY <2>1
<1>9. CASE Rotate \/ Expire \/ Cancel \/ UNCHANGED vars
  BY <1>9 DEF Rotate, Expire, Cancel, vars
<1>10. QED
  BY <1>1, <1>2, <1>3, <1>4, <1>5, <1>6, <1>7, <1>8, <1>9 DEF Next, Step, Quiet

\* Every step preserves what callers know and what is vouched for.
LEMMA NextVouches ==
    ASSUME TypeOK, PointInv, VouchesForAccount, [Next]_vars
    PROVE  PointInv' /\ VouchesForAccount'
<1> USE DEF TypeOK, Fingerprints, PointInv, VouchesForAccount, Goto, Return, cacheVars, flightVars
<1>1. ASSUME NEW c \in Callers, Call(c) PROVE PointInv' /\ VouchesForAccount'
  BY <1>1 DEF Call
<1>2. ASSUME NEW c \in Callers, CredentialFingerprint(c) PROVE PointInv' /\ VouchesForAccount'
  BY <1>2 DEF CredentialFingerprint
<1>3. ASSUME NEW c \in Callers, FingerprintFails(c) PROVE PointInv' /\ VouchesForAccount'
  BY <1>3 DEF FingerprintFails
<1>4. ASSUME NEW c \in Callers, AnswerCached(c) PROVE PointInv' /\ VouchesForAccount'
  BY <1>4 DEF AnswerCached, Cached
<1>5. ASSUME NEW c \in Callers, JoinFlight(c) PROVE PointInv' /\ VouchesForAccount'
  BY <1>5 DEF JoinFlight
<1>6. ASSUME NEW c \in Callers, AnswerSuppressed(c) PROVE PointInv' /\ VouchesForAccount'
  BY <1>6 DEF AnswerSuppressed
<1>7. ASSUME NEW c \in Callers, StartFlight(c) PROVE PointInv' /\ VouchesForAccount'
  BY <1>7 DEF StartFlight
<1>8. ASSUME NEW c \in Callers, Awake(c) \/ StopWaiting(c) PROVE PointInv' /\ VouchesForAccount'
  BY <1>8 DEF Awake, StopWaiting
<1>9. ASSUME NEW c \in Callers, GetCallerIdentity(c) PROVE PointInv' /\ VouchesForAccount'
  <2>1. CASE Goto(c, "identity", "store") /\ err' = [err EXCEPT ![c] = TRUE]
    BY <1>9, <2>1 DEF GetCallerIdentity
  <2>2. CASE Belongs[creds] /\ Goto(c, "identity", "recheck") /\ UNCHANGED err
    <3>1. \E x \in 1..MaxCreds : fingerprint[c] <= x /\ x <= creds /\ Belongs[x]
      BY <2>2
    <3>2. QED
      BY <1>9, <2>2, <3>1 DEF GetCallerIdentity
  <2>3. QED
    BY <1>9, <2>1, <2>2 DEF GetCallerIdentity
<1>10. ASSUME NEW c \in Callers, Recheck(c) PROVE PointInv' /\ VouchesForAccount'
  <2>1. ~err'[c] => creds = fingerprint[c]
    BY <1>10 DEF Recheck
  <2>2. ~err'[c] => Belongs[fingerprint[c]]
    <3>1. PICK x \in 1..MaxCreds : fingerprint[c] <= x /\ x <= creds /\ Belongs[x]
      BY <1>10 DEF Recheck
    <3>2. creds = fingerprint[c] => x = fingerprint[c]
      BY <3>1
    <3>3. QED
      BY <2>1, <3>1, <3>2
  <2>3. \A d \in Callers : d # c => err'[d] = err[d]
    BY <1>10 DEF Recheck
  <2>4. pc' = [pc EXCEPT ![c] = "store"] /\ pc[c] = "recheck"
        /\ UNCHANGED <<creds, fingerprint, result, verified, verifiedFor>>
    BY <1>10 DEF Recheck
  <2>5. QED
    BY <2>2, <2>3, <2>4
<1>11. ASSUME NEW c \in Callers, Store(c) PROVE PointInv' /\ VouchesForAccount'
  <2>1. pc[c] = "store" /\ pc' = [pc EXCEPT ![c] = "idle"] /\ UNCHANGED <<creds, fingerprint, err>>
        /\ \A d \in Callers : d # c => result'[d] = result[d]
    BY <1>11 DEF Store
  <2>2. result'[c] = "ok" => ~err[c]
    BY <1>11 DEF Store
  <2>3. verified' => Belongs[verifiedFor']
    <3>1. CASE err[c]
      BY <1>11, <3>1 DEF Store
    <3>2. CASE ~err[c]
      BY <1>11, <3>2 DEF Store
    <3>3. QED
      BY <3>1, <3>2
  <2>4. QED
    BY <2>1, <2>2, <2>3
<1>12. CASE Rotate
  <2>1. creds' = creds + 1
    BY <1>12 DEF Rotate
  <2>2. QED
    BY <1>12, <2>1 DEF Rotate
<1>13. CASE Expire \/ Cancel \/ UNCHANGED vars
  BY <1>13 DEF Expire, Cancel, vars
<1>14. QED
  BY <1>1, <1>2, <1>3, <1>4, <1>5, <1>6, <1>7, <1>8, <1>9, <1>10, <1>11, <1>12, <1>13
     DEF Next, Step, Quiet

-----------------------------------------------------------------------------
\* The inductive invariant holds in every reachable state of the verifier.
THEOREM VerifierInductive == Spec => []IInv
<1>1. IInv /\ [Next]_vars => IInv'
  BY NextTypeOK, NextVouches, NextFlightInv, NextCallInv DEF IInv
<1>2. QED
  BY InitIInv, <1>1, PTL DEF Spec

\* Every variable keeps its type, in particular the shared wait channel.
THEOREM VerifierTypeCorrect == Spec => []TypeOK
BY VerifierInductive, PTL DEF IInv

\* Nothing is vouched for but credentials of the configured account, however
\* many callers and rotations there are (factory.go, Verify and verify).
THEOREM OnlyAccountVouched == Spec => []VouchesForAccount
BY VerifierInductive, PTL DEF IInv

\* Requests are shared: one at a time, at most one for each call (factory.go,
\* inFlight and the loop of Verify).
THEOREM FlightsShared == Spec => []OneFlight
<1>1. IInv => OneFlight
  <2> SUFFICES ASSUME IInv PROVE OneFlight
    OBVIOUS
  <2>1. flights <= calls
    BY GroundedFinite, VerifierAssumption DEF IInv, TypeOK, CallInv
  <2>2. QED
    BY <2>1 DEF IInv, FlightInv, OneFlight
<1>2. QED
  BY VerifierInductive, <1>1, PTL
=============================================================================
