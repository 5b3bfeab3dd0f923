------------------------ MODULE GatewayEngine_proofs ------------------------
(***************************************************************************)
(* Theorems about GatewayEngine, for any number of requests and backends   *)
(* and any thresholds.                                                     *)
(***************************************************************************)
EXTENDS GatewayEngine, FiniteSetTheorems, TLAPS

LEMMA OneFewer ==
    ASSUME NEW S, IsFiniteSet(S), NEW x \in S
    PROVE  Cardinality(S \ {x}) = Cardinality(S) - 1
BY FS_RemoveElement

USE BackendAssumption, BreakerAssumption, BalancerAssumption,
    HealthAssumption, EngineAssumption

\* A request has a target from its selection to the drop of its guard.
TargetOK ==
    \A r \in Requests : pc[r] \notin {"idle", "filter", "select"} => backend[r] \in Backends

\* The rest of TypeOK, for the local state of the requests.
RequestTypeOK ==
    /\ pc \in [Requests -> Steps]
    /\ todo \in [Requests -> SUBSET Backends]
    /\ available \in [Requests -> SUBSET Backends]
    /\ backend \in [Requests -> Backends \union {Unselected}]
    /\ tried \in [Requests -> 0..1]
    /\ attempt \in [Requests -> 0..MaxRetries]
    /\ resp \in [Requests -> {"none", "ok", "5xx", "error"}]
    /\ failedOn \in [Requests -> SUBSET Backends]

-----------------------------------------------------------------------------
(* The operations of the parts preserve the types of the parts.            *)

LEMMA BreakerTypes ==
    ASSUME BreakerTypeOK, NEW b \in Backends,
           \/ Admit(b) \/ Reject(b) \/ RecordSuccess(b) \/ RecordFailure(b)
           \/ Elapse \/ UNCHANGED breaker
    PROVE  BreakerTypeOK'
<1> USE DEF BreakerTypeOK, BreakerEntry, BreakerStates, Rejects
<1>1. CASE Admit(b)          BY <1>1 DEF Admit
<1>2. CASE Reject(b)         BY <1>2 DEF Reject
<1>3. CASE RecordSuccess(b)  BY <1>3 DEF RecordSuccess
<1>4. CASE RecordFailure(b)  BY <1>4 DEF RecordFailure
<1>5. CASE Elapse            BY <1>5 DEF Elapse
<1>6. CASE UNCHANGED breaker BY <1>6
<1> QED BY <1>1, <1>2, <1>3, <1>4, <1>5, <1>6

LEMMA BalancerTypes ==
    ASSUME BalancerTypeOK, NEW b \in Backends, NEW pool \in SUBSET Backends,
           \/ SelectBackend(pool, b) \/ AcquireSlot(b) \/ ReleaseSlot(b)
           \/ UNCHANGED balancerVars
    PROVE  BalancerTypeOK'
<1> USE DEF BalancerTypeOK, balancerVars
<1>1. CASE SelectBackend(pool, b)
  <2>1. (counter + 1) % CounterModulus \in 0..(CounterModulus - 1)
    BY DEF BalancerAssumption
  <2> QED BY <1>1, <2>1 DEF SelectBackend
<1>2. CASE AcquireSlot(b)         BY <1>2 DEF AcquireSlot
<1>3. CASE ReleaseSlot(b)         BY <1>3 DEF ReleaseSlot
<1>4. CASE UNCHANGED balancerVars BY <1>4
<1> QED BY <1>1, <1>2, <1>3, <1>4

LEMMA HealthTypes ==
    ASSUME HealthTypeOK, NEW b \in Backends,
           \/ ProbeReturns(b) \/ ProbeResetsCounter(b) \/ ResetCounter(b)
           \/ RestoreStatus(b) \/ CountFailure(b) \/ UNCHANGED healthVars
    PROVE  HealthTypeOK'
<1> USE DEF HealthTypeOK, HealthStatus, healthVars
<1>1. CASE ProbeReturns(b)       BY <1>1 DEF ProbeReturns
<1>2. CASE ProbeResetsCounter(b) BY <1>2 DEF ProbeResetsCounter
<1>3. CASE ResetCounter(b)       BY <1>3 DEF ResetCounter
<1>4. CASE RestoreStatus(b)      BY <1>4 DEF RestoreStatus
<1>5. CASE CountFailure(b)       BY <1>5 DEF CountFailure
<1>6. CASE UNCHANGED healthVars  BY <1>6
<1> QED BY <1>1, <1>2, <1>3, <1>4, <1>5, <1>6

-----------------------------------------------------------------------------
(* What a step of the system is to each of its parts.                      *)

LEMMA StepOfBreaker ==
    ASSUME TargetOK, [Next]_vars
    PROVE  \/ \E b \in Backends : Admit(b) \/ RecordSuccess(b) \/ RecordFailure(b)
           \/ Elapse
           \/ UNCHANGED breaker
<1>1. CASE UNCHANGED vars BY <1>1 DEF vars
<1>2. CASE Clock          BY <1>2 DEF Clock
<1>3. CASE Probe          BY <1>3 DEF Probe
<1>4. ASSUME NEW r \in Requests, Begin(r) \/ Cancel(r) PROVE UNCHANGED breaker
  BY <1>4 DEF Begin, Cancel
<1>5. ASSUME NEW r \in Requests, KeepAvailable(r) PROVE \E b \in Backends : Admit(b)
  BY <1>5 DEF KeepAvailable
<1>6. ASSUME NEW r \in Requests, SkipOpen(r) PROVE UNCHANGED breaker
  BY <1>6 DEF SkipOpen, Reject
<1>7. ASSUME NEW r \in Requests, RecordBreaker(r)
      PROVE  \E b \in Backends : RecordSuccess(b) \/ RecordFailure(b)
  <2>1. backend[r] \in Backends BY <1>7 DEF RecordBreaker, TargetOK
  <2> QED BY <1>7, <2>1 DEF RecordBreaker
<1>8. ASSUME NEW r \in Requests,
             \/ Select(r) \/ Acquire(r) \/ Retry(r) \/ Forwarded(r)
             \/ RecordHealthSuccess(r) \/ RestoreHealth(r) \/ RecordHealthFailure(r)
             \/ Answer(r) \/ TryAgain(r)
      PROVE  UNCHANGED breaker
  BY <1>8 DEF Select, Acquire, Retry, Forwarded, RecordHealthSuccess,
              RestoreHealth, RecordHealthFailure, Answer, TryAgain
<1> QED BY <1>1, <1>2, <1>3, <1>4, <1>5, <1>6, <1>7, <1>8 DEF Next, Run

LEMMA StepOfBalancer ==
    ASSUME RequestTypeOK, TargetOK, [Next]_vars
    PROVE  \/ \E b \in Backends : \/ AcquireSlot(b) \/ ReleaseSlot(b)
                                  \/ \E pool \in SUBSET Backends : SelectBackend(pool, b)
           \/ UNCHANGED balancerVars
<1>1. CASE UNCHANGED vars BY <1>1 DEF vars
<1>2. CASE Clock          BY <1>2 DEF Clock
<1>3. CASE Probe          BY <1>3 DEF Probe
<1>4. ASSUME NEW r \in Requests, Select(r)
      PROVE  \E b \in Backends : \E pool \in SUBSET Backends : SelectBackend(pool, b)
  <2>1. available[r] \in SUBSET Backends BY DEF RequestTypeOK
  <2> QED BY <1>4, <2>1 DEF Select
<1>5. ASSUME NEW r \in Requests, Acquire(r) PROVE \E b \in Backends : AcquireSlot(b)
  <2>1. backend[r] \in Backends BY <1>5 DEF Acquire, TargetOK
  <2> QED BY <1>5, <2>1 DEF Acquire
<1>6. ASSUME NEW r \in Requests, Cancel(r) \/ Answer(r) \/ TryAgain(r)
      PROVE  \E b \in Backends : ReleaseSlot(b)
  <2>1. backend[r] \in Backends BY <1>6 DEF Cancel, Answer, TryAgain, TargetOK
  <2> QED BY <1>6, <2>1 DEF Cancel, Answer, TryAgain
<1>7. ASSUME NEW r \in Requests,
             \/ Begin(r) \/ KeepAvailable(r) \/ SkipOpen(r) \/ Retry(r) \/ Forwarded(r)
             \/ RecordBreaker(r) \/ RecordHealthSuccess(r) \/ RestoreHealth(r)
             \/ RecordHealthFailure(r)
      PROVE  UNCHANGED balancerVars
  BY <1>7 DEF Begin, KeepAvailable, SkipOpen, Retry, Forwarded, RecordBreaker,
              RecordHealthSuccess, RestoreHealth, RecordHealthFailure
<1> QED BY <1>1, <1>2, <1>3, <1>4, <1>5, <1>6, <1>7 DEF Next, Run

LEMMA StepOfHealth ==
    ASSUME TargetOK, [Next]_vars
    PROVE  \/ \E b \in Backends : \/ ProbeReturns(b) \/ ProbeResetsCounter(b)
                                  \/ ResetCounter(b) \/ RestoreStatus(b) \/ CountFailure(b)
           \/ UNCHANGED healthVars
<1>1. CASE UNCHANGED vars BY <1>1 DEF vars
<1>2. CASE Clock          BY <1>2 DEF Clock
<1>3. CASE Probe          BY <1>3 DEF Probe
<1>4. ASSUME NEW r \in Requests,
             RecordHealthSuccess(r) \/ RestoreHealth(r) \/ RecordHealthFailure(r)
      PROVE  \E b \in Backends : ResetCounter(b) \/ RestoreStatus(b) \/ CountFailure(b)
  <2>1. backend[r] \in Backends
    BY <1>4 DEF RecordHealthSuccess, RestoreHealth, RecordHealthFailure, TargetOK
  <2> QED BY <1>4, <2>1 DEF RecordHealthSuccess, RestoreHealth, RecordHealthFailure
<1>5. ASSUME NEW r \in Requests,
             \/ Begin(r) \/ KeepAvailable(r) \/ SkipOpen(r) \/ Select(r) \/ Acquire(r)
             \/ Retry(r) \/ Forwarded(r) \/ Cancel(r) \/ RecordBreaker(r)
             \/ Answer(r) \/ TryAgain(r)
      PROVE  UNCHANGED healthVars
  BY <1>5 DEF Begin, KeepAvailable, SkipOpen, Select, Acquire, Retry, Forwarded,
              Cancel, RecordBreaker, Answer, TryAgain
<1> QED BY <1>1, <1>2, <1>3, <1>4, <1>5 DEF Next, Run

-----------------------------------------------------------------------------
(* Types.                                                                  *)

LEMMA RequestTypes ==
    ASSUME RequestTypeOK, TargetOK, [Next]_vars
    PROVE  RequestTypeOK' /\ TargetOK'
<1> USE DEF RequestTypeOK, TargetOK, Steps, Goto
<1>1. CASE UNCHANGED vars BY <1>1 DEF vars, requestVars
<1>2. CASE Clock          BY <1>2 DEF Clock, requestVars
<1>3. CASE Probe          BY <1>3 DEF Probe, requestVars
<1>4. ASSUME NEW r \in Requests, Return(r) PROVE RequestTypeOK' /\ TargetOK'
  BY <1>4 DEF Return
<1>5. ASSUME NEW r \in Requests, Begin(r) PROVE RequestTypeOK' /\ TargetOK'
  BY <1>5 DEF Begin, EngineAssumption
<1>6. ASSUME NEW r \in Requests, KeepAvailable(r) PROVE RequestTypeOK' /\ TargetOK'
  BY <1>6 DEF KeepAvailable
<1>7. ASSUME NEW r \in Requests, SkipOpen(r) PROVE RequestTypeOK' /\ TargetOK'
  BY <1>4, <1>7 DEF SkipOpen
<1>8. ASSUME NEW r \in Requests, Select(r) PROVE RequestTypeOK' /\ TargetOK'
  BY <1>8 DEF Select
<1>9. ASSUME NEW r \in Requests, Acquire(r) PROVE RequestTypeOK' /\ TargetOK'
  BY <1>9 DEF Acquire, EngineAssumption
<1>10. ASSUME NEW r \in Requests, Retry(r) PROVE RequestTypeOK' /\ TargetOK'
  BY <1>10 DEF Retry, EngineAssumption
<1>11. ASSUME NEW r \in Requests, Forwarded(r) PROVE RequestTypeOK' /\ TargetOK'
  BY <1>11 DEF Forwarded
<1>12. ASSUME NEW r \in Requests, Cancel(r) \/ Answer(r) PROVE RequestTypeOK' /\ TargetOK'
  BY <1>4, <1>12 DEF Cancel, Answer
<1>13. ASSUME NEW r \in Requests, RecordBreaker(r) PROVE RequestTypeOK' /\ TargetOK'
  BY <1>13 DEF RecordBreaker
<1>14. ASSUME NEW r \in Requests, RecordHealthSuccess(r) PROVE RequestTypeOK' /\ TargetOK'
  BY <1>14 DEF RecordHealthSuccess
<1>15. ASSUME NEW r \in Requests, RestoreHealth(r) PROVE RequestTypeOK' /\ TargetOK'
  BY <1>15 DEF RestoreHealth
<1>16. ASSUME NEW r \in Requests, RecordHealthFailure(r) PROVE RequestTypeOK' /\ TargetOK'
  BY <1>16 DEF RecordHealthFailure
<1>17. ASSUME NEW r \in Requests, TryAgain(r) PROVE RequestTypeOK' /\ TargetOK'
  BY <1>17 DEF TryAgain
<1> QED BY <1>1, <1>2, <1>3, <1>5, <1>6, <1>7, <1>8, <1>9, <1>10, <1>11, <1>12,
           <1>13, <1>14, <1>15, <1>16, <1>17 DEF Next, Run

\* TypeOK does not survive a step by itself: an operation on backend[r]
\* keeps the types of the parts only if there is a backend to operate on.
TypeInv == TypeOK /\ TargetOK

LEMMA TypeInvariant == Spec => []TypeInv
<1>1. Init => TypeInv
  <2> SUFFICES ASSUME Init PROVE TypeInv OBVIOUS
  <2>1. BreakerTypeOK
    BY DEF Init, BreakerInit, BreakerTypeOK, BreakerEntry, BreakerStates, BreakerAssumption
  <2>2. BalancerTypeOK BY DEF Init, BalancerInit, BalancerTypeOK, BalancerAssumption
  <2>3. HealthTypeOK
    BY DEF Init, HealthInit, HealthTypeOK, HealthStatus, HealthAssumption
  <2>4. RequestTypeOK BY DEF Init, RequestTypeOK, Steps, EngineAssumption
  <2>5. TargetOK BY DEF Init, TargetOK
  <2> QED BY <2>1, <2>2, <2>3, <2>4, <2>5 DEF TypeInv, TypeOK, RequestTypeOK
<1>2. TypeInv /\ [Next]_vars => TypeInv'
  <2> SUFFICES ASSUME TypeInv, [Next]_vars PROVE TypeInv' OBVIOUS
  <2>1. BreakerTypeOK /\ BalancerTypeOK /\ HealthTypeOK /\ RequestTypeOK /\ TargetOK
    BY DEF TypeInv, TypeOK, RequestTypeOK
  <2>2. BreakerTypeOK'
    <3>1. CASE UNCHANGED breaker BY <2>1, <3>1 DEF BreakerTypeOK
    <3>2. CASE Elapse
      <4>1. PICK b \in Backends : Rejects(b) BY <3>2 DEF Elapse
      <4> QED BY <2>1, <3>2, <4>1, BreakerTypes
    <3> QED BY <2>1, <3>1, <3>2, StepOfBreaker, BreakerTypes
  <2>3. BalancerTypeOK'
    <3>1. CASE UNCHANGED balancerVars BY <2>1, <3>1 DEF BalancerTypeOK, balancerVars
    <3> QED BY <2>1, <3>1, StepOfBalancer, BalancerTypes
  <2>4. HealthTypeOK'
    <3>1. CASE UNCHANGED healthVars BY <2>1, <3>1 DEF HealthTypeOK, healthVars
    <3> QED BY <2>1, <3>1, StepOfHealth, HealthTypes
  <2>5. RequestTypeOK' /\ TargetOK' BY <2>1, RequestTypes
  <2> QED BY <2>2, <2>3, <2>4, <2>5 DEF TypeInv, TypeOK, RequestTypeOK
<1> QED BY <1>1, <1>2, PTL DEF Spec

\* Every variable of the engine and its parts keeps its type, whatever the
\* threads, the upstream servers and the clients do.
THEOREM TypeCorrect == Spec => []TypeOK
<1>1. TypeInv => TypeOK BY DEF TypeInv
<1> QED BY <1>1, TypeInvariant, PTL

-----------------------------------------------------------------------------
(* The circuit breaker.                                                    *)

\* An entry is closed exactly while it is below the threshold, in every
\* interleaving of the requests that admit, record and reject.
LEMMA BreakerConsistentStep ==
    ASSUME BreakerTypeOK, BreakerConsistent, TargetOK, [Next]_vars
    PROVE  BreakerConsistent'
<1> USE DEF BreakerTypeOK, BreakerEntry, BreakerStates, BreakerConsistent
<1>1. ASSUME NEW b \in Backends, Admit(b) PROVE BreakerConsistent'
  BY <1>1 DEF Admit
<1>2. ASSUME NEW b \in Backends, RecordSuccess(b) PROVE BreakerConsistent'
  BY <1>2 DEF RecordSuccess, BreakerAssumption
<1>3. ASSUME NEW b \in Backends, RecordFailure(b) PROVE BreakerConsistent'
  BY <1>3 DEF RecordFailure, BreakerAssumption
<1>4. CASE Elapse            BY <1>4 DEF Elapse, Rejects
<1>5. CASE UNCHANGED breaker BY <1>5
<1> QED BY <1>1, <1>2, <1>3, <1>4, <1>5, StepOfBreaker

\* An entry of the breaker is closed exactly while its failures in a row are
\* below the threshold, however the requests interleave their records.
THEOREM BreakerIsConsistent == Spec => []BreakerConsistent
<1>1. Init => BreakerConsistent
  BY DEF Init, BreakerInit, BreakerConsistent, BreakerAssumption
<1>2. TypeInv /\ BreakerConsistent /\ [Next]_vars => BreakerConsistent'
  BY BreakerConsistentStep DEF TypeInv, TypeOK
<1> QED BY <1>1, <1>2, TypeInvariant, PTL DEF Spec

\* Whatever the requests in flight do to an entry of the breaker is what the
\* abstract breaker of BreakerPromise may do.  BreakerConsistent is needed:
\* a failure recorded while half-open must open the entry at once, which
\* the code gets from the count it kept.
LEMMA PromiseStep ==
    ASSUME BreakerTypeOK, BreakerConsistent, TargetOK, [Next]_vars
    PROVE  [Promise!Next]_(Promise!vars)
<1> USE DEF BreakerTypeOK, BreakerEntry, BreakerStates
<1>a. ASSUME NEW b \in Backends, NEW s \in BreakerStates, NEW n \in 0..FailureThreshold,
             breaker' = [breaker EXCEPT ![b] = [state |-> s, failures |-> n, age |-> 0]]
      PROVE  /\ s = "Closed" => Promise!Become(b, "closed", n)
             /\ s = "Open" => Promise!Become(b, "cut", 0)
             /\ s = "HalfOpen" => Promise!Become(b, "trial", 0)
  <2>1. /\ breaker'[b].state = s /\ breaker'[b].failures = n /\ breaker'[b].age = 0
        /\ \A c \in Backends \ {b} : breaker'[c] = breaker[c]
    BY <1>a
  <2>2. CASE s = "Closed"   BY <2>1, <2>2 DEF Promise!Become
  <2>3. CASE s = "Open"     BY <2>1, <2>3 DEF Promise!Become
  <2>4. CASE s = "HalfOpen" BY <2>1, <2>4 DEF Promise!Become
  <2> QED BY <2>2, <2>3, <2>4
<1>b. 0 \in 0..FailureThreshold /\ FailureThreshold \in 0..FailureThreshold
  BY DEF BreakerAssumption
<1>1. ASSUME NEW b \in Backends, Admit(b) PROVE Promise!Trial(b) \/ UNCHANGED breaker
  <2>1. CASE breaker[b].state = "Open"
    <3>1. Promise!Become(b, "trial", 0) BY <1>1, <1>a, <2>1 DEF Admit
    <3>2. breaker[b].age > RecoveryTimeout
      BY <1>1, <2>1 DEF Admit, Rejects, BreakerAssumption
    <3> QED BY <2>1, <3>1, <3>2 DEF Promise!Trial
  <2>2. CASE breaker[b].state # "Open"
    BY <1>1, <2>2 DEF Admit
  <2> QED BY <2>1, <2>2
<1>2. ASSUME NEW b \in Backends, RecordSuccess(b) PROVE Promise!Success(b)
  BY <1>2, <1>a, <1>b DEF RecordSuccess, Promise!Success
<1>3. ASSUME NEW b \in Backends, RecordFailure(b)
      PROVE  Promise!ToleratedFailure(b) \/ Promise!CuttingFailure(b)
  <2> DEFINE n == breaker[b].failures
             count == IF n < FailureThreshold THEN n + 1 ELSE FailureThreshold
             state == IF count >= FailureThreshold THEN "Open" ELSE breaker[b].state
  <2>1. /\ count \in 0..FailureThreshold
        /\ state \in BreakerStates
        /\ IF n + 1 < FailureThreshold
           THEN count = n + 1 /\ state = "Closed" /\ breaker[b].state = "Closed"
           ELSE state = "Open" /\ (breaker[b].state = "Closed" => n + 1 >= FailureThreshold)
    BY DEF BreakerConsistent, BreakerAssumption
  <2>2. breaker' = [breaker EXCEPT ![b] = [state |-> state, failures |-> count, age |-> 0]]
    BY <1>3 DEF RecordFailure
  <2>3. PICK t \in BreakerStates, k \in 0..FailureThreshold : t = state /\ k = count
    BY <2>1
  <2>4. /\ t = "Closed" => Promise!Become(b, "closed", k)
        /\ t = "Open" => Promise!Become(b, "cut", 0)
    BY <1>a, <2>2, <2>3
  <2> HIDE DEF count, state
  <2>5. CASE n + 1 < FailureThreshold
    <3>1. k = n + 1 /\ t = "Closed" /\ breaker[b].state = "Closed" BY <2>1, <2>3, <2>5
    <3>2. Promise!Become(b, "closed", k) BY <2>4, <3>1
    <3> QED BY <2>5, <3>1, <3>2 DEF Promise!ToleratedFailure, Promise!Become
  <2>6. CASE ~(n + 1 < FailureThreshold)
    <3>1. Promise!Become(b, "cut", 0) BY <2>1, <2>3, <2>4, <2>6
    <3> QED BY <2>1, <2>6, <3>1 DEF Promise!CuttingFailure
  <2> QED BY <2>5, <2>6
<1>4. ASSUME Elapse PROVE Promise!Wait
  BY <1>4 DEF Elapse, Rejects, BreakerAssumption, Promise!Wait
<1>5. UNCHANGED breaker => UNCHANGED Promise!vars
  BY DEF Promise!vars
<1> QED BY <1>1, <1>2, <1>3, <1>4, <1>5, StepOfBreaker DEF Promise!Next

\* The breaker as the concurrent requests drive it implements BreakerPromise:
\* it cuts a backend off, tries it and takes it back only as promised.
THEOREM BreakerImplementsPromise == Spec => ImplementsPromise
<1>1. Init => Promise!Init
  BY DEF Init, BreakerInit, Promise!Init
<1>2. TypeInv /\ BreakerConsistent /\ [Next]_vars => [Promise!Next]_(Promise!vars)
  BY PromiseStep DEF TypeInv, TypeOK
<1> QED BY <1>1, <1>2, TypeInvariant, BreakerIsConsistent, PTL
       DEF Spec, ImplementsPromise, Promise!Spec

-----------------------------------------------------------------------------
(* The connection counts.                                                  *)

Holders(b) == {r \in Requests : Holds(r, b)}

LEMMA HoldersFinite == \A b : IsFiniteSet(Holders(b)) /\ Cardinality(Holders(b)) \in Nat
<1> TAKE b
<1>1. Holders(b) \subseteq Requests BY DEF Holders
<1> QED BY <1>1, FS_Subset, FS_CardinalityType DEF EngineAssumption

\* A request that takes a slot is one more holder, one that drops it one less.
LEMMA HolderJoins ==
    ASSUME NEW r \in Requests, NEW b \in Backends,
           ~ \E c \in Backends : Holds(r, c),
           \A c \in Backends, q \in Requests :
               Holds(q, c)' <=> Holds(q, c) \/ (q = r /\ c = b)
    PROVE  \A c \in Backends : Cardinality(Holders(c))' =
               IF c = b THEN Cardinality(Holders(c)) + 1 ELSE Cardinality(Holders(c))
<1> TAKE c \in Backends
<1>1. CASE c = b
  <2>1. Holders(c)' = Holders(c) \union {r} BY <1>1 DEF Holders
  <2>2. r \notin Holders(c) BY DEF Holders
  <2> QED BY <1>1, <2>1, <2>2, HoldersFinite, FS_AddElement
<1>2. CASE c # b
  <2>1. Holders(c)' = Holders(c) BY <1>2 DEF Holders
  <2> QED BY <1>2, <2>1
<1> QED BY <1>1, <1>2

LEMMA HolderLeaves ==
    ASSUME NEW r \in Requests, NEW b \in Backends,
           Holds(r, b),
           \A c \in Backends, q \in Requests :
               Holds(q, c)' <=> Holds(q, c) /\ q # r
    PROVE  \A c \in Backends : Cardinality(Holders(c))' =
               IF c = b THEN Cardinality(Holders(c)) - 1 ELSE Cardinality(Holders(c))
<1> TAKE c \in Backends
<1>1. CASE c = b
  <2>1. Holders(c)' = Holders(c) \ {r} BY <1>1 DEF Holders
  <2>2. r \in Holders(c) BY <1>1 DEF Holders
  <2>3. Cardinality(Holders(c) \ {r}) = Cardinality(Holders(c)) - 1
    <3>1. IsFiniteSet(Holders(c)) BY HoldersFinite
    <3> HIDE DEF Holders
    <3> QED BY <2>2, <3>1, OneFewer
  <2> QED BY <1>1, <2>1, <2>3
<1>2. CASE c # b
  <2>1. Holders(c)' = Holders(c) BY <1>2 DEF Holders, Holds
  <2> QED BY <1>2, <2>1
<1> QED BY <1>1, <1>2

LEMMA ActiveStep ==
    ASSUME TypeInv, ActiveIsInFlight, [Next]_vars
    PROVE  ActiveIsInFlight'
<1> DEFINE HeldAsBefore(q) == \A c \in Backends : Holds(q, c)' <=> Holds(q, c)
<1>a. /\ active \in [Backends -> Int]
      /\ RequestTypeOK
      /\ TargetOK
      /\ \A c \in Backends : active[c] = Cardinality(Holders(c))
      /\ \A c \in Backends : Cardinality(Holders(c)) \in Nat
  <2>1. active \in [Backends -> Int] /\ RequestTypeOK /\ TargetOK
    BY DEF TypeInv, TypeOK, BalancerTypeOK, RequestTypeOK
  <2>2. \A c \in Backends : active[c] = Cardinality(Holders(c))
    BY DEF ActiveIsInFlight, Holders
  <2> QED BY <2>1, <2>2, HoldersFinite
<1>b. SUFFICES \A c \in Backends : active'[c] = Cardinality(Holders(c))'
  BY DEF ActiveIsInFlight, Holders
<1>c. ASSUME \A q \in Requests : HeldAsBefore(q), UNCHANGED active
      PROVE  \A c \in Backends : active'[c] = Cardinality(Holders(c))'
  <2>1. \A c \in Backends : Holders(c)' = Holders(c) BY <1>c DEF Holders
  <2> QED BY <1>a, <1>c, <2>1
<1>d. ASSUME NEW r \in Requests, NEW b \in Backends, ReleaseSlot(b), Holds(r, b),
             \A c \in Backends : ~Holds(r, c)',
             \A q \in Requests \ {r} : HeldAsBefore(q)
      PROVE  \A c \in Backends : active'[c] = Cardinality(Holders(c))'
  <2>1. \A c \in Backends, q \in Requests : Holds(q, c)' <=> Holds(q, c) /\ q # r
    BY <1>d
  <2>2. \A c \in Backends : Cardinality(Holders(c))' =
            IF c = b THEN Cardinality(Holders(c)) - 1 ELSE Cardinality(Holders(c))
    BY <1>d, <2>1, HolderLeaves
  <2> QED BY <1>a, <1>d, <2>2 DEF ReleaseSlot
<1>1. CASE UNCHANGED vars
  BY <1>1, <1>c DEF vars, requestVars, balancerVars, Holds
<1>2. CASE Clock \/ Probe
  BY <1>2, <1>c DEF Clock, Probe, requestVars, balancerVars, Holds
<1>3. ASSUME NEW r \in Requests, Acquire(r)
      PROVE  \A c \in Backends : active'[c] = Cardinality(Holders(c))'
  <2>1. PICK b \in Backends : b = backend[r] BY <1>a, <1>3 DEF Acquire, TargetOK
  <2>2. ~ \E c \in Backends : Holds(r, c) BY <1>3 DEF Acquire, Holds
  <2>3. \A c \in Backends, q \in Requests :
            Holds(q, c)' <=> Holds(q, c) \/ (q = r /\ c = b)
    BY <1>a, <1>3, <2>1 DEF Acquire, Holds, Goto, RequestTypeOK
  <2>4. \A c \in Backends : Cardinality(Holders(c))' =
            IF c = b THEN Cardinality(Holders(c)) + 1 ELSE Cardinality(Holders(c))
    BY <2>2, <2>3, HolderJoins
  <2> QED BY <1>a, <1>3, <2>1, <2>4 DEF Acquire, AcquireSlot
<1>4. ASSUME NEW r \in Requests, Cancel(r) \/ Answer(r) \/ TryAgain(r)
      PROVE  \A c \in Backends : active'[c] = Cardinality(Holders(c))'
  <2> USE DEF Cancel, Answer, TryAgain
  <2>1. PICK b \in Backends : b = backend[r] BY <1>a, <1>4 DEF TargetOK
  <2>2. ReleaseSlot(b) /\ Holds(r, b) BY <1>4, <2>1 DEF Holds
  <2>3. \A c \in Backends : ~Holds(r, c)'
    BY <1>a, <1>4 DEF Return, Goto, Holds, RequestTypeOK
  <2>4. \A q \in Requests \ {r} : HeldAsBefore(q)
    BY <1>a, <1>4 DEF Return, Goto, Holds, RequestTypeOK
  <2> HIDE DEF HeldAsBefore
  <2> QED BY <1>d, <2>2, <2>3, <2>4
<1>5. ASSUME NEW r \in Requests,
             \/ Begin(r) \/ KeepAvailable(r) \/ SkipOpen(r) \/ Select(r)
             \/ Retry(r) \/ Forwarded(r) \/ RecordBreaker(r) \/ RecordHealthSuccess(r)
             \/ RestoreHealth(r) \/ RecordHealthFailure(r)
      PROVE  \A c \in Backends : active'[c] = Cardinality(Holders(c))'
  <2> USE DEF Goto, Holds, RequestTypeOK, balancerVars
  <2> SUFFICES (\A q \in Requests : HeldAsBefore(q)) /\ UNCHANGED active BY <1>c
  <2>1. CASE Begin(r)               BY <1>a, <2>1 DEF Begin
  <2>2. CASE KeepAvailable(r)       BY <1>a, <2>2 DEF KeepAvailable
  <2>3. CASE SkipOpen(r)            BY <1>a, <2>3 DEF SkipOpen, Return
  <2>4. CASE Select(r)              BY <1>a, <2>4 DEF Select, SelectBackend
  <2>5. CASE Retry(r)               BY <1>a, <2>5 DEF Retry
  <2>6. CASE Forwarded(r)           BY <1>a, <2>6 DEF Forwarded
  <2>7. CASE RecordBreaker(r)       BY <1>a, <2>7 DEF RecordBreaker
  <2>8. CASE RecordHealthSuccess(r) BY <1>a, <2>8 DEF RecordHealthSuccess
  <2>9. CASE RestoreHealth(r)       BY <1>a, <2>9 DEF RestoreHealth
  <2>10. CASE RecordHealthFailure(r) BY <1>a, <2>10 DEF RecordHealthFailure
  <2> QED BY <1>5, <2>1, <2>2, <2>3, <2>4, <2>5, <2>6, <2>7, <2>8, <2>9, <2>10
<1> QED BY <1>1, <1>2, <1>3, <1>4, <1>5 DEF Next, Run

\* No path through the retries, the fallback, the error returns or a dropped
\* client leaks a connection slot or gives one back twice.
THEOREM ActiveCountsInFlight == Spec => []ActiveIsInFlight
<1>1. Init => ActiveIsInFlight
  <2> SUFFICES ASSUME Init, NEW b \in Backends
               PROVE  active[b] = Cardinality({r \in Requests : Holds(r, b)})
    BY DEF ActiveIsInFlight
  <2>1. {r \in Requests : Holds(r, b)} = {} BY DEF Init, Holds
  <2> QED BY <2>1, FS_EmptySet DEF Init, BalancerInit
<1>2. TypeInv /\ ActiveIsInFlight /\ [Next]_vars => ActiveIsInFlight' BY ActiveStep
<1> QED BY <1>1, <1>2, TypeInvariant, PTL DEF Spec
=============================================================================
