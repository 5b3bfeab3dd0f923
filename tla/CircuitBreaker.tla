--------------------------- MODULE CircuitBreaker ---------------------------
(***************************************************************************)
(* The per-backend circuit breaker of gateway-core (circuit_breaker.rs).   *)
(* Every operation of the code runs under the write lock of one entry of   *)
(* the map, so each is one action here; callers on other threads           *)
(* interleave between them.                                                *)
(*                                                                         *)
(* An entry that was never written and a closed entry without failures     *)
(* answer every operation alike, so the map is total.  Instant::now() is   *)
(* read only as the age of the last failure of an open entry: Elapse ages  *)
(* the open entries, and ages past RecoveryTimeout are all alike.  The     *)
(* failure count is only compared with the threshold, so counts beyond it  *)
(* are all alike too (the u32 would wrap after 2^32 unbroken failures).    *)
(***************************************************************************)
EXTENDS Naturals, Backend

CONSTANTS
    FailureThreshold,   \* failures in a row that open an entry (default 5)
    RecoveryTimeout     \* time an open entry rejects after its last failure

\* A threshold of 0 behaves as 1 in the code: the first failure opens.
ASSUME BreakerAssumption ==
    /\ FailureThreshold \in Nat \ {0}
    /\ RecoveryTimeout \in Nat

VARIABLE breaker

BreakerStates == {"Closed", "Open", "HalfOpen"}

BreakerEntry == [state : BreakerStates,
                 failures : 0..FailureThreshold,
                 age : 0..(RecoveryTimeout + 1)]

BreakerInit == breaker = [b \in Backends |-> [state |-> "Closed", failures |-> 0, age |-> 0]]

\* Mutant: an off-by-one on the timeout.
RejectsTooShort(b) == breaker[b].state = "Open" /\ breaker[b].age < RecoveryTimeout

\* The two answers of is_open: an open entry rejects until its last failure
\* is older than the recovery timeout.
Rejects(b) == breaker[b].state = "Open" /\ breaker[b].age <= RecoveryTimeout

\* Mutant: the trial starts from a fresh count.
AdmitAfresh(b) ==
    /\ ~Rejects(b)
    /\ breaker' = [breaker EXCEPT
            ![b] = IF @.state = "Open"
                   THEN [state |-> "HalfOpen", failures |-> 0, age |-> 0] ELSE @]

\* is_open answering false; the first caller after the timeout moves the
\* entry to half-open.
Admit(b) ==
    /\ ~Rejects(b)
    /\ breaker' = [breaker EXCEPT
            ![b] = IF @.state = "Open"
                   THEN [state |-> "HalfOpen", failures |-> @.failures, age |-> 0] ELSE @]

\* Mutant: a rejected request counts as a failure.
RejectAsFailure(b) == Rejects(b) /\ breaker' = [breaker EXCEPT ![b].age = 0]

\* is_open answering true.
Reject(b) == Rejects(b) /\ UNCHANGED breaker

\* record_success: closes the entry whatever its state.
RecordSuccess(b) ==
    breaker' = [breaker EXCEPT ![b] = [state |-> "Closed", failures |-> 0, age |-> 0]]

\* record_failure: counts, restarts the clock of the entry, and opens it
\* once the count has reached the threshold.
RecordFailure(b) ==
    LET count == IF breaker[b].failures < FailureThreshold
                 THEN breaker[b].failures + 1 ELSE FailureThreshold
    IN  breaker' = [breaker EXCEPT
            ![b] = [state |-> IF count >= FailureThreshold THEN "Open" ELSE @.state,
                    failures |-> count,
                    age |-> 0]]

\* One unit of time passes for every open entry.
Elapse ==
    /\ \E b \in Backends : Rejects(b)
    /\ breaker' = [b \in Backends |->
            IF Rejects(b)
            THEN [state |-> "Open", failures |-> breaker[b].failures, age |-> breaker[b].age + 1]
            ELSE breaker[b]]

-----------------------------------------------------------------------------
BreakerTypeOK == breaker \in [Backends -> BreakerEntry]

(***************************************************************************)
(* An entry is closed exactly while its failures in a row are below the    *)
(* threshold.  The half-open state keeps the old count, so one failure of  *)
(* the trial traffic is enough to open the entry again.                    *)
(***************************************************************************)
BreakerConsistent ==
    \A b \in Backends :
        breaker[b].state = "Closed" <=> breaker[b].failures < FailureThreshold
=============================================================================
