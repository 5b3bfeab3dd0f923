---------------------------- MODULE HealthChecker ----------------------------
(***************************************************************************)
(* Active and passive health of the backends (gateway-core health.rs): the *)
(* published status of each backend, and the count of failed requests in a *)
(* row.  A missing counter and a counter of 0 answer alike, and a missing  *)
(* status reads Unknown, so both maps are total.  Counts beyond            *)
(* PassiveThreshold are all alike.                                         *)
(***************************************************************************)
EXTENDS Naturals, Backend

CONSTANTS
    PassiveThreshold,   \* PASSIVE_FAILURE_THRESHOLD, 5 in the code
    ProbeAnswers        \* what the probes of the health worker may find

HealthStatus == {"Healthy", "Degraded", "Unhealthy", "Unknown"}

ASSUME HealthAssumption ==
    /\ PassiveThreshold \in Nat \ {0}
    /\ ProbeAnswers \subseteq HealthStatus \ {"Unknown"}

VARIABLES
    status,         \* the statuses map
    failureCount,   \* the failure_counts map
    probing         \* backends check_all stored as healthy, counter not yet removed

healthVars == <<status, failureCount, probing>>

HealthInit ==
    /\ status = [b \in Backends |-> "Unknown"]
    /\ failureCount = [b \in Backends |-> 0]
    /\ probing = {}

\* A probe of check_all returns: the answer is stored at once, the passive
\* counter is removed by a later statement when the answer was Healthy.
\* join_all polls the probes in one task, so one backend at a time is
\* between the two statements.  The worker probes for ever.
ProbeReturns(b) ==
    /\ probing = {}
    /\ \E answer \in ProbeAnswers :
          /\ status' = [status EXCEPT ![b] = answer]
          /\ probing' = IF answer = "Healthy" THEN {b} ELSE {}
    /\ UNCHANGED failureCount

ProbeResetsCounter(b) ==
    /\ b \in probing
    /\ probing' = {}
    /\ failureCount' = [failureCount EXCEPT ![b] = 0]
    /\ UNCHANGED status

\* record_success, first statement: the counter, under its own lock.
ResetCounter(b) ==
    /\ failureCount' = [failureCount EXCEPT ![b] = 0]
    /\ UNCHANGED <<status, probing>>

\* record_success, second statement: the status, under another lock.
RestoreStatus(b) ==
    /\ status' = [status EXCEPT
            ![b] = IF @ \in {"Unhealthy", "Degraded"} THEN "Healthy" ELSE @]
    /\ UNCHANGED <<failureCount, probing>>

\* Mutant: the two thresholds are tested in the other order.
CountFailureDegradedFirst(b) ==
    LET count == IF failureCount[b] < PassiveThreshold
                 THEN failureCount[b] + 1 ELSE PassiveThreshold
    IN  /\ failureCount' = [failureCount EXCEPT ![b] = count]
        /\ status' = [status EXCEPT
              ![b] = IF count >= PassiveThreshold \div 2 THEN "Degraded"
                     ELSE IF count >= PassiveThreshold THEN "Unhealthy"
                     ELSE @]
        /\ UNCHANGED probing

\* record_failure: the counter's lock is held to the end of the function.
CountFailure(b) ==
    LET count == IF failureCount[b] < PassiveThreshold
                 THEN failureCount[b] + 1 ELSE PassiveThreshold
    IN  /\ failureCount' = [failureCount EXCEPT ![b] = count]
        /\ status' = [status EXCEPT
              ![b] = IF count >= PassiveThreshold THEN "Unhealthy"
                     ELSE IF count >= PassiveThreshold \div 2 THEN "Degraded"
                     ELSE @]
        /\ UNCHANGED probing

HealthTypeOK ==
    /\ status \in [Backends -> HealthStatus]
    /\ failureCount \in [Backends -> 0..PassiveThreshold]
    /\ probing \in SUBSET Backends
=============================================================================
