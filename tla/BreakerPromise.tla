--------------------------- MODULE BreakerPromise ---------------------------
(***************************************************************************)
(* What a circuit breaker promises its backends, without the counter the   *)
(* code keeps outside the closed state: it cuts a backend off after        *)
(* FailureThreshold failures in a row, lets trial traffic through after    *)
(* RecoveryTimeout without a failure, and decides on the first outcome     *)
(* recorded during the trial.  "run" means something in mode "closed" only.*)
(***************************************************************************)
EXTENDS Naturals

CONSTANTS Backends, FailureThreshold, RecoveryTimeout

VARIABLES
    mode,   \* "closed", "cut" or "trial"
    run,    \* failures in a row seen in mode "closed"
    quiet   \* time since the last failure, in mode "cut"

vars == <<mode, run, quiet>>

Init ==
    /\ mode = [b \in Backends |-> "closed"]
    /\ run = [b \in Backends |-> 0]
    /\ quiet = [b \in Backends |-> 0]

Become(b, m, n) ==
    /\ mode' = [mode EXCEPT ![b] = m]
    /\ run' = [run EXCEPT ![b] = n]
    /\ quiet' = [quiet EXCEPT ![b] = 0]

Success(b) == Become(b, "closed", 0)

ToleratedFailure(b) ==
    /\ mode[b] = "closed"
    /\ run[b] + 1 < FailureThreshold
    /\ Become(b, "closed", run[b] + 1)

CuttingFailure(b) ==
    /\ mode[b] = "closed" => run[b] + 1 >= FailureThreshold
    /\ Become(b, "cut", 0)

Trial(b) ==
    /\ mode[b] = "cut"
    /\ quiet[b] > RecoveryTimeout
    /\ Become(b, "trial", 0)

Wait ==
    /\ quiet' = [b \in Backends |->
                    IF mode[b] = "cut" /\ quiet[b] <= RecoveryTimeout
                    THEN quiet[b] + 1 ELSE quiet[b]]
    /\ UNCHANGED <<mode, run>>

Next ==
    \/ Wait
    \/ \E b \in Backends :
          Success(b) \/ ToleratedFailure(b) \/ CuttingFailure(b) \/ Trial(b)

Spec == Init /\ [][Next]_vars
=============================================================================
