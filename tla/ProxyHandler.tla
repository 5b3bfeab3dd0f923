---------------------------- MODULE ProxyHandler ----------------------------
(***************************************************************************)
(* proxy_handler (gateway-server handlers/proxy.rs) with the policies it   *)
(* applies: PolicyEngine::evaluate and record_usage (gateway-policy        *)
(* engine.rs) over the rate limiter and the budget enforcer.  The upstream *)
(* side, forward_to_pool, is GatewayEngine; here it answers or fails.      *)
(*                                                                         *)
(* A request is a task, and after it the task record_usage spawned: the    *)
(* client has its answer before the spend is recorded.  All requests are   *)
(* of one tenant.  Requests refused before the budget check (no route, IP  *)
(* filter, body size, query depth) leave no trace and are left out.        *)
(***************************************************************************)
EXTENDS RateLimiter, BudgetEnforcer

CONSTANTS
    Requests,       \* the requests in flight at once, with their recorders
    Method,         \* how each one authenticated
    LimitKey,       \* its rate-limit key: "most specific key wins"
    KeyRpm,         \* rate_limit_rpm of its virtual key
    KeyDaily,       \* budget_daily and budget_monthly of its key, 0 for none
    KeyMonthly,
    DefaultRpm,     \* 60 in the code (10 for a request without identity)
    FaultLimit      \* bound: Redis calls that fail in a run

ASSUME ProxyAssumption ==
    /\ IsFiniteSet(Requests) /\ Requests # {}
    /\ Method \in [Requests -> {"ApiKey", "VirtualKey", "Jwt"}]
    /\ LimitKey \in [Requests -> Keys]
    /\ KeyRpm \in [Requests -> Rpms]
    /\ KeyDaily \in [Requests -> Nat]
    /\ KeyMonthly \in [Requests -> Nat]
    /\ DefaultRpm \in Rpms
    /\ FaultLimit \in Nat

VARIABLES
    pc,         \* where each request, then its recorder, is
    period,     \* the period its recorder is at
    keyDay,     \* the day on which the recorder computes the period's key
    loaded,     \* whether SCRIPT LOAD succeeded at start
    faults      \* Redis calls that failed so far

requestVars == <<pc, period, keyDay, loaded>>
vars == <<limiterVars, budgetVars, requestVars, faults>>

Steps == {"idle", "budget", "limit", "eval", "refused", "upstream", "add", "expire"}

Init ==
    /\ LimiterInit
    /\ BudgetInit
    /\ pc = [r \in Requests |-> "idle"]
    /\ period = [r \in Requests |-> "Daily"]
    /\ keyDay = [r \in Requests |-> FirstDay]
    /\ loaded \in BOOLEAN
    /\ faults = 0

\* What the handler passes to evaluate.  An API key's own limits are looked
\* up in the cache under "", where nothing ever is, so the defaults apply.
Rpm(r) == IF Method[r] = "VirtualKey" THEN KeyRpm[r] ELSE DefaultRpm
SoftBudget(r) == IF Method[r] = "VirtualKey" THEN KeyDaily[r] ELSE 0
HardBudget(r) == IF Method[r] = "VirtualKey" THEN KeyMonthly[r] ELSE 0

Goto(r, s) == pc' = [pc EXCEPT ![r] = s] /\ UNCHANGED <<period, keyDay, loaded>>
Fault == faults < FaultLimit /\ faults' = faults + 1

Begin(r) ==
    /\ pc[r] = "idle"
    /\ Goto(r, "budget")
    /\ UNCHANGED <<limiterVars, budgetVars, faults>>

\* get_spend: a failed GET reads as 0.
CheckBudget(r) ==
    /\ pc[r] = "budget"
    /\ \E current \in {0, spend["Daily"]} :
          /\ \/ current = spend["Daily"] /\ UNCHANGED faults
             \/ /\ store = "Redis"
                /\ HardBudget(r) > 0 \/ SoftBudget(r) > 0
                /\ current = 0
                /\ Fault
          /\ Goto(r, IF WithinHardLimit(current, HardBudget(r)) THEN "limit" ELSE "idle")
    /\ UNCHANGED <<limiterVars, budgetVars>>

\* RateLimiter::check in memory.
CheckLimit(r) ==
    /\ pc[r] = "limit"
    /\ \E ok \in BOOLEAN :
          /\ TakeToken(LimitKey[r], Rpm(r), ok) \/ TakeStamp(LimitKey[r], Rpm(r), ok)
          /\ Goto(r, IF ok THEN "upstream" ELSE "refused")
    /\ UNCHANGED <<budgetVars, faults>>

\* redis_check: EVALSHA when the script was loaded, else EVAL.
Sends(r) == pc[r] = "eval" \/ (pc[r] = "limit" /\ ~loaded)
Evaluates(r) == Sends(r) \/ pc[r] = "limit"

RunScript(r) ==
    /\ Evaluates(r)
    /\ \E ok \in BOOLEAN :
          /\ TakeCount(LimitKey[r], Rpm(r), ok)
          /\ Goto(r, IF ok THEN "upstream" ELSE "refused")
    /\ UNCHANGED <<budgetVars, faults>>

\* Any error of EVALSHA, a missing script or an answer lost after the script
\* ran, is followed by EVAL; an error of EVAL refuses the request.
ScriptFails(r) ==
    /\ Evaluates(r)
    /\ limiter = "Redis"
    /\ Fault
    /\ LoseCount(LimitKey[r]) \/ UNCHANGED limiterVars
    /\ Goto(r, IF Sends(r) THEN "idle" ELSE "eval")
    /\ UNCHANGED budgetVars

Refuse(r) ==
    /\ pc[r] = "refused"
    /\ Goto(r, "idle")
    /\ UNCHANGED <<limiterVars, budgetVars, faults>>

\* forward_to_pool returns a response, whatever its status, and record_usage
\* spawns the recorder, which begins with the daily counter.
Answered(r) ==
    /\ pc[r] = "upstream"
    /\ pc' = [pc EXCEPT ![r] = "add"]
    /\ period' = [period EXCEPT ![r] = "Daily"]
    /\ keyDay' = [keyDay EXCEPT ![r] = today]
    /\ UNCHANGED <<limiterVars, budgetVars, loaded, faults>>

\* forward_to_pool fails.
Failed(r) ==
    /\ pc[r] = "upstream"
    /\ Goto(r, "idle")
    /\ UNCHANGED <<limiterVars, budgetVars, faults>>

\* The client goes away: the handler is dropped at an await.  A recorder is
\* a task of its own and stays.
Cancel(r) ==
    /\ \/ pc[r] = "upstream"
       \/ pc[r] = "budget" /\ store = "Redis"
       \/ Evaluates(r) /\ limiter = "Redis"
    /\ Goto(r, "idle")
    /\ UNCHANGED <<limiterVars, budgetVars, faults>>

\* The key is computed some time after the step before, a midnight later
\* perhaps.  A failed INCRBYFLOAT is ignored.
AddSpend(r) ==
    /\ pc[r] = "add"
    /\ \E day \in keyDay[r]..today :
          /\ \/ Add(period[r], day) /\ UNCHANGED faults
             \/ store = "Redis" /\ Fault /\ UNCHANGED budgetVars
          /\ keyDay' = [keyDay EXCEPT ![r] = day]
    /\ pc' = [pc EXCEPT ![r] = "expire"]
    /\ UNCHANGED <<limiterVars, period, loaded>>

\* EXPIRE, whose failure is ignored too, and the next turn of the loop.
NextPeriod == [Daily |-> "Weekly", Weekly |-> "Monthly", Monthly |-> "Daily"]

ExpireSpend(r) ==
    /\ pc[r] = "expire"
    /\ \/ SetExpiry(period[r], keyDay[r]) /\ UNCHANGED faults
       \/ store = "Redis" /\ Fault /\ UNCHANGED budgetVars
    /\ pc' = [pc EXCEPT ![r] = IF period[r] = "Monthly" THEN "idle" ELSE "add"]
    /\ period' = [period EXCEPT ![r] = NextPeriod[@]]
    /\ keyDay' = [keyDay EXCEPT ![r] = IF period[r] = "Monthly" THEN FirstDay ELSE today]
    /\ UNCHANGED <<limiterVars, loaded>>

Seconds == Tick /\ UNCHANGED <<budgetVars, requestVars, faults>>
Days == (LastSecond \/ Midnight) /\ UNCHANGED <<limiterVars, requestVars, faults>>
RedisDeletes(p) == DeleteLapsed(p) /\ UNCHANGED <<limiterVars, requestVars, faults>>
CleanupWorker == Cleanup /\ UNCHANGED <<budgetVars, requestVars, faults>>

Run(r) ==
    \/ CheckBudget(r) \/ CheckLimit(r) \/ RunScript(r) \/ ScriptFails(r) \/ Refuse(r)
    \/ Answered(r) \/ Failed(r) \/ AddSpend(r) \/ ExpireSpend(r)

Next ==
    \/ \E r \in Requests : Begin(r) \/ Run(r) \/ Cancel(r)
    \/ Seconds
    \/ Days
    \/ \E p \in Periods : RedisDeletes(p)
    \/ CleanupWorker

Spec == Init /\ [][Next]_vars

(***************************************************************************)
(* Time passes, and the runtime polls every task that is ready.            *)
(***************************************************************************)
Fairness ==
    /\ \A r \in Requests : WF_vars(Run(r))
    /\ WF_vars(Seconds)
-----------------------------------------------------------------------------
TypeOK ==
    /\ LimiterTypeOK
    /\ BudgetTypeOK
    /\ pc \in [Requests -> Steps]
    /\ period \in [Requests -> Periods]
    /\ keyDay \in [Requests -> FirstDay..LastDay]
    /\ loaded \in BOOLEAN
    /\ faults \in 0..FaultLimit

\* The requests that passed the budget check and are not in the day's
\* counter yet.
Pending ==
    {r \in Requests : \/ pc[r] \in {"limit", "eval", "upstream"}
                      \/ pc[r] = "add" /\ period[r] = "Daily"}

(***************************************************************************)
(* The check and the recording are far apart, so the day's counter may     *)
(* pass the largest hard limit; but by no more than the requests in flight *)
(* at once, and those whose counter Redis failed to read or add to.        *)
(***************************************************************************)
OvershootBounded ==
    (\A r \in Requests : HardBudget(r) >= Cost) =>
        \E r \in Requests :
            spend["Daily"] + Cost * Cardinality(Pending)
                <= HardBudget(r) + Cost * (Cardinality(Requests) - 1 + faults)

(***************************************************************************)
(* A key that is asked for again and again is granted again and again:     *)
(* refused requests count in Redis and in the bucket, but must not push    *)
(* the end of the window away.                                             *)
(***************************************************************************)
GrantedAgain ==
    \A k \in Keys :
        []<>(\E r \in Requests : LimitKey[r] = k /\ pc[r] \in {"refused", "upstream"})
        => []<>(\E r \in Requests : LimitKey[r] = k /\ pc[r] = "upstream")

(***************************************************************************)
(* rate-limiting.md:168-170 "budget_daily - e.g. $10/day ... Hard limits   *)
(* block further requests on exceed": a request is not let through when    *)
(* the day's spend has reached the daily budget of its key.                *)
(***************************************************************************)
DailyBudgetBlocks ==
    [][\A r \in Requests :
          pc[r] = "budget" /\ pc'[r] = "limit" /\ KeyDaily[r] > 0 /\ faults' = faults =>
              spend["Daily"] + Cost <= KeyDaily[r]]_vars
=============================================================================
