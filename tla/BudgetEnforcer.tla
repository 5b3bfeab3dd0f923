--------------------------- MODULE BudgetEnforcer ---------------------------
(***************************************************************************)
(* The budget enforcer of gateway-policy (budget.rs), for one tenant: the  *)
(* spend of the current day, week and month, kept in memory or in Redis.   *)
(* Only the counters of the current periods are ever read, so the counter  *)
(* of a period that is over is forgotten here when the period ends         *)
(* (cleanup_stale and the expiry of the Redis keys delete it later).       *)
(* A day has two parts, its last second and what is before it: an expiry   *)
(* is meant for a midnight, but whole seconds rounded down fall short of it. *)
(***************************************************************************)
EXTENDS Integers

CONSTANTS
    FirstDay, LastDay,  \* bound: the days of a run; day 0 is a Monday
    MonthStarts,        \* the days on which a month begins
    Cost,               \* the cost of a request, 0.001 in the proxy handler
    Stores              \* where the spend may be kept: "InMemory", "Redis"

ASSUME BudgetAssumption ==
    /\ FirstDay \in Nat /\ LastDay \in Nat /\ FirstDay <= LastDay
    /\ MonthStarts \subseteq Nat
    /\ \A d \in FirstDay..LastDay : \E m \in MonthStarts : m > d
    /\ Cost \in Nat \ {0}
    /\ Stores \subseteq {"InMemory", "Redis"}

Periods == {"Daily", "Weekly", "Monthly"}
Never == -1

VARIABLES
    store,      \* chosen at start
    today,
    ending,     \* the last second of the day
    spend,      \* the counter of the current day, week, month
    expiry,     \* the half of a day in which Redis deletes the counter, or Never
    recorded    \* history: what was added to the counters in their periods

budgetVars == <<store, today, ending, spend, expiry, recorded>>

BudgetInit ==
    /\ store \in Stores
    /\ today = FirstDay
    /\ ending = FALSE
    /\ spend = [p \in Periods |-> 0]
    /\ expiry = [p \in Periods |-> Never]
    /\ recorded = [p \in Periods |-> 0]

\* current_key: whether two days share the counter of a period.
SamePeriod(p, d, e) ==
    CASE p = "Daily" -> d = e
      [] p = "Weekly" -> d \div 7 = e \div 7
      [] p = "Monthly" -> {m \in MonthStarts : m <= d} = {m \in MonthStarts : m <= e}

\* Mutant: the month's counter gets the day's expiry.
TtlDaily(p) == IF p = "Weekly" THEN ((7 - (today % 7)) % 7) + 1 ELSE 1

\* ttl_secs: from now to the midnight the counter is meant to last to.
Ttl(p) ==
    CASE p = "Daily" -> 1
      [] p = "Weekly" -> ((7 - (today % 7)) % 7) + 1
      [] p = "Monthly" -> (CHOOSE m \in MonthStarts :
                              m > today /\ \A n \in MonthStarts : n > today => m <= n) - today

\* Mutant: the cost of this request is left out.
SpendWithinHardLimit(current, hard) == hard > 0 => current <= hard

\* Halves of days: 2d for day d, 2d + 1 for its last second.
Moment == 2 * today + (IF ending THEN 1 ELSE 0)

\* max(1) of the seconds left, rounded down: the key lives into the second
\* before that midnight, or past it when it is set within that second.
Lapse(p) == 2 * (today + Ttl(p)) - (IF ending /\ Ttl(p) = 1 THEN 0 ELSE 1)

Lapsed(p) == expiry[p] # Never /\ expiry[p] <= Moment

\* The verdict of check_entity for the daily counter, read as `current`.
\* Exceeding the soft limit is a status the caller does not look at.
WithinHardLimit(current, hard) == hard > 0 => current + Cost <= hard

\* record_entity, the first half of one turn of its loop: INCRBYFLOAT, or
\* the in-memory entry.  `day` is when the turn computed the key: an old key
\* is never read again.
Add(p, day) ==
    /\ IF SamePeriod(p, day, today)
       THEN /\ spend' = [spend EXCEPT ![p] = @ + Cost]
            /\ recorded' = [recorded EXCEPT ![p] = @ + Cost]
       ELSE UNCHANGED <<spend, recorded>>
    /\ UNCHANGED <<store, today, ending, expiry>>

\* The second half, in Redis only: EXPIRE, on every increment.
SetExpiry(p, day) ==
    /\ expiry' = IF store = "Redis" /\ SamePeriod(p, day, today) /\ spend[p] > 0
                 THEN [expiry EXCEPT ![p] = Lapse(p)] ELSE expiry
    /\ UNCHANGED <<store, today, ending, spend, recorded>>

\* Redis deletes a key whose time has come, at the latest before the next
\* half of a day begins.
DeleteLapsed(p) ==
    /\ Lapsed(p)
    /\ spend' = [spend EXCEPT ![p] = 0]
    /\ expiry' = [expiry EXCEPT ![p] = Never]
    /\ UNCHANGED <<store, today, ending, recorded>>

LastSecond ==
    /\ ~ending /\ \A p \in Periods : ~Lapsed(p)
    /\ ending' = TRUE
    /\ UNCHANGED <<store, today, spend, expiry, recorded>>

\* A day begins: periods end.
Midnight ==
    LET over(p) == ~SamePeriod(p, today, today + 1)
    IN  /\ ending /\ today < LastDay
        /\ \A p \in Periods : ~Lapsed(p) \/ over(p)
        /\ today' = today + 1 /\ ending' = FALSE
        /\ spend' = [p \in Periods |-> IF over(p) THEN 0 ELSE spend[p]]
        /\ expiry' = [p \in Periods |-> IF over(p) THEN Never ELSE expiry[p]]
        /\ recorded' = [p \in Periods |-> IF over(p) THEN 0 ELSE recorded[p]]
        /\ UNCHANGED store

BudgetTypeOK ==
    /\ store \in Stores
    /\ today \in FirstDay..LastDay
    /\ ending \in BOOLEAN
    /\ spend \in [Periods -> Nat]
    /\ expiry \in [Periods -> Nat \union {Never}]
    /\ recorded \in [Periods -> Nat]

\* The last second of a period.
AtItsEnd(p) == ending /\ ~SamePeriod(p, today, today + 1)

(***************************************************************************)
(* The counters of the day and of the month hold all that was recorded in  *)
(* them, but in the last second of the day or the month: no expiry set by  *)
(* an earlier request, before or after a midnight, deletes them sooner     *)
(* (record_entity, ttl_secs).  The counter of the week is not kept: what   *)
(* budget.rs:58 calls "Seconds until next Monday" ends as the Monday ends. *)
(***************************************************************************)
SpendKept == \A p \in {"Daily", "Monthly"} : spend[p] = recorded[p] \/ AtItsEnd(p)
=============================================================================
