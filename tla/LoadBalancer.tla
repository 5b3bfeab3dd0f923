---------------------------- MODULE LoadBalancer ----------------------------
(***************************************************************************)
(* Backend selection and connection counting (gateway-core                 *)
(* load_balancer.rs).  A backend is a number: its place in the list the    *)
(* caller passes, which is how ties are broken.                            *)
(***************************************************************************)
EXTENDS Integers, FiniteSets, Backend

CONSTANTS
    Strategies,     \* the values lb_strategy may have in the configuration
    Weight,         \* backends.weight
    CounterModulus, \* 2^64: the width of the usize counter
    CastModulus     \* 2^32: the width of the i32 it is cast to

ASSUME BalancerAssumption ==
    /\ Strategies \subseteq {"RoundRobin", "WeightedRoundRobin",
                             "LeastConnections", "InferenceAware"}
    /\ Weight \in [Backends -> Int]
    /\ CounterModulus \in Nat \ {0}
    /\ CastModulus \in Nat \ {0}

LOCAL INSTANCE FiniteSetsExt

VARIABLES
    strategy,   \* read from the configuration at start
    counter,    \* the round-robin counter
    active      \* active_connections; a missing entry reads 0

balancerVars == <<strategy, counter, active>>

BalancerInit ==
    /\ strategy \in Strategies
    /\ counter = 0
    /\ active = [b \in Backends |-> 0]

\* The health a listed row carries: the column's default.  Nothing in the
\* gateway calls update_health, so the row never leaves it.
RowHealth(b) == "Unknown"

Selectable(pool) == {b \in pool : RowHealth(b) \in {"Healthy", "Unknown"}}

Place(b, pool) == Cardinality({a \in pool : a < b})

\* `*c as i32`: two's complement truncation; and Rust's %, whose result has
\* the sign of the dividend.
AsI32(n) ==
    LET low == n % CastModulus
    IN  IF 2 * low >= CastModulus THEN low - CastModulus ELSE low
Rem(n, m) == IF n >= 0 THEN n % m ELSE -((-n) % m)

EffectiveWeight(b) == IF Weight[b] > 1 THEN Weight[b] ELSE 1
TotalWeight(pool) == MapThenSumSet(EffectiveWeight, pool)

\* The first backend whose accumulated weight exceeds pos.
WeightedChoice(pool, pos) ==
    Min({b \in pool : pos < TotalWeight({a \in pool : a <= b})})

LeastLoaded(pool) == {b \in pool : \A a \in pool : active[b] <= active[a]}

\* What select may return.  The inference scores come from the upstream
\* servers, so any backend may have the lowest.
Picks(pool) ==
    CASE strategy = "RoundRobin" -> {b \in pool : Place(b, pool) = counter % Cardinality(pool)}
      [] strategy = "WeightedRoundRobin" ->
            {WeightedChoice(pool, Rem(AsI32(counter), TotalWeight(pool)))}
      [] strategy = "LeastConnections" -> {Min(LeastLoaded(pool))}
      [] strategy = "InferenceAware" -> pool

\* select: the round-robin strategies advance the counter, which wraps.
SelectBackend(pool, b) ==
    /\ b \in Picks(Selectable(pool))
    /\ counter' = IF strategy \in {"RoundRobin", "WeightedRoundRobin"}
                  THEN (counter + 1) % CounterModulus ELSE counter
    /\ UNCHANGED <<strategy, active>>

\* acquire, and the drop of the guard it returned.
AcquireSlot(b) == active' = [active EXCEPT ![b] = @ + 1] /\ UNCHANGED <<strategy, counter>>
ReleaseSlot(b) == active' = [active EXCEPT ![b] = @ - 1] /\ UNCHANGED <<strategy, counter>>

BalancerTypeOK ==
    /\ strategy \in Strategies
    /\ counter \in 0..(CounterModulus - 1)
    /\ active \in [Backends -> Int]

(***************************************************************************)
(* architecture.md:96 "Load-balances among remaining (round-robin /        *)
(* weighted / ...)": wherever the counter stands, each backend gets as     *)
(* many of the next TotalWeight picks as its weight.  The wrap of the      *)
(* usize itself is left out: the windows end before it.                    *)
(***************************************************************************)
WeightedShares ==
    LET total == TotalWeight(Backends)
        pick(n) == WeightedChoice(Backends, Rem(AsI32(n), total))
    IN  counter + total <= CounterModulus =>
            \A b \in Backends :
                Cardinality({i \in 0..(total - 1) : pick(counter + i) = b}) = EffectiveWeight(b)
=============================================================================
