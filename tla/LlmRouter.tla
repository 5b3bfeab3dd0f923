----------------------------- MODULE LlmRouter -----------------------------
(***************************************************************************)
(* Choosing the provider of a model (gateway-llm router.rs, provider.rs).  *)
(* A selection holds the routes and the counter of its model: it is one    *)
(* step.  Nothing in the server registers a provider; the routes are what  *)
(* a program that embeds the router, as its tests do, may register.        *)
(***************************************************************************)
EXTENDS Integers, Sequences, FiniteSets, SequencesExt

CONSTANTS
    Models,
    Providers,      \* records: their kind, their priority
    TurnLimit       \* bound on the selections counted

ASSUME RouterAssumption == TurnLimit \in Nat /\ IsFiniteSet(Providers)

VARIABLES
    routes,         \* the providers of a model, or of the wildcard
    aliases,        \* model -> the model asked for instead
    turn,           \* the counter of a resolved model
    turnsTaken      \* what each provider got since the route of a model changed

routerVars == <<routes, aliases, turn, turnsTaken>>

Wildcard == "*"
NoTurns == [p \in Providers |-> 0]

RouterInit ==
    /\ routes = [m \in Models \union {Wildcard} |-> <<>>]
    /\ aliases = [m \in Models |-> m]
    /\ turn = [m \in Models |-> 0]
    /\ turnsTaken = [m \in Models |-> NoTurns]

\* What a kind of provider can do.
Multimodal(p) == p.kind = "openai"
NeedsMessages(p) == p.kind \in {"anthropic", "google_vertex"}

\* A stable sort by priority after a push.
ByPriority(s, p) ==
    InsertAt(s, 1 + Cardinality({i \in DOMAIN s : s[i].priority <= p.priority}), p)

RouteOf(m) == IF routes[m] # <<>> THEN routes[m] ELSE routes[Wildcard]

RegisterProvider(m, p) ==
    /\ p \notin ToSet(routes[m])
    /\ routes' = [routes EXCEPT ![m] = ByPriority(@, p)]
    /\ turnsTaken' = [n \in Models |-> IF RouteOf(n)' # RouteOf(n) THEN NoTurns ELSE turnsTaken[n]]
    /\ UNCHANGED <<aliases, turn>>

SetAlias(m, target) ==
    /\ aliases' = [aliases EXCEPT ![m] = target]
    /\ UNCHANGED <<routes, turn, turnsTaken>>

\* Aliases are resolved once.
ResolveAlias(m) == aliases[m]

\* Mutant: the counter is that of the model that was asked for.
CounterAsked(m) == m

CounterOf(m) == ResolveAlias(m)

Chosen(m) ==
    LET route == RouteOf(ResolveAlias(m)) IN route[(turn[CounterOf(m)] % Len(route)) + 1]

Selectable(m) == RouteOf(ResolveAlias(m)) # <<>>

SelectProvider(m) ==
    /\ Selectable(m) /\ turn[CounterOf(m)] < TurnLimit
    /\ turn' = [turn EXCEPT ![CounterOf(m)] = @ + 1]
    /\ turnsTaken' = [turnsTaken EXCEPT ![ResolveAlias(m)][Chosen(m)] = @ + 1]
    /\ UNCHANGED <<routes, aliases>>

RouterNext ==
    \E m \in Models :
        \/ \E p \in Providers, n \in {m, Wildcard} : RegisterProvider(n, p)
        \/ \E target \in Models : SetAlias(m, target)
        \/ SelectProvider(m)

RouterSpec == RouterInit /\ [][RouterNext]_routerVars

----------------------------------------------------------------------------
\* As long as the route of a model stays as it is, all the providers on it take
\* turns, those of a worse priority too: none is chosen twice more often than
\* another, whatever aliases point at the model and however they change, and
\* wherever the counter of the model stood when its route changed (router.rs
\* select; the priorities only order the list, though router.rs:78 speaks of a
\* "round-robin among equal-priority providers").
AllTakeTurns ==
    \A m \in Models : \A p, q \in ToSet(RouteOf(m)) : turnsTaken[m][p] - turnsTaken[m][q] <= 1
=============================================================================
