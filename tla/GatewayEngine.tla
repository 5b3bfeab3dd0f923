---------------------------- MODULE GatewayEngine ----------------------------
(***************************************************************************)
(* GatewayEngine::forward_to_pool (gateway-core engine.rs) with the parts  *)
(* it drives: the circuit breaker, the load balancer, the health checker   *)
(* and ProxyEngine::forward (proxy.rs).  Each request is a task; tasks run *)
(* on several threads, so every access to a shared map is a step of its    *)
(* own.  A request may be dropped while it awaits the upstream, when its   *)
(* client goes away.                                                       *)
(***************************************************************************)
EXTENDS CircuitBreaker, LoadBalancer, HealthChecker

CONSTANTS
    Requests,       \* the request tasks
    Pools,          \* the backend lists the caller may pass
    MaxRetries      \* proxy.max_retries, 3 by default

ASSUME EngineAssumption ==
    /\ IsFiniteSet(Requests)
    /\ Pools \subseteq (SUBSET Backends) \ {{}}
    /\ MaxRetries \in Nat

VARIABLES
    pc,         \* where each request is in forward_to_pool
    todo,       \* backends of its pool not yet filtered by is_open
    available,  \* available_owned: the snapshot the filter took
    backend,    \* the backend selected last
    tried,      \* pool attempts that ended in an error
    attempt,    \* retries made by ProxyEngine::forward for this pool attempt
    resp,       \* what forward returned
    failedOn    \* history: the backends that failed this request

requestVars == <<pc, todo, available, backend, tried, attempt, resp, failedOn>>
vars == <<breaker, balancerVars, healthVars, requestVars>>

Steps == {"idle", "filter", "select", "acquire", "forward", "breaker",
          "health", "restore", "release"}
Unselected == -1

Init ==
    /\ BreakerInit
    /\ BalancerInit
    /\ HealthInit
    /\ pc = [r \in Requests |-> "idle"]
    /\ todo = [r \in Requests |-> {}]
    /\ available = [r \in Requests |-> {}]
    /\ backend = [r \in Requests |-> Unselected]
    /\ tried = [r \in Requests |-> 0]
    /\ attempt = [r \in Requests |-> 0]
    /\ resp = [r \in Requests |-> "none"]
    /\ failedOn = [r \in Requests |-> {}]

Goto(r, s) == pc' = [pc EXCEPT ![r] = s]

\* The call returns: its locals are gone.
Return(r) ==
    /\ Goto(r, "idle")
    /\ todo' = [todo EXCEPT ![r] = {}]
    /\ available' = [available EXCEPT ![r] = {}]
    /\ backend' = [backend EXCEPT ![r] = Unselected]
    /\ tried' = [tried EXCEPT ![r] = 0]
    /\ attempt' = [attempt EXCEPT ![r] = 0]
    /\ resp' = [resp EXCEPT ![r] = "none"]
    /\ failedOn' = [failedOn EXCEPT ![r] = {}]

Begin(r) ==
    /\ pc[r] = "idle"
    /\ Goto(r, "filter")
    /\ \E pool \in Pools : todo' = [todo EXCEPT ![r] = pool]
    /\ UNCHANGED <<breaker, balancerVars, healthVars,
                   available, backend, tried, attempt, resp, failedOn>>

\* The filter asks is_open of the next backend of the list.
IsFirst(b, S) == b \in S /\ \A a \in S : b <= a

KeepAvailable(r) ==
    \E b \in Backends :
        /\ pc[r] = "filter"
        /\ IsFirst(b, todo[r])
        /\ Admit(b)
        /\ todo' = [todo EXCEPT ![r] = @ \ {b}]
        /\ available' = [available EXCEPT ![r] = @ \union {b}]
        /\ Goto(r, IF todo[r] = {b} THEN "select" ELSE "filter")
        /\ UNCHANGED <<balancerVars, healthVars, backend, tried, attempt, resp, failedOn>>

SkipOpen(r) ==
    \E b \in Backends :
        /\ pc[r] = "filter"
        /\ IsFirst(b, todo[r])
        /\ Reject(b)
        /\ \/ /\ todo[r] = {b}
              /\ available[r] = {}      \* CoreError::NoBackend
              /\ Return(r)
           \/ /\ todo[r] # {b} \/ available[r] # {}
              /\ todo' = [todo EXCEPT ![r] = @ \ {b}]
              /\ Goto(r, IF todo[r] = {b} THEN "select" ELSE "filter")
              /\ UNCHANGED <<available, backend, tried, attempt, resp, failedOn>>
        /\ UNCHANGED <<balancerVars, healthVars>>

\* select returns None only for an empty list of selectable rows; the rows
\* are never unhealthy (RowHealth), so that return is dead.
Select(r) ==
    /\ pc[r] = "select"
    /\ \E b \in available[r] :
          /\ SelectBackend(available[r], b)
          /\ backend' = [backend EXCEPT ![r] = b]
    /\ Goto(r, "acquire")
    /\ UNCHANGED <<breaker, healthVars, todo, available, tried, attempt, resp, failedOn>>

Acquire(r) ==
    /\ pc[r] = "acquire"
    /\ AcquireSlot(backend[r])
    /\ attempt' = [attempt EXCEPT ![r] = 0]
    /\ Goto(r, "forward")
    /\ UNCHANGED <<breaker, healthVars, todo, available, backend, tried, resp, failedOn>>

\* ProxyEngine::forward: a 5xx answer or a refused connection is retried
\* while attempts are left.
Retry(r) ==
    /\ pc[r] = "forward"
    /\ attempt[r] < MaxRetries
    /\ attempt' = [attempt EXCEPT ![r] = @ + 1]
    /\ UNCHANGED <<breaker, balancerVars, healthVars,
                   pc, todo, available, backend, tried, resp, failedOn>>

\* ... and otherwise it returns: an answer below 500 or a timeout at any
\* attempt, a 5xx or a refused connection at the last one, another error.
Forwarded(r) ==
    /\ pc[r] = "forward"
    /\ \E outcome \in {"ok", "error"} \union (IF attempt[r] = MaxRetries THEN {"5xx"} ELSE {}) :
          resp' = [resp EXCEPT ![r] = outcome]
    /\ Goto(r, "breaker")
    /\ UNCHANGED <<breaker, balancerVars, healthVars,
                   todo, available, backend, tried, attempt, failedOn>>

\* Mutant: the slot is given back by a statement and not by a guard.
CancelWithoutGuard(r) ==
    /\ pc[r] = "forward"
    /\ Return(r)
    /\ UNCHANGED <<breaker, balancerVars, healthVars>>

\* The handler's future is dropped at the await: the guard goes, no outcome
\* is recorded.
Cancel(r) ==
    /\ pc[r] = "forward"
    /\ ReleaseSlot(backend[r])
    /\ Return(r)
    /\ UNCHANGED <<breaker, healthVars>>

RecordBreaker(r) ==
    /\ pc[r] = "breaker"
    /\ IF resp[r] = "ok" THEN RecordSuccess(backend[r]) ELSE RecordFailure(backend[r])
    /\ Goto(r, "health")
    /\ UNCHANGED <<balancerVars, healthVars,
                   todo, available, backend, tried, attempt, resp, failedOn>>

RecordHealthSuccess(r) ==
    /\ pc[r] = "health"
    /\ resp[r] = "ok"
    /\ ResetCounter(backend[r])
    /\ Goto(r, "restore")
    /\ UNCHANGED <<breaker, balancerVars,
                   todo, available, backend, tried, attempt, resp, failedOn>>

RestoreHealth(r) ==
    /\ pc[r] = "restore"
    /\ RestoreStatus(backend[r])
    /\ Goto(r, "release")
    /\ UNCHANGED <<breaker, balancerVars,
                   todo, available, backend, tried, attempt, resp, failedOn>>

RecordHealthFailure(r) ==
    /\ pc[r] = "health"
    /\ resp[r] # "ok"
    /\ CountFailure(backend[r])
    /\ failedOn' = [failedOn EXCEPT ![r] = @ \union {backend[r]}]
    /\ Goto(r, "release")
    /\ UNCHANGED <<breaker, balancerVars,
                   todo, available, backend, tried, attempt, resp>>

\* The end of the loop body drops the guard.  An answer, 5xx included, is
\* returned; after an error the loop goes on while tried < 2.
Answer(r) ==
    /\ pc[r] = "release"
    /\ resp[r] # "error" \/ tried[r] + 1 = 2
    /\ ReleaseSlot(backend[r])
    /\ Return(r)
    /\ UNCHANGED <<breaker, healthVars>>

\* Mutants: one attempt too many; the attempt is not counted.
TryAgainTwice(r) ==
    /\ pc[r] = "release"
    /\ resp[r] = "error"
    /\ tried[r] + 1 <= 2
    /\ ReleaseSlot(backend[r])
    /\ tried' = [tried EXCEPT ![r] = @ + 1]
    /\ Goto(r, "select")
    /\ UNCHANGED <<breaker, healthVars, todo, available, backend, attempt, resp, failedOn>>

TryAgainUncounted(r) ==
    /\ pc[r] = "release"
    /\ resp[r] = "error"
    /\ tried[r] + 1 < 2
    /\ ReleaseSlot(backend[r])
    /\ Goto(r, "select")
    /\ UNCHANGED <<breaker, healthVars, todo, available, backend, tried, attempt, resp, failedOn>>

TryAgain(r) ==
    /\ pc[r] = "release"
    /\ resp[r] = "error"
    /\ tried[r] + 1 < 2
    /\ ReleaseSlot(backend[r])
    /\ tried' = [tried EXCEPT ![r] = @ + 1]
    /\ Goto(r, "select")
    /\ UNCHANGED <<breaker, healthVars, todo, available, backend, attempt, resp, failedOn>>

Clock == Elapse /\ UNCHANGED <<balancerVars, healthVars, requestVars>>

Probe ==
    /\ \E b \in Backends : ProbeReturns(b) \/ ProbeResetsCounter(b)
    /\ UNCHANGED <<breaker, balancerVars, requestVars>>

\* What a task that has begun does without its client or the clock.
Run(r) ==
    \/ KeepAvailable(r) \/ SkipOpen(r) \/ Select(r) \/ Acquire(r)
    \/ Retry(r) \/ Forwarded(r)
    \/ RecordBreaker(r) \/ RecordHealthSuccess(r) \/ RestoreHealth(r)
    \/ RecordHealthFailure(r) \/ Answer(r) \/ TryAgain(r)

Next ==
    \/ \E r \in Requests : Begin(r) \/ Run(r) \/ Cancel(r)
    \/ Clock
    \/ Probe

Spec == Init /\ [][Next]_vars

(***************************************************************************)
(* The runtime polls every task that is ready; an attempt is over within   *)
(* the client's timeout (ProxyConfig); time passes.  Clients need neither  *)
(* come nor stay.                                                          *)
(***************************************************************************)
Fairness ==
    /\ \A r \in Requests : WF_vars(Run(r))
    /\ WF_vars(Clock)

FairSpec == Spec /\ Fairness
-----------------------------------------------------------------------------
TypeOK ==
    /\ BreakerTypeOK
    /\ BalancerTypeOK
    /\ HealthTypeOK
    /\ pc \in [Requests -> Steps]
    /\ todo \in [Requests -> SUBSET Backends]
    /\ available \in [Requests -> SUBSET Backends]
    /\ backend \in [Requests -> Backends \union {Unselected}]
    /\ tried \in [Requests -> 0..1]
    /\ attempt \in [Requests -> 0..MaxRetries]
    /\ resp \in [Requests -> {"none", "ok", "5xx", "error"}]
    /\ failedOn \in [Requests -> SUBSET Backends]

Holds(r, b) ==
    /\ pc[r] \in {"forward", "breaker", "health", "restore", "release"}
    /\ backend[r] = b

(***************************************************************************)
(* The connection count of a backend is the number of requests that are    *)
(* between acquire and the drop of the guard on it: no path through the    *)
(* retries, the fallback, the error returns or a dropped client leaks or   *)
(* releases a slot twice (ConnectionGuard, load_balancer.rs).              *)
(***************************************************************************)
ActiveIsInFlight ==
    \A b \in Backends : active[b] = Cardinality({r \in Requests : Holds(r, b)})

(***************************************************************************)
(* The breaker, driven by concurrent requests that record late and out of  *)
(* order, keeps the promise of BreakerPromise.                             *)
(***************************************************************************)
Promise == INSTANCE BreakerPromise WITH
    mode <- [b \in Backends |-> CASE breaker[b].state = "Closed" -> "closed"
                                  [] breaker[b].state = "Open" -> "cut"
                                  [] breaker[b].state = "HalfOpen" -> "trial"],
    run <- [b \in Backends |-> IF breaker[b].state = "Closed" THEN breaker[b].failures ELSE 0],
    quiet <- [b \in Backends |-> breaker[b].age]

ImplementsPromise == Promise!Spec

(***************************************************************************)
(* A request that entered forward_to_pool leaves it, whatever the upstream *)
(* does at every attempt (the loops of engine.rs and proxy.rs end).        *)
(***************************************************************************)
RequestCompletes == \A r \in Requests : pc[r] # "idle" ~> pc[r] = "idle"

(***************************************************************************)
(* A breaker does not stay open for ever on a backend that keeps being     *)
(* asked for: the rejected requests themselves do not keep it open, and    *)
(* the requests admitted before it opened run out.                         *)
(***************************************************************************)
OpenBreakerRecovers ==
    \A b \in Backends :
        []<>(\E r \in Requests : b \in todo[r])
        => (breaker[b].state = "Open" ~> breaker[b].state # "Open")

\* From some time on every answer b gives to a request is a failure, and it
\* keeps being used.
KeepsFailing(b) ==
    /\ <>[](\A r \in Requests : ~(Holds(r, b) /\ resp[r] = "ok"))
    /\ []<>(\E r \in Requests : Holds(r, b) /\ pc[r] = "release")

(***************************************************************************)
(* A backend that keeps failing, and that from some time on no probe finds *)
(* healthy, is published as unhealthy again and again, although successes  *)
(* and probes of before may reset the counter late and other probes may    *)
(* overwrite the status.  (A probe that finds it healthy clears the count: *)
(* of a backend whose /health answers, what operations.md:130 says,        *)
(* "Passive tracking also flips the status", is not so.)                   *)
(***************************************************************************)
FailingBackendIsPublished ==
    \A b \in Backends :
        KeepsFailing(b) /\ <>[](b \notin probing) => []<>(status[b] = "Unhealthy")

(***************************************************************************)
(* engine.rs:44 "Load-balance among remaining healthy backends": a request *)
(* is not given a backend the health checker holds unhealthy.              *)
(***************************************************************************)
SelectsHealthy ==
    [][\A r \in Requests :
          pc[r] = "select" /\ pc'[r] = "acquire" => status[backend'[r]] # "Unhealthy"]_vars

(***************************************************************************)
(* engine.rs:47 "On failure, try the next backend (if available)": a       *)
(* request whose second attempt ended in an error too has failed on two    *)
(* backends, or on all that were available.                                *)
(***************************************************************************)
FailsOverFirst ==
    [][\A r \in Requests :
          pc[r] = "release" /\ pc'[r] = "idle" /\ resp[r] = "error" =>
              Cardinality(failedOn[r]) >= 2 \/ available[r] \subseteq failedOn[r]]_vars
=============================================================================
