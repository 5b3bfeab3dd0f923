# Sentinel Gateway: TLA+ models, checks and proofs

Sentinel Gateway (Rust, `src/backend/crates`) is a multi-tenant API and LLM
gateway: it resolves the tenant and the identity of a request, applies
policies (IP filter, budgets, rate limits), forwards it to an upstream server
through circuit breakers and a load balancer, and records usage, audit events
and health on the way. Handlers are tokio tasks on several threads; they share
`DashMap`s (one lock per shard), mutexes and atomics inside the process, and
Redis and PostgreSQL with the other replicas. A handler's future is dropped when
its client goes away, so every `await` is a place where a request may end.

## 1. Inventory

| Component (crate) | State | Operations | Talks to | Hard behaviour | Makes it correct |
|---|---|---|---|---|---|
| Circuit breaker (`gateway-core`) | per backend: state, failure count, time of last failure | `is_open`, `record_success`, `record_failure` | gateway engine | late and interleaved records, half-open, time | cuts off after n failures in a row, tries again after the timeout, decides on the trial's first outcome |
| Health checker (`gateway-core`) | status map, failure counters | probe worker, `record_success`, `record_failure` | engine, admin API | two maps under two locks, probes racing requests | a backend that only fails is published |
| Load balancer (`gateway-core`) | strategy, counter, active connections | `select`, `acquire`, guard drop | engine | counter width, guards on every path | counts equal requests in flight; shares by weight |
| Gateway engine, proxy engine (`gateway-core`) | locals of each request | `forward_to_pool`, `forward` | the three above, upstream | nested retries, fallback, dropped clients | terminates; fails over; drives the parts correctly |
| Rate limiter (`gateway-policy`) | buckets or windows in memory; counters in Redis | `check`, cleanup worker | Redis | refill, idle cleanup, fixed windows, lost answers | grants in a window bounded; no lock-out |
| Budget enforcer (`gateway-policy`) | spend per day, week, month; Redis expiries | `check`, `record` | Redis | check and record far apart, midnights, failed calls | overshoot bounded; a counter lasts to the last second of its period |
| Policy engine, proxy handler (`gateway-policy`, `gateway-server`) | locals, detached recorder | `evaluate`, `record_usage`, `proxy_handler` | all the above, cache, repositories | order of checks, recorder after the answer | documented limits are enforced |
| API keys and cache (`gateway-auth`) | cache with expiry, rows | lookup, insert, revoke, cleanup | database | revocation against the cache, shard locks | a revoked key stops; no deadlock |
| Token lifecycle (`gateway-auth`) | JTI blacklist, attempts and lockout of the account | login, refresh, logout, cleanup | database | check-then-act on blacklist and row | revoked tokens are rejected and exchanges bounded until `exp`; guesses bounded |
| Audit log, webhooks (`gateway-audit`) | channel, buffer, deliveries | `log`, flush, dispatch, retry, test | database, HTTP | full channel, failed flush, stop, slow endpoints | append-only, in order, nothing in between is lost unnoticed |
| LLM log, data lake, trace export (`gateway-audit`, `gateway-server`) | channel, batch, files; rows | push, flush, rotate, page, retain | database, files, HTTP | failed writes, ties, late commits, retention | an entry is in one place; a reader's pages are exact |
| LLM routing and cache (`gateway-llm`) | routes, aliases, counters; cache entries | `select`, `register_provider`, `get`, `put`, `evict_oldest` | completions handler | size check without lock, expiry, aliases | every provider of a route takes turns; bounded cache; no answer crosses tenants |
| MCP (`gateway-mcp`) | registry, clients | connect, refresh, disconnect, call | upstream MCP servers | two maps written one after the other around awaits | what is listed can be called |
| Guardrails (`gateway-policy`) | rules, pipeline, embedding cache | CRUD, build, run, `embed_cached` | embedder | order, redaction before matching, full cache | verdict and redaction follow the order of rules; cache bounded from a size of ten on |
| Plugins (`gateway-plugin`) | registry | register, unregister, run a phase | handlers | snapshot against updates | each at most once, in order |
| License activation (`gateway-license`) | key, status, features | activate, heartbeat, deactivate | license server | refusals that look like failures, overlapping calls | revocation takes hold where the key does not verify offline; refusals name the right plan |
| Tenant license, usage reports (`gateway-license`) | two cache levels per replica, last report | resolve, set, refresh, invalidate, report | database, Redis, platform | cache races, lost answers, crash before the mark | caches converge; no usage lost |
| Tenant resolution, platform sync (`gateway-tenant`) | cache by id and slug; rows of the link | resolve, create, update, invalidate; register, unlink, push, pull | database, platform | fill against invalidation; rows written one by one | the entry under an identifier is stale only after a race (the one under a slug stays stale until the process ends); linked as a whole |
| Quotas (`gateway-tenant`, handlers) | users, backends, API keys of a tenant | count, create, update, deactivate, provision | database | count and insert are two statements; the count is of the caller's tenant, the quota of the context's | what passes a tenant's own quota is bounded |
| SSO (`gateway-auth`, `gateway-db`) | providers, states, identities | authorize, callback, link | identity provider | repeated and concurrent callbacks | one login per state |
| Prompts (`gateway-db`) | versions, labels | create, deploy, delete, resolve | database | concurrent statements, numbers used again | a label keeps its content |
| Everything else | - | - | - | - | pure I/O, parsing, wiring, user interface: `PROJECT.json` says why for each |

## 2. The modules

| Module | Models | Role |
|---|---|---|
| `Backend` | the list of a tenant's backends | shared constant |
| `CircuitBreaker` | `circuit_breaker.rs` | component |
| `BreakerPromise` | what a breaker promises | abstract specification |
| `LoadBalancer` | `load_balancer.rs` | component |
| `HealthChecker` | `health.rs` and its worker | component |
| `GatewayEngine` | `engine.rs` `forward_to_pool`, `proxy.rs` `forward` | composes the four above |
| `GatewayEngine_proofs` | - | theorems |
| `RateLimiter` | `rate_limiter.rs`, cleanup worker | component |
| `BudgetEnforcer` | `budget.rs` | component |
| `ProxyHandler` | `handlers/proxy.rs`, `gateway-policy/engine.rs` | composes the two above |
| `ApiKeyAuth` | `middleware.rs` `authenticate_api_key`, `api_key_cache.rs`, the handlers that change keys and roles | component |
| `LoginLockout` | `handlers/auth.rs` `login`, the queries of `user.rs` | component |
| `TokenLifecycle`, `TokenLifecycle_proofs` | `jwt.rs`, `token_blacklist.rs`, `refresh` and `logout` | component, theorems |
| `AuditPromise` | what the audit table promises | abstract specification |
| `AuditPipeline` | `service.rs`, `webhook.rs` of `gateway-audit` | component, refines `AuditPromise` |
| `LogSink`, `LogPages` | `llm_log_service.rs`, `data_lake.rs`, `observability_export.rs`; `audit_log.rs`, `llm_log.rs` and their handlers | components |
| `Plans`, `LicenseActivation` | `features.rs`; `activation.rs`, `validator.rs`, `client.rs` and the feature gate | tables of plans; component |
| `TenantLicense`, `UsageReporter` | `tenant_license.rs` and its handlers; `usage_reporter.rs` | components |
| `TenantService`, `PlatformSync` | `service.rs`, `handlers/tenants.rs`; `sync.rs`, `handlers/sync.rs` | components |
| `LlmRouter`, `Completions` | `router.rs`; `handlers/llm.rs`, `cache.rs`, `privacy.rs` | components |
| `TenantQuotas`, `SsoLogin`, `Prompts` | `handlers/users.rs`, `backends.rs`, `api_keys.rs`; `sso.rs`, `handlers/sso_auth.rs`; `prompt.rs`, `handlers/prompts.rs` | components |
| `Mcp` | `server.rs`, `registry.rs`, `client.rs` of `gateway-mcp` | component |
| `Guardrails`, `SemanticPolicy`, `Plugins` | `guardrails.rs`, `guardrails_build.rs`, `handlers/guardrails.rs`; `semantic.rs`; `gateway-plugin` | components |
| `Proxy_proofs` | - | theorems on `RateLimiter`, `BudgetEnforcer` and `ProxyHandler` |
| `Auth_proofs` | - | theorems on `LoginLockout` and `ApiKeyAuth` |
| `Audit_proofs` | - | theorems on `AuditPipeline`, `LogSink` and `LogPages` |
| `Platform_proofs` | - | theorems on `UsageReporter`, `PlatformSync` and `LicenseActivation` |
| `Tenant_proofs` | - | theorems on `TenantQuotas`, `SsoLogin` and `TenantService` |
| `Llm_proofs` | - | theorems on `Mcp`, `SemanticPolicy`, `Completions`, `Prompts`, `LlmRouter`, `Guardrails` and `Plugins` |
| `MC_*` | - | values for the runs; `MC_Progress`, `MC_Admission`, `MC_Bounds` and `MC_Services` explore one of several independent components, chosen at the start |

**Engine.** `pc[r]` is the place of request `r` in `forward_to_pool`; each access
to a shared map, each outcome of an attempt and each drop of a future is a step.
The filter asks the breaker backend by backend (`KeepAvailable`, `SkipOpen`), so
the list it returns (`available`) may be stale when `Select` uses it. Time is
the age of the last failure of an open entry (`Elapse`); ages past the timeout
are all alike, and so are counts past a threshold, which makes the state finite
without a bound on the run. The health checker's `record_success` touches two
maps under two locks and is two steps; `record_failure` holds the counter's
lock to its end and is one. `select` reads `backends.health_status` of the row,
which nothing updates: `RowHealth` is the column's default.

**Policies.** A request of `ProxyHandler` checks the budget, then the limit, then
goes upstream; `record_usage` spawns a task, so after `Answered` the same `pc[r]`
is the place of that recorder, which the client cannot cancel. The rate limiter
is one of the three the code has (`main` builds the token bucket or Redis; the
sliding window is the other public constructor). A tick of the limiter and a day
of the budget are separate clocks: no operation reads both. The times of the requests a
window remembers, and of those granted, are kept as how many are no older than
each age. A day has two parts, its last second (`ending`) and what is before it,
because the seconds an expiry is set to are rounded down: a counter meant to last
to a midnight lapses within the second before it (`Lapse`), and one recorded
within that second lapses just after it, when its period is over. Redis calls may fail
before or after they took effect (`ScriptFails`, `LoseCount`, `AddSpend`).

**Authentication.** `ApiKeyAuth` has one shard of the cache: `get` is `Hit`,
`Miss` or `HitExpired`; a miss awaits two queries and inserts what they said,
whatever happened to the row meanwhile. `HitExpired` ends in a place nothing
leaves, and no writer passes while a request is there (`Writable`).
`LoginLockout` is one account: `ReadRow` decides on the row, `Verify` looks at
the password, `Count`, `Lock` and `Reset` are one query each. `TokenLifecycle`
has a token per id with the ticks left to its `exp`, negative during the leeway;
`is_revoked` is `Check` and, for an expired entry, `Unlist`, which removes by id.
The blacklist is in the memory of one process: `Restart` empties it, and `revoked`
and `uses` with it, so what is said of revoked tokens and of exchanges is said
since the gateway started. In the leeway the entry of a used token has no time to
live and nothing bounds the exchanges; `ExchangesBounded` ends at `exp`.
`revoked`, `uses` and `tried` are histories the properties read; no guard does.

**Audit and logs.** The audit writer is one task: `writer` is its place in the
`select!` loop, `channel`, `taken`, `buffer` and `batch` are where an event may
be on its way to `auditRows`. Deliveries run beside it, with their retries.
`LogSink` is one of the three sinks of an LLM request, with what each does when
a write fails; what an error of the LLM log increments (`writeErrors`) is not
what `/metrics` shows (`ExposedCounter`). In `LogPages` a transaction stamps its
rows when it begins and shows them when it commits, so rows tie and come late.

**Licences and platform.** A call of `LicenseActivation` is started, answered by
the platform and returned, and several overlap; the status is written when it
returns. A platform that refuses is a failed call to `activate`, which falls
back to the offline validator where there is one (`KeyStandsAlone`).
`TenantLicense` has a memory cache for each replica, one Redis and one row; a
task takes one step for each await. In `UsageReporter` and `PlatformSync` every
query is a step that may fail, and the process may stop between two. `owed`,
`linked`, `raced`, `crossed`, `outside`, `overlaps` and `withdrawn` are
histories the properties read; no guard does.

**Tenants and handlers.** A handler that reads, awaits and writes is two steps or
more (`CountRows` and `Create`, `Find` and `Fill`, `ConfirmVersion` and `Deploy`,
`GetBackend` and `UpdateBackend`); what another handler does in between is what
the properties are about. A handler of `TenantQuotas` holds the table it adds to,
which is its caller's, and the tenant whose quota let it. `Completions` splits
`put` at each lock it takes; its cache key joins the parts of a request with
nothing in between, as the hash takes them.

## 3. The runs

| Run | Question | Bounds | Result |
|---|---|---|---|
| `engine_pool` | safety of the pool | 2 requests, 2 backends, threshold 2, recovery 0, 1 retry, least-connections; probes that find a backend unhealthy (`progress` has them all; nothing the properties read depends on a probe); requests are symmetric | `TypeOK`, `BreakerConsistent`, `ActiveIsInFlight`, `ImplementsPromise` hold |
| `progress` | what must get done | engine as called in production: 2 requests, the route's backend, threshold 2, recovery 1, 1 retry in each of the two attempts, passive threshold 2, probes for ever; audit: 2 events, 1 endpoint, channel of 1, batch of 2, 2 attempts; licence: 2 plans, 4 days, grace of 1 | `RequestCompletes`, `OpenBreakerRecovers`, `FailingBackendIsPublished`, `AuditTypeOK`, `KeepsPromise`, `EventsSettle`, `RevocationTakesHold`, `RefusalsName` hold |
| `engine_health` | "among remaining healthy backends" | 2 backends | violated: health is not read |
| `engine_fallback` | "try the next backend (if available)" | 2 requests, round-robin, 1 retry | violated: after an error the same backend is selected again, fails again, and the request ends in an error |
| `balancer_weights` | shares by weight | cast to 4 bits, counter of 6 bits | violated past the cast |
| `bounds` | what is checked some awaits before it is counted | spend: 2 requests of one key, token bucket, spend in Redis, 2 days, 1 fault; logins: 3, limit 2, lockout 2, 1 lost query; tokens: 2 requests, 4 tokens, lives 1 and 2, leeway 1, 1 restart; the requests, of the budget and of the tokens, are symmetric | `SpendKept`, `OvershootBounded`, `LoginTypeOK`, `GuessesBounded`, `TokenTypeOK`, `ExchangesBounded`, `RevokedRejected` hold |
| `proxy_budget` | the daily budget blocks | 2 requests of one key, spend in Redis, daily 1, monthly 3, 1 fault | violated: the daily budget is the soft limit |
| `admission` | what lets a request in | keys: 2 keys, 2 requests, 2 roles, time to live 2; licences: 2 replicas, 2 tasks, times to live 1 and 2, 1 fault; limits: 2 requests of one key, the three limiters, 1 rpm, a window of 2 ticks, spend in memory, 1 day, 2 faults | `KeyTypeOK`, `StaleAnswersEnd`, `CachesConverge`, `TypeOK`, `GrantsBounded`, `GrantedAgain` hold |
| `services` | safety of the services around the proxy | two actors in each (three for `Mcp` and `TenantQuotas`, one phase for `Plugins`); the other values are in `services.cfg` | `EntriesInOnePlace`, `PagesExact`, `OwedIsReported`, `OnlyRacesStale`, `LinkedWhole`, `AllTakeTurns`, `HitsStayHome`, `CacheBounded`, `QuotaHolds`, `OneLoginPerState`, `LabelsKeepContent`, `ListedIsConnected`, `PipelineInOrder`, `EmbedCacheBounded`, `OnceInOrder` hold |
| `license_revoked` | "degrades to Community features immediately" | 2 plans, no day passes; the other parts of `MC_Progress` at their smallest | violated: the key verifies offline |
| `auth_lookup` | "Returns `None` if missing or expired" | 1 key, 1 request | violated: the lookup never returns |
| `auth_leeway` | "rejected until they would have expired naturally" | 1 request, 2 tokens, leeway 1, no restart | violated between `exp` and the leeway's end |

Why the bounds are enough. Two requests are the least that interleave, and each
pair of conflicting accesses is between two; a breaker threshold of 2 separates
"one failure" from "cut off"; a recovery time of 1 separates age below, at and
above it (with 0, the entry that has just opened and the one whose timeout is
over remain). `proxy_handler` filters the list down to the one backend of the
route (`proxy.rs:139-142`), which is what `progress` uses, while `engine_pool`
checks the contract of `forward_to_pool` for lists. In `progress` both loops of
a request are gone through more than once, and the health worker, whose probes
are not bounded, meets two requests at once; `engine_pool`, whose requests
choose a backend without its health and whose properties do not speak of it, has
the probes of one answer. The limiter's window of 2 ticks has an inside, an end and an outside;
the idle threshold equals the window, below which `GrantsBounded` fails and
above which it can only be easier (the code has 300 s against 60 s). The two
days are a Monday and a Tuesday with the month ending after them, so a midnight
falls between any two steps, and so does the last second before it. The limiters
and the budget in Redis are explored apart, since no operation reads both.
`FaultLimit` bounds the Redis calls that fail in a run, `FirstDay..LastDay` the
calendar. A time to live of 2 gives the key cache fresh, older and expired
entries. Three logins leave two others in flight when one locks;
`LoginFaultLimit` bounds the queries lost, and attempts above the limit are all
alike. Four tokens are a login and one exchange; a refresh token that outlives
an access token tells their entries apart; `Jtis` and `RestartLimit` bound what
is issued and how often the gateway restarts.

The services: a channel of 1 is full after one event and a batch of 2 is left
incomplete by a stop; three rows with two times give a tie, and a page of one
row puts the cursor inside it. Two hours of records against a report give one
before, one during and one after the pass. Two registrations let an earlier one
lie half written under a later one. A response cache of 1 entry is the smallest
that two handlers overfill; three selections are the fewest that could be uneven
for two providers, of two priorities. A quota of 1 is passed by two handlers
that both counted 0 and by three with two of them under the other tenant's
quota, which is 2. The requests for completions are of two tenants and include
two whose parts run together to one key. The three MCP requests are a connection
or refresh, a disconnection that crosses it and another request after both. The
embedding cache has the smallest size at which something is evicted, 10, and
there is one text more. A word of a content has a size, and what it is redacted
to another, so a length rule after a redaction may forbid what it allowed
before. The plugins have ties of kind and of priority, a replacement and a
disabled one; the rules cover every kind, stage and mode. `EntryLimit`,
`EventLimit`, `LastTime`, `EndOfTime`, `LastDay`, `AnswerLimit`, `TurnLimit`,
`ContentLimit`, `ReactivateLimit`, `FaultLimit` and `LicenseFaultLimit` bound
what would grow without end.

Deadlock is checked in `engine_pool` and `bounds` and in the runs that expect a
violation but one, where a new request may always come; `progress`, `admission`,
`services` and `license_revoked` have bounds that a part may use up, and switch
the check off. The components of one of these runs share no variable, so exploring
one at a time loses no behaviour a property could see.

**Fairness.** `WF_vars(Run(r))`: tokio polls every task that is ready, and an
attempt upstream ends within the client's timeout (`ProxyConfig`), retries sleep
a bounded time. `WF_keyVars(KeyRun(u))`: likewise, and the queries answer; a
thread that waits for itself has no step to be fair to, so it is no
counterexample to `StaleAnswersEnd` (the model has a thread left for every other
request). `WF_vars(Clock)`, `WF_vars(Seconds)` and `WF_keyVars(AgeCache)`: time
passes. `WF_auditVars(Writer)`: the task of the audit writer is polled; nothing
is assumed of the endpoints, so `EventsSettle` holds although a delivery may
never end. `ActivationFairness`: the worker's timer fires, and the client's
timeout ends a heartbeat's call. `TenantLicenseFairness`: awaited calls return
and entries age. Nothing is assumed of clients (`Begin`, `Cancel`, `Present`),
of probes, of administrators, or of the choice among outcomes. Where a property
needs some of it, it is a hypothesis inside the formula: the demand of clients
in `OpenBreakerRecovers` and `GrantedAgain`; in `FailingBackendIsPublished` that
from some time on no probe is about to clear the backend's counter, as with one
that answers `/health` with an error too (without it the property fails: a
backend whose `/health` answers is never published); in `RevocationTakesHold`
that the key does not verify offline (`license_revoked`).

## 4. What the runs showed

Seven statements of the repository are refuted by runs of their own;
`PROJECT.json` quotes each under "findings":

- passive and active health never influence selection (`engine.rs:44`),
- after an error the second attempt may go to the backend that just failed
  (`engine.rs:47`; on the production path it always does, the list has one
  backend; a 5xx answer is returned without a second attempt),
- weighted round-robin degenerates after 2^31 picks (`load_balancer.rs:89`),
- `budget_daily` does not block (`rate-limiting.md:168`),
- the lookup of an expired API key blocks its thread for ever
  (`api_key_cache.rs:35`),
- a revoked token is accepted again during the validation's leeway
  (`token_blacklist.rs:6`), and a refresh token used then is never blacklisted,
- a revoked licence whose key verifies offline keeps its plan
  (`operations.md:235`).

Others are why a property says less than a comment or a document does; the model
has the behaviour, and the property stops where the code does:

- Passive tracking does not flip the status of a backend whose `/health` answers
  (`operations.md:130`): every probe that finds it healthy clears its count, and the
  worker probes for ever. `FailingBackendIsPublished` takes it that none does.
- The week's counter expires as its Monday ends (`budget.rs:58` says "Seconds until
  next Monday"; nothing reads it today). `SpendKept` is about the day and the month.
- The counter of lost LLM log entries is not the one on show
  (`llm_log_service.rs:7`): `Metrics::new()` registered the name first.
  `EntriesInOnePlace` says nothing of the counter.
- Providers of every priority take turns (`router.rs:78` says those of equal
  priority); `AllTakeTurns` says so.
- The fingerprint of a request does not tell its messages apart (`cache.rs:42`):
  role, content, model and limits are hashed with nothing in between, and content
  that is not a string is skipped. A hit of `HitsStayHome` is of the same tenant and
  fingerprint, and maybe of another request.
- An embedding cache of a size below ten, which `with_cache_size` takes, is never
  evicted from (`semantic.rs:413`). `EmbedCacheBounded` begins at ten.
- The count of a quota is of the caller's tenant and the quota of the context's, and
  nothing compares the two (`api_keys.rs:66`, `users.rs:79`). `QuotaHolds` bounds
  what was held to the tenant's own quota; the rest is counted in `outside`.
- In the leeway the entry of a refresh token that is exchanged lives for 0 seconds,
  so it can be exchanged again (`auth.rs:227`). `ExchangesBounded` ends at `exp`.

Met on the way, without a run of their own: `operations.md:141` promises a 503
when all breakers are open and the handler answers 502; the limits of API keys
are never found in the cache (`proxy.rs:41`); `api-reference.md:104` says a
revoked key is rejected immediately, and it is served until its cache entry
expires. Further:

- `security.md:83` promises a dead-letter queue; a delivery given up is only
  logged (`webhook.rs:70`) and nothing writes `webhook_failures`.
- `handlers/guardrails.rs:3` says the rules are loaded into the pipeline at
  request time; only the endpoint that tests them builds one, and completions
  are sent without.
- An update or a deletion of a tenant drops its cache entry by identifier and
  not the one by slug (`service.rs:99-101`), which is served until the process
  ends, without any race. `OnlyRacesStale` is about the entry by identifier.
- A version number of a prompt that is deleted comes back with the next
  version, under a label that was never moved. `LabelsKeepContent` excepts it.
- A disconnection that crosses a refresh leaves an MCP server listed whose calls
  answer "Backend not connected"; `crossed` in `Mcp` counts exactly these.
- Data-lake rows that cannot be written are dropped and not counted at all.
- `registry.rs:65` says observers run concurrently; they run one after the other.
- Single sign-on finds the user by the e-mail the provider names, never by the
  linked identity: whoever changes the e-mail logs in as another user.
- Setting a tenant's licence over an existing one stores the plan and its flags
  and not the new key (`admin.rs:246`).

## 5. What is proved

`GatewayEngine_proofs`, for any finite set of requests and backends, any
thresholds, timeouts, weights, widths and lists, from the assumptions named in
the modules (`BackendAssumption`, `BreakerAssumption`, `BalancerAssumption`,
`HealthAssumption`, `EngineAssumption`):

- `TypeCorrect`: `Spec => []TypeOK`. `TypeOK` alone is not inductive: an action
  on `backend[r]` keeps types only if a backend has been selected, so the
  invariant is `TypeInv == TypeOK /\ TargetOK`. The lemmas `StepOfBreaker`,
  `StepOfBalancer` and `StepOfHealth` say what a step of the system is to each
  part, once, and the type lemmas of the parts do the rest.
- `BreakerIsConsistent`: an entry is closed exactly while its count is below
  the threshold. Inductive with the types.
- `BreakerImplementsPromise`: the refinement. It needs `BreakerIsConsistent`:
  only because the count is kept at the threshold while half-open does a failure
  of the trial cut the backend off again in one step.
- `ActiveCountsInFlight`: the count of a backend is the cardinality of the set
  of requests holding a slot on it; `HolderJoins` and `HolderLeaves` say how
  that set changes when a request moves.

`Auth_proofs`, for any limit, duration and finite set of logins
(`LoginAssumption`): `LoginTypeCorrect`, and `GuessesAreBounded`. The bound is
not inductive, since it says nothing of the guesses already made and not yet
counted. `Accounted` does: while the account is open the guesses are those in the
row (short of the limit), those pending between `Verify` and `Lock`, and the lost
queries; while it is locked, every login that holds a password from before has
at most one guess left. Pending logins are spent ones, so both are within the
number of logins. `KeyTypes` (`KeyAssumption`) needs that a request about to
insert holds a role that was found (`KeyInv`).

`TokenLifecycle_proofs`, for any lives, leeway, ids, restarts and finite set of
requests (`TokenAssumption`): `TokenTypeCorrect`; `RevokedAreRejected`, from the
invariant that a revoked token with time left has an entry with as much
(`ListedWhileAlive`) and that a request about to remove an entry works on a
token past its `exp` (`WorksOnIssued`), without which the removal could take a
fresh entry; and `ExchangesAreBounded`, because a token with life left that
nobody revoked was let through only for requests still about to revoke it
(`UsesPending`), and a life never grows again (`LivesShrink`). It ends at `exp`:
in the leeway the code bounds nothing.

`Platform_proofs`, for any records, hours, registrations and calls
(`UsageAssumption`, `SyncAssumption`). `OwedGetsReported`: a pass is followed from
its query to the mark (`PassHolds`): what was there when it began is found,
because a record that is there stays there (`SinceGrows`), and what is found is
received before the mark. `LinksAreWhole`: a registration that nobody disturbed is
the only call that writes or deletes (`AloneWrites`), so when it writes its last
row the ones before are its own, and no call is left that could change them
(`LinkedAtRest`). `RefusalsNamePlan` is a fact about two tables that are written
apart, the flags of a plan and the least plan of a flag (`PlansServe`); the
invariant `ActivationInv` carries it through calls that overlap: what is stored
is granted by its plan, and what is on file or under way overrides no other flag.

`Tenant_proofs`, for any quota, rows, handlers, states and callbacks
(`QuotaAssumption`, `SsoAssumption`, `ProviderAssumption`). `QuotasHold`: what a
table holds and the handlers about to add to it under its own tenant's quota are
together within the quota, the other handlers, and the rows nobody held to that
quota (`RoomLeft`): a handler joins them only when the count has room, and an insert
adds one to the count of its moment (`BecomesActiveAddsOne`, on cardinalities).
`StatesLogInOnce`: a state is held by one callback at most, is spent while it is
held, and has logged nobody in before (`HeldOnce`). `StaleOnlyByRaces`
(`TenantAssumption`): of a tenant that is neither being written nor raced, every
request about to fill the cache holds the row as it is (`HeldIsRow`), and one that
was never written has no entry and no such request (`NeverWritten`).

`Proxy_proofs`, for any keys, limits, window, prices, budgets, calendar, faults
and any finite set of requests (`LimiterAssumption`, `BudgetAssumption`,
`ProxyAssumption`):

- `LimitsHold`: `GrantsBounded` says nothing of the entry a grant came from, so
  each limiter has an invariant for every age within the window (`LimiterInv`).
  A bucket gave no more than it had and what was refilled since, and nothing
  while it was idle (`BucketHolds`); a sliding window remembers every recent
  grant (`LogHolds`); the counter of Redis has counted the grants of the window
  under way, and those of the one before are no more than a limit
  (`TallyHolds`). That `IdleThreshold >= Window` is an assumption, and needed:
  a worker that dropped buckets sooner would hand out full ones. The code has
  300 and 60 seconds.
- `BudgetKept`: the counters of the day and of the month are due at the end of their
  period, in its last second or at the midnight after it, or never (`DueAtEnd` in
  `BudgetInv`; `MonthEnds`), so what Redis deletes while the period lasts it deletes
  in that second (`LapsesAtEnd`). Of the week nothing of the kind is true.
- `SpendBounded`: one step at a time, the spend and what is pending grow together
  only when a request passes the check, and then the spend was within its hard
  limit; each other step keeps their sum, or costs a fault. With the types,
  `ProxyTypes`.

`Audit_proofs` (`AuditAssumption`, `SinkAssumption`, `PageAssumption`).
`EventsInPlace` and `AuditKeepsPromise`: what is on the way is taken apart into
channel, hand, buffer, batch and table, each ascends, each comes before the next,
and with the lost ones they are the events given (`PipeInv`); so every step of the
writer is a `Record`, an `Offer` or a stutter of `AuditPromise`. `EntriesStayInPlace`:
an entry of a sink is in one place (`SinkPlaces`), though batches are written beside
one another. `PagesAreExact`: no row seen or
on the page is after the cursor, and every row expected is seen or after it
(`PageInv`); a page is the first rows after the cursor, which takes the lemmas on
the finite set of rows ahead of a row (`AheadCounts`).

`Llm_proofs`:

- `ListedAreConnected` (`McpAssumption`) needs that an identifier is nobody
  else's until its entry is written (`FreshIsNew`, `FirstIsAlone`), and that what
  is listed again while a disconnection is half done was crossed
  (`DropsAreCrossed`): without it the end of the disconnection would leave an
  entry nobody accounts for.
- `EmbeddingsBounded` (`SemanticAssumption`, which says nothing of the capacity):
  the tenth that is dropped from a full cache is at least one if the capacity is ten
  at least; `SmallCachesOnlyGrow`: below ten, which `with_cache_size` takes too,
  no step drops anything.
- `HitsAreHome`, `CacheStaysBounded` (`CompletionsAssumption`): an entry is kept
  under the key of the request it answers (`EntriesAtHome`), so a hit is of the
  same tenant and the same fingerprint (which may be of another request); and
  who is about to insert has room, or is about to remove an entry, or somebody
  else has removed that entry and made the room (`RoomToInsert`).
- `LabelsStandForContent` (`PromptsAssumption`): what an editor has read of a
  version holds until the version is deleted (`ReadersStand`), and no number is
  drawn twice but after a deletion (`NumbersFit`).
- `AllGetTurns` (`RouterAssumption`): since a route became what it is every
  provider, whatever its priority, had `b` turns, and those that the round under
  way has come to one more (`InTurn`). The place is the counter modulo the
  length; the lemmas `DivisionAndRest`, `RestIsUnique` and `NextPlace` do the
  division.
- `PipelineFollowsRanks` (`GuardrailAssumption`): after its first `k` guards a
  pipeline has blocked if and only if one of them forbids, and otherwise holds
  what they have left (`ComesTo`); by the least `k` for which it failed. That the
  guards are in order, each once, is `AnOrderExists`: a finite set has a list in
  any total order. Redacting twice is redacting both (`RedactTwice`).
- `PluginsOnceInOrder` (`PluginAssumption`): the snapshot lists what stayed, once
  and in order (`SnapshotHolds`), what was executed is from the part gone through
  (`InOrder`), and nothing of that part that runs in the phase was left out
  (`NoneLeftOut`).

Every invariant a passing run checks is proved. Induction on a number, where it is needed
(a chain of guards, a multiple), is by the least counterexample, from the
well-foundedness of `<` (`LeastNat`).

Only model-checked: the liveness properties `RequestCompletes`,
`OpenBreakerRecovers`, `FailingBackendIsPublished`, `EventsSettle`,
`RevocationTakesHold`, `StaleAnswersEnd`, `CachesConverge` and `GrantedAgain`, for
which the prover would need ENABLED and fairness; of `TenantLicense` this is all
there is. The runs that expect a violation are counterexamples and need no proof.

## 6. Not modelled, and abstractions

Payloads, headers, URLs and messages are left out; an upstream attempt is its
outcome. Floating-point tokens are integers in units of 1/Window token, so the
rounding of `f64` is not seen. Counters compared with a threshold are capped at
it, so the wrap of `u32` after 2^32 failures is not seen. Counters of past budget
periods are forgotten. The breaker and limiter of several replicas are
independent in memory; Redis is one atomic store. `PROJECT.json` lists every
component left out with the reason.

Left out as a whole: the IP filter and the CEL cost expressions (pure functions
of a request), the LLM adapters, token counting and PII matching (conversion of
texts), embeddings, federation and smart routing, MCP sessions (nothing reads
them), CSRF and the role checks, the transport helpers, server assembly,
telemetry and the front end. The rule bodies of guardrails and plugins are free
choices; the similarity of embeddings is left out of `SemanticPolicy`.
`Completions` has texts as sequences of words, which is enough for different
parts to join to one key; the hash itself is taken to be injective. The contents
of `Guardrails` are words with a size in bytes. `LogPages` is one tenant and one
reader. `SsoLogin` trusts what the provider says of codes and tokens.

## 7. Plan

1. (done) the gateway engine and its parts, policies, authentication; theorems on
   the engine, the lockout and the tokens.
2. (done) audit and logs, licences and platform, tenants, completions, MCP,
   guardrails, plugins; theorems on the usage report, the link, quotas, single
   sign-on and MCP.
3. (done) theorems on every invariant the runs check and on both refinements.
4. To come: two request rates on one bucket, the composition of `ApiKeyAuth` with
   `ProxyHandler`, and safety properties of `TenantLicense`, whose liveness is
   all that is stated.
